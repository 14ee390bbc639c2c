----------------------------- MODULE StartupProofs -----------------------------
(***************************************************************************)
(* Theorems about the start of a program, for every option and kernel.     *)
(***************************************************************************)
EXTENDS Startup, TLAPS

\* The number of steps before the socket is opened, and before connect().
BeforeSocket == IF prog = "client" THEN 1 ELSE 0
BeforeConnect == IF prog = "client" THEN 4 ELSE IF prog = "msg" THEN 2 ELSE 3

\* The step a program is at tells how far it has come.
LEMMA StepPlace ==
    ASSUME prog \in Programs, at \in Nat
    PROVE  /\ Len(Order[prog]) \in Nat
           /\ Len(Order[prog]) > BeforeSocket + 1
           /\ AtStep("socket") => at = BeforeSocket
           /\ AtStep("option") => at = BeforeSocket + 1
           /\ AtStep("divide") => at < BeforeSocket
           /\ (\/ AtStep("reuse") \/ AtStep("bind") \/ AtStep("connect")
               \/ AtStep("buffer") \/ AtStep("listen")) => at > BeforeSocket + 1
           /\ AtStep("connect") => prog # "server" /\ at = BeforeConnect
           /\ AtStep("listen") => prog = "server" /\ at = Len(Order[prog]) - 1
           /\ prog \in {"client", "msg"} => Len(Order[prog]) = BeforeConnect + 1
<1> USE DEF AtStep, Order, BeforeSocket, BeforeConnect
<1>1. CASE prog = "client"
  BY <1>1
<1>2. CASE prog = "msg"
  BY <1>2
<1>3. CASE prog = "timed"
  BY <1>3
<1>4. CASE prog = "ecf"
  BY <1>4
<1>5. CASE prog = "server"
  BY <1>5
<1>6. QED
  BY <1>1, <1>2, <1>3, <1>4, <1>5 DEF Programs

\* The socket is of the kind asked for.
Asked == /\ Multipath => \/ opt.version = 0 /\ sock = "mptcp0"
                         \/ opt.version = 1 /\ sock = "mptcp1"
         /\ opt.tcp => \/ sock = "plain"
                       \/ sock = "mptcp0" /\ opt.version # 0 /\ kernel.always

\* With version 0 it is so only after its option has been set.
SocketKind ==
    pc \in {"setup", "loop"} =>
        /\ at > BeforeSocket + 1 => Asked
        /\ at = BeforeSocket + 1 /\ opt.version # 0 => Asked

\* What is noticed comes from the last steps, and only before the last one can
\* a program still end.
Noticed ==
    /\ at <= Len(Order[prog])
    /\ seen # {} => \/ seen = {"connection"} /\ prog # "server" /\ at > BeforeConnect
                    \/ seen = {"listener"} /\ prog = "server" /\ at = Len(Order[prog])
    /\ pc \in Ended => at < Len(Order[prog])
    /\ pc = "loop" => at = Len(Order[prog])
    /\ pc = "main" => at = 0

IInv == TypeOK /\ SocketKind /\ Noticed

LEMMA StartInvariant == Init => IInv
<1> SUFFICES ASSUME Init PROVE IInv
  OBVIOUS
<1>1. TypeOK
  BY DEF Init, TypeOK
<1>2. prog \in Programs /\ at = 0 /\ at \in Nat /\ pc = "main" /\ seen = {}
  BY DEF Init
<1>3. Len(Order[prog]) \in Nat
  BY <1>2, StepPlace
<1>4. SocketKind /\ Noticed
  BY <1>2, <1>3 DEF SocketKind, Noticed, Ended
<1>5. QED
  BY <1>1, <1>4 DEF IInv

\* A step that leaves the socket alone.
LEMMA OtherStep ==
    ASSUME IInv, UNCHANGED <<prog, opt, kernel, sock>>,
           pc \in {"main", "setup"},
           \/ at' = at + 1 /\ pc = "setup" /\ pc' = "setup" /\ at < Len(Order[prog])
              /\ (at < BeforeSocket \/ at > BeforeSocket + 1)
           \/ at' = at /\ pc' \in Ended /\ at < Len(Order[prog])
           \/ at' = at /\ pc = "main" /\ pc' = "setup" /\ at = 0
           \/ at' = at /\ pc = "setup" /\ pc' = "loop" /\ at = Len(Order[prog]),
           \/ seen' = seen /\ (seen # {} => at' = at \/ prog # "server")
           \/ /\ seen' = {"connection"} /\ prog # "server" /\ at' > BeforeConnect
              /\ pc' = "setup"
           \/ /\ seen' = {"listener"} /\ prog = "server" /\ at' = Len(Order[prog])
              /\ pc' = "setup"
    PROVE  IInv'
<1>0. /\ TypeOK /\ SocketKind /\ Noticed
      /\ prog \in Programs /\ at \in Nat
      /\ Len(Order[prog]) \in Nat /\ Len(Order[prog]) > BeforeSocket + 1
  BY StepPlace DEF IInv, TypeOK
<1>1. BeforeSocket' = BeforeSocket /\ BeforeConnect' = BeforeConnect
  BY DEF BeforeSocket, BeforeConnect
<1>2. BeforeSocket \in Nat /\ BeforeConnect \in Nat
  BY DEF BeforeSocket, BeforeConnect
<1>3. Asked' <=> Asked
  BY DEF Asked, Multipath
<1>4. TypeOK'
  <2>1. seen' \subseteq {"connection", "listener"}
    BY <1>0 DEF TypeOK
  <2>2. at' \in Nat
    BY <1>0
  <2>3. pc' \in {"main", "setup", "loop"} \cup Ended
    BY DEF Ended
  <2>4. QED
    BY <1>0, <2>1, <2>2, <2>3 DEF TypeOK
<1>5. SocketKind'
  BY <1>0, <1>1, <1>2, <1>3 DEF SocketKind, Ended
<1>6. Noticed'
  BY <1>0, <1>1, <1>2 DEF Noticed, Ended
<1>7. QED
  BY <1>4, <1>5, <1>6 DEF IInv

LEMMA StepInvariant ==
    ASSUME IInv, [Next]_vars
    PROVE  IInv'
<1>0. /\ TypeOK /\ SocketKind /\ Noticed
      /\ prog \in Programs /\ at \in Nat /\ BeforeSocket \in Nat
      /\ BeforeConnect \in Nat
  BY DEF IInv, TypeOK, BeforeSocket, BeforeConnect
<1>p. /\ Len(Order[prog]) \in Nat
      /\ Len(Order[prog]) > BeforeSocket + 1
      /\ AtStep("socket") => at = BeforeSocket
      /\ AtStep("option") => at = BeforeSocket + 1
      /\ AtStep("divide") => at < BeforeSocket
      /\ (\/ AtStep("reuse") \/ AtStep("bind") \/ AtStep("connect")
          \/ AtStep("buffer") \/ AtStep("listen")) => at > BeforeSocket + 1
      /\ AtStep("connect") => prog # "server" /\ at = BeforeConnect
      /\ AtStep("listen") => prog = "server" /\ at = Len(Order[prog]) - 1
  BY <1>0, StepPlace
<1>f. ASSUME NEW step, AtStep(step), Ends("failed") \/ Ends("aborted") \/ Ends("trapped"),
             UNCHANGED <<prog, opt, kernel, sock, seen>>
      PROVE  IInv'
  <2>1. pc = "setup" /\ at < Len(Order[prog]) /\ at' = at /\ pc' \in Ended
    BY <1>f DEF AtStep, Ends, Ended
  <2>2. QED
    BY <1>f, <2>1, OtherStep
<1>d. ASSUME NEW step, AtStep(step), Done,
             at < BeforeSocket \/ at > BeforeSocket + 1,
             UNCHANGED <<prog, opt, kernel, sock, seen>>,
             seen # {} => prog # "server"
      PROVE  IInv'
  <2>1. pc = "setup" /\ at < Len(Order[prog]) /\ at' = at + 1 /\ pc' = "setup"
    BY <1>d DEF AtStep, Done
  <2>2. QED
    BY <1>d, <2>1, OtherStep
<1>s. ASSUME NEW step, AtStep(step), seen # {} PROVE prog # "server"
  BY <1>0, <1>s DEF Noticed, AtStep
<1>1. CASE ReadLine
  <2>1. /\ pc = "main" /\ at' = at /\ pc' \in {"setup"} \cup Ended
        /\ UNCHANGED <<prog, opt, kernel, sock, seen>>
    BY <1>1 DEF ReadLine, Ended
  <2>2. at = 0
    BY <1>0, <2>1 DEF Noticed
  <2>3. 0 < Len(Order[prog])
    BY <1>0, <1>p
  <2>4. QED
    BY <2>1, <2>2, <2>3, OtherStep
<1>2. CASE DivideBlock
  <2>1. AtStep("divide") /\ UNCHANGED <<prog, opt, kernel, sock, seen>>
    BY <1>2 DEF DivideBlock
  <2>2. Done \/ Ends("trapped")
    BY <1>2 DEF DivideBlock
  <2>3. QED
    BY <1>d, <1>f, <1>p, <1>s, <2>1, <2>2
<1>3. CASE OpenSocket
  <2>1. /\ at = BeforeSocket /\ pc = "setup" /\ pc' = "setup" /\ at' = at + 1
        /\ UNCHANGED <<prog, opt, kernel, seen>>
        /\ \/ ~(Multipath /\ opt.version # 0) /\ sock' = DefaultKind
           \/ Multipath /\ opt.version = 1 /\ sock' = "mptcp1"
    BY <1>3, <1>p DEF OpenSocket, AtStep, Done
  <2>2. UNCHANGED BeforeSocket /\ UNCHANGED BeforeConnect
    BY <2>1 DEF BeforeSocket, BeforeConnect
  <2>3. opt.version # 0 => Asked'
    BY <2>1 DEF Asked, Multipath, DefaultKind
  <2>4. SocketKind'
    BY <1>0, <2>1, <2>2, <2>3 DEF SocketKind
  <2>5. seen = {}
    BY <1>0, <1>p, <2>1 DEF Noticed, BeforeSocket, BeforeConnect
  <2>6. Noticed'
    BY <1>0, <1>p, <2>1, <2>5 DEF Noticed, Ended
  <2>7. TypeOK'
    BY <1>0, <2>1 DEF TypeOK, DefaultKind
  <2>8. QED
    BY <2>4, <2>6, <2>7 DEF IInv
<1>4. CASE SetOption
  <2>1. /\ at = BeforeSocket + 1 /\ pc = "setup" /\ pc' = "setup" /\ at' = at + 1
        /\ at < Len(Order[prog])
        /\ UNCHANGED <<prog, opt, kernel, seen>>
        /\ \/ opt.version # 0 /\ sock' = sock
           \/ opt.version = 0 /\ sock' = IF Multipath THEN "mptcp0" ELSE "plain"
    BY <1>4, <1>p DEF SetOption, AtStep, Done
  <2>2. UNCHANGED BeforeSocket /\ UNCHANGED BeforeConnect
    BY <2>1 DEF BeforeSocket, BeforeConnect
  <2>3. Asked'
    <3>1. CASE opt.version # 0
      <4>1. Asked
        BY <1>0, <2>1, <3>1 DEF SocketKind
      <4>2. QED
        BY <2>1, <3>1, <4>1 DEF Asked, Multipath
    <3>2. CASE opt.version = 0
      BY <2>1, <3>2 DEF Asked, Multipath
    <3>3. QED
      BY <3>1, <3>2
  <2>4. SocketKind'
    BY <2>3 DEF SocketKind
  <2>5. seen = {}
    BY <1>0, <1>p, <2>1 DEF Noticed, BeforeSocket, BeforeConnect
  <2>6. Noticed'
    BY <1>0, <1>p, <2>1, <2>5 DEF Noticed, Ended
  <2>7. TypeOK'
    BY <1>0, <2>1 DEF TypeOK
  <2>8. QED
    BY <2>4, <2>6, <2>7 DEF IInv
<1>5. CASE SocketFails \/ SetOptionFails \/ BindFails \/ ConnectFails
  BY <1>5, <1>f DEF SocketFails, SetOptionFails, BindFails, ConnectFails, Fails
<1>6. CASE SetReuseAddr \/ Bind \/ CreateBuffer
  <2>1. PICK step \in {"reuse", "bind", "buffer"} :
           /\ AtStep(step) /\ UNCHANGED <<prog, opt, kernel, sock, seen>>
           /\ Done \/ Ends("failed") \/ Ends("aborted")
    BY <1>6 DEF SetReuseAddr, Bind, CreateBuffer
  <2>2. at > BeforeSocket + 1
    BY <1>p, <2>1
  <2>3. QED
    BY <1>d, <1>f, <1>s, <2>1, <2>2
<1>7. CASE Connect
  <2>1. /\ at = BeforeConnect /\ at > BeforeSocket + 1 /\ prog # "server"
        /\ pc = "setup" /\ pc' = "setup" /\ at' = at + 1 /\ at < Len(Order[prog])
        /\ seen' = seen \cup {"connection"}
        /\ UNCHANGED <<prog, opt, kernel, sock>>
    BY <1>7, <1>p DEF Connect, AtStep, Done
  <2>2. seen = {}
    BY <1>0, <2>1 DEF Noticed
  <2>3. QED
    BY <1>0, <2>1, <2>2, OtherStep
<1>8. CASE Listen
  <2>1. /\ at = Len(Order[prog]) - 1 /\ at > BeforeSocket + 1 /\ prog = "server"
        /\ pc = "setup" /\ UNCHANGED <<prog, opt, kernel, sock>>
        /\ \/ pc' = "setup" /\ at' = at + 1 /\ seen' = seen \cup {"listener"}
           \/ pc' = "failed" /\ at' = at /\ seen' = seen
    BY <1>8, <1>p DEF Listen, AtStep, Done, Ends
  <2>2. seen = {}
    BY <1>0, <1>p, <2>1 DEF Noticed
  <2>3. at < Len(Order[prog])
    BY <1>p, <2>1
  <2>4. QED
    BY <1>0, <1>p, <2>1, <2>2, <2>3, OtherStep DEF Ended
<1>9. CASE EnterLoop
  BY <1>9, OtherStep DEF EnterLoop
<1>10. CASE UNCHANGED vars
  <2>1. UNCHANGED <<BeforeSocket, BeforeConnect, Asked>>
    BY <1>10 DEF vars, BeforeSocket, BeforeConnect, Asked, Multipath
  <2>2. TypeOK'
    BY <1>0, <1>10 DEF TypeOK, vars
  <2>3. SocketKind'
    BY <1>0, <1>10, <2>1 DEF SocketKind, vars
  <2>4. Noticed'
    BY <1>0, <1>10, <2>1 DEF Noticed, vars
  <2>5. QED
    BY <2>2, <2>3, <2>4 DEF IInv
<1>11. QED
  BY <1>1, <1>2, <1>3, <1>4, <1>5, <1>6, <1>7, <1>8, <1>9, <1>10 DEF Next, Over

\* The inductive invariant holds in every reachable state.
THEOREM Invariance == Spec => []IInv
  BY StartInvariant, StepInvariant, PTL DEF Spec

\* No program works with another kind of socket than it was asked for, but for
\* the one case AskedProtocol names (file_transfer_client.cpp:26-45 and copies).
THEOREM ProtocolIsAsked == Spec => []AskedProtocol
<1>1. IInv => AskedProtocol
  <2> SUFFICES ASSUME IInv, pc = "loop" PROVE Asked
    BY DEF Asked, AskedProtocol
  <2>1. at > BeforeSocket + 1
    BY StepPlace DEF IInv, TypeOK, Noticed
  <2>2. QED
    BY <2>1 DEF IInv, SocketKind
<1>2. QED
  BY <1>1, Invariance, PTL

\* Nobody notices a start that comes to nothing, but for the clients that create
\* their buffer after connect() (file_transfer_server.cpp:49-50, time_client.cxx:91-96).
THEOREM FailedStartIsUnseen == Spec => []StartsClean
<1>1. IInv => StartsClean
  <2> SUFFICES ASSUME IInv, pc \in Ended, seen # {}
               PROVE  prog \in {"timed", "ecf"} /\ seen = {"connection"}
    BY DEF StartsClean
  <2>1. /\ prog \in Programs /\ at \in Nat /\ Len(Order[prog]) \in Nat
        /\ at < Len(Order[prog]) /\ BeforeConnect \in Nat
        /\ prog \in {"client", "msg"} => Len(Order[prog]) = BeforeConnect + 1
    BY StepPlace DEF IInv, TypeOK, Noticed, BeforeConnect
  <2>2. seen = {"connection"} /\ prog # "server" /\ at > BeforeConnect
    BY <2>1 DEF IInv, Noticed
  <2>3. QED
    BY <2>1, <2>2 DEF Programs
<1>2. QED
  BY <1>1, Invariance, PTL

\* Every variable keeps its type.
THEOREM TypeCorrect == Spec => []TypeOK
  BY Invariance, PTL DEF IInv
==============================================================================
