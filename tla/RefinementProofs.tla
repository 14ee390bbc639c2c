---------------------------- MODULE RefinementProofs ----------------------------
(***************************************************************************)
(* The file-transfer pair implements Delivery: every step of a client, of  *)
(* the server, of the kernel and of a fault maps to a step of the abstract *)
(* service or changes nothing of it.                                       *)
(***************************************************************************)
EXTENDS FileTransferProofs

RInv == IInv /\ Opened

-----------------------------------------------------------------------------
(***************************************************************************)
(* The mapping.                                                            *)
(***************************************************************************)

\* The phase of a connection, before and after a step.
LEMMA PhaseAt ==
    /\ PhaseOf = [k \in Conn |-> PhaseOf[k]]
    /\ PhaseOf' = [k \in Conn |-> PhaseOf'[k]]
    /\ \A k \in Conn :
          /\ AtEof(k) => PhaseOf[k] = "delivered"
          /\ AtEof(k)' => PhaseOf'[k] = "delivered"
          /\ ~AtEof(k) /\ Broken(k) => PhaseOf[k] = "broken"
          /\ ~AtEof(k)' /\ Broken(k)' => PhaseOf'[k] = "broken"
          /\ ~AtEof(k) /\ ~Broken(k) => PhaseOf[k] =
                IF cli[k] = "closed" THEN "ended"
                ELSE IF cli[k] = "open" THEN "live" ELSE "new"
          /\ ~AtEof(k)' /\ ~Broken(k)' => PhaseOf'[k] =
                IF cli'[k] = "closed" THEN "ended"
                ELSE IF cli'[k] = "open" THEN "live" ELSE "new"
<1>1. /\ PhaseOf = [k \in Conn |-> PhaseOf[k]]
      /\ PhaseOf' = [k \in Conn |-> PhaseOf'[k]]
  BY DEF PhaseOf
<1>2. ASSUME NEW k \in Conn
      PROVE  /\ AtEof(k) => PhaseOf[k] = "delivered"
             /\ ~AtEof(k) /\ Broken(k) => PhaseOf[k] = "broken"
             /\ ~AtEof(k) /\ ~Broken(k) => PhaseOf[k] =
                   IF cli[k] = "closed" THEN "ended"
                   ELSE IF cli[k] = "open" THEN "live" ELSE "new"
  BY DEF PhaseOf
<1>3. ASSUME NEW k \in Conn
      PROVE  /\ AtEof(k)' => PhaseOf'[k] = "delivered"
             /\ ~AtEof(k)' /\ Broken(k)' => PhaseOf'[k] = "broken"
             /\ ~AtEof(k)' /\ ~Broken(k)' => PhaseOf'[k] =
                   IF cli'[k] = "closed" THEN "ended"
                   ELSE IF cli'[k] = "open" THEN "live" ELSE "new"
  BY DEF PhaseOf
<1>4. QED
  BY <1>1, <1>2, <1>3

\* What a connection that is neither delivered nor broken can still do.
Alive(k) == ~AtEof(k) /\ cli[k] # "none"

LEMMA AlivePhase ==
    ASSUME TypeOK, NEW k \in Conn, Alive(k)
    PROVE  PhaseOf[k] \in {"live", "ended", "broken"}
<1>1. cli[k] \in {"open", "closed"}
  BY DEF TypeOK, Alive
<1>2. QED
  BY <1>1, PhaseAt DEF Alive

\* A delivered connection stays so, whatever happens to it; so does a broken
\* one, and one of which nothing is heard.
LEMMA PhaseKept ==
    ASSUME NEW k \in Conn, AtEof(k)' <=> AtEof(k),
           \/ AtEof(k)
           \/ Broken(k) /\ Broken(k)'
           \/ (Broken(k)' <=> Broken(k)) /\ cli'[k] = cli[k]
    PROVE  PhaseOf'[k] = PhaseOf[k]
  BY PhaseAt

\* What the service sees: its step is one of Delivery's.
Implemented == [Abstract!Next]_(Abstract!vars)

LEMMA Stutter ==
    ASSUME UNCHANGED <<spc, cur, cli, srv, copied, got, rst, report>>
    PROVE  Implemented
  BY DEF Implemented, Abstract!vars, PhaseOf, AtEof, Broken, Serving

LEMMA BreakStep ==
    ASSUME TypeOK, NEW K \in SUBSET Conn,
           \A k \in K : Alive(k) /\ ~AtEof(k)' /\ Broken(k)',
           \A k \in Conn \ K : PhaseOf'[k] = PhaseOf[k],
           \/ Serving' = Serving
           \/ Serving \in K /\ Serving' = NoConn,
           UNCHANGED <<copied, got, report>>
    PROVE  Implemented
<1>1. \A k \in K : PhaseOf[k] \in {"live", "ended", "broken"}
  BY AlivePhase
<1>2. \A k \in K : PhaseOf'[k] = "broken"
  BY PhaseAt
<1>3. PhaseOf' = [k \in Conn |-> IF k \in K THEN "broken" ELSE PhaseOf[k]]
  BY <1>2, PhaseAt
<1>4. Abstract!Break(K)
  BY <1>1, <1>3 DEF Abstract!Break
<1>5. QED
  BY <1>4 DEF Implemented, Abstract!Next
-----------------------------------------------------------------------------
(***************************************************************************)
(* The clients' steps.                                                     *)
(***************************************************************************)

\* An open connection of a sending client is not delivered.
LEMMA OpenFacts ==
    ASSUME IInv, NEW c \in Clients, pc[c] = "sending"
    PROVE  LET k == Current(c) IN
           /\ k \in Conn /\ cli[k] = "open" /\ ~AtEof(k)
           /\ report[k] = NoReport
<1>1. Current(c) \in Conn
  BY CurrentFacts DEF IInv, OnBlock
<1>2. cli[Current(c)] = "open" /\ report[Current(c)] = NoReport
  BY DEF IInv, Accounted, AccountOf
<1>3. ~AtEof(Current(c))
  BY <1>1, <1>2 DEF IInv, EofBehindClose
<1>4. QED
  BY <1>1, <1>2, <1>3

\* What a client does to the endpoint of its connection alone.
LEMMA CloseSteps ==
    ASSUME RInv, NEW c \in Clients, pc[c] = "sending",
           cli' = [cli EXCEPT ![Current(c)] = "closed"],
           UNCHANGED <<spc, cur, srv, copied, got, rst, report>>
    PROVE  Implemented
<1> DEFINE k == Current(c)
<1>1. k \in Conn /\ cli[k] = "open" /\ ~AtEof(k)
  BY OpenFacts DEF RInv
<1>2. cli \in [Conn -> {"none", "open", "closed"}]
  BY DEF RInv, IInv, TypeOK
<1>3. \A m \in Conn : (AtEof(m)' <=> AtEof(m)) /\ (Broken(m)' <=> Broken(m))
  BY DEF AtEof, Broken
<1>4. \A m \in Conn \ {k} : PhaseOf'[m] = PhaseOf[m]
  BY <1>2, <1>3, PhaseKept
<1>5. Serving' = Serving
  BY DEF Serving
<1>6. cli'[k] = "closed"
  BY <1>1, <1>2
<1> HIDE DEF k
<1>7. CASE Broken(k)
  <2>1. PhaseOf'[k] = PhaseOf[k]
    BY <1>1, <1>3, <1>7, PhaseKept
  <2>2. PhaseOf' = PhaseOf
    BY <1>4, <2>1, PhaseAt
  <2>3. QED
    BY <1>5, <2>2 DEF Implemented, Abstract!vars
<1>8. CASE ~Broken(k)
  <2>1. PhaseOf[k] = "live" /\ PhaseOf'[k] = "ended"
    BY <1>1, <1>3, <1>6, <1>8, PhaseAt
  <2>2. PhaseOf' = [PhaseOf EXCEPT ![k] = "ended"]
    BY <1>1, <1>4, <2>1, PhaseAt
  <2>3. Abstract!End(k)
    BY <1>5, <2>1, <2>2 DEF Abstract!End
  <2>4. QED
    BY <1>1, <2>3 DEF Implemented, Abstract!Next
<1>9. QED
  BY <1>7, <1>8

LEMMA ConnectStep ==
    ASSUME RInv, NEW c \in Clients, Connect(c)
    PROVE  Implemented
<1>0. MoreBlocks(c) /\ TypeOK
  BY DEF RInv, IInv, OnBlock, Connect
<1>1. PICK k \in Conn : k = Current(c) /\ k[1] = c /\ k[2] = blk[c]
  BY <1>0, CurrentFacts
<1>2. cli[k] = "none" /\ srv[k] = "none" /\ ~rst[k]
  BY <1>1 DEF RInv, IInv, Untouched, Ahead, Connect
<1>3. /\ cli' = [cli EXCEPT ![k] = "open"]
      /\ srv' = [srv EXCEPT ![k] = "queued"]
      /\ UNCHANGED <<spc, cur, copied, got, rst, report>>
  BY <1>1 DEF Connect, serverVars
<1>4. spc = "drop" => srv[cur] = "open"
  BY DEF RInv, IInv, OneAtATime, CurOwned, OneConnectionServed
<1>5. ~AtEof(k) /\ ~AtEof(k)' /\ ~Broken(k) /\ ~Broken(k)' /\ cli'[k] = "open"
  BY <1>0, <1>1, <1>2, <1>3, <1>4 DEF AtEof, Broken, TypeOK
<1>6. PhaseOf[k] = "new" /\ PhaseOf'[k] = "live"
  BY <1>1, <1>2, <1>5, PhaseAt
<1>7. \A m \in Conn \ {k} : PhaseOf'[m] = PhaseOf[m]
  <2>1. ASSUME NEW m \in Conn \ {k}
        PROVE  /\ AtEof(m)' <=> AtEof(m)
               /\ Broken(m)' <=> Broken(m)
               /\ cli'[m] = cli[m]
    BY <1>0, <1>1, <1>3 DEF AtEof, Broken, TypeOK
  <2>2. QED
    BY <2>1, PhaseKept
<1>8. PhaseOf' = [PhaseOf EXCEPT ![k] = "live"]
  BY <1>1, <1>6, <1>7, PhaseAt
<1>9. Abstract!Begin(k)
  BY <1>3, <1>6, <1>8 DEF Abstract!Begin, Serving
<1>10. QED
  BY <1>1, <1>9 DEF Implemented, Abstract!Next

LEMMA SendStep ==
    ASSUME RInv, NEW c \in Clients, Send(c)
    PROVE  Implemented
<1> DEFINE k == Current(c)
<1>1. k \in Conn /\ cli[k] = "open" /\ ~AtEof(k) /\ report[k] = NoReport
  BY OpenFacts DEF RInv, Send, InCall
<1>2. /\ copied' = [copied EXCEPT ![k] = @ + 1]
      /\ UNCHANGED <<spc, cur, cli, srv, got, rst, report>>
  BY DEF Send, serverVars
<1> HIDE DEF k
<1>3. PhaseOf[k] \in {"live", "broken"}
  BY <1>1, PhaseAt
<1>4. PhaseOf' = PhaseOf /\ Serving' = Serving
  BY <1>2 DEF PhaseOf, AtEof, Broken, Serving
<1>5. Abstract!Put(k)
  BY <1>1, <1>2, <1>3, <1>4 DEF Abstract!Put, NoReport
<1>6. QED
  BY <1>1, <1>5 DEF Implemented, Abstract!Next

LEMMA ReportStep ==
    ASSUME RInv, NEW c \in Clients, Report(c)
    PROVE  Implemented
<1> DEFINE k == Current(c)
<1>1. TypeOK /\ k \in Conn
  BY CurrentFacts DEF RInv, IInv, OnBlock, Report
<1>2. cli[k] = "closed" /\ report[k] = NoReport /\ copied[k] = sent[c]
  BY DEF RInv, IInv, Closed, Report
<1>3. /\ report' = [report EXCEPT ![k] = Result(c)]
      /\ UNCHANGED <<spc, cur, cli, srv, copied, got, rst>>
  BY DEF Report, serverVars, connVars
<1>4. Result(c) = IF IsMsg(k) THEN Size(k) ELSE copied[k] \div KB
  BY <1>2 DEF Result
<1> HIDE DEF k
<1>5. PhaseOf[k] \in {"ended", "delivered", "broken"}
  BY <1>1, <1>2, PhaseAt
<1>6. PhaseOf' = PhaseOf /\ Serving' = Serving
  BY <1>3 DEF PhaseOf, AtEof, Broken, Serving
<1>7. /\ k \in {m \in Conn : IsMsg(m)} <=> IsMsg(k)
      /\ [m \in Conn |-> Size(m)][k] = Size(k)
  BY <1>1
<1>8. Abstract!Tell(k)
  BY <1>2, <1>3, <1>4, <1>5, <1>6, <1>7 DEF Abstract!Tell, NoReport
<1>9. QED
  BY <1>1, <1>8 DEF Implemented, Abstract!Next

LEMMA ClientImplements ==
    ASSUME RInv, NEW c \in Clients, ClientSide(c)
    PROVE  Implemented
<1>1. CASE \/ OpenSocket(c) \/ BindFails(c) \/ SocketFails(c)
           \/ ConnectFails(c) \/ SendCutByReset(c) \/ SendInterrupted(c)
           \/ ExitOk(c) \/ ClientVanishes(c)
  BY <1>1, Stutter DEF OpenSocket, BindFails, SocketFails, ConnectFails,
     SendCutByReset, SendInterrupted, ExitOk, ClientVanishes, serverVars,
     connVars
<1>2. CASE SendFails(c) \/ CloseSocket(c)
  BY <1>2, CloseSteps DEF SendFails, CloseSocket, InCall, serverVars
<1>3. CASE ClientKilled(c)
  <2>1. CASE pc[c] = "sending"
    BY <1>3, <2>1, CloseSteps DEF ClientKilled, serverVars
  <2>2. CASE pc[c] # "sending"
    BY <1>3, <2>2, Stutter DEF ClientKilled, serverVars
  <2>3. QED
    BY <2>1, <2>2
<1>4. QED
  BY <1>1, <1>2, <1>3, ConnectStep, SendStep, ReportStep
     DEF ClientSide, ClientStep, ClientFault
-----------------------------------------------------------------------------
(***************************************************************************)
(* The server's steps, the kernel's and the network's.                     *)
(***************************************************************************)

\* Outside of the reading loop no connection is open at the server.
LEMMA ServingFacts ==
    ASSUME IInv
    PROVE  /\ spc \in {"recv", "drop"} => cur \in Conn /\ srv[cur] = "open"
           /\ \A k \in Conn : srv[k] = "open" => spc \in {"recv", "drop"} /\ k = cur
  BY DEF IInv, OneAtATime, CurOwned, OneConnectionServed

\* Steps between the system calls, while no connection is served.
LEMMA IdleStep ==
    ASSUME spc \notin {"recv", "drop"}, spc' \notin {"recv", "drop"},
           UNCHANGED <<cli, srv, copied, got, rst, report>>
    PROVE  Implemented
<1>1. PhaseOf' = PhaseOf
  BY DEF PhaseOf, AtEof, Broken
<1>2. Serving' = Serving
  BY DEF Serving
<1>3. QED
  BY <1>1, <1>2 DEF Implemented, Abstract!vars

LEMMA AcceptStep ==
    ASSUME RInv, ServerAccept
    PROVE  Implemented
<1>0. TypeOK
  BY DEF RInv, IInv
<1>1. PICK k \in Conn : k = Head(queue) /\ srv[k] = "queued"
  BY DEF ServerAccept, RInv, IInv, OneAtATime, QueueFresh, TypeOK
<1>2. /\ spc = "accept" /\ spc' = "recv" /\ cur' = k
      /\ srv' = [srv EXCEPT ![k] = "open"]
      /\ UNCHANGED <<cli, copied, got, rst, report>>
  BY <1>1 DEF ServerAccept, clientVars
<1>3. Alive(k)
  BY <1>1, <1>2 DEF Alive, AtEof, RInv, Opened
<1>4. \A m \in Conn : PhaseOf'[m] = PhaseOf[m]
  <2>1. ASSUME NEW m \in Conn
        PROVE  (AtEof(m)' <=> AtEof(m)) /\ (Broken(m)' <=> Broken(m))
    BY <1>0, <1>1, <1>2 DEF AtEof, Broken, TypeOK
  <2>2. QED
    BY <1>2, <2>1, PhaseKept
<1>5. PhaseOf' = PhaseOf
  BY <1>4, PhaseAt
<1>6. Serving = NoConn /\ Serving' = k
  BY <1>2 DEF Serving
<1>7. Abstract!Serve(k)
  BY <1>0, <1>2, <1>3, <1>5, <1>6, AlivePhase DEF Abstract!Serve
<1>8. QED
  BY <1>7 DEF Implemented, Abstract!Next

LEMMA RecvStep ==
    ASSUME RInv, ServerRecv
    PROVE  Implemented
<1>1. TypeOK /\ cur \in Conn /\ RecvBuf \in Nat
  BY ServingFacts, TransferAssumption DEF RInv, IInv, ServerRecv
<1>2. PICK n \in 1..Min2(RecvBuf, copied[cur] - got[cur]) :
         got' = [got EXCEPT ![cur] = @ + n]
  BY DEF ServerRecv
<1>3. UNCHANGED <<spc, cur, cli, srv, copied, rst, report>> /\ spc = "recv"
  BY DEF ServerRecv, serverVars, clientVars
<1>4. n \in 1..(copied[cur] - got[cur])
  BY <1>1, <1>2 DEF Min2, TypeOK
<1>5. PhaseOf' = PhaseOf
  BY <1>3 DEF PhaseOf, AtEof, Broken
<1>6. Serving = cur /\ Serving' = cur
  BY <1>3 DEF Serving
<1>7. Abstract!Take(cur)
  BY <1>2, <1>3, <1>4, <1>5, <1>6 DEF Abstract!Take
<1>8. QED
  BY <1>1, <1>7 DEF Implemented, Abstract!Next

LEMMA EofStep ==
    ASSUME RInv, ServerEof
    PROVE  Implemented
<1>1. PICK k \in Conn : k = cur /\ srv[k] = "open"
  BY ServingFacts DEF RInv, ServerEof
<1>2. /\ spc = "recv" /\ spc' = "drop" /\ cli[k] = "closed" /\ ~rst[k]
      /\ got[k] = copied[k]
      /\ UNCHANGED <<cur, cli, srv, copied, got, rst, report>>
  BY <1>1 DEF ServerEof, connVars, clientVars
<1>3. PhaseOf[k] = "ended" /\ PhaseOf'[k] = "delivered"
  <2>1. ~AtEof(k) /\ ~Broken(k) /\ AtEof(k)'
    BY <1>1, <1>2 DEF AtEof, Broken
  <2>2. QED
    BY <1>2, <2>1, PhaseAt
<1>4. \A m \in Conn \ {k} : PhaseOf'[m] = PhaseOf[m]
  <2>1. ASSUME NEW m \in Conn \ {k}
        PROVE  (AtEof(m)' <=> AtEof(m)) /\ (Broken(m)' <=> Broken(m))
    BY <1>1, <1>2 DEF AtEof, Broken
  <2>2. QED
    BY <1>2, <2>1, PhaseKept
<1>5. PhaseOf' = [PhaseOf EXCEPT ![k] = "delivered"]
  BY <1>3, <1>4, PhaseAt
<1>6. Serving = k /\ Serving' = NoConn
  BY <1>1, <1>2 DEF Serving
<1>7. Abstract!Deliver(k)
  BY <1>2, <1>3, <1>5, <1>6 DEF Abstract!Deliver
<1>8. QED
  BY <1>7 DEF Implemented, Abstract!Next

\* The server closes a connection it has read to the end.
LEMMA DropStep ==
    ASSUME RInv, spc = "drop", spc' \notin {"recv", "drop"}, ReleaseCur("eof"),
           UNCHANGED <<cli, copied, got, rst, report>>
    PROVE  Implemented
<1>1. TypeOK /\ cur \in Conn
  BY ServingFacts DEF RInv, IInv
<1>2. srv' = [srv EXCEPT ![cur] = "eof"]
  BY DEF ReleaseCur
<1>3. ASSUME NEW k \in Conn PROVE PhaseOf'[k] = PhaseOf[k]
  <2>1. CASE k = cur
    BY <1>1, <1>2, <2>1, PhaseKept DEF AtEof, TypeOK
  <2>2. CASE k # cur
    <3>1. srv'[k] = srv[k]
      BY <1>1, <1>2, <2>2 DEF TypeOK
    <3>2. (AtEof(k)' <=> AtEof(k)) /\ (Broken(k)' <=> Broken(k))
      BY <2>2, <3>1 DEF AtEof, Broken
    <3>3. QED
      BY <3>2, PhaseKept
  <2>3. QED
    BY <2>1, <2>2
<1>4. PhaseOf' = PhaseOf
  BY <1>3, PhaseAt
<1>5. Serving' = Serving
  BY DEF Serving
<1>6. QED
  BY <1>4, <1>5 DEF Implemented, Abstract!vars

\* The server gives up the connection it reads from.
LEMMA GiveUpStep ==
    ASSUME RInv, NEW how \in {"err", "cut"}, spc = "recv",
           spc' \notin {"recv", "drop"}, ReleaseCur(how),
           rst' = rst \/ rst' = [rst EXCEPT ![cur] = @ \/ copied[cur] > got[cur]],
           UNCHANGED <<cli, copied, got, report>>
    PROVE  Implemented
<1>0. TypeOK
  BY DEF RInv, IInv
<1>1. PICK k \in Conn : k = cur /\ srv[k] = "open"
  BY ServingFacts DEF RInv
<1>2. srv' = [srv EXCEPT ![k] = how]
  BY <1>1 DEF ReleaseCur
<1>3. Alive(k) /\ ~AtEof(k)' /\ Broken(k)'
  BY <1>0, <1>1, <1>2 DEF Alive, AtEof, Broken, RInv, Opened, TypeOK
<1>4. ASSUME NEW m \in Conn \ {k} PROVE PhaseOf'[m] = PhaseOf[m]
  <2>1. srv'[m] = srv[m] /\ rst'[m] = rst[m]
    BY <1>0, <1>1, <1>2 DEF TypeOK
  <2>2. (AtEof(m)' <=> AtEof(m)) /\ (Broken(m)' <=> Broken(m))
    BY <2>1 DEF AtEof, Broken
  <2>3. QED
    BY <2>2, PhaseKept
<1>5. Serving = k /\ Serving' = NoConn
  BY <1>1 DEF Serving
<1>6. {k} \in SUBSET Conn
  OBVIOUS
<1>7. QED
  BY <1>0, <1>3, <1>4, <1>5, <1>6, BreakStep

\* The server process ends: what waits or is read breaks, what was read to its
\* end stays delivered.
LEMMA DieStep ==
    ASSUME RInv, NEW how \in SrvDown, ServerDies(how),
           UNCHANGED <<cli, copied, got, report>>
    PROVE  Implemented
<1> DEFINE K == {k \in Conn : \/ srv[k] = "queued"
                              \/ srv[k] = "open" /\ spc = "recv"}
<1>0. TypeOK /\ how \notin {"recv", "drop"} /\ spc' = how
  BY DEF RInv, IInv, SrvDown, ServerDies
<1>1. ASSUME NEW k \in Conn
      PROVE  /\ srv'[k] = IF srv[k] = "open" /\ spc = "drop" THEN "eof"
                          ELSE IF srv[k] \in {"queued", "open"} THEN "cut"
                          ELSE srv[k]
             /\ rst'[k] = (\/ rst[k]
                           \/ srv[k] = "queued"
                           \/ srv[k] = "open" /\ copied[k] > got[k])
  BY DEF ServerDies
<1>2. ASSUME NEW k \in K PROVE Alive(k) /\ ~AtEof(k)' /\ Broken(k)'
  <2>1. srv'[k] = "cut"
    BY <1>1
  <2>2. ~AtEof(k)' /\ Broken(k)'
    BY <1>0, <2>1 DEF AtEof, Broken
  <2>3. ~AtEof(k)
    BY ServingFacts DEF AtEof, RInv
  <2>4. QED
    BY <2>2, <2>3 DEF Alive, RInv, Opened
<1>3. ASSUME NEW k \in Conn \ K PROVE PhaseOf'[k] = PhaseOf[k]
  <2>1. CASE srv[k] = "open"
    <3>1. spc = "drop" /\ k = cur
      BY <2>1, ServingFacts DEF RInv
    <3>2. AtEof(k) /\ AtEof(k)'
      BY <1>1, <2>1, <3>1 DEF AtEof
    <3>3. QED
      BY <3>2, PhaseKept
  <2>2. CASE srv[k] # "open"
    <3>1. srv'[k] = srv[k] /\ (rst'[k] <=> rst[k])
      BY <1>1, <2>2
    <3>2. ~(spc = "drop" /\ k = cur)
      BY <2>2, ServingFacts DEF RInv
    <3>3. (AtEof(k)' <=> AtEof(k)) /\ (Broken(k)' <=> Broken(k))
      BY <1>0, <3>1, <3>2 DEF AtEof, Broken
    <3>4. QED
      BY <3>3, PhaseKept
  <2>3. QED
    BY <2>1, <2>2
<1>4. Serving' = NoConn
  BY <1>0 DEF Serving
<1>5. Serving \in K \cup {NoConn}
  BY ServingFacts DEF Serving, RInv
<1>6. K \in SUBSET Conn
  OBVIOUS
<1> HIDE DEF K
<1>7. QED
  BY <1>0, <1>2, <1>3, <1>4, <1>5, <1>6, BreakStep

\* A connection is reset.
LEMMA ResetStep ==
    ASSUME RInv, NEW k \in Conn,
           cli[k] = "open" \/ srv[k] \in {"queued", "open", "cut"},
           rst' = [rst EXCEPT ![k] = TRUE],
           UNCHANGED <<spc, cur, srv, cli, copied, got, report>>
    PROVE  Implemented
<1>0. TypeOK
  BY DEF RInv, IInv
<1>1. \A m \in Conn : AtEof(m)' <=> AtEof(m)
  BY DEF AtEof
<1>2. \A m \in Conn \ {k} : Broken(m)' <=> Broken(m)
  BY <1>0 DEF Broken, TypeOK
<1>3. \A m \in Conn \ {k} : PhaseOf'[m] = PhaseOf[m]
  BY <1>1, <1>2, PhaseKept
<1>4. Serving' = Serving
  BY DEF Serving
<1>5. CASE AtEof(k)
  <2>1. PhaseOf' = PhaseOf
    BY <1>1, <1>3, <1>5, PhaseKept, PhaseAt
  <2>2. QED
    BY <1>4, <2>1 DEF Implemented, Abstract!vars
<1>6. CASE ~AtEof(k)
  <2>1. Alive(k) /\ ~AtEof(k)'
    BY <1>1, <1>6 DEF Alive, RInv, Opened
  <2>2. Broken(k)'
    BY <1>0 DEF Broken, TypeOK
  <2>3. {k} \in SUBSET Conn
    OBVIOUS
  <2>4. QED
    BY <1>0, <1>3, <1>4, <2>1, <2>2, <2>3, BreakStep
<1>7. QED
  BY <1>5, <1>6

LEMMA ServerImplements ==
    ASSUME RInv, ServerSide
    PROVE  Implemented
<1>1. CASE \/ ServerStart \/ ServerListen \/ ServerRegist \/ ServerAcceptFails
           \/ ServerCatch
  BY <1>1, IdleStep DEF ServerStart, ServerListen, ServerRegist,
     ServerAcceptFails, ServerCatch, SrvDown, connVars, clientVars
<1>2. CASE ServerDrop
  BY <1>2, DropStep DEF ServerDrop, clientVars
<1>3. CASE ServerRecvFails
  BY <1>3, GiveUpStep DEF ServerRecvFails, clientVars
<1>4. CASE SigintCaught
  <2>1. spc' = "stop" /\ UNCHANGED <<cli, copied, got, report>>
    BY <1>4 DEF SigintCaught, clientVars
  <2>2. CASE spc = "accept"
    BY <1>4, <2>1, <2>2, IdleStep DEF SigintCaught
  <2>3. CASE spc = "recv"
    BY <1>4, <2>1, <2>3, GiveUpStep DEF SigintCaught
  <2>4. CASE spc = "drop"
    BY <1>4, <2>1, <2>4, DropStep DEF SigintCaught
  <2>5. QED
    BY <1>4, <2>2, <2>3, <2>4 DEF SigintCaught
<1>5. CASE \/ ServerExit \/ SigintEarly \/ SigintInHandler \/ SigintTerminates
           \/ ServerKilled
  BY <1>5, DieStep DEF ServerExit, SigintEarly, SigintInHandler,
     SigintTerminates, ServerKilled, SrvDown, clientVars
<1>6. ASSUME NEW k \in Conn, PeerReset(k) \/ NetReset(k)
      PROVE  Implemented
  BY <1>6, ResetStep DEF PeerReset, NetReset, serverVars, clientVars
<1>7. CASE Quiet
  BY <1>7, Stutter DEF Quiet, vars, serverVars, connVars, clientVars
<1>8. QED
  BY <1>1, <1>2, <1>3, <1>4, <1>5, <1>6, <1>7, AcceptStep, RecvStep, EofStep
     DEF ServerSide, ServerStep, ServerFault
-----------------------------------------------------------------------------
\* The pair of client and server implements the delivery service, with every
\* fault of the model: what one reader takes, when a connection counts as
\* delivered or broken, and what the writers are told
\* (file_transfer_client.cpp:14-70, file_transfer_server.cpp:48-84).
THEOREM Refinement == Spec => ImplementsDelivery
<1>1. Init => Abstract!Init
  <2>1. ASSUME Init PROVE PhaseOf = [k \in Conn |-> "new"]
    <3>1. \A k \in Conn : PhaseOf[k] = "new"
      BY <2>1, PhaseAt DEF Init, AtEof, Broken
    <3>2. QED
      BY <3>1, PhaseAt
  <2>2. Init => Serving = NoConn
    BY DEF Init, Serving
  <2>3. QED
    BY <2>1, <2>2 DEF Init, Abstract!Init, NoReport
<1>2. Init => RInv
  BY InitInvariant DEF RInv, Opened, Init
<1>3. RInv /\ [Next]_vars => RInv'
  BY StepInvariant, OpenedStep DEF RInv, IInv
<1>4. RInv /\ [Next]_vars => [Abstract!Next]_(Abstract!vars)
  BY NextSplit, ClientImplements, ServerImplements, Stutter
     DEF Implemented, vars, serverVars, connVars, clientVars
<1>5. QED
  BY <1>1, <1>2, <1>3, <1>4, PTL DEF Spec, ImplementsDelivery, Abstract!Spec
-----------------------------------------------------------------------------
(***************************************************************************)
(* What the service promises, and the pair with it.                        *)
(***************************************************************************)
LEMMA DeliverySettles == Abstract!Spec => []Abstract!Settled
<1>1. Abstract!Init => Abstract!Settled
  BY DEF Abstract!Init, Abstract!Settled, Abstract!Phases
<1>2. ASSUME Abstract!Settled, [Abstract!Next]_(Abstract!vars)
      PROVE  Abstract!Settled'
  <2> USE <1>2 DEF Abstract!Settled, Abstract!Phases
  <2>1. ASSUME NEW k \in Conn, Abstract!Begin(k) \/ Abstract!End(k)
        PROVE  Abstract!Settled'
    BY <2>1 DEF Abstract!Begin, Abstract!End
  <2>2. ASSUME NEW k \in Conn, Abstract!Put(k) PROVE Abstract!Settled'
    BY <2>2 DEF Abstract!Put
  <2>3. ASSUME NEW k \in Conn, Abstract!Serve(k) PROVE Abstract!Settled'
    BY <2>3 DEF Abstract!Serve
  <2>4. ASSUME NEW k \in Conn, Abstract!Take(k) PROVE Abstract!Settled'
    <3>1. PICK n \in 1..(copied[k] - got[k]) : got' = [got EXCEPT ![k] = got[k] + n]
      BY <2>4 DEF Abstract!Take
    <3> QED BY <2>4, <3>1 DEF Abstract!Take
  <2>5. ASSUME NEW k \in Conn, Abstract!Deliver(k) PROVE Abstract!Settled'
    BY <2>5, TransferAssumption DEF Abstract!Deliver
  <2>6. ASSUME NEW k \in Conn, Abstract!Tell(k) PROVE Abstract!Settled'
    BY <2>6 DEF Abstract!Tell
  <2>7. ASSUME NEW K \in SUBSET Conn, Abstract!Break(K) PROVE Abstract!Settled'
    BY <2>7, TransferAssumption DEF Abstract!Break
  <2>8. CASE UNCHANGED Abstract!vars
    BY <2>8 DEF Abstract!vars
  <2> QED
    BY <1>2, <2>1, <2>2, <2>3, <2>4, <2>5, <2>6, <2>7, <2>8 DEF Abstract!Next
<1> QED
  BY <1>1, <1>2, PTL DEF Abstract!Spec

\* In the service the end of a connection is final, for any connections,
\* requests and units.
LEMMA DeliveryIsFinal == Abstract!Spec => Abstract!Final
<1> DEFINE A ==
      \A k \in Conn :
          /\ PhaseOf[k] \in {"delivered", "broken"} => PhaseOf'[k] = PhaseOf[k]
          /\ PhaseOf[k] \in {"ended", "delivered"} => copied'[k] = copied[k]
          /\ PhaseOf[k] = "delivered" => got'[k] = got[k]
          /\ report[k] # -1 => report'[k] = report[k] /\ copied'[k] = copied[k]
<1>1. ASSUME Abstract!Settled, [Abstract!Next]_(Abstract!vars) PROVE A
  <2> USE <1>1 DEF Abstract!Settled
  <2>1. ASSUME NEW k \in Conn, Abstract!Begin(k) \/ Abstract!End(k) PROVE A
    BY <2>1 DEF Abstract!Begin, Abstract!End
  <2>2. ASSUME NEW k \in Conn, Abstract!Put(k) PROVE A
    BY <2>2 DEF Abstract!Put
  <2>3. ASSUME NEW k \in Conn, Abstract!Serve(k) PROVE A
    BY <2>3 DEF Abstract!Serve
  <2>4. ASSUME NEW k \in Conn, Abstract!Take(k) PROVE A
    BY <2>4 DEF Abstract!Take
  <2>5. ASSUME NEW k \in Conn, Abstract!Deliver(k) PROVE A
    BY <2>5 DEF Abstract!Deliver
  <2>6. ASSUME NEW k \in Conn, Abstract!Tell(k) PROVE A
    BY <2>6 DEF Abstract!Tell
  <2>7. ASSUME NEW K \in SUBSET Conn, Abstract!Break(K) PROVE A
    BY <2>7 DEF Abstract!Break
  <2>8. CASE UNCHANGED Abstract!vars
    BY <2>8 DEF Abstract!vars
  <2> QED
    BY <1>1, <2>1, <2>2, <2>3, <2>4, <2>5, <2>6, <2>7, <2>8 DEF Abstract!Next
<1>2. Abstract!Settled /\ [Abstract!Next]_(Abstract!vars) => [A]_(Abstract!vars)
  BY <1>1
<1> QED
  BY <1>2, DeliverySettles, PTL DEF Abstract!Spec, Abstract!Final

\* Once the server has seen the end of a connection, or it is broken, nothing
\* that clients, kernel, signals or restarts do changes that, the counts behind
\* it or what its client has printed (file_transfer_server.cpp:53-75,
\* file_transfer_client.cpp:55-69).
THEOREM EndIsFinal == Spec => Abstract!Final
  BY Refinement, DeliveryIsFinal, PTL DEF ImplementsDelivery
==============================================================================
