------------------------------ MODULE ChunkPlan ------------------------------
(***************************************************************************)
(* How a block of `kb` kilobytes is cut into send() calls of at most `b`   *)
(* bytes: the arithmetic at the head of FileTransferClient::transfer and   *)
(* of transfer_block in ecfexp_client.cxx and ecfexp_client2.cxx.  The     *)
(* byte count is an unsigned 64-bit value, the number of full calls is     *)
(* stored in an `int`; both widths are parameters, so that TLC reaches the *)
(* wrap-around with small numbers and the theorems hold for the real ones. *)
(***************************************************************************)
EXTENDS Integers

CONSTANTS KB,        \* bytes per kilobyte: 2^10 in the code (the shift by 10)
          Word,      \* values of std::uint64_t: 2^64
          IntRange   \* values of int: 2^32

ASSUME WidthAssumption ==
    /\ KB \in Nat \ {0}
    /\ Word \in Nat \ {0}
    /\ IntRange \in Nat \ {0}

\* kbytes << 10 on a std::uint64_t
Bytes(kb) == (kb * KB) % Word

\* the conversion of an unsigned 64-bit value to int: reduction modulo 2^32
\* into the two's complement range
ToInt(n) == LET m == n % IntRange
            IN  IF 2 * m < IntRange THEN m ELSE m - IntRange

\* int batch = (kbytes << 10) / send_buffer
Batch(kb, b) == ToInt(Bytes(kb) \div b)

\* auto res_size = (kbytes << 10) % send_buffer
Residue(kb, b) == Bytes(kb) % b

\* iterations of  for (int i = 0; i < batch; i++)
FullCalls(kb, b) == IF Batch(kb, b) > 0 THEN Batch(kb, b) ELSE 0

\* Mutated form: the call for the residue is forgotten.
CallsWithoutResidue(kb, b) == FullCalls(kb, b)

\* Mutated form: the residue is sent without looking whether it is empty.
CallsUnconditional(kb, b) == FullCalls(kb, b) + 1

\* the send() calls of one transfer: the full ones, and one for the residue
\* when it is not empty
Calls(kb, b) == FullCalls(kb, b) + (IF Residue(kb, b) # 0 THEN 1 ELSE 0)

\* Mutated form: every call sends the whole buffer.
CallLenAlwaysFull(kb, b, n) == b

\* the length argument of call number n (the first is number 0)
CallLen(kb, b, n) == IF n < FullCalls(kb, b) THEN b ELSE Residue(kb, b)

\* the bytes the first n calls ask for
Prefix(kb, b, n) == IF n <= FullCalls(kb, b)
                    THEN n * b
                    ELSE FullCalls(kb, b) * b + Residue(kb, b)

\* what the whole plan asks for
Planned(kb, b) == FullCalls(kb, b) * b + Residue(kb, b)

\* neither the shift nor the conversion to int loses anything
Fits(kb, b) == /\ kb * KB < Word
               /\ 2 * ((kb * KB) \div b) < IntRange
==============================================================================
