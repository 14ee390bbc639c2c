--------------------------- MODULE ChunkPlanProofs ---------------------------
(***************************************************************************)
(* The chunk plan for every block size, every buffer size and every width. *)
(***************************************************************************)
EXTENDS ChunkPlan, Sums, TLAPS, WellFoundedInduction

\* Induction, for a set of numbers: < is well founded on Nat, so what is left
\* of Nat would have a smallest element.
LEMMA Induction ==
    ASSUME NEW S, 0 \in S, \A n \in Nat : n \in S => n + 1 \in S
    PROVE  Nat \subseteq S
<1> DEFINE T == Nat \ S
           R == OpToRel(<, Nat)
<1>1. SUFFICES ASSUME T # {} PROVE FALSE
  OBVIOUS
<1>2. IsWellFoundedOn(R, Nat)
  BY NatLessThanWellFounded
<1>3. T \subseteq Nat
  OBVIOUS
<1>4. \E x \in T : \A y \in T : ~ (<<y, x>> \in R)
  <2> HIDE DEF T, R
  <2> QED BY <1>1, <1>2, <1>3, WFMin
<1>5. PICK x \in T : \A y \in T : ~ (<<y, x>> \in R)
  BY <1>4
<1>6. \A y, z \in Nat : y < z => <<y, z>> \in R
  BY DEF OpToRel
<1>7. x \in Nat /\ x \notin S /\ x # 0
  OBVIOUS
<1>8. x - 1 \in Nat /\ x - 1 < x /\ (x - 1) + 1 = x
  BY <1>7
<1>9. x - 1 \in S
  BY <1>5, <1>6, <1>7, <1>8
<1>10. QED
  BY <1>7, <1>8, <1>9

\* g holds the running totals of a up to n.
Totals(g, a, n) == /\ g[0] = 0
                   /\ \A i \in 1..n : g[i] = g[i - 1] + a[i - 1]

\* There are running totals up to any n: one more step extends them.
LEMMA TotalsExist ==
    ASSUME NEW a
    PROVE  \A n \in Nat : \E g : Totals(g, a, n)
<1> DEFINE S == {n \in Nat : \E g : Totals(g, a, n)}
<1>1. 0 \in S
  <2> DEFINE g == [i \in {0} |-> 0]
  <2>1. Totals(g, a, 0)
    BY DEF Totals
  <2> QED BY <2>1
<1>2. ASSUME NEW n \in Nat, n \in S PROVE n + 1 \in S
  <2>1. PICK g : Totals(g, a, n)
    BY <1>2
  <2> DEFINE h == [i \in 0..(n + 1) |-> IF i = n + 1 THEN g[n] + a[n] ELSE g[i]]
  <2>2. \A i \in 0..n : h[i] = g[i]
    OBVIOUS
  <2>3. h[n + 1] = g[n] + a[n]
    OBVIOUS
  <2> HIDE DEF h
  <2>4. ASSUME NEW i \in 1..(n + 1) PROVE h[i] = h[i - 1] + a[i - 1]
    <3>1. CASE i = n + 1
      BY <2>2, <2>3, <3>1
    <3>2. CASE i # n + 1
      <4>1. i \in 1..n /\ i - 1 \in 0..n /\ i \in 0..n
        BY <3>2
      <4> QED BY <2>1, <2>2, <4>1 DEF Totals
    <3> QED BY <3>1, <3>2
  <2>5. h[0] = 0
    BY <2>1, <2>2 DEF Totals
  <2> QED BY <2>4, <2>5 DEF Totals
<1> HIDE DEF S
<1>3. Nat \subseteq S
  BY <1>1, <1>2, Induction
<1> QED BY <1>3 DEF S

\* There is only one way to add up.
LEMMA TotalsAgree ==
    ASSUME NEW a, NEW n \in Nat, NEW m \in Nat, n <= m, NEW g, NEW h,
           Totals(g, a, n), Totals(h, a, m)
    PROVE  g[n] = h[n]
<1> DEFINE S == {i \in Nat : i <= n => g[i] = h[i]}
<1>1. 0 \in S
  BY DEF Totals
<1>2. ASSUME NEW i \in Nat, i \in S PROVE i + 1 \in S
  <2>1. SUFFICES ASSUME i + 1 <= n PROVE g[i + 1] = h[i + 1]
    OBVIOUS
  <2>2. i + 1 \in 1..n /\ i + 1 \in 1..m /\ (i + 1) - 1 = i /\ i <= n
    BY <2>1
  <2>3. g[i + 1] = g[i] + a[i] /\ h[i + 1] = h[i] + a[i]
    BY <2>2 DEF Totals
  <2> QED BY <1>2, <2>2, <2>3
<1> HIDE DEF S
<1>3. n \in S
  BY <1>1, <1>2, Induction
<1> QED BY <1>3 DEF S

\* The recursive function of Sums exists and satisfies its recursion, whatever
\* is added up.
THEOREM SumOfRecursion ==
    ASSUME NEW a
    PROVE  /\ SumOf(a)[0] = 0
           /\ \A n \in Nat : SumOf(a)[n + 1] = SumOf(a)[n] + a[n]
<1> DEFINE G(n) == CHOOSE g : Totals(g, a, n)
           f == [n \in Nat |-> G(n)[n]]
           Def(g) == [n \in Nat |-> IF n = 0 THEN 0 ELSE g[n - 1] + a[n - 1]]
<1>1. \A n \in Nat : Totals(G(n), a, n)
  BY TotalsExist
<1>2. f[0] = 0
  BY <1>1 DEF Totals
<1>3. ASSUME NEW n \in Nat PROVE f[n + 1] = f[n] + a[n]
  <2>1. Totals(G(n), a, n) /\ Totals(G(n + 1), a, n + 1)
    BY <1>1
  <2> HIDE DEF G
  <2>2. G(n)[n] = G(n + 1)[n]
    BY <2>1, TotalsAgree
  <2>3. n + 1 \in 1..(n + 1) /\ (n + 1) - 1 = n
    OBVIOUS
  <2>4. G(n + 1)[n + 1] = G(n + 1)[n] + a[n]
    BY <2>1, <2>3 DEF Totals
  <2> QED BY <2>2, <2>4
<1>4. f = Def(f)
  <2>1. ASSUME NEW n \in Nat PROVE f[n] = IF n = 0 THEN 0 ELSE f[n - 1] + a[n - 1]
    <3>1. CASE n = 0
      BY <1>2, <3>1
    <3>2. CASE n # 0
      <4>1. n - 1 \in Nat /\ (n - 1) + 1 = n
        BY <3>2
      <4>2. f[(n - 1) + 1] = f[n - 1] + a[n - 1]
        BY <1>3, <4>1
      <4> HIDE DEF f
      <4> QED BY <3>2, <4>1, <4>2
    <3> QED BY <3>1, <3>2
  <2>2. f = [n \in Nat |-> f[n]]
    OBVIOUS
  <2> HIDE DEF f
  <2> QED BY <2>1, <2>2
<1>5. \E g : g = Def(g)
  BY <1>4
<1>6. SumOf(a) = CHOOSE g : g = Def(g)
  BY DEF SumOf
<1>7. SumOf(a) = Def(SumOf(a))
  <2> DEFINE s == SumOf(a)
  <2> HIDE DEF Def
  <2> QED BY <1>5, <1>6
<1> DEFINE s == SumOf(a)
<1>8. s = [n \in Nat |-> IF n = 0 THEN 0 ELSE s[n - 1] + a[n - 1]]
  BY <1>7
<1> HIDE DEF s
<1>9. s[0] = 0
  BY <1>8
<1>10. ASSUME NEW n \in Nat PROVE s[n + 1] = s[n] + a[n]
  <2>1. n + 1 \in Nat /\ n + 1 # 0 /\ (n + 1) - 1 = n
    OBVIOUS
  <2>2. s[n + 1] = s[(n + 1) - 1] + a[(n + 1) - 1]
    BY ONLY <1>8, <2>1
  <2> QED BY <2>1, <2>2
<1> QED BY <1>9, <1>10 DEF s

-----------------------------------------------------------------------------

\* Quotient and remainder: the one arithmetic fact the rest is built on.
LEMMA DivMod ==
    ASSUME NEW n \in Nat, NEW d \in Nat \ {0}
    PROVE  /\ n \div d \in Nat
           /\ n % d \in 0..(d - 1)
           /\ n = (n \div d) * d + (n % d)
  OBVIOUS

\* The shifted block is a natural number.
LEMMA BytesNat ==
    ASSUME NEW kb \in Nat
    PROVE  Bytes(kb) \in Nat
<1>1. kb * KB \in Nat
  BY WidthAssumption
<1>2. QED
  BY <1>1, DivMod, WidthAssumption DEF Bytes

\* A conversion to int gives an integer, and the number itself when it fits.
LEMMA ToIntFacts ==
    ASSUME NEW n \in Nat
    PROVE  /\ ToInt(n) \in Int
           /\ 2 * n < IntRange => ToInt(n) = n
<1>1. IntRange \in Nat \ {0}
  BY WidthAssumption
<1>2. n % IntRange \in Nat
  BY <1>1, DivMod
<1>3. ASSUME 2 * n < IntRange PROVE n % IntRange = n
  BY <1>1, <1>3
<1>4. QED
  BY <1>1, <1>2, <1>3 DEF ToInt

\* The parts of a plan are natural numbers and the residue is less than a
\* buffer (file_transfer_client.cpp:18-20).
LEMMA PlanParts ==
    ASSUME NEW kb \in Nat, NEW b \in Nat \ {0}
    PROVE  /\ FullCalls(kb, b) \in Nat
           /\ Residue(kb, b) \in 0..(b - 1)
           /\ Calls(kb, b) \in Nat
<1>1. Bytes(kb) \in Nat
  BY BytesNat
<1>2. Bytes(kb) \div b \in Nat /\ Residue(kb, b) \in 0..(b - 1)
  BY <1>1, DivMod DEF Residue
<1>3. Batch(kb, b) \in Int
  BY <1>2, ToIntFacts DEF Batch
<1>4. FullCalls(kb, b) \in Nat
  BY <1>3 DEF FullCalls
<1>5. QED
  BY <1>2, <1>4 DEF Calls

\* Every send() call asks for at least one byte and at most a buffer, for
\* every block, also when the number of calls has wrapped around.
THEOREM CallInBuffer ==
    ASSUME NEW kb \in Nat, NEW b \in Nat \ {0}, NEW n \in 0..(Calls(kb, b) - 1)
    PROVE  CallLen(kb, b, n) \in 1..b
<1>1. /\ FullCalls(kb, b) \in Nat
      /\ Residue(kb, b) \in 0..(b - 1)
      /\ Calls(kb, b) \in Nat
  BY PlanParts
<1>2. CASE n < FullCalls(kb, b)
  BY <1>2 DEF CallLen
<1>3. CASE ~(n < FullCalls(kb, b))
  <2>1. Residue(kb, b) # 0
    BY <1>1, <1>3 DEF Calls
  <2>2. QED
    BY <1>1, <1>3, <2>1 DEF CallLen
<1>4. QED
  BY <1>2, <1>3

\* Call number n takes the running total from Prefix(n) to Prefix(n + 1).
LEMMA PrefixStep ==
    ASSUME NEW kb \in Nat, NEW b \in Nat \ {0}, NEW n \in 0..(Calls(kb, b) - 1)
    PROVE  Prefix(kb, b, n + 1) = Prefix(kb, b, n) + CallLen(kb, b, n)
<1>1. /\ FullCalls(kb, b) \in Nat
      /\ Residue(kb, b) \in 0..(b - 1)
  BY PlanParts
<1>2. CASE n < FullCalls(kb, b)
  <2>1. (n + 1) * b = n * b + b
    OBVIOUS
  <2>2. Prefix(kb, b, n + 1) = (n + 1) * b /\ Prefix(kb, b, n) = n * b
    BY <1>1, <1>2 DEF Prefix
  <2>3. QED
    BY <1>2, <2>1, <2>2 DEF CallLen
<1>3. CASE n = FullCalls(kb, b)
  BY <1>1, <1>3 DEF Prefix, CallLen
<1>4. n <= FullCalls(kb, b)
  BY <1>1 DEF Calls
<1>5. QED
  BY <1>1, <1>2, <1>3, <1>4

\* The running total is a natural number; it starts at 0 and ends at the plan.
LEMMA PrefixEnds ==
    ASSUME NEW kb \in Nat, NEW b \in Nat \ {0}
    PROVE  /\ Prefix(kb, b, 0) = 0
           /\ Prefix(kb, b, Calls(kb, b)) = Planned(kb, b)
           /\ Planned(kb, b) \in Nat
<1>1. /\ FullCalls(kb, b) \in Nat
      /\ Residue(kb, b) \in 0..(b - 1)
  BY PlanParts
<1>2. FullCalls(kb, b) * b \in Nat
  BY <1>1
<1>3. Prefix(kb, b, 0) = 0
  BY <1>1 DEF Prefix
<1>4. Prefix(kb, b, Calls(kb, b)) = Planned(kb, b)
  BY <1>1, <1>2 DEF Prefix, Calls, Planned
<1>5. QED
  BY <1>1, <1>2, <1>3, <1>4 DEF Planned

\* When neither the shift nor the int conversion loses anything, the plan asks
\* for exactly the kilobytes of the block (file_transfer_client.cpp:18-21).
THEOREM PlanExact ==
    ASSUME NEW kb \in Nat, NEW b \in Nat \ {0}, Fits(kb, b)
    PROVE  Planned(kb, b) = kb * KB
<1> DEFINE m == kb * KB
<1>1. m \in Nat
  BY WidthAssumption
<1>2. Bytes(kb) = m
  <2>1. m < Word /\ Word \in Nat \ {0}
    BY WidthAssumption DEF Fits
  <2>2. QED
    BY <1>1, <2>1 DEF Bytes
<1>3. m \div b \in Nat /\ m = (m \div b) * b + (m % b)
  BY <1>1, DivMod
<1>4. Batch(kb, b) = m \div b
  BY <1>2, <1>3, ToIntFacts DEF Batch, Fits
<1>5. FullCalls(kb, b) = m \div b
  BY <1>3, <1>4 DEF FullCalls
<1>6. Residue(kb, b) = m % b
  BY <1>2 DEF Residue
<1>7. QED
  BY <1>3, <1>5, <1>6 DEF Planned

\* The closed form of the running total is the sum of the calls, one by one.
LEMMA CallsAddUp ==
    ASSUME NEW kb \in Nat, NEW b \in Nat \ {0}
    PROVE  \A n \in 0..Calls(kb, b) :
              SumOf([m \in Nat |-> CallLen(kb, b, m)])[n] = Prefix(kb, b, n)
<1> DEFINE a == [m \in Nat |-> CallLen(kb, b, m)]
           S == {n \in Nat : n <= Calls(kb, b) => SumOf(a)[n] = Prefix(kb, b, n)}
<1>1. Calls(kb, b) \in Nat
  BY PlanParts
<1>2. 0 \in S
  BY SumOfRecursion, PrefixEnds
<1>3. ASSUME NEW n \in Nat, n \in S PROVE n + 1 \in S
  <2>1. SUFFICES ASSUME n + 1 <= Calls(kb, b)
                 PROVE  SumOf(a)[n + 1] = Prefix(kb, b, n + 1)
    OBVIOUS
  <2>2. n \in 0..(Calls(kb, b) - 1)
    BY <1>1, <2>1
  <2>3. SumOf(a)[n] = Prefix(kb, b, n)
    BY <1>1, <1>3, <2>2
  <2>4. SumOf(a)[n + 1] = SumOf(a)[n] + a[n]
    <3> HIDE DEF a
    <3> QED BY SumOfRecursion
  <2>5. a[n] = CallLen(kb, b, n)
    OBVIOUS
  <2>6. Prefix(kb, b, n + 1) = Prefix(kb, b, n) + CallLen(kb, b, n)
    BY <2>2, PrefixStep
  <2> HIDE DEF a
  <2> QED BY <2>3, <2>4, <2>5, <2>6
<1>4. Nat \subseteq S
  <2> HIDE DEF S
  <2> QED BY <1>2, <1>3, Induction
<1> QED
  BY <1>1, <1>4

\* Reducing to the range of an int never makes a number larger, and makes one
\* that does not fit smaller.
LEMMA ToIntAtMost ==
    ASSUME NEW n \in Nat
    PROVE  /\ ToInt(n) <= n
           /\ ~(2 * n < IntRange) => ToInt(n) < n
<1>1. IntRange \in Nat \ {0}
  BY WidthAssumption
<1> DEFINE q == n \div IntRange
           r == n % IntRange
<1>2. q \in Nat /\ r \in Nat /\ n = q * IntRange + r
  BY <1>1, DivMod
<1>3. q * IntRange \in Nat /\ (q # 0 => q * IntRange > 0) /\ (q = 0 => q * IntRange = 0)
  BY <1>1, <1>2
<1>4. ToInt(n) = IF 2 * r < IntRange THEN r ELSE r - IntRange
  BY DEF ToInt
<1> HIDE DEF q, r
<1>5. CASE q = 0
  BY <1>1, <1>2, <1>3, <1>4, <1>5
<1>6. CASE q # 0
  BY <1>1, <1>2, <1>3, <1>4, <1>6
<1> QED
  BY <1>5, <1>6

\* More calls of a buffer are more bytes.
LEMMA FewerCalls ==
    ASSUME NEW b \in Nat \ {0}, NEW m \in Nat, NEW n \in Nat, m <= n
    PROVE  m * b <= n * b /\ (m < n => m * b < n * b)
<1>1. PICK d \in Nat : n = m + d /\ (m < n => d # 0)
  <2>1. n - m \in Nat /\ n = m + (n - m)
    OBVIOUS
  <2> QED BY <2>1
<1>2. n * b = m * b + d * b
  BY <1>1
<1>3. d * b \in Nat /\ m * b \in Nat /\ (d # 0 => d * b > 0)
  BY <1>1
<1> QED
  BY <1>1, <1>2, <1>3

\* A plan asks for no more than the shifted block, and for less of it when the
\* number of full calls does not fit an int.
LEMMA PlanOfBytes ==
    ASSUME NEW kb \in Nat, NEW b \in Nat \ {0}
    PROVE  /\ Planned(kb, b) \in Nat
           /\ Planned(kb, b) <= Bytes(kb)
           /\ ~(2 * (Bytes(kb) \div b) < IntRange) => Planned(kb, b) < Bytes(kb)
<1> DEFINE n == Bytes(kb)
           q == n \div b
           full == FullCalls(kb, b)
           res == Residue(kb, b)
<1>1. n \in Nat
  BY BytesNat
<1>2. q \in Nat /\ res \in Nat /\ n = q * b + res
  <2>1. res = n % b
    BY DEF Residue
  <2> HIDE DEF n, res
  <2> QED BY <1>1, <2>1, DivMod
<1>3. full \in Nat /\ full <= q /\ (~(2 * q < IntRange) => full < q)
  <2>1. Batch(kb, b) = ToInt(q)
    BY DEF Batch
  <2>2. full = IF ToInt(q) > 0 THEN ToInt(q) ELSE 0
    BY <2>1 DEF FullCalls
  <2> HIDE DEF q, full
  <2>3. /\ ToInt(q) \in Int /\ ToInt(q) <= q
        /\ ~(2 * q < IntRange) => ToInt(q) < q
    BY <1>2, ToIntFacts, ToIntAtMost
  <2>4. IntRange \in Nat \ {0}
    BY WidthAssumption
  <2> QED BY <1>2, <2>2, <2>3, <2>4
<1>4. Planned(kb, b) = full * b + res
  BY DEF Planned
<1> HIDE DEF n, q, full, res
<1>5. full * b <= q * b /\ (full < q => full * b < q * b)
  BY <1>2, <1>3, FewerCalls
<1>6. full * b \in Nat /\ q * b \in Nat
  BY <1>2, <1>3
<1>7. /\ Planned(kb, b) \in Nat /\ Planned(kb, b) <= n
      /\ ~(2 * q < IntRange) => Planned(kb, b) < n
  BY <1>1, <1>2, <1>3, <1>4, <1>5, <1>6
<1> QED
  BY <1>7 DEF n, q

\* The plan never asks for more than the block, and asks for less as soon as
\* the shift or the conversion to int loses anything: there is no lucky
\* wrap-around (file_transfer_client.cpp:18-21).
THEOREM PlanShortUnlessFits ==
    ASSUME NEW kb \in Nat, NEW b \in Nat \ {0}
    PROVE  /\ Planned(kb, b) <= kb * KB
           /\ ~Fits(kb, b) => Planned(kb, b) < kb * KB
<1> DEFINE m == kb * KB
           n == Bytes(kb)
<1>1. m \in Nat /\ Word \in Nat \ {0}
  BY WidthAssumption
<1>2. n \in Nat /\ n <= m /\ n < Word /\ (m < Word => n = m)
  <2>1. n = m % Word
    BY DEF Bytes
  <2> HIDE DEF m, n
  <2>2. (m \div Word) \in Nat /\ n \in 0..(Word - 1) /\ m = (m \div Word) * Word + n
    BY <1>1, <2>1, DivMod
  <2>3. (m \div Word) * Word \in Nat
    BY <1>1, <2>2
  <2>4. m < Word => n = m
    BY <1>1, <2>1
  <2> QED BY <1>1, <2>2, <2>3, <2>4
<1>3. /\ Planned(kb, b) \in Nat /\ Planned(kb, b) <= n
      /\ ~(2 * (n \div b) < IntRange) => Planned(kb, b) < n
  BY PlanOfBytes
<1>4. Fits(kb, b) <=> m < Word /\ 2 * (m \div b) < IntRange
  BY DEF Fits
<1> HIDE DEF m, n
<1>5. Planned(kb, b) <= m /\ (~Fits(kb, b) => Planned(kb, b) < m)
  <2>1. CASE m < Word
    <3>1. n = m
      BY <1>2, <2>1
    <3> QED BY <1>3, <1>4, <2>1, <3>1
  <2>2. CASE ~(m < Word)
    BY <1>1, <1>2, <1>3, <2>2
  <2> QED BY <2>1, <2>2
<1> QED
  BY <1>5 DEF m
=============================================================================
