---------------------------- MODULE GeneratorProofs ----------------------------
(***************************************************************************)
(* The three guided generators share what they were given, each index      *)
(* once, for every width of the unsigned integers, range, grain size and   *)
(* process count.                                                          *)
(***************************************************************************)
EXTENDS Generators, TLAPS

\* A number that is in range is not changed by wrapping around.
LEMMA NoWrap == ASSUME NEW a \in UInt PROVE a % Modulus = a
  BY ModulusAssumption DEF UInt

\* The quotient of unsigned integers is not larger than the dividend.
LEMMA QuotientRange ==
    ASSUME NEW a \in Nat, NEW p \in Nat \ {0}
    PROVE  a \div p \in 0..a
<1>1. a \div p \in Nat
  OBVIOUS
<1>2. p * (a \div p) <= a
  OBVIOUS
<1>3. (a \div p) <= p * (a \div p)
  <2> DEFINE q == a \div p
  <2>1. q \in Nat /\ p >= 1
    BY <1>1
  <2>2. \A x \in Nat, y \in Nat : y >= 1 => x <= y * x
    OBVIOUS
  <2> QED
    BY <2>1, <2>2
<1> QED
  BY <1>1, <1>2, <1>3

\* The next chunk is not empty and not longer than what remains.
LEMMA NextCountRange ==
    ASSUME NEW r \in UInt, r # 0, NEW g \in UInt, NEW p \in UInt, p # 0
    PROVE  NextCount(r, g, p) \in 1..r
<1>1. r \in Nat /\ r >= 1 /\ r <= Modulus - 1 /\ g \in Nat /\ p \in Nat \ {0}
  BY ModulusAssumption DEF UInt
<1>2. Minus(r, 1) = r - 1
  <2>1. r - 1 \in UInt
    BY <1>1, ModulusAssumption DEF UInt
  <2> QED
    BY <2>1, NoWrap DEF Minus
<1>3. (r - 1) \div p \in 0..(r - 1)
  BY <1>1, QuotientRange
<1>4. Share(r, p) \in 1..r
  <2> DEFINE q == (r - 1) \div p
  <2>1. q \in 0..(r - 1)
    BY <1>3
  <2> HIDE DEF q
  <2>2. q + 1 \in UInt /\ q + 1 \in 1..r
    BY <1>1, <2>1, ModulusAssumption DEF UInt
  <2>3. Plus(q, 1) = q + 1
    BY <2>2, NoWrap DEF Plus
  <2>4. Share(r, p) = Plus(q, 1)
    BY <1>2 DEF Share, q
  <2> QED
    BY <2>2, <2>3, <2>4
<1> QED
  BY <1>1, <1>4 DEF NextCount, AtMost, AtLeast

\* The inductive invariant: the types and the property itself.
IInv == TypeOK /\ ChunksTile

\* The generator begins without chunks at the begin of the range.
LEMMA InitInv == Init => IInv
<1> SUFFICES ASSUME Init PROVE IInv
  OBVIOUS
<1>1. range[1] \in Int /\ range[2] \in Int /\ range[1] <= range[2]
  BY RangesAssumption DEF Init, UInt
<1>2. TypeOK
  <2>1. << >> \in Seq(UInt \X UInt)
    OBVIOUS
  <2>2. current \in range[1]..range[2]
    BY <1>1 DEF Init
  <2> QED
    BY <2>1, <2>2 DEF Init, TypeOK
<1>3. ChunksTile
  BY <1>1 DEF Init, ChunksTile, BeginOf
<1> QED
  BY <1>2, <1>3 DEF IInv

\* A chunk begins at current, ends where current goes, and stays in the range.
LEMMA StepInv == IInv /\ [Next]_vars => IInv'
<1> SUFFICES ASSUME IInv, [Next]_vars PROVE IInv'
  OBVIOUS
<1>0. /\ range[1] \in UInt /\ range[2] \in UInt /\ range[1] <= range[2]
      /\ grain \in UInt /\ processes \in UInt /\ processes # 0
      /\ current \in UInt /\ range[1] <= current /\ current <= range[2]
      /\ current \in Int /\ range[1] \in Int /\ range[2] \in Int
      /\ chunks \in Seq(UInt \X UInt)
  BY RangesAssumption, GrainSizesAssumption, ProcessCountsAssumption,
     ModulusAssumption DEF IInv, TypeOK, UInt
<1>1. CASE Generate
  <2> DEFINE n == NextCount(Remaining, grain, processes)
  <2>1. Remaining = range[2] - current /\ Remaining \in UInt /\ Remaining # 0
    <3>1. range[2] - current \in UInt
      BY <1>0, ModulusAssumption DEF UInt
    <3> QED
      BY <1>1, <3>1, NoWrap DEF Remaining, Minus, Generate
  <2>2. n \in 1..(range[2] - current)
    BY <1>0, <2>1, NextCountRange
  <2>3. chunks' = Append(chunks, <<current, Plus(current, n)>>)
        /\ current' = Plus(current, n)
        /\ UNCHANGED <<range, grain, processes, done>> /\ ~done
    BY <1>1 DEF Generate
  <2> HIDE DEF n
  <2>4. current + n \in UInt /\ current < current + n /\ current + n <= range[2]
    BY <1>0, <2>2, ModulusAssumption DEF UInt
  <2>5. Plus(current, n) = current + n
    BY <2>4, NoWrap DEF Plus
  <2>6. TypeOK'
    <3>1. <<current, current + n>> \in UInt \X UInt
      BY <1>0, <2>4
    <3>2. chunks' \in Seq(UInt \X UInt)
      BY <1>0, <2>3, <2>5, <3>1
    <3>3. current' \in range'[1]..range'[2]
      BY <1>0, <2>3, <2>4, <2>5, <2>2
    <3> QED
      BY <2>3, <3>2, <3>3 DEF IInv, TypeOK
  <2>7. ChunksTile'
    <3> DEFINE k == Len(chunks)
    <3>1. /\ k \in Nat /\ Len(chunks') = k + 1
          /\ chunks'[k + 1] = <<current, current + n>>
          /\ \A i \in 1..k : chunks'[i] = chunks[i]
      BY <1>0, <2>3, <2>5
    <3>2. \A i \in 1..(k + 1) : BeginOf(i)' = BeginOf(i)
      BY <3>1, <2>3 DEF BeginOf
    <3>3. current = BeginOf(k + 1)
      BY DEF IInv, ChunksTile
    <3>4. ASSUME NEW i \in 1..(k + 1)
          PROVE  chunks'[i][1] = BeginOf(i)' /\ chunks'[i][1] < chunks'[i][2]
      <4>1. CASE i = k + 1
        BY <3>1, <3>2, <3>3, <2>4, <4>1
      <4>2. CASE i \in 1..k
        BY <3>1, <3>2, <4>2 DEF IInv, ChunksTile
      <4> QED
        BY <3>1, <4>1, <4>2
    <3>5. current' = BeginOf(Len(chunks) + 1)'
      BY <3>1, <2>3, <2>5 DEF BeginOf
    <3> QED
      BY <3>1, <3>4, <3>5, <2>3, <2>4, <2>5 DEF ChunksTile
  <2> QED
    BY <2>6, <2>7 DEF IInv
<1>2. CASE Finish
  <2>1. range[2] = current
    <3>1. range[2] - current \in UInt
      BY <1>0, ModulusAssumption DEF UInt
    <3>2. range[2] - current = 0
      BY <1>2, <3>1, NoWrap DEF Finish, Remaining, Minus
    <3> QED
      BY <1>0, <3>2
  <2> QED
    BY <1>2, <2>1 DEF Finish, IInv, TypeOK, ChunksTile, BeginOf
<1>3. CASE UNCHANGED vars
  BY <1>3 DEF vars, IInv, TypeOK, ChunksTile, BeginOf
<1> QED
  BY <1>1, <1>2, <1>3 DEF Next, Stopped

\* In every reachable state the types are right and the chunks tile the part of
\* the range that s_p_gss_generator has produced.
THEOREM Invariance == Spec => []IInv
<1> QED
  BY InitInv, StepInv, PTL DEF Spec

\* The tasks s_p_gss_generator writes are the range begin..end-1 cut into
\* consecutive chunks that are not empty, whatever the range, the grain size
\* and the process count, and nothing wraps around.
THEOREM GssChunksTile == Spec => []ChunksTile
<1>1. IInv => ChunksTile
  BY DEF IInv
<1> QED
  BY Invariance, <1>1, PTL

\* The state of s_p_gss_generator has its types; current stays in the range.
THEOREM GssTypeCorrect == Spec => []TypeOK
<1>1. IInv => TypeOK
  BY DEF IInv
<1> QED
  BY Invariance, <1>1, PTL

-----------------------------------------------------------------------------
(***************************************************************************)
(* The chunks of s_p_gss_generator get smaller, down to the grain size.    *)
(***************************************************************************)

\* What is not less stays so when it is multiplied.
LEMMA TimesMonotone ==
    ASSUME NEW x \in Int, NEW y \in Int, NEW m \in Nat, x <= y PROVE x * m <= y * m
<1>1. y - x \in Nat
  OBVIOUS
<1>2. (y - x) * m \in Nat
  BY <1>1
<1>3. (y - x) * m = y * m - x * m
  OBVIOUS
<1>4. x * m \in Int /\ y * m \in Int
  OBVIOUS
<1> QED
  BY <1>2, <1>3, <1>4

\* The quotient, and what it leaves.
LEMMA Quotient ==
    ASSUME NEW a \in Nat, NEW p \in Nat \ {0}
    PROVE  /\ a \div p \in Nat /\ (a \div p) * p <= a /\ a < (a \div p + 1) * p
OBVIOUS

\* The quotient of what is not less is not less.
LEMMA QuotientMonotone ==
    ASSUME NEW a \in Nat, NEW b \in Nat, a <= b, NEW p \in Nat \ {0}
    PROVE  a \div p <= b \div p
<1> DEFINE q == a \div p  s == b \div p
<1>1. q \in Nat /\ s \in Nat /\ q * p <= a /\ b < (s + 1) * p
  BY Quotient
<1> HIDE DEF q, s
<1>2. ASSUME s + 1 <= q PROVE FALSE
  <2>1. (s + 1) * p <= q * p
    BY <1>1, <1>2, TimesMonotone
  <2>2. (s + 1) * p \in Int /\ q * p \in Int
    BY <1>1
  <2> QED
    BY <1>1, <2>1, <2>2
<1>3. q <= s
  BY <1>1, <1>2
<1> QED
  BY <1>3 DEF q, s

\* NextCount without the wrapping around, which does not happen.
LEMMA NextCountIs ==
    ASSUME NEW r \in UInt, r # 0, NEW g \in UInt, NEW p \in UInt, p # 0
    PROVE  NextCount(r, g, p) = AtMost(AtLeast((r - 1) \div p + 1, g), r)
<1>1. r \in Nat /\ r >= 1 /\ r <= Modulus - 1 /\ p \in Nat \ {0}
  BY ModulusAssumption DEF UInt
<1>2. Minus(r, 1) = r - 1
  <2>1. r - 1 \in UInt
    BY <1>1, ModulusAssumption DEF UInt
  <2> QED
    BY <2>1, NoWrap DEF Minus
<1> DEFINE q == (r - 1) \div p
<1>3. q \in 0..(r - 1)
  BY <1>1, QuotientRange
<1>4. Share(r, p) = Plus(q, 1)
  BY <1>2 DEF Share
<1> HIDE DEF q
<1>5. q + 1 \in UInt
  BY <1>1, <1>3, ModulusAssumption DEF UInt
<1>6. Plus(q, 1) = q + 1
  BY <1>5, NoWrap DEF Plus
<1> QED
  BY <1>4, <1>6 DEF NextCount, q

\* The less remains, the smaller the next chunk.
LEMMA NextCountMonotone ==
    ASSUME NEW r \in UInt, NEW s \in UInt, r # 0, r <= s,
           NEW g \in UInt, NEW p \in UInt, p # 0
    PROVE  NextCount(r, g, p) <= NextCount(s, g, p)
<1>1. /\ r \in Nat /\ r >= 1 /\ s \in Nat /\ s # 0 /\ g \in Nat /\ p \in Nat \ {0}
      /\ r - 1 \in Nat /\ s - 1 \in Nat /\ r - 1 <= s - 1
  BY ModulusAssumption DEF UInt
<1> DEFINE a == (r - 1) \div p  b == (s - 1) \div p
<1>2. a <= b
  BY <1>1, QuotientMonotone
<1>3. a \in Nat /\ b \in Nat
  BY <1>1, QuotientRange
<1>4. /\ NextCount(r, g, p) = AtMost(AtLeast(a + 1, g), r)
      /\ NextCount(s, g, p) = AtMost(AtLeast(b + 1, g), s)
  BY <1>1, NextCountIs
<1> HIDE DEF a, b
<1>5. AtMost(AtLeast(a + 1, g), r) <= AtMost(AtLeast(b + 1, g), s)
  BY <1>1, <1>2, <1>3 DEF AtMost, AtLeast
<1> QED
  BY <1>4, <1>5

\* A chunk is not shorter than the grain size unless it is all that remains.
LEMMA NextCountGrain ==
    ASSUME NEW r \in UInt, r # 0, NEW g \in UInt, NEW p \in UInt, p # 0
    PROVE  NextCount(r, g, p) >= g \/ NextCount(r, g, p) = r
<1>1. r \in Nat /\ r >= 1 /\ g \in Nat /\ p \in Nat \ {0} /\ r - 1 \in Nat
  BY ModulusAssumption DEF UInt
<1> DEFINE a == (r - 1) \div p
<1>2. a \in Nat
  BY <1>1, QuotientRange
<1>3. NextCount(r, g, p) = AtMost(AtLeast(a + 1, g), r)
  BY <1>1, NextCountIs
<1> HIDE DEF a
<1>4. AtMost(AtLeast(a + 1, g), r) >= g \/ AtMost(AtLeast(a + 1, g), r) = r
  BY <1>1, <1>2 DEF AtMost, AtLeast
<1> QED
  BY <1>3, <1>4

\* What is enough for k more chunks of length m is enough for k - 1 of them
\* after the next chunk, m the grain size or 1.
LEMMA EnoughIsLeft ==
    ASSUME NEW r \in UInt, r # 0, NEW g \in UInt, NEW p \in UInt, p # 0,
           NEW k \in Int, k <= p, r >= k * AtLeast(g, 1)
    PROVE  r - NextCount(r, g, p) >= (k - 1) * AtLeast(g, 1)
<1> DEFINE m == AtLeast(g, 1)  q == (r - 1) \div p  n == NextCount(r, g, p)
<1>1. /\ r \in Nat /\ r >= 1 /\ g \in Nat /\ p \in Nat \ {0} /\ r - 1 \in Nat
  BY ModulusAssumption DEF UInt
<1>2. m \in Nat /\ m >= 1 /\ g <= m /\ r >= k * m
  BY <1>1 DEF AtLeast
<1>3. q \in Nat /\ q * p <= r - 1
  BY <1>1, Quotient
<1>4. n = AtMost(AtLeast(q + 1, g), r)
  BY <1>1, NextCountIs
<1>5. n \in 1..r
  BY <1>1, NextCountRange
<1> HIDE DEF m, q, n
<1>6. n <= m \/ (q >= m /\ n <= q + 1)
  BY <1>1, <1>2, <1>3, <1>4, <1>5 DEF AtMost, AtLeast
<1> DEFINE A == k * m  B == (k - 1) * m  C == (p - 1) * q  D == (p - 1) * m  Q == q * p
<1>7. /\ A \in Int /\ B \in Int /\ C \in Int /\ D \in Int /\ Q \in Int
      /\ B = A - m /\ C = Q - q
  BY <1>1, <1>2, <1>3
<1>8. r >= A /\ Q <= r - 1
  BY <1>2, <1>3
<1>9. ASSUME q >= m PROVE B <= C
  <2>1. p - 1 \in Nat /\ k - 1 <= p - 1 /\ k - 1 \in Int
    BY <1>1
  <2>2. m * (p - 1) <= q * (p - 1)
    BY <1>2, <1>3, <1>9, <2>1, TimesMonotone
  <2>3. m * (p - 1) = D /\ q * (p - 1) = C
    BY <1>2, <1>3, <2>1
  <2>4. B <= D
    BY <1>2, <2>1, TimesMonotone
  <2> HIDE DEF A, B, C, D, Q
  <2> QED
    BY <1>7, <2>2, <2>3, <2>4
<1> HIDE DEF A, B, C, D, Q
<1>10. r - n >= B
  <2>1. CASE n <= m
    BY <1>1, <1>2, <1>5, <1>7, <1>8, <2>1
  <2>2. CASE q >= m /\ n <= q + 1
    BY <1>1, <1>3, <1>5, <1>7, <1>8, <1>9, <2>2
  <2> QED
    BY <1>6, <2>1, <2>2
<1> QED
  BY <1>10 DEF n, m, B

\* Guided, and why the next chunk is not longer than the last one and what
\* remains is enough for the chunks that are missing.
Least == AtLeast(grain, 1)

GuidedInv ==
    /\ \A i, j \in 1..Len(chunks) : i < j => Length(j) <= Length(i)
    /\ chunks # << >> /\ Remaining # 0 =>
          NextCount(Remaining, grain, processes) <= Length(Len(chunks))
    /\ \A i \in 1..Len(chunks) :
          Length(i) >= grain \/ (i = Len(chunks) /\ current = range[2])
    /\ range[2] - range[1] >= processes * Least =>
          range[2] - current >= (processes - Len(chunks)) * Least

\* What the types say of the numbers.
LEMMA GssNumbers ==
    ASSUME TypeOK
    PROVE  /\ range[1] \in UInt /\ range[2] \in UInt /\ grain \in UInt
           /\ processes \in UInt /\ processes # 0
           /\ current \in UInt /\ range[1] <= current /\ current <= range[2]
           /\ range[2] - current \in UInt /\ Remaining = range[2] - current
           /\ UInt \subseteq Nat /\ Least \in Nat /\ Least >= 1
           /\ Len(chunks) \in Nat /\ chunks \in Seq(UInt \X UInt)
<1>1. UInt \subseteq Nat
  BY ModulusAssumption DEF UInt
<1>2. /\ range[1] \in UInt /\ range[2] \in UInt /\ grain \in UInt
      /\ processes \in UInt /\ processes # 0 /\ current \in range[1]..range[2]
      /\ chunks \in Seq(UInt \X UInt)
  BY RangesAssumption, GrainSizesAssumption, ProcessCountsAssumption DEF TypeOK
<1>3. /\ current \in UInt /\ range[1] <= current /\ current <= range[2]
      /\ range[2] - current \in UInt
  BY <1>2, ModulusAssumption DEF UInt
<1>4. Remaining = range[2] - current
  BY <1>3, NoWrap DEF Remaining, Minus
<1>5. Least \in Nat /\ Least >= 1
  BY <1>1, <1>2 DEF Least, AtLeast
<1> QED
  BY <1>1, <1>2, <1>3, <1>4, <1>5

\* A chunk that has been produced is a pair of numbers.
LEMMA GssChunkType ==
    ASSUME TypeOK, NEW i \in 1..Len(chunks)
    PROVE  chunks[i][1] \in Nat /\ chunks[i][2] \in Nat /\ Length(i) \in Int
<1>1. chunks[i] \in UInt \X UInt
  BY GssNumbers
<1>2. chunks[i][1] \in Nat /\ chunks[i][2] \in Nat
  BY <1>1, GssNumbers
<1> QED
  BY <1>2 DEF Length

\* Nothing has been produced, and the whole range remains.
LEMMA InitGuided == Init => GuidedInv
<1> SUFFICES ASSUME Init PROVE GuidedInv
  OBVIOUS
<1>1. TypeOK
  BY InitInv DEF IInv
<1>2. chunks = << >> /\ Len(chunks) = 0 /\ current = range[1]
  BY DEF Init
<1>3. processes - 0 = processes
  BY <1>1, GssNumbers
<1> QED
  BY <1>2, <1>3 DEF GuidedInv

\* The new chunk is not longer than the last one, and the one after it will
\* not be longer than the new chunk.
LEMMA GenerateGuided ==
    ASSUME TypeOK, GuidedInv, Generate,
           NEW n, n = NextCount(Remaining, grain, processes), NEW k, k = Len(chunks)
    PROVE  GuidedInv'
<1>1. /\ range[2] \in Nat /\ current \in Nat /\ current <= range[2]
      /\ grain \in UInt /\ processes \in UInt /\ processes # 0 /\ processes \in Nat
      /\ Remaining \in UInt /\ Remaining # 0 /\ Remaining = range[2] - current
      /\ k \in Nat /\ chunks \in Seq(UInt \X UInt) /\ grain \in Nat
  BY GssNumbers DEF Generate
<1>2. n \in 1..Remaining
  BY <1>1, NextCountRange
<1>3. Plus(current, n) = current + n /\ current + n \in UInt
  <2>1. current + n \in UInt
    <3>1. current + n \in Nat /\ current + n <= range[2]
      BY <1>1, <1>2
    <3>2. range[2] \in UInt
      BY GssNumbers
    <3> QED
      BY <3>1, <3>2, ModulusAssumption DEF UInt
  <2> QED
    BY <2>1, NoWrap DEF Plus
<1>4. /\ chunks' = Append(chunks, <<current, current + n>>) /\ current' = current + n
      /\ UNCHANGED <<range, grain, processes, done>>
  BY <1>3 DEF Generate
<1>5. /\ Len(chunks') = k + 1 /\ chunks'[k + 1] = <<current, current + n>>
      /\ \A i \in 1..k : chunks'[i] = chunks[i]
  BY <1>1, <1>4
<1>6. Remaining' = range[2] - (current + n) /\ Remaining' \in UInt /\ Remaining' = Remaining - n
  <2>1. Remaining' = Minus(range[2], current + n)
    BY <1>4 DEF Remaining
  <2>2. range[2] - (current + n) = (range[2] - current) - n
    BY <1>1, <1>2
  <2>3. range[2] - (current + n) \in UInt
    <3>1. Remaining \in 0..(Modulus - 1) /\ Modulus \in Int
      BY <1>1, ModulusAssumption DEF UInt
    <3>2. Remaining - n \in 0..(Modulus - 1)
      BY <1>2, <3>1
    <3> QED
      BY <1>1, <2>2, <3>2 DEF UInt
  <2>4. Remaining' = range[2] - (current + n)
    BY <2>1, <2>3, NoWrap DEF Minus
  <2> QED
    BY <1>1, <2>2, <2>3, <2>4
<1>7. (\A i \in 1..k : Length(i)' = Length(i)) /\ Length(k + 1)' = n
  <2>1. Length(k + 1)' = (current + n) - current
    BY <1>5 DEF Length
  <2>2. (current + n) - current = n
    BY <1>1, <1>2
  <2>3. \A i \in 1..k : Length(i)' = Length(i)
    BY <1>5 DEF Length
  <2> QED
    BY <2>1, <2>2, <2>3
<1>8. ASSUME NEW i \in 1..k PROVE n <= Length(i)
  <2>1. n <= Length(k)
    BY <1>1, <1>8 DEF GuidedInv
  <2>2. k \in 1..k
    BY <1>1
  <2>3. i = k \/ i < k
    BY <1>1
  <2>4. Length(k) <= Length(i)
    BY <2>2, <2>3, GssChunkType DEF GuidedInv
  <2>5. Length(k) \in Int /\ Length(i) \in Int /\ n \in Int
    BY <1>1, <1>2, <2>2, GssChunkType
  <2> QED
    BY <2>1, <2>4, <2>5
<1>a. n \in Nat
  BY <1>1, <1>2
<1>9. (\A i, j \in 1..Len(chunks) : i < j => Length(j) <= Length(i))'
  <2> SUFFICES ASSUME NEW i \in 1..(k + 1), NEW j \in 1..(k + 1), i < j
               PROVE  Length(j)' <= Length(i)'
    BY <1>5
  <2>1. i \in 1..k
    BY <1>1
  <2>2. CASE j = k + 1
    BY <1>7, <1>8, <2>1, <2>2
  <2>3. CASE j # k + 1
    <3>1. j \in 1..k
      BY SMTT(30), <1>1, <2>3
    <3> QED
      BY <1>7, <2>1, <3>1 DEF GuidedInv
  <2> QED
    BY <2>2, <2>3
<1>10. (chunks # << >> /\ Remaining # 0 =>
          NextCount(Remaining, grain, processes) <= Length(Len(chunks)))'
  <2> SUFFICES ASSUME Remaining' # 0 PROVE NextCount(Remaining', grain, processes) <= n
    BY <1>4, <1>5, <1>7
  <2>1. Remaining' <= Remaining
    BY <1>1, <1>2, <1>6
  <2> QED
    BY <1>1, <1>6, <2>1, NextCountMonotone
<1>11. (\A i \in 1..Len(chunks) :
          Length(i) >= grain \/ (i = Len(chunks) /\ current = range[2]))'
  <2> SUFFICES ASSUME NEW i \in 1..(k + 1)
               PROVE  Length(i)' >= grain \/ (i = k + 1 /\ current + n = range[2])
    BY <1>4, <1>5
  <2>1. CASE i = k + 1
    <3>1. n >= grain \/ n = Remaining
      BY <1>1, NextCountGrain
    <3>2. n = Remaining => current + n = range[2]
      BY <1>1
    <3> QED
      BY <1>7, <2>1, <3>1, <3>2
  <2>2. CASE i # k + 1
    <3>1. i \in 1..k
      BY <1>1, <2>2
    <3>2. current # range[2]
      BY <1>1
    <3> QED
      BY <1>7, <3>1, <3>2 DEF GuidedInv
  <2> QED
    BY <2>1, <2>2
<1>12. (range[2] - range[1] >= processes * Least =>
          range[2] - current >= (processes - Len(chunks)) * Least)'
  <2>1. Least' = Least
    BY <1>4 DEF Least
  <2> SUFFICES ASSUME range[2] - range[1] >= processes * Least
               PROVE  range[2] - (current + n) >= (processes - (k + 1)) * Least
    BY <1>4, <1>5, <2>1
  <2>2. Remaining >= (processes - k) * Least
    BY <1>1 DEF GuidedInv
  <2>3. processes - k \in Int /\ processes - k <= processes
    BY <1>1
  <2>4. Remaining - n >= ((processes - k) - 1) * Least
    BY <1>1, <2>2, <2>3, EnoughIsLeft DEF Least
  <2>5. (processes - k) - 1 = processes - (k + 1)
    BY <1>1
  <2> QED
    BY <1>6, <2>4, <2>5
<1> QED
  BY <1>9, <1>10, <1>11, <1>12 DEF GuidedInv

\* Every step keeps the chunks guided.
LEMMA StepGuided == IInv /\ GuidedInv /\ [Next]_vars => GuidedInv'
<1> SUFFICES ASSUME IInv, GuidedInv, [Next]_vars PROVE GuidedInv'
  OBVIOUS
<1>1. CASE Generate
  <2>1. TypeOK
    BY DEF IInv
  <2> QED
    BY <1>1, <2>1, GenerateGuided
<1>2. CASE UNCHANGED <<range, grain, processes, current, chunks>>
  BY <1>2 DEF GuidedInv, Remaining, Length, Least
<1> QED
  BY <1>1, <1>2 DEF Next, Finish, Stopped, vars

\* The chunks of s_p_gss_generator never grow, only the last is shorter than
\* the grain size, and no process is left without a chunk when the range has
\* enough for all.
THEOREM GssIsGuided == Spec => []Guided
<1>1. IInv /\ GuidedInv => Guided
  <2> SUFFICES ASSUME IInv, GuidedInv PROVE Guided
    OBVIOUS
  <2>0. TypeOK
    BY DEF IInv
  <2>1. \A i \in 1..(Len(chunks) - 1) : i \in 1..Len(chunks) /\ i # Len(chunks)
    <3> DEFINE n == Len(chunks)
    <3>1. n \in Nat
      BY <2>0, GssNumbers
    <3> HIDE DEF n
    <3>2. \A i \in 1..(n - 1) : i \in 1..n /\ i # n
      BY <3>1
    <3> QED
      BY <3>2 DEF n
  <2>2. ASSUME done, range[2] - range[1] >= processes * Least
        PROVE  Len(chunks) >= processes
    <3> DEFINE left == processes - Len(chunks)
    <3>1. current = range[2]
      BY <2>2 DEF IInv, ChunksTile
    <3>2. /\ range[2] \in Nat /\ left \in Int /\ processes \in Nat /\ Len(chunks) \in Nat
          /\ Least \in Nat /\ Least >= 1
      BY <2>0, GssNumbers
    <3>3. range[2] - current >= left * Least
      BY <2>2 DEF GuidedInv
    <3>4. 0 >= left * Least
      BY <3>1, <3>2, <3>3
    <3> HIDE DEF left
    <3>5. ASSUME left >= 1 PROVE FALSE
      <4>1. 1 * Least <= left * Least
        BY <3>2, <3>5, TimesMonotone
      <4>2. 1 * Least = Least /\ left * Least \in Int
        BY <3>2
      <4> QED
        BY <3>2, <3>4, <4>1, <4>2
    <3>6. left <= 0
      BY <3>2, <3>5
    <3> QED
      BY <3>2, <3>6 DEF left
  <2> QED
    BY <2>1, <2>2 DEF GuidedInv, Guided, Least
<1> QED
  BY <1>1, InitGuided, StepGuided, Invariance, PTL DEF Spec

-----------------------------------------------------------------------------
(***************************************************************************)
(* The pairs of two nested loops.                                          *)
(***************************************************************************)

\* The arithmetic of the generator of pairs is that of the other.
LEMMA PairsArithmetic ==
    /\ Pairs!UInt = UInt
    /\ \A r, g, p : Pairs!NextCount(r, g, p) = NextCount(r, g, p)
    /\ \A a, b : Pairs!Minus(a, b) = Minus(a, b) /\ Pairs!AtMost(a, b) = AtMost(a, b)
BY DEF Pairs!UInt, UInt, Pairs!NextCount, NextCount, Pairs!Share, Share, Pairs!AtMost, AtMost,
       Pairs!AtLeast, AtLeast, Pairs!Plus, Plus, Pairs!Minus, Minus

\* The types, the property, and: the generator is behind the last pair exactly
\* when it is behind the last row.
PairsInv ==
    /\ Pairs!TypeOK /\ PairsTile /\ PairsDoNotFail
    /\ inLastRow => pair = count
    /\ count > 0 /\ pair = count => inLastRow

LEMMA PairsInit == Pairs!Init => PairsInv
<1> SUFFICES ASSUME Pairs!Init PROVE PairsInv
  OBVIOUS
<1> USE DEF Pairs!Init
<1>1. /\ count \in UInt /\ count \in Nat /\ UInt \subseteq Nat
      /\ pairGrain \in GrainSizes /\ pairProcesses \in ProcessCounts
  BY ModulusAssumption DEF UInt
<1>a. inLastRow \in BOOLEAN /\ (count # 0 => inLastRow = FALSE)
  <2>1. CASE count = 0
    BY <2>1
  <2>2. CASE count # 0
    BY <2>2
  <2> QED
    BY <2>1, <2>2
<1>b. pair = 0 /\ remaining = count /\ pairChunks = << >> /\ st = "running"
  OBVIOUS
<1>2. Pairs!TypeOK
  <2>1. << >> \in Seq(Pairs!UInt \X Pairs!UInt)
    OBVIOUS
  <2>2. pair \in 0..count /\ remaining \in 0..count
    BY <1>1, <1>b
  <2> QED
    BY <1>1, <1>a, <1>b, <2>1, <2>2 DEF Pairs!TypeOK
<1>3. PairsTile /\ PairsDoNotFail
  BY <1>1 DEF PairsTile, Pairs!PairsTile, PairsDoNotFail, Pairs!PairsDoNotFail, Pairs!BeginOf
<1>4. (inLastRow => pair = count) /\ (count > 0 /\ pair = count => inLastRow)
  <2>1. CASE count = 0
    BY <1>b, <2>1
  <2>2. CASE count # 0
    BY <1>1, <1>a, <1>b, <2>2
  <2> QED
    BY <2>1, <2>2
<1> QED
  BY <1>2, <1>3, <1>4 DEF PairsInv

\* What the types say of the numbers.
LEMMA PairsNumbers ==
    ASSUME PairsInv
    PROVE  /\ count \in UInt /\ pairGrain \in UInt /\ pairProcesses \in UInt
           /\ pairProcesses # 0 /\ UInt \subseteq Nat
           /\ count \in Nat /\ pair \in Nat /\ pair <= count /\ remaining = count - pair
           /\ count - pair \in UInt
           /\ pairChunks \in Seq(UInt \X UInt) /\ Len(pairChunks) \in Nat
<1>1. UInt \subseteq Nat
  BY ModulusAssumption DEF UInt
<1>2. /\ count \in UInt /\ pairGrain \in UInt /\ pairProcesses \in UInt
      /\ pairProcesses # 0 /\ pair \in 0..count /\ pairChunks \in Seq(UInt \X UInt)
  BY PairsArithmetic, GrainSizesAssumption, ProcessCountsAssumption DEF PairsInv, Pairs!TypeOK
<1>3. count - pair \in UInt
  BY <1>2, ModulusAssumption DEF UInt
<1>4. remaining = count - pair
  BY DEF PairsInv, PairsTile, Pairs!PairsTile
<1> QED
  BY <1>1, <1>2, <1>3, <1>4

\* What gen_func is asked for is what it passes: a chunk that is not empty.
LEMMA GenFuncPasses ==
    ASSUME PairsInv, ~inLastRow, count > 0,
           NEW n, n = Pairs!NextCount(remaining, pairGrain, pairProcesses)
    PROVE  /\ n \in 1..(count - pair)
           /\ Pairs!GenFunc(n) = [end |-> pair + n, last |-> pair + n = count, count |-> n]
<1>1. remaining \in UInt /\ remaining # 0 /\ remaining = count - pair
  BY PairsNumbers DEF PairsInv
<1>2. n \in 1..(count - pair)
  BY <1>1, NextCountRange, PairsArithmetic, PairsNumbers
<1>3. Pairs!AtMost(n, count - pair) = n
  BY <1>2, PairsNumbers DEF Pairs!AtMost
<1> QED
  BY <1>2, <1>3 DEF Pairs!GenFunc

\* Without a pair gen_func passes none, whatever it is asked for.
LEMMA GenFuncFails ==
    ASSUME PairsInv, count = 0
    PROVE  Pairs!GenFunc(Pairs!NextCount(remaining, pairGrain, pairProcesses)).count = 0
<1> DEFINE share == Share(0, pairProcesses)
<1>1. remaining = 0 /\ count - pair = 0
  BY PairsNumbers
<1>2. Minus(0, 1) \in Nat /\ pairProcesses \in Nat \ {0} /\ pairGrain \in Nat
  BY ModulusAssumption, PairsNumbers DEF Minus
<1>3. Minus(0, 1) \div pairProcesses \in Nat
  BY <1>2, QuotientRange
<1>4. share \in Nat
  BY <1>3, ModulusAssumption DEF Share, Plus
<1> HIDE DEF share
<1>5. AtMost(AtLeast(share, pairGrain), 0) = 0
  BY <1>2, <1>4 DEF AtMost, AtLeast
<1>6. Pairs!NextCount(remaining, pairGrain, pairProcesses) = 0
  BY <1>1, <1>5, PairsArithmetic DEF NextCount, share
<1>7. Pairs!AtMost(0, 0) = 0
  BY DEF Pairs!AtMost
<1> QED
  BY <1>1, <1>6, <1>7 DEF Pairs!GenFunc

\* A chunk begins where the one before it ended, and ends behind a pair.
LEMMA PairsGenerateInv == PairsInv /\ Pairs!Generate => PairsInv'
<1> SUFFICES ASSUME PairsInv, Pairs!Generate PROVE PairsInv'
  OBVIOUS
<1>0. /\ UNCHANGED <<count, pairGrain, pairProcesses>> /\ ~inLastRow /\ st = "running"
  BY DEF Pairs!Generate, Pairs!inputs
<1>1. CASE count = 0
  <2>1. st' = "failed" /\ UNCHANGED <<pair, inLastRow, remaining, pairChunks>>
    BY <1>1, GenFuncFails DEF Pairs!Generate
  <2>2. Pairs!TypeOK'
    BY <1>0, <2>1 DEF PairsInv, Pairs!TypeOK
  <2>3. PairsTile'
    BY <1>0, <2>1 DEF PairsInv, PairsTile, Pairs!PairsTile, Pairs!BeginOf
  <2>4. PairsDoNotFail'
    BY <1>0, <1>1 DEF PairsDoNotFail, Pairs!PairsDoNotFail
  <2> QED
    BY <1>0, <1>1, <2>1, <2>2, <2>3, <2>4 DEF PairsInv
<1>2. CASE count # 0
  <2>0. count > 0
    BY <1>2, PairsNumbers
  <2>1. PICK n : n = Pairs!NextCount(remaining, pairGrain, pairProcesses)
    OBVIOUS
  <2>2. /\ n \in 1..(count - pair)
        /\ Pairs!GenFunc(n) = [end |-> pair + n, last |-> pair + n = count, count |-> n]
    BY <1>0, <2>0, <2>1, GenFuncPasses
  <2>3. n # 0
    BY <2>2, PairsNumbers
  <2>4. /\ pairChunks' = Append(pairChunks, <<pair, pair + n>>) /\ pair' = pair + n
        /\ inLastRow' = (pair + n = count) /\ remaining' = Minus(remaining, n) /\ st' = st
    BY <2>1, <2>2, <2>3, PairsArithmetic DEF Pairs!Generate
  <2>5. /\ pair + n \in UInt /\ pair + n \in Nat /\ pair + n <= count /\ pair < pair + n
        /\ pair \in UInt /\ count - (pair + n) \in UInt /\ remaining - n = count - (pair + n)
    BY <2>2, PairsNumbers, ModulusAssumption DEF UInt
  <2>6. remaining' = count - (pair + n)
    BY <2>4, <2>5, NoWrap DEF Minus
  <2>7. /\ Len(pairChunks') = Len(pairChunks) + 1
        /\ pairChunks'[Len(pairChunks) + 1] = <<pair, pair + n>>
        /\ \A i \in 1..Len(pairChunks) : pairChunks'[i] = pairChunks[i]
        /\ pairChunks' \in Seq(UInt \X UInt)
    BY <2>4, <2>5, PairsNumbers
  <2>8. Pairs!TypeOK'
    <3>1. pair' \in 0..count' /\ remaining' \in 0..count'
      BY <1>0, <2>4, <2>5, <2>6, PairsNumbers
    <3>2. inLastRow' \in BOOLEAN
      BY <2>4
    <3>3. Pairs!UInt' = Pairs!UInt
      BY DEF Pairs!UInt
    <3> QED
      BY <1>0, <2>4, <2>7, <3>1, <3>2, <3>3, PairsArithmetic DEF PairsInv, Pairs!TypeOK
  <2>9. PairsTile'
    <3>1. PICK k \in Nat : k = Len(pairChunks)
      BY PairsNumbers
    <3>2. ASSUME NEW i \in 1..(k + 1) PROVE Pairs!BeginOf(i)' = Pairs!BeginOf(i)
      <4>1. CASE i = 1
        BY <4>1 DEF Pairs!BeginOf
      <4>2. CASE i # 1
        <5>1. i - 1 \in 1..Len(pairChunks)
          BY <3>1, <4>2
        <5> QED
          BY <2>7, <4>2, <5>1 DEF Pairs!BeginOf
      <4> QED
        BY <4>1, <4>2
    <3>3. pair = Pairs!BeginOf(k + 1)
      BY <3>1 DEF PairsInv, PairsTile, Pairs!PairsTile
    <3>4. ASSUME NEW i \in 1..(k + 1)
          PROVE  pairChunks'[i][1] = Pairs!BeginOf(i)' /\ pairChunks'[i][1] < pairChunks'[i][2]
      <4>1. CASE i = k + 1
        BY <2>5, <2>7, <3>1, <3>2, <3>3, <4>1
      <4>2. CASE i \in 1..k
        BY <2>7, <3>1, <3>2, <4>2 DEF PairsInv, PairsTile, Pairs!PairsTile
      <4> QED
        BY <3>1, <4>1, <4>2
    <3>5. pair' = Pairs!BeginOf(Len(pairChunks) + 1)'
      BY <2>4, <2>7, <3>1 DEF Pairs!BeginOf
    <3>6. st' # "done"
      BY <1>0, <2>4
    <3> QED
      BY <1>0, <2>4, <2>6, <2>7, <3>1, <3>4, <3>5, <3>6 DEF PairsTile, Pairs!PairsTile
  <2>10. PairsDoNotFail'
    BY <1>0, <2>4 DEF PairsDoNotFail, Pairs!PairsDoNotFail
  <2> QED
    BY <1>0, <2>4, <2>8, <2>9, <2>10 DEF PairsInv
<1> QED
  BY <1>1, <1>2

LEMMA PairsStep == PairsInv /\ [Pairs!Next]_(Pairs!vars) => PairsInv'
<1> SUFFICES ASSUME PairsInv, [Pairs!Next]_(Pairs!vars) PROVE PairsInv'
  OBVIOUS
<1>1. CASE Pairs!Finish
  <2>1. remaining = 0 /\ pair = count /\ st' = "done"
    BY <1>1, PairsNumbers DEF Pairs!Finish, PairsInv
  <2>2. UNCHANGED <<count, pairGrain, pairProcesses, pair, inLastRow, remaining, pairChunks>>
    BY <1>1 DEF Pairs!Finish, Pairs!inputs
  <2>3. Pairs!TypeOK'
    BY <2>1, <2>2 DEF PairsInv, Pairs!TypeOK
  <2>4. PairsTile'
    BY <2>1, <2>2 DEF PairsInv, PairsTile, Pairs!PairsTile, Pairs!BeginOf
  <2>5. PairsDoNotFail'
    BY <2>1 DEF PairsDoNotFail, Pairs!PairsDoNotFail
  <2> QED
    BY <2>2, <2>3, <2>4, <2>5 DEF PairsInv
<1>2. CASE UNCHANGED Pairs!vars
  <2>1. UNCHANGED <<count, pairGrain, pairProcesses, pair, inLastRow, remaining, pairChunks, st>>
    BY <1>2 DEF Pairs!vars, Pairs!inputs
  <2>2. Pairs!TypeOK'
    BY <2>1 DEF PairsInv, Pairs!TypeOK
  <2>3. PairsTile'
    BY <2>1 DEF PairsInv, PairsTile, Pairs!PairsTile, Pairs!BeginOf
  <2>4. PairsDoNotFail'
    BY <2>1 DEF PairsInv, PairsDoNotFail, Pairs!PairsDoNotFail
  <2> QED
    BY <2>1, <2>2, <2>3, <2>4 DEF PairsInv
<1> QED
  BY <1>1, <1>2, PairsGenerateInv DEF Pairs!Next, Pairs!Stopped

LEMMA PairsInvariance == Pairs!Spec => []PairsInv
BY PairsInit, PairsStep, PTL DEF Pairs!Spec

\* s_p_collapse_2_gss_generator produces every pair of the two loops in exactly
\* one task, and remaining_index is what it has not produced.
THEOREM PairsAreTiled == Pairs!Spec => []PairsTile
<1>1. PairsInv => PairsTile
  BY DEF PairsInv
<1> QED
  BY <1>1, PairsInvariance, PTL

\* When there is a pair and all_index_count is right, neither assertion of
\* s_p_collapse_2_gss_generator fails.
THEOREM PairsNeverFail == Pairs!Spec => []PairsDoNotFail
<1>1. PairsInv => PairsDoNotFail
  BY DEF PairsInv
<1> QED
  BY <1>1, PairsInvariance, PTL

-----------------------------------------------------------------------------
(***************************************************************************)
(* The indices of a Fortran loop.                                          *)
(***************************************************************************)

\* The chunks are behind each other and hold what is before current.  In a loop
\* without an index current goes from begin to the end in one step.
IndicesInv ==
    /\ bounds \in Int \X Int /\ grainsize \in Nat /\ threadCount \in Nat \ {0}
    /\ index \in Int /\ indexChunks \in Seq(Int \X Int)
    /\ \A i \in 1..Len(indexChunks) :
          /\ bounds[1] <= indexChunks[i][1] /\ indexChunks[i][2] < index
          /\ \A j \in 1..(i - 1) : indexChunks[j][2] < indexChunks[i][1]
    /\ \A x \in Int : bounds[1] <= x /\ x < index =>
          \E i \in 1..Len(indexChunks) : x \in Indices!Indices(indexChunks[i])
    /\ \/ index = bounds[1] /\ indexChunks = << >>
       \/ bounds[1] <= index /\ index <= bounds[2]
       \/ index = bounds[2] + 1
    /\ bounds[2] < bounds[1] => Len(indexChunks) <= 1
    /\ ended => index = bounds[2] + 1

LEMMA IndicesInit == Indices!Init => IndicesInv
<1> SUFFICES ASSUME Indices!Init PROVE IndicesInv
  OBVIOUS
<1>1. /\ bounds \in Int \X Int /\ grainsize \in Nat /\ threadCount \in Nat \ {0}
      /\ index = bounds[1] /\ indexChunks = << >> /\ ended = FALSE
  BY IndicesAssumption DEF Indices!Init, Indices!ConstantsAssumption
<1>2. bounds[1] \in Int /\ << >> \in Seq(Int \X Int)
  BY <1>1
<1> QED
  BY <1>1, <1>2 DEF IndicesInv

\* The length of the next chunk: it takes from what remains, and all of it when
\* less than nothing remains.
LEMMA IndicesCount ==
    ASSUME NEW r \in Int, r # 0, NEW g \in Nat, NEW t \in Nat \ {0},
           NEW n, n = Indices!AtMost(Indices!AtLeast((r - 1) \div t + 1, g), r)
    PROVE  n \in Int /\ (r > 0 => n \in 1..r) /\ (r < 0 => n = r)
<1> DEFINE q == (r - 1) \div t
<1>1. q \in Int
  OBVIOUS
<1>2. r > 0 => q >= 0
  <2> SUFFICES ASSUME r > 0 PROVE q >= 0
    OBVIOUS
  <2>1. r - 1 \in Nat
    OBVIOUS
  <2> QED
    BY <2>1, Quotient
<1>3. r < 0 => r - 1 <= q
  <2> SUFFICES ASSUME r < 0 PROVE r - 1 <= q
    OBVIOUS
  <2>1. r - 1 < (q + 1) * t
    OBVIOUS
  <2>2. ASSUME q + 1 <= r - 1 PROVE FALSE
    <3>1. (q + 1) * t <= (r - 1) * t
      BY <1>1, <2>2, TimesMonotone
    <3>2. 1 * (1 - r) <= t * (1 - r)
      <4>1. 1 - r \in Nat /\ 1 \in Int /\ t \in Int /\ 1 <= t
        OBVIOUS
      <4> QED
        BY <4>1, TimesMonotone
    <3>3. t * (1 - r) = -((r - 1) * t) /\ 1 * (1 - r) = -(r - 1)
      OBVIOUS
    <3>4. (r - 1) * t \in Int /\ (q + 1) * t \in Int
      BY <1>1
    <3> QED
      BY <2>1, <3>1, <3>2, <3>3, <3>4
  <2> QED
    BY <1>1, <2>2
<1> HIDE DEF q
<1>4. n = Indices!AtMost(Indices!AtLeast(q + 1, g), r)
  BY DEF q
<1> QED
  BY <1>1, <1>2, <1>3, <1>4 DEF Indices!AtMost, Indices!AtLeast

\* The next chunk begins behind the others and ends at the end, at most.
LEMMA IndicesGenerate ==
    ASSUME IndicesInv, Indices!Remaining # 0, Indices!GssNext,
           NEW n, n = Indices!AtMost(
                         Indices!AtLeast((Indices!Remaining - 1) \div threadCount + 1, grainsize),
                         Indices!Remaining)
    PROVE  IndicesInv'
<1> DEFINE k == Len(indexChunks)  r == bounds[2] - index + 1
<1>1. /\ bounds \in Int \X Int /\ grainsize \in Nat /\ threadCount \in Nat \ {0}
      /\ index \in Int /\ bounds[1] \in Int /\ bounds[2] \in Int /\ k \in Nat
      /\ indexChunks \in Seq(Int \X Int)
  BY DEF IndicesInv
<1>2. /\ ~ended /\ UNCHANGED <<bounds, grainsize, threadCount, ended>>
      /\ indexChunks' = Append(indexChunks, <<index, index + n - 1>>) /\ index' = index + n
  BY DEF Indices!GssNext, Indices!inputs
<1>3. r \in Int /\ r # 0 /\ r = Indices!Remaining
  BY <1>1 DEF Indices!Remaining
<1>4. n \in Int /\ (r > 0 => n \in 1..r) /\ (r < 0 => n = r)
  <2>1. n = Indices!AtMost(Indices!AtLeast((r - 1) \div threadCount + 1, grainsize), r)
    BY <1>3
  <2> HIDE DEF r
  <2> QED
    BY <1>1, <1>3, <2>1, IndicesCount
<1>5. \/ /\ r > 0 /\ bounds[1] <= index /\ index <= bounds[2] /\ n >= 1
         /\ index + n <= bounds[2] + 1
      \/ /\ r < 0 /\ index = bounds[1] /\ indexChunks = << >> /\ bounds[2] < bounds[1]
         /\ index + n = bounds[2] + 1
  <2>1. CASE r > 0
    <3>1. index <= bounds[2] /\ n >= 1 /\ index + n <= bounds[2] + 1
      BY <1>1, <1>4, <2>1
    <3>2. bounds[1] <= index
      BY <1>1, <3>1 DEF IndicesInv
    <3> QED
      BY <2>1, <3>1, <3>2
  <2>2. CASE r < 0
    <3>1. index + n = bounds[2] + 1 /\ ~(index <= bounds[2]) /\ index # bounds[2] + 1
      BY <1>1, <1>4, <2>2
    <3>2. index = bounds[1] /\ indexChunks = << >>
      BY <3>1 DEF IndicesInv
    <3> QED
      BY <1>1, <2>2, <3>1, <3>2
  <2> QED
    BY <1>3, <2>1, <2>2
<1>6. /\ Len(indexChunks') = k + 1 /\ indexChunks'[k + 1] = <<index, index + n - 1>>
      /\ \A i \in 1..k : indexChunks'[i] = indexChunks[i]
      /\ indexChunks' \in Seq(Int \X Int)
  BY SMTT(30), <1>1, <1>2, <1>4
<1>7. \A i \in 1..k : indexChunks[i][1] \in Int /\ indexChunks[i][2] \in Int
  BY <1>1
<1>8. indexChunks = << >> => k = 0
  BY <1>1
<1> HIDE DEF r
<1>9. ASSUME NEW i \in 1..(k + 1)
      PROVE  /\ bounds[1] <= indexChunks'[i][1] /\ indexChunks'[i][2] < index + n
             /\ \A j \in 1..(i - 1) : indexChunks'[j][2] < indexChunks'[i][1]
  <2>1. CASE i = k + 1
    <3>1. indexChunks'[i][1] = index /\ indexChunks'[i][2] = index + n - 1
      BY <1>6, <2>1
    <3>2. bounds[1] <= index
      BY <1>1, <1>5
    <3>3. 1..(i - 1) = 1..k
      BY <1>1, <2>1
    <3>4. \A j \in 1..k : indexChunks'[j][2] < index
      BY <1>6 DEF IndicesInv
    <3>5. index + n - 1 < index + n
      BY <1>1, <1>4
    <3> QED
      BY <3>1, <3>2, <3>3, <3>4, <3>5
  <2>2. CASE i # k + 1
    <3>1. i \in 1..k /\ k # 0
      BY <1>1, <2>2
    <3>2. index < index + n
      BY <1>1, <1>4, <1>5, <1>8, <3>1
    <3>3. /\ indexChunks'[i] = indexChunks[i]
          /\ \A j \in 1..(i - 1) : indexChunks'[j] = indexChunks[j]
      <4>1. 1..(i - 1) \subseteq 1..k
        BY <1>1, <3>1
      <4> QED
        BY <1>6, <3>1, <4>1
    <3>4. /\ bounds[1] <= indexChunks[i][1] /\ indexChunks[i][2] < index
          /\ \A j \in 1..(i - 1) : indexChunks[j][2] < indexChunks[i][1]
      BY <3>1 DEF IndicesInv
    <3>5. indexChunks[i][2] < index + n
      <4>1. \A a, b, c \in Int : a < b /\ b < c => a < c
        OBVIOUS
      <4>2. indexChunks[i][2] \in Int /\ index \in Int /\ index + n \in Int
        BY SMTT(30), <1>1, <1>4, <1>7, <3>1
      <4> QED
        BY <3>2, <3>4, <4>1, <4>2
    <3> QED
      BY <3>3, <3>4, <3>5
  <2> QED
    BY <2>1, <2>2
<1>10. ASSUME NEW x \in Int, bounds[1] <= x, x < index + n
       PROVE  \E i \in 1..(k + 1) : x \in Indices!Indices(indexChunks'[i])
  <2>1. CASE x < index
    <3>1. PICK i \in 1..k : x \in Indices!Indices(indexChunks[i])
      BY <1>10, <2>1 DEF IndicesInv
    <3>2. 1..k \subseteq 1..(k + 1)
      BY <1>1
    <3>3. i \in 1..(k + 1) /\ indexChunks'[i] = indexChunks[i]
      BY <1>6, <3>2
    <3> QED
      BY <3>1, <3>3
  <2>2. CASE ~(x < index)
    <3>1. x \in index..(index + n - 1)
      BY <1>1, <1>4, <1>10, <2>2
    <3>2. k + 1 \in 1..(k + 1) /\ x \in indexChunks'[k + 1][1]..indexChunks'[k + 1][2]
      BY <1>1, <1>6, <3>1
    <3> QED
      BY <3>2 DEF Indices!Indices
  <2> QED
    BY <2>1, <2>2
<1>11. \/ bounds[1] <= index + n /\ index + n <= bounds[2]
       \/ index + n = bounds[2] + 1
  BY <1>1, <1>4, <1>5
<1>12. bounds[2] < bounds[1] => k + 1 <= 1
  BY <1>1, <1>5, <1>8
<1>13. index + n \in Int
  BY <1>1, <1>4
<1>14. /\ \A i \in 1..Len(indexChunks') :
             /\ bounds'[1] <= indexChunks'[i][1] /\ indexChunks'[i][2] < index'
             /\ \A j \in 1..(i - 1) : indexChunks'[j][2] < indexChunks'[i][1]
       /\ \A x \in Int : bounds'[1] <= x /\ x < index' =>
             \E i \in 1..Len(indexChunks') : x \in Indices!Indices(indexChunks'[i])
  BY <1>2, <1>6, <1>9, <1>10
<1> HIDE DEF k
<1> QED
  BY <1>1, <1>2, <1>6, <1>11, <1>12, <1>13, <1>14 DEF IndicesInv, Indices!Indices

LEMMA IndicesStep == IndicesInv /\ [Indices!Next]_(Indices!vars) => IndicesInv'
<1> SUFFICES ASSUME IndicesInv, [Indices!Next]_(Indices!vars) PROVE IndicesInv'
  OBVIOUS
<1>1. CASE Indices!GssNext /\ Indices!Remaining # 0
  BY <1>1, IndicesGenerate
<1>2. CASE Indices!GssNext /\ Indices!Remaining = 0
  <2>1. UNCHANGED <<bounds, grainsize, threadCount, index, indexChunks>>
    BY <1>2 DEF Indices!GssNext, Indices!inputs
  <2>2. index = bounds[2] + 1
    BY <1>2 DEF Indices!Remaining, IndicesInv
  <2> QED
    BY <2>1, <2>2 DEF IndicesInv, Indices!Indices
<1>3. CASE UNCHANGED Indices!vars
  BY <1>3 DEF Indices!vars, Indices!inputs, IndicesInv, Indices!Indices
<1> QED
  BY <1>1, <1>2, <1>3 DEF Indices!Next

\* Chunks that are behind each other have no index in common, and what is
\* before current is the loop when current is behind the end.
LEMMA IndicesInvOnce == IndicesInv => IndicesOnce
<1> SUFFICES ASSUME IndicesInv PROVE IndicesOnce
  OBVIOUS
<1> DEFINE C == indexChunks  S == UNION {Indices!Indices(C[i]) : i \in 1..Len(C)}
<1>1. /\ bounds[1] \in Int /\ bounds[2] \in Int /\ index \in Int
      /\ \A i \in 1..Len(C) : C[i][1] \in Int /\ C[i][2] \in Int
      /\ Len(C) \in Nat
  BY DEF IndicesInv
<1>2. ASSUME NEW i \in 1..Len(C), NEW j \in 1..Len(C), j < i
      PROVE  Indices!Indices(C[i]) \intersect Indices!Indices(C[j]) = {}
  <2>1. C[j][2] < C[i][1]
    BY <1>1, <1>2 DEF IndicesInv
  <2> QED
    BY <1>1, <2>1 DEF Indices!Indices
<1>3. ASSUME NEW i \in 1..Len(C), NEW j \in 1..Len(C), i # j
      PROVE  Indices!Indices(C[i]) \intersect Indices!Indices(C[j]) = {}
  <2>1. i < j \/ j < i
    BY <1>1, <1>3
  <2> QED
    BY <1>2, <2>1
<1>4. index <= bounds[2] + 1 \/ indexChunks = << >>
  BY <1>1 DEF IndicesInv
<1>5. S \subseteq Indices!Indices(bounds)
  <2> SUFFICES ASSUME NEW i \in 1..Len(C), NEW x \in Indices!Indices(C[i])
               PROVE  x \in Indices!Indices(bounds)
    OBVIOUS
  <2>1. bounds[1] <= C[i][1] /\ C[i][2] < index
    BY DEF IndicesInv
  <2>2. index <= bounds[2] + 1
    BY <1>1, <1>4
  <2>3. x \in Int /\ C[i][1] <= x /\ x <= C[i][2]
    BY <1>1 DEF Indices!Indices
  <2>4. x \in bounds[1]..bounds[2]
    BY <1>1, <2>1, <2>2, <2>3
  <2> QED
    BY <2>4 DEF Indices!Indices
<1>6. ASSUME ended PROVE Indices!Indices(bounds) \subseteq S
  <2> SUFFICES ASSUME NEW x \in bounds[1]..bounds[2] PROVE x \in S
    BY DEF Indices!Indices
  <2>1. index = bounds[2] + 1
    BY <1>6 DEF IndicesInv
  <2>2. x \in Int /\ bounds[1] <= x /\ x < index
    BY <1>1, <2>1
  <2>3. \E i \in 1..Len(C) : x \in Indices!Indices(C[i])
    BY <2>2 DEF IndicesInv
  <2> QED
    BY <2>3
<1>7. Indices!Indices(bounds) = {} => bounds[2] < bounds[1]
  <2> SUFFICES ASSUME ~(bounds[2] < bounds[1]) PROVE bounds[1] \in Indices!Indices(bounds)
    OBVIOUS
  <2> QED
    BY <1>1 DEF Indices!Indices
<1>8. Indices!Indices(bounds) = {} => Len(C) <= 1
  BY <1>7 DEF IndicesInv
<1> QED
  BY <1>3, <1>5, <1>6, <1>8 DEF IndicesOnce, Indices!IndicesOnce

\* gss_scheduler gives out every index of a do loop in exactly one chunk, and
\* ends, without an index, when the loop has none.
THEOREM IndicesAreShared == Indices!Spec => []IndicesOnce
<1> QED
  BY IndicesInit, IndicesStep, IndicesInvOnce, PTL DEF Indices!Spec

-----------------------------------------------------------------------------
\* A behaviour of the three generators is a behaviour of each.
THEOREM EachGenerator == Spec3 => Spec /\ Pairs!Spec /\ Indices!Spec
<1>1. Init3 => Init /\ Pairs!Init /\ Indices!Init
  BY DEF Init3
<1>2. ASSUME [Next3]_<<which, vars, pairVars, indexVars>>
      PROVE  [Next]_vars /\ [Pairs!Next]_(Pairs!vars) /\ [Indices!Next]_(Indices!vars)
  <2>1. /\ pairVars' = pairVars => UNCHANGED Pairs!vars
        /\ indexVars' = indexVars => UNCHANGED Indices!vars
    BY DEF pairVars, indexVars, Pairs!vars, Pairs!inputs, Indices!vars, Indices!inputs
  <2> QED
    BY <1>2, <2>1 DEF Next3
<1> QED
  BY <1>1, <1>2, PTL DEF Spec3, Spec, Pairs!Spec, Indices!Spec

=============================================================================
