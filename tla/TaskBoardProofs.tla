---------------------------- MODULE TaskBoardProofs ----------------------------
(***************************************************************************)
(* What TLAPS proves of the task service and what it builds on: of         *)
(* FractionalRank, that a position asked for where there is room lies      *)
(* between its neighbours; of ProjectBoards, whose board TaskBoard         *)
(* composes, that board types are followed; of TaskBoard, that departures  *)
(* are handled, that events tell the state of the tasks and that columns   *)
(* show the tasks in the clients' order.  For alphabets, tasks, columns,   *)
(* users, requests, instances and clients of any number, and for any       *)
(* number of calls, changes and faults.                                    *)
(***************************************************************************)
EXTENDS TaskBoard, SequenceTheorems, WellFoundedInduction, TLAPS

-----------------------------------------------------------------------------
(* Positions                                                               *)

LEMMA Least ==
  ASSUME NEW T \in SUBSET Nat, T # {}
  PROVE  \E x \in T : \A y \in T : x <= y
<1> DEFINE R == {s \in Nat \X Nat : s[1] < s[2]}
<1>1. IsWellFoundedOn(R, Nat)
  BY NatLessThanWellFounded DEF OpToRel
<1>2. PICK x \in T : \A y \in T : ~ (<<y, x>> \in R)
  <2> HIDE DEF R
  <2> QED BY <1>1, WFMin
<1>3. \A y \in T : ~(y < x)
  <2> SUFFICES ASSUME NEW y \in T, y < x PROVE FALSE
    OBVIOUS
  <2>1. <<y, x>> \in R OBVIOUS
  <2> QED BY <1>2, <2>1
<1> QED BY <1>3

LEMMA MiddleDigit == Middle \in Digit /\ Middle > 0 /\ Middle - 1 \in Digit
  BY RankAssumption DEF Middle, Digit

LEMMA AppendGives ==
  ASSUME NEW p \in Position, NEW d \in Digit
  PROVE  /\ Append(p, d) \in Position
         /\ Len(Append(p, d)) = Len(p) + 1
         /\ Append(p, d)[Len(p) + 1] = d
         /\ \A i \in 1..Len(p) : Append(p, d)[i] = p[i]
  BY DEF Position

LEMMA PrefixGives ==
  ASSUME NEW p \in Position, NEW n \in Nat, n <= Len(p)
  PROVE  /\ SubSeq(p, 1, n) \in Position
         /\ Len(SubSeq(p, 1, n)) = n
         /\ \A i \in 1..n : SubSeq(p, 1, n)[i] = p[i]
<1>1. \A i \in 1..n : p[i] \in Digit
  BY DEF Position
<1> QED BY <1>1, SubSeqProperties DEF Position

(* The extension of a string is greater. *)
LEMMA LongerIsGreater ==
  ASSUME NEW p \in Position, NEW q \in Position, Len(p) < Len(q),
         \A i \in 1..Len(p) : p[i] = q[i]
  PROVE  Less(p, q)
<1>1. Len(p) + 1 \in 1..Len(q)
  BY DEF Position
<1> QED BY <1>1 DEF Less, Position

(* A string is decided by the first place where it differs. *)
LEMMA DecidedAt ==
  ASSUME NEW p \in Position, NEW q \in Position, NEW k \in 1..Len(q), k <= Len(p),
         \A i \in 1..(k - 1) : p[i] = q[i],
         p[k] < q[k]
  PROVE  Less(p, q)
  BY DEF Less, Position

LEMMA AppendFollows ==
  ASSUME NEW p \in Position
  PROVE  Append_(p) \in Position /\ Less(p, Append_(p))
<1>1. /\ Append_(p) \in Position
      /\ Len(p) < Len(Append_(p))
      /\ \A i \in 1..Len(p) : p[i] = Append_(p)[i]
  BY AppendGives, MiddleDigit DEF Append_, Position
<1> QED BY <1>1, LongerIsGreater

LEMMA PrependPrecedes ==
  ASSUME NEW q \in Position, \E i \in 1..Len(q) : q[i] # 0
  PROVE  Prepend_(q) \in Position /\ Prepend_(q) # Nowhere /\ Less(Prepend_(q), q)
<1> DEFINE Lowest(k) == q[k] # 0 /\ \A j \in (k + 1)..Len(q) : q[j] = 0
           i == CHOOSE k \in 1..Len(q) : Lowest(k)
           T == {n \in Nat : n < Len(q) /\ q[Len(q) - n] # 0}
<1>1. \E k \in 1..Len(q) : Lowest(k)
  <2>1. PICK k \in 1..Len(q) : q[k] # 0 OBVIOUS
  <2>2. Len(q) - k \in T BY <2>1 DEF Position
  <2>3. PICK n \in T : \A m \in T : n <= m
    <3> HIDE DEF T
    <3>1. T \in SUBSET Nat BY DEF T
    <3> QED BY <2>2, <3>1, Least
  <2>4. Len(q) - n \in 1..Len(q) /\ q[Len(q) - n] # 0 BY DEF Position
  <2>5. ASSUME NEW j \in (Len(q) - n + 1)..Len(q), q[j] # 0 PROVE FALSE
    <3>1. Len(q) - j \in T /\ Len(q) - j < n BY <2>5 DEF Position
    <3> QED BY <2>3, <3>1 DEF Position
  <2> QED BY <2>4, <2>5
<1>2. i \in 1..Len(q) /\ Lowest(i)
  <2> HIDE DEF Lowest
  <2> QED BY <1>1
<1> DEFINE same == SubSeq(q, 1, i - 1)
<1>3. Prepend_(q) = Append(same, q[i] - 1)
  BY DEF Prepend_
<1> HIDE DEF i
<1>4. i \in Nat /\ i - 1 \in Nat /\ i - 1 <= Len(q) /\ q[i] \in Digit /\ q[i] # 0
  BY <1>2 DEF Position
<1>5. q[i] - 1 \in Digit /\ q[i] - 1 < q[i]
  BY <1>4, RankAssumption DEF Digit
<1>6. /\ same \in Position /\ Len(same) = i - 1
      /\ \A j \in 1..(i - 1) : same[j] = q[j]
  BY <1>4, PrefixGives
<1> HIDE DEF same
<1> DEFINE r == Append(same, q[i] - 1)
<1>7. /\ r \in Position /\ i <= Len(r) /\ r[i] < q[i]
      /\ \A j \in 1..(i - 1) : r[j] = q[j]
  BY <1>4, <1>5, <1>6, AppendGives
<1>8. i \in 1..Len(q) /\ Prepend_(q) = r
  BY <1>2, <1>3
<1> HIDE DEF r, Lowest
<1>9. Less(r, q)
  BY <1>7, <1>8, DecidedAt
<1>10. r # Nowhere BY <1>4, <1>7, <1>8 DEF Nowhere
<1> QED BY <1>7, <1>8, <1>9, <1>10

(* The first place where next differs from prev continued with zeros: there*)
(* next is greater.                                                        *)
LEMMA FirstDifference ==
  ASSUME NEW p \in Position, NEW q \in Position, Less(p, q), Room(p, q), q # Nowhere
  PROVE  \E k \in 1..Len(q) : /\ PrevAt(p, k) < q[k]
                              /\ \A j \in 1..(k - 1) : PrevAt(p, j) = q[j]
<1> DEFINE T == {i \in 1..Len(q) : q[i] # PrevAt(p, i)}
<1>1. T # {} /\ T \in SUBSET Nat
  BY DEF Room, Position
<1>2. PICK k \in T : \A j \in T : k <= j
  <2> HIDE DEF T
  <2> QED BY <1>1, Least
<1>3. \A j \in 1..(k - 1) : PrevAt(p, j) = q[j]
  BY <1>2 DEF Position
<1>4. PICK i \in 1..Len(q) : /\ i <= Len(p) + 1
                             /\ \A j \in 1..(i - 1) : p[j] = q[j]
                             /\ i <= Len(p) => p[i] < q[i]
  BY DEF Less
<1>5. k \in 1..Len(q) /\ q[k] # PrevAt(p, k) /\ q[k] \in 0..(Base - 1)
  <2>1. k \in 1..Len(q) /\ q[k] # PrevAt(p, k) OBVIOUS
  <2>2. q[k] \in Digit BY <2>1 DEF Position
  <2> QED BY <2>1, <2>2 DEF Digit
<1>6. PrevAt(p, k) < q[k]
  <2>1. CASE k > Len(p)
    <3>1. PrevAt(p, k) = 0 BY <2>1, <1>5 DEF PrevAt, Position
    <3> QED BY <3>1, <1>5, RankAssumption
  <2>2. CASE k <= Len(p) /\ k = i
    BY <2>2, <1>4 DEF PrevAt
  <2>3. CASE k <= Len(p) /\ k < i
    BY <2>3, <1>4, <1>5 DEF PrevAt, Position
  <2>4. CASE k <= Len(p) /\ k > i
    <3>1. i \in 1..(k - 1) /\ i <= Len(p) BY <2>4, <1>5 DEF Position
    <3>2. p[i] = q[i] BY <3>1, <1>3 DEF PrevAt
    <3>3. p[i] < q[i] BY <3>1, <1>4
    <3>4. i \in 1..Len(p) /\ i \in 1..Len(q) BY <3>1, <1>4, <1>5 DEF Position
    <3>5. p[i] \in Digit /\ q[i] \in Digit BY <3>4 DEF Position
    <3>6. p[i] \in Int /\ q[i] \in Int BY <3>5, RankAssumption DEF Digit
    <3> QED BY <3>2, <3>3, <3>6
  <2> QED BY <2>1, <2>2, <2>3, <2>4, <1>4, <1>5 DEF Position
<1> QED BY <1>3, <1>5, <1>6

(* Halving the gap, or extending prev, where the two differ first. *)
LEMMA MidpointBetween ==
  ASSUME NEW p \in Position, NEW q \in Position, Less(p, q), Room(p, q), q # Nowhere
  PROVE  /\ Midpoint(p, q) \in Position
         /\ Less(p, Midpoint(p, q))
         /\ Less(Midpoint(p, q), q)
<1> DEFINE First(k) == /\ PrevAt(p, k) # NextAt(q, k)
                       /\ \A j \in 1..(k - 1) : PrevAt(p, j) = NextAt(q, j)
           i == CHOOSE k \in 1..(Len(q) + 1) : First(k)
<1>1. PICK k \in 1..Len(q) : /\ PrevAt(p, k) < q[k]
                             /\ \A j \in 1..(k - 1) : PrevAt(p, j) = q[j]
  BY FirstDifference
<1>2. /\ k \in Nat \ {0} /\ Len(q) \in Nat /\ Len(p) \in Nat
      /\ PrevAt(p, k) \in Digit /\ q[k] \in Digit
  <2>1. k <= Len(p) => p[k] \in Digit BY DEF Position
  <2>2. 0 \in Digit BY RankAssumption DEF Digit
  <2> QED BY <2>1, <2>2 DEF PrevAt, Position
<1>3. \A j \in 1..k : NextAt(q, j) = q[j]
  BY <1>2 DEF NextAt
<1>4. PrevAt(p, k) \in 0..(Base - 1) /\ q[k] \in 0..(Base - 1)
  BY <1>2 DEF Digit
<1>5. First(k)
  BY <1>1, <1>2, <1>3, <1>4
<1>6. i = k
  <2>1. i \in 1..(Len(q) + 1) /\ First(i)
    <3>1. k \in 1..(Len(q) + 1) BY <1>2
    <3> HIDE DEF First
    <3> QED BY <1>5, <3>1
  <2> HIDE DEF i
  <2>2. ~(i < k) BY <1>2, <1>5, <2>1
  <2>3. ~(k < i) BY <1>2, <1>5, <2>1
  <2> QED BY <1>2, <2>1, <2>2, <2>3
<1> DEFINE low == PrevAt(p, k)
           high == q[k]
           same == SubSeq(q, 1, k - 1)
<1>7. /\ k - 1 \in Nat /\ same \in Position /\ Len(same) = k - 1
      /\ \A j \in 1..(k - 1) : same[j] = q[j]
  BY <1>2, PrefixGives
<1>8. Midpoint(p, q) =
        IF high - low > 1 THEN Append(same, (low + high) \div 2)
        ELSE IF high - low = 1
             THEN Append(Append(same, low) \o SubSeq(p, k + 1, Len(p)), Middle)
             ELSE NoSpaceLeft
  <2>1. Midpoint(p, q) =
          IF NextAt(q, i) - PrevAt(p, i) > 1
          THEN Append(SubSeq(q, 1, i - 1), (PrevAt(p, i) + NextAt(q, i)) \div 2)
          ELSE IF NextAt(q, i) - PrevAt(p, i) = 1
               THEN Append(Append(SubSeq(q, 1, i - 1), PrevAt(p, i))
                             \o SubSeq(p, i + 1, Len(p)), Middle)
               ELSE NoSpaceLeft
    BY DEF Midpoint
  <2> HIDE DEF i
  <2>2. NextAt(q, k) = q[k] BY <1>2, <1>3
  <2> QED BY <1>6, <2>1, <2>2
<1> HIDE DEF same, i, First
<1>9. CASE high - low > 1
  <2> DEFINE m == (low + high) \div 2
             r == Append(same, m)
  <2>1. m \in Digit /\ low < m /\ m < high
    BY <1>4, <1>9, RankAssumption DEF Digit
  <2> HIDE DEF m
  <2>2. /\ r \in Position /\ Len(r) = k /\ r[k] = m
        /\ \A j \in 1..(k - 1) : r[j] = q[j]
    BY <1>2, <1>7, <2>1, AppendGives
  <2>3. Midpoint(p, q) = r BY <1>8, <1>9 DEF m
  <2> HIDE DEF r
  <2>4. Less(r, q)
    BY <1>1, <1>2, <2>1, <2>2, DecidedAt
  <2>5. Less(p, r)
    <3>1. CASE k <= Len(p)
      <4>1. \A j \in 1..(k - 1) : p[j] = r[j] BY <1>1, <1>2, <2>2, <3>1 DEF PrevAt
      <4>2. p[k] < r[k] BY <2>1, <2>2, <3>1 DEF PrevAt
      <4>3. k \in 1..Len(r) BY <1>2, <2>2
      <4> QED BY <2>2, <3>1, <4>1, <4>2, <4>3, DecidedAt
    <3>2. CASE k > Len(p)
      <4>1. \A j \in 1..Len(p) : p[j] = r[j] BY <1>1, <1>2, <2>2, <3>2 DEF PrevAt
      <4> QED BY <1>2, <2>2, <3>2, <4>1, LongerIsGreater
    <3> QED BY <1>2, <3>1, <3>2
  <2> QED BY <2>2, <2>3, <2>4, <2>5
<1>10. CASE high - low = 1
  <2> DEFINE head == Append(same, low)
             tail == SubSeq(p, k + 1, Len(p))
             s == head \o tail
             r == Append(s, Middle)
  <2>1. /\ head \in Position /\ Len(head) = k /\ head[k] = low
        /\ \A j \in 1..(k - 1) : head[j] = q[j]
    BY <1>2, <1>7, AppendGives
  <2>2. /\ tail \in Position
        /\ Len(tail) = IF k + 1 <= Len(p) THEN Len(p) - k ELSE 0
        /\ \A j \in 1..(Len(p) - k) : tail[j] = p[k + j]
    <3>1. \A j \in (k + 1)..Len(p) : p[j] \in Digit BY <1>2 DEF Position
    <3>2. k + 1 \in Int /\ Len(p) \in Int BY <1>2
    <3> QED BY <1>2, <3>1, <3>2, SubSeqProperties DEF Position
  <2> HIDE DEF head, tail
  <2>3. /\ s \in Position /\ Len(s) = k + Len(tail)
        /\ \A j \in 1..Len(s) : s[j] = IF j <= k THEN head[j] ELSE tail[j - k]
    <3>1. head \in Seq(Digit) /\ tail \in Seq(Digit) BY <2>1, <2>2 DEF Position
    <3>2. /\ s \in Seq(Digit) /\ Len(s) = Len(head) + Len(tail)
          /\ \A j \in 1..(Len(head) + Len(tail)) :
               s[j] = IF j <= Len(head) THEN head[j] ELSE tail[j - Len(head)]
      BY <3>1, ConcatProperties
    <3> HIDE DEF s
    <3> QED BY <2>1, <3>2 DEF Position
  <2> HIDE DEF s
  <2>4. /\ r \in Position /\ Len(r) = Len(s) + 1
        /\ \A j \in 1..Len(s) : r[j] = s[j]
    BY <2>3, MiddleDigit, AppendGives
  <2>5. Midpoint(p, q) = r
    <3>1. ~(high - low > 1) BY <1>4, <1>10
    <3> QED BY <1>8, <1>10, <3>1 DEF s, head, tail
  <2> HIDE DEF r
  <2>6. /\ Len(tail) \in Nat /\ k \in 1..Len(s)
    BY <1>2, <2>2, <2>3
  <2>7. r[k] = low /\ \A j \in 1..(k - 1) : r[j] = q[j]
    BY <1>2, <2>1, <2>3, <2>4, <2>6
  <2>8. Less(r, q)
    <3>1. k <= Len(r) /\ r[k] < q[k] BY <1>1, <1>2, <2>3, <2>4, <2>6, <2>7
    <3> QED BY <2>4, <2>7, <3>1, DecidedAt
  <2>9. Less(p, r)
    <3>1. Len(p) < Len(r)
      BY <1>2, <2>2, <2>3, <2>4
    <3>2. ASSUME NEW j \in 1..Len(p) PROVE p[j] = r[j]
      <4>1. CASE j < k
        <5>1. p[j] = q[j] BY <1>1, <1>2, <4>1 DEF PrevAt
        <5> QED BY <1>2, <2>7, <4>1, <5>1
      <4>2. CASE j = k BY <2>7, <4>2 DEF PrevAt
      <4>3. CASE j > k
        <5>1. /\ j - k \in 1..(Len(p) - k) /\ j \in 1..Len(s) /\ ~(j <= k)
              /\ k + (j - k) = j
          BY <1>2, <2>2, <2>3, <4>3
        <5>2. s[j] = tail[j - k] BY <2>3, <5>1
        <5>3. tail[j - k] = p[j] BY <2>2, <5>1
        <5> QED BY <2>4, <5>1, <5>2, <5>3
      <4> QED BY <1>2, <4>1, <4>2, <4>3
    <3> QED BY <2>4, <3>1, <3>2, LongerIsGreater
  <2> QED BY <2>4, <2>5, <2>8, <2>9
<1> QED BY <1>1, <1>4, <1>9, <1>10

(* Between keeps what the board relies on: for two neighbours in order, or *)
(* an end of the column, with a string between them, the new position is a *)
(* string of the alphabet and lies strictly between them.                  *)
THEOREM BetweenIsBetween ==
  ASSUME NEW p \in Position, NEW q \in Position,
         p = Nowhere \/ q = Nowhere \/ Less(p, q),
         Room(p, q)
  PROVE  /\ Between(p, q) \in Position
         /\ StrictlyBetween(p, Between(p, q), q)
<1>1. CASE p = Nowhere /\ q = Nowhere
  <2>1. Between(p, q) = <<Middle - 1>> BY <1>1 DEF Between, Initial
  <2>2. <<Middle - 1>> \in Position BY MiddleDigit DEF Position
  <2> QED BY <1>1, <2>1, <2>2 DEF StrictlyBetween
<1>2. CASE p # Nowhere /\ q = Nowhere
  BY <1>2, AppendFollows DEF Between, StrictlyBetween
<1>3. CASE p = Nowhere /\ q # Nowhere
  <2>1. \E i \in 1..Len(q) : q[i] # 0
    BY <1>3 DEF Room, PrevAt, Nowhere, Position
  <2> QED BY <1>3, <2>1, PrependPrecedes DEF Between, StrictlyBetween
<1>4. CASE p # Nowhere /\ q # Nowhere
  BY <1>4, MidpointBetween DEF Between, StrictlyBetween
<1> QED BY <1>1, <1>2, <1>3, <1>4

(* The order of strings is total. *)
LEMMA LessIsTotal ==
  ASSUME NEW p \in Position, NEW q \in Position, p # q
  PROVE  Less(p, q) \/ Less(q, p)
<1> DEFINE T == {i \in 1..Len(p) : i <= Len(q) /\ p[i] # q[i]}
<1>1. Len(p) \in Nat /\ Len(q) \in Nat BY DEF Position
<1>2. CASE T = {}
  <2>1. \A i \in 1..Len(p) : i <= Len(q) => p[i] = q[i] BY <1>2
  <2>2. CASE Len(p) < Len(q)
    <3>1. \A i \in 1..Len(p) : p[i] = q[i] BY <1>1, <2>1, <2>2
    <3> QED BY <2>2, <3>1, LongerIsGreater
  <2>3. CASE Len(q) < Len(p)
    <3>1. \A i \in 1..Len(q) : q[i] = p[i] BY <1>1, <2>1, <2>3
    <3> QED BY <2>3, <3>1, LongerIsGreater
  <2>4. CASE Len(p) = Len(q)
    <3>1. \A i \in 1..Len(p) : p[i] = q[i] BY <1>1, <2>1, <2>4
    <3> QED BY <2>4, <3>1 DEF Position
  <2> QED BY <1>1, <2>2, <2>3, <2>4
<1>3. CASE T # {}
  <2>1. PICK k \in T : \A j \in T : k <= j
    <3>1. T \in SUBSET Nat OBVIOUS
    <3> HIDE DEF T
    <3> QED BY <1>3, <3>1, Least
  <2>2. k \in 1..Len(p) /\ k \in 1..Len(q) /\ k <= Len(p) /\ k <= Len(q) /\ p[k] # q[k]
    BY <1>1, <2>1
  <2>3. \A j \in 1..(k - 1) : p[j] = q[j] BY <1>1, <2>1, <2>2
  <2>4. p[k] \in Int /\ q[k] \in Int
    <3>1. p[k] \in Digit /\ q[k] \in Digit BY <2>2 DEF Position
    <3> QED BY <3>1 DEF Digit
  <2>5. CASE p[k] < q[k] BY <2>2, <2>3, <2>5, DecidedAt
  <2>6. CASE q[k] < p[k]
    <3>1. \A j \in 1..(k - 1) : q[j] = p[j] BY <2>3
    <3> QED BY <2>2, <2>6, <3>1, DecidedAt
  <2> QED BY <2>2, <2>4, <2>5, <2>6
<1> QED BY <1>2, <1>3

LEMMA LessIsTransitive ==
  ASSUME NEW p \in Position, NEW q \in Position, NEW r \in Position, Less(p, q), Less(q, r)
  PROVE  Less(p, r)
<1>1. PICK i \in 1..Len(q) : /\ i <= Len(p) + 1
                             /\ \A j \in 1..(i - 1) : p[j] = q[j]
                             /\ i <= Len(p) => p[i] < q[i]
  BY DEF Less
<1>2. PICK k \in 1..Len(r) : /\ k <= Len(q) + 1
                             /\ \A j \in 1..(k - 1) : q[j] = r[j]
                             /\ k <= Len(q) => q[k] < r[k]
  BY DEF Less
<1>3. /\ Len(p) \in Nat /\ Len(q) \in Nat /\ Len(r) \in Nat
      /\ \A j \in 1..Len(p) : p[j] \in Int
      /\ \A j \in 1..Len(q) : q[j] \in Int
      /\ \A j \in 1..Len(r) : r[j] \in Int
  <2>1. /\ \A j \in 1..Len(p) : p[j] \in Digit
        /\ \A j \in 1..Len(q) : q[j] \in Digit
        /\ \A j \in 1..Len(r) : r[j] \in Digit
    BY DEF Position
  <2> QED BY <2>1 DEF Digit, Position
<1>4. CASE i <= k
  <2>1. i \in 1..Len(r) BY <1>2, <1>3, <1>4
  <2>2. \A j \in 1..(i - 1) : p[j] = r[j] BY <1>1, <1>2, <1>3, <1>4
  <2>3. i <= Len(p) => p[i] < r[i]
    <3>1. CASE i < k
      <4>1. q[i] = r[i] BY <1>2, <1>3, <3>1
      <4> QED BY <1>1, <4>1
    <3>2. CASE i = k
      <4>1. q[i] < r[i] BY <1>1, <1>2, <3>2
      <4>2. ASSUME i <= Len(p) PROVE p[i] < r[i]
        BY <1>1, <1>3, <2>1, <4>1, <4>2
      <4> QED BY <4>2
    <3> QED BY <1>4, <3>1, <3>2
  <2> QED BY <1>1, <2>1, <2>2, <2>3 DEF Less
<1>5. CASE k < i
  <2>1. k <= Len(q) /\ k <= Len(p) BY <1>1, <1>2, <1>3, <1>5
  <2>2. \A j \in 1..(k - 1) : p[j] = r[j] BY <1>1, <1>2, <1>3, <1>5
  <2>3. p[k] = q[k] BY <1>1, <1>2, <1>3, <1>5
  <2>4. p[k] < r[k] BY <1>2, <2>1, <2>3
  <2> QED BY <1>2, <2>1, <2>2, <2>4, DecidedAt
<1> QED BY <1>3, <1>4, <1>5

LEMMA LessIsStrict == ASSUME NEW p \in Position PROVE ~Less(p, p)
<1> SUFFICES ASSUME Less(p, p) PROVE FALSE
  OBVIOUS
<1>1. PICK i \in 1..Len(p) : i <= Len(p) => p[i] < p[i] BY DEF Less
<1>2. p[i] \in Int
  <2>1. p[i] \in Digit BY DEF Position
  <2> QED BY <2>1 DEF Digit
<1> QED BY <1>1, <1>2 DEF Position

(* What is not greater is as great or less. *)
LEMMA NotGreater ==
  ASSUME NEW p \in Position, NEW q \in Position, NEW r \in Position, ~Less(q, p), Less(q, r)
  PROVE  Less(p, r)
<1>1. CASE p = q BY <1>1
<1>2. CASE p # q
  <2>1. Less(p, q) BY <1>2, LessIsTotal
  <2> QED BY <2>1, LessIsTransitive
<1> QED BY <1>1, <1>2

(* Between two positions comes a position, or none, even where there is no *)
(* room for one.                                                           *)
LEMMA MidpointIsPosition ==
  ASSUME NEW p \in Position, NEW q \in Position, Midpoint(p, q) # NoSpaceLeft
  PROVE  Midpoint(p, q) \in Position /\ Midpoint(p, q) # Nowhere
<1> DEFINE First(k) == /\ PrevAt(p, k) # NextAt(q, k)
                       /\ \A j \in 1..(k - 1) : PrevAt(p, j) = NextAt(q, j)
           i == CHOOSE k \in 1..(Len(q) + 1) : First(k)
           T == {k \in 1..(Len(q) + 1) : PrevAt(p, k) # NextAt(q, k)}
<1>1. /\ Len(p) \in Nat /\ Len(q) \in Nat
      /\ \A k \in Nat \ {0} : PrevAt(p, k) \in Digit
      /\ \A k \in Nat \ {0} : NextAt(q, k) \in Digit \cup {Base}
      /\ NextAt(q, Len(q) + 1) = Base
  <2>1. Len(p) \in Nat /\ Len(q) \in Nat BY DEF Position
  <2>2. 0 \in Digit BY RankAssumption DEF Digit
  <2>3. \A k \in Nat \ {0} : PrevAt(p, k) \in Digit BY <2>1, <2>2 DEF PrevAt, Position
  <2>4. \A k \in Nat \ {0} : NextAt(q, k) \in Digit \cup {Base} BY <2>1 DEF NextAt, Position
  <2> QED BY <2>1, <2>3, <2>4 DEF NextAt
<1>2. \E k \in 1..(Len(q) + 1) : First(k)
  <2>1. Len(q) + 1 \in T
    <3>1. PrevAt(p, Len(q) + 1) # Base BY <1>1, RankAssumption DEF Digit
    <3> QED BY <1>1, <3>1
  <2>2. T \in SUBSET Nat OBVIOUS
  <2>3. PICK k \in T : \A j \in T : k <= j
    <3> HIDE DEF T
    <3> QED BY <2>1, <2>2, Least
  <2>4. \A j \in 1..(k - 1) : PrevAt(p, j) = NextAt(q, j) BY <1>1, <2>3
  <2> QED BY <2>3, <2>4
<1>3. i \in 1..(Len(q) + 1)
  <2> HIDE DEF First
  <2> QED BY <1>2
<1> DEFINE low == PrevAt(p, i)
           high == NextAt(q, i)
           same == SubSeq(q, 1, i - 1)
<1>4. Midpoint(p, q) =
        IF high - low > 1 THEN Append(same, (low + high) \div 2)
        ELSE IF high - low = 1
             THEN Append(Append(same, low) \o SubSeq(p, i + 1, Len(p)), Middle)
             ELSE NoSpaceLeft
  BY DEF Midpoint
<1> HIDE DEF i
<1>5. i \in Nat \ {0} /\ i - 1 \in Nat /\ i - 1 <= Len(q) BY <1>1, <1>3
<1>6. low \in 0..(Base - 1) /\ high \in 0..Base
  <2>1. low \in Digit /\ high \in Digit \cup {Base} BY <1>1, <1>5
  <2> QED BY <2>1, RankAssumption DEF Digit
<1>7. same \in Position BY <1>5, PrefixGives
<1> HIDE DEF low, high, same
<1>8. ASSUME NEW s \in Position, NEW d \in Digit
      PROVE  Append(s, d) \in Position /\ Append(s, d) # Nowhere
  BY DEF Position, Nowhere
<1>9. CASE high - low > 1
  <2>1. (low + high) \div 2 \in Digit BY <1>6, <1>9, RankAssumption DEF Digit
  <2> QED BY <1>4, <1>7, <1>8, <1>9, <2>1
<1>10. CASE high - low = 1
  <2>1. low \in Digit BY <1>6 DEF Digit
  <2>2. Append(same, low) \in Position BY <1>7, <1>8, <2>1
  <2>3. SubSeq(p, i + 1, Len(p)) \in Position
    <3>1. \A j \in (i + 1)..Len(p) : p[j] \in Digit BY <1>1, <1>5 DEF Position
    <3> QED BY <1>1, <1>5, <3>1, SubSeqProperties DEF Position
  <2>4. Append(same, low) \o SubSeq(p, i + 1, Len(p)) \in Position
    BY <2>2, <2>3, ConcatProperties DEF Position
  <2>5. ~(high - low > 1) BY <1>6, <1>10
  <2> QED BY <1>4, <1>8, <1>10, <2>4, <2>5, MiddleDigit
<1> QED BY <1>4, <1>9, <1>10

LEMMA PrependIsPosition ==
  ASSUME NEW q \in Position PROVE Prepend_(q) \in Position /\ Prepend_(q) # Nowhere
<1>1. CASE \A i \in 1..Len(q) : q[i] = 0
  <2>1. Prepend_(q) = <<0>> \o q BY <1>1 DEF Prepend_
  <2>2. 0 \in Digit BY RankAssumption DEF Digit
  <2> QED BY <2>1, <2>2 DEF Position, Nowhere
<1>2. CASE \E i \in 1..Len(q) : q[i] # 0
  BY <1>2, PrependPrecedes
<1> QED BY <1>1, <1>2

LEMMA BetweenIsPosition ==
  ASSUME NEW p \in Position, NEW q \in Position, Between(p, q) # NoSpaceLeft
  PROVE  Between(p, q) \in Position /\ Between(p, q) # Nowhere
<1>1. CASE p = Nowhere /\ q = Nowhere
  <2>1. Between(p, q) = <<Middle - 1>> BY <1>1 DEF Between, Initial
  <2>2. <<Middle - 1>> \in Position /\ <<Middle - 1>> # Nowhere
    BY MiddleDigit DEF Position, Nowhere
  <2> QED BY <2>1, <2>2
<1>2. CASE p # Nowhere /\ q = Nowhere
  <2>1. Append_(p) \in Position /\ Append_(p) # Nowhere
    BY MiddleDigit DEF Append_, Position, Nowhere
  <2> QED BY <1>2, <2>1 DEF Between
<1>3. CASE p = Nowhere /\ q # Nowhere
  BY <1>3, PrependIsPosition DEF Between
<1>4. CASE p # Nowhere /\ q # Nowhere
  BY <1>4, MidpointIsPosition DEF Between
<1> QED BY <1>1, <1>2, <1>3, <1>4

-----------------------------------------------------------------------------
(* The list the clients have in mind                                       *)

LEMMA RemovedGives ==
  ASSUME NEW S, NEW s \in Seq(S), NEW k \in 1..Len(s)
  PROVE  /\ RemoveAt(s, k) \in Seq(S) /\ Len(RemoveAt(s, k)) = Len(s) - 1
         /\ \A i \in 1..(Len(s) - 1) : RemoveAt(s, k)[i] = IF i < k THEN s[i] ELSE s[i + 1]
<1> DEFINE a == SubSeq(s, 1, k - 1)
           b == SubSeq(s, k + 1, Len(s))
<1>1. /\ a \in Seq(S) /\ Len(a) = k - 1 /\ \A i \in 1..(k - 1) : a[i] = s[i]
  OBVIOUS
<1>2. /\ b \in Seq(S) /\ Len(b) = Len(s) - k
      /\ \A i \in 1..(Len(s) - k) : b[i] = s[i + k]
  OBVIOUS
<1>3. RemoveAt(s, k) = a \o b BY DEF RemoveAt
<1> HIDE DEF a, b
<1>4. /\ a \o b \in Seq(S) /\ Len(a \o b) = Len(s) - 1
  <2>1. a \o b \in Seq(S) /\ Len(a \o b) = Len(a) + Len(b)
    <3>1. a \in Seq(S) /\ b \in Seq(S) BY <1>1, <1>2
    <3> QED BY <3>1, ConcatProperties
  <2>2. (k - 1) + (Len(s) - k) = Len(s) - 1 OBVIOUS
  <2> QED BY <1>1, <1>2, <2>1, <2>2
<1>5. ASSUME NEW i \in 1..(Len(s) - 1)
      PROVE  (a \o b)[i] = IF i < k THEN s[i] ELSE s[i + 1]
  <2>1. CASE i < k BY <1>1, <1>2, <2>1
  <2>2. CASE ~(i < k)
    <3>1. PICK j \in 1..(Len(s) - k) : i = (k - 1) + j BY <2>2
    <3>2. (a \o b)[i] = b[j]
      <4>1. i \in 1..(Len(a) + Len(b)) /\ ~(i <= Len(a)) /\ i - Len(a) = j
        BY <1>1, <1>2, <3>1
      <4> QED BY <1>1, <1>2, <4>1, ConcatProperties
    <3>3. b[j] = s[i + 1] BY <1>2, <3>1
    <3> QED BY <2>2, <3>2, <3>3
  <2> QED BY <2>1, <2>2
<1> QED BY <1>3, <1>4, <1>5

LEMMA InsertedGives ==
  ASSUME NEW S, NEW s \in Seq(S), NEW k \in 1..Len(s), NEW x \in S
  PROVE  /\ InsertAt(s, k, x) \in Seq(S) /\ Len(InsertAt(s, k, x)) = Len(s) + 1
         /\ \A i \in 1..(Len(s) + 1) :
              InsertAt(s, k, x)[i] = IF i < k THEN s[i] ELSE IF i = k THEN x ELSE s[i - 1]
<1> DEFINE a == SubSeq(s, 1, k - 1)
           b == SubSeq(s, k, Len(s))
           c == Append(a, x)
<1>1. /\ a \in Seq(S) /\ Len(a) = k - 1 /\ \A i \in 1..(k - 1) : a[i] = s[i]
  OBVIOUS
<1>2. /\ b \in Seq(S) /\ Len(b) = Len(s) - k + 1
      /\ \A i \in 1..(Len(s) - k + 1) : b[i] = s[i + k - 1]
  OBVIOUS
<1>3. InsertAt(s, k, x) = c \o b
  <2>1. c = a \o <<x>> BY <1>1, AppendIsConcat
  <2> HIDE DEF c
  <2> QED BY <2>1 DEF InsertAt
<1>4. /\ c \in Seq(S) /\ Len(c) = k /\ c[k] = x /\ \A i \in 1..(k - 1) : c[i] = s[i]
  <2> HIDE DEF a
  <2> QED BY <1>1
<1> HIDE DEF a, b, c
<1>5. /\ c \o b \in Seq(S) /\ Len(c \o b) = Len(s) + 1
  <2>1. c \o b \in Seq(S) /\ Len(c \o b) = Len(c) + Len(b) BY <1>2, <1>4, ConcatProperties
  <2>2. k + (Len(s) - k + 1) = Len(s) + 1 OBVIOUS
  <2> QED BY <1>2, <1>4, <2>1, <2>2
<1>6. ASSUME NEW i \in 1..(Len(s) + 1)
      PROVE  (c \o b)[i] = IF i < k THEN s[i] ELSE IF i = k THEN x ELSE s[i - 1]
  <2>1. CASE i <= k
    <3>1. i \in 1..(Len(c) + Len(b)) /\ i <= Len(c) BY <1>2, <1>4, <2>1
    <3>2. (c \o b)[i] = c[i] BY <1>2, <1>4, <3>1, ConcatProperties
    <3> QED BY <1>4, <2>1, <3>2
  <2>2. CASE ~(i <= k)
    <3>1. PICK j \in 1..(Len(s) - k + 1) : i = k + j BY <2>2
    <3>2. i \in 1..(Len(c) + Len(b)) /\ ~(i <= Len(c)) /\ i - Len(c) = j
      BY <1>2, <1>4, <3>1
    <3>3. (c \o b)[i] = b[j] BY <1>2, <1>4, <3>2, ConcatProperties
    <3>4. b[j] = s[i - 1] BY <1>2, <3>1
    <3> QED BY <2>2, <3>3, <3>4
  <2> QED BY <2>1, <2>2
<1> QED BY <1>3, <1>5, <1>6

(* The list of tasks has each once; x stands before y in it. *)
Once(s) == \A i, j \in 1..Len(s) : s[i] = s[j] => i = j
Ahead(s, x, y) == \E i, j \in 1..Len(s) : i < j /\ s[i] = x /\ s[j] = y
Has(s, x) == \E i \in 1..Len(s) : s[i] = x

LEMMA WithoutGives ==
  ASSUME wanted \in Seq(Task), Once(wanted), NEW t \in Task
  PROVE  /\ Without(t) \in Seq(Task) /\ Once(Without(t)) /\ ~Has(Without(t), t)
         /\ \A x \in Task \ {t} : Has(wanted, x) => Has(Without(t), x)
         /\ \A x, y \in Task : Ahead(Without(t), x, y) => Ahead(wanted, x, y)
<1>1. CASE IndexOf(t) = {}
  <2>1. Without(t) = wanted BY <1>1 DEF Without
  <2>2. ~Has(wanted, t) BY <1>1 DEF IndexOf, Has
  <2> QED BY <2>1, <2>2
<1>2. CASE IndexOf(t) # {}
  <2>1. PICK k \in 1..Len(wanted) : wanted[k] = t /\ Without(t) = RemoveAt(wanted, k)
    BY <1>2 DEF IndexOf, Without
  <2>2. PICK r : r = Without(t) OBVIOUS
  <2>3. /\ r \in Seq(Task) /\ Len(r) = Len(wanted) - 1
        /\ \A i \in 1..(Len(wanted) - 1) : r[i] = IF i < k THEN wanted[i] ELSE wanted[i + 1]
    BY <2>1, <2>2, RemovedGives
  <2> DEFINE f(i) == IF i < k THEN i ELSE i + 1
  <2>4. \A i \in 1..Len(r) : f(i) \in 1..Len(wanted) /\ f(i) # k /\ r[i] = wanted[f(i)]
    BY <2>3
  <2>5. \A i, j \in 1..Len(r) : (f(i) = f(j) => i = j) /\ (i < j => f(i) < f(j))
    BY <2>3
  <2>6. \A n \in 1..Len(wanted) : n # k => \E i \in 1..Len(r) : f(i) = n
    <3> SUFFICES ASSUME NEW n \in 1..Len(wanted), n # k PROVE \E i \in 1..Len(r) : f(i) = n
      OBVIOUS
    <3>1. CASE n < k
      <4>1. n \in 1..Len(r) /\ f(n) = n BY <2>3, <3>1
      <4> QED BY <4>1
    <3>2. CASE ~(n < k)
      <4>1. n - 1 \in 1..Len(r) /\ f(n - 1) = n BY <2>3, <3>2
      <4> QED BY <4>1
    <3> QED BY <3>1, <3>2
  <2> HIDE DEF f
  <2>7. Once(r) BY <2>4, <2>5 DEF Once
  <2>8. ~Has(r, t) BY <2>1, <2>4 DEF Once, Has
  <2>9. ASSUME NEW x \in Task \ {t}, Has(wanted, x) PROVE Has(r, x)
    <3>1. PICK n \in 1..Len(wanted) : wanted[n] = x BY <2>9 DEF Has
    <3>2. PICK i \in 1..Len(r) : f(i) = n BY <2>1, <2>6, <3>1
    <3> QED BY <2>4, <3>1, <3>2 DEF Has
  <2>10. ASSUME NEW x \in Task, NEW y \in Task, Ahead(r, x, y) PROVE Ahead(wanted, x, y)
    <3>1. PICK i \in 1..Len(r), j \in 1..Len(r) : i < j /\ r[i] = x /\ r[j] = y
      BY <2>10 DEF Ahead
    <3> QED BY <2>4, <2>5, <3>1 DEF Ahead
  <2> QED BY <2>2, <2>3, <2>7, <2>8, <2>9, <2>10
<1> QED BY <1>1, <1>2

(* A task put somewhere leaves the others in their order, and comes before *)
(* the one it was put before and what follows that, after all else.        *)
LEMMA PlaceGives ==
  ASSUME wanted \in Seq(Task), Once(wanted), NEW t \in Task, NEW before, before # t
  PROVE  /\ Place(t, before) \in Seq(Task) /\ Once(Place(t, before)) /\ Has(Place(t, before), t)
         /\ \A x \in Task : Has(wanted, x) => Has(Place(t, before), x)
         /\ \A x, y \in Task \ {t} : Ahead(Place(t, before), x, y) => Ahead(wanted, x, y)
         /\ \A x \in Task \ {t} : Ahead(Place(t, before), x, t) /\ Has(wanted, before) =>
                                     Ahead(wanted, x, before)
         /\ \A y \in Task \ {t} : Ahead(Place(t, before), t, y) =>
                                     y = before \/ Ahead(wanted, before, y)
<1>1. PICK s : s = Without(t) OBVIOUS
<1>2. /\ s \in Seq(Task) /\ Once(s) /\ ~Has(s, t)
      /\ \A x \in Task \ {t} : Has(wanted, x) => Has(s, x)
      /\ \A x, y \in Task : Ahead(s, x, y) => Ahead(wanted, x, y)
  BY <1>1, WithoutGives
<1>3. PICK r : r = Place(t, before) OBVIOUS
<1> SUFFICES /\ r \in Seq(Task) /\ Once(r) /\ Has(r, t)
             /\ \A x \in Task \ {t} : Has(s, x) => Has(r, x)
             /\ \A x, y \in Task \ {t} : Ahead(r, x, y) => Ahead(s, x, y)
             /\ \A x \in Task \ {t} : Ahead(r, x, t) /\ Has(s, before) => Ahead(s, x, before)
             /\ \A y \in Task \ {t} : Ahead(r, t, y) => y = before \/ Ahead(s, before, y)
  <2>1. Has(wanted, before) => Has(s, before)
    <3>1. Has(wanted, before) => before \in Task BY DEF Has
    <3> QED BY <1>2, <3>1
  <2>2. Has(s, before) => before \in Task BY <1>2 DEF Has
  <2>3. \A x, y : Ahead(s, x, y) => x \in Task /\ y \in Task BY <1>2 DEF Ahead
  <2> QED BY <1>2, <1>3, <2>1, <2>2, <2>3
<1> DEFINE places == {i \in 1..Len(s) : s[i] = before}
<1>4. CASE places = {}
  <2>1. r = Append(s, t) BY <1>1, <1>3, <1>4 DEF Place
  <2>2. ~Has(s, before) BY <1>4 DEF Has
  <2>3. /\ r \in Seq(Task) /\ Len(r) = Len(s) + 1 /\ r[Len(s) + 1] = t
        /\ \A i \in 1..Len(s) : r[i] = s[i] /\ s[i] # t
    BY <1>2, <2>1 DEF Has
  <2>4. Len(s) \in Nat BY <1>2
  <2>5. \A i \in 1..Len(r) : i \in 1..Len(s) \/ i = Len(s) + 1 BY <2>3, <2>4
  <2>6. /\ \A i \in 1..Len(s) : i \in 1..Len(r) /\ i < Len(s) + 1 /\ ~(Len(s) + 1 < i)
        /\ Len(s) + 1 \in 1..Len(r) /\ ~(Len(s) + 1 < Len(s) + 1)
    BY <2>3, <2>4
  <2>7. Once(r) BY <1>2, <2>3, <2>5 DEF Once
  <2>8. Has(r, t) /\ \A x : Has(s, x) => Has(r, x) BY <2>3, <2>6 DEF Has
  <2>9. \A x, y \in Task \ {t} : Ahead(r, x, y) => Ahead(s, x, y)
    BY <2>3, <2>5 DEF Ahead
  <2>10. \A y \in Task \ {t} : ~Ahead(r, t, y)
    BY <2>3, <2>5 DEF Ahead
  <2> QED BY <2>2, <2>3, <2>7, <2>8, <2>9, <2>10
<1>5. CASE places # {}
  <2>1. PICK k \in 1..Len(s) : s[k] = before /\ r = InsertAt(s, k, t)
    BY <1>1, <1>3, <1>5 DEF Place
  <2>2. /\ r \in Seq(Task) /\ Len(r) = Len(s) + 1
        /\ \A i \in 1..(Len(s) + 1) : r[i] = IF i < k THEN s[i] ELSE IF i = k THEN t ELSE s[i - 1]
    BY <1>2, <2>1, InsertedGives
  <2>3. Len(s) \in Nat /\ k \in Nat /\ k >= 1 /\ k <= Len(s) BY <1>2, <2>1
  <2> DEFINE g(i) == IF i < k THEN i ELSE i - 1
  <2>4. \A i \in 1..Len(r) : i # k =>
          g(i) \in 1..Len(s) /\ r[i] = s[g(i)] /\ (i < k <=> g(i) < k)
    BY <2>2, <2>3
  <2>5. r[k] = t /\ k \in 1..Len(r) BY <2>2, <2>3
  <2>6. \A i, j \in 1..Len(r) : i # k /\ j # k => (g(i) = g(j) => i = j) /\ (i < j => g(i) < g(j))
    BY <2>2, <2>3
  <2>7. \A n \in 1..Len(s) : \E i \in 1..Len(r) : i # k /\ g(i) = n
    <3> SUFFICES ASSUME NEW n \in 1..Len(s) PROVE \E i \in 1..Len(r) : i # k /\ g(i) = n
      OBVIOUS
    <3>1. CASE n < k
      <4>1. n \in 1..Len(r) /\ n # k /\ g(n) = n BY <2>2, <2>3, <3>1
      <4> QED BY <4>1
    <3>2. CASE ~(n < k)
      <4>1. n + 1 \in 1..Len(r) /\ n + 1 # k /\ g(n + 1) = n BY <2>2, <2>3, <3>2
      <4> QED BY <4>1
    <3> QED BY <3>1, <3>2
  <2>8. \A i \in 1..Len(s) : s[i] # t BY <1>2 DEF Has
  <2> HIDE DEF g
  <2>9. Once(r)
    <3> SUFFICES ASSUME NEW i \in 1..Len(r), NEW j \in 1..Len(r), r[i] = r[j] PROVE i = j
      BY DEF Once
    <3>1. CASE i = k \/ j = k BY <2>4, <2>5, <2>8, <3>1
    <3>2. CASE i # k /\ j # k
      <4>1. s[g(i)] = s[g(j)] BY <2>4, <3>2
      <4>2. g(i) = g(j) BY <1>2, <2>4, <3>2, <4>1 DEF Once
      <4> QED BY <2>6, <3>2, <4>2
    <3> QED BY <3>1, <3>2
  <2>10. Has(r, t) BY <2>5 DEF Has
  <2>11. ASSUME NEW x, Has(s, x) PROVE Has(r, x)
    <3>1. PICK n \in 1..Len(s) : s[n] = x BY <2>11 DEF Has
    <3>2. PICK i \in 1..Len(r) : i # k /\ g(i) = n BY <2>7
    <3> QED BY <2>4, <3>1, <3>2 DEF Has
  <2>12. ASSUME NEW x \in Task \ {t}, NEW y \in Task \ {t}, Ahead(r, x, y) PROVE Ahead(s, x, y)
    <3>1. PICK i \in 1..Len(r), j \in 1..Len(r) : i < j /\ r[i] = x /\ r[j] = y
      BY <2>12 DEF Ahead
    <3>2. i # k /\ j # k BY <2>5, <3>1
    <3> QED BY <2>4, <2>6, <3>1, <3>2 DEF Ahead
  <2>13. ASSUME NEW x \in Task \ {t}, Ahead(r, x, t) PROVE Ahead(s, x, before)
    <3>1. PICK i \in 1..Len(r), j \in 1..Len(r) : i < j /\ r[i] = x /\ r[j] = t
      BY <2>13 DEF Ahead
    <3>2. j = k BY <2>5, <2>9, <3>1 DEF Once
    <3>3. i # k /\ i < k BY <2>5, <3>1, <3>2
    <3> QED BY <2>1, <2>4, <3>1, <3>3 DEF Ahead
  <2>14. ASSUME NEW y \in Task \ {t}, Ahead(r, t, y) PROVE y = before \/ Ahead(s, before, y)
    <3>1. PICK i \in 1..Len(r), j \in 1..Len(r) : i < j /\ r[i] = t /\ r[j] = y
      BY <2>14 DEF Ahead
    <3>2. i = k BY <2>5, <2>9, <3>1 DEF Once
    <3>3. j # k BY <2>5, <3>1
    <3>4. ~(j < k) BY <2>2, <2>3, <3>1, <3>2
    <3>5. g(j) \in 1..Len(s) /\ s[g(j)] = y /\ ~(g(j) < k) BY <2>4, <3>1, <3>3, <3>4
    <3>6. g(j) = k \/ k < g(j) BY <2>3, <3>5
    <3> QED BY <2>1, <3>5, <3>6 DEF Ahead
  <2> QED BY <2>2, <2>9, <2>10, <2>11, <2>12, <2>13, <2>14
<1> QED BY <1>4, <1>5

(* Nothing but the task is new. *)
LEMMA PlaceHas ==
  ASSUME wanted \in Seq(Task), Once(wanted), NEW t \in Task, NEW before, NEW x,
         Has(Place(t, before), x), x # t
  PROVE  Has(wanted, x)
<1>1. PICK s : s = Without(t) OBVIOUS
<1>2. s \in Seq(Task) /\ \A i \in 1..Len(s) : Has(wanted, s[i])
  <2>1. CASE IndexOf(t) = {}
    BY <1>1, <2>1 DEF Without, Has
  <2>2. CASE IndexOf(t) # {}
    <3>1. PICK k \in 1..Len(wanted) : s = RemoveAt(wanted, k)
      BY <1>1, <2>2 DEF IndexOf, Without
    <3>2. /\ s \in Seq(Task) /\ Len(s) = Len(wanted) - 1
          /\ \A i \in 1..(Len(wanted) - 1) : s[i] = IF i < k THEN wanted[i] ELSE wanted[i + 1]
      BY <3>1, RemovedGives
    <3>3. \A i \in 1..Len(s) : i \in 1..Len(wanted) /\ i + 1 \in 1..Len(wanted) BY <3>2
    <3> QED BY <3>2, <3>3 DEF Has
  <2> QED BY <2>1, <2>2
<1>3. PICK r : r = Place(t, before) OBVIOUS
<1>4. PICK n \in 1..Len(r) : r[n] = x BY <1>3 DEF Has
<1> DEFINE places == {i \in 1..Len(s) : s[i] = before}
<1>5. CASE places = {}
  <2>1. r = Append(s, t) BY <1>1, <1>3, <1>5 DEF Place
  <2>2. n \in 1..Len(s) /\ s[n] = x BY <1>2, <1>4, <2>1
  <2> QED BY <1>2, <2>2
<1>6. CASE places # {}
  <2>1. PICK k \in 1..Len(s) : r = InsertAt(s, k, t) BY <1>1, <1>3, <1>6 DEF Place
  <2>2. /\ Len(r) = Len(s) + 1
        /\ \A i \in 1..(Len(s) + 1) : r[i] = IF i < k THEN s[i] ELSE IF i = k THEN t ELSE s[i - 1]
    <3>1. s \in Seq(Task) /\ t \in Task /\ k \in 1..Len(s) BY <1>2
    <3>2. /\ Len(InsertAt(s, k, t)) = Len(s) + 1
          /\ \A i \in 1..(Len(s) + 1) :
               InsertAt(s, k, t)[i] = IF i < k THEN s[i] ELSE IF i = k THEN t ELSE s[i - 1]
      BY <3>1, InsertedGives
    <3> QED BY <2>1, <3>2
  <2>3. \E i \in 1..Len(s) : s[i] = x
    <3>1. Len(s) \in Nat BY <1>2
    <3>2. CASE n < k
      <4>1. n \in 1..Len(s) /\ s[n] = x BY <1>4, <2>2, <3>1, <3>2
      <4> QED BY <4>1
    <3>3. CASE ~(n < k)
      <4>1. n # k BY <1>4, <2>2
      <4>2. n - 1 \in 1..Len(s) /\ s[n - 1] = x BY <1>4, <2>2, <3>1, <3>3, <4>1
      <4> QED BY <4>2
    <3> QED BY <3>2, <3>3
  <2> QED BY <1>2, <2>3
<1> QED BY <1>5, <1>6

-----------------------------------------------------------------------------
(* Board types                                                             *)

(* A request that deletes the type reads its row too. *)
Written == Definition \cup Patched(Definition, << >>)

EditRecord ==
  [op : {None, "boardtype.registered", "boardtype.updated", "boardtype.deleted"},
   patch : scenario.patches \cup Definition \cup {<< >>},
   row : SUBSET Written, old : BOOLEAN]
OrderRecord ==
  [op : {None, "board.created", "column.created", "board.updated", "board.deleted"},
   step : {None, "type", "fetch", "store", "insert", "read", "write", "tell"},
   at : Replica \cup {None}, config : Config \cup {NoConfig}, columns : SUBSET Column,
   types : SUBSET Definition, old : BOOLEAN]
RegistryOK == /\ scenario \in Scenarios
              /\ types \subseteq Definition
              /\ edit \in [Editor -> EditRecord]
CopiesOK == feed \in Nat /\ cached \in [Replica -> SUBSET Definition]
OrdersOK == /\ order \in [Client -> OrderRecord]
            /\ \A q \in Client : order[q].step \in {"type", "fetch", "store"} => order[q].at \in Replica
EventType == {"board.created", "column.created", "board.deleted", "project.deleted",
              "project.member.removed", "user.deleted"}
EventRecord == [type : EventType, about : User \cup {None}, columns : SUBSET Column]
BoardOK == columns \subseteq Column /\ inbox \in Seq(EventRecord)

(* What an editor is going to write: a definition that is valid, and what  *)
(* its patch makes of the row unless that was changed meanwhile.           *)
Edited(e) ==
  /\ edit[e].op = "boardtype.updated" => edit[e].patch \in scenario.patches
  /\ edit[e].op = "boardtype.registered" => edit[e].patch \in Definition
  /\ edit[e].op = "boardtype.deleted" => edit[e].patch = << >>
  /\ edit[e].op # "boardtype.deleted" => edit[e].row \subseteq Definition
  /\ \A d \in edit[e].row : Valid(d)
  /\ edit[e].op = "boardtype.updated" /\ edit[e].row # {} /\ ~edit[e].old =>
       edit[e].row = Patched(types, edit[e].patch)

(* A definition on its way to an instance is the registry's once every     *)
(* event is handled, unless one was handled meanwhile.                     *)
FetchedIsCurrent ==
  feed = 0 => \A q \in Client : Fetching(q) /\ ~order[q].old => order[q].types = types

BoardsInv ==
  /\ RegistryOK /\ CopiesOK /\ OrdersOK /\ BoardOK
  /\ \A e \in Editor : Edited(e)
  /\ DefinitionKept /\ CopyIsCurrent /\ FetchedIsCurrent

USE BoardsAssumption DEF None


LEMMA EditsTyped ==
  ASSUME RegistryOK, \A e \in Editor : Edited(e), EditTypes
  PROVE  RegistryOK' /\ \A e \in Editor : Edited(e)'
<1> SUFFICES ASSUME NEW e \in Editor,
                    \/ AskType(e) \/ GetBoardType(e)
                    \/ CreateBoardType(e) \/ UpdateBoardType(e) \/ DeleteBoardType(e)
             PROVE  RegistryOK' /\ \A x \in Editor : Edited(x)'
  BY DEF EditTypes
<1>1. ASSUME NEW op \in {"boardtype.registered", "boardtype.updated", "boardtype.deleted"},
             NEW patch \in scenario.patches \cup Definition \cup {<< >>},
             op = "boardtype.updated" => patch \in scenario.patches,
             op = "boardtype.registered" => patch \in Definition,
             op = "boardtype.deleted" => patch = << >>, AskEdit(e, op, patch)
      PROVE  RegistryOK' /\ \A x \in Editor : Edited(x)'
  <2> DEFINE new == [NoEdit EXCEPT !.op = op, !.patch = patch]
  <2>1. /\ new \in EditRecord /\ new.op = op /\ new.patch = patch /\ new.row = {}
    BY <1>1 DEF EditRecord, NoEdit
  <2>2. edit' = [edit EXCEPT ![e] = new] /\ UNCHANGED <<types, scenario>>
    BY <1>1 DEF AskEdit
  <2> HIDE DEF new
  <2>3. RegistryOK' BY <2>1, <2>2 DEF RegistryOK, EditRecord
  <2>4. ASSUME NEW x \in Editor PROVE Edited(x)'
    <3>1. CASE x = e
      <4>1. edit'[x] = new BY <2>2, <3>1 DEF RegistryOK
      <4> QED BY <1>1, <2>1, <2>2, <4>1 DEF Edited
    <3>2. CASE x # e
      <4>1. edit'[x] = edit[x] BY <2>2, <3>2 DEF RegistryOK
      <4> QED BY <2>2, <4>1 DEF Edited
    <3> QED BY <3>1, <3>2
  <2> QED BY <2>3, <2>4
<1>2. CASE AskType(e)
  BY <1>1, <1>2 DEF AskType, RegistryOK
<1>3. ASSUME EndEdit(e), UNCHANGED <<types, scenario>>
      PROVE  RegistryOK' /\ \A x \in Editor : Edited(x)'
  <2>1. NoEdit \in EditRecord BY DEF NoEdit, EditRecord
  <2>2. RegistryOK' BY <1>3, <2>1 DEF EndEdit, RegistryOK, EditRecord
  <2>3. \A x \in Editor : Edited(x)' BY <1>3 DEF EndEdit, RegistryOK, Edited, NoEdit
  <2> QED BY <2>2, <2>3
<1>4. CASE GetBoardType(e)
  <2> DEFINE c == edit[e]
             row == IF c.op = "boardtype.registered" THEN IF types = {} THEN {c.patch} ELSE {}
                    ELSE Patched(types, c.patch)
  <2>1. CASE EndEdit(e)
    BY <1>3, <1>4, <2>1 DEF GetBoardType
  <2>2. CASE row # {} /\ (\A d \in row : Valid(d)) /\ edit' = [edit EXCEPT ![e].row = row]
    <3>1. c \in EditRecord /\ Edited(e) /\ c.op # None BY <1>4 DEF RegistryOK, GetBoardType, Ready
    <3>2. row \subseteq Written /\ (c.op # "boardtype.deleted" => row \subseteq Definition)
      <4>1. CASE c.op = "boardtype.registered" BY <3>1, <4>1 DEF Written, Edited
      <4>2. CASE c.op = "boardtype.updated"
        <5>1. \A d \in types : c.patch @@ d \in Definition
          BY <3>1, <4>2 DEF RegistryOK, Edited
        <5> QED BY <4>2, <5>1 DEF Written, Patched
      <4>3. CASE c.op = "boardtype.deleted"
        BY <3>1, <4>3 DEF RegistryOK, Edited, Written, Patched
      <4> QED BY <3>1, <4>1, <4>2, <4>3 DEF EditRecord
    <3>3. UNCHANGED <<types, scenario>> BY <1>4 DEF GetBoardType
    <3>4. PICK rs : rs = row OBVIOUS
    <3>5. edit' = [edit EXCEPT ![e] = [@ EXCEPT !.row = rs]] BY <2>2, <3>4
    <3>6. c.op = "boardtype.updated" => rs = Patched(types, c.patch) BY <3>4
    <3>7. /\ rs \subseteq Written /\ \A d \in rs : Valid(d)
          /\ c.op # "boardtype.deleted" => rs \subseteq Definition
      BY <2>2, <3>2, <3>4
    <3> HIDE DEF row
    <3>8. RegistryOK' BY <3>3, <3>5, <3>7 DEF RegistryOK, EditRecord
    <3>9. ASSUME NEW x \in Editor PROVE Edited(x)'
      <4>1. CASE x = e
        <5>1. edit'[x] = [c EXCEPT !.row = rs] BY <3>5, <4>1 DEF RegistryOK
        <5>2. /\ edit'[x].op = c.op /\ edit'[x].patch = c.patch /\ edit'[x].row = rs
          BY <3>1, <5>1 DEF EditRecord
        <5> QED BY <3>1, <3>3, <3>6, <3>7, <5>2 DEF Edited
      <4>2. CASE x # e
        <5>1. edit'[x] = edit[x] BY <3>5, <4>2 DEF RegistryOK
        <5> QED BY <3>3, <5>1 DEF Edited
      <4> QED BY <4>1, <4>2
    <3> QED BY <3>8, <3>9
  <2> QED BY <1>4, <2>1, <2>2 DEF GetBoardType
<1>5. ASSUME NEW rows \in SUBSET Definition, NEW asks, Write(e, rows, asks)
      PROVE  RegistryOK' /\ \A x \in Editor : Edited(x)'
  <2>1. NoEdit \in EditRecord BY DEF NoEdit, EditRecord
  <2>2. types' = rows /\ scenario' = scenario
    BY <1>5 DEF Write
  <2>3. \A x \in Editor : x # e => [edit[x] EXCEPT !.old = @ \/ edit[x].row # {}] \in EditRecord
    BY DEF RegistryOK, EditRecord
  <2>4. RegistryOK' BY <1>5, <2>1, <2>2, <2>3 DEF RegistryOK, EditRecord, Write
  <2>5. ASSUME NEW x \in Editor PROVE Edited(x)'
    <3>1. CASE x = e BY <1>5, <3>1 DEF Write, NoEdit, Edited
    <3>2. CASE x # e
      <4>1. edit'[x] = [edit[x] EXCEPT !.old = @ \/ edit[x].row # {}] BY <1>5, <3>2 DEF Write
      <4>2. edit[x] \in EditRecord BY DEF RegistryOK
      <4> QED BY <2>2, <4>1, <4>2 DEF EditRecord, Edited
    <3> QED BY <3>1, <3>2
  <2> QED BY <2>4, <2>5
<1>6. CASE CreateBoardType(e)
  <2>1. edit[e].row \subseteq Definition
    BY <1>6 DEF CreateBoardType, Begun, Edited
  <2> QED BY <1>3, <1>5, <1>6, <2>1 DEF CreateBoardType, Rollback
<1>7. CASE UpdateBoardType(e)
  <2>1. edit[e].row \subseteq Definition
    BY <1>7 DEF UpdateBoardType, Begun, Edited
  <2> QED BY <1>3, <1>5, <1>7, <2>1 DEF UpdateBoardType, Rollback
<1>8. CASE DeleteBoardType(e)
  BY <1>3, <1>5, <1>8 DEF DeleteBoardType, Rollback
<1> QED BY <1>2, <1>4, <1>6, <1>7, <1>8

(* The definition is kept, because a row that was read before another's    *)
(* write is known to be old.                                               *)
LEMMA EditsKeep ==
  ASSUME RegistryOK, CopiesOK, \A e \in Editor : Edited(e), DefinitionKept, CopyIsCurrent,
         FetchedIsCurrent, EditTypes
  PROVE  CopiesOK' /\ DefinitionKept' /\ CopyIsCurrent' /\ FetchedIsCurrent'
<1> SUFFICES ASSUME NEW e \in Editor,
                    \/ AskType(e) \/ GetBoardType(e)
                    \/ CreateBoardType(e) \/ UpdateBoardType(e) \/ DeleteBoardType(e)
             PROVE  CopiesOK' /\ DefinitionKept' /\ CopyIsCurrent' /\ FetchedIsCurrent'
  BY DEF EditTypes
<1>1. ASSUME UNCHANGED <<types, asked, overlapped, cacheVars, order>>
      PROVE  CopiesOK' /\ DefinitionKept' /\ CopyIsCurrent' /\ FetchedIsCurrent'
  BY <1>1 DEF CopiesOK, DefinitionKept, CopyIsCurrent, FetchedIsCurrent, Fetching, cacheVars
<1>2. ASSUME NEW rows, NEW asks, \A d \in rows : Valid(d), Write(e, rows, asks),
             overlapped \/ edit[e].old \/ rows = asks
      PROVE  CopiesOK' /\ DefinitionKept' /\ CopyIsCurrent' /\ FetchedIsCurrent'
  <2>1. feed' \in Nat /\ feed' # 0 BY <1>2 DEF Write, CopiesOK
  <2>2. CopiesOK' BY <1>2, <2>1 DEF Write, CopiesOK
  <2>3. DefinitionKept' BY <1>2 DEF Write, DefinitionKept, Valid
  <2> QED BY <2>1, <2>2, <2>3 DEF CopyIsCurrent, FetchedIsCurrent
<1>3. CASE AskType(e) BY <1>1, <1>3 DEF AskType, AskEdit
<1>4. CASE GetBoardType(e) BY <1>1, <1>4 DEF GetBoardType
<1>5. CASE CreateBoardType(e)
  BY <1>1, <1>2, <1>5 DEF CreateBoardType, Rollback, Edited
<1>6. CASE UpdateBoardType(e)
  <2>1. ASSUME ~overlapped, ~edit[e].old PROVE edit[e].row = Patched(asked, edit[e].patch)
    BY <1>6, <2>1 DEF UpdateBoardType, Begun, Edited, DefinitionKept
  <2> QED BY <1>1, <1>2, <1>6, <2>1 DEF UpdateBoardType, Rollback, Edited
<1>7. CASE DeleteBoardType(e)
  BY <1>1, <1>2, <1>7 DEF DeleteBoardType, Rollback
<1> QED BY <1>3, <1>4, <1>5, <1>6, <1>7

-----------------------------------------------------------------------------
(* The copies                                                              *)

LEMMA CopiesFollow ==
  ASSUME RegistryOK, CopiesOK, OrdersOK, CopyIsCurrent, FetchedIsCurrent, KeepTypes
  PROVE  CopiesOK' /\ OrdersOK' /\ CopyIsCurrent' /\ FetchedIsCurrent'
<1> SUFFICES ASSUME NEW i \in Replica, HandleBoardTypeChanged(i) \/ TypeExpires(i)
             PROVE  CopiesOK' /\ OrdersOK' /\ CopyIsCurrent' /\ FetchedIsCurrent'
  BY DEF KeepTypes
<1>1. CASE HandleBoardTypeChanged(i)
  <2>1. /\ feed' \in Nat /\ types' = types
        /\ cached' = [cached EXCEPT ![i] = {}]
        /\ outdated' = (outdated \cup {j \in Replica : cached[j] # {}}) \ {i}
        /\ order' = [q \in Client |-> [order[q] EXCEPT !.old = @ \/ Fetching(q)]]
    BY <1>1 DEF HandleBoardTypeChanged, OnlyCached, typeVars, CopiesOK
  <2>2. CopiesOK' BY <2>1 DEF CopiesOK
  <2>3. CopyIsCurrent' BY <2>1 DEF CopyIsCurrent, CopiesOK
  <2>4. ASSUME NEW q \in Client
        PROVE  /\ order'[q] \in OrderRecord /\ (Fetching(q)' => order'[q].old)
               /\ order'[q].step = order[q].step /\ order'[q].at = order[q].at
    <3>1. order[q] \in OrderRecord BY DEF OrdersOK
    <3> QED BY <2>1, <3>1 DEF OrderRecord, Fetching
  <2>5. OrdersOK'
    <3>1. \A q \in Client : order'[q] \in OrderRecord BY <2>4
    <3>2. order' = [q \in Client |-> order'[q]] BY <2>1
    <3>3. order' \in [Client -> OrderRecord] BY <3>1, <3>2
    <3>4. ASSUME NEW q \in Client, order'[q].step \in {"type", "fetch", "store"}
          PROVE  order'[q].at \in Replica
      BY <2>4, <3>4 DEF OrdersOK
    <3> QED BY <3>3, <3>4 DEF OrdersOK
  <2>6. FetchedIsCurrent' BY <2>4 DEF FetchedIsCurrent
  <2> QED BY <2>2, <2>3, <2>5, <2>6
<1>2. CASE TypeExpires(i)
  <2>1. /\ UNCHANGED <<feed, types, order>>
        /\ cached' = [cached EXCEPT ![i] = {}]
        /\ outdated' = outdated \ {i}
    BY <1>2 DEF TypeExpires, OnlyCached, typeVars
  <2> QED BY <2>1 DEF CopiesOK, OrdersOK, OrderRecord, CopyIsCurrent, FetchedIsCurrent, Fetching
<1> QED BY <1>1, <1>2

-----------------------------------------------------------------------------
(* Requests on the board                                                   *)

Served(q) ==
  /\ OrdersOK' /\ CopiesOK' /\ BoardOK' /\ CopyIsCurrent' /\ FetchedIsCurrent'
  /\ UNCHANGED <<typeVars, scenario>>

LEMMA OrderGoesOn ==
  ASSUME OrdersOK, CopiesOK, CopyIsCurrent, FetchedIsCurrent, NEW q \in Client,
         NEW o \in OrderRecord, order' = [order EXCEPT ![q] = o],
         UNCHANGED <<typeVars, cacheVars, scenario>>, BoardOK',
         o.step \in {"type", "fetch", "store"} => o.at \in Replica,
         o.step = "store" /\ ~o.old => o.types = types
  PROVE  Served(q)
<1>1. OrdersOK' BY DEF OrdersOK
<1>2. CopiesOK' /\ CopyIsCurrent'
  BY DEF CopiesOK, CopyIsCurrent, cacheVars, typeVars
<1>3. FetchedIsCurrent'
  <2> SUFFICES ASSUME feed = 0, NEW p \in Client, Fetching(p)', ~order'[p].old
               PROVE  order'[p].types = types
    BY DEF FetchedIsCurrent, cacheVars, typeVars
  <2>1. CASE p = q BY <2>1 DEF OrdersOK, Fetching
  <2>2. CASE p # q
    <3>1. order'[p] = order[p] BY <2>2 DEF OrdersOK
    <3> QED BY <3>1 DEF FetchedIsCurrent, Fetching
  <2> QED BY <2>1, <2>2
<1> QED BY <1>1, <1>2, <1>3 DEF Served

LEMMA StepGoesOn ==
  ASSUME OrdersOK, CopiesOK, CopyIsCurrent, FetchedIsCurrent, NEW q \in Client,
         NEW label \in {None, "insert", "write", "tell"}, Step(q, label),
         UNCHANGED <<typeVars, cacheVars, scenario>>, BoardOK'
  PROVE  Served(q)
<1> DEFINE o == IF label = None THEN NoOrder ELSE [order[q] EXCEPT !.step = label]
<1>1. order[q] \in OrderRecord /\ NoOrder \in OrderRecord
  BY DEF OrdersOK, NoOrder, OrderRecord
<1>2. o \in OrderRecord /\ o.step \notin {"type", "fetch", "store"}
  BY <1>1 DEF NoOrder, OrderRecord
<1>3. order' = [order EXCEPT ![q] = o] BY DEF Step
<1> HIDE DEF o
<1> QED BY <1>2, <1>3, OrderGoesOn

LEMMA AskedOnBoard ==
  ASSUME OrdersOK, CopiesOK, BoardOK, CopyIsCurrent, FetchedIsCurrent, scenario \in Scenarios,
         NEW q \in Client,
         AskCreateBoard(q) \/ AskCreateColumn(q) \/ AskUpdateBoard(q) \/ AskDeleteBoard(q)
  PROVE  Served(q)
<1>1. ASSUME NEW o \in OrderRecord, AskBoard(q, o),
             o.step = "read" \/ (o.step = "type" /\ o.at \in Replica)
      PROVE  Served(q)
  <2>1. BoardOK' BY <1>1 DEF AskBoard, BoardOK, boardRow
  <2>2. /\ order' = [order EXCEPT ![q] = o]
        /\ UNCHANGED <<typeVars, cacheVars, scenario>>
    BY <1>1 DEF AskBoard
  <2> QED BY <1>1, <2>1, <2>2, OrderGoesOn
<1>2. CASE AskCreateBoard(q)
  <2>1. PICK i \in Replica, b \in scenario.boards :
          AskBoard(q, [Order("board.created", "type") EXCEPT !.at = i, !.config = b.config,
                                                             !.columns = b.columns])
    BY <1>2 DEF AskCreateBoard
  <2>2. b.config \in Config \cup {NoConfig} /\ b.columns \subseteq Column
    BY DEF RegistryOK
  <2>3. [Order("board.created", "type") EXCEPT !.at = i, !.config = b.config,
                                              !.columns = b.columns] \in OrderRecord
    BY <2>2 DEF Order, NoOrder, OrderRecord
  <2>4. PICK o \in OrderRecord :
          o = [Order("board.created", "type") EXCEPT !.at = i, !.config = b.config,
                                                     !.columns = b.columns]
    BY <2>3
  <2>5. o.step = "type" /\ o.at = i BY <2>4 DEF Order, NoOrder
  <2> QED BY <1>1, <2>1, <2>4, <2>5
<1>3. CASE AskCreateColumn(q)
  <2>1. PICK c \in Column : AskBoard(q, [Order("column.created", "read") EXCEPT !.columns = {c}])
    BY <1>3 DEF AskCreateColumn
  <2>2. PICK o : o = [Order("column.created", "read") EXCEPT !.columns = {c}] OBVIOUS
  <2>3. o \in OrderRecord /\ o.step = "read" BY <2>2 DEF Order, NoOrder, OrderRecord
  <2> QED BY <1>1, <2>1, <2>2, <2>3
<1>4. CASE AskUpdateBoard(q)
  <2>1. PICK c \in Config : AskBoard(q, [Order("board.updated", "read") EXCEPT !.config = c])
    BY <1>4 DEF AskUpdateBoard
  <2>2. PICK o : o = [Order("board.updated", "read") EXCEPT !.config = c] OBVIOUS
  <2>3. o \in OrderRecord /\ o.step = "read" BY <2>2 DEF Order, NoOrder, OrderRecord
  <2> QED BY <1>1, <2>1, <2>2, <2>3
<1>5. CASE AskDeleteBoard(q)
  <2>1. PICK o : o = Order("board.deleted", "read") OBVIOUS
  <2>2. o \in OrderRecord /\ o.step = "read" BY <2>1 DEF Order, NoOrder, OrderRecord
  <2> QED BY <1>1, <1>5, <2>1, <2>2 DEF AskDeleteBoard
<1> QED BY <1>2, <1>3, <1>4, <1>5

LEMMA TypeIsFetched ==
  ASSUME RegistryOK, OrdersOK, CopiesOK, BoardOK, CopyIsCurrent, FetchedIsCurrent,
         NEW q \in Client, GetType(q) \/ FetchType(q) \/ StoreType(q)
  PROVE  Served(q)
<1>1. /\ order[q] \in OrderRecord
      /\ UNCHANGED <<typeVars, scenario>>
      /\ BoardOK'
  BY DEF OrdersOK, GetType, FetchType, StoreType, OnlyOrdered, BoardOK, boardRow
<1>2. CASE GetType(q)
  <2> DEFINE have == cached[order[q].at]
             o == [order[q] EXCEPT !.types = have,
                                   !.step = IF have # {} THEN "insert" ELSE "fetch"]
  <2>1. order' = [order EXCEPT ![q] = o] /\ UNCHANGED cacheVars BY <1>2 DEF GetType
  <2>2. o \in OrderRecord /\ o.step # "store" /\ o.at \in Replica
    <3>1. order[q].at \in Replica /\ have \subseteq Definition
      BY <1>2 DEF GetType, OrdersOK, CopiesOK
    <3> QED BY <1>1, <3>1 DEF OrderRecord
  <2> HIDE DEF o
  <2> QED BY <1>1, <2>1, <2>2, OrderGoesOn
<1>3. CASE FetchType(q)
  <2>1. UNCHANGED cacheVars BY <1>3 DEF FetchType
  <2>2. CASE types = {} BY <1>1, <1>3, <2>1, <2>2, StepGoesOn DEF FetchType
  <2>3. CASE types # {}
    <3> DEFINE o == [order[q] EXCEPT !.types = types, !.step = "store"]
    <3>1. order' = [order EXCEPT ![q] = o] BY <1>3, <2>3 DEF FetchType
    <3>2. o \in OrderRecord /\ o.types = types BY <1>1 DEF OrderRecord, RegistryOK
    <3>3. o.at \in Replica BY <1>1, <1>3 DEF FetchType, OrdersOK, OrderRecord
    <3> HIDE DEF o
    <3> QED BY <1>1, <2>1, <3>1, <3>2, <3>3, OrderGoesOn
  <2> QED BY <2>2, <2>3
<1>4. CASE StoreType(q)
  <2> DEFINE o == [order[q] EXCEPT !.step = "insert"]
             i == order[q].at
  <2>1. /\ order' = [order EXCEPT ![q] = o] /\ feed' = feed
        /\ cached' = [cached EXCEPT ![i] = order[q].types]
        /\ outdated' = IF order[q].old THEN outdated \cup {i} ELSE outdated \ {i}
    BY <1>4 DEF StoreType, Step
  <2>2. o \in OrderRecord /\ o.step = "insert" /\ i \in Replica /\ order[q].types \subseteq Definition
    BY <1>1, <1>4 DEF OrderRecord, OrdersOK, StoreType, Fetching
  <2>3. PICK new \in SUBSET Definition, at \in Replica, next \in OrderRecord :
          new = order[q].types /\ at = i /\ next = o
    BY <2>2
  <2>4. OrdersOK' BY <2>1, <2>2, <2>3 DEF OrdersOK
  <2>5. CopiesOK' BY <2>1, <2>3 DEF CopiesOK
  <2>6. FetchedIsCurrent'
    <3>1. \A p \in Client : order'[p].step = "store" => order'[p] = order[p]
      BY <2>1, <2>2, <2>3 DEF OrdersOK
    <3> QED BY <1>1, <2>1, <3>1 DEF FetchedIsCurrent, Fetching, typeVars
  <2>7. CopyIsCurrent'
    <3>1. feed = 0 /\ ~order[q].old => new = types
      BY <1>4, <2>3 DEF FetchedIsCurrent, StoreType
    <3>2. \A j \in Replica : j # at => cached'[j] = cached[j]
      BY <2>1, <2>3 DEF CopiesOK
    <3>3. cached'[at] = new BY <2>1, <2>3 DEF CopiesOK
    <3>4. outdated' = IF order[q].old THEN outdated \cup {at} ELSE outdated \ {at}
      BY <2>1, <2>3
    <3> QED BY <1>1, <2>1, <3>1, <3>2, <3>3, <3>4 DEF CopyIsCurrent, typeVars
  <2> QED BY <1>1, <2>4, <2>5, <2>6, <2>7 DEF Served
<1> QED BY <1>2, <1>3, <1>4

LEMMA EventAppended ==
  ASSUME BoardOK, NEW type \in EventType, NEW cols \in SUBSET Column, Tell(type, cols)
  PROVE  /\ inbox' \in Seq(EventRecord)
         /\ Len(inbox') = Len(inbox) + 1
         /\ inbox'[Len(inbox) + 1].type = type
         /\ inbox'[Len(inbox) + 1].about = None
         /\ \A i \in 1..Len(inbox) : inbox'[i] = inbox[i]
<1>1. BoardEvent(type, cols) \in EventRecord BY DEF BoardEvent, EventRecord
<1>2. BoardEvent(type, cols).type = type /\ BoardEvent(type, cols).about = None BY DEF BoardEvent
<1>3. PICK ev \in EventRecord : ev = BoardEvent(type, cols) BY <1>1
<1>4. inbox' = Append(inbox, ev) BY <1>3 DEF Tell
<1> QED BY <1>2, <1>3, <1>4 DEF BoardOK

LEMMA BoardServed ==
  ASSUME RegistryOK, OrdersOK, CopiesOK, BoardOK, CopyIsCurrent, FetchedIsCurrent,
         NEW q \in Client,
         \/ CreateBoard(q) \/ GetBoard(q) \/ CreateColumn(q) \/ UpdateBoard(q)
         \/ DeleteBoard(q) \/ InsertOutboxEvent(q)
  PROVE  Served(q)
<1>1. UNCHANGED <<typeVars, cacheVars, scenario>>
  BY DEF CreateBoard, GetBoard, CreateColumn, UpdateBoard, DeleteBoard, InsertOutboxEvent,
     OnlyBoard, OnlyOrdered
<1>2. \E label \in {None, "insert", "write", "tell"} : Step(q, label)
  BY DEF CreateBoard, GetBoard, CreateColumn, UpdateBoard, DeleteBoard, InsertOutboxEvent
<1>3. order[q].columns \subseteq Column /\ order[q].types \subseteq Definition
  BY DEF OrdersOK, OrderRecord
<1>4. BoardOK'
  <2>1. CASE UNCHANGED <<columns, inbox>> BY <2>1 DEF BoardOK
  <2>2. ASSUME NEW type \in EventType, NEW cols \in SUBSET Column, Tell(type, cols),
               columns' \subseteq Column
        PROVE  BoardOK'
    BY <2>2, EventAppended DEF BoardOK
  <2>3. CASE CreateBoard(q)
    <3>1. PICK d \in order[q].types :
            LET cols == IF order[q].columns = {} THEN d.columns ELSE order[q].columns
            IN \/ columns' = cols /\ Tell("board.created", cols)
               \/ UNCHANGED <<columns, inbox>>
      BY <2>3 DEF CreateBoard
    <3>2. d.columns \subseteq Column BY <1>3 DEF Definition
    <3> QED BY <1>3, <2>1, <2>2, <3>1, <3>2 DEF EventType
  <2>4. CASE CreateColumn(q)
    BY <1>3, <2>1, <2>2, <2>4 DEF CreateColumn, BoardOK, EventType
  <2>5. CASE InsertOutboxEvent(q)
    BY <2>1, <2>2, <2>5 DEF InsertOutboxEvent, BoardOK, EventType
  <2>6. CASE GetBoard(q) \/ UpdateBoard(q) \/ DeleteBoard(q)
    BY <2>1, <2>6 DEF GetBoard, UpdateBoard, DeleteBoard, OnlyOrdered, boardRow
  <2> QED BY <2>3, <2>4, <2>5, <2>6
<1> QED BY <1>1, <1>2, <1>4, StepGoesOn

-----------------------------------------------------------------------------
LEMMA BoardsInitHolds == ASSUME Init PROVE BoardsInv
<1>1. BoardsInit BY DEF Init
<1>2. scenario \in Scenarios /\ scenario.types \subseteq Definition
      /\ \A d \in scenario.types : Valid(d)
  BY <1>1 DEF BoardsInit
<1>3. RegistryOK /\ \A e \in Editor : Edited(e)
  BY <1>1, <1>2 DEF BoardsInit, RegistryOK, EditRecord, NoEdit, Edited
<1>4. CopiesOK /\ CopyIsCurrent BY <1>1 DEF BoardsInit, CopiesOK, CopyIsCurrent
<1>5. OrdersOK /\ FetchedIsCurrent
  BY <1>1 DEF BoardsInit, OrdersOK, OrderRecord, NoOrder, FetchedIsCurrent, Fetching
<1>6. BoardOK
  <2>1. columns \subseteq Column BY <1>1 DEF BoardsInit
  <2>2. BoardEvent("board.created", columns) \in EventRecord
    BY <2>1 DEF BoardEvent, EventRecord, EventType
  <2>3. PICK ev \in EventRecord : ev = BoardEvent("board.created", columns) BY <2>2
  <2>4. inbox = << >> \/ inbox = <<ev>> BY <1>1, <2>3 DEF BoardsInit
  <2>5. << >> \in Seq(EventRecord) OBVIOUS
  <2>6. <<ev>> \in Seq(EventRecord) OBVIOUS
  <2>7. inbox \in Seq(EventRecord) BY <2>4, <2>5, <2>6
  <2> QED BY <2>1, <2>7 DEF BoardOK
<1>7. DefinitionKept BY <1>1, <1>2 DEF BoardsInit, DefinitionKept
<1> QED BY <1>3, <1>4, <1>5, <1>6, <1>7 DEF BoardsInv

LEMMA BoardsStay == ASSUME BoardsInv, BoardsNext PROVE BoardsInv'
<1> USE DEF BoardsInv
<1>1. CASE EditTypes
  <2>1. UNCHANGED <<order, columns, inbox>>
    BY <1>1 DEF EditTypes, AskType, AskEdit, GetBoardType, CreateBoardType, UpdateBoardType,
       DeleteBoardType, Rollback, Write, boardRow
  <2>2. OrdersOK' /\ BoardOK' BY <2>1 DEF OrdersOK, BoardOK
  <2> QED BY <1>1, <2>2, EditsTyped, EditsKeep
<1>2. ASSUME UNCHANGED <<typeVars, scenario>>
      PROVE  RegistryOK' /\ DefinitionKept' /\ \A e \in Editor : Edited(e)'
  BY <1>2 DEF typeVars, RegistryOK, EditRecord, DefinitionKept, Edited
<1>3. CASE KeepTypes
  <2>1. UNCHANGED <<typeVars, scenario, columns, inbox>>
    BY <1>3 DEF KeepTypes, HandleBoardTypeChanged, TypeExpires, OnlyCached, boardRow
  <2>2. BoardOK' BY <2>1 DEF BoardOK
  <2> QED BY <1>2, <1>3, <2>1, <2>2, CopiesFollow
<1>4. CASE ServeBoard
  <2>1. PICK q \in Client : Served(q)
    BY <1>4, AskedOnBoard, TypeIsFetched, BoardServed DEF ServeBoard, RegistryOK
  <2> QED BY <1>2, <2>1 DEF Served
<1> QED BY <1>1, <1>3, <1>4 DEF BoardsNext

LEMMA TailTyped ==
  ASSUME NEW S, NEW q \in Seq(S), q # << >>
  PROVE  /\ Tail(q) \in Seq(S)
         /\ Len(q) >= 1 /\ Len(Tail(q)) = Len(q) - 1
         /\ \A i \in 1..Len(Tail(q)) : Tail(q)[i] = q[i + 1]
  OBVIOUS

-----------------------------------------------------------------------------
(* The types of the rest, and what a request is about where it stands.     *)

Op == {"create", "move", "update", "assign", "delete"}
Label == {"idle", "board", "last", "read", "refs", "member", "write", "tell", "commit"}
CallRecord ==
  [op : Op \cup {None}, task : Task \cup {None}, col : Column \cup {None},
   before : Task \cup {None}, after : Task \cup {None}, who : User \cup {None},
   status : Status, seen : Status, pos : Position]

HandlerOK ==
  /\ handling \in {"idle", "first", "columns", "tasks", "done"}
  /\ handling # "idle" => inbox # << >>
  /\ member \subseteq User
  /\ cache \in [User -> {None, "yes", "no"}]
TasksOK ==
  /\ task \in [Task -> Row]
  /\ told \in [Task -> [status : Status, who : User \cup {None}]]
  /\ wanted \in Seq(Task) /\ Once(wanted) /\ ~Has(wanted, None)
  /\ \A t \in Live : task[t].pos # Nowhere /\ Has(wanted, t)
RequestsOK ==
  /\ pc \in [Request -> Label]
  /\ call \in [Request -> CallRecord]
  /\ stale \in [Request -> BOOLEAN]

Placed(r) ==
  /\ pc[r] = "idle" => call[r] = NoCall
  /\ pc[r] # "idle" => call[r].op \in Op /\ call[r].task \in Task
  /\ pc[r] \in {"board", "last"} => call[r].op = "create"
  /\ pc[r] = "read" => call[r].op # "create"
  /\ pc[r] = "refs" => call[r].op = "move"
  /\ pc[r] = "member" => call[r].op = "assign"
  /\ pc[r] \in {"write", "tell"} => call[r].op = "update"
  /\ pc[r] = "commit" => call[r].op # "update"
  /\ call[r].op \in {"create", "move"} => call[r].col \in Column
  /\ call[r].op = "move" => call[r].before # call[r].task
  /\ pc[r] = "commit" /\ call[r].op \in {"create", "move"} => call[r].pos # Nowhere
  /\ call[r].op = "create" =>
       /\ call[r].task # None /\ task[call[r].task].st = "absent"
       /\ \A s \in Request \ {r} : call[s].task # call[r].task

Basics == HandlerOK /\ TasksOK /\ RequestsOK /\ \A r \in Request : Placed(r)

USE RankAssumption, ConstantsAssumption

LEMMA NoCallTyped == NoCall \in CallRecord /\ Nowhere \in Position
  BY DEF NoCall, CallRecord, Nowhere, Position, Status

LEMMA BasicsAtFirst == ASSUME Init PROVE Basics
<1>1. HandlerOK BY DEF Init, HandlerOK
<1>2. TasksOK
  <2>1. Nobody \in Row BY NoCallTyped DEF Nobody, Row, Status
  <2>2. Live = {} BY DEF Init, Live, Nobody
  <2>3. wanted = << >> BY DEF Init
  <2>4. wanted \in Seq(Task) /\ Once(wanted) /\ ~Has(wanted, None) BY <2>3 DEF Once, Has
  <2> QED BY <2>1, <2>2, <2>4 DEF Init, TasksOK, Status
<1>3. RequestsOK BY NoCallTyped DEF Init, RequestsOK, Label
<1>4. \A r \in Request : Placed(r) BY DEF Init, Placed, NoCall
<1> QED BY <1>1, <1>2, <1>3, <1>4 DEF Basics

(* A request that goes on leaves the others as they are. *)
Others(r) == \A s \in Request \ {r} : pc'[s] = pc[s] /\ call'[s] = call[s]

LEMMA KeepGives ==
  ASSUME RequestsOK, NEW r \in Request, NEW label \in Label, NEW c \in CallRecord,
         Keep(r, label, c)
  PROVE  /\ pc' \in [Request -> Label] /\ call' \in [Request -> CallRecord]
         /\ pc'[r] = label /\ call'[r] = c /\ Others(r)
  BY DEF RequestsOK, Keep, Others

LEMMA GotoGives ==
  ASSUME RequestsOK, NEW r \in Request, NEW label \in Label, Goto(r, label)
  PROVE  /\ pc' \in [Request -> Label] /\ call' \in [Request -> CallRecord]
         /\ pc'[r] = label /\ call'[r] = (IF label = "idle" THEN NoCall ELSE call[r])
         /\ Others(r)
  BY NoCallTyped DEF RequestsOK, Goto, Others

LEMMA OthersPlaced ==
  ASSUME RequestsOK, \A s \in Request : Placed(s), NEW r \in Request, Others(r), Placed(r)',
         \A s \in Request \ {r} : call[s].op = "create" => call'[r].task # call[s].task,
         \A t \in Task : task[t].st = "absent" /\ t # call[r].task => task'[t].st = "absent"
  PROVE  \A s \in Request : Placed(s)'
<1> SUFFICES ASSUME NEW s \in Request, s # r PROVE Placed(s)'
  OBVIOUS
<1>1. pc'[s] = pc[s] /\ call'[s] = call[s] BY DEF Others
<1>2. ASSUME call[s].op = "create"
      PROVE  /\ call[s].task # None /\ task'[call[s].task].st = "absent"
             /\ \A x \in Request \ {s} : call'[x].task # call[s].task
  <2>1. pc[s] # "idle" BY <1>2 DEF Placed, NoCall
  <2>2. call[s].task # call[r].task BY <1>2 DEF Placed
  <2>3. task'[call[s].task].st = "absent" BY <1>2, <2>1, <2>2 DEF Placed
  <2>4. \A x \in Request \ {s} : call'[x].task # call[s].task
    BY <1>2 DEF Placed, Others
  <2> QED BY <1>2, <2>3, <2>4 DEF Placed
<1>3. Placed(s) OBVIOUS
<1> QED BY <1>1, <1>2, <1>3 DEF Placed

(* A request that ends *)
LEMMA EndGives ==
  ASSUME RequestsOK, \A s \in Request : Placed(s), NEW r \in Request, Goto(r, "idle"),
         \A t \in Task : task[t].st = "absent" /\ t # call[r].task => task'[t].st = "absent"
  PROVE  /\ pc' \in [Request -> Label] /\ call' \in [Request -> CallRecord]
         /\ Others(r) /\ pc'[r] = "idle" /\ call'[r] = NoCall
         /\ \A s \in Request : Placed(s)'
<1>1. /\ pc' \in [Request -> Label] /\ call' \in [Request -> CallRecord]
      /\ Others(r) /\ pc'[r] = "idle" /\ call'[r] = NoCall
  BY GotoGives DEF Label
<1>2. Placed(r)' BY <1>1 DEF Placed, NoCall
<1>3. \A s \in Request \ {r} : call[s].op = "create" => call'[r].task # call[s].task
  BY <1>1 DEF Placed, NoCall
<1> QED BY <1>1, <1>2, <1>3, OthersPlaced

(* A request that goes on with the same task *)
LEMMA GoOnGives ==
  ASSUME RequestsOK, \A s \in Request : Placed(s), NEW r \in Request, Others(r), Placed(r)',
         call'[r].task = call[r].task,
         \A t \in Task : task[t].st = "absent" /\ t # call[r].task => task'[t].st = "absent"
  PROVE  \A s \in Request : Placed(s)'
<1>1. \A s \in Request \ {r} : call[s].op = "create" => call'[r].task # call[s].task
  BY DEF Placed
<1> QED BY <1>1, OthersPlaced

-----------------------------------------------------------------------------
(* What is begun *)

LEMMA AskBasics ==
  ASSUME Basics, NEW r \in Request, NEW c \in CallRecord, Ask(r, c),
         c.op \in Op, c.task \in Task,
         c.op \in {"create", "move"} => c.col \in Column,
         c.op = "move" => c.before # c.task,
         \/ c.task \in Live /\ c.op # "create"
         \/ /\ c.op = "create" /\ task[c.task].st = "absent"
            /\ \A s \in Request : call[s].task # c.task
  PROVE  Basics'
<1> DEFINE label == IF c.op = "create" THEN "board" ELSE "read"
<1>1. Keep(r, label, c) /\ label \in Label BY DEF Ask, Label
<1>2. /\ pc' \in [Request -> Label] /\ call' \in [Request -> CallRecord]
      /\ pc'[r] = label /\ call'[r] = c /\ Others(r)
  BY <1>1, KeepGives DEF Basics
<1>3. UNCHANGED <<member, handling, inbox, cache, task, told, wanted>>
      /\ stale' \in [Request -> BOOLEAN]
  BY DEF Ask, sourceVars, handlerVars, history, Basics, RequestsOK
<1>4. pc[r] = "idle" /\ call[r] = NoCall BY DEF Ask, Busy, Basics, Placed
<1>5. Placed(r)'
  BY <1>2, <1>3, <1>4 DEF Placed, NoCall, Others
<1>6. \A s \in Request \ {r} : call[s].op = "create" => call'[r].task # call[s].task
  BY <1>2 DEF Basics, Placed, Live
<1>7. \A s \in Request : Placed(s)' BY <1>2, <1>3, <1>5, <1>6, OthersPlaced DEF Basics
<1> QED BY <1>2, <1>3, <1>7 DEF Basics, HandlerOK, TasksOK, RequestsOK, Live

AskSome(r) == AskCreate(r) \/ AskMove(r) \/ AskUpdate(r) \/ AskAssign(r) \/ AskDelete(r)

(* What the five requests begin with. *)
WellAsked(c) ==
  /\ c \in CallRecord /\ c.op \in Op /\ c.task \in Task
  /\ c.op \in {"create", "move"} => c.col \in Column
  /\ \/ c.task \in Live /\ c.op # "create"
     \/ /\ c.op = "create" /\ task[c.task].st = "absent" /\ c.who \in member \cup {None}
        /\ c.before = None
        /\ \A s \in Request : call[s].task # c.task
  /\ c.op = "move" => /\ <<c.after, c.before>> \in Gaps(In(c.col) \ {c.task})
                       /\ c.before # c.task

LEMMA GapsTyped ==
  ASSUME NEW ts \in SUBSET Task, NEW g \in Gaps(ts)
  PROVE  /\ g[1] \in ts \cup {None} /\ g[2] \in ts \cup {None}
         /\ g = <<g[1], g[2]>>
  BY DEF Gaps

LEMMA AskGives ==
  ASSUME Basics, NEW r \in Request, AskSome(r)
  PROVE  \E c : WellAsked(c) /\ Ask(r, c)
<1>1. CASE AskCreate(r)
  <2>1. PICK t \in Task, k \in Column, u \in member \cup {None} :
          /\ task[t].st = "absent" /\ \A s \in Request : call[s].task # t
          /\ Ask(r, [NoCall EXCEPT !.op = "create", !.task = t, !.col = k, !.who = u])
    BY <1>1 DEF AskCreate
  <2>2. PICK c : c = [NoCall EXCEPT !.op = "create", !.task = t, !.col = k, !.who = u] OBVIOUS
  <2>3. c \in CallRecord
    BY <2>2, NoCallTyped DEF NoCall, CallRecord, Basics, HandlerOK, Op
  <2>4. c.op = "create" /\ c.task = t /\ c.col = k /\ c.who = u /\ c.before = None
    BY <2>2 DEF NoCall
  <2>5. WellAsked(c) BY <2>1, <2>3, <2>4 DEF WellAsked, Op
  <2> QED BY <2>1, <2>2, <2>5
<1>2. CASE AskMove(r)
  <2>1. PICK t \in Live, k \in Column : \E g \in Gaps(In(k) \ {t}) :
          Ask(r, [NoCall EXCEPT !.op = "move", !.task = t, !.col = k,
                                !.after = g[1], !.before = g[2]])
    BY <1>2 DEF AskMove
  <2>2. PICK g \in Gaps(In(k) \ {t}) :
          Ask(r, [NoCall EXCEPT !.op = "move", !.task = t, !.col = k,
                                !.after = g[1], !.before = g[2]])
    BY <2>1
  <2>3. t \in Task /\ In(k) \ {t} \subseteq Task BY DEF Live, In
  <2>4. /\ g[1] \in Task \cup {None} /\ g[2] \in (Task \ {t}) \cup {None}
        /\ g = <<g[1], g[2]>>
    BY <2>3, GapsTyped
  <2>5. PICK a \in Task \cup {None}, b \in Task \cup {None} : a = g[1] /\ b = g[2] BY <2>4
  <2>6. PICK c : c = [NoCall EXCEPT !.op = "move", !.task = t, !.col = k, !.after = a, !.before = b]
    OBVIOUS
  <2>7. c \in CallRecord BY <2>3, <2>6, NoCallTyped DEF NoCall, CallRecord, Op
  <2>8. c.op = "move" /\ c.task = t /\ c.col = k /\ c.after = a /\ c.before = b
    BY <2>6 DEF NoCall
  <2>9. <<a, b>> \in Gaps(In(k) \ {t}) BY <2>4, <2>5
  <2>10. t # None /\ b # t BY <2>4, <2>5 DEF Basics, TasksOK, Has
  <2>11. WellAsked(c) BY <2>3, <2>7, <2>8, <2>9, <2>10 DEF WellAsked, Op
  <2> QED BY <2>2, <2>5, <2>6, <2>11
<1>3. CASE AskUpdate(r)
  <2>1. PICK t \in Live, st \in Status :
          Ask(r, [NoCall EXCEPT !.op = "update", !.task = t, !.status = st])
    BY <1>3 DEF AskUpdate
  <2>2. PICK c : c = [NoCall EXCEPT !.op = "update", !.task = t, !.status = st] OBVIOUS
  <2>3. t \in Task BY DEF Live
  <2>4. c \in CallRecord BY <2>2, <2>3, NoCallTyped DEF NoCall, CallRecord, Op
  <2>5. c.op = "update" /\ c.task = t BY <2>2 DEF NoCall
  <2> QED BY <2>1, <2>2, <2>3, <2>4, <2>5 DEF WellAsked, Op
<1>4. CASE AskAssign(r)
  <2>1. PICK t \in Live, u \in User \cup {None} :
          Ask(r, [NoCall EXCEPT !.op = "assign", !.task = t, !.who = u])
    BY <1>4 DEF AskAssign
  <2>2. PICK c : c = [NoCall EXCEPT !.op = "assign", !.task = t, !.who = u] OBVIOUS
  <2>3. t \in Task BY DEF Live
  <2>4. c \in CallRecord BY <2>2, <2>3, NoCallTyped DEF NoCall, CallRecord, Op
  <2>5. c.op = "assign" /\ c.task = t BY <2>2 DEF NoCall
  <2> QED BY <2>1, <2>2, <2>3, <2>4, <2>5 DEF WellAsked, Op
<1>5. CASE AskDelete(r)
  <2>1. PICK t \in Live : Ask(r, [NoCall EXCEPT !.op = "delete", !.task = t])
    BY <1>5 DEF AskDelete
  <2>2. PICK c : c = [NoCall EXCEPT !.op = "delete", !.task = t] OBVIOUS
  <2>3. t \in Task BY DEF Live
  <2>4. c \in CallRecord BY <2>2, <2>3, NoCallTyped DEF NoCall, CallRecord, Op
  <2>5. c.op = "delete" /\ c.task = t BY <2>2 DEF NoCall
  <2> QED BY <2>1, <2>2, <2>3, <2>4, <2>5 DEF WellAsked, Op
<1> QED BY <1>1, <1>2, <1>3, <1>4, <1>5 DEF AskSome

-----------------------------------------------------------------------------
(* What is read *)

LEMMA RowTyped ==
  ASSUME TasksOK, NEW t \in Task
  PROVE  /\ task[t].pos \in Position /\ task[t].status \in Status
         /\ task[t].who \in User \cup {None}
  BY DEF TasksOK, Row

(* A column that has tasks has a last one: of those that were put up to    *)
(* any place in the list.                                                  *)
LEMMA LastExists ==
  ASSUME TasksOK, NEW c, In(c) # {}
  PROVE  \E t \in In(c) : \A u \in In(c) : ~Less(task[t].pos, task[u].pos)
<1> DEFINE P(i) == task[wanted[i]].pos
           S(n) == {i \in 1..n : wanted[i] \in In(c)}
           Top(n) == \E i \in S(n) : \A j \in S(n) : ~Less(P(i), P(j))
           B == {n \in Nat : n <= Len(wanted) /\ S(n) # {} /\ ~Top(n)}
<1>1. Len(wanted) \in Nat /\ In(c) \subseteq Live /\ Live \subseteq Task
  BY DEF TasksOK, In, Live
<1>2. \A i \in 1..Len(wanted) : wanted[i] \in Task /\ P(i) \in Position
  BY RowTyped DEF TasksOK
<1>3. ASSUME B # {} PROVE FALSE
  <2>1. PICK n \in B : \A m \in B : n <= m
    <3>1. B \in SUBSET Nat OBVIOUS
    <3> HIDE DEF B
    <3> QED BY <1>3, <3>1, Least
  <2>2. n \in Nat \ {0} /\ n <= Len(wanted) /\ n - 1 \in Nat /\ n \in 1..Len(wanted)
    BY <1>1, <2>1
  <2>3. \A i \in 1..n : i = n \/ i \in 1..(n - 1) BY <2>2
  <2>4. S(n - 1) \subseteq S(n) /\ S(n) \subseteq S(n - 1) \cup {n}
    BY <2>2, <2>3
  <2>5. S(n) # {} /\ ~Top(n) BY <2>1
  <2>6. S(n - 1) = {} \/ Top(n - 1)
    <3>1. n - 1 \notin B
      <4> HIDE DEF B
      <4> QED BY <2>1, <2>2
    <3>2. n - 1 <= Len(wanted) BY <1>1, <2>2
    <3> QED BY <2>2, <3>1, <3>2
  <2>7. \A i \in S(n) : P(i) \in Position BY <1>1, <1>2, <2>2
  <2> HIDE DEF B, P, S
  <2>8. CASE n \notin S(n)
    <3>1. S(n) = S(n - 1) BY <2>4, <2>8
    <3> QED BY <2>5, <2>6, <3>1
  <2>9. CASE n \in S(n) /\ S(n - 1) = {}
    <3>1. S(n) = {n} BY <2>4, <2>9
    <3>2. ~Less(P(n), P(n)) BY <2>7, <2>9, LessIsStrict
    <3> QED BY <2>5, <3>1, <3>2
  <2>10. CASE n \in S(n) /\ Top(n - 1)
    <3>1. PICK m \in S(n - 1) : \A j \in S(n - 1) : ~Less(P(m), P(j)) BY <2>10
    <3>2. m \in S(n) BY <2>4
    <3>3. CASE ~Less(P(m), P(n))
      <4>1. \A j \in S(n) : ~Less(P(m), P(j)) BY <2>4, <3>1, <3>3
      <4> QED BY <2>5, <3>2, <4>1
    <3>4. CASE Less(P(m), P(n))
      <4>1. ASSUME NEW j \in S(n), Less(P(n), P(j)) PROVE FALSE
        <5>1. j # n BY <2>7, <2>10, <4>1, LessIsStrict
        <5>2. Less(P(m), P(j)) BY <2>7, <2>10, <3>2, <3>4, <4>1, LessIsTransitive
        <5> QED BY <2>4, <3>1, <5>1, <5>2
      <4> QED BY <2>5, <2>10, <4>1
    <3> QED BY <3>3, <3>4
  <2> QED BY <2>6, <2>8, <2>9, <2>10
<1>4. PICK t \in In(c) : TRUE OBVIOUS
<1>5. PICK k \in 1..Len(wanted) : wanted[k] = t BY <1>1, <1>4 DEF TasksOK, Has
<1>6. Top(Len(wanted))
  <2>1. k \in S(Len(wanted)) BY <1>4, <1>5
  <2>2. Len(wanted) \notin B BY <1>3
  <2>3. Len(wanted) <= Len(wanted) BY <1>1
  <2> HIDE DEF S, Top
  <2> QED BY <1>1, <2>1, <2>2, <2>3
<1>7. PICK i \in 1..Len(wanted) :
        /\ wanted[i] \in In(c)
        /\ \A j \in S(Len(wanted)) : ~Less(P(i), P(j))
  BY <1>6
<1>8. ASSUME NEW u \in In(c) PROVE ~Less(task[wanted[i]].pos, task[u].pos)
  <2>1. PICK j \in 1..Len(wanted) : wanted[j] = u BY <1>1 DEF TasksOK, Has
  <2>2. j \in S(Len(wanted)) BY <2>1
  <2> QED BY <1>7, <2>1, <2>2
<1> QED BY <1>7, <1>8

LEMMA LastIsLast ==
  ASSUME TasksOK, NEW c
  PROVE  /\ LastPosition(c) \in Position
         /\ \A u \in In(c) : ~Less(LastPosition(c), task[u].pos)
<1>1. CASE In(c) = {} BY <1>1, NoCallTyped DEF LastPosition
<1>2. CASE In(c) # {}
  <2> DEFINE last == CHOOSE t \in In(c) : \A u \in In(c) : ~Less(task[t].pos, task[u].pos)
  <2>1. last \in In(c) /\ \A u \in In(c) : ~Less(task[last].pos, task[u].pos)
    BY <1>2, LastExists
  <2>2. LastPosition(c) = task[last].pos BY <1>2 DEF LastPosition
  <2> HIDE DEF last
  <2>3. last \in Task BY <2>1 DEF In, Live
  <2> QED BY <2>1, <2>2, <2>3, RowTyped
<1> QED BY <1>1, <1>2

LEMMA StatusTyped == ASSUME NEW c \in Column PROVE StatusForColumn(c) \in Status
  BY DEF StatusForColumn

LEMMA NamedPosition ==
  ASSUME TasksOK, NEW t \in Task \cup {None}
  PROVE  PositionOf(t) \in Position
<1>1. CASE t \in Live
  <2>1. t \in Task BY <1>1 DEF Live
  <2> QED BY <1>1, <2>1, RowTyped DEF PositionOf
<1>2. CASE t \notin Live BY <1>2, NoCallTyped DEF PositionOf
<1> QED BY <1>1, <1>2

ReadSome(r) ==
  GetKnownBoard(r) \/ GetLastPosition(r) \/ GetTask(r) \/ GetPositionForRefs(r) \/ GetPermissions(r)

(* What a request that reads goes on with: it is sent back, or asks for    *)
(* what it asked for and knows more.                                       *)
LEMMA ReadGives ==
  ASSUME Basics, NEW r \in Request, ReadSome(r)
  PROVE  /\ UNCHANGED <<sourceVars, handlerVars, task, history, scenario>>
         /\ cache' \in [User -> {None, "yes", "no"}]
         /\ stale' \in [Request -> BOOLEAN]
         /\ \/ Goto(r, "idle")
            \/ \E label \in Label \ {"idle"}, c \in CallRecord :
                 /\ Keep(r, label, c) \/ (Goto(r, label) /\ c = call[r])
                 /\ label \in {"last", "refs", "member", "write", "commit"}
                 /\ label = "last" => c.op = "create"
                 /\ label = "refs" => c.op = "move"
                 /\ label = "member" => c.op = "assign"
                 /\ label = "write" => c.op = "update"
                 /\ label = "commit" => c.op # "update"
                 /\ c.op = call[r].op /\ c.task = call[r].task /\ c.col = call[r].col
                 /\ c.who = call[r].who /\ c.before = call[r].before /\ c.after = call[r].after
                 /\ label = "commit" /\ c.op \in {"create", "move"} => c.pos # Nowhere
<1>1. /\ UNCHANGED <<sourceVars, handlerVars, task, history, scenario>>
      /\ call[r] \in CallRecord /\ Placed(r)
  BY DEF ReadSome, GetKnownBoard, GetLastPosition, GetTask, GetPositionForRefs, GetPermissions,
     OnlyRead, Basics, RequestsOK
<1>2. CASE GetKnownBoard(r)
  <2>1. UNCHANGED <<cache, stale>> /\ pc[r] = "board" BY <1>2 DEF GetKnownBoard
  <2>2. Goto(r, "last") \/ Goto(r, "idle") BY <1>2 DEF GetKnownBoard
  <2>3. call[r].op = "create" BY <1>1, <2>1 DEF Placed
  <2> QED BY <1>1, <2>1, <2>2, <2>3 DEF Basics, HandlerOK, RequestsOK, Label
<1>3. CASE GetLastPosition(r)
  <2>1. UNCHANGED <<cache, stale>> /\ pc[r] = "last" BY <1>3 DEF GetLastPosition
  <2>2. CASE Goto(r, "idle") BY <1>1, <2>1, <2>2 DEF Basics, HandlerOK, RequestsOK
  <2>3. CASE ~Goto(r, "idle")
    <3> DEFINE pos == Between(LastPosition(call[r].col), Nowhere)
               st == StatusForColumn(call[r].col)
               c == [call[r] EXCEPT !.status = st, !.pos = pos]
    <3>1. call[r].op = "create" /\ call[r].col \in Column BY <1>1, <2>1 DEF Placed
    <3>2. pos \in Position /\ pos # Nowhere
      <4>1. LastPosition(call[r].col) \in Position BY LastIsLast DEF Basics
      <4>2. Room(LastPosition(call[r].col), Nowhere) BY DEF Room
      <4>3. pos \in Position BY <4>1, <4>2, NoCallTyped, BetweenIsBetween
      <4>4. pos # NoSpaceLeft
        <5>1. NoSpaceLeft \notin Position
          BY RankAssumption DEF NoSpaceLeft, Position, Digit
        <5> QED BY <4>3, <5>1
      <4> QED BY <4>1, <4>4, NoCallTyped, BetweenIsPosition
    <3>3. Keep(r, "commit", c) BY <1>3, <2>3 DEF GetLastPosition
    <3>4. st \in Status BY <3>1, StatusTyped
    <3>5. PICK p \in Position, x \in Status : p = pos /\ x = st BY <3>2, <3>4
    <3>6. c = [call[r] EXCEPT !.status = x, !.pos = p] BY <3>5
    <3> HIDE DEF c, pos, st
    <3>7. /\ c \in CallRecord /\ c.op = call[r].op /\ c.task = call[r].task
          /\ c.col = call[r].col /\ c.who = call[r].who /\ c.before = call[r].before
          /\ c.after = call[r].after /\ c.pos = p
      BY <1>1, <3>6 DEF CallRecord
    <3>8. "commit" \in Label \ {"idle"} BY DEF Label
    <3>9. cache' \in [User -> {None, "yes", "no"}] /\ stale' \in [Request -> BOOLEAN]
      BY <2>1 DEF Basics, HandlerOK, RequestsOK
    <3> QED BY <1>1, <3>1, <3>2, <3>3, <3>5, <3>7, <3>8, <3>9
  <2> QED BY <2>2, <2>3
<1>4. CASE GetTask(r)
  <2>1. UNCHANGED <<cache, stale>> /\ pc[r] = "read" BY <1>4 DEF GetTask
  <2>2. CASE Goto(r, "idle") BY <1>1, <2>1, <2>2 DEF Basics, HandlerOK, RequestsOK
  <2>3. CASE ~Goto(r, "idle")
    <3> DEFINE next == CASE call[r].op = "move" -> "refs"
                         [] call[r].op = "update" -> "write"
                         [] call[r].op = "assign" /\ call[r].who # None -> "member"
                         [] OTHER -> "commit"
               c == [call[r] EXCEPT !.seen = task[call[r].task].status]
    <3>1. Keep(r, next, c) BY <1>4, <2>3 DEF GetTask
    <3>2. call[r].op \in Op \ {"create"} /\ call[r].task \in Task BY <1>1, <2>1 DEF Placed
    <3>3. task[call[r].task].status \in Status BY <3>2, RowTyped DEF Basics
    <3>4. PICK x \in Status : x = task[call[r].task].status BY <3>3
    <3>5. c = [call[r] EXCEPT !.seen = x] BY <3>4
    <3>6. /\ next \in {"refs", "write", "member", "commit"}
          /\ next = "refs" => call[r].op = "move"
          /\ next = "member" => call[r].op = "assign"
          /\ next = "write" => call[r].op = "update"
          /\ next = "commit" => call[r].op \notin {"update", "create", "move"}
      BY <3>2 DEF Op
    <3> HIDE DEF c, next
    <3>7. /\ c \in CallRecord /\ c.op = call[r].op /\ c.task = call[r].task
          /\ c.col = call[r].col /\ c.who = call[r].who /\ c.before = call[r].before
          /\ c.after = call[r].after
      BY <1>1, <3>5 DEF CallRecord
    <3>8. next \in Label \ {"idle"} /\ next # "last" BY <3>6 DEF Label
    <3>9. cache' \in [User -> {None, "yes", "no"}] /\ stale' \in [Request -> BOOLEAN]
      BY <2>1 DEF Basics, HandlerOK, RequestsOK
    <3> QED BY <1>1, <3>1, <3>6, <3>7, <3>8, <3>9
  <2> QED BY <2>2, <2>3
<1>5. CASE GetPositionForRefs(r)
  <2>1. UNCHANGED cache /\ pc[r] = "refs" BY <1>5 DEF GetPositionForRefs
  <2>2. stale' \in [Request -> BOOLEAN]
    BY <1>5 DEF GetPositionForRefs, Basics, RequestsOK
  <2>3. CASE Goto(r, "idle") BY <1>1, <2>1, <2>2, <2>3 DEF Basics, HandlerOK
  <2>4. CASE ~Goto(r, "idle")
    <3> DEFINE pos == Between(PositionOf(call[r].after), PositionOf(call[r].before))
               st == StatusForColumn(call[r].col)
               c == [call[r] EXCEPT !.pos = pos, !.status = st]
    <3>1. call[r].op = "move" /\ call[r].col \in Column BY <1>1, <2>1 DEF Placed
    <3>2. pos # NoSpaceLeft /\ Keep(r, "commit", c)
      BY <1>5, <2>4 DEF GetPositionForRefs
    <3>3. pos \in Position /\ pos # Nowhere
      <4>1. call[r].after \in Task \cup {None} /\ call[r].before \in Task \cup {None}
        BY <1>1 DEF CallRecord
      <4>2. PositionOf(call[r].after) \in Position /\ PositionOf(call[r].before) \in Position
        BY <4>1, NamedPosition DEF Basics
      <4> QED BY <3>2, <4>2, BetweenIsPosition
    <3>4. st \in Status BY <3>1, StatusTyped
    <3>5. PICK p \in Position, x \in Status : p = pos /\ x = st BY <3>3, <3>4
    <3>6. c = [call[r] EXCEPT !.pos = p, !.status = x] BY <3>5
    <3> HIDE DEF c, pos, st
    <3>7. /\ c \in CallRecord /\ c.op = call[r].op /\ c.task = call[r].task
          /\ c.col = call[r].col /\ c.who = call[r].who /\ c.before = call[r].before
          /\ c.after = call[r].after /\ c.pos = p
      BY <1>1, <3>6 DEF CallRecord
    <3>8. "commit" \in Label \ {"idle"} BY DEF Label
    <3>9. cache' \in [User -> {None, "yes", "no"}]
      BY <2>1 DEF Basics, HandlerOK
    <3> QED BY <1>1, <2>2, <3>1, <3>2, <3>3, <3>5, <3>7, <3>8, <3>9
  <2> QED BY <2>3, <2>4
<1>6. CASE GetPermissions(r)
  <2>1. pc[r] = "member" /\ call[r].op = "assign"
    BY <1>1, <1>6 DEF GetPermissions, Placed
  <2>2. stale' \in [Request -> BOOLEAN] BY <1>6 DEF GetPermissions, Basics, RequestsOK
  <2>3. PICK answer : /\ answer = IF cache[call[r].who] # None THEN cache[call[r].who]
                                  ELSE IF call[r].who \in member THEN "yes" ELSE "no"
                      /\ cache' = [cache EXCEPT ![call[r].who] = answer]
                      /\ Goto(r, IF answer = "yes" THEN "commit" ELSE "idle")
    BY <1>6 DEF GetPermissions
  <2>4. cache' \in [User -> {None, "yes", "no"}]
    BY <2>3 DEF Basics, HandlerOK
  <2>5. Goto(r, "commit") \/ Goto(r, "idle") BY <2>3
  <2> QED BY <1>1, <2>1, <2>2, <2>4, <2>5 DEF Label
<1> QED BY <1>2, <1>3, <1>4, <1>5, <1>6 DEF ReadSome

LEMMA ReadBasics ==
  ASSUME Basics, NEW r \in Request, ReadSome(r)
  PROVE  Basics'
<1>1. /\ UNCHANGED <<sourceVars, handlerVars, task, history, scenario>>
      /\ cache' \in [User -> {None, "yes", "no"}]
      /\ stale' \in [Request -> BOOLEAN]
  BY ReadGives
<1>2. HandlerOK' /\ TasksOK'
  BY <1>1 DEF Basics, HandlerOK, TasksOK, Live, sourceVars, handlerVars, history
<1>3. CASE Goto(r, "idle")
  BY <1>1, <1>2, <1>3, EndGives DEF Basics, RequestsOK
<1>4. CASE ~Goto(r, "idle")
  <2>1. PICK label \in Label \ {"idle"}, c \in CallRecord :
          /\ Keep(r, label, c) \/ (Goto(r, label) /\ c = call[r])
          /\ label \in {"last", "refs", "member", "write", "commit"}
          /\ label = "last" => c.op = "create"
          /\ label = "refs" => c.op = "move"
          /\ label = "member" => c.op = "assign"
          /\ label = "write" => c.op = "update"
          /\ label = "commit" => c.op # "update"
          /\ c.op = call[r].op /\ c.task = call[r].task /\ c.col = call[r].col
          /\ c.before = call[r].before
          /\ label = "commit" /\ c.op \in {"create", "move"} => c.pos # Nowhere
    BY <1>4, ReadGives
  <2>2. /\ pc' \in [Request -> Label] /\ call' \in [Request -> CallRecord]
        /\ pc'[r] = label /\ call'[r] = c /\ Others(r)
    BY <2>1, KeepGives, GotoGives DEF Basics
  <2>3. pc[r] # "idle"
    BY DEF ReadSome, GetKnownBoard, GetLastPosition, GetTask, GetPositionForRefs, GetPermissions
  <2>4. Placed(r)' BY <1>1, <2>1, <2>2, <2>3 DEF Placed, Basics, Others
  <2>5. \A s \in Request : Placed(s)' BY <1>1, <2>1, <2>2, <2>4, GoOnGives DEF Basics
  <2> QED BY <1>1, <1>2, <2>2, <2>5 DEF Basics, RequestsOK
<1> QED BY <1>3, <1>4

-----------------------------------------------------------------------------
(* What the other services and the consumer do                             *)

Ground == BoardsInv /\ Basics

LEMMA InboxGrows ==
  ASSUME BoardsInv, BoardsNext
  PROVE  \/ UNCHANGED inbox
         \/ \E type \in {"board.created", "column.created", "board.deleted"},
               cols \in SUBSET Column : Tell(type, cols)
<1>1. CASE EditTypes
  BY <1>1 DEF EditTypes, AskType, AskEdit, GetBoardType, CreateBoardType, UpdateBoardType,
     DeleteBoardType, Rollback, Write
<1>2. CASE KeepTypes
  BY <1>2 DEF KeepTypes, HandleBoardTypeChanged, TypeExpires, OnlyCached
<1>3. CASE ServeBoard
  <2>1. PICK q \in Client :
          \/ AskCreateBoard(q) \/ AskCreateColumn(q) \/ AskUpdateBoard(q) \/ AskDeleteBoard(q)
          \/ GetType(q) \/ FetchType(q) \/ StoreType(q)
          \/ CreateBoard(q) \/ GetBoard(q) \/ CreateColumn(q) \/ UpdateBoard(q)
          \/ DeleteBoard(q) \/ InsertOutboxEvent(q)
    BY <1>3 DEF ServeBoard
  <2>2. order[q].columns \subseteq Column /\ order[q].types \subseteq Definition
    BY DEF BoardsInv, OrdersOK, OrderRecord
  <2>3. CASE CreateBoard(q)
    <3>1. PICK d \in order[q].types :
            LET cols == IF order[q].columns = {} THEN d.columns ELSE order[q].columns
            IN \/ columns' = cols /\ Tell("board.created", cols)
               \/ UNCHANGED <<columns, inbox>>
      BY <2>3 DEF CreateBoard
    <3>2. d.columns \subseteq Column BY <2>2 DEF Definition
    <3> QED BY <2>2, <3>1, <3>2
  <2>4. CASE CreateColumn(q) BY <2>2, <2>4 DEF CreateColumn
  <2>5. CASE InsertOutboxEvent(q) BY <2>5 DEF InsertOutboxEvent
  <2>6. CASE AskCreateBoard(q) \/ AskCreateColumn(q) \/ AskUpdateBoard(q) \/ AskDeleteBoard(q)
    BY <2>6 DEF AskCreateBoard, AskCreateColumn, AskUpdateBoard, AskDeleteBoard, AskBoard
  <2>7. CASE GetType(q) \/ FetchType(q) \/ StoreType(q) \/ GetBoard(q) \/ UpdateBoard(q)
             \/ DeleteBoard(q)
    BY <2>7 DEF GetType, FetchType, StoreType, GetBoard, UpdateBoard, DeleteBoard, OnlyOrdered
  <2> QED BY <2>1, <2>3, <2>4, <2>5, <2>6, <2>7
<1> QED BY <1>1, <1>2, <1>3 DEF BoardsNext

ServesBoard ==
  BoardsNext /\ UNCHANGED <<member, handling, known, kcolumns, cache, task, requestVars,
                            history, calls>>
Leaves == DeleteProject \/ \E u \in User : RemoveMember(u) \/ DeleteAccount(u)
Upserts == UpsertKnownBoard \/ UpsertInitialColumn \/ HandleColumnUpserted

(* Steps that neither write tasks nor are of a request *)
Outside == \/ ServesBoard \/ Leaves \/ (\E u \in User : CacheExpires(u))
           \/ Deliver \/ HandlerFails \/ Acknowledge \/ Upserts

(* Steps of the consumer that write tasks, or mark the board as deleted *)
Sweeps == MarkBoardDeleted \/ SoftDeleteTasks \/ HandleUserDeleted \/ HandleMemberRemoved

LEMMA NextSteps ==
  ASSUME Next
  PROVE  \/ Outside \/ Sweeps
         \/ \E r \in Request :
              \/ AskSome(r) \/ ReadSome(r)
              \/ CreateTask(r) \/ MoveTask(r) \/ AssignTask(r) \/ DeleteTask(r)
              \/ WriteTask(r) \/ TellUpdate(r) \/ RequestFails(r)
  BY DEF Next, Consume, Serve, Outside, ServesBoard, Leaves, Upserts, Sweeps, AskSome, ReadSome

LEMMA LeavesGives ==
  ASSUME Ground, Leaves
  PROVE  /\ UNCHANGED <<boardVars, handling, known, kcolumns, cache, task, requestVars, history,
                        scenario>>
         /\ member' \subseteq member
         /\ \E ev \in EventRecord :
              /\ inbox' = Append(inbox, ev)
              /\ \/ ev.type = "project.deleted" /\ member' = member
                 \/ /\ ev.type \in {"project.member.removed", "user.deleted"}
                    /\ member' = member \ {ev.about} /\ ev.about \in User
<1>1. ASSUME NEW type \in EventType, NEW about \in User \cup {None}, Source(type, about)
      PROVE  /\ UNCHANGED <<boardVars, handling, known, kcolumns, cache, task, requestVars,
                            history, scenario>>
             /\ \E ev \in EventRecord : /\ inbox' = Append(inbox, ev)
                                        /\ ev.type = type /\ ev.about = about
  <2>1. PICK ev \in EventRecord : ev = [type |-> type, about |-> about, columns |-> {}]
    BY <1>1 DEF EventRecord
  <2> QED BY <1>1, <2>1 DEF Source
<1>2. CASE DeleteProject BY <1>1, <1>2 DEF DeleteProject, EventType
<1>3. CASE \E u \in User : RemoveMember(u) BY <1>1, <1>3 DEF RemoveMember, EventType
<1>4. CASE \E u \in User : DeleteAccount(u) BY <1>1, <1>4 DEF DeleteAccount, EventType
<1> QED BY <1>2, <1>3, <1>4 DEF Leaves

LEMMA BoardsAreLeft ==
  ASSUME BoardsInv, UNCHANGED <<boardVars, scenario>>, inbox' \in Seq(EventRecord)
  PROVE  BoardsInv'
  BY DEF BoardsInv, boardVars, typeVars, cacheVars, boardRow, RegistryOK, EditRecord, CopiesOK,
     OrdersOK, OrderRecord, BoardOK, Edited, DefinitionKept, CopyIsCurrent, FetchedIsCurrent,
     Fetching

LEMMA OutsideGives ==
  ASSUME Ground, Outside
  PROVE  Ground' /\ UNCHANGED <<task, requestVars, history>>
<1> USE DEF Ground
<1>1. CASE ServesBoard
  <2>1. inbox' # << >> \/ inbox = << >>
    <3>1. \A type \in EventType, cols \in SUBSET Column : Tell(type, cols) => inbox' # << >>
      BY EventAppended DEF BoardsInv, BoardOK
    <3> QED BY <1>1, <3>1, InboxGrows DEF ServesBoard, EventType
  <2>2. UNCHANGED <<member, handling, cache, task, requestVars, history>> /\ BoardsInv'
    BY <1>1, BoardsStay DEF ServesBoard
  <2>3. HandlerOK' BY <2>1, <2>2 DEF Basics, HandlerOK
  <2> QED BY <2>2, <2>3 DEF Basics, TasksOK, RequestsOK, Placed, Live, requestVars, history
<1>2. ASSUME UNCHANGED <<boardVars, scenario, task, requestVars, history>>,
             inbox' \in Seq(EventRecord), HandlerOK'
      PROVE  Ground' /\ UNCHANGED <<task, requestVars, history>>
  BY <1>2, BoardsAreLeft DEF Basics, TasksOK, RequestsOK, Placed, Live, requestVars, history
<1>3. inbox \in Seq(EventRecord) /\ HandlerOK BY DEF BoardsInv, BoardOK, Basics
<1>4. CASE Leaves
  <2>1. PICK ev \in EventRecord : inbox' = Append(inbox, ev) BY <1>4, LeavesGives
  <2>2. inbox' \in Seq(EventRecord) /\ inbox' # << >> BY <1>3, <2>1
  <2>3. UNCHANGED <<boardVars, scenario, task, requestVars, history, handling, cache>>
        /\ member' \subseteq member
    BY <1>4, LeavesGives
  <2>4. HandlerOK' BY <1>3, <2>2, <2>3 DEF HandlerOK
  <2> QED BY <1>2, <2>2, <2>3, <2>4
<1>5. CASE \E u \in User : CacheExpires(u)
  BY <1>2, <1>3, <1>5 DEF CacheExpires, sourceVars, handlerVars, bounds, HandlerOK
<1>6. CASE Deliver \/ HandlerFails \/ Upserts
  <2>1. /\ UNCHANGED <<boardVars, member, scenario, task, inbox, cache, requestVars, history>>
        /\ inbox # << >> /\ handling' \in {"first", "done", "columns"}
    BY <1>3, <1>6 DEF Deliver, HandlerFails, Upserts, UpsertKnownBoard, UpsertInitialColumn,
       HandleColumnUpserted, OnlyHandled, sourceVars, bounds, requestVars, history, Handles,
       HandlerOK
  <2> QED BY <1>2, <1>3, <2>1 DEF HandlerOK
<1>7. CASE Acknowledge
  <2>1. /\ UNCHANGED <<boardVars, member, scenario, task, cache, requestVars, history>>
        /\ handling' = "idle" /\ inbox' = Tail(inbox) /\ inbox # << >>
    BY <1>3, <1>7 DEF Acknowledge, sourceVars, bounds, HandlerOK
  <2>2. inbox' \in Seq(EventRecord) BY <1>3, <2>1, TailTyped
  <2> QED BY <1>2, <1>3, <2>1, <2>2 DEF HandlerOK
<1> QED BY <1>1, <1>4, <1>5, <1>6, <1>7 DEF Outside

(* The rows keep their places; who has read them is stale. *)
LEMMA SweepsGive ==
  ASSUME Ground, Sweeps
  PROVE  /\ UNCHANGED <<boardVars, member, inbox, cache, pc, call, wanted, excused, bounds>>
         /\ stale' = [r \in Request |-> Busy(r)]
         /\ handling' \in {"tasks", "done"} /\ handling # "idle"
         /\ task' \in [Task -> Row]
         /\ told' \in [Task -> [status : Status, who : User \cup {None}]]
         /\ Live' \subseteq Live
         /\ \A t \in Task : /\ task'[t].col = task[t].col /\ task'[t].pos = task[t].pos
                            /\ task'[t].status = task[t].status
                            /\ task'[t].who \in {None, task[t].who}
                            /\ told'[t].status = told[t].status
                            /\ task[t].st = "absent" => task'[t].st = "absent"
         /\ silent \subseteq silent' /\ silent' \subseteq silent \cup (Live \X {"who"})
<1> USE DEF Ground
<1>1. /\ task \in [Task -> Row]
      /\ told \in [Task -> [status : Status, who : User \cup {None}]]
  BY DEF Basics, TasksOK
<1>2. /\ UNCHANGED <<boardVars, member, inbox, cache, pc, call, wanted, excused, bounds>>
      /\ stale' = [r \in Request |-> Busy(r)]
      /\ handling' \in {"tasks", "done"} /\ handling # "idle"
  BY DEF Sweeps, MarkBoardDeleted, SoftDeleteTasks, HandleUserDeleted, HandleMemberRemoved,
     OnlyHandled, sourceVars, Outdated, Handles
<1>3. CASE MarkBoardDeleted
  <2>1. UNCHANGED <<task, told, silent>> BY <1>3 DEF MarkBoardDeleted
  <2> QED BY <1>1, <1>2, <2>1 DEF Live
<1>4. CASE SoftDeleteTasks
  <2>1. /\ task' = [t \in Task |-> IF t \in Live THEN [task[t] EXCEPT !.st = "deleted"] ELSE task[t]]
        /\ UNCHANGED <<told, silent>>
    BY <1>4 DEF SoftDeleteTasks
  <2>2. task' \in [Task -> Row] BY <1>1, <2>1 DEF Row
  <2>3. \A t \in Task :
          /\ task'[t].col = task[t].col /\ task'[t].pos = task[t].pos
          /\ task'[t].status = task[t].status /\ task'[t].who = task[t].who
          /\ task[t].st = "absent" => task'[t].st = "absent"
          /\ task'[t].st = "live" => task[t].st = "live"
    BY <1>1, <2>1 DEF Row, Live
  <2> QED BY <1>1, <1>2, <2>1, <2>2, <2>3 DEF Live
<1>5. ASSUME NEW ts \in SUBSET Live, Unassign(ts)
      PROVE  /\ task' \in [Task -> Row] /\ Live' = Live
             /\ \A t \in Task :
                  /\ task'[t].col = task[t].col /\ task'[t].pos = task[t].pos
                  /\ task'[t].status = task[t].status
                  /\ task'[t].who \in {None, task[t].who}
                  /\ task[t].st = "absent" => task'[t].st = "absent"
  <2>1. ASSUME NEW t \in Task
        PROVE  /\ task'[t] \in Row /\ task'[t].st = task[t].st
               /\ task'[t].col = task[t].col /\ task'[t].pos = task[t].pos
               /\ task'[t].status = task[t].status
               /\ task'[t].who \in {None, task[t].who}
    <3>1. task'[t] = IF t \in ts THEN [task[t] EXCEPT !.who = None] ELSE task[t]
      BY <1>5 DEF Unassign
    <3>2. task[t] \in Row BY <1>1
    <3> QED BY <3>1, <3>2 DEF Row
  <2>2. task' = [t \in Task |-> task'[t]] BY <1>5 DEF Unassign
  <2>3. task' \in [Task -> Row] BY <2>1, <2>2
  <2> QED BY <2>1, <2>3 DEF Live
<1>6. AssignedTo(Message.about) \in SUBSET Live BY DEF AssignedTo
<1>7. CASE HandleUserDeleted
  <2>1. /\ Unassign(AssignedTo(Message.about)) /\ UNCHANGED told
        /\ silent' = silent \cup (AssignedTo(Message.about) \X {"who"})
    BY <1>7 DEF HandleUserDeleted
  <2> QED BY <1>1, <1>2, <1>5, <1>6, <2>1
<1>8. CASE HandleMemberRemoved
  <2>1. /\ Unassign(AssignedTo(Message.about)) /\ UNCHANGED silent
        /\ told' = [t \in Task |-> IF t \in AssignedTo(Message.about)
                                   THEN [told[t] EXCEPT !.who = None] ELSE told[t]]
    BY <1>8 DEF HandleMemberRemoved
  <2>2. /\ told' \in [Task -> [status : Status, who : User \cup {None}]]
        /\ \A t \in Task : told'[t].status = told[t].status
    BY <1>1, <2>1
  <2> QED BY <1>1, <1>2, <1>5, <1>6, <2>1, <2>2
<1> QED BY <1>3, <1>4, <1>7, <1>8 DEF Sweeps

LEMMA SweepsGround == ASSUME Ground, Sweeps PROVE Ground'
<1> USE DEF Ground
<1>1. BoardsInv'
  <2>1. UNCHANGED <<boardVars, scenario, inbox>> BY SweepsGive DEF bounds
  <2>2. inbox' \in Seq(EventRecord) BY <2>1 DEF BoardsInv, BoardOK
  <2> QED BY <2>1, <2>2, BoardsAreLeft
<1>2. HandlerOK' BY SweepsGive DEF Basics, HandlerOK
<1>3. TasksOK'
  <2>1. wanted' = wanted /\ Live' \subseteq Live /\ Live \subseteq Task
    BY SweepsGive DEF Live
  <2>2. \A t \in Live' : task'[t].pos # Nowhere BY <2>1, SweepsGive DEF Basics, TasksOK
  <2> QED BY <2>1, <2>2, SweepsGive DEF Basics, TasksOK
<1>4. RequestsOK' BY SweepsGive DEF Basics, RequestsOK, Busy
<1>5. ASSUME NEW r \in Request PROVE Placed(r)'
  <2>1. pc' = pc /\ call' = call BY SweepsGive
  <2>2. Placed(r) BY DEF Basics
  <2>3. call[r].op = "create" => call[r].task \in Task
    BY <2>2 DEF Placed, NoCall
  <2>4. call[r].op = "create" => task'[call[r].task].st = "absent"
    BY <2>2, <2>3, SweepsGive DEF Placed
  <2> QED BY <2>1, <2>2, <2>4 DEF Placed
<1> QED BY <1>1, <1>2, <1>3, <1>4, <1>5 DEF Basics

LEMMA AskGround == ASSUME Ground, NEW r \in Request, AskSome(r) PROVE Ground'
<1>1. PICK c : WellAsked(c) /\ Ask(r, c) BY AskGives DEF Ground
<1>2. Basics' BY <1>1, AskBasics DEF WellAsked, Ground
<1>3. UNCHANGED <<boardVars, scenario, inbox>> BY <1>1 DEF Ask, sourceVars, handlerVars
<1>4. inbox' \in Seq(EventRecord) BY <1>3 DEF Ground, BoardsInv, BoardOK
<1> QED BY <1>2, <1>3, <1>4, BoardsAreLeft DEF Ground

LEMMA ReadGround == ASSUME Ground, NEW r \in Request, ReadSome(r) PROVE Ground'
<1>1. Basics' BY ReadBasics DEF Ground
<1>2. UNCHANGED <<boardVars, scenario, inbox>>
  BY ReadGives DEF Ground, sourceVars, handlerVars
<1>3. inbox' \in Seq(EventRecord) BY <1>2 DEF Ground, BoardsInv, BoardOK
<1> QED BY <1>1, <1>2, <1>3, BoardsAreLeft DEF Ground

-----------------------------------------------------------------------------
(* What is written                                                         *)

Told == [status : Status, who : User \cup {None}]

(* What every write leaves alone *)
LEMMA WritesGround ==
  ASSUME Ground, NEW r \in Request,
         Goto(r, "idle") \/ (Goto(r, "tell") /\ call[r].op = "update" /\ pc[r] = "write"),
         OnlyWritten, stale' \in [Request -> BOOLEAN],
         task' \in [Task -> Row], told' \in [Task -> Told],
         \A t \in Task \ {call[r].task} : task[t].st = "absent" => task'[t].st = "absent",
         wanted' \in Seq(Task), Once(wanted'), ~Has(wanted', None),
         \A t \in Live' : task'[t].pos # Nowhere /\ Has(wanted', t)
  PROVE  Ground'
<1> USE DEF Ground
<1>1. BoardsInv' /\ HandlerOK'
  <2>1. UNCHANGED <<boardVars, member, inbox, handling, cache, scenario>>
    BY DEF OnlyWritten, sourceVars, handlerVars
  <2>2. inbox' \in Seq(EventRecord) BY <2>1 DEF BoardsInv, BoardOK
  <2> QED BY <2>1, <2>2, BoardsAreLeft DEF Basics, HandlerOK
<1>2. TasksOK' BY DEF TasksOK, Told
<1>3. CASE Goto(r, "idle")
  <2>1. /\ pc' \in [Request -> Label] /\ call' \in [Request -> CallRecord]
        /\ \A s \in Request : Placed(s)'
    BY <1>3, EndGives DEF Basics
  <2> QED BY <1>1, <1>2, <2>1 DEF Basics, RequestsOK
<1>4. CASE Goto(r, "tell") /\ call[r].op = "update" /\ pc[r] = "write"
  <2>1. /\ pc' \in [Request -> Label] /\ call' \in [Request -> CallRecord]
        /\ pc'[r] = "tell" /\ call'[r] = call[r] /\ Others(r)
    BY <1>4, GotoGives DEF Basics, Label
  <2>2. Placed(r)' BY <1>4, <2>1 DEF Basics, Placed
  <2>3. \A s \in Request : Placed(s)' BY <2>1, <2>2, GoOnGives DEF Basics
  <2> QED BY <1>1, <1>2, <2>1, <2>3 DEF Basics, RequestsOK
<1> QED BY <1>3, <1>4

LEMMA TouchTyped ==
  ASSUME Ground, NEW r \in Request, NEW t, NEW cols, Touch(r, t, cols)
  PROVE  stale' \in [Request -> BOOLEAN]
  BY DEF Touch, Ground, Basics, RequestsOK, Busy

LEMMA CreateGives ==
  ASSUME Ground, NEW r \in Request, CreateTask(r)
  PROVE  /\ call[r] \in CallRecord /\ call[r].task \in Task /\ call[r].task # None
         /\ call[r].col \in Column /\ call[r].pos # Nowhere
         /\ task[call[r].task].st = "absent"
         /\ task' \in [Task -> Row] /\ told' \in [Task -> Told]
         /\ \A x \in Task \ {call[r].task} : task'[x] = task[x] /\ told'[x] = told[x]
         /\ task'[call[r].task].st = "live" /\ task'[call[r].task].col = call[r].col
         /\ task'[call[r].task].pos = call[r].pos /\ task'[call[r].task].status = call[r].status
         /\ task'[call[r].task].who = call[r].who
         /\ told'[call[r].task].status = call[r].status /\ told'[call[r].task].who = call[r].who
         /\ wanted' = Place(call[r].task, None) /\ UNCHANGED silent
         /\ Touch(r, call[r].task, {call[r].col}) /\ Excuse(r, call[r].task)
         /\ Goto(r, "idle") /\ OnlyWritten
<1>1. PICK c \in CallRecord : c = call[r] BY DEF Ground, Basics, RequestsOK
<1>2. /\ c.task \in Task /\ c.task # None /\ c.col \in Column /\ c.pos # Nowhere
      /\ task[c.task].st = "absent"
  BY <1>1 DEF CreateTask, Ground, Basics, Placed
<1>3. PICK row : row = [st |-> "live", col |-> c.col, pos |-> c.pos,
                        status |-> c.status, who |-> c.who]
  OBVIOUS
<1>4. /\ row \in Row /\ row.st = "live" /\ row.col = c.col /\ row.pos = c.pos
      /\ row.status = c.status /\ row.who = c.who
  BY <1>1, <1>2, <1>3 DEF CallRecord, Row
<1>5. PICK tells : tells = [status |-> c.status, who |-> c.who] OBVIOUS
<1>6. tells \in Told /\ tells.status = c.status /\ tells.who = c.who
  BY <1>1, <1>5 DEF CallRecord, Told
<1>7. task' = [task EXCEPT ![c.task] = row] /\ told' = [told EXCEPT ![c.task] = tells]
  BY <1>1, <1>3, <1>5 DEF CreateTask, Created
<1>8. task \in [Task -> Row] /\ told \in [Task -> Told] BY DEF Ground, Basics, TasksOK, Told
<1>9. /\ task' \in [Task -> Row] /\ told' \in [Task -> Told]
      /\ task'[c.task] = row /\ told'[c.task] = tells
      /\ \A x \in Task \ {c.task} : task'[x] = task[x] /\ told'[x] = told[x]
  BY <1>2, <1>4, <1>6, <1>7, <1>8
<1>10. /\ wanted' = Place(call[r].task, None) /\ UNCHANGED silent
       /\ Touch(r, call[r].task, {call[r].col}) /\ Excuse(r, call[r].task)
       /\ Goto(r, "idle") /\ OnlyWritten
  BY DEF CreateTask
<1> QED BY <1>1, <1>2, <1>4, <1>6, <1>9, <1>10

(* A write of a row that is there; Rows the fields it leaves alone. *)
RowWritten(r) ==
  LET t == call[r].task
  IN /\ call[r] \in CallRecord /\ t \in Task /\ t \in Live
     /\ task' \in [Task -> Row] /\ told' \in [Task -> Told]
     /\ \A x \in Task \ {t} : task'[x] = task[x] /\ told'[x] = told[x]
     /\ OnlyWritten

NoRow(r) ==
  /\ call[r] \in CallRecord /\ call[r].task \in Task
  /\ UNCHANGED <<task, told, wanted, stale, excused, silent>>
  /\ Goto(r, "idle") /\ OnlyWritten

LEMMA MoveGives ==
  ASSUME Ground, NEW r \in Request, MoveTask(r)
  PROVE  \/ NoRow(r)
         \/ LET t == call[r].task
            IN /\ RowWritten(r) /\ t # None
               /\ call[r].col \in Column /\ call[r].pos # Nowhere
               /\ task'[t].st = "live" /\ task'[t].col = call[r].col
               /\ task'[t].pos = call[r].pos /\ task'[t].status = call[r].status
               /\ task'[t].who = task[t].who /\ told'[t].who = told[t].who
               /\ told'[t].status = IF call[r].status # call[r].seen THEN call[r].status
                                    ELSE told[t].status
               /\ wanted' = Place(t, call[r].before) /\ call[r].before # t /\ UNCHANGED silent
               /\ Touch(r, t, {call[r].col, task[t].col}) /\ Excuse(r, t)
               /\ Goto(r, "idle")
<1>1. PICK c \in CallRecord : c = call[r] BY DEF Ground, Basics, RequestsOK
<1>2. c.task \in Task /\ c.col \in Column /\ c.pos # Nowhere /\ c.before # c.task
  BY <1>1 DEF MoveTask, Ground, Basics, Placed
<1>3. Goto(r, "idle") /\ OnlyWritten /\ UNCHANGED silent BY DEF MoveTask
<1>4. CASE c.task \notin Live
  <2>1. UNCHANGED <<task, told, wanted, stale, excused>> BY <1>1, <1>4 DEF MoveTask
  <2> QED BY <1>1, <1>2, <1>3, <2>1 DEF NoRow
<1>5. CASE c.task \in Live
  <2>1. task \in [Task -> Row] /\ told \in [Task -> Told] BY DEF Ground, Basics, TasksOK, Told
  <2>2. /\ task' = Moved(c)
        /\ told' = [told EXCEPT ![c.task].status = IF c.status # c.seen THEN c.status ELSE @]
        /\ wanted' = Place(c.task, c.before)
        /\ Touch(r, c.task, {c.col, task[c.task].col}) /\ Excuse(r, c.task)
    BY <1>1, <1>5 DEF MoveTask
  <2>3. PICK row \in Row : row = [task[c.task] EXCEPT !.col = c.col, !.pos = c.pos, !.status = c.status]
    <3>1. PICK old \in Row : old = task[c.task] BY <1>2, <2>1
    <3>2. c.pos \in Position /\ c.status \in Status BY DEF CallRecord
    <3>3. [old EXCEPT !.col = c.col, !.pos = c.pos, !.status = c.status] \in Row
      BY <1>2, <3>2 DEF Row
    <3> QED BY <3>1, <3>3
  <2>4. /\ row.st = task[c.task].st /\ row.col = c.col /\ row.pos = c.pos
        /\ row.status = c.status /\ row.who = task[c.task].who
    BY <1>2, <2>1, <2>3 DEF Row
  <2>5. PICK new : new = (IF c.status # c.seen THEN c.status ELSE told[c.task].status) OBVIOUS
  <2>6. new \in Status BY <1>1, <1>2, <2>1, <2>5 DEF CallRecord, Told
  <2>7. PICK tells \in Told : tells = [told[c.task] EXCEPT !.status = new]
    BY <1>2, <2>1, <2>6 DEF Told
  <2>8. tells.status = new /\ tells.who = told[c.task].who BY <1>2, <2>1, <2>7 DEF Told
  <2>9. task' = [task EXCEPT ![c.task] = row]
    BY <1>2, <2>1, <2>2, <2>3 DEF Moved
  <2>10. told' = [told EXCEPT ![c.task] = tells] BY <1>2, <2>1, <2>2, <2>5, <2>7
  <2>11. /\ task' \in [Task -> Row] /\ told' \in [Task -> Told]
         /\ task'[c.task] = row /\ told'[c.task] = tells
         /\ \A x \in Task \ {c.task} : task'[x] = task[x] /\ told'[x] = told[x]
    BY <1>2, <2>1, <2>9, <2>10
  <2>12. RowWritten(r) BY <1>1, <1>2, <1>3, <1>5, <2>11 DEF RowWritten
  <2>13. task[c.task].st = "live" /\ c.task # None
    BY <1>5 DEF Live, Ground, Basics, TasksOK
  <2> QED BY <1>1, <1>2, <1>3, <2>2, <2>4, <2>5, <2>8, <2>11, <2>12, <2>13
<1> QED BY <1>4, <1>5

LEMMA AssignGives ==
  ASSUME Ground, NEW r \in Request, AssignTask(r)
  PROVE  \/ NoRow(r)
         \/ LET t == call[r].task
            IN /\ RowWritten(r)
               /\ task'[t].st = "live" /\ task'[t].col = task[t].col
               /\ task'[t].pos = task[t].pos /\ task'[t].status = task[t].status
               /\ task'[t].who = call[r].who /\ told'[t].who = call[r].who
               /\ told'[t].status = told[t].status
               /\ silent' = silent \ {<<t, "who">>} /\ UNCHANGED wanted
               /\ Touch(r, t, {}) /\ Excuse(r, t)
               /\ Goto(r, "idle")
<1>1. PICK c \in CallRecord : c = call[r] BY DEF Ground, Basics, RequestsOK
<1>2. c.task \in Task
  BY <1>1 DEF AssignTask, Ground, Basics, Placed
<1>3. Goto(r, "idle") /\ OnlyWritten /\ UNCHANGED wanted BY DEF AssignTask
<1>4. CASE c.task \notin Live
  <2>1. UNCHANGED <<task, told, silent, stale, excused>> BY <1>1, <1>4 DEF AssignTask
  <2> QED BY <1>1, <1>2, <1>3, <2>1 DEF NoRow
<1>5. CASE c.task \in Live
  <2>1. task \in [Task -> Row] /\ told \in [Task -> Told] BY DEF Ground, Basics, TasksOK, Told
  <2>2. /\ task' = WithAssignee(c.task, c.who)
        /\ told' = [told EXCEPT ![c.task].who = c.who]
        /\ silent' = silent \ {<<c.task, "who">>}
        /\ Touch(r, c.task, {}) /\ Excuse(r, c.task)
    BY <1>1, <1>5 DEF AssignTask
  <2>3. PICK old \in Row, tale \in Told : old = task[c.task] /\ tale = told[c.task]
    BY <1>2, <2>1
  <2>4. c.who \in User \cup {None} BY DEF CallRecord
  <2>5. PICK row : row = [old EXCEPT !.who = c.who] OBVIOUS
  <2>6. /\ row \in Row /\ row.st = old.st /\ row.col = old.col /\ row.pos = old.pos
        /\ row.status = old.status /\ row.who = c.who
    BY <2>4, <2>5 DEF Row
  <2>7. PICK tells : tells = [tale EXCEPT !.who = c.who] OBVIOUS
  <2>8. tells \in Told /\ tells.status = tale.status /\ tells.who = c.who
    BY <2>4, <2>7 DEF Told
  <2>9. task' = [task EXCEPT ![c.task] = row] /\ told' = [told EXCEPT ![c.task] = tells]
    BY <1>2, <2>1, <2>2, <2>3, <2>5, <2>7 DEF WithAssignee
  <2>10. /\ task' \in [Task -> Row] /\ told' \in [Task -> Told]
         /\ task'[c.task] = row /\ told'[c.task] = tells
         /\ \A x \in Task \ {c.task} : task'[x] = task[x] /\ told'[x] = told[x]
    BY <1>2, <2>1, <2>6, <2>8, <2>9
  <2>11. RowWritten(r) BY <1>1, <1>2, <1>3, <1>5, <2>10 DEF RowWritten
  <2>12. old.st = "live" BY <1>5, <2>3 DEF Live
  <2> QED BY <1>1, <1>3, <2>2, <2>3, <2>6, <2>8, <2>10, <2>11, <2>12
<1> QED BY <1>4, <1>5

LEMMA DeleteGives ==
  ASSUME Ground, NEW r \in Request, DeleteTask(r)
  PROVE  /\ call[r] \in CallRecord /\ call[r].task \in Task
         /\ task' \in [Task -> Row] /\ task'[call[r].task].st = "deleted"
         /\ \A x \in Task \ {call[r].task} : task'[x] = task[x]
         /\ UNCHANGED <<wanted, excused, told, silent>>
         /\ Touch(r, call[r].task, {task[call[r].task].col})
         /\ Goto(r, "idle") /\ OnlyWritten
<1>1. PICK c \in CallRecord : c = call[r] BY DEF Ground, Basics, RequestsOK
<1>2. c.task \in Task
  BY <1>1 DEF DeleteTask, Ground, Basics, Placed
<1>3. task \in [Task -> Row] BY DEF Ground, Basics, TasksOK
<1>4. PICK old \in Row : old = task[c.task] BY <1>2, <1>3
<1>5. PICK row : row = [old EXCEPT !.st = "deleted"] OBVIOUS
<1>6. row \in Row /\ row.st = "deleted" BY <1>5 DEF Row
<1>7. task' = [task EXCEPT ![c.task] = row]
  BY <1>1, <1>2, <1>3, <1>4, <1>5 DEF DeleteTask
<1>8. /\ task' \in [Task -> Row] /\ task'[c.task] = row
      /\ \A x \in Task \ {c.task} : task'[x] = task[x]
  BY <1>2, <1>3, <1>6, <1>7
<1>9. /\ UNCHANGED <<wanted, excused, told, silent>> /\ Goto(r, "idle") /\ OnlyWritten
      /\ Touch(r, call[r].task, {task[call[r].task].col})
  BY DEF DeleteTask
<1> QED BY <1>1, <1>2, <1>6, <1>8, <1>9

(* UpdateTask's first statement *)
LEMMA WriteGives ==
  ASSUME Ground, NEW r \in Request, WriteTask(r)
  PROVE  \/ NoRow(r)
         \/ LET t == call[r].task
            IN /\ RowWritten(r)
               /\ task'[t].st = "live" /\ task'[t].col = task[t].col
               /\ task'[t].pos = task[t].pos /\ task'[t].status = call[r].status
               /\ task'[t].who = task[t].who
               /\ UNCHANGED <<wanted, excused, told, silent>>
               /\ stale' = [s \in Request |-> stale[s] \/ (s # r /\ call[s].task = t)]
               /\ Goto(r, "tell") /\ call[r].op = "update" /\ pc[r] = "write"
<1>1. PICK c \in CallRecord : c = call[r] BY DEF Ground, Basics, RequestsOK
<1>2. c.task \in Task /\ c.op = "update" /\ pc[r] = "write"
  BY <1>1 DEF WriteTask, Ground, Basics, Placed
<1>3. OnlyWritten /\ UNCHANGED <<wanted, excused, told, silent>>
  BY DEF WriteTask, history
<1>4. CASE c.task \notin Live
  <2>1. UNCHANGED <<task, stale>> /\ Goto(r, "idle") BY <1>1, <1>4 DEF WriteTask
  <2> QED BY <1>1, <1>2, <1>3, <2>1 DEF NoRow
<1>5. CASE c.task \in Live
  <2>1. task \in [Task -> Row] /\ told \in [Task -> Told] BY DEF Ground, Basics, TasksOK, Told
  <2>2. /\ task' = WithStatus(c.task, c.status)
        /\ stale' = [s \in Request |-> stale[s] \/ (s # r /\ call[s].task = c.task)]
        /\ Goto(r, "tell")
    BY <1>1, <1>5 DEF WriteTask
  <2>3. PICK old \in Row : old = task[c.task] BY <1>2, <2>1
  <2>4. c.status \in Status BY DEF CallRecord
  <2>5. PICK row : row = [old EXCEPT !.status = c.status] OBVIOUS
  <2>6. /\ row \in Row /\ row.st = old.st /\ row.col = old.col /\ row.pos = old.pos
        /\ row.status = c.status /\ row.who = old.who
    BY <2>4, <2>5 DEF Row
  <2>7. task' = [task EXCEPT ![c.task] = row]
    BY <1>2, <2>1, <2>2, <2>3, <2>5 DEF WithStatus
  <2>8. /\ task' \in [Task -> Row] /\ task'[c.task] = row
        /\ \A x \in Task \ {c.task} : task'[x] = task[x]
    BY <1>2, <2>1, <2>6, <2>7
  <2>9. RowWritten(r) BY <1>1, <1>2, <1>3, <1>5, <2>1, <2>8 DEF RowWritten
  <2>10. old.st = "live" BY <1>5, <2>3 DEF Live
  <2> QED BY <1>1, <1>2, <1>3, <2>2, <2>3, <2>6, <2>8, <2>9, <2>10
<1> QED BY <1>4, <1>5

(* and its transaction *)
LEMMA TellGives ==
  ASSUME Ground, NEW r \in Request, TellUpdate(r)
  PROVE  LET t == call[r].task
         IN /\ call[r] \in CallRecord /\ t \in Task /\ pc[r] = "tell" /\ call[r].op = "update"
            /\ told' \in [Task -> Told]
            /\ \A x \in Task \ {t} : told'[x] = told[x]
            /\ told'[t].who = told[t].who
            /\ told'[t].status = IF call[r].status # call[r].seen THEN call[r].status
                                 ELSE told[t].status
            /\ UNCHANGED <<task, stale, wanted, silent>> /\ Excuse(r, t)
            /\ Goto(r, "idle") /\ OnlyWritten
<1>1. PICK c \in CallRecord : c = call[r] BY DEF Ground, Basics, RequestsOK
<1>2. c.task \in Task /\ c.op = "update" /\ pc[r] = "tell"
  BY <1>1 DEF TellUpdate, Ground, Basics, Placed
<1>3. told \in [Task -> Told] BY DEF Ground, Basics, TasksOK, Told
<1>4. PICK tale \in Told : tale = told[c.task] BY <1>2, <1>3
<1>5. PICK new : new = (IF c.status # c.seen THEN c.status ELSE tale.status) OBVIOUS
<1>6. new \in Status BY <1>5 DEF CallRecord, Told
<1>7. PICK tells : tells = [tale EXCEPT !.status = new] OBVIOUS
<1>8. tells \in Told /\ tells.status = new /\ tells.who = tale.who BY <1>6, <1>7 DEF Told
<1>9. told' = [told EXCEPT ![c.task] = tells]
  BY <1>1, <1>2, <1>3, <1>4, <1>5, <1>7 DEF TellUpdate
<1>10. /\ told' \in [Task -> Told] /\ told'[c.task] = tells
       /\ \A x \in Task \ {c.task} : told'[x] = told[x]
  BY <1>2, <1>3, <1>8, <1>9
<1>11. /\ UNCHANGED <<task, stale, wanted, silent>> /\ Excuse(r, call[r].task)
       /\ Goto(r, "idle") /\ OnlyWritten
  BY DEF TellUpdate
<1> QED BY <1>1, <1>2, <1>4, <1>5, <1>8, <1>10, <1>11

WriteSome(r) ==
  \/ CreateTask(r) \/ MoveTask(r) \/ AssignTask(r) \/ DeleteTask(r)
  \/ WriteTask(r) \/ TellUpdate(r) \/ RequestFails(r)

LEMMA FailGives ==
  ASSUME Ground, NEW r \in Request, RequestFails(r)
  PROVE  /\ pc[r] # "idle" /\ Goto(r, "idle") /\ OnlyWritten
         /\ UNCHANGED <<task, stale, wanted, excused, told>>
         /\ silent' = IF pc[r] = "tell" THEN silent \cup {<<call[r].task, "status">>} ELSE silent
  BY DEF RequestFails, Busy

LEMMA WriteGround == ASSUME Ground, NEW r \in Request, WriteSome(r) PROVE Ground'
<1> USE DEF Ground
<1>1. /\ wanted \in Seq(Task) /\ Once(wanted) /\ ~Has(wanted, None)
      /\ \A t \in Live : task[t].pos # Nowhere /\ Has(wanted, t)
      /\ task \in [Task -> Row] /\ told \in [Task -> Told]
      /\ stale \in [Request -> BOOLEAN] /\ Live \subseteq Task
  BY DEF Basics, TasksOK, RequestsOK, Told, Live
<1>2. ASSUME NEW t \in Task, t # None, NEW before, before # t, wanted' = Place(t, before)
      PROVE  /\ wanted' \in Seq(Task) /\ Once(wanted') /\ ~Has(wanted', None)
             /\ Has(wanted', t) /\ \A x \in Task : Has(wanted, x) => Has(wanted', x)
  <2>1. /\ wanted' \in Seq(Task) /\ Once(wanted') /\ Has(wanted', t)
        /\ \A x \in Task : Has(wanted, x) => Has(wanted', x)
    BY <1>1, <1>2, PlaceGives
  <2>2. \A x : Has(wanted', x) => x = t \/ Has(wanted, x) BY <1>1, <1>2, PlaceHas
  <2> QED BY <1>1, <1>2, <2>1, <2>2
<1>3. CASE UNCHANGED <<task, told, wanted, stale>> /\ Goto(r, "idle") /\ OnlyWritten
  <2>1. Live' = Live BY <1>3 DEF Live
  <2> QED BY <1>1, <1>3, <2>1, WritesGround
<1>4. CASE NoRow(r) BY <1>3, <1>4 DEF NoRow
<1>5. CASE CreateTask(r)
  <2>1. wanted' = Place(call[r].task, None) /\ call[r].task \in Task /\ call[r].task # None
    BY <1>5, CreateGives
  <2>2. /\ wanted' \in Seq(Task) /\ Once(wanted') /\ ~Has(wanted', None)
        /\ Has(wanted', call[r].task) /\ \A x \in Task : Has(wanted, x) => Has(wanted', x)
    BY <1>2, <2>1
  <2>3. \A x \in Live' : x = call[r].task \/ (x \in Live /\ task'[x] = task[x])
    BY <1>5, CreateGives DEF Live
  <2>4. \A x \in Live' : task'[x].pos # Nowhere /\ Has(wanted', x)
    <3>1. task'[call[r].task].pos # Nowhere BY <1>5, CreateGives
    <3> QED BY <1>1, <2>2, <2>3, <3>1
  <2>5. stale' \in [Request -> BOOLEAN] BY <1>5, CreateGives, TouchTyped
  <2> QED BY <1>5, <2>2, <2>4, <2>5, CreateGives, WritesGround
<1>6. CASE MoveTask(r) /\ ~NoRow(r)
  <2> DEFINE t == call[r].task
  <2>1. wanted' = Place(t, call[r].before) /\ t \in Task /\ t # None /\ call[r].before # t
    BY <1>6, MoveGives DEF RowWritten
  <2>2. /\ wanted' \in Seq(Task) /\ Once(wanted') /\ ~Has(wanted', None)
        /\ Has(wanted', t) /\ \A x \in Task : Has(wanted, x) => Has(wanted', x)
    BY <1>2, <2>1
  <2>3. /\ RowWritten(r) /\ call[r].pos # Nowhere /\ task'[t].pos = call[r].pos
        /\ Touch(r, t, {call[r].col, task[t].col}) /\ Goto(r, "idle")
    BY <1>6, MoveGives
  <2>4. \A x \in Live' : x = t \/ (x \in Live /\ task'[x] = task[x])
    BY <2>3 DEF Live, RowWritten
  <2>5. \A x \in Live' : task'[x].pos # Nowhere /\ Has(wanted', x)
    BY <1>1, <2>2, <2>3, <2>4
  <2>6. stale' \in [Request -> BOOLEAN] BY <2>3, TouchTyped
  <2>7. \A x \in Task \ {t} : task'[x] = task[x] BY <2>3 DEF RowWritten
  <2> QED BY <2>2, <2>3, <2>5, <2>6, <2>7, WritesGround DEF RowWritten
<1>7. ASSUME RowWritten(r), UNCHANGED wanted, task'[call[r].task].pos = task[call[r].task].pos,
             stale' \in [Request -> BOOLEAN],
             Goto(r, "idle") \/ (Goto(r, "tell") /\ call[r].op = "update" /\ pc[r] = "write")
      PROVE  Ground'
  <2>1. \A x \in Live' : x \in Live /\ task'[x].pos = task[x].pos
    BY <1>7 DEF Live, RowWritten
  <2>2. \A x \in Live' : task'[x].pos # Nowhere /\ Has(wanted', x) BY <1>1, <1>7, <2>1
  <2>3. \A x \in Task \ {call[r].task} : task'[x] = task[x] BY <1>7 DEF RowWritten
  <2> QED BY <1>1, <1>7, <2>2, <2>3, WritesGround DEF RowWritten
<1>8. CASE AssignTask(r) /\ ~NoRow(r)
  <2>1. /\ RowWritten(r) /\ UNCHANGED wanted /\ task'[call[r].task].pos = task[call[r].task].pos
        /\ Touch(r, call[r].task, {}) /\ Goto(r, "idle")
    BY <1>8, AssignGives
  <2> QED BY <1>7, <2>1, TouchTyped
<1>9. CASE WriteTask(r) /\ ~NoRow(r)
  <2>1. /\ RowWritten(r) /\ UNCHANGED wanted /\ task'[call[r].task].pos = task[call[r].task].pos
        /\ stale' = [s \in Request |-> stale[s] \/ (s # r /\ call[s].task = call[r].task)]
        /\ Goto(r, "tell") /\ call[r].op = "update" /\ pc[r] = "write"
    BY <1>9, WriteGives
  <2>2. stale' \in [Request -> BOOLEAN] BY <1>1, <2>1
  <2> QED BY <1>7, <2>1, <2>2
<1>10. CASE DeleteTask(r)
  <2>1. \A x \in Live' : x \in Live /\ task'[x] = task[x]
    BY <1>10, DeleteGives DEF Live
  <2>2. \A x \in Live' : task'[x].pos # Nowhere /\ Has(wanted', x)
    BY <1>1, <1>10, <2>1, DeleteGives
  <2>3. stale' \in [Request -> BOOLEAN] BY <1>10, DeleteGives, TouchTyped
  <2> QED BY <1>1, <1>10, <2>2, <2>3, DeleteGives, WritesGround
<1>11. CASE TellUpdate(r)
  <2>1. /\ told' \in [Task -> Told] /\ UNCHANGED <<task, stale, wanted>>
        /\ Goto(r, "idle") /\ OnlyWritten
    BY <1>11, TellGives
  <2>2. Live' = Live BY <2>1 DEF Live
  <2> QED BY <1>1, <2>1, <2>2, WritesGround
<1>12. CASE RequestFails(r) BY <1>3, <1>12, FailGives
<1> QED BY <1>4, <1>5, <1>6, <1>8, <1>9, <1>10, <1>11, <1>12 DEF WriteSome

LEMMA GroundAtFirst == ASSUME Init PROVE Ground
  BY BoardsInitHolds, BasicsAtFirst DEF Ground

LEMMA NextIs ==
  ASSUME [Next]_vars
  PROVE  \/ UNCHANGED vars \/ Outside \/ Sweeps
         \/ \E r \in Request : AskSome(r) \/ ReadSome(r) \/ WriteSome(r)
  BY NextSteps DEF WriteSome

LEMMA GroundStays == ASSUME Ground, [Next]_vars PROVE Ground'
<1>1. CASE UNCHANGED vars
  <2>1. UNCHANGED <<boardVars, scenario, member, handling, inbox, cache, task, requestVars, history>>
    BY <1>1 DEF vars, sourceVars, handlerVars, bounds
  <2>2. inbox' \in Seq(EventRecord) BY <2>1 DEF Ground, BoardsInv, BoardOK
  <2>3. Basics' BY <2>1 DEF Ground, Basics, HandlerOK, TasksOK, RequestsOK, Placed, Live,
                           requestVars, history
  <2> QED BY <2>1, <2>2, <2>3, BoardsAreLeft DEF Ground
<1> QED BY <1>1, NextIs, OutsideGives, SweepsGround, AskGround, ReadGround, WriteGround

LEMMA GroundHolds == Spec => []Ground
  BY GroundAtFirst, GroundStays, PTL DEF Spec

(* The registry keeps every change to a board type, unless two requests    *)
(* overlapped, and never a definition its own schema refuses; a copy is    *)
(* the registry's definition once the events are handled, unless one was   *)
(* handled elsewhere or while the definition was on its way.               *)
THEOREM TypesAreFollowed == Spec => []TypesFollow
<1>1. Ground => TypesFollow BY DEF Ground, BoardsInv, TypesFollow
<1> QED BY <1>1, GroundHolds, PTL

-----------------------------------------------------------------------------
(* Departures: what is still to be handled of them                         *)

Goes == {"project.member.removed", "user.deleted"}
Unhandled(ev) == \E i \in 1..Len(inbox) : inbox[i] = ev /\ ~(i = 1 /\ handling = "done")
Pending(u) == \E ev \in EventRecord : Unhandled(ev) /\ ev.type \in Goes /\ ev.about = u
DeletionDue == \E ev \in EventRecord : Unhandled(ev) /\ ev.type = "board.deleted"

(* The deletion of the board is told or is going to be, or was not told. *)
Telling ==
  \/ "board.deleted" \in untold
  \/ \E q \in Client : order[q].step = "tell" /\ order[q].op = "board.deleted"

(* Whom a request is going to assign *)
Gives(r) == /\ Busy(r) /\ ~stale[r]
            /\ call[r].op = "create" \/ (call[r].op = "assign" /\ pc[r] = "commit")

AssigneesKnown ==
  \A t \in Live \ excused : task[t].who \in {None} \cup member \/ Pending(task[t].who)
GivenKnown ==
  \A r \in Request : Gives(r) => call[r].who \in {None} \cup member \/ Pending(call[r].who)
DeletionTold == board = "deleted" => Telling \/ DeletionDue \/ known = "deleted"
TasksSwept == known = "deleted" => DeletionDue \/ Live \subseteq excused
NoneCreated ==
  known = "deleted" =>
    \A r \in Request : call[r].op = "create" /\ pc[r] # "board" => stale[r]

DepartInv ==
  /\ AssigneesKnown /\ GivenKnown /\ DeletionTold /\ TasksSwept /\ NoneCreated
  /\ handling = "tasks" => known = "deleted"

LEMMA EventAdded ==
  ASSUME Ground, NEW new \in EventRecord, inbox' = Append(inbox, new), UNCHANGED handling
  PROVE  Unhandled(new)' /\ \A ev : Unhandled(ev) => Unhandled(ev)'
<1>1. inbox \in Seq(EventRecord) /\ (handling = "done" => inbox # << >>)
  BY DEF Ground, BoardsInv, BoardOK, Basics, HandlerOK
<1>2. /\ Len(inbox') = Len(inbox) + 1 /\ inbox'[Len(inbox) + 1] = new
      /\ \A i \in 1..Len(inbox) : inbox'[i] = inbox[i]
      /\ Len(inbox) \in Nat /\ (handling = "done" => Len(inbox) # 0)
  BY <1>1
<1>3. Unhandled(new)'
  <2>1. Len(inbox) + 1 \in 1..Len(inbox') /\ ~(Len(inbox) + 1 = 1 /\ handling' = "done")
    BY <1>2
  <2> QED BY <1>2, <2>1 DEF Unhandled
<1>4. ASSUME NEW ev, Unhandled(ev) PROVE Unhandled(ev)'
  <2>1. PICK i \in 1..Len(inbox) : inbox[i] = ev /\ ~(i = 1 /\ handling = "done")
    BY <1>4 DEF Unhandled
  <2>2. i \in 1..Len(inbox') /\ inbox'[i] = ev BY <1>2, <2>1
  <2> QED BY <2>1, <2>2 DEF Unhandled
<1> QED BY <1>3, <1>4

(* An event that tasks are changed for waits until they are. *)
LEMMA EventsWait ==
  ASSUME Ground, Outside, NEW ev, ev.type \in Goes \cup {"board.deleted"}, Unhandled(ev)
  PROVE  Unhandled(ev)'
<1>1. inbox \in Seq(EventRecord) /\ HandlerOK
  BY DEF Ground, BoardsInv, BoardOK, Basics
<1>2. PICK i \in 1..Len(inbox) : inbox[i] = ev /\ ~(i = 1 /\ handling = "done")
  BY DEF Unhandled
<1>3. CASE ServesBoard
  <2>1. CASE UNCHANGED inbox BY <1>3, <2>1 DEF ServesBoard, Unhandled
  <2>2. CASE \E type \in EventType, cols \in SUBSET Column : Tell(type, cols)
    <3>1. PICK new \in EventRecord : inbox' = Append(inbox, new)
      BY <2>2 DEF Tell, BoardEvent, EventRecord
    <3> QED BY <1>3, <3>1, EventAdded DEF ServesBoard
  <2> QED BY <1>3, <2>1, <2>2, InboxGrows DEF ServesBoard, Ground, EventType
<1>4. CASE Leaves
  <2>1. UNCHANGED handling /\ \E new \in EventRecord : inbox' = Append(inbox, new)
    BY <1>4, LeavesGives
  <2> QED BY <2>1, EventAdded
<1>5. CASE \E u \in User : CacheExpires(u)
  BY <1>5 DEF CacheExpires, handlerVars, Unhandled
<1>6. CASE Deliver \/ HandlerFails
  <2>1. UNCHANGED inbox /\ handling' = "first"
    BY <1>6 DEF Deliver, HandlerFails
  <2> QED BY <1>2, <2>1 DEF Unhandled
<1>7. CASE Upserts
  <2>1. UNCHANGED inbox /\ inbox[1].type \in {"board.created", "column.created"}
    BY <1>7 DEF Upserts, UpsertKnownBoard, UpsertInitialColumn, HandleColumnUpserted, Handles,
       Message, OnlyHandled
  <2>2. i # 1 BY <1>2, <2>1 DEF Goes
  <2> QED BY <1>2, <2>1, <2>2 DEF Unhandled
<1>8. CASE Acknowledge
  <2>1. handling = "done" /\ handling' = "idle" /\ inbox' = Tail(inbox) /\ inbox # << >>
    BY <1>1, <1>8 DEF Acknowledge, HandlerOK
  <2>2. i # 1 BY <1>2, <2>1
  <2>3. i - 1 \in 1..Len(inbox') /\ inbox'[i - 1] = inbox[i]
    <3>1. /\ Len(inbox') = Len(inbox) - 1
          /\ \A j \in 1..Len(inbox') : inbox'[j] = inbox[j + 1]
      BY <1>1, <2>1, TailTyped
    <3>2. Len(inbox) \in Nat BY <1>1
    <3> QED BY <2>2, <3>1, <3>2
  <2> QED BY <1>2, <2>1, <2>3 DEF Unhandled
<1> QED BY <1>3, <1>4, <1>5, <1>6, <1>7, <1>8 DEF Outside

(* The deletion of the board is told, by an event of its own. *)
LEMMA DeletionIsTold ==
  ASSUME Ground, ServesBoard, board' = "deleted",
         board = "deleted" => Telling \/ DeletionDue
  PROVE  Telling' \/ DeletionDue'
<1>1. DeletionDue => DeletionDue'
  BY EventsWait DEF DeletionDue, Outside
<1>2. ASSUME UNCHANGED <<board, untold, order>> PROVE Telling' \/ DeletionDue'
  BY <1>1, <1>2 DEF Telling
<1>3. CASE EditTypes
  BY <1>2, <1>3 DEF EditTypes, AskType, AskEdit, GetBoardType, CreateBoardType, UpdateBoardType,
     DeleteBoardType, Rollback, Write, boardRow
<1>4. order \in [Client -> OrderRecord] BY DEF Ground, BoardsInv, OrdersOK
<1>5. ASSUME UNCHANGED <<board, untold>>,
             \A q \in Client : order[q].step = "tell" /\ order[q].op = "board.deleted" =>
                                 order'[q].step = "tell" /\ order'[q].op = "board.deleted"
      PROVE  Telling' \/ DeletionDue'
  BY <1>1, <1>5 DEF Telling
<1>6. CASE KeepTypes
  <2>1. PICK i \in Replica : HandleBoardTypeChanged(i) \/ TypeExpires(i)
    BY <1>6 DEF KeepTypes
  <2>2. CASE HandleBoardTypeChanged(i)
    <3>1. /\ UNCHANGED <<board, untold>>
          /\ order' = [q \in Client |-> [order[q] EXCEPT !.old = @ \/ Fetching(q)]]
      BY <2>2 DEF HandleBoardTypeChanged, OnlyCached, boardRow
    <3>2. \A q \in Client : order'[q].step = order[q].step /\ order'[q].op = order[q].op
      BY <1>4, <3>1 DEF OrderRecord
    <3> QED BY <1>5, <3>1, <3>2
  <2>3. CASE TypeExpires(i)
    BY <1>2, <2>3 DEF TypeExpires, OnlyCached, boardRow
  <2> QED BY <2>1, <2>2, <2>3
<1>7. CASE ServeBoard
  <2>1. PICK q \in Client :
          \/ AskCreateBoard(q) \/ AskCreateColumn(q) \/ AskUpdateBoard(q) \/ AskDeleteBoard(q)
          \/ GetType(q) \/ FetchType(q) \/ StoreType(q)
          \/ CreateBoard(q) \/ GetBoard(q) \/ CreateColumn(q) \/ UpdateBoard(q)
          \/ DeleteBoard(q) \/ InsertOutboxEvent(q)
    BY <1>7 DEF ServeBoard
  <2>2. ASSUME \E o : order' = [order EXCEPT ![q] = o], UNCHANGED <<board, untold>>,
               order[q].step # "tell" \/ order[q].op # "board.deleted"
        PROVE  Telling' \/ DeletionDue'
    <3>1. \A p \in Client \ {q} : order'[p] = order[p] BY <1>4, <2>2
    <3> QED BY <1>5, <2>2, <3>1
  <2>3. CASE AskCreateBoard(q) \/ AskCreateColumn(q) \/ AskUpdateBoard(q) \/ AskDeleteBoard(q)
    <3>1. PICK o : AskBoard(q, o)
      BY <2>3 DEF AskCreateBoard, AskCreateColumn, AskUpdateBoard, AskDeleteBoard
    <3> QED BY <2>2, <3>1 DEF AskBoard, boardRow
  <2>4. CASE GetType(q) \/ FetchType(q) \/ StoreType(q) \/ GetBoard(q)
    BY <2>2, <2>4 DEF GetType, FetchType, StoreType, GetBoard, OnlyOrdered, boardRow, Step,
       Fetching
  <2>5. CASE CreateColumn(q) BY <2>2, <2>5 DEF CreateColumn, Step, Writes
  <2>6. CASE CreateBoard(q)
    <3>1. UNCHANGED board \/ board' = "live" BY <2>6 DEF CreateBoard
    <3> QED BY <2>2, <2>6, <3>1 DEF CreateBoard, Step
  <2>7. CASE UpdateBoard(q) BY <2>2, <2>7 DEF UpdateBoard, Step, Writes
  <2>8. CASE DeleteBoard(q)
    <3>1. CASE board = "live"
      <4>1. order' = [order EXCEPT ![q] = [order[q] EXCEPT !.step = "tell"]]
            /\ order[q].op = "board.deleted"
        BY <2>8, <3>1 DEF DeleteBoard, Step, Writes
      <4>2. order'[q].step = "tell" /\ order'[q].op = "board.deleted"
        BY <1>4, <4>1 DEF OrderRecord
      <4> QED BY <4>2 DEF Telling
    <3>2. CASE board # "live"
      BY <2>2, <2>8, <3>2 DEF DeleteBoard, Step, Writes
    <3> QED BY <3>1, <3>2
  <2>9. CASE InsertOutboxEvent(q)
    <3>1. CASE order[q].op # "board.deleted"
      <4>1. UNCHANGED board /\ untold \subseteq untold' /\ \E o : order' = [order EXCEPT ![q] = o]
        BY <2>9 DEF InsertOutboxEvent, Step
      <4>2. \A p \in Client \ {q} : order'[p] = order[p] BY <1>4, <4>1
      <4> QED BY <1>1, <3>1, <4>1, <4>2 DEF Telling
    <3>2. CASE order[q].op = "board.deleted"
      <4>1. CASE Tell("board.deleted", {})
        <5>1. PICK new \in EventRecord : inbox' = Append(inbox, new) /\ new.type = "board.deleted"
          BY <4>1 DEF Tell, BoardEvent, EventRecord, EventType
        <5>2. Unhandled(new)' BY <5>1, EventAdded DEF ServesBoard
        <5> QED BY <5>1, <5>2 DEF DeletionDue
      <4>2. CASE untold' = untold \cup {order[q].op} BY <3>2, <4>2 DEF Telling
      <4> QED BY <2>9, <3>2, <4>1, <4>2 DEF InsertOutboxEvent
    <3> QED BY <3>1, <3>2
  <2> QED BY <2>1, <2>3, <2>4, <2>5, <2>6, <2>7, <2>8, <2>9
<1> QED BY <1>3, <1>6, <1>7 DEF ServesBoard, BoardsNext

LEMMA PendingStays ==
  ASSUME Ground, Outside, NEW u
  PROVE  /\ Pending(u) => Pending(u)'
         /\ DeletionDue => DeletionDue'
  BY EventsWait DEF Pending, DeletionDue

LEMMA DepartOutside == ASSUME Ground, DepartInv, Outside PROVE DepartInv'
<1> USE DEF DepartInv
<1>1. UNCHANGED <<task, pc, call, stale, excused>>
  BY OutsideGives DEF requestVars, history
<1>2. /\ known' = "deleted" <=> known = "deleted"
      /\ handling' = "tasks" => handling = "tasks"
  BY LeavesGives DEF Outside, ServesBoard, CacheExpires, Deliver, HandlerFails, Acknowledge,
     Upserts, UpsertKnownBoard, UpsertInitialColumn, HandleColumnUpserted, OnlyHandled, handlerVars
<1>3. \A u \in User \cup {None} : u \in member => u \in member' \/ Pending(u)'
  <2>1. CASE Leaves
    <3>1. PICK ev \in EventRecord :
            /\ inbox' = Append(inbox, ev)
            /\ \/ member' = member
               \/ ev.type \in Goes /\ member' = member \ {ev.about}
      BY <2>1, LeavesGives DEF Goes
    <3>2. Unhandled(ev)' BY <2>1, <3>1, LeavesGives, EventAdded
    <3> QED BY <3>1, <3>2 DEF Pending
  <2>2. CASE ~Leaves
    <3>1. member' = member
      BY <2>2 DEF Outside, ServesBoard, CacheExpires, Deliver, HandlerFails, Acknowledge, Upserts,
         UpsertKnownBoard, UpsertInitialColumn, HandleColumnUpserted, OnlyHandled, sourceVars
    <3> QED BY <3>1
  <2> QED BY <2>1, <2>2
<1>4. Live' = Live /\ \A t \in Live : task[t].who \in User \cup {None}
  BY <1>1, RowTyped DEF Live, Ground, Basics
<1>5. AssigneesKnown'
  <2> SUFFICES ASSUME NEW t \in Live \ excused
               PROVE  task[t].who \in {None} \cup member' \/ Pending(task[t].who)'
    BY <1>1, <1>4 DEF AssigneesKnown, Pending, Unhandled
  <2>1. PICK u \in User \cup {None} : u = task[t].who BY <1>4
  <2>2. u \in {None} \cup member \/ Pending(u) BY <2>1 DEF AssigneesKnown
  <2>3. u \in {None} \cup member' \/ Pending(u)' BY <1>3, <2>2, PendingStays
  <2> QED BY <1>1, <2>1, <2>3 DEF Pending
<1>6. GivenKnown'
  <2> SUFFICES ASSUME NEW r \in Request, Gives(r)
               PROVE  call[r].who \in {None} \cup member' \/ Pending(call[r].who)'
    BY <1>1 DEF GivenKnown, Gives, Busy, Pending, Unhandled
  <2>1. PICK u \in User \cup {None} : u = call[r].who
    BY DEF Ground, Basics, RequestsOK, CallRecord
  <2>2. u \in {None} \cup member \/ Pending(u) BY <2>1 DEF GivenKnown
  <2>3. u \in {None} \cup member' \/ Pending(u)' BY <1>3, <2>2, PendingStays
  <2> QED BY <1>1, <2>1, <2>3 DEF Pending
<1>7. DeletionTold'
  <2>1. DeletionDue => DeletionDue' BY PendingStays
  <2>2. CASE ServesBoard BY <1>2, <2>2, DeletionIsTold DEF DeletionTold
  <2>3. CASE ~ServesBoard
    <3>1. UNCHANGED <<board, untold, order>>
      BY <2>3, LeavesGives DEF Outside, CacheExpires, Deliver, HandlerFails, Acknowledge, Upserts,
         UpsertKnownBoard, UpsertInitialColumn, HandleColumnUpserted, OnlyHandled, sourceVars,
         boardVars, boardRow
    <3> QED BY <1>2, <2>1, <3>1 DEF DeletionTold, Telling
  <2> QED BY <2>2, <2>3
<1>8. TasksSwept' BY <1>1, <1>2, <1>4, PendingStays DEF TasksSwept
<1>9. NoneCreated' BY <1>1, <1>2 DEF NoneCreated
<1> QED BY <1>2, <1>5, <1>6, <1>7, <1>8, <1>9

LEMMA DepartSweeps == ASSUME Ground, DepartInv, Sweeps PROVE DepartInv'
<1> USE DEF DepartInv
<1>1. /\ UNCHANGED <<boardVars, member, inbox, pc, call, excused>>
      /\ stale' = [r \in Request |-> Busy(r)] /\ handling' \in {"tasks", "done"}
      /\ Live' \subseteq Live
  BY SweepsGive
<1>2. UNCHANGED <<board, untold, order>> BY <1>1 DEF boardVars, boardRow
<1>3. known = "deleted" => known' = "deleted"
  BY DEF Sweeps, MarkBoardDeleted, SoftDeleteTasks, HandleUserDeleted, HandleMemberRemoved
<1>4. handling' = "tasks" => known' = "deleted"
  BY DEF Sweeps, MarkBoardDeleted, SoftDeleteTasks, HandleUserDeleted, HandleMemberRemoved
<1>5. GivenKnown' BY <1>1 DEF GivenKnown, Gives, Busy
<1>6. NoneCreated'
  <2> SUFFICES ASSUME NEW r \in Request, call[r].op = "create" PROVE Busy(r)
    BY <1>1 DEF NoneCreated
  <2> QED BY DEF Busy, Ground, Basics, Placed, NoCall
<1>7. ASSUME NEW ev, Unhandled(ev), ev # inbox[1] PROVE Unhandled(ev)'
  BY <1>1, <1>7 DEF Unhandled
<1>8. \A t \in Live' \ excused' : t \in Live \ excused /\ task'[t].who \in {None, task[t].who}
  BY <1>1, SweepsGive DEF Live
<1>9. ASSUME NEW t \in Live' \ excused', task'[t].who \notin {None} \cup member
      PROVE  task'[t].who = task[t].who /\ Pending(task'[t].who)
  BY <1>8, <1>9 DEF AssigneesKnown
<1>10. CASE MarkBoardDeleted
  <2>1. /\ handling' = "tasks" /\ known' = "deleted" /\ inbox[1].type = "board.deleted"
        /\ UNCHANGED <<task, inbox>> /\ handling = "first"
    BY <1>10 DEF MarkBoardDeleted, Handles, Message, OnlyHandled
  <2>2. \A ev : Unhandled(ev) => Unhandled(ev)' BY <2>1 DEF Unhandled
  <2>3. AssigneesKnown' BY <1>1, <1>9, <2>2 DEF AssigneesKnown, Pending
  <2>4. DeletionDue'
    <3>1. inbox \in Seq(EventRecord) /\ inbox # << >>
      BY <2>1 DEF Ground, BoardsInv, BoardOK, Basics, HandlerOK
    <3>2. 1 \in 1..Len(inbox) /\ inbox[1] \in EventRecord BY <3>1
    <3>3. Unhandled(inbox[1])' BY <2>1, <3>2 DEF Unhandled
    <3> QED BY <2>1, <3>2, <3>3 DEF DeletionDue
  <2> QED BY <1>4, <1>5, <1>6, <2>1, <2>3, <2>4 DEF DeletionTold, TasksSwept
<1>11. CASE SoftDeleteTasks
  <2>1. Live' = {}
    BY <1>11 DEF SoftDeleteTasks, Live, Ground, Basics, TasksOK, Row
  <2>2. AssigneesKnown' /\ TasksSwept' BY <2>1 DEF AssigneesKnown, TasksSwept
  <2>3. DeletionTold'
    <3>1. known' = known BY <1>11 DEF SoftDeleteTasks
    <3>2. CASE handling = "tasks" BY <3>1, <3>2 DEF DeletionTold
    <3>3. CASE handling # "tasks"
      <4>1. inbox[1].type = "project.deleted"
        BY <1>11, <3>3 DEF SoftDeleteTasks, Handles, Message
      <4>2. DeletionDue => DeletionDue' BY <1>7, <4>1 DEF DeletionDue
      <4> QED BY <1>2, <3>1, <4>2 DEF DeletionTold, Telling
    <3> QED BY <3>2, <3>3
  <2> QED BY <1>4, <1>5, <1>6, <2>2, <2>3
<1>12. CASE HandleUserDeleted \/ HandleMemberRemoved
  <2>1. /\ inbox[1].type \in Goes /\ known' = known
        /\ Unassign(AssignedTo(inbox[1].about))
    BY <1>12 DEF HandleUserDeleted, HandleMemberRemoved, Handles, Message, Goes
  <2>2. DeletionDue => DeletionDue' BY <1>7, <2>1 DEF DeletionDue, Goes
  <2>3. \A t \in Live' : task'[t].who # inbox[1].about \/ task'[t].who = None
    <3> SUFFICES ASSUME NEW t \in Live', task'[t].who = inbox[1].about PROVE task'[t].who = None
      OBVIOUS
    <3>1. t \in Live /\ t \in Task BY <1>1 DEF Live
    <3>2. task'[t] = IF t \in AssignedTo(inbox[1].about) THEN [task[t] EXCEPT !.who = None]
                     ELSE task[t]
      BY <2>1, <3>1 DEF Unassign
    <3>3. task[t] \in Row BY <3>1 DEF Ground, Basics, TasksOK
    <3>4. CASE t \in AssignedTo(inbox[1].about)
      <4>1. task'[t] = [task[t] EXCEPT !.who = None] BY <3>2, <3>4
      <4> QED BY <3>3, <4>1 DEF Row
    <3>5. CASE t \notin AssignedTo(inbox[1].about)
      <4>1. task'[t] = task[t] BY <3>2, <3>5
      <4> QED BY <3>1, <3>5, <4>1 DEF AssignedTo
    <3> QED BY <3>4, <3>5
  <2>4. AssigneesKnown'
    <3> SUFFICES ASSUME NEW t \in Live' \ excused', task'[t].who \notin {None} \cup member
                 PROVE  \E ev \in EventRecord : /\ Unhandled(ev)' /\ ev.type \in Goes
                                                /\ ev.about = task'[t].who
      BY <1>1 DEF AssigneesKnown, Pending
    <3>1. task'[t].who = task[t].who /\ Pending(task'[t].who) BY <1>9
    <3>2. PICK ev \in EventRecord :
            Unhandled(ev) /\ ev.type \in Goes /\ ev.about = task'[t].who
      BY <3>1 DEF Pending
    <3>3. ev # inbox[1] BY <2>3, <3>2
    <3>4. Unhandled(ev)' BY <1>7, <3>2, <3>3
    <3> QED BY <3>2, <3>4
  <2>5. TasksSwept' BY <1>1, <2>1, <2>2 DEF TasksSwept
  <2>6. DeletionTold' BY <1>2, <2>1, <2>2 DEF DeletionTold, Telling
  <2> QED BY <1>4, <1>5, <1>6, <2>4, <2>5, <2>6
<1> QED BY <1>10, <1>11, <1>12 DEF Sweeps

(* What a request's step leaves alone *)
LEMMA OthersAre ==
  ASSUME Ground, NEW r \in Request, AskSome(r) \/ ReadSome(r) \/ WriteSome(r)
  PROVE  /\ UNCHANGED <<boardVars, member, inbox, handling, known, kcolumns>>
         /\ Others(r)
         /\ \A s \in Request \ {r} : stale[s] => stale'[s]
         /\ ~AskSome(r) /\ pc'[r] # "idle" => (stale[r] => stale'[r])
<1> USE DEF Ground
<1>1. stale \in [Request -> BOOLEAN] /\ RequestsOK BY DEF Basics, RequestsOK
<1>2. ASSUME NEW label \in Label, NEW c \in CallRecord,
             Keep(r, label, c) \/ Goto(r, label)
      PROVE  Others(r)
  BY <1>1, <1>2, KeepGives, GotoGives
<1>3. "idle" \in Label /\ "tell" \in Label /\ NoCall \in CallRecord BY NoCallTyped DEF Label
<1>4. CASE AskSome(r)
  <2>1. PICK c : WellAsked(c) /\ Ask(r, c) BY <1>4, AskGives
  <2>2. Others(r) BY <1>2, <2>1 DEF Ask, WellAsked, Label
  <2>3. /\ UNCHANGED <<boardVars, member, inbox, handling, known, kcolumns>>
        /\ \A s \in Request \ {r} : stale[s] => stale'[s]
    BY <1>1, <2>1 DEF Ask, sourceVars, handlerVars
  <2> QED BY <1>4, <2>2, <2>3
<1>5. CASE ReadSome(r)
  <2>1. UNCHANGED <<boardVars, member, inbox, handling, known, kcolumns>>
    BY <1>5, ReadGives DEF sourceVars, handlerVars
  <2>2. Others(r) BY <1>2, <1>3, <1>5, ReadGives
  <2>3. \A s \in Request : stale[s] => stale'[s]
    BY <1>1, <1>5 DEF ReadSome, GetKnownBoard, GetLastPosition, GetTask, GetPositionForRefs,
       GetPermissions
  <2> QED BY <2>1, <2>2, <2>3
<1>6. CASE WriteSome(r)
  <2>1. OnlyWritten /\ (Goto(r, "idle") \/ Goto(r, "tell"))
    BY <1>6 DEF WriteSome, CreateTask, MoveTask, AssignTask, DeleteTask, WriteTask, TellUpdate,
       RequestFails
  <2>2. UNCHANGED <<boardVars, member, inbox, handling, known, kcolumns>>
    BY <2>1 DEF OnlyWritten, sourceVars, handlerVars
  <2>3. Others(r) BY <1>2, <1>3, <2>1
  <2>4. \A s \in Request \ {r} : stale[s] => stale'[s]
    BY <1>1, <1>6 DEF WriteSome, CreateTask, MoveTask, AssignTask, DeleteTask, WriteTask, TellUpdate,
       RequestFails, Touch
  <2>5. pc'[r] # "idle" => (stale[r] => stale'[r])
    <3>1. CASE Goto(r, "idle") BY <1>1, <1>3, <3>1, GotoGives
    <3>2. CASE ~Goto(r, "idle")
      <4>1. UNCHANGED stale \/ stale' = [s \in Request |-> stale[s] \/ (s # r /\ call[s].task = call[r].task)]
        BY <1>6, <3>2 DEF WriteSome, CreateTask, MoveTask, AssignTask, DeleteTask, WriteTask, TellUpdate,
           RequestFails
      <4> QED BY <1>1, <4>1
    <3> QED BY <3>1, <3>2
  <2> QED BY <2>2, <2>3, <2>4, <2>5
<1> QED BY <1>4, <1>5, <1>6

(* Where a request goes that has read *)
LEMMA ReadsTo ==
  ASSUME Ground, NEW r \in Request, ReadSome(r), pc'[r] # "idle"
  PROVE  /\ call[r].op = call'[r].op /\ call[r].who = call'[r].who
         /\ call[r].task = call'[r].task /\ call[r].col = call'[r].col
         /\ call[r].before = call'[r].before /\ call[r].after = call'[r].after
         /\ pc[r] # "idle" /\ pc'[r] # "board" /\ pc'[r] # "tell"
<1>1. ~Goto(r, "idle")
  <2>1. "idle" \in Label BY DEF Label
  <2> QED BY <2>1, GotoGives DEF Ground, Basics
<1>2. PICK label \in Label \ {"idle"}, c \in CallRecord :
        /\ Keep(r, label, c) \/ (Goto(r, label) /\ c = call[r])
        /\ label \in {"last", "refs", "member", "write", "commit"}
        /\ c.op = call[r].op /\ c.task = call[r].task /\ c.col = call[r].col
        /\ c.who = call[r].who /\ c.before = call[r].before /\ c.after = call[r].after
  BY <1>1, ReadGives DEF Ground
<1>3. pc'[r] = label /\ call'[r] = c
  BY <1>2, KeepGives, GotoGives DEF Ground, Basics
<1>4. pc[r] # "idle"
  BY DEF ReadSome, GetKnownBoard, GetLastPosition, GetTask, GetPositionForRefs, GetPermissions
<1> QED BY <1>2, <1>3, <1>4

LEMMA WritesTo ==
  ASSUME Ground, NEW r \in Request, WriteSome(r), pc'[r] # "idle"
  PROVE  /\ pc'[r] = "tell" /\ call'[r] = call[r] /\ call[r].op = "update" /\ pc[r] = "write"
         /\ WriteTask(r)
<1>1. ~Goto(r, "idle")
  <2>1. "idle" \in Label BY DEF Label
  <2> QED BY <2>1, GotoGives DEF Ground, Basics
<1>2. WriteTask(r) /\ Goto(r, "tell")
  BY <1>1 DEF WriteSome, CreateTask, MoveTask, AssignTask, DeleteTask, WriteTask, TellUpdate,
     RequestFails
<1>3. pc[r] = "write" /\ call[r].op = "update" BY <1>2 DEF WriteTask, Ground, Basics, Placed
<1> QED BY <1>2, <1>3, GotoGives DEF Ground, Basics, Label

(* The tasks after a write: as before, or written by a request that was    *)
(* not stale.                                                              *)
LEMMA TasksWritten ==
  ASSUME Ground, NEW r \in Request, WriteSome(r), NEW t \in Live' \ excused'
  PROVE  \/ t \in Live \ excused /\ task'[t].who = task[t].who
         \/ /\ ~stale[r] /\ pc[r] = "commit" /\ task'[t].who = call[r].who
            /\ t \notin excused
            /\ (call[r].op = "assign" /\ t \in Live) \/ call[r].op = "create"
<1>1. excused \subseteq excused'
  BY DEF WriteSome, CreateTask, MoveTask, AssignTask, DeleteTask, WriteTask, TellUpdate,
     RequestFails, Excuse, history
<1>2. t \in Task /\ task'[t].st = "live" BY DEF Live
<1>3. ASSUME task'[t] = task[t] PROVE t \in Live \ excused /\ task'[t].who = task[t].who
  BY <1>1, <1>2, <1>3 DEF Live
<1>4. CASE NoRow(r) \/ RequestFails(r) \/ TellUpdate(r)
  BY <1>3, <1>4, TellGives DEF NoRow, RequestFails
<1>5. CASE CreateTask(r)
  <2>1. CASE t # call[r].task BY <1>2, <1>3, <1>5, <2>1, CreateGives
  <2>2. CASE t = call[r].task
    <3>1. ~stale[r] BY <1>5, <2>2, CreateGives DEF Excuse
    <3>2. pc[r] = "commit" /\ call[r].op = "create" BY <1>5 DEF CreateTask
    <3> QED BY <1>1, <1>5, <2>2, <3>1, <3>2, CreateGives
  <2> QED BY <2>1, <2>2
<1>6. ASSUME RowWritten(r), task'[call[r].task].who = task[call[r].task].who
      PROVE  t \in Live \ excused /\ task'[t].who = task[t].who
  <2>1. CASE t # call[r].task BY <1>2, <1>3, <1>6, <2>1 DEF RowWritten
  <2>2. CASE t = call[r].task BY <1>1, <1>6, <2>2 DEF RowWritten
  <2> QED BY <2>1, <2>2
<1>7. CASE MoveTask(r) /\ ~NoRow(r) BY <1>6, <1>7, MoveGives
<1>8. CASE WriteTask(r) /\ ~NoRow(r) BY <1>6, <1>8, WriteGives
<1>9. CASE DeleteTask(r)
  <2>1. t # call[r].task BY <1>2, <1>9, DeleteGives
  <2> QED BY <1>2, <1>3, <1>9, <2>1, DeleteGives
<1>10. CASE AssignTask(r) /\ ~NoRow(r)
  <2>1. RowWritten(r) /\ task'[call[r].task].who = call[r].who /\ Excuse(r, call[r].task)
    BY <1>10, AssignGives
  <2>2. CASE t # call[r].task BY <1>2, <1>3, <2>1, <2>2 DEF RowWritten
  <2>3. CASE t = call[r].task
    <3>1. ~stale[r] BY <2>1, <2>3 DEF Excuse
    <3>2. pc[r] = "commit" /\ call[r].op = "assign" BY <1>10 DEF AssignTask
    <3>3. t \in Live BY <2>1, <2>3 DEF RowWritten
    <3> QED BY <1>1, <2>1, <2>3, <3>1, <3>2, <3>3
  <2> QED BY <2>2, <2>3
<1> QED BY <1>4, <1>5, <1>7, <1>8, <1>9, <1>10 DEF WriteSome

LEMMA ReadIsNot == ASSUME Ground, NEW r \in Request, ReadSome(r) PROVE ~AskSome(r)
<1>1. pc[r] # "idle"
  BY DEF ReadSome, GetKnownBoard, GetLastPosition, GetTask, GetPositionForRefs, GetPermissions
<1>2. ASSUME AskSome(r) PROVE FALSE
  <2>1. \E c : Ask(r, c) BY <1>2, AskGives DEF Ground
  <2> QED BY <1>1, <2>1 DEF Ask, Busy
<1> QED BY <1>2

LEMMA GivesNew ==
  ASSUME Ground, DepartInv, NEW r \in Request, AskSome(r) \/ ReadSome(r) \/ WriteSome(r),
         Gives(r)'
  PROVE  call'[r].who \in {None} \cup member \/ Pending(call'[r].who)
<1>1. pc'[r] # "idle" /\ ~stale'[r]
      /\ (call'[r].op = "create" \/ (call'[r].op = "assign" /\ pc'[r] = "commit"))
  BY DEF Gives, Busy
<1>2. CASE AskSome(r)
  <2>1. PICK c : WellAsked(c) /\ Ask(r, c) BY <1>2, AskGives DEF Ground
  <2>2. PICK label \in Label : /\ Keep(r, label, c) /\ label # "commit"
    BY <2>1 DEF Ask, Label
  <2>3. pc'[r] = label /\ call'[r] = c
    BY <2>1, <2>2, KeepGives DEF WellAsked, Ground, Basics
  <2>4. c.op = "create" BY <1>1, <2>2, <2>3
  <2> QED BY <2>1, <2>3, <2>4 DEF WellAsked
<1>3. CASE ReadSome(r)
  <2>1. call[r].op = call'[r].op /\ call[r].who = call'[r].who /\ pc[r] # "idle" /\ ~stale[r]
    BY <1>1, <1>3, ReadsTo, OthersAre, ReadIsNot
  <2>2. CASE Gives(r) BY <2>1, <2>2 DEF DepartInv, GivenKnown
  <2>3. CASE ~Gives(r)
    <3>1. call[r].op = "assign" /\ pc'[r] = "commit" /\ pc[r] # "commit"
      BY <1>1, <2>1, <2>3 DEF Gives, Busy
    <3>2. pc[r] \in {"read", "member"}
      BY <1>3, <3>1 DEF ReadSome, GetKnownBoard, GetLastPosition, GetTask, GetPositionForRefs,
         GetPermissions, Ground, Basics, Placed
    <3>3. CASE pc[r] = "read"
      <4>1. GetTask(r)
        BY <1>3, <3>3 DEF ReadSome, GetKnownBoard, GetLastPosition, GetTask, GetPositionForRefs,
           GetPermissions
      <4>2. CASE call[r].who = None BY <2>1, <4>2
      <4>3. CASE call[r].who # None
        <5>1. Goto(r, "idle") \/ \E c : Keep(r, "member", c)
          BY <3>1, <4>1, <4>3 DEF GetTask
        <5>2. pc'[r] # "commit"
          BY <5>1 DEF Goto, Keep, Ground, Basics, RequestsOK
        <5> QED BY <3>1, <5>2
      <4> QED BY <4>2, <4>3
    <3>4. CASE pc[r] = "member"
      <4>1. GetPermissions(r)
        BY <1>3, <3>4 DEF ReadSome, GetKnownBoard, GetLastPosition, GetTask, GetPositionForRefs,
           GetPermissions
      <4>2. stale' = [stale EXCEPT ![r] = @ \/ call[r].who \notin member]
        BY <4>1 DEF GetPermissions
      <4>3. call[r].who \in member BY <1>1, <4>2 DEF Ground, Basics, RequestsOK
      <4> QED BY <2>1, <4>3
    <3> QED BY <3>2, <3>3, <3>4
  <2> QED BY <2>2, <2>3
<1>4. CASE WriteSome(r)
  BY <1>1, <1>4, WritesTo
<1> QED BY <1>2, <1>3, <1>4

LEMMA DepartRequests ==
  ASSUME Ground, DepartInv, NEW r \in Request, AskSome(r) \/ ReadSome(r) \/ WriteSome(r)
  PROVE  DepartInv'
<1>1. /\ UNCHANGED <<boardVars, member, inbox, handling, known>>
      /\ Others(r) /\ \A s \in Request \ {r} : stale[s] => stale'[s]
  BY OthersAre
<1>2. UNCHANGED <<board, untold, order>> BY <1>1 DEF boardVars, boardRow
<1>3. /\ DeletionDue' <=> DeletionDue
      /\ \A u : (\E ev \in EventRecord : Unhandled(ev)' /\ ev.type \in Goes /\ ev.about = u)
                  <=> Pending(u)
  BY <1>1 DEF Pending, DeletionDue, Unhandled
<1>4. DeletionTold' BY <1>1, <1>2, <1>3 DEF DepartInv, DeletionTold, Telling
<1>5. GivenKnown'
  <2> SUFFICES ASSUME NEW s \in Request, Gives(s)'
               PROVE  call'[s].who \in {None} \cup member \/ Pending(call'[s].who)
    BY <1>1, <1>3 DEF GivenKnown, Pending
  <2>1. CASE s = r BY <2>1, GivesNew
  <2>2. CASE s # r
    <3>1. call'[s] = call[s] /\ Gives(s) BY <1>1, <2>2 DEF Others, Gives, Busy
    <3> QED BY <3>1 DEF DepartInv, GivenKnown
  <2> QED BY <2>1, <2>2
<1>6. CASE AskSome(r) \/ ReadSome(r)
  <2>1. UNCHANGED <<task, excused>>
    <3>1. CASE AskSome(r)
      <4>1. \E c : Ask(r, c) BY <3>1, AskGives DEF Ground
      <4> QED BY <4>1 DEF Ask, history
    <3>2. CASE ReadSome(r) BY <3>2, ReadGives DEF Ground, history
    <3> QED BY <1>6, <3>1, <3>2
  <2>2. Live' = Live BY <2>1 DEF Live
  <2>3. AssigneesKnown'
    <3> SUFFICES ASSUME NEW t \in Live \ excused
                 PROVE  task[t].who \in {None} \cup member \/ Pending(task[t].who)
      BY <1>1, <1>3, <2>1, <2>2 DEF AssigneesKnown, Pending
    <3> QED BY DEF DepartInv, AssigneesKnown
  <2>4. TasksSwept' BY <1>1, <1>3, <2>1, <2>2 DEF DepartInv, TasksSwept
  <2>5. NoneCreated'
    <3> SUFFICES ASSUME known = "deleted", NEW s \in Request, call'[s].op = "create",
                        pc'[s] # "board"
                 PROVE  stale'[s]
      BY <1>1 DEF NoneCreated
    <3>1. CASE s # r BY <1>1, <3>1 DEF Others, DepartInv, NoneCreated
    <3>2. CASE s = r /\ AskSome(r)
      <4>1. PICK c : WellAsked(c) /\ Ask(r, c) BY <3>2, AskGives DEF Ground
      <4>2. PICK label \in Label : /\ Keep(r, label, c) /\ (c.op = "create" => label = "board")
        BY <4>1 DEF Ask, Label
      <4>3. pc'[r] = label /\ call'[r] = c
        BY <4>1, <4>2, KeepGives DEF WellAsked, Ground, Basics
      <4> QED BY <3>2, <4>2, <4>3
    <3>3. CASE s = r /\ ReadSome(r)
      <4>1. pc'[r] # "idle"
        <5>1. Placed(r)' BY <1>6, AskGround, ReadGround DEF Ground, Basics
        <5> QED BY <3>3, <5>1 DEF Placed, NoCall
      <4>2. call[r].op = "create" BY <3>3, <4>1, ReadsTo
      <4>3. CASE pc[r] = "board"
        <5>1. GetKnownBoard(r)
          BY <3>3, <4>3 DEF ReadSome, GetKnownBoard, GetLastPosition, GetTask, GetPositionForRefs,
             GetPermissions
        <5>2. Goto(r, "idle") BY <5>1 DEF GetKnownBoard
        <5>3. pc'[r] = "idle" BY <5>2 DEF Goto, Ground, Basics, RequestsOK
        <5> QED BY <4>1, <5>3
      <4>4. CASE pc[r] # "board"
        <5>1. stale[r] BY <4>2, <4>4 DEF DepartInv, NoneCreated
        <5> QED BY <3>3, <4>1, <5>1, OthersAre, ReadIsNot
      <4> QED BY <4>3, <4>4
    <3> QED BY <1>6, <3>1, <3>2, <3>3
  <2> QED BY <1>1, <1>4, <1>5, <2>3, <2>4, <2>5 DEF DepartInv
<1>7. CASE WriteSome(r)
  <2>1. ASSUME NEW t \in Live' \ excused'
        PROVE  /\ task'[t].who \in {None} \cup member \/ Pending(task'[t].who)
               /\ \/ t \in Live \ excused
                  \/ call[r].op = "create" /\ pc[r] = "commit" /\ ~stale[r]
    <3>1. CASE t \in Live \ excused /\ task'[t].who = task[t].who
      <4>1. PICK u : u = task[t].who OBVIOUS
      <4>2. u \in {None} \cup member \/ Pending(u) BY <3>1, <4>1 DEF DepartInv, AssigneesKnown
      <4>3. task'[t].who = u BY <3>1, <4>1
      <4> QED BY <3>1, <4>2, <4>3
    <3>2. CASE ~(t \in Live \ excused /\ task'[t].who = task[t].who)
      <4>1. /\ ~stale[r] /\ pc[r] = "commit" /\ task'[t].who = call[r].who /\ t \notin excused
            /\ (call[r].op = "assign" /\ t \in Live) \/ call[r].op = "create"
        BY <1>7, <3>2, TasksWritten
      <4>2. Gives(r) BY <4>1 DEF Gives, Busy
      <4> QED BY <4>1, <4>2 DEF DepartInv, GivenKnown
    <3> QED BY <3>1, <3>2
  <2>2. AssigneesKnown'
    <3> SUFFICES ASSUME NEW t \in Live' \ excused'
                 PROVE  task'[t].who \in {None} \cup member \/ Pending(task'[t].who)
      BY <1>1, <1>3 DEF AssigneesKnown, Pending
    <3> QED BY <2>1
  <2>3. TasksSwept'
    <3>1. known = "deleted" => Live' \subseteq excused' \/ Live' \ excused' \subseteq Live \ excused
      BY <2>1 DEF DepartInv, NoneCreated
    <3> QED BY <1>1, <1>3, <3>1 DEF DepartInv, TasksSwept
  <2>4. NoneCreated'
    <3> SUFFICES ASSUME known = "deleted", NEW s \in Request, call'[s].op = "create",
                        pc'[s] # "board"
                 PROVE  stale'[s]
      BY <1>1 DEF NoneCreated
    <3>1. CASE s # r BY <1>1, <3>1 DEF Others, DepartInv, NoneCreated
    <3>2. CASE s = r
      <4>1. Placed(r)' BY <1>7, WriteGround DEF Ground, Basics
      <4>2. pc'[r] # "idle" BY <3>2, <4>1 DEF Placed, NoCall
      <4> QED BY <1>7, <3>2, <4>2, WritesTo
    <3> QED BY <3>1, <3>2
  <2> QED BY <1>1, <1>4, <1>5, <2>2, <2>3, <2>4 DEF DepartInv
<1> QED BY <1>6, <1>7

LEMMA DepartStays == ASSUME Ground, DepartInv, [Next]_vars PROVE DepartInv'
<1>1. CASE UNCHANGED vars
  BY <1>1 DEF vars, sourceVars, boardVars, boardRow, handlerVars, requestVars, history, DepartInv,
     AssigneesKnown, GivenKnown, DeletionTold, TasksSwept, NoneCreated, Pending, DeletionDue,
     Unhandled, Telling, Gives, Busy, Live
<1> QED BY <1>1, NextIs, DepartOutside, DepartSweeps, DepartRequests

(* Whoever or whatever is gone leaves nothing behind once its event is     *)
(* handled: a user who is no member any more no task that was not given to *)
(* him on an older answer, a deleted board none but those of requests that *)
(* had begun before.                                                       *)
THEOREM DeparturesAreHandled == Spec => []DeparturesHandled
<1>1. Init => DepartInv
  BY DEF Init, BoardsInit, DepartInv, AssigneesKnown, GivenKnown, DeletionTold, TasksSwept,
     NoneCreated, Live, Nobody, Gives, Busy
<1>2. DepartInv => DeparturesHandled
  <2> SUFFICES ASSUME DepartInv PROVE AssigneesAreMembers /\ DeletedBoardIsEmpty
    BY DEF DeparturesHandled
  <2>1. AssigneesAreMembers
    <3>1. \A u : Pending(u) => \E i \in 1..Len(inbox) : inbox[i].about = u
      BY DEF Pending, Unhandled
    <3> QED BY <3>1 DEF AssigneesAreMembers, DepartInv, AssigneesKnown
  <2>2. DeletedBoardIsEmpty
    <3>1. DeletionDue => \E i \in 1..Len(inbox) : inbox[i].type = "board.deleted"
      BY DEF DeletionDue, Unhandled
    <3> QED BY <3>1 DEF DeletedBoardIsEmpty, DepartInv, DeletionTold, Telling, TasksSwept
  <2> QED BY <2>1, <2>2
<1> QED BY <1>1, <1>2, GroundHolds, DepartStays, PTL DEF Spec

-----------------------------------------------------------------------------
(* What the events tell                                                    *)

(* A request is at its second statement: its row is written, its event not.*)
AtTell(r, t) == pc[r] = "tell" /\ call[r].task = t
Alone(r, t) == \A s \in Request \ {r} : ~AtTell(s, t)

SeenIsCurrent ==
  \A r \in Request :
    ~stale[r] /\ call[r].op \in {"move", "update"} /\ pc[r] \in {"refs", "commit", "write"}
      => call[r].seen = task[call[r].task].status
WrittenIsCurrent ==
  \A r \in Request : ~stale[r] /\ pc[r] = "tell" => task[call[r].task].status = call[r].status
ToldIsSeen ==
  \A r \in Request : \A t \in Live \ excused :
    ~stale[r] /\ AtTell(r, t) /\ <<t, "status">> \notin silent /\ Alone(r, t) =>
      told[t].status = call[r].seen
OneAtTell ==
  \A r, s \in Request : \A t \in Task : AtTell(r, t) /\ AtTell(s, t) /\ r # s => stale[r] \/ stale[s]

TellInv ==
  SeenIsCurrent /\ WrittenIsCurrent /\ ToldIsSeen /\ OneAtTell /\ StatusTold /\ AssigneeTold

(* The status that an event of t has to tell of *)
StatusToldOf(t) ==
  <<t, "status">> \notin silent /\ (\A r \in Request : ~AtTell(r, t)) =>
    told[t].status = task[t].status

LEMMA StatusToldIs == StatusTold <=> \A t \in Live \ excused : StatusToldOf(t)
  BY DEF StatusTold, StatusToldOf, AtTell

LEMMA TellOutside == ASSUME Ground, TellInv, Outside PROVE TellInv'
<1>1. UNCHANGED <<task, pc, call, stale, excused, told, silent>>
  BY OutsideGives DEF requestVars, history
<1>2. Live' = Live BY <1>1 DEF Live
<1>3. SeenIsCurrent' /\ WrittenIsCurrent'
  BY <1>1 DEF TellInv, SeenIsCurrent, WrittenIsCurrent
<1>4. ToldIsSeen' /\ OneAtTell'
  BY <1>1, <1>2 DEF TellInv, ToldIsSeen, OneAtTell, AtTell, Alone
<1>5. StatusTold' /\ AssigneeTold'
  BY <1>1, <1>2 DEF TellInv, StatusTold, AssigneeTold
<1> QED BY <1>3, <1>4, <1>5 DEF TellInv

(* The consumer tells of the assignees it takes away, or says it does not. *)
LEMMA SweepsTell ==
  ASSUME Ground, Sweeps, AssigneeTold
  PROVE  AssigneeTold'
<1>1. /\ task \in [Task -> Row] /\ told \in [Task -> Told] /\ Live \subseteq Task
  BY DEF Ground, Basics, TasksOK, Told, Live
<1>2. Live' \subseteq Live BY SweepsGive
<1>3. CASE MarkBoardDeleted
  <2>1. UNCHANGED <<task, told, silent>> BY <1>3 DEF MarkBoardDeleted
  <2> QED BY <2>1 DEF AssigneeTold, Live
<1>4. CASE SoftDeleteTasks
  <2>1. Live' = {} BY <1>1, <1>4 DEF SoftDeleteTasks, Live, Row
  <2> QED BY <2>1 DEF AssigneeTold
<1>5. ASSUME NEW ts \in SUBSET Live, Unassign(ts), NEW t \in Live'
      PROVE  task'[t].who = IF t \in ts THEN None ELSE task[t].who
  <2>1. t \in Task /\ task[t] \in Row BY <1>1, <1>2
  <2>2. task'[t] = IF t \in ts THEN [task[t] EXCEPT !.who = None] ELSE task[t]
    BY <1>5, <2>1 DEF Unassign
  <2>3. CASE t \in ts
    <3>1. task'[t] = [task[t] EXCEPT !.who = None] BY <2>2, <2>3
    <3> QED BY <2>1, <2>3, <3>1 DEF Row
  <2>4. CASE t \notin ts BY <2>2, <2>4
  <2> QED BY <2>3, <2>4
<1>6. AssignedTo(Message.about) \in SUBSET Live BY DEF AssignedTo
<1>7. CASE HandleUserDeleted
  <2>1. /\ Unassign(AssignedTo(Message.about)) /\ told' = told
        /\ silent' = silent \cup (AssignedTo(Message.about) \X {"who"})
    BY <1>7 DEF HandleUserDeleted
  <2> SUFFICES ASSUME NEW t \in Live', <<t, "who">> \notin silent'
               PROVE  told[t].who = task'[t].who
    BY <2>1 DEF AssigneeTold
  <2>2. t \notin AssignedTo(Message.about) /\ <<t, "who">> \notin silent BY <2>1
  <2>3. task'[t].who = task[t].who BY <1>5, <1>6, <2>1, <2>2
  <2> QED BY <1>2, <2>2, <2>3 DEF AssigneeTold
<1>8. CASE HandleMemberRemoved
  <2>1. /\ Unassign(AssignedTo(Message.about)) /\ silent' = silent
        /\ told' = [t \in Task |-> IF t \in AssignedTo(Message.about)
                                   THEN [told[t] EXCEPT !.who = None] ELSE told[t]]
    BY <1>8 DEF HandleMemberRemoved
  <2> SUFFICES ASSUME NEW t \in Live', <<t, "who">> \notin silent
               PROVE  told'[t].who = task'[t].who
    BY <2>1 DEF AssigneeTold
  <2>2. t \in Live /\ t \in Task BY <1>1, <1>2
  <2>3. told'[t].who = IF t \in AssignedTo(Message.about) THEN None ELSE told[t].who
    <3>1. told[t] \in Told BY <1>1, <2>2
    <3>2. CASE t \in AssignedTo(Message.about)
      <4>1. told'[t] = [told[t] EXCEPT !.who = None] BY <2>1, <2>2, <3>2
      <4> QED BY <3>1, <3>2, <4>1 DEF Told
    <3>3. CASE t \notin AssignedTo(Message.about)
      <4>1. told'[t] = told[t] BY <2>1, <2>2, <3>3
      <4> QED BY <3>3, <4>1
    <3> QED BY <3>2, <3>3
  <2>4. told[t].who = task[t].who BY <2>2 DEF AssigneeTold
  <2>5. task'[t].who = IF t \in AssignedTo(Message.about) THEN None ELSE task[t].who
    BY <1>5, <1>6, <2>1
  <2> QED BY <2>3, <2>4, <2>5
<1> QED BY <1>3, <1>4, <1>7, <1>8 DEF Sweeps

LEMMA TellSweeps == ASSUME Ground, TellInv, Sweeps PROVE TellInv'
<1>1. /\ UNCHANGED <<pc, call, excused>> /\ stale' = [r \in Request |-> Busy(r)]
      /\ Live' \subseteq Live /\ Live \subseteq Task /\ silent \subseteq silent'
      /\ \A t \in Task : task'[t].status = task[t].status /\ told'[t].status = told[t].status
  BY SweepsGive DEF Live
<1>2. SeenIsCurrent' /\ WrittenIsCurrent' /\ OneAtTell' /\ ToldIsSeen'
  <2>1. \A r \in Request : pc'[r] # "idle" => stale'[r] BY <1>1 DEF Busy
  <2> QED BY <2>1 DEF SeenIsCurrent, WrittenIsCurrent, OneAtTell, ToldIsSeen, AtTell
<1>3. StatusTold' BY <1>1 DEF TellInv, StatusTold
<1>4. AssigneeTold' BY SweepsTell DEF TellInv
<1> QED BY <1>2, <1>3, <1>4 DEF TellInv

(* A step of a request that neither writes nor tells *)
LEMMA TellKept ==
  ASSUME TellInv, NEW r \in Request, Others(r), UNCHANGED <<task, excused, told, silent>>,
         \A s \in Request \ {r} : stale[s] => stale'[s],
         pc[r] # "tell", pc'[r] # "tell",
         ~stale'[r] /\ call'[r].op \in {"move", "update"} /\ pc'[r] \in {"refs", "commit", "write"}
           => call'[r].seen = task[call'[r].task].status
  PROVE  TellInv'
<1>1. Live' = Live BY DEF Live
<1>2. \A s \in Request : \A t : AtTell(s, t)' <=> AtTell(s, t) BY DEF AtTell, Others
<1>3. \A s \in Request : \A t : Alone(s, t)' <=> Alone(s, t) BY <1>2 DEF Alone
<1>4. SeenIsCurrent' BY DEF TellInv, SeenIsCurrent, Others
<1>5. WrittenIsCurrent' BY DEF TellInv, WrittenIsCurrent, Others
<1>6. ToldIsSeen'
  <2> SUFFICES ASSUME NEW s \in Request, NEW t \in Live \ excused, ~stale'[s], AtTell(s, t)',
                      <<t, "status">> \notin silent, Alone(s, t)'
               PROVE  told[t].status = call'[s].seen
    BY <1>1 DEF ToldIsSeen
  <2>1. AtTell(s, t) /\ Alone(s, t) BY <1>2, <1>3
  <2>2. s # r BY <2>1 DEF AtTell
  <2>3. ~stale[s] /\ call'[s] = call[s] BY <2>2 DEF Others
  <2> QED BY <2>1, <2>3 DEF TellInv, ToldIsSeen
<1>7. OneAtTell'
  <2> SUFFICES ASSUME NEW s \in Request, NEW x \in Request, NEW t \in Task, AtTell(s, t)',
                      AtTell(x, t)', s # x
               PROVE  stale'[s] \/ stale'[x]
    BY DEF OneAtTell
  <2>1. AtTell(s, t) /\ AtTell(x, t) BY <1>2
  <2>2. s # r /\ x # r BY <2>1 DEF AtTell
  <2> QED BY <2>1, <2>2 DEF TellInv, OneAtTell
<1>8. StatusTold'
  <2>1. ASSUME NEW t \in Live \ excused PROVE StatusToldOf(t)'
    <3>1. StatusToldOf(t) BY StatusToldIs DEF TellInv
    <3> QED BY <1>2, <3>1 DEF StatusToldOf
  <2> QED BY <1>1, <2>1, StatusToldIs DEF StatusTold, StatusToldOf, AtTell
<1>9. AssigneeTold' BY <1>1 DEF TellInv, AssigneeTold
<1> QED BY <1>4, <1>5, <1>6, <1>7, <1>8, <1>9 DEF TellInv

(* A task is written, with or without an event: what is known of the other *)
(* tasks, and of the requests that read or write them.                     *)
LEMMA TellOthers ==
  ASSUME Ground, TellInv, NEW r \in Request, Others(r), NEW t0, call[r].task = t0, pc[r] # "tell",
         ~AtTell(r, t0)' => pc'[r] = "idle",
         \A s \in Request \ {r} : stale[s] => stale'[s],
         \A s \in Request \ {r} : Busy(s) /\ call[s].task = t0 => stale'[s],
         \A x \in Task \ {t0} : task'[x] = task[x] /\ told'[x] = told[x],
         excused \subseteq excused',
         \A x \in Task \ {t0} : \A f : <<x, f>> \in silent <=> <<x, f>> \in silent'
  PROVE  /\ \A x \in Live' \ {t0} : x \in Live
         /\ \A s \in Request \ {r} :
              /\ ~stale'[s] /\ call'[s].op \in {"move", "update"}
                   /\ pc'[s] \in {"refs", "commit", "write"}
                 => call'[s].seen = task'[call'[s].task].status
              /\ ~stale'[s] /\ pc'[s] = "tell" => task'[call'[s].task].status = call'[s].status
              /\ \A t \in Live' \ excused' :
                   ~stale'[s] /\ AtTell(s, t)' /\ <<t, "status">> \notin silent' /\ Alone(s, t)'
                     => told'[t].status = call'[s].seen
         /\ OneAtTell'
         /\ \A t \in Live' \ (excused' \cup {t0}) : StatusToldOf(t)'
         /\ \A t \in Live' \ {t0} : <<t, "who">> \notin silent' => told'[t].who = task'[t].who
<1>1. \A x \in Live' \ {t0} : x \in Live /\ x \in Task BY DEF Live
<1>2. \A s \in Request \ {r} : pc'[s] = pc[s] /\ call'[s] = call[s] BY DEF Others
<1>3. \A s \in Request : Busy(s) => call[s].task \in Task BY DEF Ground, Basics, Placed, Busy
<1>4. \A s \in Request : \A t : t # t0 => (AtTell(s, t)' <=> AtTell(s, t))
  <2> SUFFICES ASSUME NEW s \in Request, NEW t, t # t0 PROVE AtTell(s, t)' <=> AtTell(s, t)
    OBVIOUS
  <2>1. CASE s # r BY <1>2, <2>1 DEF AtTell
  <2>2. CASE s = r
    <3>1. ~AtTell(r, t) BY DEF AtTell
    <3>2. ~AtTell(r, t)' BY DEF AtTell
    <3> QED BY <2>2, <3>1, <3>2
  <2> QED BY <2>1, <2>2
<1>5. \A s \in Request : \A t : t # t0 => (Alone(s, t)' <=> Alone(s, t)) BY <1>4 DEF Alone
<1>6. ASSUME NEW s \in Request \ {r}, ~stale'[s], pc'[s] # "idle"
      PROVE  /\ ~stale[s] /\ call'[s] = call[s] /\ pc'[s] = pc[s]
             /\ call[s].task \in Task \ {t0}
             /\ task'[call[s].task] = task[call[s].task]
  BY <1>2, <1>3, <1>6 DEF Busy
<1>7. \A s \in Request \ {r} :
        ~stale'[s] /\ call'[s].op \in {"move", "update"} /\ pc'[s] \in {"refs", "commit", "write"}
          => call'[s].seen = task'[call'[s].task].status
  BY <1>6 DEF TellInv, SeenIsCurrent
<1>8. \A s \in Request \ {r} :
        ~stale'[s] /\ pc'[s] = "tell" => task'[call'[s].task].status = call'[s].status
  BY <1>6 DEF TellInv, WrittenIsCurrent
<1>9. ASSUME NEW s \in Request \ {r}, NEW t \in Live' \ excused', ~stale'[s], AtTell(s, t)',
             <<t, "status">> \notin silent', Alone(s, t)'
      PROVE  told'[t].status = call'[s].seen
  <2>1. pc'[s] = "tell" /\ call'[s].task = t BY <1>9 DEF AtTell
  <2>2. ~stale[s] /\ call'[s] = call[s] /\ t \in Task \ {t0} BY <1>6, <1>9, <2>1
  <2>3. t \in Live \ excused /\ told'[t] = told[t] BY <1>1, <1>9, <2>2
  <2>4. AtTell(s, t) /\ Alone(s, t) BY <1>4, <1>5, <1>9, <2>2
  <2>5. <<t, "status">> \notin silent BY <1>9, <2>2
  <2> QED BY <2>2, <2>3, <2>4, <2>5 DEF TellInv, ToldIsSeen
<1>10. OneAtTell'
  <2> SUFFICES ASSUME NEW s \in Request, NEW x \in Request, NEW t \in Task, AtTell(s, t)',
                      AtTell(x, t)', s # x
               PROVE  stale'[s] \/ stale'[x]
    BY DEF OneAtTell
  <2>1. CASE t = t0
    <3>1. \A y \in Request \ {r} : AtTell(y, t)' => stale'[y]
      BY <1>2, <2>1 DEF AtTell, Busy
    <3> QED BY <3>1
  <2>2. CASE t # t0
    <3>1. AtTell(s, t) /\ AtTell(x, t) BY <1>4, <2>2
    <3>2. s # r /\ x # r BY <2>2, <3>1 DEF AtTell
    <3>3. stale[s] \/ stale[x] BY <3>1 DEF TellInv, OneAtTell
    <3> QED BY <3>2, <3>3
  <2> QED BY <2>1, <2>2
<1>11. ASSUME NEW t \in Live' \ (excused' \cup {t0}) PROVE StatusToldOf(t)'
  <2>1. t \in Live \ excused /\ task'[t] = task[t] /\ told'[t] = told[t] BY <1>1
  <2>2. StatusToldOf(t) BY <2>1, StatusToldIs DEF TellInv
  <2>3. t \in Task \ {t0} BY <1>1
  <2>4. <<t, "status">> \notin silent' => <<t, "status">> \notin silent BY <2>3
  <2>5. (\A s \in Request : ~AtTell(s, t)') => \A s \in Request : ~AtTell(s, t)
    BY <1>4, <2>3
  <2> QED BY <2>1, <2>2, <2>4, <2>5 DEF StatusToldOf
<1>12. ASSUME NEW t \in Live' \ {t0}, <<t, "who">> \notin silent'
       PROVE  told'[t].who = task'[t].who
  <2>1. t \in Live /\ t \in Task \ {t0} BY <1>1
  <2>2. <<t, "who">> \notin silent BY <1>12, <2>1
  <2> QED BY <2>1, <2>2 DEF TellInv, AssigneeTold
<1> QED BY <1>1, <1>7, <1>8, <1>9, <1>10, <1>11, <1>12

LEMMA AskTells == ASSUME Ground, TellInv, NEW r \in Request, AskSome(r) PROVE TellInv'
<1>1. PICK c : WellAsked(c) /\ Ask(r, c) BY AskGives DEF Ground
<1>2. PICK label \in {"board", "read"} : Keep(r, label, c) BY <1>1 DEF Ask
<1>3. pc'[r] = label /\ pc[r] = "idle"
  <2>1. label \in Label BY DEF Label
  <2> QED BY <1>1, <1>2, <2>1, KeepGives DEF WellAsked, Ground, Basics, Ask, Busy
<1>4. UNCHANGED <<task, excused, told, silent>> BY <1>1 DEF Ask, history
<1>5. Others(r) /\ \A s \in Request \ {r} : stale[s] => stale'[s] BY OthersAre
<1> QED BY <1>3, <1>4, <1>5, TellKept

(* The status that a request has read is still the task's. *)
LEMMA ReadTells == ASSUME Ground, TellInv, NEW r \in Request, ReadSome(r) PROVE TellInv'
<1>1. UNCHANGED <<task, excused, told, silent>> BY ReadGives DEF Ground, history
<1>2. Others(r) /\ \A s \in Request \ {r} : stale[s] => stale'[s] BY OthersAre
<1>3. pc[r] # "tell" /\ pc'[r] # "tell"
  <2>1. pc[r] # "tell"
    BY DEF ReadSome, GetKnownBoard, GetLastPosition, GetTask, GetPositionForRefs, GetPermissions
  <2> QED BY <2>1, ReadsTo
<1>4. ASSUME ~stale'[r], call'[r].op \in {"move", "update"}, pc'[r] \in {"refs", "commit", "write"}
      PROVE  call'[r].seen = task[call'[r].task].status
  <2>1. /\ call[r].op = call'[r].op /\ call[r].task = call'[r].task /\ pc[r] # "idle"
        /\ ~stale[r]
    BY <1>4, ReadsTo, OthersAre, ReadIsNot
  <2>2. CASE pc[r] = "read"
    <3>1. GetTask(r)
      BY <2>2 DEF ReadSome, GetKnownBoard, GetLastPosition, GetTask, GetPositionForRefs,
         GetPermissions
    <3>2. ~Goto(r, "idle") BY <1>4 DEF Goto, Ground, Basics, RequestsOK
    <3>3. PICK label : Keep(r, label, [call[r] EXCEPT !.seen = task[call[r].task].status])
      BY <3>1, <3>2 DEF GetTask
    <3>4. call'[r] = [call[r] EXCEPT !.seen = task[call[r].task].status]
      BY <3>3 DEF Keep, Ground, Basics, RequestsOK
    <3>5. call[r] \in CallRecord BY DEF Ground, Basics, RequestsOK
    <3>6. call'[r].seen = task[call[r].task].status BY <3>4, <3>5 DEF CallRecord
    <3> QED BY <2>1, <3>6
  <2>3. CASE pc[r] # "read"
    <3>1. pc[r] = "refs" /\ GetPositionForRefs(r)
      BY <1>4, <2>1, <2>3 DEF ReadSome, GetKnownBoard, GetLastPosition, GetTask,
         GetPositionForRefs, GetPermissions, Ground, Basics, Placed
    <3>2. ~Goto(r, "idle") BY <1>4 DEF Goto, Ground, Basics, RequestsOK
    <3>3. PICK pos, status :
            Keep(r, "commit", [call[r] EXCEPT !.pos = pos, !.status = status])
      BY <3>1, <3>2 DEF GetPositionForRefs
    <3>4. call'[r] = [call[r] EXCEPT !.pos = pos, !.status = status]
      BY <3>3 DEF Keep, Ground, Basics, RequestsOK
    <3>5. call[r] \in CallRecord BY DEF Ground, Basics, RequestsOK
    <3>6. call'[r].seen = call[r].seen BY <3>4, <3>5 DEF CallRecord
    <3> QED BY <1>4, <2>1, <3>1, <3>6 DEF TellInv, SeenIsCurrent
  <2> QED BY <2>2, <2>3
<1> QED BY <1>1, <1>2, <1>3, <1>4, TellKept

(* Writes in one transaction with their event: the row's status is told if *)
(* it is another than the one read, its assignee as it is.                 *)
LEMMA TellTogether ==
  ASSUME Ground, TellInv, NEW r \in Request, Others(r), NEW t0 \in Task, call[r].task = t0,
         pc[r] # "tell", pc'[r] = "idle",
         \A s \in Request \ {r} : stale[s] => stale'[s],
         \A s \in Request \ {r} : Busy(s) /\ call[s].task = t0 => stale'[s],
         \A x \in Task \ {t0} : task'[x] = task[x] /\ told'[x] = told[x],
         excused \subseteq excused',
         \A x \in Task \ {t0} : \A f : <<x, f>> \in silent <=> <<x, f>> \in silent',
         t0 \in Live' \ excused' => StatusToldOf(t0)',
         t0 \in Live' /\ <<t0, "who">> \notin silent' => told'[t0].who = task'[t0].who
  PROVE  TellInv'
<1>1. ~AtTell(r, t0)' => pc'[r] = "idle" OBVIOUS
<1>2. /\ SeenIsCurrent' /\ WrittenIsCurrent'
  BY <1>1, TellOthers DEF SeenIsCurrent, WrittenIsCurrent
<1>3. ToldIsSeen'
  <2>1. \A t : ~AtTell(r, t)' BY DEF AtTell
  <2> QED BY <1>1, <2>1, TellOthers DEF ToldIsSeen
<1>4. OneAtTell' BY <1>1, TellOthers
<1>5. \A t \in Live' \ (excused' \cup {t0}) : StatusToldOf(t)' BY <1>1, TellOthers
<1>6. StatusTold' BY <1>5, StatusToldIs DEF StatusTold, StatusToldOf, AtTell
<1>7. \A t \in Live' \ {t0} : <<t, "who">> \notin silent' => told'[t].who = task'[t].who
  BY <1>1, TellOthers
<1>8. AssigneeTold' BY <1>7 DEF AssigneeTold
<1> QED BY <1>2, <1>3, <1>4, <1>6, <1>8 DEF TellInv

(* The row is written, the event is not. *)
LEMMA WriteTells ==
  ASSUME Ground, TellInv, NEW r \in Request, WriteTask(r), ~NoRow(r) PROVE TellInv'
<1>1. PICK t0 : t0 = call[r].task OBVIOUS
<1>2. /\ RowWritten(r) /\ t0 \in Live /\ t0 \in Task
      /\ task'[t0].status = call[r].status /\ task'[t0].who = task[t0].who
      /\ UNCHANGED <<wanted, excused, told, silent>>
      /\ stale' = [s \in Request |-> stale[s] \/ (s # r /\ call[s].task = t0)]
      /\ Goto(r, "tell") /\ call[r].op = "update" /\ pc[r] = "write"
  BY <1>1, WriteGives DEF RowWritten
<1>3. /\ \A x \in Task \ {t0} : task'[x] = task[x] /\ told'[x] = told[x]
  BY <1>1, <1>2 DEF RowWritten
<1>4. pc'[r] = "tell" /\ call'[r] = call[r] /\ Others(r)
  <2>1. "tell" \in Label BY DEF Label
  <2> QED BY <1>2, <2>1, GotoGives DEF Ground, Basics
<1>5. stale \in [Request -> BOOLEAN] BY DEF Ground, Basics, RequestsOK
<1>6. \A s \in Request \ {r} : (stale[s] => stale'[s]) /\ (call[s].task = t0 => stale'[s])
  BY <1>2, <1>5
<1>7. stale'[r] = stale[r] BY <1>2, <1>5
<1>8. AtTell(r, t0)' BY <1>1, <1>4 DEF AtTell
<1>9. /\ \A x \in Live' \ {t0} : x \in Live
      /\ \A s \in Request \ {r} :
           /\ ~stale'[s] /\ call'[s].op \in {"move", "update"}
                /\ pc'[s] \in {"refs", "commit", "write"}
              => call'[s].seen = task'[call'[s].task].status
           /\ ~stale'[s] /\ pc'[s] = "tell" => task'[call'[s].task].status = call'[s].status
           /\ \A t \in Live' \ excused' :
                ~stale'[s] /\ AtTell(s, t)' /\ <<t, "status">> \notin silent' /\ Alone(s, t)'
                  => told'[t].status = call'[s].seen
      /\ OneAtTell'
      /\ \A t \in Live' \ (excused' \cup {t0}) : StatusToldOf(t)'
      /\ \A t \in Live' \ {t0} : <<t, "who">> \notin silent' => told'[t].who = task'[t].who
  BY <1>1, <1>2, <1>3, <1>4, <1>6, <1>8, TellOthers
<1>10. SeenIsCurrent'
  <2>1. pc'[r] \notin {"refs", "commit", "write"} BY <1>4
  <2> QED BY <1>9, <2>1 DEF SeenIsCurrent
<1>11. WrittenIsCurrent'
  <2>1. task'[call'[r].task].status = call'[r].status BY <1>1, <1>2, <1>4
  <2> QED BY <1>9, <2>1 DEF WrittenIsCurrent
<1>12. ToldIsSeen'
  <2>1. ASSUME NEW t \in Live' \ excused', ~stale'[r], AtTell(r, t)',
               <<t, "status">> \notin silent', Alone(r, t)'
        PROVE  told'[t].status = call'[r].seen
    <3>1. t = t0 BY <1>1, <1>4, <2>1 DEF AtTell
    <3>2. \A s \in Request : ~AtTell(s, t0)
      BY <1>2, <1>4, <2>1, <3>1 DEF Alone, AtTell, Others
    <3>3. t0 \in Live \ excused /\ <<t0, "status">> \notin silent BY <1>2, <2>1, <3>1
    <3>4. told[t0].status = task[t0].status
      BY <3>2, <3>3, StatusToldIs DEF TellInv, StatusToldOf
    <3>5. call[r].seen = task[t0].status
      BY <1>1, <1>2, <1>7, <2>1 DEF TellInv, SeenIsCurrent
    <3> QED BY <1>2, <1>4, <3>1, <3>4, <3>5
  <2> QED BY <1>9, <2>1 DEF ToldIsSeen
<1>13. StatusTold'
  <2>1. ~StatusToldOf(t0)' => FALSE BY <1>8 DEF StatusToldOf
  <2>2. \A t \in Live' \ excused' : StatusToldOf(t)' BY <1>9, <2>1
  <2> QED BY <2>2, StatusToldIs DEF StatusTold, StatusToldOf, AtTell
<1>14. AssigneeTold'
  <2>1. <<t0, "who">> \notin silent' => told'[t0].who = task'[t0].who
    BY <1>2 DEF TellInv, AssigneeTold
  <2> QED BY <1>9, <2>1 DEF AssigneeTold
<1> QED BY <1>9, <1>10, <1>11, <1>12, <1>13, <1>14 DEF TellInv

(* The event is written, or the request ends without one. *)
LEMMA TellEnds ==
  ASSUME Ground, TellInv, NEW r \in Request, Others(r), NEW t0 \in Task, AtTell(r, t0),
         pc'[r] = "idle", UNCHANGED <<task, stale>>,
         \A x \in Task \ {t0} : told'[x] = told[x], told'[t0].who = told[t0].who,
         excused \subseteq excused', stale[r] => t0 \in excused' \/ <<t0, "status">> \in silent',
         \A x, f : <<x, f>> # <<t0, "status">> => (<<x, f>> \in silent <=> <<x, f>> \in silent'),
         <<t0, "status">> \in silent => <<t0, "status">> \in silent',
         t0 \in Live \ excused' => StatusToldOf(t0)'
  PROVE  TellInv'
<1>1. Live' = Live /\ Live \subseteq Task BY DEF Live
<1>2. \A s \in Request \ {r} : pc'[s] = pc[s] /\ call'[s] = call[s] BY DEF Others
<1>3. \A t : ~AtTell(r, t)' BY DEF AtTell
<1>4. \A s \in Request \ {r} : \A t : AtTell(s, t)' <=> AtTell(s, t) BY <1>2 DEF AtTell
<1>5. \A t : t # t0 => ~AtTell(r, t) BY DEF AtTell
<1>6. SeenIsCurrent' BY <1>2 DEF TellInv, SeenIsCurrent
<1>7. WrittenIsCurrent' BY <1>2 DEF TellInv, WrittenIsCurrent
<1>8. OneAtTell' BY <1>3, <1>4 DEF TellInv, OneAtTell
<1>9. ToldIsSeen'
  <2> SUFFICES ASSUME NEW s \in Request, NEW t \in Live \ excused', ~stale[s], AtTell(s, t)',
                      <<t, "status">> \notin silent', Alone(s, t)'
               PROVE  told'[t].status = call'[s].seen
    BY <1>1 DEF ToldIsSeen
  <2>1. s # r /\ AtTell(s, t) /\ call'[s] = call[s] BY <1>2, <1>3, <1>4
  <2>2. CASE t = t0
    <3>1. stale[r] BY <2>1, <2>2 DEF TellInv, OneAtTell
    <3> QED BY <2>2, <3>1
  <2>3. CASE t # t0
    <3>1. Alone(s, t) BY <1>4, <1>5, <2>3 DEF Alone
    <3>2. <<t, "status">> # <<t0, "status">> BY <2>3
    <3>3. <<t, "status">> \notin silent BY <3>2
    <3>4. told[t].status = call[s].seen BY <2>1, <3>1, <3>3 DEF TellInv, ToldIsSeen
    <3> QED BY <1>1, <2>1, <2>3, <3>4
  <2> QED BY <2>2, <2>3
<1>10. StatusTold'
  <2>1. ASSUME NEW t \in Live \ excused', t # t0 PROVE StatusToldOf(t)'
    <3>1. StatusToldOf(t) BY StatusToldIs DEF TellInv
    <3>2. <<t, "status">> # <<t0, "status">> BY <2>1
    <3>3. <<t, "status">> \notin silent' => <<t, "status">> \notin silent BY <3>2
    <3>4. (\A s \in Request : ~AtTell(s, t)') => \A s \in Request : ~AtTell(s, t)
      BY <1>4, <1>5, <2>1
    <3>5. told'[t] = told[t] BY <1>1, <2>1
    <3> QED BY <3>1, <3>3, <3>4, <3>5 DEF StatusToldOf
  <2>2. \A t \in Live' \ excused' : StatusToldOf(t)' BY <1>1, <2>1
  <2> QED BY <2>2, StatusToldIs DEF StatusTold, StatusToldOf, AtTell
<1>11. AssigneeTold'
  <2> SUFFICES ASSUME NEW t \in Live, <<t, "who">> \notin silent' PROVE told'[t].who = task[t].who
    BY <1>1 DEF AssigneeTold
  <2>1. <<t, "who">> # <<t0, "status">> OBVIOUS
  <2>2. <<t, "who">> \notin silent BY <2>1
  <2>3. told[t].who = task[t].who BY <2>2 DEF TellInv, AssigneeTold
  <2> QED BY <1>1, <2>3
<1> QED BY <1>6, <1>7, <1>8, <1>9, <1>10, <1>11 DEF TellInv

LEMMA WritesTell == ASSUME Ground, TellInv, NEW r \in Request, WriteSome(r) PROVE TellInv'
<1>1. Others(r) /\ \A s \in Request \ {r} : stale[s] => stale'[s] BY OthersAre
<1>2. /\ task \in [Task -> Row] /\ Live \subseteq Task /\ stale \in [Request -> BOOLEAN]
  BY DEF Ground, Basics, TasksOK, RequestsOK, Live
<1>3. ASSUME Goto(r, "idle") PROVE pc'[r] = "idle" /\ call'[r] = NoCall
  <2>1. "idle" \in Label BY DEF Label
  <2> QED BY <1>3, <2>1, GotoGives DEF Ground, Basics
<1>4. ASSUME NEW t, NEW cols, Touch(r, t, cols)
      PROVE  \A s \in Request \ {r} : Busy(s) /\ call[s].task = t => stale'[s]
  BY <1>4 DEF Touch
<1>5. ASSUME Excuse(r, call[r].task)
      PROVE  excused \subseteq excused' /\ (stale[r] => call[r].task \in excused')
  BY <1>5 DEF Excuse
<1>6. CASE UNCHANGED <<task, excused, told, silent>> /\ Goto(r, "idle") /\ pc[r] # "tell"
  <2>1. pc'[r] = "idle" BY <1>3, <1>6
  <2> QED BY <1>1, <1>6, <2>1, TellKept
<1>7. CASE NoRow(r) /\ pc[r] # "tell" BY <1>6, <1>7 DEF NoRow
<1>8. CASE CreateTask(r)
  <2>1. PICK t0 \in Task : t0 = call[r].task BY <1>8, CreateGives
  <2>2. /\ \A x \in Task \ {t0} : task'[x] = task[x] /\ told'[x] = told[x]
        /\ told'[t0].status = task'[t0].status /\ told'[t0].who = task'[t0].who
        /\ UNCHANGED silent /\ Touch(r, t0, {call[r].col}) /\ Excuse(r, t0) /\ Goto(r, "idle")
    BY <1>8, <2>1, CreateGives
  <2>3. pc[r] # "tell" /\ pc'[r] = "idle" BY <1>3, <1>8, <2>2 DEF CreateTask
  <2>4. StatusToldOf(t0)' BY <2>2 DEF StatusToldOf
  <2>5. excused \subseteq excused' BY <1>5, <2>1, <2>2
  <2>6. \A s \in Request \ {r} : Busy(s) /\ call[s].task = t0 => stale'[s] BY <1>4, <2>2
  <2> QED BY <1>1, <2>1, <2>2, <2>3, <2>4, <2>5, <2>6, TellTogether
<1>9. CASE MoveTask(r) /\ ~NoRow(r)
  <2>1. PICK t0 : t0 = call[r].task OBVIOUS
  <2>2. /\ RowWritten(r)
        /\ task'[t0].st = "live" /\ task'[t0].status = call[r].status
        /\ task'[t0].who = task[t0].who /\ told'[t0].who = told[t0].who
        /\ told'[t0].status = IF call[r].status # call[r].seen THEN call[r].status
                              ELSE told[t0].status
        /\ UNCHANGED silent
        /\ Touch(r, t0, {call[r].col, task[t0].col}) /\ Excuse(r, t0) /\ Goto(r, "idle")
    BY <1>9, <2>1, MoveGives
  <2>3. /\ t0 \in Task /\ t0 \in Live
        /\ \A x \in Task \ {t0} : task'[x] = task[x] /\ told'[x] = told[x]
    BY <2>1, <2>2 DEF RowWritten
  <2>4. pc[r] # "tell" /\ pc'[r] = "idle" /\ pc[r] = "commit" /\ call[r].op = "move"
    BY <1>3, <1>9, <2>2 DEF MoveTask
  <2>5. excused \subseteq excused' /\ (stale[r] => t0 \in excused') BY <1>5, <2>1, <2>2
  <2>6. \A s \in Request \ {r} : Busy(s) /\ call[s].task = t0 => stale'[s] BY <1>4, <2>2
  <2>7. ASSUME t0 \in Live' \ excused' PROVE StatusToldOf(t0)'
    <3> SUFFICES ASSUME <<t0, "status">> \notin silent, \A s \in Request : ~AtTell(s, t0)'
                 PROVE  told'[t0].status = task'[t0].status
      BY <2>2 DEF StatusToldOf
    <3>1. t0 \in Live \ excused /\ ~stale[r] BY <2>3, <2>5, <2>7
    <3>2. call[r].seen = task[t0].status BY <2>1, <2>4, <3>1 DEF TellInv, SeenIsCurrent
    <3>3. \A s \in Request : ~AtTell(s, t0) BY <1>1, <2>4 DEF AtTell, Others
    <3>4. told[t0].status = task[t0].status
      BY <3>1, <3>3, StatusToldIs DEF TellInv, StatusToldOf
    <3> QED BY <2>2, <3>2, <3>4
  <2>8. <<t0, "who">> \notin silent' => told'[t0].who = task'[t0].who
    BY <2>2, <2>3 DEF TellInv, AssigneeTold
  <2> QED BY <1>1, <2>1, <2>2, <2>3, <2>4, <2>5, <2>6, <2>7, <2>8, TellTogether
<1>10. CASE AssignTask(r) /\ ~NoRow(r)
  <2>1. PICK t0 : t0 = call[r].task OBVIOUS
  <2>2. /\ RowWritten(r)
        /\ task'[t0].status = task[t0].status /\ told'[t0].status = told[t0].status
        /\ told'[t0].who = task'[t0].who /\ silent' = silent \ {<<t0, "who">>}
        /\ Touch(r, t0, {}) /\ Excuse(r, t0) /\ Goto(r, "idle")
    BY <1>10, <2>1, AssignGives
  <2>3. /\ t0 \in Task /\ t0 \in Live
        /\ \A x \in Task \ {t0} : task'[x] = task[x] /\ told'[x] = told[x]
    BY <2>1, <2>2 DEF RowWritten
  <2>4. pc[r] # "tell" /\ pc'[r] = "idle" BY <1>3, <1>10, <2>2 DEF AssignTask
  <2>5. excused \subseteq excused' BY <1>5, <2>1, <2>2
  <2>6. \A s \in Request \ {r} : Busy(s) /\ call[s].task = t0 => stale'[s] BY <1>4, <2>2
  <2>7. \A x \in Task \ {t0} : \A f : <<x, f>> \in silent <=> <<x, f>> \in silent'
    BY <2>2
  <2>8. ASSUME t0 \in Live' \ excused' PROVE StatusToldOf(t0)'
    <3> SUFFICES ASSUME <<t0, "status">> \notin silent', \A s \in Request : ~AtTell(s, t0)'
                 PROVE  told'[t0].status = task'[t0].status
      BY DEF StatusToldOf
    <3>1. t0 \in Live \ excused BY <2>3, <2>5, <2>8
    <3>2. \A s \in Request : ~AtTell(s, t0) BY <1>1, <2>4 DEF AtTell, Others
    <3>3. <<t0, "status">> # <<t0, "who">> OBVIOUS
    <3>4. <<t0, "status">> \notin silent BY <2>2, <3>3
    <3>5. told[t0].status = task[t0].status
      BY <3>1, <3>2, <3>4, StatusToldIs DEF TellInv, StatusToldOf
    <3> QED BY <2>2, <3>5
  <2> QED BY <1>1, <2>1, <2>2, <2>3, <2>4, <2>5, <2>6, <2>7, <2>8, TellTogether
<1>11. CASE DeleteTask(r)
  <2>1. PICK t0 \in Task : t0 = call[r].task BY <1>11, DeleteGives
  <2>2. /\ \A x \in Task \ {t0} : task'[x] = task[x]
        /\ task'[t0].st = "deleted" /\ UNCHANGED <<wanted, excused, told, silent>>
        /\ Touch(r, t0, {task[t0].col}) /\ Goto(r, "idle")
    BY <1>11, <2>1, DeleteGives
  <2>3. pc[r] # "tell" /\ pc'[r] = "idle" BY <1>3, <1>11, <2>2 DEF DeleteTask
  <2>4. t0 \notin Live' BY <2>2 DEF Live
  <2>5. \A s \in Request \ {r} : Busy(s) /\ call[s].task = t0 => stale'[s] BY <1>4, <2>2
  <2> QED BY <1>1, <2>1, <2>2, <2>3, <2>4, <2>5, TellTogether
<1>12. CASE TellUpdate(r)
  <2>1. PICK t0 \in Task : t0 = call[r].task BY <1>12, TellGives
  <2>2. /\ pc[r] = "tell"
        /\ \A x \in Task \ {t0} : told'[x] = told[x]
        /\ told'[t0].who = told[t0].who
        /\ told'[t0].status = IF call[r].status # call[r].seen THEN call[r].status
                              ELSE told[t0].status
        /\ UNCHANGED <<task, stale, silent>> /\ Excuse(r, t0) /\ Goto(r, "idle")
    BY <1>12, <2>1, TellGives
  <2>3. AtTell(r, t0) /\ pc'[r] = "idle" BY <1>3, <2>1, <2>2 DEF AtTell
  <2>4. excused \subseteq excused' /\ (stale[r] => t0 \in excused') BY <1>5, <2>1, <2>2
  <2>5. ASSUME t0 \in Live \ excused' PROVE StatusToldOf(t0)'
    <3> SUFFICES ASSUME <<t0, "status">> \notin silent, \A s \in Request : ~AtTell(s, t0)'
                 PROVE  told'[t0].status = task[t0].status
      BY <2>2 DEF StatusToldOf
    <3>1. t0 \in Live \ excused /\ ~stale[r] BY <2>4, <2>5
    <3>2. Alone(r, t0) BY <1>1 DEF Alone, AtTell, Others
    <3>3. told[t0].status = call[r].seen BY <2>3, <3>1, <3>2 DEF TellInv, ToldIsSeen
    <3>4. task[t0].status = call[r].status
      BY <2>1, <2>2, <3>1 DEF TellInv, WrittenIsCurrent
    <3> QED BY <2>2, <3>3, <3>4
  <2> QED BY <1>1, <2>1, <2>2, <2>3, <2>4, <2>5, TellEnds
<1>13. CASE RequestFails(r)
  <2>1. /\ pc[r] # "idle" /\ Goto(r, "idle") /\ UNCHANGED <<task, stale, excused, told>>
        /\ silent' = IF pc[r] = "tell" THEN silent \cup {<<call[r].task, "status">>} ELSE silent
    BY <1>13, FailGives
  <2>2. CASE pc[r] = "tell"
    <3>1. PICK t0 \in Task : t0 = call[r].task BY <2>1 DEF Ground, Basics, Placed
    <3>2. silent' = silent \cup {<<t0, "status">>} BY <2>1, <2>2, <3>1
    <3>3. AtTell(r, t0) /\ pc'[r] = "idle" BY <1>3, <2>1, <2>2, <3>1 DEF AtTell
    <3>4. StatusToldOf(t0)' BY <3>2 DEF StatusToldOf
    <3> QED BY <1>1, <2>1, <3>2, <3>3, <3>4, TellEnds
  <2>3. CASE pc[r] # "tell" BY <1>6, <2>1, <2>3
  <2> QED BY <2>2, <2>3
<1>14. CASE WriteTask(r) /\ ~NoRow(r) BY <1>14, WriteTells
<1>15. MoveTask(r) \/ AssignTask(r) \/ WriteTask(r) => pc[r] # "tell"
  BY DEF MoveTask, AssignTask, WriteTask
<1> QED BY <1>7, <1>8, <1>9, <1>10, <1>11, <1>12, <1>13, <1>14, <1>15 DEF WriteSome

LEMMA TellStays == ASSUME Ground, TellInv, [Next]_vars PROVE TellInv'
<1>1. CASE UNCHANGED vars
  <2>1. UNCHANGED <<task, pc, call, stale, excused, told, silent>>
    BY <1>1 DEF vars, requestVars, history
  <2>2. Live' = Live BY <2>1 DEF Live
  <2> QED BY <2>1, <2>2 DEF TellInv, SeenIsCurrent, WrittenIsCurrent, ToldIsSeen, OneAtTell,
             StatusTold, AssigneeTold, AtTell, Alone
<1> QED BY <1>1, NextIs, TellOutside, TellSweeps, AskTells, ReadTells, WritesTell

(* Who follows the outbox events knows the status of every task that no    *)
(* two requests wrote at a time and no request was cut short on, and the   *)
(* assignee of every one, but for those whose account was deleted.         *)
THEOREM StatesAreTold == Spec => []EventsTell
<1>1. Init => TellInv
  BY DEF Init, TellInv, SeenIsCurrent, WrittenIsCurrent, ToldIsSeen, OneAtTell, StatusTold,
     AssigneeTold, AtTell, Live, Nobody
<1>2. TellInv => EventsTell BY DEF TellInv, EventsTell
<1> QED BY <1>1, <1>2, GroundHolds, TellStays, PTL DEF Spec

-----------------------------------------------------------------------------
(* The order of the tasks                                                  *)

InOrder ==
  \A x, y \in Live : task[x].col = task[y].col /\ Ahead(wanted, x, y) =>
                       Less(task[x].pos, task[y].pos)

(* Where a request puts its task is where its client wanted it: right      *)
(* before the task it named, after all the others that are before that.    *)
Fits(c) ==
  LET ts == In(c.col) \ {c.task}
  IN /\ c.before = None => \A x \in ts : Less(task[x].pos, c.pos)
     /\ c.before # None =>
          /\ c.before \in ts /\ Less(c.pos, task[c.before].pos)
          /\ \A x \in ts : Less(task[x].pos, task[c.before].pos) => Less(task[x].pos, c.pos)
GapIsThere ==
  \A r \in Request :
    ~stale[r] /\ call[r].op = "move" /\ pc[r] \in {"read", "refs"} =>
      <<call[r].after, call[r].before>> \in Gaps(In(call[r].col) \ {call[r].task})
PositionFits ==
  \A r \in Request :
    ~stale[r] /\ pc[r] = "commit" /\ call[r].op \in {"create", "move"} => Fits(call[r])
CreatedLast == \A r \in Request : call[r].op = "create" => call[r].before = None

OrderInv == (excused = {} => InOrder) /\ GapIsThere /\ PositionFits /\ CreatedLast

LEMMA OrderKeptIs == ASSUME wanted \in Seq(Task) PROVE OrderKept <=> (excused = {} => InOrder)
<1>1. OrderKept <=>
        (excused = {} =>
           \A i, j \in 1..Len(wanted) :
             i < j /\ wanted[i] \in Live /\ wanted[j] \in Live
               /\ task[wanted[i]].col = task[wanted[j]].col
             => Less(task[wanted[i]].pos, task[wanted[j]].pos))
  BY DEF OrderKept
<1>2. InOrder <=>
           \A i, j \in 1..Len(wanted) :
             i < j /\ wanted[i] \in Live /\ wanted[j] \in Live
               /\ task[wanted[i]].col = task[wanted[j]].col
             => Less(task[wanted[i]].pos, task[wanted[j]].pos)
  BY DEF InOrder, Ahead
<1> QED BY <1>1, <1>2

(* What depends on a column stays while it does. *)
SameColumn(k) == In(k)' = In(k) /\ \A x \in In(k) : task'[x].pos = task[x].pos

LEMMA FitsStays ==
  ASSUME NEW c, NEW k, k = c.col, SameColumn(k), Fits(c)
  PROVE  Fits(c)'
<1>1. PICK ts : ts = In(c.col) \ {c.task} OBVIOUS
<1>2. ts = In(c.col)' \ {c.task} BY <1>1 DEF SameColumn
<1>3. \A x \in ts : task'[x].pos = task[x].pos BY <1>1 DEF SameColumn
<1>4. /\ c.before = None => \A x \in ts : Less(task'[x].pos, c.pos)
      /\ c.before # None =>
           /\ c.before \in ts /\ Less(c.pos, task'[c.before].pos)
           /\ \A x \in ts : Less(task'[x].pos, task'[c.before].pos) => Less(task'[x].pos, c.pos)
  BY <1>1, <1>3 DEF Fits
<1> QED BY <1>2, <1>4 DEF Fits

(* A gap as the clients that have the column before them see it *)
GapOf(ts, a, b) ==
  /\ a \in ts \cup {None} /\ b \in ts \cup {None}
  /\ a = None /\ b = None => ts = {}
  /\ a # None /\ b # None => Less(task[a].pos, task[b].pos)
  /\ \A t \in ts : /\ a # None /\ Less(task[a].pos, task[t].pos) =>
                        b # None /\ ~Less(task[t].pos, task[b].pos)
                   /\ a = None => ~Less(task[t].pos, task[b].pos)

LEMMA GapsAre ==
  ASSUME OnlyBefore = FALSE, NEW ts, NEW a, NEW b
  PROVE  <<a, b>> \in Gaps(ts) <=> GapOf(ts, a, b)
  BY DEF Gaps, GapOf

LEMMA GapStays ==
  ASSUME NEW ts, NEW a, NEW b, \A x \in ts : task'[x].pos = task[x].pos, GapOf(ts, a, b)
  PROVE  GapOf(ts, a, b)'
<1>1. a \in ts \cup {None} /\ b \in ts \cup {None} BY DEF GapOf
<1>2. /\ a = None /\ b = None => ts = {}
      /\ a # None /\ b # None => Less(task'[a].pos, task'[b].pos)
  BY DEF GapOf
<1>3. ASSUME NEW t \in ts
      PROVE  /\ a # None /\ Less(task'[a].pos, task'[t].pos) =>
                  b # None /\ ~Less(task'[t].pos, task'[b].pos)
             /\ a = None => ~Less(task'[t].pos, task'[b].pos)
  <2>1. CASE b # None
    <3>1. task'[b].pos = task[b].pos BY <1>1, <2>1
    <3> QED BY <1>1, <3>1 DEF GapOf
  <2>2. CASE b = None
    <3>1. a # None BY <1>2, <2>2
    <3> QED BY <1>1, <2>2, <3>1 DEF GapOf
  <2> QED BY <2>1, <2>2
<1> QED BY <1>1, <1>2, <1>3 DEF GapOf

(* A step of a request that writes nothing *)
LEMMA OrderUnwritten ==
  ASSUME OrderInv, NEW r \in Request, Others(r), UNCHANGED <<task, wanted, excused>>,
         \A s \in Request \ {r} : stale[s] => stale'[s],
         ~stale'[r] /\ call'[r].op = "move" /\ pc'[r] \in {"read", "refs"} =>
           <<call'[r].after, call'[r].before>> \in Gaps(In(call'[r].col) \ {call'[r].task}),
         ~stale'[r] /\ pc'[r] = "commit" /\ call'[r].op \in {"create", "move"} => Fits(call'[r]),
         call'[r].op = "create" => call'[r].before = None
  PROVE  OrderInv'
<1>1. Live' = Live /\ \A k : In(k)' = In(k) BY DEF Live, In
<1>2. (excused = {} => InOrder)' BY <1>1 DEF OrderInv, InOrder
<1>3. \A c : Fits(c)' <=> Fits(c) BY <1>1 DEF Fits
<1>4. \A ts : Gaps(ts)' = Gaps(ts) BY DEF Gaps
<1>5. GapIsThere'
  <2> SUFFICES ASSUME NEW s \in Request, ~stale'[s], call'[s].op = "move",
                      pc'[s] \in {"read", "refs"}
               PROVE  (<<call[s].after, call[s].before>> \in Gaps(In(call[s].col) \ {call[s].task}))'
    BY DEF GapIsThere
  <2>1. PICK c, ts : c = call'[s] /\ ts = In(c.col) \ {c.task} OBVIOUS
  <2>2. <<c.after, c.before>> \in Gaps(ts)
    <3>1. CASE s = r BY <2>1, <3>1
    <3>2. CASE s # r
      <4>1. c = call[s] /\ pc'[s] = pc[s] /\ ~stale[s] BY <2>1, <3>2 DEF Others
      <4> QED BY <2>1, <4>1 DEF OrderInv, GapIsThere
    <3> QED BY <3>1, <3>2
  <2>3. <<c.after, c.before>> \in Gaps(ts)' BY <1>4, <2>2
  <2>4. ts = In(c.col)' \ {c.task} BY <1>1, <2>1
  <2> QED BY <2>1, <2>3, <2>4
<1>6. PositionFits'
  <2> SUFFICES ASSUME NEW s \in Request, ~stale'[s], pc'[s] = "commit",
                      call'[s].op \in {"create", "move"}
               PROVE  Fits(call[s])'
    BY DEF PositionFits
  <2>1. PICK c : c = call'[s] OBVIOUS
  <2>2. Fits(c)
    <3>1. CASE s = r BY <2>1, <3>1
    <3>2. CASE s # r
      <4>1. c = call[s] /\ pc'[s] = pc[s] /\ ~stale[s] BY <2>1, <3>2 DEF Others
      <4> QED BY <2>1, <4>1 DEF OrderInv, PositionFits
    <3> QED BY <3>1, <3>2
  <2>3. Fits(c)' BY <1>3, <2>2
  <2> QED BY <2>1, <2>3 DEF Fits
<1>7. CreatedLast' BY DEF OrderInv, CreatedLast, Others
<1> QED BY <1>2, <1>5, <1>6, <1>7 DEF OrderInv

LEMMA OrderOutside == ASSUME Ground, OrderInv, Outside PROVE OrderInv'
<1>1. UNCHANGED <<task, pc, call, stale, excused, wanted>>
  BY OutsideGives DEF requestVars, history
<1>2. Live' = Live /\ \A k : In(k)' = In(k) BY <1>1 DEF Live, In
<1>3. (excused = {} => InOrder)' BY <1>1, <1>2 DEF OrderInv, InOrder
<1>4. PositionFits' /\ CreatedLast'
  BY <1>1, <1>2 DEF OrderInv, PositionFits, CreatedLast, Fits
<1>5. GapIsThere'
  <2>1. \A ts : Gaps(ts)' = Gaps(ts) BY <1>1 DEF Gaps
  <2> QED BY <1>1, <1>2, <2>1 DEF OrderInv, GapIsThere
<1> QED BY <1>3, <1>4, <1>5 DEF OrderInv

LEMMA OrderSweeps == ASSUME Ground, OrderInv, Sweeps PROVE OrderInv'
<1>1. /\ UNCHANGED <<pc, call, wanted, excused>> /\ stale' = [r \in Request |-> Busy(r)]
      /\ Live' \subseteq Live /\ Live \subseteq Task
      /\ \A t \in Task : task'[t].col = task[t].col /\ task'[t].pos = task[t].pos
  BY SweepsGive DEF Live
<1>2. \A r \in Request : pc'[r] # "idle" => stale'[r] BY <1>1 DEF Busy
<1>3. GapIsThere' /\ PositionFits' BY <1>2 DEF GapIsThere, PositionFits
<1>4. CreatedLast' BY <1>1 DEF OrderInv, CreatedLast
<1>5. (excused = {} => InOrder)'
  <2> SUFFICES ASSUME excused = {}, NEW x \in Live', NEW y \in Live',
                      task'[x].col = task'[y].col, Ahead(wanted, x, y)
               PROVE  Less(task'[x].pos, task'[y].pos)
    BY <1>1 DEF InOrder
  <2>1. /\ x \in Live /\ y \in Live /\ task'[x].pos = task[x].pos /\ task'[y].pos = task[y].pos
        /\ task[x].col = task[y].col
    BY <1>1
  <2> QED BY <2>1 DEF OrderInv, InOrder
<1> QED BY <1>3, <1>4, <1>5 DEF OrderInv

LEMMA AskOrders == ASSUME Ground, OrderInv, NEW r \in Request, AskSome(r) PROVE OrderInv'
<1>1. PICK c : WellAsked(c) /\ Ask(r, c) BY AskGives DEF Ground
<1>2. PICK label \in {"board", "read"} : Keep(r, label, c) BY <1>1 DEF Ask
<1>3. pc'[r] = label /\ call'[r] = c
  <2>1. label \in Label BY DEF Label
  <2> QED BY <1>1, <1>2, <2>1, KeepGives DEF WellAsked, Ground, Basics
<1>4. UNCHANGED <<task, wanted, excused>> BY <1>1 DEF Ask, history
<1>5. Others(r) /\ \A s \in Request \ {r} : stale[s] => stale'[s] BY OthersAre
<1>6. c.op = "create" => c.before = None BY <1>1 DEF WellAsked, Live
<1>7. c.op = "move" => <<c.after, c.before>> \in Gaps(In(c.col) \ {c.task})
  BY <1>1 DEF WellAsked
<1> QED BY <1>3, <1>4, <1>5, <1>6, <1>7, OrderUnwritten

LEMMA NowhereIsLeast ==
  ASSUME NEW q \in Position, q # Nowhere
  PROVE  Less(Nowhere, q)
<1>1. Nowhere \in Position /\ Len(Nowhere) = 0 BY NoCallTyped DEF Nowhere
<1>2. ~Less(q, Nowhere) BY <1>1 DEF Less
<1> QED BY <1>1, <1>2, LessIsTotal

(* A position after the last is after all.  *)
LEMMA AppendedFits ==
  ASSUME Ground, NEW c \in CallRecord, c.before = None,
         c.pos = Between(LastPosition(c.col), Nowhere)
  PROVE  Fits(c)
<1> USE DEF Ground, Basics
<1>1. PICK last \in Position : last = LastPosition(c.col) BY LastIsLast
<1>2. \A x \in In(c.col) : ~Less(last, task[x].pos) BY <1>1, LastIsLast
<1>3. Nowhere \in Position BY NoCallTyped
<1>4. c.pos \in Position BY <1>1, <1>3, BetweenIsPosition DEF CallRecord
<1>5. ASSUME NEW x \in In(c.col) PROVE Less(task[x].pos, c.pos)
  <2>1. task[x].pos \in Position /\ task[x].pos # Nowhere
    BY RowTyped DEF TasksOK, In, Live
  <2>2. last # Nowhere BY <1>2, <2>1, NowhereIsLeast
  <2>3. Room(last, Nowhere) BY DEF Room
  <2>4. Less(last, c.pos) BY <1>1, <1>3, <2>2, <2>3, BetweenIsBetween DEF StrictlyBetween
  <2> QED BY <1>1, <1>2, <1>4, <2>1, <2>4, NotGreater
<1> QED BY <1>5 DEF Fits

(* A position between two neighbours with room between them *)
LEMMA MovedFits ==
  ASSUME Ground, NEW c \in CallRecord, NEW ts, ts = In(c.col) \ {c.task},
         GapOf(ts, c.after, c.before), NEW prev, NEW next,
         prev = PositionOf(c.after), next = PositionOf(c.before), Room(prev, next),
         c.pos = Between(prev, next)
  PROVE  Fits(c)
<1> USE DEF Ground, Basics
<1>1. ts \subseteq Live /\ ts \subseteq Task /\ None \notin Live
  BY DEF In, Live, TasksOK
<1>2. \A x \in ts : /\ task[x].pos \in Position /\ task[x].pos # Nowhere
                    /\ PositionOf(x) = task[x].pos
  BY <1>1, RowTyped DEF TasksOK, PositionOf
<1>3. PositionOf(None) = Nowhere /\ Nowhere \in Position BY <1>1, NoCallTyped DEF PositionOf
<1>4. /\ c.after # None => c.after \in ts /\ prev = task[c.after].pos
      /\ c.after = None => prev = Nowhere
      /\ c.before # None => c.before \in ts /\ next = task[c.before].pos
      /\ c.before = None => next = Nowhere
  BY <1>2, <1>3 DEF GapOf
<1>5. prev \in Position /\ next \in Position BY <1>2, <1>3, <1>4
<1>6. prev = Nowhere \/ next = Nowhere \/ Less(prev, next) BY <1>4 DEF GapOf
<1>7. c.pos \in Position /\ StrictlyBetween(prev, c.pos, next)
  BY <1>5, <1>6, BetweenIsBetween
<1>8. ASSUME NEW x \in ts, c.after # None, ~Less(task[c.after].pos, task[x].pos)
      PROVE  Less(task[x].pos, c.pos)
  <2>1. prev # Nowhere /\ prev = task[c.after].pos BY <1>2, <1>4, <1>8
  <2>2. Less(prev, c.pos) BY <1>7, <2>1 DEF StrictlyBetween
  <2>3. task[x].pos \in Position /\ ~Less(prev, task[x].pos) BY <1>2, <1>8, <2>1
  <2> QED BY <1>5, <1>7, <2>2, <2>3, NotGreater
<1>9. c.before = None => \A x \in ts : Less(task[x].pos, c.pos) BY <1>8 DEF GapOf
<1>10. ASSUME c.before # None
       PROVE  /\ c.before \in ts /\ Less(c.pos, task[c.before].pos)
              /\ \A x \in ts : Less(task[x].pos, task[c.before].pos) => Less(task[x].pos, c.pos)
  <2>1. c.before \in ts /\ next = task[c.before].pos /\ next # Nowhere BY <1>2, <1>4, <1>10
  <2>2. Less(c.pos, task[c.before].pos) BY <1>7, <2>1 DEF StrictlyBetween
  <2>3. ASSUME NEW x \in ts, Less(task[x].pos, task[c.before].pos)
        PROVE  Less(task[x].pos, c.pos)
    <3>1. c.after # None /\ ~Less(task[c.after].pos, task[x].pos) BY <2>3 DEF GapOf
    <3> QED BY <1>8, <3>1
  <2> QED BY <2>1, <2>2, <2>3
<1> QED BY <1>9, <1>10 DEF Fits

(* What a request has read is still where its client wanted the task. *)
LEMMA ReadOrders ==
  ASSUME OnlyBefore = FALSE, Ground, OrderInv, NEW r \in Request, ReadSome(r)
  PROVE  OrderInv'
<1>1. UNCHANGED <<task, wanted, excused>> BY ReadGives DEF Ground, history
<1>2. Others(r) /\ \A s \in Request \ {r} : stale[s] => stale'[s] BY OthersAre
<1>3. /\ call[r] \in CallRecord /\ call' \in [Request -> CallRecord]
      /\ call \in [Request -> CallRecord] /\ pc \in [Request -> Label]
      /\ stale \in [Request -> BOOLEAN]
  BY ReadGround DEF Ground, Basics, RequestsOK
<1>4. pc'[r] # "idle" =>
        /\ call[r].op = call'[r].op /\ call[r].task = call'[r].task /\ call[r].col = call'[r].col
        /\ call[r].before = call'[r].before /\ call[r].after = call'[r].after
        /\ pc[r] # "idle" /\ (~stale'[r] => ~stale[r])
  BY ReadsTo, OthersAre, ReadIsNot
<1>5. call'[r].op = "create" => call'[r].before = None
  <2>1. CASE pc'[r] = "idle"
    <3>1. Placed(r)' BY ReadGround DEF Ground, Basics
    <3> QED BY <2>1, <3>1 DEF Placed, NoCall
  <2>2. CASE pc'[r] # "idle" BY <1>4, <2>2 DEF OrderInv, CreatedLast
  <2> QED BY <2>1, <2>2
<1>6. ASSUME ~stale'[r], call'[r].op = "move", pc'[r] \in {"read", "refs"}
      PROVE  <<call'[r].after, call'[r].before>> \in Gaps(In(call'[r].col) \ {call'[r].task})
  <2>1. pc[r] = "read"
    <3>1. CASE pc[r] = "refs"
      <4>1. GetPositionForRefs(r)
        BY <3>1 DEF ReadSome, GetKnownBoard, GetLastPosition, GetTask, GetPositionForRefs,
           GetPermissions
      <4>2. Goto(r, "idle") \/ \E c : Keep(r, "commit", c) BY <4>1 DEF GetPositionForRefs
      <4>3. pc'[r] \in {"idle", "commit"} BY <1>3, <4>2 DEF Goto, Keep
      <4> QED BY <1>6, <4>3
    <3> QED BY <1>4, <1>6, <3>1 DEF ReadSome, GetKnownBoard, GetLastPosition, GetTask,
          GetPositionForRefs, GetPermissions, Ground, Basics, Placed
  <2>2. <<call[r].after, call[r].before>> \in Gaps(In(call[r].col) \ {call[r].task})
    BY <1>4, <1>6, <2>1 DEF OrderInv, GapIsThere
  <2> QED BY <1>4, <1>6, <2>2
<1>7. ASSUME ~stale'[r], pc'[r] = "commit", call'[r].op \in {"create", "move"}
      PROVE  Fits(call'[r])
  <2>1. PICK c \in CallRecord : c = call'[r] BY <1>3
  <2>2. ~Goto(r, "idle") BY <1>3, <1>7 DEF Goto
  <2>3. pc[r] \in {"last", "refs"}
    BY <1>4, <1>7, <2>2 DEF ReadSome, GetKnownBoard, GetLastPosition, GetTask,
       GetPositionForRefs, GetPermissions, Ground, Basics, Placed, Goto, Keep, RequestsOK
  <2>4. CASE pc[r] = "last"
    <3>1. GetLastPosition(r)
      BY <2>4 DEF ReadSome, GetKnownBoard, GetLastPosition, GetTask, GetPositionForRefs,
         GetPermissions
    <3>2. PICK pos, status :
            /\ Keep(r, "commit", [call[r] EXCEPT !.status = status, !.pos = pos])
            /\ pos = Between(LastPosition(call[r].col), Nowhere)
      BY <2>2, <3>1 DEF GetLastPosition
    <3>3. call'[r] = [call[r] EXCEPT !.status = status, !.pos = pos] BY <1>3, <3>2 DEF Keep
    <3>4. c.pos = Between(LastPosition(c.col), Nowhere)
      <4>1. c.pos = pos BY <1>3, <2>1, <3>3 DEF CallRecord
      <4>2. c.col = call[r].col BY <1>4, <1>7, <2>1
      <4> QED BY <3>2, <4>1, <4>2
    <3>5. call[r].op = "create" BY <2>4 DEF Ground, Basics, Placed
    <3>6. c.before = None BY <1>4, <1>7, <2>1, <3>5 DEF OrderInv, CreatedLast
    <3> QED BY <2>1, <3>4, <3>6, AppendedFits
  <2>5. CASE pc[r] = "refs"
    <3>1. GetPositionForRefs(r)
      BY <2>5 DEF ReadSome, GetKnownBoard, GetLastPosition, GetTask, GetPositionForRefs,
         GetPermissions
    <3>2. PICK pos, status, prev, next :
            /\ Keep(r, "commit", [call[r] EXCEPT !.pos = pos, !.status = status])
            /\ prev = PositionOf(call[r].after) /\ next = PositionOf(call[r].before)
            /\ pos = Between(prev, next)
            /\ stale' = [stale EXCEPT ![r] = @ \/ ~Room(prev, next)]
      BY <2>2, <3>1 DEF GetPositionForRefs
    <3>3. call'[r] = [call[r] EXCEPT !.pos = pos, !.status = status] BY <1>3, <3>2 DEF Keep
    <3>4. c.pos = pos BY <1>3, <2>1, <3>3 DEF CallRecord
    <3>5. /\ c.col = call[r].col /\ c.task = call[r].task
          /\ c.before = call[r].before /\ c.after = call[r].after /\ ~stale[r]
      BY <1>4, <1>7, <2>1
    <3>6. Room(prev, next) BY <1>3, <1>7, <3>2
    <3>7. PICK ts : ts = In(c.col) \ {c.task} OBVIOUS
    <3>8. call[r].op = "move" BY <2>5 DEF Ground, Basics, Placed
    <3>9. GapOf(ts, c.after, c.before)
      <4>1. <<c.after, c.before>> \in Gaps(ts)
        BY <2>5, <3>5, <3>7, <3>8 DEF OrderInv, GapIsThere
      <4> QED BY <4>1, GapsAre
    <3>10. prev = PositionOf(c.after) /\ next = PositionOf(c.before) /\ c.pos = Between(prev, next)
      BY <3>2, <3>4, <3>5
    <3>11. Fits(c) BY <3>6, <3>7, <3>9, <3>10, MovedFits
    <3> QED BY <2>1, <3>11
  <2> QED BY <2>3, <2>4, <2>5
<1> QED BY <1>1, <1>2, <1>5, <1>6, <1>7, OrderUnwritten

(* A task put where it fits leaves the columns in the clients' order. *)
LEMMA PlacedInOrder ==
  ASSUME Ground, InOrder, NEW c \in CallRecord, NEW t0 \in Task, t0 = c.task, t0 # None,
         c.before # t0, Fits(c), wanted' = Place(t0, c.before),
         \A x \in Task \ {t0} : task'[x] = task[x],
         task'[t0].col = c.col, task'[t0].pos = c.pos
  PROVE  InOrder'
<1>1. /\ wanted \in Seq(Task) /\ Once(wanted) /\ ~Has(wanted, None)
      /\ \A t \in Live : Has(wanted, t)
  BY DEF Ground, Basics, TasksOK
<1>2. /\ wanted' \in Seq(Task) /\ Once(wanted')
      /\ \A x, y \in Task \ {t0} : Ahead(wanted', x, y) => Ahead(wanted, x, y)
      /\ \A x \in Task \ {t0} : Ahead(wanted', x, t0) /\ Has(wanted, c.before) =>
                                  Ahead(wanted, x, c.before)
      /\ \A y \in Task \ {t0} : Ahead(wanted', t0, y) =>
                                  y = c.before \/ Ahead(wanted, c.before, y)
  BY <1>1, PlaceGives
<1>3. PICK ts : ts = In(c.col) \ {t0} OBVIOUS
<1>4. /\ c.before = None => \A x \in ts : Less(task[x].pos, c.pos)
      /\ c.before # None =>
           /\ c.before \in ts /\ Less(c.pos, task[c.before].pos)
           /\ \A x \in ts : Less(task[x].pos, task[c.before].pos) => Less(task[x].pos, c.pos)
  BY <1>3 DEF Fits
<1>5. \A x \in Live' \ {t0} : x \in Live /\ x \in Task /\ task'[x] = task[x] BY DEF Live
<1>6. \A x \in Live' \ {t0} : task'[x].col = c.col => x \in ts BY <1>3, <1>5 DEF In
<1>7. \A x \in ts : x \in Live /\ x # t0 /\ task[x].col = c.col BY <1>3 DEF In
<1>8. \A x \in Live : x # None BY <1>1
<1> SUFFICES ASSUME NEW x \in Live', NEW y \in Live', task'[x].col = task'[y].col,
                    Ahead(wanted', x, y)
             PROVE  Less(task'[x].pos, task'[y].pos)
  BY DEF InOrder
<1>9. CASE x # t0 /\ y # t0
  <2>1. Ahead(wanted, x, y) BY <1>2, <1>5, <1>9
  <2> QED BY <1>5, <1>9, <2>1 DEF InOrder
<1>10. CASE x = t0 /\ y = t0
  <2>1. ~Ahead(wanted', t0, t0) BY <1>2 DEF Once, Ahead
  <2> QED BY <1>10, <2>1
<1>11. CASE x = t0 /\ y # t0
  <2>1. y \in ts /\ y \in Live /\ y \in Task /\ task'[y] = task[y] BY <1>5, <1>6, <1>11
  <2>2. y = c.before \/ Ahead(wanted, c.before, y) BY <1>2, <1>11, <2>1
  <2>3. c.before # None
    <3>1. ~Ahead(wanted, None, y) BY <1>1 DEF Has, Ahead
    <3> QED BY <1>8, <2>1, <2>2, <3>1
  <2>4. c.before \in ts /\ Less(c.pos, task[c.before].pos) BY <1>4, <2>3
  <2>5. CASE y = c.before BY <1>11, <2>1, <2>4, <2>5
  <2>6. CASE Ahead(wanted, c.before, y)
    <3>1. c.before \in Live /\ task[c.before].col = task[y].col BY <1>7, <2>1, <2>4
    <3>2. Less(task[c.before].pos, task[y].pos) BY <2>1, <2>6, <3>1 DEF InOrder
    <3>3. /\ c.pos \in Position /\ task[c.before].pos \in Position /\ task[y].pos \in Position
      BY <2>1, <3>1, RowTyped DEF CallRecord, Live, Ground, Basics
    <3>4. Less(c.pos, task[y].pos) BY <2>4, <3>2, <3>3, LessIsTransitive
    <3> QED BY <1>11, <2>1, <3>4
  <2> QED BY <2>2, <2>5, <2>6
<1>12. CASE x # t0 /\ y = t0
  <2>1. x \in ts /\ x \in Live /\ x \in Task /\ task'[x] = task[x] BY <1>5, <1>6, <1>12
  <2>2. CASE c.before = None BY <1>4, <1>12, <2>1, <2>2
  <2>3. CASE c.before # None
    <3>1. c.before \in ts /\ c.before \in Live /\ task[c.before].col = task[x].col
      BY <1>4, <1>7, <2>1, <2>3
    <3>2. Ahead(wanted, x, c.before) BY <1>1, <1>2, <1>12, <2>1, <3>1
    <3>3. Less(task[x].pos, task[c.before].pos) BY <2>1, <3>1, <3>2 DEF InOrder
    <3> QED BY <1>4, <1>12, <2>1, <2>3, <3>3
  <2> QED BY <2>2, <2>3
<1> QED BY <1>9, <1>10, <1>11, <1>12

LEMMA SameColumnIs ==
  ASSUME Ground, NEW t0 \in Task, \A x \in Task \ {t0} : task'[x] = task[x], NEW k,
         \/ t0 \notin In(k) /\ t0 \notin In(k)'
         \/ task'[t0].st = task[t0].st /\ task'[t0].col = task[t0].col
            /\ task'[t0].pos = task[t0].pos
  PROVE  SameColumn(k)
  BY DEF SameColumn, In, Live

(* What the other requests have read holds, unless they are stale now. *)
LEMMA OrderOthers ==
  ASSUME OnlyBefore = FALSE, Ground, OrderInv, NEW r \in Request, Others(r),
         pc'[r] \in {"idle", "tell"}, call'[r].op # "create",
         \A s \in Request \ {r} : stale[s] => stale'[s],
         \A s \in Request \ {r} : \A k :
           Busy(s) /\ ~stale'[s] /\ k = call[s].col => SameColumn(k)
  PROVE  GapIsThere' /\ PositionFits' /\ CreatedLast'
<1>1. ASSUME NEW s \in Request, pc'[s] \notin {"idle", "tell"}, ~stale'[s]
      PROVE  /\ pc'[s] = pc[s] /\ call'[s] = call[s] /\ ~stale[s]
             /\ \A k : k = call[s].col => SameColumn(k)
  BY <1>1 DEF Others, Busy
<1>2. GapIsThere'
  <2> SUFFICES ASSUME NEW s \in Request, ~stale'[s], call'[s].op = "move",
                      pc'[s] \in {"read", "refs"}
               PROVE  (<<call[s].after, call[s].before>> \in Gaps(In(call[s].col) \ {call[s].task}))'
    BY DEF GapIsThere
  <2>1. PICK c, k, ts : c = call'[s] /\ k = c.col /\ ts = In(c.col) \ {c.task} OBVIOUS
  <2>2. c = call[s] /\ pc'[s] = pc[s] /\ ~stale[s] /\ SameColumn(k) BY <1>1, <2>1
  <2>3. <<c.after, c.before>> \in Gaps(ts) BY <2>1, <2>2 DEF OrderInv, GapIsThere
  <2>4. GapOf(ts, c.after, c.before) BY <2>3, GapsAre
  <2>5. ts = In(c.col)' \ {c.task} /\ \A x \in ts : task'[x].pos = task[x].pos
    BY <2>1, <2>2 DEF SameColumn
  <2>6. PICK a, b : a = c.after /\ b = c.before OBVIOUS
  <2>7. GapOf(ts, a, b)' BY <2>4, <2>5, <2>6, GapStays
  <2>8. (<<a, b>> \in Gaps(ts))' BY <2>7 DEF Gaps, GapOf
  <2> QED BY <2>1, <2>5, <2>6, <2>8
<1>3. PositionFits'
  <2> SUFFICES ASSUME NEW s \in Request, ~stale'[s], pc'[s] = "commit",
                      call'[s].op \in {"create", "move"}
               PROVE  Fits(call[s])'
    BY DEF PositionFits
  <2>1. PICK c, k : c = call'[s] /\ k = c.col OBVIOUS
  <2>2. c = call[s] /\ pc'[s] = pc[s] /\ ~stale[s] /\ SameColumn(k) BY <1>1, <2>1
  <2>3. Fits(c) BY <2>1, <2>2 DEF OrderInv, PositionFits
  <2>4. Fits(c)' BY <2>1, <2>2, <2>3, FitsStays
  <2> QED BY <2>1, <2>4 DEF Fits
<1>4. CreatedLast' BY DEF OrderInv, CreatedLast, Others
<1> QED BY <1>2, <1>3, <1>4

LEMMA InOrderStays ==
  ASSUME InOrder, UNCHANGED wanted,
         \A x \in Live' : x \in Live /\ task'[x].col = task[x].col /\ task'[x].pos = task[x].pos
  PROVE  InOrder'
  BY DEF InOrder

(* Those that write see that others may have read before them. *)
LEMMA WritesOrder ==
  ASSUME OnlyBefore = FALSE, Ground, OrderInv, NEW r \in Request, WriteSome(r)
  PROVE  OrderInv'
<1>1. Others(r) /\ \A s \in Request \ {r} : stale[s] => stale'[s] BY OthersAre
<1>2. /\ task \in [Task -> Row] /\ Live \subseteq Task /\ stale \in [Request -> BOOLEAN]
  BY DEF Ground, Basics, TasksOK, RequestsOK, Live
<1>3. ASSUME Goto(r, "idle")
      PROVE  pc'[r] \in {"idle", "tell"} /\ call'[r].op # "create"
  <2>1. "idle" \in Label BY DEF Label
  <2> QED BY <1>3, <2>1, GotoGives DEF Ground, Basics, NoCall
<1>4. ASSUME NEW t, NEW cols, Touch(r, t, cols)
      PROVE  \A s \in Request \ {r} : Busy(s) /\ ~stale'[s] => call[s].col \notin cols
  BY <1>4 DEF Touch
<1>5. ASSUME pc'[r] \in {"idle", "tell"}, call'[r].op # "create", excused \subseteq excused',
             NEW t0 \in Task, \A x \in Task \ {t0} : task'[x] = task[x],
             task'[t0].st = task[t0].st, task'[t0].col = task[t0].col,
             task'[t0].pos = task[t0].pos, UNCHANGED wanted
      PROVE  OrderInv'
  <2>1. \A k : SameColumn(k) BY <1>5, SameColumnIs
  <2>2. GapIsThere' /\ PositionFits' /\ CreatedLast' BY <1>1, <1>5, <2>1, OrderOthers
  <2>3. \A x \in Live' : x \in Live /\ task'[x].col = task[x].col /\ task'[x].pos = task[x].pos
    BY <1>5 DEF Live
  <2>4. (excused = {} => InOrder)' BY <1>5, <2>3, InOrderStays DEF OrderInv
  <2> QED BY <2>2, <2>4 DEF OrderInv
<1>6. CASE NoRow(r)
  <2>1. call[r].task \in Task BY <1>6 DEF NoRow
  <2> QED BY <1>3, <1>5, <1>6, <2>1 DEF NoRow
<1>7. CASE CreateTask(r) \/ (MoveTask(r) /\ ~NoRow(r))
  <2>1. PICK c \in CallRecord : c = call[r] BY DEF Ground, Basics, RequestsOK
  <2>2. PICK t0 : t0 = c.task OBVIOUS
  <2>3. PICK cols : /\ c.col \in cols /\ Touch(r, t0, cols)
                    /\ t0 \in Live => task[t0].col \in cols
    <3>1. CASE CreateTask(r)
      <4>1. Touch(r, t0, {c.col}) /\ t0 \notin Live
        BY <2>1, <2>2, <3>1, CreateGives DEF Live
      <4> QED BY <4>1
    <3>2. CASE MoveTask(r) /\ ~NoRow(r)
      <4>1. Touch(r, t0, {c.col, task[t0].col}) BY <2>1, <2>2, <3>2, MoveGives
      <4> QED BY <4>1
    <3> QED BY <1>7, <3>1, <3>2
  <2>4. /\ t0 \in Task /\ t0 # None /\ c.before # t0 /\ wanted' = Place(t0, c.before)
        /\ \A x \in Task \ {t0} : task'[x] = task[x]
        /\ task'[t0].col = c.col /\ task'[t0].pos = c.pos
        /\ Excuse(r, t0) /\ Goto(r, "idle")
        /\ pc[r] = "commit" /\ c.op \in {"create", "move"}
    <3>1. CASE CreateTask(r)
      <4>1. pc[r] = "commit" /\ c.op = "create" BY <2>1, <3>1 DEF CreateTask
      <4>2. c.before = None BY <2>1, <4>1 DEF OrderInv, CreatedLast
      <4> QED BY <2>1, <2>2, <3>1, <4>1, <4>2, CreateGives
    <3>2. CASE MoveTask(r) /\ ~NoRow(r)
      <4>1. pc[r] = "commit" /\ c.op = "move" BY <2>1, <3>2 DEF MoveTask
      <4> QED BY <2>1, <2>2, <3>2, <4>1, MoveGives DEF RowWritten
    <3> QED BY <1>7, <3>1, <3>2
  <2>5. ASSUME NEW s \in Request \ {r}, NEW k, Busy(s), ~stale'[s], k = call[s].col
        PROVE  SameColumn(k)
    <3>1. k \notin cols BY <1>4, <2>3, <2>5
    <3>2. t0 \notin In(k) /\ t0 \notin In(k)' BY <2>3, <2>4, <3>1 DEF In, Live
    <3> QED BY <2>4, <3>2, SameColumnIs
  <2>6. GapIsThere' /\ PositionFits' /\ CreatedLast' BY <1>1, <1>3, <2>4, <2>5, OrderOthers
  <2>7. ASSUME excused' = {} PROVE InOrder'
    <3>1. excused = {} /\ ~stale[r] BY <2>4, <2>7 DEF Excuse
    <3>2. Fits(c) BY <2>1, <2>4, <3>1 DEF OrderInv, PositionFits
    <3> QED BY <2>2, <2>4, <3>1, <3>2, PlacedInOrder DEF OrderInv
  <2> QED BY <2>6, <2>7 DEF OrderInv
<1>8. CASE (AssignTask(r) \/ WriteTask(r)) /\ ~NoRow(r)
  <2>1. PICK t0 : t0 = call[r].task OBVIOUS
  <2>2. /\ RowWritten(r) /\ task'[t0].st = "live" /\ task'[t0].col = task[t0].col
        /\ task'[t0].pos = task[t0].pos /\ UNCHANGED wanted /\ excused \subseteq excused'
        /\ pc'[r] \in {"idle", "tell"} /\ call'[r].op # "create"
    <3>1. CASE AssignTask(r) BY <1>3, <1>8, <2>1, <3>1, AssignGives DEF Excuse
    <3>2. CASE WriteTask(r)
      <4>1. Goto(r, "tell") /\ call[r].op = "update" BY <1>8, <3>2, WriteGives
      <4>2. "tell" \in Label BY DEF Label
      <4>3. pc'[r] = "tell" /\ call'[r] = call[r]
        BY <4>1, <4>2, GotoGives DEF Ground, Basics
      <4> QED BY <1>8, <2>1, <3>2, <4>1, <4>3, WriteGives
    <3> QED BY <1>8, <3>1, <3>2
  <2>3. /\ t0 \in Task /\ task[t0].st = "live" /\ \A x \in Task \ {t0} : task'[x] = task[x]
    BY <2>1, <2>2 DEF RowWritten, Live
  <2> QED BY <1>5, <2>2, <2>3
<1>9. CASE DeleteTask(r)
  <2>1. PICK t0 \in Task : t0 = call[r].task BY <1>9, DeleteGives
  <2>2. /\ \A x \in Task \ {t0} : task'[x] = task[x]
        /\ task'[t0].st = "deleted" /\ UNCHANGED <<wanted, excused>>
        /\ Touch(r, t0, {task[t0].col}) /\ Goto(r, "idle")
    BY <1>9, <2>1, DeleteGives
  <2>3. ASSUME NEW s \in Request \ {r}, NEW k, Busy(s), ~stale'[s], k = call[s].col
        PROVE  SameColumn(k)
    <3>1. k # task[t0].col BY <1>4, <2>2, <2>3
    <3>2. t0 \notin In(k) /\ t0 \notin In(k)' BY <2>2, <3>1 DEF In, Live
    <3> QED BY <2>2, <3>2, SameColumnIs
  <2>4. GapIsThere' /\ PositionFits' /\ CreatedLast' BY <1>1, <1>3, <2>2, <2>3, OrderOthers
  <2>5. \A x \in Live' : x \in Live /\ task'[x].col = task[x].col /\ task'[x].pos = task[x].pos
    BY <2>2 DEF Live
  <2>6. (excused = {} => InOrder)' BY <2>2, <2>5, InOrderStays DEF OrderInv
  <2> QED BY <2>4, <2>6 DEF OrderInv
<1>10. CASE TellUpdate(r) \/ RequestFails(r)
  <2>1. PICK t0 \in Task : t0 = call[r].task
    <3>1. pc[r] # "idle" BY <1>10 DEF TellUpdate, RequestFails, Busy
    <3> QED BY <3>1 DEF Ground, Basics, Placed
  <2>2. UNCHANGED <<task, wanted>> /\ excused \subseteq excused' /\ Goto(r, "idle")
    BY <1>10, TellGives, FailGives DEF Excuse
  <2> QED BY <1>3, <1>5, <2>2
<1> QED BY <1>6, <1>7, <1>8, <1>9, <1>10 DEF WriteSome

LEMMA OrderStays ==
  ASSUME OnlyBefore = FALSE, Ground, OrderInv, [Next]_vars
  PROVE  OrderInv'
<1>1. CASE UNCHANGED vars
  <2>1. UNCHANGED <<task, pc, call, stale, excused, wanted>>
    BY <1>1 DEF vars, requestVars, history
  <2>2. Live' = Live /\ \A k : In(k)' = In(k) BY <2>1 DEF Live, In
  <2>3. (excused = {} => InOrder)' BY <2>1, <2>2 DEF OrderInv, InOrder
  <2>4. PositionFits' /\ CreatedLast'
    BY <2>1, <2>2 DEF OrderInv, PositionFits, CreatedLast, Fits
  <2>5. GapIsThere'
    <3>1. \A ts : Gaps(ts)' = Gaps(ts) BY <2>1 DEF Gaps
    <3> QED BY <2>1, <2>2, <3>1 DEF OrderInv, GapIsThere
  <2> QED BY <2>3, <2>4, <2>5 DEF OrderInv
<1> QED BY <1>1, NextIs, OrderOutside, OrderSweeps, AskOrders, ReadOrders, WritesOrder

(* A column shows its tasks in the order in which the clients put them, as *)
(* long as no two requests overlapped and there was room; of clients that  *)
(* name both neighbours of the place, or its only one.                     *)
THEOREM OrderIsKept == OnlyBefore = FALSE => (Spec => []OrderKept)
<1>1. Init => OrderInv
  BY DEF Init, OrderInv, InOrder, GapIsThere, PositionFits, CreatedLast, Live, Nobody, NoCall
<1>2. Ground /\ OrderInv => OrderKept BY OrderKeptIs DEF Ground, Basics, TasksOK, OrderInv
<1>3. CASE OnlyBefore = FALSE
  <2>1. Ground /\ OrderInv /\ [Next]_vars => OrderInv' BY <1>3, OrderStays
  <2>2. Spec => []OrderKept BY <1>1, <1>2, <2>1, GroundHolds, PTL DEF Spec
  <2> QED BY <2>2
<1> QED BY <1>3

=============================================================================
