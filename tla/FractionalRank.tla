----------------------------- MODULE FractionalRank -----------------------------
(***************************************************************************)
(* The positions of tasks: strings over an alphabet of Base characters,    *)
(* here sequences of their indices (task/internal/ordering).  Between      *)
(* answers NoSpaceLeft where the code returns the error of that name.      *)
(***************************************************************************)
EXTENDS Integers, Sequences

CONSTANT Base       \* the size of the alphabet, 62 in the code

ASSUME RankAssumption == Base \in Nat /\ Base >= 4

Digit == 0..(Base - 1)
Position == Seq(Digit)
Nowhere == << >>            \* "": before everything, or after everything
NoSpaceLeft == <<Base>>     \* no position

(* The order of strings, in Go as in the database *)
Less(p, q) ==
  \E i \in 1..Len(q) :
    /\ i <= Len(p) + 1
    /\ \A j \in 1..(i - 1) : p[j] = q[j]
    /\ i <= Len(p) => p[i] < q[i]

Middle == Base \div 2

Initial == <<Middle - 1>>

Append_(prev) == Append(prev, Middle)

(* The last character that is not the first of the alphabet is decremented *)
(* and what follows it is dropped.                                         *)
Prepend_(next) ==
  IF \A i \in 1..Len(next) : next[i] = 0
  THEN <<0>> \o next
  ELSE LET i == CHOOSE k \in 1..Len(next) :
                  /\ next[k] # 0
                  /\ \A j \in (k + 1)..Len(next) : next[j] = 0
       IN Append(SubSeq(next, 1, i - 1), next[i] - 1)

(* prev continues with the first character, next with one past the last *)
PrevAt(p, i) == IF i <= Len(p) THEN p[i] ELSE 0
NextAt(q, i) == IF i <= Len(q) THEN q[i] ELSE Base

(* The first place where the two differ by more than one is halved.  What  *)
(* is returned does not end in the first character: trimRight never trims. *)
Midpoint(prev, next) ==
  LET i == CHOOSE k \in 1..(Len(next) + 1) :
             /\ PrevAt(prev, k) # NextAt(next, k)
             /\ \A j \in 1..(k - 1) : PrevAt(prev, j) = NextAt(next, j)
      pc == PrevAt(prev, i)
      nc == NextAt(next, i)
      same == SubSeq(next, 1, i - 1)
  IN IF nc - pc > 1 THEN Append(same, (pc + nc) \div 2)
     ELSE IF nc - pc = 1
          THEN Append(Append(same, pc) \o SubSeq(prev, i + 1, Len(prev)), Middle)
          ELSE NoSpaceLeft

Between(prev, next) ==
  CASE prev = Nowhere /\ next = Nowhere -> Initial
    [] prev # Nowhere /\ next = Nowhere -> Append_(prev)
    [] prev = Nowhere /\ next # Nowhere -> Prepend_(next)
    [] OTHER -> IF Less(prev, next) THEN Midpoint(prev, next) ELSE NoSpaceLeft

-----------------------------------------------------------------------------
(* What the functions are for.  There is no string between another one and *)
(* the same followed by zeros, nor one before zeros alone.                 *)
Room(prev, next) ==
  next = Nowhere \/ \E i \in 1..Len(next) : next[i] # PrevAt(prev, i)

StrictlyBetween(prev, pos, next) ==
  /\ prev # Nowhere => Less(prev, pos)
  /\ next # Nowhere => Less(pos, next)
=============================================================================
