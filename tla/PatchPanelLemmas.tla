-------------------------- MODULE PatchPanelLemmas --------------------------
(***************************************************************************)
(* Facts about the operators of PatchPanel and about sequences that the     *)
(* proofs of several components need.                                       *)
(***************************************************************************)
EXTENDS PatchPanel, Integers, WellFoundedInduction, TLAPS

\* A sequence, of whatever it holds.
IsSequence(s) == s \in Seq(Elements(s))

\* The elements of a list are what is at its positions.
LEMMA ElementAt ==
    ASSUME NEW s
    PROVE  /\ \A x \in DOMAIN s : s[x] \in Elements(s)
           /\ \A e \in Elements(s) : \E x \in DOMAIN s : e = s[x]
BY DEF Elements

\* Least(S), the `next(...)` of the source, is a member of any nonempty set of
\* positions, and its least one.
LEMMA LeastOfNaturals ==
    ASSUME NEW S \in SUBSET Nat, S # {}
    PROVE  Least(S) \in S /\ \A j \in S : Least(S) <= j
<1> DEFINE R == { ss \in Nat \X Nat : ss[1] < ss[2] }
<1>1. R = OpToRel(<, Nat)
  BY Zenon DEF OpToRel
<1>2. IsWellFoundedOn(R, Nat)
  BY <1>1, NatLessThanWellFounded
<1>3. PICK x \in S : \A y \in S : ~(<<y, x>> \in R)
  <2> HIDE DEF R
  <2> QED BY <1>2, WFMin
<1>4. ASSUME NEW y \in S PROVE x <= y
  <2>1. x \in Nat /\ y \in Nat
    OBVIOUS
  <2>2. ~(y < x)
    <3>1. ~(<<y, x>> \in Nat \X Nat /\ <<y, x>>[1] < <<y, x>>[2])
      BY <1>3, Zenon
    <3> QED BY <3>1, <2>1
  <2> QED BY <2>1, <2>2
<1> QED BY <1>4 DEF Least

\* A bounded set of dates has a latest one.
LEMMA GreatestOfBounded ==
    ASSUME NEW S \in SUBSET Nat, S # {}, NEW bound \in Nat, \A m \in S : m <= bound
    PROVE  \E m \in S : \A n \in S : n <= m
<1> DEFINE U == { n \in Nat : \A m \in S : m <= n }
           g == Least(U)
<1>1. g \in U /\ \A u \in U : g <= u
  <2>1. U # {} /\ U \in SUBSET Nat
    OBVIOUS
  <2> HIDE DEF U
  <2> QED BY <2>1, LeastOfNaturals
<1>2. g \in Nat /\ \A m \in S : m <= g
  BY <1>1
<1> HIDE DEF g
<1>3. g \in S
  <2> SUFFICES ASSUME g \notin S PROVE FALSE
    OBVIOUS
  <2>1. PICK m \in S : TRUE
    OBVIOUS
  <2>2. m \in Nat /\ m < g
    BY <1>2
  <2>3. g - 1 \in Nat
    BY <1>2, <2>2
  <2>4. \A n \in S : n <= g - 1
    BY <1>2
  <2>5. g - 1 \in U
    BY <2>3, <2>4
  <2>6. g <= g - 1
    BY <1>1, <2>5
  <2> QED BY <2>6, <1>2
<1> QED BY <1>2, <1>3

\* list.append: the new element comes after all others, which stay where they are.
LEMMA SequenceAppend ==
    ASSUME NEW s, IsSequence(s), NEW e
    PROVE  /\ IsSequence(Append(s, e))
           /\ Len(s) \in Nat
           /\ DOMAIN s = 1..Len(s)
           /\ DOMAIN Append(s, e) = DOMAIN s \union {Len(s) + 1}
           /\ Len(s) + 1 \notin DOMAIN s
           /\ Append(s, e)[Len(s) + 1] = e
           /\ \A i \in DOMAIN s : Append(s, e)[i] = s[i]
<1> DEFINE S == Elements(s) \union {e}
<1>1. s \in Seq(S) /\ e \in S
  <2>1. \A i \in 1..Len(s) : s[i] \in S
    BY DEF Elements, IsSequence
  <2> HIDE DEF S
  <2> QED BY <2>1 DEF IsSequence, S
<1> HIDE DEF S
<1>2. /\ Append(s, e) \in Seq(S) /\ Len(s) \in Nat /\ DOMAIN s = 1..Len(s)
      /\ DOMAIN Append(s, e) = 1..(Len(s) + 1) /\ Len(Append(s, e)) = Len(s) + 1
      /\ Append(s, e)[Len(s) + 1] = e
      /\ \A i \in DOMAIN s : Append(s, e)[i] = s[i]
  BY <1>1
<1>3. IsSequence(Append(s, e))
  <2> DEFINE a == Append(s, e)
  <2>1. \A i \in 1..Len(a) : a[i] \in Elements(a)
    BY <1>2 DEF Elements
  <2> HIDE DEF a
  <2>2. a \in Seq(S)
    BY <1>2 DEF a
  <2>3. a \in Seq(Elements(a))
    BY <2>1, <2>2
  <2> QED BY <2>3 DEF IsSequence, a
<1> QED BY <1>2, <1>3

\* A comprehension over a list is a list of the same length.
LEMMA SequenceMap ==
    ASSUME NEW s, IsSequence(s), NEW f, f = [i \in DOMAIN s |-> f[i]]
    PROVE  IsSequence(f) /\ Len(f) = Len(s)
<1>1. Len(s) \in Nat /\ DOMAIN s = 1..Len(s)
  BY DEF IsSequence
<1>2. \A i \in 1..Len(s) : f[i] \in Elements(f)
  BY <1>1 DEF Elements
<1>3. f \in Seq(Elements(f)) /\ Len(f) = Len(s)
  BY <1>1, <1>2
<1> QED BY <1>3 DEF IsSequence

\* The rest of a list of statements or steps to run: its elements are those of
\* the list, and the list has no others but its head.
LEMMA TailElements ==
    ASSUME NEW s, IsSequence(s), s # << >>
    PROVE  /\ IsSequence(Tail(s))
           /\ Elements(Tail(s)) \subseteq Elements(s)
           /\ Elements(s) = {Head(s)} \union Elements(Tail(s))
           /\ Len(Tail(s)) = Len(s) - 1 /\ Len(s) \in Nat
           /\ DOMAIN s = 1..Len(s)
           /\ DOMAIN Tail(s) = 1..(Len(s) - 1)
           /\ \A i \in 1..(Len(s) - 1) : Tail(s)[i] = s[i + 1]
<1> DEFINE S == Elements(s)
<1>1. s \in Seq(S)
  BY DEF IsSequence
<1> HIDE DEF S
<1>2. /\ Tail(s) \in Seq(S) /\ Len(Tail(s)) = Len(s) - 1 /\ Len(s) \in Nat \ {0}
      /\ DOMAIN s = 1..Len(s) /\ DOMAIN Tail(s) = 1..(Len(s) - 1)
      /\ \A i \in 1..(Len(s) - 1) : Tail(s)[i] = s[i + 1]
      /\ Head(s) = s[1]
  BY <1>1
<1>3. Elements(Tail(s)) \subseteq Elements(s)
  BY <1>2 DEF Elements
<1>4. Elements(s) \subseteq {Head(s)} \union Elements(Tail(s))
  <2> SUFFICES ASSUME NEW i \in 1..Len(s) PROVE s[i] \in {Head(s)} \union Elements(Tail(s))
    BY <1>2 DEF Elements
  <2>1. CASE i = 1
    BY <2>1, <1>2
  <2>2. CASE i # 1
    <3>1. i - 1 \in DOMAIN Tail(s) /\ Tail(s)[i - 1] = s[i]
      BY <2>2, <1>2
    <3> QED BY <3>1 DEF Elements
  <2> QED BY <2>1, <2>2
<1>5. Head(s) \in Elements(s)
  BY <1>2 DEF Elements
<1>6. IsSequence(Tail(s))
  <2> DEFINE a == Tail(s)
  <2>1. \A i \in 1..Len(a) : a[i] \in Elements(a)
    BY <1>2 DEF Elements
  <2> HIDE DEF a
  <2>2. a \in Seq(S)
    BY <1>2 DEF a
  <2>3. a \in Seq(Elements(a))
    BY <2>1, <2>2
  <2> QED BY <2>3 DEF IsSequence, a
<1> QED BY <1>2, <1>3, <1>4, <1>5, <1>6
=============================================================================
