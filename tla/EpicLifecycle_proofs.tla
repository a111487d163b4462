------------------------ MODULE EpicLifecycle_proofs ---------------------------
(***************************************************************************)
(* Proofs about epics: what the folds over a plan compute, for plans of    *)
(* any length, and what an epic keeps.                                     *)
(*                                                                         *)
(* The induction the folds need is that of WellFoundedInduction, stated    *)
(* for a set of numbers in place of a predicate.                           *)
(***************************************************************************)
EXTENDS EpicLifecycle, SequenceTheorems, FiniteSetTheorems, WellFoundedInduction, TLAPS

--------------------------------------------------------------------------------
(***************************************************************************)
(* Induction.                                                              *)
(***************************************************************************)

\* A set of numbers with an element has a least one.
LEMMA Least ==
  ASSUME NEW S, S \subseteq Nat, S # {}
  PROVE  \E m \in S : \A n \in S : m <= n
<1> DEFINE R == {ss \in Nat \X Nat : ss[1] < ss[2]}
<1>1. IsWellFoundedOn(R, Nat)
  BY NatLessThanWellFounded DEF OpToRel
<1> HIDE DEF R
<1>2. PICK m \in S : \A n \in S : ~(<<n, m>> \in R)
  BY <1>1, WFMin
<1>3. \A n \in S : ~(n < m)
  <2> SUFFICES ASSUME NEW n \in S, n < m PROVE FALSE
    OBVIOUS
  <2>1. <<n, m>> \in Nat \X Nat /\ <<n, m>>[1] < <<n, m>>[2]
    OBVIOUS
  <2>2. <<n, m>> \in R
    BY <2>1 DEF R
  <2> QED BY <1>2, <2>2
<1> QED BY <1>3

\* What holds of 0 and is handed on up to N holds up to N.
LEMMA Induct ==
  ASSUME NEW N \in Nat, NEW S, 0 \in S, \A i \in 0..N : i \in S /\ i < N => i + 1 \in S
  PROVE  \A i \in 0..N : i \in S
<1> DEFINE D == (0..N) \ S
<1> SUFFICES ASSUME D # {} PROVE FALSE
  OBVIOUS
<1>1. D \subseteq Nat
  OBVIOUS
<1>2. PICK m \in D : \A n \in D : m <= n
  BY <1>1, Least
<1>3. m \in 0..N /\ m # 0 /\ m - 1 \in 0..N /\ m - 1 < N
  OBVIOUS
<1>4. m - 1 \notin D
  BY <1>2, <1>3
<1>5. (m - 1) + 1 = m
  BY <1>3
<1> QED BY <1>3, <1>4, <1>5

--------------------------------------------------------------------------------
(***************************************************************************)
(* FoldLeft goes through the numbers of a sequence from left to right.     *)
(***************************************************************************)

\* The last index of a set of indices.
LEMMA MaxIs ==
  ASSUME NEW n \in Nat, NEW s \in SUBSET (1..n), s # {}
  PROVE  Max(s) \in s /\ \A i \in s : i <= Max(s)
<1> DEFINE S == {k \in 0..n : \A i \in s : i <= k}
<1>1. S \subseteq Nat /\ n \in S
  OBVIOUS
<1>2. PICK m \in S : \A k \in S : m <= k
  BY <1>1, Least
<1>3. m \in s
  <2> SUFFICES ASSUME m \notin s PROVE FALSE
    OBVIOUS
  <2>1. \A i \in s : i \in Nat /\ i <= m /\ i # m /\ i >= 1
    BY <1>2
  <2>2. m # 0 /\ m - 1 \in 0..n
    <3>1. PICK i \in s : TRUE
      OBVIOUS
    <3> QED BY <2>1, <3>1
  <2>3. \A i \in s : i <= m - 1
    BY <2>1
  <2>4. m - 1 \in S
    BY <2>2, <2>3
  <2>5. m <= m - 1
    BY <1>2, <2>4
  <2> QED BY <2>2, <2>5
<1>4. \A i \in s : m >= i
  BY <1>2
<1>5. Max(s) \in s /\ \A i \in s : Max(s) >= i
  BY <1>3, <1>4 DEF Max
<1> QED BY <1>5

\* The last of the first numbers.
LEMMA MaxOfInterval ==
  ASSUME NEW n \in Nat, NEW i \in 1..n
  PROVE  1..i # {} /\ Max(1..i) = i /\ (1..i) \ {i} = 1..(i - 1)
<1>1. 1..i \in SUBSET (1..n) /\ i \in 1..i
  OBVIOUS
<1>2. Max(1..i) \in 1..i /\ \A j \in 1..i : j <= Max(1..i)
  BY <1>1, MaxIs
<1>3. Max(1..i) = i
  BY <1>1, <1>2
<1> QED BY <1>1, <1>3

\* A function that folds the indices of a set, the last one last.
Folding(n, base, G, iter) ==
  \A s \in SUBSET (1..n) :
    iter[s] = IF s = {} THEN base ELSE G[<<iter[s \ {Max(s)}], Max(s)>>]

\* A fold is the end of a walk: the function FoldLeft chooses exists.
LEMMA FoldingExists ==
  ASSUME NEW n \in Nat, NEW A, NEW base \in A, NEW G \in [A \X (1..n) -> A]
  PROVE  \E iter \in [SUBSET (1..n) -> A] : Folding(n, base, G, iter)
<1> DEFINE Upto(k) == \E iter \in [SUBSET (1..k) -> A] : Folding(k, base, G, iter)
           S == {k \in 0..n : Upto(k)}
<1>1. 0 \in S
  <2> DEFINE iter == [s \in SUBSET (1..0) |-> base]
  <2>1. iter \in [SUBSET (1..0) -> A]
    OBVIOUS
  <2>2. \A s \in SUBSET (1..0) : s = {} /\ iter[s] = base
    OBVIOUS
  <2> HIDE DEF iter
  <2>3. Folding(0, base, G, iter)
    BY <2>2 DEF Folding
  <2>4. Upto(0)
    BY <2>1, <2>3
  <2> HIDE DEF Upto
  <2> QED BY <2>4
<1>2. ASSUME NEW k \in 0..n, k \in S, k < n PROVE k + 1 \in S
  <2>1. PICK iter \in [SUBSET (1..k) -> A] : Folding(k, base, G, iter)
    BY <1>2
  <2> DEFINE more == [s \in SUBSET (1..(k + 1)) |->
                        IF s = {} THEN base ELSE G[<<iter[s \ {Max(s)}], Max(s)>>]]
  <2>2. ASSUME NEW s \in SUBSET (1..(k + 1)), s # {}
        PROVE  Max(s) \in 1..n /\ s \ {Max(s)} \in SUBSET (1..k)
    <3>1. k + 1 \in Nat /\ k + 1 <= n
      BY <1>2
    <3>2. Max(s) \in s /\ \A i \in s : i <= Max(s)
      BY <2>2, <3>1, MaxIs
    <3>3. Max(s) \in 1..(k + 1)
      BY <3>2
    <3>4. ASSUME NEW i \in s \ {Max(s)} PROVE i \in 1..k
      <4>1. i \in 1..(k + 1) /\ i <= Max(s) /\ i # Max(s)
        BY <3>2
      <4> QED BY <3>1, <3>3, <4>1
    <3>5. Max(s) \in 1..n
      BY <3>1, <3>3
    <3>6. s \ {Max(s)} \subseteq 1..k
      BY <3>4
    <3> QED BY <3>5, <3>6
  <2>3. more \in [SUBSET (1..(k + 1)) -> A]
    <3>1. ASSUME NEW s \in SUBSET (1..(k + 1)), s # {}
          PROVE  G[<<iter[s \ {Max(s)}], Max(s)>>] \in A
      <4>1. iter[s \ {Max(s)}] \in A
        BY <2>1, <2>2, <3>1
      <4> QED BY <2>2, <3>1, <4>1
    <3> QED BY <3>1
  <2>4. \A s \in SUBSET (1..k) : more[s] = iter[s]
    <3>1. \A s \in SUBSET (1..k) : s \in SUBSET (1..(k + 1))
      OBVIOUS
    <3> QED BY <2>1, <3>1 DEF Folding
  <2>5. Folding(k + 1, base, G, more)
    <3> SUFFICES ASSUME NEW s \in SUBSET (1..(k + 1))
                 PROVE  more[s] = IF s = {} THEN base ELSE G[<<more[s \ {Max(s)}], Max(s)>>]
      BY DEF Folding
    <3>1. CASE s = {}
      BY <3>1
    <3>2. CASE s # {}
      <4>1. more[s \ {Max(s)}] = iter[s \ {Max(s)}]
        BY <2>2, <2>4, <3>2
      <4> QED BY <3>2, <4>1
    <3> QED BY <3>1, <3>2
  <2> HIDE DEF more
  <2>6. Upto(k + 1)
    BY <2>3, <2>5
  <2> QED BY <1>2, <2>6
<1> HIDE DEF Upto
<1>3. \A k \in 0..n : k \in S
  <2> HIDE DEF S
  <2> QED BY <1>1, <1>2, Induct
<1>4. Upto(n)
  BY <1>3
<1> QED BY <1>4 DEF Upto

--------------------------------------------------------------------------------
(***************************************************************************)
(* The entries a human chose.                                              *)
(***************************************************************************)

\* The choice goes through the plan entry by entry.
LEMMA ChosenSteps ==
  ASSUME NEW e, e.plan \in Seq(PlanTask), NEW keys
  PROVE  \E h : /\ h[0] = <<>> /\ h[Len(e.plan)] = Chosen(e, keys)
                /\ \A i \in 1..Len(e.plan) :
                     h[i] = IF e.plan[i].key \in keys THEN Append(h[i - 1], e.plan[i]) ELSE h[i - 1]
<1> DEFINE plan == e.plan
           n == Len(plan)
           A == Seq(PlanTask)
           Step(acc, entry) == IF entry.key \in keys THEN Append(acc, entry) ELSE acc
           G == [ai \in A \X (1..n) |-> Step(ai[1], plan[ai[2]])]
           Body(iter) == [s \in SUBSET (1..n) |->
                            IF s = {} THEN <<>> ELSE Step(iter[s \ {Max(s)}], plan[Max(s)])]
           J == CHOOSE iter : iter = Body(iter)
           h == [i \in 0..n |-> J[1..i]]
<1>1. n \in Nat /\ <<>> \in A /\ DOMAIN plan = 1..n /\ \A i \in 1..n : plan[i] \in PlanTask
  BY LenProperties, EmptySeq, ElementOfSeq
<1>2. G \in [A \X (1..n) -> A]
  BY <1>1, AppendProperties
<1>3. PICK iter \in [SUBSET (1..n) -> A] : Folding(n, <<>>, G, iter)
  <2> HIDE DEF A, G, n
  <2> QED BY <1>1, <1>2, FoldingExists
<1>4. iter = Body(iter)
  <2> SUFFICES ASSUME NEW s \in SUBSET (1..n), s # {}
               PROVE  G[<<iter[s \ {Max(s)}], Max(s)>>] = Step(iter[s \ {Max(s)}], plan[Max(s)])
    BY <1>3 DEF Folding
  <2>1. Max(s) \in 1..n /\ s \ {Max(s)} \in SUBSET (1..n)
    BY <1>1, MaxIs
  <2> HIDE DEF A, n, Step, plan
  <2> QED BY <2>1
<1>5. J = Body(J)
  <2> HIDE DEF Body
  <2> QED BY <1>4
<1>6. Chosen(e, keys) = J[1..n]
  BY <1>1 DEF Chosen, FoldLeft, MapThenFoldSet
<1> HIDE DEF J
<1>7. J[1..0] = <<>>
  BY <1>5
<1>8. ASSUME NEW i \in 1..n PROVE J[1..i] = Step(J[1..(i - 1)], plan[i])
  <2>1. 1..i # {} /\ Max(1..i) = i /\ (1..i) \ {i} = 1..(i - 1) /\ 1..i \in SUBSET (1..n)
    BY <1>1, MaxOfInterval
  <2> HIDE DEF Step, n, plan
  <2> QED BY <1>5, <2>1
<1>9. h[0] = <<>> /\ h[n] = Chosen(e, keys) /\ \A i \in 1..n : h[i] = Step(h[i - 1], plan[i])
  BY <1>1, <1>6, <1>7, <1>8
<1> HIDE DEF h
<1> QED BY <1>9

--------------------------------------------------------------------------------
(***************************************************************************)
(* Sequences that grow at an end.                                          *)
(***************************************************************************)

\* What Append makes of a list.
LEMMA AppendIs ==
  ASSUME NEW S, NEW s \in Seq(S), NEW x \in S
  PROVE  /\ Append(s, x) \in Seq(S)
         /\ Len(s) \in Nat /\ DOMAIN s = 1..Len(s)
         /\ DOMAIN Append(s, x) = 1..(Len(s) + 1) /\ Len(Append(s, x)) = Len(s) + 1
         /\ \A i \in 1..Len(s) : Append(s, x)[i] = s[i]
         /\ Append(s, x)[Len(s) + 1] = x
         /\ ToSet(Append(s, x)) = ToSet(s) \cup {x}
         /\ IsInjective(s) /\ x \notin ToSet(s) => IsInjective(Append(s, x))
<1> DEFINE t == Append(s, x)
<1>1. /\ t \in Seq(S) /\ Len(s) \in Nat /\ DOMAIN s = 1..Len(s) /\ Len(t) = Len(s) + 1
      /\ \A i \in 1..Len(s) : t[i] = s[i]
      /\ t[Len(s) + 1] = x
  BY AppendProperties, LenProperties
<1>2. DOMAIN t = 1..(Len(s) + 1)
  BY <1>1, LenProperties
<1> HIDE DEF t
<1>3. \A i \in 1..(Len(s) + 1) : i \in 1..Len(s) \/ i = Len(s) + 1
  BY <1>1
<1>4. 1..Len(s) \subseteq 1..(Len(s) + 1) /\ Len(s) + 1 \in 1..(Len(s) + 1)
  BY <1>1
<1>5. ToSet(t) = ToSet(s) \cup {x}
  BY <1>1, <1>2, <1>3, <1>4 DEF ToSet
<1>6. IsInjective(s) /\ x \notin ToSet(s) => IsInjective(t)
  BY <1>1, <1>2, <1>3 DEF IsInjective, ToSet
<1> QED BY <1>1, <1>2, <1>5, <1>6 DEF t

\* The keys of a plan, from its entries.
LEMMA KeysOfEntries ==
  ASSUME NEW plan
  PROVE  KeysOf(plan) = {entry.key : entry \in ToSet(plan)}
BY DEF KeysOf, ToSet

\* A plan with another entry at its end.
LEMMA AppendEntry ==
  ASSUME NEW plan \in Seq(PlanTask), NEW entry \in PlanTask
  PROVE  /\ KeysOf(Append(plan, entry)) = KeysOf(plan) \cup {entry.key}
         /\ Distinct(plan) /\ entry.key \notin KeysOf(plan) => Distinct(Append(plan, entry))
<1>1. KeysOf(Append(plan, entry)) = KeysOf(plan) \cup {entry.key}
  BY AppendIs, KeysOfEntries
<1>2. ASSUME Distinct(plan), entry.key \notin KeysOf(plan) PROVE Distinct(Append(plan, entry))
  <2>1. /\ Len(plan) \in Nat /\ DOMAIN plan = 1..Len(plan)
        /\ DOMAIN Append(plan, entry) = 1..(Len(plan) + 1)
        /\ \A i \in 1..Len(plan) : Append(plan, entry)[i] = plan[i]
        /\ Append(plan, entry)[Len(plan) + 1] = entry
    BY AppendIs
  <2>2. \A i \in 1..(Len(plan) + 1) : i \in 1..Len(plan) \/ i = Len(plan) + 1
    BY <2>1
  <2> QED BY <1>2, <2>1, <2>2 DEF Distinct, KeysOf
<1> QED BY <1>1, <1>2

\* A plan with another entry at its front.
LEMMA PrependEntry ==
  ASSUME NEW plan \in Seq(PlanTask), NEW entry \in PlanTask
  PROVE  /\ <<entry>> \o plan \in Seq(PlanTask)
         /\ ToSet(<<entry>> \o plan) = ToSet(plan) \cup {entry}
         /\ KeysOf(<<entry>> \o plan) = KeysOf(plan) \cup {entry.key}
         /\ Distinct(plan) /\ entry.key \notin KeysOf(plan) => Distinct(<<entry>> \o plan)
<1> DEFINE t == <<entry>> \o plan
<1>1. <<entry>> \in Seq(PlanTask) /\ Len(<<entry>>) = 1 /\ <<entry>>[1] = entry
  OBVIOUS
<1>2. /\ t \in Seq(PlanTask) /\ Len(t) = 1 + Len(plan)
      /\ \A i \in 1..(1 + Len(plan)) : t[i] = IF i <= 1 THEN <<entry>>[i] ELSE plan[i - 1]
  BY <1>1, ConcatProperties
<1>3. /\ Len(plan) \in Nat /\ DOMAIN plan = 1..Len(plan) /\ DOMAIN t = 1..(1 + Len(plan))
  BY <1>2, LenProperties
<1>4. t[1] = entry /\ \A i \in 1..Len(plan) : t[i + 1] = plan[i]
  BY <1>1, <1>2, <1>3
<1> HIDE DEF t
<1>5. \A i \in DOMAIN t : i = 1 \/ \E j \in 1..Len(plan) : i = j + 1
  <2> SUFFICES ASSUME NEW i \in 1..(1 + Len(plan)), i # 1 PROVE \E j \in 1..Len(plan) : i = j + 1
    BY <1>3
  <2>1. i - 1 \in 1..Len(plan) /\ i = (i - 1) + 1
    BY <1>3
  <2> QED BY <2>1
<1>6. 1 \in DOMAIN t /\ \A j \in 1..Len(plan) : j + 1 \in DOMAIN t
  BY <1>3
<1>7. ToSet(t) = ToSet(plan) \cup {entry}
  BY <1>3, <1>4, <1>5, <1>6 DEF ToSet
<1>8. KeysOf(t) = KeysOf(plan) \cup {entry.key}
  <2>1. KeysOf(t) = {x.key : x \in ToSet(t)} BY KeysOfEntries
  <2>2. KeysOf(plan) = {x.key : x \in ToSet(plan)} BY KeysOfEntries
  <2> QED BY <1>7, <2>1, <2>2
<1>9. Distinct(plan) /\ entry.key \notin KeysOf(plan) => Distinct(t)
  <2> SUFFICES ASSUME Distinct(plan), entry.key \notin KeysOf(plan), NEW i \in DOMAIN t,
                      NEW j \in DOMAIN t, t[i].key = t[j].key
               PROVE  i = j
    BY DEF Distinct
  <2>1. ASSUME NEW k \in DOMAIN t, k # 1 PROVE t[k].key # entry.key
    <3>1. PICK a \in 1..Len(plan) : k = a + 1 BY <1>5, <2>1
    <3>2. t[k] = plan[a] /\ plan[a] \in ToSet(plan) BY <1>3, <1>4, <3>1 DEF ToSet
    <3>3. plan[a].key \in KeysOf(plan) BY <3>2, KeysOfEntries
    <3> QED BY <3>2, <3>3
  <2>3. CASE i = 1 \/ j = 1
    BY ONLY <1>4, <2>1, <2>3, i \in DOMAIN t, j \in DOMAIN t, t[i].key = t[j].key
  <2>2. CASE i # 1 /\ j # 1
    <3>1. PICK a \in 1..Len(plan), b \in 1..Len(plan) : i = a + 1 /\ j = b + 1
      BY <1>5, <2>2
    <3> QED BY <1>3, <1>4, <3>1 DEF Distinct
  <2> QED BY <2>2, <2>3
<1> QED BY <1>2, <1>7, <1>8, <1>9 DEF t

\* What a human chose of a plan: its entries with the keys that were named.
LEMMA ChosenEntries ==
  ASSUME NEW e, e.plan \in Seq(PlanTask), NEW keys
  PROVE  /\ Chosen(e, keys) \in Seq(PlanTask)
         /\ ToSet(Chosen(e, keys)) = {entry \in ToSet(e.plan) : entry.key \in keys}
         /\ Distinct(e.plan) => Distinct(Chosen(e, keys))
<1> DEFINE plan == e.plan
           n == Len(plan)
           Upto(i) == {plan[j] : j \in {m \in 1..i : plan[m].key \in keys}}
<1>1. PICK h : /\ h[0] = <<>> /\ h[n] = Chosen(e, keys)
               /\ \A i \in 1..n : h[i] = IF plan[i].key \in keys THEN Append(h[i - 1], plan[i])
                                         ELSE h[i - 1]
  BY ChosenSteps
<1>2. n \in Nat /\ DOMAIN plan = 1..n /\ \A i \in 1..n : plan[i] \in PlanTask
  BY LenProperties, ElementOfSeq
<1> DEFINE Good(i) == /\ h[i] \in Seq(PlanTask) /\ ToSet(h[i]) = Upto(i)
                      /\ Distinct(plan) => Distinct(h[i])
<1>3. Good(0)
  <2>1. <<>> \in Seq(PlanTask) /\ DOMAIN <<>> = {} /\ Upto(0) = {}
    BY EmptySeq
  <2>2. ToSet(<<>>) = {} /\ Distinct(<<>>)
    BY <2>1 DEF ToSet, Distinct
  <2> HIDE DEF Upto, plan, n
  <2> QED BY <1>1, <1>2, <2>1, <2>2
<1>4. ASSUME NEW i \in 0..n, Good(i), i < n PROVE Good(i + 1)
  <2>1. i + 1 \in 1..n /\ (i + 1) - 1 = i /\ plan[i + 1] \in PlanTask
    BY <1>2, <1>4
  <2>2. h[i + 1] = IF plan[i + 1].key \in keys THEN Append(h[i], plan[i + 1]) ELSE h[i]
    BY <1>1, <2>1
  <2>3. /\ h[i] \in Seq(PlanTask) /\ ToSet(h[i]) = Upto(i)
        /\ Distinct(plan) => Distinct(h[i])
    BY <1>4
  <2>4. Upto(i + 1) = IF plan[i + 1].key \in keys THEN Upto(i) \cup {plan[i + 1]} ELSE Upto(i)
    <3>1. \A m : m \in 1..(i + 1) <=> m \in 1..i \/ m = i + 1
      BY <1>4
    <3> QED BY <3>1
  <2>5. CASE plan[i + 1].key \in keys
    <3>1. h[i + 1] \in Seq(PlanTask) /\ ToSet(h[i + 1]) = ToSet(h[i]) \cup {plan[i + 1]}
      BY <2>1, <2>2, <2>3, <2>5, AppendIs
    <3>2. Distinct(plan) => plan[i + 1].key \notin KeysOf(h[i])
      <4> SUFFICES ASSUME Distinct(plan), plan[i + 1].key \in KeysOf(h[i]) PROVE FALSE
        OBVIOUS
      <4>1. PICK entry \in ToSet(h[i]) : entry.key = plan[i + 1].key
        BY KeysOfEntries
      <4>2. PICK j \in 1..i : entry = plan[j]
        BY <2>3, <4>1
      <4>3. j \in 1..n /\ j # i + 1
        BY <1>2, <1>4
      <4> HIDE DEF plan, n
      <4> QED BY <1>2, <2>1, <4>1, <4>2, <4>3 DEF Distinct
    <3>3. Distinct(plan) => Distinct(h[i + 1])
      BY <2>1, <2>2, <2>3, <2>5, <3>2, AppendEntry
    <3> HIDE DEF Upto, plan, n
    <3> QED BY <1>2, <2>1, <2>3, <2>4, <2>5, <3>1, <3>3
  <2>6. CASE plan[i + 1].key \notin keys
    <3> HIDE DEF Upto, plan, n
    <3> QED BY <1>2, <2>1, <2>2, <2>3, <2>4, <2>6
  <2> QED BY <2>5, <2>6
<1>5. Good(n)
  <2> DEFINE S == {i \in 0..n : Good(i)}
  <2> HIDE DEF Good, n
  <2>1. 0 \in S /\ \A i \in 0..n : i \in S /\ i < n => i + 1 \in S
    BY <1>2, <1>3, <1>4
  <2>2. \A i \in 0..n : i \in S
    <3> HIDE DEF S
    <3> QED BY <1>2, <2>1, Induct
  <2> QED BY <1>2, <2>2
<1>6. Upto(n) = {entry \in ToSet(plan) : entry.key \in keys}
  BY <1>2 DEF ToSet
<1> HIDE DEF Upto
<1> QED BY <1>1, <1>5, <1>6

--------------------------------------------------------------------------------
(***************************************************************************)
(* The order of a plan.                                                    *)
(***************************************************************************)

Sorting == [done : Seq(Keys), left : Seq(PlanTask)]
Place(plan, acc, entry) ==
  IF Placeable(plan, entry, acc.done)
  THEN [acc EXCEPT !.done = Append(@, entry.key)]
  ELSE [acc EXCEPT !.left = Append(@, entry)]

\* Placing an entry leaves two lists.
LEMMA PlaceType ==
  ASSUME NEW plan, NEW acc \in Sorting, NEW entry \in PlanTask
  PROVE  Place(plan, acc, entry) \in Sorting
<1>1. entry.key \in Keys
  BY DEF PlanTask
<1>2. acc.done \in Seq(Keys) /\ acc.left \in Seq(PlanTask)
  BY DEF Sorting
<1>3. Append(acc.done, entry.key) \in Seq(Keys) /\ Append(acc.left, entry) \in Seq(PlanTask)
  BY <1>1, <1>2, AppendProperties
<1>4. /\ [acc EXCEPT !.done = Append(@, entry.key)] \in Sorting
      /\ [acc EXCEPT !.left = Append(@, entry)] \in Sorting
  BY <1>2, <1>3 DEF Sorting
<1> QED BY <1>4 DEF Place

\* A pass goes through what is left entry by entry.
LEMMA PassSteps ==
  ASSUME NEW plan, NEW sorted \in Sorting
  PROVE  \E h : /\ h[0] = [done |-> sorted.done, left |-> <<>>]
                /\ h[Len(sorted.left)] = TopoPass(plan, sorted)
                /\ \A i \in 1..Len(sorted.left) : h[i] = Place(plan, h[i - 1], sorted.left[i])
<1> DEFINE entries == sorted.left
           n == Len(entries)
           first == [done |-> sorted.done, left |-> <<>>]
           G == [ai \in Sorting \X (1..n) |-> Place(plan, ai[1], entries[ai[2]])]
           Body(iter) ==
             [s \in SUBSET (1..n) |->
                IF s = {} THEN first ELSE Place(plan, iter[s \ {Max(s)}], entries[Max(s)])]
           J == CHOOSE iter : iter = Body(iter)
           h == [i \in 0..n |-> J[1..i]]
<1>0. sorted.left \in Seq(PlanTask) /\ sorted.done \in Seq(Keys)
  BY DEF Sorting
<1>1. n \in Nat /\ DOMAIN entries = 1..n /\ \A i \in 1..n : entries[i] \in PlanTask
  BY <1>0, LenProperties, ElementOfSeq
<1>2. first \in Sorting
  BY <1>0, EmptySeq DEF Sorting
<1>3. G \in [Sorting \X (1..n) -> Sorting]
  BY <1>1, PlaceType
<1>4. PICK iter \in [SUBSET (1..n) -> Sorting] : Folding(n, first, G, iter)
  <2> HIDE DEF G, n, first
  <2> QED BY <1>1, <1>2, <1>3, FoldingExists
<1>5. iter = Body(iter)
  <2> SUFFICES ASSUME NEW s \in SUBSET (1..n), s # {}
               PROVE  G[<<iter[s \ {Max(s)}], Max(s)>>]
                        = Place(plan, iter[s \ {Max(s)}], entries[Max(s)])
    BY <1>4 DEF Folding
  <2>1. Max(s) \in 1..n /\ s \ {Max(s)} \in SUBSET (1..n)
    BY <1>1, MaxIs
  <2> HIDE DEF n, entries
  <2> QED BY <2>1
<1>6. J = Body(J)
  <2> HIDE DEF Body
  <2> QED BY <1>5
<1>7. TopoPass(plan, sorted) = J[1..n]
  BY <1>1 DEF TopoPass, FoldLeft, MapThenFoldSet, Place
<1> HIDE DEF J
<1>8. J[1..0] = first
  BY <1>6
<1>9. ASSUME NEW i \in 1..n PROVE J[1..i] = Place(plan, J[1..(i - 1)], entries[i])
  <2>1. 1..i # {} /\ Max(1..i) = i /\ (1..i) \ {i} = 1..(i - 1) /\ 1..i \in SUBSET (1..n)
    BY <1>1, MaxOfInterval
  <2> HIDE DEF n, entries, first
  <2> QED BY <1>6, <2>1
<1>10. /\ h[0] = first /\ h[n] = TopoPass(plan, sorted)
       /\ \A i \in 1..n : h[i] = Place(plan, h[i - 1], entries[i])
  BY <1>1, <1>7, <1>8, <1>9
<1> HIDE DEF h
<1> QED BY <1>10

--------------------------------------------------------------------------------
(***************************************************************************)
(* A new plan beside accepted entries, and follow-ups.                     *)
(***************************************************************************)

Keep(accepted, acc, entry) ==
  IF entry.key \in accepted \ KeysOf(acc) THEN <<entry>> \o acc ELSE acc

\* Keeping an old entry leaves a plan.
LEMMA KeepType ==
  ASSUME NEW accepted, NEW acc \in Seq(PlanTask), NEW entry \in PlanTask
  PROVE  Keep(accepted, acc, entry) \in Seq(PlanTask)
<1>1. <<entry>> \in Seq(PlanTask)
  OBVIOUS
<1>2. <<entry>> \o acc \in Seq(PlanTask)
  BY <1>1, ConcatProperties
<1> QED BY <1>2 DEF Keep

\* A merge goes through the old plan entry by entry.
LEMMA MergeSteps ==
  ASSUME NEW new \in Seq(PlanTask), NEW old \in Seq(PlanTask), NEW accepted
  PROVE  \E h : /\ h[0] = new /\ h[Len(old)] = Merge(new, old, accepted)
                /\ \A i \in 1..Len(old) : h[i] = Keep(accepted, h[i - 1], old[i])
<1> DEFINE n == Len(old)
           A == Seq(PlanTask)
           G == [ai \in A \X (1..n) |-> Keep(accepted, ai[1], old[ai[2]])]
           Body(iter) == [s \in SUBSET (1..n) |->
                            IF s = {} THEN new ELSE Keep(accepted, iter[s \ {Max(s)}], old[Max(s)])]
           J == CHOOSE iter : iter = Body(iter)
           h == [i \in 0..n |-> J[1..i]]
<1>1. n \in Nat /\ DOMAIN old = 1..n /\ \A i \in 1..n : old[i] \in PlanTask
  BY LenProperties, ElementOfSeq
<1>2. G \in [A \X (1..n) -> A]
  BY <1>1, KeepType
<1>3. PICK iter \in [SUBSET (1..n) -> A] : Folding(n, new, G, iter)
  <2> HIDE DEF G, n
  <2> QED BY <1>1, <1>2, FoldingExists
<1>4. iter = Body(iter)
  <2> SUFFICES ASSUME NEW s \in SUBSET (1..n), s # {}
               PROVE  G[<<iter[s \ {Max(s)}], Max(s)>>]
                        = Keep(accepted, iter[s \ {Max(s)}], old[Max(s)])
    BY <1>3 DEF Folding
  <2>1. Max(s) \in 1..n /\ s \ {Max(s)} \in SUBSET (1..n)
    BY <1>1, MaxIs
  <2> HIDE DEF n, A
  <2> QED BY <2>1
<1>5. J = Body(J)
  <2> HIDE DEF Body
  <2> QED BY <1>4
<1>6. Merge(new, old, accepted) = J[1..n]
  BY <1>1 DEF Merge, FoldLeft, MapThenFoldSet, Keep
<1> HIDE DEF J
<1>7. J[1..0] = new
  BY <1>5
<1>8. ASSUME NEW i \in 1..n PROVE J[1..i] = Keep(accepted, J[1..(i - 1)], old[i])
  <2>1. 1..i # {} /\ Max(1..i) = i /\ (1..i) \ {i} = 1..(i - 1)
    BY ONLY <1>1, i \in 1..n, MaxOfInterval
  <2>2. 1..i \in SUBSET (1..n)
    BY ONLY <1>1, i \in 1..n
  <2> HIDE DEF n
  <2> QED BY <1>5, <2>1, <2>2
<1>9. /\ h[0] = new /\ h[n] = Merge(new, old, accepted)
      /\ \A i \in 1..n : h[i] = Keep(accepted, h[i - 1], old[i])
  BY <1>1, <1>6, <1>7, <1>8
<1> HIDE DEF h
<1> QED BY <1>9

FollowUp(acc, entry) ==
  LET n == FreeFollowUp(acc)
  IN  IF ~Usable(entry) \/ n \notin DOMAIN FollowUpKeys THEN acc
      ELSE Append(acc, [entry EXCEPT !.key = FollowUpKeys[n],
                                     !.depends_on = @ \cap KeysOf(acc)])

\* Adding a follow-up leaves a plan.
LEMMA FollowUpType ==
  ASSUME NEW acc \in Seq(PlanTask), NEW entry \in PlanTask
  PROVE  FollowUp(acc, entry) \in Seq(PlanTask)
<1> DEFINE n == FreeFollowUp(acc)
           added == [entry EXCEPT !.key = FollowUpKeys[n], !.depends_on = @ \cap KeysOf(acc)]
<1>1. CASE n \in DOMAIN FollowUpKeys
  <2>1. FollowUpKeys[n] \in Keys
    <3> HIDE DEF n
    <3> QED BY <1>1, KeyAssumption, ElementOfSeq, LenProperties
  <2>2. added \in PlanTask
    <3> HIDE DEF n
    <3> QED BY <2>1 DEF PlanTask
  <2>3. Append(acc, added) \in Seq(PlanTask)
    <3> HIDE DEF added
    <3> QED BY <2>2, AppendProperties
  <2> QED BY <2>3 DEF FollowUp
<1>2. CASE n \notin DOMAIN FollowUpKeys
  BY <1>2 DEF FollowUp
<1> QED BY <1>1, <1>2

\* Follow-ups are added one by one.
LEMMA FollowUpSteps ==
  ASSUME NEW plan \in Seq(PlanTask), NEW more \in Seq(PlanTask)
  PROVE  \E h : /\ h[0] = plan /\ h[Len(more)] = AddFollowUps(plan, more)
                /\ \A i \in 1..Len(more) : h[i] = FollowUp(h[i - 1], more[i])
<1> DEFINE n == Len(more)
           A == Seq(PlanTask)
           G == [ai \in A \X (1..n) |-> FollowUp(ai[1], more[ai[2]])]
           Body(iter) == [s \in SUBSET (1..n) |->
                            IF s = {} THEN plan ELSE FollowUp(iter[s \ {Max(s)}], more[Max(s)])]
           J == CHOOSE iter : iter = Body(iter)
           h == [i \in 0..n |-> J[1..i]]
<1>1. n \in Nat /\ DOMAIN more = 1..n /\ \A i \in 1..n : more[i] \in PlanTask
  BY LenProperties, ElementOfSeq
<1>2. G \in [A \X (1..n) -> A]
  BY <1>1, FollowUpType
<1>3. PICK iter \in [SUBSET (1..n) -> A] : Folding(n, plan, G, iter)
  <2> HIDE DEF G, n
  <2> QED BY <1>1, <1>2, FoldingExists
<1>4. iter = Body(iter)
  <2> SUFFICES ASSUME NEW s \in SUBSET (1..n), s # {}
               PROVE  G[<<iter[s \ {Max(s)}], Max(s)>>]
                        = FollowUp(iter[s \ {Max(s)}], more[Max(s)])
    BY <1>3 DEF Folding
  <2>1. Max(s) \in 1..n /\ s \ {Max(s)} \in SUBSET (1..n)
    BY <1>1, MaxIs
  <2> HIDE DEF n, A
  <2> QED BY <2>1
<1>5. J = Body(J)
  <2> HIDE DEF Body
  <2> QED BY <1>4
<1>6. AddFollowUps(plan, more) = J[1..n]
  BY <1>1 DEF AddFollowUps, FoldLeft, MapThenFoldSet, FollowUp
<1> HIDE DEF J
<1>7. J[1..0] = plan
  BY <1>5
<1>8. ASSUME NEW i \in 1..n PROVE J[1..i] = FollowUp(J[1..(i - 1)], more[i])
  <2>1. 1..i # {} /\ Max(1..i) = i /\ (1..i) \ {i} = 1..(i - 1)
    BY ONLY <1>1, i \in 1..n, MaxOfInterval
  <2>2. 1..i \in SUBSET (1..n)
    BY ONLY <1>1, i \in 1..n
  <2> HIDE DEF n
  <2> QED BY <1>5, <2>1, <2>2
<1>9. /\ h[0] = plan /\ h[n] = AddFollowUps(plan, more)
      /\ \A i \in 1..n : h[i] = FollowUp(h[i - 1], more[i])
  BY <1>1, <1>6, <1>7, <1>8
<1> HIDE DEF h
<1> QED BY <1>9

Inside(plan, entry) == entry.depends_on \cap KeysOf(plan)
Before(list, j) == {list[m] : m \in 1..(j - 1)}

\* Every key of the list is that of an entry whose dependencies come before it.
DependenciesBefore(plan, list) ==
  \A j \in DOMAIN list :
    \E i \in DOMAIN plan : plan[i].key = list[j] /\ Inside(plan, plan[i]) \subseteq Before(list, j)
Apart(acc) ==
  IsInjective(acc.done) /\ Distinct(acc.left) /\ KeysOf(acc.left) \cap ToSet(acc.done) = {}
\* Where the sorting of a plan may be: in a pass as between two passes.
Sorts(plan, acc) ==
  /\ acc \in Sorting /\ Apart(acc) /\ DependenciesBefore(plan, acc.done)
  /\ ToSet(acc.left) \subseteq ToSet(plan)
Placed(acc, entry) == entry \in ToSet(acc.left) \/ entry.key \in ToSet(acc.done)
AllPlaced(plan, acc) == \A entry \in ToSet(plan) : Placed(acc, entry)

\* A key put at the end of a list leaves what comes before the others.
LEMMA BeforeOfAppend ==
  ASSUME NEW list \in Seq(Keys), NEW key \in Keys
  PROVE  /\ \A j \in DOMAIN list : Before(Append(list, key), j) = Before(list, j)
         /\ Before(Append(list, key), Len(list) + 1) = ToSet(list)
<1>1. /\ Len(list) \in Nat /\ DOMAIN list = 1..Len(list)
      /\ \A i \in 1..Len(list) : Append(list, key)[i] = list[i]
  BY AppendIs
<1>2. ASSUME NEW j \in DOMAIN list PROVE Before(Append(list, key), j) = Before(list, j)
  <2>1. \A m \in 1..(j - 1) : m \in 1..Len(list)
    BY <1>1
  <2> QED BY <1>1, <2>1 DEF Before
<1>3. Before(Append(list, key), Len(list) + 1) = ToSet(list)
  <2>1. 1..((Len(list) + 1) - 1) = 1..Len(list)
    BY <1>1
  <2> QED BY <1>1, <2>1 DEF Before, ToSet
<1> QED BY <1>2, <1>3

\* What placing an entry that has not been looked at keeps.
PlaceKeeps(plan, acc, entry) ==
  LET next == Place(plan, acc, entry)
  IN  /\ Sorts(plan, next) /\ Placed(next, entry)
      /\ ToSet(next.left) \subseteq ToSet(acc.left) \cup {entry}
      /\ ToSet(acc.left) \subseteq ToSet(next.left)
      /\ ToSet(acc.done) \subseteq ToSet(next.done)
      /\ ToSet(next.done) \subseteq ToSet(acc.done) \cup {entry.key}
      /\ Len(acc.left) \in Nat
      /\ Len(next.left) = IF Placeable(plan, entry, acc.done) THEN Len(acc.left)
                          ELSE Len(acc.left) + 1

\* An entry that is new to a sorting finds its place in it.
LEMMA PlaceSorts ==
  ASSUME NEW plan \in Seq(PlanTask), NEW acc, Sorts(plan, acc), NEW entry \in ToSet(plan),
         entry.key \notin KeysOf(acc.left) \cup ToSet(acc.done)
  PROVE  PlaceKeeps(plan, acc, entry)
<1> DEFINE next == Place(plan, acc, entry)
<1>1. entry \in PlanTask /\ entry.key \in Keys
  <2>1. \A i \in DOMAIN plan : plan[i] \in PlanTask
    BY ElementOfSeq, LenProperties
  <2> QED BY <2>1 DEF ToSet, PlanTask
<1>2. /\ acc \in Sorting /\ Apart(acc) /\ DependenciesBefore(plan, acc.done)
      /\ ToSet(acc.left) \subseteq ToSet(plan)
  BY DEF Sorts
<1>3. acc.done \in Seq(Keys) /\ acc.left \in Seq(PlanTask) /\ next \in Sorting
  BY <1>1, <1>2, PlaceType DEF Sorting
<1>4. CASE Placeable(plan, entry, acc.done)
  <2> DEFINE done == Append(acc.done, entry.key)
  <2>1. next.done = done /\ next.left = acc.left
    BY <1>2, <1>4 DEF Place, Sorting
  <2>2. /\ ToSet(done) = ToSet(acc.done) \cup {entry.key}
        /\ IsInjective(done)
        /\ Len(acc.done) \in Nat /\ DOMAIN acc.done = 1..Len(acc.done)
        /\ DOMAIN done = 1..(Len(acc.done) + 1)
        /\ \A i \in 1..Len(acc.done) : done[i] = acc.done[i]
        /\ done[Len(acc.done) + 1] = entry.key
    BY <1>1, <1>2, <1>3, AppendIs DEF Apart
  <2>3. DependenciesBefore(plan, done)
    <3> SUFFICES ASSUME NEW j \in DOMAIN done
                 PROVE  \E i \in DOMAIN plan : /\ plan[i].key = done[j]
                                               /\ Inside(plan, plan[i]) \subseteq Before(done, j)
      BY DEF DependenciesBefore
    <3>1. CASE j \in DOMAIN acc.done
      <4>1. done[j] = acc.done[j] /\ Before(done, j) = Before(acc.done, j)
        BY <1>1, <1>3, <2>2, <3>1, BeforeOfAppend
      <4> HIDE DEF done
      <4> QED BY <1>2, <3>1, <4>1 DEF DependenciesBefore
    <3>2. CASE j = Len(acc.done) + 1
      <4>1. done[j] = entry.key /\ Before(done, j) = ToSet(acc.done)
        BY <1>1, <1>3, <2>2, <3>2, BeforeOfAppend
      <4>2. Inside(plan, entry) \subseteq ToSet(acc.done)
        BY <1>4 DEF Placeable, Inside
      <4> HIDE DEF done
      <4> QED BY <4>1, <4>2 DEF ToSet
    <3> QED BY <2>2, <3>1, <3>2
  <2> HIDE DEF done, next
  <2>4. Apart(next)
    BY <1>2, <2>1, <2>2 DEF Apart
  <2>5. Len(acc.left) \in Nat
    BY <1>3, LenProperties
  <2> QED BY <1>2, <1>3, <1>4, <2>1, <2>2, <2>3, <2>4, <2>5 DEF Sorts, Placed, PlaceKeeps, next
<1>5. CASE ~Placeable(plan, entry, acc.done)
  <2> DEFINE left_ == Append(acc.left, entry)
  <2>1. next.done = acc.done /\ next.left = left_
    BY <1>2, <1>5 DEF Place, Sorting
  <2>2. /\ ToSet(left_) = ToSet(acc.left) \cup {entry} /\ Len(acc.left) \in Nat
        /\ Len(left_) = Len(acc.left) + 1
    BY <1>1, <1>3, AppendIs
  <2>3. KeysOf(left_) = KeysOf(acc.left) \cup {entry.key} /\ Distinct(left_)
    BY <1>1, <1>2, <1>3, AppendEntry DEF Apart
  <2> HIDE DEF left_, next
  <2>4. Apart(next)
    BY <1>2, <2>1, <2>3 DEF Apart
  <2> QED BY <1>2, <1>3, <1>5, <2>1, <2>2, <2>4 DEF Sorts, Placed, PlaceKeeps, next
<1> QED BY <1>4, <1>5

\* A pass keeps the sorting, loses no entry, and places what it could place at its start.
LEMMA PassSorts ==
  ASSUME NEW plan \in Seq(PlanTask), Distinct(plan), NEW sorted, Sorts(plan, sorted),
         AllPlaced(plan, sorted)
  PROVE  LET next == TopoPass(plan, sorted)
         IN  /\ Sorts(plan, next) /\ AllPlaced(plan, next)
             /\ Len(next.left) \in Nat /\ Len(sorted.left) \in Nat
             /\ Len(next.left) <= Len(sorted.left)
             /\ (\E entry \in ToSet(sorted.left) : Placeable(plan, entry, sorted.done)) =>
                  Len(next.left) < Len(sorted.left)
<1> DEFINE entries == sorted.left
           n == Len(entries)
           Able(j) == Placeable(plan, entries[j], sorted.done)
<1>1. PICK h : /\ h[0] = [done |-> sorted.done, left |-> <<>>]
               /\ h[n] = TopoPass(plan, sorted)
               /\ \A i \in 1..n : h[i] = Place(plan, h[i - 1], entries[i])
  BY PassSteps DEF Sorts
<1>2. /\ sorted \in Sorting /\ Apart(sorted) /\ DependenciesBefore(plan, sorted.done)
      /\ ToSet(entries) \subseteq ToSet(plan)
  BY DEF Sorts
<1>3. sorted.done \in Seq(Keys) /\ entries \in Seq(PlanTask)
  BY <1>2 DEF Sorting
<1>4. n \in Nat /\ DOMAIN entries = 1..n /\ \A i \in 1..n : entries[i] \in ToSet(plan)
  BY <1>2, <1>3, LenProperties DEF ToSet
<1> DEFINE Good(i) ==
      /\ Sorts(plan, h[i])
      /\ \A entry \in ToSet(h[i].left) : \E j \in 1..i : entry = entries[j]
      /\ \A j \in 1..i : Placed(h[i], entries[j])
      /\ ToSet(sorted.done) \subseteq ToSet(h[i].done)
      /\ \A key \in ToSet(h[i].done) :
           key \in ToSet(sorted.done) \/ \E j \in 1..i : key = entries[j].key
      /\ Len(h[i].left) \in Nat /\ Len(h[i].left) <= i
      /\ (\E j \in 1..i : Able(j)) => Len(h[i].left) < i
<1>5. Good(0)
  <2>1. h[0].done = sorted.done /\ h[0].left = <<>> /\ h[0] \in Sorting
    BY <1>1, <1>3, EmptySeq DEF Sorting
  <2>2. Len(<<>>) = 0 /\ DOMAIN <<>> = {}
    BY EmptySeq
  <2>3. ToSet(<<>>) = {} /\ KeysOf(<<>>) = {} /\ Distinct(<<>>)
    BY <2>2 DEF ToSet, KeysOf, Distinct
  <2>4. Apart(h[0])
    BY <1>2, <2>1, <2>3 DEF Apart
  <2>5. Sorts(plan, h[0])
    BY <1>2, <2>1, <2>3, <2>4 DEF Sorts
  <2> HIDE DEF entries, n, Able
  <2> QED BY <2>1, <2>2, <2>3, <2>5
<1>6. ASSUME NEW i \in 0..n, Good(i), i < n PROVE Good(i + 1)
  <2> DEFINE k == i + 1
             entry == entries[k]
             acc == h[i]
             next == h[k]
  <2>1. k \in 1..n /\ k - 1 = i /\ entry \in ToSet(plan) /\ i \in Nat
    BY <1>4, <1>6
  <2>2. next = Place(plan, acc, entry)
    BY <1>1, <2>1
  <2>3. \A m : m \in 1..k <=> m \in 1..i \/ m = k
    BY <2>1
  <2>4. \A j \in 1..i : entries[j].key # entry.key
    <3>1. \A j \in 1..i : j \in 1..n /\ j # k
      BY <2>1
    <3> QED BY <1>2, <1>4, <2>1, <3>1 DEF Apart, Distinct
  <2>5. entry.key \in KeysOf(entries)
    BY <1>4, <2>1 DEF KeysOf
  <2>6. entry.key \notin KeysOf(acc.left)
    <3> SUFFICES ASSUME entry.key \in KeysOf(acc.left) PROVE FALSE
      OBVIOUS
    <3>1. PICK other \in ToSet(acc.left) : other.key = entry.key
      BY KeysOfEntries
    <3> QED BY <1>6, <2>4, <3>1
  <2>7. entry.key \notin ToSet(acc.done)
    BY <1>2, <1>6, <2>4, <2>5 DEF Apart
  <2>8. /\ Sorts(plan, next) /\ Placed(next, entry)
        /\ ToSet(next.left) \subseteq ToSet(acc.left) \cup {entry}
        /\ ToSet(acc.left) \subseteq ToSet(next.left)
        /\ ToSet(acc.done) \subseteq ToSet(next.done)
        /\ ToSet(next.done) \subseteq ToSet(acc.done) \cup {entry.key}
        /\ Len(acc.left) \in Nat
        /\ Len(next.left) = IF Placeable(plan, entry, acc.done) THEN Len(acc.left)
                            ELSE Len(acc.left) + 1
    <3>1. Sorts(plan, acc)
      BY <1>6
    <3> HIDE DEF acc, next, entry, n
    <3>2. entry.key \notin KeysOf(acc.left) \cup ToSet(acc.done)
      BY <2>6, <2>7
    <3>3. entry \in ToSet(plan)
      BY <2>1
    <3>4. PlaceKeeps(plan, acc, entry)
      BY <3>1, <3>2, <3>3, PlaceSorts
    <3> QED BY <2>2, <3>4 DEF PlaceKeeps
  <2>9. Able(k) => Placeable(plan, entry, acc.done)
    BY <1>6 DEF Placeable
  <2>10. /\ Len(acc.left) <= i
         /\ (\E j \in 1..i : Able(j)) => Len(acc.left) < i
    BY <1>6
  <2>11. \A x \in ToSet(next.left) : \E j \in 1..k : x = entries[j]
    BY <1>6, <2>3, <2>8
  <2>12. \A j \in 1..k : Placed(next, entries[j])
    <3>1. \A j \in 1..i : Placed(acc, entries[j])
      BY <1>6
    <3> HIDE DEF next, acc
    <3> QED BY <2>3, <2>8, <3>1 DEF Placed
  <2>13. /\ ToSet(sorted.done) \subseteq ToSet(next.done)
         /\ \A key \in ToSet(next.done) :
              key \in ToSet(sorted.done) \/ \E j \in 1..k : key = entries[j].key
    BY <1>6, <2>3, <2>8
  <2> HIDE DEF Able, entry, acc, next
  <2>14. Len(next.left) \in Nat /\ Len(next.left) <= k
    BY <2>1, <2>8, <2>10
  <2>15. (\E j \in 1..k : Able(j)) => Len(next.left) < k
    BY <2>1, <2>3, <2>8, <2>9, <2>10
  <2> QED BY <2>8, <2>11, <2>12, <2>13, <2>14, <2>15 DEF next
<1>7. Good(n)
  <2> DEFINE S == {i \in 0..n : Good(i)}
  <2> HIDE DEF Good, n
  <2>1. 0 \in S /\ \A i \in 0..n : i \in S /\ i < n => i + 1 \in S
    BY <1>4, <1>5, <1>6
  <2>2. \A i \in 0..n : i \in S
    <3> HIDE DEF S
    <3> QED BY <1>4, <2>1, Induct
  <2> QED BY <1>4, <2>2
<1> DEFINE next == TopoPass(plan, sorted)
<1>8. next = h[n]
  BY <1>1
<1>9. ASSUME NEW entry \in ToSet(plan) PROVE Placed(next, entry)
  <2>1. CASE entry \in ToSet(entries)
    <3>1. PICK j \in 1..n : entry = entries[j]
      BY <1>4, <2>1 DEF ToSet
    <3> QED BY <1>7, <1>8, <3>1
  <2>2. CASE entry.key \in ToSet(sorted.done)
    BY <1>7, <1>8, <2>2 DEF Placed
  <2> QED BY <2>1, <2>2 DEF AllPlaced, Placed
<1>10. (\E entry \in ToSet(entries) : Placeable(plan, entry, sorted.done)) => \E j \in 1..n : Able(j)
  BY <1>4 DEF ToSet
<1> HIDE DEF next, Able
<1>11. Sorts(plan, next) /\ Len(next.left) \in Nat /\ Len(next.left) <= n
  BY <1>7, <1>8
<1>12. (\E j \in 1..n : Able(j)) => Len(next.left) < n
  BY <1>7, <1>8
<1>13. AllPlaced(plan, next)
  BY <1>9 DEF AllPlaced
<1> QED BY <1>4, <1>10, <1>11, <1>12, <1>13 DEF next

\* The passes of topo_order, one after the other.
LEMMA Passes ==
  ASSUME NEW plan \in Seq(PlanTask)
  PROVE  \E pass : /\ pass[0] = [done |-> <<>>, left |-> plan]
                   /\ pass[Len(plan)] = TopoSorted(plan)
                   /\ \A k \in 1..Len(plan) : pass[k] = TopoPass(plan, pass[k - 1])
<1> DEFINE n == Len(plan)
           first == [done |-> <<>>, left |-> plan]
           Body(g, k) == [i \in 0..k |-> IF i = 0 THEN first ELSE TopoPass(plan, g[i - 1])]
           Upto(k) == \E g : g = Body(g, k)
<1>1. n \in Nat
  BY LenProperties
<1> HIDE DEF n, first
<1>2. Upto(0)
  <2>1. [i \in 0..0 |-> first] = Body([i \in 0..0 |-> first], 0)
    OBVIOUS
  <2> QED BY <2>1
<1>3. ASSUME NEW k \in 0..n, Upto(k), k < n PROVE Upto(k + 1)
  <2>1. PICK g : g = Body(g, k)
    BY <1>3
  <2> DEFINE more == Body(g, k + 1)
  <2>2. k \in Nat /\ k + 1 \in Nat
    BY <1>1
  <2>3. \A i \in 0..k : more[i] = g[i]
    <3>1. \A i \in 0..k : i \in 0..(k + 1)
      BY <2>2
    <3>2. \A i \in 0..k : g[i] = IF i = 0 THEN first ELSE TopoPass(plan, g[i - 1])
      BY <2>1
    <3> QED BY <3>1, <3>2
  <2>4. \A i \in 0..(k + 1) : i # 0 => i - 1 \in 0..k
    BY <2>2
  <2>5. \A i \in 0..(k + 1) : i # 0 => more[i - 1] = g[i - 1]
    <3> HIDE DEF more
    <3> QED BY <2>3, <2>4
  <2>6. more = Body(more, k + 1)
    <3> SUFFICES ASSUME NEW i \in 0..(k + 1), i # 0
                 PROVE  TopoPass(plan, g[i - 1]) = TopoPass(plan, more[i - 1])
      OBVIOUS
    <3> HIDE DEF more
    <3> QED BY <2>5
  <2> HIDE DEF more, Body
  <2> QED BY <2>6
<1>4. Upto(n)
  <2> DEFINE S == {k \in 0..n : Upto(k)}
  <2> HIDE DEF Upto
  <2>1. 0 \in S /\ \A k \in 0..n : k \in S /\ k < n => k + 1 \in S
    BY <1>1, <1>2, <1>3
  <2>2. \A k \in 0..n : k \in S
    <3> HIDE DEF S
    <3> QED BY <1>1, <2>1, Induct
  <2> QED BY <1>1, <2>2
<1> DEFINE J == CHOOSE g : g = Body(g, n)
<1>5. J = Body(J, n)
  <2> HIDE DEF Body
  <2> QED BY <1>4
<1>6. TopoSorted(plan) = J[n]
  BY DEF TopoSorted, n, first
<1> HIDE DEF J
<1>7. J[0] = first /\ \A k \in 1..n : J[k] = TopoPass(plan, J[k - 1])
  <2>1. 0 \in 0..n /\ \A k \in 1..n : k \in 0..n /\ k # 0
    BY <1>1
  <2> QED BY <1>5, <2>1
<1> QED BY <1>6, <1>7 DEF n, first

\* In every set of its keys one waits for none of the others.
Rooted(plan) ==
  \A S \in SUBSET KeysOf(plan) :
    S # {} => \E entry \in ToSet(plan) : entry.key \in S /\ entry.depends_on \cap S = {}

\* While entries are left of a rooted plan, one of them can be placed.
LEMMA SomePlaceable ==
  ASSUME NEW plan \in Seq(PlanTask), Distinct(plan), Rooted(plan), NEW acc, Sorts(plan, acc),
         AllPlaced(plan, acc), acc.left # <<>>
  PROVE  \E entry \in ToSet(acc.left) : Placeable(plan, entry, acc.done)
<1> DEFINE S == KeysOf(acc.left)
<1>1. acc.left \in Seq(PlanTask) /\ ToSet(acc.left) \subseteq ToSet(plan)
  BY DEF Sorts, Sorting
<1>2. S # {}
  <2>1. Len(acc.left) \in Nat /\ DOMAIN acc.left = 1..Len(acc.left) /\ Len(acc.left) # 0
    BY <1>1, EmptySeq, LenProperties
  <2>2. 1 \in DOMAIN acc.left
    BY <2>1
  <2> QED BY <2>2 DEF KeysOf
<1>3. S \subseteq KeysOf(plan)
  BY <1>1, KeysOfEntries
<1>4. PICK entry \in ToSet(plan) : entry.key \in S /\ entry.depends_on \cap S = {}
  BY <1>2, <1>3 DEF Rooted
<1>5. PICK other \in ToSet(acc.left) : other.key = entry.key
  BY <1>4, KeysOfEntries
<1>6. other = entry
  BY <1>1, <1>4, <1>5 DEF Distinct, ToSet
<1>7. Placeable(plan, entry, acc.done)
  <2> SUFFICES ASSUME NEW d \in entry.depends_on, d \in KeysOf(plan) PROVE d \in ToSet(acc.done)
    BY DEF Placeable
  <2>1. PICK needed \in ToSet(plan) : needed.key = d
    BY KeysOfEntries
  <2>2. needed \notin ToSet(acc.left)
    BY <1>4, <2>1, KeysOfEntries
  <2> QED BY <2>1, <2>2 DEF AllPlaced, Placed
<1> QED BY <1>5, <1>6, <1>7

\* The outcome of the sorting: every entry is placed or left, the order is one, and nothing
\* is left of a rooted plan.
LEMMA SortedIs ==
  ASSUME NEW plan \in Seq(PlanTask), Distinct(plan)
  PROVE  /\ Sorts(plan, TopoSorted(plan)) /\ AllPlaced(plan, TopoSorted(plan))
         /\ Rooted(plan) => TopoSorted(plan).left = <<>>
<1> DEFINE n == Len(plan)
<1>1. n \in Nat
  BY LenProperties
<1>2. PICK pass : /\ pass[0] = [done |-> <<>>, left |-> plan]
                  /\ pass[n] = TopoSorted(plan)
                  /\ \A k \in 1..n : pass[k] = TopoPass(plan, pass[k - 1])
  BY Passes
<1> DEFINE Good(k) == /\ Sorts(plan, pass[k]) /\ AllPlaced(plan, pass[k])
                      /\ Rooted(plan) => Len(pass[k].left) <= n - k
<1>3. Good(0)
  <2>1. pass[0].done = <<>> /\ pass[0].left = plan /\ pass[0] \in Sorting
    BY <1>2, EmptySeq DEF Sorting
  <2>2. DOMAIN <<>> = {}
    BY EmptySeq
  <2>3. ToSet(<<>>) = {} /\ IsInjective(<<>>) /\ DependenciesBefore(plan, <<>>)
    BY <2>2 DEF ToSet, IsInjective, DependenciesBefore
  <2>4. Sorts(plan, pass[0])
    BY <2>1, <2>3 DEF Sorts, Apart
  <2>5. AllPlaced(plan, pass[0])
    BY <2>1 DEF AllPlaced, Placed
  <2> QED BY <1>1, <2>1, <2>4, <2>5
<1>4. ASSUME NEW k \in 0..n, Good(k), k < n PROVE Good(k + 1)
  <2> DEFINE acc == pass[k]
             next == pass[k + 1]
  <2>1. k + 1 \in 1..n /\ (k + 1) - 1 = k /\ k \in Nat
    BY <1>1, <1>4
  <2>2. next = TopoPass(plan, acc)
    BY <1>2, <2>1
  <2>3. Sorts(plan, acc) /\ AllPlaced(plan, acc) /\ (Rooted(plan) => Len(acc.left) <= n - k)
    BY <1>4
  <2> HIDE DEF acc, next, n
  <2>4. /\ Sorts(plan, next) /\ AllPlaced(plan, next)
        /\ Len(next.left) \in Nat /\ Len(acc.left) \in Nat
        /\ Len(next.left) <= Len(acc.left)
        /\ (\E entry \in ToSet(acc.left) : Placeable(plan, entry, acc.done)) =>
             Len(next.left) < Len(acc.left)
    BY <2>2, <2>3, PassSorts
  <2>5. acc.left = <<>> => Len(acc.left) = 0
    BY EmptySeq
  <2>6. Rooted(plan) /\ acc.left # <<>> => Len(next.left) < Len(acc.left)
    BY <2>3, <2>4, SomePlaceable
  <2>7. Rooted(plan) => Len(next.left) <= n - (k + 1)
    BY <1>1, <1>4, <2>1, <2>3, <2>4, <2>5, <2>6
  <2> QED BY <2>4, <2>7 DEF next
<1>5. Good(n)
  <2> DEFINE S == {k \in 0..n : Good(k)}
  <2> HIDE DEF Good, n
  <2>1. 0 \in S /\ \A k \in 0..n : k \in S /\ k < n => k + 1 \in S
    BY <1>1, <1>3, <1>4
  <2>2. \A k \in 0..n : k \in S
    <3> HIDE DEF S
    <3> QED BY <1>1, <2>1, Induct
  <2> QED BY <1>1, <2>2
<1> DEFINE acc == TopoSorted(plan)
<1>6. Sorts(plan, acc) /\ AllPlaced(plan, acc) /\ (Rooted(plan) => Len(acc.left) <= n - n)
  BY <1>2, <1>5
<1> HIDE DEF acc
<1>7. acc.left \in Seq(PlanTask)
  BY <1>6 DEF Sorts, Sorting
<1>8. Len(acc.left) \in Nat /\ (acc.left = <<>> <=> Len(acc.left) = 0)
  BY <1>7, LenProperties, EmptySeq
<1>9. Rooted(plan) => acc.left = <<>>
  BY <1>1, <1>6, <1>8
<1> QED BY <1>6, <1>9 DEF acc

\* topo_order finds an order exactly when there is one.
LEMMA AcyclicIsRooted ==
  ASSUME NEW plan \in Seq(PlanTask), Distinct(plan)
  PROVE  Acyclic(plan) <=> Rooted(plan)
<1>1. Rooted(plan) => Acyclic(plan)
  BY SortedIs DEF Acyclic
<1>2. ASSUME Acyclic(plan) PROVE Rooted(plan)
  <2> DEFINE acc == TopoSorted(plan)
             done == acc.done
  <2>1. Sorts(plan, acc) /\ AllPlaced(plan, acc) /\ acc.left = <<>>
    BY <1>2, SortedIs DEF Acyclic
  <2>2. DOMAIN <<>> = {}
    BY EmptySeq
  <2>3. ToSet(acc.left) = {}
    BY <2>1, <2>2 DEF ToSet
  <2> SUFFICES ASSUME NEW S \in SUBSET KeysOf(plan), S # {}
               PROVE  \E entry \in ToSet(plan) : entry.key \in S /\ entry.depends_on \cap S = {}
    BY DEF Rooted
  <2>4. done \in Seq(Keys) /\ DependenciesBefore(plan, done)
    BY <2>1 DEF Sorts, Sorting
  <2> HIDE DEF acc
  <2>5. KeysOf(plan) \subseteq ToSet(done)
    BY <2>1, <2>3, KeysOfEntries DEF AllPlaced, Placed
  <2>6. Len(done) \in Nat /\ DOMAIN done = 1..Len(done)
    BY <2>4, LenProperties
  <2> HIDE DEF done
  <2> DEFINE I == {j \in DOMAIN done : done[j] \in S}
  <2>7. I \subseteq Nat /\ I # {}
    BY <2>5, <2>6 DEF ToSet
  <2>8. PICK j \in I : \A m \in I : j <= m
    BY <2>7, Least
  <2>9. PICK i \in DOMAIN plan :
          plan[i].key = done[j] /\ Inside(plan, plan[i]) \subseteq Before(done, j)
    BY <2>4, <2>8 DEF DependenciesBefore
  <2>10. \A d \in S : d \notin Before(done, j)
    <3> SUFFICES ASSUME NEW m \in 1..(j - 1), done[m] \in S PROVE FALSE
      BY DEF Before
    <3>1. j \in 1..Len(done) /\ m \in 1..Len(done) /\ m < j
      BY <2>6, <2>8
    <3>2. m \in I
      BY <2>6, <3>1
    <3> QED BY <2>8, <3>1, <3>2
  <2>11. plan[i].depends_on \cap S = {}
    BY <2>9, <2>10 DEF Inside
  <2> QED BY <2>8, <2>9, <2>11 DEF ToSet
<1> QED BY <1>1, <1>2

\* What a merge has: the new plan, and of the old one what was accepted and left out.
LEMMA MergeEntries ==
  ASSUME NEW new \in Seq(PlanTask), NEW old \in Seq(PlanTask), NEW accepted
  PROVE  LET all == Merge(new, old, accepted)
         IN  /\ all \in Seq(PlanTask)
             /\ ToSet(new) \subseteq ToSet(all)
             /\ \A entry \in ToSet(all) :
                  \/ entry \in ToSet(new)
                  \/ entry \in ToSet(old) /\ entry.key \in accepted /\ entry.key \notin KeysOf(new)
             /\ accepted \cap KeysOf(old) \subseteq KeysOf(all)
             /\ Distinct(new) => Distinct(all)
<1> DEFINE n == Len(old)
<1>1. n \in Nat /\ DOMAIN old = 1..n /\ \A i \in 1..n : old[i] \in PlanTask /\ old[i] \in ToSet(old)
  BY LenProperties, ElementOfSeq DEF ToSet
<1>2. PICK h : /\ h[0] = new /\ h[n] = Merge(new, old, accepted)
               /\ \A i \in 1..n : h[i] = Keep(accepted, h[i - 1], old[i])
  BY MergeSteps
<1> DEFINE Good(i) ==
      /\ h[i] \in Seq(PlanTask)
      /\ ToSet(new) \subseteq ToSet(h[i])
      /\ \A entry \in ToSet(h[i]) :
           \/ entry \in ToSet(new)
           \/ entry \in ToSet(old) /\ entry.key \in accepted /\ entry.key \notin KeysOf(new)
      /\ \A j \in 1..i : old[j].key \in accepted => old[j].key \in KeysOf(h[i])
      /\ Distinct(new) => Distinct(h[i])
<1>3. Good(0)
  BY <1>2
<1>4. ASSUME NEW i \in 0..n, Good(i), i < n PROVE Good(i + 1)
  <2> DEFINE k == i + 1
             entry == old[k]
             acc == h[i]
             next == h[k]
  <2>1. k \in 1..n /\ k - 1 = i /\ entry \in PlanTask /\ entry \in ToSet(old)
    BY <1>1, <1>4
  <2>2. next = Keep(accepted, acc, entry)
    BY <1>2, <2>1
  <2>3. \A m : m \in 1..k <=> m \in 1..i \/ m = k
    BY <2>1
  <2>4. /\ acc \in Seq(PlanTask) /\ ToSet(new) \subseteq ToSet(acc)
        /\ Distinct(new) => Distinct(acc)
    BY <1>4
  <2>5. KeysOf(new) \subseteq KeysOf(acc)
    BY <2>4, KeysOfEntries
  <2>6. CASE entry.key \in accepted \ KeysOf(acc)
    <3> HIDE DEF acc, next, entry
    <3>1. next = <<entry>> \o acc
      BY <2>2, <2>6 DEF Keep
    <3>2. /\ next \in Seq(PlanTask) /\ ToSet(next) = ToSet(acc) \cup {entry}
          /\ KeysOf(next) = KeysOf(acc) \cup {entry.key}
          /\ Distinct(new) => Distinct(next)
      BY <2>1, <2>4, <2>6, <3>1, PrependEntry
    <3>3. \A x \in ToSet(next) :
            \/ x \in ToSet(new)
            \/ x \in ToSet(old) /\ x.key \in accepted /\ x.key \notin KeysOf(new)
      BY <1>4, <2>1, <2>5, <2>6, <3>2 DEF acc
    <3>4. \A j \in 1..k : old[j].key \in accepted => old[j].key \in KeysOf(next)
      BY <1>4, <2>3, <3>2 DEF acc, entry
    <3> QED BY <2>4, <3>2, <3>3, <3>4 DEF next
  <2>7. CASE entry.key \notin accepted \ KeysOf(acc)
    <3>1. next = acc
      BY <2>2, <2>7 DEF Keep
    <3>2. \A j \in 1..k : old[j].key \in accepted => old[j].key \in KeysOf(next)
      BY <1>4, <2>3, <2>7, <3>1
    <3> QED BY <1>4, <3>1, <3>2
  <2> QED BY <2>6, <2>7
<1>5. Good(n)
  <2> DEFINE S == {i \in 0..n : Good(i)}
  <2> HIDE DEF Good, n
  <2>1. 0 \in S /\ \A i \in 0..n : i \in S /\ i < n => i + 1 \in S
    BY <1>1, <1>3, <1>4
  <2>2. \A i \in 0..n : i \in S
    <3> HIDE DEF S
    <3> QED BY <1>1, <2>1, Induct
  <2> QED BY <1>1, <2>2
<1>6. accepted \cap KeysOf(old) \subseteq KeysOf(h[n])
  BY <1>1, <1>5 DEF KeysOf
<1> QED BY <1>2, <1>5, <1>6

\* A merge of two ordered plans has an order: the new plan is complete in itself.
LEMMA MergeRooted ==
  ASSUME NEW new \in Seq(PlanTask), NEW old \in Seq(PlanTask), NEW accepted,
         Distinct(old), Rooted(new), Rooted(old),
         \A entry \in ToSet(new) : entry.depends_on \subseteq KeysOf(new)
  PROVE  Rooted(Merge(new, old, accepted))
<1> DEFINE all == Merge(new, old, accepted)
<1>1. /\ ToSet(new) \subseteq ToSet(all)
      /\ \A entry \in ToSet(all) :
           \/ entry \in ToSet(new)
           \/ entry \in ToSet(old) /\ entry.key \in accepted /\ entry.key \notin KeysOf(new)
  BY MergeEntries
<1> HIDE DEF all
<1> SUFFICES ASSUME NEW S \in SUBSET KeysOf(all), S # {}
             PROVE  \E entry \in ToSet(all) : entry.key \in S /\ entry.depends_on \cap S = {}
  BY DEF Rooted, all
<1>2. CASE S \cap KeysOf(new) # {}
  <2> DEFINE T == S \cap KeysOf(new)
  <2>1. PICK entry \in ToSet(new) : entry.key \in T /\ entry.depends_on \cap T = {}
    BY <1>2 DEF Rooted
  <2> QED BY <1>1, <2>1
<1>3. CASE S \cap KeysOf(new) = {}
  <2>1. \A key \in S : \E entry \in ToSet(all) : entry.key = key /\ entry \in ToSet(old)
    BY <1>1, <1>3, KeysOfEntries
  <2>2. S \subseteq KeysOf(old)
    BY <2>1, KeysOfEntries
  <2>3. PICK entry \in ToSet(old) : entry.key \in S /\ entry.depends_on \cap S = {}
    BY <1>3, <2>2 DEF Rooted
  <2>4. PICK other \in ToSet(all) : other.key = entry.key /\ other \in ToSet(old)
    BY <2>1, <2>3
  <2>5. other = entry
    BY <2>3, <2>4 DEF Distinct, ToSet
  <2> QED BY <2>3, <2>4, <2>5
<1> QED BY <1>2, <1>3

FollowUpSet == ToSet(FollowUpKeys)

\* The key of a follow-up is free.
LEMMA FreeIsFree ==
  ASSUME NEW acc, FreeFollowUp(acc) \in DOMAIN FollowUpKeys
  PROVE  FollowUpKeys[FreeFollowUp(acc)] \notin KeysOf(acc)
<1> DEFINE L == Len(FollowUpKeys)
           used == {i \in DOMAIN FollowUpKeys : FollowUpKeys[i] \in KeysOf(acc)}
           from == Cardinality(used) + 1
           free == (from..(L + 1)) \ used
<1>1. L \in Nat /\ DOMAIN FollowUpKeys = 1..L
  BY KeyAssumption, LenProperties
<1>2. IsFiniteSet(1..L) /\ Cardinality(1..L) = L /\ used \subseteq 1..L
  <2>1. L - 1 + 1 = L /\ 1 \in Int /\ L \in Int
    BY <1>1
  <2>2. IsFiniteSet(1..L) /\ Cardinality(1..L) = IF 1 > L THEN 0 ELSE L - 1 + 1
    BY <2>1, FS_Interval
  <2>3. Cardinality(1..L) = L
    BY <1>1, <2>2
  <2> QED BY <1>1, <2>2, <2>3
<1>3. Cardinality(used) \in Nat /\ Cardinality(used) <= L
  BY <1>1, <1>2, FS_Subset, FS_CardinalityType
<1> HIDE DEF used
<1>4. L + 1 \in free /\ free \subseteq Nat
  BY <1>1, <1>2, <1>3
<1>5. PICK m \in free : \A k \in free : m <= k
  <2> HIDE DEF free
  <2> QED BY <1>4, Least
<1>6. from..(m - 1) \subseteq used
  <2> SUFFICES ASSUME NEW k \in from..(m - 1), k \notin used PROVE FALSE
    OBVIOUS
  <2>1. k \in free /\ k < m
    BY <1>1, <1>3, <1>5
  <2>2. m <= k /\ k \in Nat /\ m \in Nat
    BY <1>4, <1>5, <2>1
  <2> QED BY <2>1, <2>2
<1>7. \E n \in free : from..(n - 1) \subseteq used
  BY <1>5, <1>6
<1> DEFINE pick == CHOOSE n \in free : from..(n - 1) \subseteq used
<1>8. pick \in free
  <2> HIDE DEF free, from
  <2> QED BY <1>7
<1>9. FreeFollowUp(acc) = pick
  BY DEF FreeFollowUp, used
<1>10. FreeFollowUp(acc) \notin used
  <2> HIDE DEF pick
  <2> QED BY <1>8, <1>9
<1> QED BY <1>10 DEF used

\* What the plan says of follow-ups is about follow-ups it has.
Answered(plan) == \A entry \in ToSet(plan) : entry.depends_on \cap FollowUpSet \subseteq KeysOf(plan)

\* One follow-up.
LEMMA FollowUpIs ==
  ASSUME NEW acc \in Seq(PlanTask), NEW entry \in PlanTask
  PROVE  \/ FollowUp(acc, entry) = acc
         \/ \E added \in PlanTask :
              /\ FollowUp(acc, entry) = Append(acc, added)
              /\ added.key \in FollowUpSet /\ added.key \notin KeysOf(acc)
              /\ added.depends_on \subseteq KeysOf(acc)
<1> DEFINE n == FreeFollowUp(acc)
           added == [entry EXCEPT !.key = FollowUpKeys[n], !.depends_on = @ \cap KeysOf(acc)]
<1>1. CASE Usable(entry) /\ n \in DOMAIN FollowUpKeys
  <2>1. FollowUpKeys[n] \in Keys /\ FollowUpKeys[n] \in FollowUpSet
    <3> HIDE DEF n
    <3> QED BY <1>1, KeyAssumption, ElementOfSeq, LenProperties DEF FollowUpSet, ToSet
  <2>2. FollowUpKeys[n] \notin KeysOf(acc)
    BY <1>1, FreeIsFree
  <2>3. FollowUp(acc, entry) = Append(acc, added)
    BY <1>1 DEF FollowUp
  <2>4. /\ added \in PlanTask /\ added.key = FollowUpKeys[n]
        /\ added.depends_on = entry.depends_on \cap KeysOf(acc)
    <3> HIDE DEF n
    <3> QED BY <2>1 DEF PlanTask
  <2> HIDE DEF added, n
  <2> QED BY <2>1, <2>2, <2>3, <2>4
<1>2. CASE ~(Usable(entry) /\ n \in DOMAIN FollowUpKeys)
  BY <1>2 DEF FollowUp
<1> QED BY <1>1, <1>2

\* What is added to a plan stands behind what it has, under keys of its own, and what had
\* an order still has one.
LEMMA FollowUpsAdded ==
  ASSUME NEW plan \in Seq(PlanTask), NEW more \in Seq(PlanTask)
  PROVE  LET all == AddFollowUps(plan, more)
         IN  /\ all \in Seq(PlanTask)
             /\ ToSet(plan) \subseteq ToSet(all)
             /\ Distinct(plan) => Distinct(all)
             /\ Rooted(plan) /\ Answered(plan) => Rooted(all) /\ Answered(all)
<1> DEFINE n == Len(more)
<1>1. n \in Nat /\ DOMAIN more = 1..n /\ \A i \in 1..n : more[i] \in PlanTask
  BY LenProperties, ElementOfSeq
<1>2. PICK h : /\ h[0] = plan /\ h[n] = AddFollowUps(plan, more)
               /\ \A i \in 1..n : h[i] = FollowUp(h[i - 1], more[i])
  BY FollowUpSteps
<1> DEFINE Good(i) == /\ h[i] \in Seq(PlanTask) /\ ToSet(plan) \subseteq ToSet(h[i])
                      /\ Distinct(plan) => Distinct(h[i])
                      /\ Rooted(plan) /\ Answered(plan) => Rooted(h[i]) /\ Answered(h[i])
<1>3. Good(0)
  BY <1>2
<1>4. ASSUME NEW i \in 0..n, Good(i), i < n PROVE Good(i + 1)
  <2> DEFINE acc == h[i]
             next == h[i + 1]
  <2>1. i + 1 \in 1..n /\ (i + 1) - 1 = i /\ more[i + 1] \in PlanTask
    BY <1>1, <1>4
  <2>2. next = FollowUp(acc, more[i + 1]) /\ acc \in Seq(PlanTask)
    BY <1>2, <1>4, <2>1
  <2>3. CASE next = acc
    BY <1>4, <2>3
  <2>4. ASSUME NEW added \in PlanTask, next = Append(acc, added), added.key \in FollowUpSet,
               added.key \notin KeysOf(acc), added.depends_on \subseteq KeysOf(acc)
        PROVE  Good(i + 1)
    <3>1. next \in Seq(PlanTask) /\ ToSet(next) = ToSet(acc) \cup {added}
      BY <2>2, <2>4, AppendIs
    <3>2. /\ KeysOf(next) = KeysOf(acc) \cup {added.key}
          /\ Distinct(acc) => Distinct(next)
      BY <2>2, <2>4, AppendEntry
    <3>3. Answered(acc) => Answered(next)
      <4> HIDE DEF acc, next
      <4> QED BY <2>4, <3>1, <3>2 DEF Answered
    <3>4. Rooted(acc) /\ Answered(acc) => Rooted(next)
      <4> HIDE DEF acc, next
      <4> SUFFICES ASSUME Rooted(acc), Answered(acc), NEW S \in SUBSET KeysOf(next), S # {}
                   PROVE  \E x \in ToSet(next) : x.key \in S /\ x.depends_on \cap S = {}
        BY DEF Rooted
      <4>1. CASE S \cap KeysOf(acc) # {}
        <5> DEFINE T == S \cap KeysOf(acc)
        <5>1. PICK x \in ToSet(acc) : x.key \in T /\ x.depends_on \cap T = {}
          BY <4>1 DEF Rooted
        <5>2. added.key \notin x.depends_on
          BY <2>4, <5>1 DEF Answered
        <5>3. x.depends_on \cap S = {}
          BY <3>2, <5>1, <5>2
        <5> QED BY <3>1, <5>1, <5>3
      <4>2. CASE S \cap KeysOf(acc) = {}
        <5>1. added.key \in S /\ added.depends_on \cap S = {}
          BY <2>4, <3>2, <4>2
        <5> QED BY <3>1, <5>1
      <4> QED BY <4>1, <4>2
    <3> QED BY <1>4, <3>1, <3>2, <3>3, <3>4
  <2> QED BY <2>1, <2>2, <2>3, <2>4, FollowUpIs
<1>5. Good(n)
  <2> DEFINE S == {i \in 0..n : Good(i)}
  <2> HIDE DEF Good, n
  <2>1. 0 \in S /\ \A i \in 0..n : i \in S /\ i < n => i + 1 \in S
    BY <1>1, <1>3, <1>4
  <2>2. \A i \in 0..n : i \in S
    <3> HIDE DEF S
    <3> QED BY <1>1, <2>1, Induct
  <2> QED BY <1>1, <2>2
<1> QED BY <1>2, <1>5

--------------------------------------------------------------------------------
(***************************************************************************)
(* What an epic keeps.                                                     *)
(***************************************************************************)

\* One human at a time: what two commands decide on at once is not kept apart.
OneHuman == \A p, q \in Humans : p = q
\* Nobody plans for follow-ups before they are there.
FollowUpsUnasked ==
  \A plan \in Proposals \cup Edits : \A entry \in ToSet(plan) : entry.depends_on \cap FollowUpSet = {}

\* Who is where, and with what.
PlaceOf(p, c) ==
  /\ c.at \in {"sync", "sync_done"} => c.op \in {"sync", "accept", "verify"}
  /\ c.at = "load" => c.op \in {"accept", "verify"}
  /\ c.at = "create" => c.op \in {"create", "replan", "verify", "accept"}
  /\ c.at = "save" => c.op \in {"create", "replan", "verify", "set_plan"}
  /\ ~(c.op = "accept" /\ c.at = "create") => c.todo = <<>> /\ DOMAIN c.made = {}
  /\ c.op = "create" => c.seen = NewEpic
  /\ p \notin Humans => c.op \in {"none", "sync"}
Places == \A p \in Procs : PlaceOf(p, cmd[p])

\* The tasks an epic names exist.
Named(e) ==
  /\ \A i \in DOMAIN e.planning_tasks :
       e.planning_tasks[i] \in DOMAIN tasks /\ tasks[e.planning_tasks[i]].purpose = "plan"
  /\ e.conformance_task # NoTask => e.conformance_task \in DOMAIN tasks
  /\ \A k \in DOMAIN e.tasks : e.tasks[k] \in DOMAIN tasks /\ tasks[e.tasks[k]].key = k
\* So do those a command is about to name.
Naming(c) ==
  /\ Named(c.seen)
  /\ c.at = "save" /\ c.op # "set_plan" =>
       c.task \in DOMAIN tasks /\ (c.op \in {"create", "replan"} => tasks[c.task].purpose = "plan")
  /\ \A k \in DOMAIN c.made : c.made[k] \in DOMAIN tasks /\ tasks[c.made[k]].key = k
AllNamed == Named(epic) /\ \A p \in Procs : Naming(cmd[p])

\* Plans come from tasks and humans whole, and stay without two entries of one key.
Sound(plan) ==
  /\ Distinct(plan) /\ Acyclic(plan)
  /\ \A entry \in ToSet(plan) : entry.depends_on \subseteq KeysOf(plan)
Proposed ==
  \A t \in DOMAIN tasks :
    tasks[t].purpose = "plan" /\ tasks[t].status = "succeeded" =>
      tasks[t].result \in Proposals /\ Sound(tasks[t].result)
Saving(c) == c.op = "set_plan" /\ c.at = "save"
Planned(c) ==
  /\ Distinct(c.seen.plan)
  /\ \A j \in DOMAIN c.todo : c.todo[j] \in KeysOf(c.seen.plan)
  /\ Saving(c) => c.plan \in Edits /\ Sound(c.plan)
Plans == Distinct(epic.plan) /\ \A p \in Procs : Planned(cmd[p])

Base == TypeOK /\ Places /\ AllNamed /\ Proposed /\ Plans

\* An entry of a plan goes to work with or after those it depends on.
Accepting(p) == cmd[p].op = "accept" /\ cmd[p].at = "create"
Linking(p) ==
  LET c == cmd[p]
      known == Joined(c.made, c.seen.tasks)
  IN  /\ IsInjective(c.todo) /\ ToSet(c.todo) \cap DOMAIN c.made = {}
      /\ ToSet(c.todo) \cup DOMAIN c.made \subseteq OpenKeys(c.seen)
      /\ \A j \in DOMAIN c.todo :
           EntryOf(c.seen.plan, c.todo[j]).depends_on \subseteq DOMAIN known \cup Before(c.todo, j)
      /\ \A k \in DOMAIN c.made :
           LET t == tasks[c.made[k]]
           IN  /\ t.needs = EntryOf(c.seen.plan, k).depends_on
               /\ \A d \in t.needs : d \in DOMAIN known /\ known[d] \in t.depends_on
\* Nothing a human decides on changes meanwhile, except that follow-ups may be added.
Undisturbed(p) ==
  LET e == cmd[p].seen
  IN  /\ epic.status \in {"proposed", "accepted", "done"}
      /\ epic.tasks = e.tasks /\ epic.declined = e.declined
      /\ ToSet(e.plan) \subseteq ToSet(epic.plan)
Careful == \A p \in Procs : Accepting(p) => Linking(p) /\ Undisturbed(p)
\* A plan that is about to be saved has what was accepted.
Complete == \A p \in Procs : Saving(cmd[p]) => Accepted(epic) \subseteq KeysOf(cmd[p].plan)

Deciding == Complete /\ Careful /\ DecisionsStay /\ DependenciesCarried

\* What accepted entries say of follow-ups is about accepted ones.
AcceptedAnswered ==
  \A entry \in ToSet(epic.plan) :
    entry.key \in Accepted(epic) => entry.depends_on \cap FollowUpSet \subseteq Accepted(epic)
Ordering == Rooted(epic.plan) /\ Answered(epic.plan) /\ AcceptedAnswered

--------------------------------------------------------------------------------
(***************************************************************************)
(* Documents and places.                                                   *)
(***************************************************************************)

\* Tasks are added and end; what they are for stays.
TasksGrow ==
  /\ DOMAIN tasks \subseteq DOMAIN tasks'
  /\ \A t \in DOMAIN tasks :
       /\ tasks'[t].purpose = tasks[t].purpose /\ tasks'[t].key = tasks[t].key
       /\ tasks'[t].needs = tasks[t].needs /\ tasks'[t].depends_on = tasks[t].depends_on

\* No task is named at first.
LEMMA NoTasksType == <<>> \in TaskMap /\ DOMAIN <<>> = {}
<1>1. <<>> \in Seq(TaskIds) /\ Len(<<>>) = 0 /\ DOMAIN <<>> = {}
  BY EmptySeq
<1>2. <<>> \in [{} -> TaskIds]
  BY <1>1
<1>3. {} \in SUBSET Keys
  OBVIOUS
<1> QED BY <1>1, <1>2, <1>3 DEF TaskMap

\* A new epic is of its type and names nothing.
LEMMA NewEpicType == NewEpic \in Epic /\ Distinct(NewEpic.plan) /\ Named(NewEpic)
<1>1. <<>> \in Seq(TaskIds) /\ <<>> \in Seq(PlanTask) /\ DOMAIN <<>> = {}
  BY EmptySeq
<1>2. Distinct(<<>>)
  BY <1>1 DEF Distinct
<1> QED BY <1>1, <1>2, NoTasksType DEF NewEpic, Epic, EpicStatus, NoTask, NoPlan, Named

\* A process that does nothing is of its type.
LEMMA IdleType ==
  Idle \in Command /\ Idle.todo = <<>> /\ DOMAIN Idle.todo = {} /\ DOMAIN Idle.made = {}
<1>1. <<>> \in Seq(Keys) /\ <<>> \in Seq(PlanTask) /\ DOMAIN <<>> = {}
  BY EmptySeq
<1> QED BY <1>1, NewEpicType, NoTasksType DEF Idle, Command, Ops, NoTask, NoPlan

\* Joined maps are a map, over the keys of both.
LEMMA JoinedType ==
  ASSUME NEW f \in TaskMap, NEW g \in TaskMap
  PROVE  Joined(f, g) \in TaskMap /\ DOMAIN Joined(f, g) = DOMAIN f \cup DOMAIN g
<1>1. PICK K \in SUBSET Keys : f \in [K -> TaskIds]
  BY DEF TaskMap
<1>2. PICK L \in SUBSET Keys : g \in [L -> TaskIds]
  BY DEF TaskMap
<1>3. Joined(f, g) \in [K \cup L -> TaskIds]
  BY <1>1, <1>2 DEF Joined
<1>4. K \cup L \in SUBSET Keys
  OBVIOUS
<1> QED BY <1>1, <1>2, <1>3, <1>4 DEF TaskMap, Joined

\* What an epic names is there however many tasks there are by then.
LEMMA NamedStays ==
  ASSUME TasksGrow, NEW e, Named(e)
  PROVE  Named(e)'
BY DEF TasksGrow, Named

\* So is what a command is about to name.
LEMMA NamingStays ==
  ASSUME TasksGrow, NEW c, Naming(c)
  PROVE  Naming(c)'
BY NamedStays DEF TasksGrow, Naming

\* A step of one process.
LEMMA BaseOf ==
  ASSUME Base, NEW p \in Procs, NEW c \in Command, cmd' = [cmd EXCEPT ![p] = c],
         tasks' \in Seq(TaskDoc), Len(tasks') <= MaxTasks, TasksGrow, Proposed',
         epic' \in Epic, Named(epic)', Distinct(epic'.plan),
         left' \in [commands : 0..MaxCommands, failures : 0..MaxFailures],
         PlaceOf(p, c), Naming(c)', Planned(c)
  PROVE  Base'
<1>1. cmd \in [Procs -> Command] /\ Places /\ AllNamed /\ Plans
  BY DEF Base, TypeOK
<1>2. cmd' \in [Procs -> Command]
  BY <1>1
<1>3. cmd'[p] = c /\ \A q \in Procs : q # p => cmd'[q] = cmd[q]
  BY <1>1
<1>4. Places'
  BY <1>1, <1>3 DEF Places, PlaceOf
<1>5. ASSUME NEW q \in Procs PROVE Naming(cmd[q])'
  <2>1. CASE q = p
    BY <1>3, <2>1 DEF Naming, Named
  <2>2. CASE q # p
    <3>1. Naming(cmd[q])
      BY <1>1 DEF AllNamed
    <3>2. \A d : Naming(d) => Naming(d)'
      BY NamingStays
    <3>3. PICK d : d = cmd[q]
      OBVIOUS
    <3>4. cmd'[q] = d
      BY ONLY <1>3, <2>2, <3>3
    <3>5. Naming(d)'
      BY ONLY <3>1, <3>2, <3>3
    <3> QED BY ONLY <3>4, <3>5 DEF Naming, Named
  <2> QED BY <2>1, <2>2
<1>6. AllNamed'
  BY <1>5 DEF AllNamed
<1>7. Plans'
  BY <1>1, <1>3 DEF Plans, Planned, Saving
<1>8. TypeOK'
  BY <1>2, <1>6 DEF TypeOK, AllNamed, Named, Accepted
<1> QED BY <1>4, <1>6, <1>7, <1>8 DEF Base

\* A step that adds no task.
LEMMA SameTasks ==
  ASSUME Base, UNCHANGED tasks
  PROVE  /\ tasks' \in Seq(TaskDoc) /\ Len(tasks') <= MaxTasks /\ TasksGrow /\ Proposed'
         /\ \A e : Named(e) => Named(e)'
         /\ \A c : Naming(c) => Naming(c)'
<1>1. TasksGrow
  BY DEF TasksGrow
<1> QED BY <1>1, NamedStays, NamingStays DEF Base, TypeOK, Proposed

\* A process that is done.
LEMMA BaseOfEnd ==
  ASSUME Base, NEW p \in Procs, End(p), UNCHANGED tasks, epic' \in Epic, Named(epic)',
         Distinct(epic'.plan), left' \in [commands : 0..MaxCommands, failures : 0..MaxFailures]
  PROVE  Base'
<1>1. Idle \in Command /\ PlaceOf(p, Idle) /\ Planned(Idle) /\ Naming(Idle)
  <2>1. Idle.at = "idle" /\ Idle.op = "none" /\ Idle.seen = NewEpic
    BY DEF Idle
  <2> QED BY <2>1, IdleType, NewEpicType DEF PlaceOf, Planned, Saving, Naming
<1>2. Naming(Idle)'
  BY <1>1, SameTasks
<1> QED BY <1>1, <1>2, SameTasks, BaseOf DEF End

\* A new task.
LEMMA OneMoreTask ==
  ASSUME Base, NEW doc \in TaskDoc, doc.status = "open", Len(tasks) < MaxTasks,
         tasks' = Append(tasks, doc)
  PROVE  /\ tasks' \in Seq(TaskDoc) /\ Len(tasks') <= MaxTasks /\ TasksGrow /\ Proposed'
         /\ Len(tasks) + 1 \in TaskIds /\ Len(tasks) + 1 \in DOMAIN tasks'
         /\ tasks'[Len(tasks) + 1] = doc
         /\ \A e : Named(e) => Named(e)'
         /\ \A c : Naming(c) => Naming(c)'
<1>1. tasks \in Seq(TaskDoc) /\ Proposed
  BY DEF Base, TypeOK
<1>2. /\ tasks' \in Seq(TaskDoc)
      /\ Len(tasks) \in Nat /\ DOMAIN tasks = 1..Len(tasks)
      /\ DOMAIN tasks' = 1..(Len(tasks) + 1) /\ Len(tasks') = Len(tasks) + 1
      /\ \A i \in 1..Len(tasks) : tasks'[i] = tasks[i]
      /\ tasks'[Len(tasks) + 1] = doc
  BY <1>1, AppendIs
<1>3. Len(tasks') <= MaxTasks /\ Len(tasks) + 1 \in TaskIds /\ Len(tasks) + 1 \in DOMAIN tasks'
  BY <1>2, EpicAssumption DEF TaskIds
<1>4. DOMAIN tasks \subseteq DOMAIN tasks'
      /\ \A t \in DOMAIN tasks' : t \in DOMAIN tasks \/ t = Len(tasks) + 1
  BY <1>2
<1>5. TasksGrow
  BY <1>2, <1>4 DEF TasksGrow
<1>6. Proposed'
  BY <1>1, <1>2, <1>4 DEF Proposed
<1> QED BY <1>2, <1>3, <1>5, <1>6, NamedStays, NamingStays

\* A plan that passed validate_plan is whole.
LEMMA SoundIfValid ==
  ASSUME NEW plan, NEW max, ValidPlan(plan, {}, max)
  PROVE  Sound(plan)
<1>1. Distinct(plan) /\ Acyclic(plan)
  BY DEF ValidPlan
<1>2. \A i \in DOMAIN plan : plan[i].depends_on \subseteq KeysOf(plan)
  BY DEF ValidPlan
<1> QED BY <1>1, <1>2 DEF Sound, ToSet

\* A task ends.
LEMMA BaseOfAgents ==
  ASSUME Base, NEW t \in DOMAIN tasks, AgentEnds(t)
  PROVE  Base' /\ TasksGrow /\ UNCHANGED <<epic, cmd, left>>
<1>1. tasks \in Seq(TaskDoc) /\ Proposed
  BY DEF Base, TypeOK
<1>2. PICK status \in {"succeeded", "failed"}, result \in Seq(PlanTask) :
        /\ tasks' = [tasks EXCEPT ![t].status = status, ![t].result = result]
        /\ UNCHANGED <<epic, cmd, left>>
        /\ tasks[t].purpose = "plan" /\ status = "succeeded" => result \in Proposals /\ Sound(result)
  <2>1. <<>> \in Seq(PlanTask)
    BY EmptySeq
  <2>2. CASE PlannerAnswers(t)
    BY <2>2, EpicAssumption, SoundIfValid DEF PlannerAnswers, PlanRules, TaskEnds
  <2>3. CASE ReviewerAnswers(t)
    BY <2>3, EpicAssumption DEF ReviewerAnswers, TaskEnds
  <2>4. CASE WorkSucceeds(t)
    BY <2>1, <2>4 DEF WorkSucceeds, TaskEnds
  <2>5. CASE TaskFails(t)
    BY <2>1, <2>5 DEF TaskFails, TaskEnds
  <2> QED BY <2>2, <2>3, <2>4, <2>5 DEF AgentEnds
<1>3. Len(tasks) \in Nat /\ DOMAIN tasks = 1..Len(tasks) /\ tasks[t] \in TaskDoc
  BY <1>1, ElementOfSeq, LenProperties
<1> DEFINE doc == [tasks[t] EXCEPT !.status = status, !.result = result]
<1>4. doc \in TaskDoc
  BY <1>3 DEF TaskDoc
<1>5. tasks' = [tasks EXCEPT ![t] = doc]
  BY <1>2
<1>6. /\ doc.purpose = tasks[t].purpose /\ doc.key = tasks[t].key /\ doc.needs = tasks[t].needs
      /\ doc.depends_on = tasks[t].depends_on /\ doc.status = status /\ doc.result = result
  BY <1>3 DEF TaskDoc
<1> HIDE DEF doc
<1>7. tasks' \in Seq(TaskDoc) /\ Len(tasks') = Len(tasks) /\ DOMAIN tasks' = DOMAIN tasks
  BY <1>1, <1>3, <1>4, <1>5, ExceptSeq
<1>8. \A u \in DOMAIN tasks : tasks'[u] = IF u = t THEN doc ELSE tasks[u]
  BY <1>5
<1>9. TasksGrow
  BY <1>6, <1>7, <1>8 DEF TasksGrow
<1>10. Proposed'
  BY <1>1, <1>2, <1>6, <1>7, <1>8 DEF Proposed
<1>11. Named(epic)'
  <2>1. Named(epic)
    BY DEF Base, AllNamed
  <2>2. \A e : Named(e) => Named(e)'
    BY <1>9, NamedStays
  <2> QED BY <1>2, <2>1, <2>2 DEF Named
<1>12. ASSUME NEW q \in Procs PROVE Naming(cmd[q])'
  <2>1. Naming(cmd[q])
    BY DEF Base, AllNamed
  <2>2. \A c : Naming(c) => Naming(c)'
    BY <1>9, NamingStays
  <2>3. PICK c : c = cmd[q]
    OBVIOUS
  <2>4. cmd'[q] = c
    BY <1>2, <2>3
  <2>5. Naming(c)'
    BY ONLY <2>1, <2>2, <2>3
  <2> QED BY ONLY <2>4, <2>5 DEF Naming, Named
<1>13. AllNamed'
  BY <1>11, <1>12 DEF AllNamed
<1>14. TypeOK'
  BY <1>2, <1>7, <1>11 DEF Base, TypeOK, Named, Accepted
<1> QED BY <1>2, <1>9, <1>10, <1>13, <1>14 DEF Base, Places, PlaceOf, Plans, Planned, Saving

\* A process that begins something, having looked at the epic or not.
LEMMA BaseOfBegin ==
  ASSUME Base, NEW p \in Procs, NEW c \in Command, cmd' = [cmd EXCEPT ![p] = c],
         c.todo = <<>>, c.made = Idle.made, UNCHANGED tasks,
         epic' \in Epic, Named(epic'), Distinct(epic'.plan),
         left' \in [commands : 0..MaxCommands, failures : 0..MaxFailures],
         PlaceOf(p, c), Named(c.seen), c.at # "save" \/ c.op = "set_plan", Planned(c)
  PROVE  Base'
<1>1. DOMAIN c.made = {}
  BY IdleType
<1>2. Naming(c)
  BY <1>1 DEF Naming
<1>3. Naming(c)'
  BY <1>2, SameTasks
<1>4. Named(epic)'
  BY DEF Named
<1> QED BY <1>3, <1>4, SameTasks, BaseOf

\* The count of commands goes down.
LEMMA CommandCounted ==
  ASSUME Base, left.commands > 0, left' = [left EXCEPT !.commands = @ - 1]
  PROVE  left' \in [commands : 0..MaxCommands, failures : 0..MaxFailures]
BY EpicAssumption DEF Base, TypeOK

\* The stored epic, of what is kept.
LEMMA EpicKept == ASSUME Base PROVE epic \in Epic /\ Named(epic) /\ Distinct(epic.plan)
BY DEF Base, TypeOK, AllNamed, Plans

\* The keys of a plan are keys.
LEMMA PlanKeysType == ASSUME NEW plan \in Seq(PlanTask) PROVE KeysOf(plan) \subseteq Keys
<1>1. DOMAIN plan = 1..Len(plan) /\ \A i \in 1..Len(plan) : plan[i] \in PlanTask
  BY ElementOfSeq, LenProperties
<1> QED BY <1>1 DEF KeysOf, PlanTask

\* A command that starts.
LEMMA BaseOfStart ==
  ASSUME Base, NEW p \in Humans, Start(p)
  PROVE  Base' /\ UNCHANGED tasks
<1>0. p \in Procs /\ UNCHANGED tasks
  BY DEF Procs, Start, CreateEpic, Replan, BeginSynced, Reject, SetPlan
<1>1. left' \in [commands : 0..MaxCommands, failures : 0..MaxFailures]
  BY CommandCounted DEF Start, CreateEpic, Replan, BeginSynced, Begin, Reject, SetPlan
<1>2. CASE CreateEpic(p)
  <2>1. PICK c : c = [Idle EXCEPT !.op = "create", !.at = "create", !.seen = NewEpic]
    OBVIOUS
  <2>2. /\ c \in Command /\ c.op = "create" /\ c.at = "create" /\ c.seen = NewEpic
        /\ c.todo = <<>> /\ c.made = Idle.made
    BY <2>1, IdleType, NewEpicType DEF Idle, Command, Ops
  <2>3. cmd' = [cmd EXCEPT ![p] = c] /\ epic' = NewEpic
    BY <1>2, <2>1 DEF CreateEpic
  <2>4. PlaceOf(p, c) /\ Planned(c) /\ Named(c.seen)
    BY <2>2, NewEpicType, IdleType DEF PlaceOf, Planned, Saving
  <2> QED BY <1>0, <1>1, <2>2, <2>3, <2>4, NewEpicType, BaseOfBegin
<1>3. ASSUME NEW op \in {"replan", "accept", "verify"}, NEW at \in {"sync", "create"},
             at = "create" <=> op = "replan", Begin(p, op, at), UNCHANGED epic
      PROVE  Base'
  <2>1. PICK c : c = [Idle EXCEPT !.op = op, !.at = at, !.seen = epic]
    OBVIOUS
  <2>2. /\ c \in Command /\ c.op = op /\ c.at = at /\ c.seen = epic
        /\ c.todo = <<>> /\ c.made = Idle.made
    BY <2>1, IdleType, EpicKept DEF Idle, Command, Ops
  <2>3. cmd' = [cmd EXCEPT ![p] = c] /\ epic' = epic
    BY <1>3, <2>1 DEF Begin
  <2>4. PlaceOf(p, c) /\ Planned(c) /\ Named(c.seen)
    BY <1>3, <2>2, EpicKept, IdleType DEF PlaceOf, Planned, Saving
  <2>5. epic' \in Epic /\ Named(epic') /\ Distinct(epic'.plan) /\ c.at # "save"
    BY <2>2, <2>3, EpicKept
  <2> QED BY <1>0, <1>1, <2>2, <2>3, <2>4, <2>5, BaseOfBegin
<1>4. CASE Replan(p)
  BY <1>3, <1>4 DEF Replan
<1>5. CASE BeginSynced(p)
  BY <1>3, <1>5 DEF BeginSynced
<1>6. CASE Reject(p)
  <2>1. PICK c : c = cmd[p]
    OBVIOUS
  <2>2. /\ c \in Command /\ cmd' = [cmd EXCEPT ![p] = c]
        /\ PlaceOf(p, c) /\ Naming(c) /\ Planned(c)
    BY <1>0, <1>6, <2>1 DEF Reject, Base, TypeOK, Places, AllNamed, Plans
  <2>3. /\ epic' \in Epic /\ epic'.plan = epic.plan /\ epic'.tasks = epic.tasks
        /\ epic'.planning_tasks = epic.planning_tasks
        /\ epic'.conformance_task = epic.conformance_task
    <3>1. OpenKeys(epic) \subseteq Keys
      BY EpicKept, PlanKeysType DEF Epic, OpenKeys
    <3>2. \A D \in SUBSET Keys : [epic EXCEPT !.declined = @ \cup D] \in Epic
      BY EpicKept DEF Epic
    <3>3. [epic EXCEPT !.status = "rejected"] \in Epic
      BY EpicKept DEF Epic, EpicStatus
    <3>4. PICK D \in SUBSET Keys : \/ epic' = [epic EXCEPT !.declined = @ \cup D]
                                   \/ epic' = [epic EXCEPT !.status = "rejected"]
      BY <1>6, <3>1 DEF Reject
    <3> QED BY <3>2, <3>3, <3>4, EpicKept DEF Epic
  <2>4. Named(epic')
    BY <2>3, EpicKept DEF Named
  <2>5. Named(epic)' /\ Naming(c)'
    <3>1. UNCHANGED tasks
      BY <1>0
    <3> QED BY <2>2, <2>4, <3>1, SameTasks DEF Named
  <2> QED BY <1>0, <1>1, <2>2, <2>3, <2>5, EpicKept, SameTasks, BaseOf
<1>7. CASE SetPlan(p)
  <2>1. PICK plan \in Edits :
          /\ ValidPlan(plan, {}, MaxPlanTasks) /\ UNCHANGED <<epic, tasks>>
          /\ cmd' = [cmd EXCEPT ![p] =
                       [Idle EXCEPT !.op = "set_plan", !.at = "save", !.plan = plan]]
    BY <1>7 DEF SetPlan
  <2>2. PICK c : c = [Idle EXCEPT !.op = "set_plan", !.at = "save", !.plan = plan]
    OBVIOUS
  <2>3. plan \in Seq(PlanTask)
    BY EpicAssumption
  <2>4. /\ c \in Command /\ c.op = "set_plan" /\ c.at = "save" /\ c.seen = NewEpic
        /\ c.plan = plan /\ c.todo = <<>> /\ c.made = Idle.made
    BY <2>2, <2>3, IdleType DEF Idle, Command, Ops
  <2>5. PlaceOf(p, c) /\ Planned(c) /\ Named(c.seen)
    BY <2>1, <2>4, NewEpicType, IdleType, SoundIfValid DEF PlaceOf, Planned, Saving
  <2>6. epic' \in Epic /\ Named(epic') /\ Distinct(epic'.plan)
    BY <2>1, EpicKept
  <2> QED BY <1>0, <1>1, <2>1, <2>2, <2>4, <2>5, <2>6, BaseOfBegin
<1> QED BY <1>0, <1>2, <1>4, <1>5, <1>6, <1>7 DEF Start

\* A process that goes on.
LEMMA BaseOfAdvance ==
  ASSUME Base, NEW p \in Procs, NEW at \in {"sync_done", "load", "create"}, Advance(p, at),
         cmd[p].todo = <<>>, DOMAIN cmd[p].made = {},
         at = "sync_done" => cmd[p].op \in {"sync", "accept", "verify"},
         at = "load" => cmd[p].op \in {"accept", "verify"},
         at = "create" => cmd[p].op = "verify",
         UNCHANGED tasks, epic' \in Epic, Named(epic)', Distinct(epic'.plan),
         left' \in [commands : 0..MaxCommands, failures : 0..MaxFailures]
  PROVE  Base'
<1>1. cmd[p] \in Command /\ PlaceOf(p, cmd[p]) /\ Naming(cmd[p]) /\ Planned(cmd[p])
  BY DEF Base, TypeOK, Places, AllNamed, Plans
<1>2. PICK c : c = [cmd[p] EXCEPT !.at = at]
  OBVIOUS
<1>3. /\ c \in Command /\ c.at = at /\ c.op = cmd[p].op /\ c.seen = cmd[p].seen
      /\ c.todo = cmd[p].todo /\ c.made = cmd[p].made
  BY <1>1, <1>2 DEF Command
<1>4. cmd' = [cmd EXCEPT ![p] = c]
  BY <1>2 DEF Advance
<1>5. PlaceOf(p, c) /\ Planned(c)
  BY <1>1, <1>3 DEF PlaceOf, Planned, Saving
<1>6. Naming(c)
  BY <1>1, <1>3 DEF Naming
<1>7. Naming(c)'
  BY <1>6, SameTasks
<1> QED BY <1>3, <1>4, <1>5, <1>7, SameTasks, BaseOf

\* A step of sync, whatever it made of the epic.
LEMMA BaseOfSynced ==
  ASSUME Base, NEW p \in Procs, cmd[p].at \in {"sync", "sync_done"},
         Synced(p) \/ Advance(p, "sync_done"),
         UNCHANGED <<tasks, left>>, epic' \in Epic, Named(epic)', Distinct(epic'.plan)
  PROVE  Base'
<1>1. PlaceOf(p, cmd[p]) /\ left' \in [commands : 0..MaxCommands, failures : 0..MaxFailures]
  BY DEF Base, TypeOK, Places
<1>2. /\ cmd[p].op \in {"sync", "accept", "verify"}
      /\ cmd[p].todo = <<>> /\ DOMAIN cmd[p].made = {}
  BY <1>1 DEF PlaceOf
<1>3. CASE Advance(p, "sync_done")
  BY <1>1, <1>2, <1>3, BaseOfAdvance
<1>4. CASE Synced(p) /\ cmd[p].op = "sync"
  BY <1>1, <1>4, BaseOfEnd DEF Synced
<1>5. CASE Synced(p) /\ cmd[p].op # "sync"
  <2>1. Advance(p, "load")
    BY <1>5 DEF Synced
  <2> QED BY <1>1, <1>2, <1>5, <2>1, BaseOfAdvance
<1> QED BY <1>3, <1>4, <1>5

\* What a step of sync makes of the epic.
LEMMA SyncedEpic ==
  ASSUME Base, NEW p \in Procs, SyncStep(p)
  PROVE  /\ epic' \in Epic /\ Named(epic') /\ Distinct(epic'.plan)
         /\ epic'.tasks = epic.tasks /\ epic'.declined = epic.declined
         /\ epic'.plan # epic.plan =>
              \/ \E result \in Seq(PlanTask) :
                   /\ result \in Proposals /\ Sound(result) /\ epic.status = "planning"
                   /\ epic'.plan = Merge(result, epic.plan, Accepted(epic))
              \/ \E result \in Seq(PlanTask) : epic'.plan = AddFollowUps(epic.plan, result)
         /\ epic'.status # epic.status =>
              \/ epic.status = "planning"
              \/ epic.status = "accepted" /\ epic'.status = "done"
<1>1. epic \in Epic /\ Named(epic) /\ Distinct(epic.plan) /\ epic.plan \in Seq(PlanTask)
  BY EpicKept DEF Epic
<1>2. tasks \in Seq(TaskDoc) /\ Proposed /\ cmd[p] \in Command
  BY DEF Base, TypeOK
<1>3. \A t \in DOMAIN tasks : tasks[t].result \in Seq(PlanTask)
  <2>1. \A t \in DOMAIN tasks : tasks[t] \in TaskDoc
    BY <1>2, ElementOfSeq, LenProperties
  <2> QED BY <2>1 DEF TaskDoc
<1>4. CASE UNCHANGED epic
  BY <1>1, <1>4
<1>5. CASE SyncPlanning(p) /\ epic' # epic
  <2> DEFINE t == Last(cmd[p].seen.planning_tasks)
  <2>1. /\ epic.status = "planning" /\ t \in DOMAIN tasks /\ tasks[t].purpose = "plan"
        /\ cmd[p].seen.planning_tasks # <<>>
    <3>1. Naming(cmd[p]) /\ cmd[p].seen \in Epic
      BY <1>2 DEF Base, AllNamed, Command
    <3>2. cmd[p].seen.planning_tasks # <<>> /\ epic.status = "planning"
      BY <1>5 DEF SyncPlanning
    <3>3. PICK s \in Seq(TaskIds) : s = cmd[p].seen.planning_tasks
      BY <3>1 DEF Epic
    <3>4. Len(s) \in 1..Len(s) /\ DOMAIN s = 1..Len(s)
      BY <3>2, <3>3, EmptySeq, LenProperties
    <3> QED BY <3>1, <3>2, <3>3, <3>4 DEF Naming, Named, Last
  <2>2. \/ /\ tasks[t].status = "succeeded"
           /\ epic' = [epic EXCEPT !.plan = Merge(tasks[t].result, @, Accepted(epic)),
                                   !.status = "proposed"]
        \/ epic' = [epic EXCEPT !.status = "plan_failed"]
    BY <1>5 DEF SyncPlanning
  <2> HIDE DEF t
  <2>3. CASE epic' = [epic EXCEPT !.status = "plan_failed"]
    <3>1. /\ epic' \in Epic /\ epic'.plan = epic.plan /\ epic'.tasks = epic.tasks
          /\ epic'.planning_tasks = epic.planning_tasks /\ epic'.declined = epic.declined
          /\ epic'.conformance_task = epic.conformance_task
      BY <1>1, <2>3 DEF Epic, EpicStatus
    <3> QED BY <1>1, <2>1, <3>1 DEF Named
  <2>4. CASE tasks[t].status = "succeeded"
             /\ epic' = [epic EXCEPT !.plan = Merge(tasks[t].result, @, Accepted(epic)),
                                     !.status = "proposed"]
    <3> DEFINE all == Merge(tasks[t].result, epic.plan, Accepted(epic))
    <3>1. tasks[t].result \in Proposals /\ Sound(tasks[t].result)
      BY <1>2, <2>1, <2>4 DEF Proposed
    <3>2. all \in Seq(PlanTask) /\ Distinct(all)
      BY <1>1, <1>3, <2>1, <3>1, MergeEntries DEF Sound
    <3>3. epic' = [epic EXCEPT !.plan = all, !.status = "proposed"]
      BY <2>4
    <3>4. epic'.plan = Merge(tasks[t].result, epic.plan, Accepted(epic))
      BY <1>1, <3>3 DEF Epic
    <3> HIDE DEF all
    <3>5. /\ epic' \in Epic /\ epic'.plan = all /\ epic'.tasks = epic.tasks
          /\ epic'.planning_tasks = epic.planning_tasks /\ epic'.declined = epic.declined
          /\ epic'.conformance_task = epic.conformance_task
      BY <1>1, <3>2, <3>3 DEF Epic, EpicStatus
    <3> QED BY <1>1, <1>3, <2>1, <3>1, <3>2, <3>4, <3>5 DEF Named
  <2> QED BY <2>2, <2>3, <2>4
<1>6. CASE SyncConformance(p) /\ epic' # epic
  <2> DEFINE t == cmd[p].seen.conformance_task
  <2>1. t # NoTask
    BY <1>6 DEF SyncConformance
  <2>2. t \in DOMAIN tasks
    BY <2>1 DEF Base, AllNamed, Naming, Named
  <2>3. \/ epic' = [epic EXCEPT !.conformance = "reviewed",
                                !.plan = AddFollowUps(@, tasks[t].result)]
        \/ epic' = [epic EXCEPT !.conformance = "error"]
    BY <1>6 DEF SyncConformance
  <2> HIDE DEF t
  <2>4. CASE epic' = [epic EXCEPT !.conformance = "error"]
    <3>1. /\ epic' \in Epic /\ epic'.plan = epic.plan /\ epic'.tasks = epic.tasks
          /\ epic'.planning_tasks = epic.planning_tasks /\ epic'.declined = epic.declined
          /\ epic'.conformance_task = epic.conformance_task /\ epic'.status = epic.status
      BY <1>1, <2>4 DEF Epic
    <3> QED BY <1>1, <3>1 DEF Named
  <2>5. CASE epic' = [epic EXCEPT !.conformance = "reviewed",
                                  !.plan = AddFollowUps(@, tasks[t].result)]
    <3> DEFINE all == AddFollowUps(epic.plan, tasks[t].result)
    <3>1. all \in Seq(PlanTask) /\ Distinct(all)
      BY <1>1, <1>3, <2>2, FollowUpsAdded
    <3>2. epic' = [epic EXCEPT !.conformance = "reviewed", !.plan = all]
      BY <2>5
    <3>3. epic'.plan = AddFollowUps(epic.plan, tasks[t].result)
      BY <1>1, <3>2 DEF Epic
    <3> HIDE DEF all
    <3>4. /\ epic' \in Epic /\ epic'.plan = all /\ epic'.tasks = epic.tasks
          /\ epic'.planning_tasks = epic.planning_tasks /\ epic'.declined = epic.declined
          /\ epic'.conformance_task = epic.conformance_task /\ epic'.status = epic.status
      BY <1>1, <3>1, <3>2 DEF Epic
    <3> QED BY <1>1, <1>3, <2>2, <3>1, <3>3, <3>4 DEF Named
  <2> QED BY <2>3, <2>4, <2>5
<1>7. CASE SyncDone(p) /\ epic' # epic
  <2>1. epic.status = "accepted" /\ epic' = [epic EXCEPT !.status = "done"]
    BY <1>7 DEF SyncDone
  <2>2. /\ epic' \in Epic /\ epic'.plan = epic.plan /\ epic'.tasks = epic.tasks
        /\ epic'.planning_tasks = epic.planning_tasks /\ epic'.declined = epic.declined
        /\ epic'.conformance_task = epic.conformance_task /\ epic'.status = "done"
    BY <1>1, <2>1 DEF Epic, EpicStatus
  <2> QED BY <1>1, <2>1, <2>2 DEF Named
<1> QED BY <1>4, <1>5, <1>6, <1>7 DEF SyncStep, SyncNothing

\* A step of sync.
LEMMA BaseOfSync ==
  ASSUME Base, NEW p \in Procs, SyncStep(p)
  PROVE  Base'
<1>1. /\ cmd[p].at \in {"sync", "sync_done"} /\ UNCHANGED <<tasks, left>>
      /\ Synced(p) \/ Advance(p, "sync_done")
  BY DEF SyncStep, SyncPlanning, SyncConformance, SyncDone, SyncNothing
<1>2. epic' \in Epic /\ Named(epic') /\ Distinct(epic'.plan)
  BY SyncedEpic
<1>3. Named(epic)'
  BY <1>1, <1>2 DEF Named
<1> QED BY <1>1, <1>2, <1>3, BaseOfSynced

\* The daemon starts to sync.
LEMMA BaseOfSyncStart ==
  ASSUME Base, Sync(Daemon)
  PROVE  Base'
<1>1. Daemon \in Procs
  BY DEF Procs
<1>2. PICK c : c = [Idle EXCEPT !.op = "sync", !.at = "sync", !.seen = epic]
  OBVIOUS
<1>3. /\ c \in Command /\ c.op = "sync" /\ c.at = "sync" /\ c.seen = epic
      /\ c.todo = <<>> /\ c.made = Idle.made
  BY <1>2, IdleType, EpicKept DEF Idle, Command, Ops
<1>4. cmd' = [cmd EXCEPT ![Daemon] = c] /\ UNCHANGED <<epic, tasks, left>>
  BY <1>2 DEF Sync
<1>5. PlaceOf(Daemon, c) /\ Planned(c) /\ Named(c.seen)
  BY <1>3, EpicKept, IdleType DEF PlaceOf, Planned, Saving
<1>6. left' \in [commands : 0..MaxCommands, failures : 0..MaxFailures]
  BY <1>4 DEF Base, TypeOK
<1>7. epic' \in Epic /\ Named(epic') /\ Distinct(epic'.plan) /\ c.at # "save" /\ UNCHANGED tasks
  BY <1>3, <1>4, EpicKept
<1> QED BY <1>1, <1>3, <1>4, <1>5, <1>6, <1>7, BaseOfBegin

\* Where the next task of an accepted plan comes from.
LEMMA TodoType ==
  ASSUME NEW c \in Command, c.todo # <<>>
  PROVE  /\ Head(c.todo) \in Keys /\ Tail(c.todo) \in Seq(Keys)
         /\ Head(c.todo) = c.todo[1] /\ 1 \in DOMAIN c.todo
         /\ Len(c.todo) \in Nat /\ Len(c.todo) > 0
         /\ DOMAIN Tail(c.todo) = 1..(Len(c.todo) - 1)
         /\ \A j \in 1..(Len(c.todo) - 1) : Tail(c.todo)[j] = c.todo[j + 1]
<1>1. PICK s \in Seq(Keys) : s = c.todo
  BY DEF Command
<1>2. Len(s) \in Nat /\ Len(s) > 0 /\ DOMAIN s = 1..Len(s)
  BY <1>1, EmptySeq, LenProperties
<1>3. /\ Head(s) \in Keys /\ Head(s) = s[1] /\ Tail(s) \in Seq(Keys) /\ Len(Tail(s)) = Len(s) - 1
      /\ \A j \in 1..(Len(s) - 1) : Tail(s)[j] = s[j + 1]
  BY <1>1, <1>2, HeadTailProperties, EmptySeq
<1>4. DOMAIN Tail(s) = 1..(Len(s) - 1)
  BY <1>3, LenProperties
<1>5. 1 \in DOMAIN s
  BY <1>2
<1> QED BY <1>1, <1>2, <1>3, <1>4, <1>5

\* The entry of a key.
LEMMA EntryIs ==
  ASSUME NEW plan \in Seq(PlanTask), NEW key \in KeysOf(plan)
  PROVE  /\ EntryOf(plan, key) \in ToSet(plan) /\ EntryOf(plan, key) \in PlanTask
         /\ EntryOf(plan, key).key = key
<1>1. \E i \in DOMAIN plan : plan[i].key = key
  BY DEF KeysOf
<1> DEFINE i == CHOOSE i \in DOMAIN plan : plan[i].key = key
<1>2. i \in DOMAIN plan /\ plan[i].key = key
  BY <1>1
<1>3. EntryOf(plan, key) = plan[i]
  BY DEF EntryOf
<1> HIDE DEF i
<1>4. plan[i] \in PlanTask
  BY <1>2, ElementOfSeq, LenProperties
<1> QED BY <1>2, <1>3, <1>4 DEF ToSet

\* The order tasks are created in.
LEMMA OrderType ==
  ASSUME NEW keys, NEW e \in Epic, Distinct(e.plan)
  PROVE  /\ Order(e, keys) \in Seq(Keys) /\ IsInjective(Order(e, keys))
         /\ ToSet(Order(e, keys)) \subseteq KeysOf(e.plan) \cap keys
         /\ \A j \in DOMAIN Order(e, keys) :
              LET entry == EntryOf(e.plan, Order(e, keys)[j])
              IN  entry.depends_on \cap keys \cap KeysOf(e.plan) \subseteq Before(Order(e, keys), j)
<1> DEFINE chosen == Chosen(e, keys)
           sorted == TopoSorted(chosen)
<1>1. e.plan \in Seq(PlanTask)
  BY DEF Epic
<1>2. /\ chosen \in Seq(PlanTask) /\ Distinct(chosen)
      /\ ToSet(chosen) = {entry \in ToSet(e.plan) : entry.key \in keys}
  BY <1>1, ChosenEntries
<1>3. Sorts(chosen, sorted)
  <2> HIDE DEF chosen
  <2> QED BY <1>2, SortedIs
<1>4. Order(e, keys) = sorted.done
  BY DEF Order, TopoOrder
<1> HIDE DEF sorted
<1>5. sorted.done \in Seq(Keys) /\ IsInjective(sorted.done) /\ DependenciesBefore(chosen, sorted.done)
  BY <1>3 DEF Sorts, Sorting, Apart
<1> HIDE DEF chosen
<1>6. KeysOf(chosen) = KeysOf(e.plan) \cap keys
  BY <1>2, KeysOfEntries
<1>7. ToSet(sorted.done) \subseteq KeysOf(chosen)
  BY <1>5 DEF DependenciesBefore, ToSet, KeysOf
<1>8. ASSUME NEW j \in DOMAIN sorted.done
      PROVE  EntryOf(e.plan, sorted.done[j]).depends_on \cap keys \cap KeysOf(e.plan)
               \subseteq Before(sorted.done, j)
  <2>1. PICK i \in DOMAIN chosen : /\ chosen[i].key = sorted.done[j]
                                   /\ Inside(chosen, chosen[i]) \subseteq Before(sorted.done, j)
    BY <1>5 DEF DependenciesBefore
  <2>2. chosen[i] \in ToSet(chosen) /\ sorted.done[j] \in KeysOf(e.plan)
    BY <1>6, <2>1 DEF ToSet, KeysOf
  <2>3. PICK entry \in ToSet(e.plan) : entry = chosen[i]
    BY <1>2, <2>2
  <2>4. EntryOf(e.plan, sorted.done[j]) = entry
    BY <1>1, <2>1, <2>2, <2>3, EntryIs DEF Distinct, ToSet
  <2> QED BY <1>6, <2>1, <2>3, <2>4 DEF Inside
<1> QED BY <1>4, <1>5, <1>6, <1>7, <1>8

\* A task for a planning or a conformance agent.
LEMMA CreateHelperIs ==
  ASSUME Base, NEW p \in Procs, CreateHelper(p)
  PROVE  /\ Base' /\ TasksGrow /\ UNCHANGED epic
         /\ cmd' = [cmd EXCEPT ![p] = cmd'[p]] /\ cmd'[p].at = "save" /\ cmd'[p].op # "set_plan"
<1> DEFINE purpose == IF cmd[p].op = "verify" THEN "conformance" ELSE "plan"
           doc == Helper(purpose)
<1>1. /\ cmd[p].op \in {"create", "replan", "verify"} /\ cmd[p].at = "create"
      /\ Len(tasks) < MaxTasks /\ tasks' = Append(tasks, doc) /\ UNCHANGED <<epic, left>>
  BY DEF CreateHelper, At
<1>2. doc \in TaskDoc /\ doc.status = "open" /\ doc.purpose = purpose
  <2>1. <<>> \in Seq(PlanTask)
    BY EmptySeq
  <2> QED BY <2>1 DEF TaskDoc, Helper
<1>3. PICK d \in TaskDoc : d = doc
  BY <1>2
<1> HIDE DEF doc
<1>4. /\ tasks' \in Seq(TaskDoc) /\ Len(tasks') <= MaxTasks /\ TasksGrow /\ Proposed'
      /\ Len(tasks) + 1 \in TaskIds /\ Len(tasks) + 1 \in DOMAIN tasks'
      /\ tasks'[Len(tasks) + 1] = d
      /\ \A e : Named(e) => Named(e)'
      /\ \A c : Naming(c) => Naming(c)'
  BY <1>1, <1>2, <1>3, OneMoreTask
<1>5. PICK c : c = [cmd[p] EXCEPT !.at = "save", !.task = Len(tasks) + 1]
  OBVIOUS
<1>6. cmd[p] \in Command /\ PlaceOf(p, cmd[p]) /\ Naming(cmd[p]) /\ Planned(cmd[p])
  BY DEF Base, TypeOK, Places, AllNamed, Plans
<1>7. /\ c \in Command /\ c.at = "save" /\ c.op = cmd[p].op /\ c.seen = cmd[p].seen
      /\ c.todo = cmd[p].todo /\ c.made = cmd[p].made /\ c.task = Len(tasks) + 1
  BY <1>4, <1>5, <1>6 DEF Command
<1>8. cmd' = [cmd EXCEPT ![p] = c] /\ cmd \in [Procs -> Command]
  BY <1>5 DEF CreateHelper, Base, TypeOK
<1>9. PlaceOf(p, c) /\ Planned(c)
  BY <1>1, <1>6, <1>7 DEF PlaceOf, Planned, Saving
<1>10. Naming(c)'
  <2>1. Naming(cmd[p]) /\ \A x : x = cmd[p] => Naming(x)'
    BY <1>4, <1>6
  <2>2. PICK x : x = cmd[p]
    OBVIOUS
  <2>3. Naming(x)' /\ x.seen = c.seen /\ x.made = c.made
    BY <1>7, <2>1, <2>2
  <2>4. c.op \in {"create", "replan"} => tasks'[c.task].purpose = "plan"
    BY <1>2, <1>3, <1>4, <1>7, <1>1
  <2> QED BY <1>4, <1>7, <2>3, <2>4 DEF Naming, Named
<1>11. epic \in Epic /\ Named(epic) /\ Distinct(epic.plan) /\ UNCHANGED epic
  BY <1>1, EpicKept
<1>12. epic' \in Epic /\ Named(epic)' /\ Distinct(epic'.plan)
  <2>1. \A e : Named(e) => Named(e)'
    BY <1>4
  <2> QED BY <1>11, <2>1 DEF Named
<1>13. left' \in [commands : 0..MaxCommands, failures : 0..MaxFailures]
  BY <1>1 DEF Base, TypeOK
<1>14. cmd'[p] = c
  BY <1>8
<1> QED BY <1>1, <1>4, <1>7, <1>8, <1>9, <1>10, <1>12, <1>13, <1>14, BaseOf

\* What creating the task of an entry does.
CreatedFor(p) ==
  LET c == cmd[p]
      key == Head(c.todo)
      entry == EntryOf(c.seen.plan, key)
      known == Joined(c.made, c.seen.tasks)
      n == Len(tasks) + 1
  IN  /\ key \in KeysOf(c.seen.plan) /\ entry.key = key
      /\ n \in DOMAIN tasks' /\ tasks'[n].needs = entry.depends_on
      /\ tasks'[n].depends_on = {known[d] : d \in entry.depends_on \cap DOMAIN known}
      /\ cmd' = [cmd EXCEPT ![p] = cmd'[p]]
      /\ cmd'[p].op = c.op /\ cmd'[p].at = c.at /\ cmd'[p].seen = c.seen
      /\ cmd'[p].todo = Tail(c.todo)
      /\ DOMAIN cmd'[p].made = DOMAIN c.made \cup {key}
      /\ \A k \in DOMAIN cmd'[p].made : cmd'[p].made[k] = IF k = key THEN n ELSE c.made[k]

\* A task for an accepted entry.
LEMMA CreateTaskIs ==
  ASSUME Base, NEW p \in Procs, CreateTask(p)
  PROVE  Base' /\ TasksGrow /\ UNCHANGED epic /\ CreatedFor(p)
<1>1. PICK c : c = cmd[p]
  OBVIOUS
<1>2. c \in Command /\ PlaceOf(p, c) /\ Naming(c) /\ Planned(c)
  BY <1>1 DEF Base, TypeOK, Places, AllNamed, Plans
<1> DEFINE key == Head(c.todo)
           entry == EntryOf(c.seen.plan, key)
           known == Joined(c.made, c.seen.tasks)
           n == Len(tasks) + 1
           doc == [Helper("work") EXCEPT !.key = entry.key, !.needs = entry.depends_on,
                     !.depends_on = {known[d] : d \in entry.depends_on \cap DOMAIN known}]
           one == [k \in {entry.key} |-> n]
           made == Joined(one, c.made)
<1>3. /\ c.op = "accept" /\ c.at = "create" /\ c.todo # <<>> /\ Len(tasks) < MaxTasks
      /\ tasks' = Append(tasks, doc) /\ UNCHANGED <<epic, left>>
      /\ cmd' = [cmd EXCEPT ![p].todo = Tail(@), ![p].made = Joined(one, @)]
  BY <1>1 DEF CreateTask, At
<1>4. /\ c.seen \in Epic /\ c.seen.plan \in Seq(PlanTask)
      /\ c.seen.tasks \in TaskMap /\ c.made \in TaskMap
  BY <1>2 DEF Command, Epic
<1>5. key \in KeysOf(c.seen.plan)
  <2>1. key = c.todo[1] /\ 1 \in DOMAIN c.todo
    BY <1>2, <1>3, TodoType
  <2> HIDE DEF key
  <2> QED BY <1>2, <2>1 DEF Planned
<1>6. entry \in PlanTask /\ entry.key = key
  <2> HIDE DEF key
  <2> QED BY <1>4, <1>5, EntryIs
<1> HIDE DEF entry, key
<1>7. known \in TaskMap /\ \A k \in DOMAIN known : known[k] \in TaskIds
  <2>1. known \in TaskMap
    BY <1>4, JoinedType
  <2> HIDE DEF known
  <2> QED BY <2>1 DEF TaskMap
<1> HIDE DEF known
<1>8. /\ doc \in TaskDoc /\ doc.status = "open" /\ doc.key = key /\ doc.needs = entry.depends_on
      /\ doc.depends_on = {known[d] : d \in entry.depends_on \cap DOMAIN known}
  <2>1. <<>> \in Seq(PlanTask)
    BY EmptySeq
  <2>2. {known[d] : d \in entry.depends_on \cap DOMAIN known} \in SUBSET TaskIds
    BY <1>7
  <2>3. entry.key \in Keys /\ entry.depends_on \in SUBSET Keys
    BY <1>6 DEF PlanTask
  <2> QED BY <1>6, <2>1, <2>2, <2>3 DEF TaskDoc, Helper
<1>9. PICK d \in TaskDoc : d = doc
  BY <1>8
<1> HIDE DEF doc
<1>10. /\ tasks' \in Seq(TaskDoc) /\ Len(tasks') <= MaxTasks /\ TasksGrow /\ Proposed'
       /\ n \in TaskIds /\ n \in DOMAIN tasks' /\ tasks'[n] = d
       /\ \A e : Named(e) => Named(e)'
       /\ \A x : Naming(x) => Naming(x)'
  BY <1>3, <1>8, <1>9, OneMoreTask
<1> HIDE DEF n
<1>11. one \in TaskMap /\ DOMAIN one = {key} /\ one[key] = n
  <2>1. one \in [{key} -> TaskIds] /\ {key} \in SUBSET Keys
    BY <1>6, <1>10 DEF PlanTask
  <2>2. one \in TaskMap
    BY <2>1 DEF TaskMap
  <2> QED BY <1>6, <2>2
<1> HIDE DEF one
<1>12. made \in TaskMap /\ DOMAIN made = DOMAIN c.made \cup {key}
  <2>1. one \in TaskMap /\ c.made \in TaskMap
    BY <1>4, <1>11
  <2>2. /\ Joined(one, c.made) \in TaskMap
        /\ DOMAIN Joined(one, c.made) = DOMAIN one \cup DOMAIN c.made
    BY <2>1, JoinedType
  <2> QED BY <1>11, <2>2
<1>13. \A k \in DOMAIN made : made[k] = IF k = key THEN n ELSE c.made[k]
  BY <1>11, <1>12 DEF Joined
<1> HIDE DEF made
<1>14. PICK x : x = [c EXCEPT !.todo = Tail(@), !.made = made]
  OBVIOUS
<1>15. /\ Tail(c.todo) \in Seq(Keys)
       /\ \A j \in DOMAIN Tail(c.todo) : Tail(c.todo)[j] \in KeysOf(c.seen.plan)
  <2>1. /\ Tail(c.todo) \in Seq(Keys) /\ Len(c.todo) \in Nat
        /\ DOMAIN Tail(c.todo) = 1..(Len(c.todo) - 1)
        /\ \A j \in 1..(Len(c.todo) - 1) : Tail(c.todo)[j] = c.todo[j + 1]
    BY <1>2, <1>3, TodoType
  <2>2. DOMAIN c.todo = 1..Len(c.todo)
    <3>1. c.todo \in Seq(Keys)
      BY <1>2 DEF Command
    <3> QED BY <3>1, LenProperties
  <2>3. \A j \in 1..(Len(c.todo) - 1) : j + 1 \in DOMAIN c.todo
    BY <2>1, <2>2
  <2> QED BY <1>2, <2>1, <2>3 DEF Planned
<1>16. /\ x \in Command /\ x.op = c.op /\ x.at = c.at /\ x.seen = c.seen /\ x.task = c.task
       /\ x.todo = Tail(c.todo) /\ x.made = made /\ x.plan = c.plan
  BY <1>2, <1>12, <1>14, <1>15 DEF Command
<1>17. cmd' = [cmd EXCEPT ![p] = x] /\ cmd \in [Procs -> Command]
  <2>1. cmd \in [Procs -> Command]
    BY DEF Base, TypeOK
  <2>2. made = Joined(one, c.made)
    BY DEF made
  <2> QED BY <1>1, <1>3, <1>14, <2>1, <2>2
<1>18. cmd'[p] = x
  BY <1>17
<1>19. PlaceOf(p, x)
  BY <1>2, <1>3, <1>16 DEF PlaceOf
<1>20. Planned(x)
  BY <1>2, <1>3, <1>15, <1>16 DEF Planned, Saving
<1>21. Naming(x)'
  <2>1. Naming(c)'
    BY <1>2, <1>10
  <2>2. \A k \in DOMAIN x.made : x.made[k] \in DOMAIN tasks' /\ tasks'[x.made[k]].key = k
    BY <1>8, <1>9, <1>10, <1>12, <1>13, <1>16, <2>1 DEF Naming
  <2> QED BY <1>3, <1>16, <2>1, <2>2 DEF Naming, Named
<1>22. epic' \in Epic /\ Named(epic)' /\ Distinct(epic'.plan)
  <2>1. \A e : Named(e) => Named(e)'
    BY <1>10
  <2> QED BY <1>3, <2>1, EpicKept DEF Named
<1>23. left' \in [commands : 0..MaxCommands, failures : 0..MaxFailures]
  BY <1>3 DEF Base, TypeOK
<1>24. Base'
  BY <1>10, <1>16, <1>17, <1>19, <1>20, <1>21, <1>22, <1>23, BaseOf
<1>25. CreatedFor(p)
  <2>1. key = Head(c.todo) /\ entry = EntryOf(c.seen.plan, key) /\ n = Len(tasks) + 1
    BY DEF key, entry, n
  <2>2. known = Joined(c.made, c.seen.tasks)
    BY DEF known
  <2>3. /\ tasks'[n].needs = entry.depends_on
        /\ tasks'[n].depends_on = {known[k] : k \in entry.depends_on \cap DOMAIN known}
    BY <1>8, <1>9, <1>10
  <2> QED BY <1>1, <1>5, <1>6, <1>10, <1>12, <1>13, <1>16, <1>17, <1>18, <2>1, <2>2, <2>3
          DEF CreatedFor
<1> QED BY <1>3, <1>10, <1>24, <1>25

\* Entries are accepted, in an order.
LEMMA BaseOfAccept ==
  ASSUME Base, NEW p \in Procs, Accept(p)
  PROVE  /\ Base' /\ UNCHANGED <<epic, tasks>> /\ cmd' = [cmd EXCEPT ![p] = cmd'[p]]
         /\ \E keys \in SUBSET OpenKeys(epic) :
              /\ Acceptable(epic, keys)
              /\ cmd'[p].op = "accept" /\ cmd'[p].at = "create" /\ cmd'[p].seen = epic
              /\ cmd'[p].todo = Order(epic, keys) /\ DOMAIN cmd'[p].made = {}
<1>1. PICK keys \in SUBSET OpenKeys(epic) :
        /\ Acceptable(epic, keys)
        /\ cmd' = [cmd EXCEPT ![p].at = "create", ![p].seen = epic, ![p].todo = Order(epic, keys)]
  BY DEF Accept
<1>2. PICK order : order = Order(epic, keys)
  OBVIOUS
<1>3. order \in Seq(Keys) /\ \A j \in DOMAIN order : order[j] \in KeysOf(epic.plan)
  <2>1. order \in Seq(Keys) /\ ToSet(order) \subseteq KeysOf(epic.plan)
    BY <1>2, EpicKept, OrderType
  <2> QED BY <2>1 DEF ToSet
<1>4. PICK c : c = [cmd[p] EXCEPT !.at = "create", !.seen = epic, !.todo = order]
  OBVIOUS
<1>5. /\ cmd[p] \in Command /\ PlaceOf(p, cmd[p]) /\ Naming(cmd[p]) /\ Planned(cmd[p])
      /\ cmd \in [Procs -> Command]
  BY DEF Base, TypeOK, Places, AllNamed, Plans
<1>6. cmd[p].op = "accept" /\ cmd[p].at = "load" /\ UNCHANGED <<epic, tasks, left>>
  BY DEF Accept, At
<1>7. /\ c \in Command /\ c.at = "create" /\ c.op = "accept" /\ c.seen = epic
      /\ c.todo = order /\ c.made = cmd[p].made /\ DOMAIN c.made = {}
  BY <1>3, <1>4, <1>5, <1>6, EpicKept DEF Command, PlaceOf
<1>8. cmd' = [cmd EXCEPT ![p] = c] /\ cmd'[p] = c
  BY <1>1, <1>2, <1>4, <1>5
<1>9. PlaceOf(p, c) /\ Planned(c)
  BY <1>3, <1>5, <1>6, <1>7, EpicKept DEF PlaceOf, Planned, Saving
<1>10. Naming(c)
  BY <1>7, EpicKept DEF Naming
<1>11. Naming(c)' /\ Named(epic)'
  BY <1>6, <1>10, EpicKept, SameTasks
<1>12. left' \in [commands : 0..MaxCommands, failures : 0..MaxFailures]
  BY <1>6 DEF Base, TypeOK
<1>13. Base'
  BY <1>6, <1>7, <1>8, <1>9, <1>11, <1>12, EpicKept, SameTasks, BaseOf
<1> QED BY <1>1, <1>2, <1>6, <1>7, <1>8, <1>13

\* A verification goes on.
LEMMA BaseOfVerify ==
  ASSUME Base, NEW p \in Procs, Verify(p)
  PROVE  Base' /\ UNCHANGED <<epic, tasks>> /\ Advance(p, "create") /\ cmd[p].op = "verify"
<1>1. /\ cmd[p].op = "verify" /\ cmd[p].at = "load" /\ UNCHANGED <<epic, tasks, left>>
      /\ Advance(p, "create")
  BY DEF Verify, At
<1>2. PlaceOf(p, cmd[p]) /\ left' \in [commands : 0..MaxCommands, failures : 0..MaxFailures]
  BY <1>1 DEF Base, TypeOK, Places
<1>3. Named(epic)'
  BY <1>1, EpicKept, SameTasks
<1> QED BY <1>1, <1>2, <1>3, EpicKept, BaseOfAdvance DEF PlaceOf

\* The steps that end a command, and what they make of the epic.
Ending(p) ==
  SavePlanning(p) \/ SaveAccepted(p) \/ SavePlan(p) \/ SaveVerify(p) \/ Refuse(p) \/ Fail(p)

\* What a command that ends leaves of the epic.
LEMMA EndingEpic ==
  ASSUME Base, NEW p \in Procs, Ending(p)
  PROVE  epic' \in Epic /\ Named(epic') /\ Distinct(epic'.plan)
<1>1. cmd[p] \in Command /\ PlaceOf(p, cmd[p]) /\ Naming(cmd[p]) /\ Planned(cmd[p])
  BY DEF Base, TypeOK, Places, AllNamed, Plans
<1>2. ASSUME NEW e \in Epic, Named(e), Distinct(e.plan), NEW f,
             f = [e EXCEPT !.planning_tasks = Append(@, cmd[p].task)],
             cmd[p].task \in DOMAIN tasks, tasks[cmd[p].task].purpose = "plan"
      PROVE  f \in Epic /\ Named(f) /\ Distinct(f.plan)
  <2>1. tasks \in Seq(TaskDoc) /\ Len(tasks) <= MaxTasks
    BY DEF Base, TypeOK
  <2>2. cmd[p].task \in TaskIds
    <3>1. Len(tasks) \in Nat /\ DOMAIN tasks = 1..Len(tasks)
      BY <2>1, LenProperties
    <3> QED BY <1>2, <2>1, <3>1, EpicAssumption DEF TaskIds
  <2> DEFINE s == Append(e.planning_tasks, cmd[p].task)
  <2>3. /\ s \in Seq(TaskIds)
        /\ Len(e.planning_tasks) \in Nat /\ DOMAIN e.planning_tasks = 1..Len(e.planning_tasks)
        /\ DOMAIN s = 1..(Len(e.planning_tasks) + 1)
        /\ \A i \in 1..Len(e.planning_tasks) : s[i] = e.planning_tasks[i]
        /\ s[Len(e.planning_tasks) + 1] = cmd[p].task
    <3>1. e.planning_tasks \in Seq(TaskIds)
      BY <1>2 DEF Epic
    <3> QED BY <2>2, <3>1, AppendIs
  <2> HIDE DEF s
  <2>4. f = [e EXCEPT !.planning_tasks = s]
    BY <1>2 DEF s
  <2>5. /\ f \in Epic /\ f.planning_tasks = s /\ f.plan = e.plan /\ f.tasks = e.tasks
        /\ f.conformance_task = e.conformance_task
    BY <1>2, <2>3, <2>4 DEF Epic
  <2>6. \A i \in DOMAIN s : i \in 1..Len(e.planning_tasks) \/ i = Len(e.planning_tasks) + 1
    BY <2>3
  <2> QED BY <1>2, <2>3, <2>5, <2>6 DEF Named
<1>3. CASE SavePlanning(p)
  <2>1. /\ cmd[p].op \in {"create", "replan"} /\ cmd[p].at = "save"
        /\ cmd[p].task \in DOMAIN tasks /\ tasks[cmd[p].task].purpose = "plan"
    BY <1>1, <1>3 DEF SavePlanning, At, Naming
  <2>2. CASE cmd[p].op = "create"
    <3>1. epic' = [NewEpic EXCEPT !.planning_tasks = Append(@, cmd[p].task)]
      BY <1>1, <1>3, <2>2 DEF SavePlanning, PlaceOf
    <3> QED BY <1>2, <2>1, <3>1, NewEpicType
  <2>3. CASE cmd[p].op # "create"
    <3>1. PICK f : f = [epic EXCEPT !.planning_tasks = Append(@, cmd[p].task)]
      OBVIOUS
    <3>2. f \in Epic /\ Named(f) /\ Distinct(f.plan)
      BY <1>2, <2>1, <3>1, EpicKept
    <3>3. epic' = [f EXCEPT !.status = "planning", !.declined = {}]
      BY <1>3, <2>3, <3>1 DEF SavePlanning
    <3>4. /\ epic' \in Epic /\ epic'.plan = f.plan /\ epic'.tasks = f.tasks
          /\ epic'.planning_tasks = f.planning_tasks
          /\ epic'.conformance_task = f.conformance_task
      BY <3>2, <3>3 DEF Epic, EpicStatus
    <3> QED BY <3>2, <3>4 DEF Named
  <2> QED BY <2>2, <2>3
<1>4. CASE SaveAccepted(p)
  <2>1. PICK made : made = cmd[p].made
    OBVIOUS
  <2>2. made \in TaskMap /\ \A k \in DOMAIN made : made[k] \in DOMAIN tasks /\ tasks[made[k]].key = k
    BY <1>1, <2>1 DEF Command, Naming
  <2>3. epic.tasks \in TaskMap
    BY EpicKept DEF Epic
  <2>4. Joined(made, epic.tasks) \in TaskMap
    BY <2>2, <2>3, JoinedType
  <2>5. epic' = [epic EXCEPT !.tasks = Joined(made, @), !.status = "accepted"]
    BY <1>4, <2>1 DEF SaveAccepted
  <2>6. /\ epic' \in Epic /\ epic'.plan = epic.plan /\ epic'.tasks = Joined(made, epic.tasks)
        /\ epic'.planning_tasks = epic.planning_tasks
        /\ epic'.conformance_task = epic.conformance_task
    BY <2>4, <2>5, EpicKept DEF Epic, EpicStatus
  <2>7. \A k \in DOMAIN epic'.tasks : epic'.tasks[k] \in DOMAIN tasks /\ tasks[epic'.tasks[k]].key = k
    BY <2>2, <2>6, EpicKept DEF Joined, Named
  <2> QED BY <2>6, <2>7, EpicKept DEF Named
<1>5. CASE SavePlan(p)
  <2>1. cmd[p].plan \in Seq(PlanTask) /\ Distinct(cmd[p].plan)
    BY <1>1, <1>5 DEF SavePlan, At, Planned, Saving, Sound, Command
  <2>2. PICK status \in EpicStatus \cup {"absent"} :
          epic' = [epic EXCEPT !.plan = cmd[p].plan, !.status = status]
    <3>1. epic.status \in EpicStatus \cup {"absent"} /\ "proposed" \in EpicStatus
      BY EpicKept DEF Epic, EpicStatus
    <3> DEFINE status ==
          IF epic.status \in {"plan_failed", "planning"} THEN "proposed" ELSE epic.status
    <3>2. epic' = [epic EXCEPT !.plan = cmd[p].plan, !.status = status]
      BY <1>5 DEF SavePlan
    <3> QED BY <3>1, <3>2
  <2>3. /\ epic' \in Epic /\ epic'.plan = cmd[p].plan /\ epic'.tasks = epic.tasks
        /\ epic'.planning_tasks = epic.planning_tasks
        /\ epic'.conformance_task = epic.conformance_task
    BY <2>1, <2>2, EpicKept DEF Epic
  <2> QED BY <2>1, <2>3, EpicKept DEF Named
<1>6. CASE SaveVerify(p)
  <2>1. cmd[p].op = "verify" /\ cmd[p].at = "save"
    BY <1>6 DEF SaveVerify, At
  <2>2. cmd[p].task \in DOMAIN tasks /\ cmd[p].task \in TaskIds \cup {NoTask}
    BY <1>1, <2>1 DEF Naming, Command
  <2>3. epic' = [epic EXCEPT !.conformance_task = cmd[p].task, !.conformance = "none"]
    BY <1>6 DEF SaveVerify
  <2>4. /\ epic' \in Epic /\ epic'.plan = epic.plan /\ epic'.tasks = epic.tasks
        /\ epic'.planning_tasks = epic.planning_tasks
        /\ epic'.conformance_task = cmd[p].task
    BY <2>2, <2>3, EpicKept DEF Epic
  <2> QED BY <2>2, <2>4, EpicKept DEF Named
<1>7. CASE UNCHANGED epic
  BY <1>7, EpicKept
<1> QED BY <1>3, <1>4, <1>5, <1>6, <1>7 DEF Ending, Refuse, Fail

\* A command that ends.
LEMMA BaseOfEnding ==
  ASSUME Base, NEW p \in Procs, Ending(p)
  PROVE  Base' /\ UNCHANGED tasks /\ End(p)
<1>1. UNCHANGED tasks /\ End(p)
  BY DEF Ending, SavePlanning, SaveAccepted, SavePlan, SaveVerify, Refuse, Fail
<1>2. left' \in [commands : 0..MaxCommands, failures : 0..MaxFailures]
  BY EpicAssumption DEF Base, TypeOK, Ending, SavePlanning, SaveAccepted, SavePlan, SaveVerify,
     Refuse, Fail
<1>3. epic' \in Epic /\ Named(epic') /\ Distinct(epic'.plan)
  BY EndingEpic
<1>4. Named(epic)'
  BY <1>1, <1>3 DEF Named
<1> QED BY <1>1, <1>2, <1>3, <1>4, BaseOfEnd

\* Every step is one of these.
LEMMA StepsAre ==
  ASSUME Next
  PROVE  \/ \E p \in Humans :
              Start(p) \/ CreateHelper(p) \/ Accept(p) \/ CreateTask(p) \/ Verify(p) \/ Ending(p)
         \/ \E p \in Procs : SyncStep(p)
         \/ Sync(Daemon)
         \/ \E t \in DOMAIN tasks : AgentEnds(t)
BY DEF Next, CommandStep, Ending, Procs

\* Every step keeps what an epic and the commands on it are.
LEMMA BaseStays ==
  ASSUME Base, [Next]_vars
  PROVE  Base'
<1>1. CASE UNCHANGED vars
  <2>1. epic' = epic /\ tasks' = tasks /\ cmd' = cmd /\ left' = left BY <1>1 DEF vars
  <2>2. TypeOK' BY <2>1 DEF Base, TypeOK, Accepted
  <2>3. Places' BY <2>1 DEF Base, Places
  <2>4. AllNamed' BY <2>1 DEF Base, AllNamed, Naming, Named
  <2>5. Proposed' BY <2>1 DEF Base, Proposed
  <2>6. Plans' BY <2>1 DEF Base, Plans
  <2> QED BY <2>2, <2>3, <2>4, <2>5, <2>6 DEF Base
<1>2. ASSUME NEW p \in Humans,
             Start(p) \/ CreateHelper(p) \/ Accept(p) \/ CreateTask(p) \/ Verify(p) \/ Ending(p)
      PROVE  Base'
  <2>1. p \in Procs
    BY DEF Procs
  <2> QED BY <1>2, <2>1, BaseOfStart, CreateHelperIs, BaseOfAccept, CreateTaskIs, BaseOfVerify,
             BaseOfEnding
<1>3. CASE Next
  BY <1>2, <1>3, StepsAre, BaseOfSync, BaseOfSyncStart, BaseOfAgents
<1> QED BY <1>1, <1>3

\* So it is at first.
LEMMA BaseInit ==
  ASSUME Init
  PROVE  Base
<1>1. PICK e : e = [NewEpic EXCEPT !.status = "absent"]
  OBVIOUS
<1>2. /\ e \in Epic /\ e.plan = NewEpic.plan /\ e.planning_tasks = NewEpic.planning_tasks
      /\ e.tasks = NewEpic.tasks /\ e.conformance_task = NewEpic.conformance_task
  BY <1>1, NewEpicType DEF Epic
<1>3. tasks \in Seq(TaskDoc) /\ Len(tasks) = 0 /\ DOMAIN tasks = {}
  BY EmptySeq DEF Init
<1>4. Named(e) /\ Distinct(e.plan)
  BY <1>2, NewEpicType DEF Named
<1>5. /\ epic = e /\ cmd = [p \in Procs |-> Idle]
      /\ left = [commands |-> MaxCommands, failures |-> MaxFailures]
  BY <1>1 DEF Init
<1>7. Idle.at = "idle" /\ Idle.op = "none" /\ Idle.seen = NewEpic
  BY DEF Idle
<1>8. \A p \in Procs : PlaceOf(p, Idle)
  BY <1>7, IdleType DEF PlaceOf
<1>9. Planned(Idle) /\ Naming(Idle)
  BY <1>7, IdleType, NewEpicType DEF Planned, Saving, Naming
<1>10. TypeOK
  <2>1. cmd \in [Procs -> Command]
    BY <1>5, IdleType
  <2>2. left \in [commands : 0..MaxCommands, failures : 0..MaxFailures]
    BY <1>5, EpicAssumption
  <2>3. DOMAIN epic.tasks = {}
    BY <1>2, <1>5, NoTasksType DEF NewEpic
  <2>4. Len(tasks) <= MaxTasks
    BY <1>3, EpicAssumption
  <2> QED BY <1>2, <1>3, <1>5, <2>1, <2>2, <2>3, <2>4 DEF TypeOK, Accepted
<1>11. Places
  BY <1>5, <1>8 DEF Places
<1>12. AllNamed
  BY <1>4, <1>5, <1>9 DEF AllNamed
<1>13. Proposed
  BY <1>3 DEF Proposed
<1>14. Plans
  BY <1>4, <1>5, <1>9 DEF Plans
<1> QED BY <1>10, <1>11, <1>12, <1>13, <1>14 DEF Base

\* So it always is.
LEMMA BaseHolds == Spec => []Base
BY BaseInit, BaseStays, PTL DEF Spec

\* Every document and copy is of its type and names only tasks that exist, with any number
\* of humans: what create_epic, accept and sync save, and what they decided on before.
THEOREM TypeCorrect == Spec => []TypeOK
<1>1. Base => TypeOK
  BY DEF Base
<1> QED BY <1>1, BaseHolds, PTL

--------------------------------------------------------------------------------
(***************************************************************************)
(* What a human decided stays, and tasks wait for those of the entries     *)
(* theirs depends on.                                                      *)
(***************************************************************************)

\* Only the one human accepts and saves plans.
LEMMA OnlyOne ==
  ASSUME OneHuman, Base, NEW p \in Humans, NEW q \in Procs, Accepting(q) \/ Saving(cmd[q])
  PROVE  q = p
<1>1. PlaceOf(q, cmd[q])
  BY DEF Base, Places
<1>2. q \in Humans
  BY <1>1 DEF PlaceOf, Accepting, Saving
<1> QED BY <1>2 DEF OneHuman

\* The same after a step.
LEMMA OnlyOneThen ==
  ASSUME OneHuman, Base', NEW p \in Humans, NEW q \in Procs, Accepting(q)' \/ Saving(cmd'[q])
  PROVE  q = p
<1>1. PlaceOf(q, cmd'[q])
  BY DEF Base, Places
<1>2. q \in Humans
  BY <1>1 DEF PlaceOf, Accepting, Saving
<1> QED BY <1>2 DEF OneHuman

\* Links of tasks stay while the epic names the same tasks.
LEMMA CarriedStays ==
  ASSUME Base, TasksGrow, DependenciesCarried, epic'.tasks = epic.tasks
  PROVE  DependenciesCarried'
<1>1. \A k \in Accepted(epic) : epic.tasks[k] \in DOMAIN tasks
  BY DEF Base, TypeOK
<1>2. \A k \in Accepted(epic) : /\ tasks'[epic'.tasks[k]].needs = tasks[epic.tasks[k]].needs
                                /\ tasks'[epic'.tasks[k]].depends_on = tasks[epic.tasks[k]].depends_on
  BY <1>1 DEF TasksGrow
<1> QED BY <1>2 DEF DependenciesCarried, Accepted

\* A human who accepts while others go on.
LEMMA CarefulStays ==
  ASSUME Base, TasksGrow, Careful, NEW p \in Procs, Accepting(p)', cmd'[p] = cmd[p],
         epic'.tasks = epic.tasks, epic'.declined = epic.declined,
         ToSet(epic.plan) \subseteq ToSet(epic'.plan),
         epic'.status # epic.status =>
           epic.status = "planning" \/ epic'.status = "done"
  PROVE  Linking(p)' /\ Undisturbed(p)'
<1>1. PICK c : c = cmd[p] /\ c = cmd'[p]
  OBVIOUS
<1>2. Linking(p) /\ Undisturbed(p)
  BY DEF Careful, Accepting
<1>3. Undisturbed(p)'
  BY <1>1, <1>2 DEF Undisturbed
<1>4. \A k \in DOMAIN c.made : c.made[k] \in DOMAIN tasks
  BY <1>1 DEF Base, AllNamed, Naming
<1>5. \A k \in DOMAIN c.made : /\ tasks'[c.made[k]].needs = tasks[c.made[k]].needs
                               /\ tasks'[c.made[k]].depends_on = tasks[c.made[k]].depends_on
  BY <1>4 DEF TasksGrow
<1>6. Linking(p)'
  BY <1>1, <1>2, <1>5 DEF Linking, OpenKeys, Accepted
<1> QED BY <1>3, <1>6

\* A step that leaves what was decided, of someone else or of a human who neither accepts
\* nor saves a plan after it.
LEMMA DecidingStays ==
  ASSUME Base, Deciding, TasksGrow,
         epic'.tasks = epic.tasks, epic'.declined = epic.declined,
         ToSet(epic.plan) \subseteq ToSet(epic'.plan),
         epic'.status # epic.status => epic.status = "planning" \/ epic'.status = "done",
         \A q \in Procs : Accepting(q)' \/ Saving(cmd'[q]) => cmd'[q] = cmd[q]
  PROVE  Deciding'
<1>1. Careful'
  BY CarefulStays DEF Deciding, Careful
<1>2. Complete'
  BY DEF Deciding, Complete, Accepted
<1>3. DecisionsStay'
  BY KeysOfEntries DEF Deciding, DecisionsStay, Accepted
<1>4. DependenciesCarried'
  BY CarriedStays DEF Deciding
<1> QED BY <1>1, <1>2, <1>3, <1>4 DEF Deciding

\* A step of the human after which it neither accepts nor saves a plan.
LEMMA DecidingAfter ==
  ASSUME OneHuman, Base, Base', Deciding, TasksGrow, NEW p \in Humans,
         ~Accepting(p)', ~Saving(cmd'[p]), epic'.tasks = epic.tasks, DecisionsStay'
  PROVE  Deciding'
<1>1. Careful' /\ Complete'
  BY OnlyOneThen DEF Careful, Complete
<1> QED BY <1>1, CarriedStays DEF Deciding

\* A command that starts changes nothing that was decided, but for entries it declines.
LEMMA DecidingOfStart ==
  ASSUME OneHuman, Base, Base', Deciding, NEW p \in Humans, Start(p)
  PROVE  Deciding'
<1>1. TasksGrow /\ UNCHANGED tasks /\ p \in Procs
  BY BaseOfStart, SameTasks DEF Procs
<1>2. cmd \in [Procs -> Command]
  BY DEF Base, TypeOK
<1>3. CASE CreateEpic(p)
  <2>1. cmd'[p].op = "create"
    BY <1>1, <1>2, <1>3 DEF CreateEpic, Idle
  <2>2. Accepted(epic)' = {}
    BY <1>3, NoTasksType DEF CreateEpic, NewEpic, Accepted
  <2>3. Careful' /\ Complete'
    BY <2>1, OnlyOneThen DEF Careful, Complete, Accepting, Saving
  <2>4. DecisionsStay' /\ DependenciesCarried'
    BY ONLY <2>2 DEF DecisionsStay, DependenciesCarried
  <2> QED BY <2>3, <2>4 DEF Deciding
<1>4. CASE Replan(p) \/ BeginSynced(p)
  <2>1. UNCHANGED epic /\ cmd'[p].op \in {"replan", "accept", "verify"}
        /\ (cmd'[p].op = "accept" => cmd'[p].at = "sync")
    <3>1. /\ UNCHANGED epic
          /\ \/ Begin(p, "replan", "create") \/ Begin(p, "accept", "sync") \/ Begin(p, "verify", "sync")
      BY <1>4, Zenon DEF Replan, BeginSynced
    <3>2. ASSUME NEW op, NEW at, Begin(p, op, at) PROVE cmd'[p].op = op /\ cmd'[p].at = at
      BY <1>1, <1>2, <3>2 DEF Begin, Idle
    <3> QED BY <3>1, <3>2
  <2>2. DecisionsStay'
    BY <2>1 DEF Deciding, DecisionsStay, Accepted
  <2>3. ~Accepting(p)' /\ ~Saving(cmd'[p]) /\ epic'.tasks = epic.tasks
    BY ONLY <2>1 DEF Accepting, Saving
  <2> QED BY <1>1, <2>2, <2>3, DecidingAfter
<1>5. CASE Reject(p)
  <2>1. cmd[p].at = "idle" /\ UNCHANGED cmd
    BY <1>5 DEF Reject
  <2>2. PICK D \in SUBSET OpenKeys(epic) : \/ epic' = [epic EXCEPT !.declined = @ \cup D]
                                           \/ epic' = [epic EXCEPT !.status = "rejected"]
    BY <1>5 DEF Reject
  <2>3. /\ epic'.tasks = epic.tasks /\ epic'.plan = epic.plan
        /\ epic'.declined \subseteq epic.declined \cup D
    BY <2>2, EpicKept DEF Epic
  <2>4. DecisionsStay'
    BY <2>2, <2>3 DEF Deciding, DecisionsStay, Accepted, OpenKeys
  <2> QED BY <1>1, <2>1, <2>3, <2>4, DecidingAfter DEF Accepting, Saving
<1>6. CASE SetPlan(p)
  <2>1. PICK plan \in Edits :
          /\ Accepted(epic) \subseteq KeysOf(plan) /\ UNCHANGED epic
          /\ cmd' = [cmd EXCEPT ![p] =
                       [Idle EXCEPT !.op = "set_plan", !.at = "save", !.plan = plan]]
    BY <1>6 DEF SetPlan
  <2>2. cmd'[p].op = "set_plan" /\ cmd'[p].plan = plan
    BY <1>1, <1>2, <2>1 DEF Idle
  <2>3. Careful'
    BY <2>2, OnlyOneThen DEF Careful, Accepting
  <2>4. Complete'
    BY <2>1, <2>2, OnlyOneThen DEF Complete
  <2>5. DecisionsStay'
    BY <2>1 DEF Deciding, DecisionsStay
  <2> QED BY <1>1, <2>1, <2>3, <2>4, <2>5, CarriedStays DEF Deciding
<1> QED BY <1>3, <1>4, <1>5, <1>6 DEF Start

\* The human accepts: every entry waits for accepted ones and for those before it.
LEMMA DecidingOfAccept ==
  ASSUME OneHuman, Base, Base', Deciding, NEW p \in Humans, Accept(p)
  PROVE  Deciding'
<1>1. p \in Procs /\ UNCHANGED <<epic, tasks>>
  BY BaseOfAccept DEF Procs
<1>2. PICK keys \in SUBSET OpenKeys(epic) :
        /\ Acceptable(epic, keys)
        /\ cmd'[p].op = "accept" /\ cmd'[p].at = "create" /\ cmd'[p].seen = epic
        /\ cmd'[p].todo = Order(epic, keys) /\ DOMAIN cmd'[p].made = {}
  BY <1>1, BaseOfAccept
<1>3. PICK c : c = cmd'[p]
  OBVIOUS
<1>4. /\ IsInjective(c.todo) /\ ToSet(c.todo) \subseteq KeysOf(epic.plan) \cap keys
      /\ \A j \in DOMAIN c.todo :
           EntryOf(epic.plan, c.todo[j]).depends_on \cap keys \cap KeysOf(epic.plan)
             \subseteq Before(c.todo, j)
  BY <1>2, <1>3, EpicKept, OrderType
<1>5. ASSUME NEW j \in DOMAIN c.todo
      PROVE  EntryOf(epic.plan, c.todo[j]).depends_on
               \subseteq DOMAIN Joined(c.made, c.seen.tasks) \cup Before(c.todo, j)
  <2>1. c.todo[j] \in keys
    BY <1>4 DEF ToSet
  <2>2. EntryOf(epic.plan, c.todo[j]).depends_on \subseteq keys \cup Accepted(epic)
    BY <1>2, <2>1 DEF Acceptable
  <2>3. keys \subseteq KeysOf(epic.plan)
    BY <1>2 DEF OpenKeys
  <2>4. Accepted(epic) \subseteq DOMAIN Joined(c.made, c.seen.tasks)
    BY <1>2, <1>3 DEF Joined, Accepted
  <2> QED BY <1>4, <2>2, <2>3, <2>4
<1>6. Linking(p)'
  BY <1>2, <1>3, <1>4, <1>5, <1>1 DEF Linking
<1>7. Undisturbed(p)'
  BY <1>1, <1>2 DEF Undisturbed, Acceptable
<1>8. Careful'
  BY <1>6, <1>7, OnlyOneThen DEF Careful
<1>9. Complete'
  BY <1>2, OnlyOneThen DEF Complete, Saving
<1>10. TasksGrow /\ epic' = epic
  BY <1>1, SameTasks
<1> QED BY <1>8, <1>9, <1>10, CarriedStays DEF Deciding, DecisionsStay

\* The next task is made: it waits for those made before it.
LEMMA DecidingOfCreateTask ==
  ASSUME OneHuman, Base, Base', Deciding, NEW p \in Humans, CreateTask(p)
  PROVE  Deciding'
<1>1. p \in Procs /\ TasksGrow /\ UNCHANGED epic /\ CreatedFor(p)
  BY CreateTaskIs DEF Procs
<1>2. PICK c : c = cmd[p]
  OBVIOUS
<1>3. PICK x : x = cmd'[p]
  OBVIOUS
<1>4. PICK known : known = Joined(c.made, c.seen.tasks)
  OBVIOUS
<1>5. PICK key : key = Head(c.todo)
  OBVIOUS
<1>6. PICK entry : entry = EntryOf(c.seen.plan, key)
  OBVIOUS
<1>7. PICK n : n = Len(tasks) + 1
  OBVIOUS
<1>8. /\ n \in DOMAIN tasks' /\ tasks'[n].needs = entry.depends_on
      /\ tasks'[n].depends_on = {known[d] : d \in entry.depends_on \cap DOMAIN known}
      /\ x.op = c.op /\ x.at = c.at /\ x.seen = c.seen /\ x.todo = Tail(c.todo)
      /\ DOMAIN x.made = DOMAIN c.made \cup {key}
      /\ \A k \in DOMAIN x.made : x.made[k] = IF k = key THEN n ELSE c.made[k]
  <2>1. CreatedFor(p)
    BY ONLY <1>1
  <2>2. /\ n \in DOMAIN tasks' /\ tasks'[n].needs = entry.depends_on
        /\ tasks'[n].depends_on = {known[d] : d \in entry.depends_on \cap DOMAIN known}
    BY ONLY <2>1, <1>2, <1>4, <1>5, <1>6, <1>7 DEF CreatedFor
  <2> QED BY ONLY <2>1, <2>2, <1>2, <1>3, <1>5, <1>7 DEF CreatedFor
<1>9. c.op = "accept" /\ c.at = "create" /\ c.todo # <<>> /\ c \in Command
  BY <1>1, <1>2 DEF CreateTask, At, Base, TypeOK
<1>10. Linking(p) /\ Undisturbed(p)
  BY <1>1, <1>2, <1>9 DEF Deciding, Careful, Accepting
<1>11. /\ IsInjective(c.todo) /\ ToSet(c.todo) \cap DOMAIN c.made = {}
       /\ ToSet(c.todo) \cup DOMAIN c.made \subseteq OpenKeys(c.seen)
       /\ \A j \in DOMAIN c.todo :
            EntryOf(c.seen.plan, c.todo[j]).depends_on \subseteq DOMAIN known \cup Before(c.todo, j)
  BY <1>2, <1>4, <1>10 DEF Linking
<1>12. \A k \in DOMAIN c.made :
         /\ tasks[c.made[k]].needs = EntryOf(c.seen.plan, k).depends_on
         /\ \A d \in tasks[c.made[k]].needs :
              d \in DOMAIN known /\ known[d] \in tasks[c.made[k]].depends_on
  BY <1>2, <1>4, <1>10 DEF Linking
<1>13. /\ key = c.todo[1] /\ 1 \in DOMAIN c.todo /\ Len(c.todo) \in Nat /\ Len(c.todo) > 0
       /\ DOMAIN x.todo = 1..(Len(c.todo) - 1) /\ DOMAIN c.todo = 1..Len(c.todo)
       /\ \A j \in 1..(Len(c.todo) - 1) : x.todo[j] = c.todo[j + 1]
  <2>1. c.todo \in Seq(Keys)
    BY <1>9 DEF Command
  <2> QED BY <1>5, <1>8, <1>9, <2>1, TodoType, LenProperties
<1>14. key \in ToSet(c.todo) /\ key \notin DOMAIN c.made
  BY <1>11, <1>13 DEF ToSet
<1>15. /\ ToSet(x.todo) \subseteq ToSet(c.todo) \ {key}
       /\ IsInjective(x.todo)
  <2>1. \A j \in 1..(Len(c.todo) - 1) : j + 1 \in DOMAIN c.todo /\ j + 1 # 1
    BY <1>13
  <2>2. \A j \in 1..(Len(c.todo) - 1) : x.todo[j] \in ToSet(c.todo) /\ x.todo[j] # key
    BY <1>11, <1>13, <2>1 DEF ToSet, IsInjective
  <2>3. IsInjective(x.todo)
    <3> SUFFICES ASSUME NEW i \in 1..(Len(c.todo) - 1), NEW j \in 1..(Len(c.todo) - 1),
                        x.todo[i] = x.todo[j]
                 PROVE  i = j
      BY <1>13 DEF IsInjective
    <3>1. c.todo[i + 1] = c.todo[j + 1]
      BY <1>13
    <3>2. i + 1 = j + 1
      BY <1>11, <2>1, <3>1 DEF IsInjective
    <3> QED BY <1>13, <3>2
  <2> QED BY <1>13, <2>2, <2>3 DEF ToSet
<1>16. PICK now : now = Joined(x.made, x.seen.tasks)
  OBVIOUS
<1>17. /\ DOMAIN now = DOMAIN known \cup {key}
       /\ \A d \in DOMAIN known : d # key => now[d] = known[d]
  BY <1>4, <1>8, <1>16 DEF Joined
<1>18. key \notin DOMAIN known
  BY <1>4, <1>11, <1>14 DEF Joined, OpenKeys, Accepted
<1>19. ASSUME NEW j \in DOMAIN x.todo
       PROVE  EntryOf(c.seen.plan, x.todo[j]).depends_on \subseteq DOMAIN now \cup Before(x.todo, j)
  <2>1. j \in 1..(Len(c.todo) - 1) /\ j + 1 \in DOMAIN c.todo /\ x.todo[j] = c.todo[j + 1]
    BY <1>13
  <2>2. Before(c.todo, j + 1) \subseteq {key} \cup Before(x.todo, j)
    <3>1. ASSUME NEW m \in 1..j PROVE c.todo[m] \in {key} \cup Before(x.todo, j)
      <4>1. CASE m = 1
        BY <1>13, <4>1
      <4>2. CASE m # 1
        <5>1. m - 1 \in 1..j - 1 /\ m - 1 \in 1..(Len(c.todo) - 1) /\ (m - 1) + 1 = m
          BY <1>13, <2>1, <4>2
        <5>2. x.todo[m - 1] = c.todo[m]
          BY <1>13, <5>1
        <5> QED BY ONLY <5>1, <5>2, Zenon DEF Before
      <4> QED BY ONLY <4>1, <4>2
    <3>2. 1..(j + 1) - 1 = 1..j
      <4>1. j \in Nat
        BY ONLY <1>13, <2>1
      <4> QED BY ONLY <4>1
    <3>3. Before(c.todo, j + 1) = {c.todo[m] : m \in 1..j}
      BY ONLY <3>2, Zenon DEF Before
    <3> QED BY ONLY <3>1, <3>3, Zenon
  <2> QED BY <1>11, <1>17, <2>1, <2>2
<1>20. \A k \in DOMAIN c.made : c.made[k] \in DOMAIN tasks
  BY <1>1, <1>2 DEF Base, AllNamed, Naming
<1>21. ASSUME NEW k \in DOMAIN x.made
       PROVE  /\ tasks'[x.made[k]].needs = EntryOf(c.seen.plan, k).depends_on
              /\ \A d \in tasks'[x.made[k]].needs :
                   d \in DOMAIN now /\ now[d] \in tasks'[x.made[k]].depends_on
  <2>1. CASE k = key
    <3>1. x.made[k] = n
      BY <1>8, <2>1
    <3>2. Before(c.todo, 1) = {}
      BY DEF Before
    <3>3. entry.depends_on \subseteq DOMAIN known
      BY <1>6, <1>11, <1>13, <3>2
    <3> QED BY <1>6, <1>8, <1>17, <1>18, <2>1, <3>1, <3>3
  <2>2. CASE k # key
    <3>1. k \in DOMAIN c.made /\ x.made[k] = c.made[k] /\ c.made[k] \in DOMAIN tasks
      BY <1>8, <1>20, <2>2
    <3>2. /\ tasks'[c.made[k]].needs = tasks[c.made[k]].needs
          /\ tasks'[c.made[k]].depends_on = tasks[c.made[k]].depends_on
      BY <1>1, <3>1 DEF TasksGrow
    <3> QED BY <1>12, <1>17, <1>18, <3>1, <3>2
  <2> QED BY <2>1, <2>2
<1>22. Linking(p)'
  <2>1. ToSet(x.todo) \cap DOMAIN x.made = {}
    BY <1>8, <1>11, <1>15
  <2>2. ToSet(x.todo) \cup DOMAIN x.made \subseteq OpenKeys(x.seen)
    BY <1>8, <1>11, <1>14, <1>15
  <2> QED BY <1>3, <1>8, <1>15, <1>16, <1>19, <1>21, <2>1, <2>2 DEF Linking
<1>23. Undisturbed(p)'
  BY <1>1, <1>2, <1>3, <1>8, <1>10 DEF Undisturbed
<1>24. Careful'
  BY <1>22, <1>23, OnlyOneThen DEF Careful
<1>25. Complete'
  BY <1>3, <1>8, <1>9, OnlyOneThen DEF Complete, Saving
<1>26. epic' = epic
  BY <1>1
<1> QED BY <1>1, <1>24, <1>25, <1>26, CarriedStays DEF Deciding, DecisionsStay

\* The accepted entries are saved, all of them known by now.
LEMMA DecidingOfSaveAccepted ==
  ASSUME OneHuman, Base, Deciding, NEW p \in Humans, SaveAccepted(p)
  PROVE  DecisionsStay' /\ DependenciesCarried'
<1>1. PICK c : c = cmd[p]
  OBVIOUS
<1>2. /\ p \in Procs /\ c.op = "accept" /\ c.at = "create" /\ c.todo = <<>> /\ UNCHANGED tasks
      /\ epic' = [epic EXCEPT !.tasks = Joined(c.made, @), !.status = "accepted"]
  BY <1>1 DEF SaveAccepted, At, Procs
<1>3. Linking(p) /\ Undisturbed(p)
  BY <1>1, <1>2 DEF Deciding, Careful, Accepting
<1>4. /\ epic.tasks = c.seen.tasks /\ epic.declined = c.seen.declined
      /\ ToSet(c.seen.plan) \subseteq ToSet(epic.plan)
  BY <1>1, <1>3 DEF Undisturbed
<1>5. PICK known : known = Joined(c.made, epic.tasks)
  OBVIOUS
<1>6. DOMAIN c.made \subseteq OpenKeys(c.seen)
  BY <1>1, <1>3 DEF Linking
<1>7. \A k \in DOMAIN c.made : \A d \in tasks[c.made[k]].needs :
        d \in DOMAIN known /\ known[d] \in tasks[c.made[k]].depends_on
  BY <1>1, <1>3, <1>4, <1>5 DEF Linking
<1>8. /\ epic'.tasks = known /\ epic'.plan = epic.plan /\ epic'.declined = epic.declined
      /\ DOMAIN known = DOMAIN c.made \cup Accepted(epic)
      /\ \A k \in DOMAIN known : known[k] = IF k \in DOMAIN c.made THEN c.made[k] ELSE epic.tasks[k]
  BY <1>2, <1>5, EpicKept DEF Epic, Joined, Accepted
<1>9. DecisionsStay'
  BY <1>4, <1>6, <1>8, KeysOfEntries DEF Deciding, DecisionsStay, OpenKeys, Accepted
<1>10. DependenciesCarried'
  <2> SUFFICES ASSUME NEW k \in DOMAIN known, NEW d \in tasks[known[k]].needs
               PROVE  d \in DOMAIN known /\ known[d] \in tasks[known[k]].depends_on
    BY <1>2, <1>8 DEF DependenciesCarried, Accepted
  <2>1. CASE k \in DOMAIN c.made
    BY <1>7, <1>8, <2>1
  <2>2. CASE k \notin DOMAIN c.made
    <3>1. k \in Accepted(epic) /\ known[k] = epic.tasks[k]
      BY <1>8, <2>2
    <3>2. d \in Accepted(epic) /\ epic.tasks[d] \in tasks[known[k]].depends_on
      BY <3>1 DEF Deciding, DependenciesCarried
    <3>3. d \notin DOMAIN c.made
      BY <1>4, <1>6, <3>2 DEF OpenKeys, Accepted
    <3> QED BY <1>8, <3>2, <3>3
  <2> QED BY <2>1, <2>2
<1> QED BY <1>9, <1>10

\* A command that ends saves what it decided, or nothing.
LEMMA DecidingOfEnding ==
  ASSUME OneHuman, Base, Base', Deciding, NEW p \in Humans, Ending(p)
  PROVE  Deciding'
<1>1. p \in Procs /\ UNCHANGED tasks /\ End(p) /\ TasksGrow
  BY BaseOfEnding, SameTasks DEF Procs
<1>2. cmd'[p] = Idle /\ ~Accepting(p)' /\ ~Saving(cmd'[p])
  BY <1>1 DEF Base, TypeOK, End, Idle, Accepting, Saving
<1>3. CASE SaveAccepted(p)
  <2>1. Careful' /\ Complete'
    BY <1>2, OnlyOneThen DEF Careful, Complete
  <2> QED BY <1>3, <2>1, DecidingOfSaveAccepted DEF Deciding
<1>4. CASE SavePlanning(p) /\ cmd[p].op = "create"
  <2>1. Careful' /\ Complete'
    BY <1>2, OnlyOneThen DEF Careful, Complete
  <2>2. epic' = [NewEpic EXCEPT !.planning_tasks = Append(@, cmd[p].task)]
    BY <1>1, <1>4 DEF SavePlanning, Base, Places, PlaceOf
  <2>3. Accepted(epic)' = {}
    BY <2>2, NoTasksType DEF NewEpic, Accepted
  <2> QED BY <2>1, <2>3 DEF Deciding, DecisionsStay, DependenciesCarried
<1>5. CASE SavePlanning(p) /\ cmd[p].op # "create"
  <2>1. epic'.tasks = epic.tasks /\ epic'.plan = epic.plan /\ epic'.declined = {}
    BY <1>5, EpicKept DEF SavePlanning, Epic
  <2> QED BY <1>1, <1>2, <2>1, DecidingAfter DEF Deciding, DecisionsStay, Accepted
<1>6. CASE SavePlan(p)
  <2>1. Accepted(epic) \subseteq KeysOf(cmd[p].plan)
    BY <1>1, <1>6 DEF SavePlan, At, Saving, Deciding, Complete
  <2>2. epic'.tasks = epic.tasks /\ epic'.plan = cmd[p].plan /\ epic'.declined = epic.declined
    BY <1>6, EpicKept DEF SavePlan, Epic
  <2>3. DecisionsStay'
    BY <2>1, <2>2 DEF Deciding, DecisionsStay, Accepted
  <2> QED BY <1>1, <1>2, <2>2, <2>3, DecidingAfter
<1>7. CASE SaveVerify(p) \/ UNCHANGED epic
  <2>1. epic'.tasks = epic.tasks /\ epic'.plan = epic.plan /\ epic'.declined = epic.declined
    BY <1>7, EpicKept DEF SaveVerify, Epic
  <2>2. DecisionsStay'
    BY <2>1 DEF Deciding, DecisionsStay, Accepted
  <2> QED BY <1>1, <1>2, <2>1, <2>2, DecidingAfter
<1> QED BY <1>3, <1>4, <1>5, <1>6, <1>7 DEF Ending, Refuse, Fail

\* Whoever syncs, accepted entries stay in the plan, and nobody accepts what is planned anew.
LEMMA DecidingOfSync ==
  ASSUME Base, Deciding, NEW q \in Procs, SyncStep(q)
  PROVE  Deciding'
<1>1. TasksGrow /\ cmd \in [Procs -> Command] /\ epic.plan \in Seq(PlanTask)
  BY EpicKept, SameTasks DEF Base, TypeOK, SyncStep, SyncPlanning, SyncConformance, SyncDone,
     SyncNothing, Epic
<1>2. /\ epic'.tasks = epic.tasks /\ epic'.declined = epic.declined
      /\ epic'.status # epic.status => epic.status = "planning" \/ epic'.status = "done"
  BY SyncedEpic
<1>3. cmd[q].at \in {"sync", "sync_done"} /\ (Synced(q) \/ Advance(q, "sync_done"))
  BY DEF SyncStep, SyncPlanning, SyncConformance, SyncDone, SyncNothing
<1>4. \A p \in Procs : p # q => cmd'[p] = cmd[p]
  BY <1>1, <1>3 DEF Synced, Advance, End
<1>5. cmd'[q].at \in {"idle", "sync_done", "load"}
  <2>1. cmd' = [cmd EXCEPT ![q] = Idle] \/ cmd' = [cmd EXCEPT ![q].at = "load"]
        \/ cmd' = [cmd EXCEPT ![q].at = "sync_done"]
    BY <1>3 DEF Synced, Advance, End
  <2> QED BY <1>1, <2>1 DEF Idle, Command
<1>6. \A p \in Procs : Accepting(p)' \/ Saving(cmd'[p]) => cmd'[p] = cmd[p]
  BY <1>4, <1>5 DEF Accepting, Saving
<1>7. CASE ToSet(epic.plan) \subseteq ToSet(epic'.plan)
  BY <1>1, <1>2, <1>6, <1>7, DecidingStays
<1>8. CASE ~(ToSet(epic.plan) \subseteq ToSet(epic'.plan))
  <2>1. PICK result \in Seq(PlanTask) :
          epic.status = "planning" /\ epic'.plan = Merge(result, epic.plan, Accepted(epic))
    BY <1>1, <1>8, SyncedEpic, FollowUpsAdded
  <2>2. Accepted(epic) \cap KeysOf(epic.plan) \subseteq KeysOf(epic'.plan)
    BY <1>1, <2>1, MergeEntries
  <2>3. DecisionsStay'
    BY <1>2, <2>2 DEF Deciding, DecisionsStay, Accepted
  <2>4. \A p \in Procs : ~Accepting(p)'
    BY <1>6, <2>1 DEF Deciding, Careful, Undisturbed, Accepting
  <2>5. Complete'
    BY <1>2, <1>6 DEF Deciding, Complete, Accepted
  <2> QED BY <1>1, <1>2, <2>3, <2>4, <2>5, CarriedStays DEF Deciding, Careful
<1> QED BY <1>7, <1>8

\* Every step keeps what was decided.
LEMMA DecidingStep ==
  ASSUME OneHuman, Base, Deciding, [Next]_vars
  PROVE  Deciding'
<1>1. Base'
  BY BaseStays
<1>2. CASE UNCHANGED vars
  <2>1. UNCHANGED <<epic, tasks, cmd>>
    BY <1>2 DEF vars
  <2>2. Complete'
    BY ONLY Deciding, <2>1, Zenon DEF Deciding, Complete, Saving, Accepted
  <2>3. Careful'
    <3>1. ASSUME NEW p \in Procs PROVE (Accepting(p) => Linking(p) /\ Undisturbed(p))'
      <4>1. Accepting(p) => Linking(p) /\ Undisturbed(p)
        BY DEF Deciding, Careful
      <4>2. Accepting(p)' <=> Accepting(p)
        BY ONLY <2>1, Zenon DEF Accepting
      <4>3. Undisturbed(p)' <=> Undisturbed(p)
        BY ONLY <2>1, Zenon DEF Undisturbed
      <4>4. Linking(p)' <=> Linking(p)
        BY ONLY <2>1 DEF Linking
      <4> QED BY ONLY <4>1, <4>2, <4>3, <4>4, Zenon
    <3> QED BY ONLY <3>1, Zenon DEF Careful
  <2>4. DecisionsStay' /\ DependenciesCarried'
    BY ONLY Deciding, <2>1, Zenon DEF Deciding, DecisionsStay, DependenciesCarried, Accepted
  <2> QED BY ONLY <2>2, <2>3, <2>4, Zenon DEF Deciding
<1>3. ASSUME NEW p \in Humans, CreateHelper(p) \/ Verify(p) PROVE Deciding'
  <2>1. p \in Procs /\ TasksGrow /\ UNCHANGED epic /\ ~Accepting(p)' /\ ~Saving(cmd'[p])
    <3>1. p \in Procs
      BY DEF Procs
    <3>2. CASE CreateHelper(p)
      BY <3>1, <3>2, CreateHelperIs DEF Accepting, Saving
    <3>3. CASE Verify(p)
      <4>1. UNCHANGED <<epic, tasks>> /\ Advance(p, "create") /\ cmd[p].op = "verify"
        BY <3>1, <3>3, BaseOfVerify
      <4>2. cmd'[p].op = "verify"
        BY <3>1, <4>1 DEF Advance, Base, TypeOK, Command
      <4> QED BY <3>1, <4>1, <4>2, SameTasks DEF Accepting, Saving
    <3> QED BY <1>3, <3>2, <3>3
  <2> QED BY <1>1, <2>1, DecidingAfter DEF Deciding, DecisionsStay, Accepted
<1>4. CASE Sync(Daemon)
  <2>1. UNCHANGED <<epic, tasks>> /\ cmd \in [Procs -> Command] /\ Daemon \in Procs
        /\ cmd' = [cmd EXCEPT ![Daemon] = [Idle EXCEPT !.op = "sync", !.at = "sync", !.seen = epic]]
    BY <1>4 DEF Sync, Base, TypeOK, Procs
  <2>2. /\ cmd'[Daemon].op = "sync"
        /\ \A q \in Procs : q # Daemon => cmd'[q] = cmd[q]
    BY <2>1 DEF Idle
  <2>3. \A q \in Procs : Accepting(q)' \/ Saving(cmd'[q]) => cmd'[q] = cmd[q]
    BY <2>2 DEF Accepting, Saving
  <2> QED BY <2>1, <2>3, SameTasks, DecidingStays
<1>5. ASSUME NEW t \in DOMAIN tasks, AgentEnds(t) PROVE Deciding'
  BY <1>5, BaseOfAgents, DecidingStays
<1>6. CASE Next
  BY <1>1, <1>3, <1>4, <1>5, <1>6, StepsAre, DecidingOfStart, DecidingOfAccept,
     DecidingOfCreateTask, DecidingOfEnding, DecidingOfSync
<1> QED BY <1>2, <1>6

\* Nothing is decided at first.
LEMMA DecidingInit ==
  ASSUME Init
  PROVE  Deciding
<1>1. Accepted(epic) = {}
  BY NoTasksType DEF Init, NewEpic, Accepted
<1>2. \A p \in Procs : cmd[p].op = "none"
  BY DEF Init, Idle
<1> QED BY <1>1, <1>2 DEF Deciding, Complete, Careful, Accepting, Saving, DecisionsStay,
           DependenciesCarried

\* What was decided is always kept.
LEMMA DecidingHolds == ASSUME OneHuman PROVE Spec => [](Base /\ Deciding)
<1>1. Init => Base /\ Deciding
  BY BaseInit, DecidingInit
<1>2. Base /\ Deciding /\ [Next]_vars => (Base /\ Deciding)'
  BY BaseStays, DecidingStep
<1> QED BY <1>1, <1>2, PTL DEF Spec

\* Where one human gives commands at a time, a human's word on an entry stays: what accept
\* gave a task keeps its entry in every plan that is merged, edited or extended, and nothing
\* is both accepted and declined.
THEOREM DecisionsAreKept == ASSUME OneHuman PROVE Spec => []DecisionsStay
<1>1. Base /\ Deciding => DecisionsStay
  BY DEF Deciding
<1> QED BY <1>1, DecidingHolds, PTL

\* Where one human gives commands at a time, the task of an accepted entry waits for the
\* tasks of all the entries it depends on, in whatever portions accept is called.
THEOREM TasksWaitForDependencies == ASSUME OneHuman PROVE Spec => []DependenciesCarried
<1>1. Base /\ Deciding => DependenciesCarried
  BY DEF Deciding
<1> QED BY <1>1, DecidingHolds, PTL

--------------------------------------------------------------------------------
(***************************************************************************)
(* The stored plan keeps an order.                                         *)
(***************************************************************************)

\* The plan and what is accepted of it stay.
LEMMA OrderingStays ==
  ASSUME Ordering, epic'.plan = epic.plan, epic'.tasks = epic.tasks
  PROVE  Ordering'
BY DEF Ordering, Rooted, Answered, AcceptedAnswered, Accepted

\* An empty plan has an order.
LEMMA OrderingOfNothing ==
  ASSUME epic'.plan = <<>>
  PROVE  Ordering'
<1>1. DOMAIN <<>> = {}
  BY EmptySeq
<1>2. ToSet(epic'.plan) = {} /\ KeysOf(epic'.plan) = {}
  BY <1>1 DEF ToSet, KeysOf
<1> QED BY <1>2 DEF Ordering, Rooted, Answered, AcceptedAnswered

\* A plan nobody has asked for follow-ups in.
LEMMA SoundIsOrdered ==
  ASSUME FollowUpsUnasked, NEW plan \in Seq(PlanTask), plan \in Proposals \cup Edits, Sound(plan)
  PROVE  /\ Rooted(plan)
         /\ \A entry \in ToSet(plan) :
              entry.depends_on \cap FollowUpSet = {} /\ entry.depends_on \subseteq KeysOf(plan)
BY AcyclicIsRooted DEF FollowUpsUnasked, Sound

\* A plan that is planned anew keeps its order beside what was accepted.
LEMMA OrderingOfMerge ==
  ASSUME FollowUpsUnasked, Base, Deciding, Ordering, NEW result \in Seq(PlanTask),
         result \in Proposals, Sound(result), epic'.tasks = epic.tasks,
         epic'.plan = Merge(result, epic.plan, Accepted(epic))
  PROVE  Ordering'
<1>1. PICK all : all = Merge(result, epic.plan, Accepted(epic))
  OBVIOUS
<1>2. /\ Rooted(result)
      /\ \A entry \in ToSet(result) :
           entry.depends_on \cap FollowUpSet = {} /\ entry.depends_on \subseteq KeysOf(result)
  BY SoundIsOrdered
<1>3. epic.plan \in Seq(PlanTask) /\ Distinct(epic.plan)
  BY EpicKept DEF Epic
<1>4. Rooted(all)
  BY <1>1, <1>2, <1>3, MergeRooted DEF Ordering
<1>5. /\ \A entry \in ToSet(all) :
           \/ entry \in ToSet(result)
           \/ entry \in ToSet(epic.plan) /\ entry.key \in Accepted(epic)
      /\ Accepted(epic) \cap KeysOf(epic.plan) \subseteq KeysOf(all)
  BY <1>1, <1>3, MergeEntries
<1>6. Accepted(epic) \subseteq KeysOf(all)
  BY <1>5 DEF Deciding, DecisionsStay
<1>7. \A entry \in ToSet(all) : entry.depends_on \cap FollowUpSet \subseteq Accepted(epic)
  BY <1>2, <1>5 DEF Ordering, AcceptedAnswered
<1> QED BY <1>1, <1>4, <1>6, <1>7 DEF Ordering, Answered, AcceptedAnswered, Accepted

\* Follow-ups stand behind what they depend on.
LEMMA OrderingOfFollowUps ==
  ASSUME Base, Base', Deciding, Ordering, NEW more \in Seq(PlanTask), epic'.tasks = epic.tasks,
         epic'.plan = AddFollowUps(epic.plan, more)
  PROVE  Ordering'
<1>1. PICK all : all = AddFollowUps(epic.plan, more)
  OBVIOUS
<1>2. epic.plan \in Seq(PlanTask) /\ Distinct(epic.plan)
  BY EpicKept DEF Epic
<1>3. ToSet(epic.plan) \subseteq ToSet(all) /\ Distinct(all) /\ Rooted(all) /\ Answered(all)
  BY <1>1, <1>2, FollowUpsAdded DEF Ordering
<1>4. ASSUME NEW entry \in ToSet(all), entry.key \in Accepted(epic)
      PROVE  entry.depends_on \cap FollowUpSet \subseteq Accepted(epic)
  <2>1. entry.key \in KeysOf(epic.plan)
    BY <1>4 DEF Deciding, DecisionsStay
  <2>2. PICK other \in ToSet(epic.plan) : other.key = entry.key
    BY <2>1, KeysOfEntries
  <2>3. other = entry
    BY <1>3, <2>2 DEF Distinct, ToSet
  <2> QED BY <1>4, <2>2, <2>3 DEF Ordering, AcceptedAnswered
<1> QED BY <1>1, <1>3, <1>4 DEF Ordering, AcceptedAnswered, Accepted

\* Entries are accepted with those they depend on, follow-ups among them.
LEMMA OrderingOfSaveAccepted ==
  ASSUME Base, Deciding, Ordering, NEW p \in Procs, SaveAccepted(p)
  PROVE  Ordering'
<1>1. PICK c : c = cmd[p]
  OBVIOUS
<1>2. /\ c.op = "accept" /\ c.at = "create" /\ c.todo = <<>> /\ c \in Command
      /\ epic' = [epic EXCEPT !.tasks = Joined(c.made, @), !.status = "accepted"]
  BY <1>1 DEF SaveAccepted, At, Base, TypeOK
<1>3. Linking(p) /\ Undisturbed(p)
  BY <1>1, <1>2 DEF Deciding, Careful, Accepting
<1>4. /\ epic'.plan = epic.plan /\ epic'.tasks = Joined(c.made, epic.tasks)
      /\ DOMAIN epic'.tasks = DOMAIN c.made \cup Accepted(epic)
  BY <1>2, EpicKept DEF Epic, Joined, Accepted
<1>5. Distinct(epic.plan) /\ c.seen.plan \in Seq(PlanTask)
  BY <1>2, EpicKept DEF Command, Epic
<1>6. ASSUME NEW entry \in ToSet(epic.plan), entry.key \in DOMAIN c.made
      PROVE  entry.depends_on \subseteq DOMAIN epic'.tasks
  <2>1. entry.key \in KeysOf(c.seen.plan)
    BY <1>1, <1>3, <1>6 DEF Linking, OpenKeys
  <2>2. /\ EntryOf(c.seen.plan, entry.key) \in ToSet(c.seen.plan)
        /\ EntryOf(c.seen.plan, entry.key).key = entry.key
    BY <1>5, <2>1, EntryIs
  <2>3. EntryOf(c.seen.plan, entry.key) \in ToSet(epic.plan)
    BY <1>1, <1>3, <2>2 DEF Undisturbed
  <2>4. EntryOf(c.seen.plan, entry.key) = entry
    BY <1>5, <2>2, <2>3 DEF Distinct, ToSet
  <2>5. c.seen.tasks = epic.tasks
    BY <1>1, <1>3 DEF Undisturbed
  <2>6. /\ tasks[c.made[entry.key]].needs = entry.depends_on
        /\ \A d \in tasks[c.made[entry.key]].needs : d \in DOMAIN Joined(c.made, c.seen.tasks)
    BY <1>1, <1>3, <1>6, <2>4 DEF Linking
  <2> QED BY <1>4, <2>5, <2>6
<1>7. AcceptedAnswered'
  BY <1>4, <1>6 DEF Ordering, AcceptedAnswered, Accepted
<1> QED BY <1>4, <1>7 DEF Ordering, Rooted, Answered

\* Every step keeps an order.
LEMMA OrderingStep ==
  ASSUME OneHuman, FollowUpsUnasked, Base, Deciding, Ordering, [Next]_vars
  PROVE  Ordering'
<1>1. Base'
  BY BaseStays
<1>2. CASE UNCHANGED vars
  BY <1>2, OrderingStays DEF vars
<1>3. ASSUME NEW p \in Humans, Start(p) PROVE Ordering'
  <2>1. CASE CreateEpic(p)
    BY <2>1, OrderingOfNothing DEF CreateEpic, NewEpic, NoPlan
  <2>2. CASE Replan(p) \/ BeginSynced(p) \/ SetPlan(p)
    BY <2>2, OrderingStays DEF Replan, BeginSynced, SetPlan
  <2>3. CASE Reject(p)
    <3>1. epic'.plan = epic.plan /\ epic'.tasks = epic.tasks
      BY <2>3, EpicKept DEF Reject, Epic
    <3> QED BY <3>1, OrderingStays
  <2> QED BY <1>3, <2>1, <2>2, <2>3 DEF Start
<1>4. ASSUME NEW p \in Humans, CreateHelper(p) \/ Accept(p) \/ CreateTask(p) \/ Verify(p)
      PROVE  Ordering'
  BY <1>4, OrderingStays DEF CreateHelper, Accept, CreateTask, Verify
<1>5. ASSUME NEW p \in Humans, Ending(p) PROVE Ordering'
  <2>0. p \in Procs
    BY DEF Procs
  <2>1. CASE SavePlanning(p) /\ cmd[p].op = "create"
    <3>1. cmd[p].seen = NewEpic
      BY <2>0, <2>1 DEF Base, Places, PlaceOf
    <3>2. epic'.plan = <<>>
      BY <2>1, <3>1 DEF SavePlanning, NewEpic, NoPlan
    <3> QED BY <3>2, OrderingOfNothing
  <2>2. CASE (SavePlanning(p) /\ cmd[p].op # "create") \/ SaveVerify(p)
    <3>1. epic'.plan = epic.plan /\ epic'.tasks = epic.tasks
      BY <2>2, EpicKept DEF SavePlanning, SaveVerify, Epic
    <3> QED BY <3>1, OrderingStays
  <2>3. CASE SavePlan(p)
    <3>1. cmd[p].plan \in Edits /\ Sound(cmd[p].plan) /\ cmd[p].plan \in Seq(PlanTask)
      BY <2>0, <2>3 DEF SavePlan, At, Saving, Base, TypeOK, Plans, Planned, Command
    <3>2. epic'.plan = cmd[p].plan
      BY <2>3, EpicKept DEF SavePlan, Epic
    <3> QED BY <3>1, <3>2, SoundIsOrdered DEF Ordering, Answered, AcceptedAnswered
  <2>4. CASE Refuse(p) \/ Fail(p)
    BY <2>4, OrderingStays DEF Refuse, Fail
  <2> QED BY <1>5, <2>0, <2>1, <2>2, <2>3, <2>4, OrderingOfSaveAccepted DEF Ending
<1>6. ASSUME NEW q \in Procs, SyncStep(q) PROVE Ordering'
  <2>1. epic'.tasks = epic.tasks
    BY <1>6, SyncedEpic
  <2> QED BY <1>1, <1>6, <2>1, SyncedEpic, OrderingStays, OrderingOfMerge, OrderingOfFollowUps
<1>7. CASE Sync(Daemon)
  BY <1>7, OrderingStays DEF Sync
<1>8. ASSUME NEW t \in DOMAIN tasks, AgentEnds(t) PROVE Ordering'
  BY <1>8, BaseOfAgents, OrderingStays
<1>9. CASE Next
  BY <1>3, <1>4, <1>5, <1>6, <1>7, <1>8, <1>9, StepsAre
<1> QED BY <1>2, <1>9

\* The epic has no plan at first.
LEMMA OrderingInit ==
  ASSUME Init
  PROVE  Ordering
<1>1. epic.plan = <<>> /\ DOMAIN <<>> = {}
  BY EmptySeq DEF Init, NewEpic, NoPlan
<1>2. ToSet(epic.plan) = {} /\ KeysOf(epic.plan) = {}
  BY <1>1 DEF ToSet, KeysOf
<1> QED BY <1>2 DEF Ordering, Rooted, Answered, AcceptedAnswered

\* Where one human gives commands at a time and no plan waits for follow-ups nobody has
\* proposed, the plan an epic stores has distinct keys and an order, however it was merged,
\* edited and extended.
THEOREM StoredPlanIsOrdered == ASSUME OneHuman, FollowUpsUnasked PROVE Spec => []PlanOrdered
<1>1. Init => Base /\ Deciding /\ Ordering
  BY BaseInit, DecidingInit, OrderingInit
<1>2. Base /\ Deciding /\ Ordering /\ [Next]_vars => (Base /\ Deciding /\ Ordering)'
  BY BaseStays, DecidingStep, OrderingStep
<1>3. Base /\ Deciding /\ Ordering => PlanOrdered
  <2>1. Base => epic.plan \in Seq(PlanTask) /\ Distinct(epic.plan)
    BY EpicKept DEF Epic
  <2> QED BY <2>1, AcyclicIsRooted DEF Ordering, PlanOrdered
<1> QED BY <1>1, <1>2, <1>3, PTL DEF Spec
================================================================================
