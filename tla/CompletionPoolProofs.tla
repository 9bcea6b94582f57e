------------------------- MODULE CompletionPoolProofs -------------------------
(***************************************************************************)
(* Proofs about CompletionPool, for any number of workers, shapes, calls   *)
(* and slots.  The pool decides that everyone is parked by comparing the   *)
(* length of a list with a counter; the inductive invariant says why that  *)
(* is right: the counter counts the registered workers and the list names  *)
(* registered workers only, each once.  That every caller gets its own     *)
(* answers back is by induction over the groups of a wave: the offset of   *)
(* the slicing loop is where the merged list stood before the group.       *)
(***************************************************************************)
EXTENDS CompletionPool, FiniteSetTheorems, SequenceTheorems,
        WellFoundedInduction, TLAPS

-----------------------------------------------------------------------------
\* The inductive invariant

\* _participants counts the workers inside participant().
CountsRegistered == participants = Cardinality(Registered(pc))

\* A parked group is the latest one of a task that awaits its answer.
ParkedAreAwaiting ==
    \A i \in DOMAIN parked :
        /\ pc[parked[i].task] = "awaiting"
        /\ parked[i] = group[parked[i].task]

\* No task has two parked groups.
ParkedOnce ==
    \A i, j \in DOMAIN parked : parked[i].task = parked[j].task => i = j

\* A task's latest group carries its name.
GroupsAreOwn == \A t \in Task : group[t].task = t

\* A wave in flight has a shape that is still to be answered.
WavesAreOpen ==
    \A d \in dispatches : \E i \in DOMAIN d.groups : d.groups[i].key \notin d.done

IInv == /\ TypeOK
        /\ CountsRegistered
        /\ ParkedAreAwaiting
        /\ ParkedOnce
        /\ GroupsAreOwn
        /\ WavesAreOpen

-----------------------------------------------------------------------------
\* Lemmas about the operators

\* Withdrawing a group (self._parked.remove in complete_group's finally) leaves
\* the other entries, each still at most once.
LEMMA WithoutFacts ==
    ASSUME NEW S, NEW q \in Seq(S), NEW g
    PROVE  /\ Without(q, g) \in Seq(S)
           /\ Len(Without(q, g)) <= Len(q)
           /\ \A i \in DOMAIN Without(q, g) :
                 \E j \in DOMAIN q : Without(q, g)[i] = q[j]
           /\ \A j \in DOMAIN q :
                 q[j] = g \/ \E i \in DOMAIN Without(q, g) : Without(q, g)[i] = q[j]
           /\ (\A i, j \in DOMAIN q : q[i].task = q[j].task => i = j)
                 => /\ \A i, j \in DOMAIN Without(q, g) :
                          Without(q, g)[i].task = Without(q, g)[j].task => i = j
                    /\ \A i \in DOMAIN Without(q, g) : Without(q, g)[i] # g
<1>1. CASE ~\E i \in DOMAIN q : q[i] = g
  BY <1>1 DEF Without
<1>2. CASE \E i \in DOMAIN q : q[i] = g
  <2> DEFINE k == CHOOSE i \in DOMAIN q : q[i] = g
             r == Without(q, g)
             At(i) == IF i < k THEN i ELSE i + 1
  <2>1. k \in 1..Len(q) /\ q[k] = g
    BY <1>2
  <2>2. r = SubSeq(q, 1, k - 1) \o SubSeq(q, k + 1, Len(q))
    BY <1>2 DEF Without, RemoveAt
  <2> DEFINE a == SubSeq(q, 1, k - 1)
             b == SubSeq(q, k + 1, Len(q))
  <2> HIDE DEF k
  <2>front. /\ a \in Seq(S)
        /\ Len(a) = k - 1
        /\ \A i \in 1..k-1 : a[i] = q[i]
    BY <2>1, SubSeqProperties
  <2>back. /\ b \in Seq(S)
        /\ Len(b) = Len(q) - k
        /\ \A i \in 1..(Len(q) - k) : b[i] = q[k + i]
    BY <2>1, SubSeqProperties
  <2> HIDE DEF a, b
  <2>split. r = a \o b
    BY <2>2 DEF a, b
  <2> HIDE DEF r
  <2>concat. /\ a \o b \in Seq(S)
        /\ Len(a \o b) = Len(a) + Len(b)
        /\ \A i \in 1..Len(a) + Len(b) :
              (a \o b)[i] = IF i <= Len(a) THEN a[i] ELSE b[i - Len(a)]
    BY <2>front, <2>back, ConcatProperties
  <2>lens. Len(a) = k - 1 /\ Len(a) + Len(b) = Len(q) - 1
    BY <2>1, <2>front, <2>back
  <2>elems. /\ r \in Seq(S)
        /\ Len(r) = Len(q) - 1
        /\ \A i \in 1..Len(q)-1 : r[i] = IF i <= k - 1 THEN a[i] ELSE b[i - (k - 1)]
    BY <2>split, <2>concat, <2>lens
  <2>3. /\ r \in Seq(S)
        /\ Len(r) = Len(q) - 1
        /\ \A i \in 1..Len(r) : At(i) \in 1..Len(q) /\ r[i] = q[At(i)]
    BY <2>1, <2>front, <2>back, <2>elems
  <2>10. \A j \in DOMAIN q : q[j] = g \/ \E i \in DOMAIN r : r[i] = q[j]
    <3>1. SUFFICES ASSUME NEW j \in 1..Len(q), j # k PROVE \E i \in DOMAIN r : r[i] = q[j]
      BY <2>1
    <3>2. CASE j < k
      <4>1. j \in 1..Len(r) /\ At(j) = j
        BY <2>1, <2>3, <3>2
      <4> QED BY <2>3, <4>1
    <3>3. CASE j > k
      <4>1. j - 1 \in 1..Len(r) /\ At(j - 1) = j
        BY <2>1, <2>3, <3>3
      <4> QED BY <2>3, <4>1
    <3> QED
      BY <2>1, <3>1, <3>2, <3>3
  <2> HIDE DEF At
  <2>4. \A i \in DOMAIN r : \E j \in DOMAIN q : r[i] = q[j]
    BY <2>3
  <2>5. ASSUME \A i, j \in DOMAIN q : q[i].task = q[j].task => i = j,
               NEW i \in DOMAIN r, NEW j \in DOMAIN r, r[i].task = r[j].task
        PROVE  i = j
    <3>0. i \in 1..Len(r) /\ j \in 1..Len(r)
      BY <2>3
    <3>1. /\ At(i) \in DOMAIN q /\ At(j) \in DOMAIN q
          /\ r[i] = q[At(i)] /\ r[j] = q[At(j)]
      BY <2>3, <3>0
    <3>2. q[At(i)].task = q[At(j)].task
      BY <3>1, <2>5
    <3>3. At(i) = At(j)
      BY <3>1, <3>2, <2>5
    <3> QED
      BY <3>0, <3>3, <2>1 DEF At
  <2>9. ASSUME \A i, j \in DOMAIN q : q[i].task = q[j].task => i = j,
               NEW i \in DOMAIN r
        PROVE  r[i] # g
    <3>1. /\ At(i) \in DOMAIN q /\ k \in DOMAIN q
          /\ r[i] = q[At(i)]
      BY <2>1, <2>3
    <3>2. At(i) # k
      BY <2>1, <2>3 DEF At
    <3> QED
      BY <2>1, <2>9, <3>1, <3>2
  <2> QED
    BY <2>3, <2>4, <2>5, <2>9, <2>10 DEF r
<1> QED
  BY <1>1, <1>2

\* A list that names tasks of a finite set at most once is no longer than the
\* set, and when it is as long it names all of them: why comparing
\* len(_parked) with _participants decides that everyone is parked.
LEMMA AsLongAsIsAll ==
    ASSUME NEW S, NEW q \in Seq(S), NEW R, IsFiniteSet(R),
           \A i \in DOMAIN q : q[i].task \in R,
           \A i, j \in DOMAIN q : q[i].task = q[j].task => i = j
    PROVE  /\ Len(q) <= Cardinality(R)
           /\ Len(q) >= Cardinality(R) <=> \A w \in R : \E i \in DOMAIN q : q[i].task = w
<1> DEFINE f == [i \in 1..Len(q) |-> q[i].task]
<1>1. DOMAIN q = 1..Len(q) /\ Len(q) \in Nat
  OBVIOUS
<1>2. f \in Injection(1..Len(q), R)
  BY <1>1 DEF Injection, IsInjective
<1>3. Cardinality(1..Len(q)) = Len(q)
  BY <1>1, FS_Interval
<1>4. Cardinality(R) \in Nat
  BY FS_CardinalityType
<1>5. Len(q) <= Cardinality(R)
  BY <1>2, <1>3, FS_Injection
<1>6. ASSUME Len(q) >= Cardinality(R)
      PROVE  \A w \in R : \E i \in DOMAIN q : q[i].task = w
  <2>1. Cardinality(1..Len(q)) = Cardinality(R)
    BY <1>1, <1>3, <1>4, <1>5, <1>6
  <2>2. f \in Surjection(1..Len(q), R)
    BY <1>2, <2>1, FS_Injection
  <2> QED
    BY <1>1, <2>2 DEF Surjection
<1>7. ASSUME \A w \in R : \E i \in DOMAIN q : q[i].task = w
      PROVE  Len(q) >= Cardinality(R)
  <2>1. f \in Surjection(1..Len(q), R)
    BY <1>1, <1>7 DEF Surjection
  <2>2. IsFiniteSet(1..Len(q))
    BY <1>1, FS_Interval
  <2>3. Cardinality(R) <= Cardinality(1..Len(q))
    BY <2>1, <2>2, FS_Surjection
  <2> QED
    BY <1>1, <1>3, <1>4, <2>3
<1> QED
  BY <1>5, <1>6, <1>7

\* A set of numbers that has a member has a least one.
LEMMA LeastIs ==
    ASSUME NEW S \in SUBSET Nat, S # {}
    PROVE  \E i \in S : \A j \in S : i <= j
<1>1. IsWellFoundedOn(OpToRel(<, Nat), Nat)
  BY NatLessThanWellFounded
<1>2. PICK i \in S : \A j \in S : ~(<<j, i>> \in OpToRel(<, Nat))
  BY <1>1, WFMin
<1>3. ASSUME NEW j \in S, j < i PROVE FALSE
  <2>1. <<j, i>> \in OpToRel(<, Nat)
    BY <1>3 DEF OpToRel
  <2> QED
    BY <1>2, <2>1
<1>4. \A j \in S : i <= j
  BY <1>3
<1> QED
  BY <1>4

\* Induction up to a bound, over a set of numbers.
LEMMA UpToBound ==
    ASSUME NEW L \in Nat, NEW S, 0 \in S, \A i \in 1..L : i - 1 \in S => i \in S
    PROVE  \A i \in 0..L : i \in S
<1> DEFINE bad == {i \in 0..L : i \notin S}
<1>1. ASSUME bad # {} PROVE FALSE
  <2>1. bad \in SUBSET Nat
    OBVIOUS
  <2>2. \E i \in bad : \A j \in bad : i <= j
    <3> HIDE DEF bad
    <3> QED
      BY <1>1, <2>1, LeastIs
  <2>3. PICK i \in bad : \A j \in bad : i <= j
    BY <2>2
  <2>4. i \in 1..L /\ i - 1 \in 0..L
    BY <2>3
  <2>5. i - 1 \in bad \/ i - 1 \in S
    BY <2>4
  <2>6. i - 1 \notin bad
    BY <2>3, <2>4
  <2> QED
    BY <2>3, <2>4, <2>5, <2>6
<1> QED
  BY <1>1

\* The shape an open wave works on is one of its groups' shapes.
LEMMA CurrentShapeFacts ==
    ASSUME NEW d \in Wave,
           \E i \in DOMAIN d.groups : d.groups[i].key \notin d.done
    PROVE  /\ CurrentShape(d) \in Shape \ d.done
           /\ \E i \in DOMAIN d.groups : d.groups[i].key = CurrentShape(d)
<1> DEFINE open == {i \in DOMAIN d.groups : d.groups[i].key \notin d.done}
           first == CHOOSE i \in open : \A j \in open : i <= j
<1>1. d.groups \in Seq(Group)
  BY DEF Wave
<1>2. open \in SUBSET Nat /\ open # {}
  BY <1>1
<1>3. \E i \in open : \A j \in open : i <= j
  <2> HIDE DEF open
  <2> QED
    BY <1>2, LeastIs
<1>4. first \in open
  BY <1>3
<1>5. CurrentShape(d) = d.groups[first].key
  BY DEF CurrentShape
<1> HIDE DEF first
<1>6. d.groups[first] \in Group
  BY <1>1, <1>4
<1> QED
  BY <1>4, <1>5, <1>6 DEF Group

\* The registered workers are finitely many, and those of a task set without
\* w, or with w, count one less or one more.
LEMMA RegisteredFacts ==
    ASSUME NEW p
    PROVE  /\ IsFiniteSet(Registered(p))
           /\ Cardinality(Registered(p)) \in Nat
<1>1. Registered(p) \in SUBSET Worker
  BY DEF Registered
<1> QED
  BY <1>1, WorkersAssumption, FS_Subset, FS_CardinalityType

-----------------------------------------------------------------------------
\* Type correctness and the counting invariant

LEMMA InitInvariant == Init => IInv
<1> SUFFICES ASSUME Init PROVE IInv
  OBVIOUS
<1>1. TypeOK
  BY BoundsAssumption DEF Init, TypeOK, Group, Wave, Task
<1>2. Registered(pc) = {}
  BY DEF Init, Registered, Task
<1>3. CountsRegistered
  BY <1>2, FS_EmptySet DEF Init, CountsRegistered
<1>4. ParkedAreAwaiting /\ ParkedOnce /\ GroupsAreOwn /\ WavesAreOpen
  BY DEF Init, GroupsAreOwn, ParkedAreAwaiting, ParkedOnce, WavesAreOpen
<1> QED
  BY <1>1, <1>3, <1>4 DEF IInv

LEMMA StepInvariant == IInv /\ [Next]_vars => IInv'
<1> SUFFICES ASSUME IInv, [Next]_vars PROVE IInv'
  OBVIOUS
<1> USE DEF IInv
<1>1. ASSUME NEW w \in Worker, Start(w) PROVE IInv'
  <2>1. w \in Task /\ pc[w] = "created" /\ pc' = [pc EXCEPT ![w] = "working"]
    BY <1>1 DEF Start, Task
  <2>2. Registered(pc') = Registered(pc) \cup {w} /\ w \notin Registered(pc)
    BY <2>1 DEF Registered, TypeOK, Task
  <2>3. participants' = participants + 1
    BY <1>1 DEF Start
  <2>4. CountsRegistered'
    BY <2>2, <2>3, RegisteredFacts, FS_AddElement DEF CountsRegistered
  <2>5. TypeOK'
    BY <1>1, <2>1 DEF Start, TypeOK
  <2>6. ParkedAreAwaiting'
    BY <1>1, <2>1 DEF Start, TypeOK, ParkedAreAwaiting, Group
  <2>7. ParkedOnce' /\ GroupsAreOwn' /\ WavesAreOpen'
    BY <1>1 DEF Start, TypeOK, ParkedOnce, GroupsAreOwn, WavesAreOpen
  <2> QED
    BY <2>4, <2>5, <2>6, <2>7
<1>2. ASSUME NEW w \in Worker, CancelUnstarted(w) PROVE IInv'
  <2>1. w \in Task /\ pc[w] = "created" /\ pc' = [pc EXCEPT ![w] = "done"]
    BY <1>2 DEF CancelUnstarted, Task
  <2>2. Registered(pc') = Registered(pc)
    BY <2>1 DEF Registered, TypeOK, Task
  <2>3. CountsRegistered'
    BY <1>2, <2>2 DEF CancelUnstarted, CountsRegistered
  <2>4. TypeOK'
    BY <1>2, <2>1 DEF CancelUnstarted, TypeOK
  <2>5. ParkedAreAwaiting'
    BY <1>2, <2>1 DEF CancelUnstarted, TypeOK, ParkedAreAwaiting, Group
  <2>6. ParkedOnce' /\ GroupsAreOwn' /\ WavesAreOpen'
    BY <1>2 DEF CancelUnstarted, TypeOK, ParkedOnce, GroupsAreOwn, WavesAreOpen
  <2> QED
    BY <2>3, <2>4, <2>5, <2>6
<1>3. ASSUME NEW t \in Task, NEW s \in Shape, NEW n \in 1..MaxGroup, Ask(t, s, n)
      PROVE  IInv'
  <2> DEFINE g == [task |-> t, call |-> group[t].call + 1, key |-> s, n |-> n]
  <2>1. pc[t] = "working" /\ pc' = [pc EXCEPT ![t] = "yielding"]
    BY <1>3 DEF Ask
  <2>2. Registered(pc') = Registered(pc)
    BY <2>1 DEF Registered, TypeOK, Task
  <2>3. CountsRegistered'
    BY <1>3, <2>2 DEF Ask, CountsRegistered
  <2>4. g \in Group
    BY <1>3, BoundsAssumption DEF Ask, Group, TypeOK
  <2>5. TypeOK'
    BY <1>3, <2>1, <2>4 DEF Ask, TypeOK
  <2>6. \A i \in DOMAIN parked : parked[i] \in Group /\ parked[i].task # t
    BY <2>1 DEF TypeOK, ParkedAreAwaiting
  <2>7. ParkedAreAwaiting'
    BY <1>3, <2>1, <2>6 DEF Ask, TypeOK, ParkedAreAwaiting, Group
  <2>8. ParkedOnce' /\ GroupsAreOwn' /\ WavesAreOpen'
    BY <1>3 DEF Ask, TypeOK, ParkedOnce, GroupsAreOwn, WavesAreOpen
  <2> QED
    BY <2>3, <2>5, <2>7, <2>8
<1>4. ASSUME NEW t \in Task, Park(t) PROVE IInv'
  <2> DEFINE q == Append(parked, group[t])
  <2>1. pc[t] = "yielding" /\ pc' = [pc EXCEPT ![t] = "awaiting"]
    BY <1>4 DEF Park
  <2>2. Registered(pc') = Registered(pc)
    BY <2>1 DEF Registered, TypeOK, Task
  <2>3. CountsRegistered'
    BY <1>4, <2>2 DEF Park, CountsRegistered
  <2>4. /\ q \in Seq(Group)
        /\ Len(q) = Len(parked) + 1
        /\ \A i \in 1..Len(parked) : q[i] = parked[i]
        /\ q[Len(parked) + 1] = group[t]
    BY DEF TypeOK
  <2>5. \/ parked' = q /\ dispatches' = dispatches
        \/ parked' = <<>> /\ dispatches' = dispatches \cup {[groups |-> q, done |-> {}]}
    BY <1>4 DEF Park, MaybeDispatch
  <2>6. [groups |-> q, done |-> {}] \in Wave
    BY <2>4 DEF Wave
  <2> HIDE DEF q
  <2>7. TypeOK'
    <3>1. <<>> \in Seq(Group)
      OBVIOUS
    <3>2. parked' \in Seq(Group)
      BY <2>4, <2>5, <3>1
    <3>3. dispatches' \subseteq Wave
      BY <2>5, <2>6 DEF TypeOK
    <3> QED
      BY <1>4, <2>1, <3>2, <3>3 DEF Park, TypeOK
  <2>8. \A i \in DOMAIN parked : parked[i] \in Group /\ parked[i].task # t
    BY <2>1 DEF TypeOK, ParkedAreAwaiting
  <2>9. group' = group /\ group[t].task = t
    BY <1>4 DEF Park, GroupsAreOwn
  <2>10. \A i \in DOMAIN q : pc'[q[i].task] = "awaiting" /\ q[i] = group[q[i].task]
    <3>1. DOMAIN q = 1..Len(parked) + 1 /\ DOMAIN parked = 1..Len(parked) /\ Len(parked) \in Nat
      BY <2>4 DEF TypeOK
    <3>2. pc'[t] = "awaiting" /\ \A u \in Task : u # t => pc'[u] = pc[u]
      BY <2>1 DEF TypeOK
    <3>3. ASSUME NEW i \in DOMAIN parked
          PROVE  pc'[q[i].task] = "awaiting" /\ q[i] = group[q[i].task]
      <4>1. q[i] = parked[i] /\ parked[i].task \in Task /\ parked[i].task # t
        BY <2>4, <2>8, <3>1 DEF Group
      <4> QED
        BY <4>1, <3>2 DEF ParkedAreAwaiting
    <3>4. \A i \in DOMAIN q : i \in DOMAIN parked \/ q[i] = group[t]
      BY <2>4, <3>1
    <3> QED
      BY <2>9, <3>2, <3>3, <3>4
  <2>11. ParkedAreAwaiting'
    BY <2>5, <2>9, <2>10 DEF ParkedAreAwaiting
  <2>12. \A i, j \in DOMAIN q : q[i].task = q[j].task => i = j
    BY <2>4, <2>8, <2>9 DEF ParkedOnce
  <2>13. ParkedOnce' /\ GroupsAreOwn'
    BY <2>5, <2>9, <2>12 DEF ParkedOnce, GroupsAreOwn
  <2>14. WavesAreOpen'
    BY <2>4, <2>5 DEF WavesAreOpen
  <2> QED
    BY <2>3, <2>7, <2>11, <2>13, <2>14
<1>5. ASSUME NEW t \in Task, Resume(t) PROVE IInv'
  <2> DEFINE q == Without(parked, group[t])
  <2>1. /\ pc[t] = "awaiting"
        /\ pc' = [pc EXCEPT ![t] = "resuming"]
        /\ parked' = q
    BY <1>5 DEF Resume
  <2>2. Registered(pc') = Registered(pc)
    BY <2>1 DEF Registered, TypeOK, Task
  <2>3. CountsRegistered'
    BY <1>5, <2>2 DEF Resume, CountsRegistered
  <2>4. /\ q \in Seq(Group)
        /\ \A i \in DOMAIN q : \E j \in DOMAIN parked : q[i] = parked[j]
        /\ \A i, j \in DOMAIN q : q[i].task = q[j].task => i = j
        /\ \A i \in DOMAIN q : q[i] # group[t]
    BY WithoutFacts DEF TypeOK, ParkedOnce
  <2> HIDE DEF q
  <2>5. TypeOK'
    BY <1>5, <2>1, <2>4 DEF Resume, TypeOK
  <2>6. \A i \in DOMAIN q : q[i] \in Group /\ q[i].task # t
    BY <2>4 DEF ParkedAreAwaiting
  <2>7. ParkedAreAwaiting'
    BY <1>5, <2>1, <2>4, <2>6 DEF Resume, TypeOK, ParkedAreAwaiting, Group
  <2>8. ParkedOnce' /\ GroupsAreOwn' /\ WavesAreOpen'
    BY <1>5, <2>1, <2>4 DEF Resume, TypeOK, ParkedOnce, GroupsAreOwn, WavesAreOpen
  <2> QED
    BY <2>3, <2>5, <2>7, <2>8
<1>6. ASSUME NEW t \in Task, Reacquire(t) PROVE IInv'
  <2>1. pc[t] = "resuming" /\ pc' = [pc EXCEPT ![t] = "working"]
    BY <1>6 DEF Reacquire
  <2>2. Registered(pc') = Registered(pc)
    BY <2>1 DEF Registered, TypeOK, Task
  <2>3. CountsRegistered'
    BY <1>6, <2>2 DEF Reacquire, CountsRegistered
  <2>4. TypeOK'
    BY <1>6, <2>1 DEF Reacquire, TypeOK
  <2>5. ParkedAreAwaiting'
    BY <1>6, <2>1 DEF Reacquire, TypeOK, ParkedAreAwaiting, Group
  <2>6. ParkedOnce' /\ GroupsAreOwn' /\ WavesAreOpen'
    BY <1>6 DEF Reacquire, ParkedOnce, GroupsAreOwn, WavesAreOpen
  <2> QED
    BY <2>3, <2>4, <2>5, <2>6
<1>7. ASSUME NEW t \in Task, Leave(t) PROVE IInv'
  <2>1. /\ pc[t] \in {"working", "yielding", "resuming"}
        /\ pc' = [pc EXCEPT ![t] = "done"]
    BY <1>7 DEF Leave
  <2>2. \/ parked' = parked /\ dispatches' = dispatches
        \/ /\ parked # <<>>
           /\ parked' = <<>>
           /\ dispatches' = dispatches \cup {[groups |-> parked, done |-> {}]}
    BY <1>7 DEF Leave, MaybeDispatch, Quiescent
  <2>3. CountsRegistered'
    <3>1. CASE t \in Worker
      <4>1. Registered(pc') = Registered(pc) \ {t} /\ t \in Registered(pc)
        BY <2>1, <3>1 DEF Registered, TypeOK
      <4>2. participants' = participants - 1
        BY <1>7, <3>1 DEF Leave
      <4> QED
        BY <4>1, <4>2, RegisteredFacts, FS_RemoveElement DEF CountsRegistered
    <3>2. CASE t \notin Worker
      <4>1. Registered(pc') = Registered(pc)
        BY <2>1, <3>2 DEF Registered, TypeOK, Task
      <4> QED
        BY <1>7, <3>2, <4>1 DEF Leave, CountsRegistered
    <3> QED
      BY <3>1, <3>2
  <2>4. TypeOK'
    <3>1. [groups |-> parked, done |-> {}] \in Wave /\ <<>> \in Seq(Group)
      BY DEF TypeOK, Wave
    <3>2. parked' \in Seq(Group) /\ dispatches' \subseteq Wave
      BY <2>2, <3>1 DEF TypeOK
    <3>3. participants' \in Nat
      BY <2>3, RegisteredFacts DEF CountsRegistered
    <3> QED
      BY <1>7, <2>1, <3>2, <3>3 DEF Leave, TypeOK
  <2>5. ParkedAreAwaiting'
    BY <1>7, <2>1, <2>2 DEF Leave, TypeOK, ParkedAreAwaiting, Group
  <2>6. ParkedOnce' /\ GroupsAreOwn'
    BY <1>7, <2>2 DEF Leave, ParkedOnce, GroupsAreOwn
  <2>7. WavesAreOpen'
    <3>1. parked # <<>> => 1 \in DOMAIN parked
      BY DEF TypeOK
    <3> QED
      BY <2>2, <3>1 DEF WavesAreOpen
  <2> QED
    BY <2>3, <2>4, <2>5, <2>6, <2>7
<1>8. ASSUME NEW t \in Task, Cancel(t) PROVE IInv'
  <2>1. pc' = pc /\ UNCHANGED <<unstarted, participants, parked, dispatches, group, holding>>
    BY <1>8 DEF Cancel
  <2>2. TypeOK'
    BY <1>8, <2>1 DEF Cancel, TypeOK
  <2> QED
    BY <2>1, <2>2 DEF CountsRegistered, ParkedAreAwaiting, ParkedOnce, GroupsAreOwn, WavesAreOpen
<1>9. ASSUME NEW d \in dispatches, JobReturns(d) \/ JobFails(d) PROVE IInv'
  <2>1. UNCHANGED <<unstarted, participants, parked, pc, group, doomed, holding>> /\ Advance(d)
    BY <1>9 DEF JobReturns, JobFails
  <2>2. fut' \in [Task -> {"none", "pending", "result", "error", "cancelled"}]
    BY <1>9 DEF JobReturns, JobFails, TypeOK
  <2> DEFINE after == [d EXCEPT !.done = @ \cup {CurrentShape(d)}]
  <2>3. d \in Wave /\ CurrentShape(d) \in Shape
    BY CurrentShapeFacts DEF TypeOK, WavesAreOpen
  <2>4. after \in Wave
    BY <2>3 DEF Wave
  <2>5. \/ dispatches' = dispatches \ {d}
        \/ /\ dispatches' = (dispatches \ {d}) \cup {after}
           /\ \E i \in DOMAIN after.groups : after.groups[i].key \notin after.done
    BY <2>1, <2>3 DEF Advance, Wave
  <2> HIDE DEF after
  <2>6. TypeOK'
    BY <2>1, <2>2, <2>4, <2>5 DEF TypeOK
  <2>7. WavesAreOpen'
    BY <2>5 DEF WavesAreOpen
  <2> QED
    BY <2>1, <2>6, <2>7 DEF CountsRegistered, ParkedAreAwaiting, ParkedOnce, GroupsAreOwn
<1>10. ASSUME UNCHANGED vars PROVE IInv'
  BY <1>10 DEF vars, TypeOK, CountsRegistered, ParkedAreAwaiting, ParkedOnce,
               GroupsAreOwn, WavesAreOpen
<1> QED
  BY <1>1, <1>2, <1>3, <1>4, <1>5, <1>6, <1>7, <1>8, <1>9, <1>10 DEF Next, Terminated

\* The pool's counters and lists stay what the code takes them for, whoever
\* starts, parks, is cancelled, resumes or ends: _participants counts the
\* workers inside participant(), and _parked holds awaiting tasks, once each.
THEOREM PoolInvariant == Spec => []IInv
  BY InitInvariant, StepInvariant, PTL DEF Spec

\* Every variable keeps its type; _participants in particular never goes
\* below zero, although it is decremented without a test.
THEOREM TypeCorrect == Spec => []TypeOK
<1>1. IInv => TypeOK
  BY DEF IInv
<1> QED
  BY <1>1, PoolInvariant, PTL

-----------------------------------------------------------------------------
\* Pools used by registered participants only

\* Without ad-hoc callers, parked groups belong to registered workers, so the
\* length test decides whether all of them are parked.
LEMMA QuiescenceIsEveryone ==
    ASSUME AdHoc = {}, IInv
    PROVE  /\ \A i \in DOMAIN parked : parked[i].task \in Registered(pc)
           /\ Len(parked) \in Nat
           /\ Len(parked) <= participants
           /\ Len(parked) >= participants <=> Registered(pc) \subseteq Waiting
<1>2. parked \in Seq(Group) /\ Len(parked) \in Nat
  BY DEF IInv, TypeOK
<1>1. ASSUME NEW i \in DOMAIN parked PROVE parked[i].task \in Registered(pc)
  <2>1. parked[i].task \in Worker
    <3>1. parked[i] \in Group
      BY <1>2
    <3> QED
      BY <3>1 DEF Group, Task
  <2>2. pc[parked[i].task] = "awaiting"
    BY DEF IInv, ParkedAreAwaiting
  <2> QED
    BY <2>1, <2>2 DEF Registered
<1>3. /\ Len(parked) <= Cardinality(Registered(pc))
      /\ Len(parked) >= Cardinality(Registered(pc))
            <=> \A w \in Registered(pc) : \E i \in DOMAIN parked : parked[i].task = w
  BY <1>1, <1>2, RegisteredFacts, AsLongAsIsAll DEF IInv, ParkedOnce
<1> QED
  BY <1>1, <1>2, <1>3 DEF IInv, CountsRegistered, Waiting

\* No step leaves the pool quiescent.  Starting a worker is the step that
\* could: it lowers _unstarted without calling _maybe_dispatch.
LEMMA NoLostWaveStep ==
    ASSUME AdHoc = {}
    PROVE  IInv /\ NoLostWave /\ [Next]_vars => NoLostWave'
<1> SUFFICES ASSUME IInv, NoLostWave, [Next]_vars PROVE NoLostWave'
  OBVIOUS
<1>1. ASSUME NEW w \in Worker, Start(w) PROVE NoLostWave'
  <2>1. parked' = parked /\ participants' = participants + 1
    BY <1>1 DEF Start
  <2>2. Len(parked) <= participants /\ Len(parked) \in Nat
    BY QuiescenceIsEveryone
  <2> QED
    BY <2>1, <2>2 DEF NoLostWave, Quiescent, IInv, TypeOK
<1>2. ASSUME NEW t \in Task, Park(t) \/ Leave(t) PROVE NoLostWave'
  BY <1>2 DEF Park, Leave, MaybeDispatch, NoLostWave, Quiescent
<1>3. ASSUME NEW t \in Task, Resume(t) PROVE NoLostWave'
  <2>1. parked' = Without(parked, group[t])
    BY <1>3 DEF Resume
  <2>2. parked \in Seq(Group)
    BY DEF IInv, TypeOK
  <2>3. parked' \in Seq(Group) /\ Len(parked') <= Len(parked)
    BY <2>1, <2>2, WithoutFacts
  <2>4. parked' # <<>> => parked # <<>>
    BY <2>2, <2>3
  <2> QED
    BY <1>3, <2>2, <2>3, <2>4 DEF Resume, NoLostWave, Quiescent, IInv, TypeOK
<1>4. ASSUME UNCHANGED <<unstarted, participants, parked>> PROVE NoLostWave'
  BY <1>4 DEF NoLostWave, Quiescent
<1> QED
  BY <1>1, <1>2, <1>3, <1>4 DEF Next, CancelUnstarted, Ask, Reacquire, Cancel,
     JobReturns, JobFails, Terminated, vars

\* A wave that could leave has left: between two steps the pool is never
\* quiescent, so nobody waits for a dispatch that no later event triggers.
THEOREM NeverLosesAWave ==
    ASSUME AdHoc = {}
    PROVE  Spec => []NoLostWave
<1>1. Init => NoLostWave
  BY DEF Init, NoLostWave, Quiescent
<1>2. IInv /\ NoLostWave /\ [Next]_vars => NoLostWave'
  BY NoLostWaveStep
<1> QED
  BY <1>1, <1>2, PoolInvariant, PTL DEF Spec

\* A list of groups that a step could take as a wave: the latest groups of
\* registered workers, each once.
Platform(q) ==
    /\ q \in Seq(Group)
    /\ \A i \in DOMAIN q : q[i].task \in Registered(pc') /\ q[i] = group'[q[i].task]
    /\ \A i, j \in DOMAIN q : q[i].task = q[j].task => i = j

\* What a parking worker offers is a platform.
LEMMA ParkPlatform ==
    ASSUME AdHoc = {}, IInv, NEW t \in Task, Park(t)
    PROVE  Platform(Append(parked, group[t]))
<1> DEFINE q == Append(parked, group[t])
<1>1. /\ q \in Seq(Group)
      /\ DOMAIN q = 1..Len(parked) + 1
      /\ DOMAIN parked = 1..Len(parked)
      /\ Len(parked) \in Nat
      /\ \A i \in 1..Len(parked) : q[i] = parked[i]
      /\ q[Len(parked) + 1] = group[t]
  BY DEF IInv, TypeOK
<1>2. t \in Worker /\ pc[t] = "yielding" /\ pc' = [pc EXCEPT ![t] = "awaiting"] /\ group' = group
  BY DEF Park, Task
<1>3. Registered(pc') = Registered(pc) /\ t \in Registered(pc)
  BY <1>2 DEF Registered, IInv, TypeOK, Task
<1>4. group[t].task = t
  BY DEF IInv, GroupsAreOwn
<1>5. \A i \in DOMAIN parked : /\ parked[i].task \in Registered(pc)
                               /\ parked[i].task # t
                               /\ parked[i] = group[parked[i].task]
  BY <1>2, QuiescenceIsEveryone DEF IInv, ParkedAreAwaiting
<1> HIDE DEF q
<1>6. \A i \in DOMAIN q : \/ i \in DOMAIN parked /\ q[i] = parked[i]
                          \/ i = Len(parked) + 1 /\ q[i] = group[t]
  BY <1>1
<1>7. \A i \in DOMAIN q : q[i].task \in Registered(pc') /\ q[i] = group'[q[i].task]
  BY <1>2, <1>3, <1>4, <1>5, <1>6
<1>8. \A i, j \in DOMAIN q : q[i].task = q[j].task => i = j
  BY <1>4, <1>5, <1>6 DEF IInv, ParkedOnce
<1>9. Platform(q)
  BY <1>1, <1>7, <1>8 DEF Platform
<1> QED
  BY <1>9 DEF q

\* What a leaving worker leaves behind is a platform.
LEMMA LeavePlatform ==
    ASSUME AdHoc = {}, IInv, NEW t \in Task, Leave(t)
    PROVE  Platform(parked)
<1>1. t \in Worker /\ pc[t] # "awaiting" /\ pc' = [pc EXCEPT ![t] = "done"] /\ group' = group
  BY DEF Leave, Task
<1>2. \A i \in DOMAIN parked : /\ parked[i].task \in Registered(pc)
                               /\ parked[i].task # t
                               /\ parked[i] = group[parked[i].task]
  BY <1>1, QuiescenceIsEveryone DEF IInv, ParkedAreAwaiting
<1>3. Registered(pc') = Registered(pc) \ {t}
  BY <1>1 DEF Registered, IInv, TypeOK, Task
<1> QED
  BY <1>1, <1>2, <1>3 DEF Platform, IInv, TypeOK, ParkedOnce

\* The length test finds a platform full exactly when everyone is on it.
LEMMA PlatformIsFull ==
    ASSUME NEW q, Platform(q), CountsRegistered'
    PROVE  Len(q) >= participants' <=> \A w \in Registered(pc') : \E i \in DOMAIN q : q[i].task = w
<1>1. participants' = Cardinality(Registered(pc'))
  BY DEF CountsRegistered
<1> QED
  BY <1>1, RegisteredFacts, AsLongAsIsAll DEF Platform

\* A wave the pool takes holds the group of every registered participant, and
\* none is taken while a declared worker is still to enter.
THEOREM WavesAreWhole ==
    ASSUME AdHoc = {}
    PROVE  Spec => WaveIsWhole
<1> DEFINE Whole(d) ==
        /\ unstarted' = 0
        /\ \A w \in Registered(pc') : \E i \in DOMAIN d.groups : d.groups[i] = group'[w]
<1>1. ASSUME IInv, IInv', [Next]_vars,
             NEW d \in dispatches' \ dispatches, d.done = {}
      PROVE  Whole(d)
  <2>1. ASSUME NEW q, Platform(q), Quiescent(unstarted, participants', q),
               unstarted' = unstarted, d = [groups |-> q, done |-> {}]
        PROVE  Whole(d)
    <3>1. \A w \in Registered(pc') : \E i \in DOMAIN q : q[i].task = w
      BY <1>1, <2>1, PlatformIsFull DEF IInv, Quiescent
    <3> QED
      BY <2>1, <3>1 DEF Platform, Quiescent
  <2>2. ASSUME NEW t \in Task, Park(t) PROVE Whole(d)
    <3>1. /\ Quiescent(unstarted, participants, Append(parked, group[t]))
          /\ d = [groups |-> Append(parked, group[t]), done |-> {}]
          /\ participants' = participants /\ unstarted' = unstarted
      BY <2>2 DEF Park, MaybeDispatch
    <3> QED
      BY <1>1, <2>1, <2>2, <3>1, ParkPlatform
  <2>3. ASSUME NEW t \in Task, Leave(t) PROVE Whole(d)
    <3>1. /\ Quiescent(unstarted, participants', parked)
          /\ d = [groups |-> parked, done |-> {}]
          /\ unstarted' = unstarted
      BY <2>3 DEF Leave, MaybeDispatch
    <3> QED
      BY <1>1, <2>1, <2>3, <3>1, LeavePlatform
  <2>4. ASSUME NEW e \in dispatches, Advance(e) PROVE FALSE
    <3>1. d = [e EXCEPT !.done = @ \cup {CurrentShape(e)}]
      BY <2>4 DEF Advance
    <3>2. e \in Wave
      BY <1>1 DEF IInv, TypeOK
    <3> QED
      BY <1>1, <3>1, <3>2 DEF Wave
  <2>5. dispatches' = dispatches => FALSE
    OBVIOUS
  <2> QED
    BY <1>1, <2>2, <2>3, <2>4, <2>5 DEF Next, Start, CancelUnstarted, Ask, Resume,
       Reacquire, Cancel, JobReturns, JobFails, Terminated, vars
<1>2. IInv /\ IInv' /\ [Next]_vars
        => [\A d \in dispatches' \ dispatches :
              d.done = {} /\ (\E i \in DOMAIN d.groups : d.groups[i].task \in Worker) => Whole(d)]_vars
  BY <1>1
<1> QED
  BY <1>2, PoolInvariant, PTL DEF Spec, WaveIsWhole

\* A settled future keeps its outcome until its task makes another call: a
\* late answer never overwrites a cancellation, nor a failure an answer.
THEOREM FuturesSettleOnce == Spec => SettledOnce
<1>1. ASSUME IInv, [Next]_vars, NEW t \in Task,
             fut[t] \in {"result", "error", "cancelled"}, group'[t] = group[t]
      PROVE  fut'[t] = fut[t]
  <2>1. ASSUME NEW u \in Task, NEW s \in Shape, NEW n \in 1..MaxGroup, Ask(u, s, n)
        PROVE  fut'[t] = fut[t]
    <3>1. u # t
      <4>1. group[u] \in Group /\ group'[u].call = group[u].call + 1
        BY <1>1, <2>1 DEF Ask, IInv, TypeOK
      <4>2. group[u].call \in Nat
        BY <4>1, BoundsAssumption DEF Group
      <4>3. group'[u].call # group[u].call
        BY <4>1, <4>2
      <4> QED
        BY <1>1, <4>3
    <3> QED
      BY <1>1, <2>1, <3>1 DEF Ask, IInv, TypeOK
  <2>2. ASSUME NEW u \in Task, Cancel(u) PROVE fut'[t] = fut[t]
    BY <1>1, <2>2 DEF Cancel, IInv, TypeOK
  <2>3. ASSUME NEW d \in dispatches, JobReturns(d) \/ JobFails(d) PROVE fut'[t] = fut[t]
    <3>1. ~\E i \in DOMAIN d.groups : d.groups[i].task = t /\ Unsettled(d.groups[i])
      BY <1>1 DEF Unsettled
    <3>2. \/ fut'[t] = fut[t]
          \/ \E i \in DOMAIN d.groups : d.groups[i].task = t /\ Unsettled(d.groups[i])
      BY <2>3 DEF JobReturns, JobFails
    <3> QED
      BY <3>1, <3>2
  <2> QED
    BY <1>1, <2>1, <2>2, <2>3 DEF Next, Start, CancelUnstarted, Park, Resume,
       Reacquire, Leave, Terminated, vars
<1>2. IInv /\ [Next]_vars
        => [\A t \in Task : fut[t] \in {"result", "error", "cancelled"}
                            /\ group'[t] = group[t] => fut'[t] = fut[t]]_vars
  BY <1>1
<1> QED
  BY <1>2, PoolInvariant, PTL DEF Spec, SettledOnce

-----------------------------------------------------------------------------
\* Answers are sliced back to their callers

\* The offsets are what the loop that computes them makes of the groups before.
LEMMA OffsetIs ==
    ASSUME NEW d, NEW s, NEW L \in Nat, L = Len(d.groups)
    PROVE  \A i \in 0..L : Offset(d, s)[i] =
              IF i = 0 THEN 0
              ELSE IF d.groups[i].key = s THEN Offset(d, s)[i - 1] + d.groups[i].n
              ELSE Offset(d, s)[i - 1]
<1> DEFINE Step(f, i) == IF i = 0 THEN 0
                         ELSE IF d.groups[i].key = s THEN f[i - 1] + d.groups[i].n ELSE f[i - 1]
           Is(f, m) == f = [i \in 0..m |-> Step(f, i)]
           good == {m \in 0..L : \E f : Is(f, m)}
<1>1. 0 \in good
  <2>1. Is([i \in 0..0 |-> 0], 0)
    OBVIOUS
  <2> HIDE DEF Is
  <2> QED
    BY <2>1
<1>2. ASSUME NEW m \in 1..L, m - 1 \in good PROVE m \in good
  <2>1. PICK f : Is(f, m - 1)
    BY <1>2
  <2> DEFINE g == [i \in 0..m |-> IF i = m THEN Step(f, m) ELSE f[i]]
  <2>2. ASSUME NEW i \in 0..m PROVE g[i] = Step(g, i)
    <3>1. CASE i = m
      BY <3>1
    <3>2. CASE i # m
      <4>1. i \in 0..(m - 1) /\ g[i] = f[i]
        BY <3>2
      <4>2. i # 0 => g[i - 1] = f[i - 1]
        BY <4>1
      <4>3. f[i] = Step(f, i)
        BY <2>1, <4>1
      <4> HIDE DEF g
      <4> QED
        BY <4>1, <4>2, <4>3
    <3> QED
      BY <3>1, <3>2
  <2>3. Is(g, m)
    BY <2>2
  <2> HIDE DEF Is, g
  <2> QED
    BY <2>3
<1>3. L \in good
  <2> HIDE DEF good
  <2>1. \A i \in 0..L : i \in good
    BY <1>1, <1>2, UpToBound
  <2> QED
    BY <2>1
<1>4. \E f : Is(f, L)
  BY <1>3
<1>5. Offset(d, s) = CHOOSE f : Is(f, L)
  BY DEF Offset
<1> HIDE DEF Is
<1>6. Is(Offset(d, s), L)
  BY <1>4, <1>5
<1> QED
  BY <1>6 DEF Is

\* So is the merged list.
LEMMA MergedIs ==
    ASSUME NEW d, NEW s, NEW L \in Nat, L = Len(d.groups)
    PROVE  \A i \in 0..L : Merged(d, s)[i] =
              IF i = 0 THEN <<>>
              ELSE IF d.groups[i].key = s THEN Merged(d, s)[i - 1] \o Requests(d.groups[i])
              ELSE Merged(d, s)[i - 1]
<1> DEFINE Step(f, i) == IF i = 0 THEN <<>>
                         ELSE IF d.groups[i].key = s THEN f[i - 1] \o Requests(d.groups[i]) ELSE f[i - 1]
           Is(f, m) == f = [i \in 0..m |-> Step(f, i)]
           good == {m \in 0..L : \E f : Is(f, m)}
<1>1. 0 \in good
  <2>1. Is([i \in 0..0 |-> <<>>], 0)
    OBVIOUS
  <2> HIDE DEF Is
  <2> QED
    BY <2>1
<1>2. ASSUME NEW m \in 1..L, m - 1 \in good PROVE m \in good
  <2>1. PICK f : Is(f, m - 1)
    BY <1>2
  <2> DEFINE g == [i \in 0..m |-> IF i = m THEN Step(f, m) ELSE f[i]]
  <2>2. ASSUME NEW i \in 0..m PROVE g[i] = Step(g, i)
    <3>1. CASE i = m
      BY <3>1
    <3>2. CASE i # m
      <4>1. i \in 0..(m - 1) /\ g[i] = f[i]
        BY <3>2
      <4>2. i # 0 => g[i - 1] = f[i - 1]
        BY <4>1
      <4>3. f[i] = Step(f, i)
        BY <2>1, <4>1
      <4> HIDE DEF g
      <4> QED
        BY <4>1, <4>2, <4>3
    <3> QED
      BY <3>1, <3>2
  <2>3. Is(g, m)
    BY <2>2
  <2> HIDE DEF Is, g
  <2> QED
    BY <2>3
<1>3. L \in good
  <2> HIDE DEF good
  <2>1. \A i \in 0..L : i \in good
    BY <1>1, <1>2, UpToBound
  <2> QED
    BY <2>1
<1>4. \E f : Is(f, L)
  BY <1>3
<1>5. Merged(d, s) = CHOOSE f : Is(f, L)
  BY DEF Merged
<1> HIDE DEF Is
<1>6. Is(Merged(d, s), L)
  BY <1>4, <1>5
<1> QED
  BY <1>6 DEF Is

\* The merged list after i groups: as long as the offset, and a prefix of the whole.
Request == Task \X (0..MaxCalls) \X Nat
RunningPrefixes(d, s, i) ==
    /\ Offset(d, s)[i] \in Nat /\ Merged(d, s)[i] \in Seq(Request)
    /\ Len(Merged(d, s)[i]) = Offset(d, s)[i]
    /\ \A j \in 0..i : /\ Offset(d, s)[j] \in Nat /\ Offset(d, s)[j] <= Offset(d, s)[i]
                       /\ \A p \in 1..Offset(d, s)[j] : Merged(d, s)[i][p] = Merged(d, s)[j][p]

\* The requests of a group, one by one.
LEMMA RequestsAre ==
    ASSUME NEW g \in Group
    PROVE  /\ g.n \in Nat /\ Requests(g) \in Seq(Request) /\ Len(Requests(g)) = g.n
           /\ \A p \in 1..g.n : Requests(g)[p] = <<g.task, g.call, p>>
<1>1. g.n \in Nat /\ g.task \in Task /\ g.call \in 0..MaxCalls
  BY BoundsAssumption DEF Group
<1>2. Requests(g) = [i \in 1..g.n |-> <<g.task, g.call, i>>]
  BY DEF Requests
<1>3. \A i \in 1..g.n : <<g.task, g.call, i>> \in Request
  BY <1>1 DEF Request
<1>4. Requests(g) \in [1..g.n -> Request]
  BY <1>2, <1>3
<1> QED
  BY <1>1, <1>2, <1>4

\* By induction over the groups of a wave.
LEMMA PrefixesHold ==
    ASSUME NEW d \in Wave, NEW s
    PROVE  \A i \in 0..Len(d.groups) : RunningPrefixes(d, s, i)
<1> DEFINE L == Len(d.groups)
           good == {i \in 0..L : RunningPrefixes(d, s, i)}
           O == Offset(d, s)
           M == Merged(d, s)
<1>0. L \in Nat /\ \A i \in 1..L : d.groups[i] \in Group
  BY DEF Wave
<1>1. /\ \A i \in 0..L : O[i] = IF i = 0 THEN 0
                                ELSE IF d.groups[i].key = s THEN O[i - 1] + d.groups[i].n ELSE O[i - 1]
      /\ \A i \in 0..L : M[i] = IF i = 0 THEN <<>>
                                ELSE IF d.groups[i].key = s THEN M[i - 1] \o Requests(d.groups[i])
                                ELSE M[i - 1]
  BY <1>0, OffsetIs, MergedIs
<1> HIDE DEF O, M, L
<1>2. 0 \in good
  <2>1. O[0] = 0 /\ M[0] = <<>>
    BY <1>0, <1>1
  <2>2. Len(M[0]) = 0 /\ M[0] \in Seq(Request)
    BY <2>1
  <2>3. \A j \in 0..0 : j = 0
    OBVIOUS
  <2>4. RunningPrefixes(d, s, 0)
    BY <2>1, <2>2, <2>3 DEF RunningPrefixes, O, M
  <2> QED
    BY <1>0, <2>4
<1>3. ASSUME NEW i \in 1..L, i - 1 \in good PROVE i \in good
  <2> DEFINE g == d.groups[i]
             r == Requests(g)
  <2>1. /\ O[i - 1] \in Nat /\ M[i - 1] \in Seq(Request) /\ Len(M[i - 1]) = O[i - 1]
        /\ \A j \in 0..(i - 1) : /\ O[j] \in Nat /\ O[j] <= O[i - 1]
                                 /\ \A p \in 1..O[j] : M[i - 1][p] = M[j][p]
    BY <1>3 DEF RunningPrefixes, O, M
  <2>2. i \in 0..L /\ i # 0 /\ i \in Nat
    BY <1>0
  <2>3. g \in Group /\ g.n \in Nat /\ r \in Seq(Request) /\ Len(r) = g.n
    BY <1>0, RequestsAre
  <2>4. CASE g.key # s
    <3>1. O[i] = O[i - 1] /\ M[i] = M[i - 1]
      BY <1>1, <2>2, <2>4
    <3>2. \A j \in 0..i : j \in 0..(i - 1) \/ j = i
      BY <2>2
    <3>3. RunningPrefixes(d, s, i)
      BY <2>1, <3>1, <3>2 DEF RunningPrefixes, O, M
    <3> QED
      BY <2>2, <3>3
  <2>5. CASE g.key = s
    <3>1. O[i] = O[i - 1] + g.n /\ M[i] = M[i - 1] \o r
      BY <1>1, <2>2, <2>5
    <3> HIDE DEF g, r
    <3>2. /\ M[i] \in Seq(Request) /\ Len(M[i]) = O[i - 1] + g.n
          /\ \A p \in 1..O[i - 1] : M[i][p] = M[i - 1][p]
      <4>1. \A u, v \in Seq(Request) :
               /\ u \o v \in Seq(Request) /\ Len(u \o v) = Len(u) + Len(v)
               /\ \A p \in 1..(Len(u) + Len(v)) :
                     (u \o v)[p] = IF p <= Len(u) THEN u[p] ELSE v[p - Len(u)]
        BY ConcatProperties
      <4>2. /\ M[i] \in Seq(Request) /\ Len(M[i]) = O[i - 1] + g.n
            /\ \A p \in 1..(O[i - 1] + g.n) :
                  M[i][p] = IF p <= O[i - 1] THEN M[i - 1][p] ELSE r[p - O[i - 1]]
        <5>1. /\ M[i - 1] \o r \in Seq(Request) /\ Len(M[i - 1] \o r) = Len(M[i - 1]) + Len(r)
              /\ \A p \in 1..(Len(M[i - 1]) + Len(r)) :
                    (M[i - 1] \o r)[p] = IF p <= Len(M[i - 1]) THEN M[i - 1][p] ELSE r[p - Len(M[i - 1])]
          BY <2>1, <2>3, <4>1, Zenon
        <5> QED
          BY <2>1, <2>3, <3>1, <5>1
      <4>3. \A p \in 1..O[i - 1] : p \in 1..(O[i - 1] + g.n) /\ p <= O[i - 1]
        BY <2>1, <2>3
      <4> QED
        BY <4>2, <4>3
    <3>3. ASSUME NEW j \in 0..i
          PROVE  O[j] \in Nat /\ O[j] <= O[i] /\ \A p \in 1..O[j] : M[i][p] = M[j][p]
      <4>1. CASE j = i
        BY <2>1, <2>3, <3>1, <4>1
      <4>2. CASE j # i
        <5>1. j \in 0..(i - 1)
          BY <2>2, <4>2
        <5>2. O[j] \in Nat /\ O[j] <= O[i - 1] /\ \A p \in 1..O[j] : M[i - 1][p] = M[j][p]
          BY <2>1, <5>1
        <5> QED
          <6>1. \A p \in 1..O[j] : p \in 1..O[i - 1]
            BY <2>1, <5>2
          <6> QED
            BY <2>1, <2>3, <3>1, <3>2, <5>2, <6>1
      <4> QED
        BY <4>1, <4>2
    <3>4. O[i] \in Nat /\ M[i] \in Seq(Request) /\ Len(M[i]) = O[i]
      BY <2>1, <2>3, <3>1, <3>2
    <3>5. RunningPrefixes(d, s, i)
      BY <3>3, <3>4 DEF RunningPrefixes, O, M
    <3> QED
      BY <2>2, <3>5
  <2> QED
    BY <2>4, <2>5
<1>4. \A i \in 0..L : i \in good
  <2> HIDE DEF good
  <2> QED
    BY <1>0, <1>2, <1>3, UpToBound
<1> QED
  BY <1>4 DEF L

\* A group's slice of its shape's answers is its own requests, in order.
LEMMA SliceIs ==
    ASSUME NEW d \in Wave, NEW i \in DOMAIN d.groups
    PROVE  Slice(d, i) = Requests(d.groups[i])
<1> DEFINE L == Len(d.groups)
           g == d.groups[i]
           O == Offset(d, g.key)
           M == Merged(d, g.key)
           r == Requests(g)
<1>0. L \in Nat /\ i \in 1..L /\ g \in Group
  BY DEF Wave
<1>1. g.n \in Nat /\ r \in Seq(Request) /\ Len(r) = g.n
  BY <1>0, RequestsAre
<1>2. \A j \in 0..L : RunningPrefixes(d, g.key, j)
  BY PrefixesHold
<1>3. O[i] = O[i - 1] + g.n /\ M[i] = M[i - 1] \o r
  <2>1. i \in 0..L /\ i # 0
    BY <1>0
  <2> QED
    <3>1. O[i] = O[i - 1] + g.n
      BY <1>0, <2>1, OffsetIs
    <3>2. M[i] = M[i - 1] \o r
      BY <1>0, <2>1, MergedIs
    <3> QED
      BY <3>1, <3>2
<1>4. /\ O[i - 1] \in Nat /\ O[i] \in Nat /\ O[L] \in Nat /\ O[i] <= O[L]
      /\ M[i - 1] \in Seq(Request) /\ Len(M[i - 1]) = O[i - 1]
      /\ M[L] \in Seq(Request) /\ Len(M[L]) = O[L]
      /\ \A p \in 1..O[i] : M[L][p] = M[i][p]
  <2>1. i - 1 \in 0..L /\ i \in 0..L /\ L \in 0..L
    BY <1>0
  <2> QED
    BY <1>2, <2>1 DEF RunningPrefixes
<1>5. Slice(d, i) = SubSeq(M[L], O[i - 1] + 1, O[i - 1] + g.n)
  BY DEF Slice
<1> HIDE DEF L, g, O, M, r
<1>6. \A p \in 1..g.n : M[i][O[i - 1] + p] = r[p]
  <2>1. \A u, v \in Seq(Request) : \A p \in 1..(Len(u) + Len(v)) :
           (u \o v)[p] = IF p <= Len(u) THEN u[p] ELSE v[p - Len(u)]
    BY ConcatProperties
  <2>2. \A p \in 1..(O[i - 1] + g.n) :
           M[i][p] = IF p <= O[i - 1] THEN M[i - 1][p] ELSE r[p - O[i - 1]]
    BY <1>1, <1>3, <1>4, <2>1
  <2>3. ASSUME NEW p \in 1..g.n
        PROVE  /\ O[i - 1] + p \in 1..(O[i - 1] + g.n) /\ ~(O[i - 1] + p <= O[i - 1])
               /\ (O[i - 1] + p) - O[i - 1] = p
    BY <1>1, <1>4
  <2> QED
    BY <2>2, <2>3
<1>7. \A p \in 1..g.n : M[L][O[i - 1] + p] = r[p]
  <2>1. \A p \in 1..g.n : O[i - 1] + p \in 1..O[i]
    BY <1>1, <1>3, <1>4
  <2> QED
    BY <1>4, <1>6, <2>1
<1> DEFINE cut == SubSeq(M[L], O[i - 1] + 1, O[i - 1] + g.n)
<1>8. cut \in Seq(Request) /\ Len(cut) = g.n /\ \A p \in 1..g.n : cut[p] = r[p]
  <2> DEFINE m == O[i - 1] + 1
             n == O[i - 1] + g.n
  <2>1. m \in 1..(O[L] + 1) /\ n \in (m - 1)..O[L] /\ n - m + 1 = g.n
    <3>1. \A a, k, b, c \in Nat : b = a + k /\ b <= c =>
             a + 1 \in 1..(c + 1) /\ a + k \in ((a + 1) - 1)..c /\ (a + k) - (a + 1) + 1 = k
      OBVIOUS
    <3>2. O[i - 1] \in Nat /\ g.n \in Nat /\ O[i] \in Nat /\ O[L] \in Nat
          /\ O[i] = O[i - 1] + g.n /\ O[i] <= O[L]
      BY <1>1, <1>3, <1>4
    <3> QED
      BY <3>1, <3>2
  <2>2. /\ SubSeq(M[L], m, n) \in Seq(Request)
        /\ Len(SubSeq(M[L], m, n)) = n - m + 1
        /\ \A p \in 1..(n - m + 1) : SubSeq(M[L], m, n)[p] = M[L][m + p - 1]
    <3> HIDE DEF m, n
    <3> QED
      BY <1>4, <2>1, SubSeqProperties
  <2>3. ASSUME NEW p \in 1..g.n PROVE m + p - 1 = O[i - 1] + p
    <3>1. p \in Int /\ O[i - 1] \in Int
      BY <1>1, <1>4
    <3> QED
      BY <3>1
  <2> QED
    BY <1>7, <2>1, <2>2, <2>3
<1> HIDE DEF cut
<1>9. cut = r
  <2>1. \A u, v \in Seq(Request) : Len(u) = Len(v) /\ (\A p \in 1..Len(u) : u[p] = v[p]) => u = v
    BY SeqEqual
  <2> QED
    BY <1>1, <1>8, <2>1
<1> QED
  BY <1>5, <1>9 DEF cut, r, g

\* A task whose call returned has the answers to its requests, while its group is the one
\* it asked with.
LEMMA AlignedStep ==
    ASSUME IInv, AlignedResults, [Next]_vars
    PROVE  AlignedResults'
<1> SUFFICES ASSUME NEW t \in Task, fut'[t] = "result"
             PROVE  got'[t] = Requests(group'[t])
  BY DEF AlignedResults
<1>0. fut[t] = "result" => got[t] = Requests(group[t])
  BY DEF AlignedResults
<1>1. ASSUME NEW u \in Task, NEW s \in Shape, NEW n \in 1..MaxGroup, Ask(u, s, n)
      PROVE  got'[t] = Requests(group'[t])
  <2>1. u # t /\ fut' = [fut EXCEPT ![u] = "pending"] /\ got' = [got EXCEPT ![u] = <<>>]
    BY <1>1 DEF Ask, IInv, TypeOK
  <2>2. fut'[t] = fut[t] /\ got'[t] = got[t] /\ group'[t] = group[t]
    BY <1>1, <2>1 DEF Ask, IInv, TypeOK
  <2> QED
    BY <1>0, <2>2
<1>2. ASSUME NEW u \in Task, Cancel(u) PROVE got'[t] = Requests(group'[t])
  <2>1. fut'[t] = fut[t] /\ got' = got /\ group' = group
    BY <1>2 DEF Cancel, IInv, TypeOK
  <2> QED
    BY <1>0, <2>1
<1>3. ASSUME NEW d \in dispatches, JobReturns(d) PROVE got'[t] = Requests(group'[t])
  <2> DEFINE place == {i \in DOMAIN d.groups : /\ d.groups[i].key = CurrentShape(d)
                                               /\ d.groups[i].task = t /\ Unsettled(d.groups[i])}
             at == CHOOSE i \in place : TRUE
  <2>1. /\ group' = group
        /\ fut'[t] = IF place # {} THEN "result" ELSE fut[t]
        /\ got'[t] = IF place # {} THEN Slice(d, at) ELSE got[t]
    BY <1>3 DEF JobReturns
  <2>2. CASE place = {}
    BY <1>0, <2>1, <2>2
  <2>3. CASE place # {}
    <3>1. at \in place
      BY <2>3
    <3>2. d.groups[at] = group[t]
      BY <3>1 DEF Unsettled
    <3>3. Slice(d, at) = Requests(d.groups[at])
      BY <3>1, SliceIs DEF IInv, TypeOK
    <3> QED
      BY <2>1, <2>3, <3>2, <3>3
  <2> QED
    BY <2>2, <2>3
<1>4. ASSUME NEW d \in dispatches, JobFails(d) PROVE got'[t] = Requests(group'[t])
  <2>1. fut'[t] \in {"error", fut[t]} /\ got' = got /\ group' = group
    BY <1>4 DEF JobFails
  <2> QED
    BY <1>0, <2>1
<1>5. ASSUME UNCHANGED <<fut, got, group>> PROVE got'[t] = Requests(group'[t])
  BY <1>0, <1>5
<1> QED
  BY <1>1, <1>2, <1>3, <1>4, <1>5 DEF Next, Start, CancelUnstarted, Park, Resume,
     Reacquire, Leave, Terminated, vars

\* A task whose call returned results got the answers to exactly its own requests, in its
\* own order, whatever else was merged into the job and whichever neighbours had died
\* (CompletionPool._dispatch, llm/pool.py).
THEOREM ResultsAreAligned == Spec => []AlignedResults
<1>1. Init => AlignedResults
  BY DEF Init, AlignedResults
<1>2. IInv /\ AlignedResults /\ [Next]_vars => AlignedResults'
  BY AlignedStep
<1> QED
  BY <1>1, <1>2, PoolInvariant, PTL DEF Spec

-----------------------------------------------------------------------------
\* The pool implements the barrier

\* What boarding means for the counters and lists of the pool.
LEMMA BoardIsMaybeDispatch ==
    ASSUME NEW q, Platform(q), CountsRegistered', unstarted' = unstarted,
           MaybeDispatch(unstarted, participants', q), AdHoc = {}, IInv
    PROVE  LET w == {q[i].task : i \in DOMAIN q}
           IN  IF unstarted = 0 /\ w # {} /\ Registered(pc') \subseteq w
               THEN Waiting' = {} /\ Flying' = Flying \cup w
               ELSE Waiting' = w /\ Flying' = Flying
<1> DEFINE w == {q[i].task : i \in DOMAIN q}
           d == [groups |-> q, done |-> {}]
<1>1. q \in Seq(Group) /\ (q # <<>> <=> w # {})
  BY DEF Platform
<1>2. Registered(pc') \subseteq w <=> Len(q) >= participants'
  BY PlatformIsFull
<1>3. Quiescent(unstarted, participants', q)
        <=> unstarted = 0 /\ w # {} /\ Registered(pc') \subseteq w
  BY <1>1, <1>2 DEF Quiescent
<1>4. CASE Quiescent(unstarted, participants', q)
  <2>1. parked' = <<>> /\ dispatches' = dispatches \cup {d}
    BY <1>4 DEF MaybeDispatch
  <2>2. Waiting' = {}
    BY <2>1 DEF Waiting
  <2>3. w \subseteq Task
    BY DEF Platform, Registered, Task
  <2>4. \A t \in Task : (\E i \in DOMAIN d.groups : d.groups[i].task = t /\ d.groups[i].key \notin d.done)
                      <=> t \in w
    OBVIOUS
  <2> HIDE DEF d, w
  <2>5. Flying' = Flying \cup w
    BY <2>1, <2>3, <2>4 DEF Flying
  <2> QED
    BY <1>3, <1>4, <2>2, <2>5 DEF w
<1>5. CASE ~Quiescent(unstarted, participants', q)
  <2>1. parked' = q /\ dispatches' = dispatches
    BY <1>5 DEF MaybeDispatch
  <2>2. Waiting' = w /\ Flying' = Flying
    BY <2>1 DEF Waiting, Flying
  <2> QED
    BY <1>3, <1>5, <2>2
<1> QED
  BY <1>4, <1>5

\* Every step of the pool is a step of the barrier, or invisible there.
LEMMA BarrierStep ==
    ASSUME AdHoc = {}, IInv, IInv', [Next]_vars
    PROVE  [Barrier!BNext]_(Barrier!bvars)
<1> DEFINE Hidden == UNCHANGED <<unstarted, Registered(pc), Waiting, Flying>>
<1>0. Hidden => [Barrier!BNext]_(Barrier!bvars)
  BY DEF Barrier!bvars
<1>1. ASSUME NEW w \in Worker, Start(w) PROVE Barrier!Join(w)
  <2>1. w \in Task /\ pc[w] = "created" /\ pc' = [pc EXCEPT ![w] = "working"]
    BY <1>1 DEF Start, Task
  <2>2. Registered(pc') = Registered(pc) \cup {w} /\ w \notin Registered(pc)
    BY <2>1 DEF Registered, IInv, TypeOK, Task
  <2>3. Waiting' = Waiting /\ Flying' = Flying
    BY <1>1 DEF Start, Waiting, Flying
  <2> QED
    BY <1>1, <2>2, <2>3 DEF Start, Barrier!Join
<1>2. ASSUME NEW w \in Worker, CancelUnstarted(w) PROVE Hidden
  <2>1. w \in Task /\ pc[w] = "created" /\ pc' = [pc EXCEPT ![w] = "done"]
    BY <1>2 DEF CancelUnstarted, Task
  <2>2. Registered(pc') = Registered(pc)
    BY <2>1 DEF Registered, IInv, TypeOK, Task
  <2> QED
    BY <1>2, <2>2 DEF CancelUnstarted, Waiting, Flying
<1>3. ASSUME NEW t \in Task, NEW s \in Shape, NEW n \in 1..MaxGroup, Ask(t, s, n)
      PROVE  Hidden
  <2>1. Registered(pc') = Registered(pc)
    BY <1>3 DEF Ask, Registered, IInv, TypeOK, Task
  <2> QED
    BY <1>3, <2>1 DEF Ask, Waiting, Flying
<1>4. ASSUME NEW t \in Task, Park(t) PROVE Barrier!Request(t)
  <2> DEFINE q == Append(parked, group[t])
  <2>1. t \in Worker /\ pc[t] = "yielding" /\ pc' = [pc EXCEPT ![t] = "awaiting"]
    BY <1>4 DEF Park, Task
  <2>2. Registered(pc') = Registered(pc) /\ t \in Registered(pc)
    BY <2>1 DEF Registered, IInv, TypeOK, Task
  <2>3. t \notin Waiting
    BY <2>1 DEF Waiting, IInv, ParkedAreAwaiting
  <2>4. {q[i].task : i \in DOMAIN q} = Waiting \cup {t}
    <3>1. /\ DOMAIN q = DOMAIN parked \cup {Len(parked) + 1}
          /\ \A i \in DOMAIN parked : q[i] = parked[i]
          /\ q[Len(parked) + 1].task = t
      BY DEF IInv, TypeOK, GroupsAreOwn
    <3> HIDE DEF q
    <3> QED
      BY <3>1 DEF Waiting
  <2>5. /\ unstarted' = unstarted /\ participants' = participants
        /\ MaybeDispatch(unstarted, participants', q)
    BY <1>4 DEF Park
  <2>6. CountsRegistered'
    BY DEF IInv
  <2>7. Platform(q)
    BY <1>4, ParkPlatform
  <2> HIDE DEF q
  <2>8. IF unstarted = 0 /\ Waiting \cup {t} # {} /\ Registered(pc') \subseteq Waiting \cup {t}
        THEN Waiting' = {} /\ Flying' = Flying \cup (Waiting \cup {t})
        ELSE Waiting' = Waiting \cup {t} /\ Flying' = Flying
    BY <2>4, <2>5, <2>6, <2>7, BoardIsMaybeDispatch
  <2> QED
    BY <2>2, <2>3, <2>5, <2>8 DEF Barrier!Request, Barrier!Board
<1>5. ASSUME NEW t \in Task, Resume(t) PROVE Barrier!Withdraw(t) \/ Hidden
  <2>1. Registered(pc') = Registered(pc)
    BY <1>5 DEF Resume, Registered, IInv, TypeOK, Task
  <2>2. Flying' = Flying /\ unstarted' = unstarted
    BY <1>5 DEF Resume, Flying
  <2>3. parked' = Without(parked, group[t])
    BY <1>5 DEF Resume
  <2>4. /\ \A i \in DOMAIN parked' : \E j \in DOMAIN parked : parked'[i] = parked[j]
        /\ \A j \in DOMAIN parked :
              parked[j] = group[t] \/ \E i \in DOMAIN parked' : parked'[i] = parked[j]
        /\ \A i \in DOMAIN parked' : parked'[i] # group[t]
    BY <2>3, WithoutFacts DEF IInv, TypeOK, ParkedOnce
  <2>5. \A j \in DOMAIN parked : parked[j] = group[t] <=> parked[j].task = t
    BY DEF IInv, ParkedAreAwaiting, GroupsAreOwn
  <2>6. Waiting' = Waiting \ {t}
    BY <2>4, <2>5 DEF Waiting
  <2> QED
    BY <2>1, <2>2, <2>6 DEF Barrier!Withdraw
<1>6. ASSUME NEW t \in Task, Reacquire(t) PROVE Hidden
  <2>1. Registered(pc') = Registered(pc)
    BY <1>6 DEF Reacquire, Registered, IInv, TypeOK, Task
  <2> QED
    BY <1>6, <2>1 DEF Reacquire, Waiting, Flying
<1>7. ASSUME NEW t \in Task, Leave(t) PROVE Barrier!Depart(t)
  <2>1. /\ t \in Worker /\ pc[t] \in {"working", "yielding", "resuming"}
        /\ pc' = [pc EXCEPT ![t] = "done"]
    BY <1>7 DEF Leave, Task
  <2>2. Registered(pc') = Registered(pc) \ {t} /\ t \in Registered(pc)
    BY <2>1 DEF Registered, IInv, TypeOK, Task
  <2>3. t \notin Waiting
    BY <2>1 DEF Waiting, IInv, ParkedAreAwaiting
  <2>4. unstarted' = unstarted /\ MaybeDispatch(unstarted, participants', parked)
    BY <1>7, <2>1 DEF Leave
  <2>5. Platform(parked) /\ CountsRegistered'
    BY <1>7, LeavePlatform DEF IInv
  <2>6. IF unstarted = 0 /\ Waiting # {} /\ Registered(pc') \subseteq Waiting
        THEN Waiting' = {} /\ Flying' = Flying \cup Waiting
        ELSE Waiting' = Waiting /\ Flying' = Flying
    BY <2>4, <2>5, BoardIsMaybeDispatch DEF Waiting
  <2> QED
    BY <2>2, <2>3, <2>4, <2>6 DEF Barrier!Depart, Barrier!Board
<1>8. ASSUME NEW t \in Task, Cancel(t) PROVE Hidden
  BY <1>8 DEF Cancel, Waiting, Flying, Registered
<1>9. ASSUME NEW d \in dispatches, JobReturns(d) \/ JobFails(d)
      PROVE  Barrier!Answer \/ Hidden
  <2>1. UNCHANGED <<unstarted, parked, pc>> /\ Advance(d)
    BY <1>9 DEF JobReturns, JobFails
  <2> DEFINE after == [d EXCEPT !.done = @ \cup {CurrentShape(d)}]
  <2>2. d \in Wave
    BY DEF IInv, TypeOK
  <2>3. dispatches' \subseteq (dispatches \cup {after})
    BY <2>1 DEF Advance
  <2>4. after.groups = d.groups /\ d.done \subseteq after.done
    BY <2>2 DEF Wave
  <2> HIDE DEF after
  <2>5. Flying' \subseteq Flying
    BY <2>3, <2>4 DEF Flying
  <2>6. Registered(pc') = Registered(pc) /\ Waiting' = Waiting
    BY <2>1 DEF Waiting, Registered
  <2> QED
    BY <2>1, <2>5, <2>6 DEF Barrier!Answer
<1>10. ASSUME UNCHANGED vars PROVE Hidden
  BY <1>10 DEF vars, Waiting, Flying, Registered
<1>11. Worker = Task
  BY DEF Task
<1> HIDE DEF Hidden
<1> QED
  BY <1>0, <1>1, <1>2, <1>3, <1>4, <1>5, <1>6, <1>7, <1>8, <1>9, <1>10, <1>11
     DEF Next, Terminated, Barrier!BNext

\* A pool used by registered participants only is the barrier: list lengths,
\* counters, futures and cancellations add nothing a participant can see.
THEOREM PoolImplementsBarrier ==
    ASSUME AdHoc = {}
    PROVE  Spec => ImplementsBarrier
<1>1. Init => Barrier!BInit
  <2>1. ASSUME Init PROVE Registered(pc) = {} /\ Waiting = {} /\ Flying = {} /\ unstarted = Expected
    BY <2>1 DEF Init, Registered, Waiting, Flying, Task
  <2> QED
    BY <2>1 DEF Barrier!BInit
<1>2. IInv /\ IInv' /\ [Next]_vars => [Barrier!BNext]_(Barrier!bvars)
  BY BarrierStep
<1> QED
  BY <1>1, <1>2, PoolInvariant, PTL DEF Spec, ImplementsBarrier, Barrier!BSpec
=============================================================================
