---------------------------- MODULE CompletionPool ----------------------------
(***************************************************************************)
(* The per-run completion pool, src/particles/llm/pool.py.  Concurrent     *)
(* asyncio tasks park their request groups; when every registered          *)
(* participant is parked the pool takes all parked groups as one wave and  *)
(* a dispatch task of its own runs one job per kwargs shape, slicing the   *)
(* answers back to the groups by position.                                 *)
(*                                                                         *)
(* A step is what a task does between two awaits, so every call it makes   *)
(* to _maybe_dispatch is part of the step.  Cancellation is asyncio's: a   *)
(* cancelled task's future is dead at once, its `finally` runs later.      *)
(***************************************************************************)
EXTENDS Naturals, Sequences, FiniteSets, SequencesExt

CONSTANTS
    Worker,     \* tasks that enter pool.participant()
    AdHoc,      \* tasks that call complete_group unregistered
    Expected,   \* expected_participants, declared by the driver
    Shape,      \* distinct uniform-kwargs keys
    MaxGroup,   \* bound: requests in one group
    MaxCalls,   \* bound: complete_group calls of one task
    Slots,      \* store slots the idle hook gives back and re-acquires
    Cancellable,\* tasks the driver may cancel
    Losable     \* workers the driver may cancel before their first step

ASSUME WorkersAssumption == IsFiniteSet(Worker) /\ Worker \cap AdHoc = {}
ASSUME BoundsAssumption ==
    /\ Expected \in Nat
    /\ Expected <= Cardinality(Worker)
    /\ MaxGroup \in Nat \ {0}
    /\ MaxCalls \in Nat \ {0}
    /\ Slots \in Nat \ {0}

Task == Worker \cup AdHoc

VARIABLES
    unstarted,   \* self._unstarted
    participants,\* self._participants
    parked,      \* self._parked
    dispatches,  \* waves taken, with the shapes already answered
    pc,          \* where each task is suspended
    fut,         \* the future of the task's latest group
    group,       \* the task's latest group
    got,         \* the answers its last complete_group returned
    doomed,      \* tasks with a pending cancellation
    holding      \* workers that hold a store slot

vars == <<unstarted, participants, parked, dispatches,
          pc, fut, group, got, doomed, holding>>

\* A parked group: its caller, which of its calls it is, its kwargs key and
\* how many requests it holds.  Task and call identify the future.
Group == [task : Task, call : 0..MaxCalls, key : Shape, n : 0..MaxGroup]

Wave == [groups : Seq(Group), done : SUBSET Shape]

\* The worker is inside `async with pool.participant()`.
Registered(p) == {w \in Worker : p[w] \notin {"created", "done"}}

-----------------------------------------------------------------------------
\* What the pool is built from

\* Mutant: the startup race is not closed, undeclared siblings are ignored.
QuiescentWithoutExpected(u, p, q) == q # <<>> /\ Len(q) >= p

\* _maybe_dispatch's test: every declared worker has entered, something is
\* parked, and at least as many groups are parked as there are participants.
Quiescent(u, p, q) == u = 0 /\ q # <<>> /\ Len(q) >= p

\* _maybe_dispatch: take every parked group as one wave, or leave them.
MaybeDispatch(u, p, q) ==
    IF Quiescent(u, p, q)
    THEN /\ parked' = <<>>
         /\ dispatches' = dispatches \cup {[groups |-> q, done |-> {}]}
    ELSE /\ parked' = q
         /\ UNCHANGED dispatches

\* self._parked.remove(group), a group being in at most one place.
Without(q, g) ==
    IF \E i \in DOMAIN q : q[i] = g
    THEN RemoveAt(q, CHOOSE i \in DOMAIN q : q[i] = g)
    ELSE q

\* One request, named by the group it was asked in and its place there.
Requests(g) == [i \in 1..g.n |-> <<g.task, g.call, i>>]

\* The shape whose job runs now: by_key keeps first-appearance order.
CurrentShape(wave) ==
    LET open == {i \in DOMAIN wave.groups : wave.groups[i].key \notin wave.done}
    IN  wave.groups[CHOOSE i \in open : \A j \in open : i <= j].key

\* The merged request list of one job, after the first i groups of the wave: by_key[key]
\* holds the groups of one shape in wave order.
Merged(wave, s) ==
    LET merged[i \in 0..Len(wave.groups)] ==
            IF i = 0 THEN <<>>
            ELSE IF wave.groups[i].key = s THEN merged[i - 1] \o Requests(wave.groups[i])
            ELSE merged[i - 1]
    IN  merged

\* Mutant: the offset advances only past groups that are still waiting.
OffsetOfLiveGroups(wave, s) ==
    LET offset[i \in 0..Len(wave.groups)] ==
            IF i = 0 THEN 0
            ELSE IF wave.groups[i].key = s /\ fut[wave.groups[i].task] = "pending"
                 THEN offset[i - 1] + wave.groups[i].n
            ELSE offset[i - 1]
    IN  offset

\* The offset the slicing loop has reached after the first i groups of the wave: it
\* advances past every group of the shape, also one whose future is already dead.
Offset(wave, s) ==
    LET offset[i \in 0..Len(wave.groups)] ==
            IF i = 0 THEN 0
            ELSE IF wave.groups[i].key = s THEN offset[i - 1] + wave.groups[i].n
            ELSE offset[i - 1]
    IN  offset

\* results[offset : offset + count] for the i-th group of the wave, in its shape's job.
Slice(wave, i) ==
    LET s == wave.groups[i].key
        from == Offset(wave, s)[i - 1]
    IN  SubSeq(Merged(wave, s)[Len(wave.groups)], from + 1, from + wave.groups[i].n)

\* Mutant: futures are settled without asking whether they are done.
UnsettledOrDone(g) == group[g.task] = g

\* The future of group g is still the one its task waits on, and not done.
Unsettled(g) == group[g.task] = g /\ fut[g.task] = "pending"

-----------------------------------------------------------------------------
Init ==
    /\ unstarted = Expected
    /\ participants = 0
    /\ parked = <<>>
    /\ dispatches = {}
    /\ pc = [t \in Task |-> IF t \in Worker THEN "created" ELSE "working"]
    /\ fut = [t \in Task |-> "none"]
    /\ \E s \in Shape :
          group = [t \in Task |-> [task |-> t, call |-> 0, key |-> s, n |-> 0]]
    /\ got = [t \in Task |-> <<>>]
    /\ doomed = {}
    /\ holding = {}

\* participant().__aenter__, by a worker that obtained its store slot.
Start(w) ==
    /\ pc[w] = "created"
    /\ Cardinality(holding) < Slots
    /\ unstarted' = IF unstarted > 0 THEN unstarted - 1 ELSE 0
    /\ participants' = participants + 1
    /\ holding' = holding \cup {w}
    /\ pc' = [pc EXCEPT ![w] = "working"]
    /\ UNCHANGED <<parked, dispatches, fut, group, got, doomed>>

\* Mutant: the slot is kept across the wait.
AskHoldingSlot(t, s, n) ==
    /\ pc[t] = "working"
    /\ t \notin doomed
    /\ group[t].call < MaxCalls
    /\ group' = [group EXCEPT ![t] =
                    [task |-> t, call |-> group[t].call + 1, key |-> s, n |-> n]]
    /\ fut' = [fut EXCEPT ![t] = "pending"]
    /\ got' = [got EXCEPT ![t] = <<>>]
    /\ pc' = [pc EXCEPT ![t] = "yielding"]
    /\ UNCHANGED <<unstarted, participants, parked, dispatches, doomed, holding>>

\* complete_group up to the idle hook: the group and its future exist, the
\* hook is being entered and gives the slot back; nothing is parked yet.
Ask(t, s, n) ==
    /\ pc[t] = "working"
    /\ t \notin doomed
    /\ group[t].call < MaxCalls
    /\ group' = [group EXCEPT ![t] =
                    [task |-> t, call |-> group[t].call + 1, key |-> s, n |-> n]]
    /\ fut' = [fut EXCEPT ![t] = "pending"]
    /\ got' = [got EXCEPT ![t] = <<>>]
    /\ holding' = holding \ {t}
    /\ pc' = [pc EXCEPT ![t] = "yielding"]
    /\ UNCHANGED <<unstarted, participants, parked, dispatches, doomed>>

\* complete_group from the append to the await of the future.
Park(t) ==
    /\ pc[t] = "yielding"
    /\ t \notin doomed
    /\ MaybeDispatch(unstarted, participants, Append(parked, group[t]))
    /\ pc' = [pc EXCEPT ![t] = "awaiting"]
    /\ UNCHANGED <<unstarted, participants, fut, group, got, doomed, holding>>

\* The await ends (answer, error or cancellation); the `finally` withdraws
\* the group if no wave took it.  _maybe_dispatch is not called here.
Resume(t) ==
    /\ pc[t] = "awaiting"
    /\ fut[t] # "pending"
    /\ parked' = Without(parked, group[t])
    /\ pc' = [pc EXCEPT ![t] = "resuming"]
    /\ UNCHANGED <<unstarted, participants, dispatches, fut, group, got,
                   doomed, holding>>

\* The idle hook's exit: a worker waits for a slot, an ad-hoc caller has none.
Reacquire(t) ==
    /\ pc[t] = "resuming"
    /\ t \notin doomed
    /\ t \in Worker => Cardinality(holding) < Slots
    /\ holding' = IF t \in Worker THEN holding \cup {t} ELSE holding
    /\ pc' = [pc EXCEPT ![t] = "working"]
    /\ UNCHANGED <<unstarted, participants, parked, dispatches, fut, group,
                   got, doomed>>

\* Mutant: deregistering does not look for the wave it completes.
LeaveWithoutDispatch(t) ==
    /\ \/ pc[t] = "working"
       \/ pc[t] \in {"yielding", "resuming"} /\ t \in doomed
    /\ participants' = IF t \in Worker THEN participants - 1 ELSE participants
    /\ holding' = holding \ {t}
    /\ pc' = [pc EXCEPT ![t] = "done"]
    /\ UNCHANGED <<unstarted, parked, dispatches, fut, group, got, doomed>>

\* The task ends: by returning or raising while it works, or because its
\* cancellation propagates.  A worker leaves participant(), whose `finally`
\* deregisters and may dispatch; an ad-hoc caller touches nothing.
Leave(t) ==
    /\ \/ pc[t] = "working"
       \/ pc[t] \in {"yielding", "resuming"} /\ t \in doomed
    /\ IF t \in Worker
       THEN /\ participants' = participants - 1
            /\ MaybeDispatch(unstarted, participants', parked)
       ELSE UNCHANGED <<participants, parked, dispatches>>
    /\ holding' = holding \ {t}
    /\ pc' = [pc EXCEPT ![t] = "done"]
    /\ UNCHANGED <<unstarted, fut, group, got, doomed>>

\* task.cancel() on a started task: a future it awaits dies in this very
\* step, while its group stays parked (or in its wave) until it runs again.
Cancel(t) ==
    /\ t \in Cancellable \ doomed
    /\ pc[t] \notin {"created", "done"}
    /\ doomed' = doomed \cup {t}
    /\ fut' = IF pc[t] = "awaiting" /\ fut[t] = "pending"
              THEN [fut EXCEPT ![t] = "cancelled"] ELSE fut
    /\ UNCHANGED <<unstarted, participants, parked, dispatches, pc, group, got,
                   holding>>

\* task.cancel() before the first step: the coroutine body never runs.
CancelUnstarted(w) ==
    /\ w \in Losable
    /\ pc[w] = "created"
    /\ pc' = [pc EXCEPT ![w] = "done"]
    /\ UNCHANGED <<unstarted, participants, parked, dispatches, fut, group, got,
                   doomed, holding>>

\* The dispatch task moves to its next shape, or ends after the last.
Advance(d) ==
    LET after == [d EXCEPT !.done = @ \cup {CurrentShape(d)}]
    IN  dispatches' = (dispatches \ {d}) \cup
            IF \A i \in DOMAIN d.groups : d.groups[i].key \in after.done
            THEN {} ELSE {after}

\* The job of wave d's current shape settles the future of every group of the
\* shape that is not done: with its slice, or with the job's exception.
JobReturns(d) ==
    LET Place(t) == {i \in DOMAIN d.groups : /\ d.groups[i].key = CurrentShape(d)
                                            /\ d.groups[i].task = t /\ Unsettled(d.groups[i])}
    IN  /\ fut' = [t \in Task |-> IF Place(t) # {} THEN "result" ELSE fut[t]]
        /\ got' = [t \in Task |-> IF Place(t) # {}
                                  THEN Slice(d, CHOOSE i \in Place(t) : TRUE)
                                  ELSE got[t]]
        /\ Advance(d)
        /\ UNCHANGED <<unstarted, participants, parked, pc, group, doomed, holding>>

JobFails(d) ==
    LET Hit(t) == \E i \in DOMAIN d.groups : /\ d.groups[i].key = CurrentShape(d)
                                             /\ d.groups[i].task = t /\ Unsettled(d.groups[i])
    IN  /\ fut' = [t \in Task |-> IF Hit(t) THEN "error" ELSE fut[t]]
        /\ Advance(d)
        /\ UNCHANGED <<unstarted, participants, parked, pc, group, got, doomed,
                       holding>>

\* Every task ended and every job came back.
Terminated ==
    /\ \A t \in Task : pc[t] = "done"
    /\ dispatches = {}
    /\ UNCHANGED vars

Next ==
    \/ \E w \in Worker : Start(w) \/ CancelUnstarted(w)
    \/ \E t \in Task : \E s \in Shape, n \in 1..MaxGroup : Ask(t, s, n)
    \/ \E t \in Task : Park(t) \/ Resume(t) \/ Reacquire(t) \/ Leave(t) \/ Cancel(t)
    \/ \E d \in dispatches : JobReturns(d) \/ JobFails(d)
    \/ Terminated

Spec == Init /\ [][Next]_vars

\* The event loop runs every ready task, slots are granted in order of
\* request, a working task parks or ends, and a job returns or raises.
Fairness ==
    /\ \A w \in Worker : SF_vars(Start(w))
    /\ \A t \in Task : /\ WF_vars(Park(t))
                       /\ WF_vars(Resume(t))
                       /\ SF_vars(Reacquire(t))
                       /\ WF_vars(Leave(t) \/ \E s \in Shape, n \in 1..MaxGroup : Ask(t, s, n))
    /\ WF_vars(\E d \in dispatches : JobReturns(d) \/ JobFails(d))

FairSpec == Spec /\ Fairness

-----------------------------------------------------------------------------
\* Properties

TypeOK ==
    /\ unstarted \in Nat
    /\ participants \in Nat
    /\ parked \in Seq(Group)
    /\ dispatches \subseteq Wave
    /\ pc \in [Task -> {"created", "working", "yielding", "awaiting",
                        "resuming", "done"}]
    /\ fut \in [Task -> {"none", "pending", "result", "error", "cancelled"}]
    /\ group \in [Task -> Group]
    /\ doomed \subseteq Task
    /\ holding \subseteq Worker

\* Between two steps the pool is never quiescent: whatever made the last
\* participant parked or gone also took the wave.  Starting a worker and
\* withdrawing a group do not call _maybe_dispatch, so this needs that
\* neither can complete the quiescence condition.
NoLostWave == ~Quiescent(unstarted, participants, parked)

\* A task whose call returned results got the answers to exactly its own
\* requests, in its own order, whatever else was merged into the job and
\* whichever neighbours had died.
AlignedResults ==
    \A t \in Task : fut[t] = "result" => got[t] = Requests(group[t])

\* A taken wave holds the group of every registered participant, answered
\* but not yet resumed siblings included in none, and no declared worker
\* is still to enter.
WaveIsWhole ==
    [][\A d \in dispatches' \ dispatches :
          d.done = {} /\ (\E i \in DOMAIN d.groups : d.groups[i].task \in Worker) =>
          /\ unstarted' = 0
          /\ \A w \in Registered(pc') : \E i \in DOMAIN d.groups : d.groups[i] = group'[w]
      ]_vars

\* A settled future keeps its outcome until the task makes another call: no
\* late answer overwrites a cancellation, no failure overwrites an answer.
SettledOnce ==
    [][\A t \in Task : fut[t] \in {"result", "error", "cancelled"}
                       /\ group'[t] = group[t] => fut'[t] = fut[t]]_vars

\* Callers whose group is parked, and callers whose group is in a wave that
\* has not answered it.
Waiting == {parked[i].task : i \in DOMAIN parked}
Flying == {t \in Task : \E d \in dispatches : \E i \in DOMAIN d.groups :
              d.groups[i].task = t /\ d.groups[i].key \notin d.done}

\* The pool implements the barrier: comparing a list's length with a counter
\* decides exactly "every member waits" (registered participants only).
Barrier == INSTANCE PoolBarrier WITH
    Member <- Worker, Announced <- Expected, missing <- unstarted,
    joined <- Registered(pc), waiting <- Waiting, flying <- Flying
ImplementsBarrier == Barrier!BSpec

\* Every worker ends: every caller parked in the pool is resumed, also when a job fails or
\* a sibling is cancelled, and no worker waits for a slot that a parked one keeps.
AllEnd == <>[](\A t \in Task : pc[t] = "done")

\* For TLC: workers are interchangeable, and so are shapes: no definition orders them.
Interchangeable == Permutations(Worker) \cup Permutations(Shape)
=============================================================================
