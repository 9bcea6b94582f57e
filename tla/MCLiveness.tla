------------------------------- MODULE MCLiveness -------------------------------
(* Every call comes back: a batched call under the budgets of its run, and,    *)
(* beside it, the workers of a pool with fewer store slots than workers.  One  *)
(* of the two runs, fairly; the other stays in its initial state.              *)
EXTENDS BatchJob

CONSTANTS Worker, Shape

VARIABLES part, unstarted, participants, parked, dispatches, at, fut, group, got,
          doomed, holding

P == INSTANCE CompletionPool WITH
        pc <- at, AdHoc <- {}, Expected <- Cardinality(Worker), MaxGroup <- 1, MaxCalls <- 2,
        Slots <- 1, Cancellable <- {CHOOSE w \in Worker : TRUE}, Losable <- {}

pool == <<unstarted, participants, parked, dispatches, at, fut, group, got, doomed, holding>>
all == <<part, vars, pool>>

LiveInit ==
    /\ part \in {"batch", "pool"} /\ Init /\ P!Init
    /\ part = "pool" => ~refuses
    /\ part = "batch" => \A w \in Worker : group[w].key = CHOOSE s \in Shape : TRUE
LiveNext ==
    \/ part = "batch" /\ Next /\ UNCHANGED <<part, pool>>
    \/ part = "pool" /\ P!Next /\ UNCHANGED <<part, vars>>

\* The fairness of either, while it runs (BatchJob!FairSpec, CompletionPool!Fairness).
Asks(t) == \E s \in Shape, n \in 1..1 : P!Ask(t, s, n)
Comes == \E d \in dispatches : P!JobReturns(d) \/ P!JobFails(d)
LiveSpec ==
    /\ LiveInit /\ [][LiveNext]_all
    /\ \A j \in Job : WF_all(part = "batch" /\ Step(j) /\ UNCHANGED <<part, pool>>)
    /\ \A w \in Worker :
         /\ SF_all(part = "pool" /\ P!Start(w) /\ UNCHANGED <<part, vars>>)
         /\ WF_all(part = "pool" /\ P!Park(w) /\ UNCHANGED <<part, vars>>)
         /\ WF_all(part = "pool" /\ P!Resume(w) /\ UNCHANGED <<part, vars>>)
         /\ SF_all(part = "pool" /\ P!Reacquire(w) /\ UNCHANGED <<part, vars>>)
         /\ WF_all(part = "pool" /\ (P!Leave(w) \/ Asks(w)) /\ UNCHANGED <<part, vars>>)
    /\ WF_all(part = "pool" /\ Comes /\ UNCHANGED <<part, vars>>)

-----------------------------------------------------------------------------
\* Every call of complete_many comes back, whatever the batch does (BatchJob).
EveryCallEnds == part = "batch" => EveryJobEnds
\* Every worker of the pool ends (CompletionPool).
AllEnd == part = "pool" => P!AllEnd
=================================================================================
