-------------------------------- MODULE BatchJob --------------------------------
(***************************************************************************)
(* A set of completion requests served through the Message Batches API:    *)
(* the registry's choice between batch and sequential calls                *)
(* (src/particles/llm/registry.py), the Anthropic adapter's chunks,        *)
(* polling, cancellation and re-runs (llm/adapters/anthropic.py), and the  *)
(* two run-level budgets they consult (llm/batch_budget.py,                *)
(* llm/spend_budget.py).  Several sets run at once and share the budgets   *)
(* and the memo of models that refuse a temperature.                       *)
(*                                                                         *)
(* Every action is one await, or the code between two awaits that changes  *)
(* only its own job.  Time is the job's own waiting, in units of which a   *)
(* poll takes PollInterval.  A request is named by its position; an answer *)
(* carries the position of the request it answers.                         *)
(***************************************************************************)
EXTENDS Naturals, Sequences, FiniteSets, SequencesExt

CONSTANTS
    Job,          \* concurrent calls of complete_many
    N,            \* requests in one call
    ChunkSize,    \* llm.batch.max_requests_per_batch
    MaxWait,      \* llm.batch.max_wait_seconds
    Grace,        \* llm.batch.cancel_grace_seconds
    PollInterval, \* llm.batch.poll_interval_seconds
    RerunMax,     \* cancel_rerun_max_output_tokens, in requests
    WaitBudget,   \* consolidation.batch_wait.budget_seconds
    Floor,        \* consolidation.batch_wait.min_remaining_seconds
    SpendLimit,   \* the run's US$ budget; one batched reply costs 1
    MayRaise      \* whether the SDK may raise in submit, poll or collect

ASSUME BoundsAssumption ==
    /\ {N, ChunkSize, PollInterval} \subseteq Nat \ {0}
    /\ {MaxWait, Grace, RerunMax, WaitBudget, Floor, SpendLimit} \subseteq Nat
    /\ MayRaise \in BOOLEAN
ASSUME JobsAssumption == IsFiniteSet(Job) /\ Job # {}

VARIABLES
    pc,       \* where each job is
    results,  \* the adapter's results and failures, aligned
    frames,   \* the _run_batch calls of a job, the re-run's on top
    spentSeconds, \* BatchWaitBudget.spent_seconds
    waits,    \* jobs with an open wait (BatchWaitBudget._waits)
    noTemp,   \* the model is in _TEMPERATURE_UNSUPPORTED
    refuses,  \* the model refuses a temperature (fixed)
    spentUsd, \* recorded usage at list price
    declined, \* requests of chunks the spend budget declined
    billed,   \* history: batched and sequential replies billed per request
    answered, \* history: requests a batch answered with text
    waited,   \* history: seconds each job waited on batches, charged or not
    fellBack  \* jobs whose batch raised and that started over sequentially

budgets == <<spentSeconds, waits, spentUsd>>
memo == <<noTemp, refuses>>
history == <<declined, billed, answered, waited, fellBack>>
vars == <<pc, results, frames, budgets, memo, history>>

Request == 1..N

\* A reply: the request whose text it is (0 for None), and why there is none.
Unavailable == [text |-> 0, failure |-> "UNAVAILABLE"]

\* What the provider does with one request.  A batch entry that expired,
\* errored or never came back is "dead".
SeqOutcome == {"text", "EMPTY", "REFUSED", "dead"}
BatchOutcome(f) ==
    {"dead"} \cup (IF f.cancelled THEN {"canceled"} ELSE {})
             \cup (IF refuses /\ f.temp THEN {"temperature"}
                   ELSE {"text", "EMPTY", "REFUSED"})

\* _collect and run_sequential: text, or the failure kind that fits.
ReplyOf(r, outcome) ==
    CASE outcome = "text" -> [text |-> r, failure |-> "none"]
      [] outcome \in {"EMPTY", "REFUSED"} -> [text |-> 0, failure |-> outcome]
      [] OTHER -> Unavailable

\* Replies the provider bills: it produced one, whatever it holds.
Billable == {"text", "EMPTY", "REFUSED"}

-----------------------------------------------------------------------------
\* The budgets

Remaining == IF spentSeconds < WaitBudget THEN WaitBudget - spentSeconds ELSE 0
CanSubmit == Remaining >= Floor

\* wait_cap: the wait of the next batch.
WaitCap(cap) == IF Remaining < cap THEN Remaining ELSE cap

\* allows_chunk by decide_spend, the estimate being one unit per request.
AllowsChunk(n) == spentUsd < SpendLimit /\ spentUsd + n <= SpendLimit

\* Usage is recorded for the replies at the positions `hit` of `reqs`; a
\* sequential one costs twice as much as a batched one.
Bill(j, reqs, hit, route) ==
    /\ billed' = [billed EXCEPT ![j][route] =
                     [r \in Request |-> @[r] + IF r \in {reqs[i] : i \in hit} THEN 1 ELSE 0]]
    /\ spentUsd' = spentUsd + Cardinality(hit) * IF route = "batch" THEN 1 ELSE 2

-----------------------------------------------------------------------------
\* Frames: one _run_batch call each

\* A call for `reqs`, with the positions they fill in the frame below.
Frame(reqs, fills, temp, cap) ==
    [reqs |-> reqs, fills |-> fills, temp |-> temp, cap |-> cap, elapsed |-> 0,
     cancelled |-> FALSE, grace |-> Grace,
     texts |-> <<>>, canceledIds |-> {}, temperatureIds |-> {}]

Top(j) == frames[j][Len(frames[j])]
SetTop(j, f) == frames' = [frames EXCEPT ![j][Len(frames[j])] = f]
Goto(j, label) == pc' = [pc EXCEPT ![j] = label]

\* Replies replace the entries of `texts` at the listed positions, in order
\* (the zip loops of _rerun_without_temperature and _settle_cancelled).
Fill(texts, positions, replies) ==
    [i \in DOMAIN texts |->
        IF \E k \in DOMAIN positions : positions[k] = i
        THEN replies[CHOOSE k \in DOMAIN positions : positions[k] = i]
        ELSE texts[i]]

\* The indices of a set in ascending order: [i for i in range(n) if ...].
Ascending(S) == CHOOSE s \in [1..Cardinality(S) -> S] : \A i, k \in DOMAIN s : i < k => s[i] < s[k]

At(seq, positions) == [k \in DOMAIN positions |-> seq[positions[k]]]

\* Mutant: results are taken in the order they arrive.
LookupByArrival(order, i) == i

\* The by_id lookup: index i gets the entry whose custom_id is i, wherever the
\* result stream delivered it.
Lookup(order, i) == CHOOSE k \in DOMAIN order : order[k] = i

Orders(n) == {p \in [1..n -> 1..n] : \A i, k \in 1..n : p[i] = p[k] => i = k}

-----------------------------------------------------------------------------
Init ==
    /\ pc = [j \in Job |-> "asked"]
    /\ results = [j \in Job |-> <<>>]
    /\ frames = [j \in Job |-> <<>>]
    /\ spentSeconds = 0 /\ spentUsd = 0 /\ waited = [j \in Job |-> 0]
    /\ waits = {} /\ fellBack = {}
    /\ noTemp = FALSE /\ refuses \in BOOLEAN
    /\ declined = [j \in Job |-> {}]
    /\ answered = [j \in Job |-> {}]
    /\ billed = [j \in Job |-> [batch |-> [r \in Request |-> 0],
                               sequential |-> [r \in Request |-> 0]]]

\* _complete_many_scoped, when the run's wait budget is spent: the batchable
\* set goes down the sequential path.
ServeSequentially(j) ==
    /\ pc[j] = "asked" /\ ~CanSubmit
    /\ Goto(j, "sequential")
    /\ UNCHANGED <<results, frames, budgets, memo, history>>

\* _run_batch up to the submission, on top of the calls `below`: sequential
\* when the budget is spent, else with a wait capped at the balance left and a
\* temperature unless the memo bars it.
EnterBatch(j, below, f) ==
    IF CanSubmit
    THEN /\ frames' = [frames EXCEPT ![j] =
                Append(below, [f EXCEPT !.cap = WaitCap(@), !.temp = @ /\ ~noTemp])]
         /\ Goto(j, "submitting")
    ELSE /\ frames' = [frames EXCEPT ![j] = Append(below, f)]
         /\ Goto(j, "chunkSequential")

\* requests[start : start + max_requests_per_batch]
ChunkEnd(start) == IF start + ChunkSize - 1 < N THEN start + ChunkSize - 1 ELSE N

\* The chunk that starts after the results so far.
Chunk(j) ==
    LET start == Len(results[j]) + 1
    IN  [i \in 1..(ChunkEnd(start) - start + 1) |-> start + i - 1]

Decline(j, chunk) ==
    /\ results' = [results EXCEPT ![j] = @ \o [i \in DOMAIN chunk |-> Unavailable]]
    /\ declined' = [declined EXCEPT ![j] = @ \cup ToSet(chunk)]

\* complete_many's loop: decline the next chunk, run it, or return.
NextChunk(j) ==
    LET chunk == Chunk(j) IN
    /\ pc[j] = "chunking" \/ (pc[j] = "asked" /\ CanSubmit)
    /\ \/ /\ chunk = <<>>
          /\ Goto(j, "done")
          /\ UNCHANGED <<results, frames, declined>>
       \/ /\ chunk # <<>> /\ ~AllowsChunk(Len(chunk))
          /\ Decline(j, chunk)
          /\ Goto(j, "chunking")
          /\ UNCHANGED frames
       \/ /\ chunk # <<>> /\ AllowsChunk(Len(chunk))
          /\ EnterBatch(j, <<>>, Frame(chunk, <<>>, TRUE, MaxWait))
          /\ UNCHANGED <<results, declined>>
    /\ UNCHANGED <<budgets, memo, billed, answered, waited, fellBack>>

\* The batch is queued; its wait opens (begin_wait).
Submit(j) ==
    /\ pc[j] = "submitting"
    /\ waits' = waits \cup {j}
    /\ Goto(j, "polling")
    /\ UNCHANGED <<results, frames, spentSeconds, spentUsd, memo, history>>

\* Mutant: a batch that was cancelled is not charged.
CloseWaitUnlessCancelled(j, f) ==
    /\ waits' = waits \ {j}
    /\ spentSeconds' = spentSeconds + IF f.cancelled THEN 0 ELSE f.elapsed

\* The wait is over: end_wait closes it and charge books it.
CloseWait(j, f) ==
    /\ waits' = waits \ {j}
    /\ spentSeconds' = spentSeconds + f.elapsed

\* Mutant: the deadline is computed again after every poll.
PollMovingDeadline(j) ==
    LET f == Top(j) IN
    /\ pc[j] = "polling"
    /\ \/ CloseWait(j, f) /\ Goto(j, "collecting") /\ UNCHANGED frames
       \/ /\ SetTop(j, [f EXCEPT !.elapsed = IF @ < f.cap THEN @ + PollInterval ELSE 0])
          /\ UNCHANGED <<pc, waits, spentSeconds>>
    /\ UNCHANGED <<results, spentUsd, memo, history>>

\* _await_batch: one status check; pending past the deadline means cancel.
Poll(j) ==
    LET f == Top(j) IN
    /\ pc[j] = "polling"
    /\ \/ CloseWait(j, f) /\ Goto(j, "collecting") /\ UNCHANGED <<frames, waited>>
       \/ /\ f.elapsed < f.cap
          /\ SetTop(j, [f EXCEPT !.elapsed = @ + PollInterval])
          /\ waited' = [waited EXCEPT ![j] = @ + PollInterval]
          /\ UNCHANGED <<pc, waits, spentSeconds>>
       \/ /\ f.elapsed >= f.cap
          /\ SetTop(j, [f EXCEPT !.cancelled = TRUE])
          /\ Goto(j, "canceling")
          /\ UNCHANGED <<waits, spentSeconds, waited>>
    /\ UNCHANGED <<results, spentUsd, memo, declined, billed, answered, fellBack>>

\* _await_cancelled: within the grace sleep and check again; out of grace the
\* batch is given up, its requests unavailable.
PollCancelled(j) ==
    LET f == Top(j)
        nap == IF f.grace < PollInterval THEN f.grace ELSE PollInterval
        g == [f EXCEPT !.grace = @ - nap, !.elapsed = @ + nap]
    IN  /\ pc[j] = "canceling"
        /\ \/ /\ f.grace > 0
              /\ waited' = [waited EXCEPT ![j] = @ + nap]
              /\ SetTop(j, g)
              /\ \/ UNCHANGED <<pc, waits, spentSeconds>>
                 \/ CloseWait(j, g) /\ Goto(j, "collecting")
           \/ /\ f.grace = 0
              /\ CloseWait(j, f)
              /\ SetTop(j, [f EXCEPT !.texts = [i \in DOMAIN f.reqs |-> Unavailable]])
              /\ Goto(j, "returning")
              /\ UNCHANGED waited
        /\ UNCHANGED <<results, spentUsd, memo, declined, billed, answered, fellBack>>

\* _collect: the entries arrive in any order and go to their custom_id.
Collect(j) ==
    LET f == Top(j) IN
    /\ pc[j] = "collecting"
    /\ \E outcome \in [DOMAIN f.reqs -> BatchOutcome(f)], order \in Orders(Len(f.reqs)) :
          LET entry(i) == order[Lookup(order, i)]
              idsOf(o) == {i \in DOMAIN f.reqs : outcome[i] = o}
          IN  /\ SetTop(j, [f EXCEPT
                    !.texts = [i \in DOMAIN f.reqs |-> ReplyOf(f.reqs[entry(i)], outcome[entry(i)])],
                    !.canceledIds = idsOf("canceled"),
                    !.temperatureIds = idsOf("temperature")])
              /\ Bill(j, f.reqs, {i \in DOMAIN f.reqs : outcome[i] \in Billable}, "batch")
              /\ answered' = [answered EXCEPT ![j] = @ \cup {f.reqs[i] : i \in idsOf("text")}]
    /\ Goto(j, "settling")
    /\ UNCHANGED <<results, spentSeconds, waits, memo, declined, waited, fellBack>>

\* The re-run of the requests at `again`, on top of a frame that is done with it.
Rerun(j, again, temp) ==
    LET f == Top(j) IN
    /\ pc[j] = "settling"
    /\ f.temperatureIds # {}
    /\ EnterBatch(j, [frames[j] EXCEPT ![Len(frames[j])].temperatureIds = {}],
                  Frame(At(f.reqs, again), again, temp, f.cap))
    /\ UNCHANGED <<results, budgets, refuses, history>>

\* Mutant: every request of the batch goes out again, answered or not.
RerunEverything(j) == Rerun(j, Ascending(DOMAIN Top(j).reqs), FALSE) /\ noTemp' = TRUE

\* _rerun_without_temperature: learn, and send the refused requests again as a
\* batch of their own.
RerunWithoutTemperature(j) ==
    Rerun(j, Ascending(Top(j).temperatureIds), FALSE) /\ noTemp' = TRUE

\* Where _run_batch's return and _settle_cancelled lead: a cancelled batch's
\* small remainder runs sequentially, otherwise the replies stand.
Settle(j) ==
    LET f == Top(j)
        small == f.canceledIds # {} /\ Cardinality(f.canceledIds) <= RerunMax
    IN  /\ pc[j] = "settling" /\ f.temperatureIds = {}
        /\ Goto(j, IF f.cancelled /\ small THEN "remainder" ELSE "returning")
        /\ UNCHANGED <<results, frames, budgets, memo, history>>

\* What run_sequential does to the shared state when it gets replies to the
\* positions `hit` of `reqs`: it bills them, and a call that carries a
\* temperature the model refuses learns it before it retries without.
SequentialCalls(j, reqs, hit, temp) ==
    /\ Bill(j, reqs, hit, "sequential")
    /\ noTemp' \in IF refuses /\ temp
                   THEN {TRUE} \cup (IF hit = {} THEN {noTemp} ELSE {})
                   ELSE {noTemp}

\* run_sequential to its end.
Sequentially(j, reqs, temp, outcome) ==
    SequentialCalls(j, reqs, {i \in DOMAIN reqs : outcome[i] \in Billable}, temp)

\* run_sequential broken off by an account-level failure of one of its calls.
AccountFails(j, reqs, temp) ==
    \E hit \in SUBSET (1..(Len(reqs) - 1)) : SequentialCalls(j, reqs, hit, temp)

\* Inside a frame the caller's temperature is gone only in a re-run.
AskedTemp(j) == Len(frames[j]) = 1

\* run_sequential of the cancelled batch's remainder, and the disclosure.
RunRemainder(j) ==
    LET f == Top(j)
        again == Ascending(f.canceledIds)
        reqs == At(f.reqs, again)
    IN  /\ pc[j] = "remainder"
        /\ \E outcome \in [DOMAIN again -> SeqOutcome] :
              LET replies == [k \in DOMAIN again |-> ReplyOf(reqs[k], outcome[k])] IN
              /\ SetTop(j, [f EXCEPT !.texts = Fill(@, again, replies)])
              /\ Sequentially(j, reqs, AskedTemp(j), outcome)
        /\ Goto(j, "returning")
        /\ UNCHANGED <<results, spentSeconds, waits, refuses, declined, answered, waited,
                       fellBack>>

\* run_sequential of a chunk the wait budget no longer covers.
RunChunkSequentially(j) ==
    LET f == Top(j) IN
    /\ pc[j] = "chunkSequential"
    /\ \E outcome \in [DOMAIN f.reqs -> SeqOutcome] :
          /\ SetTop(j, [f EXCEPT !.texts =
                            [i \in DOMAIN f.reqs |-> ReplyOf(f.reqs[i], outcome[i])]])
          /\ Sequentially(j, f.reqs, AskedTemp(j), outcome)
    /\ Goto(j, "returning")
    /\ UNCHANGED <<results, spentSeconds, waits, refuses, declined, answered, waited,
                   fellBack>>

\* _run_batch returns: a re-run fills its caller's list, a chunk extends the
\* results.
Return(j) ==
    LET f == Top(j)
        below == Front(frames[j])
    IN  /\ pc[j] = "returning"
        /\ \/ /\ below = <<>>
              /\ results' = [results EXCEPT ![j] = @ \o f.texts]
              /\ frames' = [frames EXCEPT ![j] = <<>>]
              /\ Goto(j, "chunking")
           \/ /\ below # <<>>
              /\ frames' = [frames EXCEPT ![j] =
                      [below EXCEPT ![Len(below)].texts = Fill(@, f.fills, f.texts)]]
              /\ Goto(j, "settling")
              /\ UNCHANGED results
        /\ UNCHANGED <<budgets, memo, history>>

\* _complete_many_scoped's except: whatever the adapter raised, the whole set
\* starts over sequentially and what it had is dropped.
FallBack(j) ==
    /\ results' = [results EXCEPT ![j] = <<>>]
    /\ frames' = [frames EXCEPT ![j] = <<>>]
    /\ fellBack' = fellBack \cup {j}
    /\ Goto(j, "sequential")

\* The SDK raises while submitting, polling or reading; a result stream that
\* breaks has billed the entries it delivered.
SdkRaises(j) ==
    LET reqs == Top(j).reqs IN
    /\ MayRaise
    /\ pc[j] \in {"submitting", "polling", "canceling", "collecting"}
    /\ \E hit \in SUBSET DOMAIN reqs :
          /\ hit # {} => pc[j] = "collecting"
          /\ Bill(j, reqs, hit, "batch")
    /\ FallBack(j)
    /\ UNCHANGED <<spentSeconds, memo, declined, answered, waited>>

\* An exception closes the wait (the finally) and charges nothing.
BatchRaises(j) == SdkRaises(j) /\ waits' = waits \ {j}

\* An account-level failure ends a sequential run inside the adapter; it is an
\* exception like any other to the registry.
SequentialRaises(j) ==
    LET f == Top(j)
        reqs == IF pc[j] = "remainder" THEN At(f.reqs, Ascending(f.canceledIds)) ELSE f.reqs
    IN  /\ MayRaise
        /\ pc[j] \in {"remainder", "chunkSequential"}
        /\ AccountFails(j, reqs, AskedTemp(j))
        /\ FallBack(j)
        /\ UNCHANGED <<spentSeconds, waits, refuses, declined, answered, waited>>

\* The registry's own sequential run, after a fallback or for lack of budget;
\* only an account-level failure gets past it.
RunSequentially(j) ==
    LET reqs == [i \in Request |-> i] IN
    /\ pc[j] = "sequential"
    /\ \/ /\ \E outcome \in [Request -> SeqOutcome] :
                /\ results' = [results EXCEPT ![j] = [i \in Request |-> ReplyOf(i, outcome[i])]]
                /\ Sequentially(j, reqs, TRUE, outcome)
          /\ Goto(j, "done")
       \/ /\ AccountFails(j, reqs, TRUE)
          /\ Goto(j, "raised")
          /\ UNCHANGED results
    /\ UNCHANGED <<frames, spentSeconds, waits, refuses, declined, answered, waited,
                   fellBack>>

Finished == /\ \A j \in Job : pc[j] \in {"done", "raised"}
            /\ UNCHANGED vars

Step(j) ==
    \/ ServeSequentially(j) \/ NextChunk(j) \/ Submit(j)
    \/ Poll(j) \/ PollCancelled(j) \/ Collect(j)
    \/ RerunWithoutTemperature(j) \/ Settle(j) \/ RunRemainder(j)
    \/ RunChunkSequentially(j) \/ Return(j)
    \/ BatchRaises(j) \/ SequentialRaises(j) \/ RunSequentially(j)

Next == (\E j \in Job : Step(j)) \/ Finished

Spec == Init /\ [][Next]_vars

\* Every await of a job returns or raises: the SDK's own timeouts end a call.
FairSpec == Spec /\ \A j \in Job : WF_vars(Step(j))

-----------------------------------------------------------------------------
\* Properties

\* What a finished job returns is aligned: one entry per request, text only of
\* the request at that position, and a failure kind exactly where text is
\* missing, through chunks, re-runs, cancellations and the fallback.
Aligned ==
    \A j \in Job : pc[j] = "done" =>
        /\ Len(results[j]) = N
        /\ \A i \in Request : /\ results[j][i].text \in {0, i}
                              /\ results[j][i].text = 0 <=> results[j][i].failure # "none"

\* No request is paid for twice: only a set whose batch raised starts over, and
\* even then a request is billed at most once in a batch and twice outside.  A
\* job re-runs for a refused temperature at most once per batch, and the re-run
\* never meets the refusal again.
BilledOnce ==
    \A j \in Job :
        /\ Len(frames[j]) <= 2
        /\ \A r \in Request :
              LET b == billed[j].batch[r]
                  s == billed[j].sequential[r]
              IN  IF j \in fellBack THEN b <= 1 /\ s <= 2 ELSE b + s <= 1

\* Text a batch produced and billed reaches the caller, also when the batch was
\* cancelled, unless the whole set started over.
PaidTextKept ==
    \A j \in Job : pc[j] = "done" /\ j \notin fellBack =>
        \A r \in answered[j] : results[j][r].text = r

\* Every caller reads the text that was paid for, at the place of its request.
PaidTextInPlace == Aligned /\ PaidTextKept

\* A wait is open exactly while its batch is polled: an exception leaves none
\* behind, so live_remaining never counts a dead one.
WaitsClosed == waits = {j \in Job : pc[j] \in {"polling", "canceling"}}

\* The sum of the numbers f[j]: one unit each, counted.
Total(f) == Cardinality(UNION {{j} \X (1..f[j]) : j \in DOMAIN f})

\* One call of complete_many waits for the run's budget at most, give or take
\* the grace of its last batch and a poll, however many calls share the budget.
JobWaitIsBounded == \A j \in Job : waited[j] <= WaitBudget + Grace + PollInterval - 1

\* Every second waited is charged once: the balance and the waits still open
\* account for all of it unless an exception broke a wait off.
EverySecondCharged ==
    fellBack = {} =>
        spentSeconds + Total([j \in waits |-> Top(j).elapsed]) = Total(waited)

\* While no reply is paid at the sequential price, the run's spend passes its
\* budget by at most the chunks the other concurrent calls had in flight.
SpendIsBounded ==
    (\A j \in Job, r \in Request : billed[j].sequential[r] = 0) =>
        spentUsd <= SpendLimit + (Cardinality(Job) - 1) * ChunkSize

\* The run's two budgets hold over all its concurrent calls: no call waits past
\* the balance, no second waited is charged twice or not at all, and the spend
\* passes its limit by what was in flight at most.
BudgetsHold == WaitsClosed /\ JobWaitIsBounded /\ EverySecondCharged /\ SpendIsBounded

\* Every call of complete_many comes back, whatever the batch does.
EveryJobEnds == \A j \in Job : <>(pc[j] \in {"done", "raised"})

\* Jobs are interchangeable: Init and every action treat them alike (symmetry for TLC).
Interchangeable == Permutations(Job)
=================================================================================
