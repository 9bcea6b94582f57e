--------------------------------- MODULE Breaker ---------------------------------
(***************************************************************************)
(* The circuit breaker every semantic LLM call goes through                *)
(* (src/particles/llm/breaker.py): one deadline, one failure count and one *)
(* trip count shared by the concurrent operations of a process, which read *)
(* the counts before and after to say what they had to skip.               *)
(*                                                                         *)
(* Time is a countdown: `open` is how long _tripped_until is still ahead.  *)
(* A call takes two steps, the provider's answer and the caller's          *)
(* resumption with it, so an answer may be old when it is acted on.  A     *)
(* call of one prompt (_llm_call) is a set of one (_llm_call_many): a      *)
(* single failure is a set whose every request failed.                     *)
(***************************************************************************)
EXTENDS Naturals, FiniteSets

CONSTANTS
    Operation,  \* concurrent operations, each a sequence of calls
    MaxCalls,   \* bound: calls of one operation
    MaxSet,     \* bound: requests in one call
    Backoff     \* llm.unavailable_backoff_seconds

ASSUME BreakerAssumption == {MaxCalls, MaxSet, Backoff} \subseteq Nat \ {0}

VARIABLES
    open,         \* _tripped_until, as the time left to it
    failureCount, \* _failure_count
    tripCount,    \* _trip_count
    account,      \* the provider's account: every call fails while it is "dead"
    call,         \* what each operation is doing
    seen,         \* history: what an operation observed when it began
    missed,       \* history: requests of an operation answered None or unusably
    owed          \* history: time left of the backoff the last trip announced

counts == <<failureCount, tripCount>>
history == <<seen, missed, owed>>
vars == <<open, counts, account, call, history>>

\* What the provider answers a set of n: how many requests fail, that the
\* account is dead, or that the egress policy refused to send it.
Answer(n) == [kind : {"egress"}, failed : {0}] \cup
             IF account = "dead" THEN [kind : {"account"}, failed : {n}]
                                 ELSE [kind : {"replies"}, failed : 0..n]

NoAnswer == [kind |-> "none", failed |-> 0]

\* No call in flight: how many are left, and the texts of the last one.
Resting(at, left, texts) ==
    [at |-> at, n |-> 0, left |-> left, texts |-> texts, answer |-> NoAnswer]

\* A call of n requests in flight.
Flying(at, n, left, answer) ==
    [at |-> at, n |-> n, left |-> left, texts |-> 0, answer |-> answer]

Idle(c) == call[c].at = "idle"

Init ==
    /\ open = 0 /\ failureCount = 0 /\ tripCount = 0
    /\ account \in {"ok", "dead"}
    /\ call = [c \in Operation |-> Resting("new", MaxCalls, 0)]
    /\ seen = [c \in Operation |-> [open |-> FALSE, failures |-> 0, trips |-> 0]]
    /\ missed = [c \in Operation |-> [counted |-> 0, skipped |-> FALSE]]
    /\ owed = 0

\* An operation begins: it reads llm_circuit_open, llm_failure_count and
\* llm_trip_count, to compare them when it ends.
Begin(c) ==
    /\ call[c].at = "new"
    /\ call' = [call EXCEPT ![c].at = "idle"]
    /\ seen' = [seen EXCEPT ![c] = [open |-> open > 0, failures |-> failureCount, trips |-> tripCount]]
    /\ UNCHANGED <<open, counts, account, missed, owed>>

\* _llm_call_many with the breaker open: None for the whole set.
ShortCircuit(c) ==
    /\ Idle(c) /\ call[c].left > 0
    /\ open > 0
    /\ call' = [call EXCEPT ![c] = Resting("idle", @.left - 1, 0)]
    /\ missed' = [missed EXCEPT ![c].skipped = TRUE]
    /\ UNCHANGED <<open, counts, account, seen, owed>>

\* _llm_call_many with the breaker closed: the set goes out.
Send(c) ==
    /\ Idle(c) /\ call[c].left > 0
    /\ open = 0
    /\ \E n \in 1..MaxSet :
          call' = [call EXCEPT ![c] = Flying("sent", n, @.left - 1, NoAnswer)]
    /\ UNCHANGED <<open, counts, account, history>>

\* The provider, or the policy in front of it, decides the call.
Serve(c) ==
    /\ call[c].at = "sent"
    /\ \E a \in Answer(call[c].n) :
          call' = [call EXCEPT ![c] = Flying("served", @.n, @.left, a)]
    /\ UNCHANGED <<open, counts, account, history>>

\* Mutant: a dead account counts as one failed call.
FailedOnce(c) == IF call[c].answer.kind = "account" THEN 1 ELSE call[c].answer.failed

\* What a call adds to the failure count: every request it did not answer.
Failed(c) == call[c].answer.failed

\* Mutant: the trip opens the breaker and is not counted.
TripUncounted == open' = Backoff /\ owed' = Backoff /\ UNCHANGED tripCount

\* _trip: the deadline is set anew and the trip counted.
Trip == open' = Backoff /\ owed' = Backoff /\ tripCount' = tripCount + 1

\* The call returns: an account-level failure trips, a set with an answered
\* request clears the breaker, failures are counted, a refusal to send is not.
Return(c) ==
    LET answer == call[c].answer IN
    /\ call[c].at = "served"
    /\ \/ answer.kind = "account" /\ Trip
       \/ /\ answer.kind # "account"
          /\ open' = IF answer.kind = "replies" /\ answer.failed < call[c].n THEN 0 ELSE open
          /\ UNCHANGED <<tripCount, owed>>
    /\ failureCount' = failureCount + Failed(c)
    /\ missed' = [missed EXCEPT ![c].counted = @ + answer.failed]
    /\ call' = [call EXCEPT ![c] =
          Resting("idle", @.left, IF answer.kind = "replies" THEN @.n - answer.failed ELSE 0)]
    /\ UNCHANGED <<account, seen>>

\* record_unusable_reply: a reply that arrived carries no verdict.
RecordUnusableReply(c) ==
    /\ Idle(c) /\ call[c].texts > 0
    /\ failureCount' = failureCount + 1
    /\ missed' = [missed EXCEPT ![c].counted = @ + 1]
    /\ call' = [call EXCEPT ![c].texts = @ - 1]
    /\ UNCHANGED <<open, tripCount, account, seen, owed>>

\* The clock of time.monotonic.
Tick ==
    /\ owed > 0
    /\ owed' = owed - 1
    /\ open' = IF open > 0 THEN open - 1 ELSE 0
    /\ UNCHANGED <<counts, account, call, seen, missed>>

\* Credit runs out, a key is revoked, either is fixed.
AccountChanges ==
    /\ account' \in {"ok", "dead"} \ {account}
    /\ UNCHANGED <<open, counts, call, history>>

Next ==
    \/ \E c \in Operation : \/ Begin(c) \/ ShortCircuit(c) \/ Send(c) \/ Serve(c)
                            \/ Return(c) \/ RecordUnusableReply(c)
    \/ Tick \/ AccountChanges

Spec == Init /\ [][Next]_vars

-----------------------------------------------------------------------------
TypeOK ==
    /\ owed \in 0..Backoff /\ open \in 0..owed
    /\ {failureCount, tripCount} \subseteq Nat
    /\ account \in {"ok", "dead"}
    /\ call \in [Operation -> [at : {"new", "idle", "sent", "served"}, n : 0..MaxSet,
                               left : 0..MaxCalls, texts : 0..MaxSet,
                               answer : [kind : {"none", "egress", "account", "replies"},
                                         failed : 0..MaxSet]]]
    /\ seen \in [Operation -> [open : BOOLEAN, failures : Nat, trips : Nat]]
    /\ missed \in [Operation -> [counted : Nat, skipped : BOOLEAN]]

\* An operation that skipped a probe can always tell: it saw the breaker open
\* when it began, or the trip count has moved since, whatever other operations
\* did to the breaker in between.
NoSilentSkip ==
    \A c \in Operation : missed[c].skipped => seen[c].open \/ tripCount > seen[c].trips

\* The difference of the failure count over an operation covers every one of
\* its own unanswered or unusable requests: operations running beside it can
\* add to the difference and never take from it.
OwnFailuresCounted ==
    \A c \in Operation :
        call[c].at # "new" => failureCount - seen[c].failures >= missed[c].counted

=================================================================================
