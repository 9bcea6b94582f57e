--------------------------------- MODULE LlmCall ---------------------------------
(***************************************************************************)
(* The extraction calls of one pass and the stack each goes through.       *)
(* _call_llm and its pooled twin _pooled_extract                           *)
(* (src/particles/extraction/general.py) settle a call from a first reply  *)
(* and, when that reply was cut, empty or unreadable, one more at a larger *)
(* budget; complete_extraction waits out a rate limit (llm/errors.py);     *)
(* get_provider (llm/registry.py) wraps the adapter in the replay cache    *)
(* (llm/replay.py) and that in the call meter (llm/call_meter.py); every   *)
(* reply is counted for the run's usage (llm/usage.py).                    *)
(*                                                                         *)
(* Two passes run over the same calls: the first records, the second       *)
(* replays.  A reply has a shape and a number of claims.  Tokens stand for *)
(* all the columns of a usage row, and a batch reports them for the whole  *)
(* job.  How a batch is polled is BatchJob's, how groups meet in a wave    *)
(* CompletionPool's.                                                       *)
(***************************************************************************)
EXTENDS Naturals, Sequences, FiniteSets

CONSTANTS
    Calls,        \* planned calls of a pass, 1..N
    Retries,      \* extraction.rate_limit_retries
    RetryLarger,  \* is extraction.retry_max_tokens above extraction.max_tokens
    MinRequests,  \* llm.batch.min_requests
    Allowances    \* what a meter may admit

ASSUME LlmCallAssumption ==
    /\ Calls \in Nat /\ Retries \in Nat /\ MinRequests \in Nat
    /\ RetryLarger \in BOOLEAN /\ Allowances \subseteq Nat

VARIABLES
    meter,     \* the call meter open around each pass: <<allowance>>, or <<>>
    pass,      \* 1 records, 2 replays
    path,      \* "sequential" or "pooled"
    at,        \* the call being made; past the last one when the pass is over
    budget,    \* "first" or "retry"
    attempt,   \* rate-limit retries of this completion so far
    head,      \* per call, what the first budget brought
    second,    \* per call, what the retry brought
    settled,   \* per call, its claims and whether it counts as transient
    tally,     \* ReplyTally
    cache,     \* the replay directory
    charged,   \* completions charged to the meter
    usage,     \* tokens billed and tokens replayed, both passes together
    unkept,    \* history: tokens billed for a reply that left no cache entry
    bought,    \* history: replies a provider gave, per request
    before     \* history: how the first pass settled the calls it recorded whole

extractionCalls == <<meter, pass, path, at, budget, attempt, head, second, settled, tally, cache,
          charged, usage, unkept, bought, before>>

CallNo == 1..Calls
Budgets == {"first", "retry"}
Metered == meter # <<>>
Allowance == meter[1]
Reply(shape, n) == [shape |-> shape, n |-> n]
Replies == {Reply("complete", 0), Reply("complete", 1), Reply("truncated", 0),
            Reply("truncated", 1), Reply("unparsed", 0)}

\* EmptyCompletionError, CompletionRefused, any other error (a 429 that outlived
\* its retries, a spent meter); None: no completion was asked for.
Unanswered == Reply("failed", 0)
Empty == Reply("empty", 0)
Refused == Reply("refused", 0)
None == Reply("none", 0)
Answers == Replies \cup {Unanswered, Empty, Refused}
IsReply(r) == r \in Replies

\* What a response is billed: the model's text, its thinking or its refusal.
Tokens(r) == CASE r.shape \in {"truncated", "unparsed", "empty"} -> 3
               [] r.shape \in {"complete", "refused"} -> 2
               [] r.shape \in {"failed", "none"} -> 0

\* Mutant: the output budget is not part of the key.
KeyOfPrompt(c, b) == <<c, "first">>

\* request_key: the budget is part of it.
Key(c, b) == <<c, b>>
Recorded(c, b) == pass = 2 /\ Key(c, b) \in DOMAIN cache

\* The sum of the numbers f holds, counted unit by unit.
Total(f) == Cardinality(UNION {{k} \X (1..f[k]) : k \in DOMAIN f})

\* A budget failure is tried again, once, at the larger budget.
Retryable(r) == RetryLarger /\ r.shape \in {"truncated", "unparsed", "empty"}

-----------------------------------------------------------------------------
\* What the calls settle to, and what the tally counts.
Outcome(r) == [n |-> r.n, transient |-> r.shape # "complete" /\ r.shape # "truncated"]

\* Mutant: the retry is kept whenever it replied.
BetterLast(first, again) == IF IsReply(again) THEN again ELSE first

\* The retry is kept unless the first reply held more claims.
Better(first, again) ==
    IF ~IsReply(again) \/ (IsReply(first) /\ first.n > again.n) THEN first ELSE again

Kept(first, again, retried) == IF retried THEN Better(first, again) ELSE first

\* _settle_reply, record_answered, record_refusal.
Tallied(t, first, again, retried) ==
    LET kept == Kept(first, again, retried)
    IN  [answered |-> t.answered + (IF IsReply(kept) THEN 1 ELSE 0),
         truncated |-> t.truncated + (IF kept.shape = "truncated" THEN 1 ELSE 0),
         retried |-> t.retried + (IF retried THEN 1 ELSE 0),
         refused |-> t.refused + (IF ~retried /\ first = Refused THEN 1 ELSE 0)]

NoTally == [answered |-> 0, truncated |-> 0, retried |-> 0, refused |-> 0]

ExtractionInit ==
    /\ meter \in {<<>>} \cup {<<n>> : n \in Allowances}
    /\ pass = 1 /\ path \in {"sequential", "pooled"} /\ at = 1 /\ budget = "first"
    /\ attempt = 0 /\ head = <<>> /\ second = <<>> /\ settled = <<>> /\ tally = NoTally
    /\ cache = <<>> /\ charged = 0 /\ usage = [billed |-> 0, replayed |-> 0]
    /\ unkept = 0 /\ bought = [k \in CallNo \X Budgets |-> 0] /\ before = <<>>

Open == at <= Calls
Put(f, S, g(_)) == [c \in DOMAIN f \cup S |-> IF c \in S THEN g(c) ELSE f[c]]
Entry(r, tokens) == [reply |-> r, tokens |-> tokens]

-----------------------------------------------------------------------------
\* Sequential: _call_llm on the call `at`.

\* The meter is charged before the cache is asked; a spent one sends nothing.
Spent == Metered /\ charged >= Allowance
Charge == charged' = IF Metered /\ ~Spent THEN charged + 1 ELSE charged

\* What one completion brings: refused by the meter, found in the cache, or sent.
Brings(r) ==
    CASE Spent -> r = Unanswered
      [] ~Spent /\ Recorded(at, budget) -> r = cache[Key(at, budget)].reply
      [] OTHER -> TRUE

Sends == ~Spent /\ ~Recorded(at, budget)

Accounted(r) ==
    /\ usage' = IF Sends THEN [usage EXCEPT !.billed = @ + Tokens(r)]
                ELSE IF Spent THEN usage
                ELSE [usage EXCEPT !.replayed = @ + cache[Key(at, budget)].tokens]
    /\ cache' = IF Sends /\ IsReply(r)
                THEN Put(cache, {Key(at, budget)}, LAMBDA k : Entry(r, Tokens(r)))
                ELSE cache
    /\ unkept' = IF Sends /\ ~IsReply(r) THEN unkept + Tokens(r) ELSE unkept
    /\ bought' = IF Sends /\ IsReply(r) THEN [bought EXCEPT ![Key(at, budget)] = @ + 1]
                 ELSE bought

\* retry_on_rate_limit: a 429 is waited out and sent again.
WaitLimit ==
    /\ path = "sequential" /\ Open /\ Sends /\ attempt < Retries
    /\ attempt' = attempt + 1
    /\ Charge
    /\ UNCHANGED <<meter, pass, path, at, budget, head, second, settled, tally, cache, usage,
                   unkept, bought, before>>

\* The first budget's answer; one that says budget is asked for again.
AskFirst(r) ==
    /\ path = "sequential" /\ Open /\ budget = "first" /\ Brings(r)
    /\ head' = Put(head, {at}, LAMBDA c : r)
    /\ IF Retryable(r)
       THEN /\ budget' = "retry"
            /\ UNCHANGED <<at, settled, tally, second>>
       ELSE /\ settled' = Put(settled, {at}, LAMBDA c : Outcome(r))
            /\ tally' = Tallied(tally, r, None, FALSE)
            /\ second' = Put(second, {at}, LAMBDA c : None)
            /\ at' = at + 1 /\ UNCHANGED budget
    /\ attempt' = 0
    /\ Charge /\ Accounted(r)
    /\ UNCHANGED <<meter, pass, path, before>>

\* The larger budget's answer, whatever it is, settles the call.
AskAgain(r) ==
    /\ path = "sequential" /\ Open /\ budget = "retry" /\ Brings(r)
    /\ second' = Put(second, {at}, LAMBDA c : r)
    /\ settled' = Put(settled, {at}, LAMBDA c : Outcome(Kept(head[c], r, TRUE)))
    /\ tally' = Tallied(tally, head[at], r, TRUE)
    /\ at' = at + 1 /\ budget' = "first" /\ attempt' = 0
    /\ Charge /\ Accounted(r)
    /\ UNCHANGED <<meter, pass, path, head, before>>

-----------------------------------------------------------------------------
\* Pooled: _pooled_extract sends every call as one group, then the group of those
\* to retry.
GroupNow == IF budget = "first" THEN CallNo ELSE {c \in CallNo : Retryable(head[c])}
Hits == {c \in GroupNow : Recorded(c, budget)}
Misses == GroupNow \ Hits

\* A metered provider has no batch call: the group is sent one call at a time.
Batched == ~Metered /\ Cardinality(Misses) >= MinRequests

\* Mutant: the remainder of the division is dropped.
ShareRounded(total, n, i) == total \div n

\* divmod: the first `extra` replies carry one token more.
Share(total, n, i) == (total \div n) + (IF i <= total % n THEN 1 ELSE 0)

Rank(c, S) == Cardinality({d \in S : d <= c})
SumTokens(f, S) == Total([c \in S |-> Tokens(f[c])])

\* What is written for the answered calls of a group, and what is not.
Recordings(f, answered) ==
    LET new == {Key(c, budget) : c \in answered}
        tokens(c) == IF Batched
                     THEN Share(SumTokens(f, Misses), Cardinality(answered), Rank(c, answered))
                     ELSE Tokens(f[c])
    IN  [k \in DOMAIN cache \cup new |->
            IF k \in new THEN Entry(f[k[1]], tokens(k[1])) ELSE cache[k]]

\* What the meter still admits of a group sent call by call, in order; a cache hit
\* is charged too.
Admitted == IF Metered THEN {c \in GroupNow : charged + Rank(c, GroupNow) <= Allowance}
            ELSE GroupNow

\* f: what each call of the group brings.
Group(f) ==
    LET sent == Misses \cap Admitted
        answered == {c \in sent : IsReply(f[c])}
    IN  /\ path = "pooled" /\ Open /\ budget \in Budgets
        /\ DOMAIN f = GroupNow /\ GroupNow # {}
        /\ \A c \in GroupNow :
              /\ c \notin Admitted => f[c] = Unanswered
              /\ c \in Hits \cap Admitted => f[c] = cache[Key(c, budget)].reply
        /\ charged' = IF Metered THEN charged + Cardinality(Admitted) ELSE charged
        /\ usage' = [billed |-> usage.billed + SumTokens(f, sent),
                     replayed |-> usage.replayed
                        + Total([c \in Hits \cap Admitted |-> cache[Key(c, budget)].tokens])]
        /\ cache' = Recordings(f, answered)
        /\ unkept' = unkept + (IF Batched /\ answered # {} THEN 0
                               ELSE SumTokens(f, sent \ answered))
        /\ bought' = [k \in DOMAIN bought |->
                        bought[k] + (IF k[2] = budget /\ k[1] \in answered THEN 1 ELSE 0)]
        /\ IF budget = "first"
           THEN head' = f /\ UNCHANGED second
           ELSE second' = [c \in CallNo |-> IF c \in GroupNow THEN f[c] ELSE None]
                /\ UNCHANGED head
        /\ budget' = IF budget = "first" THEN "retry" ELSE "settle"
        /\ UNCHANGED <<meter, pass, path, at, attempt, settled, tally, before>>

\* Nothing to retry: no second group.
NoRetryGroup ==
    /\ path = "pooled" /\ Open /\ budget = "retry" /\ GroupNow = {}
    /\ second' = [c \in CallNo |-> None] /\ budget' = "settle"
    /\ UNCHANGED <<meter, pass, path, at, attempt, head, settled, tally, cache, charged, usage,
                   unkept, bought, before>>

\* The calls of the group are counted one after the other.
Tallies ==
    LET upTo[c \in 0..Calls] ==
            IF c = 0 THEN tally
            ELSE Tallied(upTo[c - 1], head[c], second[c], Retryable(head[c]))
    IN  upTo[Calls]

SettleGroup ==
    /\ path = "pooled" /\ Open /\ budget = "settle"
    /\ settled' = [c \in CallNo |-> Outcome(Kept(head[c], second[c], Retryable(head[c])))]
    /\ tally' = Tallies
    /\ at' = Calls + 1 /\ budget' = "first"
    /\ UNCHANGED <<meter, pass, path, attempt, head, second, cache, charged, usage, unkept,
                   bought, before>>

-----------------------------------------------------------------------------
\* An account-level failure ends the pass where it is; so does the last call.
NextPass ==
    /\ pass = 1
    /\ pass' = 2
    /\ before' = [c \in {d \in DOMAIN settled :
                         IsReply(head[d]) /\ (second[d] = None \/ IsReply(second[d]))} |->
                    settled[c]]
    /\ path' \in {"sequential", "pooled"}
    /\ at' = 1 /\ budget' = "first" /\ attempt' = 0
    /\ head' = <<>> /\ second' = <<>> /\ settled' = <<>> /\ tally' = NoTally
    /\ charged' = 0
    /\ UNCHANGED <<meter, cache, usage, unkept, bought>>

EndPass == ~Open /\ NextPass
AccountFailure == Open /\ NextPass

ExtractionNext ==
    \/ WaitLimit
    \/ \E r \in Answers : AskFirst(r) \/ AskAgain(r)
    \/ \E S \in SUBSET CallNo : \E f \in [S -> Answers] : Group(f)
    \/ NoRetryGroup \/ SettleGroup
    \/ EndPass \/ AccountFailure

ExtractionSpec == ExtractionInit /\ [][ExtractionNext]_extractionCalls

-----------------------------------------------------------------------------
\* The sequential call and the pooled group settle a call by one rule: of its two
\* replies the one with more claims, the later of equals; transient when that one
\* was unreadable or none came; and the second is asked for exactly when the first
\* spent its budget.
RepliesSettle ==
    \A c \in DOMAIN settled :
        LET got == {r \in {head[c], second[c]} : IsReply(r)}
            most == CHOOSE r \in got : \A s \in got : s.n <= r.n
        IN  /\ second[c] # None <=> Retryable(head[c])
            /\ settled[c].n = (IF got = {} THEN 0 ELSE most.n)
            /\ settled[c].transient <=>
                  \/ got = {}
                  \/ IsReply(second[c]) /\ second[c].n >= head[c].n
                        /\ second[c].shape = "unparsed"
                  \/ ~IsReply(second[c]) /\ head[c].shape = "unparsed"

\* The tally of a finished pass splits its calls: a pass with one refused call and one
\* answered one is never read as refusal-only, on either path.
TallySplits ==
    ~Open /\ DOMAIN settled = CallNo =>
        /\ tally.answered = Cardinality({c \in CallNo : IsReply(head[c]) \/ IsReply(second[c])})
        /\ tally.refused = Cardinality({c \in CallNo : head[c] = Refused})
        /\ tally.truncated <= tally.answered
        /\ tally.retried = Cardinality({c \in CallNo : Retryable(head[c])})

\* Every billed token is either on a recorded entry or on a reply that was not
\* kept: a batch's total is split over its answered calls with nothing lost to
\* rounding, a replayed reply is never billed, and what was recorded is never
\* bought again.
TokensAreAccounted ==
    /\ usage.billed = unkept + Total([k \in DOMAIN cache |-> cache[k].tokens])
    /\ \A k \in DOMAIN bought : bought[k] <= 1

\* A call whose replies were all recorded settles the same when replayed, whichever
\* path recorded it and whichever replays it.
ReplayReproduces ==
    pass = 2 /\ ~Metered =>
        \A c \in DOMAIN settled \cap DOMAIN before : settled[c] = before[c]

\* A sequential and a pooled call settle, and are tallied, by one rule, and what was
\* recorded settles the same when replayed.
SettledByOneRule == RepliesSettle /\ TallySplits /\ ReplayReproduces
=============================================================================
