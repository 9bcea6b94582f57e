-------------------------------- MODULE LlmProofs --------------------------------
(***************************************************************************)
(* Theorems about the LLM layer.  Of Breaker, type correctness and what    *)
(* the shared counts promise an operation, for any number of operations,   *)
(* calls and requests.  Of LlmCall, how its calls settle, are tallied and  *)
(* are replayed, for any number of calls, retries and meters.  Of          *)
(* Components, that a source passed over would be read as it was, for any  *)
(* sources and settings.  Of Adjudicability, whose word a default carries, *)
(* for any lenses and extractors.  Of Embeddings, that one thread encodes  *)
(* at a time, for any threads and revisions.  Of ClaimReading, that every  *)
(* element of a reply is accounted for, for any replies and names.         *)
(***************************************************************************)
EXTENDS Breaker, LlmCall, Components, Adjudicability, Embeddings, ClaimReading, FiniteSetTheorems,
        WellFoundedInduction, TLAPS

\* What an operation has seen bounds the counts, and a breaker that opened
\* after it began left a trip behind.
ObservedBefore ==
    \A c \in Operation :
        /\ call[c].answer.failed <= call[c].n
        /\ seen[c].trips <= tripCount
        /\ seen[c].failures + missed[c].counted <= failureCount
        /\ call[c].at = "new" => missed[c].counted = 0 /\ ~missed[c].skipped
        /\ call[c].at # "new" /\ open > 0 => seen[c].open \/ tripCount > seen[c].trips

IInv == TypeOK /\ ObservedBefore /\ NoSilentSkip

CallRecord == [at : {"new", "idle", "sent", "served"}, n : 0..MaxSet,
               left : 0..MaxCalls, texts : 0..MaxSet,
               answer : [kind : {"none", "egress", "account", "replies"}, failed : 0..MaxSet]]

LEMMA InitInv == Init => IInv
<1> SUFFICES ASSUME Init PROVE IInv
    OBVIOUS
<1> USE BreakerAssumption
<1>1. call \in [Operation -> CallRecord]
    BY DEF Init, CallRecord, Resting, NoAnswer
<1>2. TypeOK
    BY <1>1 DEF Init, TypeOK, CallRecord
<1>3. ObservedBefore
    BY DEF Init, ObservedBefore, Resting, NoAnswer
<1>4. NoSilentSkip
    BY DEF Init, NoSilentSkip
<1> QED BY <1>2, <1>3, <1>4 DEF IInv

\* Every step keeps the types.
LEMMA TypeStep == TypeOK /\ ObservedBefore /\ [Next]_vars => TypeOK'
<1> SUFFICES ASSUME TypeOK, ObservedBefore, [Next]_vars PROVE TypeOK'
    OBVIOUS
<1> USE BreakerAssumption
<1>typed. call \in [Operation -> CallRecord]
    BY DEF TypeOK, CallRecord
<1>one. ASSUME NEW c \in Operation PROVE call[c] \in CallRecord
    BY <1>typed
<1>1. ASSUME NEW c \in Operation, Begin(c) PROVE TypeOK'
  <2>1. call' \in [Operation -> CallRecord]
    BY <1>1, <1>typed DEF Begin, CallRecord
  <2>2. [open |-> open > 0, failures |-> failureCount, trips |-> tripCount]
            \in [open : BOOLEAN, failures : Nat, trips : Nat]
    BY DEF TypeOK
  <2>3. seen' \in [Operation -> [open : BOOLEAN, failures : Nat, trips : Nat]]
    BY <1>1, <2>2 DEF Begin, TypeOK
  <2> QED BY <1>1, <2>1, <2>3 DEF Begin, TypeOK, CallRecord, counts
<1>2. ASSUME NEW c \in Operation, ShortCircuit(c) PROVE TypeOK'
  <2>1. Resting("idle", call[c].left - 1, 0) \in CallRecord
    BY <1>2, <1>one DEF ShortCircuit, Resting, NoAnswer, CallRecord
  <2>2. call' \in [Operation -> CallRecord]
    BY <1>2, <2>1, <1>typed DEF ShortCircuit
  <2>3. missed' \in [Operation -> [counted : Nat, skipped : BOOLEAN]]
    BY <1>2 DEF ShortCircuit, TypeOK
  <2> QED BY <1>2, <2>2, <2>3 DEF ShortCircuit, TypeOK, CallRecord, counts
<1>3. ASSUME NEW c \in Operation, Send(c) PROVE TypeOK'
  <2>1. PICK n \in 1..MaxSet : call' =
            [call EXCEPT ![c] = Flying("sent", n, call[c].left - 1, NoAnswer)]
    BY <1>3 DEF Send
  <2>2. Flying("sent", n, call[c].left - 1, NoAnswer) \in CallRecord
    BY <1>3, <1>one DEF Send, Flying, NoAnswer, CallRecord, TypeOK
  <2>3. call' \in [Operation -> CallRecord]
    BY <2>1, <2>2, <1>typed
  <2> QED BY <1>3, <2>3 DEF Send, TypeOK, CallRecord, counts, history
<1>4. ASSUME NEW c \in Operation, Serve(c) PROVE TypeOK'
  <2>1. PICK a \in Answer(call[c].n) :
            call' = 
              [call EXCEPT ![c] = Flying("served", call[c].n, call[c].left, a)]
    BY <1>4 DEF Serve
  <2>2. a \in [kind : {"none", "egress", "account", "replies"}, failed : 0..MaxSet]
    BY <1>one DEF Answer, CallRecord
  <2>3. Flying("served", call[c].n, call[c].left, a) \in CallRecord
    BY <2>2, <1>one DEF Flying, CallRecord
  <2>4. call' \in [Operation -> CallRecord]
    BY <2>1, <2>3, <1>typed
  <2> QED BY <1>4, <2>4 DEF Serve, TypeOK, CallRecord, counts, history
<1>5. ASSUME NEW c \in Operation, Return(c) PROVE TypeOK'
  <2>1. call[c] \in CallRecord /\ call[c].answer.failed <= call[c].n
    BY <1>typed DEF ObservedBefore
  <2>2. call' \in [Operation -> CallRecord]
    BY <1>5, <1>typed, <2>1 DEF Return, Resting, NoAnswer, CallRecord
  <2>3. missed' \in [Operation -> [counted : Nat, skipped : BOOLEAN]]
    BY <1>5, <2>1 DEF Return, TypeOK, CallRecord
  <2>4. failureCount' \in Nat
    BY <1>5, <2>1 DEF Return, Failed, TypeOK, CallRecord
  <2>5. CASE Trip
    <3>1. owed' \in 0..Backoff /\ open' \in 0..owed' /\ tripCount' \in Nat
      BY <2>5 DEF Trip, TypeOK
    <3>2. account' = account /\ seen' = seen
      BY <1>5 DEF Return
    <3> QED BY <2>2, <2>3, <2>4, <3>1, <3>2 DEF TypeOK, CallRecord
  <2>6. CASE /\ open' \in {0, open}
             /\ UNCHANGED <<tripCount, owed>>
    <3> QED BY <1>5, <2>2, <2>3, <2>4, <2>6 DEF Return, TypeOK, CallRecord
  <2> QED BY <1>5, <2>5, <2>6 DEF Return
<1>6. ASSUME NEW c \in Operation, RecordUnusableReply(c) PROVE TypeOK'
  <2>1. call' \in [Operation -> CallRecord]
    BY <1>6, <1>typed DEF RecordUnusableReply, Idle, CallRecord
  <2>2. missed' \in [Operation -> [counted : Nat, skipped : BOOLEAN]]
    BY <1>6 DEF RecordUnusableReply, TypeOK
  <2> QED BY <1>6, <2>1, <2>2 DEF RecordUnusableReply, TypeOK, CallRecord, counts
<1>7. CASE Tick
    BY <1>7 DEF Tick, TypeOK, counts
<1>8. CASE AccountChanges
    BY <1>8 DEF AccountChanges, TypeOK, counts, history
<1>9. CASE UNCHANGED vars
    BY <1>9 DEF vars, TypeOK, counts, history
<1> QED BY <1>1, <1>2, <1>3, <1>4, <1>5, <1>6, <1>7, <1>8, <1>9 DEF Next

\* Every step keeps what the operations have observed true of the counts, and
\* with it their means to tell a skip.
LEMMA ObservedStep ==
    TypeOK /\ ObservedBefore /\ NoSilentSkip /\ [Next]_vars => ObservedBefore' /\ NoSilentSkip'
<1> SUFFICES ASSUME TypeOK, ObservedBefore, NoSilentSkip, [Next]_vars
             PROVE ObservedBefore' /\ NoSilentSkip'
    OBVIOUS
<1>typed. /\ call \in [Operation -> CallRecord]
          /\ seen \in [Operation -> [open : BOOLEAN, failures : Nat, trips : Nat]]
          /\ missed \in [Operation -> [counted : Nat, skipped : BOOLEAN]]
          /\ {open, failureCount, tripCount} \subseteq Nat
    BY BreakerAssumption DEF TypeOK, CallRecord
<1>1. ASSUME NEW c \in Operation, Begin(c) PROVE ObservedBefore' /\ NoSilentSkip'
  <2> DEFINE now == [open |-> open > 0, failures |-> failureCount, trips |-> tripCount]
  <2>0. open > 0 => now.open
    OBVIOUS
  <2>1. now.failures = failureCount /\ now.trips = tripCount
    OBVIOUS
  <2>2. seen' = [seen EXCEPT ![c] = now] /\ call' = [call EXCEPT ![c].at = "idle"]
    BY <1>1 DEF Begin
  <2>3. missed[c].counted = 0 /\ ~missed[c].skipped
    BY <1>1 DEF Begin, ObservedBefore
  <2>4. UNCHANGED <<open, failureCount, tripCount, missed>>
    BY <1>1 DEF Begin, counts
  <2> HIDE DEF now
  <2>5. seen'[c] = now /\ \A d \in Operation \ {c} : seen'[d] = seen[d]
    BY <2>2, <1>typed
  <2>6. call'[c].answer = call[c].answer /\ call'[c].n = call[c].n
    BY <2>2, <1>typed DEF CallRecord
  <2>7. \A d \in Operation \ {c} : call'[d] = call[d]
    BY <2>2, <1>typed
  <2>8. NoSilentSkip'
    BY <2>3, <2>4, <2>5 DEF NoSilentSkip
  <2>9. ASSUME NEW d \in Operation
        PROVE  /\ call'[d].answer.failed <= call'[d].n
               /\ seen'[d].trips <= tripCount'
               /\ seen'[d].failures + missed'[d].counted <= failureCount'
               /\ call'[d].at = "new" => missed'[d].counted = 0 /\ ~missed'[d].skipped
               /\ call'[d].at # "new" /\ open' > 0 => seen'[d].open \/ tripCount' > seen'[d].trips
    <3>1. CASE d = c
      <4>1. call'[c].answer.failed <= call'[c].n
        BY <2>6 DEF ObservedBefore
      <4>2. seen'[c].trips <= tripCount' /\ seen'[c].failures + missed'[c].counted <= failureCount'
        BY <2>1, <2>3, <2>4, <2>5, <1>typed
      <4>3. open' > 0 => seen'[c].open
        BY <2>0, <2>4, <2>5
      <4> QED BY <3>1, <4>1, <4>2, <4>3, <2>3, <2>4
    <3>2. CASE d # c
      BY <3>2, <2>4, <2>5, <2>7 DEF ObservedBefore
    <3> QED BY <3>1, <3>2
  <2> QED BY <2>8, <2>9 DEF ObservedBefore
<1>2. ASSUME NEW c \in Operation, ShortCircuit(c) PROVE ObservedBefore' /\ NoSilentSkip'
    BY <1>2, <1>typed DEF ShortCircuit, Resting, NoAnswer, Idle, ObservedBefore, NoSilentSkip, CallRecord, counts
<1>3. ASSUME NEW c \in Operation, Send(c) PROVE ObservedBefore' /\ NoSilentSkip'
    BY <1>3, <1>typed DEF Send, Flying, NoAnswer, Idle, ObservedBefore, NoSilentSkip, CallRecord, counts, history
<1>4. ASSUME NEW c \in Operation, Serve(c) PROVE ObservedBefore' /\ NoSilentSkip'
    BY <1>4, <1>typed DEF Serve, Answer, Flying, ObservedBefore, NoSilentSkip, CallRecord, counts, history
<1>5. ASSUME NEW c \in Operation, Return(c) PROVE ObservedBefore' /\ NoSilentSkip'
    BY <1>5, <1>typed DEF Return, Trip, Failed, Resting, NoAnswer, ObservedBefore, NoSilentSkip, CallRecord
<1>6. ASSUME NEW c \in Operation, RecordUnusableReply(c) PROVE ObservedBefore' /\ NoSilentSkip'
    BY <1>6, <1>typed DEF RecordUnusableReply, Idle, ObservedBefore, NoSilentSkip, CallRecord
<1>7. CASE Tick
    BY <1>7, <1>typed DEF Tick, ObservedBefore, NoSilentSkip, counts
<1>8. CASE AccountChanges
    BY <1>8 DEF AccountChanges, ObservedBefore, NoSilentSkip, counts, history
<1>9. CASE UNCHANGED vars
    BY <1>9 DEF vars, ObservedBefore, NoSilentSkip, counts, history
<1> QED BY <1>1, <1>2, <1>3, <1>4, <1>5, <1>6, <1>7, <1>8, <1>9 DEF Next

\* The invariant holds of every behaviour of the breaker.
THEOREM BreakerInvariant == Spec => []IInv
<1>1. Init => IInv
    BY InitInv
<1>2. IInv /\ [Next]_vars => IInv'
    BY TypeStep, ObservedStep DEF IInv
<1> QED BY <1>1, <1>2, PTL DEF Spec

\* Every variable of the breaker keeps its type, and the breaker is never open
\* for longer than the backoff its last trip announced (_trip).
THEOREM BreakerTypeCorrect == Spec => []TypeOK
<1>1. IInv => TypeOK
    BY DEF IInv
<1> QED BY <1>1, BreakerInvariant, PTL

\* An operation whose probe was short-circuited either began with the breaker
\* open or sees the trip count moved (llm_circuit_open, llm_trip_count).
THEOREM SkipsAreDisclosed == Spec => []NoSilentSkip
<1>1. IInv => NoSilentSkip
    BY DEF IInv
<1> QED BY <1>1, BreakerInvariant, PTL

\* The difference of llm_failure_count over an operation is at least the number
\* of its own requests that came back without a usable answer.
THEOREM FailuresAreCovered == Spec => []OwnFailuresCounted
<1>1. IInv => OwnFailuresCounted
  <2> SUFFICES ASSUME IInv, NEW c \in Operation
               PROVE failureCount - seen[c].failures >= missed[c].counted
    BY DEF OwnFailuresCounted
  <2>1. seen[c].failures \in Nat /\ missed[c].counted \in Nat /\ failureCount \in Nat
    BY DEF IInv, TypeOK
  <2>2. seen[c].failures + missed[c].counted <= failureCount
    BY DEF IInv, ObservedBefore
  <2> QED BY <2>1, <2>2
<1> QED BY <1>1, BreakerInvariant, PTL
-----------------------------------------------------------------------------
\* The calls of an extraction

KeptOf(h, s, c) == Kept(h[c], s[c], Retryable(h[c]))

\* The tally of the calls of S, if h and s are what their two budgets brought.
CountsOver(h, s, S) ==
    [answered |-> Cardinality({c \in S : IsReply(KeptOf(h, s, c))}),
     truncated |-> Cardinality({c \in S : KeptOf(h, s, c).shape = "truncated"}),
     retried |-> Cardinality({c \in S : Retryable(h[c])}),
     refused |-> Cardinality({c \in S : ~Retryable(h[c]) /\ h[c] = Refused})]

\* How far each of the two paths has come.
SequentialShape ==
    /\ budget \in {"first", "retry"} /\ DOMAIN settled = 1..(at - 1) /\ DOMAIN second = 1..(at - 1)
    /\ budget = "first" => DOMAIN head = 1..(at - 1)
    /\ budget = "retry" => at <= Calls /\ DOMAIN head = 1..at /\ Retryable(head[at])

PooledShape ==
    \/ /\ at = Calls + 1 /\ budget = "first"
       /\ DOMAIN settled = CallNo /\ DOMAIN head = CallNo /\ DOMAIN second = CallNo
    \/ /\ at = 1 /\ DOMAIN settled = {}
       /\ \/ budget = "first" /\ DOMAIN head = {} /\ DOMAIN second = {}
          \/ budget = "retry" /\ DOMAIN head = CallNo /\ DOMAIN second = {}
          \/ budget = "settle" /\ DOMAIN head = CallNo /\ DOMAIN second = CallNo

ExtractionTypes ==
    /\ pass \in {1, 2} /\ at \in 1..(Calls + 1)
    /\ (path = "sequential" /\ SequentialShape) \/ (path = "pooled" /\ PooledShape)
    /\ \A c \in DOMAIN head : head[c] \in Answers
    /\ \A c \in DOMAIN second :
          /\ second[c] \in Answers \cup {None}
          /\ second[c] # None <=> Retryable(head[c])

\* A call is settled by what was kept of its two replies, and every settled call is counted.
SettledAsKept ==
    /\ \A c \in DOMAIN settled : settled[c] = Outcome(KeptOf(head, second, c))
    /\ tally = CountsOver(head, second, DOMAIN settled)

\* What the replay directory answers a call.
RecordedHead(c) == cache[Key(c, "first")].reply
RecordedSecond(c) == IF Retryable(RecordedHead(c)) THEN cache[Key(c, "retry")].reply ELSE None

\* While the first pass records, each reply it was given is in the cache.
RecordsReplies ==
    pass = 1 =>
        /\ DOMAIN before = {}
        /\ \A c \in DOMAIN head :
              IsReply(head[c]) => Key(c, "first") \in DOMAIN cache /\ RecordedHead(c) = head[c]
        /\ \A c \in DOMAIN second :
              IsReply(second[c]) => Key(c, "retry") \in DOMAIN cache /\ cache[Key(c, "retry")].reply = second[c]

\* What a call recorded whole settled to is what its recorded replies settle to, and those
\* stay: an unmetered replay is answered by them.
ReplaysRecords ==
    pass = 2 =>
        /\ \A c \in DOMAIN before :
              /\ Key(c, "first") \in DOMAIN cache
              /\ Retryable(RecordedHead(c)) => Key(c, "retry") \in DOMAIN cache
              /\ before[c] = Outcome(Kept(RecordedHead(c), RecordedSecond(c), Retryable(RecordedHead(c))))
        /\ ~Metered => \A c \in DOMAIN before :
              /\ c \in DOMAIN head => head[c] = RecordedHead(c)
              /\ c \in DOMAIN second => second[c] = RecordedSecond(c)

ExtractionInv == ExtractionTypes /\ SettledAsKept /\ RecordsReplies /\ ReplaysRecords

\* A call of the group whose tally is at hand is counted like any other.
LEMMA CountsGrow ==
    ASSUME NEW h, NEW s, NEW S, IsFiniteSet(S), NEW c, c \notin S
    PROVE  CountsOver(h, s, S \cup {c}) = Tallied(CountsOver(h, s, S), h[c], s[c], Retryable(h[c]))
<1>1. ASSUME NEW T, T \subseteq S
      PROVE  IsFiniteSet(T) /\ Cardinality(T) \in Nat /\ Cardinality(T \cup {c}) = Cardinality(T) + 1
  <2>1. IsFiniteSet(T) /\ c \notin T
    BY <1>1, FS_Subset
  <2> QED
    BY <2>1, FS_AddElement, FS_CardinalityType
<1> DEFINE A(R) == {d \in R : IsReply(KeptOf(h, s, d))}
           B(R) == {d \in R : KeptOf(h, s, d).shape = "truncated"}
           C(R) == {d \in R : Retryable(h[d])}
           D(R) == {d \in R : ~Retryable(h[d]) /\ h[d] = Refused}
           U == S \cup {c}
<1>2. Cardinality(A(U)) = Cardinality(A(S)) + (IF IsReply(KeptOf(h, s, c)) THEN 1 ELSE 0)
  <2>1. A(U) = IF IsReply(KeptOf(h, s, c)) THEN A(S) \cup {c} ELSE A(S)
    OBVIOUS
  <2>2. A(S) \subseteq S
    OBVIOUS
  <2> HIDE DEF A
  <2> QED
    BY <1>1, <2>1, <2>2
<1>3. Cardinality(B(U)) = Cardinality(B(S)) + (IF KeptOf(h, s, c).shape = "truncated" THEN 1 ELSE 0)
  <2>1. B(U) = IF KeptOf(h, s, c).shape = "truncated" THEN B(S) \cup {c} ELSE B(S)
    OBVIOUS
  <2>2. B(S) \subseteq S
    OBVIOUS
  <2> HIDE DEF B
  <2> QED
    BY <1>1, <2>1, <2>2
<1>4. Cardinality(C(U)) = Cardinality(C(S)) + (IF Retryable(h[c]) THEN 1 ELSE 0)
  <2>1. C(U) = IF Retryable(h[c]) THEN C(S) \cup {c} ELSE C(S)
    OBVIOUS
  <2>2. C(S) \subseteq S
    OBVIOUS
  <2> HIDE DEF C
  <2> QED
    BY <1>1, <2>1, <2>2
<1>5. Cardinality(D(U)) = Cardinality(D(S)) + (IF ~Retryable(h[c]) /\ h[c] = Refused THEN 1 ELSE 0)
  <2>1. D(U) = IF ~Retryable(h[c]) /\ h[c] = Refused THEN D(S) \cup {c} ELSE D(S)
    OBVIOUS
  <2>2. D(S) \subseteq S
    OBVIOUS
  <2> HIDE DEF D
  <2>3. Cardinality(D(S)) \in Nat /\ Cardinality(D(S) \cup {c}) = Cardinality(D(S)) + 1
    BY <1>1, <2>2
  <2>4. CASE ~Retryable(h[c]) /\ h[c] = Refused
    BY <2>1, <2>3, <2>4
  <2>5. CASE ~(~Retryable(h[c]) /\ h[c] = Refused)
    BY <2>1, <2>3, <2>5
  <2> QED
    BY <2>4, <2>5
<1>6. \A R : CountsOver(h, s, R) = [answered |-> Cardinality(A(R)), truncated |-> Cardinality(B(R)),
                                    retried |-> Cardinality(C(R)), refused |-> Cardinality(D(R))]
  BY DEF CountsOver
<1> HIDE DEF A, B, C, D
<1>7. CountsOver(h, s, U) = [answered |-> Cardinality(A(S)) + (IF IsReply(KeptOf(h, s, c)) THEN 1 ELSE 0),
          truncated |-> Cardinality(B(S)) + (IF KeptOf(h, s, c).shape = "truncated" THEN 1 ELSE 0),
          retried |-> Cardinality(C(S)) + (IF Retryable(h[c]) THEN 1 ELSE 0),
          refused |-> Cardinality(D(S)) + (IF ~Retryable(h[c]) /\ h[c] = Refused THEN 1 ELSE 0)]
  BY <1>2, <1>3, <1>4, <1>5, <1>6
<1> QED
  BY <1>6, <1>7 DEF Tallied, KeptOf

\* Only the calls of S matter.
LEMMA CountsAgree ==
    ASSUME NEW h, NEW s, NEW g, NEW z, NEW S, \A c \in S : h[c] = g[c] /\ s[c] = z[c]
    PROVE  CountsOver(h, s, S) = CountsOver(g, z, S)
<1>1. \A c \in S : KeptOf(h, s, c) = KeptOf(g, z, c)
  BY DEF KeptOf
<1>2. /\ {c \in S : IsReply(KeptOf(h, s, c))} = {c \in S : IsReply(KeptOf(g, z, c))}
      /\ {c \in S : KeptOf(h, s, c).shape = "truncated"} = {c \in S : KeptOf(g, z, c).shape = "truncated"}
      /\ {c \in S : Retryable(h[c])} = {c \in S : Retryable(g[c])}
      /\ {c \in S : ~Retryable(h[c]) /\ h[c] = Refused} = {c \in S : ~Retryable(g[c]) /\ g[c] = Refused}
  BY <1>1
<1> QED
  BY <1>2 DEF CountsOver

LEMMA CountsStart == \A h, s : CountsOver(h, s, {}) = NoTally
<1> SUFFICES ASSUME NEW h, NEW s PROVE CountsOver(h, s, {}) = NoTally
  OBVIOUS
<1>1. \A S : S \subseteq {} => Cardinality(S) = 0
  BY FS_EmptySet
<1>2. /\ {c \in {} : IsReply(KeptOf(h, s, c))} \subseteq {}
      /\ {c \in {} : KeptOf(h, s, c).shape = "truncated"} \subseteq {}
      /\ {c \in {} : Retryable(h[c])} \subseteq {}
      /\ {c \in {} : ~Retryable(h[c]) /\ h[c] = Refused} \subseteq {}
  OBVIOUS
<1> QED
  BY <1>1, <1>2 DEF CountsOver, NoTally

\* Answers and their kinds.
LEMMA AnswersAre ==
    /\ \A r \in Replies : r \in Answers /\ r # None /\ r # Refused
    /\ None \notin Answers /\ ~IsReply(None) /\ ~IsReply(Unanswered) /\ ~IsReply(Refused)
    /\ ~Retryable(Refused) /\ ~Retryable(None)
<1>1. \A r \in Replies : r.shape \in {"complete", "truncated", "unparsed"}
  BY DEF Replies, Reply
<1>2. None.shape = "none" /\ Unanswered.shape = "failed" /\ Empty.shape = "empty" /\ Refused.shape = "refused"
  BY DEF None, Unanswered, Empty, Refused, Reply
<1>3. \A r \in Answers : r \in Replies \/ r = Unanswered \/ r = Empty \/ r = Refused
  BY DEF Answers
<1>4. \A r \in Answers : r.shape # "none"
  BY <1>1, <1>2, <1>3
<1>5. ~IsReply(None) /\ ~IsReply(Unanswered) /\ ~IsReply(Refused)
  BY <1>1, <1>2 DEF IsReply
<1>6. ~Retryable(Refused) /\ ~Retryable(None)
  BY <1>2 DEF Retryable
<1>7. \A r \in Replies : r \in Answers /\ r # None /\ r # Refused
  BY <1>1, <1>2 DEF Answers
<1> QED
  BY <1>2, <1>4, <1>5, <1>6, <1>7

CacheKept == \A k \in DOMAIN cache : k \in DOMAIN cache' /\ cache'[k] = cache[k]

\* What one completion leaves in the cache: while recording the reply it brought, and in a
\* replay nothing of what was recorded changes.
LEMMA AskRecords ==
    ASSUME NEW r \in Answers, Brings(r), Accounted(r), pass \in {1, 2}
    PROVE  /\ pass = 2 => CacheKept
           /\ pass = 2 /\ ~Metered /\ Key(at, budget) \in DOMAIN cache =>
                 r = cache[Key(at, budget)].reply
           /\ pass = 1 =>
                 /\ \A k \in DOMAIN cache :
                       k # Key(at, budget) => k \in DOMAIN cache' /\ cache'[k] = cache[k]
                 /\ IsReply(r) => Key(at, budget) \in DOMAIN cache'
                                  /\ cache'[Key(at, budget)].reply = r
<1> DEFINE key == Key(at, budget)
<1>1. CASE Sends /\ IsReply(r)
  <2>1. cache' = [k \in DOMAIN cache \cup {key} |->
                    IF k \in {key} THEN Entry(r, Tokens(r)) ELSE cache[k]]
    BY <1>1 DEF Accounted, Put
  <2>2. Entry(r, Tokens(r)).reply = r
    BY DEF Entry
  <2>3. pass = 2 => key \notin DOMAIN cache
    BY <1>1 DEF Sends, Recorded
  <2> HIDE DEF key
  <2>4. /\ \A k \in DOMAIN cache : k # key => k \in DOMAIN cache' /\ cache'[k] = cache[k]
        /\ key \in DOMAIN cache' /\ cache'[key].reply = r
    BY <2>1, <2>2
  <2>5. pass = 2 => CacheKept
    BY <2>3, <2>4 DEF CacheKept
  <2> QED
    BY <2>3, <2>4, <2>5 DEF key
<1>2. CASE ~(Sends /\ IsReply(r))
  <2>1. cache' = cache
    BY <1>2 DEF Accounted
  <2>2. CacheKept
    BY <2>1 DEF CacheKept
  <2>3. pass = 1 => ~IsReply(r)
    <3> SUFFICES ASSUME pass = 1 PROVE ~IsReply(r)
      OBVIOUS
    <3>1. ~Recorded(at, budget)
      BY DEF Recorded
    <3>2. CASE Spent
      BY <3>2, AnswersAre DEF Brings
    <3>3. CASE ~Spent
      BY <1>2, <3>1, <3>3 DEF Sends
    <3> QED
      BY <3>2, <3>3
  <2>4. pass = 2 /\ ~Metered /\ key \in DOMAIN cache => r = cache[key].reply
    BY DEF Brings, Spent, Recorded
  <2> QED
    BY <2>1, <2>2, <2>3, <2>4
<1> QED
  BY <1>1, <1>2

\* What a replay is compared with does not change while it runs.
LEMMA RecordsStay ==
    ASSUME ReplaysRecords, pass = 2, CacheKept
    PROVE  \A c \in DOMAIN before :
              /\ RecordedHead(c)' = RecordedHead(c) /\ RecordedSecond(c)' = RecordedSecond(c)
              /\ Key(c, "first") \in DOMAIN cache'
              /\ Retryable(RecordedHead(c)) => Key(c, "retry") \in DOMAIN cache'
              /\ before[c] = Outcome(Kept(RecordedHead(c), RecordedSecond(c), Retryable(RecordedHead(c))))
<1> SUFFICES ASSUME NEW c \in DOMAIN before
             PROVE  /\ RecordedHead(c)' = RecordedHead(c) /\ RecordedSecond(c)' = RecordedSecond(c)
                    /\ Key(c, "first") \in DOMAIN cache'
                    /\ Retryable(RecordedHead(c)) => Key(c, "retry") \in DOMAIN cache'
                    /\ before[c] = Outcome(Kept(RecordedHead(c), RecordedSecond(c), Retryable(RecordedHead(c))))
  OBVIOUS
<1>1. /\ Key(c, "first") \in DOMAIN cache
      /\ Retryable(RecordedHead(c)) => Key(c, "retry") \in DOMAIN cache
      /\ before[c] = Outcome(Kept(RecordedHead(c), RecordedSecond(c), Retryable(RecordedHead(c))))
  BY DEF ReplaysRecords
<1>2. cache'[Key(c, "first")] = cache[Key(c, "first")] /\ Key(c, "first") \in DOMAIN cache'
  BY <1>1 DEF CacheKept
<1>3. RecordedHead(c)' = RecordedHead(c)
  BY <1>2 DEF RecordedHead
<1>4. Retryable(RecordedHead(c)) =>
          cache'[Key(c, "retry")] = cache[Key(c, "retry")] /\ Key(c, "retry") \in DOMAIN cache'
  BY <1>1 DEF CacheKept
<1>5. RecordedSecond(c)' = RecordedSecond(c)
  BY <1>3, <1>4 DEF RecordedSecond
<1> QED
  BY <1>1, <1>2, <1>3, <1>4, <1>5

\* Keys of different calls or budgets differ.
LEMMA KeysDiffer == \A c, d, b, e : Key(c, b) = Key(d, e) <=> c = d /\ b = e
BY DEF Key

-----------------------------------------------------------------------------
\* The sequential path

LEMMA CountsStay ==
    ASSUME NEW S, \A c \in S : head'[c] = head[c] /\ second'[c] = second[c]
    PROVE  CountsOver(head', second', S) = CountsOver(head, second, S)
BY CountsAgree

\* What the calls before `at` brought is unchanged, and theirs is the tally so far.
LEMMA TallyGoesOn ==
    ASSUME ExtractionInv, path = "sequential", at \in Nat,
           \A c \in 1..(at - 1) : head'[c] = head[c] /\ second'[c] = second[c],
           tally' = Tallied(tally, head'[at], second'[at], Retryable(head'[at]))
    PROVE  tally' = CountsOver(head', second', 1..at)
<1> DEFINE S == 1..(at - 1)
<1>1. tally = CountsOver(head, second, S)
  BY DEF ExtractionInv, SettledAsKept, ExtractionTypes, SequentialShape
<1>2. CountsOver(head, second, S) = CountsOver(head', second', S)
  BY CountsStay
<1>3. IsFiniteSet(S) /\ at \notin S
  BY FS_Interval
<1>4. at \in 1..at => S \cup {at} = 1..at
  OBVIOUS
<1>5. at \in 1..at
  BY DEF ExtractionInv, ExtractionTypes
<1> HIDE DEF S
<1>6. CountsOver(head', second', S \cup {at}) =
          Tallied(CountsOver(head', second', S), head'[at], second'[at], Retryable(head'[at]))
  BY <1>3, CountsGrow
<1> QED
  BY <1>1, <1>2, <1>4, <1>5, <1>6

\* _call_llm at the first budget.
LEMMA AskFirstSettles ==
    ASSUME ExtractionInv, NEW r \in Answers, AskFirst(r)
    PROVE  ExtractionInv'
<1> USE DEF ExtractionInv
<1>1. /\ path = "sequential" /\ Open /\ budget = "first" /\ Brings(r) /\ Accounted(r)
      /\ UNCHANGED <<meter, pass, path, before>>
  BY DEF AskFirst
<1>2. /\ DOMAIN head' = DOMAIN head \cup {at} /\ head'[at] = r
      /\ \A c \in DOMAIN head : c # at => head'[c] = head[c]
  <2>1. head' = [c \in DOMAIN head \cup {at} |-> IF c \in {at} THEN r ELSE head[c]]
    BY DEF AskFirst, Put
  <2> QED
    BY <2>1
<1>3. /\ at \in 1..Calls /\ at \in Nat /\ pass \in {1, 2}
      /\ DOMAIN head = 1..(at - 1) /\ DOMAIN second = 1..(at - 1) /\ DOMAIN settled = 1..(at - 1)
  BY <1>1, LlmCallAssumption DEF ExtractionTypes, SequentialShape, Open
<1>4. /\ at \notin 1..(at - 1) /\ (1..(at - 1)) \cup {at} = 1..at /\ (at + 1) - 1 = at
      /\ at + 1 \in 1..(Calls + 1) /\ at <= Calls
  BY <1>3, LlmCallAssumption
<1>5. /\ DOMAIN head' = 1..at /\ \A c \in 1..(at - 1) : head'[c] = head[c]
  BY <1>2, <1>3, <1>4
<1>6. \A c \in 1..at : c = at \/ c \in 1..(at - 1)
  BY <1>3
<1>7. CASE Retryable(r)
  <2>1. budget' = "retry" /\ UNCHANGED <<at, settled, tally, second>>
    BY <1>7 DEF AskFirst
  <2>2. ExtractionTypes'
    BY <1>1, <1>2, <1>3, <1>4, <1>5, <1>6, <1>7, <2>1 DEF ExtractionTypes, SequentialShape
  <2>3. SettledAsKept'
    <3>1. CountsOver(head, second, 1..(at - 1)) = CountsOver(head', second', 1..(at - 1))
      <4> HIDE DEF ExtractionInv
      <4>1. \A c \in 1..(at - 1) : head'[c] = head[c] /\ second'[c] = second[c]
        BY <1>5, <2>1
      <4> QED
        BY <4>1, CountsStay
    <3> QED
      BY <1>3, <1>5, <2>1, <3>1 DEF SettledAsKept, KeptOf
  <2> HIDE DEF ExtractionInv
  <2>4. UNCHANGED <<at, second>>
    BY <2>1
  <2> QED
    <3>1. RecordsReplies'
      <4> SUFFICES ASSUME pass = 1 PROVE RecordsReplies'
        BY <1>1 DEF RecordsReplies
      <4>1. /\ \A k \in DOMAIN cache :
                  k # Key(at, "first") => k \in DOMAIN cache' /\ cache'[k] = cache[k]
            /\ IsReply(r) => Key(at, "first") \in DOMAIN cache'
                             /\ cache'[Key(at, "first")].reply = r
        BY <1>1, <1>3, AskRecords
      <4>2. RecordsReplies
        BY DEF ExtractionInv
      <4> QED
        BY <1>1, <1>2, <1>3, <1>4, <1>5, <1>6, <2>4, <4>1, <4>2, KeysDiffer DEF RecordsReplies, RecordedHead
    <3>2. ReplaysRecords'
      <4> SUFFICES ASSUME pass = 2 PROVE ReplaysRecords'
        BY <1>1 DEF ReplaysRecords
      <4>1. CacheKept /\ (~Metered /\ Key(at, "first") \in DOMAIN cache => r = cache[Key(at, "first")].reply)
        BY <1>1, <1>3, AskRecords
      <4>2. ReplaysRecords
        BY DEF ExtractionInv
      <4>3. \A c \in DOMAIN before :
              /\ RecordedHead(c)' = RecordedHead(c) /\ RecordedSecond(c)' = RecordedSecond(c)
              /\ Key(c, "first") \in DOMAIN cache'
              /\ Retryable(RecordedHead(c)) => Key(c, "retry") \in DOMAIN cache'
              /\ before[c] = Outcome(Kept(RecordedHead(c), RecordedSecond(c), Retryable(RecordedHead(c))))
        BY <4>1, <4>2, RecordsStay
      <4>4. ~Metered => \A c \in DOMAIN before :
              /\ c \in DOMAIN head' => head'[c] = RecordedHead(c)
              /\ c \in DOMAIN second' => second'[c] = RecordedSecond(c)
        BY <1>2, <1>3, <1>4, <1>5, <1>6, <2>4, <4>1, <4>2 DEF ReplaysRecords, RecordedHead
      <4>5. before' = before /\ Metered' = Metered /\ pass' = pass
        BY <1>1 DEF Metered
      <4> QED
        BY <4>3, <4>4, <4>5 DEF ReplaysRecords
    <3> QED
      BY <2>2, <2>3, <3>1, <3>2 DEF ExtractionInv
<1>8. CASE ~Retryable(r)
  <2>1. /\ settled' = [c \in DOMAIN settled \cup {at} |-> IF c \in {at} THEN Outcome(r) ELSE settled[c]]
        /\ second' = [c \in DOMAIN second \cup {at} |-> IF c \in {at} THEN None ELSE second[c]]
        /\ tally' = Tallied(tally, r, None, FALSE) /\ at' = at + 1 /\ budget' = budget
    BY <1>8 DEF AskFirst, Put
  <2>2. /\ DOMAIN settled' = 1..at /\ settled'[at] = Outcome(r)
        /\ \A c \in 1..(at - 1) : settled'[c] = settled[c]
        /\ DOMAIN second' = 1..at /\ second'[at] = None
        /\ \A c \in 1..(at - 1) : second'[c] = second[c]
    BY <1>3, <1>4, <2>1
  <2>3. ExtractionTypes'
    BY <1>1, <1>2, <1>3, <1>4, <1>5, <1>6, <1>8, <2>1, <2>2, AnswersAre DEF ExtractionTypes, SequentialShape
  <2>4. tally' = CountsOver(head', second', 1..at)
    <3>1. tally' = Tallied(tally, head'[at], second'[at], Retryable(head'[at]))
      <4>1. Retryable(r) = FALSE
        BY <1>8 DEF Retryable
      <4> QED
        BY <1>2, <2>1, <2>2, <4>1
    <3> QED
      BY <1>1, <1>3, <1>5, <2>2, <3>1, TallyGoesOn
  <2>5. SettledAsKept'
    <3>1. settled'[at] = Outcome(KeptOf(head', second', at))
      BY <1>2, <1>8, <2>2 DEF KeptOf, Kept
    <3>2. \A c \in 1..(at - 1) : settled'[c] = Outcome(KeptOf(head', second', c))
      BY <1>3, <1>5, <2>2 DEF SettledAsKept, KeptOf
    <3> QED
      BY <1>6, <2>2, <2>4, <3>1, <3>2 DEF SettledAsKept
  <2> HIDE DEF ExtractionInv
  <2>6. RecordsReplies'
    <3> SUFFICES ASSUME pass = 1 PROVE RecordsReplies'
      BY <1>1 DEF RecordsReplies
    <3>1. /\ \A k \in DOMAIN cache :
                k # Key(at, "first") => k \in DOMAIN cache' /\ cache'[k] = cache[k]
          /\ IsReply(r) => Key(at, "first") \in DOMAIN cache'
                           /\ cache'[Key(at, "first")].reply = r
      BY <1>1, <1>3, AskRecords
    <3>2. RecordsReplies
      BY DEF ExtractionInv
    <3> QED
      BY <1>1, <1>2, <1>3, <1>4, <1>5, <1>6, <2>2, <3>1, <3>2, KeysDiffer, AnswersAre DEF RecordsReplies, RecordedHead
  <2>7. ReplaysRecords'
    <3> SUFFICES ASSUME pass = 2 PROVE ReplaysRecords'
      BY <1>1 DEF ReplaysRecords
    <3>1. CacheKept /\ (~Metered /\ Key(at, "first") \in DOMAIN cache => r = cache[Key(at, "first")].reply)
      BY <1>1, <1>3, AskRecords
    <3>2. ReplaysRecords
      BY DEF ExtractionInv
    <3>3. \A c \in DOMAIN before :
            /\ RecordedHead(c)' = RecordedHead(c) /\ RecordedSecond(c)' = RecordedSecond(c)
            /\ Key(c, "first") \in DOMAIN cache'
            /\ Retryable(RecordedHead(c)) => Key(c, "retry") \in DOMAIN cache'
            /\ before[c] = Outcome(Kept(RecordedHead(c), RecordedSecond(c), Retryable(RecordedHead(c))))
      BY <3>1, <3>2, RecordsStay
    <3>4. ~Metered => \A c \in DOMAIN before :
            /\ c \in DOMAIN head' => head'[c] = RecordedHead(c)
            /\ c \in DOMAIN second' => second'[c] = RecordedSecond(c)
      BY <1>2, <1>3, <1>4, <1>5, <1>6, <1>8, <2>2, <3>1, <3>2 DEF ReplaysRecords, RecordedHead, RecordedSecond
    <3>5. before' = before /\ Metered' = Metered /\ pass' = pass
      BY <1>1 DEF Metered
    <3> QED
      BY <3>3, <3>4, <3>5 DEF ReplaysRecords
  <2> QED
    BY <2>3, <2>5, <2>6, <2>7 DEF ExtractionInv
<1> QED
  BY <1>7, <1>8

\* _call_llm at the larger budget.
LEMMA AskAgainSettles ==
    ASSUME ExtractionInv, NEW r \in Answers, AskAgain(r)
    PROVE  ExtractionInv'
<1>1. /\ path = "sequential" /\ Open /\ budget = "retry" /\ Brings(r) /\ Accounted(r)
      /\ UNCHANGED <<meter, pass, path, head, before>>
      /\ at' = at + 1 /\ budget' = "first" /\ tally' = Tallied(tally, head[at], r, TRUE)
      /\ settled' = [c \in DOMAIN settled \cup {at} |->
                        IF c \in {at} THEN Outcome(Kept(head[c], r, TRUE)) ELSE settled[c]]
      /\ second' = [c \in DOMAIN second \cup {at} |-> IF c \in {at} THEN r ELSE second[c]]
  BY DEF AskAgain, Put
<1>2. /\ at \in 1..Calls /\ at \in Nat /\ pass \in {1, 2} /\ DOMAIN head = 1..at /\ Retryable(head[at])
      /\ DOMAIN second = 1..(at - 1) /\ DOMAIN settled = 1..(at - 1)
  BY <1>1, LlmCallAssumption DEF ExtractionInv, ExtractionTypes, SequentialShape, Open
<1>3. /\ at \notin 1..(at - 1) /\ (1..(at - 1)) \cup {at} = 1..at /\ (at + 1) - 1 = at
      /\ at + 1 \in 1..(Calls + 1) /\ at \in 1..at
  BY <1>2, LlmCallAssumption
<1>4. \A c \in 1..at : c = at \/ c \in 1..(at - 1)
  BY <1>2
<1>5. /\ DOMAIN settled' = 1..at /\ settled'[at] = Outcome(Kept(head[at], r, TRUE))
      /\ \A c \in 1..(at - 1) : settled'[c] = settled[c]
      /\ DOMAIN second' = 1..at /\ second'[at] = r
      /\ \A c \in 1..(at - 1) : second'[c] = second[c]
  BY <1>1, <1>2, <1>3
<1>6. ExtractionTypes'
  <2>1. ExtractionTypes
    BY DEF ExtractionInv
  <2> QED
    BY <1>1, <1>2, <1>3, <1>4, <1>5, <2>1, AnswersAre DEF ExtractionTypes, SequentialShape
<1>7. Retryable(head[at]) = TRUE
  BY <1>2 DEF Retryable
<1>8. tally' = CountsOver(head', second', 1..at)
  <2>1. tally' = Tallied(tally, head'[at], second'[at], Retryable(head'[at]))
    BY <1>1, <1>5, <1>7
  <2>2. \A c \in 1..(at - 1) : head'[c] = head[c] /\ second'[c] = second[c]
    BY <1>1, <1>5
  <2> QED
    BY <1>1, <1>2, <2>1, <2>2, TallyGoesOn
<1>9. SettledAsKept'
  <2>1. settled'[at] = Outcome(KeptOf(head', second', at))
    BY <1>1, <1>5, <1>7 DEF KeptOf
  <2>2. \A c \in 1..(at - 1) : settled'[c] = Outcome(KeptOf(head', second', c))
    BY <1>1, <1>2, <1>5 DEF ExtractionInv, SettledAsKept, KeptOf
  <2> QED
    BY <1>4, <1>5, <1>8, <2>1, <2>2 DEF SettledAsKept
<1>10. RecordsReplies'
  <2> SUFFICES ASSUME pass = 1 PROVE RecordsReplies'
    BY <1>1 DEF RecordsReplies
  <2>1. /\ \A k \in DOMAIN cache :
              k # Key(at, "retry") => k \in DOMAIN cache' /\ cache'[k] = cache[k]
        /\ IsReply(r) => Key(at, "retry") \in DOMAIN cache'
                         /\ cache'[Key(at, "retry")].reply = r
    BY <1>1, <1>2, AskRecords
  <2>2. RecordsReplies
    BY DEF ExtractionInv
  <2> QED
    BY <1>1, <1>2, <1>3, <1>4, <1>5, <2>1, <2>2, KeysDiffer DEF RecordsReplies, RecordedHead
<1>11. ReplaysRecords'
  <2> SUFFICES ASSUME pass = 2 PROVE ReplaysRecords'
    BY <1>1 DEF ReplaysRecords
  <2>1. CacheKept /\ (~Metered /\ Key(at, "retry") \in DOMAIN cache => r = cache[Key(at, "retry")].reply)
    BY <1>1, <1>2, AskRecords
  <2>2. ReplaysRecords
    BY DEF ExtractionInv
  <2>3. \A c \in DOMAIN before :
          /\ RecordedHead(c)' = RecordedHead(c) /\ RecordedSecond(c)' = RecordedSecond(c)
          /\ Key(c, "first") \in DOMAIN cache'
          /\ Retryable(RecordedHead(c)) => Key(c, "retry") \in DOMAIN cache'
          /\ before[c] = Outcome(Kept(RecordedHead(c), RecordedSecond(c), Retryable(RecordedHead(c))))
    BY <2>1, <2>2, RecordsStay
  <2>4. ~Metered => \A c \in DOMAIN before :
          /\ c \in DOMAIN head' => head'[c] = RecordedHead(c)
          /\ c \in DOMAIN second' => second'[c] = RecordedSecond(c)
    BY <1>1, <1>2, <1>3, <1>4, <1>5, <2>1, <2>2 DEF ReplaysRecords, RecordedSecond
  <2>5. before' = before /\ Metered' = Metered /\ pass' = pass
    BY <1>1 DEF Metered
  <2> QED
    BY <2>3, <2>4, <2>5 DEF ReplaysRecords
<1> QED
  BY <1>6, <1>9, <1>10, <1>11 DEF ExtractionInv

-----------------------------------------------------------------------------
\* The pooled path

\* What a group leaves in the cache: while recording, the replies it brought, and in a replay
\* nothing of what was recorded changes.
LEMMA GroupRecords ==
    ASSUME NEW f, Group(f), pass \in {1, 2}
    PROVE  /\ pass = 2 => CacheKept
           /\ pass = 2 /\ ~Metered => \A c \in GroupNow : Key(c, budget) \in DOMAIN cache =>
                 f[c] = cache[Key(c, budget)].reply
           /\ pass = 1 =>
                 /\ \A k \in DOMAIN cache : (\A c \in GroupNow : k # Key(c, budget)) =>
                       k \in DOMAIN cache' /\ cache'[k] = cache[k]
                 /\ \A c \in GroupNow : IsReply(f[c]) =>
                       Key(c, budget) \in DOMAIN cache' /\ cache'[Key(c, budget)].reply = f[c]
<1> DEFINE answered == {c \in Misses \cap Admitted : IsReply(f[c])}
           new == {Key(c, budget) : c \in answered}
<1>1. cache' = Recordings(f, answered)
  BY DEF Group
<1>2. /\ answered \subseteq GroupNow
      /\ \A c \in GroupNow : c \in answered <=> ~Recorded(c, budget) /\ c \in Admitted /\ IsReply(f[c])
  BY DEF Misses, Hits
<1>3. \A c \in GroupNow : /\ c \notin Admitted => f[c] = Unanswered
                          /\ c \in Hits \cap Admitted => f[c] = cache[Key(c, budget)].reply
  BY DEF Group
<1> HIDE DEF answered
<1>4. /\ DOMAIN cache' = DOMAIN cache \cup new
      /\ \A k \in DOMAIN cache : k \notin new => cache'[k] = cache[k]
      /\ \A k \in new : cache'[k].reply = f[k[1]]
  <2>1. \E t : cache' = [k \in DOMAIN cache \cup new |->
                            IF k \in new THEN Entry(f[k[1]], t[k]) ELSE cache[k]]
    <3> DEFINE tokens(c) == IF Batched
                     THEN Share(SumTokens(f, Misses), Cardinality(answered), Rank(c, answered))
                     ELSE Tokens(f[c])
               t == [k \in new |-> tokens(k[1])]
    <3>1. cache' = [k \in DOMAIN cache \cup new |->
                            IF k \in new THEN Entry(f[k[1]], tokens(k[1])) ELSE cache[k]]
      BY <1>1 DEF Recordings
    <3>2. \A k \in new : t[k] = tokens(k[1])
      OBVIOUS
    <3> HIDE DEF tokens, t, new
    <3>3. cache' = [k \in DOMAIN cache \cup new |->
                            IF k \in new THEN Entry(f[k[1]], t[k]) ELSE cache[k]]
      BY <3>1, <3>2
    <3> QED
      BY <3>3 DEF new
  <2>2. PICK t : cache' = [k \in DOMAIN cache \cup new |->
                            IF k \in new THEN Entry(f[k[1]], t[k]) ELSE cache[k]]
    BY <2>1
  <2> HIDE DEF new
  <2> QED
    BY <2>2 DEF Entry
<1>5. \A c \in answered : Key(c, budget) \in new /\ Key(c, budget)[1] = c
  BY DEF Key
<1>6. \A k \in new : \E c \in GroupNow : k = Key(c, budget) /\ ~Recorded(c, budget)
  BY <1>2
<1> HIDE DEF new
<1>7. pass = 2 => CacheKept
  <2> SUFFICES ASSUME pass = 2 PROVE CacheKept
    OBVIOUS
  <2>1. \A k \in new : k \notin DOMAIN cache
    BY <1>6 DEF Recorded
  <2> QED
    BY <1>4, <2>1 DEF CacheKept
<1>8. pass = 2 /\ ~Metered => \A c \in GroupNow : Key(c, budget) \in DOMAIN cache =>
                 f[c] = cache[Key(c, budget)].reply
  <2> SUFFICES ASSUME pass = 2, ~Metered, NEW c \in GroupNow, Key(c, budget) \in DOMAIN cache
               PROVE  f[c] = cache[Key(c, budget)].reply
    OBVIOUS
  <2>1. c \in Hits /\ c \in Admitted
    BY DEF Hits, Recorded, Admitted
  <2> QED
    BY <1>3, <2>1
<1>9. pass = 1 => /\ \A k \in DOMAIN cache : (\A c \in GroupNow : k # Key(c, budget)) =>
                        k \in DOMAIN cache' /\ cache'[k] = cache[k]
                  /\ \A c \in GroupNow : IsReply(f[c]) =>
                        Key(c, budget) \in DOMAIN cache' /\ cache'[Key(c, budget)].reply = f[c]
  <2> SUFFICES ASSUME pass = 1
               PROVE  /\ \A k \in DOMAIN cache : (\A c \in GroupNow : k # Key(c, budget)) =>
                            k \in DOMAIN cache' /\ cache'[k] = cache[k]
                      /\ \A c \in GroupNow : IsReply(f[c]) =>
                            Key(c, budget) \in DOMAIN cache' /\ cache'[Key(c, budget)].reply = f[c]
    OBVIOUS
  <2>1. \A c \in GroupNow : IsReply(f[c]) => c \in answered
    BY <1>2, <1>3, AnswersAre DEF Recorded
  <2>2. \A k \in DOMAIN cache : (\A c \in GroupNow : k # Key(c, budget)) => k \notin new
    BY <1>6
  <2> QED
    BY <1>4, <1>5, <2>1, <2>2
<1> QED
  BY <1>7, <1>8, <1>9

\* _pooled_extract sends a group.
LEMMA GroupSettles ==
    ASSUME ExtractionInv, NEW S, NEW f \in [S -> Answers], Group(f)
    PROVE  ExtractionInv'
<1>1. /\ path = "pooled" /\ Open /\ budget \in Budgets /\ DOMAIN f = GroupNow
      /\ UNCHANGED <<meter, pass, path, at, settled, tally, before>>
      /\ budget = "first" => head' = f /\ second' = second /\ budget' = "retry"
      /\ budget # "first" => /\ head' = head /\ budget' = "settle"
                             /\ second' = [c \in CallNo |-> IF c \in GroupNow THEN f[c] ELSE None]
  BY DEF Group
<1>2. /\ at = 1 /\ pass \in {1, 2} /\ DOMAIN settled = {} /\ DOMAIN second = {}
      /\ budget = "first" => DOMAIN head = {}
      /\ budget # "first" => budget = "retry" /\ DOMAIN head = CallNo
  BY <1>1, LlmCallAssumption DEF ExtractionInv, ExtractionTypes, PooledShape, Open, Budgets
<1>3. /\ budget = "first" => GroupNow = CallNo
      /\ budget # "first" => GroupNow = {c \in CallNo : Retryable(head[c])}
      /\ GroupNow \subseteq CallNo
  BY DEF GroupNow
<1>4. \A c \in GroupNow : f[c] \in Answers
  BY <1>1
<1>5. ExtractionTypes'
  <2>1. ExtractionTypes
    BY DEF ExtractionInv
  <2>2. CASE budget = "first"
    BY <1>1, <1>2, <1>3, <1>4, <2>1, <2>2 DEF ExtractionTypes, PooledShape
  <2>3. CASE budget # "first"
    <3>1. \A c \in CallNo : /\ second'[c] \in Answers \cup {None}
                            /\ second'[c] # None <=> Retryable(head[c])
      BY <1>1, <1>3, <1>4, <2>3, AnswersAre
    <3>2. DOMAIN second' = CallNo
      BY <1>1, <2>3
    <3> QED
      BY <1>1, <1>2, <2>1, <2>3, <3>1, <3>2 DEF ExtractionTypes, PooledShape
  <2> QED
    BY <2>2, <2>3
<1>6. SettledAsKept'
  BY <1>1, <1>2, CountsStart DEF ExtractionInv, SettledAsKept
<1>7. RecordsReplies'
  <2> SUFFICES ASSUME pass = 1 PROVE RecordsReplies'
    BY <1>1 DEF RecordsReplies
  <2>1. /\ \A k \in DOMAIN cache : (\A c \in GroupNow : k # Key(c, budget)) =>
                k \in DOMAIN cache' /\ cache'[k] = cache[k]
        /\ \A c \in GroupNow : IsReply(f[c]) =>
                Key(c, budget) \in DOMAIN cache' /\ cache'[Key(c, budget)].reply = f[c]
    BY <1>2, GroupRecords
  <2>2. RecordsReplies
    BY DEF ExtractionInv
  <2>3. CASE budget = "first"
    BY <1>1, <1>2, <2>1, <2>2, <2>3 DEF RecordsReplies, RecordedHead
  <2>4. CASE budget # "first"
    <3>1. \A c \in CallNo : IsReply(second'[c]) => c \in GroupNow /\ second'[c] = f[c]
      BY <1>1, <2>4, AnswersAre
    <3>2. DOMAIN second' = CallNo
      BY <1>1, <2>4
    <3>3. \A c, d : Key(c, "first") # Key(d, budget)
      BY <1>2, <2>4, KeysDiffer
    <3> QED
      BY <1>1, <1>2, <2>1, <2>2, <2>4, <3>1, <3>2, <3>3 DEF RecordsReplies, RecordedHead
  <2> QED
    BY <2>3, <2>4
<1>8. ReplaysRecords'
  <2> SUFFICES ASSUME pass = 2 PROVE ReplaysRecords'
    BY <1>1 DEF ReplaysRecords
  <2>1. CacheKept /\ (~Metered => \A c \in GroupNow : Key(c, budget) \in DOMAIN cache =>
                                     f[c] = cache[Key(c, budget)].reply)
    BY <1>2, GroupRecords
  <2>2. ReplaysRecords
    BY DEF ExtractionInv
  <2>3. \A c \in DOMAIN before :
          /\ RecordedHead(c)' = RecordedHead(c) /\ RecordedSecond(c)' = RecordedSecond(c)
          /\ Key(c, "first") \in DOMAIN cache'
          /\ Retryable(RecordedHead(c)) => Key(c, "retry") \in DOMAIN cache'
          /\ before[c] = Outcome(Kept(RecordedHead(c), RecordedSecond(c), Retryable(RecordedHead(c))))
    BY <2>1, <2>2, RecordsStay
  <2>4. ~Metered => \A c \in DOMAIN before :
          /\ c \in DOMAIN head' => head'[c] = RecordedHead(c)
          /\ c \in DOMAIN second' => second'[c] = RecordedSecond(c)
    <3> SUFFICES ASSUME ~Metered, NEW c \in DOMAIN before
                 PROVE  /\ c \in DOMAIN head' => head'[c] = RecordedHead(c)
                        /\ c \in DOMAIN second' => second'[c] = RecordedSecond(c)
      OBVIOUS
    <3>1. /\ Key(c, "first") \in DOMAIN cache
          /\ Retryable(RecordedHead(c)) => Key(c, "retry") \in DOMAIN cache
          /\ c \in DOMAIN head => head[c] = RecordedHead(c)
      BY <2>2 DEF ReplaysRecords
    <3>2. CASE budget = "first"
      BY <1>1, <1>2, <1>3, <2>1, <3>1, <3>2 DEF RecordedHead
    <3>3. CASE budget # "first"
      <4>1. head' = head
        BY <1>1, <3>3
      <4>2. c \in CallNo => second'[c] = IF Retryable(head[c]) THEN f[c] ELSE None
        BY <1>1, <1>3, <3>3
      <4>3. c \in CallNo /\ Retryable(head[c]) => f[c] = cache[Key(c, "retry")].reply
        BY <1>2, <1>3, <2>1, <3>1, <3>3
      <4>4. DOMAIN second' = CallNo
        BY <1>1, <3>3
      <4> QED
        BY <1>2, <3>1, <3>3, <4>1, <4>2, <4>3, <4>4 DEF RecordedSecond
    <3> QED
      BY <3>2, <3>3
  <2>5. before' = before /\ Metered' = Metered /\ pass' = pass
    BY <1>1 DEF Metered
  <2> QED
    BY <2>3, <2>4, <2>5 DEF ReplaysRecords
<1> QED
  BY <1>5, <1>6, <1>7, <1>8 DEF ExtractionInv

\* No call is retried.
LEMMA NoRetryGroupSettles == ASSUME ExtractionInv, NoRetryGroup PROVE ExtractionInv'
<1>1. /\ path = "pooled" /\ Open /\ budget = "retry" /\ GroupNow = {}
      /\ second' = [c \in CallNo |-> None] /\ budget' = "settle"
      /\ UNCHANGED <<meter, pass, path, at, head, settled, tally, cache, before>>
  BY DEF NoRetryGroup
<1>2. at = 1 /\ DOMAIN settled = {} /\ DOMAIN head = CallNo /\ DOMAIN second = {}
  BY <1>1, LlmCallAssumption DEF ExtractionInv, ExtractionTypes, PooledShape, Open
<1>3. \A c \in CallNo : ~Retryable(head[c])
  BY <1>1 DEF GroupNow
<1>4. DOMAIN second' = CallNo /\ \A c \in CallNo : second'[c] = None
  BY <1>1
<1>5. ExtractionTypes'
  BY <1>1, <1>2, <1>3, <1>4 DEF ExtractionInv, ExtractionTypes, PooledShape
<1>6. SettledAsKept'
  BY <1>1, <1>2, CountsStart DEF ExtractionInv, SettledAsKept
<1>7. RecordsReplies'
  BY <1>1, <1>4, AnswersAre DEF ExtractionInv, RecordsReplies, RecordedHead
<1>8. ReplaysRecords'
  <2>1. ReplaysRecords /\ Metered' = Metered
    BY <1>1 DEF ExtractionInv, Metered
  <2>2. \A c : RecordedHead(c)' = RecordedHead(c) /\ RecordedSecond(c)' = RecordedSecond(c)
    BY <1>1 DEF RecordedHead, RecordedSecond
  <2>3. ~Metered /\ pass = 2 => \A c \in DOMAIN before :
            c \in CallNo => second'[c] = RecordedSecond(c)
    BY <1>2, <1>3, <1>4, <2>1 DEF ReplaysRecords, RecordedSecond
  <2> QED
    BY <1>1, <1>4, <2>1, <2>2, <2>3 DEF ReplaysRecords
<1> QED
  BY <1>5, <1>6, <1>7, <1>8 DEF ExtractionInv

\* A set of numbers that has a member has a least one.
LEMMA LeastIs ==
    ASSUME NEW S \in SUBSET Nat, S # {}
    PROVE  \E i \in S : \A j \in S : i <= j
<1>1. IsWellFoundedOn(OpToRel(<, Nat), Nat)
  BY NatLessThanWellFounded
<1>2. PICK i \in S : \A j \in S : ~(<<j, i>> \in OpToRel(<, Nat))
  BY <1>1, WFMin
<1>3. ASSUME NEW j \in S, j < i PROVE FALSE
  <2>1. <<j, i>> \in OpToRel(<, Nat)
    BY <1>3 DEF OpToRel
  <2> QED
    BY <1>2, <2>1
<1>4. \A j \in S : i <= j
  BY <1>3
<1> QED
  BY <1>4

\* Induction up to a bound, over a set of numbers.
LEMMA UpToBound ==
    ASSUME NEW L \in Nat, NEW S, 0 \in S, \A i \in 1..L : i - 1 \in S => i \in S
    PROVE  \A i \in 0..L : i \in S
<1> DEFINE bad == {i \in 0..L : i \notin S}
<1>1. ASSUME bad # {} PROVE FALSE
  <2>1. bad \in SUBSET Nat
    OBVIOUS
  <2>2. \E i \in bad : \A j \in bad : i <= j
    <3> HIDE DEF bad
    <3> QED
      BY <1>1, <2>1, LeastIs
  <2>3. PICK i \in bad : \A j \in bad : i <= j
    BY <2>2
  <2>4. i \in 1..L /\ i - 1 \in 0..L
    BY <2>3
  <2>5. i - 1 \in bad \/ i - 1 \in S
    BY <2>4
  <2>6. i - 1 \notin bad
    BY <2>3, <2>4
  <2> QED
    BY <2>3, <2>4, <2>5, <2>6
<1> QED
  BY <1>1

\* The running tally of a group that settles: a function whose value at a call is told by the
\* one before.
LEMMA TalliesAre ==
    \E t : /\ t = [c \in 0..Calls |-> IF c = 0 THEN tally
                                      ELSE Tallied(t[c - 1], head[c], second[c], Retryable(head[c]))]
           /\ Tallies = t[Calls]
<1> DEFINE Filled(t, c) == IF c = 0 THEN tally
                         ELSE Tallied(t[c - 1], head[c], second[c], Retryable(head[c]))
           Is(t, m) == t = [c \in 0..m |-> Filled(t, c)]
           good == {m \in 0..Calls : \E t : Is(t, m)}
<1>1. 0 \in good
  <2>1. Is([c \in 0..0 |-> tally], 0)
    OBVIOUS
  <2>2. 0 \in 0..Calls
    BY LlmCallAssumption
  <2> HIDE DEF Is
  <2> QED
    BY <2>1, <2>2
<1>2. ASSUME NEW m \in 1..Calls, m - 1 \in good PROVE m \in good
  <2>1. PICK t : Is(t, m - 1)
    BY <1>2
  <2>2. m \in Nat /\ m \in 0..Calls
    BY LlmCallAssumption
  <2> DEFINE g == [c \in 0..m |-> IF c = m THEN Filled(t, m) ELSE t[c]]
  <2>3. ASSUME NEW c \in 0..m PROVE g[c] = Filled(g, c)
    <3>1. CASE c = m
      BY <2>2, <3>1
    <3>2. CASE c # m
      <4>1. c \in 0..(m - 1) /\ g[c] = t[c]
        BY <2>2, <3>2
      <4>2. c # 0 => g[c - 1] = t[c - 1]
        BY <4>1
      <4>3. t[c] = Filled(t, c)
        BY <2>1, <4>1
      <4> HIDE DEF g
      <4> QED
        BY <4>1, <4>2, <4>3
    <3> QED
      BY <3>1, <3>2
  <2>4. Is(g, m)
    BY <2>3
  <2> HIDE DEF Is, g
  <2> QED
    BY <2>2, <2>4
<1>3. Calls \in good
  <2> HIDE DEF good
  <2>1. Calls \in Nat
    BY LlmCallAssumption
  <2>2. \A i \in 0..Calls : i \in good
    BY <1>1, <1>2, <2>1, UpToBound
  <2> QED
    BY <2>1, <2>2
<1>4. \E t : Is(t, Calls)
  BY <1>3
<1>5. Tallies = (CHOOSE t : Is(t, Calls))[Calls]
  BY DEF Tallies
<1> DEFINE u == CHOOSE t : Is(t, Calls)
<1> HIDE DEF Is
<1>6. Is(u, Calls)
  BY <1>4
<1>7. Tallies = u[Calls]
  BY <1>5
<1> HIDE DEF u
<1> QED
  BY <1>6, <1>7 DEF Is

\* Counted one after the other, the calls of a group are counted each once.
LEMMA TalliesCount ==
    ASSUME tally = NoTally
    PROVE  Tallies = CountsOver(head, second, CallNo)
<1>1. PICK t : /\ t = [c \in 0..Calls |-> IF c = 0 THEN tally
                                          ELSE Tallied(t[c - 1], head[c], second[c], Retryable(head[c]))]
               /\ Tallies = t[Calls]
  BY TalliesAre
<1> DEFINE good == {n \in 0..Calls : t[n] = CountsOver(head, second, 1..n)}
<1>2. Calls \in Nat
  BY LlmCallAssumption
<1>3. 0 \in good
  <2>1. t[0] = NoTally
    BY <1>1, <1>2
  <2>2. 1..0 = {}
    OBVIOUS
  <2> QED
    BY <1>2, <2>1, <2>2, CountsStart
<1>4. ASSUME NEW n \in 1..Calls, n - 1 \in good PROVE n \in good
  <2>1. t[n] = Tallied(t[n - 1], head[n], second[n], Retryable(head[n]))
    BY <1>1, <1>2
  <2>2. t[n - 1] = CountsOver(head, second, 1..(n - 1))
    BY <1>4
  <2>3. IsFiniteSet(1..(n - 1)) /\ n \notin 1..(n - 1) /\ 1..n = (1..(n - 1)) \cup {n}
    BY <1>2, FS_Interval
  <2>4. CountsOver(head, second, 1..n) =
            Tallied(CountsOver(head, second, 1..(n - 1)), head[n], second[n], Retryable(head[n]))
    <3> DEFINE S == 1..(n - 1)
    <3> HIDE DEF S
    <3>1. CountsOver(head, second, S \cup {n}) =
              Tallied(CountsOver(head, second, S), head[n], second[n], Retryable(head[n]))
      BY <2>3, CountsGrow DEF S
    <3> QED
      BY <2>3, <3>1 DEF S
  <2> QED
    BY <1>2, <2>1, <2>2, <2>4
<1> HIDE DEF good
<1>5. \A n \in 0..Calls : n \in good
  BY <1>2, <1>3, <1>4, UpToBound
<1> QED
  BY <1>1, <1>2, <1>5 DEF good, CallNo

\* The group settles.
LEMMA SettleGroupSettles == ASSUME ExtractionInv, SettleGroup PROVE ExtractionInv'
<1>1. /\ path = "pooled" /\ Open /\ budget = "settle"
      /\ settled' = [c \in CallNo |-> Outcome(Kept(head[c], second[c], Retryable(head[c])))]
      /\ tally' = Tallies /\ at' = Calls + 1 /\ budget' = "first"
      /\ UNCHANGED <<meter, pass, path, head, second, cache, before>>
  BY DEF SettleGroup
<1>2. at = 1 /\ DOMAIN settled = {} /\ DOMAIN head = CallNo /\ DOMAIN second = CallNo
  BY <1>1, LlmCallAssumption DEF ExtractionInv, ExtractionTypes, PooledShape, Open
<1>3. DOMAIN settled' = CallNo /\ \A c \in CallNo : settled'[c] = Outcome(KeptOf(head, second, c))
  BY <1>1 DEF KeptOf
<1>4. ExtractionTypes'
  BY <1>1, <1>2, <1>3, LlmCallAssumption DEF ExtractionInv, ExtractionTypes, PooledShape
<1>5. tally' = CountsOver(head, second, CallNo)
  <2>1. tally = NoTally
    BY <1>2, CountsStart DEF ExtractionInv, SettledAsKept
  <2> QED
    BY <1>1, <2>1, TalliesCount
<1>6. SettledAsKept'
  BY <1>1, <1>3, <1>5 DEF SettledAsKept, KeptOf
<1>7. RecordsReplies' /\ ReplaysRecords'
  BY <1>1 DEF ExtractionInv, RecordsReplies, ReplaysRecords, RecordedHead, RecordedSecond, Metered
<1> QED
  BY <1>4, <1>6, <1>7 DEF ExtractionInv

\* A pass ends, whole or cut short, and the next begins: what was recorded whole is replayable.
LEMMA NextPassSettles == ASSUME ExtractionInv, NextPass PROVE ExtractionInv'
<1>1. /\ pass = 1 /\ pass' = 2 /\ path' \in {"sequential", "pooled"}
      /\ at' = 1 /\ budget' = "first" /\ tally' = NoTally
      /\ head' = <<>> /\ second' = <<>> /\ settled' = <<>>
      /\ UNCHANGED <<meter, cache>>
  BY DEF NextPass
<1>2. DOMAIN head' = {} /\ DOMAIN second' = {} /\ DOMAIN settled' = {} /\ {} = 1..(at' - 1)
  BY <1>1
<1>3. ExtractionTypes'
  BY <1>1, <1>2, LlmCallAssumption DEF ExtractionTypes, SequentialShape, PooledShape
<1>4. SettledAsKept'
  BY <1>1, <1>2, CountsStart DEF SettledAsKept
<1>5. RecordsReplies'
  BY <1>1 DEF RecordsReplies
<1>6. ASSUME NEW c \in DOMAIN before'
      PROVE  /\ Key(c, "first") \in DOMAIN cache
             /\ Retryable(RecordedHead(c)) => Key(c, "retry") \in DOMAIN cache
             /\ before'[c] = Outcome(Kept(RecordedHead(c), RecordedSecond(c), Retryable(RecordedHead(c))))
  <2>1. /\ c \in DOMAIN settled /\ IsReply(head[c]) /\ (second[c] = None \/ IsReply(second[c]))
        /\ before'[c] = settled[c]
    BY DEF NextPass
  <2>2. c \in DOMAIN head /\ c \in DOMAIN second
    BY <2>1, LlmCallAssumption DEF ExtractionInv, ExtractionTypes, SequentialShape, PooledShape
  <2>3. Key(c, "first") \in DOMAIN cache /\ RecordedHead(c) = head[c]
    BY <1>1, <2>1, <2>2 DEF ExtractionInv, RecordsReplies
  <2>4. second[c] # None <=> Retryable(head[c])
    BY <2>2 DEF ExtractionInv, ExtractionTypes
  <2>5. Retryable(head[c]) => Key(c, "retry") \in DOMAIN cache /\ cache[Key(c, "retry")].reply = second[c]
    BY <1>1, <2>1, <2>2, <2>4 DEF ExtractionInv, RecordsReplies
  <2>6. RecordedSecond(c) = second[c]
    BY <2>3, <2>4, <2>5 DEF RecordedSecond
  <2>7. settled[c] = Outcome(Kept(head[c], second[c], Retryable(head[c])))
    BY <2>1 DEF ExtractionInv, SettledAsKept, KeptOf
  <2> QED
    BY <2>1, <2>3, <2>5, <2>6, <2>7
<1>7. ReplaysRecords'
  <2>1. \A c : RecordedHead(c)' = RecordedHead(c) /\ RecordedSecond(c)' = RecordedSecond(c)
    BY <1>1 DEF RecordedHead, RecordedSecond
  <2> QED
    BY <1>1, <1>2, <1>6, <2>1 DEF ReplaysRecords
<1> QED
  BY <1>3, <1>4, <1>5, <1>7 DEF ExtractionInv

LEMMA ExtractionStarts == ASSUME ExtractionInit PROVE ExtractionInv
<1>1. /\ pass = 1 /\ path \in {"sequential", "pooled"} /\ at = 1 /\ budget = "first"
      /\ head = <<>> /\ second = <<>> /\ settled = <<>> /\ tally = NoTally /\ before = <<>>
  BY DEF ExtractionInit
<1>2. DOMAIN head = {} /\ DOMAIN second = {} /\ DOMAIN settled = {} /\ DOMAIN before = {}
      /\ {} = 1..(at - 1)
  BY <1>1
<1>3. ExtractionTypes
  BY <1>1, <1>2, LlmCallAssumption DEF ExtractionTypes, SequentialShape, PooledShape
<1>4. SettledAsKept
  BY <1>1, <1>2, CountsStart DEF SettledAsKept
<1>5. RecordsReplies /\ ReplaysRecords
  BY <1>1, <1>2 DEF RecordsReplies, ReplaysRecords
<1> QED
  BY <1>3, <1>4, <1>5 DEF ExtractionInv

\* Every step of a pass.
LEMMA ExtractionSettles ==
    ASSUME ExtractionInv, [ExtractionNext]_extractionCalls PROVE ExtractionInv'
<1>1. ASSUME UNCHANGED <<meter, pass, path, at, budget, head, second, settled, tally, cache, before>>
      PROVE  ExtractionInv'
  BY <1>1 DEF ExtractionInv, ExtractionTypes, SequentialShape, PooledShape, SettledAsKept, KeptOf,
              CountsOver, RecordsReplies, ReplaysRecords, RecordedHead, RecordedSecond, Metered
<1>2. CASE UNCHANGED extractionCalls
  BY <1>1, <1>2 DEF extractionCalls
<1>3. CASE WaitLimit
  BY <1>1, <1>3 DEF WaitLimit
<1>4. CASE \E r \in Answers : AskFirst(r) \/ AskAgain(r)
  BY <1>4, AskFirstSettles, AskAgainSettles
<1>5. CASE \E S \in SUBSET CallNo : \E f \in [S -> Answers] : Group(f)
  BY <1>5, GroupSettles
<1>6. CASE NoRetryGroup \/ SettleGroup
  BY <1>6, NoRetryGroupSettles, SettleGroupSettles
<1>7. CASE EndPass \/ AccountFailure
  BY <1>7, NextPassSettles DEF EndPass, AccountFailure
<1> QED
  BY <1>2, <1>3, <1>4, <1>5, <1>6, <1>7 DEF ExtractionNext

\* Of two replies, the one that is kept.
LEMMA KeptIsMost ==
    ASSUME NEW h \in Answers, NEW s \in Answers \cup {None}, s # None <=> Retryable(h)
    PROVE  LET got == {r \in {h, s} : IsReply(r)}
               most == CHOOSE r \in got : \A q \in got : q.n <= r.n
               kept == Outcome(Kept(h, s, Retryable(h)))
           IN  /\ kept.n = (IF got = {} THEN 0 ELSE most.n)
               /\ kept.transient <=>
                     \/ got = {}
                     \/ IsReply(s) /\ s.n >= h.n /\ s.shape = "unparsed"
                     \/ ~IsReply(s) /\ h.shape = "unparsed"
<1> DEFINE got == {r \in {h, s} : IsReply(r)}
           most == CHOOSE r \in got : \A q \in got : q.n <= r.n
<1>1. \A r \in Answers \cup {None} :
         /\ r.n \in {0, 1}
         /\ r.shape \in {"complete", "truncated", "unparsed", "failed", "empty", "refused", "none"}
         /\ IsReply(r) <=> r.shape \in {"complete", "truncated", "unparsed"}
         /\ ~IsReply(r) \/ r.shape = "unparsed" => r.n = 0
  BY DEF Answers, Replies, Reply, Unanswered, Empty, Refused, None, IsReply
<1>2. Kept(h, s, Retryable(h)) \in {h, s}
  BY DEF Kept, Better
<1>3. \A r : Outcome(r).n = r.n /\ (Outcome(r).transient <=> r.shape # "complete" /\ r.shape # "truncated")
  BY DEF Outcome
<1>4. ASSUME NEW m \in got, \A q \in got : q.n <= m.n PROVE most.n = m.n
  <2>1. most \in got /\ \A q \in got : q.n <= most.n
    BY <1>4
  <2>2. got \subseteq Answers \cup {None}
    OBVIOUS
  <2> HIDE DEF most, got
  <2>3. most.n \in Nat /\ m.n \in Nat /\ most.n <= m.n /\ m.n <= most.n
    BY <1>1, <1>4, <2>1, <2>2
  <2> QED
    BY <2>3
<1>5. got # {} <=> IsReply(h) \/ IsReply(s)
  OBVIOUS
<1>6. CASE ~Retryable(h) \/ ~IsReply(s)
  <2>1. Kept(h, s, Retryable(h)) = h /\ ~IsReply(s)
    BY <1>6, AnswersAre DEF Kept, Better
  <2>2. IsReply(h) => h \in got /\ \A q \in got : q = h
    BY <2>1
  <2>3. IsReply(h) => most.n = h.n
    BY <1>1, <1>4, <2>2
  <2> HIDE DEF most, got
  <2> QED
    BY <1>1, <1>3, <1>5, <2>1, <2>3 DEF got, most
<1>7. CASE Retryable(h) /\ IsReply(s) /\ IsReply(h) /\ h.n > s.n
  <2>1. Kept(h, s, Retryable(h)) = h
    BY <1>7 DEF Kept, Better
  <2>2. h \in got /\ \A q \in got : q.n <= h.n
    BY <1>1, <1>7
  <2>3. most.n = h.n
    BY <1>4, <2>2
  <2> HIDE DEF most, got
  <2>4. ~(s.n >= h.n) /\ h.shape \in {"complete", "truncated"} /\ got # {}
    BY <1>1, <1>5, <1>7
  <2>5. Outcome(h).n = most.n /\ ~Outcome(h).transient
    BY <1>3, <2>3, <2>4
  <2> QED
    BY <1>7, <2>1, <2>4, <2>5 DEF got, most
<1>8. CASE Retryable(h) /\ IsReply(s) /\ ~(IsReply(h) /\ h.n > s.n)
  <2>1. Kept(h, s, Retryable(h)) = s
    BY <1>8 DEF Kept, Better
  <2>2. s \in got /\ \A q \in got : q.n <= s.n
    BY <1>1, <1>8
  <2>3. most.n = s.n
    BY <1>4, <2>2
  <2> HIDE DEF most, got
  <2>4. s.n >= h.n /\ got # {}
    BY <1>1, <1>5, <1>8
  <2>5. Outcome(s).n = most.n /\ (Outcome(s).transient <=> s.shape = "unparsed")
    BY <1>1, <1>3, <1>8, <2>3
  <2> QED
    BY <1>8, <2>1, <2>4, <2>5 DEF got, most
<1> QED
  BY <1>6, <1>7, <1>8

LEMMA RepliesAreSettled == ASSUME ExtractionInv PROVE RepliesSettle
<1>1. ASSUME NEW c \in DOMAIN settled
      PROVE  LET got == {r \in {head[c], second[c]} : IsReply(r)}
                 most == CHOOSE r \in got : \A s \in got : s.n <= r.n
             IN  /\ second[c] # None <=> Retryable(head[c])
                 /\ settled[c].n = (IF got = {} THEN 0 ELSE most.n)
                 /\ settled[c].transient <=>
                       \/ got = {}
                       \/ IsReply(second[c]) /\ second[c].n >= head[c].n
                             /\ second[c].shape = "unparsed"
                       \/ ~IsReply(second[c]) /\ head[c].shape = "unparsed"
  <2>1. c \in DOMAIN head /\ c \in DOMAIN second
    BY LlmCallAssumption DEF ExtractionInv, ExtractionTypes, SequentialShape, PooledShape
  <2>2. /\ head[c] \in Answers /\ second[c] \in Answers \cup {None}
        /\ second[c] # None <=> Retryable(head[c])
    BY <2>1 DEF ExtractionInv, ExtractionTypes
  <2>3. settled[c] = Outcome(Kept(head[c], second[c], Retryable(head[c])))
    BY DEF ExtractionInv, SettledAsKept, KeptOf
  <2> QED
    <3> DEFINE h == head[c]
               s == second[c]
    <3>1. h \in Answers /\ s \in Answers \cup {None} /\ (s # None <=> Retryable(h))
      BY <2>2
    <3>2. settled[c] = Outcome(Kept(h, s, Retryable(h)))
      BY <2>3
    <3> HIDE DEF h, s
    <3>3. LET got == {r \in {h, s} : IsReply(r)}
              most == CHOOSE r \in got : \A q \in got : q.n <= r.n
              kept == Outcome(Kept(h, s, Retryable(h)))
          IN  /\ kept.n = (IF got = {} THEN 0 ELSE most.n)
              /\ kept.transient <=>
                    \/ got = {}
                    \/ IsReply(s) /\ s.n >= h.n /\ s.shape = "unparsed"
                    \/ ~IsReply(s) /\ h.shape = "unparsed"
      BY <3>1, KeptIsMost, Zenon
    <3>4. LET got == {r \in {h, s} : IsReply(r)}
              most == CHOOSE r \in got : \A q \in got : q.n <= r.n
          IN  /\ s # None <=> Retryable(h)
              /\ settled[c].n = (IF got = {} THEN 0 ELSE most.n)
              /\ settled[c].transient <=>
                    \/ got = {}
                    \/ IsReply(s) /\ s.n >= h.n /\ s.shape = "unparsed"
                    \/ ~IsReply(s) /\ h.shape = "unparsed"
      BY <3>1, <3>2, <3>3
    <3> QED
      BY <3>4 DEF h, s
<1> QED
  BY <1>1 DEF RepliesSettle

LEMMA TallyIsSplit == ASSUME ExtractionInv PROVE TallySplits
<1> SUFFICES ASSUME DOMAIN settled = CallNo
             PROVE  /\ tally.answered = Cardinality({c \in CallNo : IsReply(head[c]) \/ IsReply(second[c])})
                    /\ tally.refused = Cardinality({c \in CallNo : head[c] = Refused})
                    /\ tally.truncated <= tally.answered
                    /\ tally.retried = Cardinality({c \in CallNo : Retryable(head[c])})
  BY DEF TallySplits
<1>1. CallNo \subseteq DOMAIN head /\ CallNo \subseteq DOMAIN second
  BY LlmCallAssumption DEF ExtractionInv, ExtractionTypes, SequentialShape, PooledShape
<1>2. ASSUME NEW c \in CallNo
      PROVE  /\ IsReply(KeptOf(head, second, c)) <=> IsReply(head[c]) \/ IsReply(second[c])
             /\ head[c] = Refused => ~Retryable(head[c])
             /\ KeptOf(head, second, c).shape = "truncated" => IsReply(KeptOf(head, second, c))
  <2>1. /\ head[c] \in Answers /\ second[c] \in Answers \cup {None}
        /\ second[c] # None <=> Retryable(head[c])
    BY <1>1 DEF ExtractionInv, ExtractionTypes
  <2>2. IsReply(KeptOf(head, second, c)) <=> IsReply(head[c]) \/ IsReply(second[c])
    BY <2>1, AnswersAre DEF KeptOf, Kept, Better
  <2>3. KeptOf(head, second, c) \in Answers \cup {None}
    BY <2>1 DEF KeptOf, Kept, Better
  <2>4. KeptOf(head, second, c).shape = "truncated" => IsReply(KeptOf(head, second, c))
    BY <2>3 DEF Answers, Unanswered, Empty, Refused, None, Reply, IsReply
  <2> QED
    BY <2>2, <2>4, AnswersAre
<1> DEFINE A == {c \in CallNo : IsReply(KeptOf(head, second, c))}
           B == {c \in CallNo : KeptOf(head, second, c).shape = "truncated"}
<1>3. /\ tally.answered = Cardinality(A) /\ tally.truncated = Cardinality(B)
      /\ tally.retried = Cardinality({c \in CallNo : Retryable(head[c])})
      /\ tally.refused = Cardinality({c \in CallNo : ~Retryable(head[c]) /\ head[c] = Refused})
  BY DEF ExtractionInv, SettledAsKept, CountsOver
<1>4. A = {c \in CallNo : IsReply(head[c]) \/ IsReply(second[c])}
  BY <1>2
<1>5. {c \in CallNo : ~Retryable(head[c]) /\ head[c] = Refused} = {c \in CallNo : head[c] = Refused}
  BY <1>2
<1>6. B \subseteq A /\ A \subseteq CallNo
  BY <1>2
<1>7. IsFiniteSet(CallNo)
  BY LlmCallAssumption, FS_Interval DEF CallNo
<1> HIDE DEF A, B
<1>8. IsFiniteSet(A)
  BY <1>6, <1>7, FS_Subset
<1>9. Cardinality(B) <= Cardinality(A)
  BY <1>6, <1>8, FS_Subset
<1> QED
  BY <1>3, <1>4, <1>5, <1>9

LEMMA ReplaysReproduce == ASSUME ExtractionInv PROVE ReplayReproduces
<1> SUFFICES ASSUME pass = 2, ~Metered, NEW c \in DOMAIN settled \cap DOMAIN before
             PROVE  settled[c] = before[c]
  BY DEF ReplayReproduces
<1>1. c \in DOMAIN head /\ c \in DOMAIN second
  BY LlmCallAssumption DEF ExtractionInv, ExtractionTypes, SequentialShape, PooledShape
<1>2. /\ before[c] = Outcome(Kept(RecordedHead(c), RecordedSecond(c), Retryable(RecordedHead(c))))
      /\ head[c] = RecordedHead(c) /\ second[c] = RecordedSecond(c)
  BY <1>1 DEF ExtractionInv, ReplaysRecords
<1>3. settled[c] = Outcome(Kept(head[c], second[c], Retryable(head[c])))
  BY DEF ExtractionInv, SettledAsKept, KeptOf
<1> QED
  BY <1>2, <1>3

\* How far each path has come, that each settled call is counted once and settled by what was
\* kept of its two replies, and that while the first pass records every reply is in the
\* cache, from where an unmetered second pass is answered.
THEOREM ExtractionIsInvariant == ExtractionSpec => []ExtractionInv
<1>1. ExtractionInit => ExtractionInv
  BY ExtractionStarts
<1>2. ExtractionInv /\ [ExtractionNext]_extractionCalls => ExtractionInv'
  BY ExtractionSettles
<1> QED
  BY <1>1, <1>2, PTL DEF ExtractionSpec

\* The sequential call and its pooled twin settle a call, and are tallied, by one rule
\* (_call_llm, _pooled_extract, ReplyTally), and what was recorded whole settles the same
\* when it is replayed, on either path (ReplayingProvider).
THEOREM CallsSettleByOneRule == ExtractionSpec => []SettledByOneRule
<1>1. ExtractionInv => SettledByOneRule
  BY RepliesAreSettled, TallyIsSplit, ReplaysReproduce DEF SettledByOneRule
<1> QED
  BY <1>1, ExtractionIsInvariant, PTL

-----------------------------------------------------------------------------
\* The tokens a pass is billed

\* The units of f[j], and how a sum is taken apart.
Units(f, j) == {j} \X (1..f[j])

\* A place has as many units as its number says.
LEMMA UnitsAre ==
    ASSUME NEW f, NEW j, f[j] \in Nat
    PROVE  IsFiniteSet(Units(f, j)) /\ Cardinality(Units(f, j)) = f[j]
<1>1. IsFiniteSet({j}) /\ Cardinality({j}) = 1
  BY FS_Singleton
<1>2. IsFiniteSet(1..f[j]) /\ Cardinality(1..f[j]) = f[j]
  BY FS_Interval
<1>3. IsFiniteSet({j} \X (1..f[j])) /\ Cardinality({j} \X (1..f[j])) = 1 * f[j]
  BY <1>1, <1>2, FS_Product
<1> QED
  BY <1>3 DEF Units

\* A sum of finitely many numbers is a number.
LEMMA TotalIs ==
    ASSUME NEW D, IsFiniteSet(D), NEW f \in [D -> Nat]
    PROVE  /\ IsFiniteSet(UNION {Units(f, j) : j \in D})
           /\ Total(f) = Cardinality(UNION {Units(f, j) : j \in D})
           /\ Total(f) \in Nat
<1> DEFINE u == [j \in D |-> Units(f, j)]
<1>1. u \in Surjection(D, {Units(f, j) : j \in D})
  BY DEF Surjection
<1>2. IsFiniteSet({Units(f, j) : j \in D})
  BY <1>1, FS_Surjection
<1>3. \A U \in {Units(f, j) : j \in D} : IsFiniteSet(U)
  BY UnitsAre
<1>4. IsFiniteSet(UNION {Units(f, j) : j \in D})
  BY <1>2, <1>3, FS_UNION
<1>5. DOMAIN f = D
  OBVIOUS
<1>6. Total(f) = Cardinality(UNION {Units(f, j) : j \in D})
  BY <1>5 DEF Total, Units
<1> QED
  BY <1>4, <1>6, FS_CardinalityType

\* A sum is the value at one place and the sum over the others.
LEMMA TotalSplits ==
    ASSUME NEW D, IsFiniteSet(D), NEW f \in [D -> Nat], NEW j \in D
    PROVE  /\ Total([k \in D \ {j} |-> f[k]]) \in Nat
           /\ Total(f) = f[j] + Total([k \in D \ {j} |-> f[k]])
<1> DEFINE g == [k \in D \ {j} |-> f[k]]
           A == UNION {Units(g, k) : k \in D \ {j}}
           B == Units(f, j)
<1>1. IsFiniteSet(D \ {j})
  BY FS_RemoveElement
<1>2. g \in [D \ {j} -> Nat]
  OBVIOUS
<1>3. IsFiniteSet(A) /\ Total(g) = Cardinality(A) /\ Total(g) \in Nat
  BY <1>1, <1>2, TotalIs
<1>4. IsFiniteSet(B) /\ Cardinality(B) = f[j]
  BY UnitsAre
<1>5. UNION {Units(f, k) : k \in D} = A \cup B
  <2>1. \A k \in D \ {j} : Units(g, k) = Units(f, k)
    BY DEF Units
  <2> QED
    BY <2>1
<1>6. A \cap B = {}
  BY DEF Units
<1>7. Total(f) = Cardinality(A \cup B)
  BY <1>5, TotalIs
<1> HIDE DEF A, B, g
<1>8. Cardinality(A \cup B) = Cardinality(A) + Cardinality(B) - Cardinality(A \cap B)
  BY <1>3, <1>4, FS_Union
<1>9. Cardinality(A \cap B) = 0
  BY <1>6, FS_EmptySet
<1>10. f[j] \in Nat
  OBVIOUS
<1>11. Total(f) = f[j] + Total(g)
  BY <1>3, <1>4, <1>7, <1>8, <1>9, <1>10
<1> QED
  BY <1>3, <1>11 DEF g

ValueAt(f, j) == IF j \in DOMAIN f THEN f[j] ELSE 0
Without(D, j, f) == [k \in D \ {j} |-> f[k]]

\* A sum is the number at a place, none if it is outside, and the sum of the others.
LEMMA TotalWithout ==
    ASSUME NEW D, IsFiniteSet(D), NEW f \in [D -> Nat], NEW j
    PROVE  /\ Total(f) \in Nat /\ Total(Without(D, j, f)) \in Nat /\ ValueAt(f, j) \in Nat
           /\ Total(f) = ValueAt(f, j) + Total(Without(D, j, f))
<1>1. CASE j \in D
  <2>1. /\ Total([k \in D \ {j} |-> f[k]]) \in Nat
        /\ Total(f) = f[j] + Total([k \in D \ {j} |-> f[k]])
    BY <1>1, TotalSplits
  <2> QED
    BY <1>1, <2>1, TotalIs DEF ValueAt, Without
<1>2. CASE j \notin D
  <2>1. [k \in D \ {j} |-> f[k]] = f
    BY <1>2
  <2>2. ValueAt(f, j) = 0
    BY <1>2 DEF ValueAt
  <2>3. Without(D, j, f) = f
    BY <2>1 DEF Without
  <2> QED
    <3>1. Total(f) \in Nat
      BY TotalIs
    <3> QED
      BY <2>2, <2>3, <3>1
<1> QED
  BY <1>1, <1>2

\* Two sums that differ at one place at most differ by the numbers there.
LEMMA TotalChanges ==
    ASSUME NEW D, IsFiniteSet(D), NEW f \in [D -> Nat], NEW D2, IsFiniteSet(D2), NEW f2 \in [D2 -> Nat],
           NEW j, D \ {j} = D2 \ {j}, \A k \in D \ {j} : f2[k] = f[k]
    PROVE  /\ Total(f) \in Nat /\ Total(f2) \in Nat /\ ValueAt(f, j) \in Nat /\ ValueAt(f2, j) \in Nat
           /\ Total(f2) + ValueAt(f, j) = Total(f) + ValueAt(f2, j)
<1>1. Without(D2, j, f2) = Without(D, j, f)
  BY DEF Without
<1>2. /\ Total(f) \in Nat /\ Total(Without(D, j, f)) \in Nat /\ ValueAt(f, j) \in Nat
      /\ Total(f) = ValueAt(f, j) + Total(Without(D, j, f))
  BY TotalWithout
<1>3. /\ Total(f2) \in Nat /\ ValueAt(f2, j) \in Nat
      /\ Total(f2) = ValueAt(f2, j) + Total(Without(D, j, f))
  BY <1>1, TotalWithout
<1> QED
  BY <1>2, <1>3

\* The sum over two sets apart is the sum of the two sums.
LEMMA TotalJoins ==
    ASSUME NEW A, IsFiniteSet(A), NEW B, IsFiniteSet(B), A \cap B = {}, NEW f \in [A \cup B -> Nat]
    PROVE  /\ Total([k \in A |-> f[k]]) \in Nat /\ Total([k \in B |-> f[k]]) \in Nat
           /\ Total(f) = Total([k \in A |-> f[k]]) + Total([k \in B |-> f[k]])
<1> DEFINE g == [k \in A |-> f[k]]
           h == [k \in B |-> f[k]]
           P == UNION {Units(g, k) : k \in A}
           Q == UNION {Units(h, k) : k \in B}
<1>1. IsFiniteSet(A \cup B)
  BY FS_Union
<1>2. g \in [A -> Nat] /\ h \in [B -> Nat]
  OBVIOUS
<1>3. IsFiniteSet(P) /\ Total(g) = Cardinality(P) /\ Total(g) \in Nat
  <2> HIDE DEF g
  <2> QED
    BY <1>2, TotalIs
<1>4. IsFiniteSet(Q) /\ Total(h) = Cardinality(Q) /\ Total(h) \in Nat
  <2> HIDE DEF h
  <2> QED
    BY <1>2, TotalIs
<1>5. UNION {Units(f, k) : k \in A \cup B} = P \cup Q
  <2>1. (\A k \in A : Units(g, k) = Units(f, k)) /\ (\A k \in B : Units(h, k) = Units(f, k))
    BY DEF Units
  <2> HIDE DEF g, h
  <2> QED
    BY <2>1
<1>6. P \cap Q = {}
  BY DEF Units
<1>7. Total(f) = Cardinality(P \cup Q)
  <2> HIDE DEF P, Q
  <2> QED
    BY <1>1, <1>5, TotalIs
<1> HIDE DEF P, Q, g, h
<1>8. Cardinality(P \cup Q) = Cardinality(P) + Cardinality(Q) - Cardinality(P \cap Q)
  BY <1>3, <1>4, FS_Union
<1>9. Cardinality(P \cap Q) = 0
  BY <1>6, FS_EmptySet
<1>10. Total(f) = Total(g) + Total(h)
  BY <1>3, <1>4, <1>7, <1>8, <1>9
<1> QED
  BY <1>3, <1>4, <1>10 DEF g, h

KeysOf(S, b) == {Key(c, b) : c \in S}

\* A sum over calls is the sum over their keys.
LEMMA TotalByKey ==
    ASSUME NEW S, IsFiniteSet(S), NEW b, NEW g \in [S -> Nat]
    PROVE  /\ IsFiniteSet(KeysOf(S, b))
           /\ Total([k \in KeysOf(S, b) |-> g[k[1]]]) = Total(g)
<1> DEFINE T == KeysOf(S, b)
           h == [k \in T |-> g[k[1]]]
           P == UNION {Units(g, c) : c \in S}
           Q == UNION {Units(h, k) : k \in T}
           key == [c \in S |-> Key(c, b)]
           move == [u \in P |-> <<Key(u[1], b), u[2]>>]
<1>1. \A c \in S : Key(c, b) \in T /\ Key(c, b)[1] = c /\ g[c] \in Nat
  BY DEF KeysOf, Key
<1>2. \A k \in T : k[1] \in S /\ k = Key(k[1], b)
  BY DEF KeysOf, Key
<1>3. IsFiniteSet(T)
  <2>1. key \in Surjection(S, T)
    BY DEF Surjection, KeysOf
  <2> QED
    BY <2>1, FS_Surjection
<1>4. h \in [T -> Nat]
  BY <1>1, <1>2
<1>5. IsFiniteSet(P) /\ Total(g) = Cardinality(P)
  BY TotalIs
<1>6. Total(h) = Cardinality(Q)
  <2> HIDE DEF h, T
  <2> QED
    BY <1>3, <1>4, TotalIs
<1>7. \A u : u \in P <=> \E c \in S : \E n \in 1..g[c] : u = <<c, n>>
  BY DEF Units
<1>8. \A v : v \in Q <=> \E c \in S : \E n \in 1..g[c] : v = <<Key(c, b), n>>
  <2>1. \A v : v \in Q <=> \E k \in T : \E n \in 1..g[k[1]] : v = <<k, n>>
    BY DEF Units
  <2> HIDE DEF Q, T
  <2> QED
    BY <1>1, <1>2, <2>1
<1> HIDE DEF P, Q, T, h
<1>9. \A u \in P : move[u] \in Q
  BY <1>7, <1>8
<1>10. ASSUME NEW v \in Q PROVE \E u \in P : move[u] = v
  <2>1. PICK c \in S : \E n \in 1..g[c] : v = <<Key(c, b), n>>
    BY <1>8
  <2>2. PICK n \in 1..g[c] : v = <<Key(c, b), n>>
    BY <2>1
  <2>3. <<c, n>> \in P
    BY <1>7
  <2>4. move[<<c, n>>] = v
    BY <2>2, <2>3
  <2> QED
    BY <2>3, <2>4
<1>11. \A u, w \in P : move[u] = move[w] => u = w
  BY <1>7 DEF Key
<1>12. move \in Bijection(P, Q)
  BY <1>9, <1>10, <1>11 DEF Bijection, Injection, Surjection, IsInjective
<1>13. ExistsBijection(P, Q)
  BY <1>12 DEF ExistsBijection
<1>14. Cardinality(Q) = Cardinality(P)
  BY <1>5, <1>13, FS_Bijection
<1> QED
  BY <1>3, <1>5, <1>6, <1>14 DEF T, h

LEMMA CallsAreFinite ==
    ASSUME NEW A \in SUBSET CallNo PROVE IsFiniteSet(A) /\ Cardinality(A) \in Nat
<1>1. IsFiniteSet(1..Calls)
  BY LlmCallAssumption, FS_Interval
<1>2. IsFiniteSet(A)
  BY <1>1, FS_Subset DEF CallNo
<1> QED
  BY <1>2, FS_CardinalityType

\* The calls of a set that are among its first r are r.
LEMMA FirstOnes ==
    ASSUME NEW A \in SUBSET CallNo, NEW r \in 0..Cardinality(A)
    PROVE  Cardinality({c \in A : Rank(c, A) <= r}) = r
<1> DEFINE Low(m) == {c \in A : c <= m}
           N(m) == Cardinality(Low(m))
           First(m) == {c \in Low(m) : Rank(c, A) <= r}
           good == {m \in 0..Calls : Cardinality(First(m)) = IF N(m) <= r THEN N(m) ELSE r}
<1>1. /\ Calls \in Nat /\ IsFiniteSet(A) /\ Cardinality(A) \in Nat
      /\ \A c \in A : c \in Nat /\ 1 <= c /\ c <= Calls
  <2>1. Calls \in Nat /\ \A c \in A : c \in 1..Calls
    BY LlmCallAssumption DEF CallNo
  <2> QED
    BY <2>1, CallsAreFinite
<1>2. ASSUME NEW m
      PROVE  /\ IsFiniteSet(Low(m)) /\ N(m) \in Nat /\ IsFiniteSet(First(m)) /\ Cardinality(First(m)) \in Nat
  <2>1. Low(m) \subseteq A /\ First(m) \subseteq A
    OBVIOUS
  <2> HIDE DEF Low, First
  <2> QED
    BY <1>1, <2>1, FS_Subset, FS_CardinalityType
<1>3. \A c : Rank(c, A) = N(c)
  BY DEF Rank
<1>4. 0 \in good
  <2>1. Low(0) = {} /\ First(0) = {}
    BY <1>1
  <2> HIDE DEF Low, First
  <2>2. N(0) = 0 /\ Cardinality(First(0)) = 0
    BY <2>1, FS_EmptySet
  <2> HIDE DEF N
  <2> QED
    BY <1>1, <2>2
<1>5. ASSUME NEW m \in 1..Calls, m - 1 \in good PROVE m \in good
  <2>0. m \in Nat /\ m \in 0..Calls /\ r \in Nat
    BY <1>1
  <2>1. Cardinality(First(m - 1)) = IF N(m - 1) <= r THEN N(m - 1) ELSE r
    BY <1>5
  <2>2. CASE m \notin A
    <3>1. Low(m) = Low(m - 1)
      BY <1>1, <2>2
    <3> HIDE DEF Low
    <3>2. First(m) = First(m - 1) /\ N(m) = N(m - 1)
      BY <3>1
    <3> HIDE DEF First, N
    <3> QED
      BY <2>0, <2>1, <3>2
  <2>3. CASE m \in A
    <3>1. Low(m) = Low(m - 1) \cup {m} /\ m \notin Low(m - 1)
      <4>1. \A c \in A : c <= m <=> c <= m - 1 \/ c = m
        BY <1>1, <2>0
      <4>2. ~(m <= m - 1)
        BY <2>0
      <4> QED
        BY <2>3, <4>1, <4>2
    <3>2. N(m) = N(m - 1) + 1
      <4> HIDE DEF Low
      <4> QED
        BY <1>2, <3>1, FS_AddElement
    <3>3. Rank(m, A) = N(m)
      BY <1>3
    <3>4. First(m) = IF N(m) <= r THEN First(m - 1) \cup {m} ELSE First(m - 1)
      <4> HIDE DEF Low, N
      <4> QED
        BY <3>1, <3>3
    <3>5. m \notin First(m - 1)
      BY <3>1
    <3>6. Cardinality(First(m - 1) \cup {m}) = Cardinality(First(m - 1)) + 1
      <4> HIDE DEF First
      <4> QED
        BY <1>2, <3>5, FS_AddElement
    <3>7. N(m - 1) \in Nat
      BY <1>2
    <3> HIDE DEF First, N, Low
    <3>8. CASE N(m) <= r
      BY <2>0, <2>1, <3>2, <3>4, <3>6, <3>7, <3>8
    <3>9. CASE ~(N(m) <= r)
      <4>1. First(m) = First(m - 1)
        BY <3>4, <3>9
      <4>2. Cardinality(First(m)) = r
        BY <2>0, <2>1, <3>2, <3>7, <3>9, <4>1
      <4> QED
        BY <2>0, <3>9, <4>2
    <3> QED
      BY <3>8, <3>9
  <2> QED
    BY <2>2, <2>3
<1>6. Calls \in good
  <2> HIDE DEF good
  <2>1. \A i \in 0..Calls : i \in good
    BY <1>1, <1>4, <1>5, UpToBound
  <2> QED
    BY <1>1, <2>1
<1>7. Low(Calls) = A
  BY <1>1 DEF Low
<1>8. Cardinality(First(Calls)) = IF N(Calls) <= r THEN N(Calls) ELSE r
  BY <1>6
<1>9. First(Calls) = {c \in A : Rank(c, A) <= r} /\ N(Calls) = Cardinality(A)
  BY <1>7
<1> HIDE DEF First, N, Low
<1> QED
  BY <1>1, <1>8, <1>9

\* A batch's total is split over its answered calls with nothing lost.
LEMMA SharesAdd ==
    ASSUME NEW A \in SUBSET CallNo, A # {}, NEW t \in Nat
    PROVE  LET shares == [c \in A |-> Share(t, Cardinality(A), Rank(c, A))]
           IN  shares \in [A -> Nat] /\ Total(shares) = t
<1> DEFINE n == Cardinality(A)
           q == t \div n
           r == t % n
           first == {c \in A : Rank(c, A) <= r}
           shares == [c \in A |-> Share(t, n, Rank(c, A))]
           even == [c \in A |-> q]
<1>1. IsFiniteSet(A) /\ n \in Nat \ {0}
  <2>1. IsFiniteSet(A) /\ n \in Nat
    BY CallsAreFinite
  <2> QED
    BY <2>1, FS_EmptySet
<1>2. q \in Nat /\ r \in 0..(n - 1) /\ n * q + r = t
  <2> HIDE DEF n
  <2>1. t \div n \in Nat
    BY <1>1, SMTT(30)
  <2>2. t % n \in 0..(n - 1)
    BY <1>1, SMTT(30)
  <2>3. n * (t \div n) + (t % n) = t
    BY <1>1, SMTT(30)
  <2> QED
    BY <2>1, <2>2, <2>3
<1>3. \A c \in A : shares[c] = q + (IF c \in first THEN 1 ELSE 0)
  BY DEF Share
<1>4. IsFiniteSet(first) /\ Cardinality(first) = r
  <2>1. r \in 0..Cardinality(A)
    BY <1>1, <1>2
  <2>2. first \subseteq A
    OBVIOUS
  <2>3. Cardinality(first) = r
    <3> HIDE DEF r
    <3> QED
      BY <2>1, FirstOnes
  <2> HIDE DEF first
  <2> QED
    BY <1>1, <2>2, <2>3, FS_Subset
<1> HIDE DEF q, r, first
<1>5. shares \in [A -> Nat]
  BY <1>2, <1>3
<1>6. Total(shares) = Cardinality(UNION {Units(shares, c) : c \in A})
  <2> HIDE DEF shares
  <2> QED
    BY <1>1, <1>5, TotalIs
<1> HIDE DEF shares, n
<1>7. UNION {Units(shares, c) : c \in A} = (A \X (1..q)) \cup (first \X {q + 1})
  <2>1. ASSUME NEW c \in A
        PROVE  1..shares[c] = (1..q) \cup (IF c \in first THEN {q + 1} ELSE {})
    BY <1>2, <1>3, <2>1
  <2>2. first \subseteq A
    BY DEF first
  <2> QED
    BY <2>1, <2>2 DEF Units
<1>8. IsFiniteSet(A \X (1..q)) /\ Cardinality(A \X (1..q)) = n * q
  <2>1. IsFiniteSet(1..q) /\ Cardinality(1..q) = q
    BY <1>2, FS_Interval
  <2> QED
    BY <1>1, <2>1, FS_Product DEF n
<1>9. IsFiniteSet(first \X {q + 1}) /\ Cardinality(first \X {q + 1}) = r
  <2>1. IsFiniteSet({q + 1}) /\ Cardinality({q + 1}) = 1
    BY FS_Singleton
  <2>2. IsFiniteSet(first \X {q + 1}) /\ Cardinality(first \X {q + 1}) = r * 1
    BY <1>4, <2>1, FS_Product
  <2> QED
    BY <1>2, <2>2
<1> DEFINE P == A \X (1..q)
           Q == first \X {q + 1}
<1>10. P \cap Q = {}
  BY <1>2
<1>11. /\ IsFiniteSet(P) /\ Cardinality(P) = n * q
       /\ IsFiniteSet(Q) /\ Cardinality(Q) = r
       /\ Total(shares) = Cardinality(P \cup Q)
  BY <1>6, <1>7, <1>8, <1>9
<1> HIDE DEF P, Q
<1>12. Cardinality(P \cap Q) = 0
  BY <1>10, FS_EmptySet
<1>13. Cardinality(P \cup Q) = Cardinality(P) + Cardinality(Q) - Cardinality(P \cap Q)
  BY <1>11, FS_Union
<1>14. Total(shares) = n * q + r - 0
  BY <1>11, <1>12, <1>13
<1>15. n * q + r - 0 = n * q + r
  BY <1>1, <1>2
<1>16. Total(shares) = t
  BY <1>2, <1>14, <1>15
<1> QED
  BY <1>5, <1>16 DEF shares, n

\* What the replay directory says was billed.
RecordedTokens == [k \in DOMAIN cache |-> cache[k].tokens]

\* The directory's entries are of the pass's calls and budgets; each was bought once and no other
\* reply is counted as bought; while recording, only a call that has had its answer has an entry;
\* and what is billed is on the entries or on replies that were not kept.
BillingInv ==
    /\ DOMAIN cache \subseteq CallNo \X Budgets
    /\ RecordedTokens \in [DOMAIN cache -> Nat]
    /\ bought = [k \in CallNo \X Budgets |-> IF k \in DOMAIN cache THEN 1 ELSE 0]
    /\ pass = 1 => \A k \in DOMAIN cache :
          k[1] \in (IF k[2] = "first" THEN DOMAIN head ELSE DOMAIN second)
    /\ unkept \in Nat
    /\ DOMAIN usage = {"billed", "replayed"}
    /\ usage.billed = unkept + Total(RecordedTokens)

LEMMA TokensAre == \A r \in Answers : Tokens(r) \in Nat
<1>1. \A r \in Answers : r.shape \in {"complete", "truncated", "unparsed", "failed", "empty", "refused"}
  BY DEF Answers, Replies, Unanswered, Empty, Refused, Reply
<1> QED
  BY <1>1 DEF Tokens

\* The directory stays finite.
LEMMA CacheIsFinite == ASSUME BillingInv PROVE IsFiniteSet(DOMAIN cache)
<1>1. IsFiniteSet(CallNo)
  BY CallsAreFinite
<1>2. IsFiniteSet(Budgets)
  <2>1. Budgets = {"first"} \cup {"retry"}
    BY DEF Budgets
  <2> QED
    BY <2>1, FS_Singleton, FS_AddElement
<1>3. IsFiniteSet(CallNo \X Budgets)
  BY <1>1, <1>2, FS_Product
<1> QED
  BY <1>3, FS_Subset DEF BillingInv

\* A call about to be asked for has no entry.
LEMMA AskedAnew ==
    ASSUME ExtractionInv, BillingInv, path = "sequential", budget \in Budgets, Sends
    PROVE  Key(at, budget) \notin DOMAIN cache
<1>1. CASE pass = 2
  BY <1>1 DEF Sends, Recorded
<1>2. CASE pass = 1
  <2>1. SequentialShape /\ at \in 1..(Calls + 1)
    BY DEF ExtractionInv, ExtractionTypes
  <2>2. Key(at, budget)[1] = at /\ Key(at, budget)[2] = budget
    BY DEF Key
  <2>3. at \notin 1..(at - 1)
    BY <2>1, LlmCallAssumption
  <2>4. budget = "first" => at \notin DOMAIN head
    BY <2>1, <2>3 DEF SequentialShape
  <2>5. budget = "retry" => at \notin DOMAIN second
    BY <2>1, <2>3 DEF SequentialShape
  <2> QED
    BY <1>2, <2>2, <2>4, <2>5 DEF BillingInv, Budgets
<1> QED
  BY <1>1, <1>2 DEF ExtractionInv, ExtractionTypes

\* One completion, sent, found in the directory or refused by the meter, is billed once.
LEMMA AskBills ==
    ASSUME BillingInv, NEW r \in Answers, Accounted(r), at \in CallNo, budget \in Budgets,
           Sends => Key(at, budget) \notin DOMAIN cache
    PROVE  /\ DOMAIN cache' \subseteq DOMAIN cache \cup {Key(at, budget)}
           /\ DOMAIN cache' \subseteq CallNo \X Budgets
           /\ RecordedTokens' \in [DOMAIN cache' -> Nat]
           /\ bought' = [k \in CallNo \X Budgets |-> IF k \in DOMAIN cache' THEN 1 ELSE 0]
           /\ unkept' \in Nat
           /\ DOMAIN usage' = {"billed", "replayed"}
           /\ usage'.billed = unkept' + Total(RecordedTokens')
<1> DEFINE key == Key(at, budget)
<1>1. key \in CallNo \X Budgets
  BY DEF Key
<1>2. Tokens(r) \in Nat
  BY TokensAre
<1>3. Total(RecordedTokens) \in Nat
  BY CacheIsFinite, TotalIs DEF BillingInv
<1>4. CASE Sends /\ IsReply(r)
  <2>1. cache' = [k \in DOMAIN cache \cup {key} |->
                    IF k \in {key} THEN Entry(r, Tokens(r)) ELSE cache[k]]
    BY <1>4 DEF Accounted, Put
  <2>2. key \notin DOMAIN cache
    BY <1>4
  <2>3. Entry(r, Tokens(r)).tokens = Tokens(r)
    BY DEF Entry
  <2>4. usage' = [usage EXCEPT !.billed = @ + Tokens(r)] /\ unkept' = unkept
        /\ bought' = [bought EXCEPT ![key] = @ + 1]
    BY <1>4 DEF Accounted
  <2>5. DOMAIN usage' = {"billed", "replayed"} /\ usage'.billed = usage.billed + Tokens(r)
    BY <2>4 DEF BillingInv
  <2> HIDE DEF key
  <2>6. DOMAIN cache' = DOMAIN cache \cup {key} /\ \A k \in DOMAIN cache : cache'[k] = cache[k]
    BY <2>1, <2>2
  <2>7. cache'[key].tokens = Tokens(r)
    BY <2>1, <2>3
  <2>8. /\ RecordedTokens' \in [DOMAIN cache' -> Nat]
        /\ RecordedTokens'[key] = Tokens(r)
        /\ \A k \in DOMAIN cache : RecordedTokens'[k] = RecordedTokens[k]
    <3>1. \A k \in DOMAIN cache : cache[k].tokens \in Nat
      BY DEF BillingInv, RecordedTokens
    <3> QED
      BY <1>2, <2>6, <2>7, <3>1 DEF RecordedTokens
  <2>9. bought' = [k \in CallNo \X Budgets |-> IF k \in DOMAIN cache' THEN 1 ELSE 0]
    <3>1. bought = [k \in CallNo \X Budgets |-> IF k \in DOMAIN cache THEN 1 ELSE 0]
      BY DEF BillingInv
    <3>2. bought[key] = 0
      BY <1>1, <2>2, <3>1 DEF key
    <3>3. DOMAIN bought = CallNo \X Budgets
      BY <3>1
    <3>4. bought' = [k \in CallNo \X Budgets |-> IF k = key THEN 1 ELSE bought[k]]
      <4>1. bought' = [k \in DOMAIN bought |-> IF k = key THEN bought[key] + 1 ELSE bought[k]]
        BY <2>4
      <4>2. bought[key] + 1 = 1
        BY <3>2
      <4> QED
        BY <3>3, <4>1, <4>2
    <3> QED
      BY <2>6, <3>1, <3>4
  <2>10. Total(RecordedTokens') = Total(RecordedTokens) + Tokens(r)
    <3>1. IsFiniteSet(DOMAIN cache) /\ IsFiniteSet(DOMAIN cache')
      BY <2>6, CacheIsFinite, FS_AddElement
    <3>2. RecordedTokens \in [DOMAIN cache -> Nat]
      BY DEF BillingInv
    <3>3. DOMAIN cache \ {key} = DOMAIN cache' \ {key}
      BY <2>6
    <3>4. \A k \in DOMAIN cache \ {key} : RecordedTokens'[k] = RecordedTokens[k]
      BY <2>8
    <3>5. Total(RecordedTokens') + ValueAt(RecordedTokens, key)
            = Total(RecordedTokens) + ValueAt(RecordedTokens', key) /\ Total(RecordedTokens') \in Nat
      BY <2>8, <3>1, <3>2, <3>3, <3>4, TotalChanges
    <3>6. ValueAt(RecordedTokens, key) = 0 /\ ValueAt(RecordedTokens', key) = Tokens(r)
      BY <2>2, <2>6, <2>8, <3>2 DEF ValueAt
    <3> QED
      BY <1>2, <1>3, <3>5, <3>6
  <2>11. DOMAIN cache' \subseteq CallNo \X Budgets
    BY <1>1, <2>6 DEF BillingInv
  <2>12. usage'.billed = unkept' + Total(RecordedTokens') /\ unkept' \in Nat
    BY <1>2, <1>3, <2>4, <2>5, <2>10 DEF BillingInv
  <2> QED
    BY <2>5, <2>6, <2>8, <2>9, <2>11, <2>12 DEF key
<1>5. CASE ~(Sends /\ IsReply(r))
  <2>1. cache' = cache /\ bought' = bought
    BY <1>5 DEF Accounted
  <2>2. RecordedTokens' = RecordedTokens
    BY <2>1 DEF RecordedTokens
  <2>3. CASE Sends
    <3>1. usage' = [usage EXCEPT !.billed = @ + Tokens(r)] /\ unkept' = unkept + Tokens(r)
      BY <1>5, <2>3 DEF Accounted
    <3>2. DOMAIN usage' = {"billed", "replayed"} /\ usage'.billed = usage.billed + Tokens(r)
      BY <3>1 DEF BillingInv
    <3>3. usage'.billed = unkept' + Total(RecordedTokens') /\ unkept' \in Nat
      BY <1>2, <1>3, <2>2, <3>1, <3>2 DEF BillingInv
    <3> QED
      BY <2>1, <2>2, <3>2, <3>3 DEF BillingInv
  <2>4. CASE ~Sends
    <3>1. unkept' = unkept
      BY <2>4 DEF Accounted
    <3>2. DOMAIN usage' = {"billed", "replayed"} /\ usage'.billed = usage.billed
      BY <2>4 DEF BillingInv, Accounted
    <3> QED
      BY <2>1, <2>2, <3>1, <3>2 DEF BillingInv
  <2> QED
    BY <2>3, <2>4
<1> QED
  BY <1>4, <1>5

\* What the answered calls of a group are written down for, and what is not kept, is what the
\* calls sent were billed: call by call, or a batch's total in shares.
LEMMA GroupTokens ==
    ASSUME NEW sent \in SUBSET CallNo, NEW answered \in SUBSET sent, NEW f,
           \A c \in sent : f[c] \in Answers, Batched => sent = Misses
    PROVE  LET tokens == [c \in answered |->
                            IF Batched
                            THEN Share(SumTokens(f, Misses), Cardinality(answered), Rank(c, answered))
                            ELSE Tokens(f[c])]
               kept == IF Batched /\ answered # {} THEN 0 ELSE SumTokens(f, sent \ answered)
           IN  /\ tokens \in [answered -> Nat] /\ Total(tokens) \in Nat /\ kept \in Nat
               /\ SumTokens(f, sent) = Total(tokens) + kept
<1> DEFINE all == [c \in sent |-> Tokens(f[c])]
           tokens == [c \in answered |->
                            IF Batched
                            THEN Share(SumTokens(f, Misses), Cardinality(answered), Rank(c, answered))
                            ELSE Tokens(f[c])]
           kept == IF Batched /\ answered # {} THEN 0 ELSE SumTokens(f, sent \ answered)
<1>1. all \in [sent -> Nat]
  BY TokensAre
<1>2. IsFiniteSet(sent) /\ IsFiniteSet(answered) /\ IsFiniteSet(sent \ answered)
  BY CallsAreFinite
<1>3. SumTokens(f, sent) = Total(all) /\ Total(all) \in Nat
  <2>1. SumTokens(f, sent) = Total(all)
    BY DEF SumTokens
  <2> HIDE DEF all
  <2> QED
    BY <1>1, <1>2, <2>1, TotalIs
<1>4. SumTokens(f, sent \ answered) = Total([c \in sent \ answered |-> all[c]])
  <2>1. [c \in sent \ answered |-> all[c]] = [c \in sent \ answered |-> Tokens(f[c])]
    OBVIOUS
  <2> QED
    BY <2>1 DEF SumTokens
<1>5. /\ Total([c \in answered |-> all[c]]) \in Nat /\ SumTokens(f, sent \ answered) \in Nat
      /\ SumTokens(f, sent) = Total([c \in answered |-> all[c]]) + SumTokens(f, sent \ answered)
  <2>1. answered \cup (sent \ answered) = sent /\ answered \cap (sent \ answered) = {}
    OBVIOUS
  <2> HIDE DEF all
  <2>2. /\ Total([c \in answered |-> all[c]]) \in Nat /\ Total([c \in sent \ answered |-> all[c]]) \in Nat
        /\ Total(all) = Total([c \in answered |-> all[c]]) + Total([c \in sent \ answered |-> all[c]])
    BY <1>1, <1>2, <2>1, TotalJoins
  <2> QED
    BY <1>3, <1>4, <2>2
<1>6. CASE Batched /\ answered # {}
  <2>1. SumTokens(f, Misses) = SumTokens(f, sent)
    BY <1>6
  <2>2. tokens = [c \in answered |->
                    Share(SumTokens(f, sent), Cardinality(answered), Rank(c, answered))]
    BY <1>6, <2>1
  <2>3. tokens \in [answered -> Nat] /\ Total(tokens) = SumTokens(f, sent)
    <3> HIDE DEF tokens, all
    <3>1. SumTokens(f, sent) \in Nat /\ answered \in SUBSET CallNo
      BY <1>3
    <3> QED
      BY <1>6, <2>2, <3>1, SharesAdd
  <2>4. kept = 0
    BY <1>6
  <2> HIDE DEF tokens, kept, all
  <2>5. SumTokens(f, sent) = Total(tokens) + kept
    BY <1>3, <2>3, <2>4
  <2> QED
    BY <1>3, <2>3, <2>4, <2>5 DEF tokens, kept
<1>7. CASE ~(Batched /\ answered # {})
  <2>1. tokens = [c \in answered |-> all[c]]
    BY <1>7
  <2>2. kept = SumTokens(f, sent \ answered)
    BY <1>7
  <2>3. tokens \in [answered -> Nat]
    <3> HIDE DEF all
    <3> QED
      BY <1>1, <2>1
  <2> HIDE DEF tokens, kept, all
  <2>4. Total(tokens) \in Nat /\ kept \in Nat /\ SumTokens(f, sent) = Total(tokens) + kept
    BY <1>5, <2>1, <2>2
  <2> QED
    BY <2>3, <2>4 DEF tokens, kept
<1> QED
  BY <1>6, <1>7

\* A group sent in one batch or call by call is billed once.
LEMMA GroupBills ==
    ASSUME ExtractionInv, BillingInv, NEW S, NEW f \in [S -> Answers], Group(f)
    PROVE  /\ DOMAIN cache' \subseteq DOMAIN cache \cup KeysOf(GroupNow, budget)
           /\ DOMAIN cache' \subseteq CallNo \X Budgets
           /\ RecordedTokens' \in [DOMAIN cache' -> Nat]
           /\ bought' = [k \in CallNo \X Budgets |-> IF k \in DOMAIN cache' THEN 1 ELSE 0]
           /\ unkept' \in Nat
           /\ DOMAIN usage' = {"billed", "replayed"}
           /\ usage'.billed = unkept' + Total(RecordedTokens')
<1> DEFINE sent == Misses \cap Admitted
           answered == {c \in sent : IsReply(f[c])}
           tokens == [c \in answered |->
                            IF Batched
                            THEN Share(SumTokens(f, Misses), Cardinality(answered), Rank(c, answered))
                            ELSE Tokens(f[c])]
           kept == IF Batched /\ answered # {} THEN 0 ELSE SumTokens(f, sent \ answered)
           new == KeysOf(answered, budget)
<1>1. /\ path = "pooled" /\ Open /\ budget \in Budgets /\ DOMAIN f = GroupNow
      /\ usage'.billed = usage.billed + SumTokens(f, sent) /\ DOMAIN usage' = {"billed", "replayed"}
      /\ cache' = Recordings(f, answered)
      /\ unkept' = unkept + kept
      /\ bought' = [k \in DOMAIN bought |->
                        bought[k] + (IF k[2] = budget /\ k[1] \in answered THEN 1 ELSE 0)]
  BY DEF Group
<1>2. /\ GroupNow \subseteq CallNo /\ sent \subseteq GroupNow /\ answered \subseteq sent
      /\ \A c \in sent : ~Recorded(c, budget)
      /\ \A c \in GroupNow : f[c] \in Answers
  BY <1>1 DEF GroupNow, Misses, Hits
<1>3. Batched => sent = Misses
  BY DEF Batched, Admitted, Misses
<1>4. /\ tokens \in [answered -> Nat] /\ Total(tokens) \in Nat /\ kept \in Nat
      /\ SumTokens(f, sent) = Total(tokens) + kept
  <2>1. sent \in SUBSET CallNo /\ answered \in SUBSET sent /\ \A c \in sent : f[c] \in Answers
    BY <1>2
  <2> HIDE DEF sent, answered
  <2> QED
    BY <1>3, <2>1, GroupTokens, Zenon
<1>5. \A k \in new : k \notin DOMAIN cache
  <2> SUFFICES ASSUME NEW c \in answered, Key(c, budget) \in DOMAIN cache PROVE FALSE
    BY DEF KeysOf
  <2>1. c \in CallNo /\ ~Recorded(c, budget)
    BY <1>2
  <2>2. pass = 1
    BY <2>1 DEF Recorded, ExtractionInv, ExtractionTypes
  <2>3. Key(c, budget)[1] = c /\ Key(c, budget)[2] = budget
    BY DEF Key
  <2>4. c \in (IF budget = "first" THEN DOMAIN head ELSE DOMAIN second)
    BY <2>2, <2>3 DEF BillingInv
  <2>5. PooledShape
    BY <1>1 DEF ExtractionInv, ExtractionTypes
  <2>6. at # Calls + 1
    BY <1>1, LlmCallAssumption DEF Open
  <2>7. (budget = "first" /\ DOMAIN head = {}) \/ (budget = "retry" /\ DOMAIN second = {})
    BY <1>1, <2>5, <2>6 DEF PooledShape, Budgets
  <2> QED
    BY <2>4, <2>7
<1>6. /\ DOMAIN cache' = DOMAIN cache \cup new
      /\ \A k \in DOMAIN cache : cache'[k].tokens = cache[k].tokens
      /\ \A k \in new : cache'[k].tokens = tokens[k[1]]
  <2> DEFINE by(c) == IF Batched
                      THEN Share(SumTokens(f, Misses), Cardinality(answered), Rank(c, answered))
                      ELSE Tokens(f[c])
  <2>1. cache' = [k \in DOMAIN cache \cup new |->
                     IF k \in new THEN Entry(f[k[1]], by(k[1])) ELSE cache[k]]
    BY <1>1 DEF Recordings, KeysOf
  <2>2. \A k \in new : tokens[k[1]] = by(k[1])
    <3>1. \A k \in new : k[1] \in answered
      BY DEF KeysOf, Key
    <3>2. \A c \in answered : tokens[c] = by(c)
      OBVIOUS
    <3> QED
      BY <3>1, <3>2
  <2>3. \A a, b : Entry(a, b).tokens = b
    BY DEF Entry
  <2> HIDE DEF by, tokens, new
  <2> QED
    BY <1>5, <2>1, <2>2, <2>3
<1>7. new \subseteq CallNo \X Budgets /\ new \subseteq KeysOf(GroupNow, budget)
  BY <1>1, <1>2 DEF KeysOf, Key
<1>8. bought' = [k \in CallNo \X Budgets |-> IF k \in DOMAIN cache' THEN 1 ELSE 0]
  <2>1. \A k \in CallNo \X Budgets : k[2] = budget /\ k[1] \in answered <=> k \in new
    BY DEF KeysOf, Key
  <2>2. bought = [k \in CallNo \X Budgets |-> IF k \in DOMAIN cache THEN 1 ELSE 0]
    BY DEF BillingInv
  <2> HIDE DEF new, answered
  <2>3. bought' = [k \in CallNo \X Budgets |-> bought[k] + (IF k \in new THEN 1 ELSE 0)]
    BY <1>1, <2>1, <2>2
  <2>4. \A k \in CallNo \X Budgets : bought[k] + (IF k \in new THEN 1 ELSE 0) = IF k \in DOMAIN cache' THEN 1 ELSE 0
    BY <1>5, <1>6, <2>2
  <2> QED
    BY <2>3, <2>4
<1> DEFINE moved == [k \in new |-> tokens[k[1]]]
<1>9. IsFiniteSet(new) /\ moved \in [new -> Nat] /\ Total(moved) = Total(tokens)
  <2>1. IsFiniteSet(answered)
    BY <1>2, CallsAreFinite
  <2>2. \A k \in new : k[1] \in answered
    BY DEF KeysOf, Key
  <2> HIDE DEF tokens, answered
  <2> QED
    BY <1>4, <2>1, <2>2, TotalByKey
<1> HIDE DEF new, tokens, kept, answered, sent
<1> DEFINE after == RecordedTokens'
<1>10. /\ after = [k \in DOMAIN cache \cup new |-> after[k]]
       /\ \A k \in DOMAIN cache : after[k] = RecordedTokens[k]
       /\ \A k \in new : after[k] = moved[k]
  BY <1>6 DEF RecordedTokens
<1> HIDE DEF moved, after
<1>11. RecordedTokens \in [DOMAIN cache -> Nat] /\ IsFiniteSet(DOMAIN cache)
       /\ usage.billed = unkept + Total(RecordedTokens) /\ unkept \in Nat /\ Total(RecordedTokens) \in Nat
  BY CacheIsFinite, TotalIs DEF BillingInv
<1>12. after \in [DOMAIN cache \cup new -> Nat]
  <2>1. \A k \in DOMAIN cache \cup new : after[k] \in Nat
    BY <1>9, <1>10, <1>11
  <2> QED
    BY <1>10, <2>1
<1>13. Total(after) = Total(RecordedTokens) + Total(tokens)
  <2>1. DOMAIN cache \cap new = {}
    BY <1>5
  <2>2. /\ [k \in DOMAIN cache |-> after[k]] = RecordedTokens
        /\ [k \in new |-> after[k]] = moved
    BY <1>9, <1>10, <1>11
  <2>3. Total(after) = Total([k \in DOMAIN cache |-> after[k]]) + Total([k \in new |-> after[k]])
    <3>1. IsFiniteSet(DOMAIN cache) /\ IsFiniteSet(new)
      BY <1>9, <1>11
    <3> QED
      <4> DEFINE D == DOMAIN cache
                 left == [k \in D |-> after[k]]
                 right == [k \in new |-> after[k]]
      <4>1. /\ IsFiniteSet(D) /\ IsFiniteSet(new) /\ D \cap new = {}
            /\ after \in [D \cup new -> Nat]
        BY <1>12, <2>1, <3>1
      <4> HIDE DEF D
      <4>2. Total(after) = Total(left) + Total(right)
        BY <4>1, TotalJoins
      <4> QED
        BY <4>2 DEF D
  <2> QED
    BY <1>9, <2>2, <2>3
<1>14. usage'.billed = unkept' + Total(after) /\ unkept' \in Nat
  BY <1>1, <1>4, <1>11, <1>13
<1> QED
  BY <1>1, <1>6, <1>7, <1>8, <1>12, <1>14 DEF BillingInv, after

\* Every step bills once.
LEMMA ExtractionBills ==
    ASSUME ExtractionInv, BillingInv, [ExtractionNext]_extractionCalls PROVE BillingInv'
<1>1. ASSUME UNCHANGED <<pass, cache, usage, unkept, bought>>,
             pass = 1 => DOMAIN head \subseteq DOMAIN head' /\ DOMAIN second \subseteq DOMAIN second'
      PROVE  BillingInv'
  <2>1. RecordedTokens' = RecordedTokens
    BY <1>1 DEF RecordedTokens
  <2> QED
    BY <1>1, <2>1 DEF BillingInv
<1>2. CASE UNCHANGED extractionCalls
  BY <1>1, <1>2 DEF extractionCalls
<1>3. CASE WaitLimit
  BY <1>1, <1>3 DEF WaitLimit
<1>4. ASSUME NEW r \in Answers, AskFirst(r) \/ AskAgain(r) PROVE BillingInv'
  <2>1. path = "sequential" /\ Open /\ budget \in Budgets /\ Accounted(r) /\ pass' = pass
    BY <1>4 DEF AskFirst, AskAgain, Budgets
  <2>2. at \in CallNo
    BY <2>1, LlmCallAssumption DEF ExtractionInv, ExtractionTypes, Open, CallNo
  <2>3. Sends => Key(at, budget) \notin DOMAIN cache
    BY <2>1, AskedAnew
  <2>4. DOMAIN cache' \subseteq DOMAIN cache \cup {Key(at, budget)}
    BY <2>1, <2>2, <2>3, AskBills
  <2>5. /\ DOMAIN head \subseteq DOMAIN head' /\ DOMAIN second \subseteq DOMAIN second'
        /\ at \in (IF budget = "first" THEN DOMAIN head' ELSE DOMAIN second')
    BY <1>4 DEF AskFirst, AskAgain, Put
  <2>6. Key(at, budget)[1] = at /\ Key(at, budget)[2] = budget
    BY DEF Key
  <2>7. pass' = 1 => \A k \in DOMAIN cache' :
          k[1] \in (IF k[2] = "first" THEN DOMAIN head' ELSE DOMAIN second')
    BY <2>1, <2>4, <2>5, <2>6 DEF BillingInv
  <2> QED
    BY <2>1, <2>2, <2>3, <2>7, AskBills DEF BillingInv
<1>5. ASSUME NEW S, NEW f \in [S -> Answers], Group(f) PROVE BillingInv'
  <2>1. /\ path = "pooled" /\ Open /\ budget \in Budgets /\ DOMAIN f = GroupNow /\ pass' = pass
        /\ budget = "first" => head' = f /\ second' = second
        /\ budget # "first" => head' = head /\ DOMAIN second' = CallNo
    BY <1>5 DEF Group
  <2>2. PooledShape /\ at # Calls + 1
    BY <2>1, LlmCallAssumption DEF ExtractionInv, ExtractionTypes, Open
  <2>3. /\ DOMAIN head \subseteq DOMAIN head' /\ DOMAIN second \subseteq DOMAIN second'
        /\ GroupNow \subseteq (IF budget = "first" THEN DOMAIN head' ELSE DOMAIN second')
    BY <2>1, <2>2 DEF PooledShape, GroupNow
  <2>4. \A k \in KeysOf(GroupNow, budget) : k[1] \in GroupNow /\ k[2] = budget
    BY DEF KeysOf, Key
  <2>5. DOMAIN cache' \subseteq DOMAIN cache \cup KeysOf(GroupNow, budget)
    BY <1>5, GroupBills
  <2>6. pass' = 1 => \A k \in DOMAIN cache' :
          k[1] \in (IF k[2] = "first" THEN DOMAIN head' ELSE DOMAIN second')
    BY <2>1, <2>3, <2>4, <2>5 DEF BillingInv
  <2> QED
    BY <1>5, <2>6, GroupBills DEF BillingInv
<1>6. CASE NoRetryGroup
  <2>1. PooledShape /\ at # Calls + 1 /\ budget = "retry"
    BY <1>6, LlmCallAssumption DEF NoRetryGroup, ExtractionInv, ExtractionTypes, Open
  <2>2. DOMAIN second = {}
    BY <2>1 DEF PooledShape
  <2> QED
    BY <1>1, <1>6, <2>2 DEF NoRetryGroup
<1>7. CASE SettleGroup
  BY <1>1, <1>7 DEF SettleGroup
<1>8. CASE NextPass
  <2>1. RecordedTokens' = RecordedTokens
    BY <1>8 DEF NextPass, RecordedTokens
  <2> QED
    BY <1>8, <2>1 DEF NextPass, BillingInv
<1> QED
  BY <1>2, <1>3, <1>4, <1>5, <1>6, <1>7, <1>8 DEF ExtractionNext, EndPass, AccountFailure

LEMMA BillingStarts == ASSUME ExtractionInit PROVE BillingInv
<1>1. DOMAIN cache = {} /\ usage = [billed |-> 0, replayed |-> 0] /\ unkept = 0
      /\ bought = [k \in CallNo \X Budgets |-> 0]
  BY DEF ExtractionInit
<1>2. Total(RecordedTokens) = 0
  <2>1. {Units(RecordedTokens, k) : k \in DOMAIN RecordedTokens} = {}
    BY <1>1 DEF RecordedTokens
  <2>2. Total(RecordedTokens) = Cardinality(UNION {})
    BY <2>1 DEF Total, Units
  <2> QED
    BY <2>2, FS_EmptySet
<1> QED
  BY <1>1, <1>2 DEF BillingInv, RecordedTokens

\* Every billed token is on a recorded entry or on a reply that was not kept: a batch's total is
\* split over its answered calls with nothing lost to rounding (_shares), a replayed reply is
\* never billed, and what was recorded is never bought again (ReplayingProvider), whatever the
\* calls, the meter and the order in which they come.
THEOREM TokensStayAccounted == ExtractionSpec => []TokensAreAccounted
<1>1. ExtractionInit => BillingInv
  BY BillingStarts
<1>2. ExtractionInv /\ BillingInv /\ [ExtractionNext]_extractionCalls => BillingInv'
  BY ExtractionBills
<1>3. BillingInv => TokensAreAccounted
  BY DEF BillingInv, TokensAreAccounted, RecordedTokens
<1> QED
  BY <1>1, <1>2, <1>3, ExtractionIsInvariant, PTL DEF ExtractionSpec


-----------------------------------------------------------------------------
\* What a reading exercised

\* The digest of a part under the settings t, whatever reads it.
DigestOf(t, n) ==
    CASE n \in {"rules", "journal rules"} -> <<t["rules"]>>
      [] n = "routing" -> <<t["delta"], t["size"], t["vision"], t["always"]>>
      [] n = "parse" -> <<t["parse"], t["validity"]>>
      [] n = "journalParse" -> <<t["parse"]>>
      [] n \in {"single", "chunked"} -> <<t["size"]>>
      [] n = "delta" -> <<t["context"]>>
      [] n = "pdf" -> <<>>
      [] n = "vision" -> <<t["always"], t["low"]>>
      [] OTHER -> <<0>>

Knobs == {"rules", "reference", "parse", "validity", "delta", "size", "context", "vision", "always",
          "low"}
Paths == {"single", "chunked", "delta", "pdf"}
Plains == {"rules", "journal rules", "schema", "validity", "reference date", "reference",
           "append context", "journal schema"}
IsNow(f) == f = [n \in DOMAIN f |-> DigestOf(today, n)]

LEMMA KnobsAre == Release \cup Setting = Knobs
BY DEF Release, Setting, Knobs

\* No digest of a text is the mark of two texts.
LEMMA DigestsAreTexts ==
    ASSUME today \in [Knobs -> {0, 1}], NEW n PROVE DigestOf(today, n) # MixedText
<1>1. {"rules", "parse", "size", "context"} \subseteq Knobs
  BY DEF Knobs
<1>2. today["rules"] # 2 /\ today["parse"] # 2 /\ today["size"] # 2 /\ today["context"] # 2
  BY <1>1
<1>3. \A a : a # 2 => <<a>> # <<2>>
  OBVIOUS
<1>4. (\A a, b : <<a, b>> # <<2>>) /\ (\A a, b, c, d : <<a, b, c, d>> # <<2>>) /\ << >> # <<2>>
  OBVIOUS
<1>5. \/ \E k \in {"rules", "parse", "size", "context"} : DigestOf(today, n) = <<today[k]>>
      \/ DigestOf(today, n) = <<0>> \/ DigestOf(today, n) = << >>
      \/ \E a, b : DigestOf(today, n) = <<a, b>>
      \/ \E a, b, c, d : DigestOf(today, n) = <<a, b, c, d>>
  <2>1. CASE n \in {"rules", "journal rules", "journalParse", "single", "chunked", "delta"}
    BY <2>1 DEF DigestOf
  <2>2. CASE n \in {"routing", "parse", "vision"}
    BY <2>2 DEF DigestOf
  <2>3. CASE n = "pdf"
    BY <2>3 DEF DigestOf
  <2>4. CASE n \notin {"rules", "journal rules", "journalParse", "single", "chunked", "delta",
                      "routing", "parse", "vision", "pdf"}
    BY <2>4 DEF DigestOf
  <2> QED
    BY <2>1, <2>2, <2>3, <2>4
<1>6. <<0>> # <<2>>
  BY <1>3
<1> QED
  BY <1>2, <1>3, <1>4, <1>5, <1>6 DEF MixedText

LEMMA WithIsNow ==
    ASSUME NEW f, NEW g, IsNow(f), IsNow(g)
    PROVE  IsNow(With(f, g)) /\ DOMAIN With(f, g) = DOMAIN f \cup DOMAIN g
BY DEF With, IsNow

LEMMA OnlyIsNow ==
    ASSUME NEW f, NEW N, IsNow(f) PROVE IsNow(Only(f, N)) /\ DOMAIN Only(f, N) = DOMAIN f \cap N
BY DEF Only, IsNow

LEMMA PlainIsNow ==
    ASSUME NEW N \in SUBSET Plains PROVE IsNow(Plain(N)) /\ DOMAIN Plain(N) = N
<1>1. \A n \in Plains : (IF n \in {"rules", "journal rules"} THEN <<today.rules>> ELSE <<0>>) = DigestOf(today, n)
  BY DEF Plains, DigestOf
<1> QED
  BY <1>1 DEF Plain, IsNow

LEMMA RoutingIsNow == IsNow(Routing) /\ DOMAIN Routing = {"routing"}
BY DEF Routing, IsNow, DigestOf

LEMMA ParseIsNow == IsNow(Parse) /\ DOMAIN Parse = {"parse"}
BY DEF Parse, IsNow, DigestOf

LEMMA PathsAreNow == IsNow(PathDigests) /\ DOMAIN PathDigests = Paths \cup {"vision"}
BY DEF PathDigests, IsNow, DigestOf, Paths

\* The parts of a call, by name.
PromptNames(context) ==
    {"rules", "schema"} \cup (IF On("validity") THEN {"validity"} ELSE {"reference date"})
        \cup (IF On("reference") THEN {"reference"} ELSE {})
        \cup (IF context THEN {"append context"} ELSE {})
JournalNames ==
    {"journal rules", "journal schema", "journalParse"} \cup (IF On("reference") THEN {"reference"} ELSE {})

LEMMA PromptIsNow ==
    ASSUME NEW context \in BOOLEAN
    PROVE  IsNow(PromptComponents(context)) /\ DOMAIN PromptComponents(context) = PromptNames(context)
<1> DEFINE N == {"rules", "schema", IF On("validity") THEN "validity" ELSE "reference date"}
                    \cup (IF On("reference") THEN {"reference"} ELSE {})
                    \cup (IF context THEN {"append context"} ELSE {})
<1>1. N \in SUBSET Plains /\ N = PromptNames(context)
  BY DEF Plains, PromptNames
<1>2. PromptComponents(context) = Plain(N)
  BY DEF PromptComponents
<1> HIDE DEF N
<1> QED
  BY <1>1, <1>2, PlainIsNow

LEMMA JournalIsNow == IsNow(JournalComponents) /\ DOMAIN JournalComponents = JournalNames
<1> DEFINE N == {"journal rules", "journal schema"} \cup (IF On("reference") THEN {"reference"} ELSE {})
           g == [journalParse |-> <<today.parse>>]
<1>1. N \in SUBSET Plains
  BY DEF Plains
<1>2. IsNow(g) /\ DOMAIN g = {"journalParse"}
  BY DEF IsNow, DigestOf
<1>3. JournalComponents = With(Plain(N), g)
  BY DEF JournalComponents
<1>4. N \cup {"journalParse"} = JournalNames
  BY DEF JournalNames
<1> HIDE DEF N, g
<1>5. IsNow(Plain(N)) /\ DOMAIN Plain(N) = N
  BY <1>1, PlainIsNow
<1> QED
  BY <1>2, <1>3, <1>4, <1>5, WithIsNow

LEMMA TableIsNow ==
    ASSUME NEW s
    PROVE  /\ IsNow(Table(s).digests)
           /\ "reference" \in DOMAIN Table(s).digests <=> On("reference")
           /\ On("reference") => "reference" \in Table(s).always
<1>1. CASE s.kind = "journal"
  <2> DEFINE base == With(JournalComponents, Routing)
             paths == Only(PathDigests, {"single", "chunked"})
  <2>1. Table(s) = [digests |-> With(base, paths), always |-> DOMAIN base]
    BY <1>1 DEF Table, JournalTable
  <2>2. IsNow(base) /\ DOMAIN base = JournalNames \cup {"routing"}
    BY JournalIsNow, RoutingIsNow, WithIsNow
  <2>3. IsNow(paths) /\ "reference" \notin DOMAIN paths
    BY PathsAreNow, OnlyIsNow DEF Paths
  <2> HIDE DEF base, paths
  <2>4. IsNow(With(base, paths)) /\ DOMAIN With(base, paths) = DOMAIN base \cup DOMAIN paths
    BY <2>2, <2>3, WithIsNow
  <2>5. "reference" \in DOMAIN base <=> On("reference")
    BY <2>2 DEF JournalNames
  <2>6. Table(s).digests = With(base, paths) /\ Table(s).always = DOMAIN base
    BY <2>1
  <2> QED
    BY <2>3, <2>4, <2>5, <2>6
<1>2. CASE s.kind # "journal"
  <2> DEFINE pr == With(Parse, Routing)
             base == With(PromptComponents(FALSE), pr)
             all == With(PromptComponents(TRUE), base)
  <2>1. Table(s) = [digests |-> With(all, PathDigests), always |-> DOMAIN base]
    BY <1>2 DEF Table, GeneralTable
  <2>2. IsNow(pr) /\ DOMAIN pr = {"parse", "routing"}
    <3>1. {"parse"} \cup {"routing"} = {"parse", "routing"}
      OBVIOUS
    <3> QED
      BY <3>1, ParseIsNow, RoutingIsNow, WithIsNow
  <2> HIDE DEF pr
  <2>3. IsNow(base) /\ DOMAIN base = PromptNames(FALSE) \cup {"parse", "routing"}
    BY <2>2, PromptIsNow, WithIsNow
  <2> HIDE DEF base
  <2>4. IsNow(all) /\ DOMAIN all = PromptNames(TRUE) \cup DOMAIN base
    BY <2>3, PromptIsNow, WithIsNow
  <2> HIDE DEF all
  <2>5. IsNow(With(all, PathDigests)) /\ DOMAIN With(all, PathDigests) = DOMAIN all \cup (Paths \cup {"vision"})
    BY <2>4, PathsAreNow, WithIsNow
  <2>6. "reference" \in DOMAIN base <=> On("reference")
    BY <2>3 DEF PromptNames
  <2>7. "reference" \in DOMAIN With(all, PathDigests) <=> On("reference")
    BY <2>3, <2>4, <2>5 DEF PromptNames, Paths
  <2>8. Table(s).digests = With(all, PathDigests) /\ Table(s).always = DOMAIN base
    BY <2>1
  <2> QED
    BY <2>5, <2>6, <2>7, <2>8
<1> QED
  BY <1>1, <1>2

\* The parts of a call read as plan says.
CallNames(s, plan) ==
    IF s.kind = "journal" THEN JournalNames
    ELSE PromptNames(plan.context) \cup {"parse"} \cup (IF plan.sees THEN {"vision"} ELSE {})
LEMMA PartsAre ==
    ASSUME NEW s, NEW plan, plan.context \in BOOLEAN
    PROVE  IsNow(Parts(s, plan)) /\ DOMAIN Parts(s, plan) = CallNames(s, plan)
<1>1. CASE s.kind = "journal"
  BY <1>1, JournalIsNow DEF Parts, CallNames
<1>2. CASE s.kind # "journal"
  <2> DEFINE base == With(PromptComponents(plan.context), Parse)
             eye == IF plan.sees THEN Only(PathDigests, {"vision"}) ELSE <<>>
  <2>1. Parts(s, plan) = With(base, eye)
    BY <1>2 DEF Parts
  <2>2. IsNow(base) /\ DOMAIN base = PromptNames(plan.context) \cup {"parse"}
    BY PromptIsNow, ParseIsNow, WithIsNow
  <2>3. IsNow(eye) /\ DOMAIN eye = (IF plan.sees THEN {"vision"} ELSE {})
    <3>1. CASE plan.sees
      BY <3>1, PathsAreNow, OnlyIsNow
    <3>2. CASE ~plan.sees
      <4>1. eye = <<>> /\ DOMAIN eye = {}
        BY <3>2
      <4> QED
        BY <3>2, <4>1 DEF IsNow
    <3> QED
      BY <3>1, <3>2
  <2> HIDE DEF base, eye
  <2>4. IsNow(With(base, eye)) /\ DOMAIN With(base, eye) = DOMAIN base \cup DOMAIN eye
    BY <2>2, <2>3, WithIsNow
  <2>5. IsNow(Parts(s, plan)) /\ DOMAIN Parts(s, plan) = DOMAIN base \cup DOMAIN eye
    BY <2>1, <2>4
  <2> QED
    BY <1>2, <2>2, <2>3, <2>5 DEF CallNames
<1> QED
  BY <1>1, <1>2

\* The part that names a path.
LEMMA PartOfPath ==
    ASSUME NEW p \in Paths
    PROVE  /\ IsNow(Only(PathDigests, {p})) /\ DOMAIN Only(PathDigests, {p}) = {p}
           /\ Only(PathDigests, {p})[p] = DigestOf(today, p)
<1>1. IsNow(Only(PathDigests, {p})) /\ DOMAIN Only(PathDigests, {p}) = {p}
  BY PathsAreNow, OnlyIsNow
<1> QED
  BY <1>1 DEF IsNow

\* Which way a source goes, and whether a page is seen, by the routing's digest.
SeesUnder(s, r, low) == s.kind = "pdf" /\ r[3] = 1 /\ (r[4] = 1 \/ s.chars < low \/ s.image)
PathUnder(s, r) ==
    CASE s.kind = "pdf" -> "pdf"
      [] s.kind = "text" /\ s.prefix /\ r[1] = 1 -> "delta"
      [] OTHER -> IF s.length > 1 + r[2] THEN "chunked" ELSE "single"

\* The names of a call's parts, told by the digests themselves.
Shape(u, s, p, r, low) ==
    DOMAIN u \ {"reference"} =
        IF s.kind = "journal" THEN {"journal rules", "journal schema", "journalParse", p}
        ELSE {"rules", "schema", "parse", p}
               \cup (IF u["parse"][2] = 1 THEN {"validity"} ELSE {"reference date"})
               \cup (IF p = "delta" /\ u["delta"] = <<1>> THEN {"append context"} ELSE {})
               \cup (IF SeesUnder(s, r, low) THEN {"vision"} ELSE {})

\* What was used was recorded, by its digest or as two texts.
Covered(e, u) == \A n \in DOMAIN u : n \in DOMAIN e /\ (e[n] = u[n] \/ e[n] = MixedText)
HasRef(f) == "reference" \in DOMAIN f

RecordOK ==
    record # NoRecord =>
        /\ record.source \in Sources /\ "routing" \in DOMAIN record.exercised
        /\ record.exercised["routing"] # MixedText =>
              record.path = PathUnder(record.source, record.exercised["routing"])
        /\ "reference" \in record.available => HasRef(record.exercised)
FromRecord(u, r) ==
    /\ u = [n \in DOMAIN u |-> u[n]]
    /\ Covered(r.exercised, u)
    /\ Shape(u, r.source, r.path, r.exercised["routing"], r.low)
    /\ ~r.strange => (HasRef(u) <=> HasRef(r.exercised))
FromUnderway(u, w, reference) ==
    /\ u = [n \in DOMAIN u |-> u[n]]
    /\ Covered(w.exercised, u)
    /\ Shape(u, w.source, w.plan.path, w.exercised["routing"], w.low)
    /\ HasRef(u) <=> reference
    /\ HasRef(u) <=> HasRef(w.exercised)
UnderwayOK ==
    underway # NoRecord =>
        LET e == underway.exercised
            p == underway.plan.path
            s == underway.source
        IN /\ underway = [source |-> s, plan |-> underway.plan, low |-> underway.low,
                          carried |-> underway.carried, exercised |-> e,
                          available |-> underway.available]
           /\ s \in Sources /\ "routing" \in DOMAIN e /\ p \in DOMAIN e
           /\ p = PathUnder(s, e["routing"])
           /\ underway.plan.sees <=> SeesUnder(s, e["routing"], underway.low)
           /\ underway.plan.context \in BOOLEAN
           /\ underway.plan.context <=> p = "delta" /\ e["delta"] = <<1>>
           /\ "reference" \in underway.available <=> On("reference")
           /\ HasRef(e) => On("reference")
           /\ underway.carried =>
                 /\ record # NoRecord /\ record.source = s /\ record.path = p
                 /\ p \in {"chunked", "delta"}
UsedOK ==
    /\ \E S : used \in Seq(S)
    /\ underway = NoRecord /\ record # NoRecord => \A i \in DOMAIN used : FromRecord(used[i], record)
    /\ underway # NoRecord =>
          \A i \in DOMAIN used :
              FromUnderway(used[i], underway, On("reference")) \/ (underway.carried /\ FromRecord(used[i], record))
ComponentInv == today \in [Knobs -> {0, 1}] /\ RecordOK /\ UnderwayOK /\ UsedOK

LEMMA AddIs ==
    ASSUME NEW e, NEW f
    PROVE  /\ DOMAIN Add(e, f) = DOMAIN e \cup DOMAIN f
           /\ \A n \in DOMAIN e : Add(e, f)[n] = e[n] \/ Add(e, f)[n] = MixedText
           /\ \A n \in DOMAIN e : n \notin DOMAIN f => Add(e, f)[n] = e[n]
           /\ \A n \in DOMAIN f : Add(e, f)[n] = f[n] \/ Add(e, f)[n] = MixedText
BY DEF Add

\* What was covered stays so when more is recorded, from either side.
LEMMA CoveredStays ==
    ASSUME NEW e, NEW f, NEW u, Covered(e, u) \/ Covered(f, u) PROVE Covered(Add(e, f), u)
<1>1. /\ DOMAIN Add(e, f) = DOMAIN e \cup DOMAIN f
      /\ \A n \in DOMAIN e : Add(e, f)[n] = e[n] \/ Add(e, f)[n] = MixedText
      /\ \A n \in DOMAIN f : Add(e, f)[n] = f[n] \/ Add(e, f)[n] = MixedText
  BY DEF Add
<1>2. CASE Covered(e, u)
  BY <1>1, <1>2 DEF Covered
<1>3. CASE Covered(f, u)
  BY <1>1, <1>3 DEF Covered
<1> QED
  BY <1>2, <1>3

LEMMA PathsOnly == ASSUME NEW s, NEW r PROVE PathUnder(s, r) \in Paths
BY DEF PathUnder, Paths

LEMMA SeesOnlyPdf == ASSUME NEW s, NEW r, NEW low, s.kind # "pdf" PROVE ~SeesUnder(s, r, low)
BY DEF SeesUnder

\* Settings that change leave what is recorded.
LEMMA ChangeKeeps ==
    ASSUME ComponentInv, NEW f \in Release \cup Setting, Change(f) PROVE ComponentInv'
<1>1. today' \in [Knobs -> {0, 1}]
  <2>1. f \in Knobs /\ today \in [Knobs -> {0, 1}] /\ today' = [today EXCEPT ![f] = 1 - @]
    BY KnobsAre DEF ComponentInv, Change
  <2> QED
    BY <2>1
<1>2. UNCHANGED <<underway, used, record>>
  BY DEF Change
<1>3. underway # NoRecord => (On("reference") <=> On("reference")')
  <2> SUFFICES ASSUME underway # NoRecord PROVE today'["reference"] = today["reference"]
    BY DEF On
  <2>1. f # "reference" /\ today' = [today EXCEPT ![f] = 1 - @]
    BY DEF Change, Setting
  <2> QED
    BY <2>1 DEF ComponentInv, Knobs
<1>4. RecordOK'
  BY <1>2 DEF ComponentInv, RecordOK
<1>5. UnderwayOK'
  BY <1>2, <1>3 DEF ComponentInv, UnderwayOK
<1>6. UsedOK'
  <2>1. CASE underway = NoRecord
    BY <1>2, <2>1 DEF ComponentInv, UsedOK
  <2>2. CASE underway # NoRecord
    <3>1. On("reference")' = On("reference")
      BY <1>3, <2>2 DEF On
    <3> QED
      BY <1>2, <2>2, <3>1 DEF ComponentInv, UsedOK
  <2> QED
    BY <2>1, <2>2
<1> QED
  BY <1>1, <1>4, <1>5, <1>6 DEF ComponentInv

LEMMA DigestsNow ==
    /\ DigestOf(today, "routing") = <<today["delta"], today["size"], today["vision"], today["always"]>>
    /\ DigestOf(today, "delta") = <<today["context"]>>
    /\ DigestOf(today, "parse") = <<today["parse"], today["validity"]>>
BY DEF DigestOf

\* The way a source goes today, told by the digest of the routing today.
LEMMA RoutedNow ==
    ASSUME NEW s
    PROVE  /\ Path(s) = PathUnder(s, DigestOf(today, "routing")) /\ Path(s) \in Paths
           /\ Plan(s).path = Path(s) /\ Plan(s).context \in BOOLEAN
           /\ Plan(s).sees <=> SeesUnder(s, DigestOf(today, "routing"), today["low"])
           /\ Plan(s).context <=> Path(s) = "delta" /\ DigestOf(today, "delta") = <<1>>
<1> DEFINE r == DigestOf(today, "routing")
<1>1. r[1] = today["delta"] /\ r[2] = today["size"] /\ r[3] = today["vision"] /\ r[4] = today["always"]
  BY DigestsNow
<1> HIDE DEF r
<1>2. Path(s) = PathUnder(s, r)
  BY <1>1 DEF Path, PathUnder, On
<1>3. Sees(s) <=> SeesUnder(s, r, today["low"])
  BY <1>1 DEF Sees, SeesUnder, On
<1>4. DigestOf(today, "delta") = <<1>> <=> today["context"] = 1
  BY DigestsNow
<1>5. Plan(s) = [path |-> Path(s), sees |-> Sees(s), context |-> Path(s) = "delta" /\ On("context")]
  BY DEF Plan
<1>6. Plan(s).path = Path(s) /\ Plan(s).sees = Sees(s) /\ Plan(s).context = (Path(s) = "delta" /\ On("context"))
  BY <1>5
<1> QED
  BY <1>2, <1>3, <1>4, <1>6, PathsOnly DEF r, On

\* An extraction begins.
LEMMA DeclareKeeps ==
    ASSUME ComponentInv, NEW s \in Sources, Declare(s) PROVE ComponentInv'
<1> DEFINE way == Path(s)
           e == With(Routing, Only(PathDigests, {way}))
           carried == /\ record # NoRecord /\ way \in {"chunked", "delta"}
                      /\ record.path = way /\ record.exercised[way] = PathDigests[way]
                      /\ Len(used) < CallsOf(s, way)
<1>1. /\ underway = NoRecord /\ (record # NoRecord => record.source = s)
      /\ underway' = [source |-> s, plan |-> Plan(s), low |-> today.low, carried |-> carried,
                      exercised |-> e, available |-> DOMAIN Table(s).digests]
      /\ used' = IF carried THEN used ELSE <<>>
      /\ UNCHANGED <<today, changes, record>>
  BY DEF Declare
<1>2. /\ underway'.source = s /\ underway'.plan = Plan(s) /\ underway'.low = today.low
      /\ underway'.carried = carried /\ underway'.exercised = e
      /\ underway'.available = DOMAIN Table(s).digests
      /\ underway' = [source |-> s, plan |-> underway'.plan, low |-> underway'.low,
                      carried |-> underway'.carried, exercised |-> underway'.exercised,
                      available |-> underway'.available]
  <2> HIDE DEF carried, e
  <2> QED
    BY <1>1
<1>3. IsNow(e) /\ DOMAIN e = {"routing", way}
  <2>1. way \in Paths
    BY RoutedNow
  <2>2. IsNow(Only(PathDigests, {way})) /\ DOMAIN Only(PathDigests, {way}) = {way}
    BY <2>1, PartOfPath
  <2>3. IsNow(e) /\ DOMAIN e = {"routing"} \cup {way}
    BY <2>2, RoutingIsNow, WithIsNow
  <2> QED
    BY <2>3
<1>4. e["routing"] = DigestOf(today, "routing") /\ e[way] = DigestOf(today, way)
  <2> HIDE DEF e, way
  <2> QED
    BY <1>3 DEF IsNow
<1>5. "reference" \notin DOMAIN e
  BY <1>3, RoutedNow DEF Paths
<1>6. carried => record # NoRecord /\ record.source = s /\ record.path = way /\ way \in {"chunked", "delta"}
  BY <1>1
<1>7. UNCHANGED <<today, record>> /\ underway = NoRecord /\ (carried => used' = used) /\ (~carried => used' = <<>>)
  <2> HIDE DEF carried
  <2> QED
    BY <1>1
<1>8. carried \in BOOLEAN
  OBVIOUS
<1> HIDE DEF carried, e
<1>9. UnderwayOK'
  <2>1. Plan(s).path = way /\ Plan(s).context \in BOOLEAN
        /\ way = PathUnder(s, e["routing"])
        /\ (Plan(s).sees <=> SeesUnder(s, e["routing"], today.low))
        /\ (Plan(s).context <=> way = "delta" /\ e["delta"] = <<1>>)
    BY <1>4, RoutedNow
  <2>2. "reference" \in DOMAIN Table(s).digests <=> On("reference")
    BY TableIsNow
  <2>3. On("reference")' <=> On("reference")
    BY <1>7 DEF On
  <2>4. "routing" \in DOMAIN e /\ way \in DOMAIN e
    BY <1>3
  <2> HIDE DEF way
  <2> SUFFICES LET e2 == underway'.exercised
            p == underway'.plan.path
            t == underway'.source
        IN /\ underway' = [source |-> t, plan |-> underway'.plan, low |-> underway'.low,
                          carried |-> underway'.carried, exercised |-> e2,
                          available |-> underway'.available]
           /\ t \in Sources /\ "routing" \in DOMAIN e2 /\ p \in DOMAIN e2
           /\ p = PathUnder(t, e2["routing"])
           /\ underway'.plan.sees <=> SeesUnder(t, e2["routing"], underway'.low)
           /\ underway'.plan.context \in BOOLEAN
           /\ underway'.plan.context <=> p = "delta" /\ e2["delta"] = <<1>>
           /\ "reference" \in underway'.available <=> On("reference")'
           /\ HasRef(e2) => On("reference")'
           /\ underway'.carried =>
                 /\ record' # NoRecord /\ record'.source = t /\ record'.path = p
                 /\ p \in {"chunked", "delta"}
    BY DEF UnderwayOK
  <2> QED
    BY <1>2, <1>5, <1>6, <1>7, <2>1, <2>2, <2>3, <2>4 DEF HasRef
<1>10. RecordOK'
  BY <1>7 DEF ComponentInv, RecordOK
<1>11. UsedOK'
  <2>1. \E S : used' \in Seq(S)
    <3>1. CASE carried
      BY <1>7, <3>1 DEF ComponentInv, UsedOK
    <3>2. CASE ~carried
      BY <1>7, <3>2
    <3> QED
      BY <3>1, <3>2
  <2>2. underway' # NoRecord
    <3>1. "source" \in DOMAIN underway'
      BY <1>1
    <3>2. DOMAIN NoRecord = {"missing"}
      BY DEF NoRecord
    <3> QED
      BY <3>1, <3>2
  <2>4. ASSUME NEW i \in DOMAIN used' PROVE underway'.carried /\ FromRecord(used'[i], record')
    <3>1. CASE carried
      BY <1>2, <1>6, <1>7, <2>4, <3>1 DEF ComponentInv, UsedOK
    <3>2. CASE ~carried
      BY <1>7, <2>4, <3>2
    <3> QED
      BY <3>1, <3>2
  <2> QED
    BY <2>1, <2>2, <2>4 DEF UsedOK
<1>12. today' \in [Knobs -> {0, 1}]
  BY <1>7 DEF ComponentInv
<1> QED
  BY <1>9, <1>10, <1>11, <1>12 DEF ComponentInv

\* A reading planned as what it recorded tells.
Planned(s, plan, e, low) ==
    /\ plan.context \in BOOLEAN /\ plan.path \in Paths /\ plan.path \in DOMAIN e
    /\ plan.context <=> plan.path = "delta" /\ e["delta"] = <<1>>
    /\ plan.sees <=> SeesUnder(s, e["routing"], low)

\* A call whose parts u are named as its digests tell.
CalledAs(u, s, plan, e, low) ==
    /\ u = [n \in DOMAIN u |-> u[n]]
    /\ Shape(u, s, plan.path, e["routing"], low)
    /\ HasRef(u) <=> On("reference")
    /\ HasRef(Parts(s, plan)) <=> On("reference")
    /\ DOMAIN u = DOMAIN Parts(s, plan) \cup {plan.path}
    /\ u[plan.path] = e[plan.path] /\ plan.path \notin DOMAIN Parts(s, plan)
    /\ \A n \in DOMAIN Parts(s, plan) : u[n] = Parts(s, plan)[n]
    /\ "routing" \notin DOMAIN Parts(s, plan)

\* The names of a call's parts, as its digests tell them.
LEMMA CallIsShaped ==
    ASSUME NEW s, NEW plan, NEW e, NEW low, Planned(s, plan, e, low),
           NEW u, u = With(Parts(s, plan), Only(e, {plan.path}))
    PROVE  CalledAs(u, s, plan, e, low)
<1> DEFINE P == Parts(s, plan)
           p == plan.path
<1>4. u = With(P, Only(e, {p}))
  OBVIOUS
<1>10. /\ plan.context \in BOOLEAN /\ plan.path \in Paths /\ plan.path \in DOMAIN e
       /\ plan.context <=> plan.path = "delta" /\ e["delta"] = <<1>>
       /\ plan.sees <=> SeesUnder(s, e["routing"], low)
  BY DEF Planned
<1>1. IsNow(P) /\ (s.kind = "journal" => DOMAIN P = JournalNames)
      /\ (s.kind # "journal" =>
              DOMAIN P = PromptNames(plan.context) \cup {"parse"} \cup (IF plan.sees THEN {"vision"} ELSE {}))
  <2>1. IsNow(P) /\ DOMAIN P = CallNames(s, plan)
    BY <1>10, PartsAre
  <2> HIDE DEF P
  <2> QED
    BY <2>1 DEF CallNames
<1>0. p \in Paths /\ DOMAIN Only(e, {p}) = {p} /\ Only(e, {p})[p] = e[p]
  BY <1>10 DEF Only
<1> HIDE DEF P, p
<1>2. p \notin DOMAIN P /\ "routing" \notin DOMAIN P
  <2>0. p \in {"single", "chunked", "delta", "pdf"}
    BY <1>0 DEF Paths
  <2>1. CASE s.kind = "journal"
    <3>1. DOMAIN P = JournalNames
      BY <1>1, <2>1
    <3>2. \A n \in JournalNames : n \in {"journal rules", "journal schema", "journalParse", "reference"}
      BY DEF JournalNames
    <3> QED
      BY <2>0, <3>1, <3>2
  <2>2. CASE s.kind # "journal"
    <3>1. DOMAIN P = PromptNames(plan.context) \cup {"parse"} \cup (IF plan.sees THEN {"vision"} ELSE {})
      BY <1>1, <2>2
    <3>2. \A n \in PromptNames(plan.context) :
              n \in {"rules", "schema", "validity", "reference date", "reference", "append context"}
      BY DEF PromptNames
    <3>3. \A n \in DOMAIN P :
              n \in {"rules", "schema", "validity", "reference date", "reference", "append context", "parse", "vision"}
      BY <3>1, <3>2
    <3> QED
      BY <2>0, <3>3
  <2> QED
    BY <2>1, <2>2
<1>3. HasRef(P) <=> On("reference")
  <2>1. CASE s.kind = "journal"
    <3>1. DOMAIN P = JournalNames
      BY <1>1, <2>1
    <3>2. "reference" \in JournalNames <=> On("reference")
      BY DEF JournalNames
    <3> QED
      BY <3>1, <3>2 DEF HasRef
  <2>2. CASE s.kind # "journal"
    <3>1. DOMAIN P = PromptNames(plan.context) \cup {"parse"} \cup (IF plan.sees THEN {"vision"} ELSE {})
      BY <1>1, <2>2
    <3>2. "reference" \in PromptNames(plan.context) <=> On("reference")
      BY DEF PromptNames
    <3>3. "reference" \in DOMAIN P <=> "reference" \in PromptNames(plan.context)
      BY <3>1
    <3> QED
      BY <3>2, <3>3 DEF HasRef
  <2> QED
    BY <2>1, <2>2
<1>5. u = [n \in DOMAIN P \cup {p} |-> IF n = p THEN e[p] ELSE P[n]]
  BY <1>0, <1>4 DEF With
<1>6. DOMAIN u = DOMAIN P \cup {p} /\ u[p] = e[p] /\ \A n \in DOMAIN P : u[n] = P[n]
  BY <1>2, <1>5
<1>7. u = [n \in DOMAIN u |-> u[n]]
  BY <1>5
<1>8. HasRef(u) <=> On("reference")
  BY <1>0, <1>3, <1>6 DEF HasRef, Paths
<1>9. Shape(u, s, p, e["routing"], low)
  <2>1. p # "reference"
    BY <1>0 DEF Paths
  <2>2. CASE s.kind = "journal"
    <3>1. DOMAIN P = JournalNames
      BY <1>1, <2>2
    <3>2. JournalNames \ {"reference"} = {"journal rules", "journal schema", "journalParse"}
      BY DEF JournalNames
    <3>3. DOMAIN u \ {"reference"} = {"journal rules", "journal schema", "journalParse"} \cup {p}
      BY <1>6, <2>1, <3>1, <3>2
    <3>4. DOMAIN u \ {"reference"} = {"journal rules", "journal schema", "journalParse", p}
      BY <3>3
    <3> QED
      BY <2>2, <3>4 DEF Shape
  <2>3. CASE s.kind # "journal"
    <3>1. DOMAIN P = PromptNames(plan.context) \cup {"parse"} \cup (IF plan.sees THEN {"vision"} ELSE {})
      BY <1>1, <2>3
    <3>2. P["parse"] = DigestOf(today, "parse")
      BY <1>1, <3>1 DEF IsNow
    <3>3. u["parse"][2] = today["validity"]
      <4>1. u["parse"] = P["parse"]
        BY <1>6, <3>1
      <4> QED
        BY <3>2, <4>1, DigestsNow
    <3>4. u["parse"][2] = 1 <=> On("validity")
      BY <3>3 DEF On
    <3>5. plan.context <=> p = "delta" /\ u["delta"] = <<1>>
      BY <1>6, <1>10 DEF p
    <3>6. DOMAIN P \ {"reference"} = {"rules", "schema", "parse"}
                 \cup (IF u["parse"][2] = 1 THEN {"validity"} ELSE {"reference date"})
                 \cup (IF p = "delta" /\ u["delta"] = <<1>> THEN {"append context"} ELSE {})
                 \cup (IF SeesUnder(s, e["routing"], low) THEN {"vision"} ELSE {})
      BY <1>10, <3>1, <3>4, <3>5 DEF PromptNames
    <3> QED
      BY <1>6, <2>1, <2>3, <3>6 DEF Shape
  <2> QED
    BY <2>2, <2>3
<1> QED
  BY <1>2, <1>3, <1>6, <1>7, <1>8, <1>9 DEF P, p, CalledAs

\* What is appended to a list, and what was there before.
LEMMA AppendIs ==
    ASSUME NEW q, \E S : q \in Seq(S), NEW x
    PROVE  /\ \E S : Append(q, x) \in Seq(S)
           /\ \A i \in DOMAIN Append(q, x) :
                 (i \in DOMAIN q /\ Append(q, x)[i] = q[i]) \/ Append(q, x)[i] = x
<1>1. PICK S : q \in Seq(S)
  OBVIOUS
<1> DEFINE T == S \cup {x}
<1>2. q \in Seq(T) /\ x \in T
  BY <1>1
<1> HIDE DEF T
<1>3. Append(q, x) \in Seq(T) /\ Len(Append(q, x)) = Len(q) + 1 /\ Len(q) \in Nat
  BY <1>2
<1>4. DOMAIN q = 1..Len(q) /\ DOMAIN Append(q, x) = 1..(Len(q) + 1)
  BY <1>2, <1>3
<1>5. \A i \in 1..Len(q) : Append(q, x)[i] = q[i]
  BY <1>2
<1>6. Append(q, x)[Len(q) + 1] = x
  BY <1>2
<1>7. \A i \in 1..(Len(q) + 1) : i \in 1..Len(q) \/ i = Len(q) + 1
  BY <1>3
<1> QED
  BY <1>3, <1>4, <1>5, <1>6, <1>7

\* One call.
LEMMA CallKeeps ==
    ASSUME ComponentInv, RecordCall PROVE ComponentInv'
<1> DEFINE s == underway.source
           plan == underway.plan
           p == plan.path
           e == underway.exercised
           P == Parts(s, plan)
           u == With(P, Only(e, {p}))
<1>1. /\ underway # NoRecord
      /\ underway' = [underway EXCEPT !.exercised = Add(e, P)]
      /\ used' = Append(used, u)
      /\ UNCHANGED <<today, changes, record>>
  BY DEF RecordCall
<1>2. /\ underway = [source |-> s, plan |-> underway.plan, low |-> underway.low,
                     carried |-> underway.carried, exercised |-> e, available |-> underway.available]
      /\ s \in Sources /\ "routing" \in DOMAIN e /\ p \in DOMAIN e
      /\ p = PathUnder(s, e["routing"])
      /\ plan.sees <=> SeesUnder(s, e["routing"], underway.low)
      /\ plan.context \in BOOLEAN
      /\ plan.context <=> p = "delta" /\ e["delta"] = <<1>>
      /\ "reference" \in underway.available <=> On("reference")
      /\ HasRef(e) => On("reference")
      /\ underway.carried =>
                 /\ record # NoRecord /\ record.source = s /\ record.path = p
                 /\ p \in {"chunked", "delta"}
  BY <1>1 DEF ComponentInv, UnderwayOK
<1>3. p \in Paths
  BY <1>2, PathsOnly
<1>4. /\ u = [n \in DOMAIN u |-> u[n]]
      /\ Shape(u, s, p, e["routing"], underway.low)
      /\ HasRef(u) <=> On("reference")
      /\ HasRef(P) <=> On("reference")
      /\ DOMAIN u = DOMAIN P \cup {p}
      /\ u[p] = e[p] /\ p \notin DOMAIN P
      /\ \A n \in DOMAIN P : u[n] = P[n]
      /\ "routing" \notin DOMAIN P
  <2> HIDE DEF s, e
  <2> DEFINE low == underway.low
  <2> HIDE DEF low
  <2>1. Planned(s, plan, e, low)
    BY <1>2, <1>3 DEF low, Planned
  <2> HIDE DEF plan
  <2>2. u = With(Parts(s, plan), Only(e, {plan.path}))
    OBVIOUS
  <2> HIDE DEF u
  <2> QED
    <3>1. CalledAs(u, s, plan, e, low)
      BY ONLY <2>1, <2>2, CallIsShaped, ZenonT(30)
    <3> QED
      BY <3>1 DEF low, CalledAs
<1> DEFINE e2 == Add(e, P)
<1>5. /\ underway' # NoRecord /\ underway'.source = s /\ underway'.plan = plan /\ underway'.low = underway.low
      /\ underway'.carried = underway.carried /\ underway'.available = underway.available
      /\ underway'.exercised = e2
      /\ underway' = [source |-> s, plan |-> plan, low |-> underway.low,
                      carried |-> underway.carried, exercised |-> e2, available |-> underway.available]
  <2> HIDE DEF e2, P
  <2>1. underway' = [underway EXCEPT !.exercised = e2]
    BY <1>1 DEF e2
  <2>2. underway' = [source |-> s, plan |-> plan, low |-> underway.low,
                      carried |-> underway.carried, exercised |-> e2, available |-> underway.available]
    BY <1>2, <2>1
  <2>3. underway' # NoRecord
    <3>1. "source" \in DOMAIN underway' /\ DOMAIN NoRecord = {"missing"}
      BY <2>2 DEF NoRecord
    <3> QED
      BY <3>1
  <2> QED
    BY <2>2, <2>3
<1>6. /\ DOMAIN e2 = DOMAIN e \cup DOMAIN P
      /\ \A n \in DOMAIN e : n \notin DOMAIN P => e2[n] = e[n]
      /\ \A n \in DOMAIN P : e2[n] = P[n] \/ e2[n] = MixedText
  BY DEF Add
<1>7. Covered(e2, u)
  <2> HIDE DEF e2, P, u
  <2> QED
    BY <1>2, <1>4, <1>6 DEF Covered
<1>8. \A w : Covered(e, w) => Covered(e2, w)
  BY CoveredStays
<1>9. HasRef(e2) <=> On("reference")
  <2> HIDE DEF e2, P, u
  <2> QED
    BY <1>2, <1>4, <1>6 DEF HasRef
<1>10. e2["routing"] = e["routing"] /\ e2[p] = e[p] /\ {"routing", p} \subseteq DOMAIN e2
  <2> HIDE DEF e2, P, u
  <2> QED
    BY <1>2, <1>4, <1>6
<1>11. On("reference")' <=> On("reference")
  BY <1>1 DEF On
<1>12. UNCHANGED <<today, record>> /\ used' = Append(used, u)
  BY <1>1
<1> HIDE DEF e2, P, u, e, s
<1>13. UnderwayOK'
  <2>1. p = "delta" => e2["delta"] = e["delta"]
    BY <1>10
  <2> QED
    BY <1>2, <1>5, <1>9, <1>10, <1>11, <1>12, <2>1 DEF UnderwayOK
<1>14. RecordOK'
  BY <1>12 DEF ComponentInv, RecordOK
<1>15. UsedOK'
  <2> DEFINE ref == On("reference")
  <2>1. ref' = ref
    BY <1>12 DEF On
  <2>2. ASSUME NEW w, FromUnderway(w, underway, ref) PROVE FromUnderway(w, underway', ref)
    <3>1. /\ w = [n \in DOMAIN w |-> w[n]] /\ Covered(e, w)
          /\ Shape(w, s, p, e["routing"], underway.low)
          /\ HasRef(w) <=> ref
      BY <2>2 DEF FromUnderway, e, s
    <3>2. Covered(e2, w) /\ (HasRef(w) <=> HasRef(e2))
      BY <1>8, <1>9, <3>1
    <3> QED
      BY <1>5, <1>10, <3>1, <3>2 DEF FromUnderway
  <2>3. FromUnderway(u, underway', ref)
    BY <1>4, <1>5, <1>7, <1>9, <1>10 DEF FromUnderway
  <2>4. /\ \E S : Append(used, u) \in Seq(S)
        /\ \A i \in DOMAIN Append(used, u) :
              (i \in DOMAIN used /\ Append(used, u)[i] = used[i]) \/ Append(used, u)[i] = u
    <3>1. \E S : used \in Seq(S)
      BY DEF ComponentInv, UsedOK
    <3> QED
      BY <3>1, AppendIs
  <2> HIDE DEF ref
  <2>5. \A i \in DOMAIN used : FromUnderway(used[i], underway, ref) \/ (underway.carried /\ FromRecord(used[i], record))
    BY <1>1 DEF ComponentInv, UsedOK, ref
  <2>6. ASSUME NEW i \in DOMAIN used'
        PROVE  FromUnderway(used'[i], underway', ref) \/ (underway'.carried /\ FromRecord(used'[i], record'))
    <3>1. CASE used'[i] = u
      BY <2>3, <3>1
    <3>2. CASE i \in DOMAIN used /\ used'[i] = used[i]
      BY <1>5, <1>12, <2>2, <2>5, <3>2
    <3> QED
      BY <1>12, <2>4, <2>6, <3>1, <3>2
  <2>7. \E S : used' \in Seq(S)
    BY <1>12, <2>4
  <2>8. underway' # NoRecord
    BY <1>5
  <2>9. \A i \in DOMAIN used' : FromUnderway(used'[i], underway', ref') \/ (underway'.carried /\ FromRecord(used'[i], record'))
    BY <2>1, <2>6 DEF ref
  <2> QED
    BY <2>7, <2>8, <2>9 DEF UsedOK, ref
<1>16. today' \in [Knobs -> {0, 1}]
  BY <1>12 DEF ComponentInv
<1> QED
  BY <1>13, <1>14, <1>15, <1>16 DEF ComponentInv

\* Only a page can be seen: elsewhere neither the routing nor the threshold names a part.
LEMMA ShapeOffPdf ==
    ASSUME NEW u, NEW s, NEW p, NEW r, NEW low, NEW r2, NEW low2, s.kind # "pdf", Shape(u, s, p, r, low)
    PROVE  Shape(u, s, p, r2, low2)
<1>1. ~SeesUnder(s, r, low) /\ ~SeesUnder(s, r2, low2)
  BY SeesOnlyPdf
<1> QED
  BY <1>1 DEF Shape

\* The extraction ends.
LEMMA StoreKeeps ==
    ASSUME ComponentInv, StoreRecord PROVE ComponentInv'
<1> DEFINE s == underway.source
           p == underway.plan.path
           e == underway.exercised
           ref == On("reference")
           known == underway.available \cup DOMAIN e
           own == [exercised |-> e, available |-> known]
           carried == underway.carried
           r == IF carried THEN Merged(own, record) ELSE own
           fresh == (DOMAIN e \ (record.available \cup DOMAIN record.exercised))
                       \cup (DOMAIN record.exercised \ (known \cup DOMAIN e))
<1>1. /\ underway # NoRecord /\ used # <<>> /\ underway' = NoRecord /\ UNCHANGED <<today, changes, used>>
      /\ record' = [source |-> s, path |-> p, low |-> underway.low,
                    exercised |-> r.exercised, available |-> r.available,
                    strange |-> carried /\ (record.strange \/ fresh # {})]
  BY DEF StoreRecord
<1>2. /\ s \in Sources /\ "routing" \in DOMAIN e /\ p \in DOMAIN e
      /\ p = PathUnder(s, e["routing"])
      /\ "reference" \in underway.available <=> ref
      /\ HasRef(e) => ref
      /\ carried =>
                 /\ record # NoRecord /\ record.source = s /\ record.path = p
                 /\ p \in {"chunked", "delta"}
  BY <1>1 DEF ComponentInv, UnderwayOK
<1>3. \A i \in DOMAIN used : FromUnderway(used[i], underway, ref) \/ (carried /\ FromRecord(used[i], record))
  BY <1>1 DEF ComponentInv, UsedOK
<1>4. carried => record # NoRecord /\ ("reference" \in record.available => HasRef(record.exercised))
  BY <1>2 DEF ComponentInv, RecordOK
<1>5. ~carried => r.exercised = e /\ r.available = known
  OBVIOUS
<1>6. carried => r.exercised = Add(e, record.exercised) /\ r.available = known \cap record.available
  BY DEF Merged
<1>7. /\ record'.source = s /\ record'.path = p /\ record'.low = underway.low
      /\ record'.exercised = r.exercised /\ record'.available = r.available
      /\ record'.strange <=> carried /\ (record.strange \/ fresh # {})
  <2> DEFINE odd == carried /\ (record.strange \/ fresh # {})
             ex == r.exercised
             av == r.available
  <2>1. record' = [source |-> s, path |-> p, low |-> underway.low, exercised |-> ex, available |-> av,
                   strange |-> odd]
    BY <1>1
  <2>2. odd <=> carried /\ (record.strange \/ fresh # {})
    OBVIOUS
  <2> HIDE DEF odd, ex, av
  <2>3. record'.source = s /\ record'.path = p /\ record'.low = underway.low
        /\ record'.exercised = ex /\ record'.available = av /\ record'.strange = odd
    BY <2>1
  <2> QED
    BY <2>2, <2>3 DEF ex, av
<1>8. record' # NoRecord /\ underway' = NoRecord /\ used' = used /\ today' = today
  <2>1. "source" \in DOMAIN record' /\ DOMAIN NoRecord = {"missing"}
    BY <1>1 DEF NoRecord
  <2> QED
    BY <1>1, <2>1
<1>9. HasRef(e) => "reference" \in known
  BY DEF HasRef
<1>10. "reference" \in known => ref
  BY <1>2 DEF HasRef
<1>11. carried /\ ~record'.strange =>
          /\ ~record.strange
          /\ HasRef(e) => "reference" \in record.available \/ HasRef(record.exercised)
          /\ HasRef(record.exercised) => "reference" \in known
  BY <1>7 DEF HasRef
<1>12. /\ DOMAIN Add(e, record.exercised) = DOMAIN e \cup DOMAIN record.exercised
       /\ \A n \in DOMAIN e : Add(e, record.exercised)[n] = e[n] \/ Add(e, record.exercised)[n] = MixedText
  BY AddIs
<1>13. \A u : Covered(e, u) \/ Covered(record.exercised, u) => Covered(Add(e, record.exercised), u)
  BY CoveredStays
<1>14. carried => s.kind # "pdf"
  BY <1>2 DEF PathUnder
<1> DEFINE ex == r.exercised
           m == Add(e, record.exercised)
<1> HIDE DEF fresh, r, known, e, s, ref, m
<1>15. RecordOK'
  <2>1. record'.source \in Sources
    BY <1>2, <1>7
  <2>2. CASE carried
    <3>1. ex = m /\ DOMAIN m = DOMAIN e \cup DOMAIN record.exercised
          /\ (m["routing"] = e["routing"] \/ m["routing"] = MixedText)
      BY <1>2, <1>6, <1>12, <2>2 DEF m
    <3>2. "reference" \in r.available => HasRef(record.exercised)
      BY <1>4, <1>6, <2>2
    <3>3. HasRef(record.exercised) => HasRef(ex)
      BY <3>1 DEF HasRef
    <3> HIDE DEF ex
    <3> QED
      BY <1>2, <1>7, <2>1, <3>1, <3>2, <3>3 DEF RecordOK, ex
  <2>3. CASE ~carried
    <3>1. ex = e /\ r.available = known
      BY <1>5, <2>3
    <3>2. PICK i \in DOMAIN used : TRUE
      <4>1. \E S : used \in Seq(S)
        BY DEF ComponentInv, UsedOK
      <4>2. PICK S : used \in Seq(S)
        BY <4>1
      <4>3. Len(used) \in Nat /\ DOMAIN used = 1..Len(used) /\ Len(used) # 0
        BY <1>1, <4>2
      <4>4. 1 \in DOMAIN used
        BY <4>3
      <4> QED
        BY <4>4
    <3>3. FromUnderway(used[i], underway, ref)
      BY <1>3, <2>3, <3>2
    <3>4. ref => HasRef(e)
      BY <3>3 DEF FromUnderway, e
    <3> QED
      BY <1>2, <1>7, <1>10, <2>1, <3>1, <3>4 DEF RecordOK, ex
  <2> QED
    BY <2>2, <2>3
<1>16. ASSUME NEW i \in DOMAIN used PROVE FromRecord(used[i], record')
  <2> DEFINE u == used[i]
  <2>0. FromUnderway(u, underway, ref) \/ (carried /\ FromRecord(u, record))
    BY <1>3, <1>16
  <2> HIDE DEF u
  <2>1. CASE ~carried
    <3>1. FromUnderway(u, underway, ref)
      BY <2>0, <2>1
    <3>2. /\ u = [n \in DOMAIN u |-> u[n]] /\ Covered(e, u)
          /\ Shape(u, s, p, e["routing"], underway.low) /\ (HasRef(u) <=> HasRef(e))
      BY <3>1 DEF FromUnderway, e, s
    <3>3. record'.exercised = e
      BY <1>5, <1>7, <2>1
    <3> QED
      BY <1>7, <3>2, <3>3 DEF FromRecord, u
  <2>2. CASE carried /\ FromUnderway(u, underway, ref)
    <3>2. /\ u = [n \in DOMAIN u |-> u[n]] /\ Covered(e, u)
          /\ Shape(u, s, p, e["routing"], underway.low) /\ (HasRef(u) <=> HasRef(e)) /\ (HasRef(u) <=> ref)
      BY <2>2 DEF FromUnderway, e, s
    <3>3. record'.exercised = m /\ Covered(m, u) /\ DOMAIN m = DOMAIN e \cup DOMAIN record.exercised
      BY <1>6, <1>7, <1>12, <1>13, <2>2, <3>2 DEF m
    <3>4. Shape(u, s, p, m["routing"], underway.low)
      BY <1>14, <2>2, <3>2, ShapeOffPdf
    <3>5. ~record'.strange => (HasRef(u) <=> HasRef(m))
      <4>1. HasRef(m) <=> HasRef(e) \/ HasRef(record.exercised)
        BY <3>3 DEF HasRef
      <4> QED
        BY <1>10, <1>11, <2>2, <3>2, <4>1
    <3> QED
      BY <1>7, <3>2, <3>3, <3>4, <3>5 DEF FromRecord, u
  <2>3. CASE carried /\ FromRecord(u, record)
    <3>2. /\ u = [n \in DOMAIN u |-> u[n]] /\ Covered(record.exercised, u)
          /\ Shape(u, s, p, record.exercised["routing"], record.low)
          /\ (~record.strange => (HasRef(u) <=> HasRef(record.exercised)))
      BY <1>2, <2>3 DEF FromRecord
    <3>3. record'.exercised = m /\ Covered(m, u) /\ DOMAIN m = DOMAIN e \cup DOMAIN record.exercised
      BY <1>6, <1>7, <1>12, <1>13, <2>3, <3>2 DEF m
    <3>4. Shape(u, s, p, m["routing"], underway.low)
      BY <1>14, <2>3, <3>2, ShapeOffPdf
    <3>5. ~record'.strange => (HasRef(u) <=> HasRef(m))
      <4>1. HasRef(m) <=> HasRef(e) \/ HasRef(record.exercised)
        BY <3>3 DEF HasRef
      <4> QED
        BY <1>4, <1>11, <2>3, <3>2, <4>1
    <3> QED
      BY <1>7, <3>2, <3>3, <3>4, <3>5 DEF FromRecord, u
  <2> QED
    BY <2>0, <2>1, <2>2, <2>3
<1>17. UsedOK'
  BY <1>8, <1>16 DEF ComponentInv, UsedOK
<1>18. UnderwayOK'
  BY <1>8 DEF UnderwayOK
<1>19. today' \in [Knobs -> {0, 1}]
  BY <1>8 DEF ComponentInv
<1> QED
  BY <1>15, <1>17, <1>18, <1>19 DEF ComponentInv

\* What a table that matches a record says of one of its calls: today would name the parts so.
LEMMA MatchedReadsAlike ==
    ASSUME ComponentInv, underway = NoRecord, record # NoRecord, ~Selected, ~record.strange,
           record.low = today.low, NEW i \in DOMAIN used
    PROVE  used[i] = With(Parts(record.source, Plan(record.source)), Only(PathDigests, {Path(record.source)}))
<1> DEFINE u == used[i]
           s == record.source
           e == record.exercised
           T == Table(s)
           D == T.digests
           plan == Plan(s)
           here == Only(PathDigests, {plan.path})
           v == With(Parts(s, plan), here)
           routing == DigestOf(today, "routing")
<1>1. /\ u = [n \in DOMAIN u |-> u[n]] /\ Covered(e, u)
      /\ Shape(u, s, record.path, e["routing"], record.low) /\ (HasRef(u) <=> HasRef(e))
  BY DEF ComponentInv, UsedOK, FromRecord
<1>2. /\ s \in Sources /\ "routing" \in DOMAIN e
      /\ e["routing"] # MixedText => record.path = PathUnder(s, e["routing"])
      /\ "reference" \in record.available => HasRef(e)
  BY DEF ComponentInv, RecordOK
<1>3. /\ \A n \in DOMAIN e : n \in DOMAIN D /\ D[n] = e[n]
      /\ DOMAIN D \subseteq record.available \cup DOMAIN e
      /\ T.always \subseteq DOMAIN e
  BY DEF Selected
<1>4. IsNow(D) /\ ("reference" \in DOMAIN D <=> On("reference")) /\ (On("reference") => "reference" \in T.always)
  BY TableIsNow
<1> HIDE DEF u, s, e, D, T
<1>5. \A n \in DOMAIN e : e[n] = DigestOf(today, n) /\ e[n] # MixedText
  BY <1>3, <1>4, DigestsAreTexts DEF IsNow, ComponentInv
<1>6. \A n \in DOMAIN u : u[n] = DigestOf(today, n)
  BY <1>1, <1>5 DEF Covered
<1>7. e["routing"] = routing /\ record.path = PathUnder(s, routing)
  BY <1>2, <1>5
<1>8. HasRef(u) <=> On("reference")
  BY <1>1, <1>3, <1>4 DEF HasRef
<1>9. /\ Path(s) = PathUnder(s, routing) /\ Path(s) \in Paths
      /\ plan.path = Path(s) /\ plan.context \in BOOLEAN
      /\ plan.sees <=> SeesUnder(s, routing, today["low"])
      /\ plan.context <=> Path(s) = "delta" /\ DigestOf(today, "delta") = <<1>>
  BY RoutedNow
<1> HIDE DEF plan
<1>10. plan.path \in Paths /\ plan.path = record.path
  BY <1>7, <1>9
<1>11. IsNow(here) /\ DOMAIN here = {plan.path} /\ here[plan.path] = DigestOf(today, plan.path)
  BY <1>10, PartOfPath
<1> HIDE DEF here
<1>12. IsNow(Parts(s, plan))
  <2>1. plan.context \in BOOLEAN
    BY <1>9
  <2> QED
    BY <2>1, PartsAre
<1>13. IsNow(v)
  BY <1>11, <1>12, WithIsNow
<1> DEFINE known == [n \in {"routing", plan.path} |-> DigestOf(today, n)]
<1>14. here = Only(known, {plan.path}) /\ known["routing"] = routing
       /\ known[plan.path] = DigestOf(today, plan.path) /\ plan.path \in DOMAIN known
  BY <1>11 DEF Only, IsNow
<1> HIDE DEF known
<1>15. Planned(s, plan, known, today.low)
  <2>1. plan.path = "delta" => known["delta"] = DigestOf(today, "delta")
    BY <1>14
  <2> QED
    BY <1>9, <1>10, <1>14, <2>1 DEF Planned
<1>16. v = With(Parts(s, plan), Only(known, {plan.path}))
  BY <1>14
<1> HIDE DEF v
<1>17. CalledAs(v, s, plan, known, today.low)
  BY <1>15, <1>16, CallIsShaped
<1>18. /\ v = [n \in DOMAIN v |-> v[n]] /\ (HasRef(v) <=> On("reference"))
       /\ Shape(v, s, plan.path, routing, today.low)
  BY <1>14, <1>17 DEF CalledAs
<1>19. Shape(u, s, plan.path, routing, today.low)
  BY <1>1, <1>7, <1>10
<1>20. \A n \in DOMAIN v : v[n] = DigestOf(today, n)
  BY <1>13 DEF IsNow
<1>21. DOMAIN u = DOMAIN v
  <2>1. DOMAIN u \ {"reference"} = DOMAIN v \ {"reference"}
    <3>1. CASE s.kind = "journal"
      BY <1>18, <1>19, <3>1 DEF Shape
    <3>2. CASE s.kind # "journal"
      <4> DEFINE Names(valid, delta) ==
                    {"rules", "schema", "parse", plan.path}
                       \cup (IF valid THEN {"validity"} ELSE {"reference date"})
                       \cup (IF delta THEN {"append context"} ELSE {})
                       \cup (IF SeesUnder(s, routing, today.low) THEN {"vision"} ELSE {})
      <4>1. DOMAIN u \ {"reference"} = Names(u["parse"][2] = 1, plan.path = "delta" /\ u["delta"] = <<1>>)
        BY <1>19, <3>2 DEF Shape
      <4>2. DOMAIN v \ {"reference"} = Names(v["parse"][2] = 1, plan.path = "delta" /\ v["delta"] = <<1>>)
        BY <1>18, <3>2 DEF Shape
      <4>3. {"parse", plan.path} \subseteq DOMAIN u /\ {"parse", plan.path} \subseteq DOMAIN v
        BY <4>1, <4>2
      <4>4. u["parse"] = v["parse"] /\ u[plan.path] = v[plan.path]
        BY <1>6, <1>20, <4>3
      <4>5. (plan.path = "delta" /\ u["delta"] = <<1>>) <=> (plan.path = "delta" /\ v["delta"] = <<1>>)
        BY <4>4
      <4> QED
        BY <4>1, <4>2, <4>4, <4>5
    <3> QED
      BY <3>1, <3>2
  <2>2. "reference" \in DOMAIN u <=> "reference" \in DOMAIN v
    BY <1>8, <1>18 DEF HasRef
  <2> QED
    BY <2>1, <2>2
<1>22. u = v
  BY <1>1, <1>6, <1>18, <1>20, <1>21
<1> QED
  BY <1>9, <1>22 DEF v, here, u, s, plan

\* Every reading of one extraction is recorded as it was made.
THEOREM ComponentsAreInvariant == ComponentSpec => []ComponentInv
<1>1. ASSUME ComponentInit PROVE ComponentInv
  <2>1. today \in [Knobs -> {0, 1}] /\ underway = NoRecord /\ record = NoRecord /\ used = <<>>
    BY <1>1, ComponentAssumption DEF ComponentInit, Knobs
  <2>2. used \in Seq({})
    BY <2>1
  <2> QED
    BY <2>1, <2>2 DEF ComponentInv, RecordOK, UnderwayOK, UsedOK
<1>2. ASSUME ComponentInv, [ComponentNext]_componentVars PROVE ComponentInv'
  <2>1. ASSUME NEW f \in Release \cup Setting, Change(f) PROVE ComponentInv'
    BY <1>2, <2>1, ChangeKeeps
  <2>2. ASSUME NEW s \in Sources, Declare(s) PROVE ComponentInv'
    BY <1>2, <2>2, DeclareKeeps
  <2>3. CASE RecordCall
    BY <1>2, <2>3, CallKeeps
  <2>4. CASE StoreRecord
    BY <1>2, <2>4, StoreKeeps
  <2>5. CASE UNCHANGED componentVars
    <3>1. UNCHANGED <<today, underway, used, record>>
      BY <2>5 DEF componentVars
    <3> QED
      BY <1>2, <3>1 DEF ComponentInv, RecordOK, UnderwayOK, UsedOK, On
  <2> QED
    BY <1>2, <2>1, <2>2, <2>3, <2>4, <2>5 DEF ComponentNext
<1> QED
  BY <1>1, <1>2, PTL DEF ComponentSpec

\* The selection of components.py can be trusted: a source its table passes over would be read
\* today along the same path, with the same parts in every call, as its claims were made.
THEOREM PassedOverAreAlike == ComponentSpec => []PassedOverReadsAlike
<1>1. ComponentInv => PassedOverReadsAlike
  <2> SUFFICES ASSUME ComponentInv, underway = NoRecord, record # NoRecord, ~Selected, ~record.strange,
                      record.low = today.low, NEW i \in DOMAIN used
               PROVE  used[i] = With(Parts(record.source, Plan(record.source)),
                                     Only(PathDigests, {Path(record.source)}))
    BY DEF PassedOverReadsAlike
  <2> QED
    BY MatchedReadsAlike
<1> QED
  BY <1>1, ComponentsAreInvariant, PTL
-----------------------------------------------------------------------------
\* Who wrote a default

\* A claim and its writer: as an extraction left it, or as the operator or a regeneration did.
JustMade ==
    LET n == RuleOf(claim.extractor)
    IN /\ claim.classifier = Unknown
       /\ \/ writtenBy = Unclassified /\ DOMAIN claim.components = {}
          \/ \E d \in Nat \ {0} :
                /\ writtenBy = Identity(n, d) /\ claim.value = Ruled(d)
                /\ DOMAIN claim.components = {n} /\ claim.components[n] \in {TwoTexts, d}
JustRuled == claim.classifier = Operator /\ writtenBy = [operator |-> claim.value]
JustRegenerated ==
    \E d \in Nat \ {0} :
        /\ claim.classifier = Identity("modality", d) /\ writtenBy = Identity("modality", d)
        /\ claim.value = Ruled(d) /\ claim.extractor # "journal"
ModalityInv ==
    /\ ruleText \in [Component -> Nat \ {0}]
    /\ lenses \in Lenses /\ adopted \subseteq DOMAIN lenses
    /\ claim # Unknown =>
          /\ claim = [extractor |-> claim.extractor, classifier |-> claim.classifier,
                      scopes |-> claim.scopes, value |-> claim.value, recorded |-> claim.recorded,
                      components |-> claim.components]
          /\ JustMade \/ JustRuled \/ JustRegenerated

LEMMA StampsDiffer ==
    /\ Operator # Unknown /\ Operator # Unclassified /\ Operator # Legacy
    /\ \A n, d : /\ Identity(n, d) # Unknown /\ Identity(n, d) # Operator
                 /\ Identity(n, d) # Unclassified /\ Identity(n, d) # Legacy
                 /\ "operator" \notin DOMAIN Identity(n, d)
                 /\ Identity(n, d).component = n /\ Identity(n, d).digest = d
    /\ \A v : [operator |-> v] # Unclassified /\ "component" \notin DOMAIN [operator |-> v]
              /\ [operator |-> v].operator = v
    /\ "operator" \notin DOMAIN Unclassified /\ "component" \notin DOMAIN Unclassified
<1>1. /\ DOMAIN Unknown = {"missing"} /\ DOMAIN Operator = {"operator"} /\ DOMAIN Legacy = {"legacy"}
      /\ DOMAIN Unclassified = {"unclassified"}
  BY DEF Unknown, Operator, Legacy, Unclassified
<1>2. \A n, d : DOMAIN Identity(n, d) = {"component", "digest"}
                /\ Identity(n, d).component = n /\ Identity(n, d).digest = d
  BY DEF Identity
<1>3. \A v : DOMAIN [operator |-> v] = {"operator"} /\ [operator |-> v].operator = v
  OBVIOUS
<1>4. /\ {"missing"} # {"operator"} /\ {"legacy"} # {"operator"} /\ {"unclassified"} # {"operator"}
      /\ {"component", "digest"} # {"missing"} /\ {"component", "digest"} # {"operator"}
      /\ {"component", "digest"} # {"unclassified"} /\ {"component", "digest"} # {"legacy"}
      /\ "operator" \notin {"component", "digest"} /\ "component" \notin {"operator"}
      /\ "operator" \notin {"unclassified"} /\ "component" \notin {"unclassified"}
  OBVIOUS
<1>5. Operator # Unknown /\ Operator # Unclassified /\ Operator # Legacy
  BY <1>1, <1>4
<1>6. ASSUME NEW n, NEW d
      PROVE  /\ Identity(n, d) # Unknown /\ Identity(n, d) # Operator
             /\ Identity(n, d) # Unclassified /\ Identity(n, d) # Legacy
             /\ "operator" \notin DOMAIN Identity(n, d)
  BY <1>1, <1>2, <1>4
<1>7. ASSUME NEW v PROVE [operator |-> v] # Unclassified /\ "component" \notin DOMAIN [operator |-> v]
  BY <1>1, <1>3, <1>4
<1> QED
  BY <1>1, <1>2, <1>3, <1>4, <1>5, <1>6, <1>7

\* A claim one of the rules in force is stamped on was written by that rule.
LEMMA CurrentIsWritten ==
    ASSUME ModalityInv, claim # Unknown, State = "current"
    PROVE  writtenBy \in Current /\ claim.value = Ruled(writtenBy.digest)
<1>1. Stamp # Operator /\ Stamp # Unclassified /\ Stamp \in Current
  <2>1. CASE Stamp = Operator
    BY <2>1, StampsDiffer DEF State
  <2>2. CASE Stamp = Unclassified
    BY <2>2, StampsDiffer DEF State
  <2>3. CASE Stamp # Operator /\ Stamp # Unclassified
    BY <2>3 DEF State
  <2> QED
    BY <2>1, <2>2, <2>3
<1>2. PICK m \in Component : Stamp = Identity(m, ruleText[m])
  BY <1>1 DEF Current
<1>3. ruleText[m] # 0
  BY <1>2 DEF ModalityInv
<1>4. ASSUME NEW n, NEW d, Stamp = Identity(n, d), writtenBy = Identity(n, d), claim.value = Ruled(d)
      PROVE  writtenBy \in Current /\ claim.value = Ruled(writtenBy.digest)
  BY <1>1, <1>4, StampsDiffer
<1>5. CASE JustMade
  <2> DEFINE n == RuleOf(claim.extractor)
  <2>1. claim.classifier = Unknown
    BY <1>5 DEF JustMade
  <2>2. Stamp = IF claim.extractor = "assertion" THEN Unclassified
                ELSE IF claim.recorded
                     THEN IF "journal rules" \in DOMAIN claim.components
                          THEN Identity("journal rules", claim.components["journal rules"])
                          ELSE IF "modality" \in DOMAIN claim.components
                          THEN Identity("modality", claim.components["modality"]) ELSE Unclassified
                     ELSE IF claim.extractor \in {"general", "journal"} THEN Legacy ELSE Unclassified
    BY <2>1 DEF Stamp
  <2>3. Stamp # Legacy
    BY <1>2, StampsDiffer
  <2>4. \E q \in {"journal rules", "modality"} :
            q \in DOMAIN claim.components /\ Stamp = Identity(q, claim.components[q])
    BY <1>1, <2>2, <2>3
  <2>5. PICK d \in Nat \ {0} : /\ writtenBy = Identity(n, d) /\ claim.value = Ruled(d)
                               /\ DOMAIN claim.components = {n} /\ claim.components[n] \in {TwoTexts, d}
    BY <1>5, <2>4 DEF JustMade
  <2>6. Stamp = Identity(n, claim.components[n])
    BY <2>4, <2>5
  <2>7. claim.components[n] # 0
    <3>1. Identity(m, ruleText[m]).digest = ruleText[m]
          /\ Identity(n, claim.components[n]).digest = claim.components[n]
      BY StampsDiffer
    <3>2. Identity(m, ruleText[m]) = Identity(n, claim.components[n])
      BY <1>2, <2>6
    <3> QED
      BY <1>3, <3>1, <3>2
  <2>8. Stamp = Identity(n, d)
    BY <2>5, <2>6, <2>7 DEF TwoTexts
  <2> QED
    BY <1>4, <2>5, <2>8
<1>6. CASE JustRuled
  <2>1. Stamp = Operator
    BY <1>6, StampsDiffer DEF JustRuled, Stamp
  <2> QED
    BY <1>1, <2>1
<1>7. CASE JustRegenerated
  <2>1. PICK d \in Nat \ {0} :
            /\ claim.classifier = Identity("modality", d) /\ writtenBy = Identity("modality", d)
            /\ claim.value = Ruled(d)
    BY <1>7 DEF JustRegenerated
  <2>2. Stamp = Identity("modality", d)
    <3>1. claim.classifier # Unknown
      BY <2>1, StampsDiffer
    <3>2. Stamp = claim.classifier
      BY <3>1 DEF Stamp
    <3> QED
      BY <2>1, <3>2
  <2> QED
    BY <1>4, <2>1, <2>2
<1> QED
  BY <1>5, <1>6, <1>7 DEF ModalityInv

\* What the operator ruled is what every observer reads.
LEMMA RuledIsRead ==
    ASSUME ModalityInv, claim # Unknown, "operator" \in DOMAIN writtenBy
    PROVE  Composed = writtenBy.operator
<1>1. JustRuled
  <2>1. ~JustMade /\ ~JustRegenerated
    BY StampsDiffer DEF JustMade, JustRegenerated
  <2> QED
    BY <2>1 DEF ModalityInv
<1>2. Stamp = Operator
  BY <1>1, StampsDiffer DEF JustRuled, Stamp
<1>3. State = "operator"
  BY <1>2, StampsDiffer DEF State
<1>4. Composed = claim.value
  BY <1>3 DEF Composed
<1> QED
  BY <1>1, <1>4 DEF JustRuled

LEMMA MinOfOne == Min({1}) = 1
BY DEF Min

\* A lens reads one of the two values.
LEMMA ReadingsAreValues == ASSUME ModalityInv PROVE Readings \subseteq {0, 1}
<1>1. ASSUME NEW n \in adopted
      PROVE  LensReading({r \in lenses[n] : Matches(r)}) \in {0, 1}
  <2> DEFINE rules == {r \in lenses[n] : Matches(r)}
             least == Min({Order(r.scope) : r \in rules})
             values == {r.modality : r \in {s \in rules : Order(s.scope) = least}}
  <2>1. \A r \in lenses[n] : r.modality \in {0, 1}
    BY <1>1, ModalityAssumption DEF ModalityInv
  <2> HIDE DEF least
  <2>2. values \subseteq {0, 1}
    BY <2>1
  <2> HIDE DEF values
  <2>3. values \ {Falsifiable} # {} => values \ {Falsifiable} = {1}
    BY <2>2 DEF Falsifiable
  <2>4. LensReading(rules) = IF values \ {Falsifiable} # {} THEN Min(values \ {Falsifiable}) ELSE Falsifiable
    BY DEF LensReading, values, least
  <2> HIDE DEF rules
  <2>5. LensReading(rules) \in {0, 1}
    BY <2>3, <2>4, MinOfOne DEF Falsifiable
  <2> QED
    BY <2>5 DEF rules
<1> QED
  BY <1>1 DEF Readings

LEMMA AbstentionHolds == ASSUME ModalityInv PROVE AbstentionStands
<1> SUFFICES ASSUME State # "operator", Readings \ {Falsifiable} # {} PROVE Composed # Falsifiable
  BY DEF AbstentionStands, Adjudicable
<1>1. Readings \ {Falsifiable} = {1} /\ Readings # {}
  BY ReadingsAreValues DEF Falsifiable
<1>2. Composed = Min(Readings \ {Falsifiable})
  BY <1>1 DEF Composed
<1>3. Composed = 1
  BY <1>1, <1>2, MinOfOne
<1> QED
  BY <1>3 DEF Falsifiable

LEMMA JournalIsKept == ASSUME ModalityInv PROVE JournalKeepsItsRule
<1> SUFFICES ASSUME claim # Unknown, claim.extractor = "journal", "component" \in DOMAIN writtenBy
             PROVE  writtenBy.component = "journal rules"
  BY DEF JournalKeepsItsRule
<1>1. JustMade
  BY StampsDiffer DEF ModalityInv, JustRuled, JustRegenerated
<1>2. RuleOf(claim.extractor) = "journal rules"
  BY DEF RuleOf
<1>3. writtenBy # Unclassified
  BY StampsDiffer
<1>4. PICK d \in Nat \ {0} : writtenBy = Identity("journal rules", d)
  BY <1>1, <1>2, <1>3 DEF JustMade
<1>5. Identity("journal rules", d).component = "journal rules"
  BY StampsDiffer
<1> QED
  BY <1>4, <1>5

\* One step.
LEMMA ModalityKeeps == ASSUME ModalityInv, [ModalityNext]_modalityVars PROVE ModalityInv'
<1>1. ASSUME NEW mode \in Modes, Extract(mode) PROVE ModalityInv'
  <2> DEFINE n == RuleOf(mode.extractor)
             value == IF mode.classified THEN Ruled(ruleText[n]) ELSE Falsifiable
             names == IF mode.classified THEN {n} ELSE {}
             components == [m \in names |-> IF mode.mixed THEN TwoTexts ELSE ruleText[m]]
  <2>1. /\ claim' = [extractor |-> mode.extractor, classifier |-> Unknown, scopes |-> mode.scopes,
                    value |-> value, recorded |-> mode.recorded, components |-> components]
        /\ writtenBy' = IF mode.classified THEN Identity(n, ruleText[n]) ELSE Unclassified
        /\ UNCHANGED <<ruleText, adopted, lenses>>
    BY <1>1 DEF Extract, Made
  <2>2. n \in Component /\ ruleText[n] \in Nat \ {0}
    BY DEF RuleOf, Component, ModalityInv
  <2>3. DOMAIN components = names /\ \A m \in names : components[m] \in {TwoTexts, ruleText[m]}
    OBVIOUS
  <2> HIDE DEF components, value
  <2>4. /\ claim'.extractor = mode.extractor /\ claim'.classifier = Unknown /\ claim'.value = value
        /\ claim'.components = components
        /\ claim' = [extractor |-> claim'.extractor, classifier |-> claim'.classifier,
                     scopes |-> claim'.scopes, value |-> claim'.value, recorded |-> claim'.recorded,
                     components |-> claim'.components]
    BY <2>1
  <2>5. RuleOf(claim'.extractor) = n
    BY <2>4
  <2>6. JustMade'
    <3>1. CASE mode.classified
      <4>1. /\ writtenBy' = Identity(n, ruleText[n]) /\ claim'.value = Ruled(ruleText[n])
            /\ DOMAIN claim'.components = {n} /\ claim'.components[n] \in {TwoTexts, ruleText[n]}
        BY <2>1, <2>3, <2>4, <3>1 DEF value
      <4> HIDE DEF n
      <4> QED
        BY <2>2, <2>4, <2>5, <4>1 DEF JustMade
    <3>2. CASE ~mode.classified
      <4>1. writtenBy' = Unclassified /\ DOMAIN claim'.components = {}
        BY <2>1, <2>3, <2>4, <3>2
      <4> QED
        BY <2>4, <4>1 DEF JustMade
    <3> QED
      BY <3>1, <3>2
  <2> QED
    BY <2>1, <2>4, <2>6 DEF ModalityInv
<1>2. ASSUME NEW n \in Component, EditRule(n) PROVE ModalityInv'
  <2>1. ruleText' = [ruleText EXCEPT ![n] = @ + 1] /\ UNCHANGED <<claim, writtenBy, adopted, lenses>>
    BY <1>2 DEF EditRule
  <2>2. ruleText' \in [Component -> Nat \ {0}]
    BY <1>2, <2>1 DEF ModalityInv
  <2> QED
    BY <2>1, <2>2 DEF ModalityInv, JustMade, JustRuled, JustRegenerated
<1>3. ASSUME NEW v \in Value, Rule(v) PROVE ModalityInv'
  <2>1. /\ claim # Unknown /\ claim' = [claim EXCEPT !.classifier = Operator, !.value = v]
        /\ writtenBy' = [operator |-> v] /\ UNCHANGED <<ruleText, adopted, lenses>>
    BY <1>3 DEF Rule
  <2>2. claim = [extractor |-> claim.extractor, classifier |-> claim.classifier,
                 scopes |-> claim.scopes, value |-> claim.value, recorded |-> claim.recorded,
                 components |-> claim.components]
    BY <2>1 DEF ModalityInv
  <2>3. /\ claim'.classifier = Operator /\ claim'.value = v
        /\ claim' = [extractor |-> claim'.extractor, classifier |-> claim'.classifier,
                     scopes |-> claim'.scopes, value |-> claim'.value, recorded |-> claim'.recorded,
                     components |-> claim'.components]
    BY <2>1, <2>2
  <2>4. JustRuled'
    BY <2>1, <2>3 DEF JustRuled
  <2> QED
    BY <2>1, <2>3, <2>4 DEF ModalityInv
<1>4. ASSUME NEW n \in DOMAIN lenses \ adopted, Adopt(n) PROVE ModalityInv'
  BY <1>4 DEF Adopt, ModalityInv, JustMade, JustRuled, JustRegenerated
<1>5. CASE Regenerate
  <2>1. /\ claim # Unknown /\ Regenerable
        /\ claim' = [claim EXCEPT !.classifier = Regeneration, !.value = Ruled(ruleText["modality"])]
        /\ writtenBy' = Regeneration /\ UNCHANGED <<ruleText, adopted, lenses>>
    BY <1>5 DEF Regenerate
  <2>2. claim = [extractor |-> claim.extractor, classifier |-> claim.classifier,
                 scopes |-> claim.scopes, value |-> claim.value, recorded |-> claim.recorded,
                 components |-> claim.components]
    BY <2>1 DEF ModalityInv
  <2>3. /\ claim'.classifier = Regeneration /\ claim'.value = Ruled(ruleText["modality"])
        /\ claim'.extractor = claim.extractor
        /\ claim' = [extractor |-> claim'.extractor, classifier |-> claim'.classifier,
                     scopes |-> claim'.scopes, value |-> claim'.value, recorded |-> claim'.recorded,
                     components |-> claim'.components]
    BY <2>1, <2>2
  <2>4. claim.extractor # "journal" /\ ruleText["modality"] \in Nat \ {0}
    BY <2>1 DEF Regenerable, ModalityInv, Component
  <2>5. JustRegenerated'
    BY <2>1, <2>3, <2>4 DEF JustRegenerated, Regeneration
  <2> QED
    BY <2>1, <2>3, <2>5 DEF ModalityInv
<1>6. CASE UNCHANGED modalityVars
  BY <1>6 DEF modalityVars, ModalityInv, JustMade, JustRuled, JustRegenerated
<1> QED
  BY <1>1, <1>2, <1>3, <1>4, <1>5, <1>6 DEF ModalityNext

\* A default is known by who wrote it (core/modality.py): a stamp that reads as current names the
\* rule that wrote the value, an operator's ruling is what every observer reads, a journal's claim
\* is never the general rule's, and no lens opens what another one withholds.
THEOREM ModalityHolds == ModalitySpec => []ModalityIsJudged
<1>1. ASSUME ModalityInit PROVE ModalityInv
  BY <1>1 DEF ModalityInit, ModalityInv
<1>2. ModalityInv /\ [ModalityNext]_modalityVars => ModalityInv'
  BY ModalityKeeps
<1>3. ModalityInv => ModalityIsJudged
  BY CurrentIsWritten, RuledIsRead, AbstentionHolds, JournalIsKept DEF ModalityIsJudged, StampTellsTheRule
<1> QED
  BY <1>1, <1>2, <1>3, PTL DEF ModalitySpec

-----------------------------------------------------------------------------
(* Embeddings.  Both hold for any threads, revisions and bounds.  A thread *)
(* that encodes is the one that holds the lock, and what a thread loads is *)
(* an instance: never none.                                                *)

Instance == [instance : Nat, revision : {0, Pinned} \cup Others]
Place == {"idle", "loading", "loaded", "ready", "encoding", "without"}
EncoderInv ==
    /\ refused \in BOOLEAN /\ loads \in Nat /\ shared \in Instance
    /\ thread \in [Thread -> [at : Place, model : Instance, offline : BOOLEAN]]
    /\ \A t \in Thread :
          /\ At(t, "encoding") => lock = t
          /\ At(t, "loading") => thread[t].model.instance # 0
          /\ At(t, "loaded") => shared # NoModel
    /\ OneSpace

\* A process starts with no instance and nobody on the lock.
LEMMA EncoderInit == EmbeddingInit => EncoderInv
    BY DEF EmbeddingInit, EncoderInv, Instance, Place, NoModel, NoWork, At, OneSpace

\* No step of a thread, of the posture or of the cache breaks the invariant.
LEMMA EncoderStep ==
    ASSUME Nobody \notin Thread, EncoderInv, [EmbeddingNext]_embeddingVars
    PROVE  EncoderInv'
<1> USE DEF EncoderInv, OneSpace, At, Go
<1>0. NoModel \in Instance
    BY DEF Instance, NoModel
<1>1. ASSUME NEW t \in Thread, Shared(t) PROVE EncoderInv'
    BY <1>1 DEF Shared, Place
<1>2. ASSUME NEW t \in Thread, GiveUp(t) PROVE EncoderInv'
    BY <1>2, <1>0 DEF GiveUp, Place
<1>3. ASSUME NEW t \in Thread, BeginLoad(t) PROVE EncoderInv'
  <2>1. [NoModel EXCEPT !.instance = loads + 1] \in Instance
    BY DEF Instance, NoModel
  <2>2. [NoModel EXCEPT !.instance = loads + 1].instance # 0
    BY DEF NoModel
  <2>3. refused \in BOOLEAN
    OBVIOUS
  <2> QED BY <1>3, <2>1, <2>2, <2>3 DEF BeginLoad, Place
<1>4. ASSUME NEW t \in Thread, NEW r \in {Pinned} \cup Others, Loaded(t, r) PROVE EncoderInv'
  <2>1. r = Pinned
    BY <1>4 DEF Loaded, Loads, InCache
  <2>2. shared' \in Instance /\ shared'.revision = Pinned /\ shared' # NoModel
    BY <1>4, <2>1 DEF Loaded, Instance, NoModel
  <2> QED BY <1>4, <2>2 DEF Loaded, Place
<1>5. ASSUME NEW t \in Thread, TakeShared(t) PROVE EncoderInv'
    BY <1>5 DEF TakeShared, Place
<1>6. ASSUME NEW t \in Thread, LoadFailed(t) PROVE EncoderInv'
    BY <1>6, <1>0 DEF LoadFailed, Place
<1>7. ASSUME NEW t \in Thread, Acquire(t) PROVE EncoderInv'
    BY <1>7 DEF Acquire, Free, Place
<1>8. ASSUME NEW t \in Thread, Encoded(t) PROVE EncoderInv'
    BY <1>8, <1>0 DEF Encoded, Place
<1>9. ASSUME NEW t \in Thread, Forgo(t) PROVE EncoderInv'
    BY <1>9, <1>0 DEF Forgo, Place
<1>10. CASE Posture
    BY <1>10 DEF Posture
<1>11. ASSUME NEW r \in {Pinned} \cup Others, Fetch(r) PROVE EncoderInv'
    BY <1>11 DEF Fetch
<1>12. CASE UNCHANGED embeddingVars
    BY <1>12 DEF embeddingVars
<1> QED BY <1>1, <1>2, <1>3, <1>4, <1>5, <1>6, <1>7, <1>8, <1>9, <1>10, <1>11, <1>12
        DEF EmbeddingNext

\* Whoever encodes is the holder of the one lock, so at most one thread does.
LEMMA LockIsOne == EncoderInv => EncodersAreShared
<1> SUFFICES ASSUME EncoderInv PROVE OneEncodes /\ OneSpace
    BY DEF EncodersAreShared
<1> DEFINE busy == {t \in Thread : At(t, "encoding")}
<1>1. busy = {} \/ busy = {lock}
    BY DEF EncoderInv
<1> HIDE DEF busy
<1>2. Cardinality(busy) = 0 \/ Cardinality(busy) = 1
  <2>1. Cardinality({}) = 0
    BY FS_EmptySet
  <2>2. Cardinality({lock}) = 1
    BY FS_Singleton
  <2> QED BY <1>1, <2>1, <2>2
<1>3. Cardinality(busy) <= 1
    BY <1>2
<1> QED BY <1>3 DEF OneEncodes, EncoderInv, busy

\* However many threads load and encode, one drives the device at a time and all of them use
\* the revision the release names.
THEOREM EncodersStayShared ==
    ASSUME Nobody \notin Thread PROVE EmbeddingSpec => []EncodersAreShared
<1>1. EmbeddingInit => EncoderInv
    BY EncoderInit
<1>2. EncoderInv /\ [EmbeddingNext]_embeddingVars => EncoderInv'
    BY EncoderStep
<1>3. EncoderInv => EncodersAreShared
    BY LockIsOne
<1> QED BY <1>1, <1>2, <1>3, PTL DEF EmbeddingSpec
-----------------------------------------------------------------------------
(* Lists of lists.                                                            *)

\* What is flattened list by list.
Flattening(f, ss, m) == f = [i \in 1..m |-> IF i = 1 THEN ss[i] ELSE f[i - 1] \o ss[i]]

LEMMA FlatteningIs ==
    ASSUME NEW ss, NEW L \in Nat, L = Len(ss), L # 0
    PROVE  \E f : Flattening(f, ss, L) /\ FlattenSeq(ss) = f[L]
<1> DEFINE good == {m \in 0..L : \E f : Flattening(f, ss, m)}
<1>1. 0 \in good
  <2>1. Flattening([i \in 1..0 |-> 0], ss, 0)
    BY DEF Flattening
  <2> QED BY <2>1
<1>2. ASSUME NEW m \in 1..L, m - 1 \in good PROVE m \in good
  <2>1. PICK f : Flattening(f, ss, m - 1)
    BY <1>2
  <2> DEFINE g == [i \in 1..m |-> IF i < m THEN f[i]
                                  ELSE IF i = 1 THEN ss[i] ELSE f[i - 1] \o ss[i]]
  <2>2. \A i \in 1..(m - 1) : g[i] = f[i]
    OBVIOUS
  <2>3. \A i \in 1..(m - 1) : f[i] = IF i = 1 THEN ss[i] ELSE f[i - 1] \o ss[i]
    BY <2>1 DEF Flattening
  <2>4. g[m] = IF m = 1 THEN ss[m] ELSE f[m - 1] \o ss[m]
    OBVIOUS
  <2>5. DOMAIN g = 1..m /\ g = [i \in 1..m |-> g[i]]
    OBVIOUS
  <2> HIDE DEF g
  <2>6. \A i \in 1..m : g[i] = IF i = 1 THEN ss[i] ELSE g[i - 1] \o ss[i]
    BY <2>2, <2>3, <2>4
  <2>7. Flattening(g, ss, m)
    BY <2>5, <2>6 DEF Flattening
  <2> QED BY <2>7
<1>3. L \in good
  <2> HIDE DEF good
  <2>1. \A i \in 0..L : i \in good
    BY <1>1, <1>2, UpToBound
  <2> QED BY <2>1
<1>4. \E f : Flattening(f, ss, L)
  BY <1>3
<1>5. FlattenSeq(ss) = (CHOOSE f : Flattening(f, ss, L))[L]
  BY DEF FlattenSeq, Flattening
<1> QED BY <1>4, <1>5

\* A list joined from two has what they have.
LEMMA JoinedIs ==
    ASSUME NEW S, NEW a \in Seq(S), NEW b \in Seq(S)
    PROVE  \A x : x \in Range(a \o b) <=> x \in Range(a) \/ x \in Range(b)
<1>1. /\ DOMAIN (a \o b) = 1..(Len(a) + Len(b)) /\ DOMAIN a = 1..Len(a) /\ DOMAIN b = 1..Len(b)
      /\ Len(a) \in Nat /\ Len(b) \in Nat
  OBVIOUS
<1>2. \A i \in 1..(Len(a) + Len(b)) : (a \o b)[i] = IF i <= Len(a) THEN a[i] ELSE b[i - Len(a)]
  OBVIOUS
<1>3. ASSUME NEW x, x \in Range(a \o b) PROVE x \in Range(a) \/ x \in Range(b)
  <2>1. PICK i \in 1..(Len(a) + Len(b)) : x = (a \o b)[i]
    BY <1>1, <1>3 DEF Range
  <2>2. CASE i <= Len(a)
    BY <1>1, <1>2, <2>1, <2>2 DEF Range
  <2>3. CASE ~(i <= Len(a))
    <3>1. i - Len(a) \in DOMAIN b /\ x = b[i - Len(a)]
      BY <1>1, <1>2, <2>1, <2>3
    <3> QED BY <3>1 DEF Range
  <2> QED BY <2>2, <2>3
<1>4. ASSUME NEW x, x \in Range(a) PROVE x \in Range(a \o b)
  <2>1. PICK i \in DOMAIN a : x = a[i]
    BY <1>4 DEF Range
  <2>2. i \in DOMAIN (a \o b) /\ x = (a \o b)[i]
    BY <1>1, <1>2, <2>1
  <2> QED BY <2>2 DEF Range
<1>5. ASSUME NEW x, x \in Range(b) PROVE x \in Range(a \o b)
  <2>1. PICK i \in DOMAIN b : x = b[i]
    BY <1>5 DEF Range
  <2>2. i + Len(a) \in DOMAIN (a \o b) /\ x = (a \o b)[i + Len(a)]
    BY <1>1, <1>2, <2>1
  <2> QED BY <2>2 DEF Range
<1> QED BY <1>3, <1>4, <1>5

\* A flattened list has what its lists have.
LEMMA FlattenIs ==
    ASSUME NEW S, NEW ss \in Seq(Seq(S))
    PROVE  /\ FlattenSeq(ss) \in Seq(S)
           /\ \A x : x \in Range(FlattenSeq(ss)) <=> \E i \in 1..Len(ss) : x \in Range(ss[i])
<1> DEFINE L == Len(ss)
<1>1. CASE L = 0
  <2>1. FlattenSeq(ss) = <<>>
    BY <1>1 DEF FlattenSeq
  <2> QED BY <1>1, <2>1 DEF Range
<1>2. CASE L # 0
  <2>1. PICK f : Flattening(f, ss, L) /\ FlattenSeq(ss) = f[L]
    BY <1>2, FlatteningIs
  <2> DEFINE Holds(m) == /\ f[m] \in Seq(S)
                         /\ \A x : x \in Range(f[m]) <=> \E i \in 1..m : x \in Range(ss[i])
             good == {m \in 0..L : m = 0 \/ Holds(m)}
  <2>2. \A m \in 1..L : f[m] = IF m = 1 THEN ss[m] ELSE f[m - 1] \o ss[m]
    BY <2>1 DEF Flattening
  <2>3. ASSUME NEW m \in 1..L, m - 1 \in good PROVE m \in good
    <3>1. CASE m = 1
      BY <2>2, <3>1
    <3>2. CASE m # 1
      <4>0. m - 1 # 0 /\ Holds(m - 1)
        <5> HIDE DEF Holds
        <5> QED BY <2>3, <3>2
      <4>1. Holds(m - 1) /\ ss[m] \in Seq(S) /\ f[m] = f[m - 1] \o ss[m]
        <5> HIDE DEF Holds
        <5>1. ss[m] \in Seq(S)
          OBVIOUS
        <5>2. f[m] = f[m - 1] \o ss[m]
          BY <2>2, <3>2
        <5> QED BY <4>0, <5>1, <5>2
      <4>2. f[m] \in Seq(S) /\ \A x : x \in Range(f[m]) <=> x \in Range(f[m - 1]) \/ x \in Range(ss[m])
        <5> DEFINE a == f[m - 1]
                   b == ss[m]
        <5>1. a \in Seq(S) /\ b \in Seq(S) /\ f[m] = a \o b
          BY <4>1
        <5> HIDE DEF a, b
        <5>2. \A x : x \in Range(a \o b) <=> x \in Range(a) \/ x \in Range(b)
          BY <5>1, JoinedIs
        <5> QED BY <5>1, <5>2 DEF a, b
      <4>3. \A x : (\E i \in 1..m : x \in Range(ss[i])) <=>
                   (\E i \in 1..(m - 1) : x \in Range(ss[i])) \/ x \in Range(ss[m])
        <5>1. 1..m = 1..(m - 1) \cup {m}
          OBVIOUS
        <5> QED BY <5>1
      <4>4. Holds(m)
        BY <4>1, <4>2, <4>3
      <4> HIDE DEF Holds
      <4> QED BY <4>4
    <3> QED BY <3>1, <3>2
  <2>4. L \in good
    <3>1. 0 \in good
      OBVIOUS
    <3>0. L \in Nat
      OBVIOUS
    <3> HIDE DEF good, L
    <3>2. \A i \in 0..L : i \in good
      BY <2>3, <3>0, <3>1, UpToBound
    <3> QED BY <3>0, <3>2
  <2> QED BY <1>2, <2>1, <2>4
<1> QED BY <1>1, <1>2

-----------------------------------------------------------------------------
(* How a reply becomes claims.                                                 *)

\* A filter, as a flattened list of lists of one or none: what is not in T is kept.
Sifting(ss, n, out, T) == ss = [i \in 1..n |-> IF i \in T THEN <<>> ELSE <<out[i]>>]

LEMMA SiftedIs ==
    ASSUME NEW n \in Nat, NEW S, NEW out \in [1..n -> S], NEW T,
           NEW ss, Sifting(ss, n, out, T)
    PROVE  /\ FlattenSeq(ss) \in Seq(S)
           /\ \A x : x \in ToSet(FlattenSeq(ss)) <=> \E i \in 1..n : i \notin T /\ x = out[i]
<1>1. \A i \in 1..n : out[i] \in S
  OBVIOUS
<1>0. ss = [i \in 1..n |-> IF i \in T THEN <<>> ELSE <<out[i]>>]
  BY DEF Sifting
<1>2. \A i \in 1..n : (IF i \in T THEN <<>> ELSE <<out[i]>>) \in Seq(S)
  <2> TAKE i \in 1..n
  <2>1. CASE i \in T
    BY <2>1
  <2>2. CASE i \notin T
    BY <1>1, <2>2
  <2> QED BY <2>1, <2>2
<1>3. ss \in Seq(Seq(S)) /\ Len(ss) = n
  <2>1. ss \in [1..n -> Seq(S)]
    BY <1>0, <1>2
  <2> QED BY <2>1
<1>4. \A i \in 1..n : \A x : x \in Range(ss[i]) <=> i \notin T /\ x = out[i]
  <2> TAKE i \in 1..n
  <2>1. CASE i \in T
    <3>1. ss[i] = <<>>
      BY <1>0, <2>1
    <3> QED BY <2>1, <3>1 DEF Range
  <2>2. CASE i \notin T
    <3>1. ss[i] = <<out[i]>>
      BY <1>0, <2>2
    <3>2. DOMAIN <<out[i]>> = {1} /\ <<out[i]>>[1] = out[i]
      OBVIOUS
    <3> QED BY <2>2, <3>1, <3>2 DEF Range
  <2> QED BY <2>1, <2>2
<1>5. /\ FlattenSeq(ss) \in Seq(S)
      /\ \A x : x \in Range(FlattenSeq(ss)) <=> \E i \in 1..n : x \in Range(ss[i])
  BY <1>3, FlattenIs
<1>6. \A x : x \in ToSet(FlattenSeq(ss)) <=> x \in Range(FlattenSeq(ss))
  BY DEF ToSet, Range
<1> QED BY <1>4, <1>5, <1>6

Fields == {"chunk", "element", "text", "stance", "polarity", "modality", "scope", "subjects", "triple",
           "gated"}
ElementOf(c) == replies[c.chunk].elements[c.element]
Drawn(c) ==
    /\ c.chunk \in DOMAIN replies /\ c.element \in DOMAIN replies[c.chunk].elements
    /\ Skipped(ElementOf(c)) = "" /\ c.text = ElementOf(c).text
\* What binds a triple, whatever the gate may still withhold.
StillBound(c) ==
    LET e == ElementOf(c)
    IN e.about \in e.subjects \ (Worktree \cup Code \cup IF e.text \in Linked THEN {} ELSE Description)
         => (c.triple \cap c.subjects) \ Code # {}

ReadingInv ==
    /\ stage \in {"reading", "filtered", "extracted", "done"}
    /\ replies \in Seq(ModelReply) /\ Len(replies) <= MaxChunks
    /\ candidates \in Seq(ToSet(candidates))
    /\ \A c \in ToSet(candidates) :
          /\ DOMAIN c = Fields /\ Drawn(c)
          /\ stage = "reading" => c = Candidate(c.chunk, c.element, ElementOf(c))
          /\ stage = "filtered" => /\ c.subjects = ElementOf(c).subjects \ Worktree
                                   /\ c.triple = Triple(ElementOf(c))
          /\ stage \in {"extracted", "done"} => StillBound(c)
    /\ NothingIsLostSilently

LEMMA ReadIs ==
    ASSUME NEW r \in ModelReply, NEW k
    PROVE  /\ Read(k, r) \in Seq(ToSet(Read(k, r)))
           /\ \A x : x \in ToSet(Read(k, r)) <=>
                 \E i \in DOMAIN r.elements :
                    Skipped(r.elements[i]) = "" /\ x = Candidate(k, i, r.elements[i])
<1>1. PICK n \in Nat : r.elements \in [1..n -> Element]
  <2>1. r.elements \in UNION {[1..n -> Element] : n \in 0..MaxElements}
    BY DEF ModelReply
  <2>2. MaxElements \in Nat
    BY ReadingAssumption, Zenon
  <2> QED BY <2>1, <2>2
<1> DEFINE out == [i \in 1..n |-> Candidate(k, i, r.elements[i])]
           S == {out[i] : i \in 1..n}
           T == {i \in 1..n : Skipped(r.elements[i]) # ""}
<1>2. DOMAIN r.elements = 1..n
  BY <1>1
<1>3. out \in [1..n -> S]
  OBVIOUS
<1> DEFINE ss == [i \in 1..n |-> IF Skipped(r.elements[i]) # "" THEN <<>>
                                ELSE <<Candidate(k, i, r.elements[i])>>]
<1>4. Read(k, r) = FlattenSeq(ss)
  BY <1>2 DEF Read
<1>5. \A i \in 1..n : out[i] = Candidate(k, i, r.elements[i]) /\ (i \in T <=> Skipped(r.elements[i]) # "")
  OBVIOUS
<1>6. Sifting(ss, n, out, T)
  BY DEF Sifting
<1>0. n \in Nat
  BY <1>1
<1> HIDE DEF out, S, T, ss
<1>7. /\ Read(k, r) \in Seq(S)
      /\ \A x : x \in ToSet(Read(k, r)) <=> \E i \in 1..n : i \notin T /\ x = out[i]
  <2>1. /\ FlattenSeq(ss) \in Seq(S)
        /\ \A x : x \in ToSet(FlattenSeq(ss)) <=> \E i \in 1..n : i \notin T /\ x = out[i]
    BY <1>0, <1>3, <1>6, SiftedIs
  <2> QED BY <1>4, <2>1, Zenon
<1>8. Read(k, r) \in Seq(ToSet(Read(k, r)))
  BY <1>7 DEF ToSet
<1> QED BY <1>2, <1>5, <1>7, <1>8

LEMMA LastingIs ==
    ASSUME candidates \in Seq(ToSet(candidates))
    PROVE  /\ Lasting \in Seq(ToSet(candidates))
           /\ \A x : x \in ToSet(Lasting) <=> x \in ToSet(candidates) /\ x.text \notin Momentary
<1> DEFINE n == Len(candidates)
           S == ToSet(candidates)
           T == {p \in 1..n : candidates[p].text \in Momentary}
<1>1. n \in Nat /\ DOMAIN candidates = 1..n /\ candidates \in [1..n -> S]
  OBVIOUS
<1> DEFINE ss == [p \in 1..n |-> IF candidates[p].text \in Momentary THEN <<>> ELSE <<candidates[p]>>]
<1>2. Lasting = FlattenSeq(ss) /\ Sifting(ss, n, candidates, T)
  BY <1>1 DEF Lasting, Sifting
<1>3. \A x : x \in S <=> \E i \in 1..n : x = candidates[i]
  BY <1>1 DEF ToSet
<1>4. \A i \in 1..n : i \in T <=> candidates[i].text \in Momentary
  OBVIOUS
<1> HIDE DEF n, S, T, ss
<1>5. /\ Lasting \in Seq(S)
      /\ \A x : x \in ToSet(Lasting) <=> \E i \in 1..n : i \notin T /\ x = candidates[i]
  BY <1>1, <1>2, SiftedIs
<1> QED BY <1>3, <1>4, <1>5 DEF S

LEMMA ReadingStarts == ASSUME RInit PROVE ReadingInv
<1>1. replies = <<>> /\ candidates = <<>> /\ stage = "reading"
  BY DEF RInit
<1>2. ToSet(candidates) = {}
  BY <1>1 DEF ToSet
<1>3. NothingIsLostSilently
  BY <1>1 DEF NothingIsLostSilently
<1>4. MaxChunks \in Nat
  BY ReadingAssumption, Zenon
<1>5. candidates \in Seq(ToSet(candidates)) /\ replies \in Seq(ModelReply) /\ Len(replies) <= MaxChunks
  BY <1>1, <1>4
<1> QED BY <1>1, <1>2, <1>3, <1>5 DEF ReadingInv

\* The next reply: what was drawn from the others still is.
LEMMA ReadChunkStep == ASSUME ReadingInv, NEW r \in ModelReply, ReadChunk(r) PROVE ReadingInv'
<1> DEFINE k == Len(replies) + 1
           a == candidates
           b == Read(k, r)
<1>1. /\ stage = "reading" /\ k <= MaxChunks /\ replies' = Append(replies, r)
      /\ UNCHANGED <<set, stage>>
  BY DEF ReadChunk
<1>2. Len(replies) \in Nat /\ replies \in Seq(ModelReply) /\ DOMAIN replies = 1..Len(replies)
  BY DEF ReadingInv
<1>3. /\ replies' \in Seq(ModelReply) /\ Len(replies') = k /\ DOMAIN replies' = 1..k
      /\ replies'[k] = r /\ k \in Nat
      /\ \A i \in DOMAIN replies : i \in DOMAIN replies' /\ i # k /\ replies'[i] = replies[i]
  BY <1>1, <1>2
<1>4. \A e : Skipped(e)' = Skipped(e)
  BY <1>1 DEF Skipped, IsMeta
<1>5. \A i, j, e : Candidate(i, j, e)' = Candidate(i, j, e)
  BY <1>1 DEF Candidate, Action, IsMeta, Known, Polarity, Modality, Triple
<1>6. b \in Seq(ToSet(b)) /\ \A x : x \in ToSet(b) <=>
        \E i \in DOMAIN r.elements : Skipped(r.elements[i]) = "" /\ x = Candidate(k, i, r.elements[i])
  BY ReadIs
<1>7. a \in Seq(ToSet(a)) /\ \A c \in ToSet(a) : Drawn(c) /\ c = Candidate(c.chunk, c.element, ElementOf(c))
  BY <1>1 DEF ReadingInv
<1>8. candidates' = a \/ candidates' = a \o b
  BY DEF ReadChunk
<1>9. candidates' \in Seq(ToSet(candidates'))
      /\ ToSet(a) \subseteq ToSet(candidates')
      /\ (\A x \in ToSet(candidates') : x \in ToSet(a) \/ x \in ToSet(b))
      /\ (candidates' = a \o b => ToSet(b) \subseteq ToSet(candidates'))
  <2> DEFINE S == ToSet(a) \cup ToSet(b)
  <2>2. \A list : ToSet(list) = Range(list)
    BY DEF ToSet, Range
  <2>0. a \in Seq(ToSet(a)) /\ b \in Seq(ToSet(b))
    BY <1>6, <1>7
  <2>1. a \in Seq(S) /\ b \in Seq(S)
    <3> HIDE DEF a, b
    <3> QED BY <2>0
  <2> HIDE DEF S, a, b
  <2>3. a \o b \in Seq(S) /\ \A x : x \in Range(a \o b) <=> x \in Range(a) \/ x \in Range(b)
    BY <2>1, JoinedIs
  <2>4. \A list : list \in Seq(S) => list \in Seq(ToSet(list))
    BY DEF ToSet
  <2>5. CASE candidates' = a
    BY <2>1, <2>2, <2>3, <2>4, <2>5
  <2>6. CASE candidates' = a \o b
    BY <2>2, <2>3, <2>4, <2>6
  <2> QED BY <1>8, <2>5, <2>6
<1>10. ASSUME NEW c \in ToSet(candidates')
       PROVE  DOMAIN c = Fields /\ Drawn(c)' /\ c = Candidate(c.chunk, c.element, ElementOf(c)')
  <2>1. CASE c \in ToSet(a)
    <3>0. DOMAIN c = Fields
      BY <2>1 DEF ReadingInv
    <3>1. Drawn(c) /\ c = Candidate(c.chunk, c.element, ElementOf(c))
      BY <1>7, <2>1
    <3>2. c.chunk \in DOMAIN replies' /\ replies'[c.chunk] = replies[c.chunk]
      BY <1>3, <3>1 DEF Drawn
    <3>3. ElementOf(c)' = ElementOf(c)
      BY <3>2 DEF ElementOf
    <3> QED BY <1>4, <3>0, <3>1, <3>2, <3>3 DEF Drawn
  <2>2. CASE c \in ToSet(b)
    <3>1. PICK i \in DOMAIN r.elements : Skipped(r.elements[i]) = "" /\ c = Candidate(k, i, r.elements[i])
      BY <1>6, <2>2
    <3>2. c.chunk = k /\ c.element = i /\ c.text = r.elements[i].text
      BY <3>1 DEF Candidate
    <3>4. DOMAIN c = Fields
      BY <3>1 DEF Candidate, Fields
    <3>3. k \in DOMAIN replies' /\ ElementOf(c)' = r.elements[i]
      BY <1>3, <3>2 DEF ElementOf
    <3> QED BY <1>3, <1>4, <3>1, <3>2, <3>3, <3>4 DEF Drawn
  <2> QED BY <1>9, <2>1, <2>2
<1>11. notes \subseteq notes'
  BY DEF ReadChunk
<1>12. NothingIsLostSilently'
  <2> SUFFICES ASSUME NEW m \in DOMAIN replies', NEW i \in DOMAIN replies'[m].elements
               PROVE  \/ {<<m, i>>, <<m, 0>>} \cap notes' # {}
                      \/ \E c \in ToSet(candidates') : c.chunk = m /\ c.element = i
    BY DEF NothingIsLostSilently
  <2>1. CASE m \in DOMAIN replies
    <3>1. i \in DOMAIN replies[m].elements
      BY <1>3, <2>1
    <3>2. \/ {<<m, i>>, <<m, 0>>} \cap notes # {}
          \/ \E c \in ToSet(a) : c.chunk = m /\ c.element = i
      BY <2>1, <3>1 DEF ReadingInv, NothingIsLostSilently
    <3> QED BY <1>9, <1>11, <3>2
  <2>2. CASE m = k
    <3>1. i \in DOMAIN r.elements
      BY <1>3, <2>2
    <3>2. CASE ~Parsed(r)
      <4>1. <<k, 0>> \in notes'
        BY <3>2 DEF ReadChunk
      <4> QED BY <2>2, <4>1
    <3>3. CASE Parsed(r) /\ Skipped(r.elements[i]) # ""
      <4>1. <<k, i>> \in Noted(k, r) /\ Noted(k, r) \subseteq notes'
        BY <3>1, <3>3 DEF ReadChunk, Noted
      <4> QED BY <2>2, <4>1
    <3>4. CASE Parsed(r) /\ Skipped(r.elements[i]) = ""
      <4>1. candidates' = a \o b
        BY <3>4 DEF ReadChunk
      <4>2. Candidate(k, i, r.elements[i]) \in ToSet(candidates')
        BY <1>6, <1>9, <3>1, <3>4, <4>1
      <4>3. Candidate(k, i, r.elements[i]).chunk = k /\ Candidate(k, i, r.elements[i]).element = i
        BY DEF Candidate
      <4> QED BY <2>2, <4>2, <4>3
    <3> QED BY <3>2, <3>3, <3>4
  <2>3. m \in DOMAIN replies \/ m = k
    BY <1>2, <1>3
  <2> QED BY <2>1, <2>2, <2>3
<1>13. stage' = "reading"
  BY <1>1
<1>14. \A c \in ToSet(candidates') : c = Candidate(c.chunk, c.element, ElementOf(c))'
  BY <1>5, <1>10
<1> QED BY <1>1, <1>3, <1>9, <1>10, <1>12, <1>13, <1>14 DEF ReadingInv

LEMMA ListIs ==
    ASSUME NEW n \in Nat, NEW f, DOMAIN f = 1..n, f = [p \in 1..n |-> f[p]]
    PROVE  f \in Seq(ToSet(f))
<1>1. \A p \in 1..n : f[p] \in ToSet(f)
  BY DEF ToSet
<1> QED BY <1>1

\* A step that keeps the replies and notes what it drops.
LEMMA StillAccounted ==
    ASSUME ReadingInv, UNCHANGED <<set, replies>>, notes \subseteq notes',
           \A c \in ToSet(candidates) :
              \/ <<c.chunk, c.element>> \in notes'
              \/ \E d \in ToSet(candidates') : d.chunk = c.chunk /\ d.element = c.element
    PROVE  NothingIsLostSilently'
<1> SUFFICES ASSUME NEW k \in DOMAIN replies, NEW i \in DOMAIN replies[k].elements
             PROVE  \/ {<<k, i>>, <<k, 0>>} \cap notes' # {}
                    \/ \E c \in ToSet(candidates') : c.chunk = k /\ c.element = i
  BY DEF NothingIsLostSilently
<1>1. \/ {<<k, i>>, <<k, 0>>} \cap notes # {}
      \/ \E c \in ToSet(candidates) : c.chunk = k /\ c.element = i
  BY DEF ReadingInv, NothingIsLostSilently
<1> QED BY <1>1

LEMMA StillDrawn ==
    ASSUME UNCHANGED <<set, replies>>, NEW c, Drawn(c),
           NEW d, d.chunk = c.chunk, d.element = c.element, d.text = c.text
    PROVE  Drawn(d)' /\ ElementOf(d)' = ElementOf(c)
<1>1. \A e : Skipped(e)' = Skipped(e)
  BY DEF Skipped, IsMeta
<1>2. ElementOf(d)' = ElementOf(c)
  BY DEF ElementOf
<1> QED BY <1>1, <1>2 DEF Drawn

\* An element that is drawn is one of the replies', and no subject of it is empty.
LEMMA DrawnIsNamed ==
    ASSUME ReadingInv, NEW c, Drawn(c)
    PROVE  "" \notin ElementOf(c).subjects
<1>0. replies \in Seq(ModelReply) /\ c.chunk \in DOMAIN replies
  BY DEF ReadingInv, Drawn
<1>1. replies[c.chunk] \in ModelReply
  BY <1>0
<1>2. replies[c.chunk].elements \in UNION {[1..n -> Element] : n \in 0..MaxElements}
  BY <1>1 DEF ModelReply
<1>3. PICK n \in 0..MaxElements : replies[c.chunk].elements \in [1..n -> Element]
  BY <1>2
<1>4. ElementOf(c) \in Element
  BY <1>3 DEF Drawn, ElementOf
<1>5. ElementOf(c).kind # "other"
  BY DEF Drawn, Skipped
<1>6. \A e \in Element : e.kind # "other" => "" \notin e.subjects
  BY ReadingAssumption, Zenon
<1> QED BY <1>4, <1>5, <1>6

LEMMA DropStep ==
    ASSUME ReadingInv, DropSessionState
    PROVE  ReadingInv' /\ FilterKeepsAimStep
<1> DEFINE kept == Lasting
           Stands(c) == [c EXCEPT !.stance = Aim(candidates, kept, c), !.subjects = @ \ Worktree]
<1>1. /\ stage = "reading" /\ stage' = "filtered" /\ UNCHANGED <<set, replies>>
      /\ candidates' = [p \in DOMAIN kept |-> Stands(kept[p])]
      /\ notes' = notes \cup {<<c.chunk, c.element>> : c \in {d \in ToSet(candidates) : d.text \in Momentary}}
  BY DEF DropSessionState
<1>2. \A c \in ToSet(candidates) :
         DOMAIN c = Fields /\ Drawn(c) /\ c = Candidate(c.chunk, c.element, ElementOf(c))
  BY <1>1 DEF ReadingInv
<1>3. /\ kept \in Seq(ToSet(candidates))
      /\ \A x : x \in ToSet(kept) <=> x \in ToSet(candidates) /\ x.text \notin Momentary
  BY LastingIs DEF ReadingInv
<1>4. /\ Len(kept) \in Nat /\ DOMAIN kept = 1..Len(kept)
      /\ \A p \in DOMAIN kept : kept[p] \in ToSet(kept) /\ kept[p] \in ToSet(candidates)
  BY <1>3 DEF ToSet
<1>5. DOMAIN candidates' = 1..Len(kept) /\ \A p \in DOMAIN kept : candidates'[p] = Stands(kept[p])
  BY <1>1, <1>4
<1>6. \A c \in ToSet(candidates) :
         LET d == Stands(c)
         IN /\ DOMAIN d = Fields /\ d.chunk = c.chunk /\ d.element = c.element /\ d.text = c.text
            /\ d.subjects = c.subjects \ Worktree /\ d.triple = c.triple
            /\ d.stance = Aim(candidates, kept, c)
  <2> TAKE c \in ToSet(candidates)
  <2> HIDE DEF kept
  <2>1. DOMAIN c = Fields
    BY <1>2
  <2> QED BY <2>1 DEF Fields
<1>7. candidates' \in Seq(ToSet(candidates'))
  <2> DEFINE f == candidates'
  <2>1. f = [p \in 1..Len(kept) |-> f[p]] /\ DOMAIN f = 1..Len(kept)
    BY <1>1, <1>4
  <2> HIDE DEF f, kept
  <2>2. f \in Seq(ToSet(f))
    BY <1>4, <2>1, ListIs
  <2> QED BY <2>2 DEF f, ToSet
<1> HIDE DEF kept, Stands
<1>8. \A d \in ToSet(candidates') : \E p \in DOMAIN kept : d = Stands(kept[p]) /\ d = candidates'[p]
  BY <1>4, <1>5 DEF ToSet
<1>9. ASSUME NEW d \in ToSet(candidates')
      PROVE  /\ DOMAIN d = Fields /\ Drawn(d)' /\ d.subjects = ElementOf(d)'.subjects \ Worktree
             /\ d.triple = Triple(ElementOf(d)')
  <2>1. PICK p \in DOMAIN kept : d = Stands(kept[p])
    BY <1>8
  <2> DEFINE c == kept[p]
  <2>2. c \in ToSet(candidates)
    BY <1>4
  <2> HIDE DEF c
  <2>3. /\ DOMAIN d = Fields /\ d.chunk = c.chunk /\ d.element = c.element /\ d.text = c.text
        /\ d.subjects = c.subjects \ Worktree /\ d.triple = c.triple
    BY <1>6, <2>1, <2>2 DEF c
  <2>4. Drawn(c) /\ c = Candidate(c.chunk, c.element, ElementOf(c))
    BY <1>2, <2>2
  <2>5. Drawn(d)' /\ ElementOf(d)' = ElementOf(c)
    BY <1>1, <2>3, <2>4, StillDrawn
  <2>6. c.subjects = ElementOf(c).subjects /\ c.triple = Triple(ElementOf(c))
    BY <2>4 DEF Candidate
  <2> QED BY <2>3, <2>5, <2>6
<1>10. NothingIsLostSilently'
  <2>1. ASSUME NEW c \in ToSet(candidates)
        PROVE  \/ <<c.chunk, c.element>> \in notes'
               \/ \E d \in ToSet(candidates') : d.chunk = c.chunk /\ d.element = c.element
    <3>1. CASE c.text \in Momentary
      BY <1>1, <3>1
    <3>2. CASE c.text \notin Momentary
      <4>1. c \in ToSet(kept)
        BY <1>3, <3>2
      <4>2. PICK p \in DOMAIN kept : c = kept[p]
        BY <4>1 DEF ToSet
      <4>3. Stands(c) \in ToSet(candidates')
        BY <1>4, <1>5, <4>2 DEF ToSet
      <4> QED BY <1>6, <4>3
    <3> QED BY <3>1, <3>2
  <2>2. notes \subseteq notes'
    BY <1>1
  <2> QED BY <1>1, <2>1, <2>2, StillAccounted
<1>11. ReadingInv'
  <2>1. replies' \in Seq(ModelReply) /\ Len(replies') <= MaxChunks
    BY <1>1 DEF ReadingInv
  <2>2. \A e : Triple(e)' = Triple(e)
    BY DEF Triple
  <2> QED BY <1>1, <1>7, <1>9, <1>10, <2>1, <2>2 DEF ReadingInv
<1>12. ASSUME NEW c \in ToSet(candidates), NEW d \in ToSet(candidates'),
              SamePlace(c, d), NEW t \in d.stance
       PROVE  /\ t + 1 \in DOMAIN candidates'
              /\ \E s \in c.stance \cap 0..(Len(candidates) - 1) :
                    SamePlace(candidates'[t + 1], candidates[s + 1])
  <2>1. PICK p \in DOMAIN kept : d = Stands(kept[p])
    BY <1>8
  <2>2. kept[p] \in ToSet(candidates) /\ kept[p].chunk = c.chunk /\ kept[p].element = c.element
    BY <1>4, <1>6, <1>12, <2>1 DEF SamePlace
  <2>3. ElementOf(kept[p]) = ElementOf(c)
    BY <2>2 DEF ElementOf
  <2>4. kept[p] = c
    BY <1>2, <2>2, <2>3
  <2>5. d.stance = Aim(candidates, kept, c)
    BY <1>6, <2>1, <2>4
  <2>6. PICK s \in c.stance :
           t \in IF s \in 0..(Len(candidates) - 1) THEN {q - 1 : q \in Position(candidates[s + 1], kept)} ELSE {}
    BY <1>12, <2>5 DEF Aim
  <2>7. s \in 0..(Len(candidates) - 1) /\ \E q \in Position(candidates[s + 1], kept) : t = q - 1
    BY <2>6
  <2>8. PICK q \in Position(candidates[s + 1], kept) : t = q - 1
    BY <2>7
  <2>9. q \in DOMAIN kept /\ kept[q] = candidates[s + 1] /\ q \in Nat
    BY <1>4, <2>8 DEF Position
  <2>10. t + 1 = q
    BY <2>8, <2>9
  <2>11. candidates'[t + 1] = Stands(candidates[s + 1]) /\ candidates[s + 1] \in ToSet(candidates)
    BY <1>4, <1>5, <2>9, <2>10
  <2>12. SamePlace(candidates'[t + 1], candidates[s + 1])
    BY <1>6, <2>11 DEF SamePlace
  <2>13. t + 1 \in DOMAIN candidates'
    BY <1>4, <1>5, <2>9, <2>10
  <2> QED BY <2>7, <2>12, <2>13
<1>13. FilterKeepsAimStep
  BY <1>12 DEF FilterKeepsAimStep
<1> QED BY <1>11, <1>13

LEMMA NameStep == ASSUME ReadingInv, NameArtifacts PROVE ReadingInv'
<1>1. /\ stage = "filtered" /\ stage' = "extracted" /\ UNCHANGED <<set, replies, notes>>
      /\ candidates' = [p \in DOMAIN candidates |-> Named(candidates[p])]
  BY DEF NameArtifacts
<1>2. \A c \in ToSet(candidates) :
         /\ DOMAIN c = Fields /\ Drawn(c)
         /\ c.subjects = ElementOf(c).subjects \ Worktree /\ c.triple = Triple(ElementOf(c))
  BY <1>1 DEF ReadingInv
<1>3. /\ Len(candidates) \in Nat /\ DOMAIN candidates = 1..Len(candidates)
      /\ \A p \in DOMAIN candidates : candidates[p] \in ToSet(candidates)
  BY DEF ReadingInv, ToSet
<1>4. ASSUME NEW c \in ToSet(candidates)
      PROVE  LET d == Named(c)
             IN /\ DOMAIN d = Fields /\ Drawn(d)' /\ StillBound(d)'
                /\ d.chunk = c.chunk /\ d.element = c.element
  <2> DEFINE d == Named(c)
             e == ElementOf(c)
             name == IF c.text \in Linked THEN {PullRequest(c)} ELSE {}
  <2>1. /\ DOMAIN c = Fields /\ Drawn(c) /\ c.text = e.text /\ "" \notin e.subjects
        /\ c.subjects = e.subjects \ Worktree /\ c.triple = Triple(e)
    BY <1>2, DrawnIsNamed DEF Drawn
  <2>2. /\ DOMAIN d = Fields /\ d.chunk = c.chunk /\ d.element = c.element /\ d.text = c.text
        /\ d.subjects = (c.subjects \ Description) \cup name
        /\ d.triple = IF name # {} /\ c.triple \cap Description # {} THEN name ELSE c.triple
    BY <2>1 DEF Named, Fields
  <2>3. Drawn(d)' /\ ElementOf(d)' = e
    <3> HIDE DEF d, e, name
    <3>1. ElementOf(c) = e
      BY DEF e
    <3> QED BY <1>1, <2>1, <2>2, <3>1, StillDrawn
  <2>4. c.text \in Linked => PullRequest(c) \notin Code
    BY ReadingAssumption, Zenon DEF PullRequest
  <2> HIDE DEF d, e
  <2>5. ASSUME e.about \in e.subjects \ (Worktree \cup Code \cup IF e.text \in Linked THEN {} ELSE Description)
        PROVE  (d.triple \cap d.subjects) \ Code # {}
    <3>1. c.triple = {e.about} /\ e.about \in c.subjects /\ e.about \notin Code
      BY <2>1, <2>5 DEF Triple
    <3>2. CASE e.text \in Linked /\ e.about \in Description
      <4>1. name = {PullRequest(c)} /\ d.triple = name
        BY <2>1, <2>2, <3>1, <3>2
      <4> QED BY <2>1, <2>2, <2>4, <3>2, <4>1
    <3>3. CASE e.about \notin Description
      <4>1. d.triple = c.triple
        BY <2>2, <3>1, <3>3
      <4> QED BY <2>2, <3>1, <3>3, <4>1
    <3> QED BY <2>5, <3>2, <3>3
  <2>6. StillBound(d)'
    BY <2>3, <2>5 DEF StillBound
  <2> QED BY <2>2, <2>3, <2>6 DEF d
<1>5. DOMAIN candidates' = 1..Len(candidates) /\ \A p \in DOMAIN candidates : candidates'[p] = Named(candidates[p])
  BY <1>1, <1>3
<1>6. candidates' \in Seq(ToSet(candidates'))
  <2> DEFINE f == candidates'
  <2>1. f = [p \in 1..Len(candidates) |-> f[p]] /\ DOMAIN f = 1..Len(candidates)
    BY <1>1, <1>3
  <2> HIDE DEF f
  <2>2. f \in Seq(ToSet(f))
    BY <1>3, <2>1, ListIs
  <2> QED BY <2>2 DEF f, ToSet
<1>7. ASSUME NEW x \in ToSet(candidates') PROVE DOMAIN x = Fields /\ Drawn(x)' /\ StillBound(x)'
  <2>1. PICK p \in DOMAIN candidates : x = Named(candidates[p])
    BY <1>3, <1>5 DEF ToSet
  <2> QED BY <1>3, <1>4, <2>1
<1>8. NothingIsLostSilently'
  <2>1. ASSUME NEW c \in ToSet(candidates)
        PROVE  \E d \in ToSet(candidates') : d.chunk = c.chunk /\ d.element = c.element
    <3>1. PICK p \in DOMAIN candidates : c = candidates[p]
      BY DEF ToSet
    <3>2. Named(c) \in ToSet(candidates')
      BY <1>3, <1>5, <3>1 DEF ToSet
    <3> QED BY <1>4, <3>2
  <2> QED BY <1>1, <2>1, StillAccounted
<1>9. replies' \in Seq(ModelReply) /\ Len(replies') <= MaxChunks
  BY <1>1 DEF ReadingInv
<1> QED BY <1>1, <1>6, <1>7, <1>8, <1>9 DEF ReadingInv

LEMMA ExtractedStep == ASSUME ReadingInv, Extracted PROVE ReadingInv'
<1>1. stage = "reading" /\ stage' = "extracted" /\ UNCHANGED <<set, replies, candidates, notes>>
  BY DEF Extracted
<1>2. ASSUME NEW c \in ToSet(candidates) PROVE DOMAIN c = Fields /\ Drawn(c)' /\ StillBound(c)'
  <2>1. DOMAIN c = Fields /\ Drawn(c) /\ c = Candidate(c.chunk, c.element, ElementOf(c))
    BY <1>1 DEF ReadingInv
  <2>2. Drawn(c)' /\ ElementOf(c)' = ElementOf(c)
    BY <1>1, <2>1, StillDrawn
  <2>3. c.subjects = ElementOf(c).subjects /\ c.triple = Triple(ElementOf(c))
    BY <2>1 DEF Candidate
  <2>5. "" \notin ElementOf(c).subjects
    BY <2>1, DrawnIsNamed
  <2>4. StillBound(c)
    BY <2>3, <2>5 DEF StillBound, Triple
  <2> QED BY <2>1, <2>2, <2>4 DEF StillBound
<1>3. NothingIsLostSilently'
  BY <1>1, StillAccounted
<1>4. ToSet(candidates)' = ToSet(candidates) /\ candidates' \in Seq(ToSet(candidates'))
      /\ replies' \in Seq(ModelReply) /\ Len(replies') <= MaxChunks
  BY <1>1 DEF ReadingInv, ToSet
<1> QED BY <1>1, <1>2, <1>3, <1>4 DEF ReadingInv

LEMMA GateStep == ASSUME ReadingInv, Gate PROVE ReadingInv'
<1> DEFINE Gated(c) == [c EXCEPT !.subjects = @ \ Withheld(c), !.gated = c.subjects \cap Code]
<1>1. /\ stage = "extracted" /\ stage' = "done" /\ UNCHANGED <<set, replies, notes>>
      /\ candidates' = [p \in DOMAIN candidates |-> Gated(candidates[p])]
  BY DEF Gate
<1>2. \A c \in ToSet(candidates) : DOMAIN c = Fields /\ Drawn(c) /\ StillBound(c)
  BY <1>1 DEF ReadingInv
<1>3. /\ Len(candidates) \in Nat /\ DOMAIN candidates = 1..Len(candidates)
      /\ \A p \in DOMAIN candidates : candidates[p] \in ToSet(candidates)
  BY DEF ReadingInv, ToSet
<1>4. ASSUME NEW c \in ToSet(candidates), NEW d, d = Gated(c)
      PROVE  /\ DOMAIN d = Fields /\ Drawn(d)' /\ StillBound(d)'
             /\ d.chunk = c.chunk /\ d.element = c.element
  <2>1. DOMAIN c = Fields /\ Drawn(c) /\ StillBound(c)
    BY <1>2
  <2>2. /\ DOMAIN d = Fields /\ d.chunk = c.chunk /\ d.element = c.element /\ d.text = c.text
        /\ d.subjects = c.subjects \ Withheld(c) /\ d.triple = c.triple
    BY <1>4, <2>1 DEF Fields
  <2>3. Drawn(d)' /\ ElementOf(d)' = ElementOf(c)
    BY <1>1, <2>1, <2>2, StillDrawn
  <2>4. (c.triple \cap c.subjects) \ Code = (d.triple \cap d.subjects) \ Code
    BY <2>2 DEF Withheld
  <2>5. StillBound(d)'
    BY <2>1, <2>3, <2>4 DEF StillBound
  <2> QED BY <2>2, <2>3, <2>5
<1>5. DOMAIN candidates' = 1..Len(candidates) /\ \A p \in DOMAIN candidates : candidates'[p] = Gated(candidates[p])
  BY <1>1, <1>3
<1>6. candidates' \in Seq(ToSet(candidates'))
  <2> DEFINE f == candidates'
  <2>1. f = [p \in 1..Len(candidates) |-> f[p]] /\ DOMAIN f = 1..Len(candidates)
    BY <1>1, <1>3
  <2> HIDE DEF f
  <2>2. f \in Seq(ToSet(f))
    BY <1>3, <2>1, ListIs
  <2> QED BY <2>2 DEF f, ToSet
<1> HIDE DEF Gated
<1>7. ASSUME NEW x \in ToSet(candidates') PROVE DOMAIN x = Fields /\ Drawn(x)' /\ StillBound(x)'
  <2>1. PICK p \in DOMAIN candidates : x = Gated(candidates[p])
    BY <1>3, <1>5 DEF ToSet
  <2> QED BY <1>3, <1>4, <2>1
<1>8. NothingIsLostSilently'
  <2>1. ASSUME NEW c \in ToSet(candidates)
        PROVE  \E d \in ToSet(candidates') : d.chunk = c.chunk /\ d.element = c.element
    <3>1. PICK p \in DOMAIN candidates : c = candidates[p]
      BY DEF ToSet
    <3>2. Gated(c) \in ToSet(candidates')
      BY <1>3, <1>5, <3>1 DEF ToSet
    <3> QED BY <1>4, <3>2
  <2> QED BY <1>1, <2>1, StillAccounted
<1>9. replies' \in Seq(ModelReply) /\ Len(replies') <= MaxChunks
  BY <1>1 DEF ReadingInv
<1> QED BY <1>1, <1>6, <1>7, <1>8, <1>9 DEF ReadingInv

LEMMA ReadingStep ==
    ASSUME ReadingInv, [RNext]_reading
    PROVE  ReadingInv' /\ FilterKeepsAimStep
<1>1. CASE \E r \in ModelReply : ReadChunk(r)
  <2>1. PICK r \in ModelReply : ReadChunk(r)
    BY <1>1
  <2>2. stage = "reading" /\ stage' = stage
    BY <2>1 DEF ReadChunk
  <2> QED BY <2>1, <2>2, ReadChunkStep DEF FilterKeepsAimStep
<1>2. CASE DropSessionState
  BY <1>2, DropStep
<1>3. CASE NameArtifacts
  BY <1>3, NameStep DEF NameArtifacts, FilterKeepsAimStep
<1>4. CASE Extracted
  BY <1>4, ExtractedStep DEF Extracted, FilterKeepsAimStep
<1>5. CASE Gate
  BY <1>5, GateStep DEF Gate, FilterKeepsAimStep
<1>6. CASE UNCHANGED reading
  <2>1. UNCHANGED <<set, replies, candidates, notes, stage>>
    BY <1>6 DEF reading
  <2>2. \A c : ElementOf(c)' = ElementOf(c)
    BY <2>1 DEF ElementOf
  <2>3. \A e : Skipped(e)' = Skipped(e)
    BY <2>1 DEF Skipped, IsMeta
  <2>4. \A c : Drawn(c)' = Drawn(c) /\ StillBound(c)' = StillBound(c)
    BY <2>1, <2>2, <2>3 DEF Drawn, StillBound
  <2>5. \A k, i, e : Candidate(k, i, e)' = Candidate(k, i, e)
    BY <2>1 DEF Candidate, Action, IsMeta, Known, Polarity, Modality, Triple
  <2>6. \A c : (c = Candidate(c.chunk, c.element, ElementOf(c)))' =
              (c = Candidate(c.chunk, c.element, ElementOf(c)))
    BY <2>2, <2>5
  <2>7. ToSet(candidates)' = ToSet(candidates)
    BY <2>1 DEF ToSet
  <2>8. NothingIsLostSilently'
    BY <2>1, StillAccounted
  <2>9. stage' = stage
    BY <2>1
  <2> QED
    BY <2>1, <2>2, <2>4, <2>6, <2>7, <2>8, <2>9 DEF ReadingInv, Triple, FilterKeepsAimStep
<1> QED BY <1>1, <1>2, <1>3, <1>4, <1>5, <1>6 DEF RNext

LEMMA ReadingKeeps == ASSUME ReadingInv PROVE NothingIsLostSilently /\ TripleStaysBound
<1>1. ASSUME stage = "done", NEW c \in ToSet(candidates),
             ElementOf(c).about \in ElementOf(c).subjects \
                (Worktree \cup Code \cup IF ElementOf(c).text \in Linked THEN {} ELSE Description)
      PROVE  Bound(c) # {}
  <2>1. StillBound(c)
    BY <1>1 DEF ReadingInv
  <2> QED BY <1>1, <2>1 DEF StillBound, Bound
<1>2. TripleStaysBound
  BY <1>1 DEF TripleStaysBound, ElementOf
<1> QED BY <1>2 DEF ReadingInv

\* The reading of a source keeps its strengthened invariant (general.py,
\* session_state.py, session_artifacts.py, subject_gate.py).
THEOREM ReadingIsInvariant == ReadingSpec => []ReadingInv
<1>1. RInit => ReadingInv
  BY ReadingStarts
<1>2. ReadingInv /\ [RNext]_reading => ReadingInv'
  BY ReadingStep
<1> QED BY <1>1, <1>2, PTL DEF ReadingSpec

\* Every element of every reply is a claim or is noted, and the filter of session state
\* moves a stance with its target and a triple with its subject (drop_session_state,
\* name_session_artifacts, gate_candidate_subjects).
THEOREM ClaimsAreAccountedFor == ReadingSpec => ClaimsAreAccounted
<1>1. ReadingInv => NothingIsLostSilently /\ TripleStaysBound
  BY ReadingKeeps
<1>2. ReadingInv /\ [RNext]_reading => [FilterKeepsAimStep]_reading
  BY ReadingStep
<1> QED BY <1>1, <1>2, ReadingIsInvariant, PTL DEF ReadingSpec, ClaimsAreAccounted
=============================================================================
