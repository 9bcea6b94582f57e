------------------------------- MODULE ChunkedRead -------------------------------
(***************************************************************************)
(* One corpus entry read chunk by chunk: GeneralExtractor's text paths     *)
(* (src/particles/extraction/general.py), the carry-forward of claims that *)
(* already exist (extraction/incremental.py) and the append-only delta     *)
(* read (extraction/append_delta.py).                                      *)
(*                                                                         *)
(* A text is a sequence of paragraphs; one chunk is one paragraph.  Offsets*)
(* count paragraphs.  A chunk's hash is its prompt: the paragraph, after   *)
(* the paragraph before it when a delta read shows that one as context.    *)
(* Noise is a paragraph the normaliser of a whole read deletes.  The       *)
(* pipeline that stores a pass (not in the repository) is modelled from    *)
(* what the result's fields are for: it completes the snapshot when no     *)
(* call failed, and otherwise leaves it PENDING with the part before the   *)
(* first chunk not read, or with nothing.                                  *)
(***************************************************************************)
EXTENDS Naturals, Sequences, FiniteSets

CONSTANTS
    Para,       \* what a paragraph can say
    Noise,      \* the paragraph normalisation deletes
    Versions,   \* extractor versions, in order
    Caps,       \* values of extraction.max_llm_calls_per_source
    WholeSize,  \* html_chunk_size: up to this length a whole read is one call
    MaxDoc      \* bound: paragraphs in the text

ASSUME ChunkedAssumption ==
    /\ Versions \subseteq Nat /\ Caps \subseteq Nat
    /\ WholeSize \in Nat /\ MaxDoc \in Nat

VARIABLES
    doc,      \* the newest snapshot's text
    status,   \* that snapshot's extraction status
    base,     \* how far the last completed snapshot was read, or NoBase
    version,  \* the extractor's version
    store,    \* the entry's ACTIVE claims that carry a chunk hash
    pass,     \* the pass in progress, or Idle
    seen      \* history: positions some stored read covers

vars == <<doc, status, base, version, store, pass, seen>>

Text == Para \cup {Noise}
NoBase == MaxDoc + 1
\* A claim, and whether a reindex wrote it.
Claims == [hash : Seq(Text), ver : Versions, snap : 0..MaxDoc, remade : BOOLEAN]
Idle == [path |-> "none"]

-----------------------------------------------------------------------------
\* The chunks of a read: what is hashed, where it starts in the text the read
\* cuts, which position of the document it is.
Chunk(hash, start, pos) == [hash |-> hash, start |-> start, pos |-> pos]

\* _extract_html_chunked: chunks of the normalised text, whose k-th paragraph is
\* the one with k - 1 before it that are kept.
Kept(d) == {i \in DOMAIN d : d[i] # Noise}
Nth(d, k) == CHOOSE i \in Kept(d) : Cardinality({j \in Kept(d) : j < i}) = k - 1
WholeChunks(d) ==
    [k \in 1..Cardinality(Kept(d)) |-> Chunk(<<d[Nth(d, k)]>>, k - 1, Nth(d, k))]

\* plan_delta_chunks: chunks of the text after the prefix, each with context.
DeltaChunks(d, from) ==
    [i \in 1..(Len(d) - from) |->
        Chunk(SubSeq(d, IF from + i = 1 THEN 1 ELSE from + i - 1, from + i),
              from + i - 1, from + i)]

\* extract_with_carry_forward's lookup, then _own_carried on a retry.
Carried(c) ==
    LET live == {x \in store \ pass.replaced : x.hash = c.hash}
        current == {x \in live : x.ver = version}
        own == {x \in live : pass.resume /\ x.snap = Len(doc)}
    IN  IF current # {} THEN current ELSE own

Indices(statuses) == {i \in DOMAIN pass.outcomes : pass.outcomes[i] \in statuses}
Next1 == Len(pass.outcomes) + 1
Reading == pass.path # "none"
Planning == Reading /\ ~pass.done /\ Next1 <= Len(pass.chunks)
This == pass.chunks[Next1]
Waiting == Reading /\ ~pass.done /\ Next1 > Len(pass.chunks)

\* The cap counts calls: a carried chunk is free.
CapReached == pass.calls >= pass.cap

-----------------------------------------------------------------------------
Init ==
    /\ doc = <<>> /\ status = "COMPLETE" /\ base = NoBase
    /\ version \in Versions /\ store = {} /\ pass = Idle
    /\ seen = {}

\* External: a new snapshot of the append-only entry is its predecessor and more.
Deposit(p) ==
    /\ ~Reading /\ Len(doc) < MaxDoc
    /\ doc' = Append(doc, p) /\ status' = "PENDING"
    /\ UNCHANGED <<base, version, store, pass, seen>>

\* External: the extractor is upgraded.
Upgrade ==
    /\ ~Reading /\ version + 1 \in Versions
    /\ version' = version + 1
    /\ UNCHANGED <<doc, status, base, store, pass, seen>>

Begin(path, chunks, pooled, cap, replaced) ==
    /\ pass' = [path |-> path, chunks |-> chunks, pooled |-> pooled, cap |-> cap,
                resume |-> status = "PENDING", replaced |-> replaced, calls |-> 0,
                outcomes |-> <<>>, carried |-> {}, fresh |-> {}, done |-> FALSE]
    /\ UNCHANGED <<doc, status, base, version, store, seen>>

\* _extract_append_delta, when the pipeline hands over the prefix that was read
\* and its decoding prefixes this text.
ReadDelta(pooled, cap) ==
    /\ ~Reading /\ status = "PENDING" /\ base # NoBase
    /\ Begin("delta", DeltaChunks(doc, base), pooled, cap, {})

\* _extract_whole above the threshold: no prefix, or one that fell back.
ReadWhole(pooled, cap) ==
    /\ ~Reading /\ status = "PENDING" /\ Len(doc) > WholeSize
    /\ Begin("chunked", WholeChunks(doc), pooled, cap, {})

\* A reindex reads the whole text to replace the claims it marks: those of one
\* extractor version, or all.
Reindex(pooled, cap, marked) ==
    /\ ~Reading /\ status = "COMPLETE" /\ Len(doc) > WholeSize
    /\ marked # {}
    /\ Begin("chunked", WholeChunks(doc), pooled, cap, marked)

\* _extract_whole at or under the threshold, and the empty content above it: one
\* call, never carried forward, never cut.
ReadAtOnce(yes) ==
    /\ ~Reading /\ status = "PENDING" /\ doc # <<>> /\ Len(doc) <= WholeSize
    /\ IF yes THEN /\ status' = "COMPLETE" /\ base' = Len(doc)
                   /\ seen' = seen \cup DOMAIN doc
              ELSE UNCHANGED <<status, base, seen>>
    /\ UNCHANGED <<doc, version, store, pass>>

Record(outcome) == [pass EXCEPT !.outcomes = Append(@, outcome)]

\* A chunk whose claims exist is skipped: no call, its claims are reported.
CarryChunk ==
    /\ Planning /\ Carried(This) # {}
    /\ pass' = [Record("carried") EXCEPT !.carried = @ \cup Carried(This)]
    /\ UNCHANGED <<doc, status, base, version, store, seen>>

\* The call cap: CHUNK_TRUNCATION.
CapChunk ==
    /\ Planning /\ Carried(This) = {} /\ CapReached
    /\ pass' = Record("capped")
    /\ UNCHANGED <<doc, status, base, version, store, seen>>

Outcome(reply) == IF reply = "failed" THEN "failed" ELSE "answered"

\* Sequential: the call is made and its reply read before the next chunk.
AskChunk(reply) ==
    /\ Planning /\ ~pass.pooled /\ Carried(This) = {} /\ ~CapReached
    /\ pass' = [Record(Outcome(reply)) EXCEPT
                    !.calls = @ + 1,
                    !.fresh = IF reply = "claims" THEN @ \cup {Next1} ELSE @]
    /\ UNCHANGED <<doc, status, base, version, store, seen>>

\* Pooled: the call joins the group, its outcome written as answered.
PlanChunk ==
    /\ Planning /\ pass.pooled /\ Carried(This) = {} /\ ~CapReached
    /\ pass' = [Record("answered") EXCEPT !.calls = @ + 1]
    /\ UNCHANGED <<doc, status, base, version, store, seen>>

\* The group's replies, each put in the slot its chunk took.
SettleGroup(replies) ==
    /\ Waiting /\ pass.pooled
    /\ DOMAIN replies = Indices({"answered"})
    /\ pass' = [pass EXCEPT
                  !.outcomes = [i \in DOMAIN @ |-> IF i \in DOMAIN replies
                                                   THEN Outcome(replies[i]) ELSE @[i]],
                  !.fresh = {i \in DOMAIN replies : replies[i] = "claims"},
                  !.done = TRUE]
    /\ UNCHANGED <<doc, status, base, version, store, seen>>

FinishLoop ==
    /\ Waiting /\ ~pass.pooled
    /\ pass' = [pass EXCEPT !.done = TRUE]
    /\ UNCHANGED <<doc, status, base, version, store, seen>>

\* An account-level failure ends the pass; the snapshot goes back to PENDING.
Abort ==
    /\ Reading /\ ~pass.done
    /\ pass' = Idle
    /\ UNCHANGED <<doc, status, base, version, store, seen>>

-----------------------------------------------------------------------------
\* The result the pipeline gets.
Unread == Indices({"capped"})
Failures == Cardinality(Indices({"failed"}))
FirstOf(S) == CHOOSE i \in S : \A j \in S : i <= j

\* Mutant: the end of the first chunk the cap skipped.
ReadThroughEnd == IF Unread = {} THEN Len(doc) ELSE pass.chunks[FirstOf(Unread)].start + 1

\* The start of the first chunk the cap skipped; the end when none was.
ReadThrough == IF Unread = {} THEN Len(doc) ELSE pass.chunks[FirstOf(Unread)].start

\* _set_outcome_starts: where a partly failed read stops.
StopIndex == FirstOf(Indices({"failed", "capped"}))

Written(S) == {[hash |-> pass.chunks[i].hash, ver |-> version, snap |-> Len(doc),
                remade |-> pass.replaced # {}] : i \in S \cap pass.fresh}
Positions(S) == {pass.chunks[i].pos : i \in S}
ReadOf == Indices({"answered", "carried"})

\* External: no call failed, so the pass is stored.  What a reindex marked and
\* did not carry is superseded.
Complete ==
    /\ Reading /\ pass.done /\ Failures = 0
    /\ status' = "COMPLETE"
    /\ store' = (store \ (pass.replaced \ pass.carried)) \cup Written(ReadOf)
    /\ seen' = seen \cup Positions(ReadOf)
    /\ base' = ReadThrough
    /\ pass' = Idle
    /\ UNCHANGED <<doc, version>>

\* External: a call failed; the snapshot is PENDING again and nothing is kept.
KeepNothing ==
    /\ Reading /\ pass.done /\ Failures > 0
    /\ pass' = Idle
    /\ UNCHANGED <<doc, status, base, version, store, seen>>

\* External: a call failed; what was read before the stop is kept.
KeepPart ==
    /\ Reading /\ pass.done /\ Failures > 0 /\ pass.replaced = {}
    /\ store' = store \cup Written(1..(StopIndex - 1))
    /\ seen' = seen \cup Positions(1..(StopIndex - 1))
    /\ pass' = Idle
    /\ UNCHANGED <<doc, status, base, version>>

Replies == {"claims", "nothing", "failed"}

ReadChunk ==
    \/ CarryChunk
    \/ CapChunk
    \/ \E reply \in Replies : AskChunk(reply)
    \/ PlanChunk
    \/ \E S \in SUBSET (1..MaxDoc) : \E replies \in [S -> Replies] : SettleGroup(replies)
    \/ FinishLoop

Start ==
    \/ \E pooled \in BOOLEAN, cap \in Caps :
          ReadDelta(pooled, cap) \/ ReadWhole(pooled, cap)
    \/ \E pooled \in BOOLEAN, cap \in Caps, v \in Versions :
          Reindex(pooled, cap, {x \in store : x.ver = v}) \/ Reindex(pooled, cap, store)
    \/ \E yes \in BOOLEAN : ReadAtOnce(yes)

Next ==
    \/ \E p \in Text : Deposit(p)
    \/ Upgrade
    \/ Start
    \/ ReadChunk
    \/ Abort
    \/ Complete \/ KeepNothing \/ KeepPart

Spec == Init /\ [][Next]_vars
-----------------------------------------------------------------------------
\* Across the call cap, failed passes, fallbacks, reindexes, delta reads and the pooled
\* path, the text is read as one pass would read it.  No text is skipped: every paragraph
\* before the point the last completed snapshot is recorded as read to went through a
\* stored read (read_through may count in the normalised text, where it can only be too
\* early).  No chunk is written twice: by one extractor version never, in whatever
\* snapshots it stands; and of one snapshot no retry writes a chunk an earlier attempt
\* wrote (resume_carried), only a reindex does, whose marks may miss the older claim.
\* And what is sent is the first `cap` chunks with nothing to carry, in order, whichever
\* path ran; every other such chunk is capped, and a chunk whose only claims are being
\* replaced is not carried.
NothingSkipped == base # NoBase => \A i \in 1..base : doc[i] = Noise \/ i \in seen
WrittenOnce ==
    \A x, y \in store :
        /\ x.hash = y.hash /\ x.ver = y.ver => x = y
        /\ x.hash = y.hash /\ x.snap = y.snap => x = y \/ x.remade \/ y.remade
SentInOrder ==
    Reading /\ pass.done =>
        LET miss == {i \in DOMAIN pass.chunks : Carried(pass.chunks[i]) = {}}
            sent == {i \in miss : Cardinality({j \in miss : j < i}) < pass.cap}
        IN  /\ Indices({"answered", "failed"}) = sent
            /\ Indices({"capped"}) = miss \ sent
            /\ pass.carried \cap pass.replaced = {}
ReadAsOnePass == NothingSkipped /\ WrittenOnce /\ SentInOrder
=============================================================================
