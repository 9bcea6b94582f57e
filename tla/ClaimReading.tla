----------------------------- MODULE ClaimReading -----------------------------
(* How a reply becomes claims (extraction/general.py, session_state.py,        *)
(* session_artifacts.py, subject_gate.py, structure.py).  A source is read in  *)
(* chunks, one reply each; a reply is a JSON array whose elements may be       *)
(* anything.  Each element is parsed to a candidate or skipped with a note,    *)
(* the candidates of all chunks are put in one list, session state is dropped  *)
(* from it, and names that are no entities are withheld from its subjects.     *)
EXTENDS Naturals, Sequences, FiniteSets, SequencesExt

CONSTANTS
    Element,     \* the elements the replies are made of
    MaxElements, \* bound: elements of one reply
    MaxChunks,   \* bound: chunks of one source
    Momentary,   \* claim texts that describe the state of a session
    Worktree,    \* names of worktrees
    Description, \* names like "the pull request"
    Linked,      \* claim texts that open with one and link one pull request
    Code,        \* names that are reference codes
    Settings     \* the settings and sources of the runs: the scope mode, whether the source's
                 \* tags exempt it, whether it is a session, what becomes of a reference code

\* An empty name is dropped by the parser; a pull request's name has a mark that
\* no reference code has.
ASSUME ReadingAssumption ==
    /\ {MaxElements, MaxChunks} \subseteq Nat
    /\ \A e \in Element : e.kind # "other" => "" \notin e.subjects
    /\ \A t \in Linked : ("pull:" \o t) \notin Code

VARIABLES
    set,        \* one of them, fixed
    replies,    \* the replies so far
    candidates, \* the result's candidates
    notes,      \* the notes: the element each is about, and why
    stage
reading == <<set, replies, candidates, notes, stage>>
-----------------------------------------------------------------------------
\* One reply

\* A reply is cut by the token limit after its last complete element, or inside
\* an element that has already closed an inner brace.
Cut == {"whole", "after an element", "inside an element"}
ModelReply == [elements : UNION {[1..n -> Element] : n \in 0..MaxElements}, cut : Cut]

\* The recovery looks for the last closing brace of the text.
Parsed(r) == r.cut # "inside an element" /\ (r.cut = "after an element" => r.elements # <<>>)

IsMeta(e) == e.scope = "DOCUMENT_META"
Skipped(e) ==
    CASE e.kind = "other" -> "not an object"
      [] e.kind = "object" /\ e.text = "" -> "empty"
      [] OTHER -> IF IsMeta(e) /\ set.mode = "suppress" THEN "suppressed" ELSE ""

\* An unknown value falls back to the default and is noted; a stance needs an
\* index.
Known(v, values, default) == IF v \in values THEN v ELSE default
Polarity == {"ASSERTED", "DECLINED", "HYPOTHETICAL"}
Modality == {"FALSIFIABLE", "EVALUATIVE", "EXPERIENTIAL", "CONSTITUTIVE"}

\* parse_structured_claim_payload: a triple, or none and the claim is kept.
Triple(e) == IF e.about = "" THEN {} ELSE {e.about}

\* apply_source_exemption leaves the operator's own mark alone.
Action(e) ==
    CASE ~IsMeta(e) -> "none"
      [] IsMeta(e) /\ set.mode = "passthrough" -> "observe"
      [] OTHER -> IF set.exempt THEN "source_exempt" ELSE "exclude"

Candidate(k, i, e) ==
    [chunk |-> k, element |-> i, text |-> e.text, stance |-> e.stance,
     polarity |-> Known(e.polarity, Polarity, "ASSERTED"),
     modality |-> Known(e.modality, Modality, "FALSIFIABLE"),
     scope |-> Action(e), subjects |-> e.subjects, triple |-> Triple(e), gated |-> {}]

\* _parse_extraction_reply
Read(k, r) ==
    FlattenSeq([i \in DOMAIN r.elements |->
        IF Skipped(r.elements[i]) # "" THEN <<>> ELSE <<Candidate(k, i, r.elements[i])>>])
\* Mutant: an element with nothing in it is passed over without a word.
NotedUnlessEmpty(k, r) ==
    {<<k, i>> : i \in {j \in DOMAIN r.elements : Skipped(r.elements[j]) \notin {"", "empty"}}}
Noted(k, r) == {<<k, i>> : i \in {j \in DOMAIN r.elements : Skipped(r.elements[j]) # ""}}

RInit ==
    /\ set \in Settings
    /\ replies = <<>> /\ candidates = <<>> /\ notes = {} /\ stage = "reading"

\* The next chunk is answered.
ReadChunk(r) ==
    LET k == Len(replies) + 1
    IN /\ stage = "reading" /\ k <= MaxChunks
       /\ replies' = Append(replies, r)
       /\ IF Parsed(r) THEN /\ candidates' = candidates \o Read(k, r)
                            /\ notes' = notes \cup Noted(k, r)
                                              \cup (IF r.cut = "whole" THEN {} ELSE {<<k, 0>>})
          ELSE /\ notes' = notes \cup {<<k, 0>>}
               /\ UNCHANGED candidates
       /\ UNCHANGED <<set, stage>>
-----------------------------------------------------------------------------
\* The result

Position(c, list) == {p \in DOMAIN list : list[p] = c}
\* Mutant: the indices are kept as they are.
AimKept(old, kept, c) == c.stance
\* An index into the old list becomes one into the kept list, or no stance.
Aim(old, kept, c) ==
    UNION {IF t \in 0..(Len(old) - 1) THEN {p - 1 : p \in Position(old[t + 1], kept)} ELSE {} :
             t \in c.stance}

\* The claims that are not about the state of the session.
Lasting ==
    FlattenSeq([p \in DOMAIN candidates |->
        IF candidates[p].text \in Momentary THEN <<>> ELSE <<candidates[p]>>])

\* drop_session_state, over the list of all chunks.
DropSessionState ==
    LET kept == Lasting
        Stands(c) == [c EXCEPT !.stance = Aim(candidates, kept, c), !.subjects = @ \ Worktree]
    IN /\ stage = "reading" /\ replies # <<>> /\ set.session
       /\ candidates' = [p \in DOMAIN kept |-> Stands(kept[p])]
       /\ notes' = notes \cup {<<c.chunk, c.element>> : c \in {d \in ToSet(candidates) : d.text \in Momentary}}
       /\ stage' = "filtered"
       /\ UNCHANGED <<set, replies>>

\* name_session_artifacts: a text that opens with a description and links one pull
\* request is named after it; a description is no subject either way.
PullRequest(c) == "pull:" \o c.text
Named(c) ==
    LET name == IF c.text \in Linked THEN {PullRequest(c)} ELSE {}
    IN [c EXCEPT !.subjects = (@ \ Description) \cup name,
                 !.triple = IF name # {} /\ @ \cap Description # {} THEN name ELSE @]

NameArtifacts ==
    /\ stage = "filtered"
    /\ candidates' = [p \in DOMAIN candidates |-> Named(candidates[p])]
    /\ stage' = "extracted"
    /\ UNCHANGED <<set, replies, notes>>

Extracted ==
    /\ stage = "reading" /\ replies # <<>> /\ ~set.session
    /\ stage' = "extracted"
    /\ UNCHANGED <<set, replies, candidates, notes>>

\* gate_candidate_subjects: what is withheld is recorded.
Withheld(c) == IF set.disposition = "qualify" THEN {} ELSE c.subjects \cap Code
Gate ==
    /\ stage = "extracted"
    /\ candidates' = [p \in DOMAIN candidates |->
                        [candidates[p] EXCEPT !.subjects = @ \ Withheld(candidates[p]),
                                              !.gated = candidates[p].subjects \cap Code]]
    /\ stage' = "done"
    /\ UNCHANGED <<set, replies, notes>>

\* candidate_to_particle: a triple is bound to a subject of its claim, or to none.
Bound(c) == c.triple \cap c.subjects

RNext == (\E r \in ModelReply : ReadChunk(r)) \/ DropSessionState \/ NameArtifacts \/ Extracted \/ Gate
ReadingSpec == RInit /\ [][RNext]_reading
-----------------------------------------------------------------------------
\* Every element of every reply that came is a claim of the result or is noted: a
\* claim is skipped, lost behind a cut or dropped as session state, never silently
\* (the parser's and the filter's notes).
NothingIsLostSilently ==
    \A k \in DOMAIN replies : \A i \in DOMAIN replies[k].elements :
        \/ {<<k, i>>, <<k, 0>>} \cap notes # {}
        \/ \E c \in ToSet(candidates) : c.chunk = k /\ c.element = i

\* A triple that named a subject of its claim still does, unless the name was
\* withheld, is a worktree's or describes a pull request the text does not name
\* (name_session_artifacts, bind_subject_id).
TripleStaysBound ==
    stage = "done" =>
        \A c \in ToSet(candidates) :
            LET e == replies[c.chunk].elements[c.element]
                Lost == Worktree \cup Code \cup IF e.text \in Linked THEN {} ELSE Description
            IN e.about \in e.subjects \ Lost => Bound(c) # {}

SamePlace(c, d) == c.chunk = d.chunk /\ c.element = d.element

\* The filter moves a stance with its target: what it pointed at in the list before
\* it points at in the list after, and a stance on a dropped claim is none
\* (drop_session_state).
FilterKeepsAimStep ==
    (stage = "reading" /\ stage' = "filtered" =>
         \A c \in ToSet(candidates), d \in ToSet(candidates') :
            SamePlace(c, d) =>
              \A t \in d.stance :
                 /\ t + 1 \in DOMAIN candidates'
                 /\ \E s \in c.stance \cap 0..(Len(candidates) - 1) :
                      SamePlace(candidates'[t + 1], candidates[s + 1]))

\* Every element of every reply is a claim or is noted, and the filter moves a stance with
\* its target and a triple with its subject.
ClaimsAreAccounted ==
    [](NothingIsLostSilently /\ TripleStaysBound) /\ [][FilterKeepsAimStep]_reading

\* A stance is bound to the claim its source named: the candidate at its target index
\* is the element at that index of the reply it came from (prompt and CandidateParticle).
StanceFindsItsTarget ==
    stage = "done" =>
        \A c \in ToSet(candidates) : \A t \in c.stance :
            t + 1 \in DOMAIN candidates =>
                /\ candidates[t + 1].chunk = c.chunk
                /\ \A s \in replies[c.chunk].elements[c.element].stance :
                      candidates[t + 1].element = s + 1
=============================================================================
