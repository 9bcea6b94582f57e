--------------------------------- MODULE RdfDeposit ---------------------------------
(***************************************************************************)
(* The deposit of an RDF document (src/particles/extraction/rdf.py): the   *)
(* syntaxes it is tried in, under a guard that refuses what a parse would  *)
(* fetch and that is one attribute of the process, whoever parses; and the *)
(* candidates a parsed document yields.  The two are apart: a document of  *)
(* the first kind is followed to its parse, one of the second from there.  *)
(***************************************************************************)
EXTENDS Integers, Sequences, FiniteSets, SequencesExt

CONSTANTS
    Thread,      \* threads that parse; they share the parsers' attributes
    Payload,     \* bytes deposited: what their name and head hint at, what they are
    Spelling,    \* the triples of a document, in the order of their spelling
    Class,       \* what each is: "plain", "skipped" predicate, "header", "unlabelled"
    Parsed,      \* the documents: quads, reification bundles, the named graph's confidences
    MaxTriples,  \* rdf.max_triples
    Default      \* rdf.default_confidence, in tenths

VARIABLES
    payload,  \* the payload of each thread
    queue,    \* the syntaxes it has yet to try
    hook,     \* whose guard the parsers' attributes are: a thread's, or none
    over,     \* the guard each thread found when it put its own there
    notes,    \* the quality notes of each thread's document
    ended,    \* what each thread's document came to
    crossed,  \* a guard was taken off while one put over it still stood
    leaf,     \* the parsed document
    about,    \* the confidence each reified triple is given: none or one
    stated,   \* the confidence the named graph is given
    yield     \* the candidates, and whether the cap cut them
parsing == <<payload, queue, hook, over, notes, ended, crossed>>
emission == <<leaf, about, stated, yield>>

Base == "none"
Outside == "outside"
NoLeaf == [quads |-> {}, bundles |-> {}, graph |-> {}]
Unread == [step |-> "parsed", out |-> <<>>, cut |-> FALSE]

Init ==
    \/ /\ payload \in [Thread -> Payload] /\ leaf = NoLeaf
       /\ queue = [t \in Thread |-> <<>>] /\ hook = Base
       /\ over = [t \in Thread |-> Outside] /\ notes = [t \in Thread |-> {}]
       /\ ended = [t \in Thread |-> "no"] /\ crossed = FALSE
       /\ about = <<>> /\ stated = {} /\ yield = Unread
    \/ /\ leaf \in Parsed /\ payload = <<>> /\ queue = <<>> /\ hook = Base /\ over = <<>>
       /\ notes = <<>> /\ ended = <<>> /\ crossed = FALSE
       /\ about = <<>> /\ stated = {} /\ yield = Unread

-----------------------------------------------------------------------------
\* What is fetched: a "context" the scrub sees, one it does not, an external "entity"; and
\* an entity that is "declared" to be expanded.

\* The name's suffix, then what the head looks like, then every syntax; each once.
FormatCandidates(p) ==
    LET first(s, f) == IF f \in ToSet(s) THEN s ELSE Append(s, f)
    IN  FoldLeft(first, <<>>,
            p.suffix \o p.head \o <<"trig", "nquads", "json-ld", "xml">>)

\* strip_remote_contexts reads JSON alone.
Scrub(p) == [p EXCEPT !.reach = @ \ (IF "json-ld" \in ToSet(p.head) THEN {"context"} ELSE {})]

Deposit(t) ==
    LET p == payload[t]
    IN  /\ over[t] = Outside /\ ended[t] = "no" /\ queue[t] = <<>>
        /\ IF p.large
           THEN /\ notes' = [notes EXCEPT ![t] = {"too large"}]
                /\ ended' = [ended EXCEPT ![t] = "nothing"]
                /\ UNCHANGED <<payload, queue, hook, over>>
           ELSE /\ payload' = [payload EXCEPT ![t] = Scrub(p)]
                /\ notes' = [notes EXCEPT ![t] = IF Scrub(p) = p THEN {} ELSE {"dropped"}]
                /\ queue' = [queue EXCEPT ![t] = FormatCandidates(p)]
                /\ over' = [over EXCEPT ![t] = hook] /\ hook' = t
                /\ UNCHANGED ended
        /\ UNCHANGED <<crossed, emission>>

\* What parsing it in this syntax reaches out for.
Reaches(p, f) ==
    p.reach \cap (CASE f = "json-ld" -> {"context", "hidden context"}
                    [] f = "xml" -> {"entity", "declared"}
                    [] OTHER -> {})

\* One syntax is tried.  A guard refuses the parse, and what it refused goes into the notes of
\* the thread that put it there; a declared entity is refused without a note.  With no guard
\* a context is fetched, and the reader itself declines an external entity.
Try(t) ==
    LET f == Head(queue[t])
        p == payload[t]
        reached == Reaches(p, f)
        refused == hook # Base /\ reached # {}
        found == f \in p.syntaxes /\ ~refused
    IN  /\ queue[t] # <<>> /\ ended[t] = "no"
        /\ notes' = IF refused /\ reached # {"declared"}
                    THEN [notes EXCEPT ![hook] = @ \cup {"refused"}]
                    ELSE IF ~refused /\ reached \cap {"context", "hidden context"} # {}
                         THEN [notes EXCEPT ![t] = @ \cup {"fetched"}] ELSE notes
        /\ queue' = [queue EXCEPT ![t] = IF found THEN <<>> ELSE Tail(@)]
        /\ ended' = [ended EXCEPT ![t] = IF found THEN f
                                         ELSE IF Len(queue[t]) = 1 THEN "nothing" ELSE @]
        /\ UNCHANGED <<payload, hook, over, crossed, emission>>

\* Mutant: the guard is taken off and nothing is put back.
LeaveBare(t) ==
    /\ over[t] # Outside /\ ended[t] # "no"
    /\ hook' = Base /\ over' = [over EXCEPT ![t] = Outside]
    /\ crossed' = (crossed \/ hook # t)
    /\ UNCHANGED <<payload, queue, notes, ended, emission>>
\* The guard it found is put back, whatever stands there now.
Leave(t) ==
    /\ over[t] # Outside /\ ended[t] # "no"
    /\ hook' = over[t] /\ over' = [over EXCEPT ![t] = Outside]
    /\ crossed' = (crossed \/ hook # t)
    /\ UNCHANGED <<payload, queue, notes, ended, emission>>

-----------------------------------------------------------------------------
\* A confidence is a number of tenths between none and all; anything else is no confidence.
ReadConfidence(v) == {v} \cap 0..10

\* Of several bundles about one triple, and of several confidences in one of them, the last
\* read stands: they are read in hash order.
Readings(t) ==
    UNION {IF b.says = {} THEN {{}} ELSE {ReadConfidence(v) : v \in b.says} :
               b \in {c \in leaf.bundles : c.triple = t}}
Annotate ==
    /\ leaf # NoLeaf /\ yield.step = "parsed"
    /\ LET reified == {b.triple : b \in leaf.bundles} \cap ToSet(Spelling)
           values == {v \in leaf.graph : ReadConfidence(v) # {}}
       IN  /\ about' \in {f \in [reified -> UNION {Readings(t) : t \in reified}] :
                              \A t \in reified : f[t] \in Readings(t)}
           /\ stated' \in IF values = {} THEN {{}} ELSE {{v} : v \in values}
    /\ yield' = [yield EXCEPT !.step = "annotated"]
    /\ UNCHANGED <<parsing, leaf>>

\* _build_candidate: nothing without a label for each term, nothing about a blank node.
IsEmittable(t) == Class[t] # "unlabelled"
EmitOne(y, c) ==
    IF Len(y.out) >= MaxTriples THEN [y EXCEPT !.cut = TRUE]
    ELSE IF IsEmittable(c.triple) THEN [y EXCEPT !.out = Append(@, c)] ELSE y
Candidate(t, g, confidence) ==
    [triple |-> t, graph |-> g,
     confidence |-> IF confidence = {} THEN Default ELSE CHOOSE v \in confidence : TRUE]

\* Mutant: every reified triple is emitted for its bundle.
AllReified(y) == SelectSeq(Spelling, LAMBDA t : t \in DOMAIN about)
\* Those that were asserted too have been emitted.
ReifiedAlone(y) ==
    SelectSeq(Spelling, LAMBDA t : t \in DOMAIN about /\ \A i \in DOMAIN y.out : y.out[i].triple # t)

\* Graph by graph, each in the order of spelling, and then what is reified alone.
Emit(order) ==
    LET own(t) == IF t \in DOMAIN about THEN about[t] ELSE {}
        given(t, g) == IF own(t) # {} THEN own(t) ELSE IF g = "named" THEN stated ELSE {}
        asserted(g) == SelectSeq(Spelling, LAMBDA t : /\ [graph |-> g, triple |-> t] \in leaf.quads
                                                      /\ Class[t] \notin {"skipped", "header"})
        turn(y, g) == FoldLeft(LAMBDA z, t : EmitOne(z, Candidate(t, g, given(t, g))), y, asserted(g))
        bare == FoldLeft(turn, [yield EXCEPT !.step = "emitted"], order)
    IN  /\ yield.step = "annotated"
        /\ yield' = FoldLeft(LAMBDA z, t : EmitOne(z, Candidate(t, "none", own(t))), bare,
                             ReifiedAlone(bare))
        /\ UNCHANGED <<parsing, leaf, about, stated>>

Next ==
    \/ leaf = NoLeaf /\ \E t \in Thread : Deposit(t) \/ Try(t) \/ Leave(t)
    \/ Annotate
    \/ Emit(<<"default", "named">>) \/ Emit(<<"named", "default">>)

-----------------------------------------------------------------------------
\* Nothing is fetched, every refusal is told and no guard outlives the parses, as long as
\* guards come off in the reverse of the order they were put on; and the document is read in
\* the first of its syntaxes that was not refused.
NothingIsFetched ==
    leaf = NoLeaf /\ ~crossed =>
        /\ \A t \in Thread : "fetched" \notin notes[t]
        /\ hook = Base <=> \A t \in Thread : over[t] = Outside
        /\ \A t \in Thread : ended[t] \notin {"no", "nothing"} => Reaches(payload[t], ended[t]) = {}
        /\ \A t \in Thread :
              ended[t] = "nothing" /\ payload[t].syntaxes # {} /\ "too large" \notin notes[t]
                => /\ payload[t].reach # {}
                   /\ payload[t].reach = {"declared"}
                        \/ \E u \in Thread : "refused" \in notes[u]

\* A triple is one candidate for each graph that asserts it, or one for its bundle where none
\* does, and what is about the document alone is none for its graphs; every triple that can
\* be put in words is there unless the notes say the cap cut them; and its confidence is one
\* the document gives it, its graph's, or the default.
EmittedOnce ==
    yield.step = "emitted" =>
        LET out == yield.out
            asserts(t) == {q.graph : q \in {q \in leaf.quads : q.triple = t}}
            given(t) == UNION Readings(t)
        IN  /\ Len(out) <= MaxTriples
            /\ \A i, k \in DOMAIN out : out[i].triple = out[k].triple /\ i # k =>
                  /\ out[i].graph # out[k].graph /\ {out[i].graph, out[k].graph} \subseteq asserts(out[i].triple)
            /\ \A t \in ToSet(Spelling) :
                  /\ Class[t] # "unlabelled"
                  /\ t \in DOMAIN about \/ (asserts(t) # {} /\ Class[t] = "plain")
                  => yield.cut \/ \E i \in DOMAIN out : out[i].triple = t
            /\ \A i \in DOMAIN out : out[i].graph # "none" => Class[out[i].triple] = "plain"
            /\ \A i \in DOMAIN out :
                  \/ out[i].confidence \in given(out[i].triple)
                  \/ out[i].graph = "named" /\ out[i].confidence \in leaf.graph
                  \/ /\ out[i].confidence = Default
                     /\ {} \in Readings(out[i].triple) \cup (IF given(out[i].triple) = {} THEN {{}} ELSE {})
=====================================================================================
