----------------------------- MODULE Conformance -----------------------------
(* The conformance check of the extractors (conformance/, extraction/        *)
(* registry.py): a corpus of fixtures on disk that is generated, edited and   *)
(* left half-written, and the reports of extractors that are run over the     *)
(* fixtures the registry routes to them.  A particle is what the contract     *)
(* asks of it: the fields it fills and whether a subject is expected of it.   *)
EXTENDS Integers, Sequences, FiniteSets, SequencesExt

CONSTANTS
    Registry,     \* the registered extractors, in order
    Accepts,      \* [extractor -> source types it accepts]
    MustNot,      \* [extractor -> source types it must not be given]
    Id, Type, Content,
    Emits,        \* [Content -> the particle lists an extraction of it may give]
    Floor,        \* recommended_threshold, in percent
    MaxSteps      \* bound: generations, edits and reports

ASSUME ConformanceAssumption ==
    /\ IsFiniteSet(Id) /\ MaxSteps \in Nat /\ Floor \in Nat
    /\ \A c \in Content : \A ps \in Emits[c] : ps \in Seq(ToSet(ps))

VARIABLES
    shelf,        \* [Id -> the files of its directory]
    inventory,    \* the ids MANIFEST.yaml lists
    gen,          \* the generation under way
    last,         \* the last report, or NoReport
    did
corpus == <<shelf, inventory, gen, last, did>>

NoReport == [extractor |-> "none"]
Idle == [at |-> "idle"]
Absent == [made |-> FALSE, type |-> {}, content |-> {}, snapshot |-> {}]
-----------------------------------------------------------------------------
\* The registry

\* select_extractor: the first that accepts the type and is not forbidden it.
Takers(t) == SelectSeq(Registry, LAMBDA e : t \notin MustNot[e] /\ t \in Accepts[e])
SelectExtractor(t) == IF Takers(t) = <<>> THEN {} ELSE {Head(Takers(t))}
Selects(e, t) == e \in SelectExtractor(t)
-----------------------------------------------------------------------------
\* The contract

\* A field of each kind: measured on every particle, or only where a subject is
\* expected; and the tier of each.
Field == {"asserted_by", "subject_ids", "uncertainty_nature", "extractor_ref", "valid_until"}
Tier(f) == CASE f \in {"asserted_by", "subject_ids", "uncertainty_nature"} -> "REQUIRED"
             [] f = "extractor_ref" -> "RECOMMENDED"
             [] OTHER -> "OPTIONAL"

SubjectExpected(p) == p.surface = "claim"
Exempt(f, p) == f = "subject_ids" /\ ~SubjectExpected(p)

MinDistinct == [uncertainty_nature |-> 2]
\* Mutant: too little diversity fails the field.
SeverityFail(f) == "FAIL"
Severity(f) == "ADVISORY"

\* Particles by their position.
Measured(f, ps) == {k \in DOMAIN ps : ~Exempt(f, ps[k])}
Populated(f, ps) == {k \in Measured(f, ps) : f \in ps[k].filled}
Distinct(f, ps) == {ps[k].nature : k \in Populated(f, ps)}

\* _compute_field_stat: a field nothing could be measured on is no pass, unless
\* it is optional; the rule on diversity is read only of a field that passed.
FieldStat(f, ps) ==
    LET total == Cardinality(Measured(f, ps))
        populated == Cardinality(Populated(f, ps))
        enough == CASE total = 0 -> Tier(f) = "OPTIONAL"
                    [] total # 0 /\ Tier(f) = "REQUIRED" -> populated = total
                    [] total # 0 /\ Tier(f) = "RECOMMENDED" -> 100 * populated >= Floor * total
                    [] OTHER -> TRUE
        dull == /\ total > 0 /\ enough /\ f \in DOMAIN MinDistinct
                /\ Cardinality(Distinct(f, ps)) < MinDistinct[f]
    IN [field |-> f, total |-> total, passes |-> enough /\ ~(dull /\ Severity(f) = "FAIL"),
        advisory |-> dull /\ Severity(f) = "ADVISORY"]

Stats(ps) == {FieldStat(f, ps) : f \in Field}
Failures(stats) == {s \in stats : Tier(s.field) = "REQUIRED" /\ ~s.passes}

\* has_evaluable_failure: what clamps the trust in an extractor.
HasEvaluableFailure(r) == Len(r.particles) > 0 /\ Failures(r.stats) # {}
-----------------------------------------------------------------------------
\* The corpus

Loadable(d) == d.type # {}
Whole(d) == d.type # {} /\ d.content # {} /\ d.snapshot # {}
\* iter_fixtures: every directory with a manifest; one that lacks another file
\* raises.
Fixtures == {i \in Id : Loadable(shelf[i])}
Raises == \E i \in Fixtures : ~Whole(shelf[i])
\* compute_corpus_hash: what is hashed of each fixture.
CorpusHash == {<<i, shelf[i].content, shelf[i].snapshot>> : i \in Fixtures}
SourceType(i) == CHOOSE t \in shelf[i].type : TRUE
SelectFixtures(e, all) ==
    {i \in Fixtures : IF all THEN SourceType(i) \in Accepts[e] ELSE Selects(e, SourceType(i))}

CInit ==
    /\ shelf = [i \in Id |-> Absent] /\ inventory = {}
    /\ gen = Idle /\ last = NoReport /\ did = 0

Step == did < MaxSteps /\ did' = did + 1

\* write_fixture refuses a directory that is there, unless forced.
Generate(i, t, c, force) ==
    /\ Step /\ gen = Idle
    /\ ~shelf[i].made \/ force
    /\ shelf' = [shelf EXCEPT ![i].made = TRUE]
    /\ gen' = [at |-> "manifest", id |-> i, type |-> t, content |-> c]
    /\ UNCHANGED <<inventory, last>>

Following == [manifest |-> "content", content |-> "snapshot", snapshot |-> "inventory"]
\* Its files, one after another, and the registration.
WriteNext ==
    /\ gen.at \in DOMAIN Following
    /\ shelf' = [shelf EXCEPT ![gen.id] =
                  CASE gen.at = "manifest" -> [@ EXCEPT !.type = {gen.type}]
                    [] gen.at = "content" -> [@ EXCEPT !.content = {gen.content}]
                    [] gen.at = "snapshot" -> [@ EXCEPT !.snapshot = {gen.content}]]
    /\ gen' = [gen EXCEPT !.at = Following[gen.at]]
    /\ UNCHANGED <<inventory, last, did>>

\* Mutant: the id is registered when its directory is made.
RegisterAtOnce ==
    /\ gen.at = "manifest" /\ gen.id \notin inventory
    /\ inventory' = inventory \cup {gen.id}
    /\ UNCHANGED <<shelf, gen, last, did>>

Register ==
    /\ gen.at = "inventory"
    /\ inventory' = inventory \cup {gen.id}
    /\ gen' = Idle
    /\ UNCHANGED <<shelf, last, did>>

Kill == gen # Idle /\ gen' = Idle /\ UNCHANGED <<shelf, inventory, last, did>>

\* The operator corrects the source type of a fixture.
Retype(i, t) ==
    /\ Step /\ gen = Idle /\ Loadable(shelf[i]) /\ shelf[i].type # {t}
    /\ shelf' = [shelf EXCEPT ![i].type = {t}]
    /\ UNCHANGED <<inventory, gen, last>>

\* _run_extractor_over_fixtures: an extraction that raises gives a note and no
\* particles.
Runs(is) == {FlattenSeq([k \in DOMAIN order |-> out[order[k]]]) :
               order \in {SetToSeq(is)},
               out \in {o \in [is -> (UNION {Emits[c] : c \in Content}) \cup {<<>>}] :
                          \A i \in is : o[i] \in Emits[CHOOSE c \in shelf[i].content : TRUE] \cup {<<>>}}}

\* validate_extractor
Validate(e, all) ==
    /\ Step /\ ~Raises
    /\ \E ps \in Runs(SelectFixtures(e, all)) :
         last' = [extractor |-> e, widened |-> all, fixtures |-> SelectFixtures(e, all),
                  hash |-> CorpusHash, particles |-> ps, stats |-> Stats(ps)]
    /\ UNCHANGED <<shelf, inventory, gen>>

CNext ==
    \/ \E i \in Id, t \in Type : Retype(i, t) \/ \E c \in Content, f \in BOOLEAN : Generate(i, t, c, f)
    \/ WriteNext \/ Register \/ Kill
    \/ \E e \in ToSet(Registry), all \in BOOLEAN : Validate(e, all)

ConformanceSpec == CInit /\ [][CNext]_corpus
-----------------------------------------------------------------------------
\* The inventory lists nothing that cannot be loaded, wherever a generation was
\* killed: a fixture may be missing from it, not from the corpus (write_fixture,
\* MANIFEST.yaml).
InventoryIsOnDisk == \A i \in inventory : Whole(shelf[i])

\* A required field fails for a particle that should have filled it, or because
\* none could be measured, never for the value it holds: of the particles a
\* report was made of, one is short of a required field exactly if a measured
\* field is among its failures (_compute_field_stat).
FailureHasWitness ==
    last # NoReport =>
        ((\E s \in Failures(last.stats) : s.total > 0) <=>
         \E k \in DOMAIN last.particles, f \in Field :
            Tier(f) = "REQUIRED" /\ ~Exempt(f, last.particles[k]) /\ f \notin last.particles[k].filled)

\* What an extractor is held to is what was complete, and what it did.
VerdictsAreWitnessed == InventoryIsOnDisk /\ FailureHasWitness
=============================================================================
