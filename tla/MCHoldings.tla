--------------------------------- MODULE MCHoldings ---------------------------------
(***************************************************************************)
(* What an operator keeps and decides beside the store, checked side by    *)
(* side: the reviewed vocabularies, the Markdown export, the settings, and *)
(* what the settings let the process fetch, the bundles that stores        *)
(* exchange, the reader of the files they arrive in, the fixtures an        *)
(* extractor is judged by, the memory exports that are taken over, and     *)
(* what may be asked, and the RDF documents deposited.  They share no      *)
(* state: which one runs is chosen at the start and the others stay at     *)
(* rest.                                                                   *)
(***************************************************************************)
EXTENDS Vocabulary, ExportLedger, Outbound, Migration, Conformance, QueryForms, Settings, TLC

CONSTANT Listed

ASSUME OutboundAssumption ==
    /\ Blocked \subseteq Addr /\ Listed \subseteq Name
    /\ {Retries, MaxHops, MaxChanges} \subseteq Nat

VARIABLES
    part,
    sdk, row, wire, report, steps,                           \* Interchange
    doc_, at_, env, spent, items, outcome,                   \* BoundedYaml
    payload, queue, hook, over, notes, ended, crossed,       \* RdfDeposit
    leaf, about, stated, yield

\* No rule, no egress, a name listed with one port, and with every port beside one of them.
Setting(posture, entries) == [posture |-> posture, entries |-> entries]
SomePostures ==
    {Setting("open", {}), Setting("none", {})} \cup
    {Setting("allowlist", {[host |-> n, port |-> p] : p \in ports}) :
        n \in Listed, ports \in {{443}, {0, 80}}}

\* Three renamed keys, after config.py:5725: a value, a table, and one whose new section is
\* an older key's old section.
Move(from, to, table) == [from |-> from, to |-> to, table |-> table]
SomeMoves ==
    <<Move(<<"extraction", "model">>, <<"llm", "model">>, FALSE),
      Move(<<"benchmark", "price">>, <<"llm", "price">>, TRUE),
      Move(<<"benchmark", "extra">>, <<"extraction", "extra">>, FALSE)>>
Empty == [null |-> TRUE]
SomeRaws ==
    {[extraction |-> [model |-> 1], llm |-> [model |-> 2, price |-> [a |-> 1, b |-> 1]],
      benchmark |-> [price |-> [b |-> 2, c |-> 2]]],
     [benchmark |-> [price |-> [b |-> 2], extra |-> 2], extraction |-> [model |-> 1]],
     [benchmark |-> [extra |-> 2], extraction |-> Empty],
     [llm |-> Empty, extraction |-> [model |-> 1]]}
SettingsFile(raw, where) ==
    [raw |-> raw, perStore |-> <<>>, enabled |-> {}, mode |-> "single", store |-> where]
\* With a relative store, and with a write store that is held to one reconciliation mode.
SomeFiles ==
    {SettingsFile(raw, "absolute") : raw \in SomeRaws} \cup
    {SettingsFile(<<>>, "relative"),
     [SettingsFile([llm |-> [model |-> 2]], "relative") EXCEPT
        !.perStore = "s" :> "single", !.enabled = {"s"}, !.mode = "multi"]}
Here(file, git) == [file |-> file, git |-> git]
SomePlaces == {<<>>, <<Here("ours", FALSE)>>, <<Here("none", TRUE), Here("ours", FALSE)>>}

VariableOf == <<"llm", "model">>

\* An SDK of each kind a store can meet; a key of an older minor, and two of a newer one.
Stamp(major, minor) == [major |-> major, minor |-> minor]
I == INSTANCE Interchange WITH
        Site <- {"here", "there"}, Key <- {"sources", "held", "role"},
        Since <- [sources |-> 0, held |-> 1, role |-> 1],
        Place <- [sources |-> "object", held |-> "unit", role |-> "contributor"],
        Version <- {Stamp(1, 0), Stamp(1, 1), Stamp(2, 0)}, MaxUnits <- 1, MaxSteps <- 5

\* Items with anchors that are merged, aliased, nested in one another and given twice.
Scalar(v, name) == [kind |-> "scalar", v |-> v, anchor |-> name]
Alias(name) == [kind |-> "alias", name |-> name]
List(kids, name) == [kind |-> "seq", kids |-> kids, anchor |-> name]
Pair(k, n) == [key |-> k, val |-> n]
Table(pairs, name) == [kind |-> "map", pairs |-> pairs, anchor |-> name]
Merge(n) == Pair("<<", n)
SomeItems ==
    {Scalar("1", ""), Scalar("long number", ""), Scalar("1", "a"), Alias("a"), Alias("b"),
     Table(<<Pair("k", Scalar("1", "")), Pair("m", List(<<Scalar("1", "")>>, "b"))>>, "a"),
     Table(<<Merge(Alias("a")), Pair("k", Scalar("2", ""))>>, "b"),
     Table(<<Merge(Table(<<Pair("k", Scalar("3", "b"))>>, "a"))>>, ""),
     Table(<<Merge(Alias("b"))>>, ""),
     List(<<Alias("a"), Alias("a")>>, "b"), List(<<List(<<Alias("a")>>, "")>>, "b"),
     List(<<Alias("b")>>, "b"),
     List(<<Table(<<Pair("k", Scalar("4", ""))>>, ""),
            Table(<<Pair("k", Scalar("5", "")), Pair("m", Scalar("6", ""))>>, "")>>, "a")}
SomeDocuments ==
    {[top |-> t, items |-> <<>>] : t \in {"none", "map", "tagged"}} \cup
    [top : {"seq"}, items : UNION {[1..n -> SomeItems] : n \in 0..3} \cup
                            {[i \in 1..4 |-> Scalar("1", "")]}]
Y == INSTANCE BoundedYaml WITH
        doc <- doc_, at <- at_,
        Document <- SomeDocuments, MaxNodes <- 14, MaxDepth <- 5, MaxItems <- 3

\* A particle that fills every field, one of a claim without a subject, one of the writer's
\* own state, which needs none, and one without the optional field.
Fields == {"asserted_by", "subject_ids", "uncertainty_nature", "extractor_ref", "valid_until"}
Emitted(surface, nature, missing) ==
    [surface |-> surface, nature |-> nature, filled |-> Fields \ missing]
Complete == Emitted("claim", "EPISTEMIC", {})
Registered == <<"journal", "general">>
Accepting == [journal |-> {"J"}, general |-> {"J", "W"}]
Refusing == [journal |-> {}, general |-> {"X"}]
Emitting ==
    [c |-> {<<Complete>>,
            <<Complete, Emitted("claim", "ALEATORY", {"subject_ids", "extractor_ref"})>>},
     d |-> {<<Emitted("self", "EPISTEMIC", {"subject_ids"})>>,
            <<Emitted("claim", "EPISTEMIC", {"valid_until"})>>}]

\* Two spellings of one name; an entity with nothing to say, with a type that is no string,
\* with observations that are none; relations that name an entity in another spelling.
Spelled(key, spelling) == [key |-> key, spelling |-> spelling]
Described(name, type, observations, extra) ==
    [kind |-> "entity", name |-> name, type |-> type, observations |-> observations,
     extra |-> extra]
Related(from, to, extra) == [kind |-> "relation", from |-> from, to |-> to, extra |-> extra]
ExportLines ==
    {[kind |-> "blank"], [kind |-> "unreadable"],
     Described(Spelled("a", 1), "T", <<TRUE, FALSE>>, FALSE),
     Described(Spelled("a", 1), "T", <<>>, TRUE),
     Described(Spelled("a", 2), "odd", <<TRUE>>, FALSE),
     Described(Spelled("b", 1), "odd", <<FALSE>>, FALSE),
     Related(Spelled("a", 2), Spelled("b", 1), FALSE),
     Related(Spelled("b", 1), Spelled("b", 1), TRUE)}

\* Predicates that differ in case and in kind; objects of each type, one typed and not of its
\* type, one that is both a number and a date, and one that no ClaimTerm is.
Literal(v, datatype, language) ==
    [kind |-> "LITERAL", value |-> v, datatype |-> datatype, language |-> language]
Token(v) == [kind |-> "TOKEN", value |-> v, datatype |-> "", language |-> ""]
URI(v) == [Token(v) EXCEPT !.kind = "URI"]
SomePredicates == {Token("p"), Token("P"), URI("P"), Literal("p", "", "")}
SomeObjects ==
    {Literal("1", "number", ""), Literal("1.0", "", ""), Literal("2", "number", ""),
     Literal("2", "date", ""), Literal("d", "date", ""), Literal("w", "number", ""),
     Literal("W", "", "en"), Token("w"), Literal("1", "number", "en")}
Stated(p, o, class) == [subject |-> Token("s"), predicate |-> p, object |-> o, class |-> class]
SomeTerms == SomeObjects \cup SomePredicates \cup {Token("s")}
SomeTriples ==
    [subject : {Token("s")}, predicate : SomePredicates, object : SomeObjects, class : {"c", "k"}]
SomeStores ==
    {<<>>, <<Stated(Literal("p", "", ""), Token("w"), "c")>>,
     <<Stated(Token("p"), Literal("1", "number", ""), "c"),
       Stated(Token("P"), Literal("1.0", "", ""), "k"),
       Stated(URI("P"), Literal("2", "number", ""), "c"),
       Stated(Token("p"), Literal("2", "date", ""), "k"),
       Stated(Token("p"), Literal("d", "date", ""), "k"),
       Stated(Token("p"), Literal("w", "number", ""), "c"),
       Stated(Token("p"), Literal("W", "", "en"), "c"),
       Stated(URI("P"), Token("w"), "c")>>}
Numbers == "1" :> 1 @@ "1.0" :> 1 @@ "2" :> 2
Dates == "2" :> 2 @@ "d" :> 1
LexicalForms == {"1", "1.0", "2", "d", "w", "W", "p", "P", "s"}
Folded == [f \in LexicalForms |-> IF f = "W" THEN "w" ELSE IF f = "P" THEN "p" ELSE f]
Holding == [f \in LexicalForms |-> IF f = "1.0" THEN {"1", "1.0"} ELSE {f}]
Normal == [f \in LexicalForms |-> IF f = "P" THEN "p" ELSE f]
Asked ==
    [question |-> {TRUE}, predicate |-> {"p"}, eq |-> {"1.0", "d", "W", "2"},
     gt |-> {"1", "d", "w", "2"}, lt |-> {"2", "d"}, contains |-> {"1"},
     count |-> {TRUE}, predicates |-> {TRUE}, report |-> {TRUE},
     window |-> {"stands", "inverted"}, floor |-> {TRUE}, asOf |-> {"past", "future"}]

\* Bytes of each syntax, with a head that betrays them or not, that reach out or not; documents
\* of up to three quads and two bundles, over a triple of each class.
Bytes(suffix, head, syntaxes, reach) ==
    [suffix |-> suffix, head |-> head, syntaxes |-> syntaxes, reach |-> reach, large |-> FALSE]
SomePayloads ==
    {Bytes(<<>>, <<>>, {"trig"}, {}), [Bytes(<<>>, <<>>, {"trig"}, {}) EXCEPT !.large = TRUE],
     Bytes(<<"turtle">>, <<>>, {}, {}), Bytes(<<>>, <<"json-ld">>, {"json-ld"}, {"context"}),
     Bytes(<<"turtle">>, <<"json-ld">>, {"json-ld"}, {"hidden context"}),
     Bytes(<<"json-ld">>, <<"json-ld">>, {"json-ld"}, {"context", "hidden context"}),
     Bytes(<<>>, <<"xml">>, {"xml"}, {"entity"}), Bytes(<<>>, <<"xml">>, {"xml"}, {"declared"})}
Classes == [plain |-> "plain", label |-> "skipped", ontology |-> "header", blank |-> "unlabelled"]
Quads == [graph : {"default", "named"}, triple : DOMAIN Classes]
Bundles == [triple : {"plain", "label", "blank", "malformed"}, says : {{}, {2}, {4, 11}}]
UpTo(n, set) == UNION {kSubset(k, set) : k \in 0..n}
SomeLeaves ==
    {d \in [quads : UpTo(3, Quads), bundles : UpTo(2, Bundles), graph : {{}, {6}, {7, 11}}] :
        /\ d.quads # {} \/ d.bundles # {}
        /\ d.graph # {} => \E q \in d.quads : q.graph = "named"}
R == INSTANCE RdfDeposit WITH
        Thread <- {"main", "worker"}, Payload <- SomePayloads,
        Spelling <- <<"blank", "label", "ontology", "plain">>, Class <- Classes,
        Parsed <- SomeLeaves, MaxTriples <- 2, Default <- 9

interchange == <<sdk, row, wire, report, steps>>
yaml == <<doc_, at_, env, spent, items, outcome>>
rdf == <<payload, queue, hook, over, notes, ended, crossed, leaf, about, stated, yield>>
others == <<interchange, yaml, corpus, migrationVars, queryVars, rdf>>

LedgerRests ==
    /\ disk = "rest" /\ manifest = "rest" /\ journal = "rest" /\ at = "rest"
    /\ run = "rest" /\ cut = "rest" /\ late = "rest"
OutboundRests == OInit /\ policy.posture = "open" /\ zone = [n \in Name |-> <<>>]
SettingsRest == SInit /\ {pinned, user} = {Missing} /\ around = <<>>
InterchangeRests ==
    /\ sdk = "rest" /\ row = "rest" /\ wire = "rest" /\ report = "rest" /\ steps = "rest"
YamlRests ==
    /\ doc_ = "rest" /\ at_ = "rest" /\ env = "rest" /\ spent = "rest" /\ items = "rest"
    /\ outcome = "rest"
RdfRests ==
    /\ payload = "rest" /\ queue = "rest" /\ hook = "rest" /\ over = "rest" /\ notes = "rest"
    /\ ended = "rest" /\ crossed = "rest" /\ leaf = "rest" /\ about = "rest" /\ stated = "rest"
    /\ yield = "rest"

HoldingsInit ==
    /\ part \in {"vocabulary", "ledger", "settings", "outbound", "interchange", "yaml", "fixtures",
                "migration", "query", "rdf"}
    /\ Init
    /\ IF part = "ledger" THEN LedgerInit ELSE LedgerRests
    /\ IF part = "settings" THEN SInit ELSE SettingsRest
    /\ IF part = "outbound" THEN OInit ELSE OutboundRests
    /\ IF part = "interchange" THEN I!IInit ELSE InterchangeRests
    /\ IF part = "yaml" THEN Y!YInit ELSE YamlRests
    /\ CInit
    /\ MigrationInit
    /\ QueryInit /\ (part = "query" \/ store = <<>>)
    /\ IF part = "rdf" THEN R!Init ELSE RdfRests

HoldingsNext ==
    \/ part = "vocabulary" /\ Next /\ UNCHANGED <<part, ledger, svars, ovars, others>>
    \/ part = "ledger" /\ LedgerNext /\ UNCHANGED <<part, vocabulary, svars, ovars, others>>
    \/ part = "settings" /\ SNext /\ UNCHANGED <<part, vocabulary, ledger, ovars, others>>
    \/ part = "outbound" /\ ONext /\ UNCHANGED <<part, vocabulary, ledger, svars, others>>
    \/ /\ part = "interchange" /\ I!INext
       /\ UNCHANGED <<part, vocabulary, ledger, svars, ovars, yaml, corpus, migrationVars, queryVars, rdf>>
    \/ /\ part = "yaml" /\ Y!YNext
       /\ UNCHANGED <<part, vocabulary, ledger, svars, ovars, interchange, corpus, migrationVars, queryVars, rdf>>
    \/ /\ part = "fixtures" /\ CNext
       /\ UNCHANGED <<part, vocabulary, ledger, svars, ovars, interchange, yaml, migrationVars, queryVars, rdf>>
    \/ /\ part = "migration" /\ MigrationNext
       /\ UNCHANGED <<part, vocabulary, ledger, svars, ovars, interchange, yaml, corpus, queryVars, rdf>>
    \/ /\ part = "query" /\ QueryNext
       /\ UNCHANGED <<part, vocabulary, ledger, svars, ovars, interchange, yaml, corpus, migrationVars, rdf>>
    \/ /\ part = "rdf" /\ R!Next
       /\ UNCHANGED <<part, vocabulary, ledger, svars, ovars, interchange, yaml, corpus, migrationVars, queryVars>>

HoldingsSpec == HoldingsInit /\ [][HoldingsNext]_<<part, vocabulary, ledger, svars, ovars, others>>

\* Every path is in the scope of every exporter.
Everywhere == [e \in Exporter |-> Path]
\* Two forms whose slugs collide among three that embed close together.
OneSlug == [f \in Form |-> IF f = 3 THEN "b" ELSE "a"]
OnePart == {Form}
\* What a source may publish of a target: one value, or many.
Sources == [x \in Target |-> {{"single", "bestTimed"}, {"multi", "singleSeparated"}}]
Interchangeable == Permutations(Document)

-----------------------------------------------------------------------------
\* What travels between stores keeps its stamp's promise (Interchange), and what is read item
\* by item is what is read whole (BoundedYaml); a deposited document is read without fetching
\* anything, and each of its triples is a candidate once (RdfDeposit).
ReadAsWritten ==
    /\ part = "interchange" => I!StampIsHonest /\ I!JudgeFollowsStamp
    /\ part = "yaml" => Y!StreamedIsWhole
    /\ part = "rdf" => R!NothingIsFetched /\ R!EmittedOnce
=====================================================================================
