-------------------------------- MODULE Migration --------------------------------
(* An export of the reference memory server becomes candidates                    *)
(* (extraction/mcp_memory.py), and a dry run says beforehand what it will become  *)
(* (extraction/migration_preview.py).  An export is read line by line; every      *)
(* value that is left behind is to be noted, one by one or counted.               *)
EXTENDS Naturals, Sequences, FiniteSets, SequencesExt

CONSTANTS
    Line,     \* the lines an export may hold
    MaxLines, \* bound: lines of an export
    NoteCap,  \* _MAX_LINE_NOTES
    Cap       \* migration.max_candidates

\* An observation is a string or it is not.
ASSUME MigrationAssumption ==
    /\ MaxLines \in Nat /\ NoteCap \in Nat /\ Cap \in Nat \ {0}
    /\ \A line \in Line : line.kind = "entity" => line.observations \in Seq(BOOLEAN)

VARIABLES
    read,   \* the lines read
    graph,  \* ParsedGraph, and how many notes the cap kept out
    result, \* what map_graph returned: candidates and notes, or none yet
    preview \* what the dry run says, or none yet
migrationVars == <<read, graph, result, preview>>

None == [missing |-> TRUE]
\* Names are compared without their case; a name is a key and a spelling.
KeyOf(name) == name.key

First(s, n) == SubSeq(s, 1, IF Len(s) < n THEN Len(s) ELSE n)

\* What is said of one line: it is skipped, or a part of it is left out.
IsRecord(line) == line.kind \in {"entity", "relation"}
Remarks(line) ==
    CASE line.kind = "unreadable" -> <<"skipped">>
      [] line.kind = "entity" ->
            (IF FALSE \in Range(line.observations) THEN <<"trimmed">> ELSE <<>>) \o
            (IF line.type = "odd" THEN <<"type ignored">> ELSE <<>>)
      [] OTHER -> <<>>

\* Mutant: past the cap nothing is counted.
JottedQuietly(g, texts) == [g EXCEPT !.notes = First(@ \o texts, NoteCap)]
Jotted(g, texts) ==
    LET all == g.notes \o texts
    IN [g EXCEPT !.notes = First(all, NoteCap),
                 !.suppressed = @ + Len(all) - Len(First(all, NoteCap))]

\* What the parser keeps of a record.
Entity(line) ==
    [name |-> line.name, type |-> IF line.type = "odd" THEN "" ELSE line.type,
     observations |-> Cardinality({i \in DOMAIN line.observations : line.observations[i]})]
Kept(g, line) ==
    [g EXCEPT !.entities = IF line.kind = "entity" THEN Append(@, Entity(line)) ELSE @,
              !.relations = IF line.kind = "relation" THEN Append(@, line) ELSE @,
              !.unmapped = IF IsRecord(line) /\ line.extra THEN @ + 1 ELSE @]
-----------------------------------------------------------------------------
\* empty_entity_report: entities without observations that no relation names.
\* Mutant: names are compared as they are spelled.
EndpointsSpelled(g, name) == name \in UNION {{r.from, r.to} : r \in Range(g.relations)}
IsEndpoint(g, name) ==
    KeyOf(name) \in UNION {{KeyOf(r.from), KeyOf(r.to)} : r \in Range(g.relations)}
Dropped(g) == {e.name : e \in {f \in Range(g.entities) :
                                  f.observations = 0 /\ ~IsEndpoint(g, f.name)}}

\* The type of an endpoint is that of the last typed entity of its name.
TypeOf(g, name) ==
    LET typed == {i \in 1..Len(g.entities) :
                    g.entities[i].type # "" /\ KeyOf(g.entities[i].name) = KeyOf(name)}
    IN IF typed = {} THEN "" ELSE g.entities[CHOOSE i \in typed : \A j \in typed : j <= i].type

Observations(e) ==
    [i \in 1..e.observations |-> [subjects |-> {e.name}, types |-> [n \in {e.name} |-> e.type]]]
Edge(g, r) ==
    [subjects |-> {r.from, r.to}, types |-> [n \in {r.from, r.to} |-> TypeOf(g, n)]]
AllCandidates(g) ==
    FlattenSeq([i \in 1..Len(g.entities) |-> Observations(g.entities[i])]) \o
    [i \in 1..Len(g.relations) |-> Edge(g, g.relations[i])]

\* map_graph: the first candidates up to the cap, and a note on whatever is left behind.
Mapped(g) ==
    LET all == AllCandidates(g)
        lineNotes == [lines |-> g.notes, more |-> g.suppressed]
    IN IF g.entities = <<>> /\ g.relations = <<>>
       THEN [candidates |-> <<>>, lineNotes |-> lineNotes, dropped |-> {}, cut |-> 0,
             unplaced |-> 0, nothing |-> g.notes = <<>>]
       ELSE [candidates |-> First(all, Cap), lineNotes |-> lineNotes, dropped |-> Dropped(g),
             cut |-> Len(all) - Len(First(all, Cap)),
             unplaced |-> g.unmapped, nothing |-> FALSE]
Refusal == [Mapped([entities |-> <<>>, relations |-> <<>>, notes |-> <<"refused">>,
                    suppressed |-> 0, unmapped |-> 0]) EXCEPT !.nothing = FALSE]

Subjects(candidates) == UNION {c.subjects : c \in Range(candidates)}
Arrives(candidates, name) == \E n \in Subjects(candidates) : KeyOf(n) = KeyOf(name)

\* build_preview
\* Mutant: a name in another spelling counts as lost.
LostAsSpelled(r, g) == {e.name : e \in Range(g.entities)} \ Subjects(r.candidates)
Lost(r, g) == {n \in {e.name : e \in Range(g.entities)} : ~Arrives(r.candidates, n)}
-----------------------------------------------------------------------------
MigrationInit ==
    /\ read = <<>> /\ result = None /\ preview = None
    /\ graph = [entities |-> <<>>, relations |-> <<>>, notes |-> <<>>, suppressed |-> 0,
                unmapped |-> 0]

ReadLine(line) ==
    /\ result = None /\ preview = None /\ Len(read) < MaxLines
    /\ read' = Append(read, line)
    /\ graph' = Jotted(Kept(graph, line), Remarks(line))
    /\ UNCHANGED <<result, preview>>

\* The dry run and the import run the same mapping.
DryRun ==
    /\ result = None /\ preview = None
    /\ preview' = [particles |-> Len(Mapped(graph).candidates), lost |-> Lost(Mapped(graph), graph),
                   said |-> Mapped(graph)]
    /\ UNCHANGED <<read, graph, result>>
Import == result = None /\ result' = Mapped(graph) /\ UNCHANGED <<read, graph, preview>>
\* Too large, or not text: nothing of it is read.
Refuse ==
    /\ read = <<>> /\ result = None /\ preview = None
    /\ result' = Refusal
    /\ UNCHANGED <<read, graph, preview>>

MigrationNext == (\E line \in Line : ReadLine(line)) \/ DryRun \/ Import \/ Refuse

MigrationSpec == MigrationInit /\ [][MigrationNext]_migrationVars
-----------------------------------------------------------------------------
\* Whatever an import leaves behind is said: every skipped line or trimmed value is noted or
\* counted, every record past the cap is counted, and an import of nothing says why.
NothingLeftUnsaid ==
    result # None =>
        /\ Len(result.lineNotes.lines) + result.lineNotes.more >=
              Cardinality({i \in 1..Len(read) : Remarks(read[i]) # <<>>})
        /\ result.candidates = <<>> => result.nothing \/ result.lineNotes.lines # <<>> \/ result.dropped # {}
        /\ Len(result.candidates) + result.cut = Len(AllCandidates(graph))

\* An entity that does not arrive was named as dropped, or records were cut; and one that was
\* named as dropped does not arrive, unless another record of its name has observations.
FateIsDisclosed ==
    result # None =>
        \A i \in 1..Len(graph.entities) :
            LET e == graph.entities[i]
            IN /\ ~Arrives(result.candidates, e.name) => e.name \in result.dropped \/ result.cut > 0
               /\ e.name \in result.dropped /\ Arrives(result.candidates, e.name) =>
                    \E j \in 1..Len(graph.entities) \ {i} :
                        KeyOf(graph.entities[j].name) = KeyOf(e.name)

\* Where nothing was cut and no name is declared twice, the dry run names as lost just the
\* entities the import drops (the docstring of preview_memory_export says so of every export).
PreviewIsTheImport ==
    preview # None /\ result # None =>
        /\ preview.particles = Len(result.candidates)
        /\ result.cut = 0 /\ (\A i, j \in 1..Len(graph.entities) :
                KeyOf(graph.entities[i].name) = KeyOf(graph.entities[j].name) => i = j) =>
             preview.lost = result.dropped

\* A typed entity arrives with its type wherever a candidate names it, if its name has one type.
TypeArrives ==
    result # None =>
        \A e \in Range(graph.entities) : \A c \in Range(result.candidates) : \A n \in c.subjects :
            /\ e.type # "" /\ KeyOf(n) = KeyOf(e.name)
            /\ \A f \in Range(graph.entities) : KeyOf(f.name) = KeyOf(e.name) => f.type = e.type
            => c.types[n] = e.type

\* A memory export says of all it leaves behind that it does, and its dry run says the same
\* as the import.
MigrationIsDisclosed ==
    NothingLeftUnsaid /\ FateIsDisclosed /\ PreviewIsTheImport /\ TypeArrives
=============================================================================
