------------------------------ MODULE Components ------------------------------
(* What one extraction exercised (extraction/components.py, the component      *)
(* tables of general.py and journal.py).  A source is read under the release   *)
(* and the settings of the day; every call records the named parts it used,    *)
(* each with a digest of the text that defines it.  Later the table of what an *)
(* extractor could exercise is held against the record, and a source whose     *)
(* record still matches is not read again.                                     *)
EXTENDS Naturals, Sequences

CONSTANTS
    Starts,    \* releases and settings to begin with
    Sources,   \* sources: kind, length, whether a prefix was read before, chars and images of a page
    MaxChanges \* bound: changes of the release and the settings

ASSUME ComponentAssumption ==
    /\ Starts \subseteq [{"rules", "reference", "parse", "validity", "delta", "size", "context",
                        "vision", "always", "low"} -> {0, 1}]
    /\ \A s \in Sources : s.length \in Nat /\ s.chars \in Nat /\ {s.prefix, s.image} \subseteq BOOLEAN

VARIABLES
    today,   \* the release and the settings in force, each 0 or 1
    changes,
    underway,   \* the extraction that is open, or none
    used,    \* per call of the source: the parts its claims come from
    record   \* the stored record, or none
componentVars == <<today, changes, underway, used, record>>

NoRecord == [missing |-> TRUE]
MixedText == <<2>>  \* the digest of no text
Release == {"rules", "reference", "parse"}
Setting == {"validity", "delta", "size", "context", "vision", "always", "low"}
On(f) == today[f] = 1
-----------------------------------------------------------------------------
\* The parts: a name and its digest.  component_digest: digests are equal iff the texts are,
\* and a text is told apart by what it is made of.

With(f, g) == [n \in DOMAIN f \cup DOMAIN g |-> IF n \in DOMAIN g THEN g[n] ELSE f[n]]
Only(f, names) == [n \in DOMAIN f \cap names |-> f[n]]
Plain(names) == [n \in names |-> <<IF n \in {"rules", "journal rules"} THEN today.rules ELSE 0>>]

\* Mutant: the routing digest leaves out whether appended text is read as a delta.
RoutingWithoutDelta == [routing |-> <<today.size, today.vision, today.always>>]
Routing == [routing |-> <<today.delta, today.size, today.vision, today.always>>]
Parse == [parse |-> <<today.parse, today.validity>>]
PathDigests ==
    [single |-> <<today.size>>, chunked |-> <<today.size>>, delta |-> <<today.context>>,
     pdf |-> <<>>, vision |-> <<today.always, today.low>>]

\* extract_prompt_components, for a call with or without text read before.
PromptComponents(context) ==
    Plain({"rules", "schema", IF On("validity") THEN "validity" ELSE "reference date"}
            \cup (IF On("reference") THEN {"reference"} ELSE {})
            \cup (IF context THEN {"append context"} ELSE {}))
JournalComponents ==
    With(Plain({"journal rules", "journal schema"}
                   \cup (IF On("reference") THEN {"reference"} ELSE {})),
         [journalParse |-> <<today.parse>>])

\* general_component_table, journal_component_table: what could be exercised, what always is.
GeneralTable ==
    LET base == With(PromptComponents(FALSE), With(Parse, Routing))
    IN [digests |-> With(With(PromptComponents(TRUE), base), PathDigests), always |-> DOMAIN base]
JournalTable ==
    LET base == With(JournalComponents, Routing)
    IN [digests |-> With(base, Only(PathDigests, {"single", "chunked"})), always |-> DOMAIN base]
Table(s) == IF s.kind = "journal" THEN JournalTable ELSE GeneralTable

\* GeneralExtractor.extract: the path of a source.
Path(s) ==
    CASE s.kind = "pdf" -> "pdf"
      [] s.kind = "text" /\ s.prefix /\ On("delta") -> "delta"
      [] OTHER -> IF s.length > 1 + today.size THEN "chunked" ELSE "single"
CallsOf(s, path) == IF path = "single" THEN 1 ELSE s.length

\* A page goes to the vision provider (_page_is_visual).
Sees(s) ==
    s.kind = "pdf" /\ On("vision") /\ (On("always") \/ s.chars < today.low \/ s.image)

\* How a source is read: decided before its first call.
Plan(s) ==
    [path |-> Path(s), sees |-> Sees(s), context |-> Path(s) = "delta" /\ On("context")]

\* The parts of one call (_build_llm_request).
Parts(s, plan) ==
    IF s.kind = "journal" THEN JournalComponents
    ELSE With(With(PromptComponents(plan.context), Parse),
              IF plan.sees THEN Only(PathDigests, {"vision"}) ELSE <<>>)
-----------------------------------------------------------------------------
\* ComponentTally.add: a name under two texts is mixed.
\* Mutant: the last text counts.
AddLast(exercised, parts) == With(exercised, parts)
Add(exercised, parts) ==
    [n \in DOMAIN exercised \cup DOMAIN parts |->
        IF n \notin DOMAIN parts THEN exercised[n]
        ELSE IF n \in DOMAIN exercised /\ exercised[n] # parts[n] THEN MixedText ELSE parts[n]]

\* ComponentRecord.merged: exercised names unite, available ones intersect.
Merged(r, other) ==
    [exercised |-> Add(r.exercised, other.exercised),
     available |-> r.available \cap other.available]

ComponentInit ==
    /\ today \in Starts /\ changes = 0 /\ underway = NoRecord /\ used = <<>> /\ record = NoRecord

\* A release between two extractions, or a setting at any time.
Change(f) ==
    /\ changes < MaxChanges
    /\ underway # NoRecord => f \in Setting
    /\ today' = [today EXCEPT ![f] = 1 - @]
    /\ changes' = changes + 1
    /\ UNCHANGED <<underway, used, record>>

\* An extraction begins: it declares its table and records the routing and its path.  The
\* chunks a stopped read made along the same path are carried forward.
Declare(s) ==
    LET path == Path(s)
        carried == /\ record # NoRecord /\ path \in {"chunked", "delta"}
                   /\ record.path = path /\ record.exercised[path] = PathDigests[path]
                   /\ Len(used) < CallsOf(s, path)
        table == Table(s)
    IN /\ underway = NoRecord
       /\ record # NoRecord => record.source = s
       /\ underway' = [source |-> s, plan |-> Plan(s), low |-> today.low,
                    carried |-> carried,
                    exercised |-> With(Routing, Only(PathDigests, {path})),
                    available |-> DOMAIN table.digests]
       /\ used' = IF carried THEN used ELSE <<>>
       /\ UNCHANGED <<today, changes, record>>

\* One call: the prompt is assembled and recorded in one place.
RecordCall ==
    LET parts == Parts(underway.source, underway.plan)
    IN /\ underway # NoRecord
       /\ Len(used) < CallsOf(underway.source, underway.plan.path)
       /\ underway' = [underway EXCEPT !.exercised = Add(@, parts)]
       /\ used' = Append(used, With(parts, Only(underway.exercised, {underway.plan.path})))
       /\ UNCHANGED <<today, changes, record>>

\* The extraction ends, perhaps early; carried claims bring the record they were made under.
\* What one of the two exercised and the other never knew is remembered for the property.
StoreRecord ==
    LET own == [exercised |-> underway.exercised,
                available |-> underway.available \cup DOMAIN underway.exercised]
        r == IF underway.carried THEN Merged(own, record) ELSE own
        Strangers(a, b) == DOMAIN a.exercised \ (b.available \cup DOMAIN b.exercised)
    IN /\ underway # NoRecord /\ used # <<>>
       /\ record' = [source |-> underway.source, path |-> underway.plan.path, low |-> underway.low,
                     exercised |-> r.exercised, available |-> r.available,
                     strange |-> underway.carried /\ (record.strange \/
                                  Strangers(own, record) \cup Strangers(record, own) # {})]
       /\ underway' = NoRecord
       /\ UNCHANGED <<today, changes, used>>

ComponentNext ==
    \/ \E f \in Release \cup Setting : Change(f)
    \/ \E s \in Sources : Declare(s)
    \/ RecordCall \/ StoreRecord
ComponentSpec == ComponentInit /\ [][ComponentNext]_componentVars
-----------------------------------------------------------------------------
\* A source is read again when its record no longer matches the table: a part changed or went,
\* one appeared that the reading did not know, or one every reading has was not exercised.
Selected ==
    LET table == Table(record.source)
        e == record.exercised
    IN \/ \E n \in DOMAIN e : n \notin DOMAIN table.digests \/ table.digests[n] # e[n]
       \/ ~(DOMAIN table.digests \subseteq record.available \cup DOMAIN e)
       \/ ~(table.always \subseteq DOMAIN e)

\* A source that is passed over would be read today exactly as its claims were made: along the
\* same path, with the same parts in every call (the selection the record is kept for).  Two
\* cases are left out, and the code passes over both: claims carried across a release that
\* added a rule, and a page the threshold alone would now send to the vision provider.
PassedOverReadsAlike ==
    underway = NoRecord /\ record # NoRecord /\ ~Selected /\ ~record.strange /\ record.low = today.low =>
        LET s == record.source
        IN \A i \in DOMAIN used :
             used[i] = With(Parts(s, Plan(s)), Only(PathDigests, {Path(s)}))
=============================================================================
