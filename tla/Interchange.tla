----------------------------- MODULE Interchange -----------------------------
(* A claim that travels between stores run by SDKs of different schema       *)
(* versions (interchange/codec.py, jsonl.py, yaml_ld.py, schema_version.py). *)
(* A store exports its record as a unit, another imports it; an SDK is       *)
(* upgraded or rolled back over a store that keeps its rows.  A key of a     *)
(* unit is a member of Key, and the value it carries is abstracted away but  *)
(* for the properties whose spelling changed.                                *)
EXTENDS Integers, Sequences, FiniteSets, SequencesExt

CONSTANTS
    Site,         \* stores, each with the SDK that runs it
    Key,          \* keys a unit or an object inside it may carry
    Since,        \* [Key -> the minor version that added the key]
    Place,        \* [Key -> "unit", "contributor" or "object": where it stands]
    Version,      \* versions an SDK may be at: records [major, minor]
    MaxUnits,     \* units a bundle may hold
    MaxSteps      \* bound: exports, imports and changes of SDK

VARIABLES
    sdk,      \* [Site -> Version]
    row,      \* [Site -> a record or NoRow]
    wire,     \* the bundle that was exported last, a sequence of units
    report,   \* what the last import said
    steps
traffic == <<sdk, row, wire, report, steps>>

NoRow == [keys |-> {}, stamp |-> <<>>, props |-> {}, made |-> {}, bare |-> FALSE]
Malformed == [major |-> 0, minor |-> 0]
Known(v) == {k \in Key : Since[k] <= v.minor}
At(p) == {k \in Key : Place[k] = p}

Compatibility(stamp, current) ==
    IF stamp = Malformed THEN "MALFORMED"
    ELSE IF stamp.major < current.major THEN "OLDER_MAJOR"
    ELSE IF stamp.major > current.major THEN "NEWER_MAJOR"
    ELSE IF stamp.minor < current.minor THEN "OLDER_MINOR"
    ELSE IF stamp.minor > current.minor THEN "NEWER_MINOR" ELSE "EQUAL"
Compatible(stamp, current) == Compatibility(stamp, current) \in {"EQUAL", "OLDER_MINOR", "NEWER_MINOR"}

\* Mutant: the record keeps the stamp it came with.
LowerNot(stamp, current) == stamp

Lower(stamp, current) == IF Compatibility(stamp, current) = "NEWER_MINOR" THEN current ELSE stamp

\* A unit without a stamp is read as the SDK's own.
Stamp(u, current) == IF u.stamp = <<>> THEN current ELSE u.stamp[1]

\* An SDK knows the columns of its own version: of a row a newer one wrote it
\* reads the keys it has, so a unit never holds more.
ToUnit(r, current) == [r EXCEPT !.keys = @ \cap Known(current), !.stamp = <<Lower(@[1], current)>>]

\* An older bundle may spell a property the old way: the current spelling wins
\* when both are there, and the old one is renamed otherwise.
Normalized(props) ==
    IF \E p \in props : p.key = "current" THEN {p \in props : p.key = "current"}
    ELSE {[p EXCEPT !.key = "current"] : p \in props}

\* An unknown key of a contributor is refused but in a unit of a newer minor.
ContributorRefused(u, current) ==
    /\ Compatibility(Stamp(u, current), current) # "NEWER_MINOR"
    /\ (u.keys \cap At("contributor")) \ Known(current) # {}
Refused(u, current) == ~Compatible(Stamp(u, current), current) \/ ContributorRefused(u, current)

\* What the import reports: keys of the unit and of its contributors, never
\* those of its other objects.
DroppedKeys(u, current) == (u.keys \ Known(current)) \ At("object")
FromUnit(u, current) ==
    [u EXCEPT !.keys = @ \cap Known(current), !.stamp = <<Lower(Stamp(u, current), current)>>,
              !.props = Normalized(@), !.bare = @ \/ u.stamp = <<>>]

\* The whole member is read before any unit is stored: one unit too many, or
\* one that cannot be read, refuses all of it.
TooMany(bundle) == Len(bundle) > MaxUnits
Refusal(bundle, current) == TooMany(bundle) \/ \E i \in DOMAIN bundle : Refused(bundle[i], current)

\* The judge of a unit, which the schema declares closed at every level: the
\* keys of a newer minor are taken out before it is checked, and one of another
\* major is not judged at all.
Undeclared(u, current) == u.keys \ Known(current)
Checked(u, current) ==
    IF u.stamp # <<>> /\ Compatibility(u.stamp[1], current) = "NEWER_MINOR"
    THEN [u EXCEPT !.keys = @ \ Undeclared(u, current)] ELSE u
SchemaErrors(u, current) == Undeclared(u, current) \cup (IF u.stamp = <<>> THEN {"schemaVersion"} ELSE {})
Passes(u, current) ==
    /\ u.stamp # <<>> => Compatible(u.stamp[1], current)
    /\ SchemaErrors(Checked(u, current), current) = {}
-----------------------------------------------------------------------------
IInit ==
    /\ sdk \in [Site -> Version]
    /\ row = [s \in Site |-> NoRow]
    /\ wire = <<>> /\ report = {} /\ steps = 0

Step == steps < MaxSteps /\ steps' = steps + 1
Spelled == {{}} \cup {{[key |-> "legacy", value |-> "DECLINED"]} \cup other :
                        other \in {{}, {[key |-> "current", value |-> "ASSERTED"]}}}

\* The claim that is followed is extracted: it carries some of the keys its SDK
\* knows.
Make(s) ==
    /\ Step /\ \A t \in Site : row[t] = NoRow
    /\ \E ks \in SUBSET Known(sdk[s]), ps \in Spelled :
         row' = [row EXCEPT ![s] = [keys |-> ks, stamp |-> <<sdk[s]>>, props |-> ps,
                                    made |-> ks, bare |-> FALSE]]
    /\ UNCHANGED <<sdk, wire, report>>

Export(s) ==
    /\ Step /\ row[s] # NoRow
    /\ \E n \in 1..(MaxUnits + 1) : wire' = [i \in 1..n |-> ToUnit(row[s], sdk[s])]
    /\ UNCHANGED <<sdk, row, report>>

\* A bundle that was edited may carry no stamp, or one nobody can read.
Edited ==
    /\ Step /\ wire # <<>>
    /\ \E stamp \in {<<>>, <<Malformed>>} :
         wire' = [i \in DOMAIN wire |-> [wire[i] EXCEPT !.stamp = stamp]]
    /\ UNCHANGED <<sdk, row, report>>

Import(s) ==
    /\ Step /\ wire # <<>>
    /\ IF Refusal(wire, sdk[s])
       THEN UNCHANGED <<row, report>>
       ELSE /\ report' = DroppedKeys(wire[1], sdk[s])
            /\ row' = [row EXCEPT ![s] = FromUnit(wire[1], sdk[s])]
    /\ UNCHANGED <<sdk, wire>>

\* The operator runs another SDK over the same store, which is not opened when
\* its rows are of another major.
Move(s) ==
    /\ Step
    /\ \E v \in Version \ {sdk[s]} :
         /\ row[s] # NoRow => Compatible(row[s].stamp[1], v)
         /\ sdk' = [sdk EXCEPT ![s] = v]
    /\ UNCHANGED <<row, wire, report>>

INext == Edited \/ \E s \in Site : Make(s) \/ Export(s) \/ Import(s) \/ Move(s)
-----------------------------------------------------------------------------
\* A record's stamp never promises a key the record lost on the way: whatever
\* its first SDK had stored and the stamped version knows is still there, through
\* however many stores of other versions it went (to_unit and from_unit).  A unit
\* that had lost its stamp is the exception: it is read as the reader's own.
StampIsHonest ==
    \A r \in {row[s] : s \in Site} \cup {wire[i] : i \in DOMAIN wire} :
        r.stamp # <<>> /\ ~r.bare => \A k \in r.made \ r.keys : Since[k] > r.stamp[1].minor

\* The judge follows the stamp: what a store exported passes the judge of every
\* SDK its stamp is compatible with, an older one too, and what a judge passes
\* its SDK can import (judge_interchange_unit, to_unit and from_unit).
JudgeFollowsStamp ==
    \A i \in DOMAIN wire, t \in Site :
        /\ Passes(wire[i], sdk[t]) => ~Refused(wire[i], sdk[t])
        /\ wire[i].stamp # <<>> => (Passes(wire[i], sdk[t]) <=> Compatible(wire[i].stamp[1], sdk[t]))
=============================================================================
