---------------------------------- MODULE Census ----------------------------------
(***************************************************************************)
(* The nightly contradiction disclosure                                    *)
(* (src/particles/core/contradiction_disclosure.py): pairs of claims a     *)
(* second reading confirmed as contradictory are grouped by shared claim,  *)
(* split into two sides and disclosed as open records; a night's sweep     *)
(* lapses, regroups or keeps each open record; a judged record covers its  *)
(* pairs until one of their claims gains a source.                         *)
(*                                                                         *)
(* The module decides on plain values.  The pass that gathers them and     *)
(* writes the records (not in the repository) is one action, Night, built  *)
(* as the docstrings say: the sweep first, then what it left to regroup    *)
(* together with tonight's confirmed pairs, less what other records cover; *)
(* a kept record that shares a claim with those grows into the group.  A   *)
(* group that holds a pair of a record it replaces does not count against  *)
(* the cap.                                                                *)
(***************************************************************************)
EXTENDS Naturals, FiniteSets, FiniteSetsExt, Functions

CONSTANTS
    Claim,      \* the claims
    Entry,      \* the corpus entries that may state a claim
    Cap,        \* new disclosures per night
    MaxNights,  \* bound: nights
    MaxMoves,   \* bound: changes to the claims, reviews and revised instructions
    MaxFresh,   \* bound: pairs confirmed in one night
    MaxMerged   \* bound: claims merged in one night

VARIABLES
    active,     \* the claims with status ACTIVE
    stated,     \* per claim, the current sources that state it
    reading,    \* the instruction a second reading runs under
    records,    \* the records open or closed by a judgment
    disclosed,  \* history: pairs disclosed and not judged, rejected, left or absorbed since
    judged,     \* history: per pair judged, the sources its claims had
    morning,    \* has nothing happened since the last night
    nights, moves

vars == <<active, stated, reading, records, disclosed, judged, morning, nights, moves>>

Pairs == kSubset(2, Claim)
Live(c) == c \in active /\ stated[c] # {}

\* What the sweep finds for a member; survivors maps the claims merged tonight.
MemberState(c, survivors) ==
    IF c \in DOMAIN survivors THEN "merged"
    ELSE IF c \notin active THEN "gone"
    ELSE IF stated[c] = {} THEN "lapsed" ELSE "live"

-----------------------------------------------------------------------------
\* Grouping and sides.

\* group_pairs: the pairs that are connected to p through shared claims, those in every set
\* of claims that holds p and cuts no pair.
Linked(p, pairs) ==
    LET islands == {S \in SUBSET UNION pairs : \A q \in pairs : q \subseteq S \/ q \cap S = {}}
    IN  {q \in pairs : \A S \in islands : p \subseteq S => q \subseteq S}

Groups(pairs) == {Linked(p, pairs) : p \in pairs}

\* split_sides: the two colours of a connected group; none when it has an odd cycle.
Splits(group) ==
    {s \in {{a, (UNION group) \ a} : a \in SUBSET UNION group} :
        \A p \in group : \A side \in s : Cardinality(p \cap side) = 1}

\* plan_group: one record for a group with two sides, else one for each pair.
Planned(group) ==
    IF Splits(group) # {}
    THEN {[sides |-> CHOOSE s \in Splits(group) : TRUE, pairs |-> group]}
    ELSE {[sides |-> {{c} : c \in p}, pairs |-> {p}] : p \in group}

Members(r) == UNION r.sides
Crossing(r) == {p \in Pairs : \A side \in r.sides : Cardinality(p \cap side) = 1}

\* build_census_record: the sources are the fingerprint, the reading is per pair.
Minted(plan) ==
    [sides |-> plan.sides, pairs |-> plan.pairs, open |-> TRUE,
     read |-> [p \in plan.pairs |-> reading],
     sources |-> [c \in UNION plan.sides |-> stated[c]]]

-----------------------------------------------------------------------------
\* covered_pairs.

StillJudged(p, r) == \A c \in p : stated[c] \subseteq r.sources[c]

\* Mutant: a closed record covers nothing, however it was closed.
CoveredByOpen(rs) == {p \in Pairs : \E r \in rs : r.open /\ p \in Crossing(r)}

Covered(rs) ==
    {p \in Pairs : \E r \in rs : p \in Crossing(r) /\ (r.open \/ StillJudged(p, r))}

-----------------------------------------------------------------------------
\* decide_lapse.

\* A merged claim counts as its survivor; a claim that left counts as nobody.
Mapped(p, survivors) ==
    LET there == {c \in p : MemberState(c, survivors) \in {"live", "merged"}}
    IN  IF there # p THEN {}
        ELSE {IF MemberState(c, survivors) = "merged" THEN survivors[c] ELSE c : c \in p}

Reread(r) == {p \in r.pairs : r.read[p] # reading}
Withdrawn(r, rejected) == Reread(r) \cap rejected

Remaining(r, survivors, rejected) ==
    {Mapped(p, survivors) : p \in r.pairs \ Withdrawn(r, rejected)} \cap Pairs

Lapse(r, survivors, rejected) ==
    LET left == Remaining(r, survivors, rejected)
        orphaned == \E c \in Members(r) : MemberState(c, survivors) = "live" /\ c \notin UNION left
        swapped == \E c \in Members(r) : MemberState(c, survivors) \in {"lapsed", "merged"}
    IN  IF left = {} THEN "close"
        ELSE IF orphaned \/ swapped \/ Reread(r) # {} THEN "regroup"
        ELSE "keep"

-----------------------------------------------------------------------------
\* select_under_cap: a group that regroups is always opened, new ones up to the cap.

\* Mutant: every group counts against the cap.
OpenedCountingAll(groups, old) ==
    {S \in SUBSET groups : Cardinality(S) = Min({Cap, Cardinality(groups)})}

Opened(groups, old) ==
    LET new == {g \in groups : g \cap old = {}}
    IN  {(groups \ new) \cup S : S \in {T \in SUBSET new :
            Cardinality(T) = Min({Cap, Cardinality(new)})}}

Open == {r \in records : r.open}

\* One night: the sweep over every open record, then the groups it may open.  A disagreement
\* a merge moves across the sides of a kept record that has not confirmed it is absorbed: it
\* is covered, so nobody opens it, and it is not among the pairs the record would regroup.
Night(survivors, fresh, rejected) ==
    LET kept == {r \in Open : Lapse(r, survivors, rejected) = "keep"}
        regrouped == {r \in Open : Lapse(r, survivors, rejected) = "regroup"}
        left == UNION {Remaining(r, survivors, rejected) : r \in regrouped}
        shut == records \ Open
        pool == (left \cup fresh) \ Covered(kept \cup shut)
        around == UNION {Linked(p, pool \cup UNION {r.pairs : r \in kept}) : p \in pool}
        grown == {r \in kept : r.pairs \cap around # {}}
        old == left \cup UNION {r.pairs : r \in grown}
        moved == {Mapped(p, survivors) : p \in disclosed \ rejected} \cap Pairs
        absorbed == Covered(kept) \ UNION {r.pairs : r \in kept}
        groups == Groups(pool \cup UNION {Remaining(r, survivors, rejected) : r \in grown})
    IN  /\ nights < MaxNights
        /\ \A p \in fresh : \A c \in p : MemberState(c, survivors) = "live"
        /\ fresh \cap (Covered(records) \cup rejected) = {}
        /\ rejected \subseteq UNION {Reread(r) : r \in Open}
        /\ \A c \in DOMAIN survivors : Live(c) /\ MemberState(survivors[c], survivors) = "live"
        /\ \E chosen \in Opened(groups, old) :
              LET minted == {Minted(q) : q \in UNION {Planned(g) : g \in chosen}}
              IN  /\ records' = shut \cup (kept \ grown) \cup minted
                  /\ disclosed' = (moved \ (Covered(shut) \cup absorbed)) \cup UNION {r.pairs : r \in minted}
        /\ active' = active \ DOMAIN survivors
        /\ morning' = TRUE /\ nights' = nights + 1
        /\ UNCHANGED <<stated, reading, judged, moves>>

Move == moves < MaxMoves /\ moves' = moves + 1 /\ morning' = FALSE /\ UNCHANGED nights

\* Between nights.  A reviewer or the trust cascade closes a record.
Judge(r) ==
    /\ Move /\ r \in Open
    /\ records' = (records \ {r}) \cup {[r EXCEPT !.open = FALSE]}
    /\ disclosed' = disclosed \ Crossing(r)
    /\ judged' = [p \in DOMAIN judged \cup Crossing(r) |->
                    IF p \in Crossing(r) THEN [c \in p |-> r.sources[c]] ELSE judged[p]]
    /\ UNCHANGED <<active, stated, reading>>

\* A claim leaves ACTIVE, or its sources change.
Leave(c) ==
    /\ Move /\ c \in active /\ active' = active \ {c}
    /\ UNCHANGED <<stated, reading, records, disclosed, judged>>

Restate(c, entries) ==
    /\ Move /\ c \in active /\ entries # stated[c]
    /\ stated' = [stated EXCEPT ![c] = entries]
    /\ UNCHANGED <<active, reading, records, disclosed, judged>>

\* The second reading's instruction is revised.
Revise ==
    /\ Move /\ reading' = reading + 1
    /\ UNCHANGED <<active, stated, records, disclosed, judged>>

Init ==
    /\ active = Claim /\ stated \in {[c \in Claim |-> {e}] : e \in Entry} /\ reading = 1
    /\ records = {} /\ disclosed = {} /\ judged = <<>> /\ morning = FALSE
    /\ nights = 0 /\ moves = 0

\* What the auto-merge may fold into what.
Merges == UNION {[D -> Claim] : D \in {E \in SUBSET active : Cardinality(E) <= MaxMerged}}

Next ==
    \/ \E survivors \in Merges, rejected \in SUBSET UNION {Reread(r) : r \in Open} :
        \E n \in 0..MaxFresh : \E fresh \in kSubset(n, Pairs) : Night(survivors, fresh, rejected)
    \/ \E r \in records : Judge(r)
    \/ \E c \in Claim : Leave(c) \/ \E entries \in SUBSET Entry : Restate(c, entries)
    \/ Revise

Spec == Init /\ [][Next]_vars

-----------------------------------------------------------------------------
\* The records say what is so.  Once disclosed, a disagreement stays disclosed: while its
\* two claims are live it is across an open record until it is judged, a revised reading
\* rejects it or a merge absorbs it into another's, whatever lapsed, was merged, grew or
\* waited under the cap around it.  And after a night no flag stays
\* on a belief without a disagreement behind it: in an open record no ACTIVE member lacks a
\* source or a live partner it was read against, the confirmed pairs cross the sides, and no
\* pair awaits a second reading it had.
DisclosedWhileReal ==
    /\ \A p \in disclosed : (\A c \in p : Live(c)) =>
          \E r \in Open : p \in Crossing(r)
    /\ morning => \A r \in Open :
          /\ r.pairs \subseteq Crossing(r)
          /\ \A c \in Members(r) \cap active :
                Live(c) /\ \E p \in r.pairs : c \in p /\ \A d \in p : Live(d)
          /\ \A p \in r.pairs : r.read[p] = reading

Raised == UNION {r.pairs : r \in Open}

\* What a judgment settled is not raised again: no step brings a pair back into an open
\* record unless one of its claims is stated by a source the judgment did not weigh.
JudgedStaysShut ==
    [][\A p \in (Raised' \ Raised) \cap DOMAIN judged :
            \E c \in p : ~(stated[c] \subseteq judged[p][c])]_vars
===================================================================================
