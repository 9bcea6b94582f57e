------------------------------ MODULE ConflictRecord ------------------------------
(***************************************************************************)
(* Claims, their statuses, and the INCONSISTENCY records that name two     *)
(* sides of a disagreement: the status machine                             *)
(* (src/particles/core/status.py), the review and trust-cascade decisions  *)
(* that close a record (core/conflict_review.py) and the release of a      *)
(* claim held behind one that was retired since (core/held_release.py).    *)
(*                                                                         *)
(* The decisions are pure in the code; the store that applies them is not  *)
(* in the repository, so how a plan changes rows (a promoted claim is      *)
(* stored anew, the held row behind it superseded) is modelled from what   *)
(* the decisions' callers and tests are told.  One operation is one step.  *)
(* Uncertainty nature, trust statements and REVIEW particles are left out. *)
(***************************************************************************)
EXTENDS Naturals, FiniteSets, Sequences, SequencesExt

CONSTANTS
    Claim,      \* particle ids
    Record,     \* INCONSISTENCY record ids
    NoClaim,    \* what a dangling ref names
    MaxMembers  \* bound: claims a census record names

ASSUME RecordAssumption == NoClaim \notin Claim /\ MaxMembers \in Nat

VARIABLES
    claim,     \* each claim's Status and StatusReason, "none" before creation
    record,    \* each record's status, sides and origin
    verdict    \* history: the side a record was decided for, if for one

vars == <<claim, record, verdict>>

State(status, reason) == [status |-> status, reason |-> reason]

\* Status and the reasons the decisions tell apart.
Unborn == State("none", "none")
Active == State("ACTIVE", "none")
Held == State("PROVENANCE_STALE", "CONFLICT_PENDING")
Overruled == State("PROVENANCE_STALE", "CONFLICT_RESOLVED")
Discarded == State("RETRACTED", "CONFLICT_RESOLVED")
Promoted == State("SUPERSEDED", "CONFLICT_RESOLVED")
Merged == State("SUPERSEDED", "DUPLICATE_MERGED")
Retracted == State("RETRACTED", "EXPLICIT_RETRACTION")
Updated == State("PROVENANCE_STALE", "SUPERSEDED_BY_UPDATE")
Reindexed == State("SUPERSEDED", "SUPERSEDED_BY_REINDEX")

ClaimState == {Unborn, Active, Held, Overruled, Discarded, Promoted, Merged,
               Retracted, Updated, Reindexed}

Terminal == {"RETRACTED", "SUPERSEDED"}

\* _ALLOWED, with the two rows the store admits for one reason only.
Allowed(from, to) ==
    \/ <<from.status, to.status>> \in
          {<<"none", "ACTIVE">>, <<"none", "INCONSISTENCY">>,
           <<"ACTIVE", "SUPERSEDED">>, <<"ACTIVE", "RETRACTED">>,
           <<"ACTIVE", "PROVENANCE_STALE">>,
           <<"INCONSISTENCY", "RETRACTED">>, <<"INCONSISTENCY", "INCONSISTENCY">>,
           <<"PROVENANCE_STALE", "SUPERSEDED">>, <<"PROVENANCE_STALE", "RETRACTED">>}
    \/ from.status = "none" /\ to = Held
    \/ from = Merged /\ to.status = "ACTIVE"

\* The retirements an autonomous pass writes (AUTONOMOUS_RETIREMENTS).
Autonomous == {"SUPERSEDED_BY_UPDATE", "SUPERSEDED_BY_REANCHOR", "DOCUMENT_SUPERSEDED"}

Ref == Claim \cup {NoClaim}
Standing == {c \in Claim : claim[c] = Active}
NewClaims == {c \in Claim : claim[c] = Unborn}

A(r) == record[r].a[1]
B(r) == record[r].b[1]
SideA(r) == ToSet(record[r].a) \ {NoClaim}
SideB(r) == ToSet(record[r].b) \ {NoClaim}
Members(r) == SideA(r) \cup SideB(r)
MemberCount(r) == Len(record[r].a) + Len(record[r].b)
Open(r) == record[r].status = "INCONSISTENCY"
RetiredValue(r) == record[r].origin = "retired"
SideOf(r, c) == IF c \in SideA(r) THEN "A" ELSE "B"

-----------------------------------------------------------------------------
\* conflict_review's decisions

IsQuarantined(c) == c # NoClaim /\ claim[c] = Held

\* Mutant: any claim that is not terminal can be kept.
KeepableIfStanding(c) == claim[c].status \notin Terminal

CanBeKept(c) == claim[c].status = "ACTIVE" \/ IsQuarantined(c)

\* Mutant: a terminal claim is demoted like a live one.
DemotionOfAny(c) ==
    IF claim[c].status # "PROVENANCE_STALE" THEN "TRANSITION"
    ELSE IF IsQuarantined(c) THEN "REASON_FLIP" ELSE "NONE"

\* Mutant: a stale claim counts as demoted, whatever its reason.
DemotionOfLive(c) ==
    IF claim[c].status \in Terminal \cup {"PROVENANCE_STALE"} THEN "NONE" ELSE "TRANSITION"

DecideDemotion(c) ==
    CASE claim[c].status \in Terminal -> "NONE"
      [] IsQuarantined(c) -> "REASON_FLIP"
      [] claim[c].status = "PROVENANCE_STALE" /\ ~IsQuarantined(c) -> "NONE"
      [] OTHER -> "TRANSITION"

\* decide_retirement: what DISCARD retracts.
Retires(c) == claim[c].status \in {"ACTIVE", "PROVENANCE_STALE"}

\* refusal_reason, which only the two PREFER actions can meet.
RefusesA(r) == ~RetiredValue(r) /\ (A(r) = NoClaim \/ ~CanBeKept(A(r)))
RefusesB(r) == B(r) # NoClaim /\ ~CanBeKept(B(r))

-----------------------------------------------------------------------------
\* The store applies a plan

\* New ids for the claims that are promoted.
Mints(promoted) == {f \in [promoted -> NewClaims] : \A p, q \in promoted : f[p] = f[q] => p = q}

\* CLOSED_RECORD: RETRACTED, for CONFLICT_RESOLVED.
Close(r) == record' = [record EXCEPT ![r].status = "RETRACTED"]

\* A plan's writes on the claims: the losers are demoted, the held claims that
\* win are stored anew as ACTIVE, the retired ones retracted.  Then the record
\* closes.
Resolve(r, side, demoted, promoted, retired) ==
    /\ \E new \in Mints(promoted) :
          claim' = [c \in Claim |->
              IF c \in promoted THEN Promoted
              ELSE IF c \in Range(new) THEN Active
              ELSE IF c \in retired THEN Discarded
              ELSE IF c \in demoted /\ DecideDemotion(c) # "NONE" THEN Overruled
              ELSE claim[c]]
    /\ Close(r)
    /\ verdict' = [verdict EXCEPT ![r] = side]

Quarantined(S) == {c \in S : IsQuarantined(c)}
-----------------------------------------------------------------------------
Init ==
    /\ claim \in [Claim -> {Unborn, Active}]
    /\ Cardinality(Standing) <= 1
    \* A record older than the rule that stores its losing claim names no B.
    /\ record \in [Record -> {[status |-> "none", a |-> <<>>, b |-> <<>>, origin |-> "extract"]}
                             \cup {[status |-> "INCONSISTENCY", a |-> <<c>>, b |-> <<NoClaim>>,
                                    origin |-> "extract"] : c \in Standing}]
    /\ verdict = [r \in Record |-> "none"]

\* A claim changes its state outside any record.
Move(c, state) ==
    /\ claim' = [claim EXCEPT ![c] = state]
    /\ UNCHANGED <<record, verdict>>

\* Extract: a claim nothing contradicts.
Extract(c) == claim[c] = Unborn /\ Move(c, Active)

\* A pass retires a claim (SUPERSEDED_BY_UPDATE stands for every such reason), a
\* person retracts it, or an exact copy is merged away.
Retire(c) ==
    /\ claim[c] = Active
    /\ \E state \in {Updated, Retracted, Merged} : Move(c, state)

\* A reindex supersedes a stale claim, held or not.
Reindex(c) == claim[c].status = "PROVENANCE_STALE" /\ Move(c, Reindexed)

\* An auto-merge is undone.
Unmerge(c) == claim[c] = Merged /\ Move(c, Active)

\* A record is opened on two sides, in the state it is read in from then on.
OpenRecord(r, a, b, origin) ==
    /\ record[r].status = "none"
    /\ record' = [record EXCEPT ![r] =
                     [status |-> "INCONSISTENCY", a |-> a, b |-> b, origin |-> origin]]
    /\ UNCHANGED verdict

\* Rung 3: the new claim is stored held behind the stored one it contradicts.
Hold(r, a, b) ==
    /\ claim[a] = Active /\ claim[b] = Unborn
    /\ claim' = [claim EXCEPT ![b] = Held]
    /\ OpenRecord(r, <<a>>, <<b>>, "extract")

\* A candidate restates, word for word, a claim that was retired by judgment.
HoldRetired(r, a, b) ==
    /\ claim[a] \in {Retracted, Overruled} /\ claim[b] = Unborn
    /\ claim' = [claim EXCEPT ![b] = Held]
    /\ OpenRecord(r, <<a>>, <<b>>, "retired")

\* crossing_pairs, which an open census record covers.
Crossing(a, b) == {{x, y} : x \in ToSet(a), y \in ToSet(b)}
Covered == UNION {Crossing(record[r].a, record[r].b) :
                     r \in {q \in Record : Open(q) /\ record[q].origin = "census"}}

Sides == UNION {[1..n -> Standing] : n \in 1..(MaxMembers - 1)}

\* The nightly census names two sides of ACTIVE claims no open record of its
\* own has across its sides.
OpenCensus(r, a, b) ==
    /\ Len(a) + Len(b) <= MaxMembers
    /\ IsInjective(a) /\ IsInjective(b) /\ ToSet(a) \cap ToSet(b) = {}
    /\ Crossing(a, b) \cap Covered = {}
    /\ OpenRecord(r, a, b, "census")
    /\ UNCHANGED claim

-----------------------------------------------------------------------------
\* Mutant: only the representative of the losing side is demoted.
PreferAOfPair(r) ==
    /\ Open(r) /\ ~RefusesA(r)
    /\ Resolve(r, "A", {B(r)}, {}, {})

\* Review, PREFER_A (DEFER changes nothing): side B is demoted; A is never re-promoted.
PreferA(r) ==
    /\ Open(r) /\ ~RefusesA(r)
    /\ Resolve(r, "A", SideB(r), {}, {})

\* Review, PREFER_B: side A is demoted and a held B promoted.
PreferB(r) ==
    /\ Open(r) /\ ~RefusesB(r)
    /\ Resolve(r, "B", SideA(r), Quarantined({B(r)}), {})

\* Review, BOTH_VALID: every member stays, a held one is promoted.
BothValid(r) == Open(r) /\ Resolve(r, "none", {}, Quarantined(Members(r)), {})

\* Review, DISCARD: every member still standing is retracted.
Discard(r) == Open(r) /\ Resolve(r, "none", {}, {}, {c \in Members(r) : Retires(c)})

\* The trust cascade: decide_cascade, for whichever claim's source ranks higher.
Cascade(r) ==
    /\ Open(r) /\ NoClaim \notin {A(r), B(r)} /\ ~RetiredValue(r)
    /\ claim[A(r)].status \notin Terminal
    /\ MemberCount(r) <= 2
    /\ \E winner \in Members(r) :
          /\ CanBeKept(winner)
          /\ Resolve(r, SideOf(r, winner), Members(r) \ {winner}, Quarantined({winner}), {})

\* qualifies: B is held behind an A that an autonomous pass has retired.  A hold
\* that the cascade of generations orphaned reads the same here.
Qualifies(r) ==
    /\ Open(r) /\ record[r].origin = "extract"
    /\ NoClaim \notin {A(r), B(r)} /\ IsQuarantined(B(r))
    /\ claim[A(r)] # Active
    /\ claim[A(r)].reason \in Autonomous

\* The release pass: decide_release found no ACTIVE claim that contradicts the
\* held one.  A record it blocks, or cannot check, stays as it is.
Release(r) == Qualifies(r) /\ Resolve(r, "none", {}, {B(r)}, {})

Next ==
    \/ \E c \in Claim : Extract(c) \/ Retire(c) \/ Reindex(c) \/ Unmerge(c)
    \/ \E r \in Record :
          \/ \E a, b \in Claim : Hold(r, a, b) \/ HoldRetired(r, a, b)
          \/ \E a, b \in Sides : OpenCensus(r, a, b)
          \/ PreferA(r) \/ PreferB(r) \/ BothValid(r) \/ Discard(r)
          \/ Cascade(r) \/ Release(r)

Spec == Init /\ [][Next]_vars

-----------------------------------------------------------------------------
\* Properties

TypeOK ==
    /\ claim \in [Claim -> ClaimState]
    /\ record \in [Record -> [status : {"none", "INCONSISTENCY", "RETRACTED"},
                               a : Seq(Ref), b : Seq(Ref),
                               origin : {"extract", "retired", "census"}]]
    /\ verdict \in [Record -> {"none", "A", "B"}]

\* No plan asks the store for a transition its table rejects, whatever other
\* reviews, passes and merges did to the claims since the record was opened:
\* validate_transition never raises in the middle of a plan.
LegalTransitions ==
    [][/\ \A c \in Claim : claim'[c].status # claim[c].status => Allowed(claim[c], claim'[c])
       /\ \A r \in Record : record'[r].status # record[r].status
                             => Allowed(record[r], record'[r])]_vars

\* A held claim is never forgotten: it is the B of exactly one open record, so
\* a review, the cascade or the release pass can still decide it.
HeldIsOnRecord ==
    \A c \in Claim : claim[c] = Held =>
        Cardinality({r \in Record : Open(r) /\ B(r) = c}) = 1

\* A verdict leaves what it keeps on the answer surface: no PREFER and no
\* cascade closes a conflict with neither claim ACTIVE (refusal_reason).  A
\* retirement that stands and a B that was never stored are the exceptions.
KeptIsActive ==
    [][\A r \in Record : verdict'[r] # verdict[r] =>
          /\ verdict'[r] = "A" /\ ~RetiredValue(r) => claim'[A(r)] = Active
          /\ verdict'[r] = "B" /\ B(r) # NoClaim =>
                \/ claim'[B(r)] = Active
                \/ claim[B(r)] = Held /\ \E c \in NewClaims : claim'[c] = Active]_vars

\* A verdict takes the whole losing side off the answer surface, every member
\* of a census record included.
LosersLeave ==
    [][\A r \in Record : verdict'[r] # verdict[r] =>
          /\ verdict'[r] = "A" => \A c \in SideB(r) : claim'[c] # Active
          /\ verdict'[r] = "B" => \A c \in SideA(r) : claim'[c] # Active]_vars

\* Claims and records are interchangeable, only their states tell them apart (symmetry for TLC).
Interchangeable == Permutations(Claim) \cup Permutations(Record)
=================================================================================
