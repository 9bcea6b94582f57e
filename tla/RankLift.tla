----------------------------------- MODULE RankLift -----------------------------------
(***************************************************************************)
(* The two additive lifts of the projection ranking and how they are       *)
(* judged (src/particles/core/scoring/utility.py and relevance.py): the    *)
(* sweeps over a grid of lifts, and the monitor that reads the configured  *)
(* lift every night and raises, carries or clears an alert.  A belief is   *)
(* its confidence and its use, both whole numbers: use stands for          *)
(* ln(1 + reinforcement), so it is 0 exactly when there is none.  Beliefs  *)
(* are numbers, the order in which ids break ties.                         *)
(***************************************************************************)
EXTENDS Integers, FiniteSets, Sequences, SequencesExt

CONSTANTS
    Belief,       \* the beliefs of one view
    Confidence,   \* effective confidences
    Use,          \* values of ln(1 + reinforcement)
    Grid,         \* the lifts a sweep evaluates, rising from 0
    HeadSize,     \* the sizes of the rendered heads
    MinCohort,    \* utility.monitor.min_cohort
    Capture, EntryShare,  \* utility.monitor.capture and .entry_share, in percent
    OwnerShare,   \* max_owner_share, in percent
    MonitorNights \* bound: monitor runs

ASSUME RankLiftAssumption ==
    /\ Belief \subseteq Nat /\ IsFiniteSet(Belief)
    /\ Confidence \subseteq Nat /\ Use \subseteq Nat /\ HeadSize \subseteq Nat \ {0}
    /\ Grid \in Seq(Nat) /\ Grid # <<>> /\ Grid[1] = 0
    /\ \A i, j \in DOMAIN Grid : i < j => Grid[i] <= Grid[j]
    /\ {MinCohort, Capture, EntryShare, OwnerShare, MonitorNights} \subseteq Nat

VARIABLES
    confidence, use,  \* per belief
    cohort,           \* the beliefs used outside the head
    lift,             \* utility.default.rank_lift
    last,             \* the verdicts of the last run, per head size
    alert,            \* the run that raised the alert, 0 when there is none
    night,            \* monitor runs so far
    standing          \* history: head sizes whose verdict never changed since the first run

rank == <<confidence, use, cohort, lift, last, alert, night, standing>>

Lifts == {Grid[i] : i \in DOMAIN Grid}
Prefix(s, n) == SubSeq(s, 1, IF n < Len(s) THEN n ELSE Len(s))

-----------------------------------------------------------------------------
\* Orders

\* The digest's order: (-score, id).
Before(score, b, c) == score[b] > score[c] \/ (score[b] = score[c] /\ b < c)
Ahead(beliefs, score, b) == {c \in beliefs : Before(score, c, b)}
Places(beliefs, score) == [b \in beliefs |-> Cardinality(Ahead(beliefs, score, b))]
Digest(beliefs, score) ==
    LET place == Places(beliefs, score)
    IN  [i \in 1..Cardinality(beliefs) |-> CHOOSE b \in beliefs : place[b] = i - 1]

Scored(l) == [b \in Belief |-> confidence[b] + l * use[b]]

\* heapq.merge of two sorted runs, by (-score, id): whether the next comes from f when i are
\* taken from it and j from g, and how many of the first k come from f.
FirstComes(f, g, score, i, j) ==
    i < Len(f) /\ (j = Len(g) \/ Before(score, f[i + 1], g[j + 1]))
Taken(f, g, score) ==
    LET taken[k \in 0..(Len(f) + Len(g))] ==
            IF k = 0 THEN 0
            ELSE taken[k - 1] + (IF FirstComes(f, g, score, taken[k - 1], k - 1 - taken[k - 1])
                                 THEN 1 ELSE 0)
    IN  taken
Merge(f, g, score) ==
    LET taken == Taken(f, g, score) IN
    [k \in 1..(Len(f) + Len(g)) |->
        IF taken[k] # taken[k - 1] THEN f[taken[k]] ELSE g[k - taken[k]]]

\* LiftRanker: beliefs without use are sorted once, by confidence, the others per lift.
Unused == {b \in Belief : use[b] = 0}
Ordered(l) == Merge(Digest(Belief \ Unused, Scored(l)), Digest(Unused, confidence), Scored(l))

-----------------------------------------------------------------------------
\* Bands: the least and the greatest admissible value of the grid, and whether all between
\* are admissible too.
Band(admissible) ==
    IF admissible = {} THEN [empty |-> TRUE, contiguous |-> TRUE]
    ELSE LET low == CHOOSE x \in admissible : \A y \in admissible : x <= y
             high == CHOOSE x \in admissible : \A y \in admissible : y <= x
         IN  [empty |-> FALSE, low |-> low, high |-> high,
              contiguous |-> {x \in Lifts : low <= x /\ x <= high} = admissible]

\* The monitor's two criteria on a head.
In(head, beliefs) == Cardinality({b \in ToSet(head) : b \in beliefs})
CaptureOk(head) == cohort # {} /\ 100 * In(head, cohort) >= Capture * Cardinality(cohort)
EntryOk(head) == 100 * In(head, Unused) >= EntryShare * Len(head)

HeadAt(l, n) == Prefix(Ordered(l), n)
BothOk(l, n) == CaptureOk(HeadAt(l, n)) /\ EntryOk(HeadAt(l, n))
MonitorBand(n) == Band({l \in Lifts : BothOk(l, n)})

\* evaluate_rank_lift_monitor
Verdict(n) ==
    IF Cardinality(cohort) < MinCohort THEN "cold"
    ELSE IF BothOk(lift, n) THEN "in_band"
    ELSE IF MonitorBand(n).empty THEN "no_band"
    ELSE IF ~CaptureOk(HeadAt(lift, n)) THEN "below_floor"
    ELSE "above_ceiling"
OutOfBand == {"below_floor", "above_ceiling", "no_band"}

\* sweep_owner_rank_lift: a flat lift for the beliefs about the viewer, on top of the
\* configured one; targets in the head without it must stay there.
OwnerHead(owner, w, n) ==
    Prefix(Digest(Belief, [b \in Belief |-> Scored(lift)[b] + (IF b \in owner THEN w ELSE 0)]), n)
OwnerAdmissible(owner, targets, w, n) ==
    LET head == OwnerHead(owner, w, n) IN
    /\ In(head, owner) >= 1
    /\ 100 * In(head, owner) <= OwnerShare * n
    /\ targets \cap ToSet(OwnerHead(owner, 0, n)) \subseteq ToSet(head)
OwnerBand(owner, targets, sizes) ==
    Band({w \in Lifts : \A n \in sizes : OwnerAdmissible(owner, targets, w, n)})

-----------------------------------------------------------------------------
RankInit ==
    /\ confidence \in [Belief -> Confidence] /\ use \in [Belief -> Use]
    /\ cohort \in SUBSET Belief /\ lift \in Lifts
    /\ last = <<>> /\ alert = 0 /\ night = 0 /\ standing = HeadSize

\* Mutant: only a head that was in band raises an alert.
PlanAlertOnEntry(current, new) ==
    IF last = <<>> THEN 0
    ELSE IF \E n \in HeadSize : current[n] \in OutOfBand /\ last[n] \notin OutOfBand THEN new
    ELSE IF \E n \in HeadSize : current[n] \in OutOfBand THEN alert
    ELSE 0

\* plan_alert
PlanAlert(current, new) ==
    IF last = <<>> THEN 0
    ELSE IF \E n \in HeadSize : current[n] \in OutOfBand /\ last[n] # current[n] THEN new
    ELSE IF \E n \in HeadSize : current[n] \in OutOfBand THEN alert
    ELSE 0

\* One nightly run.
Monitor ==
    LET current == [n \in HeadSize |-> Verdict(n)] IN
    /\ night' = night + 1 /\ last' = current /\ alert' = PlanAlert(current, night + 1)
    /\ standing' = {n \in standing : last = <<>> \/ last[n] = current[n]}
    /\ UNCHANGED <<confidence, use, cohort, lift>>

\* Between runs a belief is credited or fades, is scored anew, enters or leaves the
\* cohort, or the operator sets the lift.
Credit(b, u) ==
    use' = [use EXCEPT ![b] = u] /\ UNCHANGED <<confidence, cohort, lift, last, alert, night, standing>>
Rescore(b, c) ==
    confidence' = [confidence EXCEPT ![b] = c] /\ UNCHANGED <<use, cohort, lift, last, alert, night, standing>>
Select(b) ==
    /\ cohort' = (IF b \in cohort THEN cohort \ {b} ELSE cohort \cup {b})
    /\ UNCHANGED <<confidence, use, lift, last, alert, night, standing>>
SetLift(l) ==
    lift' = l /\ UNCHANGED <<confidence, use, cohort, last, alert, night, standing>>

RankNext ==
    /\ night < MonitorNights
    /\ \/ Monitor
       \/ \E b \in Belief : Select(b) \/ (\E u \in Use : Credit(b, u)) \/ (\E c \in Confidence : Rescore(b, c))
       \/ \E l \in Lifts : SetLift(l)

RankSpec == RankInit /\ [][RankNext]_rank

-----------------------------------------------------------------------------
\* What an operator reads off a verdict is so: the head judged is the head rendered, ties
\* and all; a lift above the ceiling has admissible lifts and they are all smaller; and
\* the viewer's band has no hole, so that a configured value inside it meets the criteria.
VerdictsPointTheWay ==
    /\ \A l \in Lifts : Ordered(l) = Digest(Belief, Scored(l))
    /\ \A n \in HeadSize : Verdict(n) = "above_ceiling" => MonitorBand(n).high < lift
    /\ \A owner, targets \in SUBSET Belief : OwnerBand(owner, targets, HeadSize).contiguous

\* No drift goes unannounced: a head that is out of band with no alert standing has read
\* exactly so in every run since the first, which raises none.
NoDriftUnannounced ==
    last # <<>> /\ alert = 0 => {n \in HeadSize : last[n] \in OutOfBand} \subseteq standing

\* What an operator reads off a verdict on the lift is so, and no drift goes unannounced.
\* (A verdict reads the beliefs, the cohort and the lift alone, and before the first run they
\* are any: there it is checked.)
VerdictsAreTrue == (night = 0 => VerdictsPointTheWay) /\ NoDriftUnannounced
=====================================================================================
