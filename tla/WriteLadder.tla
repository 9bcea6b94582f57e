-------------------------------- MODULE WriteLadder --------------------------------
(***************************************************************************)
(* What becomes of a new claim that resembles a stored one: the questions  *)
(* are put to ladders of rungs, cheapest first (src/particles/core/        *)
(* rung_ladder.py, ladders.py), and the answers decide the pair            *)
(* (core/conflict_resolution.py) under the two claims' observer scopes     *)
(* (ObserverScope).                                                        *)
(*                                                                         *)
(* A model rung answers anything and may be out of reach at any step: the  *)
(* breaker is open.  The order of the questions is the caller's (not in    *)
(* the repository): the update question first when the configuration and   *)
(* the pair admit it, the contradiction question unless that settled as a  *)
(* change, and the update question after a contradiction otherwise.        *)
(***************************************************************************)
EXTENDS ObserverScope, Sequences

CONSTANT Scopes      \* the scopes a claim may have

ASSUME WriteLadderAssumption == Scopes \subseteq Scope

VARIABLES
    pair,        \* the two claims, their scopes, and whether one text restates the other
    policy,      \* fail-closed probes, a single trust order, the update question first
    asking,      \* the ladder being run, or "none"
    position,    \* the next rung of it
    provisional, \* the verdict that stands, or "none"
    answers,     \* what the model rungs of each ladder said, in order
    settled,     \* per question settled, its verdict
    inputs,      \* RungInputs
    outcome      \* LadderOutcome; its verdict is "open" before the decision

vars == <<pair, policy, asking, position, provisional, answers, settled, inputs, outcome>>

-----------------------------------------------------------------------------
\* The ladders (ladders.py).  A rung with a non-empty `confirms` reads a verdict again.
Rung(name, model, confirms) == [name |-> name, model |-> model, confirms |-> confirms]

Ladder(question) ==
    IF question = "contradiction"
    THEN <<Rung("adjudicability", FALSE, {}), Rung("generic_guard", FALSE, {}),
           Rung("duplicate_key", FALSE, {}), Rung("contradiction_probe", TRUE, {}),
           Rung("second_reading", TRUE, {"yes"})>>
    ELSE <<Rung("update_slot", TRUE, {}), Rung("update_slot_second", TRUE, {"changes"})>>

Verdicts(question) == IF question = "contradiction" THEN {"yes", "no", "abstain"}
                      ELSE {"different", "changes", "fixed", "abstain"}

Kinds == {"settled", "aleatory", "not apt", "generic"}
IsGenericInstance(a, b) == (a = "generic") # (b = "generic")

\* What a rung that needs no model says of the pair.
PureVerdict(name) ==
    LET no == \/ name = "adjudicability" /\ "not apt" \in {pair.existing, pair.new}
              \/ name = "generic_guard" /\ IsGenericInstance(pair.existing, pair.new)
              \/ name = "duplicate_key" /\ pair.same
    IN  IF no THEN "no" ELSE "abstain"

-----------------------------------------------------------------------------
\* LadderRun: one rung of the run at a time.
Running == asking # "none" /\ position <= Len(Ladder(asking))
Now == Ladder(asking)[position]
Confirming == Now.confirms # {}

\* A confirming rung has nothing to confirm, or not this verdict; any other rung is
\* passed over once a verdict stands.
Irrelevant == IF provisional = "none" THEN Confirming ELSE provisional \notin Now.confirms

\* Mutant: the verdict a missing confirmation was needed for stands.
LeftOpen == provisional

\* A verdict whose confirmation is out of reach is withdrawn.
Unconfirmed == IF provisional = "none" THEN "none" ELSE "abstain"

Pass(verdict, said) ==
    /\ position' = position + 1 /\ provisional' = verdict
    /\ answers' = [answers EXCEPT ![asking] = @ \o said]
    /\ UNCHANGED <<pair, policy, asking, settled, inputs, outcome>>

SkipRung == Running /\ Irrelevant /\ Pass(provisional, <<>>)

\* Availability.admits refuses a model rung while the breaker is open.
RungOutOfReach == Running /\ ~Irrelevant /\ Now.model /\ Pass(Unconfirmed, <<>>)

\* record: an abstention leaves the first reading open and overrides on the second.
DecideRung(said) ==
    /\ Running /\ ~Irrelevant
    /\ IF Now.model THEN said \in Verdicts(asking) ELSE said = PureVerdict(Now.name)
    /\ Pass(IF said = "abstain" /\ ~Confirming THEN provisional ELSE said,
            IF Now.model THEN <<said>> ELSE <<>>)

Told == asking # "none" /\ position > Len(Ladder(asking))
Ruling == IF provisional = "none" THEN "abstain" ELSE provisional

-----------------------------------------------------------------------------
\* The decision (conflict_resolution.py).  An unfinished probe abstains.
Probe == IF "contradiction" \notin DOMAIN settled THEN "no"
         ELSE settled["contradiction"]
Slot == IF "update" \in DOMAIN settled THEN settled["update"] ELSE "abstain"
SameSlotUpdate == policy.updateFirst /\ Slot = "changes"

LadderSignal(probe, failClosed) == probe = "yes" \/ (probe = "abstain" /\ failClosed)

ForcesInconsistent(probe, failClosed, precondition) ==
    \/ probe = "abstain" /\ failClosed
    \/ precondition = "review" /\ LadderSignal(probe, failClosed)

NeedsRungInputs(probe, failClosed, precondition, sameSlot) ==
    precondition # "decline" /\ (sameSlot \/ LadderSignal(probe, failClosed))

\* update_order_source: a forced pair, or one whose slot holds one value, has no order.
Orders(forced) == IF ~forced /\ Slot = "changes" THEN {-1, 0, 1} ELSE {0}

\* docs: which document supersedes; trust: who is ahead by the threshold; order: which
\* claim is newer, 0 when rung 2.5 does not apply.
RungInputs(orders) ==
    {r \in [docs : {"neither", "new", "existing", "both"},
            trust : {"unknown", "close", "new", "existing"}, order : orders] :
        r.order # 0 => r.trust \in {"unknown", "close"}}
NoInputs == [docs |-> "neither", trust |-> "unknown", order |-> 0]

NewerIsSettled(p, order) == (IF order > 0 THEN p.new ELSE p.existing) # "aleatory"

\* Mutant: rung 2.5 reads the stored claim's uncertainty, whichever is newer.
ResolveReadingStored(p, r, signal, single, sameSlot) ==
    LET aleatory == "aleatory" \in {p.existing, p.new}
        byUpdate == IF r.order > 0 THEN "update supersedes" ELSE "update superseded"
        updates == r.order # 0 /\ p.existing # "aleatory"
    IN  IF single /\ ~aleatory /\ signal /\ r.docs = "new" THEN "document supersedes"
        ELSE IF single /\ ~aleatory /\ signal /\ r.docs = "existing" THEN "document superseded"
        ELSE IF "not apt" \in {p.existing, p.new} \/ IsGenericInstance(p.existing, p.new)
             THEN "corroborates"
        ELSE IF ~signal THEN IF sameSlot /\ updates THEN byUpdate ELSE "corroborates"
        ELSE IF single /\ ~aleatory /\ r.trust = "new" THEN "supersedes"
        ELSE IF single /\ ~aleatory /\ r.trust = "existing" THEN "superseded"
        ELSE IF updates THEN byUpdate
        ELSE "inconsistent"

\* resolve_conflict: the first rung that applies.
Resolve(p, r, signal, single, sameSlot) ==
    LET aleatory == "aleatory" \in {p.existing, p.new}
        byUpdate == IF r.order > 0 THEN "update supersedes" ELSE "update superseded"
        updates == r.order # 0 /\ NewerIsSettled(p, r.order)
    IN  IF single /\ ~aleatory /\ signal /\ r.docs = "new" THEN "document supersedes"
        ELSE IF single /\ ~aleatory /\ signal /\ r.docs = "existing" THEN "document superseded"
        ELSE IF "not apt" \in {p.existing, p.new} \/ IsGenericInstance(p.existing, p.new)
             THEN "corroborates"
        ELSE IF ~signal THEN IF sameSlot /\ updates THEN byUpdate ELSE "corroborates"
        ELSE IF single /\ ~aleatory /\ r.trust = "new" THEN "supersedes"
        ELSE IF single /\ ~aleatory /\ r.trust = "existing" THEN "superseded"
        ELSE IF updates THEN byUpdate
        ELSE "inconsistent"

Outcome(verdict, diverges) == [verdict |-> verdict, diverges |-> diverges]
Open == Outcome("open", FALSE)

\* decide_ladder: the overrides, in order, then the rungs.
DecideLadder(p, r, probe, sameSlot) ==
    LET precondition == PairPrecondition(p.newScope, p.existingScope)
        signal == LadderSignal(probe, policy.failClosed)
        adjudicable == ~IsGenericInstance(p.existing, p.new)
    IN  IF precondition = "decline" THEN Outcome("none", signal /\ adjudicable)
        ELSE IF ForcesInconsistent(probe, policy.failClosed, precondition)
             THEN Outcome(IF adjudicable THEN "inconsistent" ELSE "corroborates", FALSE)
        ELSE Outcome(Resolve(p, r, signal, policy.single, sameSlot), FALSE)

Precondition == PairPrecondition(pair.newScope, pair.existingScope)
Forced == ForcesInconsistent(Probe, policy.failClosed, Precondition)
Needed == NeedsRungInputs(Probe, policy.failClosed, Precondition, SameSlotUpdate)

-----------------------------------------------------------------------------
Pair == [existing : Kinds, new : Kinds, existingScope : Scopes, newScope : Scopes,
         same : BOOLEAN]

Init ==
    /\ pair \in {p \in Pair : p.same => p.existing = p.new}
    /\ policy \in [failClosed : BOOLEAN, single : BOOLEAN, updateFirst : BOOLEAN]
    /\ asking = (IF policy.updateFirst THEN "update" ELSE "contradiction")
    /\ position = 1 /\ provisional = "none"
    /\ answers = [q \in {"contradiction", "update"} |-> <<>>] /\ settled = <<>>
    /\ inputs = NoInputs /\ outcome = Open

\* The caller: which question is put next, if any.
Follows(question, ruling) ==
    IF policy.updateFirst
    THEN IF question = "update" /\ ruling # "changes" THEN "contradiction" ELSE "none"
    ELSE IF question = "contradiction" /\ ruling = "yes" THEN "update" ELSE "none"

SettleQuestion ==
    /\ Told
    /\ settled' = [q \in DOMAIN settled \cup {asking} |->
                     IF q = asking THEN Ruling ELSE settled[q]]
    /\ asking' = Follows(asking, Ruling) /\ position' = 1 /\ provisional' = "none"
    /\ UNCHANGED <<pair, policy, answers, inputs, outcome>>

Decide(r) ==
    /\ asking = "none" /\ outcome = Open
    /\ IF Needed THEN r \in RungInputs(Orders(Forced)) ELSE r = NoInputs
    /\ inputs' = r /\ outcome' = DecideLadder(pair, r, Probe, SameSlotUpdate)
    /\ UNCHANGED <<pair, policy, asking, position, provisional, answers, settled>>

Next ==
    \/ SkipRung \/ RungOutOfReach
    \/ \E v \in Verdicts("contradiction") \cup Verdicts("update") : DecideRung(v)
    \/ SettleQuestion
    \/ \E r \in RungInputs({-1, 0, 1}) : Decide(r)

Spec == Init /\ [][Next]_vars

-----------------------------------------------------------------------------
Decided == outcome # Open
RetiresExisting == Decided /\ outcome.verdict \in
    {"supersedes", "document supersedes", "update supersedes"}
RetiresNew == Decided /\ outcome.verdict \in
    {"superseded", "document superseded", "update superseded"}
Twice(question, said) == answers[question] = <<said, said>>

\* No claim is retired on one reading: behind every verdict that retires a claim stand
\* two model readings of the pair that agree, and no other, whatever the breaker cut in
\* between, and an unfinished probe retires nothing.
RetiredOnTwoReadings ==
    RetiresExisting \/ RetiresNew =>
        \/ outcome.verdict \notin {"update supersedes", "update superseded"}
             /\ Twice("contradiction", "yes")
        \/ outcome.verdict \in {"update supersedes", "update superseded"}
             /\ Twice("update", "changes")

\* Skipping the lookups is safe: when needs_rung_inputs says they are not needed, no trust
\* score, document edge or date could change the outcome.
SkippedInputsAreIdle ==
    Decided /\ ~Needed =>
        \A r \in RungInputs({-1, 0, 1}) :
            outcome = DecideLadder(pair, r, Probe, SameSlotUpdate)

Swap(side) == IF side = "new" THEN "existing" ELSE IF side = "existing" THEN "new" ELSE side
Mirror(verdict) ==
    CASE verdict = "supersedes" -> "superseded"
      [] verdict = "superseded" -> "supersedes"
      [] verdict = "document supersedes" -> "document superseded"
      [] verdict = "document superseded" -> "document supersedes"
      [] verdict = "update supersedes" -> "update superseded"
      [] verdict = "update superseded" -> "update supersedes"
      [] OTHER -> verdict

\* Which claim arrives first does not decide: where both orders may be reconciled, the
\* claims the other way round, on the same evidence, get the mirrored verdict.
ArrivalOrderIsIdle ==
    LET turned == [existing |-> pair.new, new |-> pair.existing, same |-> pair.same,
                   existingScope |-> pair.newScope, newScope |-> pair.existingScope]
        evidence == [docs |-> Swap(inputs.docs), trust |-> Swap(inputs.trust),
                     order |-> 0 - inputs.order]
    IN  Decided /\ PairPrecondition(turned.newScope, turned.existingScope) = Precondition
            /\ Precondition = "reconcile" =>
        DecideLadder(turned, evidence, Probe, SameSlotUpdate).verdict = Mirror(outcome.verdict)

\* No reader of a project loses a belief to one it cannot see: a claim of a project retires
\* a stored claim only when that claim's projects all see the new one; and the pair, with
\* any third claim one of them is derived from or merged with, obeys the laws of scopes
\* (ScopeLaws), which read the pair alone and are judged when it is put.
ReadersKeepTheBelief ==
    /\ RetiresExisting /\ pair.newScope.keys # {} /\ ~Everywhere(pair.existingScope) =>
          \A p \in Project : Visible(pair.existingScope, p) => Visible(pair.newScope, p)
    /\ position = 1 /\ settled = <<>> =>
          \A c \in Scopes : ScopeLaws(pair.newScope, pair.existingScope, c)

====================================================================================
