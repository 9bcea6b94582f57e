------------------------------- MODULE WritePathProofs -------------------------------
(***************************************************************************)
(* The write-time ladder and the world time of a claim, proved for every   *)
(* set of projects, every set of scopes the code can make of them and      *)
(* every span of time.                                                     *)
(*                                                                         *)
(* A claim is retired on two readings: LadderInv says, rung by rung, what  *)
(* a verdict that stands has to do with the answers recorded, that each    *)
(* question is put once, that a question settled for a change or a         *)
(* contradiction was read twice, and that the decision used those answers  *)
(* and no others.  The laws of scopes hold of any three scopes, so no      *)
(* invariant is needed for them; the windows agree on any claim whose      *)
(* world time is one the code makes, which is the invariant TimeOK.        *)
(***************************************************************************)
EXTENDS MCWritePath, SequenceTheorems, TLAPS

-----------------------------------------------------------------------------
\* The readings

Question == {"contradiction", "update"}
Reading == Verdicts("contradiction") \cup Verdicts("update")
Policies == [failClosed : BOOLEAN, single : BOOLEAN, updateFirst : BOOLEAN]

\* What the readings of the ladder being run have come to.
ReadSoFar ==
    /\ asking = "update" =>
         /\ position \in 1..3
         /\ position = 1 => provisional = "none" /\ answers["update"] = <<>>
         /\ position = 2 /\ provisional = "changes" => answers["update"] = <<"changes">>
         /\ position = 3 /\ provisional = "changes" => answers["update"] = <<"changes", "changes">>
    /\ asking = "contradiction" =>
         /\ position \in 1..6
         /\ position <= 4 => provisional \in {"none", "no"} /\ answers["contradiction"] = <<>>
         /\ position = 5 /\ provisional = "yes" => answers["contradiction"] = <<"yes">>
         /\ position = 6 /\ provisional = "yes" => answers["contradiction"] = <<"yes", "yes">>

\* Each question is put once, the first in the order of the policy.
PutOnce ==
    /\ DOMAIN settled \subseteq Question /\ asking \in Question \cup {"none"} /\ asking \notin DOMAIN settled
    /\ asking = "update" /\ policy.updateFirst => DOMAIN settled = {}
    /\ asking = "contradiction" /\ ~policy.updateFirst => DOMAIN settled = {}
    /\ \A q \in Question : q # asking /\ q \notin DOMAIN settled => answers[q] = <<>>

\* A question settled for a change or a contradiction was read twice.
SettledTwiceRead ==
    /\ "update" \in DOMAIN settled /\ settled["update"] = "changes" => Twice("update", "changes")
    /\ "contradiction" \in DOMAIN settled /\ settled["contradiction"] = "yes" => Twice("contradiction", "yes")

\* The decision was made on the answers that stand and the inputs the lookups gave.
DecidedOnInputs ==
    Decided =>
        /\ asking = "none" /\ outcome = DecideLadder(pair, inputs, Probe, SameSlotUpdate)
        /\ IF Needed THEN inputs \in RungInputs(Orders(Forced)) ELSE inputs = NoInputs

LadderInv ==
    /\ pair \in Pair /\ policy \in Policies /\ answers \in [Question -> Seq(Reading)]
    /\ ReadSoFar /\ PutOnce /\ SettledTwiceRead /\ DecidedOnInputs

\* The rungs of the two ladders.
LEMMA LaddersAre ==
    /\ Len(Ladder("update")) = 2 /\ Len(Ladder("contradiction")) = 5
    /\ Ladder("update")[1].model /\ Ladder("update")[1].confirms = {}
    /\ Ladder("update")[2].model /\ Ladder("update")[2].confirms = {"changes"}
    /\ \A i \in 1..3 : ~Ladder("contradiction")[i].model /\ Ladder("contradiction")[i].confirms = {}
    /\ Ladder("contradiction")[4].model /\ Ladder("contradiction")[4].confirms = {}
    /\ Ladder("contradiction")[5].model /\ Ladder("contradiction")[5].confirms = {"yes"}
BY DEF Ladder, Rung

\* It holds of a pair whose first question is about to be put.
LEMMA LadderInit ==
    ASSUME Init
    PROVE  LadderInv
<1>1. pair \in Pair /\ policy \in Policies /\ answers \in [Question -> Seq(Reading)]
  BY DEF Init, Policies, Question
<1>2. ReadSoFar
  BY DEF Init, ReadSoFar
<1>3. PutOnce
  BY DEF Init, PutOnce, Question
<1>4. SettledTwiceRead
  BY DEF Init, SettledTwiceRead
<1>5. DecidedOnInputs
  BY DEF Init, DecidedOnInputs, Decided
<1> QED
  BY <1>1, <1>2, <1>3, <1>4, <1>5 DEF LadderInv

\* A rung that is passed changes only the ladder being run.
LEMMA PassKeeps ==
    ASSUME LadderInv, Running, NEW verdict, NEW said \in Seq(Reading), Pass(verdict, said), ReadSoFar'
    PROVE  LadderInv'
<1>1. /\ asking \in Question /\ UNCHANGED <<pair, policy, asking, settled, inputs, outcome>>
      /\ \A q \in Question \ {asking} : answers'[q] = answers[q]
      /\ answers' \in [Question -> Seq(Reading)]
  BY DEF LadderInv, PutOnce, Running, Pass
<1>2. PutOnce'
  BY <1>1 DEF LadderInv, PutOnce
<1>3. SettledTwiceRead'
  BY <1>1 DEF LadderInv, PutOnce, SettledTwiceRead, Twice, Question
<1>4. DecidedOnInputs'
  BY <1>1 DEF LadderInv, DecidedOnInputs, Running, Decided, Open, Outcome
<1> QED
  BY <1>1, <1>2, <1>3, <1>4 DEF LadderInv

\* Where a ladder that is being run stands.
LEMMA PositionIs ==
    ASSUME LadderInv, Running
    PROVE  /\ asking = "update" => position \in {1, 2}
           /\ asking = "contradiction" => position \in 1..5
<1>1. asking = "update" => position \in {1, 2}
  <2> SUFFICES ASSUME asking = "update" PROVE position \in {1, 2}
    OBVIOUS
  <2>1. position \in 1..3
    BY DEF LadderInv, ReadSoFar
  <2>2. position <= 2
    BY LaddersAre DEF Running
  <2> QED
    BY <2>1, <2>2
<1>2. asking = "contradiction" => position \in 1..5
  <2> SUFFICES ASSUME asking = "contradiction" PROVE position \in 1..5
    OBVIOUS
  <2>1. position \in 1..6
    BY DEF LadderInv, ReadSoFar
  <2>2. position <= 5
    BY LaddersAre DEF Running
  <2> QED
    BY <2>1, <2>2
<1> QED
  BY <1>1, <1>2

\* A rung passed over has read nothing: the verdict it leaves was not the one it confirms.
LEMMA SkipKeeps ==
    ASSUME LadderInv, SkipRung
    PROVE  LadderInv'
<1>1. Running /\ Irrelevant /\ Pass(provisional, <<>>)
  BY DEF SkipRung
<1>2. answers' = answers /\ provisional' = provisional /\ asking' = asking /\ position' = position + 1
  <2>1. answers[asking] \in Seq(Reading)
    BY <1>1 DEF LadderInv, PutOnce, Running
  <2>2. answers[asking] \o <<>> = answers[asking]
    BY <2>1
  <2> QED
    BY <1>1, <2>2 DEF Pass, LadderInv
<1>3. ReadSoFar'
  <2>1. ASSUME asking = "update" PROVE ReadSoFar'
    <3>1. position \in {1, 2}
      BY <1>1, <2>1, PositionIs
    <3>2. position = 2 /\ provisional # "changes"
      BY <1>1, <2>1, <3>1, LaddersAre DEF LadderInv, ReadSoFar, Irrelevant, Confirming, Now
    <3> QED
      BY <1>2, <2>1, <3>2 DEF ReadSoFar
  <2>2. ASSUME asking = "contradiction" PROVE ReadSoFar'
    <3>1. position \in 1..5
      BY <1>1, <2>2, PositionIs
    <3>2. position = 5 => provisional # "yes"
      BY <1>1, <2>2, LaddersAre DEF Irrelevant, Confirming, Now
    <3> QED
      BY <1>2, <2>2, <3>1, <3>2 DEF LadderInv, ReadSoFar
  <2> QED
    BY <1>1, <2>1, <2>2 DEF LadderInv, PutOnce, Running, Question
<1> QED
  BY <1>1, <1>3, EmptySeq, PassKeeps

\* A rung out of reach leaves what it was to confirm unsettled.
LEMMA OutOfReachKeeps ==
    ASSUME LadderInv, RungOutOfReach
    PROVE  LadderInv'
<1>1. Running /\ ~Irrelevant /\ Now.model /\ Pass(Unconfirmed, <<>>)
  BY DEF RungOutOfReach
<1>2. answers' = answers /\ provisional' = Unconfirmed /\ asking' = asking /\ position' = position + 1
  <2>1. answers[asking] \in Seq(Reading)
    BY <1>1 DEF LadderInv, PutOnce, Running
  <2>2. answers[asking] \o <<>> = answers[asking]
    BY <2>1
  <2> QED
    BY <1>1, <2>2 DEF Pass, LadderInv
<1>3. ReadSoFar'
  <2>1. provisional' \in {"none", "abstain"}
    BY <1>2 DEF Unconfirmed
  <2>2. ASSUME asking = "update" PROVE ReadSoFar'
    <3>1. position \in {1, 2}
      BY <1>1, <2>2, PositionIs
    <3> QED
      BY <1>2, <2>1, <2>2, <3>1 DEF ReadSoFar
  <2>3. ASSUME asking = "contradiction" PROVE ReadSoFar'
    <3>1. position \in 4..5
      BY <1>1, <2>3, PositionIs, LaddersAre DEF Now
    <3> QED
      BY <1>2, <2>1, <2>3, <3>1 DEF ReadSoFar
  <2> QED
    BY <1>1, <2>2, <2>3 DEF LadderInv, PutOnce, Running, Question
<1> QED
  BY <1>1, <1>3, EmptySeq, PassKeeps

\* A rung read: the readings so far and this one.
LEMMA DecideRungKeeps ==
    ASSUME LadderInv, NEW said, DecideRung(said)
    PROVE  LadderInv'
<1> DEFINE verdict == IF said = "abstain" /\ ~Confirming THEN provisional ELSE said
           words == IF Now.model THEN <<said>> ELSE <<>>
<1>1. Running /\ ~Irrelevant /\ Pass(verdict, words)
  BY DEF DecideRung
<1>2. IF Now.model THEN said \in Verdicts(asking) ELSE said \in {"no", "abstain"}
  BY DEF DecideRung, PureVerdict
<1>3. asking \in Question /\ answers[asking] \in Seq(Reading)
  BY <1>1 DEF LadderInv, PutOnce, Running
<1>4. words \in Seq(Reading)
  <2>1. Now.model => said \in Reading
    BY <1>2, <1>3 DEF Question, Reading
  <2>2. said \in Reading => <<said>> \in Seq(Reading)
    OBVIOUS
  <2> QED
    BY <2>1, <2>2, EmptySeq
<1>5. /\ answers'[asking] = answers[asking] \o words /\ provisional' = verdict
      /\ asking' = asking /\ position' = position + 1
  BY <1>1, <1>3 DEF Pass, LadderInv
<1>6. ReadSoFar'
  <2>1. ASSUME asking = "update" PROVE ReadSoFar'
    <3>1. position \in {1, 2} /\ words = <<said>>
      BY <1>1, <2>1, PositionIs, LaddersAre DEF Now
    <3>2. CASE position = 1
      <4>1. verdict \in {said, provisional} /\ provisional = "none" /\ answers[asking] = <<>>
        BY <2>1, <3>2 DEF LadderInv, ReadSoFar
      <4>2. provisional' = "changes" => said = "changes"
        BY <1>5, <4>1
      <4>3. answers'["update"] = <<said>>
        BY <1>5, <2>1, <3>1, <4>1
      <4> QED
        BY <1>5, <2>1, <3>2, <4>2, <4>3 DEF ReadSoFar
    <3>3. CASE position = 2
      <4>1. provisional = "changes" /\ verdict = said
        BY <1>1, <2>1, <3>3, LaddersAre DEF Irrelevant, Confirming, Now
      <4>2. answers[asking] = <<"changes">>
        BY <2>1, <3>3, <4>1 DEF LadderInv, ReadSoFar
      <4>3. answers'["update"] = <<"changes", said>>
        BY <1>5, <2>1, <3>1, <4>2
      <4> QED
        BY <1>5, <2>1, <3>3, <4>1, <4>3 DEF ReadSoFar
    <3> QED
      BY <3>1, <3>2, <3>3
  <2>2. ASSUME asking = "contradiction" PROVE ReadSoFar'
    <3>1. position \in 1..5
      BY <1>1, <2>2, PositionIs
    <3>2. CASE position \in 1..3
      <4>1. words = <<>> /\ said \in {"no", "abstain"}
        BY <1>2, <2>2, <3>2, LaddersAre DEF Now
      <4>2. provisional \in {"none", "no"} /\ answers[asking] = <<>>
        BY <2>2, <3>2 DEF LadderInv, ReadSoFar
      <4>3. answers'["contradiction"] = <<>>
        BY <1>5, <2>2, <4>1, <4>2
      <4>4. ~Confirming
        BY <2>2, <3>2, LaddersAre DEF Confirming, Now
      <4>5. provisional' \in {"none", "no"}
        BY <1>5, <4>1, <4>2, <4>4
      <4> QED
        BY <1>5, <2>2, <3>2, <4>3, <4>5 DEF ReadSoFar
    <3>3. CASE position = 4
      <4>1. words = <<said>> /\ verdict \in {said, provisional}
        BY <2>2, <3>3, LaddersAre DEF Now
      <4>2. provisional \in {"none", "no"} /\ answers[asking] = <<>>
        BY <2>2, <3>3 DEF LadderInv, ReadSoFar
      <4>3. answers'["contradiction"] = <<said>>
        BY <1>5, <2>2, <4>1, <4>2
      <4> QED
        BY <1>5, <2>2, <3>3, <4>1, <4>2, <4>3 DEF ReadSoFar
    <3>4. CASE position = 5
      <4>1. provisional = "yes" /\ verdict = said /\ words = <<said>>
        BY <1>1, <2>2, <3>4, LaddersAre DEF Irrelevant, Confirming, Now
      <4>2. answers[asking] = <<"yes">>
        BY <2>2, <3>4, <4>1 DEF LadderInv, ReadSoFar
      <4>3. answers'["contradiction"] = <<"yes", said>>
        BY <1>5, <2>2, <4>1, <4>2
      <4> QED
        BY <1>5, <2>2, <3>4, <4>1, <4>3 DEF ReadSoFar
    <3> QED
      BY <3>1, <3>2, <3>3, <3>4
  <2> QED
    BY <1>3, <2>1, <2>2 DEF Question
<1> QED
  BY <1>1, <1>4, <1>6, PassKeeps

\* A question settled: the next one, if any, was not put before.
LEMMA SettleKeeps ==
    ASSUME LadderInv, SettleQuestion
    PROVE  LadderInv'
<1>1. /\ asking \in Question /\ asking \notin DOMAIN settled /\ asking' = Follows(asking, Ruling)
      /\ position' = 1 /\ provisional' = "none" /\ ~Decided
      /\ UNCHANGED <<pair, policy, answers, inputs, outcome>>
  BY DEF SettleQuestion, Told, LadderInv, PutOnce, DecidedOnInputs
<1>2. /\ DOMAIN settled' = DOMAIN settled \cup {asking} /\ settled'[asking] = Ruling
      /\ \A q \in DOMAIN settled : settled'[q] = settled[q]
  BY <1>1 DEF SettleQuestion
<1>3. \/ asking' = "none"
      \/ asking = "update" /\ asking' = "contradiction" /\ policy.updateFirst
      \/ asking = "contradiction" /\ asking' = "update" /\ ~policy.updateFirst
  BY <1>1 DEF Follows
<1>4. asking' # "none" => DOMAIN settled = {} /\ answers[asking'] = <<>>
  BY <1>1, <1>3 DEF LadderInv, PutOnce, Question
<1>5. ReadSoFar'
  BY <1>1, <1>3, <1>4 DEF ReadSoFar
<1>6. PutOnce'
  BY <1>1, <1>2, <1>3, <1>4 DEF LadderInv, PutOnce, Question
<1>7. SettledTwiceRead'
  <2>1. asking = "update" /\ Ruling = "changes" => Twice("update", "changes")
    <3> SUFFICES ASSUME asking = "update", Ruling = "changes" PROVE Twice("update", "changes")
      OBVIOUS
    <3>1. provisional = "changes" /\ position > 2
      BY LaddersAre DEF Ruling, SettleQuestion, Told
    <3>2. position = 3
      BY <3>1 DEF LadderInv, ReadSoFar
    <3> QED
      BY <3>1, <3>2 DEF LadderInv, ReadSoFar, Twice
  <2>2. asking = "contradiction" /\ Ruling = "yes" => Twice("contradiction", "yes")
    <3> SUFFICES ASSUME asking = "contradiction", Ruling = "yes" PROVE Twice("contradiction", "yes")
      OBVIOUS
    <3>1. provisional = "yes" /\ position > 5
      BY LaddersAre DEF Ruling, SettleQuestion, Told
    <3>2. position = 6
      BY <3>1 DEF LadderInv, ReadSoFar
    <3> QED
      BY <3>1, <3>2 DEF LadderInv, ReadSoFar, Twice
  <2> QED
    BY <1>1, <1>2, <2>1, <2>2 DEF LadderInv, SettledTwiceRead, Twice
<1>8. DecidedOnInputs'
  BY <1>1 DEF DecidedOnInputs, Decided
<1> QED
  BY <1>1, <1>5, <1>6, <1>7, <1>8 DEF LadderInv

\* The decision is made on the answers that stand.
LEMMA DecideKeeps ==
    ASSUME LadderInv, NEW r, Decide(r)
    PROVE  LadderInv'
<1>1. /\ asking = "none" /\ inputs' = r /\ outcome' = DecideLadder(pair, r, Probe, SameSlotUpdate)
      /\ UNCHANGED <<pair, policy, asking, position, provisional, answers, settled>>
      /\ IF Needed THEN r \in RungInputs(Orders(Forced)) ELSE r = NoInputs
  BY DEF Decide
<1>2. ReadSoFar' /\ PutOnce' /\ SettledTwiceRead'
  BY <1>1 DEF LadderInv, ReadSoFar, PutOnce, SettledTwiceRead, Twice
<1>3. DecidedOnInputs'
  <2>1. /\ Probe' = Probe /\ SameSlotUpdate' = SameSlotUpdate /\ Needed' = Needed
        /\ Forced' = Forced /\ Slot' = Slot
    BY <1>1 DEF Probe, SameSlotUpdate, Slot, Needed, Forced, Precondition
  <2>2. Orders(Forced)' = Orders(Forced)
    BY <2>1 DEF Orders
  <2>3. DecideLadder(pair, inputs, Probe, SameSlotUpdate)' = DecideLadder(pair, r, Probe, SameSlotUpdate)
    BY <1>1, <2>1 DEF DecideLadder, Resolve, ForcesInconsistent
  <2>4. RungInputs(Orders(Forced))' = RungInputs(Orders(Forced))
    BY <2>2 DEF RungInputs
  <2> QED
    BY <1>1, <2>1, <2>3, <2>4 DEF DecidedOnInputs, NoInputs
<1> QED
  BY <1>1, <1>2, <1>3 DEF LadderInv

\* Every step of the ladder keeps its invariant.
LEMMA LadderNext ==
    ASSUME LadderInv, [Next]_vars
    PROVE  LadderInv'
<1>1. ASSUME UNCHANGED vars PROVE LadderInv'
  <2>1. UNCHANGED <<pair, policy, asking, position, provisional, answers, settled, inputs, outcome>>
    BY <1>1 DEF vars
  <2>2. ReadSoFar' /\ PutOnce' /\ SettledTwiceRead'
    BY <2>1 DEF LadderInv, ReadSoFar, PutOnce, SettledTwiceRead, Twice
  <2>3. DecidedOnInputs'
    <3>1. /\ Probe' = Probe /\ SameSlotUpdate' = SameSlotUpdate /\ Needed' = Needed
          /\ Forced' = Forced /\ Slot' = Slot
      BY <2>1 DEF Probe, SameSlotUpdate, Slot, Needed, Forced, Precondition
    <3>2. Orders(Forced)' = Orders(Forced)
      BY <3>1 DEF Orders
    <3>3. DecideLadder(pair, inputs, Probe, SameSlotUpdate)' = DecideLadder(pair, inputs, Probe, SameSlotUpdate)
      BY <2>1, <3>1 DEF DecideLadder, Resolve, ForcesInconsistent
    <3>4. RungInputs(Orders(Forced))' = RungInputs(Orders(Forced))
      BY <3>2 DEF RungInputs
    <3> QED
      BY <2>1, <3>1, <3>3, <3>4 DEF LadderInv, DecidedOnInputs, NoInputs, Decided, Open
  <2> QED
    BY <2>1, <2>2, <2>3 DEF LadderInv
<1> QED
  BY <1>1, SkipKeeps, OutOfReachKeeps, DecideRungKeeps, SettleKeeps, DecideKeeps DEF Next

\* What retires a claim: a contradiction read twice, or a change read twice.
LEMMA TwiceReadRetires == LadderInv => RetiredOnTwoReadings
<1> SUFFICES ASSUME LadderInv, RetiresExisting \/ RetiresNew
             PROVE  \/ /\ outcome.verdict \notin {"update supersedes", "update superseded"}
                       /\ Twice("contradiction", "yes")
                    \/ /\ outcome.verdict \in {"update supersedes", "update superseded"}
                       /\ Twice("update", "changes")
  BY DEF RetiredOnTwoReadings
<1> DEFINE v == outcome.verdict
           signal == LadderSignal(Probe, policy.failClosed)
<1>1. /\ outcome = DecideLadder(pair, inputs, Probe, SameSlotUpdate)
      /\ IF Needed THEN inputs \in RungInputs(Orders(Forced)) ELSE inputs = NoInputs
      /\ v \in {"supersedes", "document supersedes", "update supersedes",
                "superseded", "document superseded", "update superseded"}
  BY DEF RetiresExisting, RetiresNew, LadderInv, DecidedOnInputs
<1>2. ~Forced /\ v = Resolve(pair, inputs, signal, policy.single, SameSlotUpdate)
  BY <1>1 DEF DecideLadder, Outcome, Forced, Precondition
<1>3. v \in {"update supersedes", "update superseded"} => inputs.order # 0
  BY <1>2 DEF Resolve
<1>4. v \notin {"update supersedes", "update superseded"} => signal
  BY <1>1, <1>2 DEF Resolve
<1>5. inputs.order # 0 => "update" \in DOMAIN settled /\ settled["update"] = "changes"
  <2> SUFFICES ASSUME inputs.order # 0 PROVE Slot = "changes"
    BY DEF Slot
  <2>1. inputs.order \in Orders(Forced)
    <3>0. NoInputs.order = 0
      BY DEF NoInputs
    <3>1. Needed
      BY <1>1, <3>0
    <3>2. inputs \in RungInputs(Orders(Forced))
      BY <1>1, <3>1
    <3> QED
      BY <3>2 DEF RungInputs
  <2> QED
    BY <2>1 DEF Orders
<1>6. signal => "contradiction" \in DOMAIN settled /\ settled["contradiction"] = "yes"
  BY <1>2 DEF LadderSignal, Forced, ForcesInconsistent, Probe
<1> QED
  BY <1>3, <1>4, <1>5, <1>6 DEF LadderInv, SettledTwiceRead

\* Lookups that are skipped could not have decided.
LEMMA SkippedAreIdle == LadderInv => SkippedInputsAreIdle
<1> SUFFICES ASSUME LadderInv, Decided, ~Needed, NEW r \in RungInputs({-1, 0, 1})
             PROVE  outcome = DecideLadder(pair, r, Probe, SameSlotUpdate)
  BY DEF SkippedInputsAreIdle
<1>1. outcome = DecideLadder(pair, NoInputs, Probe, SameSlotUpdate)
  BY DEF LadderInv, DecidedOnInputs
<1>2. \/ Precondition = "decline"
      \/ ~SameSlotUpdate /\ ~LadderSignal(Probe, policy.failClosed)
  BY DEF Needed, NeedsRungInputs
<1>3. ASSUME ~LadderSignal(Probe, policy.failClosed), ~SameSlotUpdate, NEW i
      PROVE  Resolve(pair, i, LadderSignal(Probe, policy.failClosed), policy.single, SameSlotUpdate) = "corroborates"
  BY <1>3 DEF Resolve
<1> QED
  BY <1>1, <1>2, <1>3 DEF DecideLadder, Precondition

-----------------------------------------------------------------------------
\* The outcome and the order of arrival

\* What the lookups may give.
LEMMA InputsAre ==
    ASSUME LadderInv, Decided
    PROVE  /\ inputs.docs \in {"neither", "new", "existing", "both"}
           /\ inputs.trust \in {"unknown", "close", "new", "existing"}
           /\ inputs.order \in {-1, 0, 1}
<1>1. Orders(Forced) \subseteq {-1, 0, 1}
  BY DEF Orders
<1>2. inputs \in RungInputs(Orders(Forced)) \/ inputs = NoInputs
  BY DEF LadderInv, DecidedOnInputs
<1>3. CASE inputs \in RungInputs(Orders(Forced))
  BY <1>1, <1>3 DEF RungInputs
<1>4. CASE inputs = NoInputs
  BY <1>4 DEF NoInputs
<1> QED
  BY <1>2, <1>3, <1>4

\* The rungs, put to the claims the other way round.
LEMMA ResolveIsSymmetric ==
    ASSUME NEW p, NEW q, NEW r, NEW e, NEW signal, NEW single, NEW sameSlot,
           q.existing = p.new, q.new = p.existing,
           r.order \in {-1, 0, 1}, e.order = 0 - r.order,
           e.docs = Swap(r.docs), e.trust = Swap(r.trust)
    PROVE  Resolve(q, e, signal, single, sameSlot) = Mirror(Resolve(p, r, signal, single, sameSlot))
<1> DEFINE aleatory == "aleatory" \in {p.existing, p.new}
           byUpdate == IF r.order > 0 THEN "update supersedes" ELSE "update superseded"
           byUpdate2 == IF e.order > 0 THEN "update supersedes" ELSE "update superseded"
           updates == r.order # 0 /\ NewerIsSettled(p, r.order)
           updates2 == e.order # 0 /\ NewerIsSettled(q, e.order)
<1>1. "aleatory" \in {q.existing, q.new} <=> aleatory
  OBVIOUS
<1>2. /\ "not apt" \in {q.existing, q.new} <=> "not apt" \in {p.existing, p.new}
      /\ IsGenericInstance(q.existing, q.new) <=> IsGenericInstance(p.existing, p.new)
  BY DEF IsGenericInstance
<1>3. /\ e.docs = "new" <=> r.docs = "existing"
      /\ e.docs = "existing" <=> r.docs = "new"
      /\ e.trust = "new" <=> r.trust = "existing"
      /\ e.trust = "existing" <=> r.trust = "new"
  BY DEF Swap
<1>4. updates2 <=> updates
  BY DEF NewerIsSettled
<1>5. updates => byUpdate2 = Mirror(byUpdate)
  <2>1. /\ Mirror("update supersedes") = "update superseded"
        /\ Mirror("update superseded") = "update supersedes"
    BY DEF Mirror
  <2>2. updates => (e.order > 0 <=> ~(r.order > 0))
    OBVIOUS
  <2> QED
    BY <2>1, <2>2
<1>6. /\ Mirror("corroborates") = "corroborates" /\ Mirror("inconsistent") = "inconsistent"
      /\ Mirror("document supersedes") = "document superseded"
      /\ Mirror("document superseded") = "document supersedes"
      /\ Mirror("supersedes") = "superseded" /\ Mirror("superseded") = "supersedes"
  BY DEF Mirror
<1> HIDE DEF aleatory, byUpdate, byUpdate2, updates, updates2
<1> QED
  BY <1>1, <1>2, <1>3, <1>4, <1>5, <1>6
  DEF Resolve, aleatory, byUpdate, byUpdate2, updates, updates2

\* Nor does the order of arrival decide.
LEMMA ArrivalIsIdle == LadderInv => ArrivalOrderIsIdle
<1> DEFINE turned == [existing |-> pair.new, new |-> pair.existing, same |-> pair.same,
                      existingScope |-> pair.newScope, newScope |-> pair.existingScope]
           evidence == [docs |-> Swap(inputs.docs), trust |-> Swap(inputs.trust),
                        order |-> 0 - inputs.order]
           signal == LadderSignal(Probe, policy.failClosed)
<1> SUFFICES ASSUME LadderInv, Decided, Precondition = "reconcile",
                    PairPrecondition(turned.newScope, turned.existingScope) = "reconcile"
             PROVE  DecideLadder(turned, evidence, Probe, SameSlotUpdate).verdict = Mirror(outcome.verdict)
  BY DEF ArrivalOrderIsIdle
<1>1. outcome = DecideLadder(pair, inputs, Probe, SameSlotUpdate)
  BY DEF LadderInv, DecidedOnInputs
<1>2. Resolve(turned, evidence, signal, policy.single, SameSlotUpdate)
         = Mirror(Resolve(pair, inputs, signal, policy.single, SameSlotUpdate))
  <2>1. turned.existing = pair.new /\ turned.new = pair.existing
    OBVIOUS
  <2>2. /\ evidence.order = 0 - inputs.order /\ evidence.docs = Swap(inputs.docs)
        /\ evidence.trust = Swap(inputs.trust)
    OBVIOUS
  <2> HIDE DEF turned, evidence, signal
  <2> QED
    BY <2>1, <2>2, InputsAre, ResolveIsSymmetric
<1>3. IsGenericInstance(turned.existing, turned.new) <=> IsGenericInstance(pair.existing, pair.new)
  BY DEF IsGenericInstance
<1>4. Mirror("corroborates") = "corroborates" /\ Mirror("inconsistent") = "inconsistent"
  BY DEF Mirror
<1> QED
  BY <1>1, <1>2, <1>3, <1>4 DEF DecideLadder, Outcome, Precondition, ForcesInconsistent

-----------------------------------------------------------------------------
\* The scopes

\* The fields of a scope.
LEMMA ScopeIs ==
    ASSUME NEW s \in Scope
    PROVE  /\ s.global \in BOOLEAN /\ s.keys \in SUBSET Project /\ s.lapsed \in BOOLEAN
           /\ s.widened \in BOOLEAN
           /\ s.global \/ s.keys # {} => ~s.lapsed
BY DEF Scope

\* What the meet of some scopes is: everywhere if they all are, the keys they share otherwise.
LEMMA MeetIs ==
    ASSUME NEW S, S # {}, \A s \in S : s.keys \in SUBSET Project /\ s.lapsed \in BOOLEAN /\ s.global \in BOOLEAN
    PROVE  /\ Meet(S).global <=> \A s \in S : s.global
           /\ Meet(S).widened = FALSE /\ Meet(S).lapsed \in BOOLEAN /\ Meet(S).global \in BOOLEAN
           /\ Meet(S).keys \in SUBSET Project
           /\ ~Meet(S).global =>
                /\ \A k : k \in Meet(S).keys <=> k \in Project /\ \A s \in S : s.global \/ k \in s.keys
                /\ Meet(S).lapsed <=> Meet(S).keys = {} /\ \E s \in S : ~s.global /\ s.lapsed
<1> DEFINE bound == {s \in S : ~s.global}
           keys == {k \in Project : \A s \in bound : k \in s.keys}
<1>1. CASE bound = {}
  <2>1. Meet(S) = GlobalScope
    BY <1>1 DEF Meet
  <2> QED
    BY <1>1, <2>1 DEF GlobalScope
<1>2. CASE bound # {}
  <2>1. Meet(S) = Keyed(keys, keys = {} /\ \E s \in bound : s.lapsed)
    BY <1>2 DEF Meet
  <2>2. /\ Meet(S).global = FALSE /\ Meet(S).keys = keys /\ Meet(S).widened = FALSE
        /\ Meet(S).lapsed = (keys = {} /\ \E s \in bound : s.lapsed)
    BY <2>1 DEF Keyed
  <2>3. ~\A s \in S : s.global
    BY <1>2
  <2>4. \A k : k \in keys <=> k \in Project /\ \A s \in S : s.global \/ k \in s.keys
    OBVIOUS
  <2>5. (\E s \in bound : s.lapsed) <=> \E s \in S : ~s.global /\ s.lapsed
    OBVIOUS
  <2> HIDE DEF keys, bound
  <2>6. keys \in SUBSET Project
    BY <2>4
  <2> QED
    BY <2>2, <2>3, <2>4, <2>5, <2>6
<1> QED
  BY <1>1, <1>2

\* What the join of some scopes is: everywhere if one is, the keys of any otherwise.
LEMMA JoinIs ==
    ASSUME NEW S, \A s \in S : s.keys \in SUBSET Project /\ s.lapsed \in BOOLEAN /\ s.global \in BOOLEAN
    PROVE  /\ Join(S).global <=> \E s \in S : s.global
           /\ Join(S).widened = FALSE /\ Join(S).lapsed \in BOOLEAN /\ Join(S).global \in BOOLEAN
           /\ Join(S).keys \in SUBSET Project
           /\ ~Join(S).global =>
                /\ \A k : k \in Join(S).keys <=> \E s \in S : k \in s.keys
                /\ Join(S).lapsed <=> Join(S).keys = {} /\ \E s \in S : s.lapsed
<1> DEFINE keys == UNION {s.keys : s \in S}
<1>1. CASE \E s \in S : s.global
  <2>1. Join(S) = GlobalScope
    BY <1>1 DEF Join
  <2> QED
    BY <1>1, <2>1 DEF GlobalScope
<1>2. CASE ~\E s \in S : s.global
  <2>1. Join(S) = Keyed(keys, keys = {} /\ \E s \in S : s.lapsed)
    BY <1>2 DEF Join
  <2>2. /\ Join(S).global = FALSE /\ Join(S).keys = keys /\ Join(S).widened = FALSE
        /\ Join(S).lapsed = (keys = {} /\ \E s \in S : s.lapsed)
    BY <2>1 DEF Keyed
  <2>3. \A k : k \in keys <=> \E s \in S : k \in s.keys
    OBVIOUS
  <2> HIDE DEF keys
  <2>4. keys \in SUBSET Project
    BY <2>3
  <2> QED
    BY <1>2, <2>2, <2>3, <2>4
<1> QED
  BY <1>1, <1>2

\* A scope by its sources.
LEMMA OwnIs ==
    ASSUME NEW s \in Scope, NEW p
    PROVE  Visible(OwnReading(s), p) <=> s.global \/ p \in s.keys
<1>1. /\ OwnReading(s).global = s.global /\ OwnReading(s).keys = s.keys
      /\ OwnReading(s).widened = FALSE
  BY DEF OwnReading, Scope
<1> QED
  BY <1>1 DEF Visible, Everywhere

\* Pooling a chain of scopes at once or step by step comes to the same.
LEMMA MeetIsAssociative ==
    ASSUME NEW a \in Scope, NEW b \in Scope, NEW c \in Scope
    PROVE  SameScope(Meet({a, b, c}), Meet({Meet({a, b}), c}))
<1> DEFINE m == Meet({a, b})
           once == Meet({a, b, c})
           twice == Meet({m, c})
<1>1. /\ once.global <=> a.global /\ b.global /\ c.global
      /\ ~once.global =>
           /\ \A k : k \in once.keys <=> /\ k \in Project /\ (a.global \/ k \in a.keys)
                                         /\ (b.global \/ k \in b.keys) /\ (c.global \/ k \in c.keys)
           /\ once.lapsed <=> /\ once.keys = {}
                              /\ (~a.global /\ a.lapsed) \/ (~b.global /\ b.lapsed) \/ (~c.global /\ c.lapsed)
  <2> DEFINE S == {a, b, c}
  <2>1. S # {} /\ \A s \in S : s.keys \in SUBSET Project /\ s.lapsed \in BOOLEAN /\ s.global \in BOOLEAN
    BY ScopeIs
  <2>2. /\ (\A s \in S : s.global) <=> a.global /\ b.global /\ c.global
        /\ \A k : (\A s \in S : s.global \/ k \in s.keys) <=>
                    (a.global \/ k \in a.keys) /\ (b.global \/ k \in b.keys) /\ (c.global \/ k \in c.keys)
        /\ (\E s \in S : ~s.global /\ s.lapsed) <=>
              (~a.global /\ a.lapsed) \/ (~b.global /\ b.lapsed) \/ (~c.global /\ c.lapsed)
    OBVIOUS
  <2>3. once = Meet(S)
    BY DEF once
  <2> HIDE DEF S
  <2>4. /\ once.global <=> \A s \in S : s.global
        /\ once.lapsed \in BOOLEAN /\ once.global \in BOOLEAN /\ once.keys \in SUBSET Project
        /\ ~once.global =>
             /\ \A k : k \in once.keys <=> k \in Project /\ \A s \in S : s.global \/ k \in s.keys
             /\ once.lapsed <=> once.keys = {} /\ \E s \in S : ~s.global /\ s.lapsed
    BY <2>1, <2>3, MeetIs
  <2> QED
    BY <2>2, <2>4
<1>2. /\ m.global <=> a.global /\ b.global
      /\ m.lapsed \in BOOLEAN /\ m.global \in BOOLEAN /\ m.keys \in SUBSET Project
      /\ ~m.global =>
           /\ \A k : k \in m.keys <=> k \in Project /\ (a.global \/ k \in a.keys) /\ (b.global \/ k \in b.keys)
           /\ m.lapsed <=> m.keys = {} /\ ((~a.global /\ a.lapsed) \/ (~b.global /\ b.lapsed))
  <2> DEFINE S == {a, b}
  <2>1. S # {} /\ \A s \in S : s.keys \in SUBSET Project /\ s.lapsed \in BOOLEAN /\ s.global \in BOOLEAN
    BY ScopeIs
  <2>2. /\ (\A s \in S : s.global) <=> a.global /\ b.global
        /\ \A k : (\A s \in S : s.global \/ k \in s.keys) <=>
                    (a.global \/ k \in a.keys) /\ (b.global \/ k \in b.keys)
        /\ (\E s \in S : ~s.global /\ s.lapsed) <=>
              (~a.global /\ a.lapsed) \/ (~b.global /\ b.lapsed)
    OBVIOUS
  <2>3. m = Meet(S)
    BY DEF m
  <2> HIDE DEF S
  <2>4. /\ m.global <=> \A s \in S : s.global
        /\ m.lapsed \in BOOLEAN /\ m.global \in BOOLEAN /\ m.keys \in SUBSET Project
        /\ ~m.global =>
             /\ \A k : k \in m.keys <=> k \in Project /\ \A s \in S : s.global \/ k \in s.keys
             /\ m.lapsed <=> m.keys = {} /\ \E s \in S : ~s.global /\ s.lapsed
    BY <2>1, <2>3, MeetIs
  <2> QED
    BY <2>2, <2>4
<1> HIDE DEF m, once
<1>3. /\ twice.global <=> m.global /\ c.global
      /\ ~twice.global =>
           /\ \A k : k \in twice.keys <=> k \in Project /\ (m.global \/ k \in m.keys) /\ (c.global \/ k \in c.keys)
           /\ twice.lapsed <=> twice.keys = {} /\ ((~m.global /\ m.lapsed) \/ (~c.global /\ c.lapsed))
  <2> DEFINE S == {m, c}
  <2>1. S # {} /\ \A s \in S : s.keys \in SUBSET Project /\ s.lapsed \in BOOLEAN /\ s.global \in BOOLEAN
    BY <1>2, ScopeIs
  <2>2. /\ (\A s \in S : s.global) <=> m.global /\ c.global
        /\ \A k : (\A s \in S : s.global \/ k \in s.keys) <=>
                    (m.global \/ k \in m.keys) /\ (c.global \/ k \in c.keys)
        /\ (\E s \in S : ~s.global /\ s.lapsed) <=>
              (~m.global /\ m.lapsed) \/ (~c.global /\ c.lapsed)
    OBVIOUS
  <2>3. twice = Meet(S)
    BY DEF twice
  <2> HIDE DEF S
  <2>4. /\ twice.global <=> \A s \in S : s.global
        /\ twice.lapsed \in BOOLEAN /\ twice.global \in BOOLEAN /\ twice.keys \in SUBSET Project
        /\ ~twice.global =>
             /\ \A k : k \in twice.keys <=> k \in Project /\ \A s \in S : s.global \/ k \in s.keys
             /\ twice.lapsed <=> twice.keys = {} /\ \E s \in S : ~s.global /\ s.lapsed
    BY <2>1, <2>3, MeetIs
  <2> QED
    BY <2>2, <2>4
<1> HIDE DEF twice
<1>4. once.global <=> twice.global
  BY <1>1, <1>2, <1>3
<1>5. ~once.global => once.keys = twice.keys
  <2> SUFFICES ASSUME ~once.global PROVE \A k : k \in once.keys <=> k \in twice.keys
    OBVIOUS
  <2> QED
    BY <1>1, <1>2, <1>3, <1>4
<1>6. ~once.global /\ once.keys = {} => (once.lapsed <=> twice.lapsed)
  <2> SUFFICES ASSUME ~once.global, once.keys = {} PROVE once.lapsed <=> twice.lapsed
    OBVIOUS
  <2>1. ~m.global /\ a.lapsed /\ ~a.global => m.keys = {}
    BY <1>2, ScopeIs
  <2>2. ~m.global /\ b.lapsed /\ ~b.global => m.keys = {}
    BY <1>2, ScopeIs
  <2> QED
    BY <1>1, <1>2, <1>3, <1>4, <1>5, <2>1, <2>2
<1> QED
  BY <1>4, <1>5, <1>6 DEF SameScope, m, once, twice

\* The same of the join (join in observer_scope.py).
LEMMA JoinIsAssociative ==
    ASSUME NEW a \in Scope, NEW b \in Scope, NEW c \in Scope
    PROVE  SameScope(Join({a, b, c}), Join({Join({a, b}), c}))
<1> DEFINE m == Join({a, b})
           once == Join({a, b, c})
           twice == Join({m, c})
<1>1. /\ once.global <=> a.global \/ b.global \/ c.global
      /\ ~once.global =>
           /\ \A k : k \in once.keys <=> k \in a.keys \/ k \in b.keys \/ k \in c.keys
           /\ once.lapsed <=> once.keys = {} /\ (a.lapsed \/ b.lapsed \/ c.lapsed)
  <2> DEFINE S == {a, b, c}
  <2>1. \A s \in S : s.keys \in SUBSET Project /\ s.lapsed \in BOOLEAN /\ s.global \in BOOLEAN
    BY ScopeIs
  <2>2. /\ (\E s \in S : s.global) <=> a.global \/ b.global \/ c.global
        /\ \A k : (\E s \in S : k \in s.keys) <=> k \in a.keys \/ k \in b.keys \/ k \in c.keys
        /\ (\E s \in S : s.lapsed) <=> a.lapsed \/ b.lapsed \/ c.lapsed
    OBVIOUS
  <2>3. once = Join(S)
    BY DEF once
  <2> HIDE DEF S
  <2>4. /\ once.global <=> \E s \in S : s.global
        /\ once.lapsed \in BOOLEAN /\ once.global \in BOOLEAN /\ once.keys \in SUBSET Project
        /\ ~once.global =>
             /\ \A k : k \in once.keys <=> \E s \in S : k \in s.keys
             /\ once.lapsed <=> once.keys = {} /\ \E s \in S : s.lapsed
    BY <2>1, <2>3, JoinIs
  <2> QED
    BY <2>2, <2>4
<1>2. /\ m.global <=> a.global \/ b.global
      /\ m.lapsed \in BOOLEAN /\ m.global \in BOOLEAN /\ m.keys \in SUBSET Project
      /\ ~m.global =>
           /\ \A k : k \in m.keys <=> k \in a.keys \/ k \in b.keys
           /\ m.lapsed <=> m.keys = {} /\ (a.lapsed \/ b.lapsed)
  <2> DEFINE S == {a, b}
  <2>1. \A s \in S : s.keys \in SUBSET Project /\ s.lapsed \in BOOLEAN /\ s.global \in BOOLEAN
    BY ScopeIs
  <2>2. /\ (\E s \in S : s.global) <=> a.global \/ b.global
        /\ \A k : (\E s \in S : k \in s.keys) <=> k \in a.keys \/ k \in b.keys
        /\ (\E s \in S : s.lapsed) <=> a.lapsed \/ b.lapsed
    OBVIOUS
  <2>3. m = Join(S)
    BY DEF m
  <2> HIDE DEF S
  <2>4. /\ m.global <=> \E s \in S : s.global
        /\ m.lapsed \in BOOLEAN /\ m.global \in BOOLEAN /\ m.keys \in SUBSET Project
        /\ ~m.global =>
             /\ \A k : k \in m.keys <=> \E s \in S : k \in s.keys
             /\ m.lapsed <=> m.keys = {} /\ \E s \in S : s.lapsed
    BY <2>1, <2>3, JoinIs
  <2> QED
    BY <2>2, <2>4
<1> HIDE DEF m, once
<1>3. /\ twice.global <=> m.global \/ c.global
      /\ ~twice.global =>
           /\ \A k : k \in twice.keys <=> k \in m.keys \/ k \in c.keys
           /\ twice.lapsed <=> twice.keys = {} /\ (m.lapsed \/ c.lapsed)
  <2> DEFINE S == {m, c}
  <2>1. \A s \in S : s.keys \in SUBSET Project /\ s.lapsed \in BOOLEAN /\ s.global \in BOOLEAN
    BY <1>2, ScopeIs
  <2>2. /\ (\E s \in S : s.global) <=> m.global \/ c.global
        /\ \A k : (\E s \in S : k \in s.keys) <=> k \in m.keys \/ k \in c.keys
        /\ (\E s \in S : s.lapsed) <=> m.lapsed \/ c.lapsed
    OBVIOUS
  <2>3. twice = Join(S)
    BY DEF twice
  <2> HIDE DEF S
  <2>4. /\ twice.global <=> \E s \in S : s.global
        /\ twice.lapsed \in BOOLEAN /\ twice.global \in BOOLEAN /\ twice.keys \in SUBSET Project
        /\ ~twice.global =>
             /\ \A k : k \in twice.keys <=> \E s \in S : k \in s.keys
             /\ twice.lapsed <=> twice.keys = {} /\ \E s \in S : s.lapsed
    BY <2>1, <2>3, JoinIs
  <2> QED
    BY <2>2, <2>4
<1> HIDE DEF twice
<1>4. once.global <=> twice.global
  BY <1>1, <1>2, <1>3
<1>5. ~once.global => once.keys = twice.keys
  <2> SUFFICES ASSUME ~once.global PROVE \A k : k \in once.keys <=> k \in twice.keys
    OBVIOUS
  <2> QED
    BY <1>1, <1>2, <1>3, <1>4
<1>6. ~once.global /\ once.keys = {} => (once.lapsed <=> twice.lapsed)
  <2> SUFFICES ASSUME ~once.global, once.keys = {} PROVE once.lapsed <=> twice.lapsed
    OBVIOUS
  <2>1. ~m.global /\ m.keys = {}
    BY <1>1, <1>2
  <2> QED
    BY <1>1, <1>2, <1>3, <1>4, <1>5, <2>1
<1> QED
  BY <1>4, <1>5, <1>6 DEF SameScope, m, once, twice

\* The laws of scopes hold of any three.
LEMMA LawsHold ==
    ASSUME NEW a \in Scope, NEW b \in Scope, NEW c \in Scope
    PROVE  ScopeLaws(a, b, c)
<1> DEFINE S == {a, b, c}
<1>1. \A p \in Project : Visible(Meet(S), p) => \A s \in S : Visible(OwnReading(s), p)
  <2>1. S # {} /\ \A s \in S : s.keys \in SUBSET Project /\ s.lapsed \in BOOLEAN /\ s.global \in BOOLEAN
    BY ScopeIs
  <2>2. \A s \in S : s \in Scope
    OBVIOUS
  <2> HIDE DEF S
  <2>3. \A p : Visible(Meet(S), p) => \A s \in S : s.global \/ p \in s.keys
    BY <2>1, MeetIs DEF Visible, Everywhere
  <2> QED
    BY <2>2, <2>3, OwnIs
<1>2. \A p \in Project : Visible(Join(S), p) <=> \E s \in S : Visible(OwnReading(s), p)
  <2>1. \A s \in S : s.keys \in SUBSET Project /\ s.lapsed \in BOOLEAN /\ s.global \in BOOLEAN
    BY ScopeIs
  <2>2. \A s \in S : s \in Scope
    OBVIOUS
  <2> HIDE DEF S
  <2>3. \A p : Visible(Join(S), p) <=> \E s \in S : s.global \/ p \in s.keys
    <3>1. CASE Join(S).global
      BY <2>1, <3>1, JoinIs DEF Visible, Everywhere
    <3>2. CASE ~Join(S).global
      BY <2>1, <3>2, JoinIs DEF Visible, Everywhere
    <3> QED
      BY <3>1, <3>2
  <2> QED
    BY <2>2, <2>3, OwnIs
<1>3. PairPrecondition(a, b) = "decline" => \E p \in Project : Visible(b, p) /\ ~Visible(a, p)
  BY ScopeIs DEF PairPrecondition, Visible, Everywhere
<1>4. PairPrecondition(a, b) = "reconcile" /\ a.keys # {} => \A p \in Project : Visible(b, p) => Visible(a, p)
  BY DEF PairPrecondition, Visible, Everywhere
<1>5. SameScope(Meet(S), Meet({Meet({a, b}), c})) /\ SameScope(Join(S), Join({Join({a, b}), c}))
  BY MeetIsAssociative, JoinIsAssociative
<1> QED
  BY <1>1, <1>2, <1>3, <1>4, <1>5 DEF ScopeLaws

\* No reader loses a belief to one it cannot see.
LEMMA BeliefsAreKept == LadderInv => ReadersKeepTheBelief
<1> SUFFICES ASSUME LadderInv PROVE ReadersKeepTheBelief
  OBVIOUS
<1>1. pair.newScope \in Scope /\ pair.existingScope \in Scope
  BY WriteLadderAssumption DEF LadderInv, Pair
<1>2. \A c \in Scopes : ScopeLaws(pair.newScope, pair.existingScope, c)
  BY <1>1, WriteLadderAssumption, LawsHold
<1>3. ASSUME RetiresExisting, pair.newScope.keys # {}, ~Everywhere(pair.existingScope), NEW p \in Project,
             Visible(pair.existingScope, p)
      PROVE  Visible(pair.newScope, p)
  <2>1. Precondition # "decline"
    <3> SUFFICES ASSUME Precondition = "decline" PROVE outcome.verdict = "none"
      BY <1>3 DEF RetiresExisting
    <3>1. outcome = DecideLadder(pair, inputs, Probe, SameSlotUpdate)
      BY <1>3 DEF RetiresExisting, LadderInv, DecidedOnInputs
    <3> QED
      BY <3>1 DEF DecideLadder, Precondition, Outcome
  <2> QED
    BY <1>3, <2>1 DEF Precondition, PairPrecondition, Visible, Everywhere
<1> QED
  BY <1>2, <1>3 DEF ReadersKeepTheBelief

-----------------------------------------------------------------------------
\* The theorems of the ladder

\* Where the ladder is the part that runs, its invariant holds.
PathInv == part = "ladder" => LadderInv

\* It holds at first,
LEMMA PathInit == WritePathInit => PathInv
BY LadderInit DEF WritePathInit, PathInv

\* and every step keeps it.
LEMMA PathNext ==
    ASSUME PathInv, [WritePathNext]_<<part, vars, validTime, calibration>>
    PROVE  PathInv'
<1> SUFFICES ASSUME part' = "ladder" PROVE LadderInv'
  BY DEF PathInv
<1>1. CASE WritePathNext
  <2>1. part = "ladder" /\ Next
    BY <1>1 DEF WritePathNext
  <2> QED
    BY <2>1, LadderNext DEF PathInv
<1>2. CASE UNCHANGED <<part, vars, validTime, calibration>>
  <2>1. part = "ladder" /\ UNCHANGED vars
    BY <1>2
  <2> QED
    BY <2>1, LadderNext DEF PathInv
<1> QED
  BY <1>1, <1>2

\* The invariant of the ladder, in every reachable state: what the answers, the verdict that
\* stands and the questions settled have to do with each other at each rung, and that the
\* decision was made on them (core/rung_ladder.py, core/conflict_resolution.py).
THEOREM LadderIsInvariant == WritePathSpec => []PathInv
<1>1. WritePathInit => PathInv
  BY PathInit
<1>2. PathInv /\ [WritePathNext]_<<part, vars, validTime, calibration>> => PathInv'
  BY PathNext
<1> QED
  BY <1>1, <1>2, PTL DEF WritePathSpec

\* Behind every verdict that retires a claim stand two agreeing model readings of the pair
\* and no other (LadderRun, core/rung_ladder.py; decide_ladder, core/conflict_resolution.py),
\* in every reachable state, whatever the breaker cuts out in between.
THEOREM ClaimsAreRetiredTwiceRead == WritePathSpec => []RetiredTwiceRead
<1>1. PathInv => RetiredTwiceRead
  BY TwiceReadRetires DEF PathInv, RetiredTwiceRead
<1> QED
  BY <1>1, LadderIsInvariant, PTL

\* Skipping the lookups of needs_rung_inputs changes no outcome, and two claims that arrive
\* the other way round get the mirrored verdict (resolve_conflict, core/
\* conflict_resolution.py), in every reachable state.
THEOREM CircumstanceNeverDecides == WritePathSpec => []CircumstanceIsIdle
<1>1. PathInv => CircumstanceIsIdle
  BY SkippedAreIdle, ArrivalIsIdle DEF PathInv, CircumstanceIsIdle
<1> QED
  BY <1>1, LadderIsInvariant, PTL

\* A claim of some projects retires another only where all the other's readers see it, and
\* any three scopes the code makes obey the laws of scopes (pair_precondition, meet and join,
\* core/observer_scope.py), in every reachable state.
THEOREM ReadersNeverLoseBeliefs == WritePathSpec => []ReadersKeepBeliefs
<1>1. PathInv => ReadersKeepBeliefs
  BY BeliefsAreKept DEF PathInv, ReadersKeepBeliefs
<1> QED
  BY <1>1, LadderIsInvariant, PTL

-----------------------------------------------------------------------------
\* World time: how windows read a claim

\* A time that may be missing, and what the code makes of a claim: a moment is never known to
\* hold as of a date, and a coarse date is a moment at the start of its unit.
AtMostOne(S) == S = {} \/ \E x \in Int : S = {x}
Claim == [from : SUBSET Int, kind : {"none", "EVENT", "STATE"},
          basis : {"none", "stated", "as-of", "session", "operator", "prose", "coarse"},
          until : SUBSET Int, closed : SUBSET Int]
ClaimOK(c) ==
    /\ c \in Claim /\ AtMostOne(c.from) /\ AtMostOne(c.until) /\ AtMostOne(c.closed)
    /\ c.kind = "EVENT" => c.basis # "as-of"
    /\ c.basis = "coarse" => c.kind = "EVENT" /\ \A f \in c.from : f % 2 = 0

\* The earliest of up to three known times.
LEMMA EarliestIs ==
    ASSUME NEW U, NEW C, NEW D, AtMostOne(U), AtMostOne(C), AtMostOne(D), U \cup C \cup D # {}
    PROVE  T!Min(U \cup C \cup D) \in Int
<1> DEFINE S == U \cup C \cup D
<1>1. S \subseteq Int
  BY DEF AtMostOne
<1>2. \E x \in S : \A y \in S : x <= y
  BY DEF AtMostOne
<1> HIDE DEF S
<1>3. T!Min(S) \in S
  BY <1>2 DEF T!Min
<1> QED
  BY <1>1, <1>3 DEF S

\* The earliest of one.
LEMMA MinOfOne ==
    ASSUME NEW x \in Int
    PROVE  T!Min({x}) = x
BY DEF T!Min

\* The end of a claim is a time, if there is one.
LEMMA EndsAre ==
    ASSUME NEW c, ClaimOK(c)
    PROVE  T!Ends(c) \subseteq Int
<1> DEFINE unit == IF c.basis = "coarse" THEN {T!UnitEnd(f) : f \in c.from} ELSE {}
           ends == c.until \cup c.closed \cup unit
<1>1. AtMostOne(c.from) /\ AtMostOne(c.until) /\ AtMostOne(c.closed)
  BY DEF ClaimOK
<1>2. AtMostOne(unit)
  <2>1. CASE c.from = {}
    BY <2>1 DEF AtMostOne
  <2>2. CASE \E f \in Int : c.from = {f}
    <3>1. PICK f \in Int : c.from = {f}
      BY <2>2
    <3>2. T!UnitEnd(f) \in Int
      BY DEF T!UnitEnd
    <3> QED
      BY <3>1, <3>2 DEF AtMostOne
  <2> QED
    BY <1>1, <2>1, <2>2 DEF AtMostOne
<1>3. c.from \subseteq Int /\ unit \subseteq Int
  BY <1>1, <1>2 DEF AtMostOne
<1>4. ends # {} => T!Min(ends) \in Int
  <2> HIDE DEF unit
  <2> QED
    BY <1>1, <1>2, EarliestIs
<1>5. \/ T!Ends(c) = unit \/ T!Ends(c) = c.from \/ T!Ends(c) = {}
      \/ ends # {} /\ T!Ends(c) = {T!Min(ends)}
  BY DEF T!Ends
<1> HIDE DEF unit, ends
<1> QED
  BY <1>3, <1>4, <1>5

\* How a span reads a claim.
Inside(s, w) == (\A x \in w.start : s >= x) /\ (\A x \in w.end : s <= x)
Lasts(c) == c.kind # "none" /\ (c.kind = "STATE" \/ c.basis = "coarse")
\* read_window, where the window is no point and the claim is dated.
LEMMA SpanReads ==
    ASSUME NEW c, NEW s \in Int, c.from = {s}, NEW w, ~T!IsPoint(w)
    PROVE  T!ReadWindow(c, w) =
              IF Inside(s, w) /\ c.basis \notin {"as-of", "coarse"} THEN "BEGAN"
              ELSE IF Lasts(c) /\ T!Intersects(s, T!Ends(c), w) THEN T!UnderBasis(c, "IN_FORCE")
              ELSE "out"
<1>1. T!Min(c.from) = s
  BY MinOfOne
<1> QED
  BY <1>1 DEF T!ReadWindow, Inside, Lasts

\* When a span reads it at all.
SpanSees(c, s, w) ==
    \/ Inside(s, w) /\ c.basis \notin {"as-of", "coarse"}
    \/ Lasts(c) /\ T!Intersects(s, T!Ends(c), w)
\* The reading is "out" exactly where it does not see the claim.
LEMMA SpanSeesIs ==
    ASSUME NEW c, NEW s \in Int, c.from = {s}, NEW w, ~T!IsPoint(w)
    PROVE  T!ReadWindow(c, w) # "out" <=> SpanSees(c, s, w)
<1>1. T!UnderBasis(c, "IN_FORCE") # "out"
  BY DEF T!UnderBasis
<1> QED
  BY <1>1, SpanReads DEF SpanSees

\* A wider span reads what a narrower one does.
LEMMA WiderReads ==
    ASSUME NEW c, ClaimOK(c), NEW s \in Int, c.from = {s},
           NEW start, NEW end, AtMostOne(start), AtMostOne(end),
           \A x \in start, y \in end : x < y,
           T!ReadWindow(c, T!Window(start, end)) # "out"
    PROVE  /\ T!ReadWindow(c, T!Window({}, end)) # "out" /\ T!ReadWindow(c, T!Window(start, {})) # "out"
           /\ \A x \in start : T!ReadWindow(c, T!Window({x - 1}, end)) # "out"
           /\ \A y \in end : T!ReadWindow(c, T!Window(start, {y + 1})) # "out"
<1>0. start \subseteq Int /\ end \subseteq Int /\ T!Ends(c) \subseteq Int
  BY EndsAre DEF AtMostOne
<1>1. \A a, b : T!Window(a, b).start = a /\ T!Window(a, b).end = b
  BY DEF T!Window
<1>2. ~T!IsPoint(T!Window(start, end))
  BY <1>0, <1>1 DEF T!IsPoint
<1>3. SpanSees(c, s, T!Window(start, end))
  BY <1>2, SpanSeesIs
<1>4. ASSUME NEW a, NEW b, a \subseteq Int, b \subseteq Int, a # {} => a # b,
             \A x \in a : \E z \in start : x <= z, \A y \in b : \E z \in end : z <= y
      PROVE  T!ReadWindow(c, T!Window(a, b)) # "out"
  <2>1. ~T!IsPoint(T!Window(a, b))
    BY <1>1, <1>4 DEF T!IsPoint
  <2>2. ASSUME Inside(s, T!Window(start, end)) PROVE Inside(s, T!Window(a, b))
    <3>1. \A x \in a : s >= x
      <4> SUFFICES ASSUME NEW x \in a PROVE s >= x
        OBVIOUS
      <4>1. PICK z \in start : x <= z
        BY <1>4
      <4>2. s >= z /\ x \in Int /\ z \in Int
        BY <1>0, <1>1, <1>4, <2>2 DEF Inside
      <4> QED
        BY <4>1, <4>2
    <3>2. \A y \in b : s <= y
      <4> SUFFICES ASSUME NEW y \in b PROVE s <= y
        OBVIOUS
      <4>1. PICK z \in end : z <= y
        BY <1>4
      <4>2. s <= z /\ y \in Int /\ z \in Int
        BY <1>0, <1>1, <1>4, <2>2 DEF Inside
      <4> QED
        BY <4>1, <4>2
    <3> QED
      BY <1>1, <3>1, <3>2 DEF Inside
  <2>3. ASSUME T!Intersects(s, T!Ends(c), T!Window(start, end))
        PROVE  T!Intersects(s, T!Ends(c), T!Window(a, b))
    <3>1. \A x \in a, e \in T!Ends(c) : e >= x
      <4> SUFFICES ASSUME NEW x \in a, NEW e \in T!Ends(c) PROVE e >= x
        OBVIOUS
      <4>1. PICK z \in start : x <= z
        BY <1>4
      <4>2. e >= z /\ x \in Int /\ z \in Int /\ e \in Int
        BY <1>0, <1>1, <1>4, <2>3 DEF T!Intersects
      <4> QED
        BY <4>1, <4>2
    <3>2. \A y \in b : s <= y
      <4> SUFFICES ASSUME NEW y \in b PROVE s <= y
        OBVIOUS
      <4>1. PICK z \in end : z <= y
        BY <1>4
      <4>2. s <= z /\ y \in Int /\ z \in Int
        BY <1>0, <1>1, <1>4, <2>3 DEF T!Intersects
      <4> QED
        BY <4>1, <4>2
    <3> QED
      BY <1>1, <3>1, <3>2 DEF T!Intersects
  <2>4. SpanSees(c, s, T!Window(a, b))
    BY <1>3, <2>2, <2>3 DEF SpanSees
  <2> QED
    BY <2>1, <2>4, SpanSeesIs
<1>5. T!ReadWindow(c, T!Window({}, end)) # "out"
  BY <1>0, <1>4
<1>6. T!ReadWindow(c, T!Window(start, {})) # "out"
  BY <1>0, <1>4
<1>7. ASSUME NEW x \in start PROVE T!ReadWindow(c, T!Window({x - 1}, end)) # "out"
  <2>1. x \in Int /\ x - 1 \in Int /\ x - 1 <= x /\ {x - 1} \subseteq Int
    BY <1>0
  <2>2. {x - 1} # end
    BY <2>1
  <2>3. \A y \in end : \E z \in end : z <= y
    BY <1>0
  <2> QED
    BY <1>0, <1>4, <2>1, <2>2, <2>3
<1>8. ASSUME NEW y \in end PROVE T!ReadWindow(c, T!Window(start, {y + 1})) # "out"
  <2>1. y \in Int /\ y + 1 \in Int /\ y <= y + 1 /\ {y + 1} \subseteq Int
    BY <1>0
  <2>2. start # {y + 1}
    BY <2>1
  <2>3. \A x \in start : \E z \in start : x <= z
    BY <1>0
  <2> QED
    BY <1>0, <1>4, <2>1, <2>2, <2>3
<1> QED
  BY <1>5, <1>6, <1>7, <1>8

\* A span of days, and when it sees a claim.
LEMMA DaysAre ==
    ASSUME NEW a \in Int, NEW b \in Int
    PROVE  /\ T!Days(a, b).start = {2 * a} /\ T!Days(a, b).end = {2 * b + 1}
           /\ ~T!IsPoint(T!Days(a, b))
<1>1. T!Days(a, b).start = {2 * a} /\ T!Days(a, b).end = {2 * b + 1}
  BY DEF T!Days, T!Window
<1>2. 2 * a # 2 * b + 1
  OBVIOUS
<1> QED
  BY <1>1, <1>2 DEF T!IsPoint

\* What it is for a claim to begin in a span of days, and to last into it.
LEMMA DaysSee ==
    ASSUME NEW c, ClaimOK(c), NEW s \in Int, NEW a \in Int, NEW b \in Int
    PROVE  /\ Inside(s, T!Days(a, b)) <=> 2 * a <= s /\ s <= 2 * b + 1
           /\ T!Intersects(s, T!Ends(c), T!Days(a, b)) <=>
                 s <= 2 * b + 1 /\ \A e \in T!Ends(c) : e >= 2 * a
<1>1. T!Days(a, b).start = {2 * a} /\ T!Days(a, b).end = {2 * b + 1}
  BY DaysAre
<1>2. Inside(s, T!Days(a, b)) <=> 2 * a <= s /\ s <= 2 * b + 1
  BY <1>1 DEF Inside
<1>3. T!Intersects(s, T!Ends(c), T!Days(a, b)) <=>
         s <= 2 * b + 1 /\ \A e \in T!Ends(c) : e >= 2 * a
  BY <1>1 DEF T!Intersects
<1> QED
  BY <1>2, <1>3

\* A span of days reads what its halves read between them.
LEMMA HalvesRead ==
    ASSUME NEW c, ClaimOK(c), NEW s \in Int, c.from = {s}, \A e \in T!Ends(c) : s <= e,
           NEW a \in Int, NEW m \in Int, NEW b \in Int, a <= m, m < b
    PROVE  /\ T!ReadWindow(c, T!Days(a, b)) # "out" <=>
                 \/ T!ReadWindow(c, T!Days(a, m)) # "out"
                 \/ T!ReadWindow(c, T!Days(m + 1, b)) # "out"
           /\ ~ /\ T!ReadWindow(c, T!Days(a, m)) = "BEGAN"
                /\ T!ReadWindow(c, T!Days(m + 1, b)) = "BEGAN"
<1> DEFINE whole == T!Days(a, b)
           left == T!Days(a, m)
           right == T!Days(m + 1, b)
<1>0. T!Ends(c) \subseteq Int
  BY EndsAre
<1>1. /\ T!ReadWindow(c, whole) # "out" <=> SpanSees(c, s, whole)
      /\ T!ReadWindow(c, left) # "out" <=> SpanSees(c, s, left)
      /\ T!ReadWindow(c, right) # "out" <=> SpanSees(c, s, right)
  <2>1. ~T!IsPoint(whole) /\ ~T!IsPoint(left) /\ ~T!IsPoint(right) /\ m + 1 \in Int
    BY DaysAre
  <2> HIDE DEF whole, left, right
  <2> QED
    BY <2>1, SpanSeesIs
<1>2. Inside(s, whole) <=> Inside(s, left) \/ Inside(s, right)
  <2>1. /\ Inside(s, whole) <=> 2 * a <= s /\ s <= 2 * b + 1
        /\ Inside(s, left) <=> 2 * a <= s /\ s <= 2 * m + 1
        /\ Inside(s, right) <=> 2 * (m + 1) <= s /\ s <= 2 * b + 1
    <3>1. m + 1 \in Int
      OBVIOUS
    <3> QED
      BY <3>1, DaysSee
  <2> HIDE DEF whole, left, right
  <2> QED
    BY <2>1
<1>3. T!Intersects(s, T!Ends(c), whole) <=>
         T!Intersects(s, T!Ends(c), left) \/ T!Intersects(s, T!Ends(c), right)
  <2> DEFINE E == T!Ends(c)
  <2>1. /\ T!Intersects(s, E, whole) <=> s <= 2 * b + 1 /\ \A e \in E : e >= 2 * a
        /\ T!Intersects(s, E, left) <=> s <= 2 * m + 1 /\ \A e \in E : e >= 2 * a
        /\ T!Intersects(s, E, right) <=> s <= 2 * b + 1 /\ \A e \in E : e >= 2 * (m + 1)
    <3>1. m + 1 \in Int
      OBVIOUS
    <3> QED
      BY <3>1, DaysSee
  <2>2. \A e \in E : e \in Int /\ s <= e
    BY <1>0
  <2> HIDE DEF whole, left, right, E
  <2>3. T!Intersects(s, E, left) => T!Intersects(s, E, whole)
    BY <2>1
  <2>4. T!Intersects(s, E, right) => T!Intersects(s, E, whole)
    <3>1. \A e \in E : e >= 2 * (m + 1) => e >= 2 * a
      BY <2>2
    <3> QED
      BY <2>1, <3>1
  <2>5. ASSUME T!Intersects(s, E, whole), ~(s <= 2 * m + 1) PROVE T!Intersects(s, E, right)
    <3>1. \A e \in E : e >= 2 * (m + 1)
      BY <2>2, <2>5
    <3> QED
      BY <2>1, <2>5, <3>1
  <2> QED
    BY <2>1, <2>3, <2>4, <2>5 DEF E
<1>4. ~(T!ReadWindow(c, left) = "BEGAN" /\ T!ReadWindow(c, right) = "BEGAN")
  <2>1. \A w : ~T!IsPoint(w) /\ T!ReadWindow(c, w) = "BEGAN" => Inside(s, w)
    BY SpanReads DEF T!UnderBasis
  <2>2. ~T!IsPoint(left) /\ ~T!IsPoint(right)
    <3>1. m + 1 \in Int
      OBVIOUS
    <3> QED
      BY <3>1, DaysAre
  <2>3. ~(Inside(s, left) /\ Inside(s, right))
    <3>1. /\ Inside(s, left) => s <= 2 * m + 1
          /\ Inside(s, right) => 2 * (m + 1) <= s
      <4>1. m + 1 \in Int
        OBVIOUS
      <4> QED
        BY <4>1, DaysSee
    <3> HIDE DEF left, right
    <3> QED
      BY <3>1
  <2> QED
    BY <2>1, <2>2, <2>3
<1> QED
  BY <1>1, <1>2, <1>3, <1>4 DEF SpanSees

\* A day asked for as a point reads what the day asked for as a window reads.
LEMMA PointReads ==
    ASSUME NEW c, ClaimOK(c), NEW s \in Int, c.from = {s}, NEW d \in Int
    PROVE  LET point == T!ReadWindow(c, T!OnDay(d))
               day == T!ReadWindow(c, T!Days(d, d))
           IN  /\ point # "out" => point = day
               /\ point = "out" /\ day # "out" =>
                     \/ \E e \in T!Ends(c) : e < s
                     \/ c.kind = "none"
                     \/ c.kind = "STATE" /\ s > 2 * d
<1> DEFINE point == T!ReadWindow(c, T!OnDay(d))
           day == T!ReadWindow(c, T!Days(d, d))
           E == T!Ends(c)
<1>0. E \subseteq Int
  BY EndsAre
<1>1. /\ c.kind \in {"none", "EVENT", "STATE"}
      /\ c.kind = "EVENT" => c.basis # "as-of"
      /\ c.basis = "coarse" => c.kind = "EVENT" /\ s % 2 = 0
  BY DEF ClaimOK, Claim
<1>2. /\ T!Day(s) = d <=> 2 * d <= s /\ s <= 2 * d + 1
      /\ T!Day(2 * d) = d
  BY DEF T!Day
<1>3. point = T!ReadOn(c, 2 * d)
  <2>1. /\ T!OnDay(d).start = {2 * d} /\ T!IsPoint(T!OnDay(d))
    BY DEF T!OnDay, T!Window, T!IsPoint
  <2>2. T!Min({2 * d}) = 2 * d
    BY MinOfOne
  <2> QED
    BY <2>1, <2>2 DEF T!ReadWindow
<1>4. point = IF c.kind = "EVENT" /\ c.basis # "coarse"
              THEN IF 2 * d <= s /\ s <= 2 * d + 1 THEN "BEGAN" ELSE "out"
              ELSE IF c.kind # "none" /\ s <= 2 * d /\ (\A e \in E : 2 * d <= e)
              THEN T!UnderBasis(c, IF 2 * d <= s /\ s <= 2 * d + 1 THEN "BEGAN" ELSE "IN_FORCE")
              ELSE "out"
  <2>1. T!Min(c.from) = s
    BY MinOfOne
  <2> QED
    BY <1>2, <1>3, <2>1 DEF T!ReadOn
<1>5. day = IF 2 * d <= s /\ s <= 2 * d + 1 /\ c.basis \notin {"as-of", "coarse"} THEN "BEGAN"
            ELSE IF Lasts(c) /\ s <= 2 * d + 1 /\ (\A e \in E : e >= 2 * d)
            THEN T!UnderBasis(c, "IN_FORCE") ELSE "out"
  <2>1. ~T!IsPoint(T!Days(d, d))
    BY DaysAre
  <2>2. day = IF Inside(s, T!Days(d, d)) /\ c.basis \notin {"as-of", "coarse"} THEN "BEGAN"
              ELSE IF Lasts(c) /\ T!Intersects(s, E, T!Days(d, d)) THEN T!UnderBasis(c, "IN_FORCE")
              ELSE "out"
    BY <2>1, SpanReads
  <2> QED
    BY <2>2, DaysSee
<1>6. T!UnderBasis(c, "IN_FORCE") # "out" /\ T!UnderBasis(c, "BEGAN") # "out"
  BY DEF T!UnderBasis
<1>7. (\A e \in E : 2 * d <= e) <=> \A e \in E : e >= 2 * d
  BY <1>0
<1> DEFINE began == 2 * d <= s /\ s <= 2 * d + 1
           holds == \A e \in E : e >= 2 * d
<1>8. began /\ ~holds => s > 2 * d \/ \E e \in E : e < s
  BY <1>0
<1>9. s % 2 = 0 /\ s <= 2 * d + 1 => s <= 2 * d
  OBVIOUS
<1> HIDE DEF point, day, E, holds
<1>10. CASE c.kind = "EVENT" /\ c.basis # "coarse"
  <2>1. ~Lasts(c)
    BY <1>10 DEF Lasts
  <2> QED
    BY <1>1, <1>4, <1>5, <1>10, <2>1 DEF point, day
<1>11. CASE c.basis = "coarse"
  <2>1. Lasts(c)
    BY <1>1, <1>11 DEF Lasts
  <2>2. \A o : T!UnderBasis(c, o) = "WITHIN"
    BY <1>11 DEF T!UnderBasis
  <2> QED
    BY <1>1, <1>4, <1>5, <1>7, <1>9, <1>11, <2>1, <2>2 DEF point, day, holds
<1>12. CASE c.kind = "STATE" /\ c.basis = "as-of"
  <2>1. Lasts(c) /\ \A o : T!UnderBasis(c, o) = "HELD_AT"
    BY <1>12 DEF Lasts, T!UnderBasis
  <2> QED
    BY <1>4, <1>5, <1>7, <1>12, <2>1 DEF point, day, holds
<1>13. CASE c.kind = "STATE" /\ c.basis \notin {"as-of", "coarse"}
  <2>1. Lasts(c) /\ \A o : T!UnderBasis(c, o) = o
    BY <1>13 DEF Lasts, T!UnderBasis
  <2>2. point # "out" => point = day
    BY <1>4, <1>5, <1>7, <1>13, <2>1 DEF holds
  <2>3. point = "out" /\ day # "out" => s > 2 * d \/ (began /\ ~holds)
    BY <1>4, <1>5, <1>7, <1>13, <2>1 DEF holds
  <2> QED
    BY <1>8, <1>13, <2>2, <2>3 DEF point, day, E, holds
<1>14. CASE c.kind = "none"
  BY <1>4, <1>14 DEF point, day
<1> QED
  BY <1>1, <1>10, <1>11, <1>12, <1>13, <1>14

-----------------------------------------------------------------------------
\* World time: what the code makes of a claim

\* The instants of the model, and times that may be missing.
LEMMA InstantsAre ==
    /\ MaxTime \in Nat /\ T!Instant \subseteq Int
    /\ \A S \in T!Maybe(T!Instant) : AtMostOne(S) /\ S \subseteq Int
    /\ 0..T!Day(MaxTime) \subseteq Int
<1>1. MaxTime \in Nat
  BY ValidTimeAssumption
<1>2. T!Instant \subseteq Int
  BY <1>1 DEF T!Instant
<1>3. \A S \in T!Maybe(T!Instant) : AtMostOne(S) /\ S \subseteq Int
  BY <1>2 DEF T!Maybe, AtMostOne
<1>4. 0..T!Day(MaxTime) \subseteq Int
  OBVIOUS
<1> QED
  BY <1>1, <1>2, <1>3, <1>4

\* The windows of any claim the code makes agree with each other.
LEMMA WindowsOfAClaimAgree ==
    ASSUME ClaimOK(claim)
    PROVE  T!WindowsAgree
<1> DEFINE read(w) == T!ReadWindow(claim, w)
           days == 0..T!Day(MaxTime)
           inverted == \E f \in claim.from, e \in T!Ends(claim) : e < f
<1> SUFFICES ASSUME claim.from # {}
             PROVE  T!WindowsAgree
  BY DEF T!WindowsAgree
<1>1. PICK s \in Int : claim.from = {s}
  BY DEF ClaimOK, AtMostOne
<1>2. \A start, end \in T!Maybe(T!Instant) :
         (\A x \in start, y \in end : x < y) /\ read(T!Window(start, end)) # "out" =>
             /\ read(T!Window({}, end)) # "out" /\ read(T!Window(start, {})) # "out"
             /\ \A x \in start \ {0} : read(T!Window({x - 1}, end)) # "out"
             /\ \A y \in end : read(T!Window(start, {y + 1})) # "out"
  <2> SUFFICES ASSUME NEW start \in T!Maybe(T!Instant), NEW end \in T!Maybe(T!Instant),
                      \A x \in start, y \in end : x < y,
                      T!ReadWindow(claim, T!Window(start, end)) # "out"
               PROVE  /\ T!ReadWindow(claim, T!Window({}, end)) # "out"
                      /\ T!ReadWindow(claim, T!Window(start, {})) # "out"
                      /\ \A x \in start : T!ReadWindow(claim, T!Window({x - 1}, end)) # "out"
                      /\ \A y \in end : T!ReadWindow(claim, T!Window(start, {y + 1})) # "out"
    OBVIOUS
  <2>1. AtMostOne(start) /\ AtMostOne(end)
    BY InstantsAre
  <2> QED
    BY <1>1, <2>1, WiderReads
<1>3. ~inverted => \A a, m, b \in days : a <= m /\ m < b =>
         /\ read(T!Days(a, b)) # "out" <=>
               (read(T!Days(a, m)) # "out" \/ read(T!Days(m + 1, b)) # "out")
         /\ ~(read(T!Days(a, m)) = "BEGAN" /\ read(T!Days(m + 1, b)) = "BEGAN")
  <2> SUFFICES ASSUME ~inverted, NEW a \in days, NEW m \in days, NEW b \in days, a <= m, m < b
               PROVE  /\ T!ReadWindow(claim, T!Days(a, b)) # "out" <=>
                            \/ T!ReadWindow(claim, T!Days(a, m)) # "out"
                            \/ T!ReadWindow(claim, T!Days(m + 1, b)) # "out"
                      /\ ~ /\ T!ReadWindow(claim, T!Days(a, m)) = "BEGAN"
                           /\ T!ReadWindow(claim, T!Days(m + 1, b)) = "BEGAN"
    OBVIOUS
  <2>1. \A e \in T!Ends(claim) : s <= e
    BY <1>1, EndsAre
  <2>2. a \in Int /\ m \in Int /\ b \in Int
    OBVIOUS
  <2> QED
    BY <1>1, <2>1, <2>2, HalvesRead
<1>4. \A d \in days :
         IF read(T!OnDay(d)) # "out" THEN read(T!OnDay(d)) = read(T!Days(d, d))
         ELSE read(T!Days(d, d)) # "out" =>
                 \/ inverted \/ claim.kind = "none"
                 \/ claim.kind = "STATE" /\ \A f \in claim.from : f > 2 * d
  <2> SUFFICES ASSUME NEW d \in days
               PROVE  IF read(T!OnDay(d)) # "out" THEN read(T!OnDay(d)) = read(T!Days(d, d))
                      ELSE read(T!Days(d, d)) # "out" =>
                         \/ inverted \/ claim.kind = "none"
                         \/ claim.kind = "STATE" /\ \A f \in claim.from : f > 2 * d
    OBVIOUS
  <2>1. d \in Int
    OBVIOUS
  <2>2. /\ read(T!OnDay(d)) # "out" => read(T!OnDay(d)) = read(T!Days(d, d))
        /\ read(T!OnDay(d)) = "out" /\ read(T!Days(d, d)) # "out" =>
              \/ \E e \in T!Ends(claim) : e < s
              \/ claim.kind = "none"
              \/ claim.kind = "STATE" /\ s > 2 * d
    BY <1>1, <2>1, PointReads
  <2> HIDE DEF read
  <2> QED
    BY <1>1, <2>2
<1> QED
  BY <1>2, <1>3, <1>4 DEF T!WindowsAgree

\* What the world-time part keeps: the claim is one the code makes.
TimeOK == now \in Int /\ ClaimOK(claim)

\* A claim with no start is one.
LEMMA UndatedIs ==
    ASSUME NEW until, AtMostOne(until)
    PROVE  ClaimOK(T!Undated(until))
<1>1. until \in SUBSET Int
  BY DEF AtMostOne
<1> QED
  BY <1>1 DEF T!Undated, ClaimOK, Claim, AtMostOne

\* So is one with a start, unless its kind and its basis exclude each other.
LEMMA DatedIs ==
    ASSUME NEW from \in Int, NEW until, AtMostOne(until), NEW kind \in {"none", "EVENT", "STATE"},
           NEW basis \in {"stated", "as-of", "session", "operator", "prose", "coarse"},
           kind = "EVENT" => basis # "as-of",
           basis = "coarse" => kind = "EVENT" /\ from % 2 = 0
    PROVE  ClaimOK(T!Dated(from, kind, basis, until))
<1>1. until \in SUBSET Int
  BY DEF AtMostOne
<1>2. T!Dated(from, kind, basis, until) \in Claim
  BY <1>1 DEF T!Dated, Claim
<1>3. AtMostOne({from}) /\ AtMostOne({})
  BY DEF AtMostOne
<1> QED
  BY <1>2, <1>3 DEF T!Dated, ClaimOK

\* What extraction makes of its inputs is such a claim.
LEMMA ExtractedIs ==
    ASSUME now \in Int,
           NEW from, NEW until, AtMostOne(from), AtMostOne(until),
           NEW kind \in {"EVENT", "STATE", "other"},
           NEW basis \in {"stated", "as-of", "session", "other"},
           NEW sure \in BOOLEAN, NEW transcript \in BOOLEAN, NEW untilSure \in BOOLEAN
    PROVE  ClaimOK(T!Extracted(T!GatedFrom(from, kind, basis, sure, transcript), kind, basis,
                               T!GatedUntil(until, untilSure)))
<1> DEFINE F == T!GatedFrom(from, kind, basis, sure, transcript)
           U == T!GatedUntil(until, untilSure)
           B == T!GatedBasis(kind, basis)
           read == IF kind = "EVENT" /\ U # {} THEN "STATE" ELSE kind
           left == {f \in F : \A u \in U : f <= u}
<1>1. AtMostOne(F) /\ AtMostOne(U)
  BY DEF AtMostOne, T!GatedFrom, T!GatedUntil
<1>2. F # {} => kind \in {"EVENT", "STATE"} /\ ~(B = "as-of" /\ kind = "EVENT")
  BY DEF T!GatedFrom
<1>3. B \in {"stated", "as-of", "session"}
  BY DEF T!GatedBasis
<1>4. T!Extracted(F, kind, basis, U) = IF left = {} THEN T!Undated(U) ELSE T!Dated(T!Min(left), read, B, U)
  BY DEF T!Extracted
<1> HIDE DEF F, U, B
<1>5. ASSUME left # {} PROVE ClaimOK(T!Dated(T!Min(left), read, B, U))
  <2>1. \E x \in Int : F = {x}
    BY <1>1, <1>5 DEF AtMostOne
  <2>2. PICK x \in Int : F = {x}
    BY <2>1
  <2>3. left = {x}
    BY <1>5, <2>2
  <2>4. T!Min(left) = x
    BY <2>3, MinOfOne
  <2>5. read \in {"none", "EVENT", "STATE"} /\ (read = "EVENT" => B # "as-of") /\ B # "coarse"
    BY <1>2, <1>3, <1>5
  <2> HIDE DEF read, left
  <2> QED
    BY <1>1, <1>3, <2>4, <2>5, DatedIs
<1>6. ClaimOK(T!Undated(U))
  BY <1>1, UndatedIs
<1> HIDE DEF read, left
<1> QED
  BY <1>4, <1>5, <1>6 DEF F, U

\* It holds before the claim arrives.
LEMMA TimeStart == T!Init => TimeOK
<1> SUFFICES ASSUME T!Init PROVE TimeOK
  OBVIOUS
<1>1. AtMostOne({})
  BY DEF AtMostOne
<1> QED
  BY <1>1, UndatedIs DEF T!Init, TimeOK

\* A unit starts at an even instant.
LEMMA QuartersAre ==
    ASSUME NEW t \in Int
    PROVE  t \div 4 \in Int /\ 4 * (t \div 4) \in Int /\ (4 * (t \div 4)) % 2 = 0
<1>1. t \div 4 \in Int
  OBVIOUS
<1>2. ASSUME NEW q \in Int PROVE 4 * q \in Int /\ (4 * q) % 2 = 0
  OBVIOUS
<1> QED
  BY <1>1, <1>2

\* A day starts at an instant.
LEMMA DaysStart ==
    ASSUME NEW t \in Int
    PROVE  2 * T!Day(t) \in Int
<1>1. t \div 2 \in Int
  OBVIOUS
<1> QED
  BY <1>1 DEF T!Day

\* What a cue in the prose may anchor: a moment "in" a unit is put at its start.
AnchorOK(a) ==
    /\ a.from \in Int /\ a.kind \in {"EVENT", "STATE"} /\ a.basis \in {"prose", "as-of", "coarse"}
    /\ a.kind = "EVENT" => a.basis # "as-of"
    /\ a.basis = "coarse" => a.kind = "EVENT" /\ a.from % 2 = 0

\* An anchor made of such a start, kind and basis is one of those.
LEMMA AnchoredIs ==
    ASSUME NEW from \in Int, NEW kind \in {"EVENT", "STATE"}, NEW basis \in {"prose", "as-of", "coarse"},
           kind = "EVENT" => basis # "as-of", basis = "coarse" => kind = "EVENT" /\ from % 2 = 0
    PROVE  AnchorOK([from |-> from, kind |-> kind, basis |-> basis])
BY DEF AnchorOK

\* anchor_from_prose makes only those.
LEMMA AnchorIs ==
    ASSUME NEW cue \in {"on", "since", "as of", "in"}, NEW t \in Int
    PROVE  AnchorOK(T!Anchor(cue, t))
<1>1. CASE cue = "on"
  <2>1. T!Anchor(cue, t) = [from |-> 2 * T!Day(t), kind |-> "EVENT", basis |-> "prose"]
    BY <1>1 DEF T!Anchor
  <2> QED
    BY <2>1, DaysStart, AnchoredIs
<1>2. CASE cue = "since"
  <2>1. T!Anchor(cue, t) = [from |-> 2 * T!Day(t), kind |-> "STATE", basis |-> "prose"]
    BY <1>2 DEF T!Anchor
  <2> QED
    BY <2>1, DaysStart, AnchoredIs
<1>3. CASE cue = "as of"
  <2>1. T!Anchor(cue, t) = [from |-> 2 * T!Day(t), kind |-> "STATE", basis |-> "as-of"]
    BY <1>3 DEF T!Anchor
  <2> QED
    BY <2>1, DaysStart, AnchoredIs
<1>4. CASE cue = "in"
  <2>1. T!Anchor(cue, t) = [from |-> 4 * (t \div 4), kind |-> "EVENT", basis |-> "coarse"]
    BY <1>4 DEF T!Anchor
  <2> QED
    BY <2>1, QuartersAre, AnchoredIs
<1> QED
  BY <1>1, <1>2, <1>3, <1>4

\* Every step of world time keeps it.
LEMMA TimeNext ==
    ASSUME TimeOK, T!Next \/ UNCHANGED validTime
    PROVE  TimeOK'
<1>0. now \in Int /\ ClaimOK(claim)
  BY DEF TimeOK
<1>1. ASSUME NEW from \in T!Maybe(T!Instant), NEW until \in T!Maybe(T!Instant),
             NEW kind \in {"EVENT", "STATE", "other"},
             NEW basis \in {"stated", "as-of", "session", "other"},
             NEW sure \in BOOLEAN, NEW transcript \in BOOLEAN, NEW untilSure \in BOOLEAN,
             T!Extract(from, kind, basis, sure, transcript, until, untilSure)
      PROVE  TimeOK'
  <2>1. AtMostOne(from) /\ AtMostOne(until)
    BY InstantsAre
  <2>2. ClaimOK(T!Extracted(T!GatedFrom(from, kind, basis, sure, transcript), kind, basis,
                            T!GatedUntil(until, untilSure)))
    BY <1>0, <2>1, ExtractedIs
  <2>3. now' = now /\ claim' = T!Extracted(T!GatedFrom(from, kind, basis, sure, transcript), kind, basis,
                                           T!GatedUntil(until, untilSure))
    BY <1>1 DEF T!Extract
  <2> QED
    BY <1>0, <2>2, <2>3 DEF TimeOK
<1>2. ASSUME NEW from \in T!Instant, NEW until \in T!Maybe(T!Instant), T!Import(from, until)
      PROVE  TimeOK'
  <2>1. from \in Int /\ AtMostOne(until)
    BY InstantsAre
  <2>2. ClaimOK(T!Dated(from, "none", "operator", until))
    BY <2>1, DatedIs
  <2>3. now' = now /\ claim' = T!Dated(from, "none", "operator", until)
    BY <1>2 DEF T!Import
  <2> QED
    BY <1>0, <2>2, <2>3 DEF TimeOK
<1>3. ASSUME NEW cue \in {"on", "since", "as of", "in"}, NEW t \in T!Instant,
             T!DefaultFromProse(cue, t)
      PROVE  TimeOK'
  <2> DEFINE a == T!Anchor(cue, t)
  <2>1. t \in Int /\ AtMostOne(claim.until)
    BY <1>0, InstantsAre DEF ClaimOK
  <2>2. now' = now /\ claim' = T!Dated(a.from, a.kind, a.basis, claim.until)
    BY <1>3 DEF T!DefaultFromProse
  <2>5. /\ a.from \in Int /\ a.kind \in {"EVENT", "STATE"} /\ a.basis \in {"prose", "as-of", "coarse"}
        /\ a.kind = "EVENT" => a.basis # "as-of"
        /\ a.basis = "coarse" => a.kind = "EVENT" /\ a.from % 2 = 0
    <3>1. AnchorOK(a)
      BY <2>1, AnchorIs
    <3> HIDE DEF a
    <3> QED
      BY <3>1 DEF AnchorOK
  <2>6. ClaimOK(T!Dated(a.from, a.kind, a.basis, claim.until))
    <3> HIDE DEF a
    <3> QED
      BY <2>1, <2>5, DatedIs
  <2> QED
    BY <1>0, <2>2, <2>6 DEF TimeOK
<1>4. ASSUME NEW successor \in T!Maybe(T!Instant), NEW at \in {{}, {now}},
             T!Retire(successor, at)
      PROVE  TimeOK'
  <2>1. AtMostOne(claim.until) /\ AtMostOne(successor) /\ AtMostOne(at)
    BY <1>0, InstantsAre DEF ClaimOK, AtMostOne
  <2> DEFINE earliest == T!Min(claim.until \cup successor \cup at)
             closed == IF claim.kind = "STATE" THEN {earliest} ELSE {}
  <2>2. earliest \in Int
    BY <1>4, <2>1, EarliestIs DEF T!Retire
  <2>3. claim' = [claim EXCEPT !.closed = closed] /\ now' = now
    BY <1>4 DEF T!Retire, T!ResolveClose
  <2>4. AtMostOne(closed) /\ closed \in SUBSET Int
    BY <2>2 DEF AtMostOne
  <2> HIDE DEF closed
  <2> QED
    BY <1>0, <2>3, <2>4 DEF TimeOK, ClaimOK, Claim
<1>5. CASE T!Tick
  BY <1>0, <1>5 DEF T!Tick, TimeOK
<1>6. CASE UNCHANGED validTime
  BY <1>0, <1>6 DEF validTime, TimeOK
<1>7. CASE T!Next
  <2>1. \/ \E from, until \in T!Maybe(T!Instant), kind \in {"EVENT", "STATE", "other"},
             basis \in {"stated", "as-of", "session", "other"}, sure, transcript, untilSure \in BOOLEAN :
                T!Extract(from, kind, basis, sure, transcript, until, untilSure)
        \/ \E from \in T!Instant, until \in T!Maybe(T!Instant) : T!Import(from, until)
        \/ \E cue \in {"on", "since", "as of", "in"}, t \in T!Instant : T!DefaultFromProse(cue, t)
        \/ \E successor \in T!Maybe(T!Instant), at \in {{}, {now}} : T!Retire(successor, at)
        \/ T!Tick
    BY <1>7 DEF T!Next
  <2>2. CASE \E from, until \in T!Maybe(T!Instant), kind \in {"EVENT", "STATE", "other"},
                basis \in {"stated", "as-of", "session", "other"}, sure, transcript, untilSure \in BOOLEAN :
                   T!Extract(from, kind, basis, sure, transcript, until, untilSure)
    <3>1. PICK from \in T!Maybe(T!Instant), until \in T!Maybe(T!Instant),
               kind \in {"EVENT", "STATE", "other"}, basis \in {"stated", "as-of", "session", "other"},
               sure \in BOOLEAN, transcript \in BOOLEAN, untilSure \in BOOLEAN :
                  T!Extract(from, kind, basis, sure, transcript, until, untilSure)
      BY <2>2
    <3> QED
      BY <1>1, <3>1
  <2>3. CASE \E from \in T!Instant, until \in T!Maybe(T!Instant) : T!Import(from, until)
    BY <1>2, <2>3
  <2>4. CASE \E cue \in {"on", "since", "as of", "in"}, t \in T!Instant : T!DefaultFromProse(cue, t)
    BY <1>3, <2>4
  <2>5. CASE \E successor \in T!Maybe(T!Instant), at \in {{}, {now}} : T!Retire(successor, at)
    BY <1>4, <2>5
  <2> QED
    BY <1>5, <2>1, <2>2, <2>3, <2>4, <2>5
<1> QED
  BY <1>6, <1>7

\* Where world time is the part that runs.
TimeInv == part = "time" => TimeOK

\* Whatever the gates, an import, the default from prose and a retirement make of a claim
\* (extraction/general.py, core/validity.py), its world time is well formed in every
\* reachable state: at most one start, one end and one close, no moment known to hold as of
\* a date, and a coarse date is a moment at the start of its unit.
THEOREM ClaimsAreWellTimed == WritePathSpec => []TimeInv
<1>1. WritePathInit => TimeInv
  BY TimeStart DEF WritePathInit, TimeInv
<1>2. TimeInv /\ [WritePathNext]_<<part, vars, validTime, calibration>> => TimeInv'
  <2> SUFFICES ASSUME TimeInv, [WritePathNext]_<<part, vars, validTime, calibration>>, part' = "time"
               PROVE  TimeOK'
    BY DEF TimeInv
  <2>1. part = "time" /\ (T!Next \/ UNCHANGED validTime)
    BY DEF WritePathNext
  <2> QED
    BY <2>1, TimeNext DEF TimeInv
<1> QED
  BY <1>1, <1>2, PTL DEF WritePathSpec

\* The windows of a claim agree with each other in every reachable state (read_window,
\* core/validity.py): a wider window reads what a narrower one does, a span of days what
\* its halves read between them, and a day as a point what it reads as a window.  It holds
\* of any well-timed claim, so it needs no more than ClaimsAreWellTimed.
THEOREM WindowsAlwaysAgree == WritePathSpec => []WindowsAgree
<1>1. TimeInv => WindowsAgree
  BY WindowsOfAClaimAgree DEF TimeInv, TimeOK, WindowsAgree
<1> QED
  BY <1>1, ClaimsAreWellTimed, PTL
======================================================================================
