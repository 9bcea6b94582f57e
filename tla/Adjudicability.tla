---------------------------- MODULE Adjudicability ----------------------------
(* Whether a claim may be arbitrated (core/modality.py, extraction/modality.py). *)
(* The stored default carries a stamp: the rule that wrote it, by the digest of  *)
(* its text.  Rules are edited, stale values regenerated, an operator rules on   *)
(* one claim, and adopted lenses read the default their own way.                 *)
EXTENDS Naturals, FiniteSets, FiniteSetsExt

CONSTANTS
    Lenses,  \* the lenses of a run: functions from a name to a set of rules
    Modes,   \* which extractor made the claim, and whether it classified and recorded it
    MaxSteps \* bound: steps

ASSUME ModalityAssumption ==
    \A l \in Lenses : \A n \in DOMAIN l : \A r \in l[n] : r.modality \in {0, 1}

VARIABLES
    ruleText,   \* the text of each rule, as a number
    claim,      \* the claim: how it was made, its value and its stored classifier
    writtenBy,  \* who really wrote the value: a rule's text, the operator, or nobody
    adopted,    \* the names of the lenses adopted
    lenses, modalitySteps
modalityVars == <<ruleText, claim, writtenBy, adopted, lenses, modalitySteps>>

Falsifiable == 0                    \* enum order
Value == {0, 1}                     \* FALSIFIABLE, EVALUATIVE
Component == {"journal rules", "modality"}
Unknown == [missing |-> TRUE]
TwoTexts == 0                       \* no text is 0

\* What a rule reads: what it is edited to may read otherwise.
Ruled(t) == (t + 1) % 2
Identity(component, digest) == [component |-> component, digest |-> digest]
Operator == [operator |-> TRUE]
Unclassified == [unclassified |-> TRUE]
Legacy == [legacy |-> TRUE]

\* current_modality_classifiers, regeneration_classifier
Current == {Identity(n, ruleText[n]) : n \in Component}
Regeneration == Identity("modality", ruleText["modality"])
RuleOf(extractor) == IF extractor = "journal" THEN "journal rules" ELSE "modality"

\* resolve_stamp: the stored classifier, or what the snapshot's record says of the first
\* component that carries a rule.
Stamp ==
    LET recorded == DOMAIN claim.components
    IN CASE claim.classifier # Unknown -> claim.classifier
         [] claim.classifier = Unknown /\ claim.extractor = "assertion" -> Unclassified
         [] OTHER ->
              IF claim.recorded
              THEN IF "journal rules" \in recorded
                   THEN Identity("journal rules", claim.components["journal rules"])
                   ELSE IF "modality" \in recorded
                   THEN Identity("modality", claim.components["modality"]) ELSE Unclassified
              ELSE IF claim.extractor \in {"general", "journal"} THEN Legacy ELSE Unclassified

\* stamp_state
State ==
    CASE Stamp = Operator -> "operator"
      [] Stamp = Unclassified -> "unclassified"
      [] OTHER -> IF Stamp \in Current THEN "current" ELSE "stale"

\* regenerable: a journal claim is reclassified by reading its entry again.
\* Mutant: only the stamp is asked.
RegenerableByStamp == "component" \in DOMAIN Stamp => Stamp.component # "journal rules"
Regenerable ==
    /\ claim.extractor # "journal"
    /\ "component" \in DOMAIN Stamp => Stamp.component # "journal rules"
-----------------------------------------------------------------------------
\* The reading of one observer.

\* A rule applies to the claims of one scope whose stored value is among some.
Matches(r) == claim.value \in r.when /\ r.scope \in claim.scopes
Order(scope) == CASE scope = "particle" -> 1 [] scope = "subject" -> 2
                  [] scope = "url" -> 3 [] OTHER -> 4

\* The most specific rule of a lens decides, and among those abstention does.
LensReading(rules) ==
    LET least == Min({Order(r.scope) : r \in rules})
        values == {r.modality : r \in {s \in rules : Order(s.scope) = least}}
    IN IF values \ {Falsifiable} # {} THEN Min(values \ {Falsifiable}) ELSE Falsifiable

Readings ==
    {LensReading({r \in lenses[n] : Matches(r)}) : n \in {m \in adopted : \E r \in lenses[m] : Matches(r)}}
\* Mutant: a grant outweighs another lens.
ComposedByGrant ==
    CASE State = "operator" \/ Readings = {} -> claim.value
      [] State # "operator" /\ Falsifiable \in Readings -> Falsifiable
      [] OTHER -> Min(Readings)
\* effective_modality
Composed ==
    CASE State = "operator" \/ Readings = {} -> claim.value
      [] State # "operator" /\ Readings \ {Falsifiable} # {} -> Min(Readings \ {Falsifiable})
      [] OTHER -> Falsifiable
Adjudicable == Composed = Falsifiable
-----------------------------------------------------------------------------
\* An extraction writes the default, under a rule, none, or two (a reload between calls).
Made(mode) ==
    LET n == RuleOf(mode.extractor)
        by == IF mode.classified THEN Identity(n, ruleText[n]) ELSE Unclassified
    IN /\ claim' = [extractor |-> mode.extractor, classifier |-> Unknown, scopes |-> mode.scopes,
                    value |-> IF mode.classified THEN Ruled(ruleText[n]) ELSE Falsifiable,
                    recorded |-> mode.recorded,
                    components |-> [m \in IF mode.classified THEN {n} ELSE {} |->
                                      IF mode.mixed THEN TwoTexts ELSE ruleText[m]]]
       /\ writtenBy' = by

ModalityInit ==
    /\ ruleText = [n \in Component |-> 1]
    /\ lenses \in Lenses /\ adopted = {} /\ modalitySteps = 0
    /\ claim = Unknown /\ writtenBy = Unclassified

Step == modalitySteps < MaxSteps /\ modalitySteps' = modalitySteps + 1

Extract(mode) == Step /\ Made(mode) /\ UNCHANGED <<ruleText, adopted, lenses>>

\* A release edits a rule, and nobody returns to an old text.
EditRule(n) ==
    /\ Step
    /\ ruleText' = [ruleText EXCEPT ![n] = @ + 1]
    /\ UNCHANGED <<claim, writtenBy, adopted, lenses>>

\* A stale value is classified again; a reply that names no value leaves it.
Regenerate ==
    /\ Step /\ claim # Unknown
    /\ State = "stale" /\ Regenerable
    /\ claim' = [claim EXCEPT !.classifier = Regeneration, !.value = Ruled(ruleText["modality"])]
    /\ writtenBy' = Regeneration
    /\ UNCHANGED <<ruleText, adopted, lenses>>

Rule(v) ==
    /\ Step /\ claim # Unknown
    /\ claim' = [claim EXCEPT !.classifier = Operator, !.value = v]
    /\ writtenBy' = [operator |-> v]
    /\ UNCHANGED <<ruleText, adopted, lenses>>

Adopt(n) == Step /\ adopted' = adopted \cup {n} /\ UNCHANGED <<ruleText, claim, writtenBy, lenses>>

ModalityNext ==
    \/ \E mode \in Modes : Extract(mode)
    \/ \E n \in Component : EditRule(n)
    \/ \E v \in Value : Rule(v)
    \/ \E n \in DOMAIN lenses \ adopted : Adopt(n)
    \/ Regenerate
ModalitySpec == ModalityInit /\ [][ModalityNext]_modalityVars
-----------------------------------------------------------------------------
\* A value that reads as current was written by a rule now in force, and one the operator
\* wrote is what every observer reads, whatever was edited, regenerated or adopted since.
StampTellsTheRule ==
    claim # Unknown =>
        /\ State = "current" => writtenBy \in Current /\ claim.value = Ruled(writtenBy.digest)
        /\ "operator" \in DOMAIN writtenBy => Composed = writtenBy.operator

\* The value of a journal claim is never one of the general rule's.
JournalKeepsItsRule ==
    claim # Unknown /\ claim.extractor = "journal" /\ "component" \in DOMAIN writtenBy =>
        writtenBy.component = "journal rules"

\* One more lens never opens what an adopted lens withholds.
AbstentionStands ==
    claim # Unknown /\ State # "operator" /\ Readings \ {Falsifiable} # {} => ~Adjudicable

\* A stamp names the rule that wrote the value, a journal's value stays the journal rule's, and
\* no lens opens what another one withholds.
ModalityIsJudged == StampTellsTheRule /\ JournalKeepsItsRule /\ AbstentionStands
=============================================================================
