--------------------------------- MODULE MCWritePath ---------------------------------
(***************************************************************************)
(* What an extracted claim meets before and after it is stored, checked    *)
(* side by side: the calibration of the confidence it states, the gates    *)
(* and readings of its world time, and the write-time ladder.  They share  *)
(* no state: which one runs is chosen at the start and the others rest.    *)
(***************************************************************************)
EXTENDS WriteLadder

CONSTANTS MaxTime, Stated, MinBlock, MaxPairs, Releases

ASSUME ValidTimeAssumption == MaxTime \in Nat /\ MaxTime % 4 = 3
ASSUME CalibrationAssumption ==
    Stated \subseteq 0..10 /\ MinBlock \in Nat \ {0} /\ MaxPairs \in Nat /\ 0 \notin Releases

VARIABLES
    part,
    now, claim, arrived, retired,  \* ValidTime
    pairs, fit, kept, running, minted  \* Calibration

T == INSTANCE ValidTime
K == INSTANCE Calibration

validTime == <<now, claim, arrived, retired>>
calibration == <<pairs, fit, kept, running, minted>>

LadderRests ==
    /\ pair = "rest" /\ policy = "rest" /\ asking = "rest" /\ position = "rest"
    /\ provisional = "rest" /\ answers = "rest" /\ settled = "rest" /\ inputs = "rest"
    /\ outcome = "rest"
CalibrationRests ==
    /\ pairs = "rest" /\ fit = "rest" /\ kept = "rest" /\ running = "rest" /\ minted = "rest"
TimeRests == now = "rest" /\ claim = "rest" /\ arrived = "rest" /\ retired = "rest"

WritePathInit ==
    \/ part = "ladder" /\ Init /\ TimeRests /\ CalibrationRests
    \/ part = "time" /\ T!Init /\ LadderRests /\ CalibrationRests
    \/ part = "calibration" /\ K!Init /\ LadderRests /\ TimeRests

WritePathNext ==
    \/ part = "ladder" /\ Next /\ UNCHANGED <<part, validTime, calibration>>
    \/ part = "time" /\ T!Next /\ UNCHANGED <<part, vars, calibration>>
    \/ part = "calibration" /\ K!Next /\ UNCHANGED <<part, vars, validTime>>

WritePathSpec == WritePathInit /\ [][WritePathNext]_<<part, vars, validTime, calibration>>

\* What a claim's entries give it (one or both projects, no project, all), a scope that
\* lapsed, and a project's belief that the operator widened.
ScopesOfTwo == {ScopeOfEntries(es) : es \in SUBSET EntryTags}
                  \cup {Keyed({}, TRUE), [Keyed({"p"}, FALSE) EXCEPT !.widened = TRUE]}

-----------------------------------------------------------------------------
\* No claim is retired on one reading (WriteLadder).
RetiredTwiceRead == part = "ladder" => RetiredOnTwoReadings
\* Neither the lookups that are skipped nor the order of arrival could change the outcome
\* (WriteLadder).
CircumstanceIsIdle == part = "ladder" => SkippedInputsAreIdle /\ ArrivalOrderIsIdle
\* No project loses a belief to one it cannot see (WriteLadder, ObserverScope).
ReadersKeepBeliefs == part = "ladder" => ReadersKeepTheBelief
\* The windows of one claim agree with each other (ValidTime).
WindowsAgree == part = "time" => T!WindowsAgree
\* A calibration is the isotonic regression of its pairs, and a confidence is stamped with
\* the record that changed it (Calibration).  The first reads the pairs alone, so it is
\* judged where no record is kept.
CalibrationIsEarned ==
    part = "calibration" => /\ kept.transform = "none" => K!FitIsIsotonic
                            /\ K!StampsAreEarned
\* A session anchor is an act performed in the session (ValidTime).
SessionIsAnEvent == part = "time" => T!SessionIsAnEvent
=====================================================================================
