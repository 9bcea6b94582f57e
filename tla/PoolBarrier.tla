------------------------------ MODULE PoolBarrier ------------------------------
(***************************************************************************)
(* What a completion pool promises its participants, in sets instead of    *)
(* counters, lists and futures: a barrier.  A wave leaves at the moment    *)
(* all members wait and no announced member is missing, with everyone who  *)
(* waits on board, and at no other moment.                                 *)
(***************************************************************************)
EXTENDS Naturals

CONSTANTS Member,   \* whoever may join
          Announced \* how many members the driver announced

VARIABLES missing,  \* announced members that have not joined
          joined,   \* members now
          waiting,  \* members whose request waits for a wave
          flying    \* callers whose request a wave took and has not answered

bvars == <<missing, joined, waiting, flying>>

BInit == /\ missing = Announced
         /\ joined = {}
         /\ waiting = {}
         /\ flying = {}

\* The wave leaves exactly when everyone is on the platform.
Board(m, w) ==
    IF missing = 0 /\ w # {} /\ m \subseteq w
    THEN waiting' = {} /\ flying' = flying \cup w
    ELSE waiting' = w /\ UNCHANGED flying

Join(t) == /\ t \notin joined
           /\ joined' = joined \cup {t}
           /\ missing' = IF missing > 0 THEN missing - 1 ELSE 0
           /\ UNCHANGED <<waiting, flying>>

Request(t) == /\ t \in joined \ waiting
              /\ Board(joined, waiting \cup {t})
              /\ UNCHANGED <<missing, joined>>

Withdraw(t) == /\ t \in waiting
               /\ waiting' = waiting \ {t}
               /\ UNCHANGED <<missing, joined, flying>>

Depart(t) == /\ t \in joined \ waiting
             /\ joined' = joined \ {t}
             /\ Board(joined', waiting)
             /\ UNCHANGED missing

Answer == /\ flying' \in SUBSET flying
          /\ flying' # flying
          /\ UNCHANGED <<missing, joined, waiting>>

BNext == \/ \E t \in Member : Join(t) \/ Request(t) \/ Withdraw(t) \/ Depart(t)
         \/ Answer

BSpec == BInit /\ [][BNext]_bvars
================================================================================
