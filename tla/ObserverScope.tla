------------------------------- MODULE ObserverScope -------------------------------
(***************************************************************************)
(* For which projects is a belief in view                                  *)
(* (src/particles/core/observer_scope.py).  An entry's tags are abstracted *)
(* to the project keys they name and to whether the entry is marked as     *)
(* unattributed (its marker, a harness tag, a project tag with no name).   *)
(***************************************************************************)
EXTENDS Integers, FiniteSets

CONSTANT Project

\* BeliefScope: lapsed says something of a scope that is neither global nor keyed only.
Scope == {s \in [global : BOOLEAN, keys : SUBSET Project, lapsed : BOOLEAN, widened : BOOLEAN] :
             s.global \/ s.keys # {} => ~s.lapsed}
EntryTags == [keys : SUBSET Project, marked : BOOLEAN]

Keyed(keys, lapsed) == [global |-> FALSE, keys |-> keys, lapsed |-> lapsed, widened |-> FALSE]
GlobalScope == [global |-> TRUE, keys |-> {}, lapsed |-> FALSE, widened |-> FALSE]
Unattributed == Keyed({}, FALSE)

Everywhere(s) == s.global \/ s.widened
IsUnattributed(s) == ~Everywhere(s) /\ s.keys = {} /\ ~s.lapsed

\* classify_entry: keyed beats marked beats global.
IsGlobalEntry(e) == e.keys = {} /\ ~e.marked

\* scope_of_entries: global as soon as one entry is, else the union of the keys.
ScopeOfEntries(es) ==
    IF \E e \in es : IsGlobalEntry(e) THEN GlobalScope
    ELSE Keyed(UNION {e.keys : e \in es}, FALSE)

\* A derived belief: the premises' intersection; a global premise never narrows.
Meet(premises) ==
    LET bound == {s \in premises : ~s.global}
        keys == {k \in Project : \A s \in bound : k \in s.keys}
    IN  IF premises = {} THEN Unattributed
        ELSE IF bound = {} THEN GlobalScope
        ELSE Keyed(keys, keys = {} /\ \E s \in bound : s.lapsed)

\* A merged belief: the members' union.
Join(members) ==
    LET keys == UNION {s.keys : s \in members}
    IN  IF \E s \in members : s.global THEN GlobalScope
        ELSE Keyed(keys, keys = {} /\ \E s \in members : s.lapsed)

Visible(s, project) == Everywhere(s) \/ project \in s.keys

\* A scope by its sources: a widening belongs to one belief, neither pooled nor inherited.
OwnReading(s) == [s EXCEPT !.widened = FALSE]

ShareAnObserver(a, b) ==
    \/ Everywhere(a) \/ Everywhere(b)
    \/ IsUnattributed(a) \/ IsUnattributed(b)
    \/ a.keys \cap b.keys # {}

SameScope(a, b) ==
    /\ a.global <=> b.global
    /\ ~a.global => /\ a.keys = b.keys
                    /\ a.keys = {} => (a.lapsed <=> b.lapsed)

\* Mutant: one shared project is enough to reconcile.
PairByOverlap(candidate, existing) ==
    IF Everywhere(candidate) \/ candidate.keys = {} THEN "reconcile"
    ELSE IF Everywhere(existing) THEN "review"
    ELSE IF existing.keys = {} \/ ShareAnObserver(candidate, existing) THEN "reconcile"
    ELSE "decline"

\* pair_precondition: may the candidate be reconciled with the existing claim.
PairPrecondition(candidate, existing) ==
    IF Everywhere(candidate) \/ candidate.keys = {} THEN "reconcile"
    ELSE IF Everywhere(existing) THEN "review"
    ELSE IF existing.keys \subseteq candidate.keys THEN "reconcile"
    ELSE "decline"

-----------------------------------------------------------------------------
\* What a derived or merged belief may be seen through, widenings aside: a conclusion is in
\* view for a project only when every premise is, a merged belief exactly when some member
\* is, and neither depends on whether a chain is pooled at once or step by step; declining
\* is exactly hiding the replacement from a reader of what it would replace.
ScopeLaws(a, b, c) ==
    LET S == {a, b, c}
    IN  /\ \A p \in Project :
              /\ Visible(Meet(S), p) => \A s \in S : Visible(OwnReading(s), p)
              /\ Visible(Join(S), p) <=> \E s \in S : Visible(OwnReading(s), p)
        /\ SameScope(Meet(S), Meet({Meet({a, b}), c}))
        /\ SameScope(Join(S), Join({Join({a, b}), c}))
        /\ PairPrecondition(a, b) = "decline" =>
              \E p \in Project : Visible(b, p) /\ ~Visible(a, p)
        /\ PairPrecondition(a, b) = "reconcile" /\ a.keys # {} =>
              \A p \in Project : Visible(b, p) => Visible(a, p)
=====================================================================================
