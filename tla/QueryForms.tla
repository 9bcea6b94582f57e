------------------------------- MODULE QueryForms -------------------------------
(* What may be asked of a store and what a claim answers to it: the options of a  *)
(* request and which of them go together (core/schema.py, QueryRequest), the      *)
(* filters on structured claims (core/claims.py), and the two accounts of the     *)
(* predicates in use: the listing and the report (core/vocabulary_report.py).     *)
EXTENDS Integers, FiniteSets, FiniteSetsExt, Functions

CONSTANTS
    Term,      \* ClaimTerm: kind, value, datatype and language, "" for none
    Triple,    \* claims offered: subject, predicate and object terms, the subject's class
    Options,   \* option |-> the values it may be given
    Stores,    \* the sets of claims a store may hold: id |-> triple
    MaxOptions, \* bound: options of one request
    \* lexical forms
    Number, Date,       \* form |-> the number or the moment it parses as
    Fold,               \* form |-> the form without its case
    PartsOf,            \* form |-> the forms that are part of it
    Normalise           \* form |-> normalise_predicate of it

Flags == {"question", "count", "predicates", "report", "floor"}
ASSUME QueryAssumption ==
    /\ Number \in [DOMAIN Number -> Int] /\ Date \in [DOMAIN Date -> Int] /\ MaxOptions \in Nat
    /\ \A s \in Stores : IsFiniteSet(DOMAIN s)
    /\ \A o \in DOMAIN Options : o \in Flags => Options[o] \subseteq BOOLEAN

VARIABLES
    store,    \* the structured claims in view
    request,  \* the options set so far; "" and FALSE where none is
    verdict   \* "open", "accepted" or "refused"
queryVars == <<store, request, verdict>>

\* A literal has a datatype or a language, other terms neither; only an object is a literal.
TermStands(t) ==
    /\ t.kind # "LITERAL" => t.datatype = "" /\ t.language = ""
    /\ t.datatype = "" \/ t.language = ""
ClaimStands(c) ==
    /\ {c.subject, c.predicate, c.object} \subseteq {t \in Term : TermStands(t)}
    /\ c.subject.kind # "LITERAL" /\ c.predicate.kind # "LITERAL"

-----------------------------------------------------------------------------
(* Values: a number, a moment, or the form itself.                                *)
Plain(form) == [type |-> "text", value |-> form]
ReadNumber(form) == [type |-> "number", value |-> Number[form]]
ReadDate(form) == [type |-> "date", value |-> Date[form]]

normalize_term(t) ==
    CASE t.datatype = "number" /\ t.value \in DOMAIN Number -> ReadNumber(t.value)
      [] t.datatype = "date" /\ t.value \in DOMAIN Date -> ReadDate(t.value)
      [] OTHER -> Plain(t.value)
\* A bound that parses as neither is no bound.
parse_bound(form) ==
    IF form \in DOMAIN Number THEN ReadNumber(form)
    ELSE IF form \in DOMAIN Date THEN ReadDate(form) ELSE Plain(form)
IsBound(form) == parse_bound(form).type # "text"

EqMatches(t, form) ==
    LET ours == normalize_term(t)
        theirs == parse_bound(form)
    IN IF ours.type = theirs.type /\ ours.type # "text" THEN ours.value = theirs.value
       ELSE Fold[t.value] = Fold[form]

\* The conditions on strings, which say whether a claim is in the slice.
InSlice(c, r) ==
    /\ r.predicate # "" => Fold[c.predicate.value] = Fold[r.predicate]
    /\ r.contains # "" => Fold[r.contains] \in PartsOf[Fold[c.object.value]]
    /\ r.eq # "" => EqMatches(c.object, r.eq)

\* Where a claim stands to one bound: over "gt", or under "lt".
Against(c, r, bound) ==
    LET ours == normalize_term(c.object)
        theirs == parse_bound(r[bound])
        within == IF bound = "gt" THEN ours.value > theirs.value ELSE ours.value < theirs.value
    IN IF r[bound] = "" THEN "MATCHED"
       ELSE IF ours.type = "text" \/ ours.type # theirs.type THEN "NOT_COMPARABLE"
       ELSE IF within THEN "MATCHED" ELSE "UNMATCHED"

\* Mutant: an object that is equal is a match, whatever the bounds.
EqualMatches(c, r) ==
    IF r.eq # "" /\ EqMatches(c.object, r.eq) THEN "MATCHED"
    ELSE IF InSlice(c, r) THEN Against(c, r, "gt") ELSE "UNMATCHED"
\* match_claim
Match(c, r) ==
    LET over == Against(c, r, "gt")
        under == Against(c, r, "lt")
    IN IF ~InSlice(c, r) THEN "UNMATCHED" ELSE IF over # "MATCHED" THEN over ELSE under

Answering(r, outcome) == {i \in DOMAIN store : Match(store[i], r) = outcome}
-----------------------------------------------------------------------------
(* The options.                                                                   *)
HasFilters(r) == \E o \in {"predicate", "eq", "gt", "lt", "contains"} : r[o] # ""
IsAggregate(r) == r.count
IsWindowListing(r) == r.window # "" /\ ~r.question /\ ~HasFilters(r) /\ ~IsAggregate(r)
IsStructural(r) ==
    r.predicates \/ r.report \/ IsAggregate(r) \/ (~r.question /\ HasFilters(r)) \/ IsWindowListing(r)

\* TimeWindow: an end, and no end before the start.
WindowStands(w) == w \notin {"inverted", "open at both ends"}

\* _check_structural and _check_as_of
Accepted(r) ==
    /\ WindowStands(r.window)
    /\ r.question \/ IsStructural(r)
    /\ r.window # "" => ~(r.predicates \/ r.report)
    /\ IsAggregate(r) => ~r.question
    /\ r.predicates => ~(r.question \/ HasFilters(r) \/ IsAggregate(r))
    /\ r.report => ~(r.question \/ HasFilters(r) \/ IsAggregate(r) \/ r.predicates)
    /\ r.floor => IsAggregate(r)
    /\ \A o \in {"gt", "lt"} : r[o] # "" => IsBound(r[o])
    /\ r.asOf # "future"
-----------------------------------------------------------------------------
(* The predicates in use.                                                         *)
Surface(c) == <<c.predicate.value, c.predicate.kind>>
Count(P(_)) == Cardinality({i \in DOMAIN store : P(store[i])})

\* predicate_vocabulary: every form as it is stored, with its claims.
Listing == [s \in {Surface(store[i]) : i \in DOMAIN store} |-> Count(LAMBDA c : Surface(c) = s)]

\* A URI is kept as it is spelled.
Canonical(c) == IF c.predicate.kind = "URI" THEN c.predicate.value ELSE Normalise[c.predicate.value]

\* object_shape: an untyped literal is read by its form, though no bound compares with it.
Shape(t) ==
    LET read == IF t.datatype # "" THEN normalize_term(t)
                ELSE IF t.language = "" THEN parse_bound(t.value) ELSE Plain(t.value)
    IN IF t.kind # "LITERAL" THEN t.kind ELSE read.type

\* predicate_rows
Row(key) ==
    LET In(c) == Canonical(c) = key
        its == {store[i] : i \in {j \in DOMAIN store : In(store[j])}}
    IN [claims |-> Count(In),
        forms |-> [s \in {Surface(c) : c \in its} |-> Count(LAMBDA c : In(c) /\ Surface(c) = s)],
        shapes |-> [h \in {Shape(c.object) : c \in its} |-> Count(LAMBDA c : In(c) /\ Shape(c.object) = h)],
        classes |-> [k \in {c.class : c \in its} |-> Count(LAMBDA c : In(c) /\ c.class = k)]]
\* build_vocabulary_report
Report ==
    [rows |-> [key \in {Canonical(store[i]) : i \in DOMAIN store} |-> Row(key)],
     distinct |-> Cardinality({Surface(store[i]) : i \in DOMAIN store}),
     shapes |-> [h \in {Shape(store[i].object) : i \in DOMAIN store} |-> Count(LAMBDA c : Shape(c.object) = h)]]
-----------------------------------------------------------------------------
QueryInit ==
    /\ store \in {s \in Stores : \A i \in DOMAIN s : s[i] \in Triple /\ ClaimStands(s[i])}
    /\ request = [question |-> FALSE, predicate |-> "", eq |-> "", gt |-> "", lt |-> "",
                  contains |-> "", count |-> FALSE, predicates |-> FALSE, report |-> FALSE,
                  window |-> "", floor |-> FALSE, asOf |-> ""]
    /\ verdict = "open"

IsSet(o) == IF o \in Flags THEN request[o] ELSE request[o] # ""
Ask(o, v) ==
    /\ verdict = "open" /\ ~IsSet(o) /\ Cardinality({p \in DOMAIN request : IsSet(p)}) < MaxOptions
    /\ request' = [request EXCEPT ![o] = v]
    /\ UNCHANGED <<store, verdict>>
Send ==
    /\ verdict = "open"
    /\ verdict' = IF Accepted(request) THEN "accepted" ELSE "refused"
    /\ UNCHANGED <<store, request>>

QueryNext == (\E o \in DOMAIN Options : \E v \in Options[o] : Ask(o, v)) \/ Send
QuerySpec == QueryInit /\ [][QueryNext]_queryVars
-----------------------------------------------------------------------------
\* What an accepted request runs: just one of the six modes, and a language model only for
\* a question.
Modes == {"ask", "aggregate", "listing", "window", "predicates", "report"}
RunsAs(m, r) ==
    CASE m = "ask" -> r.question
      [] m = "aggregate" -> IsAggregate(r)
      [] m = "listing" -> ~r.question /\ ~IsAggregate(r) /\ HasFilters(r)
      [] m = "window" -> IsWindowListing(r)
      [] m = "predicates" -> r.predicates
      [] m = "report" -> r.report
OneMode ==
    verdict = "accepted" =>
        /\ request.question <=> ~IsStructural(request)
        /\ \E m \in Modes : {n \in Modes : RunsAs(n, request)} = {m}

\* Without one of its options a request has every match it has with it: filters only narrow.
FiltersNarrow ==
    \A o \in {"predicate", "eq", "gt", "lt", "contains"} :
        Answering(request, "MATCHED") \subseteq Answering([request EXCEPT ![o] = ""], "MATCHED")

\* A claim that cannot be compared is disclosed if it is in the slice, and only then; and no
\* claim is both equal to a value and beyond it.
IncomparableIsDisclosed ==
    Accepted(request) =>
        /\ \A i \in Answering(request, "NOT_COMPARABLE") : InSlice(store[i], request)
        /\ \A i \in DOMAIN store :
              InSlice(store[i], request) /\ request.gt # "" /\ request.lt \in {"", request.gt} /\
              normalize_term(store[i].object).type # parse_bound(request.gt).type
                => i \in Answering(request, "NOT_COMPARABLE")
        /\ request.eq # "" /\ request.eq \in {request.gt, request.lt} => Answering(request, "MATCHED") = {}

\* The report and the listing account for the same claims: a form is in one row, with the
\* count of the listing, and the columns of a row add up to its claims.
Total(column) == MapThenSumSet(LAMBDA x : column[x], DOMAIN column)
AccountsAgree ==
    LET rows == Report.rows
        Shaped(h) == [k \in DOMAIN rows |-> IF h \in DOMAIN rows[k].shapes THEN rows[k].shapes[h] ELSE 0]
    IN /\ \A s \in DOMAIN Listing :
             \E k \in DOMAIN rows :
                /\ s \in DOMAIN rows[k].forms /\ rows[k].forms[s] = Listing[s]
                /\ \A other \in DOMAIN rows \ {k} : s \notin DOMAIN rows[other].forms
       /\ \A k \in DOMAIN rows : \A column \in {"forms", "shapes", "classes"} :
             Total(rows[k][column]) = rows[k].claims
       /\ Report.distinct = Cardinality(DOMAIN Listing)
       /\ \A h \in DOMAIN Report.shapes : Report.shapes[h] = Total(Shaped(h))

\* What is asked of a store is answered, and what is not answered is told.
QueriesAreAnswered == OneMode /\ FiltersNarrow /\ IncomparableIsDisclosed /\ AccountsAgree
=============================================================================
