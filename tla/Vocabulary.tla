--------------------------------- MODULE Vocabulary ---------------------------------
(***************************************************************************)
(* The reviewed predicate vocabularies of an operator                      *)
(* (src/particles/core/vocabulary.py): documents of minted terms, each     *)
(* ruling the next version of a document, and the alias and profile        *)
(* candidates a census proposes to a reviewer, who may rule on one long    *)
(* after it was computed.  Everything is on one subject class, since a     *)
(* term of another class shares nothing but the pool of local names.  A    *)
(* local name is the slug of the form that minted it and a number; which   *)
(* forms embed close together and agree in polarity and direction is the   *)
(* partition Parts.                                                        *)
(***************************************************************************)
EXTENDS Integers, FiniteSets, Sequences, FiniteSetsExt

CONSTANTS
    Form,        \* normalised predicates of the census, in order of their claims
    Slug,        \* [Form -> slug], where two forms may share one
    Parts,       \* disjoint sets of forms: the clusters, split by signature
    Target,      \* external properties a term may be aligned with
    Published,   \* per target, the constraint sets its source may publish
    Document,    \* the documents in force
    MaxRulings   \* bound: rulings in all documents

ASSUME VocabularyAssumption ==
    /\ \A p \in Parts : p \subseteq Form
    /\ \A p, q \in Parts : p # q => p \cap q = {}
    /\ "profile" \notin Target /\ MaxRulings \in Nat

VARIABLES
    doc,        \* the terms of each document
    version,    \* rulings made in it so far
    proposed,   \* every proposal made; its key is left out of later plans
    rulings     \* history: what each document ruled about kinds, in order

vocabulary == <<doc, version, proposed, rulings>>

\* _KEEPING_ORDER
Keeping == <<"TIMELESS_SINGLE", "MANY_AT_ONCE", "ONE_AT_A_TIME">>
Kind == {Keeping[i] : i \in 1..3}
Unstated == "UNSTATED"

MostKeeping(kinds) ==
    IF kinds = {} THEN Unstated
    ELSE Keeping[CHOOSE i \in 1..3 : /\ Keeping[i] \in kinds
                                     /\ \A k \in 1..(i - 1) : Keeping[k] \notin kinds]

\* kind_from_source, over the constraints a source publishes: functional or
\* sh:maxCount 1; a Wikidata single-value constraint with no separator, with a time
\* qualifier, with other separators only; the best-value one, timed or not; multi-value.
KindOf(constraint) ==
    CASE constraint \in {"functional", "single", "best"} -> {"TIMELESS_SINGLE"}
      [] constraint \in {"singleTimed", "bestTimed"} -> {"ONE_AT_A_TIME"}
      [] constraint = "multi" -> {"MANY_AT_ONCE"}
      [] constraint = "singleSeparated" -> {}
KindFromSource(constraints) == MostKeeping(UNION {KindOf(c) : c \in constraints})

-----------------------------------------------------------------------------
\* Terms

Alignment(target, match, constraints) ==
    [target |-> target, match |-> match, constraints |-> constraints]
NoProfile == [kind |-> Unstated, roles |-> {}]
Forms(t) == {t.form} \cup t.aliases

\* find_term, on a set of terms.
Covering(terms, f) == {t \in terms : f \in Forms(t)}
Covers(terms, f) == Covering(terms, f) # {}
FindTerm(terms, f) == CHOOSE t \in Covering(terms, f) : TRUE

\* mint_local_name: base, base-2, base-3, ...
MintLocalName(terms, f) ==
    LET free == {n \in 1..(Cardinality(terms) + 1) : <<Slug[f], n>> \notin {t.name : t \in terms}}
    IN  <<Slug[f], Min(free)>>

Mint(terms, f) ==
    [name |-> MintLocalName(terms, f), form |-> f, aliases |-> {}, alignments |-> {},
     profile |-> NoProfile]

\* _ensure_term
Ensured(terms, f) == IF Covers(terms, f) THEN FindTerm(terms, f) ELSE Mint(terms, f)

\* What VocabularyDocument and VocabularyTerm refuse of a revision.
Valid(terms) ==
    /\ \A t, u \in terms : t # u => t.name # u.name /\ Forms(t) \cap Forms(u) = {}
    /\ \A t \in terms : t.profile.roles \subseteq Forms(t)

RulingsMade == MapThenSumSet(LAMBDA d : version[d], Document)

\* _revise: the next version, checked whole.
Revise(d, old, new) ==
    LET terms == (doc[d] \ {old}) \cup {new} IN
    /\ RulingsMade < MaxRulings /\ Valid(terms)
    /\ doc' = [doc EXCEPT ![d] = terms]
    /\ version' = [version EXCEPT ![d] = @ + 1]

\* The aliases add_alias refuses: another term's forms.
TakenElsewhere(d, f, aliases) ==
    {a \in aliases : a \notin Forms(Ensured(doc[d], f)) /\ Covers(doc[d], a)}

Admits(d, f, aliases) == TakenElsewhere(d, f, aliases) = {}

WithAliases(t, aliases) == [t EXCEPT !.aliases = @ \cup (aliases \ {t.form})]

\* Mutant: another term in the way is merged into this one.
AddAliasMerging(d, f, aliases) ==
    LET t == Ensured(doc[d], f)
        merged == {u \in doc[d] : u # t /\ Forms(u) \cap aliases # {}}
        terms == (doc[d] \ ({t} \cup merged)) \cup
                 {WithAliases(t, aliases \cup UNION {Forms(u) : u \in merged})}
    IN  /\ RulingsMade < MaxRulings /\ Valid(terms)
        /\ doc' = [doc EXCEPT ![d] = terms] /\ version' = [version EXCEPT ![d] = @ + 1]

AddAlias(d, f, aliases) ==
    LET t == Ensured(doc[d], f) IN
    Admits(d, f, aliases) /\ Revise(d, t, WithAliases(t, aliases))

Ruled(d, ruling) == rulings' = [rulings EXCEPT ![d] = Append(@, ruling)]

\* set_profile; a role for a form the term does not cover fails the revision.
SetProfile(d, f, kind, roles) ==
    LET t == Ensured(doc[d], f) IN
    /\ Revise(d, t, [t EXCEPT !.profile = [kind |-> kind, roles |-> roles]])
    /\ Ruled(d, [name |-> t.name, target |-> "profile", match |-> "profile", kind |-> kind])

\* A ruling about one target supersedes the earlier one.
Realigned(t, a) == {b \in t.alignments : b.target # a.target} \cup {a}

\* add_alignment, on an existing term only.
AddAlignment(d, t, a) ==
    /\ t \in doc[d]
    /\ Revise(d, t, [t EXCEPT !.alignments = Realigned(t, a)])
    /\ Ruled(d, [name |-> t.name, target |-> a.target, match |-> a.match,
                  kind |-> KindFromSource(a.constraints)])

\* effective_kind: the sources that are more than close, else the profile.
EffectiveKind(t) ==
    LET stated == {KindFromSource(a.constraints) : a \in {b \in t.alignments : b.match # "close"}}
                    \ {Unstated}
    IN  IF stated # {} THEN MostKeeping(stated) ELSE t.profile.kind

-----------------------------------------------------------------------------
\* Proposals

AllTerms == UNION {doc[d] : d \in Document}
Covered(f) == Covers(AllTerms, f)

\* The members no document covers.
Fresh(part, canonical) == {f \in part : ~Covered(f)} \ {canonical}

\* _alias_proposal: none for a part over two terms, or with nothing new to say.  The
\* canonical form is a covering term's, else the one with most claims.  `covered` is
\* filled document by document, so which of two documents' terms it holds is left open.
AliasProposals(part) ==
    LET anchored == {f \in part : Covered(f)}
        names == {t.name : t \in {u \in AllTerms : Forms(u) \cap part # {}}}
        canonicals == IF anchored = {} THEN {CHOOSE f \in part : \A g \in part : f <= g}
                      ELSE {t.form : t \in {u \in AllTerms : Forms(u) \cap anchored # {}}}
    IN  IF Cardinality(part) < 2 \/ Cardinality(names) > 1 THEN {}
        ELSE {[kind |-> "alias", form |-> c, aliases |-> Fresh(part, c)] :
                  c \in {k \in canonicals : Fresh(part, k) # {}}}

\* A form that is uncovered, or the canonical form of a term without a profile.
ProfileProposals ==
    {[kind |-> "profile", form |-> f, aliases |-> {}] :
        f \in {g \in Form : \A t \in Covering(AllTerms, g) : t.profile = NoProfile /\ t.form = g}}

\* plan_proposals, less the keys it is told to leave out.
Plan == ((UNION {AliasProposals(part) : part \in Parts}) \cup ProfileProposals) \ proposed

-----------------------------------------------------------------------------
Init ==
    /\ doc = [d \in Document |-> {}] /\ version = [d \in Document |-> 0]
    /\ proposed = {} /\ rulings = [d \in Document |-> <<>>]

\* A `vocab propose` run hands its plan to the reviewer.
Propose ==
    /\ Plan # {}
    /\ proposed' = proposed \cup Plan
    /\ UNCHANGED <<doc, version, rulings>>

\* The reviewer confirms a proposal, whatever has been ruled since it was made; one
\* that is turned down just stays proposed.
Confirm(p) ==
    /\ p \in proposed
    /\ \/ /\ p.kind = "alias"
          /\ \E d \in Document : AddAlias(d, p.form, p.aliases)
          /\ UNCHANGED rulings
       \/ /\ p.kind = "profile"
          /\ \E d \in Document, k \in Kind : SetProfile(d, p.form, k, {})
    /\ UNCHANGED proposed

\* A ruling of the operator's own, no proposal behind it; the role it may give is for one
\* form, which the term covers or not.
RuleDirectly(d) ==
    /\ \/ \E f \in Form, as \in SUBSET Form : AddAlias(d, f, as) /\ UNCHANGED rulings
       \/ \E f \in Form, k \in Kind, roles \in {{}, {Min(Form)}} : SetProfile(d, f, k, roles)
       \/ \E t \in doc[d], x \in Target, m \in {"exact", "close"} :
             \E cs \in Published[x] : AddAlignment(d, t, Alignment(x, m, cs))
    /\ UNCHANGED proposed

Next == Propose \/ (\E p \in proposed : Confirm(p)) \/ (\E d \in Document : RuleDirectly(d))

Spec == Init /\ [][Next]_vocabulary

-----------------------------------------------------------------------------
\* A minted term is never merged away or renamed: whatever rulings follow, a form keeps
\* the IRI it was published under and that IRI its canonical form.
MintedIsForever ==
    [][\A d \in Document : \A t \in doc[d] : \E u \in doc'[d] :
          u.name = t.name /\ u.form = t.form /\ t.aliases \subseteq u.aliases]_vocabulary

\* No proposal asks for what add_alias refuses: in any document, as it stands when
\* the plan is made, every proposed alias can be confirmed.
ProposalsAreAdmitted ==
    \A p \in Plan : p.kind = "alias" => \A d \in Document : Admits(d, p.form, p.aliases)

\* A term's kind follows from its rulings whatever their order: of the latest ruling on
\* every target that is more than a close match the kind that keeps most claims, else the
\* latest profile.
KindFollowsRulings ==
    \A d \in Document : \A t \in doc[d] :
        LET about(x) == {i \in DOMAIN rulings[d] :
                            rulings[d][i].name = t.name /\ rulings[d][i].target = x}
            last(x) == rulings[d][Max(about(x))]
            stated == {last(x).kind : x \in {y \in Target : about(y) # {} /\ last(y).match # "close"}}
            kinds == stated \ {Unstated}
        IN  EffectiveKind(t) = IF kinds # {} THEN MostKeeping(kinds)
                               ELSE IF about("profile") # {} THEN last("profile").kind
                               ELSE Unstated

\* Proposals are admissible rulings, kinds follow the rulings, and a minted name stays
\* minted.
RulingsDecide == [](ProposalsAreAdmitted /\ KindFollowsRulings) /\ MintedIsForever
=====================================================================================
