-------------------------- MODULE ConflictRecordProofs --------------------------
(***************************************************************************)
(* What ConflictRecord promises for any number of claims and records and   *)
(* census records of any size: the types, the status table, that a held    *)
(* claim stays on a record, and what a verdict does to both sides.         *)
(***************************************************************************)
EXTENDS ConflictRecord, FiniteSetTheorems, SequenceTheorems, TLAPS

\* What a record that was opened names: two non-empty sides without a common
\* claim, of claims that exist, none held on side A.
Named ==
    \A r \in Record : record[r].status # "none" =>
        /\ Len(record[r].a) > 0 /\ Len(record[r].b) > 0
        /\ SideA(r) \cap SideB(r) = {}
        /\ \A c \in Members(r) : claim[c] # Unborn
        /\ \A c \in SideA(r) : claim[c] # Held

\* Every held claim is the B of one open record and of no second one.
HeldOn ==
    \A c \in Claim : claim[c] = Held =>
        \E r \in Record : /\ Open(r) /\ B(r) = c
                          /\ \A q \in Record : Open(q) /\ B(q) = c => q = r

IInv == TypeOK /\ Named /\ HeldOn

Origin == {"extract", "retired", "census"}
RecordState == [status : {"none", "INCONSISTENCY", "RETRACTED"},
                a : Seq(Ref), b : Seq(Ref), origin : Origin]

LEMMA StatesDiffer ==
    /\ ClaimState = {Unborn, Active, Held, Overruled, Discarded, Promoted, Merged,
                     Retracted, Updated, Reindexed}
    /\ Unborn \notin {Active, Held, Overruled, Discarded, Promoted}
    /\ Active \notin {Held, Overruled, Discarded, Promoted, Merged, Retracted, Updated, Reindexed}
    /\ Held \notin {Overruled, Discarded, Promoted, Merged, Retracted, Updated, Reindexed}
    /\ \A s \in ClaimState : s.status = "ACTIVE" <=> s = Active
    /\ Held.status = "PROVENANCE_STALE" /\ Unborn.status = "none"
BY DEF ClaimState, State, Unborn, Active, Held, Overruled, Discarded, Promoted, Merged,
       Retracted, Updated, Reindexed

\* The sides of an opened record, their representatives included.
LEMMA Representatives ==
    ASSUME TypeOK, Named, NEW r \in Record, record[r].status # "none"
    PROVE  /\ A(r) \in Ref /\ B(r) \in Ref
           /\ A(r) # NoClaim => A(r) \in SideA(r)
           /\ B(r) # NoClaim => B(r) \in SideB(r)
           /\ SideA(r) \subseteq Claim /\ SideB(r) \subseteq Claim
           /\ Members(r) = SideA(r) \cup SideB(r)
<1>1. record[r].a \in Seq(Ref) /\ record[r].b \in Seq(Ref)
    BY DEF TypeOK
<1>2. 1 \in DOMAIN record[r].a /\ 1 \in DOMAIN record[r].b
    BY <1>1 DEF Named
<1>3. \A i \in DOMAIN record[r].a : record[r].a[i] \in Ref
    BY <1>1
<1>4. \A i \in DOMAIN record[r].b : record[r].b[i] \in Ref
    BY <1>1
<1> QED BY <1>2, <1>3, <1>4 DEF A, B, SideA, SideB, Members, ToSet, Ref

\* What applying a plan does to one claim.
LEMMA ResolveClaim ==
    ASSUME TypeOK, NEW r \in Record, NEW side, NEW demoted, NEW promoted, NEW retired,
           promoted \subseteq {p \in Claim : claim[p] = Held},
           retired \subseteq Claim, demoted \subseteq Claim,
           Resolve(r, side, demoted, promoted, retired)
    PROVE  /\ DOMAIN claim' = Claim /\ claim' = [c \in Claim |-> claim'[c]]
           /\ \A c \in Claim :
                \/ c \in promoted /\ claim'[c] = Promoted
                \/ claim[c] = Unborn /\ claim'[c] = Active
                \/ c \in retired /\ c \notin promoted /\ claim'[c] = Discarded
                \/ /\ c \in demoted /\ c \notin promoted /\ DecideDemotion(c) # "NONE"
                   /\ claim'[c] = Overruled
                \/ /\ c \notin promoted /\ c \notin retired
                   /\ c \in demoted => DecideDemotion(c) = "NONE"
                   /\ claim'[c] = claim[c]
           /\ \A p \in promoted : \E c \in NewClaims : claim'[c] = Active
<1>1. PICK new \in Mints(promoted) :
          claim' = [c \in Claim |->
              IF c \in promoted THEN Promoted
              ELSE IF c \in Range(new) THEN Active
              ELSE IF c \in retired THEN Discarded
              ELSE IF c \in demoted /\ DecideDemotion(c) # "NONE" THEN Overruled
              ELSE claim[c]]
    BY DEF Resolve
<1>2. new \in [promoted -> NewClaims]
    BY DEF Mints
<1>3. Range(new) = {new[p] : p \in promoted}
    BY <1>2 DEF Range
<1>4. promoted \cap Range(new) = {} /\ Range(new) \subseteq NewClaims
    BY <1>2, <1>3, StatesDiffer DEF NewClaims
<1>8. \A p \in promoted : claim'[new[p]] = Active /\ new[p] \in NewClaims
    BY <1>2, <1>1, <1>3, <1>4 DEF NewClaims
<1>9. \A c \in Claim : c \in Range(new) => claim[c] = Unborn /\ c \notin promoted
    BY <1>4 DEF NewClaims
<1> QED BY <1>1, <1>8, <1>9

-----------------------------------------------------------------------------
\* The inductive invariant

LEMMA InitInv == Init => IInv
<1> SUFFICES ASSUME Init PROVE IInv
    OBVIOUS
<1> DEFINE none == [status |-> "none", a |-> <<>>, b |-> <<>>, origin |-> "extract"]
<1> DEFINE old(c) == [status |-> "INCONSISTENCY", a |-> <<c>>, b |-> <<NoClaim>>,
                      origin |-> "extract"]
<1>1. \A r \in Record : record[r] = none \/ \E c \in Standing : record[r] = old(c)
    BY DEF Init
<1>2. Standing \subseteq Claim
    BY DEF Standing
<1>3. none \in RecordState /\ \A c \in Claim : old(c) \in RecordState
    BY DEF RecordState, Origin, Ref
<1>4. record \in [Record -> RecordState]
    BY <1>1, <1>2, <1>3 DEF Init
<1>5. claim \in [Claim -> {Unborn, Active}]
    BY DEF Init
<1>6. TypeOK
    BY <1>4, <1>5, StatesDiffer DEF Init, TypeOK, RecordState, Origin
<1>7. ASSUME NEW r \in Record, record[r].status # "none"
      PROVE  /\ Len(record[r].a) > 0 /\ Len(record[r].b) > 0
             /\ SideB(r) = {} /\ \A c \in SideA(r) : claim[c] = Active
  <2>0. record[r] # none
      BY <1>7
  <2>1. PICK c \in Standing : record[r] = old(c)
    <3> HIDE DEF none, old
    <3> QED BY <1>1, <2>0
  <2>2. record[r].a = <<c>> /\ record[r].b = <<NoClaim>>
      BY <2>1
  <2>3. SideA(r) \subseteq {c} /\ SideB(r) = {}
      BY <2>2 DEF SideA, SideB, ToSet
  <2> QED BY <2>2, <2>3 DEF Standing
<1>8. Named
    BY <1>7, StatesDiffer DEF Named, Members
<1>9. HeldOn
    BY <1>5, StatesDiffer DEF HeldOn
<1> QED BY <1>6, <1>8, <1>9 DEF IInv

\* A plan on an open record that deals with a held B keeps the invariant.
LEMMA ResolveInv ==
    ASSUME IInv, NEW r \in Record, NEW side \in {"none", "A", "B"},
           NEW demoted, NEW promoted, NEW retired, Open(r),
           demoted \subseteq Members(r), retired \subseteq Members(r),
           promoted \subseteq Quarantined(Members(r)),
           \A c \in Members(r) : c = B(r) /\ IsQuarantined(c) =>
               c \in demoted \cup promoted \cup retired,
           Resolve(r, side, demoted, promoted, retired)
    PROVE  IInv'
<1> USE DEF IInv
<1>1. /\ Members(r) \subseteq Claim
      /\ B(r) # NoClaim => B(r) \in Members(r)
    BY Representatives DEF Open
<1>2. promoted \subseteq {p \in Claim : claim[p] = Held}
    BY <1>1 DEF Quarantined, IsQuarantined
<1>3. /\ claim' = [c \in Claim |-> claim'[c]]
      /\ \A c \in Claim :
            \/ c \in promoted /\ claim'[c] = Promoted
            \/ claim[c] = Unborn /\ claim'[c] = Active
            \/ c \in retired /\ c \notin promoted /\ claim'[c] = Discarded
            \/ /\ c \in demoted /\ c \notin promoted /\ DecideDemotion(c) # "NONE"
               /\ claim'[c] = Overruled
            \/ /\ c \notin promoted /\ c \notin retired
               /\ c \in demoted => DecideDemotion(c) = "NONE"
               /\ claim'[c] = claim[c]
    BY <1>1, <1>2, ResolveClaim
<1>4. \A c \in Claim : claim[c] \in ClaimState
    BY DEF TypeOK
<1>5. \A c \in Claim : claim'[c] \in ClaimState
    BY <1>3, <1>4, StatesDiffer
<1>6. record' = [record EXCEPT ![r].status = "RETRACTED"] /\ record \in [Record -> RecordState]
    BY DEF Resolve, Close, TypeOK, RecordState, Origin
<1>7. /\ record' \in [Record -> RecordState]
      /\ \A q \in Record : record'[q].a = record[q].a /\ record'[q].b = record[q].b
      /\ \A q \in Record \ {r} : record'[q].status = record[q].status
      /\ record'[r].status = "RETRACTED"
    BY <1>6 DEF RecordState
<1>8. TypeOK'
    BY <1>3, <1>5, <1>7 DEF TypeOK, Resolve, RecordState, Origin
<1>9. \A q \in Record : /\ SideA(q)' = SideA(q) /\ SideB(q)' = SideB(q)
                        /\ Members(q)' = Members(q) /\ B(q)' = B(q)
    BY <1>7 DEF SideA, SideB, Members, B
<1>10. \A c \in Claim : claim[c] # Unborn => claim'[c] # Unborn
    BY <1>3, StatesDiffer
<1>11. \A c \in Claim : claim'[c] = Held =>
          claim[c] = Held /\ c \notin promoted \cup retired \cup demoted
  <2>1. \A c \in Claim : claim[c] = Held => DecideDemotion(c) # "NONE"
      BY StatesDiffer, RecordAssumption DEF DecideDemotion, IsQuarantined, Terminal
  <2> QED BY <1>3, <2>1, StatesDiffer
<1>12. Named'
  <2>1. ASSUME NEW q \in Record, record'[q].status # "none"
        PROVE  /\ record[q].status # "none"
               /\ SideA(q) \subseteq Claim /\ SideB(q) \subseteq Claim
               /\ Members(q) = SideA(q) \cup SideB(q)
    <3>1. record[q].status # "none"
        BY <1>7, <2>1 DEF Open
    <3> QED BY <3>1, Representatives
  <2> QED BY <1>7, <1>9, <1>10, <1>11, <2>1 DEF Named
<1>13. HeldOn'
  <2> SUFFICES ASSUME NEW c \in Claim, claim'[c] = Held
               PROVE  \E q \in Record : /\ Open(q)' /\ B(q)' = c
                                        /\ \A p \in Record : Open(p)' /\ B(p)' = c => p = q
      BY DEF HeldOn
  <2>1. claim[c] = Held /\ c \notin promoted \cup retired \cup demoted
      BY <1>11
  <2>2. PICK q \in Record : /\ Open(q) /\ B(q) = c
                            /\ \A p \in Record : Open(p) /\ B(p) = c => p = q
      BY <2>1 DEF HeldOn
  <2>3. q # r
      BY <1>1, <2>1, <2>2, RecordAssumption DEF IsQuarantined
  <2>4. \A p \in Record : Open(p)' => Open(p)
      BY <1>7 DEF Open
  <2>5. Open(q)'
      BY <1>7, <2>2, <2>3 DEF Open
  <2> QED BY <1>9, <2>2, <2>4, <2>5
<1> QED BY <1>8, <1>12, <1>13

\* Opening a record on claims that exist, of which only a new B is held, keeps
\* the invariant.
LEMMA OpenInv ==
    ASSUME IInv, NEW r \in Record, NEW a \in Seq(Claim), NEW b \in Seq(Claim),
           NEW origin \in Origin, OpenRecord(r, a, b, origin),
           Len(a) > 0, Len(b) > 0, ToSet(a) \cap ToSet(b) = {},
           claim' \in [Claim -> ClaimState],
           \A c \in Claim : \/ claim'[c] = claim[c] /\ (claim[c] = Held => c # b[1])
                            \/ claim[c] = Unborn /\ claim'[c] = Held /\ c = b[1],
           \A c \in ToSet(a) \cup ToSet(b) : claim'[c] # Unborn,
           \A c \in ToSet(a) : claim'[c] # Held
    PROVE  IInv'
<1> USE DEF IInv
<1> DEFINE opened == [status |-> "INCONSISTENCY", a |-> a, b |-> b, origin |-> origin]
<1>1. record' = [record EXCEPT ![r] = opened] /\ record \in [Record -> RecordState]
    BY DEF OpenRecord, TypeOK, RecordState, Origin
<1>2. a \in Seq(Ref) /\ b \in Seq(Ref)
    BY DEF Ref
<1>3. opened \in RecordState
    BY <1>2 DEF RecordState
<1>4. /\ record' \in [Record -> RecordState] /\ record'[r] = opened
      /\ \A q \in Record \ {r} : record'[q] = record[q]
    BY <1>1, <1>3
<1>5. TypeOK'
    BY <1>4 DEF OpenRecord, TypeOK, RecordState, Origin
<1>6. \A q \in Record \ {r} : /\ SideA(q)' = SideA(q) /\ SideB(q)' = SideB(q)
                              /\ Members(q)' = Members(q) /\ B(q)' = B(q)
    BY <1>4 DEF SideA, SideB, Members, B
<1>7. record'[r].status = "INCONSISTENCY" /\ record'[r].a = a /\ record'[r].b = b
    BY <1>4
<1>8. /\ SideA(r)' \subseteq ToSet(a) /\ SideB(r)' \subseteq ToSet(b)
      /\ Members(r)' \subseteq ToSet(a) \cup ToSet(b) /\ B(r)' = b[1]
    BY <1>7 DEF SideA, SideB, Members, B
<1>9. \A c \in Claim : claim[c] # Unborn =>
          claim'[c] # Unborn /\ (claim'[c] = Held => claim[c] = Held)
    BY StatesDiffer
<1>10. Named'
  <2>1. ASSUME NEW q \in Record \ {r}, record'[q].status # "none"
        PROVE  /\ record[q].status # "none"
               /\ SideA(q) \subseteq Claim /\ SideB(q) \subseteq Claim
               /\ Members(q) = SideA(q) \cup SideB(q)
    <3>1. record[q].status # "none"
        BY <1>4, <2>1
    <3> QED BY <3>1, Representatives
  <2>2. ASSUME NEW q \in Record \ {r}, record'[q].status # "none"
        PROVE  /\ Len(record'[q].a) > 0 /\ Len(record'[q].b) > 0
               /\ (SideA(q) \cap SideB(q) = {})'
               /\ \A c \in Members(q)' : claim'[c] # Unborn
               /\ \A c \in SideA(q)' : claim'[c] # Held
      BY <1>4, <1>6, <1>9, <2>1, <2>2 DEF Named
  <2>3. /\ Len(record'[r].a) > 0 /\ Len(record'[r].b) > 0
        /\ (SideA(r) \cap SideB(r) = {})'
        /\ \A c \in Members(r)' : claim'[c] # Unborn
        /\ \A c \in SideA(r)' : claim'[c] # Held
      BY <1>7, <1>8
  <2> QED BY <2>2, <2>3 DEF Named
<1>11. HeldOn'
  <2> SUFFICES ASSUME NEW c \in Claim, claim'[c] = Held
               PROVE  \E q \in Record : /\ Open(q)' /\ B(q)' = c
                                        /\ \A p \in Record : Open(p)' /\ B(p)' = c => p = q
      BY DEF HeldOn
  <2>1. CASE claim[c] = Held /\ c # b[1]
    <3>1. PICK q \in Record : /\ Open(q) /\ B(q) = c
                              /\ \A p \in Record : Open(p) /\ B(p) = c => p = q
        BY <2>1 DEF HeldOn
    <3>2. q # r
        BY <3>1 DEF Open, OpenRecord
    <3>3. Open(q)' /\ B(q)' = c
        BY <1>4, <1>6, <3>1, <3>2 DEF Open
    <3>4. \A p \in Record : Open(p)' /\ B(p)' = c => p = q
        BY <1>4, <1>6, <1>8, <2>1, <3>1 DEF Open
    <3> QED BY <3>3, <3>4
  <2>2. CASE claim[c] = Unborn /\ c = b[1]
    <3>1. Open(r)' /\ B(r)' = c
        BY <1>7, <1>8, <2>2 DEF Open
    <3>2. ASSUME NEW p \in Record, p # r, Open(p)', B(p)' = c PROVE FALSE
      <4>1. Open(p) /\ B(p) = c
          BY <1>4, <1>6, <3>2 DEF Open
      <4>2. c \in Members(p)
          BY <4>1, Representatives, RecordAssumption DEF Open
      <4> QED BY <2>2, <4>1, <4>2 DEF Named, Open
    <3> QED BY <3>1, <3>2
  <2> QED BY <2>1, <2>2, StatesDiffer
<1> QED BY <1>5, <1>10, <1>11

\* Any other change of one claim's state keeps the invariant.
LEMMA MoveInv ==
    ASSUME IInv, NEW m \in Claim, NEW state \in ClaimState \ {Unborn, Held}, Move(m, state)
    PROVE  IInv'
<1> USE DEF IInv
<1>1. /\ claim' \in [Claim -> ClaimState]
      /\ \A c \in Claim : claim'[c] = claim[c] \/ claim'[c] = state
      /\ record' = record /\ verdict' = verdict
    BY DEF Move, TypeOK
<1>2. TypeOK'
    BY <1>1 DEF TypeOK
<1>3. \A q \in Record : /\ SideA(q)' = SideA(q) /\ SideB(q)' = SideB(q)
                        /\ Members(q)' = Members(q) /\ B(q)' = B(q) /\ Open(q)' = Open(q)
    BY <1>1 DEF SideA, SideB, Members, B, Open
<1>4. Named'
  <2>1. ASSUME NEW q \in Record, record[q].status # "none"
        PROVE  SideA(q) \subseteq Claim /\ Members(q) \subseteq Claim
      BY <2>1, Representatives
  <2> QED BY <1>1, <1>3, <2>1 DEF Named
<1>5. HeldOn'
    BY <1>1, <1>3 DEF HeldOn
<1> QED BY <1>2, <1>4, <1>5

-----------------------------------------------------------------------------
\* Every operation keeps it

\* Sides and status of the record a decision is taken on.
LEMMA Decidable ==
    ASSUME IInv, NEW r \in Record, Open(r)
    PROVE  /\ SideA(r) \subseteq Members(r) /\ SideB(r) \subseteq Members(r)
           /\ Members(r) \subseteq Claim /\ SideA(r) \cap SideB(r) = {}
           /\ B(r) # NoClaim => B(r) \in SideB(r)
           /\ A(r) # NoClaim => A(r) \in SideA(r)
           /\ \A c \in SideA(r) : ~IsQuarantined(c)
BY Representatives DEF IInv, Named, Open, IsQuarantined

LEMMA NextInv == IInv /\ [Next]_vars => IInv'
<1> SUFFICES ASSUME IInv, [Next]_vars PROVE IInv'
    OBVIOUS
<1>1. ASSUME NEW c \in Claim, Extract(c) \/ Retire(c) \/ Reindex(c) \/ Unmerge(c) PROVE IInv'
  <2>1. {Active, Updated, Retracted, Merged, Reindexed} \subseteq ClaimState \ {Unborn, Held}
      BY StatesDiffer DEF Unborn, Active, Held, State, Updated, Retracted, Merged, Reindexed
  <2>2. \E state \in {Active, Updated, Retracted, Merged, Reindexed} : Move(c, state)
      BY <1>1 DEF Extract, Retire, Reindex, Unmerge
  <2> QED BY <2>1, <2>2, MoveInv
<1>2. ASSUME NEW r \in Record, NEW a \in Claim, NEW b \in Claim, NEW origin \in Origin,
             claim[a] \in {Active, Retracted, Overruled}, claim[b] = Unborn,
             claim' = [claim EXCEPT ![b] = Held], OpenRecord(r, <<a>>, <<b>>, origin)
      PROVE  IInv'
  <2>1. claim[a] \notin {Unborn, Held}
      BY <1>2, StatesDiffer DEF Unborn, State, Retracted
  <2>2. /\ claim' \in [Claim -> ClaimState]
        /\ \A c \in Claim : \/ claim'[c] = claim[c] /\ (claim[c] = Held => c # b)
                            \/ claim[c] = Unborn /\ claim'[c] = Held /\ c = b
        /\ claim'[a] = claim[a] /\ claim'[b] = Held /\ a # b
      BY <1>2, <2>1, StatesDiffer DEF IInv, TypeOK
  <2>3. <<a>> \in Seq(Claim) /\ <<b>> \in Seq(Claim) /\ Len(<<a>>) = 1 /\ Len(<<b>>) = 1
      OBVIOUS
  <2>4. ToSet(<<a>>) = {a} /\ ToSet(<<b>>) = {b} /\ <<b>>[1] = b
    <3>1. DOMAIN <<a>> = {1} /\ DOMAIN <<b>> = {1} /\ <<a>>[1] = a /\ <<b>>[1] = b
        OBVIOUS
    <3> HIDE DEF ToSet
    <3>2. \A x, s : DOMAIN s = {1} /\ s[1] = x => ToSet(s) = {x}
        BY DEF ToSet
    <3> QED BY <3>1, <3>2
  <2>5. ToSet(<<a>>) \cap ToSet(<<b>>) = {}
      BY <2>2, <2>4
  <2>6. \A c \in ToSet(<<a>>) \cup ToSet(<<b>>) : claim'[c] # Unborn
      BY <2>1, <2>2, <2>4, StatesDiffer
  <2>7. \A c \in ToSet(<<a>>) : claim'[c] # Held
      BY <2>1, <2>2, <2>4
  <2> QED BY <1>2, <2>2, <2>3, <2>4, <2>5, <2>6, <2>7, OpenInv
<1>3. ASSUME NEW r \in Record, NEW a \in Claim, NEW b \in Claim,
             Hold(r, a, b) \/ HoldRetired(r, a, b)
      PROVE  IInv'
  <2>1. CASE Hold(r, a, b)
      BY <1>2, <2>1 DEF Hold, Origin
  <2>2. CASE HoldRetired(r, a, b)
      BY <1>2, <2>2 DEF HoldRetired, Origin
  <2> QED BY <1>3, <2>1, <2>2
<1>4. ASSUME NEW r \in Record, NEW a \in Sides, NEW b \in Sides, OpenCensus(r, a, b)
      PROVE  IInv'
  <2>1. ASSUME NEW s \in Sides
        PROVE  /\ s \in Seq(Claim) /\ Len(s) > 0 /\ s[1] \in ToSet(s)
               /\ \A c \in ToSet(s) : c \in Claim /\ claim[c] = Active
    <3>1. PICK n \in 1..(MaxMembers - 1) : s \in [1..n -> Standing]
        BY DEF Sides
    <3>2. n \in Nat /\ n > 0 /\ DOMAIN s = 1..n
        BY <3>1, RecordAssumption
    <3>3. \A i \in 1..n : s[i] \in Claim /\ claim[s[i]] = Active
        BY <3>1 DEF Standing
    <3>4. s \in Seq(Claim)
      <4>1. s \in [1..n -> Claim]
          BY <3>1 DEF Standing
      <4> QED BY <3>2, <4>1
    <3>5. Len(s) = n
        BY <3>2, <3>4
    <3> QED BY <3>2, <3>3, <3>4, <3>5 DEF ToSet
  <2>2. claim' = claim /\ claim \in [Claim -> ClaimState]
      BY <1>4 DEF OpenCensus, IInv, TypeOK
  <2>3. a \in Seq(Claim) /\ b \in Seq(Claim) /\ Len(a) > 0 /\ Len(b) > 0
      BY <2>1
  <2>4. \A c \in ToSet(a) \cup ToSet(b) : claim'[c] # Unborn /\ claim'[c] # Held
      BY <2>1, <2>2, StatesDiffer
  <2>5. \A c \in Claim : claim'[c] = claim[c] /\ (claim[c] = Held => c # b[1])
      BY <2>1, <2>2, StatesDiffer
  <2>6. /\ OpenRecord(r, a, b, "census") /\ "census" \in Origin
        /\ ToSet(a) \cap ToSet(b) = {}
      BY <1>4 DEF OpenCensus, Origin
  <2> QED BY <2>2, <2>3, <2>4, <2>5, <2>6, OpenInv
<1>5. ASSUME NEW r \in Record, PreferA(r) PROVE IInv'
  <2>1. Resolve(r, "A", SideB(r), {}, {}) /\ Open(r)
      BY <1>5 DEF PreferA
  <2>2. /\ SideB(r) \subseteq Members(r) /\ {} \subseteq Members(r)
        /\ {} \subseteq Quarantined(Members(r))
      BY <2>1, Decidable
  <2>3. \A c \in Members(r) : c = B(r) /\ IsQuarantined(c) => c \in SideB(r)
      BY <2>1, Decidable DEF IsQuarantined
  <2> QED BY <2>1, <2>2, <2>3, ResolveInv
<1>6. ASSUME NEW r \in Record, PreferB(r) PROVE IInv'
  <2>1. Resolve(r, "B", SideA(r), Quarantined({B(r)}), {}) /\ Open(r)
      BY <1>6 DEF PreferB
  <2>2. Quarantined({B(r)}) \subseteq Quarantined(Members(r))
      BY <2>1, Decidable DEF Quarantined, IsQuarantined
  <2>3. \A c \in Members(r) : c = B(r) /\ IsQuarantined(c) =>
            c \in SideA(r) \cup Quarantined({B(r)}) \cup {}
      BY DEF Quarantined
  <2>4. SideA(r) \subseteq Members(r) /\ {} \subseteq Members(r)
      BY <2>1, Decidable
  <2> QED BY <2>1, <2>2, <2>3, <2>4, ResolveInv
<1>7. ASSUME NEW r \in Record, BothValid(r) PROVE IInv'
  <2>1. Resolve(r, "none", {}, Quarantined(Members(r)), {}) /\ Open(r)
      BY <1>7 DEF BothValid
  <2>2. \A c \in Members(r) : IsQuarantined(c) => c \in Quarantined(Members(r))
      BY DEF Quarantined
  <2>3. {} \subseteq Members(r)
      OBVIOUS
  <2> QED BY <2>1, <2>2, <2>3, ResolveInv
<1>8. ASSUME NEW r \in Record, Discard(r) PROVE IInv'
  <2> DEFINE out == {c \in Members(r) : Retires(c)}
  <2>1. Resolve(r, "none", {}, {}, out) /\ Open(r)
      BY <1>8 DEF Discard
  <2>2. \A c \in Members(r) : IsQuarantined(c) => c \in out
      BY StatesDiffer DEF IsQuarantined, Retires
  <2> HIDE DEF out
  <2>3. out \subseteq Members(r)
      BY DEF out
  <2> QED BY <2>1, <2>2, <2>3, ResolveInv
<1>9. ASSUME NEW r \in Record, Cascade(r) PROVE IInv'
  <2>1. PICK winner \in Members(r) :
            Resolve(r, SideOf(r, winner), Members(r) \ {winner}, Quarantined({winner}), {})
      BY <1>9 DEF Cascade
  <2>2. Open(r) /\ SideOf(r, winner) \in {"none", "A", "B"}
      BY <1>9 DEF Cascade, SideOf
  <2>3. Quarantined({winner}) \subseteq Quarantined(Members(r))
      BY DEF Quarantined
  <2>4. \A c \in Members(r) : IsQuarantined(c) =>
            c \in (Members(r) \ {winner}) \cup Quarantined({winner})
      BY DEF Quarantined
  <2> QED BY <2>1, <2>2, <2>3, <2>4, ResolveInv
<1>10. ASSUME NEW r \in Record, Release(r) PROVE IInv'
  <2>1. Resolve(r, "none", {}, {B(r)}, {}) /\ Open(r) /\ IsQuarantined(B(r))
      BY <1>10 DEF Release, Qualifies
  <2>2. B(r) \in Members(r)
      BY <2>1, Decidable DEF IsQuarantined
  <2>3. {B(r)} \subseteq Quarantined(Members(r))
      BY <2>1, <2>2 DEF Quarantined
  <2> QED BY <2>1, <2>3, ResolveInv
<1>11. ASSUME UNCHANGED vars PROVE IInv'
  <2>1. claim' = claim /\ record' = record /\ verdict' = verdict
      BY <1>11 DEF vars
  <2>2. TypeOK'
      BY <2>1 DEF IInv, TypeOK
  <2>3. Named'
      BY <2>1 DEF IInv, Named, SideA, SideB, Members
  <2>4. HeldOn'
    <3>1. \A q \in Record : Open(q)' = Open(q) /\ B(q)' = B(q)
        BY <2>1 DEF Open, B
    <3> QED BY <2>1, <3>1 DEF IInv, HeldOn
  <2> QED BY <2>2, <2>3, <2>4 DEF IInv
<1> QED BY <1>1, <1>3, <1>4, <1>5, <1>6, <1>7, <1>8, <1>9, <1>10, <1>11 DEF Next

LEMMA Inductive == Spec => []IInv
BY InitInv, NextInv, PTL DEF Spec

-----------------------------------------------------------------------------
\* Theorems

\* The states the operations leave claims and records in are those of the
\* status machine: a record closes RETRACTED and nothing else (CLOSED_RECORD).
THEOREM RecordTypeCorrect == Spec => []TypeOK
<1>1. IInv => TypeOK
    BY DEF IInv
<1> QED BY <1>1, Inductive, PTL

\* A claim held behind a conflict is the B of exactly one open record, however
\* records are opened, reviewed, cascaded and released (conflict_review.py).
THEOREM HeldStaysOnRecord == Spec => []HeldIsOnRecord
<1>1. IInv => HeldIsOnRecord
  <2> SUFFICES ASSUME IInv, NEW c \in Claim, claim[c] = Held
               PROVE  Cardinality({r \in Record : Open(r) /\ B(r) = c}) = 1
      BY DEF HeldIsOnRecord
  <2>1. PICK r \in Record : /\ Open(r) /\ B(r) = c
                            /\ \A q \in Record : Open(q) /\ B(q) = c => q = r
      BY DEF IInv, HeldOn
  <2>2. {q \in Record : Open(q) /\ B(q) = c} = {r}
      BY <2>1
  <2> QED BY <2>2, FS_Singleton
<1> QED BY <1>1, Inductive, PTL

\* Every step moves claims and records along the status table only, whatever
\* became of them since the record was opened (status.py validate_transition).
THEOREM TransitionsAreLegal == Spec => LegalTransitions
<1>1. ASSUME IInv, [Next]_vars
      PROVE  [/\ \A c \in Claim : claim'[c].status # claim[c].status => Allowed(claim[c], claim'[c])
              /\ \A r \in Record : record'[r].status # record[r].status
                                    => Allowed(record[r], record'[r])]_vars
  <2> DEFINE Legal == /\ \A c \in Claim : claim'[c].status # claim[c].status
                                            => Allowed(claim[c], claim'[c])
                      /\ \A r \in Record : record'[r].status # record[r].status
                                            => Allowed(record[r], record'[r])
  <2> SUFFICES ASSUME Next PROVE Legal
      BY <1>1
  <2>1. ASSUME NEW m \in Claim, NEW state, Move(m, state),
               claim[m].status = state.status \/ Allowed(claim[m], state)
        PROVE  Legal
    <3>1. record' = record /\ \A c \in Claim : claim'[c] = IF c = m THEN state ELSE claim[c]
        BY <1>1, <2>1 DEF Move, IInv, TypeOK
    <3> QED BY <2>1, <3>1
  <2>2. ASSUME NEW c \in Claim, Extract(c) \/ Retire(c) \/ Reindex(c) \/ Unmerge(c) PROVE Legal
    <3>1. PICK state : Move(c, state) /\ Allowed(claim[c], state)
        BY <2>2 DEF Extract, Retire, Reindex, Unmerge, Allowed, State, Unborn, Active, Merged,
                    Updated, Retracted, Reindexed
    <3> QED BY <2>1, <3>1
  <2>3. ASSUME NEW r \in Record, NEW a, NEW b, NEW origin, OpenRecord(r, a, b, origin)
        PROVE  \A q \in Record : record'[q].status # record[q].status
                                  => Allowed(record[q], record'[q])
    <3>1. /\ \A q \in Record \ {r} : record'[q] = record[q]
          /\ record[r].status = "none" /\ record'[r].status = "INCONSISTENCY"
        BY <1>1, <2>3 DEF OpenRecord, IInv, TypeOK
    <3> QED BY <3>1 DEF Allowed
  <2>4. ASSUME NEW r \in Record, NEW a \in Claim, NEW b \in Claim,
               Hold(r, a, b) \/ HoldRetired(r, a, b)
        PROVE  Legal
    <3>1. /\ claim[b] = Unborn
          /\ \A c \in Claim : claim'[c] = IF c = b THEN Held ELSE claim[c]
        BY <1>1, <2>4 DEF Hold, HoldRetired, IInv, TypeOK
    <3>2. \A c \in Claim : claim'[c].status # claim[c].status => Allowed(claim[c], claim'[c])
        BY <3>1, StatesDiffer DEF Allowed
    <3> QED BY <2>3, <2>4, <3>2 DEF Hold, HoldRetired
  <2>5. ASSUME NEW r \in Record, NEW a \in Sides, NEW b \in Sides, OpenCensus(r, a, b)
        PROVE  Legal
      BY <2>3, <2>5 DEF OpenCensus
  <2>6. ASSUME NEW r \in Record, NEW side, NEW demoted, NEW promoted, NEW retired, Open(r),
               demoted \subseteq Members(r), retired \subseteq {c \in Members(r) : Retires(c)},
               promoted \subseteq {c \in Claim : claim[c] = Held},
               Resolve(r, side, demoted, promoted, retired)
        PROVE  Legal
    <3>1. Members(r) \subseteq Claim /\ \A c \in Members(r) : claim[c] # Unborn
        BY <1>1, <2>6, Decidable DEF IInv, Named, Open
    <3>2. \A c \in Claim :
              \/ claim[c] = Held /\ claim'[c] = Promoted
              \/ claim[c] = Unborn /\ claim'[c] = Active
              \/ Retires(c) /\ claim'[c] = Discarded
              \/ c \in demoted /\ DecideDemotion(c) # "NONE" /\ claim'[c] = Overruled
              \/ claim'[c] = claim[c]
        BY <1>1, <2>6, <3>1, ResolveClaim DEF IInv
    <3>3. ASSUME NEW c \in Claim, c \in demoted, DecideDemotion(c) # "NONE"
          PROVE  claim[c].status \in {"ACTIVE", "PROVENANCE_STALE"}
      <4>1. claim[c].status \notin Terminal
          BY <3>3, StatesDiffer DEF DecideDemotion, IsQuarantined, Terminal
      <4>2. claim[c] \in ClaimState /\ claim[c] # Unborn
          BY <1>1, <2>6, <3>1, <3>3 DEF IInv, TypeOK
      <4> QED BY <4>1, <4>2 DEF Terminal, ClaimState, State, Unborn, Active, Held, Overruled,
              Discarded, Promoted, Merged, Retracted, Updated, Reindexed
    <3>4. ASSUME NEW c \in Claim, claim'[c].status # claim[c].status
          PROVE  Allowed(claim[c], claim'[c])
      <4>1. CASE claim[c] = Held /\ claim'[c] = Promoted
          BY <4>1 DEF Allowed, Held, Promoted, State
      <4>2. CASE claim[c] = Unborn /\ claim'[c] = Active
          BY <4>2 DEF Allowed, Unborn, Active, State
      <4>3. CASE Retires(c) /\ claim'[c] = Discarded
          BY <4>3 DEF Allowed, Retires, Discarded, State
      <4>4. CASE c \in demoted /\ DecideDemotion(c) # "NONE" /\ claim'[c] = Overruled
          BY <3>3, <3>4, <4>4 DEF Allowed, Overruled, State
      <4> QED BY <3>2, <3>4, <4>1, <4>2, <4>3, <4>4
    <3>5. ASSUME NEW q \in Record, record'[q].status # record[q].status
          PROVE  Allowed(record[q], record'[q])
      <4>1. q = r /\ record'[r].status = "RETRACTED" /\ record[r].status = "INCONSISTENCY"
          BY <1>1, <2>6, <3>5 DEF Resolve, Close, Open, IInv, TypeOK
      <4> QED BY <4>1 DEF Allowed
    <3> QED BY <3>4, <3>5
  <2>7. ASSUME NEW r \in Record,
               \/ PreferA(r) \/ PreferB(r) \/ BothValid(r)
               \/ Discard(r) \/ Cascade(r) \/ Release(r)
        PROVE  Legal
    <3>1. Open(r)
        BY <2>7 DEF PreferA, PreferB, BothValid, Discard, Cascade, Release, Qualifies
    <3>2. SideA(r) \subseteq Members(r) /\ SideB(r) \subseteq Members(r)
          /\ Members(r) \subseteq Claim /\ (B(r) # NoClaim => B(r) \in Claim)
        BY <1>1, <3>1, Decidable
    <3>3. Quarantined(Members(r)) \subseteq {c \in Claim : claim[c] = Held}
        BY <3>2 DEF Quarantined, IsQuarantined
    <3>4. Quarantined({B(r)}) \subseteq {c \in Claim : claim[c] = Held}
        BY <3>2 DEF Quarantined, IsQuarantined
    <3>5. \A w \in Members(r) : Quarantined({w}) \subseteq {c \in Claim : claim[c] = Held}
        BY <3>2 DEF Quarantined, IsQuarantined
    <3>6. \E side, demoted, promoted, retired :
              /\ demoted \subseteq Members(r) /\ retired \subseteq {c \in Members(r) : Retires(c)}
              /\ promoted \subseteq {c \in Claim : claim[c] = Held}
              /\ Resolve(r, side, demoted, promoted, retired)
      <4>1. CASE PreferA(r)
        <5>1. Resolve(r, "A", SideB(r), {}, {})
            BY <4>1 DEF PreferA
        <5> QED BY <3>2, <5>1
      <4>2. CASE PreferB(r)
        <5>1. Resolve(r, "B", SideA(r), Quarantined({B(r)}), {})
            BY <4>2 DEF PreferB
        <5> QED BY <3>2, <3>4, <5>1
      <4>3. CASE BothValid(r)
        <5>1. Resolve(r, "none", {}, Quarantined(Members(r)), {})
            BY <4>3 DEF BothValid
        <5> QED BY <3>3, <5>1
      <4>4. CASE Discard(r)
        <5>1. Resolve(r, "none", {}, {}, {c \in Members(r) : Retires(c)})
            BY <4>4 DEF Discard
        <5> QED BY <5>1
      <4>5. CASE Cascade(r)
        <5>1. PICK w \in Members(r) :
                  Resolve(r, SideOf(r, w), Members(r) \ {w}, Quarantined({w}), {})
            BY <4>5 DEF Cascade
        <5>2. Members(r) \ {w} \subseteq Members(r)
            OBVIOUS
        <5> QED BY <3>5, <5>1, <5>2
      <4>6. CASE Release(r)
        <5>1. Resolve(r, "none", {}, {B(r)}, {}) /\ IsQuarantined(B(r))
            BY <4>6 DEF Release, Qualifies
        <5>2. {B(r)} \subseteq {c \in Claim : claim[c] = Held}
            BY <3>2, <5>1 DEF IsQuarantined
        <5> QED BY <5>1, <5>2
      <4> QED BY <2>7, <4>1, <4>2, <4>3, <4>4, <4>5, <4>6
    <3> QED BY <2>6, <3>1, <3>6
  <2> QED BY <2>2, <2>4, <2>5, <2>7 DEF Next
<1> QED BY <1>1, Inductive, PTL DEF Spec, LegalTransitions

\* What a verdict does to the two sides.
LEMMA VerdictClaims ==
    ASSUME IInv, NEW r \in Record, Open(r), NEW side \in {"none", "A", "B"}, NEW demoted,
           NEW promoted, demoted \subseteq Members(r),
           promoted \subseteq {c \in Claim : claim[c] = Held},
           Resolve(r, side, demoted, promoted, {})
    PROVE  /\ \A c \in demoted : claim'[c] # Active
           /\ \A c \in Members(r) \ demoted : claim[c] = Active => claim'[c] = Active
           /\ promoted # {} => \E c \in NewClaims : claim'[c] = Active
           /\ \A q \in Record : verdict'[q] # verdict[q] => q = r /\ verdict'[r] = side
<1>1. Members(r) \subseteq Claim /\ \A c \in Members(r) : claim[c] # Unborn
    BY Decidable DEF IInv, Named, Open
<1>2. /\ \A c \in Claim :
            \/ claim[c] = Held /\ claim'[c] = Promoted
            \/ claim[c] = Unborn /\ claim'[c] = Active
            \/ c \in demoted /\ DecideDemotion(c) # "NONE" /\ claim'[c] = Overruled
            \/ (c \in demoted => DecideDemotion(c) = "NONE") /\ claim'[c] = claim[c]
      /\ \A p \in promoted : \E c \in NewClaims : claim'[c] = Active
    BY <1>1, ResolveClaim DEF IInv
<1>3. \A c \in Claim : claim[c] = Active => DecideDemotion(c) # "NONE"
    BY StatesDiffer DEF DecideDemotion, IsQuarantined, Terminal, Active, State
<1>4. \A c \in demoted : claim'[c] # Active
    BY <1>1, <1>2, <1>3, StatesDiffer
<1>5. \A c \in Members(r) \ demoted : claim[c] = Active => claim'[c] = Active
    BY <1>1, <1>2, StatesDiffer
<1>6. \A q \in Record : verdict'[q] # verdict[q] => q = r /\ verdict'[r] = side
    BY DEF Resolve, IInv, TypeOK
<1> QED BY <1>2, <1>4, <1>5, <1>6

\* Every step that closes a record, by how it decides it.
LEMMA Verdicts ==
    ASSUME IInv, Next, NEW r \in Record, verdict'[r] # verdict[r]
    PROVE  PreferA(r) \/ PreferB(r) \/ BothValid(r) \/ Discard(r) \/ Cascade(r) \/ Release(r)
<1>1. ASSUME UNCHANGED verdict PROVE FALSE
    BY <1>1
<1>2. ASSUME NEW q \in Record, q # r, NEW side, verdict' = [verdict EXCEPT ![q] = side]
      PROVE  FALSE
    BY <1>2 DEF IInv, TypeOK
<1>3. \A c \in Claim : ~ (Extract(c) \/ Retire(c) \/ Reindex(c) \/ Unmerge(c))
    BY <1>1 DEF Extract, Retire, Reindex, Unmerge, Move
<1>4. \A q \in Record : \A a, b \in Claim : ~Hold(q, a, b) /\ ~HoldRetired(q, a, b)
    BY <1>1 DEF Hold, HoldRetired, OpenRecord
<1>5. \A q \in Record : \A a, b \in Sides : ~OpenCensus(q, a, b)
    BY <1>1 DEF OpenCensus, OpenRecord
<1>6. ASSUME NEW q \in Record, q # r
      PROVE  ~ (PreferA(q) \/ PreferB(q) \/ BothValid(q) \/ Discard(q) \/ Cascade(q) \/ Release(q))
    BY <1>2, <1>6 DEF PreferA, PreferB, BothValid, Discard, Cascade, Release, Resolve
<1> QED BY <1>3, <1>4, <1>5, <1>6 DEF Next

\* The winner of the cascade is a record's A or its B.
LEMMA TwoMembers ==
    ASSUME IInv, NEW r \in Record, Open(r), NoClaim \notin {A(r), B(r)}, MemberCount(r) <= 2
    PROVE  SideA(r) = {A(r)} /\ SideB(r) = {B(r)}
<1>1. record[r].a \in Seq(Ref) /\ record[r].b \in Seq(Ref)
    BY DEF IInv, TypeOK
<1>2. Len(record[r].a) = 1 /\ Len(record[r].b) = 1
  <2>1. Len(record[r].a) \in Nat /\ Len(record[r].b) \in Nat
      BY <1>1
  <2>2. Len(record[r].a) > 0 /\ Len(record[r].b) > 0
      BY DEF IInv, Named, Open
  <2>3. Len(record[r].a) + Len(record[r].b) <= 2
      BY DEF MemberCount
  <2>4. \A m, n \in Nat : m > 0 /\ n > 0 /\ m + n <= 2 => m = 1 /\ n = 1
      OBVIOUS
  <2> QED BY <2>1, <2>2, <2>3, <2>4
<1>3. DOMAIN record[r].a = {1} /\ DOMAIN record[r].b = {1}
    BY <1>1, <1>2
<1> QED BY <1>3 DEF SideA, SideB, A, B, ToSet

\* A verdict for one side leaves that side's claim on the answer surface, even
\* though it may have left it since the record was opened (refusal_reason and
\* decide_cascade look again).
THEOREM VerdictKeepsActive == Spec => KeptIsActive
<1>1. ASSUME IInv, [Next]_vars
      PROVE  [\A r \in Record : verdict'[r] # verdict[r] =>
                /\ verdict'[r] = "A" /\ ~RetiredValue(r) => claim'[A(r)] = Active
                /\ verdict'[r] = "B" /\ B(r) # NoClaim =>
                      \/ claim'[B(r)] = Active
                      \/ claim[B(r)] = Held /\ \E c \in NewClaims : claim'[c] = Active]_vars
  <2> SUFFICES ASSUME Next, NEW r \in Record, verdict'[r] # verdict[r]
               PROVE  /\ verdict'[r] = "A" /\ ~RetiredValue(r) => claim'[A(r)] = Active
                      /\ verdict'[r] = "B" /\ B(r) # NoClaim =>
                            \/ claim'[B(r)] = Active
                            \/ claim[B(r)] = Held /\ \E c \in NewClaims : claim'[c] = Active
      BY <1>1
  <2>1. ASSUME Open(r)
        PROVE  /\ SideA(r) \subseteq Members(r) /\ SideB(r) \subseteq Members(r)
               /\ Members(r) \subseteq Claim /\ SideA(r) \cap SideB(r) = {}
               /\ B(r) # NoClaim => B(r) \in SideB(r)
               /\ A(r) # NoClaim => A(r) \in SideA(r) /\ ~IsQuarantined(A(r))
      BY <1>1, <2>1, Decidable
  <2>2. ASSUME NEW c \in Claim, CanBeKept(c) PROVE claim[c] = Active \/ claim[c] = Held
      BY <1>1, <2>2, StatesDiffer DEF CanBeKept, IsQuarantined, IInv, TypeOK
  <2>3. CASE PreferA(r)
    <3>1. Open(r) /\ ~RefusesA(r) /\ Resolve(r, "A", SideB(r), {}, {})
        BY <2>3 DEF PreferA
    <3>2. /\ verdict'[r] = "A"
          /\ \A c \in Members(r) \ SideB(r) : claim[c] = Active => claim'[c] = Active
        BY <1>1, <2>1, <3>1, VerdictClaims
    <3>3. ~RetiredValue(r) => A(r) \in SideA(r) /\ claim[A(r)] = Active
        BY <2>1, <2>2, <3>1, RecordAssumption DEF RefusesA, IsQuarantined
    <3> QED BY <2>1, <3>1, <3>2, <3>3
  <2>4. CASE PreferB(r)
    <3>1. Open(r) /\ ~RefusesB(r) /\ Resolve(r, "B", SideA(r), Quarantined({B(r)}), {})
        BY <2>4 DEF PreferB
    <3>s. SideA(r) \subseteq Members(r)
        BY <2>1, <3>1
    <3> DEFINE promoted == Quarantined({B(r)})
    <3>2. promoted \subseteq {c \in Claim : claim[c] = Held}
        BY <2>1, <3>1 DEF Quarantined, IsQuarantined
    <3>p. Resolve(r, "B", SideA(r), promoted, {}) /\ Open(r)
        BY <3>1
    <3>3. /\ verdict'[r] = "B"
          /\ \A c \in Members(r) \ SideA(r) : claim[c] = Active => claim'[c] = Active
          /\ promoted # {} => \E c \in NewClaims : claim'[c] = Active
      <4> HIDE DEF promoted
      <4> QED BY <1>1, <3>2, <3>p, <3>s, VerdictClaims
    <3>4. B(r) # NoClaim =>
              /\ B(r) \in SideB(r)
              /\ claim[B(r)] = Active \/ (claim[B(r)] = Held /\ Quarantined({B(r)}) # {})
        BY <2>1, <2>2, <3>1 DEF RefusesB, Quarantined, IsQuarantined
    <3> QED BY <2>1, <3>1, <3>3, <3>4
  <2>5. CASE Cascade(r)
    <3>1. PICK w \in Members(r) :
              /\ CanBeKept(w)
              /\ Resolve(r, SideOf(r, w), Members(r) \ {w}, Quarantined({w}), {})
        BY <2>5 DEF Cascade
    <3>2. /\ Open(r) /\ SideA(r) = {A(r)} /\ SideB(r) = {B(r)}
          /\ SideOf(r, w) \in {"none", "A", "B"}
        BY <1>1, <2>5, TwoMembers DEF Cascade, SideOf
    <3>3. Quarantined({w}) \subseteq {c \in Claim : claim[c] = Held}
        BY <2>1, <3>1, <3>2 DEF Quarantined, IsQuarantined
    <3>4. /\ verdict'[r] = SideOf(r, w)
          /\ \A c \in Members(r) \ (Members(r) \ {w}) : claim[c] = Active => claim'[c] = Active
          /\ Quarantined({w}) # {} => \E c \in NewClaims : claim'[c] = Active
        BY <1>1, <3>1, <3>2, <3>3, VerdictClaims
    <3>5. w = (IF SideOf(r, w) = "A" THEN A(r) ELSE B(r))
        BY <3>1, <3>2 DEF SideOf, Members
    <3>6. \/ claim[w] = Active
          \/ claim[w] = Held /\ Quarantined({w}) # {} /\ w \notin SideA(r)
        BY <2>1, <2>2, <3>1, <3>2, RecordAssumption DEF Quarantined, IsQuarantined
    <3>7. SideOf(r, w) = "A" => w \in SideA(r)
        BY DEF SideOf
    <3> QED BY <3>1, <3>4, <3>5, <3>6, <3>7
  <2>6. CASE BothValid(r) \/ Discard(r) \/ Release(r)
    <3>1. verdict' = [verdict EXCEPT ![r] = "none"]
        BY <2>6 DEF BothValid, Discard, Release, Resolve
    <3> QED BY <1>1, <3>1 DEF IInv, TypeOK
  <2> QED BY <1>1, <2>3, <2>4, <2>5, <2>6, Verdicts
<1> QED BY <1>1, Inductive, PTL DEF Spec, KeptIsActive

\* A verdict for one side takes every claim of the other off the answer
\* surface, the further members of a census record included (_demote_all).
THEOREM VerdictDemotesAll == Spec => LosersLeave
<1>1. ASSUME IInv, [Next]_vars
      PROVE  [\A r \in Record : verdict'[r] # verdict[r] =>
                /\ verdict'[r] = "A" => \A c \in SideB(r) : claim'[c] # Active
                /\ verdict'[r] = "B" => \A c \in SideA(r) : claim'[c] # Active]_vars
  <2> SUFFICES ASSUME Next, NEW r \in Record, verdict'[r] # verdict[r]
               PROVE  /\ verdict'[r] = "A" => \A c \in SideB(r) : claim'[c] # Active
                      /\ verdict'[r] = "B" => \A c \in SideA(r) : claim'[c] # Active
      BY <1>1
  <2>1. ASSUME Open(r)
        PROVE  /\ SideA(r) \subseteq Members(r) /\ SideB(r) \subseteq Members(r)
               /\ Members(r) \subseteq Claim /\ SideA(r) \cap SideB(r) = {}
               /\ B(r) # NoClaim => B(r) \in SideB(r)
      BY <1>1, <2>1, Decidable
  <2>2. CASE PreferA(r)
    <3>1. Open(r) /\ Resolve(r, "A", SideB(r), {}, {})
        BY <2>2 DEF PreferA
    <3>2. verdict'[r] = "A" /\ \A c \in SideB(r) : claim'[c] # Active
        BY <1>1, <2>1, <3>1, VerdictClaims
    <3> QED BY <3>2
  <2>3. CASE PreferB(r)
    <3>1. Open(r) /\ Resolve(r, "B", SideA(r), Quarantined({B(r)}), {})
        BY <2>3 DEF PreferB
    <3>2. Quarantined({B(r)}) \subseteq {c \in Claim : claim[c] = Held}
        BY <2>1, <3>1 DEF Quarantined, IsQuarantined
    <3>s. SideA(r) \subseteq Members(r)
        BY <2>1, <3>1
    <3>3. verdict'[r] = "B" /\ \A c \in SideA(r) : claim'[c] # Active
        BY <1>1, <3>1, <3>2, <3>s, VerdictClaims
    <3> QED BY <3>3
  <2>4. CASE Cascade(r)
    <3>1. PICK w \in Members(r) :
              Resolve(r, SideOf(r, w), Members(r) \ {w}, Quarantined({w}), {})
        BY <2>4 DEF Cascade
    <3>2. Open(r) /\ SideOf(r, w) \in {"none", "A", "B"}
        BY <2>4 DEF Cascade, SideOf
    <3>3. Quarantined({w}) \subseteq {c \in Claim : claim[c] = Held}
        BY <2>1, <3>1, <3>2 DEF Quarantined, IsQuarantined
    <3>4. verdict'[r] = SideOf(r, w) /\ \A c \in Members(r) \ {w} : claim'[c] # Active
        BY <1>1, <3>1, <3>2, <3>3, VerdictClaims
    <3>5. IF w \in SideA(r) THEN SideOf(r, w) = "A" ELSE SideOf(r, w) = "B"
        BY DEF SideOf
    <3> QED BY <2>1, <3>2, <3>4, <3>5
  <2>5. CASE BothValid(r) \/ Discard(r) \/ Release(r)
    <3>1. verdict' = [verdict EXCEPT ![r] = "none"]
        BY <2>5 DEF BothValid, Discard, Release, Resolve
    <3> QED BY <1>1, <3>1 DEF IInv, TypeOK
  <2> QED BY <1>1, <2>2, <2>3, <2>4, <2>5, Verdicts
<1> QED BY <1>1, Inductive, PTL DEF Spec, LosersLeave
============================================================================
