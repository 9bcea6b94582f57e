-------------------------------- MODULE NightsProofs --------------------------------
(***************************************************************************)
(* Two nightly passes over the store, checked side by side and proved: the *)
(* census of contradictions and the monitor of the rank lift.  They share  *)
(* no state: which one runs is chosen at the start and the other stays at  *)
(* rest.  Then the proofs, of the census first.                            *)
(***************************************************************************)
EXTENDS Census, RankLift, FiniteSetTheorems, SequenceTheorems, WellFoundedInduction, TLAPS

ASSUME CensusAssumption ==
    /\ IsFiniteSet(Claim) /\ IsFiniteSet(Entry)
    /\ Cap \in Nat /\ MaxNights \in Nat /\ MaxMoves \in Nat /\ MaxFresh \in Nat
    /\ MaxMerged \in Nat

VARIABLE part

CensusRests ==
    /\ active = {} /\ stated = <<>> /\ reading = 1 /\ records = {} /\ disclosed = {}
    /\ judged = <<>> /\ morning = FALSE /\ nights = 0 /\ moves = 0
\* The ranking at rest had a first run, with nothing used.
RankRests ==
    /\ confidence = [b \in Belief |-> 0] /\ use = [b \in Belief |-> 0] /\ cohort = {} /\ lift = 0
    /\ last = [n \in HeadSize |-> "cold"] /\ alert = 0 /\ night = 1 /\ standing = HeadSize

NightsInit ==
    \/ part = "census" /\ Init /\ RankRests
    \/ part = "rank" /\ RankInit /\ CensusRests

NightsNext ==
    \/ part = "census" /\ Next /\ UNCHANGED <<part, rank>>
    \/ part = "rank" /\ RankNext /\ UNCHANGED <<part, vars>>

NightsSpec == NightsInit /\ [][NightsNext]_<<part, vars, rank>>

ThreeLifts == <<0, 1, 2>>
Interchangeable == Permutations(Claim) \cup Permutations(Entry)

-----------------------------------------------------------------------------
(* The census.  Both its properties hold for any claims and entries, caps and     *)
(* bounds.  A disclosed pair is a confirmed pair of an open record, not only       *)
(* across it: what a record covers but has not confirmed is lost when it           *)
(* regroups.  A judged pair has the record that was judged last, with its          *)
(* fingerprint.                                                                    *)

\* A record is what Minted made or what a judgment closed.
IsRecord(r) ==
    /\ r = [sides |-> r.sides, pairs |-> r.pairs, open |-> r.open, read |-> r.read,
            sources |-> r.sources]
    /\ r.pairs \subseteq Crossing(r) /\ UNION r.pairs = Members(r)
\* The flag of an open record stands: every belief it is on has a live opponent.
Stands(r) ==
    /\ \A c \in Members(r) \cap active :
          Live(c) /\ \E p \in r.pairs : c \in p /\ \A d \in p : Live(d)
    /\ \A p \in r.pairs : r.read[p] = reading

CensusInv ==
    /\ \A r \in records : IsRecord(r)
    /\ \A p \in disclosed : \E r \in Open : p \in r.pairs
    /\ \A p \in DOMAIN judged : \E r \in records \ Open :
          p \in Crossing(r) /\ \A c \in p : judged[p][c] = r.sources[c]
    /\ morning => \A r \in Open : Stands(r)

RaisedAnew ==
    \A p \in (Raised' \ Raised) \cap DOMAIN judged : \E c \in p : ~(stated[c] \subseteq judged[p][c])

\* A pair has two claims, so one of it is apart from the other.
LEMMA PairsAre ==
    /\ {} \notin Pairs
    /\ \A p \in Pairs : \A c \in p : Cardinality(p \cap {c}) = 1
<1>1. {} \notin Pairs
  BY FS_EmptySet DEF Pairs, kSubset
<1>2. ASSUME NEW p \in Pairs, NEW c \in p PROVE Cardinality(p \cap {c}) = 1
  <2>1. p \cap {c} = {c}
    OBVIOUS
  <2> QED BY <2>1, FS_Singleton
<1> QED BY <1>1, <1>2

\* What is planned of a group are records of its pairs, and every pair of it is in one.
LEMMA PlannedAre ==
    ASSUME NEW group \in SUBSET Pairs
    PROVE  /\ \A q \in Planned(group) : q.pairs \subseteq group /\ IsRecord(Minted(q))
           /\ \A p \in group : \E q \in Planned(group) : p \in q.pairs
<1>1. CASE Splits(group) # {}
  <2> DEFINE s == CHOOSE s \in Splits(group) : TRUE
             q == [sides |-> s, pairs |-> group]
  <2>1. Planned(group) = {q}
    BY <1>1 DEF Planned
  <2>2. s \in Splits(group)
    BY <1>1
  <2> HIDE DEF s
  <2>3. PICK a \in SUBSET UNION group : s = {a, (UNION group) \ a}
    BY <2>2 DEF Splits
  <2>4. UNION s = UNION group
    <3> DEFINE all == UNION group
    <3>1. s = {a, all \ a} /\ a \subseteq all
      BY <2>3
    <3> HIDE DEF all
    <3>2. UNION s = all
      BY <3>1
    <3> QED BY <3>2 DEF all
  <2>5. \A p \in group : \A side \in s : Cardinality(p \cap side) = 1
    BY <2>2 DEF Splits
  <2>6. IsRecord(Minted(q))
    BY <2>4, <2>5 DEF IsRecord, Minted, Crossing, Members
  <2> QED BY <2>1, <2>6
<1>2. CASE Splits(group) = {}
  <2> DEFINE q(p) == [sides |-> {{c} : c \in p}, pairs |-> {p}]
  <2>1. Planned(group) = {q(p) : p \in group}
    BY <1>2 DEF Planned
  <2>2. ASSUME NEW p \in group PROVE IsRecord(Minted(q(p)))
    <3>1. p \in Pairs /\ \A c \in p : Cardinality(p \cap {c}) = 1
      BY PairsAre
    <3>2. UNION {{c} : c \in p} = p
      OBVIOUS
    <3> QED BY <3>1, <3>2 DEF IsRecord, Minted, Crossing, Members
  <2>3. \A p \in group : q(p).pairs = {p}
    OBVIOUS
  <2> HIDE DEF q
  <2> QED BY <2>1, <2>2, <2>3
<1> QED BY <1>1, <1>2

\* Grouping neither adds nor loses a pair.
LEMMA GroupsAre ==
    ASSUME NEW pairs
    PROVE  /\ \A g \in Groups(pairs) : g \subseteq pairs
           /\ \A p \in pairs : \E g \in Groups(pairs) : p \in g
<1>1. \A p \in pairs : p \in Linked(p, pairs) /\ Linked(p, pairs) \subseteq pairs
  BY DEF Linked
<1> QED BY <1>1 DEF Groups

\* A pair that is left after the sweep has two claims that are live after the night.
LEMMA MappedAre ==
    ASSUME NEW survivors, NEW p,
           \A c \in DOMAIN survivors : Live(c) /\ MemberState(survivors[c], survivors) = "live"
    PROVE  /\ \A c : MemberState(c, survivors) = "live" <=> Live(c) /\ c \notin DOMAIN survivors
           /\ Mapped(p, survivors) \in Pairs =>
                /\ \A c \in p : MemberState(c, survivors) \in {"live", "merged"}
                /\ \A c \in Mapped(p, survivors) : MemberState(c, survivors) = "live"
           /\ (\A c \in p : MemberState(c, survivors) = "live") => Mapped(p, survivors) = p
<1>1. \A c : MemberState(c, survivors) = "live" <=> Live(c) /\ c \notin DOMAIN survivors
  BY DEF MemberState, Live
<1>2. \A c : MemberState(c, survivors) = "merged" <=> c \in DOMAIN survivors
  BY DEF MemberState
<1> DEFINE there == {c \in p : MemberState(c, survivors) \in {"live", "merged"}}
           goes(c) == IF MemberState(c, survivors) = "merged" THEN survivors[c] ELSE c
<1>3. Mapped(p, survivors) = IF there # p THEN {} ELSE {goes(c) : c \in p}
  BY DEF Mapped
<1>4. ASSUME Mapped(p, survivors) \in Pairs
      PROVE  /\ \A c \in p : MemberState(c, survivors) \in {"live", "merged"}
             /\ \A c \in Mapped(p, survivors) : MemberState(c, survivors) = "live"
  <2>1. there = p /\ Mapped(p, survivors) = {goes(c) : c \in p}
    BY <1>3, <1>4, PairsAre
  <2>2. \A c \in p : MemberState(c, survivors) \in {"live", "merged"}
    BY <2>1
  <2>3. \A c \in p : MemberState(goes(c), survivors) = "live"
    BY <1>2, <2>2
  <2> QED BY <2>1, <2>2, <2>3
<1>5. ASSUME \A c \in p : MemberState(c, survivors) = "live" PROVE Mapped(p, survivors) = p
  <2>1. there = p
    BY <1>5
  <2>2. \A c \in p : goes(c) = c
    BY <1>5
  <2> QED BY <1>3, <2>1, <2>2
<1> QED BY <1>1, <1>4, <1>5

\* The sweep keeps a record whose members are all live or gone, each live one with an opponent,
\* and no pair of which awaits a second reading.
LEMMA KeptAre ==
    ASSUME NEW survivors, NEW rejected, NEW r, IsRecord(r), Lapse(r, survivors, rejected) = "keep",
           \A c \in DOMAIN survivors : Live(c) /\ MemberState(survivors[c], survivors) = "live"
    PROVE  /\ \A c \in Members(r) : MemberState(c, survivors) \in {"live", "gone"}
           /\ \A c \in Members(r) : MemberState(c, survivors) = "live" =>
                \E p \in Remaining(r, survivors, rejected) : c \in p
           /\ \A p \in r.pairs : r.read[p] = reading
           /\ \A p \in r.pairs : Mapped(p, survivors) \in Pairs =>
                Mapped(p, survivors) = p /\ p \in Remaining(r, survivors, rejected)
           /\ Remaining(r, survivors, rejected) \subseteq r.pairs
<1>1. /\ \A c \in Members(r) : MemberState(c, survivors) \notin {"lapsed", "merged"}
      /\ \A c \in Members(r) : MemberState(c, survivors) = "live" =>
            c \in UNION Remaining(r, survivors, rejected)
      /\ Reread(r) = {}
  BY DEF Lapse
<1>2. \A c : MemberState(c, survivors) \in {"merged", "gone", "lapsed", "live"}
  BY DEF MemberState
<1>3. \A p \in r.pairs : r.read[p] = reading
  BY <1>1 DEF Reread
<1>4. ASSUME NEW p \in r.pairs, Mapped(p, survivors) \in Pairs PROVE Mapped(p, survivors) = p
  <2>1. \A c \in p : c \in Members(r)
    BY DEF IsRecord
  <2>2. \A c \in p : MemberState(c, survivors) = "live"
    BY <1>1, <1>4, <2>1, MappedAre
  <2> QED BY <2>2, MappedAre
<1>5. Remaining(r, survivors, rejected) = {Mapped(p, survivors) : p \in r.pairs} \cap Pairs
  BY <1>1 DEF Remaining, Withdrawn
<1> QED BY <1>1, <1>2, <1>3, <1>4, <1>5

\* A night: what is disclosed stays so, no flag is without an opponent, and no pair is raised
\* against a judgment that still stands.
LEMMA NightStep ==
    ASSUME CensusInv, NEW survivors, NEW fresh \in SUBSET Pairs, NEW rejected,
           Night(survivors, fresh, rejected)
    PROVE  CensusInv' /\ RaisedAnew
<1> DEFINE kept == {r \in Open : Lapse(r, survivors, rejected) = "keep"}
           regrouped == {r \in Open : Lapse(r, survivors, rejected) = "regroup"}
           left == UNION {Remaining(r, survivors, rejected) : r \in regrouped}
           shut == records \ Open
           pool == (left \cup fresh) \ Covered(kept \cup shut)
           around == UNION {Linked(p, pool \cup UNION {r.pairs : r \in kept}) : p \in pool}
           grown == {r \in kept : r.pairs \cap around # {}}
           old == left \cup UNION {r.pairs : r \in grown}
           moved == {Mapped(p, survivors) : p \in disclosed \ rejected} \cap Pairs
           absorbed == Covered(kept) \ UNION {r.pairs : r \in kept}
           loose == pool \cup UNION {Remaining(r, survivors, rejected) : r \in grown}
           groups == Groups(loose)
<1>1. /\ \A p \in fresh : \A c \in p : MemberState(c, survivors) = "live"
      /\ \A c \in DOMAIN survivors : Live(c) /\ MemberState(survivors[c], survivors) = "live"
      /\ active' = active \ DOMAIN survivors /\ UNCHANGED <<stated, reading, judged>>
  BY DEF Night
<1>2. PICK chosen \in Opened(groups, old) :
         LET minted == {Minted(q) : q \in UNION {Planned(g) : g \in chosen}}
         IN  /\ records' = shut \cup (kept \ grown) \cup minted
             /\ disclosed' = (moved \ (Covered(shut) \cup absorbed)) \cup UNION {r.pairs : r \in minted}
  BY DEF Night
<1> DEFINE minted == {Minted(q) : q \in UNION {Planned(g) : g \in chosen}}
<1>3. /\ records' = shut \cup (kept \ grown) \cup minted
      /\ disclosed' = (moved \ (Covered(shut) \cup absorbed)) \cup UNION {r.pairs : r \in minted}
  BY <1>2
\* The groups: all of the loose pairs are in one, and one that holds an old pair is opened.
<1>4. chosen \subseteq groups /\ \A g \in groups : g \cap old # {} => g \in chosen
  BY <1>2 DEF Opened
<1>5. loose \subseteq Pairs /\ pool \subseteq loose /\ left \subseteq Pairs
  BY DEF Remaining
<1>6. (\A g \in groups : g \subseteq loose) /\ \A p \in loose : \E g \in groups : p \in g
  <2> HIDE DEF loose
  <2> QED BY GroupsAre
<1> HIDE DEF groups
\* Who is live after the night.
<1>7. \A c : MemberState(c, survivors) = "live" <=> Live(c)'
  <2>1. \A c : MemberState(c, survivors) = "live" <=> Live(c) /\ c \notin DOMAIN survivors
    BY <1>1, MappedAre
  <2>2. \A c : Live(c)' <=> Live(c) /\ c \notin DOMAIN survivors
    BY <1>1 DEF Live
  <2> QED BY <2>1, <2>2
<1>8. \A r : \A p \in Remaining(r, survivors, rejected) : \A c \in p : Live(c)'
  BY <1>1, <1>7, MappedAre DEF Remaining
<1>9. \A p \in loose : \A c \in p : Live(c)'
  BY <1>1, <1>7, <1>8
<1>10. \A r \in Open : IsRecord(r) /\ r \in records /\ r.open
  BY DEF CensusInv, Open
\* The records that are minted, and those that are kept.
<1>11. ASSUME NEW r \in minted
       PROVE  IsRecord(r) /\ r.open /\ r.pairs \subseteq loose /\ Stands(r)'
  <2>0. PICK g \in chosen : \E q \in Planned(g) : r = Minted(q)
    BY <1>11
  <2>1. PICK q \in Planned(g) : r = Minted(q)
    BY <2>0
  <2>2. g \subseteq loose /\ g \in SUBSET Pairs
    BY <1>4, <1>5, <1>6
  <2>3. q.pairs \subseteq g /\ IsRecord(Minted(q))
    BY <2>2, PlannedAre
  <2>4. r.open /\ r.pairs = q.pairs /\ \A p \in r.pairs : r.read[p] = reading
    BY <2>1 DEF Minted
  <2>5. \A c \in Members(r) : \E p \in r.pairs : c \in p
    BY <2>1, <2>3 DEF IsRecord
  <2>6. \A p \in r.pairs : \A c \in p : Live(c)'
    BY <1>9, <2>2, <2>3, <2>4
  <2>7. Stands(r)'
    BY <1>1, <2>4, <2>5, <2>6 DEF Stands, Live, Members
  <2> QED BY <2>1, <2>2, <2>3, <2>4, <2>7
<1>12. ASSUME NEW p, NEW g \in chosen, p \in g PROVE \E r \in minted : p \in r.pairs
  <2>1. g \in SUBSET Pairs
    BY <1>4, <1>5, <1>6
  <2>2. PICK q \in Planned(g) : p \in q.pairs
    BY <1>12, <2>1, PlannedAre
  <2>3. Minted(q) \in minted /\ Minted(q).pairs = q.pairs
    BY <2>2 DEF Minted
  <2> QED BY <2>2, <2>3
<1>13. ASSUME NEW r \in kept
       PROVE  /\ Stands(r)' /\ Remaining(r, survivors, rejected) \subseteq r.pairs
              /\ \A p \in r.pairs : Mapped(p, survivors) \in Pairs =>
                    Mapped(p, survivors) = p /\ p \in Remaining(r, survivors, rejected)
  <2>1. IsRecord(r) /\ Lapse(r, survivors, rejected) = "keep"
    BY <1>10
  <2>2. ASSUME NEW c \in Members(r), c \in active'
        PROVE  Live(c)' /\ \E p \in r.pairs : c \in p /\ \A d \in p : Live(d)'
    <3>1. MemberState(c, survivors) = "live"
      BY <1>1, <2>1, <2>2, KeptAre DEF MemberState
    <3>2. PICK p \in Remaining(r, survivors, rejected) : c \in p
      BY <1>1, <2>1, <3>1, KeptAre
    <3>3. p \in r.pairs /\ \A d \in p : Live(d)'
      BY <1>1, <1>8, <2>1, <3>2, KeptAre
    <3> QED BY <1>7, <3>1, <3>2, <3>3
  <2>3. \A p \in r.pairs : r.read[p] = reading'
    BY <1>1, <2>1, KeptAre
  <2>4. Stands(r)'
    BY <2>2, <2>3 DEF Stands, Members
  <2> QED BY <1>1, <2>1, <2>4, KeptAre
\* A pair of a record that is kept or grows is in one after the night.
<1>14. ASSUME NEW r \in kept, NEW p \in r.pairs, Mapped(p, survivors) \in Pairs
       PROVE  \E x \in records' : x.open /\ p \in x.pairs
  <2>1. CASE r \notin grown
    BY <1>3, <1>10, <2>1
  <2>2. CASE r \in grown
    <3>1. p \in loose /\ p \in old
      BY <1>13, <1>14, <2>2
    <3>2. PICK g \in groups : p \in g
      BY <1>6, <3>1
    <3>3. g \in chosen
      BY <1>4, <3>1, <3>2
    <3> QED BY <1>3, <1>11, <1>12, <3>2, <3>3
  <2> QED BY <2>1, <2>2
\* A disclosed pair is in an open record, also where its claims were merged.
<1>15. ASSUME NEW p \in moved, p \notin Covered(shut), p \notin absorbed
       PROVE  \E x \in records' : x.open /\ p \in x.pairs
  <2>1. PICK p0 \in disclosed \ rejected : p = Mapped(p0, survivors) /\ p \in Pairs
    BY <1>15
  <2>2. PICK r \in Open : p0 \in r.pairs
    BY <2>1 DEF CensusInv
  <2>3. p \in Remaining(r, survivors, rejected)
    BY <2>1, <2>2 DEF Remaining, Withdrawn
  <2>4. r \in kept \/ r \in regrouped
    BY <2>3 DEF Lapse
  <2>5. CASE r \in kept
    <3>1. p = p0
      BY <1>13, <2>1, <2>2, <2>5
    <3> QED BY <1>14, <2>1, <2>2, <2>5, <3>1
  <2>6. CASE r \in regrouped
    <3>1. p \in left
      BY <2>3, <2>6
    <3>2. CASE p \in pool
      <4>1. PICK g \in groups : p \in g
        BY <1>5, <1>6, <3>2
      <4>2. g \in chosen
        BY <1>4, <3>1, <4>1
      <4> QED BY <1>3, <1>11, <1>12, <4>1, <4>2
    <3>3. CASE p \notin pool
      <4>1. p \in Covered(kept)
        BY <1>15, <3>1, <3>3 DEF Covered
      <4>2. PICK k \in kept : p \in k.pairs
        BY <1>15, <4>1
      <4>3. \A c \in p : MemberState(c, survivors) = "live"
        BY <1>1, <2>1, MappedAre
      <4>4. Mapped(p, survivors) = p
        BY <1>1, <4>3, MappedAre
      <4> QED BY <1>14, <2>1, <4>2, <4>4
    <3> QED BY <3>2, <3>3
  <2> QED BY <2>4, <2>5, <2>6
<1>16. \A p \in disclosed' : \E x \in Open' : p \in x.pairs
  <2>1. \A x \in records' : x.open => x \in Open'
    BY DEF Open
  <2>2. ASSUME NEW p \in disclosed' PROVE \E x \in records' : x.open /\ p \in x.pairs
    BY <1>3, <1>11, <1>15, <2>2
  <2> QED BY <2>1, <2>2
<1>17. \A r \in records' : IsRecord(r)'
  <2>1. \A r \in records' : IsRecord(r)
    BY <1>3, <1>10, <1>11 DEF CensusInv
  <2> QED BY <2>1 DEF IsRecord, Crossing, Members
<1>18. shut \subseteq records' \ Open'
  BY <1>3 DEF Open
<1>19. \A p \in DOMAIN judged' : \E r \in records' \ Open' :
          p \in Crossing(r) /\ \A c \in p : judged'[p][c] = r.sources[c]
  BY <1>1, <1>18 DEF CensusInv
<1>20. \A r \in Open' : Stands(r)'
  <2>1. \A r \in Open' : r \in kept \/ r \in minted
    BY <1>3 DEF Open
  <2> QED BY <1>11, <1>13, <2>1
<1>21. CensusInv'
  BY <1>16, <1>17, <1>19, <1>20 DEF CensusInv, Crossing
\* A pair that is raised anew was loose and not covered by a judgment.
<1>22. RaisedAnew
  <2> SUFFICES ASSUME NEW p \in DOMAIN judged, p \in Raised', p \notin Raised
               PROVE  \E c \in p : ~(stated[c] \subseteq judged[p][c])
    BY DEF RaisedAnew
  <2>1. PICK r \in Open' : p \in r.pairs
    BY DEF Raised
  <2>2. \A k \in kept : p \notin k.pairs
    BY DEF Raised
  <2>3. r \in minted
    BY <1>3, <2>1, <2>2 DEF Open
  <2>4. p \in loose
    BY <1>11, <2>1, <2>3
  <2>5. p \notin Covered(kept \cup shut)
    BY <1>13, <2>2, <2>4
  <2>6. PICK j \in shut : p \in Crossing(j) /\ \A c \in p : judged[p][c] = j.sources[c]
    BY DEF CensusInv
  <2>7. ~StillJudged(p, j)
    BY <2>5, <2>6 DEF Covered, Crossing
  <2> QED BY <2>6, <2>7 DEF StillJudged
<1> QED BY <1>21, <1>22

\* Closing a record changes nothing else of it.
LEMMA ClosingKeeps ==
    ASSUME NEW r, DOMAIN r = {"sides", "pairs", "open", "read", "sources"}
    PROVE  LET closed == [r EXCEPT !.open = FALSE]
           IN  /\ DOMAIN closed = {"sides", "pairs", "open", "read", "sources"}
               /\ closed = [field \in DOMAIN closed |-> closed[field]]
               /\ closed.sides = r.sides /\ closed.pairs = r.pairs /\ closed.open = FALSE
               /\ closed.read = r.read /\ closed.sources = r.sources
  OBVIOUS

\* A judgment closes the record, and every pair across it with it.
LEMMA JudgeStep == ASSUME CensusInv, NEW r \in records, Judge(r) PROVE CensusInv' /\ RaisedAnew
<1> DEFINE closed == [r EXCEPT !.open = FALSE]
<1>1. /\ r \in Open /\ records' = (records \ {r}) \cup {closed} /\ ~morning'
      /\ disclosed' = disclosed \ Crossing(r) /\ UNCHANGED <<active, stated, reading>>
      /\ DOMAIN judged' = DOMAIN judged \cup Crossing(r)
      /\ \A p \in DOMAIN judged' :
            judged'[p] = IF p \in Crossing(r) THEN [c \in p |-> r.sources[c]] ELSE judged[p]
  BY DEF Judge, Move
<1>2. IsRecord(r)
  BY DEF CensusInv
<1>3. /\ closed.sides = r.sides /\ closed.pairs = r.pairs /\ closed.sources = r.sources
      /\ closed.open = FALSE /\ IsRecord(closed) /\ Crossing(closed) = Crossing(r)
  <2>1. DOMAIN r = {"sides", "pairs", "open", "read", "sources"}
    BY <1>2 DEF IsRecord
  <2>2. /\ DOMAIN closed = {"sides", "pairs", "open", "read", "sources"}
        /\ closed = [field \in DOMAIN closed |-> closed[field]]
        /\ closed.sides = r.sides /\ closed.pairs = r.pairs /\ closed.open = FALSE
        /\ closed.read = r.read /\ closed.sources = r.sources
    BY <2>1, ClosingKeeps
  <2> HIDE DEF closed
  <2>3. Crossing(closed) = Crossing(r) /\ Members(closed) = Members(r)
    BY <2>2 DEF Crossing, Members
  <2>4. closed = [sides |-> closed.sides, pairs |-> closed.pairs, open |-> closed.open,
                  read |-> closed.read, sources |-> closed.sources]
    BY <2>2
  <2> QED BY <1>2, <2>2, <2>3, <2>4 DEF IsRecord
<1> HIDE DEF closed
<1>4. Open' = Open \ {r} /\ closed \in records' \ Open'
  BY <1>1, <1>3 DEF Open
<1>5. \A x \in records' : IsRecord(x)'
  BY <1>1, <1>3 DEF CensusInv, IsRecord, Crossing, Members
<1>6. \A p \in disclosed' : \E x \in Open' : p \in x.pairs
  BY <1>1, <1>2, <1>4 DEF CensusInv, IsRecord
<1>7. ASSUME NEW p \in DOMAIN judged'
      PROVE  \E x \in records' \ Open' : p \in Crossing(x) /\ \A c \in p : judged'[p][c] = x.sources[c]
  <2>1. CASE p \in Crossing(r)
    <3>1. judged'[p] = [c \in p |-> r.sources[c]]
      BY <1>1, <1>7, <2>1
    <3>2. \A c \in p : judged'[p][c] = closed.sources[c]
      BY <1>3, <3>1
    <3> QED BY <1>3, <1>4, <2>1, <3>2
  <2>2. CASE p \notin Crossing(r)
    <3>1. p \in DOMAIN judged /\ judged'[p] = judged[p]
      BY <1>1, <1>7, <2>2
    <3>2. PICK x \in records \ Open : p \in Crossing(x) /\ \A c \in p : judged[p][c] = x.sources[c]
      BY <3>1 DEF CensusInv
    <3>3. x \in records' \ Open'
      BY <1>1, <1>4, <3>2
    <3> QED BY <3>1, <3>2, <3>3
  <2> QED BY <2>1, <2>2
<1>8. CensusInv'
  BY <1>1, <1>5, <1>6, <1>7 DEF CensusInv, Crossing
<1>9. RaisedAnew
  BY <1>4 DEF RaisedAnew, Raised
<1> QED BY <1>8, <1>9

\* Between nights nothing else touches a record.
LEMMA MorningStep ==
    ASSUME CensusInv, (\E c \in Claim : Leave(c) \/ \E entries \in SUBSET Entry : Restate(c, entries))
                      \/ Revise \/ UNCHANGED vars
    PROVE  CensusInv' /\ RaisedAnew
<1>1. UNCHANGED <<records, disclosed, judged>> /\ (~morning' \/ UNCHANGED vars)
  BY DEF Leave, Restate, Revise, Move, vars
<1>2. Open' = Open /\ Raised' = Raised
  BY <1>1 DEF Open, Raised
<1>3. morning' => \A r \in Open' : Stands(r)'
  <2> SUFFICES ASSUME UNCHANGED vars, morning' PROVE \A r \in Open' : Stands(r)'
    BY <1>1
  <2>1. UNCHANGED <<active, stated, reading, morning>>
    BY DEF vars
  <2>2. \A r : Stands(r)' <=> Stands(r)
    BY <2>1 DEF Stands, Live, Members
  <2> QED BY <1>2, <2>1, <2>2 DEF CensusInv
<1> QED BY <1>1, <1>2, <1>3 DEF CensusInv, RaisedAnew, IsRecord, Crossing, Members

LEMMA CensusStep == ASSUME CensusInv, [Next]_vars PROVE CensusInv' /\ RaisedAnew
<1>1. CASE \E survivors, rejected : \E fresh \in SUBSET Pairs : Night(survivors, fresh, rejected)
  BY <1>1, NightStep
<1>2. CASE \E r \in records : Judge(r)
  BY <1>2, JudgeStep
<1>3. CASE (\E c \in Claim : Leave(c) \/ \E entries \in SUBSET Entry : Restate(c, entries))
           \/ Revise \/ UNCHANGED vars
  BY <1>3, MorningStep
<1> QED BY <1>1, <1>2, <1>3 DEF Next, kSubset

\* The inductive invariant of the census.
THEOREM CensusIsInvariant == Spec => []CensusInv
<1>1. Init => CensusInv
  BY DEF Init, CensusInv, Open
<1>2. CensusInv /\ [Next]_vars => CensusInv'
  BY CensusStep
<1> QED BY <1>1, <1>2, PTL DEF Spec

\* Whatever lapses, is merged, regroups or waits under the cap, a disclosed pair is across an
\* open record until it is judged, rejected, left without a source or absorbed by a merge; and
\* no flag stays without an opponent (decide_lapse, plan_group, select_under_cap).
THEOREM DisclosureHolds == Spec => []DisclosedWhileReal
<1>1. CensusInv => DisclosedWhileReal
  BY DEF CensusInv, DisclosedWhileReal, IsRecord, Stands, Open
<1> QED BY <1>1, CensusIsInvariant, PTL

\* No night raises again what a judgment settled, while its claims have no source the judgment
\* did not weigh (covered_pairs).
THEOREM JudgmentsHold == Spec => JudgedStaysShut
<1>1. CensusInv /\ [Next]_vars => [RaisedAnew]_vars
  BY CensusStep
<1> QED BY <1>1, CensusIsInvariant, PTL DEF Spec, JudgedStaysShut, RaisedAnew

-----------------------------------------------------------------------------
\* Counting.
LEMMA LeastOf ==
    ASSUME NEW S \in SUBSET Nat, S # {}
    PROVE  \E i \in S : \A j \in S : i <= j
<1>1. PICK i \in S : \A j \in S : ~(<<j, i>> \in OpToRel(<, Nat))
  BY NatLessThanWellFounded, WFMin
<1>2. ASSUME NEW j \in S, j < i PROVE FALSE
  <2>1. <<j, i>> \in OpToRel(<, Nat)
    BY <1>2 DEF OpToRel
  <2> QED BY <1>1, <2>1
<1> QED BY <1>2

LEMMA GreatestOf ==
    ASSUME NEW L \in Nat, NEW S \in SUBSET (1..L), S # {}
    PROVE  \E i \in S : \A j \in S : j <= i
<1> DEFINE T == {L - i : i \in S}
<1>1. T \in SUBSET Nat /\ T # {}
  <2>1. \A i \in S : i \in 1..L /\ L - i \in Nat
    OBVIOUS
  <2> QED BY <2>1
<1>2. PICK k \in T : \A j \in T : k <= j
  <2> HIDE DEF T
  <2> QED BY <1>1, LeastOf
<1>3. PICK i \in S : k = L - i
  BY <1>2
<1>4. \A j \in S : L - i <= L - j
  BY <1>2, <1>3
<1> QED BY <1>3, <1>4

\* Induction up to a bound, over a set of numbers.
LEMMA CountsUp ==
    ASSUME NEW L \in Nat, NEW S, 0 \in S, \A i \in 1..L : i - 1 \in S => i \in S
    PROVE  \A i \in 0..L : i \in S
<1> DEFINE bad == {i \in 0..L : i \notin S}
<1>1. ASSUME bad # {} PROVE FALSE
  <2>1. bad \in SUBSET Nat
    OBVIOUS
  <2>2. \E i \in bad : \A j \in bad : i <= j
    <3> HIDE DEF bad
    <3> QED BY <1>1, <2>1, LeastOf
  <2>3. PICK i \in bad : \A j \in bad : i <= j
    BY <2>2
  <2>4. i \in 1..L /\ i - 1 \in 0..L
    BY <2>3
  <2>5. i - 1 \in bad \/ i - 1 \in S
    BY <2>4
  <2>6. i - 1 \notin bad
    BY <2>3, <2>4
  <2> QED BY <2>3, <2>4, <2>5, <2>6
<1> QED BY <1>1

-----------------------------------------------------------------------------
(* The ranking.  A belief's place is the number of beliefs ahead of it: places   *)
(* rise along the order and fill 0..n-1, so a head of n is the beliefs with      *)
(* fewer than n ahead.                                                           *)

\* A finite set of beliefs under a score.
Scores == [Belief -> Nat]

LEMMA BeforeOrders ==
    ASSUME NEW score \in Scores
    PROVE  /\ \A b \in Belief : ~Before(score, b, b)
           /\ \A b, c \in Belief : b # c => Before(score, b, c) \/ Before(score, c, b)
           /\ \A b, c, d \in Belief : Before(score, b, c) /\ Before(score, c, d) => Before(score, b, d)
<1>1. \A b \in Belief : b \in Int /\ score[b] \in Int
  BY RankLiftAssumption DEF Scores
<1> QED BY <1>1 DEF Before

Place(S, score, b) == Cardinality(Ahead(S, score, b))

LEMMA SomeBeliefs ==
    ASSUME NEW S \in SUBSET Belief
    PROVE  IsFiniteSet(S) /\ Cardinality(S) \in Nat
BY RankLiftAssumption, FS_Subset, FS_CardinalityType

LEMMA PlaceIs ==
    ASSUME NEW S \in SUBSET Belief, NEW score, NEW b
    PROVE  Ahead(S, score, b) \in SUBSET S /\ IsFiniteSet(Ahead(S, score, b)) /\ Place(S, score, b) \in Nat
<1>1. Ahead(S, score, b) \in SUBSET S
  BY DEF Ahead
<1> QED BY <1>1, SomeBeliefs DEF Place

\* Places rise along the order.
LEMMA PlacesRise ==
    ASSUME NEW S \in SUBSET Belief, NEW score \in Scores, NEW b \in Belief, NEW c \in Belief,
           Before(score, b, c)
    PROVE  /\ Ahead(S, score, b) \subseteq Ahead(S, score, c)
           /\ Place(S, score, b) <= Place(S, score, c)
           /\ b \in S => Place(S, score, b) < Place(S, score, c)
<1>1. Ahead(S, score, b) \subseteq Ahead(S, score, c)
  BY BeforeOrders DEF Ahead
<1>2. /\ IsFiniteSet(Ahead(S, score, c)) /\ Ahead(S, score, b) \in SUBSET Ahead(S, score, c)
      /\ Place(S, score, b) \in Nat /\ Place(S, score, c) \in Nat
  BY <1>1, PlaceIs
<1>3. /\ Place(S, score, b) <= Place(S, score, c)
      /\ Place(S, score, c) = Place(S, score, b) => Ahead(S, score, c) = Ahead(S, score, b)
  BY <1>2, FS_Subset DEF Place
<1>4. b \in S => b \in Ahead(S, score, c) /\ b \notin Ahead(S, score, b)
  BY BeforeOrders DEF Ahead
<1> QED BY <1>1, <1>2, <1>3, <1>4

\* Places of the beliefs ranked tell them apart and are below their number.
LEMMA PlacesDiffer ==
    ASSUME NEW S \in SUBSET Belief, NEW score \in Scores
    PROVE  /\ \A b \in S : Place(S, score, b) \in 0..(Cardinality(S) - 1)
           /\ \A b, c \in S : Place(S, score, b) = Place(S, score, c) => b = c
           /\ \A b \in Belief, c \in S : Place(S, score, b) < Place(S, score, c) => Before(score, b, c) 
<1>1. ASSUME NEW b \in S PROVE Place(S, score, b) \in 0..(Cardinality(S) - 1)
  <2>1. b \in Belief /\ b \notin Ahead(S, score, b)
    BY BeforeOrders DEF Ahead
  <2>2. /\ IsFiniteSet(S) /\ Cardinality(S) \in Nat /\ Ahead(S, score, b) \in SUBSET S
        /\ Place(S, score, b) \in Nat
    BY SomeBeliefs, PlaceIs
  <2>3. /\ Place(S, score, b) <= Cardinality(S)
        /\ Cardinality(S) = Place(S, score, b) => S = Ahead(S, score, b)
    BY <2>2, FS_Subset DEF Place
  <2> QED BY <2>1, <2>2, <2>3
<1>2. \A b \in Belief : Place(S, score, b) \in Nat
  BY PlaceIs
<1>3. ASSUME NEW b \in S, NEW c \in S, Place(S, score, b) = Place(S, score, c), b # c PROVE FALSE
  <2>1. b \in Belief /\ c \in Belief
    OBVIOUS
  <2>2. CASE Before(score, b, c)
    <3>1. Place(S, score, b) < Place(S, score, c)
      BY <2>1, <2>2, PlacesRise
    <3> QED BY <1>2, <1>3, <2>1, <3>1
  <2>3. CASE Before(score, c, b)
    <3>1. Place(S, score, c) < Place(S, score, b)
      BY <2>1, <2>3, PlacesRise
    <3> QED BY <1>2, <1>3, <2>1, <3>1
  <2> QED BY <1>3, <2>1, <2>2, <2>3, BeforeOrders
<1>4. ASSUME NEW b \in Belief, NEW c \in S, Place(S, score, b) < Place(S, score, c) PROVE Before(score, b, c)
  <2>1. c \in Belief /\ b # c
    BY <1>2, <1>4
  <2>2. CASE Before(score, c, b)
    BY <1>2, <1>4, <2>1, <2>2, PlacesRise
  <2> QED BY <2>1, <2>2, BeforeOrders
<1> QED BY <1>1, <1>3, <1>4

\* Every place is taken.
LEMMA PlacesFill ==
    ASSUME NEW S \in SUBSET Belief, NEW score \in Scores, NEW i \in 0..(Cardinality(S) - 1)
    PROVE  \E b \in S : Place(S, score, b) = i
<1> DEFINE n == Cardinality(S)
           f == [b \in S |-> Place(S, score, b)]
<1>1. n \in Nat /\ IsFiniteSet(S)
  BY SomeBeliefs
<1>2. f \in Injection(S, 0..(n - 1))
  <2>1. f \in [S -> 0..(n - 1)]
    BY PlacesDiffer
  <2>2. \A b, c \in S : f[b] = f[c] => b = c
    BY PlacesDiffer
  <2> QED BY <2>1, <2>2 DEF Injection, IsInjective
<1>3. IsFiniteSet(0..(n - 1)) /\ Cardinality(0..(n - 1)) = n
  <2>1. 0 \in Int /\ n - 1 \in Int
    BY <1>1
  <2>2. IsFiniteSet(0..(n - 1)) /\ Cardinality(0..(n - 1)) = IF 0 > n - 1 THEN 0 ELSE n - 1 - 0 + 1
    BY <2>1, FS_Interval
  <2> QED BY <1>1, <2>2
<1>4. f \in Surjection(S, 0..(n - 1))
  <2> HIDE DEF f
  <2> QED BY <1>1, <1>2, <1>3, FS_Injection
<1> QED BY <1>4 DEF Surjection

\* What the digest of a set is.
LEMMA DigestIs ==
    ASSUME NEW S \in SUBSET Belief, NEW score \in Scores
    PROVE  /\ Len(Digest(S, score)) = Cardinality(S) /\ DOMAIN Digest(S, score) = 1..Cardinality(S)
           /\ Digest(S, score) \in Seq(S)
           /\ \A i \in 1..Cardinality(S) :
                 Digest(S, score)[i] \in S /\ Place(S, score, Digest(S, score)[i]) = i - 1
           /\ \A b \in S : Place(S, score, b) + 1 \in 1..Cardinality(S)
                           /\ Digest(S, score)[Place(S, score, b) + 1] = b
<1> DEFINE n == Cardinality(S)
           d == Digest(S, score)
<1>1. n \in Nat
  BY SomeBeliefs
<1>2. d = [i \in 1..n |-> CHOOSE b \in S : Place(S, score, b) = i - 1]
  <2>1. d = [i \in 1..n |-> CHOOSE b \in S : [c \in S |-> Place(S, score, c)][b] = i - 1]
    BY Zenon DEF Digest, Places, Place
  <2>2. \A i \in 1..n : (CHOOSE b \in S : [c \in S |-> Place(S, score, c)][b] = i - 1) =
                        (CHOOSE b \in S : Place(S, score, b) = i - 1)
    OBVIOUS
  <2> QED BY <2>1, <2>2
<1>3. ASSUME NEW i \in 1..n PROVE d[i] \in S /\ Place(S, score, d[i]) = i - 1
  <2>1. i - 1 \in 0..(n - 1)
    BY <1>1
  <2>2. \E b \in S : Place(S, score, b) = i - 1
    BY <2>1, PlacesFill
  <2>3. d[i] = CHOOSE b \in S : Place(S, score, b) = i - 1
    BY <1>2
  <2> QED BY <2>2, <2>3
<1>4. ASSUME NEW b \in S PROVE Place(S, score, b) + 1 \in 1..n /\ d[Place(S, score, b) + 1] = b
  <2>1. Place(S, score, b) \in 0..(n - 1)
    BY PlacesDiffer
  <2>2. Place(S, score, b) + 1 \in 1..n /\ Place(S, score, b) + 1 - 1 = Place(S, score, b)
    BY <1>1, <2>1
  <2>3. d[Place(S, score, b) + 1] \in S /\ Place(S, score, d[Place(S, score, b) + 1]) = Place(S, score, b)
    <3> DEFINE i == Place(S, score, b) + 1
    <3>1. i \in 1..n /\ i - 1 = Place(S, score, b)
      BY <1>1, <2>1, <2>2
    <3>2. d[i] \in S /\ Place(S, score, d[i]) = i - 1
      <4> HIDE DEF i, d
      <4> QED BY <1>3, <3>1
    <3> QED BY <3>1, <3>2
  <2> QED BY <2>2, <2>3, PlacesDiffer
<1>5. d \in Seq(S) /\ Len(d) = n /\ DOMAIN d = 1..n
  BY <1>1, <1>2, <1>3
<1> QED BY <1>3, <1>4, <1>5

-----------------------------------------------------------------------------
(* The merge of the two runs of a ranking is the ranking of all.                 *)

TakeNext(f, g, score, t, k) ==
    t[k - 1] + (IF FirstComes(f, g, score, t[k - 1], k - 1 - t[k - 1]) THEN 1 ELSE 0)
Taking(t, f, g, score, m) == t = [k \in 0..m |-> IF k = 0 THEN 0 ELSE TakeNext(f, g, score, t, k)]

LEMMA TakenIs ==
    ASSUME NEW f, NEW g, NEW score, NEW n \in Nat, n = Len(f) + Len(g)
    PROVE  /\ Taken(f, g, score)[0] = 0
           /\ \A k \in 1..n : Taken(f, g, score)[k] = TakeNext(f, g, score, Taken(f, g, score), k)
<1> DEFINE S == {m \in 0..n : \E t : Taking(t, f, g, score, m)}
<1>1. 0 \in S
  <2> DEFINE t == [k \in 0..0 |-> 0]
  <2>1. t = [k \in 0..0 |-> IF k = 0 THEN 0 ELSE TakeNext(f, g, score, t, k)]
    <3> HIDE DEF TakeNext
    <3> QED OBVIOUS
  <2>2. Taking(t, f, g, score, 0)
    BY <2>1 DEF Taking
  <2> HIDE DEF t
  <2> QED BY <2>2
<1>2. ASSUME NEW m \in 1..n, m - 1 \in S PROVE m \in S
  <2>1. PICK t : Taking(t, f, g, score, m - 1)
    BY <1>2
  <2> DEFINE u == [k \in 0..m |-> IF k = m THEN TakeNext(f, g, score, t, m) ELSE t[k]]
  <2>2. \A k \in 0..(m - 1) : u[k] = t[k]
    BY <1>2
  <2>3. \A k \in 1..m : TakeNext(f, g, score, u, k) = TakeNext(f, g, score, t, k)
    <3>1. \A k \in 1..m : u[k - 1] = t[k - 1]
      <4> HIDE DEF u
      <4> QED BY <2>2
    <3> HIDE DEF u
    <3> QED BY <3>1 DEF TakeNext
  <2>4. \A k \in 0..(m - 1) : t[k] = IF k = 0 THEN 0 ELSE TakeNext(f, g, score, t, k)
    BY <2>1 DEF Taking
  <2>5. ASSUME NEW k \in 0..m PROVE u[k] = IF k = 0 THEN 0 ELSE TakeNext(f, g, score, u, k)
    <3>1. CASE k = m
      <4>1. u[k] = TakeNext(f, g, score, t, k) /\ k \in 1..m
        BY <3>1, <1>2
      <4> HIDE DEF u
      <4> QED BY <2>3, <4>1
    <3>2. CASE k # m
      <4>1. k \in 0..(m - 1) /\ (k # 0 => k \in 1..m)
        BY <3>2, <1>2
      <4> HIDE DEF u
      <4> QED BY <2>2, <2>3, <2>4, <4>1
    <3> QED BY <3>1, <3>2
  <2>6. u = [k \in 0..m |-> u[k]]
    OBVIOUS
  <2>7. Taking(u, f, g, score, m)
    <3> HIDE DEF u
    <3> QED BY <2>5, <2>6 DEF Taking
  <2> HIDE DEF u
  <2> QED BY <2>7
<1>3. n \in S
  <2> HIDE DEF S
  <2> QED BY <1>1, <1>2, CountsUp
<1>4. \E t : Taking(t, f, g, score, n)
  BY <1>3
<1>5. Taken(f, g, score) = CHOOSE t : Taking(t, f, g, score, n)
  BY Zenon DEF Taken, Taking, TakeNext
<1>6. Taking(Taken(f, g, score), f, g, score, n)
  BY <1>4, <1>5
<1> QED BY <1>6 DEF Taking

\* The places of two parts of a set add up.
LEMMA PlacesAdd ==
    ASSUME NEW U \in SUBSET Belief, NEW N \in SUBSET Belief, U \cap N = {}, NEW score, NEW b
    PROVE  /\ Place(U \cup N, score, b) = Place(U, score, b) + Place(N, score, b)
           /\ Cardinality(U \cup N) = Cardinality(U) + Cardinality(N)
<1>1. IsFiniteSet(U) /\ IsFiniteSet(N) /\ Cardinality(U) \in Nat /\ Cardinality(N) \in Nat
  BY SomeBeliefs
<1>2. /\ IsFiniteSet(Ahead(U, score, b)) /\ IsFiniteSet(Ahead(N, score, b))
      /\ Place(U, score, b) \in Nat /\ Place(N, score, b) \in Nat
  BY PlaceIs
<1>3. /\ Ahead(U \cup N, score, b) = Ahead(U, score, b) \cup Ahead(N, score, b)
      /\ Ahead(U, score, b) \cap Ahead(N, score, b) = {}
  BY DEF Ahead
<1>4. Cardinality(U \cup N) = Cardinality(U) + Cardinality(N) - Cardinality(U \cap N)
  BY <1>1, FS_Union
<1>5. Cardinality(Ahead(U, score, b) \cup Ahead(N, score, b)) =
        Cardinality(Ahead(U, score, b)) + Cardinality(Ahead(N, score, b))
        - Cardinality(Ahead(U, score, b) \cap Ahead(N, score, b))
  BY <1>2, FS_Union
<1>6. Cardinality(U \cap N) = 0 /\ Cardinality(Ahead(U, score, b) \cap Ahead(N, score, b)) = 0
  BY <1>3, FS_EmptySet
<1>7. Cardinality(U \cup N) = Cardinality(U) + Cardinality(N)
  BY <1>1, <1>4, <1>6
<1>8. Place(U \cup N, score, b) = Place(U, score, b) + Place(N, score, b)
  <2>1. Place(U \cup N, score, b) = Cardinality(Ahead(U, score, b) \cup Ahead(N, score, b))
    BY <1>3, Zenon DEF Place
  <2>2. Cardinality(Ahead(U, score, b) \cup Ahead(N, score, b)) = Place(U, score, b) + Place(N, score, b) - 0
    BY <1>5, <1>6, Zenon DEF Place
  <2> QED BY <1>2, <2>1, <2>2
<1> QED BY <1>7, <1>8

\* What precedes the next belief of a digest is what precedes this one, and this one.
LEMMA NextPlaceIs ==
    ASSUME NEW S \in SUBSET Belief, NEW score \in Scores, NEW b \in S, NEW c \in S,
           Place(S, score, c) = Place(S, score, b) + 1, NEW T \in SUBSET S
    PROVE  Place(T, score, c) = Place(T, score, b) + (IF b \in T THEN 1 ELSE 0)
<1>1. b \in Belief /\ c \in Belief /\ \A d \in Belief : Place(S, score, d) \in Nat
  BY PlaceIs
<1>2. Before(score, b, c)
  <2>1. Place(S, score, b) < Place(S, score, c)
    BY <1>1
  <2> QED BY <1>1, <2>1, PlacesDiffer
<1>3. ASSUME NEW d \in S, Before(score, d, c), d # b PROVE Before(score, d, b)
  <2>1. CASE Before(score, b, d)
    <3>1. Place(S, score, b) < Place(S, score, d) /\ Place(S, score, d) < Place(S, score, c)
      BY <1>3, <2>1, PlacesRise
    <3> QED BY <1>1, <3>1
  <2> QED BY <1>1, <1>3, <2>1, BeforeOrders
<1>4. \A d \in S : Before(score, d, b) => Before(score, d, c) /\ d # b
  BY <1>2, BeforeOrders
<1>5. Ahead(T, score, c) = IF b \in T THEN Ahead(T, score, b) \cup {b} ELSE Ahead(T, score, b)
  BY <1>2, <1>3, <1>4 DEF Ahead
<1>6. b \notin Ahead(T, score, b) /\ IsFiniteSet(Ahead(T, score, b)) /\ T \in SUBSET Belief
  BY <1>4, PlaceIs DEF Ahead
<1>7. Cardinality(Ahead(T, score, b) \cup {b}) = Cardinality(Ahead(T, score, b)) + 1
  BY <1>6, FS_AddElement
<1>8. Cardinality(Ahead(T, score, b)) \in Nat
  BY <1>6, FS_CardinalityType
<1> QED BY <1>5, <1>7, <1>8 DEF Place

\* What stands after as many of a part as are before b is not before b.
LEMMA StandsAfter ==
    ASSUME NEW N \in SUBSET Belief, NEW score \in Scores, NEW b \in Belief, b \notin N,
           NEW k \in 1..Cardinality(N), k = Place(N, score, b) + 1
    PROVE  Digest(N, score)[k] \in N /\ Before(score, b, Digest(N, score)[k])
<1> DEFINE d == Digest(N, score)[k]
<1>1. d \in N /\ Place(N, score, d) = k - 1
  BY DigestIs
<1>2. k - 1 = Place(N, score, b) /\ Place(N, score, b) \in Nat
  BY PlaceIs
<1>3. ASSUME Before(score, d, b) PROVE FALSE
  <2> HIDE DEF d
  <2>1. Place(N, score, d) < Place(N, score, b)
    BY <1>1, <1>3, PlacesRise
  <2> QED BY <1>1, <1>2, <2>1
<1>4. d \in Belief /\ d # b
  BY <1>1
<1> QED BY <1>1, <1>3, <1>4, BeforeOrders

\* Of two parts, the first comes next exactly when the next belief of all is of it.
LEMMA FirstComesIf ==
    ASSUME NEW U \in SUBSET Belief, NEW N \in SUBSET Belief, U \cap N = {}, NEW score \in Scores,
           NEW b \in U \cup N
    PROVE  FirstComes(Digest(U, score), Digest(N, score), score, Place(U, score, b), Place(N, score, b))
             <=> b \in U
<1> DEFINE f == Digest(U, score)
           g == Digest(N, score)
           i == Place(U, score, b)
           j == Place(N, score, b)
<1>1. /\ Len(f) = Cardinality(U) /\ Len(g) = Cardinality(N)
      /\ Cardinality(U) \in Nat /\ Cardinality(N) \in Nat /\ i \in Nat /\ j \in Nat
  BY SomeBeliefs, PlaceIs, DigestIs
<1>2. ASSUME b \in U PROVE i + 1 \in 1..Cardinality(U) /\ f[i + 1] = b
  BY <1>2, DigestIs
<1>3. ASSUME b \in N PROVE j + 1 \in 1..Cardinality(N) /\ g[j + 1] = b
  BY <1>3, DigestIs
<1>4. j <= Cardinality(N) /\ i <= Cardinality(U)
  <2>1. Ahead(U, score, b) \in SUBSET U /\ Ahead(N, score, b) \in SUBSET N
    BY PlaceIs
  <2> QED BY <2>1, SomeBeliefs, FS_Subset DEF Place
<1>5. ASSUME b \notin N, j # Cardinality(N) PROVE Before(score, b, g[j + 1])
  <2>1. j + 1 \in 1..Cardinality(N)
    BY <1>1, <1>4, <1>5
  <2> QED BY <1>5, <2>1, StandsAfter
<1>6. ASSUME b \notin U, i # Cardinality(U) PROVE f[i + 1] \in U /\ Before(score, b, f[i + 1])
  <2>1. i + 1 \in 1..Cardinality(U)
    BY <1>1, <1>4, <1>6
  <2> QED BY <1>6, <2>1, StandsAfter
<1>7. CASE b \in U
  <2>1. b \notin N
    BY <1>7
  <2>2. FirstComes(f, g, score, i, j)
    <3> HIDE DEF f, g, i, j
    <3> QED BY <1>1, <1>2, <1>5, <1>7, <2>1 DEF FirstComes
  <2> QED BY <1>7, <2>2
<1>8. CASE b \in N
  <2>1. b \notin U
    BY <1>8
  <2>2. ASSUME FirstComes(f, g, score, i, j) PROVE FALSE
    <3>1. i < Cardinality(U) /\ (j = Cardinality(N) \/ Before(score, f[i + 1], g[j + 1]))
      <4> HIDE DEF f, g, i, j
      <4> QED BY <1>1, <2>2 DEF FirstComes
    <3>2. j < Cardinality(N) /\ g[j + 1] = b
      BY <1>1, <1>3, <1>8
    <3>3. Before(score, f[i + 1], b)
      BY <1>1, <3>1, <3>2
    <3>4. Before(score, b, f[i + 1]) /\ f[i + 1] \in Belief
      <4>1. i # Cardinality(U)
        BY <1>1, <3>1
      <4>2. f[i + 1] \in U /\ Before(score, b, f[i + 1])
        BY <1>6, <2>1, <4>1
      <4> HIDE DEF f
      <4> QED BY <4>2
    <3> HIDE DEF f
    <3> QED BY <3>3, <3>4, BeforeOrders
  <2> QED BY <1>8, <2>1, <2>2
<1> QED BY <1>7, <1>8

\* The merge of two digests is the digest of both.
LEMMA MergeIs ==
    ASSUME NEW U \in SUBSET Belief, NEW N \in SUBSET Belief, U \cap N = {}, NEW score \in Scores
    PROVE  Merge(Digest(U, score), Digest(N, score), score) = Digest(U \cup N, score)
<1> DEFINE f == Digest(U, score)
           g == Digest(N, score)
           S == U \cup N
           D == Digest(S, score)
           n == Cardinality(S)
           t == Taken(f, g, score)
           Comes(b) == IF b \in U THEN 1 ELSE 0
<1>1. /\ S \in SUBSET Belief /\ n \in Nat /\ n = Len(f) + Len(g)
      /\ DOMAIN D = 1..n /\ D = [k \in 1..n |-> D[k]]
      /\ \A k \in 1..n : D[k] \in S /\ Place(S, score, D[k]) = k - 1
  <2>1. n = Cardinality(U) + Cardinality(N) /\ Len(f) = Cardinality(U) /\ Len(g) = Cardinality(N)
    BY PlacesAdd, DigestIs
  <2>2. S \in SUBSET Belief
    OBVIOUS
  <2>3. DOMAIN D = 1..n /\ D \in Seq(S) /\ n \in Nat /\ Len(D) = n
    BY <2>2, DigestIs, SomeBeliefs
  <2>4. D = [k \in 1..n |-> D[k]]
    <3> HIDE DEF D, S, n
    <3> QED BY <2>3
  <2>5. \A k \in 1..n : D[k] \in S /\ Place(S, score, D[k]) = k - 1
    BY <2>2, DigestIs
  <2> QED BY <2>1, <2>2, <2>3, <2>4, <2>5
<1>2. t[0] = 0 /\ \A k \in 1..n : t[k] = TakeNext(f, g, score, t, k)
  <2> HIDE DEF f, g, n
  <2> QED BY <1>1, TakenIs
<1>3. \A b \in S : /\ Place(U, score, b) \in Nat /\ Place(N, score, b) \in Nat
                   /\ Place(S, score, b) = Place(U, score, b) + Place(N, score, b)
  <2> TAKE b \in S
  <2>1. Place(U, score, b) \in Nat /\ Place(N, score, b) \in Nat
    BY PlaceIs
  <2>2. Place(U \cup N, score, b) = Place(U, score, b) + Place(N, score, b)
    BY PlacesAdd
  <2> QED BY <2>1, <2>2
<1> DEFINE Right(k) == t[k - 1] = Place(U, score, D[k])
<1>4. ASSUME NEW k \in 1..n, Right(k)
      PROVE  /\ t[k] = t[k - 1] + Comes(D[k]) /\ k - 1 - t[k - 1] = Place(N, score, D[k])
             /\ D[k] \in U => f[t[k - 1] + 1] = D[k]
             /\ D[k] \notin U => g[k - t[k - 1]] = D[k]
  <2> DEFINE b == D[k]
  <2>1. b \in S /\ Place(S, score, b) = k - 1
    BY <1>1
  <2>2. t[k - 1] = Place(U, score, b) /\ k - 1 - t[k - 1] = Place(N, score, b)
    <3> HIDE DEF b, S, t
    <3> QED BY <1>3, <1>4, <2>1 DEF b
  <2>3. FirstComes(f, g, score, t[k - 1], k - 1 - t[k - 1]) <=> b \in U
    <3>1. FirstComes(f, g, score, Place(U, score, b), Place(N, score, b)) <=> b \in U
      <4> HIDE DEF b
      <4> QED BY <2>1, FirstComesIf
    <3> HIDE DEF b, f, g, t
    <3> QED BY <2>2, <3>1
  <2>4. t[k] = t[k - 1] + Comes(b)
    <3>1. t[k] = t[k - 1] + (IF FirstComes(f, g, score, t[k - 1], k - 1 - t[k - 1]) THEN 1 ELSE 0)
      <4> HIDE DEF f, g, t, n
      <4> QED BY <1>2 DEF TakeNext
    <3> HIDE DEF f, g, t, b
    <3> QED BY <2>3, <3>1
  <2>5. b \in U => f[Place(U, score, b) + 1] = b
    <3> HIDE DEF b
    <3>1. \A c \in U : f[Place(U, score, c) + 1] = c
      BY DigestIs
    <3> QED BY <3>1
  <2>6. b \notin U => g[Place(N, score, b) + 1] = b
    <3> HIDE DEF b
    <3>1. \A c \in N : g[Place(N, score, c) + 1] = c
      BY DigestIs
    <3> QED BY <2>1, <3>1
  <2>7. k - t[k - 1] = Place(N, score, b) + 1
    <3>1. Place(U, score, b) \in Nat /\ Place(N, score, b) \in Nat
      <4> HIDE DEF b
      <4> QED BY <1>3, <2>1
    <3> HIDE DEF b, t
    <3> QED BY <2>2, <3>1
  <2> HIDE DEF f, g, t
  <2> QED BY <2>2, <2>4, <2>5, <2>6, <2>7
<1>5. CASE n = 0
  <2>1. Merge(f, g, score) = [k \in 1..n |-> IF t[k] # t[k - 1] THEN f[t[k]] ELSE g[k - t[k]]]
    <3> HIDE DEF f, g, n
    <3> QED BY <1>1 DEF Merge
  <2>2. 1..n = {}
    <3> HIDE DEF n
    <3> QED BY <1>5
  <2> HIDE DEF f, g, t, D, n
  <2> QED BY <1>1, <2>1, <2>2 DEF D, f, g
<1>6. CASE n # 0
  <2> DEFINE Z == {k \in 0..(n - 1) : Right(k + 1)}
  <2>1. 0 \in Z
    <3>1. 1 \in 1..n /\ 0 \in 0..(n - 1)
      <4> HIDE DEF n
      <4> QED BY <1>1, <1>6
    <3>2. D[1] \in S /\ Place(S, score, D[1]) = 0
      <4> HIDE DEF n, D, S
      <4> QED BY <1>1, <3>1
    <3>3. Place(U, score, D[1]) = 0
      <4> HIDE DEF D, S
      <4> QED BY <1>3, <3>2
    <3>4. Right(0 + 1)
      <4> HIDE DEF D, t
      <4> QED BY <1>2, <3>3
    <3> HIDE DEF Right
    <3> QED BY <3>1, <3>4
  <2>2. ASSUME NEW m \in 1..(n - 1), m - 1 \in Z PROVE m \in Z
    <3>1. m \in 1..n /\ m + 1 \in 1..n /\ m - 1 + 1 = m /\ m + 1 - 1 = m /\ m \in 0..(n - 1)
      <4> HIDE DEF n
      <4> QED BY <1>1
    <3>2. Right(m)
      <4>1. Right(m - 1 + 1)
        BY <2>2
      <4> HIDE DEF Right
      <4> QED BY <3>1, <4>1
    <3>3. t[m] = Place(U, score, D[m]) + Comes(D[m])
      <4> HIDE DEF n, D, t, Comes
      <4> QED BY <1>4, <3>1, <3>2
    <3>4. D[m] \in S /\ D[m + 1] \in S /\ Place(S, score, D[m + 1]) = Place(S, score, D[m]) + 1
      <4> HIDE DEF n, D, S
      <4>1. Place(S, score, D[m + 1]) = m /\ Place(S, score, D[m]) = m - 1
        BY <1>1, <3>1
      <4> QED BY <1>1, <3>1, <4>1
    <3>5. Place(U, score, D[m + 1]) = Place(U, score, D[m]) + Comes(D[m])
      <4>1. U \in SUBSET S
        OBVIOUS
      <4> HIDE DEF D, S, n
      <4> QED BY <1>1, <3>4, <4>1, NextPlaceIs
    <3>6. Right(m + 1)
      <4> HIDE DEF D, t, Comes
      <4> QED BY <3>1, <3>3, <3>5
    <3> HIDE DEF Right, n
    <3> QED BY <3>1, <3>6
  <2>3. \A k \in 0..(n - 1) : k \in Z
    <3>1. n - 1 \in Nat
      <4> HIDE DEF n
      <4> QED BY <1>1, <1>6
    <3> HIDE DEF Z, n
    <3> QED BY <2>1, <2>2, <3>1, CountsUp
  <2>4. \A k \in 1..n : Right(k)
    <3>1. \A k \in 0..(n - 1) : Right(k + 1)
      BY <2>3
    <3>2. \A k \in 1..n : k - 1 \in 0..(n - 1) /\ k - 1 + 1 = k
      <4> HIDE DEF n
      <4> QED BY <1>1
    <3> HIDE DEF Right, n
    <3> QED BY <3>1, <3>2
  <2>5. ASSUME NEW k \in 1..n PROVE (IF t[k] # t[k - 1] THEN f[t[k]] ELSE g[k - t[k]]) = D[k]
    <3>1. /\ Right(k) /\ t[k] = t[k - 1] + Comes(D[k])
          /\ D[k] \in U => f[t[k - 1] + 1] = D[k]
          /\ D[k] \notin U => g[k - t[k - 1]] = D[k]
      <4> HIDE DEF n, D, t, Comes, f, g, Right
      <4> QED BY <1>4, <2>4
    <3>2. t[k - 1] \in Nat
      <4>1. D[k] \in S
        <5> HIDE DEF n, D, S
        <5> QED BY <1>1
      <4>2. Place(U, score, D[k]) \in Nat
        <5> HIDE DEF D, S
        <5> QED BY <1>3, <4>1
      <4> HIDE DEF D, t
      <4> QED BY <3>1, <4>2
    <3> HIDE DEF t, f, g, D, n, Right
    <3> QED BY <3>1, <3>2
  <2>6. Merge(f, g, score) = [k \in 1..n |-> IF t[k] # t[k - 1] THEN f[t[k]] ELSE g[k - t[k]]]
    <3> HIDE DEF f, g, n
    <3> QED BY <1>1 DEF Merge
  <2>7. Merge(f, g, score) = [k \in 1..n |-> D[k]]
    <3> HIDE DEF f, g, n, t, D
    <3> QED BY <2>5, <2>6
  <2>8. D = [k \in 1..n |-> D[k]]
    BY <1>1
  <2>9. Merge(f, g, score) = D
    <3> HIDE DEF f, g, n, D
    <3> QED BY <2>7, <2>8
  <2> QED BY <2>9
<1> QED BY <1>5, <1>6

-----------------------------------------------------------------------------
(* What moves with a lift.  A belief that gains nothing falls, so the share of   *)
(* the unused in a head falls as the lift rises, and under the flat lift of the  *)
(* viewer's beliefs those rise and all others fall.                              *)

RankTypes ==
    /\ confidence \in [Belief -> Confidence] /\ use \in [Belief -> Use]
    /\ cohort \subseteq Belief /\ lift \in Lifts

\* The lifts a sweep evaluates are numbers, and any of them have a least and a greatest.
LEMMA LiftsAre ==
    /\ Lifts \subseteq Nat
    /\ \A T \in SUBSET Lifts : T # {} =>
          /\ \E x \in T : \A y \in T : x <= y
          /\ \E x \in T : \A y \in T : y <= x
<1>1. Len(Grid) \in Nat /\ DOMAIN Grid = 1..Len(Grid) /\ \A i \in 1..Len(Grid) : Grid[i] \in Nat
  BY RankLiftAssumption
<1>2. Lifts \subseteq Nat
  BY <1>1 DEF Lifts
<1>3. ASSUME NEW T \in SUBSET Lifts, T # {} PROVE \E x \in T : \A y \in T : x <= y
  BY <1>2, <1>3, LeastOf
<1>4. ASSUME NEW T \in SUBSET Lifts, T # {} PROVE \E x \in T : \A y \in T : y <= x
  <2> DEFINE I == {i \in 1..Len(Grid) : Grid[i] \in T}
  <2>1. I \in SUBSET (1..Len(Grid)) /\ \A y \in T : \E i \in I : y = Grid[i]
    BY <1>1 DEF Lifts
  <2>2. I # {}
    BY <1>4, <2>1
  <2>3. PICK i \in I : \A j \in I : j <= i
    <3> HIDE DEF I
    <3> QED BY <1>1, <2>1, <2>2, GreatestOf
  <2>4. ASSUME NEW y \in T PROVE y <= Grid[i]
    <3>1. PICK j \in I : y = Grid[j]
      BY <2>1
    <3>2. j <= i /\ i \in 1..Len(Grid) /\ j \in 1..Len(Grid)
      BY <2>3
    <3>3. j < i => Grid[j] <= Grid[i]
      BY <1>1, <3>2, RankLiftAssumption
    <3> QED BY <1>1, <3>1, <3>2, <3>3
  <2> QED BY <2>4
<1> QED BY <1>2, <1>3, <1>4

\* Of a set of lifts with no hole, the band is contiguous, and its ends are in it.
LEMMA BandIs ==
    ASSUME NEW T \in SUBSET Lifts
    PROVE  /\ Band(T).empty <=> T = {}
           /\ T # {} => Band(T).high \in T
           /\ (\A x, y \in T, z \in Lifts : x <= z /\ z <= y => z \in T) => Band(T).contiguous
<1>1. CASE T = {}
  BY <1>1 DEF Band
<1>2. CASE T # {}
  <2> DEFINE low == CHOOSE x \in T : \A y \in T : x <= y
             high == CHOOSE x \in T : \A y \in T : y <= x
  <2>1. low \in T /\ \A y \in T : low <= y
    BY <1>2, LiftsAre
  <2>2. high \in T /\ \A y \in T : y <= high
    BY <1>2, LiftsAre
  <2>3. Band(T) = [empty |-> FALSE, low |-> low, high |-> high,
                   contiguous |-> {x \in Lifts : low <= x /\ x <= high} = T]
    BY <1>2 DEF Band
  <2> HIDE DEF low, high
  <2>4. (\A x, y \in T, z \in Lifts : x <= z /\ z <= y => z \in T)
          => {x \in Lifts : low <= x /\ x <= high} = T
    BY <2>1, <2>2
  <2>5. Band(T).empty = FALSE /\ Band(T).high = high
    BY <2>3
  <2>6. Band(T).contiguous = ({x \in Lifts : low <= x /\ x <= high} = T)
    BY <2>3
  <2>7. {x \in Lifts : low <= x /\ x <= high} = T => Band(T).contiguous
    BY <2>6, Zenon
  <2> QED BY <1>2, <2>2, <2>4, <2>5, <2>7
<1> QED BY <1>1, <1>2

\* The beliefs of a head of n.
Heads(score, n) == {b \in Belief : Place(Belief, score, b) < n}
Least(m, n) == IF m < n THEN m ELSE n

LEMMA HeadIs ==
    ASSUME NEW score \in Scores, NEW n \in Nat \ {0}
    PROVE  /\ ToSet(Prefix(Digest(Belief, score), n)) = Heads(score, n)
           /\ Len(Prefix(Digest(Belief, score), n)) = Least(n, Cardinality(Belief))
<1> DEFINE d == Digest(Belief, score)
           c == Cardinality(Belief)
           m == Least(n, c)
           s == Prefix(d, n)
<1>1. Belief \in SUBSET Belief
  OBVIOUS
<1>2. /\ c \in Nat /\ d \in Seq(Belief) /\ Len(d) = c
      /\ \A i \in 1..c : d[i] \in Belief /\ Place(Belief, score, d[i]) = i - 1
      /\ \A b \in Belief : Place(Belief, score, b) + 1 \in 1..c /\ d[Place(Belief, score, b) + 1] = b
  BY <1>1, SomeBeliefs, DigestIs
<1>3. m \in 0..c /\ m <= n
  BY <1>2 DEF Least
<1>4. s = SubSeq(d, 1, m)
  BY <1>2 DEF Prefix, Least
<1>5. Len(s) = m /\ DOMAIN s = 1..m /\ \A i \in 1..m : s[i] = d[i]
  <2> HIDE DEF s, d, m, c
  <2> QED BY <1>2, <1>3, <1>4
<1>6. ASSUME NEW b \in ToSet(s) PROVE b \in Heads(score, n)
  <2> HIDE DEF s, d, m, c
  <2>1. PICK i \in 1..m : b = d[i]
    BY <1>5, <1>6 DEF ToSet
  <2>2. i \in 1..c /\ i - 1 < n
    BY <1>2, <1>3
  <2>3. b \in Belief /\ Place(Belief, score, b) = i - 1
    BY <1>2, <2>1, <2>2
  <2> QED BY <2>2, <2>3 DEF Heads
<1>7. ASSUME NEW b \in Heads(score, n) PROVE b \in ToSet(s)
  <2> DEFINE i == Place(Belief, score, b) + 1
  <2>1. b \in Belief /\ Place(Belief, score, b) < n /\ Place(Belief, score, b) \in Nat
    BY <1>1, PlaceIs DEF Heads
  <2>2. i \in 1..c /\ d[i] = b
    BY <1>2, <2>1
  <2>3. i \in 1..m
    <3> HIDE DEF c
    <3> QED BY <1>2, <2>1, <2>2 DEF Least
  <2> HIDE DEF i, s, d, m
  <2> QED BY <1>5, <2>2, <2>3 DEF ToSet
<1>8. ToSet(s) = Heads(score, n)
  <2> HIDE DEF s
  <2> QED BY <1>6, <1>7
<1> QED BY <1>5, <1>8

\* How many of some beliefs a head holds grows with the beliefs it holds.
LEMMA HoldsMore ==
    ASSUME NEW f, NEW g, NEW T, ToSet(g) \subseteq Belief, ToSet(f) \cap T \subseteq ToSet(g)
    PROVE  In(f, T) <= In(g, T) /\ In(f, T) \in Nat /\ In(g, T) \in Nat
<1> DEFINE F == {b \in ToSet(f) : b \in T}
           G == {b \in ToSet(g) : b \in T}
<1>1. G \in SUBSET Belief /\ F \in SUBSET G
  OBVIOUS
<1>2. IsFiniteSet(G) /\ Cardinality(G) \in Nat
  <2> HIDE DEF G
  <2> QED BY <1>1, SomeBeliefs
<1>3. IsFiniteSet(F) /\ Cardinality(F) <= Cardinality(G)
  <2> HIDE DEF F, G
  <2> QED BY <1>1, <1>2, FS_Subset
<1>4. Cardinality(F) \in Nat
  <2> HIDE DEF F
  <2> QED BY <1>3, FS_CardinalityType
<1> QED BY <1>2, <1>3, <1>4 DEF In

\* A belief with no more ahead of it is in every head it was in.
LEMMA StaysIn ==
    ASSUME NEW s, NEW t, NEW b \in Belief, NEW n \in Nat,
           Ahead(Belief, t, b) \subseteq Ahead(Belief, s, b), b \in Heads(s, n)
    PROVE  b \in Heads(t, n)
<1>1. Belief \in SUBSET Belief
  OBVIOUS
<1>2. /\ IsFiniteSet(Ahead(Belief, s, b)) /\ Place(Belief, s, b) \in Nat /\ Place(Belief, t, b) \in Nat
      /\ Ahead(Belief, t, b) \in SUBSET Ahead(Belief, s, b)
  BY <1>1, PlaceIs
<1>3. Place(Belief, t, b) <= Place(Belief, s, b)
  BY <1>2, FS_Subset DEF Place
<1> QED BY <1>2, <1>3 DEF Heads

LEMMA ScoredIs ==
    ASSUME RankTypes, NEW l \in Nat
    PROVE  /\ Scored(l) \in Scores
           /\ \A b \in Belief : Scored(l)[b] = confidence[b] + l * use[b]
           /\ \A b \in Unused : Scored(l)[b] = confidence[b]
           /\ \A b \in Belief : confidence[b] \in Nat /\ use[b] \in Nat
<1>1. \A b \in Belief : confidence[b] \in Nat /\ use[b] \in Nat
  BY RankLiftAssumption DEF RankTypes
<1>2. \A b \in Belief : confidence[b] + l * use[b] \in Nat
  <2> TAKE b \in Belief
  <2>1. \A u \in Nat : l * u \in Nat
    OBVIOUS
  <2> QED BY <1>1, <2>1
<1>3. \A b \in Belief : Scored(l)[b] = confidence[b] + l * use[b]
  BY DEF Scored
<1>4. \A b \in Unused : Scored(l)[b] = confidence[b]
  <2> TAKE b \in Unused
  <2>1. b \in Belief /\ use[b] = 0
    BY DEF Unused
  <2>2. l * 0 = 0
    OBVIOUS
  <2> QED BY <1>1, <1>3, <2>1, <2>2
<1>5. Scored(l) \in Scores
  BY <1>2 DEF Scored, Scores
<1> QED BY <1>1, <1>3, <1>4, <1>5

\* A digest reads the scores of its own beliefs.
LEMMA DigestAgrees ==
    ASSUME NEW S \in SUBSET Belief, NEW score, NEW other, \A b \in S : score[b] = other[b]
    PROVE  Digest(S, score) = Digest(S, other)
<1>1. \A b \in S : Ahead(S, score, b) = Ahead(S, other, b)
  BY DEF Ahead, Before
<1>2. Places(S, score) = Places(S, other)
  BY <1>1 DEF Places
<1> QED BY <1>2 DEF Digest

\* The head judged is the head rendered: what the ranker merges is the digest of all.
LEMMA OrderedIs ==
    ASSUME RankTypes, NEW l \in Nat
    PROVE  Ordered(l) = Digest(Belief, Scored(l))
<1>1. /\ Belief \ Unused \in SUBSET Belief /\ Unused \in SUBSET Belief
      /\ (Belief \ Unused) \cap Unused = {} /\ (Belief \ Unused) \cup Unused = Belief
  BY DEF Unused
<1>2. Digest(Unused, confidence) = Digest(Unused, Scored(l))
  BY <1>1, ScoredIs, DigestAgrees
<1>3. Scored(l) \in Scores
  BY ScoredIs
<1>4. Merge(Digest(Belief \ Unused, Scored(l)), Digest(Unused, Scored(l)), Scored(l))
        = Digest((Belief \ Unused) \cup Unused, Scored(l))
  BY <1>1, <1>3, MergeIs
<1> QED BY <1>1, <1>2, <1>4 DEF Ordered

\* A higher lift leaves an unused belief no better placed.
LEMMA UnusedFall ==
    ASSUME RankTypes, NEW l \in Nat, NEW m \in Nat, l <= m, NEW b \in Unused
    PROVE  Ahead(Belief, Scored(l), b) \subseteq Ahead(Belief, Scored(m), b)
<1>1. ASSUME NEW c \in Belief, Before(Scored(l), c, b) PROVE Before(Scored(m), c, b)
  <2>1. b \in Belief /\ Scored(l)[b] = confidence[b] /\ Scored(m)[b] = confidence[b]
    BY ScoredIs DEF Unused
  <2>2. /\ Scored(l)[c] = confidence[c] + l * use[c] /\ Scored(m)[c] = confidence[c] + m * use[c]
        /\ confidence[c] \in Nat /\ use[c] \in Nat /\ confidence[b] \in Nat
    BY <2>1, ScoredIs
  <2>3. \A u \in Nat : l * u <= m * u /\ l * u \in Nat /\ m * u \in Nat
    OBVIOUS
  <2>4. Scored(l)[c] <= Scored(m)[c] /\ Scored(l)[c] \in Nat /\ Scored(m)[c] \in Nat
    BY <2>2, <2>3
  <2>5. b \in Nat /\ c \in Nat
    BY <2>1, RankLiftAssumption
  <2> QED BY <1>1, <2>1, <2>2, <2>4, <2>5 DEF Before
<1> QED BY <1>1 DEF Ahead

\* A head that has its share of the unused has it at every lower lift.
LEMMA EntryFalls ==
    ASSUME RankTypes, NEW l \in Nat, NEW m \in Nat, l <= m, NEW n \in Nat \ {0},
           EntryOk(HeadAt(m, n))
    PROVE  EntryOk(HeadAt(l, n))
<1> DEFINE f == HeadAt(m, n)
           g == HeadAt(l, n)
<1>1. /\ ToSet(f) = Heads(Scored(m), n) /\ ToSet(g) = Heads(Scored(l), n)
      /\ Len(f) = Least(n, Cardinality(Belief)) /\ Len(g) = Least(n, Cardinality(Belief))
  BY OrderedIs, ScoredIs, HeadIs DEF HeadAt
<1>2. ASSUME NEW b \in Heads(Scored(m), n) \cap Unused PROVE b \in Heads(Scored(l), n)
  BY UnusedFall, StaysIn DEF Unused
<1>3. ToSet(g) \subseteq Belief /\ ToSet(f) \cap Unused \subseteq ToSet(g)
  BY <1>1, <1>2 DEF Heads
<1>4. In(f, Unused) <= In(g, Unused) /\ In(f, Unused) \in Nat /\ In(g, Unused) \in Nat
  <2> HIDE DEF f, g
  <2> QED BY <1>3, HoldsMore
<1>5. 100 * In(f, Unused) >= EntryShare * Len(g)
  <2> HIDE DEF f, g
  <2>1. EntryOk(f)
    BY DEF f
  <2> QED BY <1>1, <2>1 DEF EntryOk
<1>6. EntryShare * Len(g) \in Nat
  <2>1. Cardinality(Belief) \in Nat /\ EntryShare \in Nat
    BY SomeBeliefs, RankLiftAssumption
  <2>2. Len(g) \in Nat
    BY <1>1, <2>1 DEF Least
  <2>3. \A x, y \in Nat : x * y \in Nat
    OBVIOUS
  <2> HIDE DEF g
  <2> QED BY <2>1, <2>2, <2>3
<1>7. 100 * In(g, Unused) >= EntryShare * Len(g)
  <2> DEFINE e == EntryShare * Len(g)
  <2> HIDE DEF f, g, e
  <2>1. 100 * In(f, Unused) >= e /\ e \in Nat
    BY <1>5, <1>6 DEF e
  <2>2. 100 * In(g, Unused) >= e
    BY <1>4, <2>1
  <2> QED BY <2>2 DEF e
<1> QED BY <1>7 DEF EntryOk

\* A lift above the ceiling has admissible lifts, all smaller.
LEMMA CeilingIsAbove ==
    ASSUME RankTypes, NEW n \in HeadSize, Verdict(n) = "above_ceiling"
    PROVE  MonitorBand(n).high < lift
<1> DEFINE T == {l \in Lifts : BothOk(l, n)}
<1>1. ~BothOk(lift, n) /\ ~MonitorBand(n).empty /\ CaptureOk(HeadAt(lift, n))
  BY DEF Verdict
<1>2. n \in Nat \ {0} /\ lift \in Nat /\ Lifts \subseteq Nat /\ T \in SUBSET Lifts
  BY RankLiftAssumption, LiftsAre DEF RankTypes
<1>3. MonitorBand(n).high \in T
  <2> HIDE DEF T
  <2>1. MonitorBand(n) = Band(T)
    BY DEF MonitorBand, T
  <2> QED BY <1>1, <1>2, <2>1, BandIs
<1>4. ~EntryOk(HeadAt(lift, n))
  BY <1>1 DEF BothOk
<1>5. ASSUME NEW l \in T, lift <= l PROVE FALSE
  <2>1. l \in Nat /\ EntryOk(HeadAt(l, n))
    BY <1>2 DEF BothOk
  <2> QED BY <1>2, <1>4, <1>5, <2>1, EntryFalls
<1>6. \A l \in T : l \in Nat
  BY <1>2
<1> DEFINE high == MonitorBand(n).high
<1> HIDE DEF T, high
<1>7. high \in T
  BY <1>3 DEF high
<1>8. high \in Nat /\ ~(lift <= high)
  BY <1>5, <1>6, <1>7
<1>9. high < lift
  BY <1>2, <1>8
<1> QED BY <1>9 DEF high

\* The scores under a flat lift of the viewer's beliefs.
OwnerScored(owner, w) == [b \in Belief |-> Scored(lift)[b] + (IF b \in owner THEN w ELSE 0)]

LEMMA OwnerScoredIs ==
    ASSUME RankTypes, NEW owner, NEW w \in Nat
    PROVE  /\ OwnerScored(owner, w) \in Scores
           /\ \A b \in Belief : /\ Scored(lift)[b] \in Nat
                                /\ b \in owner => OwnerScored(owner, w)[b] = Scored(lift)[b] + w
                                /\ b \notin owner => OwnerScored(owner, w)[b] = Scored(lift)[b]
<1>1. \A b \in Belief : Scored(lift)[b] \in Nat
  BY LiftsAre, ScoredIs DEF RankTypes, Scores
<1>2. \A b \in Belief : /\ b \in owner => OwnerScored(owner, w)[b] = Scored(lift)[b] + w
                        /\ b \notin owner => OwnerScored(owner, w)[b] = Scored(lift)[b]
  BY <1>1 DEF OwnerScored
<1>3. OwnerScored(owner, w) \in Scores
  BY <1>1 DEF OwnerScored, Scores
<1> QED BY <1>1, <1>2, <1>3

OwnerHolds(owner, w, n) == Heads(OwnerScored(owner, w), n)

LEMMA OwnerHeadIs ==
    ASSUME RankTypes, NEW owner, NEW w \in Nat, NEW n \in Nat \ {0}
    PROVE  ToSet(OwnerHead(owner, w, n)) = OwnerHolds(owner, w, n)
BY OwnerScoredIs, HeadIs DEF OwnerHead, OwnerScored, OwnerHolds

\* As the flat lift rises, the viewer's beliefs enter a head and the others leave it.
LEMMA OwnersRise ==
    ASSUME RankTypes, NEW owner, NEW w \in Nat, NEW v \in Nat, w <= v, NEW n \in Nat
    PROVE  /\ OwnerHolds(owner, w, n) \cap owner \subseteq OwnerHolds(owner, v, n)
           /\ OwnerHolds(owner, v, n) \ owner \subseteq OwnerHolds(owner, w, n)
<1> DEFINE s == OwnerScored(owner, w)
           t == OwnerScored(owner, v)
           base == Scored(lift)
<1>1. \A b \in Belief : /\ base[b] \in Nat /\ b \in Nat
                        /\ b \in owner => s[b] = base[b] + w /\ t[b] = base[b] + v
                        /\ b \notin owner => s[b] = base[b] /\ t[b] = base[b]
  BY OwnerScoredIs, RankLiftAssumption
<1>2. ASSUME NEW b \in Belief, b \in owner, b \in Heads(s, n) PROVE b \in Heads(t, n)
  <2>1. Ahead(Belief, t, b) \subseteq Ahead(Belief, s, b)
    <3>1. ASSUME NEW c \in Belief, Before(t, c, b) PROVE Before(s, c, b)
      <4> HIDE DEF s, t, base
      <4>1. CASE c \in owner
        BY <1>1, <1>2, <3>1, <4>1 DEF Before
      <4>2. CASE c \notin owner
        BY <1>1, <1>2, <3>1, <4>2 DEF Before
      <4> QED BY <4>1, <4>2
    <3> QED BY <3>1 DEF Ahead
  <2> HIDE DEF s, t
  <2> QED BY <1>2, <2>1, StaysIn
<1>3. ASSUME NEW b \in Belief, b \notin owner, b \in Heads(t, n) PROVE b \in Heads(s, n)
  <2>1. Ahead(Belief, s, b) \subseteq Ahead(Belief, t, b)
    <3>1. ASSUME NEW c \in Belief, Before(s, c, b) PROVE Before(t, c, b)
      <4> HIDE DEF s, t, base
      <4>1. CASE c \in owner
        BY <1>1, <1>3, <3>1, <4>1 DEF Before
      <4>2. CASE c \notin owner
        BY <1>1, <1>3, <3>1, <4>2 DEF Before
      <4> QED BY <4>1, <4>2
    <3> QED BY <3>1 DEF Ahead
  <2> HIDE DEF s, t
  <2> QED BY <1>3, <2>1, StaysIn
<1> QED BY <1>2, <1>3 DEF OwnerHolds, Heads

\* Between two admissible flat lifts every one is.
LEMMA OwnerBetween ==
    ASSUME RankTypes, NEW owner, NEW targets, NEW n \in Nat \ {0},
           NEW u \in Nat, NEW w \in Nat, NEW v \in Nat, u <= w, w <= v,
           OwnerAdmissible(owner, targets, u, n), OwnerAdmissible(owner, targets, v, n)
    PROVE  OwnerAdmissible(owner, targets, w, n)
<1> DEFINE H(x) == OwnerHead(owner, x, n)
<1>1. \A x \in Nat : ToSet(H(x)) = OwnerHolds(owner, x, n) /\ ToSet(H(x)) \subseteq Belief
  <2> TAKE x \in Nat
  <2>1. ToSet(H(x)) = OwnerHolds(owner, x, n)
    BY OwnerHeadIs
  <2> QED BY <2>1 DEF OwnerHolds, Heads
<1>2. /\ ToSet(H(u)) \cap owner \subseteq ToSet(H(w)) /\ ToSet(H(w)) \cap owner \subseteq ToSet(H(v))
      /\ ToSet(H(0)) \cap owner \subseteq ToSet(H(w)) /\ ToSet(H(v)) \ owner \subseteq ToSet(H(w))
  <2>1. ASSUME NEW x \in Nat, NEW y \in Nat, x <= y
        PROVE  /\ ToSet(H(x)) \cap owner \subseteq ToSet(H(y))
               /\ ToSet(H(y)) \ owner \subseteq ToSet(H(x))
    <3>1. ToSet(H(x)) = OwnerHolds(owner, x, n) /\ ToSet(H(y)) = OwnerHolds(owner, y, n)
      BY <1>1
    <3> HIDE DEF H
    <3> QED BY <2>1, <3>1, OwnersRise
  <2>2. 0 \in Nat /\ 0 <= w
    OBVIOUS
  <2> HIDE DEF H
  <2> QED BY <2>1, <2>2
<1>3. In(H(u), owner) <= In(H(w), owner) /\ In(H(u), owner) \in Nat /\ In(H(w), owner) \in Nat
  <2> HIDE DEF H
  <2> QED BY <1>1, <1>2, HoldsMore
<1>4. In(H(w), owner) <= In(H(v), owner) /\ In(H(v), owner) \in Nat
  <2> HIDE DEF H
  <2> QED BY <1>1, <1>2, HoldsMore
<1>5. /\ In(H(u), owner) >= 1 /\ 100 * In(H(v), owner) <= OwnerShare * n
      /\ targets \cap ToSet(H(0)) \subseteq ToSet(H(v))
  BY DEF OwnerAdmissible
<1>6. In(H(w), owner) >= 1 /\ 100 * In(H(w), owner) <= OwnerShare * n
  <2> DEFINE share == OwnerShare * n
  <2>1. share \in Nat
    <3>1. OwnerShare \in Nat /\ n \in Nat /\ \A x, y \in Nat : x * y \in Nat
      BY RankLiftAssumption
    <3> QED BY <3>1
  <2> HIDE DEF H, share
  <2>2. In(H(w), owner) >= 1 /\ 100 * In(H(w), owner) <= share
    BY <1>3, <1>4, <1>5, <2>1 DEF share
  <2> QED BY <2>2 DEF share
<1>7. targets \cap ToSet(H(0)) \subseteq ToSet(H(w))
  <2> HIDE DEF H
  <2> QED BY <1>2, <1>5
<1> QED BY <1>6, <1>7 DEF OwnerAdmissible

\* The viewer's band has no hole.
LEMMA OwnerBandIsWhole ==
    ASSUME RankTypes, NEW owner, NEW targets
    PROVE  OwnerBand(owner, targets, HeadSize).contiguous
<1> DEFINE T == {w \in Lifts : \A n \in HeadSize : OwnerAdmissible(owner, targets, w, n)}
<1>1. T \in SUBSET Lifts /\ Lifts \subseteq Nat /\ \A n \in HeadSize : n \in Nat \ {0}
  BY LiftsAre, RankLiftAssumption
<1>2. ASSUME NEW u \in T, NEW v \in T, NEW w \in Lifts, u <= w, w <= v PROVE w \in T
  <2>1. u \in Nat /\ v \in Nat /\ w \in Nat
    BY <1>1
  <2>2. ASSUME NEW n \in HeadSize PROVE OwnerAdmissible(owner, targets, w, n)
    <3>1. OwnerAdmissible(owner, targets, u, n) /\ OwnerAdmissible(owner, targets, v, n)
      OBVIOUS
    <3> QED BY <1>1, <1>2, <2>1, <3>1, OwnerBetween
  <2> QED BY <2>2
<1>3. Band(T).contiguous
  <2> HIDE DEF T
  <2> QED BY <1>1, <1>2, BandIs
<1> QED BY <1>3 DEF OwnerBand

-----------------------------------------------------------------------------
(* The monitor.  The inductive invariant: a head whose verdict ever changed does *)
(* not stand, and before the first run all do; out of band with no alert means   *)
(* standing.                                                                     *)

RankInv ==
    /\ RankTypes /\ night \in Nat /\ standing \subseteq HeadSize
    /\ last = <<>> => standing = HeadSize
    /\ NoDriftUnannounced

LEMMA RankStarts == ASSUME RankInit PROVE RankInv
BY DEF RankInit, RankInv, RankTypes, NoDriftUnannounced

LEMMA MonitorStep == ASSUME RankInv, Monitor PROVE RankInv'
<1> DEFINE current == [n \in HeadSize |-> Verdict(n)]
<1>1. /\ night' = night + 1 /\ last' = current /\ alert' = PlanAlert(current, night + 1)
      /\ standing' = {n \in standing : last = <<>> \/ last[n] = current[n]}
      /\ UNCHANGED <<confidence, use, cohort, lift>>
  BY DEF Monitor
<1> HIDE DEF current
<1>2. RankTypes' /\ night' \in Nat /\ standing' \subseteq HeadSize
  BY <1>1 DEF RankInv, RankTypes, Lifts
<1>3. ASSUME last' = <<>> PROVE standing' = HeadSize
  <2>1. DOMAIN current = HeadSize
    BY DEF current
  <2>2. HeadSize = {}
    BY <1>1, <1>3, <2>1
  <2> QED BY <1>2, <2>2
<1>4. ASSUME alert' = 0, NEW n \in HeadSize, current[n] \in OutOfBand PROVE n \in standing'
  <2>1. CASE last = <<>>
    BY <1>1, <2>1 DEF RankInv
  <2>2. CASE last # <<>>
    <3>1. night + 1 # 0
      BY DEF RankInv
    <3>2. ~\E m \in HeadSize : current[m] \in OutOfBand /\ last[m] # current[m]
      BY <1>1, <1>4, <2>2, <3>1 DEF PlanAlert
    <3>3. alert = 0
      BY <1>1, <1>4, <2>2, <3>2 DEF PlanAlert
    <3>4. last[n] = current[n]
      BY <1>4, <3>2
    <3>5. n \in standing
      BY <1>4, <2>2, <3>3, <3>4 DEF RankInv, NoDriftUnannounced
    <3> QED BY <1>1, <3>4, <3>5
  <2> QED BY <2>1, <2>2
<1>5. NoDriftUnannounced'
  BY <1>1, <1>4 DEF NoDriftUnannounced, OutOfBand
<1> QED BY <1>2, <1>3, <1>5 DEF RankInv

LEMMA RankStep == ASSUME RankInv, [RankNext]_rank PROVE RankInv'
<1>1. CASE Monitor
  BY <1>1, MonitorStep
<1>2. CASE UNCHANGED rank
  BY <1>2 DEF rank, RankInv, RankTypes, NoDriftUnannounced, OutOfBand, Lifts
<1>3. ASSUME UNCHANGED <<last, alert, night, standing>>, RankTypes' PROVE RankInv'
  BY <1>3 DEF RankInv, NoDriftUnannounced, OutOfBand
<1>4. ASSUME NEW b \in Belief, Select(b) PROVE RankInv'
  <2>1. RankTypes' /\ UNCHANGED <<last, alert, night, standing>>
    BY <1>4 DEF Select, RankInv, RankTypes, Lifts
  <2> QED BY <1>3, <2>1
<1>5. ASSUME NEW b \in Belief, NEW u \in Use, Credit(b, u) PROVE RankInv'
  <2>1. RankTypes' /\ UNCHANGED <<last, alert, night, standing>>
    BY <1>5 DEF Credit, RankInv, RankTypes, Lifts
  <2> QED BY <1>3, <2>1
<1>6. ASSUME NEW b \in Belief, NEW c \in Confidence, Rescore(b, c) PROVE RankInv'
  <2>1. RankTypes' /\ UNCHANGED <<last, alert, night, standing>>
    BY <1>6 DEF Rescore, RankInv, RankTypes, Lifts
  <2> QED BY <1>3, <2>1
<1>7. ASSUME NEW l \in Lifts, SetLift(l) PROVE RankInv'
  <2>1. RankTypes' /\ UNCHANGED <<last, alert, night, standing>>
    BY <1>7 DEF SetLift, RankInv, RankTypes, Lifts
  <2> QED BY <1>3, <2>1
<1> QED BY <1>1, <1>2, <1>4, <1>5, <1>6, <1>7 DEF RankNext

\* The inductive invariant of the monitor.
THEOREM RankIsInvariant == RankSpec => []RankInv
<1>1. RankInit => RankInv
  BY RankStarts
<1>2. RankInv /\ [RankNext]_rank => RankInv'
  BY RankStep
<1> QED BY <1>1, <1>2, PTL DEF RankSpec

\* For any beliefs, scores, grid and criteria, at every moment: what the ranker merges is the
\* digest of all, a lift above the ceiling has admissible lifts and all are smaller, and the
\* viewer's band has no hole (evaluate_rank_lift_monitor, sweep_owner_rank_lift).
THEOREM VerdictsDoPointTheWay == RankSpec => []VerdictsPointTheWay
<1>1. ASSUME RankInv PROVE VerdictsPointTheWay
  <2>1. RankTypes /\ Lifts \subseteq Nat
    BY <1>1, LiftsAre DEF RankInv
  <2>2. \A l \in Lifts : Ordered(l) = Digest(Belief, Scored(l))
    BY <2>1, OrderedIs
  <2>3. \A n \in HeadSize : Verdict(n) = "above_ceiling" => MonitorBand(n).high < lift
    BY <2>1, CeilingIsAbove
  <2>4. \A owner, targets \in SUBSET Belief : OwnerBand(owner, targets, HeadSize).contiguous
    BY <2>1, OwnerBandIsWhole
  <2> QED BY <2>2, <2>3, <2>4 DEF VerdictsPointTheWay
<1>2. RankInv => VerdictsPointTheWay
  BY <1>1
<1> QED BY <1>2, RankIsInvariant, PTL

\* A verdict is so, and a head out of band with no alert standing read exactly so in every run
\* since the first (plan_alert).
THEOREM VerdictsHold == RankSpec => []VerdictsAreTrue
<1>1. RankInv => NoDriftUnannounced
  BY DEF RankInv
<1>2. VerdictsPointTheWay /\ NoDriftUnannounced => VerdictsAreTrue
  BY DEF VerdictsAreTrue
<1> QED BY <1>1, <1>2, RankIsInvariant, VerdictsDoPointTheWay, PTL
=====================================================================================
