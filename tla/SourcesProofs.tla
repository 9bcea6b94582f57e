--------------------------- MODULE SourcesProofs ------------------------------------
(***************************************************************************)
(* Theorems about how sources are read: GeneralExtractor, for every text   *)
(* and every document, whatever the versions, caps and sizes, and the      *)
(* three thread sources, for every thread and every cap.                   *)
(*                                                                         *)
(* The extractor.  A pass is a plan (the chunks of the text it started     *)
(* from, which no step of it changes) and the outcomes so far.  What each  *)
(* outcome is depends on the chunks before it alone: how many of them had  *)
(* nothing to carry (Misses).  The calls counted are as many as that, up   *)
(* to the cap.  The store, the version and the marks of a reindex stay as  *)
(* they are until the pass ends, so what could be carried at the start of  *)
(* it can be carried at its end.                                           *)
(*                                                                         *)
(* The threads.  The walk that renders Hacker News is bound to the walk    *)
(* that fetches: over whatever the importer may still fetch, it comes to   *)
(* the importer's own stack and comments (WalksKeepUp).  Mastodon's walk   *)
(* keeps what is rendered closed under the replies not yet on its stack    *)
(* (TreeInv), and Reddit's what is yielded or queued equal to the answers  *)
(* to what is yielded (BreadthInv).  Each is a function defined by a LET,  *)
(* which a prover knows only through a table that exists (Iterates).       *)
(***************************************************************************)
EXTENDS MCSources, FiniteSetTheorems, SequenceTheorems, WellFoundedInduction, TLAPS

-----------------------------------------------------------------------------
(* The text.                                                                       *)

OutcomeKind == {"carried", "capped", "answered", "failed"}
PassType ==
    [path : {"delta", "chunked"}, chunks : {WholeChunks(doc), DeltaChunks(doc, base)},
     pooled : BOOLEAN, cap : Nat, resume : BOOLEAN, replaced : SUBSET store, calls : Nat,
     outcomes : Seq(OutcomeKind), carried : SUBSET store, fresh : SUBSET Nat, done : BOOLEAN]

\* The chunks among the first n that have nothing to carry.
Misses(n) == {j \in 1..n : Carried(pass.chunks[j]) = {}}

\* A pass reads the text as it stands: all of it, or what follows the prefix that was read.
PlanIsOfText ==
    /\ pass.path = "chunked" => pass.chunks = WholeChunks(doc)
    /\ pass.path = "delta" => base # NoBase /\ pass.chunks = DeltaChunks(doc, base)
\* An outcome is a matter of what could be carried before it.
OutcomeOK(i) ==
    /\ pass.outcomes[i] = "carried" <=> Carried(pass.chunks[i]) # {}
    /\ pass.outcomes[i] = "capped" => Cardinality(Misses(i - 1)) >= pass.cap
    /\ pass.outcomes[i] \in {"answered", "failed"} => Cardinality(Misses(i - 1)) < pass.cap
CallsOK ==
    LET n == Cardinality(Misses(Len(pass.outcomes)))
    IN  pass.calls = IF n <= pass.cap THEN n ELSE pass.cap
PassInv ==
    /\ pass \in PassType
    /\ PlanIsOfText
    /\ Len(pass.outcomes) <= Len(pass.chunks)
    /\ pass.done => Len(pass.outcomes) = Len(pass.chunks)
    /\ \A i \in DOMAIN pass.outcomes : OutcomeOK(i)
    /\ CallsOK
    /\ pass.fresh \subseteq {i \in DOMAIN pass.outcomes : Carried(pass.chunks[i]) = {}}
    /\ pass.carried \cap pass.replaced = {}
    /\ pass.resume \/ pass.replaced # {}

TextInv ==
    /\ doc \in Seq(Text) /\ Len(doc) <= MaxDoc
    /\ base \in 0..Len(doc) \cup {NoBase}
    /\ NothingSkipped /\ WrittenOnce
    /\ pass = Idle \/ PassInv

-----------------------------------------------------------------------------
(* The pages.                                                                      *)

PlanType == [carried : Nat, own : Nat, image : BOOLEAN]
\* The pages that are sent.
Sent == {n \in DOMAIN plans : ~Skipped(plans[n])}
\* What each page sent is the page's own, and comes with the end of the page before it.
PlansOK ==
    /\ pages \in Seq(PageKind) /\ tail \in Nat /\ rendered \in Nat /\ plans \in Seq(PlanType)
    /\ Len(plans) <= Len(pages) /\ Len(plans) <= MaxPages
    /\ rendered = Cardinality(ImagePlans) /\ rendered <= VisionPages
    /\ tail = IF plans = <<>> THEN 0 ELSE TailOf(pages[Len(plans)])
    /\ \A n \in DOMAIN plans : plans[n].own = pages[n].lines
    /\ \A n \in 2..Len(plans) : plans[n].carried = TailOf(pages[n - 1])
\* Who has a reply: at the end, the pages that are sent.
RepliesOK ==
    /\ pc = "parse" => DOMAIN replies = IF grouped THEN {} ELSE Sent
    /\ pc = "group" => grouped
    /\ pc = "images" => TextPlans \subseteq DOMAIN replies /\ DOMAIN replies \subseteq Sent
    /\ pc = "assemble" => DOMAIN replies = Sent
StatsOK ==
    pc = "done" =>
        /\ DOMAIN stats = DOMAIN plans /\ Len(stats) = Len(plans)
        /\ \A i \in DOMAIN stats :
              /\ stats[i].page = i
              /\ stats[i].call = "none" <=> Skipped(plans[i])
              /\ stats[i].call \in {"none", "answered", "failed"}
              /\ stats[i].call = "answered" => replies[i]
PagesInv ==
    /\ vision \in BOOLEAN /\ grouped \in BOOLEAN
    /\ pc \in {"parse", "group", "images", "assemble", "done", "raised"}
    /\ PlansOK /\ RepliesOK /\ StatsOK

GeneralInv == TextInv /\ PagesInv
-----------------------------------------------------------------------------
(* Numbers.                                                                        *)

\* A set of numbers that has a member has a least one.
LEMMA LeastIs ==
    ASSUME NEW S \in SUBSET Nat, S # {}
    PROVE  \E i \in S : \A j \in S : i <= j
<1>1. IsWellFoundedOn(OpToRel(<, Nat), Nat)
  BY NatLessThanWellFounded
<1>2. PICK i \in S : \A j \in S : ~(<<j, i>> \in OpToRel(<, Nat))
  BY <1>1, WFMin
<1>3. ASSUME NEW j \in S, j < i PROVE FALSE
  BY <1>2, <1>3 DEF OpToRel
<1>4. \A j \in S : i <= j
  BY <1>3
<1> QED
  BY <1>4

LEMMA FirstIsLeast ==
    ASSUME NEW S \in SUBSET Nat, S # {}
    PROVE  FirstOf(S) \in S /\ \A j \in S : FirstOf(S) <= j
  BY LeastIs DEF FirstOf

\* What lies in an interval is finite, and no more than the interval.
LEMMA Within ==
    ASSUME NEW n \in Nat, NEW S \in SUBSET (1..n)
    PROVE  IsFiniteSet(S) /\ Cardinality(S) \in Nat /\ Cardinality(S) <= n
<1>1. IsFiniteSet(1..n) /\ Cardinality(1..n) = n
  BY FS_Interval
<1> QED
  BY <1>1, FS_Subset, FS_CardinalityType

\* A smaller set is no larger; one more element is one more.
LEMMA Fewer ==
    ASSUME NEW n \in Nat, NEW T \in SUBSET (1..n), NEW S \in SUBSET T
    PROVE  Cardinality(S) <= Cardinality(T)
  BY Within, FS_Subset
LEMMA OneMore ==
    ASSUME NEW n \in Nat, NEW S \in SUBSET (1..n), NEW x, x \notin S
    PROVE  Cardinality(S \cup {x}) = Cardinality(S) + 1
  BY Within, FS_AddElement

-----------------------------------------------------------------------------
(* The plans of a read.                                                            *)

\* A paragraph that is kept is the paragraph of its chunk, whose number is no greater
\* than its own.
LEMMA KeptHasItsChunk ==
    ASSUME NEW d \in Seq(Text), NEW i \in Kept(d)
    PROVE  \E k \in 1..Cardinality(Kept(d)) : k <= i /\ Nth(d, k) = i
<1> DEFINE rank(m) == Cardinality({j \in Kept(d) : j < m})
<1>1. Len(d) \in Nat /\ Kept(d) \in SUBSET (1..Len(d))
  BY DEF Kept
<1>2. ASSUME NEW m \in Kept(d) PROVE rank(m) \in Nat /\ rank(m) + 1 <= Cardinality(Kept(d)) /\ rank(m) < m
  <2>1. {j \in Kept(d) : j < m} \in SUBSET (1..Len(d)) /\ {j \in Kept(d) : j < m} \cup {m} \in SUBSET Kept(d)
    BY <1>1, <1>2
  <2>2. rank(m) \in Nat
    BY <1>1, <2>1, Within
  <2>new. m \notin {j \in Kept(d) : j < m}
    BY <1>1, <1>2
  <2>3. Cardinality({j \in Kept(d) : j < m} \cup {m}) = rank(m) + 1
    <3> DEFINE before == {j \in Kept(d) : j < m}
    <3> HIDE DEF before
    <3>1. Cardinality(before \cup {m}) = Cardinality(before) + 1
      BY <1>1, <2>1, <2>new, OneMore DEF before
    <3> QED BY <3>1 DEF before
  <2>4. Cardinality({j \in Kept(d) : j < m} \cup {m}) <= Cardinality(Kept(d))
    BY <1>1, <2>1, Fewer
  <2>5. m \in 1..Len(d) /\ m - 1 \in Nat
    BY <1>1, <1>2
  <2>6. {j \in Kept(d) : j < m} \in SUBSET (1..(m - 1))
    BY <1>1, <2>5
  <2>7. rank(m) <= m - 1
    BY <2>5, <2>6, Within
  <2> QED BY <2>2, <2>3, <2>4, <2>5, <2>7
<1>3. ASSUME NEW m \in Kept(d), NEW n \in Kept(d), m < n PROVE rank(m) < rank(n)
  <2>1. {j \in Kept(d) : j < m} \in SUBSET (1..Len(d)) /\ {j \in Kept(d) : j < n} \in SUBSET (1..Len(d))
    BY <1>1
  <2>2. {j \in Kept(d) : j < m} \cup {m} \in SUBSET {j \in Kept(d) : j < n}
    BY <1>1, <1>3
  <2>new. m \notin {j \in Kept(d) : j < m}
    BY <1>1, <1>3
  <2>3. Cardinality({j \in Kept(d) : j < m} \cup {m}) = rank(m) + 1
    <3> DEFINE before == {j \in Kept(d) : j < m}
    <3> HIDE DEF before
    <3>1. Cardinality(before \cup {m}) = Cardinality(before) + 1
      BY <1>1, <2>1, <2>new, OneMore DEF before
    <3> QED BY <3>1 DEF before
  <2>4. Cardinality({j \in Kept(d) : j < m} \cup {m}) <= rank(n)
    BY <1>1, <2>1, <2>2, Fewer
  <2>5. rank(m) \in Nat /\ rank(n) \in Nat
    BY <1>2
  <2> HIDE DEF rank
  <2> QED BY <2>3, <2>4, <2>5
<1>4. \A m \in Kept(d) : rank(m) = rank(i) => m = i
  <2> HIDE DEF rank
  <2> SUFFICES ASSUME NEW m \in Kept(d), rank(m) = rank(i), m # i PROVE FALSE
    OBVIOUS
  <2>1. m < i \/ i < m
    BY <1>1
  <2>2. rank(m) < rank(i) \/ rank(i) < rank(m)
    BY <1>3, <2>1
  <2>3. rank(i) \in Nat
    BY <1>2
  <2> QED BY <2>2, <2>3
<1> DEFINE k == rank(i) + 1
<1>5. k \in 1..Cardinality(Kept(d)) /\ k <= i /\ k - 1 = rank(i)
  <2>1. i \in Nat /\ Cardinality(Kept(d)) \in Nat
    BY <1>1, Within
  <2> QED BY <1>2, <2>1
<1>6. Nth(d, k) = CHOOSE m \in Kept(d) : rank(m) = rank(i)
  BY <1>5 DEF Nth
<1> HIDE DEF rank, k
<1>7. Nth(d, k) = i
  BY <1>4, <1>6
<1> QED BY <1>5, <1>7

\* The chunks of a plan, where they start and which paragraph each is.
LEMMA WholeChunksAre ==
    ASSUME NEW d \in Seq(Text)
    PROVE  /\ Len(WholeChunks(d)) = Cardinality(Kept(d))
           /\ DOMAIN WholeChunks(d) = 1..Cardinality(Kept(d))
           /\ Cardinality(Kept(d)) \in Nat
           /\ \A k \in 1..Cardinality(Kept(d)) :
                 WholeChunks(d)[k].start = k - 1 /\ WholeChunks(d)[k].pos = Nth(d, k)
<1>1. Len(d) \in Nat /\ Kept(d) \in SUBSET (1..Len(d))
  BY DEF Kept
<1>2. Cardinality(Kept(d)) \in Nat
  BY <1>1, Within
<1> QED BY <1>2 DEF WholeChunks, Chunk
LEMMA DeltaChunksAre ==
    ASSUME NEW d \in Seq(Text), NEW b \in 0..Len(d)
    PROVE  /\ Len(DeltaChunks(d, b)) = Len(d) - b
           /\ DOMAIN DeltaChunks(d, b) = 1..(Len(d) - b)
           /\ Len(d) - b \in Nat
           /\ \A k \in 1..(Len(d) - b) :
                 DeltaChunks(d, b)[k].start = b + k - 1 /\ DeltaChunks(d, b)[k].pos = b + k
<1>1. Len(d) - b \in Nat
  OBVIOUS
<1> QED BY <1>1 DEF DeltaChunks, Chunk
-----------------------------------------------------------------------------
(* What a pass that ends without a failed call has read.                           *)

\* The outcomes of a pass are numbered as its chunks are.
LEMMA OutcomesAre ==
    ASSUME PassInv
    PROVE  /\ Len(pass.outcomes) \in Nat /\ DOMAIN pass.outcomes = 1..Len(pass.outcomes)
           /\ \A i \in DOMAIN pass.outcomes : pass.outcomes[i] \in OutcomeKind
           /\ \A kinds : Indices(kinds) \in SUBSET (1..Len(pass.outcomes))
<1>1. pass.outcomes \in Seq(OutcomeKind)
  BY DEF PassInv, PassType
<1> QED BY <1>1 DEF Indices

\* Before the first chunk that was capped, every chunk was answered or carried.
LEMMA ReadBeforeTheCap ==
    ASSUME PassInv, pass.done, Indices({"failed"}) = {}, NEW k \in 1..Len(pass.outcomes),
           Unread = {} \/ k < FirstOf(Unread)
    PROVE  pass.chunks[k].pos \in Positions(ReadOf)
<1>1. Unread \in SUBSET Nat /\ k \in DOMAIN pass.outcomes /\ pass.outcomes[k] \in OutcomeKind
  BY OutcomesAre DEF Unread
<1>2. k \notin Unread
  <2> SUFFICES ASSUME k \in Unread PROVE FALSE
    OBVIOUS
  <2>1. FirstOf(Unread) \in Nat /\ FirstOf(Unread) <= k
    BY <1>1, FirstIsLeast
  <2> QED BY <1>1, <2>1
<1>3. pass.outcomes[k] \notin {"failed", "capped"}
  BY <1>1, <1>2 DEF Unread, Indices
<1>4. k \in ReadOf
  BY <1>1, <1>3 DEF OutcomeKind, ReadOf, Indices
<1> QED BY <1>4 DEF Positions

\* All of the text up to the point the pass reports was read, in this pass or before it.
LEMMA ReadThroughIsRead ==
    ASSUME TextInv, PassInv, pass.done, Indices({"failed"}) = {}
    PROVE  /\ ReadThrough \in 0..Len(doc)
           /\ \A i \in 1..ReadThrough : doc[i] = Noise \/ i \in seen \cup Positions(ReadOf)
<1> DEFINE f == FirstOf(Unread)
           upto == IF Unread = {} THEN Len(pass.chunks) ELSE f - 1
<1>1. doc \in Seq(Text) /\ Len(doc) \in Nat /\ MaxDoc \in Nat /\ Len(doc) <= MaxDoc
  BY ChunkedAssumption DEF TextInv
<1>2. Len(pass.outcomes) = Len(pass.chunks) /\ Len(pass.outcomes) \in Nat
  BY OutcomesAre DEF PassInv
<1>3. Unread # {} => f \in 1..Len(pass.chunks)
  <2>1. Unread \in SUBSET (1..Len(pass.outcomes)) /\ Unread \in SUBSET Nat
    BY OutcomesAre DEF Unread
  <2> QED BY <2>1, <1>2, FirstIsLeast
<1>4. ASSUME NEW k \in 1..Len(pass.chunks), k <= upto PROVE pass.chunks[k].pos \in Positions(ReadOf)
  <2>1. Unread = {} \/ k < f
    BY <1>3, <1>4
  <2> QED BY <2>1, <1>2, ReadBeforeTheCap
<1>5. CASE pass.path = "chunked"
  <2>1. pass.chunks = WholeChunks(doc)
    BY <1>5 DEF PassInv, PlanIsOfText
  <2>2. /\ Len(pass.chunks) = Cardinality(Kept(doc)) /\ Cardinality(Kept(doc)) \in Nat
        /\ \A k \in 1..Len(pass.chunks) : pass.chunks[k].start = k - 1 /\ pass.chunks[k].pos = Nth(doc, k)
    BY <1>1, <2>1, WholeChunksAre
  <2>3. Cardinality(Kept(doc)) <= Len(doc)
    BY <1>1, Within DEF Kept
  <2>4. ReadThrough = (IF Unread = {} THEN Len(doc) ELSE f - 1) /\ ReadThrough \in 0..Len(doc)
    BY <1>1, <1>3, <2>2, <2>3 DEF ReadThrough
  <2>5. ASSUME NEW i \in 1..ReadThrough, doc[i] # Noise PROVE i \in Positions(ReadOf)
    <3>1. i \in Kept(doc)
      BY <1>1, <2>4, <2>5 DEF Kept
    <3>2. PICK k \in 1..Cardinality(Kept(doc)) : k <= i /\ Nth(doc, k) = i
      BY <1>1, <3>1, KeptHasItsChunk
    <3>3. k \in 1..Len(pass.chunks) /\ k <= upto
      BY <1>3, <2>2, <2>4, <3>2
    <3>4. pass.chunks[k].pos = i
      BY <2>2, <3>2, <3>3
    <3> QED BY <1>4, <3>3, <3>4
  <2> QED BY <2>4, <2>5
<1>6. CASE pass.path = "delta"
  <2>1. base \in 0..Len(doc) /\ pass.chunks = DeltaChunks(doc, base)
    BY <1>6 DEF PassInv, PlanIsOfText, TextInv
  <2>2. /\ Len(pass.chunks) = Len(doc) - base
        /\ \A k \in 1..Len(pass.chunks) : pass.chunks[k].start = base + k - 1 /\ pass.chunks[k].pos = base + k
    <3> DEFINE plan == DeltaChunks(doc, base)
    <3>1. /\ Len(plan) = Len(doc) - base
          /\ \A k \in 1..(Len(doc) - base) : plan[k].start = base + k - 1 /\ plan[k].pos = base + k
      BY <1>1, <2>1, DeltaChunksAre
    <3> HIDE DEF plan
    <3> QED BY <2>1, <3>1 DEF plan
  <2>3. ReadThrough = (IF Unread = {} THEN Len(doc) ELSE base + f - 1) /\ ReadThrough \in 0..Len(doc)
    BY <1>1, <1>3, <2>1, <2>2 DEF ReadThrough
  <2>4. \A i \in 1..base : doc[i] = Noise \/ i \in seen
    BY <1>1, <2>1 DEF TextInv, NothingSkipped, NoBase
  <2>5. ASSUME NEW i \in 1..ReadThrough, i > base PROVE i \in Positions(ReadOf)
    <3>1. i - base \in 1..Len(pass.chunks) /\ i - base <= upto
      BY <1>1, <1>3, <2>1, <2>2, <2>3, <2>5
    <3>2. pass.chunks[i - base].pos = i
      BY <1>1, <2>1, <2>2, <3>1
    <3> QED BY <1>4, <3>1, <3>2
  <2>6. ASSUME NEW i \in 1..ReadThrough, ~(i > base) PROVE doc[i] = Noise \/ i \in seen
    BY <2>1, <2>3, <2>4, <2>6
  <2> QED BY <2>3, <2>5, <2>6
<1>7. pass.path \in {"chunked", "delta"}
  BY DEF PassInv, PassType
<1> QED BY <1>5, <1>6, <1>7

\* A chunk that was asked has no claim of its own version left standing, and, where the pass
\* is a retry, none of its own snapshot.
LEMMA FreshIsUnwritten ==
    ASSUME PassInv, NEW i \in pass.fresh, NEW x \in store \ pass.replaced,
           x.hash = pass.chunks[i].hash
    PROVE  x.ver # version /\ ~(pass.resume /\ x.snap = Len(doc))
<1>1. Carried(pass.chunks[i]) = {}
  BY DEF PassInv
<1> QED BY <1>1 DEF Carried

\* What a pass writes beside what it leaves is written once.
LEMMA WritingOnce ==
    ASSUME TextInv, PassInv, NEW S,
           store' \subseteq (store \ pass.replaced) \cup Written(S)
    PROVE  WrittenOnce'
<1> SUFFICES ASSUME NEW x \in store', NEW y \in store'
             PROVE  /\ x.hash = y.hash /\ x.ver = y.ver => x = y
                    /\ x.hash = y.hash /\ x.snap = y.snap => x = y \/ x.remade \/ y.remade
  BY DEF WrittenOnce
<1> DEFINE new(h) == [hash |-> h, ver |-> version, snap |-> Len(doc), remade |-> pass.replaced # {}]
<1>1. ASSUME NEW z \in Written(S)
      PROVE  \E i \in pass.fresh : z = new(pass.chunks[i].hash)
  BY <1>1 DEF Written
<1>2. ASSUME NEW z \in store \ pass.replaced, NEW w \in Written(S), z.hash = w.hash
      PROVE  z.ver # w.ver /\ (z.snap = w.snap => w.remade)
  <2>1. PICK i \in pass.fresh : w = new(pass.chunks[i].hash)
    BY <1>1
  <2>2. w.hash = pass.chunks[i].hash /\ w.ver = version /\ w.snap = Len(doc) /\ w.remade = (pass.replaced # {})
    BY <2>1
  <2>3. z.ver # version /\ ~(pass.resume /\ z.snap = Len(doc))
    BY <1>2, <2>2, FreshIsUnwritten
  <2>4. pass.resume \/ pass.replaced # {}
    BY DEF PassInv
  <2> QED BY <2>2, <2>3, <2>4
<1>3. CASE x \in store \ pass.replaced /\ y \in store \ pass.replaced
  BY <1>3 DEF TextInv, WrittenOnce
<1>4. CASE x \in store \ pass.replaced /\ y \in Written(S)
  BY <1>2, <1>4
<1>5. CASE y \in store \ pass.replaced /\ x \in Written(S)
  <2>1. y.hash = x.hash => y.ver # x.ver /\ (y.snap = x.snap => x.remade)
    BY <1>2, <1>5
  <2> QED BY <2>1
<1>6. CASE x \in Written(S) /\ y \in Written(S)
  <2>1. PICK h : x = new(h)
    BY <1>1, <1>6
  <2>2. PICK g : y = new(g)
    BY <1>1, <1>6
  <2>3. x.hash = h /\ y.hash = g
    BY <2>1, <2>2
  <2> QED BY <2>1, <2>2, <2>3
<1> QED BY <1>3, <1>4, <1>5, <1>6
-----------------------------------------------------------------------------
(* The steps of a pass.                                                            *)

\* What could be carried at the start of a pass can be carried at its end.
LEMMA SamePlan ==
    ASSUME UNCHANGED <<doc, version, store>>, pass'.chunks = pass.chunks,
           pass'.replaced = pass.replaced, pass'.resume = pass.resume
    PROVE  /\ \A i : Carried(pass.chunks[i])' = Carried(pass.chunks[i])
           /\ \A n : Misses(n)' = Misses(n)
<1>1. \A i : Carried(pass.chunks[i])' = Carried(pass.chunks[i])
  BY DEF Carried
<1> QED BY <1>1 DEF Misses

\* The text and the store are as they were, and so is what is known of them.
LEMMA SameText ==
    ASSUME TextInv, UNCHANGED <<doc, base, version, store, seen>>, (pass = Idle \/ PassInv)'
    PROVE  TextInv'
  BY DEF TextInv, NothingSkipped, WrittenOnce, NoBase

\* The chunk in turn gets an outcome, and what it costs.
Calling == {"answered", "failed"}
Advances(o, carried, fresh) ==
    pass' = [pass EXCEPT !.outcomes = Append(pass.outcomes, o),
                         !.calls = IF o \in Calling THEN pass.calls + 1 ELSE pass.calls,
                         !.carried = carried, !.fresh = fresh]

\* An outcome that fits what could be carried and the calls so far keeps the invariant.
LEMMA NextOutcome ==
    ASSUME TextInv, PassInv, Planning, UNCHANGED <<doc, base, version, store>>,
           NEW o \in OutcomeKind, NEW carried \in SUBSET store, NEW fresh \in SUBSET Nat,
           Advances(o, carried, fresh),
           o = "carried" <=> Carried(This) # {},
           o = "capped" => CapReached, o \in Calling => ~CapReached,
           carried \cap pass.replaced = {},
           fresh \subseteq pass.fresh \cup (IF o = "carried" THEN {} ELSE {Next1})
    PROVE  PassInv'
<1> DEFINE n == Len(pass.outcomes)
<1>1. /\ pass \in PassType /\ pass.outcomes \in Seq(OutcomeKind) /\ n \in Nat
      /\ pass.cap \in Nat /\ pass.calls \in Nat
  BY DEF PassInv, PassType
<1>2. /\ pass'.outcomes = Append(pass.outcomes, o) /\ pass'.chunks = pass.chunks
      /\ pass'.replaced = pass.replaced /\ pass'.resume = pass.resume /\ pass'.cap = pass.cap
      /\ pass'.path = pass.path /\ pass'.done = pass.done
      /\ pass'.carried = carried /\ pass'.fresh = fresh
      /\ pass'.calls = (IF o \in Calling THEN pass.calls + 1 ELSE pass.calls)
  BY <1>1 DEF Advances, PassType
<1>3. pass' \in PassType'
  <2>1. Append(pass.outcomes, o) \in Seq(OutcomeKind)
    BY <1>1
  <2>2. (IF o \in Calling THEN pass.calls + 1 ELSE pass.calls) \in Nat
    BY <1>1
  <2>3. WholeChunks(doc)' = WholeChunks(doc) /\ DeltaChunks(doc, base)' = DeltaChunks(doc, base)
    OBVIOUS
  <2> QED BY <1>1, <2>1, <2>2, <2>3 DEF Advances, PassType
<1>4. /\ \A i : Carried(pass.chunks[i])' = Carried(pass.chunks[i])
      /\ \A i : Misses(i)' = Misses(i)
  BY <1>2, SamePlan
<1>5. Len(pass'.outcomes) = n + 1 /\ DOMAIN pass'.outcomes = 1..(n + 1) /\ pass'.outcomes[n + 1] = o
      /\ \A i \in 1..n : pass'.outcomes[i] = pass.outcomes[i]
  BY <1>1, <1>2
<1>6. n + 1 <= Len(pass.chunks) /\ ~pass.done /\ This = pass.chunks[n + 1]
  BY DEF Planning, Next1, This
<1>7. Misses(n) \in SUBSET (1..n) /\ Cardinality(Misses(n)) \in Nat /\ Misses(n) \in SUBSET (1..(n + 1))
  <2>1. Misses(n) \in SUBSET (1..n)
    BY DEF Misses
  <2> QED BY <1>1, <2>1, Within
<1>8. Cardinality(Misses(n + 1)) = IF o = "carried" THEN Cardinality(Misses(n)) ELSE Cardinality(Misses(n)) + 1
  <2>1. CASE o = "carried"
    <3>1. Misses(n + 1) = Misses(n)
      BY <1>1, <1>6, <2>1 DEF Misses
    <3> QED BY <2>1, <3>1
  <2>2. CASE o # "carried"
    <3>1. Misses(n + 1) = Misses(n) \cup {n + 1}
      BY <1>1, <1>6, <2>2 DEF Misses
    <3>2. n + 1 \notin Misses(n)
      BY <1>1, <1>7
    <3>3. Cardinality(Misses(n) \cup {n + 1}) = Cardinality(Misses(n)) + 1
      BY <1>1, <1>7, <3>2, OneMore
    <3> QED BY <2>2, <3>1, <3>3
  <2> QED BY <2>1, <2>2
<1>9. pass.calls = IF Cardinality(Misses(n)) <= pass.cap THEN Cardinality(Misses(n)) ELSE pass.cap
  BY DEF PassInv, CallsOK
<1>10. CallsOK'
  <2>1. o = "carried" \/ o = "capped" \/ o \in Calling
    BY DEF OutcomeKind, Calling
  <2>2. Misses(Len(pass.outcomes))' = Misses(n + 1)
    <3>1. Misses(n + 1) = {j \in 1..(n + 1) : Carried(pass.chunks[j])' = {}}
      BY <1>4 DEF Misses
    <3> QED BY <1>5, <3>1 DEF Misses
  <2>3. pass'.calls = IF Cardinality(Misses(n + 1)) <= pass'.cap THEN Cardinality(Misses(n + 1)) ELSE pass'.cap
    BY <1>1, <1>2, <1>7, <1>8, <1>9, <2>1 DEF CapReached, Calling
  <2> QED BY <2>2, <2>3 DEF CallsOK
<1>11. ASSUME NEW i \in 1..(n + 1) PROVE OutcomeOK(i)'
  <2>1. CASE i \in 1..n
    <3>1. OutcomeOK(i)
      BY <1>1, <2>1 DEF PassInv
    <3> QED BY <1>2, <1>4, <1>5, <2>1, <3>1 DEF OutcomeOK
  <2>2. CASE i = n + 1
    <3>1. i - 1 = n
      BY <1>1, <2>2
    <3>2. o = "capped" => Cardinality(Misses(n)) >= pass.cap
      BY <1>1, <1>7, <1>9 DEF CapReached
    <3>3. o \in {"answered", "failed"} => Cardinality(Misses(n)) < pass.cap
      BY <1>1, <1>7, <1>9 DEF CapReached, Calling
    <3>4. /\ pass'.outcomes[i] = o /\ pass'.cap = pass.cap
          /\ Carried(pass.chunks[i])' = Carried(This)
          /\ Cardinality(Misses(i - 1))' = Cardinality(Misses(n))
      BY <1>2, <1>4, <1>5, <1>6, <2>2, <3>1
    <3> QED BY <3>2, <3>3, <3>4 DEF OutcomeOK
  <2> QED BY <1>1, <2>1, <2>2
<1>12. pass'.fresh \subseteq {i \in DOMAIN pass'.outcomes : Carried(pass.chunks[i])' = {}}
  <2>1. pass.fresh \subseteq {i \in 1..n : Carried(pass.chunks[i]) = {}}
    BY OutcomesAre DEF PassInv
  <2>2. o # "carried" => Carried(pass.chunks[n + 1]) = {}
    BY <1>6
  <2>3. ASSUME NEW i \in fresh
        PROVE  i \in DOMAIN pass'.outcomes /\ Carried(pass.chunks[i])' = {}
    <3>1. i \in pass.fresh \/ (o # "carried" /\ i = n + 1)
      BY <2>3 DEF Next1
    <3>2. i \in 1..(n + 1) /\ Carried(pass.chunks[i]) = {}
      <4>1. CASE i \in pass.fresh
        <5>1. i \in 1..n /\ Carried(pass.chunks[i]) = {}
          BY <2>1, <4>1
        <5>2. 1..n \subseteq 1..(n + 1)
          BY <1>1
        <5> QED BY <5>1, <5>2
      <4>2. CASE o # "carried" /\ i = n + 1
        BY <1>1, <2>2, <4>2
      <4> QED BY <3>1, <4>1, <4>2
    <3> QED BY <1>4, <1>5, <3>2
  <2> QED BY <1>2, <2>3
<1>13. PlanIsOfText'
  BY <1>2 DEF PassInv, PlanIsOfText, NoBase, DeltaChunks, WholeChunks, Kept, Nth
<1>14. /\ Len(pass'.outcomes) <= Len(pass'.chunks) /\ ~pass'.done
       /\ pass'.carried \cap pass'.replaced = {} /\ (pass'.resume \/ pass'.replaced # {})
  BY <1>2, <1>5, <1>6 DEF PassInv
<1> QED BY <1>3, <1>5, <1>10, <1>11, <1>12, <1>13, <1>14 DEF PassInv

\* Each step of the loop gives the chunk in turn its outcome.
LEMMA LoopSteps ==
    ASSUME TextInv, Reading,
           CarryChunk \/ CapChunk \/ PlanChunk \/ \E reply \in Replies : AskChunk(reply)
    PROVE  TextInv'
<1>1. PassInv /\ pass \in PassType /\ UNCHANGED <<doc, base, version, store, seen>>
  <2>1. PassInv
    BY DEF TextInv, Reading, Idle
  <2>2. UNCHANGED <<doc, base, version, store, seen>>
    BY DEF CarryChunk, CapChunk, PlanChunk, AskChunk
  <2> QED BY <2>1, <2>2 DEF PassInv
<1>2. pass.carried \in SUBSET store /\ pass.fresh \in SUBSET Nat /\ pass.outcomes \in Seq(OutcomeKind)
      /\ pass.calls \in Nat /\ pass.carried \cap pass.replaced = {} /\ Next1 \in Nat
  BY <1>1 DEF PassType, PassInv, Next1
<1>3. CASE CarryChunk
  <2>1. Carried(This) \subseteq store \ pass.replaced
    BY DEF Carried
  <2>2. Advances("carried", pass.carried \cup Carried(This), pass.fresh)
    BY <1>1, <1>3 DEF CarryChunk, Record, Advances, Calling, PassType
  <2>3. PassInv'
    BY <1>1, <1>2, <1>3, <2>1, <2>2, NextOutcome DEF CarryChunk, OutcomeKind, Calling
  <2> QED BY <1>1, <2>3, SameText
<1>4. CASE CapChunk
  <2>1. Advances("capped", pass.carried, pass.fresh)
    BY <1>1, <1>4 DEF CapChunk, Record, Advances, Calling, PassType
  <2>2. PassInv'
    BY <1>1, <1>2, <1>4, <2>1, NextOutcome DEF CapChunk, OutcomeKind, Calling
  <2> QED BY <1>1, <2>2, SameText
<1>5. CASE PlanChunk
  <2>1. Advances("answered", pass.carried, pass.fresh)
    BY <1>1, <1>5 DEF PlanChunk, Record, Advances, Calling, PassType
  <2>2. PassInv'
    BY <1>1, <1>2, <1>5, <2>1, NextOutcome DEF PlanChunk, OutcomeKind, Calling
  <2> QED BY <1>1, <2>2, SameText
<1>6. ASSUME NEW reply \in Replies, AskChunk(reply) PROVE TextInv'
  <2> DEFINE fresh == IF reply = "claims" THEN pass.fresh \cup {Next1} ELSE pass.fresh
  <2>1. Outcome(reply) \in {"answered", "failed"} /\ fresh \in SUBSET Nat
        /\ fresh \subseteq pass.fresh \cup {Next1}
    BY <1>2 DEF Outcome
  <2>2. Advances(Outcome(reply), pass.carried, fresh)
    BY <1>1, <1>6, <2>1 DEF AskChunk, Record, Advances, Calling, PassType
  <2> DEFINE o == Outcome(reply)
  <2> HIDE DEF fresh, o
  <2>3. /\ o \in OutcomeKind /\ o # "carried" /\ o # "capped" /\ o \in Calling
        /\ Planning /\ Carried(This) = {} /\ ~CapReached
        /\ Advances(o, pass.carried, fresh)
    BY <1>6, <2>1, <2>2 DEF AskChunk, OutcomeKind, Calling, o
  <2>4. PassInv'
    BY <1>1, <1>2, <2>1, <2>3, NextOutcome
  <2> QED BY <1>1, <2>4, SameText
<1> QED BY <1>3, <1>4, <1>5, <1>6

\* The end of the loop changes no outcome but those a group's replies settle.
LEMMA Settling ==
    ASSUME TextInv, PassInv, Waiting, UNCHANGED <<doc, base, version, store>>,
           NEW outcomes \in Seq(OutcomeKind), NEW fresh \in SUBSET Nat,
           pass' = [pass EXCEPT !.outcomes = outcomes, !.fresh = fresh, !.done = TRUE],
           Len(outcomes) = Len(pass.outcomes),
           \A i \in DOMAIN pass.outcomes :
              outcomes[i] = pass.outcomes[i] \/ (pass.outcomes[i] = "answered" /\ outcomes[i] = "failed"),
           fresh \subseteq pass.fresh \cup Indices({"answered"})
    PROVE  PassInv'
<1> DEFINE n == Len(pass.outcomes)
<1>1. /\ pass \in PassType /\ pass.outcomes \in Seq(OutcomeKind) /\ n \in Nat
      /\ DOMAIN pass.outcomes = 1..n /\ DOMAIN outcomes = 1..n
  BY DEF PassInv, PassType
<1>2. /\ pass'.outcomes = outcomes /\ pass'.chunks = pass.chunks
      /\ pass'.replaced = pass.replaced /\ pass'.resume = pass.resume /\ pass'.cap = pass.cap
      /\ pass'.path = pass.path /\ pass'.done = TRUE /\ pass'.calls = pass.calls
      /\ pass'.carried = pass.carried /\ pass'.fresh = fresh
  BY <1>1 DEF PassType
<1>3. pass' \in PassType'
  <2>1. WholeChunks(doc)' = WholeChunks(doc) /\ DeltaChunks(doc, base)' = DeltaChunks(doc, base)
    OBVIOUS
  <2> QED BY <1>1, <2>1 DEF PassType
<1>4. /\ \A i : Carried(pass.chunks[i])' = Carried(pass.chunks[i])
      /\ \A i : Misses(i)' = Misses(i)
  BY <1>2, SamePlan
<1>5. Len(pass.outcomes) = Len(pass.chunks)
  <2>1. pass.chunks = WholeChunks(doc) \/ (pass.chunks = DeltaChunks(doc, base) /\ base \in 0..Len(doc))
    BY DEF PassInv, PassType, PlanIsOfText, TextInv
  <2>2. Len(pass.chunks) \in Nat
    BY <2>1, WholeChunksAre, DeltaChunksAre DEF TextInv
  <2> QED BY <1>1, <2>2 DEF Waiting, Next1, PassInv
<1>6. ASSUME NEW i \in 1..n PROVE OutcomeOK(i)'
  <2>1. OutcomeOK(i)
    BY <1>1 DEF PassInv
  <2>2. outcomes[i] = pass.outcomes[i] \/ (pass.outcomes[i] = "answered" /\ outcomes[i] = "failed")
    BY <1>1
  <2> QED BY <1>2, <1>4, <2>1, <2>2 DEF OutcomeOK
<1>7. CallsOK'
  <2>1. Misses(Len(pass.outcomes))' = Misses(n)
    <3>1. Misses(n) = {j \in 1..n : Carried(pass.chunks[j])' = {}}
      BY <1>4 DEF Misses
    <3> QED BY <1>2, <3>1 DEF Misses
  <2>2. CallsOK
    BY DEF PassInv
  <2> QED BY <1>2, <2>1, <2>2 DEF CallsOK
<1>8. ASSUME NEW i \in fresh
      PROVE  i \in DOMAIN pass'.outcomes /\ Carried(pass.chunks[i])' = {}
  <2>1. CASE i \in pass.fresh
    <3>1. i \in DOMAIN pass.outcomes /\ Carried(pass.chunks[i]) = {}
      BY <2>1 DEF PassInv
    <3> QED BY <1>1, <1>2, <1>4, <3>1
  <2>2. CASE i \in Indices({"answered"})
    <3>1. i \in DOMAIN pass.outcomes /\ pass.outcomes[i] = "answered"
      BY <2>2 DEF Indices
    <3>2. OutcomeOK(i)
      BY <3>1 DEF PassInv
    <3>3. Carried(pass.chunks[i]) = {}
      BY <3>1, <3>2 DEF OutcomeOK
    <3> QED BY <1>1, <1>2, <1>4, <3>1, <3>3
  <2> QED BY <1>8, <2>1, <2>2
<1>9. PlanIsOfText'
  BY <1>2 DEF PassInv, PlanIsOfText, NoBase, DeltaChunks, WholeChunks, Kept, Nth
<1>10. /\ Len(pass'.outcomes) <= Len(pass'.chunks) /\ Len(pass'.outcomes) = Len(pass'.chunks)
       /\ pass'.carried \cap pass'.replaced = {} /\ (pass'.resume \/ pass'.replaced # {})
  BY <1>1, <1>2, <1>5 DEF PassInv
<1>11. pass'.fresh \subseteq {i \in DOMAIN pass'.outcomes : Carried(pass.chunks[i])' = {}}
  BY <1>2, <1>8
<1> QED BY <1>1, <1>2, <1>3, <1>6, <1>7, <1>9, <1>10, <1>11 DEF PassInv

\* A group's replies settle it, an empty loop ends, and a pass is given up.
LEMMA EndSteps ==
    ASSUME TextInv, Reading,
           FinishLoop \/ Abort \/ \E S \in SUBSET (1..MaxDoc) : \E rs \in [S -> Replies] : SettleGroup(rs)
    PROVE  TextInv'
<1>1. PassInv /\ UNCHANGED <<doc, base, version, store, seen>>
  <2>1. PassInv
    BY DEF TextInv, Reading, Idle
  <2>2. UNCHANGED <<doc, base, version, store, seen>>
    BY DEF FinishLoop, Abort, SettleGroup
  <2> QED BY <2>1, <2>2
<1>2. pass \in PassType /\ pass.outcomes \in Seq(OutcomeKind) /\ pass.fresh \in SUBSET Nat
  BY <1>1 DEF PassInv, PassType
<1>3. CASE FinishLoop
  <2>1. Waiting /\ pass' = [pass EXCEPT !.outcomes = pass.outcomes, !.fresh = pass.fresh, !.done = TRUE]
    BY <1>2, <1>3 DEF FinishLoop, PassType
  <2>2. PassInv'
    BY <1>1, <1>2, <2>1, Settling
  <2> QED BY <1>1, <2>2, SameText
<1>4. CASE Abort
  <2>1. pass' = Idle /\ Idle' = Idle
    BY <1>4 DEF Abort, Idle
  <2> QED BY <1>1, <2>1, SameText
<1>5. ASSUME NEW S \in SUBSET (1..MaxDoc), NEW rs \in [S -> Replies], SettleGroup(rs) PROVE TextInv'
  <2> DEFINE settled == [i \in DOMAIN pass.outcomes |-> IF i \in DOMAIN rs THEN Outcome(rs[i])
                                                                          ELSE pass.outcomes[i]]
             fresh == {i \in DOMAIN rs : rs[i] = "claims"}
  <2>1. /\ Waiting /\ DOMAIN rs = Indices({"answered"})
        /\ pass' = [pass EXCEPT !.outcomes = settled, !.fresh = fresh, !.done = TRUE]
    BY <1>5 DEF SettleGroup
  <2>2. Len(pass.outcomes) \in Nat /\ DOMAIN pass.outcomes = 1..Len(pass.outcomes)
    BY <1>2
  <2>3. \A i \in DOMAIN pass.outcomes :
           /\ settled[i] \in OutcomeKind
           /\ settled[i] = pass.outcomes[i] \/ (pass.outcomes[i] = "answered" /\ settled[i] = "failed")
    BY <1>2, <2>1 DEF Indices, Outcome, OutcomeKind
  <2>4. settled \in Seq(OutcomeKind) /\ Len(settled) = Len(pass.outcomes)
    <3>1. settled \in [1..Len(pass.outcomes) -> OutcomeKind]
      BY <2>2, <2>3
    <3> HIDE DEF settled
    <3> QED BY <2>2, <3>1, SeqDef
  <2>5. fresh \subseteq Indices({"answered"}) /\ fresh \in SUBSET Nat
    BY <2>1, <2>2 DEF Indices
  <2> HIDE DEF settled, fresh
  <2>6. PassInv'
    BY <1>1, <2>1, <2>3, <2>4, <2>5, Settling
  <2> QED BY <1>1, <2>6, SameText
<1> QED BY <1>3, <1>4, <1>5

-----------------------------------------------------------------------------
(* A pass begins and ends; the text grows and the extractor is upgraded.           *)

\* A plan is as long as its numbers go.
LEMMA PlanIsFinite ==
    ASSUME TextInv, NEW chunks,
           chunks = WholeChunks(doc) \/ (chunks = DeltaChunks(doc, base) /\ base # NoBase)
    PROVE  Len(chunks) \in Nat /\ DOMAIN chunks = 1..Len(chunks)
<1>1. doc \in Seq(Text) /\ base \in 0..Len(doc) \cup {NoBase}
  BY DEF TextInv
<1> QED BY <1>1, WholeChunksAre, DeltaChunksAre

\* A pass that begins has no outcome yet; it is a retry, or a reindex that marks a claim.
LEMMA Beginning ==
    ASSUME TextInv, NEW path, NEW chunks, NEW pooled \in BOOLEAN, NEW limit \in Caps,
           NEW replaced \in SUBSET store, Begin(path, chunks, pooled, limit, replaced),
           \/ path = "chunked" /\ chunks = WholeChunks(doc)
           \/ path = "delta" /\ chunks = DeltaChunks(doc, base) /\ base # NoBase,
           status = "PENDING" \/ replaced # {}
    PROVE  TextInv'
<1>1. UNCHANGED <<doc, base, version, store, seen>>
  BY DEF Begin
<1>2. pass' = [path |-> path, chunks |-> chunks, pooled |-> pooled, cap |-> limit,
               resume |-> status = "PENDING", replaced |-> replaced, calls |-> 0,
               outcomes |-> <<>>, carried |-> {}, fresh |-> {}, done |-> FALSE]
  BY DEF Begin
<1>3. /\ pass'.path = path /\ pass'.chunks = chunks /\ pass'.cap = limit
      /\ pass'.resume = (status = "PENDING") /\ pass'.replaced = replaced
      /\ pass'.calls = 0 /\ pass'.outcomes = <<>> /\ pass'.carried = {} /\ pass'.fresh = {}
      /\ pass'.done = FALSE
  BY <1>2
<1>4. limit \in Nat
  BY ChunkedAssumption
<1>text. WholeChunks(doc)' = WholeChunks(doc) /\ DeltaChunks(doc, base)' = DeltaChunks(doc, base)
  BY <1>1 DEF WholeChunks, DeltaChunks, Kept, Nth
<1>5. pass' \in PassType'
  <2>2. path \in {"delta", "chunked"} /\ chunks \in {WholeChunks(doc), DeltaChunks(doc, base)}
    OBVIOUS
  <2>3. <<>> \in Seq(OutcomeKind) /\ (status = "PENDING") \in BOOLEAN
    OBVIOUS
  <2> QED BY <1>1, <1>2, <1>4, <1>text, <2>2, <2>3 DEF PassType
<1>6. PlanIsOfText'
  BY <1>1, <1>3, <1>text DEF PlanIsOfText, NoBase
<1>7. CallsOK'
  <2>1. Misses(Len(pass.outcomes))' = {}
    BY <1>3 DEF Misses
  <2>2. Cardinality(Misses(Len(pass.outcomes)))' = 0
    BY <2>1, FS_EmptySet
  <2>3. pass'.calls = 0 /\ pass'.cap \in Nat
    BY <1>3, <1>4
  <2> QED BY <2>2, <2>3 DEF CallsOK
<1>8. Len(pass'.outcomes) <= Len(pass'.chunks) /\ DOMAIN pass'.outcomes = {}
  BY <1>3, PlanIsFinite
<1>9. PassInv'
  BY <1>3, <1>5, <1>6, <1>7, <1>8 DEF PassInv
<1> QED BY <1>1, <1>9, SameText

\* A read begins: of what follows the prefix, of all of it, again, or in one call.
LEMMA StartSteps == ASSUME TextInv, Start PROVE TextInv'
<1>1. ASSUME NEW pooled \in BOOLEAN, NEW limit \in Caps, ReadDelta(pooled, limit) PROVE TextInv'
  BY <1>1, Beginning DEF ReadDelta
<1>2. ASSUME NEW pooled \in BOOLEAN, NEW limit \in Caps, ReadWhole(pooled, limit) PROVE TextInv'
  BY <1>2, Beginning DEF ReadWhole
<1>3. ASSUME NEW pooled \in BOOLEAN, NEW limit \in Caps, NEW marked \in SUBSET store,
             Reindex(pooled, limit, marked)
      PROVE  TextInv'
  BY <1>3, Beginning DEF Reindex
<1>4. ASSUME NEW yes \in BOOLEAN, ReadAtOnce(yes) PROVE TextInv'
  <2>1. doc \in Seq(Text) /\ Len(doc) \in Nat /\ DOMAIN doc = 1..Len(doc) /\ pass = Idle
    BY <1>4 DEF TextInv, ReadAtOnce, Reading, PassInv, PassType
  <2>2. UNCHANGED <<doc, version, store, pass>>
    BY <1>4 DEF ReadAtOnce
  <2>3. base' \in 0..Len(doc) \cup {NoBase} /\ NothingSkipped'
    <3>1. CASE yes
      BY <1>4, <2>1, <2>2, <3>1 DEF ReadAtOnce, NothingSkipped
    <3>2. CASE ~yes
      BY <1>4, <2>2, <3>2 DEF ReadAtOnce, NothingSkipped, TextInv, NoBase
    <3> QED BY <3>1, <3>2
  <2> QED BY <2>1, <2>2, <2>3 DEF TextInv, WrittenOnce, Idle, NoBase
<1> QED BY <1>1, <1>2, <1>3, <1>4 DEF Start

\* The text grows at its end, and an upgrade changes nothing that was read.
LEMMA OutsideSteps ==
    ASSUME TextInv, Upgrade \/ \E p \in Text : Deposit(p)
    PROVE  TextInv'
<1>1. CASE Upgrade
  <2>1. pass = Idle
    BY <1>1 DEF Upgrade, TextInv, Reading, PassInv, PassType
  <2> QED BY <1>1, <2>1 DEF Upgrade, TextInv, NothingSkipped, WrittenOnce, NoBase, Idle
<1>2. ASSUME NEW p \in Text, Deposit(p) PROVE TextInv'
  <2>1. pass = Idle /\ UNCHANGED <<base, version, store, pass, seen>>
    BY <1>2 DEF Deposit, TextInv, Reading, PassInv, PassType
  <2>2. doc \in Seq(Text) /\ Len(doc) \in Nat /\ doc' = Append(doc, p) /\ Len(doc) < MaxDoc /\ MaxDoc \in Nat
    BY <1>2, ChunkedAssumption DEF Deposit, TextInv
  <2>3. doc' \in Seq(Text) /\ Len(doc') = Len(doc) + 1 /\ \A i \in 1..Len(doc) : doc'[i] = doc[i]
    BY <2>2
  <2>4. base \in 0..Len(doc) \cup {NoBase} /\ base' \in 0..Len(doc') \cup {NoBase}
    BY <2>1, <2>2, <2>3 DEF TextInv
  <2>5. NothingSkipped'
    <3>1. base # NoBase => base \in 0..Len(doc)
      BY <2>4
    <3>2. ASSUME base # NoBase, NEW i \in 1..base PROVE doc'[i] = Noise \/ i \in seen
      BY <2>2, <2>3, <3>1, <3>2 DEF TextInv, NothingSkipped
    <3> QED BY <2>1, <3>2 DEF NothingSkipped, NoBase
  <2> QED BY <2>1, <2>2, <2>3, <2>4, <2>5 DEF TextInv, WrittenOnce, Idle, NoBase
<1> QED BY <1>1, <1>2

\* A pass is stored whole, in part or not at all.
LEMMA StoreSteps == ASSUME TextInv, Complete \/ KeepNothing \/ KeepPart PROVE TextInv'
<1>1. PassInv /\ pass.done /\ pass' = Idle /\ Idle' = Idle /\ UNCHANGED <<doc, version>>
  <2>1. PassInv
    BY DEF TextInv, Reading, Idle, Complete, KeepNothing, KeepPart
  <2> QED BY <2>1 DEF Complete, KeepNothing, KeepPart, Idle
<1>2. CASE Complete
  <2>1. Indices({"failed"}) = {}
    <3>1. Len(pass.outcomes) \in Nat /\ Indices({"failed"}) \in SUBSET (1..Len(pass.outcomes))
      BY <1>1, OutcomesAre
    <3>2. IsFiniteSet(Indices({"failed"}))
      BY <3>1, Within
    <3> QED BY <1>2, <3>2, FS_EmptySet DEF Complete, Failures
  <2>2. /\ ReadThrough \in 0..Len(doc)
        /\ \A i \in 1..ReadThrough : doc[i] = Noise \/ i \in seen \cup Positions(ReadOf)
    BY <1>1, <2>1, ReadThroughIsRead
  <2>3. base' = ReadThrough /\ seen' = seen \cup Positions(ReadOf)
        /\ store' = (store \ (pass.replaced \ pass.carried)) \cup Written(ReadOf)
    BY <1>2 DEF Complete
  <2>4. store' \subseteq (store \ pass.replaced) \cup Written(ReadOf)
    BY <1>1, <2>3 DEF PassInv
  <2>5. WrittenOnce'
    BY <1>1, <2>4, WritingOnce
  <2>6. NothingSkipped'
    BY <1>1, <2>2, <2>3 DEF NothingSkipped
  <2> QED BY <1>1, <2>2, <2>3, <2>5, <2>6 DEF TextInv, NoBase
<1>3. CASE KeepNothing
  <2>1. UNCHANGED <<doc, base, version, store, seen>>
    BY <1>3 DEF KeepNothing
  <2> QED BY <1>1, <2>1, SameText
<1>4. CASE KeepPart
  <2>1. pass.replaced = {} /\ base' = base /\ seen \subseteq seen'
        /\ store' = store \cup Written(1..(StopIndex - 1))
    BY <1>4 DEF KeepPart
  <2>2. WrittenOnce'
    BY <1>1, <2>1, WritingOnce
  <2>3. NothingSkipped'
    BY <1>1, <2>1 DEF TextInv, NothingSkipped, NoBase
  <2> QED BY <1>1, <2>1, <2>2, <2>3 DEF TextInv, NoBase
<1> QED BY <1>2, <1>3, <1>4

\* At the start nothing was read or stored.
LEMMA TextInit == Init => TextInv
<1> SUFFICES ASSUME Init PROVE TextInv
  OBVIOUS
<1>1. doc = <<>> /\ doc \in Seq(Text) /\ Len(doc) = 0 /\ MaxDoc \in Nat /\ base = NoBase /\ store = {} /\ pass = Idle
  BY ChunkedAssumption DEF Init
<1> QED BY <1>1 DEF TextInv, NothingSkipped, WrittenOnce

\* No step on a text breaks the invariant.
LEMMA TextStep == ASSUME TextInv, [Next]_vars PROVE TextInv'
<1>1. CASE UNCHANGED vars
  <2>1. UNCHANGED <<doc, status, base, version, store, pass, seen>>
    BY <1>1 DEF vars
  <2>2. (pass = Idle \/ PassInv)'
    <3>1. PassInv => PassInv'
      <4>1. (\A i : Carried(pass.chunks[i])' = Carried(pass.chunks[i])) /\ \A n : Misses(n)' = Misses(n)
        BY <2>1, SamePlan
      <4>2. Misses(Len(pass.outcomes))' = Misses(Len(pass.outcomes))
        BY <2>1 DEF Misses, Carried
      <4>3. WholeChunks(doc)' = WholeChunks(doc) /\ DeltaChunks(doc, base)' = DeltaChunks(doc, base)
        BY <2>1 DEF WholeChunks, DeltaChunks, Kept, Nth
      <4>4. PassType' = PassType
        BY <2>1, <4>3 DEF PassType
      <4>5. PlanIsOfText' = PlanIsOfText
        BY <2>1, <4>3 DEF PlanIsOfText, NoBase
      <4>6. ASSUME NEW i, OutcomeOK(i) PROVE OutcomeOK(i)'
        BY <2>1, <4>1, <4>6 DEF OutcomeOK
      <4>7. CallsOK => CallsOK'
        BY <2>1, <4>2 DEF CallsOK
      <4> QED BY <2>1, <4>1, <4>4, <4>5, <4>6, <4>7 DEF PassInv
    <3> QED BY <2>1, <3>1 DEF TextInv, Idle
  <2> QED BY <2>1, <2>2, SameText
<1>2. CASE Start
  BY <1>2, StartSteps
<1>3. CASE ReadChunk
  <2>1. Reading
    BY <1>3 DEF ReadChunk, CarryChunk, CapChunk, AskChunk, PlanChunk, SettleGroup, FinishLoop, Planning, Waiting
  <2> QED BY <1>3, <2>1, LoopSteps, EndSteps DEF ReadChunk
<1>4. CASE Abort
  BY <1>4, EndSteps DEF Abort
<1>5. CASE Upgrade \/ \E p \in Text : Deposit(p)
  BY <1>5, OutsideSteps
<1>6. CASE Complete \/ KeepNothing \/ KeepPart
  BY <1>6, StoreSteps
<1> QED BY <1>1, <1>2, <1>3, <1>4, <1>5, <1>6 DEF Next

\* In a pass that is done, the chunks that were asked are the first of those that had nothing
\* to carry, as many as the cap allows.
LEMMA TextHolds == TextInv => ReadAsOnePass
<1> SUFFICES ASSUME TextInv, Reading, pass.done PROVE SentInOrder
  BY DEF TextInv, ReadAsOnePass, SentInOrder
<1>1. PassInv
  BY DEF TextInv, Reading, Idle
<1>2. Len(pass.chunks) \in Nat /\ DOMAIN pass.chunks = 1..Len(pass.chunks) /\ DOMAIN pass.outcomes = DOMAIN pass.chunks
  <2>1. pass.chunks = WholeChunks(doc) \/ (pass.chunks = DeltaChunks(doc, base) /\ base # NoBase)
    BY <1>1 DEF PassInv, PassType, PlanIsOfText
  <2>2. Len(pass.chunks) \in Nat /\ DOMAIN pass.chunks = 1..Len(pass.chunks)
    BY <2>1, PlanIsFinite
  <2>3. DOMAIN pass.outcomes = 1..Len(pass.outcomes) /\ Len(pass.outcomes) = Len(pass.chunks)
    BY <1>1, OutcomesAre DEF PassInv
  <2> QED BY <2>2, <2>3
<1> DEFINE miss == {i \in DOMAIN pass.chunks : Carried(pass.chunks[i]) = {}}
           sent == {i \in miss : Cardinality({j \in miss : j < i}) < pass.cap}
<1>3. ASSUME NEW i \in DOMAIN pass.chunks PROVE {j \in miss : j < i} = Misses(i - 1)
  BY <1>2, <1>3 DEF Misses
<1>4. ASSUME NEW i \in DOMAIN pass.outcomes
      PROVE  /\ i \in miss <=> pass.outcomes[i] # "carried"
             /\ pass.outcomes[i] \in {"answered", "failed"} <=> i \in sent
             /\ pass.outcomes[i] = "capped" <=> i \in miss \ sent
  <2>1. OutcomeOK(i) /\ pass.outcomes[i] \in OutcomeKind
    BY <1>1, <1>4, OutcomesAre DEF PassInv
  <2>2. {j \in miss : j < i} = Misses(i - 1)
    BY <1>2, <1>3, <1>4
  <2>3. Cardinality(Misses(i - 1)) \in Nat /\ pass.cap \in Nat
    <3>1. i - 1 \in Nat
      BY <1>2, <1>4
    <3>2. Misses(i - 1) \in SUBSET (1..(i - 1))
      BY DEF Misses
    <3> QED BY <1>1, <3>1, <3>2, Within DEF PassInv, PassType
  <2>4. i \in miss <=> Carried(pass.chunks[i]) = {}
    BY <1>2, <1>4
  <2>5. i \in sent <=> i \in miss /\ Cardinality(Misses(i - 1)) < pass.cap
    BY <2>2
  <2> HIDE DEF miss, sent
  <2>6. pass.outcomes[i] \in {"carried", "capped", "answered", "failed"}
    BY <2>1 DEF OutcomeKind
  <2>7. CASE pass.outcomes[i] = "carried"
    BY <2>1, <2>4, <2>5, <2>7 DEF OutcomeOK
  <2>8. CASE pass.outcomes[i] = "capped"
    BY <2>1, <2>3, <2>4, <2>5, <2>8 DEF OutcomeOK
  <2>9. CASE pass.outcomes[i] \in {"answered", "failed"}
    BY <2>1, <2>3, <2>4, <2>5, <2>9 DEF OutcomeOK
  <2> QED BY <2>6, <2>7, <2>8, <2>9
<1>5. Indices({"answered", "failed"}) = sent
  BY <1>2, <1>4 DEF Indices
<1>6. Indices({"capped"}) = miss \ sent
  BY <1>2, <1>4 DEF Indices
<1>7. pass.carried \cap pass.replaced = {}
  BY <1>1 DEF PassInv
<1> QED BY <1>5, <1>6, <1>7 DEF SentInOrder

-----------------------------------------------------------------------------
(* A document read page by page.                                                   *)

LEMMA MinOfTwo ==
    ASSUME NEW x \in Nat, NEW y \in Nat
    PROVE  Min({x, y}) = IF x <= y THEN x ELSE y
  BY DEF Min
LEMMA MinIsIn ==
    ASSUME NEW S \in SUBSET Nat, S # {}
    PROVE  Min(S) \in S
  BY LeastIs DEF Min

\* What a page shows the next one is a number of its lines; none for a page without text.
LEMMA TailIs ==
    ASSUME NEW page \in PageKind
    PROVE  /\ TailOf(page) \in Nat /\ page.lines \in Nat
           /\ page.lines = 0 => TailOf(page) = 0
           /\ OverlapLines # 0 => TailOf(page) = Min({page.lines, OverlapLines})
<1>1. page.lines \in Nat /\ OverlapLines \in Nat
  BY PagedAssumption DEF PageKind
<1> QED BY <1>1, MinOfTwo DEF TailOf

\* The pages that are sent are those with text to send and those sent as an image.
LEMMA SentAre == Sent = TextPlans \cup ImagePlans
  BY DEF Sent, TextPlans, ImagePlans, Skipped

\* The page in turn, and what is sent for it.
LEMMA PageInTurn ==
    ASSUME PagesInv, More, NEW renders \in BOOLEAN
    PROVE  /\ Page \in PageKind /\ At \in Nat /\ At = Len(plans) + 1
           /\ PlanOf(renders) \in PlanType
           /\ PlanOf(renders).own = Page.lines /\ PlanOf(renders).carried = tail
           /\ PlanOf(renders).image => rendered < VisionPages
           /\ At <= Len(pages) /\ At <= MaxPages
<1>1. At \in 1..Len(pages) /\ At <= MaxPages /\ At \in Nat /\ pages \in Seq(PageKind) /\ tail \in Nat
  BY PagedAssumption DEF PagesInv, PlansOK, More, At
<1>2. Page \in PageKind
  BY <1>1 DEF Page
<1>3. Page.lines \in Nat
  BY <1>2, TailIs
<1> DEFINE sent == vision /\ IsVisual(Page) /\ rendered < VisionPages /\ renders
<1>4. sent \in BOOLEAN /\ (sent => rendered < VisionPages)
  OBVIOUS
<1>5. PlanOf(renders) = [carried |-> tail, own |-> Page.lines, image |-> sent]
  BY DEF PlanOf
<1> HIDE DEF sent
<1>6. /\ PlanOf(renders) \in PlanType /\ PlanOf(renders).image = sent
      /\ PlanOf(renders).own = Page.lines /\ PlanOf(renders).carried = tail
  BY <1>1, <1>3, <1>4, <1>5 DEF PlanType
<1> QED BY <1>1, <1>2, <1>4, <1>6 DEF At

\* One more page is planned: which pages are sent, and which as an image.
LEMMA OnePlanMore ==
    ASSUME plans \in Seq(PlanType), NEW plan \in PlanType, plans' = Append(plans, plan)
    PROVE  /\ plans' \in Seq(PlanType) /\ Len(plans') = Len(plans) + 1
           /\ DOMAIN plans' = 1..(Len(plans) + 1) /\ DOMAIN plans = 1..Len(plans)
           /\ plans'[Len(plans) + 1] = plan /\ \A n \in 1..Len(plans) : plans'[n] = plans[n]
           /\ Sent' = Sent \cup (IF Skipped(plan) THEN {} ELSE {Len(plans) + 1})
           /\ Cardinality(ImagePlans)' = Cardinality(ImagePlans) + (IF plan.image THEN 1 ELSE 0)
<1>1. /\ plans' \in Seq(PlanType) /\ Len(plans') = Len(plans) + 1 /\ Len(plans) \in Nat
      /\ DOMAIN plans' = 1..(Len(plans) + 1) /\ DOMAIN plans = 1..Len(plans)
      /\ plans'[Len(plans) + 1] = plan /\ \A n \in 1..Len(plans) : plans'[n] = plans[n]
  OBVIOUS
<1>2. Sent' = Sent \cup (IF Skipped(plan) THEN {} ELSE {Len(plans) + 1})
  BY <1>1 DEF Sent, Skipped
<1>3. ImagePlans \in SUBSET (1..Len(plans)) /\ Len(plans) + 1 \notin ImagePlans
  BY <1>1 DEF ImagePlans
<1>4. CASE plan.image
  <2>1. ImagePlans' = ImagePlans \cup {Len(plans) + 1}
    BY <1>1, <1>4 DEF ImagePlans
  <2>2. Cardinality(ImagePlans \cup {Len(plans) + 1}) = Cardinality(ImagePlans) + 1
    BY <1>1, <1>3, OneMore
  <2> QED BY <1>1, <1>2, <1>4, <2>1, <2>2
<1>5. CASE ~plan.image
  <2>1. ImagePlans' = ImagePlans
    BY <1>1, <1>5 DEF ImagePlans
  <2>2. Cardinality(ImagePlans) \in Nat
    BY <1>1, <1>3, Within
  <2> QED BY <1>1, <1>2, <1>5, <2>1, <2>2
<1> QED BY <1>4, <1>5

\* What is known of the plans holds of one more, made of the page in turn.
LEMMA PlansGoOn ==
    ASSUME PagesInv, More, NEW renders \in BOOLEAN, plans' = Append(plans, PlanOf(renders)),
           pages' = pages, tail' = TailOf(Page),
           rendered' = rendered + (IF PlanOf(renders).image THEN 1 ELSE 0)
    PROVE  /\ PlansOK'
           /\ Sent' = Sent \cup (IF Skipped(PlanOf(renders)) THEN {} ELSE {At})
<1> DEFINE plan == PlanOf(renders)
           k == Len(plans)
<1>1. /\ Page \in PageKind /\ At = k + 1 /\ plan \in PlanType /\ Page = pages[k + 1]
      /\ plan.own = Page.lines /\ plan.carried = tail /\ (plan.image => rendered < VisionPages)
      /\ k + 1 <= Len(pages) /\ k + 1 <= MaxPages
  BY PageInTurn DEF Page
<1>2. /\ pages \in Seq(PageKind) /\ rendered \in Nat /\ plans \in Seq(PlanType) /\ k \in Nat
      /\ rendered = Cardinality(ImagePlans) /\ rendered <= VisionPages /\ VisionPages \in Nat
      /\ tail = (IF plans = <<>> THEN 0 ELSE TailOf(pages[k]))
      /\ \A n \in DOMAIN plans : plans[n].own = pages[n].lines
      /\ \A n \in 2..k : plans[n].carried = TailOf(pages[n - 1])
  <2>1. /\ pages \in Seq(PageKind) /\ rendered \in Nat /\ plans \in Seq(PlanType) /\ k \in Nat
        /\ rendered = Cardinality(ImagePlans) /\ rendered <= VisionPages /\ VisionPages \in Nat
    BY PagedAssumption DEF PagesInv, PlansOK
  <2>2. /\ tail = (IF plans = <<>> THEN 0 ELSE TailOf(pages[k]))
        /\ \A n \in DOMAIN plans : plans[n].own = pages[n].lines
        /\ \A n \in 2..k : plans[n].carried = TailOf(pages[n - 1])
    BY DEF PagesInv, PlansOK
  <2> QED BY <2>1, <2>2
<1> HIDE DEF plan
<1>3. /\ plans' \in Seq(PlanType) /\ Len(plans') = k + 1
      /\ DOMAIN plans' = 1..(k + 1) /\ DOMAIN plans = 1..k
      /\ plans'[k + 1] = plan /\ \A n \in 1..k : plans'[n] = plans[n]
      /\ Sent' = Sent \cup (IF Skipped(plan) THEN {} ELSE {k + 1})
      /\ Cardinality(ImagePlans)' = Cardinality(ImagePlans) + (IF plan.image THEN 1 ELSE 0)
  BY <1>1, <1>2, OnePlanMore DEF plan
<1>4. rendered' \in Nat /\ rendered' <= VisionPages /\ rendered' = Cardinality(ImagePlans)'
  BY <1>1, <1>2, <1>3 DEF plan
<1>5. tail' \in Nat /\ tail' = TailOf(pages[k + 1]) /\ plans' # <<>>
  <2>1. tail' = TailOf(pages[k + 1]) /\ TailOf(Page) \in Nat
    BY <1>1, TailIs
  <2>2. Len(plans') # 0
    BY <1>2, <1>3
  <2> QED BY <1>1, <2>1, <2>2
<1>6. \A n \in DOMAIN plans' : plans'[n].own = pages[n].lines
  BY <1>1, <1>2, <1>3
<1>7. ASSUME NEW n \in 2..(k + 1) PROVE plans'[n].carried = TailOf(pages[n - 1])
  <2>cases. n \in 2..k \/ n = k + 1
    <3> HIDE DEF k
    <3> QED BY <1>2, <1>7
  <2>1. CASE n \in 2..k
    BY <1>2, <1>3, <2>1
  <2>2. CASE n = k + 1
    <3>1. k # 0 /\ plans # <<>> /\ n - 1 = k
      BY <1>2, <1>7, <2>2
    <3> QED BY <1>1, <1>2, <1>3, <2>2, <3>1
  <2> QED BY <2>cases, <2>1, <2>2
<1>8. /\ pages' \in Seq(PageKind) /\ Len(plans') <= Len(pages') /\ Len(plans') <= MaxPages
  BY <1>1, <1>2, <1>3
<1>9. PlansOK'
  <2>1. tail' = IF plans' = <<>> THEN 0 ELSE TailOf(pages'[Len(plans')])
    BY <1>3, <1>5
  <2>2. \A n \in DOMAIN plans' : plans'[n].own = pages'[n].lines
    BY <1>6
  <2>3. \A n \in 2..Len(plans') : plans'[n].carried = TailOf(pages'[n - 1])
    BY <1>3, <1>7
  <2> QED BY <1>3, <1>4, <1>5, <1>8, <2>1, <2>2, <2>3 DEF PlansOK
<1> QED BY <1>1, <1>3, <1>9 DEF plan

\* A page is parsed: it is skipped, or asked at once, or planned for the group.
LEMMA ParseSteps ==
    ASSUME PagesInv, NEW renders \in BOOLEAN, NEW ok \in BOOLEAN,
           SkipPage(renders) \/ ReadPage(renders, ok)
    PROVE  PagesInv'
<1>1. /\ More /\ pc = "parse" /\ pc' = "parse" /\ pages' = pages /\ vision' = vision /\ grouped' = grouped
      /\ plans' = Append(plans, PlanOf(renders))
  BY DEF SkipPage, ReadPage, More
<1>2. Page \in PageKind /\ PlanOf(renders) \in PlanType /\ At = Len(plans) + 1
      /\ PlanOf(renders).own = Page.lines /\ PlanOf(renders).carried = tail
  BY <1>1, PageInTurn
<1>3. CASE SkipPage(renders)
  <2>1. /\ tail' = 0 /\ replies' = replies /\ rendered' = rendered /\ Skipped(PlanOf(renders))
    BY <1>3 DEF SkipPage
  <2>2. PlanOf(renders).image = FALSE /\ Page.lines = 0
    <3>1. tail \in Nat /\ Page.lines \in Nat /\ PlanOf(renders).image \in BOOLEAN
      BY <1>2, TailIs DEF PagesInv, PlansOK, PlanType
    <3> QED BY <1>2, <2>1, <3>1 DEF Skipped
  <2>3. tail' = TailOf(Page) /\ rendered \in Nat
    BY <1>2, <2>1, <2>2, TailIs DEF PagesInv, PlansOK
  <2>4. rendered' = rendered + (IF PlanOf(renders).image THEN 1 ELSE 0)
    BY <2>1, <2>2, <2>3
  <2>5. PlansOK' /\ Sent' = Sent
    BY <1>1, <2>1, <2>3, <2>4, PlansGoOn
  <2>6. RepliesOK' /\ StatsOK'
    BY <1>1, <2>1, <2>5 DEF PagesInv, RepliesOK, StatsOK
  <2> QED BY <1>1, <2>5, <2>6 DEF PagesInv
<1>4. CASE ReadPage(renders, ok)
  <2>1. /\ tail' = TailOf(Page) /\ rendered' = rendered + (IF PlanOf(renders).image THEN 1 ELSE 0)
        /\ ~Skipped(PlanOf(renders)) /\ replies' = IF grouped THEN replies ELSE Answered(At, ok)
    BY <1>4 DEF ReadPage
  <2>2. PlansOK' /\ Sent' = Sent \cup {At}
    BY <1>1, <2>1, PlansGoOn
  <2>3. DOMAIN replies' = IF grouped THEN {} ELSE Sent'
    <3>1. CASE grouped
      BY <1>1, <2>1, <3>1 DEF PagesInv, RepliesOK
    <3>2. CASE ~grouped
      BY <1>1, <2>1, <2>2, <3>2 DEF PagesInv, RepliesOK, Answered
    <3> QED BY <3>1, <3>2
  <2>4. RepliesOK' /\ StatsOK'
    BY <1>1, <2>3 DEF RepliesOK, StatsOK
  <2> QED BY <1>1, <2>2, <2>4 DEF PagesInv
<1> QED BY <1>3, <1>4

\* Once no page is parsed any more, the plans stay.
LEMMA SamePlans ==
    ASSUME PagesInv, UNCHANGED <<pages, vision, grouped, tail, plans, rendered>>
    PROVE  PlansOK' /\ Sent' = Sent /\ TextPlans' = TextPlans /\ ImagePlans' = ImagePlans
<1>1. Sent' = Sent /\ TextPlans' = TextPlans /\ ImagePlans' = ImagePlans
  BY DEF Sent, TextPlans, ImagePlans, Skipped
<1> QED BY <1>1 DEF PagesInv, PlansOK

\* The group and then the vision pages are asked; the budget ends the reading, or a failure.
LEMMA ReplySteps ==
    ASSUME PagesInv,
           EndParse \/ (\E ok : Group(ok)) \/ (\E ok : AskImage(ok)) \/ EndImages \/ Raise
    PROVE  PagesInv'
<1>1. UNCHANGED <<pages, vision, grouped, tail, plans, rendered>>
  BY DEF EndParse, Group, AskImage, EndImages, Raise
<1>2. PlansOK' /\ Sent' = Sent /\ TextPlans' = TextPlans /\ ImagePlans' = ImagePlans
  BY <1>1, SamePlans
<1>3. pc' \in {"group", "images", "assemble", "raised"}
  BY DEF EndParse, Group, AskImage, EndImages, Raise
<1>4. RepliesOK'
  <2>1. CASE EndParse
    BY <1>1, <1>2, <2>1 DEF PagesInv, RepliesOK, EndParse
  <2>2. CASE \E ok : Group(ok)
    BY <1>1, <1>2, <2>2, SentAre DEF PagesInv, RepliesOK, Group
  <2>3. CASE \E ok : AskImage(ok)
    <3>1. PICK ok : AskImage(ok)
      BY <2>3
    <3>2. /\ pc = "images" /\ pc' = "images" /\ ImagePlans \ DOMAIN replies # {}
          /\ DOMAIN replies' = DOMAIN replies \cup {Min(ImagePlans \ DOMAIN replies)}
      BY <3>1 DEF AskImage, Answered
    <3>3. ImagePlans \ DOMAIN replies \in SUBSET Nat
      BY DEF PagesInv, PlansOK, ImagePlans
    <3>4. Min(ImagePlans \ DOMAIN replies) \in ImagePlans
      BY <3>2, <3>3, MinIsIn
    <3> QED BY <1>1, <1>2, <3>2, <3>4, SentAre DEF PagesInv, RepliesOK
  <2>4. CASE EndImages
    BY <1>1, <1>2, <2>4, SentAre DEF PagesInv, RepliesOK, EndImages
  <2>5. CASE Raise
    BY <2>5 DEF RepliesOK, Raise
  <2> QED BY <2>1, <2>2, <2>3, <2>4, <2>5
<1>5. StatsOK'
  BY <1>3 DEF StatsOK
<1> QED BY <1>1, <1>2, <1>3, <1>4, <1>5 DEF PagesInv

\* The result is put together.
LEMMA AssembleStep == ASSUME PagesInv, Assemble PROVE PagesInv'
<1>1. /\ UNCHANGED <<pages, vision, grouped, tail, plans, rendered, replies>>
      /\ pc = "assemble" /\ pc' = "done"
  BY DEF Assemble
<1>2. PlansOK' /\ DOMAIN replies = Sent
  BY <1>1, SamePlans DEF PagesInv, RepliesOK
<1>3. plans \in Seq(PlanType) /\ DOMAIN plans = 1..Len(plans) /\ Len(plans) \in Nat
  BY DEF PagesInv, PlansOK
<1>4. /\ DOMAIN stats' = DOMAIN plans
      /\ \A i \in DOMAIN plans :
            stats'[i] = [page |-> i, call |-> IF i \notin DOMAIN replies THEN "none"
                                              ELSE IF replies[i] THEN "answered" ELSE "failed"]
  BY DEF Assemble, Order
<1>5. Len(stats') = Len(plans)
  BY <1>3, <1>4
<1>6. ASSUME NEW i \in DOMAIN plans
      PROVE  /\ stats'[i].page = i /\ stats'[i].call \in {"none", "answered", "failed"}
             /\ stats'[i].call = "none" <=> Skipped(plans[i])
             /\ stats'[i].call = "answered" => replies[i]
  <2>1. i \notin DOMAIN replies <=> Skipped(plans[i])
    BY <1>2, <1>6 DEF Sent
  <2>2. CASE i \notin DOMAIN replies
    BY <1>4, <1>6, <2>1, <2>2
  <2>3. CASE i \in DOMAIN replies /\ replies[i]
    BY <1>4, <1>6, <2>1, <2>3
  <2>4. CASE i \in DOMAIN replies /\ ~replies[i]
    BY <1>4, <1>6, <2>1, <2>4
  <2> QED BY <2>2, <2>3, <2>4
<1>7. StatsOK'
  BY <1>1, <1>4, <1>5, <1>6 DEF StatsOK, Skipped
<1>8. RepliesOK'
  BY <1>1 DEF RepliesOK
<1> QED BY <1>1, <1>2, <1>7, <1>8 DEF PagesInv

LEMMA PagesInit == PInit \/ NoPages => PagesInv
<1> SUFFICES ASSUME PInit \/ NoPages PROVE PagesInv
  OBVIOUS
<1>1. pages \in Seq(PageKind) /\ vision \in BOOLEAN /\ grouped \in BOOLEAN
  <2>1. CASE PInit
    BY <2>1, SeqDef DEF PInit
  <2>2. CASE NoPages
    <3>1. pages = <<>> /\ vision = FALSE /\ grouped = FALSE
      BY <2>2 DEF NoPages
    <3>2. pages \in Seq(PageKind)
      BY <3>1
    <3> QED BY <3>1, <3>2
  <2> QED BY <2>1, <2>2
<1>2. /\ plans = <<>> /\ replies = <<>> /\ stats = <<>> /\ tail = 0 /\ rendered = 0
      /\ pc \in {"parse", "done"}
  BY DEF PInit, NoPages
<1>3. ImagePlans = {} /\ Sent = {}
  BY <1>2 DEF ImagePlans, Sent
<1>4. PlansOK
  BY <1>1, <1>2, <1>3, FS_EmptySet, PagedAssumption DEF PlansOK
<1>5. RepliesOK /\ StatsOK
  BY <1>2, <1>3 DEF RepliesOK, StatsOK
<1> QED BY <1>1, <1>2, <1>4, <1>5 DEF PagesInv

\* No step on a document breaks the invariant.
LEMMA PagesStep == ASSUME PagesInv, [PNext]_pvars PROVE PagesInv'
<1>1. CASE \E renders, ok \in BOOLEAN : SkipPage(renders) \/ ReadPage(renders, ok)
  BY <1>1, ParseSteps
<1>2. CASE EndParse \/ (\E ok : Group(ok)) \/ (\E ok : AskImage(ok)) \/ EndImages \/ Raise
  BY <1>2, ReplySteps
<1>3. CASE Assemble
  BY <1>3, AssembleStep
<1>4. CASE UNCHANGED pvars
  <2>1. PlansOK' /\ Sent' = Sent /\ TextPlans' = TextPlans
    BY <1>4, SamePlans DEF pvars
  <2>2. UNCHANGED <<pages, vision, grouped, pc, plans, replies, stats>>
    BY <1>4 DEF pvars
  <2>3. RepliesOK' /\ StatsOK'
    BY <2>1, <2>2 DEF PagesInv, RepliesOK, StatsOK, Skipped
  <2> QED BY <2>1, <2>2, <2>3 DEF PagesInv
<1>5. PNext \/ UNCHANGED pvars
  OBVIOUS
<1>6. PNext => \/ \E renders, ok \in BOOLEAN : SkipPage(renders) \/ ReadPage(renders, ok)
               \/ EndParse \/ (\E ok : Group(ok)) \/ (\E ok : AskImage(ok)) \/ EndImages \/ Raise
               \/ Assemble
  BY DEF PNext
<1> QED BY <1>1, <1>2, <1>3, <1>4, <1>5, <1>6

\* The calls counted are those of the pages sent: each has one entry, answered or failed.
LEMMA PagesHolds == PagesInv => PagesInOrder
<1> SUFFICES ASSUME PagesInv PROVE PagesInOrder
  OBVIOUS
<1>1. Len(plans) <= MaxPages /\ Cardinality(ImagePlans) <= VisionPages
  BY DEF PagesInv, PlansOK
<1>2. ASSUME OverlapLines # 0, NEW n \in 2..Len(plans)
      PROVE  plans[n].carried = Min({pages[n - 1].lines, OverlapLines})
  <2>1. pages[n - 1] \in PageKind
    BY <1>2 DEF PagesInv, PlansOK
  <2> QED BY <1>2, <2>1, TailIs DEF PagesInv, PlansOK
<1>3. ASSUME pc = "done"
      PROVE  CallsOf("answered") + CallsOf("failed") = Cardinality(TextPlans \cup ImagePlans)
  <2> DEFINE A == {i \in DOMAIN stats : stats[i].call = "answered"}
             F == {i \in DOMAIN stats : stats[i].call = "failed"}
  <2>1. /\ DOMAIN stats = DOMAIN plans /\ DOMAIN plans = 1..Len(plans) /\ Len(plans) \in Nat
        /\ \A i \in DOMAIN stats :
              /\ stats[i].call = "none" <=> Skipped(plans[i])
              /\ stats[i].call \in {"none", "answered", "failed"}
    BY <1>3 DEF PagesInv, PlansOK, StatsOK
  <2>2. A \cup F = Sent /\ A \cap F = {}
    BY <2>1 DEF Sent
  <2>3. IsFiniteSet(A) /\ IsFiniteSet(F) /\ Cardinality(A) \in Nat /\ Cardinality(F) \in Nat
    <3>1. A \in SUBSET (1..Len(plans)) /\ F \in SUBSET (1..Len(plans))
      BY <2>1
    <3> QED BY <2>1, <3>1, Within
  <2>4. CallsOf("answered") = Cardinality(A) /\ CallsOf("failed") = Cardinality(F)
    BY DEF CallsOf
  <2> HIDE DEF A, F
  <2>5. Cardinality(A \cup F) = Cardinality(A) + Cardinality(F) - Cardinality(A \cap F)
    BY <2>3, FS_Union
  <2>6. Cardinality(A \cap F) = 0
    BY <2>2, FS_EmptySet
  <2>7. Cardinality(Sent) = Cardinality(A) + Cardinality(F)
    BY <2>2, <2>3, <2>5, <2>6
  <2> QED BY <2>4, <2>7, SentAre
<1>4. ASSUME pc = "done"
      PROVE  /\ Len(stats) = Len(plans)
             /\ \A i \in DOMAIN stats :
                   /\ stats[i].page = i
                   /\ stats[i].call = "none" <=> Skipped(plans[i])
                   /\ stats[i].call = "answered" => replies[i]
  BY <1>4 DEF PagesInv, StatsOK
<1> QED BY <1>1, <1>2, <1>3, <1>4 DEF PagesInOrder

-----------------------------------------------------------------------------
(* The extractor.                                                                  *)

\* GeneralExtractor.extract, whatever the content is: each path keeps its own invariant and
\* leaves the other's state alone.
THEOREM GeneralIsInvariant == GSpec => []GeneralInv
<1>1. GInit => GeneralInv
  BY TextInit, PagesInit DEF GInit, GeneralInv
<1>2. GeneralInv /\ [GNext]_gvars => GeneralInv'
  <2> SUFFICES ASSUME GeneralInv, [GNext]_gvars PROVE TextInv' /\ PagesInv'
    BY DEF GeneralInv
  <2>1. [Next]_vars
    BY DEF GNext, ReadImage, gvars
  <2>2. [PNext]_pvars
    BY DEF GNext, ReadImage, gvars
  <2> QED BY <2>1, <2>2, TextStep, PagesStep DEF GeneralInv
<1> QED BY <1>1, <1>2, PTL DEF GSpec

\* However often a text is read, whichever passes failed, were cut short or asked for more,
\* each chunk of it is sent unless it can be carried, none is written twice, and the calls go
\* to the first chunks that need them; a PDF's pages keep their place, their own reply, and
\* the end of the page before (general.py: extract and what it calls).
THEOREM TextsAreReadWhole == GSpec => []TextIsReadWhole
<1>1. GeneralInv => TextIsReadWhole
  BY TextHolds, PagesHolds DEF GeneralInv, TextIsReadWhole
<1> QED BY <1>1, GeneralIsInvariant, PTL

-----------------------------------------------------------------------------
\* Counting.

LEMMA LeastOf ==
    ASSUME NEW S \in SUBSET Nat, S # {}
    PROVE  \E i \in S : \A j \in S : i <= j
<1>1. PICK i \in S : \A j \in S : ~(<<j, i>> \in OpToRel(<, Nat))
  BY NatLessThanWellFounded, WFMin
<1>2. ASSUME NEW j \in S, j < i PROVE FALSE
  <2>1. <<j, i>> \in OpToRel(<, Nat)
    BY <1>2 DEF OpToRel
  <2> QED BY <1>1, <2>1
<1> QED BY <1>2

LEMMA GreatestOf ==
    ASSUME NEW L \in Nat, NEW S \in SUBSET (1..L), S # {}
    PROVE  \E i \in S : \A j \in S : j <= i
<1> DEFINE T == {L - i : i \in S}
<1>1. T \in SUBSET Nat /\ T # {}
  <2>1. \A i \in S : i \in 1..L /\ L - i \in Nat
    OBVIOUS
  <2> QED BY <2>1
<1>2. PICK k \in T : \A j \in T : k <= j
  <2> HIDE DEF T
  <2> QED BY <1>1, LeastOf
<1>3. PICK i \in S : k = L - i
  BY <1>2
<1>4. \A j \in S : L - i <= L - j
  BY <1>2, <1>3
<1> QED BY <1>3, <1>4

\* Induction up to a bound, over a set of numbers.
LEMMA CountsUp ==
    ASSUME NEW L \in Nat, NEW S, 0 \in S, \A i \in 1..L : i - 1 \in S => i \in S
    PROVE  \A i \in 0..L : i \in S
<1> DEFINE bad == {i \in 0..L : i \notin S}
<1>1. ASSUME bad # {} PROVE FALSE
  <2>1. bad \in SUBSET Nat
    OBVIOUS
  <2>2. \E i \in bad : \A j \in bad : i <= j
    <3> HIDE DEF bad
    <3> QED BY <1>1, <2>1, LeastOf
  <2>3. PICK i \in bad : \A j \in bad : i <= j
    BY <2>2
  <2>4. i \in 1..L /\ i - 1 \in 0..L
    BY <2>3
  <2>5. i - 1 \in bad \/ i - 1 \in S
    BY <2>4
  <2>6. i - 1 \notin bad
    BY <2>3, <2>4
  <2> QED BY <2>3, <2>4, <2>5, <2>6
<1> QED BY <1>1


-----------------------------------------------------------------------------
\* Sequences.

LEMMA FrontIs ==
    ASSUME NEW S, NEW s \in Seq(S), s # <<>>
    PROVE  /\ Front(s) \in Seq(S) /\ Len(Front(s)) = Len(s) - 1 /\ Last(s) = s[Len(s)] /\ Len(s) \in Nat \ {0}
           /\ \A i \in 1..(Len(s) - 1) : Front(s)[i] = s[i]
<1>1. Len(s) \in Nat \ {0}
  OBVIOUS
<1>2. Front(s) = SubSeq(s, 1, Len(s) - 1) /\ Last(s) = s[Len(s)]
  BY Zenon DEF Front, Last
<1>3. \A i \in 1..(Len(s) - 1) : s[i] \in S
  OBVIOUS
<1>4. SubSeq(s, 1, Len(s) - 1) \in Seq(S) /\ Len(SubSeq(s, 1, Len(s) - 1)) = Len(s) - 1
  <2> DEFINE n == Len(s) - 1
  <2>1. n \in Nat /\ \A i \in 1..n : s[i] \in S
    BY <1>1, <1>3
  <2> HIDE DEF n
  <2>2. SubSeq(s, 1, n) \in Seq(S)
    BY <2>1, SubSeqProperties
  <2>3. Len(SubSeq(s, 1, n)) = IF 1 <= n THEN n - 1 + 1 ELSE 0
    BY <2>1, SubSeqProperties
  <2>4. Len(SubSeq(s, 1, n)) = n
    BY <2>1, <2>3
  <2> QED BY <2>2, <2>4 DEF n
<1>5. \A i \in 1..(Len(s) - 1) : SubSeq(s, 1, Len(s) - 1)[i] = s[i]
  BY <1>1, SubSeqProperties
<1> QED BY <1>1, <1>2, <1>4, <1>5

LEMMA LastIsIn == ASSUME NEW S, NEW s \in Seq(S), s # <<>> PROVE Last(s) \in S
<1>1. Last(s) = s[Len(s)]
  BY Zenon DEF Last
<1>2. s[Len(s)] \in S
  OBVIOUS
<1> QED BY <1>1, <1>2

LEMMA ReverseIs ==
    ASSUME NEW S, NEW s \in Seq(S)
    PROVE  Reverse(s) \in Seq(S) /\ Len(Reverse(s)) = Len(s) /\ \A i \in 1..Len(s) : Reverse(s)[i] = s[Len(s) - i + 1]
<1>1. \A i \in 1..Len(s) : Len(s) - i + 1 \in 1..Len(s) /\ s[Len(s) - i + 1] \in S
  OBVIOUS
<1>2. Reverse(s) = [i \in 1..Len(s) |-> s[(Len(s) - i) + 1]]
  BY DEF Reverse
<1> QED BY <1>1, <1>2

LEMMA InAppended ==
    ASSUME NEW S, NEW s \in Seq(S), NEW e
    PROVE  ToSet(Append(s, e)) = ToSet(s) \cup {e}
<1>1. Len(Append(s, e)) = Len(s) + 1 /\ DOMAIN s = 1..Len(s) /\ DOMAIN Append(s, e) = 1..(Len(s) + 1)
  OBVIOUS
<1>2. \A i \in 1..Len(s) : Append(s, e)[i] = s[i]
  OBVIOUS
<1>3. Append(s, e)[Len(s) + 1] = e
  OBVIOUS
<1>4. ASSUME NEW x \in ToSet(Append(s, e)) PROVE x \in ToSet(s) \cup {e}
  <2>1. PICK i \in 1..(Len(s) + 1) : x = Append(s, e)[i]
    BY <1>1, <1>4 DEF ToSet
  <2>2. i \in 1..Len(s) \/ i = Len(s) + 1
    OBVIOUS
  <2> QED BY <1>1, <1>2, <1>3, <2>1, <2>2 DEF ToSet
<1>5. ASSUME NEW x \in ToSet(s) PROVE x \in ToSet(Append(s, e))
  <2>1. PICK i \in 1..Len(s) : x = s[i]
    BY <1>1, <1>5 DEF ToSet
  <2>2. x = Append(s, e)[i] /\ i \in DOMAIN Append(s, e)
    BY <2>1, <1>1, <1>2
  <2> QED BY <2>2 DEF ToSet
<1>6. e \in ToSet(Append(s, e))
  <2>1. Len(s) + 1 \in DOMAIN Append(s, e)
    BY <1>1
  <2> QED BY <2>1, <1>3 DEF ToSet
<1> QED BY <1>4, <1>5, <1>6

-----------------------------------------------------------------------------
\* Ranks.

Below(S, R, x) == {y \in S : <<y, x>> \in R}
Orders(S, R) ==
    /\ \A x \in S : <<x, x>> \notin R
    /\ \A x, y \in S : x # y => <<x, y>> \in R \/ <<y, x>> \in R
    /\ \A x, y, z \in S : <<x, y>> \in R /\ <<y, z>> \in R => <<x, z>> \in R

LEMMA RanksRise ==
    ASSUME NEW S, IsFiniteSet(S), NEW R, Orders(S, R), NEW x \in S, NEW y \in S, <<x, y>> \in R
    PROVE  Cardinality(Below(S, R, x)) < Cardinality(Below(S, R, y))
<1>1. Below(S, R, x) \in SUBSET Below(S, R, y) /\ x \in Below(S, R, y) /\ x \notin Below(S, R, x)
  BY DEF Below, Orders
<1>2. Below(S, R, y) \in SUBSET S
  BY DEF Below
<1>3. IsFiniteSet(Below(S, R, y))
  BY <1>2, FS_Subset
<1>4. Cardinality(Below(S, R, x)) <= Cardinality(Below(S, R, y))
  BY <1>1, <1>3, FS_Subset
<1>5. Cardinality(Below(S, R, x)) # Cardinality(Below(S, R, y))
  <2>1. Below(S, R, x) # Below(S, R, y)
    BY <1>1
  <2>2. Cardinality(Below(S, R, x)) = Cardinality(Below(S, R, y)) => Below(S, R, x) = Below(S, R, y)
    BY <1>1, <1>3, FS_Subset
  <2> QED BY <2>1, <2>2
<1>6. Cardinality(Below(S, R, x)) \in Nat /\ Cardinality(Below(S, R, y)) \in Nat
  <2>1. IsFiniteSet(Below(S, R, x))
    BY <1>1, <1>3, FS_Subset
  <2> QED BY <1>3, <2>1, FS_CardinalityType
<1> QED BY <1>4, <1>5, <1>6

LEMMA RanksLie ==
    ASSUME NEW S, IsFiniteSet(S), NEW R, Orders(S, R), NEW x \in S
    PROVE  Cardinality(S) \in Nat /\ Cardinality(Below(S, R, x)) \in 0..(Cardinality(S) - 1)
<1>1. Below(S, R, x) \in SUBSET S /\ Below(S, R, x) # S
  BY DEF Below, Orders
<1>2. Cardinality(S) \in Nat
  BY FS_CardinalityType
<1>3. IsFiniteSet(Below(S, R, x)) /\ Cardinality(Below(S, R, x)) <= Cardinality(S)
  BY <1>1, FS_Subset
<1>4. Cardinality(Below(S, R, x)) # Cardinality(S)
  BY <1>1, FS_Subset
<1>5. Cardinality(Below(S, R, x)) \in Nat
  BY <1>3, FS_CardinalityType
<1> QED BY <1>2, <1>3, <1>4, <1>5

LEMMA RanksDiffer ==
    ASSUME NEW S, IsFiniteSet(S), NEW R, Orders(S, R), NEW x \in S, NEW y \in S,
           Cardinality(Below(S, R, x)) = Cardinality(Below(S, R, y))
    PROVE  x = y
<1>1. Cardinality(Below(S, R, x)) \in Int
  BY RanksLie
<1>2. ASSUME <<x, y>> \in R PROVE FALSE
  <2>1. Cardinality(Below(S, R, x)) < Cardinality(Below(S, R, y))
    BY <1>2, RanksRise
  <2> QED BY <2>1, <1>1
<1>3. ASSUME <<y, x>> \in R PROVE FALSE
  <2>1. Cardinality(Below(S, R, y)) < Cardinality(Below(S, R, x))
    BY <1>3, RanksRise
  <2> QED BY <2>1, <1>1
<1> QED BY <1>2, <1>3 DEF Orders

LEMMA RanksFill ==
    ASSUME NEW S, IsFiniteSet(S), NEW R, Orders(S, R), NEW i \in 0..(Cardinality(S) - 1)
    PROVE  \E x \in S : Cardinality(Below(S, R, x)) = i
<1> DEFINE n == Cardinality(S)
           f == [x \in S |-> Cardinality(Below(S, R, x))]
<1>1. n \in Nat
  BY FS_CardinalityType
<1>2. f \in Injection(S, 0..(n - 1))
  <2>1. \A x \in S : Cardinality(Below(S, R, x)) \in 0..(n - 1)
    BY RanksLie
  <2>2. f \in [S -> 0..(n - 1)]
    BY <2>1
  <2>3. \A x, y \in S : f[x] = f[y] => x = y
    BY RanksDiffer
  <2> QED BY <2>2, <2>3 DEF Injection, IsInjective
<1>3. IsFiniteSet(0..(n - 1)) /\ Cardinality(0..(n - 1)) = n
  <2>1. 0 \in Int /\ n - 1 \in Int
    BY <1>1
  <2>2. IsFiniteSet(0..(n - 1)) /\ Cardinality(0..(n - 1)) = IF 0 > n - 1 THEN 0 ELSE n - 1 - 0 + 1
    BY <2>1, FS_Interval
  <2> QED BY <1>1, <2>2
<1>4. f \in Surjection(S, 0..(n - 1))
  <2> HIDE DEF f
  <2> QED BY <1>1, <1>2, <1>3, FS_Injection
<1> QED BY <1>4 DEF Surjection

\* The sequence of a set by rank.
RankSeq(S, R) == [m \in 1..Cardinality(S) |-> CHOOSE x \in S : Cardinality(Below(S, R, x)) = m - 1]

LEMMA RankSeqIs ==
    ASSUME NEW S, IsFiniteSet(S), NEW R, Orders(S, R)
    PROVE  /\ RankSeq(S, R) \in Seq(S) /\ Len(RankSeq(S, R)) = Cardinality(S) /\ Cardinality(S) \in Nat
           /\ \A m \in 1..Cardinality(S) :
                 RankSeq(S, R)[m] \in S /\ Cardinality(Below(S, R, RankSeq(S, R)[m])) = m - 1
           /\ \A x \in S : /\ Cardinality(Below(S, R, x)) + 1 \in 1..Cardinality(S)
                           /\ RankSeq(S, R)[Cardinality(Below(S, R, x)) + 1] = x
<1> DEFINE n == Cardinality(S)
           d == RankSeq(S, R)
<1>1. n \in Nat
  BY FS_CardinalityType
<1>2. d = [m \in 1..n |-> CHOOSE x \in S : Cardinality(Below(S, R, x)) = m - 1]
  BY DEF RankSeq
<1>3. ASSUME NEW m \in 1..n PROVE d[m] \in S /\ Cardinality(Below(S, R, d[m])) = m - 1
  <2>1. m - 1 \in 0..(n - 1)
    BY <1>1
  <2>2. \E x \in S : Cardinality(Below(S, R, x)) = m - 1
    BY <2>1, RanksFill
  <2>3. d[m] = CHOOSE x \in S : Cardinality(Below(S, R, x)) = m - 1
    BY <1>2
  <2> HIDE DEF d
  <2> QED BY <2>2, <2>3
<1> HIDE DEF d, n
<1>4. ASSUME NEW x \in S PROVE Cardinality(Below(S, R, x)) + 1 \in 1..n /\ d[Cardinality(Below(S, R, x)) + 1] = x
  <2> DEFINE i == Cardinality(Below(S, R, x)) + 1
  <2>1. i \in 1..n /\ i - 1 = Cardinality(Below(S, R, x))
    BY <1>1, RanksLie DEF n
  <2> HIDE DEF i
  <2>2. d[i] \in S /\ Cardinality(Below(S, R, d[i])) = i - 1
    BY <1>3, <2>1
  <2>3. d[i] = x
    BY <2>1, <2>2, RanksDiffer
  <2> QED BY <2>1, <2>3 DEF i
<1>5. d \in Seq(S) /\ Len(d) = n
  BY <1>1, <1>2, <1>3
<1> QED BY <1>1, <1>3, <1>4, <1>5 DEF d, n

-----------------------------------------------------------------------------
\* Numbers from the least up.

Distinct(s) == \A i, j \in DOMAIN s : s[i] = s[j] => i = j
Rising(s) == \A i, j \in DOMAIN s : i < j => s[i] < s[j]
Smaller(S) == {p \in S \X S : p[1] < p[2]}

LEMMA InTurnIs ==
    ASSUME NEW S \in SUBSET Nat, IsFiniteSet(S)
    PROVE  /\ InTurn(S) \in Seq(S) /\ Len(InTurn(S)) = Cardinality(S) /\ Cardinality(S) \in Nat
           /\ ToSet(InTurn(S)) = S /\ Distinct(InTurn(S)) /\ Rising(InTurn(S))
<1> DEFINE R == Smaller(S)
           d == RankSeq(S, R)
<1>1. Orders(S, R)
  BY DEF Orders, Smaller
<1>2. \A n \in S : Below(S, R, n) = {m \in S : m < n}
  BY DEF Below, Smaller
<1>3. InTurn(S) = d
  <2>1. \A k \in 1..Cardinality(S) :
           (CHOOSE n \in S : Cardinality({m \in S : m < n}) = k - 1) =
               (CHOOSE n \in S : Cardinality(Below(S, R, n)) = k - 1)
    <3> HIDE DEF R
    <3> QED BY <1>2
  <2>2. InTurn(S) = [k \in 1..Cardinality(S) |-> CHOOSE n \in S : Cardinality({m \in S : m < n}) = k - 1]
    BY Zenon DEF InTurn
  <2>3. d = [k \in 1..Cardinality(S) |-> CHOOSE n \in S : Cardinality(Below(S, R, n)) = k - 1]
    BY Zenon DEF RankSeq
  <2> HIDE DEF d, R
  <2> QED BY <2>1, <2>2, <2>3
<1>4. d \in Seq(S) /\ Len(d) = Cardinality(S) /\ Cardinality(S) \in Nat
  BY <1>1, RankSeqIs
<1>5. \A m \in 1..Cardinality(S) : d[m] \in S /\ Cardinality(Below(S, R, d[m])) = m - 1
  BY <1>1, RankSeqIs
<1>6. \A x \in S : /\ Cardinality(Below(S, R, x)) + 1 \in 1..Cardinality(S)
                   /\ d[Cardinality(Below(S, R, x)) + 1] = x
  BY <1>1, RankSeqIs
<1>7. DOMAIN d = 1..Cardinality(S)
  BY <1>4
<1> HIDE DEF d
<1>8. ToSet(d) = S
  BY <1>5, <1>6, <1>7 DEF ToSet
<1>9. ASSUME NEW i \in DOMAIN d, NEW j \in DOMAIN d, d[i] = d[j] PROVE i = j
  BY <1>4, <1>5, <1>7, <1>9
<1>10. ASSUME NEW i \in DOMAIN d, NEW j \in DOMAIN d, i < j PROVE d[i] < d[j]
  <2>1. d[i] \in S /\ d[j] \in S /\ i \in Int /\ j \in Int
    BY <1>4, <1>5, <1>7
  <2>2. CASE d[i] = d[j]
    BY <2>2, <1>9, <1>10, <2>1
  <2>3. CASE d[j] < d[i]
    <3>1. <<d[j], d[i]>> \in R
      BY <2>1, <2>3 DEF Smaller
    <3>2. Cardinality(Below(S, R, d[j])) < Cardinality(Below(S, R, d[i]))
      <4> HIDE DEF R
      <4> QED BY <2>1, <3>1, <1>1, RanksRise
    <3> QED BY <3>2, <1>5, <1>7, <2>1, <1>10
  <2>4. d[i] \in Nat /\ d[j] \in Nat
    BY <2>1
  <2> QED BY <2>2, <2>3, <2>4
<1> QED BY <1>3, <1>4, <1>8, <1>9, <1>10 DEF Distinct, Rising

-----------------------------------------------------------------------------
\* Sequences whose elements differ.

LEMMA ToSetIs ==
    ASSUME NEW S, NEW s \in Seq(S)
    PROVE  ToSet(s) = {s[i] : i \in 1..Len(s)} /\ ToSet(s) \in SUBSET S /\ DOMAIN s = 1..Len(s) /\ Len(s) \in Nat
BY DEF ToSet

LEMMA HeadOff ==
    ASSUME NEW S, NEW s \in Seq(S), s # <<>>, Distinct(s)
    PROVE  /\ Head(s) \in ToSet(s) /\ Head(s) \in S /\ Tail(s) \in Seq(S) /\ Distinct(Tail(s))
           /\ ToSet(Tail(s)) = ToSet(s) \ {Head(s)}
<1>1. Head(s) = s[1] /\ 1 \in DOMAIN s /\ Tail(s) \in Seq(S) /\ Len(Tail(s)) = Len(s) - 1 /\ DOMAIN s = 1..Len(s)
      /\ DOMAIN Tail(s) = 1..(Len(s) - 1) /\ Len(s) \in Nat
  OBVIOUS
<1>2. \A i \in 1..(Len(s) - 1) : Tail(s)[i] = s[i + 1] /\ i + 1 \in 1..Len(s)
  OBVIOUS
<1>3. Distinct(Tail(s))
  <2>1. ASSUME NEW i \in 1..(Len(s) - 1), NEW j \in 1..(Len(s) - 1), Tail(s)[i] = Tail(s)[j] PROVE i = j
    <3>1. s[i + 1] = s[j + 1] /\ i + 1 \in DOMAIN s /\ j + 1 \in DOMAIN s
      BY <1>1, <1>2, <2>1
    <3>2. i + 1 = j + 1
      BY <3>1 DEF Distinct
    <3> QED BY <3>2
  <2> QED BY <1>1, <2>1 DEF Distinct
<1>4. ASSUME NEW x \in ToSet(Tail(s)) PROVE x \in ToSet(s) \ {Head(s)}
  <2>1. PICK i \in 1..(Len(s) - 1) : x = Tail(s)[i]
    BY <1>1, <1>4 DEF ToSet
  <2>2. x = s[i + 1] /\ i + 1 \in DOMAIN s /\ i + 1 # 1
    BY <1>1, <1>2, <2>1
  <2>3. x # s[1]
    BY <1>1, <2>2 DEF Distinct
  <2> QED BY <1>1, <2>2, <2>3 DEF ToSet
<1>5. ASSUME NEW x \in ToSet(s), x # Head(s) PROVE x \in ToSet(Tail(s))
  <2>1. PICK i \in 1..Len(s) : x = s[i]
    BY <1>1, <1>5 DEF ToSet
  <2>2. i # 1
    BY <1>1, <1>5, <2>1
  <2>3. i - 1 \in 1..(Len(s) - 1) /\ (i - 1) + 1 = i
    BY <1>1, <2>2
  <2>4. x = Tail(s)[i - 1]
    BY <1>2, <2>1, <2>3
  <2> QED BY <1>1, <2>3, <2>4 DEF ToSet
<1>6. Head(s) \in ToSet(s) /\ Head(s) \in S
  BY <1>1 DEF ToSet
<1> QED BY <1>1, <1>3, <1>4, <1>5, <1>6

LEMMA JoinedIs ==
    ASSUME NEW S, NEW s \in Seq(S), NEW t \in Seq(S)
    PROVE  /\ s \o t \in Seq(S) /\ Len(s \o t) = Len(s) + Len(t) /\ ToSet(s \o t) = ToSet(s) \cup ToSet(t)
           /\ \A i \in 1..Len(s) : (s \o t)[i] = s[i]
           /\ \A i \in 1..Len(t) : (s \o t)[Len(s) + i] = t[i]
<1>1. s \o t \in Seq(S) /\ Len(s \o t) = Len(s) + Len(t) /\ DOMAIN (s \o t) = 1..(Len(s) + Len(t))
      /\ Len(s) \in Nat /\ Len(t) \in Nat /\ DOMAIN s = 1..Len(s) /\ DOMAIN t = 1..Len(t)
  OBVIOUS
<1>2. \A i \in 1..Len(s) : (s \o t)[i] = s[i]
  OBVIOUS
<1>3. \A i \in 1..Len(t) : (s \o t)[Len(s) + i] = t[i]
  OBVIOUS
<1> DEFINE u == s \o t
<1> HIDE DEF u
<1>4. ASSUME NEW x \in ToSet(u) PROVE x \in ToSet(s) \cup ToSet(t)
  <2>1. PICK i \in 1..(Len(s) + Len(t)) : x = u[i]
    BY <1>1, <1>4 DEF ToSet, u
  <2>2. CASE i \in 1..Len(s)
    BY <2>1, <2>2, <1>1, <1>2 DEF ToSet, u
  <2>3. CASE i \notin 1..Len(s)
    <3>1. i - Len(s) \in 1..Len(t) /\ Len(s) + (i - Len(s)) = i
      BY <2>3, <1>1
    <3>2. x = t[i - Len(s)]
      BY <2>1, <3>1, <1>3 DEF u
    <3> QED BY <3>1, <3>2, <1>1 DEF ToSet
  <2> QED BY <2>2, <2>3
<1>5. ASSUME NEW x \in ToSet(s) \cup ToSet(t) PROVE x \in ToSet(u)
  <2>1. CASE x \in ToSet(s)
    <3>1. PICK i \in 1..Len(s) : x = s[i]
      BY <2>1, <1>1 DEF ToSet
    <3>2. x = u[i] /\ i \in DOMAIN u
      BY <3>1, <1>1, <1>2 DEF u
    <3> QED BY <3>2 DEF ToSet
  <2>2. CASE x \in ToSet(t)
    <3>1. PICK i \in 1..Len(t) : x = t[i]
      BY <2>2, <1>1 DEF ToSet
    <3>2. x = u[Len(s) + i] /\ Len(s) + i \in DOMAIN u
      BY <3>1, <1>1, <1>3 DEF u
    <3> QED BY <3>2 DEF ToSet
  <2> QED BY <1>5, <2>1, <2>2
<1>6. ToSet(s \o t) = ToSet(s) \cup ToSet(t)
  BY <1>4, <1>5 DEF u
<1> QED BY <1>1, <1>2, <1>3, <1>6

LEMMA DistinctJoined ==
    ASSUME NEW S, NEW s \in Seq(S), NEW t \in Seq(S), Distinct(s), Distinct(t), ToSet(s) \cap ToSet(t) = {}
    PROVE  Distinct(s \o t)
<1> DEFINE u == s \o t
<1>1. DOMAIN u = 1..(Len(s) + Len(t)) /\ Len(s) \in Nat /\ Len(t) \in Nat /\ DOMAIN s = 1..Len(s) /\ DOMAIN t = 1..Len(t)
  OBVIOUS
<1>2. \A i \in 1..Len(s) : u[i] = s[i]
  BY JoinedIs
<1>3. \A i \in 1..Len(t) : u[Len(s) + i] = t[i]
  BY JoinedIs
<1> HIDE DEF u
<1>4. \A i \in DOMAIN u : \/ i \in 1..Len(s) /\ u[i] = s[i] /\ u[i] \in ToSet(s)
                          \/ i \notin 1..Len(s) /\ i - Len(s) \in 1..Len(t) /\ u[i] = t[i - Len(s)] /\ u[i] \in ToSet(t)
  <2> SUFFICES ASSUME NEW i \in DOMAIN u
               PROVE  \/ i \in 1..Len(s) /\ u[i] = s[i] /\ u[i] \in ToSet(s)
                      \/ i \notin 1..Len(s) /\ i - Len(s) \in 1..Len(t) /\ u[i] = t[i - Len(s)] /\ u[i] \in ToSet(t)
    OBVIOUS
  <2>1. CASE i \in 1..Len(s)
    BY <2>1, <1>1, <1>2 DEF ToSet
  <2>2. CASE i \notin 1..Len(s)
    <3>1. i - Len(s) \in 1..Len(t) /\ Len(s) + (i - Len(s)) = i
      BY <2>2, <1>1
    <3>2. u[i] = t[i - Len(s)]
      BY <3>1, <1>3
    <3> QED BY <2>2, <3>1, <3>2, <1>1 DEF ToSet
  <2> QED BY <2>1, <2>2
<1>5. ASSUME NEW i \in DOMAIN u, NEW j \in DOMAIN u, u[i] = u[j] PROVE i = j
  <2>1. i \in 1..Len(s) <=> j \in 1..Len(s)
    BY <1>4, <1>5
  <2>2. CASE i \in 1..Len(s)
    <3>1. s[i] = s[j] /\ i \in DOMAIN s /\ j \in DOMAIN s
      BY <2>1, <2>2, <1>1, <1>4, <1>5
    <3> QED BY <3>1 DEF Distinct
  <2>3. CASE i \notin 1..Len(s)
    <3>1. t[i - Len(s)] = t[j - Len(s)] /\ i - Len(s) \in DOMAIN t /\ j - Len(s) \in DOMAIN t
      BY <2>1, <2>3, <1>1, <1>4, <1>5
    <3>2. i - Len(s) = j - Len(s)
      BY <3>1 DEF Distinct
    <3> QED BY <3>2, <1>1
  <2> QED BY <2>2, <2>3
<1> QED BY <1>5 DEF Distinct, u

-----------------------------------------------------------------------------
\* What is told step by step exists.

Iterated(t, F, b, m) == t = [k \in 0..m |-> IF k = 0 THEN b ELSE F[<<k, t[k - 1]>>]]

LEMMA Iterates ==
    ASSUME NEW X, NEW n \in Nat, NEW F \in [(1..n) \X X -> X], NEW b \in X
    PROVE  \E t \in [0..n -> X] : Iterated(t, F, b, n)
<1> DEFINE S == {m \in 0..n : \E t \in [0..m -> X] : Iterated(t, F, b, m)}
<1>1. 0 \in S
  <2> DEFINE t == [k \in 0..0 |-> b]
  <2>1. t = [k \in 0..0 |-> IF k = 0 THEN b ELSE F[<<k, t[k - 1]>>]] /\ t \in [0..0 -> X]
    OBVIOUS
  <2>2. Iterated(t, F, b, 0)
    BY <2>1 DEF Iterated
  <2> HIDE DEF t
  <2> QED BY <2>1, <2>2
<1>2. ASSUME NEW m \in 1..n, m - 1 \in S PROVE m \in S
  <2>1. PICK t \in [0..(m - 1) -> X] : Iterated(t, F, b, m - 1)
    BY <1>2
  <2> DEFINE u == [k \in 0..m |-> IF k = m THEN F[<<m, t[m - 1]>>] ELSE t[k]]
  <2>2. \A k \in 0..(m - 1) : u[k] = t[k]
    BY <1>2
  <2>3. \A k \in 0..(m - 1) : t[k] = IF k = 0 THEN b ELSE F[<<k, t[k - 1]>>]
    BY <2>1 DEF Iterated
  <2>4. ASSUME NEW k \in 0..m PROVE u[k] = IF k = 0 THEN b ELSE F[<<k, u[k - 1]>>]
    <3>1. k # 0 => u[k - 1] = t[k - 1]
      <4>1. k # 0 => k - 1 \in 0..(m - 1)
        BY <1>2
      <4> HIDE DEF u
      <4> QED BY <2>2, <4>1
    <3>2. CASE k = m
      <4>1. u[k] = F[<<k, t[k - 1]>>] /\ k # 0
        BY <3>2, <1>2
      <4> HIDE DEF u
      <4> QED BY <3>1, <4>1
    <3>3. CASE k # m
      <4>1. k \in 0..(m - 1)
        BY <3>3, <1>2
      <4> HIDE DEF u
      <4> QED BY <2>2, <2>3, <3>1, <4>1
    <3> QED BY <3>2, <3>3
  <2>5. u = [k \in 0..m |-> u[k]]
    OBVIOUS
  <2>6. u \in [0..m -> X]
    <3>1. m - 1 \in 0..(m - 1) /\ t[m - 1] \in X
      BY <1>2, <2>1
    <3>2. F[<<m, t[m - 1]>>] \in X
      BY <3>1
    <3>3. \A k \in 0..m : k # m => t[k] \in X
      BY <1>2, <2>1
    <3> QED BY <3>2, <3>3
  <2>7. Iterated(u, F, b, m)
    <3> HIDE DEF u
    <3> QED BY <2>4, <2>5 DEF Iterated
  <2> HIDE DEF u
  <2> QED BY <2>6, <2>7
<1>3. n \in S
  <2> HIDE DEF S
  <2> QED BY <1>1, <1>2, CountsUp
<1> QED BY <1>3

-----------------------------------------------------------------------------
(* Hacker News.  The extractor's walk is bound to the importer's: whatever else  *)
(* the importer fetches, a walk over its blob comes, within as many turns as the *)
(* items it fetched can list ids, to the stack and the comments it has now.      *)

WalkBegins(listed) == [todo |-> Reverse(listed[Story]), out |-> <<>>]
Walking(t, listed, held, m) ==
    t = [k \in 0..m |-> IF k = 0 THEN WalkBegins(listed) ELSE WalkOn(t[k - 1], listed, held)]

LEMMA WalkIs ==
    ASSUME NEW listed, NEW held, NEW n \in Nat
    PROVE  /\ Walk(listed, held, n)[0] = WalkBegins(listed)
           /\ \A k \in 1..n : Walk(listed, held, n)[k] = WalkOn(Walk(listed, held, n)[k - 1], listed, held)
<1> DEFINE S == {m \in 0..n : \E t : Walking(t, listed, held, m)}
<1>1. 0 \in S
  <2> DEFINE t == [k \in 0..0 |-> WalkBegins(listed)]
  <2>1. t = [k \in 0..0 |-> IF k = 0 THEN WalkBegins(listed) ELSE WalkOn(t[k - 1], listed, held)]
    OBVIOUS
  <2>2. Walking(t, listed, held, 0)
    BY <2>1 DEF Walking
  <2> HIDE DEF t
  <2> QED BY <2>2
<1>2. ASSUME NEW m \in 1..n, m - 1 \in S PROVE m \in S
  <2>1. PICK t : Walking(t, listed, held, m - 1)
    BY <1>2
  <2> DEFINE u == [k \in 0..m |-> IF k = m THEN WalkOn(t[m - 1], listed, held) ELSE t[k]]
  <2>2. \A k \in 0..(m - 1) : u[k] = t[k]
    BY <1>2
  <2>3. \A k \in 0..(m - 1) : t[k] = IF k = 0 THEN WalkBegins(listed) ELSE WalkOn(t[k - 1], listed, held)
    BY <2>1 DEF Walking
  <2>4. ASSUME NEW k \in 0..m
        PROVE  u[k] = IF k = 0 THEN WalkBegins(listed) ELSE WalkOn(u[k - 1], listed, held)
    <3>1. k # 0 => u[k - 1] = t[k - 1]
      <4>1. k # 0 => k - 1 \in 0..(m - 1)
        BY <1>2
      <4> HIDE DEF u
      <4> QED BY <2>2, <4>1
    <3>2. CASE k = m
      <4>1. u[k] = WalkOn(t[k - 1], listed, held) /\ k # 0
        BY <3>2, <1>2
      <4> HIDE DEF u
      <4> QED BY <3>1, <4>1
    <3>3. CASE k # m
      <4>1. k \in 0..(m - 1)
        BY <3>3, <1>2
      <4> HIDE DEF u
      <4> QED BY <2>2, <2>3, <3>1, <4>1
    <3> QED BY <3>2, <3>3
  <2>5. u = [k \in 0..m |-> u[k]]
    OBVIOUS
  <2>6. Walking(u, listed, held, m)
    <3> HIDE DEF u
    <3> QED BY <2>4, <2>5 DEF Walking
  <2> HIDE DEF u
  <2> QED BY <2>6
<1>3. n \in S
  <2> HIDE DEF S
  <2> QED BY <1>1, <1>2, CountsUp
<1>4. \E t : Walking(t, listed, held, n)
  BY <1>3
<1>5. Walk(listed, held, n) = CHOOSE t : Walking(t, listed, held, n)
  BY Zenon DEF Walk, Walking, WalkBegins
<1>6. Walking(Walk(listed, held, n), listed, held, n)
  BY <1>4, <1>5
<1> QED BY <1>6 DEF Walking

Ids == Comment \cup {Story}

\* Whatever the turns it is given, a walk is there after k of them.
Reaches(listed, held, k, w) == \A n \in Nat : n >= k => Walk(listed, held, n)[k] = w
\* A walk comes to these ids to visit and these comments visited.
ComesTo(listed, held, todo, out) ==
    \E k \in Nat :
        /\ k + Len(todo) <= MaxKids * (Len(out) + 1)
        /\ Reaches(listed, held, k, [todo |-> todo, out |-> out])

LEMMA OneTurn ==
    ASSUME NEW listed, NEW held, NEW w, NEW k \in Nat, Reaches(listed, held, k, w)
    PROVE  Reaches(listed, held, k + 1, WalkOn(w, listed, held))
<1> SUFFICES ASSUME NEW n \in Nat, n >= k + 1
             PROVE  Walk(listed, held, n)[k + 1] = WalkOn(w, listed, held)
  BY DEF Reaches
<1>1. \A j \in 1..n : Walk(listed, held, n)[j] = WalkOn(Walk(listed, held, n)[j - 1], listed, held)
  BY WalkIs
<1>2. k + 1 \in 1..n /\ (k + 1) - 1 = k /\ n >= k
  OBVIOUS
<1>3. Walk(listed, held, n)[k] = w
  BY <1>2 DEF Reaches
<1> QED BY <1>1, <1>2, <1>3

LEMMA PassedOver ==
    ASSUME NEW listed, NEW held, NEW todo \in Seq(Ids), NEW out \in Seq(Comment), todo # <<>>,
           ComesTo(listed, held, todo, out), Last(todo) \notin held \/ Last(todo) \in ToSet(out)
    PROVE  ComesTo(listed, held, Front(todo), out)
<1>1. PICK k \in Nat :
        /\ k + Len(todo) <= MaxKids * (Len(out) + 1)
        /\ Reaches(listed, held, k, [todo |-> todo, out |-> out])
  BY DEF ComesTo
<1>2. Reaches(listed, held, k + 1, WalkOn([todo |-> todo, out |-> out], listed, held))
  BY <1>1, OneTurn
<1>3. WalkOn([todo |-> todo, out |-> out], listed, held) = [todo |-> Front(todo), out |-> out]
  BY DEF WalkOn
<1> DEFINE f == Front(todo)
<1>4. Len(f) = Len(todo) - 1 /\ Len(todo) \in Nat
  BY FrontIs
<1> HIDE DEF f
<1>5. (k + 1) + Len(f) = k + Len(todo) /\ k + 1 \in Nat
  BY <1>4
<1>6. ComesTo(listed, held, f, out)
  BY <1>1, <1>2, <1>3, <1>5 DEF ComesTo, f
<1> QED BY <1>6 DEF f

LEMMA TakenUp ==
    ASSUME NEW listed \in [Ids -> Kids], NEW held, NEW todo \in Seq(Ids), NEW out \in Seq(Comment), todo # <<>>,
           ComesTo(listed, held, todo, out), Last(todo) \in held, Last(todo) \notin ToSet(out)
    PROVE  ComesTo(listed, held, Front(todo) \o Reverse(listed[Last(todo)]), Append(out, Last(todo)))
<1> DEFINE id == Last(todo)
           more == Front(todo) \o Reverse(listed[id])
<1>1. PICK k \in Nat :
        /\ k + Len(todo) <= MaxKids * (Len(out) + 1)
        /\ Reaches(listed, held, k, [todo |-> todo, out |-> out])
  BY DEF ComesTo
<1>2. Reaches(listed, held, k + 1, WalkOn([todo |-> todo, out |-> out], listed, held))
  BY <1>1, OneTurn
<1>3. WalkOn([todo |-> todo, out |-> out], listed, held) = [todo |-> more, out |-> Append(out, id)]
  BY DEF WalkOn
<1>4. Len(Front(todo)) = Len(todo) - 1 /\ Len(todo) \in Nat /\ Front(todo) \in Seq(Ids) /\ id \in Ids
  BY FrontIs, LastIsIn
<1>5. listed[id] \in Seq(Ids) /\ Len(listed[id]) <= MaxKids /\ MaxKids \in Nat
  <2>1. listed[id] \in Kids
    BY <1>4
  <2> QED BY <2>1, HackerNewsAssumption DEF Ids
<1>6. Reverse(listed[id]) \in Seq(Ids) /\ Len(Reverse(listed[id])) = Len(listed[id])
  <2> HIDE DEF id
  <2> QED BY <1>5, ReverseIs
<1>7. Len(more) = Len(todo) - 1 + Len(listed[id]) /\ Len(listed[id]) \in Nat
  <2> DEFINE f == Front(todo)
             r == Reverse(listed[id])
  <2>1. f \in Seq(Ids) /\ r \in Seq(Ids) /\ Len(r) = Len(listed[id]) /\ Len(f) = Len(todo) - 1
    BY <1>4, <1>6
  <2>2. more = f \o r
    OBVIOUS
  <2> HIDE DEF f, r, more, id
  <2> QED BY <2>1, <2>2
<1>8. Len(Append(out, id)) = Len(out) + 1 /\ Len(out) \in Nat
  OBVIOUS
<1>9. MaxKids * ((Len(out) + 1) + 1) = MaxKids * (Len(out) + 1) + MaxKids
  BY <1>5, <1>8
<1>10. (k + 1) + Len(more) <= MaxKids * (Len(Append(out, id)) + 1)
  <2> DEFINE a == MaxKids * (Len(out) + 1)
  <2>1. a \in Nat
    BY <1>5, <1>8
  <2>2. MaxKids * (Len(Append(out, id)) + 1) = a + MaxKids
    BY <1>8, <1>9
  <2>3. k + Len(todo) <= a
    BY <1>1
  <2> HIDE DEF a, id, more
  <2> QED BY <2>1, <2>2, <2>3, <1>5, <1>7, <1>4
<1> HIDE DEF more, id
<1>11. ComesTo(listed, held, more, Append(out, id))
  BY <1>1, <1>2, <1>3, <1>10 DEF ComesTo
<1> QED BY <1>11 DEF more, id

\* Over the comments it has visited a walk finds nothing more.
LEMMA NothingMore ==
    ASSUME NEW listed, NEW todo \in Seq(Ids), NEW out \in Seq(Comment),
           ComesTo(listed, ToSet(out), todo, out)
    PROVE  Walk(listed, ToSet(out), MaxKids * (Len(out) + 1))[MaxKids * (Len(out) + 1)].out = out
<1> DEFINE N == MaxKids * (Len(out) + 1)
           held == ToSet(out)
<1>1. PICK k \in Nat :
        /\ k + Len(todo) <= MaxKids * (Len(out) + 1)
        /\ Reaches(listed, held, k, [todo |-> todo, out |-> out])
  BY DEF ComesTo
<1>2. N \in Nat /\ k <= N /\ N - k \in Nat
  <2>1. Len(out) \in Nat /\ MaxKids \in Nat /\ Len(todo) \in Nat
    BY HackerNewsAssumption
  <2>2. N \in Nat
    BY <2>1
  <2> HIDE DEF N
  <2>3. k + Len(todo) <= N
    BY <1>1 DEF N
  <2> QED BY <2>1, <2>2, <2>3
<1> DEFINE S == {j \in 0..(N - k) : \E rest \in Seq(Ids) : Walk(listed, held, N)[k + j] = [todo |-> rest, out |-> out]}
<1> HIDE DEF N, held
<1>3. 0 \in S
  <2>1. Walk(listed, held, N)[k] = [todo |-> todo, out |-> out] /\ k + 0 = k
    BY <1>1, <1>2 DEF Reaches
  <2> QED BY <2>1, <1>2
<1>4. ASSUME NEW j \in 1..(N - k), j - 1 \in S PROVE j \in S
  <2>1. PICK rest \in Seq(Ids) : Walk(listed, held, N)[k + (j - 1)] = [todo |-> rest, out |-> out]
    BY <1>4
  <2>2. \A i \in 1..N : Walk(listed, held, N)[i] = WalkOn(Walk(listed, held, N)[i - 1], listed, held)
    BY WalkIs, <1>2
  <2>3. k + j \in 1..N /\ (k + j) - 1 = k + (j - 1)
    BY <1>2
  <2>4. Walk(listed, held, N)[k + j] = WalkOn([todo |-> rest, out |-> out], listed, held)
    BY <2>1, <2>2, <2>3
  <2>5. \E r \in Seq(Ids) : WalkOn([todo |-> rest, out |-> out], listed, held) = [todo |-> r, out |-> out]
    <3>1. CASE rest = <<>>
      BY <3>1 DEF WalkOn
    <3>2. CASE rest # <<>>
      <4>1. WalkOn([todo |-> rest, out |-> out], listed, held) = [todo |-> Front(rest), out |-> out]
        BY <3>2 DEF WalkOn, held
      <4>2. Front(rest) \in Seq(Ids)
        BY <3>2, FrontIs
      <4> QED BY <4>1, <4>2
    <3> QED BY <3>1, <3>2
  <2> QED BY <2>4, <2>5
<1>5. N - k \in S
  <2>1. \A i \in 0..(N - k) : i \in S
    <3> HIDE DEF S
    <3> QED BY <1>2, <1>3, <1>4, CountsUp
  <2>2. N - k \in 0..(N - k)
    BY <1>2
  <2> HIDE DEF S
  <2> QED BY <2>1, <2>2
<1>6. Walk(listed, held, N)[N].out = out
  <2>1. k + (N - k) = N
    BY <1>2
  <2>2. PICK rest \in Seq(Ids) : Walk(listed, held, N)[k + (N - k)] = [todo |-> rest, out |-> out]
    BY <1>5
  <2>3. Walk(listed, held, N)[N] = [todo |-> rest, out |-> out]
    BY <2>1, <2>2
  <2> QED BY <2>3
<1> QED BY <1>6 DEF N, held

HNTypes ==
    /\ kids \in [Ids -> Kids] /\ stack \in Seq(Ids) /\ captured \in Seq(Comment)
    /\ visited \subseteq Ids /\ Story \in visited /\ ToSet(captured) \subseteq visited \ {Story}
\* A blob that goes on from what the importer has seen: of the comments it has been to it holds
\* the captured, and their kids are those it was told of.
Faithful(listed, held) ==
    /\ held \subseteq Comment /\ held \cap visited = ToSet(captured)
    /\ listed \in [Ids -> Kids] /\ \A i \in ToSet(captured) \cup {Story} : listed[i] = kids[i]
WalksKeepUp == \A listed, held : Faithful(listed, held) => ComesTo(listed, held, stack, captured)

HNInv == HNTypes /\ WalksKeepUp

LEMMA HNBegins == ASSUME HNInit PROVE HNInv
<1>1. PICK told \in Kids :
          /\ kids = [i \in Comment \cup {Story} |-> IF i = Story THEN told ELSE <<>>]
          /\ stack = Reverse(told)
  BY DEF HNInit
<1>2. told \in Seq(Ids) /\ Len(told) <= MaxKids /\ <<>> \in Kids /\ MaxKids \in Nat
  BY HackerNewsAssumption DEF Ids
<1>3. stack \in Seq(Ids) /\ Len(stack) = Len(told)
  BY <1>1, <1>2, ReverseIs
<1>4. kids \in [Ids -> Kids] /\ kids[Story] = told
  BY <1>1, <1>2 DEF Ids
<1>5. HNTypes
  <2>1. captured = <<>> /\ visited = {Story}
    BY DEF HNInit
  <2>2. ToSet(captured) = {}
    BY <2>1 DEF ToSet
  <2> QED BY <1>3, <1>4, <2>1, <2>2 DEF HNTypes, Ids
<1>6. ASSUME NEW listed, NEW held, Faithful(listed, held) PROVE ComesTo(listed, held, stack, captured)
  <2>1. listed[Story] = told
    BY <1>4, <1>6 DEF Faithful
  <2>2. \A n \in Nat : Walk(listed, held, n)[0] = WalkBegins(listed)
    BY WalkIs
  <2>3. WalkBegins(listed) = [todo |-> stack, out |-> captured]
    BY <2>1, <1>1 DEF WalkBegins, HNInit
  <2>4. 0 + Len(stack) <= MaxKids * (Len(captured) + 1)
    <3>1. captured = <<>> /\ Len(captured) = 0
      BY DEF HNInit
    <3>2. MaxKids * (Len(captured) + 1) = MaxKids
      BY <3>1, <1>2
    <3> QED BY <3>2, <1>2, <1>3
  <2> QED BY <2>2, <2>3, <2>4 DEF ComesTo, Reaches
<1> QED BY <1>5, <1>6 DEF HNInv, WalksKeepUp

LEMMA HNStays == ASSUME HNInv, UNCHANGED hn PROVE HNInv'
BY DEF HNInv, HNTypes, WalksKeepUp, Faithful, hn

LEMMA FetchKeepsUp ==
    ASSUME HNInv, NEW answer \in Nature, NEW told \in Kids, FetchItem(answer, told) PROVE HNInv'
<1> DEFINE id == Last(stack)
<1>1. /\ stack \in Seq(Ids) /\ stack # <<>> /\ captured \in Seq(Comment) /\ kids \in [Ids -> Kids]
      /\ visited \subseteq Ids /\ Story \in visited /\ ToSet(captured) \subseteq visited \ {Story}
  BY DEF HNInv, HNTypes, FetchItem
<1>2. id \in Ids /\ id \notin visited /\ id \in Comment /\ id \notin ToSet(captured) /\ id # Story
  <2>1. id \in Ids
    BY <1>1, LastIsIn
  <2>2. id \notin visited
    BY DEF FetchItem
  <2> HIDE DEF id
  <2> QED BY <1>1, <2>1, <2>2 DEF Ids
<1>3. /\ visited' = visited \cup {id} /\ kids' = [kids EXCEPT ![id] = told]
      /\ \/ stack' = Front(stack) /\ captured' = captured
         \/ stack' = Front(stack) \o Reverse(told) /\ captured' = Append(captured, id)
  BY DEF FetchItem, Push
<1>4. Front(stack) \in Seq(Ids)
  BY <1>1, FrontIs
<1>5. told \in Seq(Ids)
  BY HackerNewsAssumption DEF Ids
<1>6. Reverse(told) \in Seq(Ids)
  BY <1>5, ReverseIs
<1> HIDE DEF id
<1>7. kids' \in [Ids -> Kids] /\ kids'[id] = told /\ \A i \in Ids \ {id} : kids'[i] = kids[i]
  BY <1>1, <1>2, <1>3
<1>8. ToSet(Append(captured, id)) = ToSet(captured) \cup {id}
  BY <1>1, InAppended
<1>9. HNTypes'
  <2>1. Front(stack) \o Reverse(told) \in Seq(Ids) /\ Append(captured, id) \in Seq(Comment)
    BY <1>1, <1>2, <1>4, <1>6
  <2>2. stack' \in Seq(Ids) /\ captured' \in Seq(Comment)
    <3>1. CASE stack' = Front(stack) /\ captured' = captured
      BY <3>1, <1>1, <1>4
    <3>2. CASE stack' = Front(stack) \o Reverse(told) /\ captured' = Append(captured, id)
      BY <3>2, <2>1
    <3> QED BY <1>3, <3>1, <3>2
  <2>3. ToSet(captured)' = ToSet(captured) \/ ToSet(captured)' = ToSet(captured) \cup {id}
    BY <1>3, <1>8
  <2> QED BY <1>1, <1>2, <1>3, <1>7, <2>2, <2>3 DEF HNTypes
<1>10. ASSUME NEW listed, NEW held, Faithful(listed, held)' PROVE ComesTo(listed, held, stack, captured)'
  <2>1. /\ held \subseteq Comment /\ held \cap (visited \cup {id}) = ToSet(captured)'
        /\ listed \in [Ids -> Kids] /\ \A i \in ToSet(captured)' \cup {Story} : listed[i] = kids'[i]
    BY <1>3, <1>10 DEF Faithful
  <2>2. held \cap visited = ToSet(captured)
    <3>1. CASE captured' = captured
      BY <3>1, <2>1, <1>1, <1>2
    <3>2. CASE captured' = Append(captured, id)
      BY <3>2, <2>1, <1>1, <1>2, <1>8
    <3> QED BY <1>3, <3>1, <3>2
  <2>3. \A i \in ToSet(captured) \cup {Story} : i \in ToSet(captured)' \cup {Story} /\ i \in Ids \ {id}
    <3>1. ToSet(captured)' = ToSet(captured) \/ ToSet(captured)' = ToSet(captured) \cup {id}
      BY <1>3, <1>8
    <3> QED BY <3>1, <1>1, <1>2
  <2>4. Faithful(listed, held)
    BY <2>1, <2>2, <2>3, <1>7 DEF Faithful
  <2>5. ComesTo(listed, held, stack, captured)
    BY <2>4 DEF HNInv, WalksKeepUp
  <2>6. CASE stack' = Front(stack) /\ captured' = captured
    <3>1. id \notin held
      BY <2>6, <2>1, <1>2
    <3>2. ComesTo(listed, held, Front(stack), captured)
      BY <3>1, <2>5, <1>1, PassedOver DEF id
    <3> QED BY <3>2, <2>6
  <2>7. CASE stack' = Front(stack) \o Reverse(told) /\ captured' = Append(captured, id)
    <3>1. id \in ToSet(captured)'
      BY <2>7, <1>8
    <3>2. id \in held /\ listed[id] = told
      BY <3>1, <2>1, <1>7
    <3>3. ComesTo(listed, held, Front(stack) \o Reverse(listed[id]), Append(captured, id))
      BY <3>2, <2>1, <2>5, <1>1, <1>2, TakenUp DEF id
    <3> QED BY <3>2, <3>3, <2>7
  <2> QED BY <1>3, <2>6, <2>7
<1> QED BY <1>9, <1>10 DEF HNInv, WalksKeepUp

LEMMA SkipKeepsUp == ASSUME HNInv, SkipItem PROVE HNInv'
<1>1. /\ stack \in Seq(Ids) /\ stack # <<>> /\ captured \in Seq(Comment) /\ Last(stack) \in visited
      /\ stack' = Front(stack) /\ UNCHANGED <<kids, nature, visited, captured, fetches, at>>
  BY DEF HNInv, HNTypes, SkipItem
<1>2. Front(stack) \in Seq(Ids)
  BY <1>1, FrontIs
<1>3. HNTypes'
  BY <1>1, <1>2 DEF HNInv, HNTypes
<1>4. ASSUME NEW listed, NEW held, Faithful(listed, held)' PROVE ComesTo(listed, held, stack, captured)'
  <2>1. Faithful(listed, held)
    BY <1>1, <1>4 DEF Faithful
  <2>2. ComesTo(listed, held, stack, captured)
    BY <2>1 DEF HNInv, WalksKeepUp
  <2>3. Last(stack) \notin held \/ Last(stack) \in ToSet(captured)
    BY <2>1, <1>1 DEF Faithful
  <2>4. ComesTo(listed, held, Front(stack), captured)
    BY <2>2, <2>3, <1>1, PassedOver
  <2> QED BY <1>1, <2>4
<1> QED BY <1>3, <1>4 DEF HNInv, WalksKeepUp

LEMMA HNKeeps == ASSUME HNInv, HNNext PROVE HNInv'
<1>1. ASSUME NEW answer \in Nature, NEW told \in Kids, FetchItem(answer, told) PROVE HNInv'
  BY <1>1, FetchKeepsUp
<1>2. CASE SkipItem
  BY <1>2, SkipKeepsUp
<1>3. CASE FetchFails \/ Store
  BY <1>3 DEF FetchFails, Store, HNInv, HNTypes, WalksKeepUp, Faithful
<1> QED BY <1>1, <1>2, <1>3 DEF HNNext

LEMMA HNAgrees == ASSUME HNInv PROVE RenderedAsFetched
<1>1. Faithful(kids, ToSet(captured))
  BY HackerNewsAssumption DEF Faithful, HNInv, HNTypes, Ids
<1>2. ComesTo(kids, ToSet(captured), stack, captured) /\ stack \in Seq(Ids) /\ captured \in Seq(Comment)
  BY <1>1 DEF HNInv, HNTypes, WalksKeepUp
<1>3. Visited = captured
  BY <1>2, NothingMore DEF Visited, Turns
<1> QED BY <1>3 DEF RenderedAsFetched, Rendering

-----------------------------------------------------------------------------
(* Reddit.  The walk takes up every comment: those it has yielded or queued are  *)
(* the answers to the post and to those it has yielded, each once.               *)

BreadthInv(w) ==
    /\ w.queue \in Seq(Thread) /\ w.out \in Seq(Thread)
    /\ Distinct(w.queue) /\ Distinct(w.out) /\ ToSet(w.queue) \cap ToSet(w.out) = {}
    /\ \A c \in Thread : c \in ToSet(w.queue) \cup ToSet(w.out) <=> parent[c] \in ToSet(w.out) \cup {0}
BreadthStates == {w \in [queue : Seq(Thread), out : Seq(Thread)] : BreadthInv(w)}
BreadthBegins == [queue |-> RepliesTo(0), out |-> <<>>]

Answers(n) ==
    /\ n \in Nat /\ parent \in [1..n -> 0..n] /\ Len(parent) = n /\ Thread = 1..n
    /\ \A c \in 1..n : parent[c] < c

LEMMA RepliesAre ==
    ASSUME NEW n, Answers(n), NEW p
    PROVE  /\ RepliesTo(p) \in Seq(Thread) /\ Distinct(RepliesTo(p))
           /\ ToSet(RepliesTo(p)) = {c \in Thread : parent[c] = p}
<1> DEFINE S == {c \in Thread : parent[c] = p}
<1>1. S \in SUBSET Thread /\ Thread = 1..n /\ n \in Nat
  BY DEF Answers
<1>2. IsFiniteSet(1..n)
  BY <1>1, FS_Interval
<1>3. IsFiniteSet(S) /\ S \in SUBSET Nat
  BY <1>1, <1>2, FS_Subset
<1>4. RepliesTo(p) = InTurn(S)
  BY Zenon DEF RepliesTo
<1> HIDE DEF S
<1>5. InTurn(S) \in Seq(S) /\ ToSet(InTurn(S)) = S /\ Distinct(InTurn(S))
  BY <1>3, InTurnIs
<1>6. InTurn(S) \in Seq(Thread)
  <2> DEFINE q == InTurn(S)
  <2> HIDE DEF q
  <2>1. q \in Seq(S)
    BY <1>5 DEF q
  <2>2. \A i \in 1..Len(q) : q[i] \in Thread
    <3>1. \A i \in 1..Len(q) : q[i] \in S
      BY <2>1
    <3> QED BY <3>1, <1>1
  <2>3. q = [i \in 1..Len(q) |-> q[i]] /\ Len(q) \in Nat
    BY <2>1
  <2>4. q \in Seq(Thread)
    BY <2>2, <2>3
  <2> QED BY <2>4 DEF q
<1> QED BY <1>4, <1>5, <1>6 DEF S

LEMMA BreadthStarts == ASSUME NEW n, Answers(n) PROVE BreadthBegins \in BreadthStates
<1> DEFINE w == BreadthBegins
<1>1. w.queue = RepliesTo(0) /\ w.out = <<>> /\ w = [queue |-> w.queue, out |-> w.out]
  BY DEF BreadthBegins
<1>2. ToSet(<<>>) = {} /\ Distinct(<<>>)
  BY DEF ToSet, Distinct
<1>3. /\ RepliesTo(0) \in Seq(Thread) /\ Distinct(RepliesTo(0))
      /\ ToSet(RepliesTo(0)) = {c \in Thread : parent[c] = 0}
  BY RepliesAre
<1> HIDE DEF w
<1>4. w.out \in Seq(Thread)
  BY <1>1
<1>5. BreadthInv(w)
  BY <1>1, <1>2, <1>3, <1>4 DEF BreadthInv
<1>6. w \in [queue : Seq(Thread), out : Seq(Thread)]
  BY <1>1, <1>3, <1>4
<1> QED BY <1>5, <1>6 DEF BreadthStates, w

LEMMA BreadthGoesOn ==
    ASSUME NEW n, Answers(n), NEW w \in BreadthStates
    PROVE  BreadthOn(w) \in BreadthStates
           /\ (w.queue # <<>> => Len(BreadthOn(w).out) = Len(w.out) + 1)
<1>1. w.queue \in Seq(Thread) /\ w.out \in Seq(Thread) /\ BreadthInv(w)
  BY DEF BreadthStates
<1>2. CASE w.queue = <<>>
  BY <1>2 DEF BreadthOn
<1>3. CASE w.queue # <<>>
  <2> DEFINE q == w.queue
             o == w.out
             h == Head(q)
             r == RepliesTo(h)
             q2 == Tail(q) \o r
             o2 == Append(o, h)
             v == [queue |-> q2, out |-> o2]
  <2>1. BreadthOn(w) = v
    BY <1>3 DEF BreadthOn
  <2>2. q \in Seq(Thread) /\ o \in Seq(Thread) /\ Distinct(q) /\ Distinct(o) /\ ToSet(q) \cap ToSet(o) = {} /\ q # <<>>
    BY <1>1, <1>3 DEF BreadthInv
  <2>3. \A c \in Thread : c \in ToSet(q) \cup ToSet(o) <=> parent[c] \in ToSet(o) \cup {0}
    BY <1>1 DEF BreadthInv
  <2> HIDE DEF q, o
  <2>4. h \in ToSet(q) /\ h \in Thread /\ Tail(q) \in Seq(Thread) /\ Distinct(Tail(q))
        /\ ToSet(Tail(q)) = ToSet(q) \ {h}
    BY <2>2, HeadOff
  <2>5. r \in Seq(Thread) /\ Distinct(r) /\ ToSet(r) = {c \in Thread : parent[c] = h}
    BY RepliesAre
  <2>6. h # 0 /\ h \notin ToSet(o)
    BY <2>2, <2>4 DEF Answers
  <2>7. ToSet(o2) = ToSet(o) \cup {h} /\ o2 \in Seq(Thread) /\ Len(o2) = Len(o) + 1
    BY <2>2, <2>4, InAppended
  <2>8. Distinct(o2)
    <3>1. \A i \in 1..Len(o) : o2[i] = o[i] /\ o2[i] \in ToSet(o)
      BY <2>2 DEF ToSet
    <3>2. o2[Len(o) + 1] = h /\ DOMAIN o2 = 1..(Len(o) + 1) /\ DOMAIN o = 1..Len(o)
      BY <2>2
    <3>3. \A i \in DOMAIN o2 : i \in 1..Len(o) \/ i = Len(o) + 1
      BY <3>2, <2>2
    <3> HIDE DEF o2, h
    <3>4. ASSUME NEW i \in DOMAIN o2, NEW j \in DOMAIN o2, o2[i] = o2[j] PROVE i = j
      <4>1. CASE i \in 1..Len(o) /\ j \in 1..Len(o)
        BY <4>1, <3>1, <3>2, <3>4, <2>2 DEF Distinct
      <4>2. CASE i = Len(o) + 1 \/ j = Len(o) + 1
        BY <4>2, <3>1, <3>2, <3>3, <3>4, <2>6
      <4> QED BY <3>3, <4>1, <4>2
    <3> QED BY <3>4 DEF Distinct
  <2> HIDE DEF h, r
  <2>9. ToSet(Tail(q)) \cap ToSet(r) = {}
    <3> SUFFICES ASSUME NEW c \in ToSet(Tail(q)), c \in ToSet(r) PROVE FALSE
      OBVIOUS
    <3>1. c \in ToSet(q) /\ c \in Thread /\ parent[c] = h
      BY <2>4, <2>5
    <3> QED BY <3>1, <2>3, <2>6
  <2>10. q2 \in Seq(Thread) /\ ToSet(q2) = ToSet(Tail(q)) \cup ToSet(r)
    <3> DEFINE t == Tail(q)
    <3>1. t \in Seq(Thread)
      BY <2>4
    <3> HIDE DEF t
    <3>2. t \o r \in Seq(Thread) /\ ToSet(t \o r) = ToSet(t) \cup ToSet(r)
      BY <2>5, <3>1, JoinedIs
    <3> QED BY <3>2 DEF t
  <2>11. Distinct(q2)
    BY <2>4, <2>5, <2>9, DistinctJoined
  <2> HIDE DEF q2, o2
  <2>12. ToSet(q2) \cap ToSet(o2) = {}
    <3> SUFFICES ASSUME NEW c \in ToSet(q2), c \in ToSet(o2) PROVE FALSE
      OBVIOUS
    <3>1. CASE c \in ToSet(q) /\ c # h
      BY <3>1, <2>2, <2>7
    <3>2. CASE c \in ToSet(r)
      <4>1. c \in Thread /\ parent[c] = h
        BY <3>2, <2>5
      <4>2. c \notin ToSet(q) \cup ToSet(o)
        BY <4>1, <2>3, <2>6
      <4> QED BY <4>2, <2>4, <2>7
    <3> QED BY <3>1, <3>2, <2>4, <2>10
  <2>13. ASSUME NEW c \in Thread
         PROVE  c \in ToSet(q2) \cup ToSet(o2) <=> parent[c] \in ToSet(o2) \cup {0}
    BY <2>3, <2>4, <2>5, <2>7, <2>10
  <2>14. v.queue = q2 /\ v.out = o2 /\ v \in [queue : Seq(Thread), out : Seq(Thread)]
    BY <2>7, <2>10
  <2> HIDE DEF v
  <2>15. BreadthInv(v)
    BY <2>7, <2>8, <2>10, <2>11, <2>12, <2>13, <2>14 DEF BreadthInv
  <2> QED BY <2>1, <2>7, <2>14, <2>15 DEF BreadthStates, o
<1> QED BY <1>2, <1>3

Breadths(t) == t = [k \in 0..Len(parent) |-> IF k = 0 THEN BreadthBegins ELSE BreadthOn(t[k - 1])]

LEMMA BreadthIs ==
    ASSUME NEW n, Answers(n)
    PROVE  Breadth[0] = BreadthBegins /\ \A k \in 1..n : Breadth[k] = BreadthOn(Breadth[k - 1])
<1> DEFINE X == BreadthStates
           F == [p \in (1..n) \X X |-> BreadthOn(p[2])]
<1>1. n \in Nat /\ Len(parent) = n /\ BreadthBegins \in X
  BY BreadthStarts DEF Answers
<1>2. F \in [(1..n) \X X -> X]
  <2>1. \A w \in X : BreadthOn(w) \in X
    BY BreadthGoesOn
  <2> HIDE DEF X
  <2> QED BY <2>1
<1>3. \A k \in 1..n, w \in X : F[<<k, w>>] = BreadthOn(w)
  <2> HIDE DEF X
  <2> QED OBVIOUS
<1> HIDE DEF X, F
<1>4. PICK t \in [0..n -> X] : Iterated(t, F, BreadthBegins, n)
  BY <1>1, <1>2, Iterates
<1>5. t = [k \in 0..n |-> IF k = 0 THEN BreadthBegins ELSE BreadthOn(t[k - 1])]
  <2>1. t = [k \in 0..n |-> IF k = 0 THEN BreadthBegins ELSE F[<<k, t[k - 1]>>]]
    BY <1>4 DEF Iterated
  <2>2. \A k \in 0..n : k # 0 => F[<<k, t[k - 1]>>] = BreadthOn(t[k - 1])
    <3>1. \A k \in 0..n : k # 0 => k \in 1..n /\ t[k - 1] \in X
      BY <1>1
    <3> QED BY <3>1, <1>3
  <2> QED BY <2>1, <2>2
<1>6. Breadths(t)
  BY <1>1, <1>5 DEF Breadths
<1>7. Breadth = CHOOSE u : Breadths(u)
  BY Zenon DEF Breadth, Breadths, BreadthBegins
<1>8. Breadths(Breadth)
  BY <1>6, <1>7
<1> QED BY <1>1, <1>8 DEF Breadths

\* Every comment of the thread is walked, once.
LEMMA AllWalked ==
    ASSUME NEW n, Answers(n)
    PROVE  Comments \in Seq(Thread) /\ Distinct(Comments) /\ ToSet(Comments) = Thread
<1>1. n \in Nat /\ Len(parent) = n /\ Thread = 1..n
  BY DEF Answers
<1>2. Breadth[0] = BreadthBegins
  BY BreadthIs
<1>3. \A k \in 1..n : Breadth[k] = BreadthOn(Breadth[k - 1])
  BY BreadthIs
<1> DEFINE S == {k \in 0..n : /\ Breadth[k] \in BreadthStates
                              /\ Breadth[k].queue # <<>> => Len(Breadth[k].out) = k}
<1>4. 0 \in S
  <2>1. Breadth[0] \in BreadthStates
    BY <1>2, BreadthStarts
  <2>2. Breadth[0].out = <<>>
    BY <1>2 DEF BreadthBegins
  <2>3. Len(Breadth[0].out) = 0
    BY <2>2
  <2> QED BY <1>1, <2>1, <2>3
<1>5. ASSUME NEW k \in 1..n, k - 1 \in S PROVE k \in S
  <2> DEFINE w == Breadth[k - 1]
  <2>1. w \in BreadthStates /\ (w.queue # <<>> => Len(w.out) = k - 1) /\ Breadth[k] = BreadthOn(w)
    BY <1>3, <1>5
  <2> HIDE DEF w
  <2>2. BreadthOn(w) \in BreadthStates
    BY <2>1, BreadthGoesOn
  <2>3. w.queue # <<>> => Len(BreadthOn(w).out) = k
    <3>1. w.queue # <<>> => Len(BreadthOn(w).out) = Len(w.out) + 1
      BY <2>1, BreadthGoesOn
    <3> QED BY <2>1, <3>1
  <2>4. w.queue = <<>> => BreadthOn(w).queue = <<>>
    BY DEF BreadthOn
  <2> QED BY <2>1, <2>2, <2>3, <2>4
<1>6. n \in S
  <2>1. \A k \in 0..n : k \in S
    <3> HIDE DEF S
    <3> QED BY <1>1, <1>4, <1>5, CountsUp
  <2>2. n \in 0..n
    BY <1>1
  <2> HIDE DEF S
  <2> QED BY <2>1, <2>2
<1> DEFINE w == Breadth[n]
           q == w.queue
           o == w.out
<1>7. w \in BreadthStates /\ (q # <<>> => Len(o) = n) /\ Comments = o
  BY <1>1, <1>6 DEF Comments
<1>8. /\ q \in Seq(Thread) /\ o \in Seq(Thread) /\ Distinct(o) /\ ToSet(q) \cap ToSet(o) = {}
      /\ \A c \in Thread : c \in ToSet(q) \cup ToSet(o) <=> parent[c] \in ToSet(o) \cup {0}
  BY <1>7 DEF BreadthStates, BreadthInv
<1> HIDE DEF w, q, o
<1>9. ASSUME q # <<>> PROVE FALSE
  <2>1. Len(o) = n
    BY <1>7, <1>9
  <2>2. o \in [1..n -> 1..n] /\ \A i, j \in 1..n : o[i] = o[j] => i = j
    <3>1. DOMAIN o = 1..n /\ (\A i \in 1..n : o[i] \in Thread) /\ o = [i \in 1..n |-> o[i]]
      BY <1>8, <2>1
    <3> QED BY <3>1, <1>1, <1>8 DEF Distinct
  <2>3. o \in Injection(1..n, 1..n)
    BY <2>2 DEF Injection, IsInjective
  <2>4. IsFiniteSet(1..n)
    BY <1>1, FS_Interval
  <2>5. o \in Surjection(1..n, 1..n)
    BY <2>3, <2>4, FS_Injection
  <2>6. \A c \in 1..n : \E i \in 1..n : o[i] = c
    BY <2>5 DEF Surjection
  <2>7. q[1] \in 1..n /\ q[1] \in ToSet(q)
    BY <1>1, <1>8, <1>9 DEF ToSet
  <2>8. q[1] \in ToSet(o)
    BY <2>2, <2>6, <2>7 DEF ToSet
  <2> QED BY <1>8, <2>7, <2>8
<1>10. \A c \in Thread : parent[c] \in ToSet(o) \cup {0} => c \in ToSet(o)
  <2>1. ToSet(q) = {}
    BY <1>9 DEF ToSet
  <2> QED BY <1>8, <2>1
<1>11. ASSUME NEW c \in Thread, c \notin ToSet(o) PROVE FALSE
  <2> DEFINE U == {d \in Thread : d \notin ToSet(o)}
  <2>1. U \in SUBSET Nat /\ U # {}
    BY <1>1, <1>11
  <2>2. PICK d \in U : \A e \in U : d <= e
    <3> HIDE DEF U
    <3> QED BY <2>1, LeastOf
  <2>3. d \in 1..n /\ parent[d] \in 0..n /\ parent[d] < d
    BY <1>1, <2>2 DEF Answers
  <2>4. parent[d] \notin ToSet(o) /\ parent[d] # 0
    BY <1>10, <2>2
  <2>5. parent[d] \in U
    BY <1>1, <2>3, <2>4
  <2> QED BY <2>2, <2>3, <2>5
<1>12. ToSet(o) \in SUBSET Thread
  BY <1>8, ToSetIs
<1> QED BY <1>7, <1>8, <1>11, <1>12

RStored ==
    \/ backend = "none" /\ blob = <<>>
    \/ backend = "reddit" /\ blob = [c \in Thread |-> Stored(score[c], FALSE)]
    \/ /\ backend = "arctic_shift" /\ DOMAIN blob = Thread
       /\ \A c \in Thread : /\ blob[c].score \in Int
                            /\ ~blob[c].settled \/ blob[c].score = score[c]
RedditInv ==
    /\ \E n \in Nat : Answers(n)
    /\ score \in [Thread -> Int]
    /\ RStored

LEMMA RedditBegins == ASSUME RInit PROVE RedditInv
<1>1. PICK n \in 0..MaxThread :
          /\ parent \in {f \in [1..n -> 0..n] : \A c \in 1..n : f[c] < c}
          /\ score \in [1..n -> Score] /\ gone \in SUBSET (1..n)
  BY DEF RInit
<1>2. n \in Nat /\ parent \in [1..n -> 0..n] /\ Thread = 1..n /\ \A c \in 1..n : parent[c] < c
  BY <1>1, RedditAssumption DEF Thread
<1>3. Len(parent) = n
  <2>1. parent \in Seq(0..n)
    BY <1>2
  <2> QED BY <1>2, <2>1
<1>4. score \in [Thread -> Int]
  BY <1>1, <1>2, RedditAssumption
<1>5. Answers(n)
  BY <1>2, <1>3 DEF Answers
<1> QED BY <1>2, <1>4, <1>5 DEF RedditInv, RStored, RInit

LEMMA RedditKeeps == ASSUME RedditInv, [RNext]_redditVars PROVE RedditInv'
<1>1. UNCHANGED <<parent, score, gone>>
  BY DEF RNext, FetchReddit, FetchArchive, redditVars
<1>2. Thread' = Thread /\ \A n : Answers(n)' <=> Answers(n)
  BY <1>1 DEF Thread, Answers
<1>3. RStored'
  <2>1. CASE FetchReddit
    BY <2>1, <1>1, <1>2 DEF FetchReddit, RStored
  <2>2. CASE \E early \in SUBSET Thread, reads \in [Thread -> {0, 1}] : FetchArchive(early, reads)
    <3>1. PICK early \in SUBSET Thread, reads \in [Thread -> {0, 1}] : FetchArchive(early, reads)
      BY <2>2
    <3>2. backend' = "arctic_shift"
          /\ blob' = [c \in Thread |-> IF c \in early THEN Stored(reads[c], FALSE) ELSE Stored(score[c], TRUE)]
      BY <3>1 DEF FetchArchive
    <3>3. ASSUME NEW c \in Thread
          PROVE  /\ blob'[c].score \in Int /\ (~blob'[c].settled \/ blob'[c].score = score[c])
      <4>1. CASE c \in early
        <5>1. blob'[c] = Stored(reads[c], FALSE)
          BY <3>2, <4>1
        <5>2. blob'[c].score = reads[c] /\ blob'[c].settled = FALSE
          BY <5>1 DEF Stored
        <5> QED BY <5>2
      <4>2. CASE c \notin early
        <5>1. blob'[c] = Stored(score[c], TRUE)
          BY <3>2, <4>2
        <5>2. blob'[c].score = score[c]
          BY <5>1 DEF Stored
        <5> QED BY <5>2 DEF RedditInv
      <4> QED BY <4>1, <4>2
    <3>4. DOMAIN blob' = Thread
      BY <3>2
    <3> QED BY <1>1, <1>2, <3>2, <3>3, <3>4 DEF RStored
  <2>3. CASE UNCHANGED redditVars
    BY <2>3, <1>2 DEF redditVars, RedditInv, RStored
  <2> QED BY <2>1, <2>2, <2>3 DEF RNext
<1> QED BY <1>1, <1>2, <1>3 DEF RedditInv

\* The comments that qualify, by rank.
Better == {p \in Found \X Found : Before(p[1], p[2])}

LEMMA QualifyingIs ==
    ASSUME NEW n, Answers(n), \A c \in Thread : blob[c].score \in Int
    PROVE  /\ Found \in SUBSET (DOMAIN Comments) /\ IsFiniteSet(Found) /\ Orders(Found, Better)
           /\ \A i \in Found : Comments[i] \in Thread
           /\ Len(Qualifying) = Cardinality(Found) /\ Cardinality(Found) \in Nat
           /\ \A m \in 1..Cardinality(Found) : Qualifying[m] = Comments[RankSeq(Found, Better)[m]]
<1>1. Comments \in Seq(Thread)
  BY AllWalked
<1>2. Found \in SUBSET (DOMAIN Comments) /\ DOMAIN Comments = 1..Len(Comments) /\ Len(Comments) \in Nat
  BY <1>1 DEF Found
<1>3. IsFiniteSet(Found)
  <2>1. IsFiniteSet(1..Len(Comments))
    BY <1>2, FS_Interval
  <2> QED BY <1>2, <2>1, FS_Subset
<1>4. \A i \in Found : Comments[i] \in Thread /\ blob[Comments[i]].score \in Int /\ i \in Int
  BY <1>1, <1>2
<1>5. Orders(Found, Better)
  <2> DEFINE sc(i) == blob[Comments[i]].score
  <2>1. \A i, k \in Found : <<i, k>> \in Better <=> sc(i) > sc(k) \/ (sc(i) = sc(k) /\ i < k)
    BY DEF Better, Before
  <2>2. \A i \in Found : sc(i) \in Int /\ i \in Int
    BY <1>4
  <2> HIDE DEF sc
  <2> QED BY <2>1, <2>2 DEF Orders
<1>6. \A i \in Found : {k \in Found : Before(k, i)} = Below(Found, Better, i)
  BY DEF Below, Better
<1>7. Cardinality(Found) \in Nat
  BY <1>3, FS_CardinalityType
<1>8. \A m \in 1..Cardinality(Found) :
          (CHOOSE i \in Found : Ahead(i) = m - 1) =
          (CHOOSE i \in Found : Cardinality(Below(Found, Better, i)) = m - 1)
  <2>1. \A i \in Found : Ahead(i) = Cardinality(Below(Found, Better, i))
    BY <1>6 DEF Ahead
  <2> QED BY <2>1
<1>9. Qualifying = [m \in 1..Cardinality(Found) |-> Comments[CHOOSE i \in Found : Ahead(i) = m - 1]]
  BY Zenon DEF Qualifying
<1>10. \A m \in 1..Cardinality(Found) :
          RankSeq(Found, Better)[m] = CHOOSE i \in Found : Cardinality(Below(Found, Better, i)) = m - 1
  BY DEF RankSeq
<1>11. \A m \in 1..Cardinality(Found) : Qualifying[m] = Comments[RankSeq(Found, Better)[m]]
  BY <1>8, <1>9, <1>10
<1>12. Len(Qualifying) = Cardinality(Found)
  <2> DEFINE e(m) == Comments[CHOOSE i \in Found : Ahead(i) = m - 1]
  <2>1. Qualifying = [m \in 1..Cardinality(Found) |-> e(m)]
    BY <1>9
  <2> HIDE DEF e
  <2> QED BY <1>7, <2>1
<1> QED BY <1>2, <1>3, <1>4, <1>5, <1>7, <1>11, <1>12

LEMMA RedditHolds == ASSUME RedditInv PROVE OmissionsAreNoted
<1> SUFFICES ASSUME backend # "none", NEW c \in Thread, Live(c), score[c] >= Floor, c \notin Unsettled
             PROVE  \/ c \in ToSet(Shown)
                    \/ LimitHit /\ \A i \in DOMAIN Shown : blob[Shown[i]].score >= blob[c].score
  BY DEF OmissionsAreNoted
<1>1. PICK n \in Nat : Answers(n)
  BY DEF RedditInv
<1>2. \A d \in Thread : blob[d].score \in Int
  <2>1. CASE backend = "reddit"
    BY <2>1 DEF RedditInv, RStored, Stored
  <2>2. CASE backend = "arctic_shift"
    BY <2>2 DEF RedditInv, RStored
  <2> QED BY <2>1, <2>2 DEF RedditInv, RStored
<1>3. Comments \in Seq(Thread) /\ ToSet(Comments) = Thread
  BY <1>1, AllWalked
<1>4. blob[c].score >= Floor
  <2>1. CASE backend = "reddit"
    BY <2>1 DEF RedditInv, RStored, Stored
  <2>2. CASE backend = "arctic_shift"
    <3>1. ~blob[c].settled \/ blob[c].score = score[c]
      BY <2>2 DEF RedditInv, RStored
    <3>2. blob[c].score < Floor => blob[c].settled
      BY <2>2, <1>3 DEF Unsettled
    <3> QED BY <3>1, <3>2, <1>2, RedditAssumption DEF RedditInv
  <2> QED BY <2>1, <2>2 DEF RedditInv, RStored
<1>5. PICK i \in DOMAIN Comments : Comments[i] = c
  BY <1>3 DEF ToSet
<1>6. i \in Found
  BY <1>4, <1>5 DEF Found, Qualifies
<1> DEFINE N == Cardinality(Found)
           rank(k) == Cardinality(Below(Found, Better, k))
           d == RankSeq(Found, Better)
           limit == IF Len(Qualifying) <= TopCount THEN Len(Qualifying) ELSE TopCount
<1>7. /\ IsFiniteSet(Found) /\ Orders(Found, Better)
      /\ Len(Qualifying) = N /\ N \in Nat
      /\ \A m \in 1..N : Qualifying[m] = Comments[d[m]]
  BY <1>1, <1>2, QualifyingIs
<1>8. \A m \in 1..N : d[m] \in Found /\ rank(d[m]) = m - 1
  BY <1>7, RankSeqIs
<1>9. rank(i) + 1 \in 1..N /\ d[rank(i) + 1] = i /\ rank(i) \in Nat
  <2>1. rank(i) + 1 \in 1..N /\ d[rank(i) + 1] = i
    BY <1>6, <1>7, RankSeqIs
  <2>2. rank(i) \in 0..(N - 1)
    BY <1>6, <1>7, RanksLie
  <2> QED BY <2>1, <2>2
<1>10. limit \in 0..N /\ (~(Len(Qualifying) <= TopCount) => limit = TopCount /\ LimitHit)
       /\ (Len(Qualifying) <= TopCount => limit = N)
  BY <1>7, RedditAssumption DEF LimitHit
<1>11. Shown = SubSeq(Qualifying, 1, limit)
  BY DEF Shown
<1> HIDE DEF N, rank, d, limit
<1>12. DOMAIN Shown = 1..limit /\ \A m \in 1..limit : Shown[m] = Comments[d[m]]
  <2>1. \A m \in 1..limit : Qualifying[m] \in Thread
    <3>1. \A k \in Found : Comments[k] \in Thread
      BY <1>1, <1>2, QualifyingIs
    <3> QED BY <1>7, <1>8, <1>10, <3>1
  <2>2. limit \in Int
    BY <1>10
  <2>3. SubSeq(Qualifying, 1, limit) \in Seq(Thread)
    BY <2>1, <2>2, SubSeqProperties
  <2>4. Len(SubSeq(Qualifying, 1, limit)) = IF 1 <= limit THEN limit - 1 + 1 ELSE 0
    BY <2>1, <2>2, SubSeqProperties
  <2>5. \A m \in 1..(limit - 1 + 1) : SubSeq(Qualifying, 1, limit)[m] = Qualifying[1 + m - 1]
    BY <2>1, <2>2, SubSeqProperties
  <2>6. Len(Shown) = limit /\ Shown \in Seq(Thread)
    BY <1>10, <1>11, <2>3, <2>4
  <2>7. \A m \in 1..limit : Shown[m] = Qualifying[m]
    BY <1>10, <1>11, <2>5
  <2> QED BY <1>7, <1>10, <2>6, <2>7
<1>13. CASE rank(i) + 1 <= limit
  <2>1. rank(i) + 1 \in DOMAIN Shown /\ Shown[rank(i) + 1] = c
    BY <1>5, <1>9, <1>10, <1>12, <1>13
  <2> QED BY <2>1 DEF ToSet
<1>14. CASE ~(rank(i) + 1 <= limit)
  <2>1. LimitHit
    BY <1>9, <1>10, <1>14
  <2>2. ASSUME NEW m \in DOMAIN Shown PROVE blob[Shown[m]].score >= blob[c].score
    <3>1. m \in 1..limit /\ m \in 1..N /\ d[m] \in Found /\ rank(d[m]) = m - 1 /\ Shown[m] = Comments[d[m]]
      BY <1>7, <1>8, <1>10, <1>12
    <3>2. rank(d[m]) < rank(i)
      BY <3>1, <1>9, <1>10, <1>14
    <3>3. <<d[m], i>> \in Better
      <4>1. d[m] # i
        BY <3>1, <3>2
      <4>2. ASSUME <<i, d[m]>> \in Better PROVE FALSE
        <5>1. rank(i) < rank(d[m])
          BY <1>6, <1>7, <3>1, <4>2, RanksRise DEF rank
        <5> QED BY <5>1, <3>1, <3>2, <1>9
      <4> QED BY <4>1, <4>2, <1>6, <1>7, <3>1 DEF Orders
    <3>4. Before(d[m], i)
      BY <3>3 DEF Better
    <3>5. Comments[d[m]] \in Thread
      BY <1>1, <1>2, <3>1, QualifyingIs
    <3> QED BY <3>1, <3>4, <3>5, <1>2, <1>5 DEF Before
  <2> QED BY <2>1, <2>2
<1> QED BY <1>13, <1>14

-----------------------------------------------------------------------------
(* Mastodon.  What a cap leaves of a context, place by place.                    *)

Capped(K, a, r, c) ==
    /\ K = Context(K.ancestors, K.replies)
    /\ K.ancestors \in Seq(Nat) /\ Len(K.ancestors) = Least(Len(a), c)
    /\ \A i \in 1..Least(Len(a), c) :
          K.ancestors[i] = IF Len(a) <= c \/ i = 1 THEN a[i] ELSE a[Len(a) - c + i]
    /\ K.replies \in Seq(Nat) /\ Len(K.replies) = Least(Len(r), c - Least(Len(a), c))
    /\ \A i \in 1..Least(Len(r), c - Least(Len(a), c)) : K.replies[i] = r[i]

LEMMA CutIs ==
    ASSUME NEW a \in Seq(Nat), NEW m \in 1..(Len(a) + 1)
    PROVE  /\ SubSeq(a, m, Len(a)) \in Seq(Nat) /\ Len(SubSeq(a, m, Len(a))) = Len(a) - m + 1
           /\ \A i \in 1..(Len(a) - m + 1) : SubSeq(a, m, Len(a))[i] = a[m + i - 1]
<1> DEFINE n == Len(a)
<1>1. n \in Nat /\ \A i \in m..n : a[i] \in Nat
  OBVIOUS
<1> HIDE DEF n
<1>2. SubSeq(a, m, n) \in Seq(Nat)
  BY <1>1, SubSeqProperties
<1>3. Len(SubSeq(a, m, n)) = IF m <= n THEN n - m + 1 ELSE 0
  BY <1>1, SubSeqProperties
<1>4. \A i \in 1..(n - m + 1) : SubSeq(a, m, n)[i] = a[m + i - 1]
  BY <1>1, SubSeqProperties
<1>5. m <= n + 1
  BY DEF n
<1> QED BY <1>1, <1>2, <1>3, <1>4, <1>5 DEF n

LEMMA FirstOfIs ==
    ASSUME NEW S, NEW a \in Seq(S), NEW m \in 0..Len(a)
    PROVE  /\ SubSeq(a, 1, m) \in Seq(S) /\ Len(SubSeq(a, 1, m)) = m
           /\ \A i \in 1..m : SubSeq(a, 1, m)[i] = a[i]
<1>1. m \in Nat /\ \A i \in 1..m : a[i] \in S
  OBVIOUS
<1>2. SubSeq(a, 1, m) \in Seq(S)
  BY <1>1, SubSeqProperties
<1>3. Len(SubSeq(a, 1, m)) = IF 1 <= m THEN m - 1 + 1 ELSE 0
  BY <1>1, SubSeqProperties
<1>4. \A i \in 1..(m - 1 + 1) : SubSeq(a, 1, m)[i] = a[1 + i - 1]
  BY <1>1, SubSeqProperties
<1> QED BY <1>1, <1>2, <1>3, <1>4

LEMMA CapIs ==
    ASSUME NEW a \in Seq(Nat), NEW r \in Seq(Nat), NEW c \in Nat
    PROVE  Capped(CapContext(Context(a, r), c), a, r, c)
<1> DEFINE n == Len(a)
           ctx == Context(a, r)
           rest == SubSeq(a, n - c + 2, n)
           b == IF n <= c THEN a ELSE IF c = 0 THEN <<>> ELSE <<a[1]>> \o rest
           m == Least(Len(r), c - Len(b))
           K == Context(b, SubSeq(r, 1, m))
<1>1. CapContext(ctx, c) = K
  BY DEF CapContext, Context
<1>2. n \in Nat /\ Len(r) \in Nat
  OBVIOUS
<1>3. /\ b \in Seq(Nat) /\ Len(b) = Least(n, c)
      /\ \A i \in 1..Least(n, c) : b[i] = IF n <= c \/ i = 1 THEN a[i] ELSE a[n - c + i]
  <2>1. CASE n <= c
    BY <2>1, <1>2 DEF Least
  <2>2. CASE ~(n <= c) /\ c = 0
    <3>1. b = <<>> /\ Least(n, c) = 0
      BY <2>2, <1>2 DEF Least
    <3> HIDE DEF b
    <3> QED BY <3>1
  <2>3. CASE ~(n <= c) /\ c # 0
    <3>1. b = <<a[1]>> \o rest /\ Least(n, c) = c /\ n - c + 2 \in 1..(n + 1) /\ a[1] \in Nat
      BY <2>3, <1>2 DEF Least
    <3>2. rest \in Seq(Nat) /\ Len(rest) = n - (n - c + 2) + 1
      <4> HIDE DEF rest
      <4> QED BY <3>1, CutIs DEF rest
    <3>3. \A i \in 1..(n - (n - c + 2) + 1) : rest[i] = a[(n - c + 2) + i - 1]
      <4> HIDE DEF rest
      <4> QED BY <3>1, CutIs DEF rest
    <3>4. Len(rest) = c - 1
      BY <3>2, <1>2
    <3> HIDE DEF rest, b
    <3>5. b \in Seq(Nat) /\ Len(b) = c /\ b[1] = a[1] /\ \A i \in 2..c : b[i] = rest[i - 1]
      BY <3>1, <3>2, <3>4, <2>3
    <3>6. \A i \in 2..c : rest[i - 1] = a[n - c + i]
      <4> SUFFICES ASSUME NEW i \in 2..c PROVE rest[i - 1] = a[n - c + i]
        OBVIOUS
      <4>1. i - 1 \in 1..(n - (n - c + 2) + 1) /\ (n - c + 2) + (i - 1) - 1 = n - c + i
        BY <1>2
      <4> QED BY <3>3, <4>1
    <3>7. ASSUME NEW i \in 1..c PROVE b[i] = IF n <= c \/ i = 1 THEN a[i] ELSE a[n - c + i]
      <4>1. i = 1 \/ i \in 2..c
        OBVIOUS
      <4> QED BY <4>1, <3>5, <3>6, <2>3
    <3> QED BY <3>1, <3>5, <3>7
  <2> QED BY <2>1, <2>2, <2>3
<1> HIDE DEF b
<1>4. m \in 0..Len(r) /\ m = Least(Len(r), c - Least(n, c))
  BY <1>2, <1>3 DEF Least
<1> HIDE DEF m
<1>5. SubSeq(r, 1, m) \in Seq(Nat) /\ Len(SubSeq(r, 1, m)) = m /\ \A i \in 1..m : SubSeq(r, 1, m)[i] = r[i]
  BY <1>4, FirstOfIs
<1>6. K.ancestors = b /\ K.replies = SubSeq(r, 1, m)
  BY DEF Context
<1> QED BY <1>1, <1>3, <1>4, <1>5, <1>6 DEF Capped

LEMMA SameSeq ==
    ASSUME NEW s \in Seq(Nat), NEW t \in Seq(Nat), Len(s) = Len(t), \A i \in 1..Len(s) : s[i] = t[i]
    PROVE  s = t
OBVIOUS

LEMMA UpToIs == ASSUME NEW n \in Nat PROVE UpTo(n) \in Seq(Nat) /\ Len(UpTo(n)) = n /\ \A i \in 1..n : UpTo(n)[i] = i
BY DEF UpTo

LEMMA CappedOnce ==
    ASSUME NEW m \in Nat, NEW n \in Nat, NEW f \in Nat, NEW c \in Nat,
           NEW all, all = Context(UpTo(m), UpTo(n))
    PROVE  CapContext(CapContext(all, f), c) = CapContext(all, Least(f, c))
<1> DEFINE K == CapContext(all, f)
           L == CapContext(K, c)
           e == Least(f, c)
           M == CapContext(all, e)
<1>1. UpTo(m) \in Seq(Nat) /\ Len(UpTo(m)) = m /\ \A i \in 1..m : UpTo(m)[i] = i
  BY UpToIs
<1>2. UpTo(n) \in Seq(Nat) /\ Len(UpTo(n)) = n /\ \A i \in 1..n : UpTo(n)[i] = i
  BY UpToIs
<1>3. e \in Nat /\ e <= f /\ e <= c /\ (e = f \/ e = c)
  BY DEF Least
<1>4. Capped(K, UpTo(m), UpTo(n), f)
  BY <1>1, <1>2, CapIs
<1> HIDE DEF e
<1>5. Capped(M, UpTo(m), UpTo(n), e)
  BY <1>1, <1>2, <1>3, CapIs
<1> HIDE DEF K, M
<1>6. K = Context(K.ancestors, K.replies) /\ K.ancestors \in Seq(Nat) /\ K.replies \in Seq(Nat)
  BY <1>4 DEF Capped
<1>7. Capped(CapContext(Context(K.ancestors, K.replies), c), K.ancestors, K.replies, c)
  BY <1>6, CapIs
<1>8. Capped(L, K.ancestors, K.replies, c)
  BY <1>6, <1>7
<1> HIDE DEF L
<1>9. L.ancestors = M.ancestors
  <2> DEFINE A == K.ancestors
             B == L.ancestors
             C == M.ancestors
  <2>1. A \in Seq(Nat) /\ Len(A) = Least(m, f) /\ \A i \in 1..Least(m, f) : A[i] = IF m <= f \/ i = 1 THEN i ELSE m - f + i
    <3>1. A \in Seq(Nat) /\ Len(A) = Least(m, f)
          /\ \A i \in 1..Least(m, f) : A[i] = IF m <= f \/ i = 1 THEN UpTo(m)[i] ELSE UpTo(m)[m - f + i]
      BY <1>1, <1>4 DEF Capped
    <3>2. \A i \in 1..Least(m, f) : i \in 1..m /\ (m <= f \/ m - f + i \in 1..m)
      BY DEF Least
    <3> QED BY <3>1, <3>2, <1>1
  <2>2. C \in Seq(Nat) /\ Len(C) = Least(m, e) /\ \A i \in 1..Least(m, e) : C[i] = IF m <= e \/ i = 1 THEN i ELSE m - e + i
    <3>1. C \in Seq(Nat) /\ Len(C) = Least(m, e)
          /\ \A i \in 1..Least(m, e) : C[i] = IF m <= e \/ i = 1 THEN UpTo(m)[i] ELSE UpTo(m)[m - e + i]
      BY <1>1, <1>5 DEF Capped
    <3>2. \A i \in 1..Least(m, e) : i \in 1..m /\ (m <= e \/ m - e + i \in 1..m)
      BY <1>3 DEF Least
    <3> QED BY <3>1, <3>2, <1>1
  <2>3. B \in Seq(Nat) /\ Len(B) = Least(Len(A), c)
        /\ \A i \in 1..Least(Len(A), c) : B[i] = IF Len(A) <= c \/ i = 1 THEN A[i] ELSE A[Len(A) - c + i]
    BY <1>8 DEF Capped
  <2> HIDE DEF A, B, C
  <2>4. Len(B) = Len(C)
    BY <2>1, <2>2, <2>3, <1>3 DEF Least
  <2>5. ASSUME NEW i \in 1..Len(B) PROVE B[i] = C[i]
    <3>1. i \in 1..Least(Len(A), c) /\ i \in 1..Least(m, e) /\ i \in 1..Least(m, f)
      BY <2>1, <2>2, <2>3, <2>4, <1>3 DEF Least
    <3>2. C[i] = IF m <= e \/ i = 1 THEN i ELSE m - e + i
      BY <2>2, <3>1
    <3>3. A[i] = IF m <= f \/ i = 1 THEN i ELSE m - f + i
      BY <2>1, <3>1
    <3>4. CASE Len(A) <= c \/ i = 1
      <4>1. B[i] = A[i]
        BY <2>3, <3>1, <3>4
      <4>2. i = 1 \/ ((m <= e <=> m <= f) /\ (~(m <= f) => e = f))
        <5>1. CASE m <= f
          BY <5>1, <3>4, <2>1, <1>3 DEF Least
        <5>2. CASE ~(m <= f)
          BY <5>2, <3>4, <2>1, <1>3 DEF Least
        <5> QED BY <5>1, <5>2
      <4> QED BY <3>2, <3>3, <4>1, <4>2
    <3>5. CASE ~(Len(A) <= c \/ i = 1)
      <4> DEFINE j == Len(A) - c + i
      <4>1. j \in 1..Least(m, f) /\ j # 1 /\ e = c /\ ~(m <= e)
        BY <3>1, <3>5, <2>1, <1>3 DEF Least
      <4>2. A[j] = IF m <= f THEN j ELSE m - f + j
        <5> HIDE DEF j
        <5> QED BY <2>1, <4>1
      <4>3. (m <= f => j = m - e + i) /\ (~(m <= f) => m - f + j = m - e + i)
        BY <4>1, <2>1, <1>3 DEF Least
      <4>4. B[i] = A[j]
        BY <2>3, <3>1, <3>5
      <4> QED BY <3>2, <3>5, <4>1, <4>2, <4>3, <4>4
    <3> QED BY <3>4, <3>5
  <2>6. B = C
    BY <2>2, <2>3, <2>4, <2>5, SameSeq
  <2> QED BY <2>6 DEF B, C
<1>10. L.replies = M.replies
  <2> DEFINE A == K.replies
             B == L.replies
             C == M.replies
  <2>1. A \in Seq(Nat) /\ Len(A) = Least(n, f - Least(m, f)) /\ \A i \in 1..Least(n, f - Least(m, f)) : A[i] = i
    <3>1. A \in Seq(Nat) /\ Len(A) = Least(n, f - Least(m, f))
          /\ \A i \in 1..Least(n, f - Least(m, f)) : A[i] = UpTo(n)[i]
      BY <1>1, <1>2, <1>4 DEF Capped
    <3>2. \A i \in 1..Least(n, f - Least(m, f)) : i \in 1..n
      BY DEF Least
    <3> QED BY <3>1, <3>2, <1>2
  <2>2. C \in Seq(Nat) /\ Len(C) = Least(n, e - Least(m, e)) /\ \A i \in 1..Least(n, e - Least(m, e)) : C[i] = i
    <3>1. C \in Seq(Nat) /\ Len(C) = Least(n, e - Least(m, e))
          /\ \A i \in 1..Least(n, e - Least(m, e)) : C[i] = UpTo(n)[i]
      BY <1>1, <1>2, <1>5 DEF Capped
    <3>2. \A i \in 1..Least(n, e - Least(m, e)) : i \in 1..n
      BY <1>3 DEF Least
    <3> QED BY <3>1, <3>2, <1>2
  <2>3. Len(K.ancestors) = Least(m, f)
    BY <1>1, <1>4 DEF Capped
  <2>4. B \in Seq(Nat) /\ Len(B) = Least(Len(A), c - Least(Least(m, f), c))
        /\ \A i \in 1..Least(Len(A), c - Least(Least(m, f), c)) : B[i] = A[i]
    BY <1>8, <2>3 DEF Capped
  <2> HIDE DEF A, B, C
  <2>5. Len(B) = Len(C)
    BY <2>1, <2>2, <2>4, <1>3 DEF Least
  <2>6. ASSUME NEW i \in 1..Len(B) PROVE B[i] = C[i]
    <3>1. i \in 1..Len(A) /\ i \in 1..Len(C)
      BY <2>1, <2>4, <2>5, <1>3 DEF Least
    <3>2. B[i] = A[i]
      BY <2>4
    <3> QED BY <2>1, <2>2, <3>1, <3>2
  <2>7. B = C
    BY <2>2, <2>4, <2>5, <2>6, SameSeq
  <2> QED BY <2>7 DEF B, C
<1>11. L = Context(L.ancestors, L.replies) /\ M = Context(M.ancestors, M.replies)
  BY <1>5, <1>8 DEF Capped
<1>12. L = M
  BY <1>9, <1>10, <1>11
<1> QED BY <1>12 DEF L, M, e, K

Served(m, n) ==
    /\ m \in Nat /\ n \in Nat /\ served.ancestors = m
    /\ served.parent \in [1..n -> Nat] /\ Len(served.parent) = n
All == Context(UpTo(served.ancestors), UpTo(Len(served.parent)))
MastoInv ==
    /\ \E m, n \in Nat : Served(m, n)
    /\ cap \in Nat /\ fetchCap \in Nat
    /\ stored = Nothing \/ stored = CapContext(All, fetchCap)
    /\ reading = Nothing \/ (stored # Nothing /\ reading.size \in Seq(Nat) /\ reading.size # <<>>)

LEMMA MastoBegins == ASSUME MInit PROVE MastoInv
<1>1. PICK m \in 0..MaxAncestors, n \in 0..MaxServed :
          \E f \in [1..n -> 0..(MaxServed + 1)] : served = [ancestors |-> m, parent |-> f]
  BY DEF MInit
<1> PICK f \in [1..n -> 0..(MaxServed + 1)] : served = [ancestors |-> m, parent |-> f]
  BY <1>1
<1>2. m \in Nat /\ n \in Nat /\ f \in [1..n -> Nat] /\ served.ancestors = m /\ served.parent = f
  BY MastodonAssumption
<1>3. Len(f) = n
  <2>1. f \in Seq(Nat) /\ DOMAIN f = 1..n
    BY <1>2
  <2> QED BY <1>2, <2>1
<1>4. Served(m, n)
  BY <1>2, <1>3 DEF Served
<1> QED BY <1>2, <1>4, MastodonAssumption DEF MastoInv, MInit

LEMMA MastoKeeps == ASSUME MastoInv, [MNext]_masto PROVE MastoInv'
<1>1. UNCHANGED served
  BY DEF MNext, Fetch, SetCap, ReadThread, masto
<1>2. All' = All /\ \A m, n \in Nat : Served(m, n)' <=> Served(m, n)
  BY <1>1 DEF All, Served
<1>3. CASE Fetch
  <2>1. stored' = CapContext(All, cap) /\ fetchCap' = cap /\ UNCHANGED <<served, cap, reading>> /\ stored = Nothing
    BY <1>3 DEF Fetch, All
  <2>2. reading = Nothing
    BY <2>1 DEF MastoInv
  <2> QED BY <1>2, <2>1, <2>2 DEF MastoInv
<1>4. ASSUME NEW c \in ThreadCaps, SetCap(c) PROVE MastoInv'
  BY <1>2, <1>4, MastodonAssumption DEF MastoInv, SetCap
<1>5. ASSUME NEW size \in Sizes, NEW liked, ReadThread(size, liked) PROVE MastoInv'
  <2>1. size \in Seq(Nat) /\ size # <<>>
    BY MastodonAssumption
  <2>2. reading' = [size |-> size, liked |-> liked] /\ stored # Nothing /\ UNCHANGED <<served, stored, fetchCap, cap>>
    BY <1>5 DEF ReadThread
  <2>3. reading'.size = size
    BY <2>2
  <2> QED BY <1>2, <2>1, <2>2, <2>3 DEF MastoInv
<1>6. CASE UNCHANGED masto
  BY <1>2, <1>6 DEF MastoInv, masto
<1> QED BY <1>3, <1>4, <1>5, <1>6 DEF MNext

\* What is kept of the context.
LEMMA KeptIs ==
    ASSUME MastoInv, stored # Nothing, NEW m \in Nat, NEW n \in Nat, Served(m, n)
    PROVE  /\ KeptContext = CapContext(All, Least(fetchCap, cap))
           /\ Capped(KeptContext, UpTo(m), UpTo(n), Least(fetchCap, cap))
           /\ Least(fetchCap, cap) \in Nat
<1>1. cap \in Nat /\ fetchCap \in Nat /\ stored = CapContext(All, fetchCap)
  BY DEF MastoInv
<1>2. All = Context(UpTo(m), UpTo(n))
  BY DEF All, Served
<1>3. KeptContext = CapContext(All, Least(fetchCap, cap))
  BY <1>1, <1>2, CappedOnce DEF KeptContext
<1>4. Least(fetchCap, cap) \in Nat
  BY <1>1 DEF Least
<1>5. Capped(CapContext(Context(UpTo(m), UpTo(n)), Least(fetchCap, cap)), UpTo(m), UpTo(n), Least(fetchCap, cap))
  <2>1. UpTo(m) \in Seq(Nat) /\ UpTo(n) \in Seq(Nat)
    BY UpToIs
  <2> QED BY <1>4, <2>1, CapIs
<1> QED BY <1>2, <1>3, <1>4, <1>5

LEMMA RepliesKept ==
    ASSUME MastoInv, stored # Nothing, NEW m \in Nat, NEW n \in Nat, Served(m, n)
    PROVE  \E k \in 0..n : KeptContext.replies = UpTo(k)
<1> DEFINE e == Least(fetchCap, cap)
           k == Least(n, e - Least(m, e))
           R == KeptContext.replies
<1>1. Capped(KeptContext, UpTo(m), UpTo(n), e) /\ e \in Nat
  BY KeptIs
<1>2. Len(UpTo(m)) = m /\ Len(UpTo(n)) = n /\ \A i \in 1..n : UpTo(n)[i] = i
  BY UpToIs
<1> HIDE DEF e
<1>3. k \in 0..n
  BY <1>1 DEF Least
<1>4. R \in Seq(Nat) /\ Len(R) = k /\ \A i \in 1..k : R[i] = UpTo(n)[i]
  BY <1>1, <1>2 DEF Capped
<1> HIDE DEF k, R
<1>5. \A i \in 1..k : R[i] = UpTo(k)[i]
  <2>1. \A i \in 1..k : UpTo(k)[i] = i
    BY <1>3, UpToIs
  <2> QED BY <1>2, <1>3, <1>4, <2>1
<1>6. UpTo(k) \in Seq(Nat) /\ Len(UpTo(k)) = k
  BY <1>3, UpToIs
<1>7. R = UpTo(k)
  BY <1>4, <1>5, <1>6, SameSeq
<1> QED BY <1>3, <1>7 DEF R

LEMMA ContextHolds ==
    ASSUME MastoInv, stored # Nothing
    PROVE  /\ KeptContext = CapContext(All, Least(fetchCap, cap))
           /\ Len(KeptContext.ancestors) + Len(KeptContext.replies) <= cap
           /\ KeptContext.ancestors # <<>> => KeptContext.ancestors[1] = 1
           /\ KeptContext # All /\ cap <= fetchCap => CapHit
<1>1. PICK m \in Nat, n \in Nat : Served(m, n)
  BY DEF MastoInv
<1> DEFINE e == Least(fetchCap, cap)
           A == KeptContext.ancestors
           R == KeptContext.replies
<1>2. KeptContext = CapContext(All, e) /\ Capped(KeptContext, UpTo(m), UpTo(n), e) /\ e \in Nat
  BY <1>1, KeptIs
<1>3. Len(UpTo(m)) = m /\ \A i \in 1..m : UpTo(m)[i] = i
  BY UpToIs
<1>4. Len(UpTo(n)) = n /\ \A i \in 1..n : UpTo(n)[i] = i
  BY UpToIs
<1>5. e <= cap /\ (cap <= fetchCap => e = cap) /\ cap \in Nat
  BY DEF Least, MastoInv
<1> HIDE DEF e
<1>6. A \in Seq(Nat) /\ Len(A) = Least(m, e) /\ \A i \in 1..Least(m, e) : A[i] = IF m <= e \/ i = 1 THEN UpTo(m)[i] ELSE UpTo(m)[m - e + i]
  BY <1>2, <1>3 DEF Capped
<1>7. R \in Seq(Nat) /\ Len(R) = Least(n, e - Least(m, e)) /\ \A i \in 1..Least(n, e - Least(m, e)) : R[i] = UpTo(n)[i]
  BY <1>2, <1>3, <1>4 DEF Capped
<1>8. KeptContext = Context(A, R)
  BY <1>2 DEF Capped
<1> HIDE DEF A, R
<1>9. Len(A) + Len(R) <= cap
  BY <1>2, <1>5, <1>6, <1>7 DEF Least
<1>10. A # <<>> => A[1] = 1
  <2>1. A # <<>> => 1 \in 1..Least(m, e) /\ 1 \in 1..m
    BY <1>2, <1>6 DEF Least
  <2> QED BY <2>1, <1>3, <1>6
<1>11. ASSUME cap <= fetchCap, Len(A) + Len(R) < cap PROVE KeptContext = All
  <2>1. e = cap /\ m <= e /\ Least(m, e) = m /\ Least(n, e - m) = n
    BY <1>2, <1>5, <1>6, <1>7, <1>11 DEF Least
  <2>2. A = UpTo(m)
    <3>1. UpTo(m) \in Seq(Nat)
      BY UpToIs
    <3> QED BY <1>3, <1>6, <2>1, <3>1, SameSeq
  <2>3. R = UpTo(n)
    <3>1. UpTo(n) \in Seq(Nat)
      BY UpToIs
    <3> QED BY <1>4, <1>7, <2>1, <3>1, SameSeq
  <2>4. All = Context(UpTo(m), UpTo(n))
    BY <1>1 DEF All, Served
  <2> QED BY <1>8, <2>2, <2>3, <2>4
<1>12. KeptContext # All /\ cap <= fetchCap => Len(A) + Len(R) >= cap
  <2>1. Len(A) + Len(R) \in Nat
    BY <1>6, <1>7
  <2> QED BY <1>5, <1>11, <2>1
<1> QED BY <1>2, <1>9, <1>10, <1>12 DEF CapHit, A, R, e

-----------------------------------------------------------------------------
\* The tree of the replies.

Entry(k) == [reply : 1..k, depth : Nat]
RepliesIn(s) == {s[i].reply : i \in DOMAIN s}
EachOnce(s) == \A i, j \in DOMAIN s : s[i].reply = s[j].reply => i = j
Siblings(d, e) == served.parent[d.reply] = served.parent[e.reply]
Under(out, e, i) ==
    IF served.parent[e.reply] = 0 THEN e.depth = 0
    ELSE \E j \in 1..(i - 1) : out[j].reply = served.parent[e.reply] /\ e.depth = out[j].depth + 1

TreeOf(k) == k \in Nat /\ KeptContext.replies = UpTo(k) /\ \A r \in 1..k : served.parent[r] \in Nat
TreeInv(k, w) ==
    /\ w.todo \in Seq(Entry(k)) /\ w.out \in Seq(Entry(k))
    /\ EachOnce(w.todo) /\ EachOnce(w.out) /\ RepliesIn(w.todo) \cap RepliesIn(w.out) = {}
    /\ \A r \in 1..k : r \in RepliesIn(w.todo) \cup RepliesIn(w.out) <=>
                           r \in reading.liked /\ served.parent[r] \in RepliesIn(w.out) \cup {0}
    /\ \A i, j \in DOMAIN w.out : Siblings(w.out[i], w.out[j]) /\ w.out[i].reply < w.out[j].reply => i < j
    /\ \A i, j \in DOMAIN w.todo : Siblings(w.todo[i], w.todo[j]) /\ w.todo[i].reply < w.todo[j].reply => j < i
    /\ \A i \in DOMAIN w.todo, j \in DOMAIN w.out : Siblings(w.todo[i], w.out[j]) => w.out[j].reply < w.todo[i].reply
    /\ \A i \in DOMAIN w.out : Under(w.out, w.out[i], i)
    /\ \A i \in DOMAIN w.todo : Under(w.out, w.todo[i], Len(w.out) + 1)
TreeStates(k) == {w \in [todo : Seq(Entry(k)), out : Seq(Entry(k))] : TreeInv(k, w)}
TreeBegins == [todo |-> Reverse(AtDepth(ChildrenOf(0), 0)), out |-> <<>>]

LEMMA PlacesJoined ==
    ASSUME NEW S, NEW s \in Seq(S), NEW t \in Seq(S), NEW i \in DOMAIN (s \o t)
    PROVE  \/ i \in 1..Len(s) /\ (s \o t)[i] = s[i]
           \/ ~(i <= Len(s)) /\ i - Len(s) \in 1..Len(t) /\ (s \o t)[i] = t[i - Len(s)]
<1>1. i \in 1..(Len(s) + Len(t)) /\ Len(s) \in Nat /\ Len(t) \in Nat
  OBVIOUS
<1>2. CASE i <= Len(s)
  <2>1. i \in 1..Len(s)
    BY <1>1, <1>2
  <2>2. \A j \in 1..Len(s) : (s \o t)[j] = s[j]
    BY JoinedIs
  <2> QED BY <2>1, <2>2
<1>3. CASE ~(i <= Len(s))
  <2>1. i - Len(s) \in 1..Len(t) /\ Len(s) + (i - Len(s)) = i
    BY <1>1, <1>3
  <2>2. \A j \in 1..Len(t) : (s \o t)[Len(s) + j] = t[j]
    BY JoinedIs
  <2>3. (s \o t)[Len(s) + (i - Len(s))] = t[i - Len(s)]
    BY <2>1, <2>2
  <2> QED BY <1>3, <2>1, <2>3
<1> QED BY <1>2, <1>3

LEMMA ChildrenAre ==
    ASSUME NEW k, TreeOf(k), NEW p, NEW d \in Nat, NEW s, s = Reverse(AtDepth(ChildrenOf(p), d))
    PROVE  /\ s \in Seq(Entry(k)) /\ EachOnce(s) /\ DOMAIN s = 1..Len(s)
           /\ RepliesIn(s) = {r \in 1..k : served.parent[r] = p /\ r \in reading.liked}
           /\ \A i, j \in DOMAIN s : s[i].reply < s[j].reply => j < i
           /\ \A i \in DOMAIN s : s[i].depth = d
<1> DEFINE C == {r \in 1..k : served.parent[r] = p /\ r \in reading.liked}
           c == InTurn(C)
           a == AtDepth(c, d)
<1>1. k \in Nat /\ KeptContext.replies = UpTo(k)
  BY DEF TreeOf
<1>2. ToSet(KeptContext.replies) = 1..k
  BY <1>1 DEF UpTo, ToSet
<1>3. ChildrenOf(p) = c
  BY <1>2 DEF ChildrenOf
<1>4. IsFiniteSet(C) /\ C \in SUBSET Nat
  <2>1. IsFiniteSet(1..k)
    BY <1>1, FS_Interval
  <2>2. C \in SUBSET (1..k)
    OBVIOUS
  <2> HIDE DEF C
  <2>3. IsFiniteSet(C)
    BY <2>1, <2>2, FS_Subset
  <2> QED BY <1>1, <2>2, <2>3
<1> HIDE DEF C
<1>5. c \in Seq(C) /\ ToSet(c) = C /\ Distinct(c) /\ Rising(c)
  BY <1>4, InTurnIs
<1> HIDE DEF c
<1>6. DOMAIN c = 1..Len(c) /\ Len(c) \in Nat /\ \A i \in 1..Len(c) : c[i] \in C
  BY <1>5
<1>7. C \in SUBSET (1..k)
  BY DEF C
<1>8. a = [i \in 1..Len(c) |-> [reply |-> c[i], depth |-> d]]
  BY <1>6 DEF AtDepth
<1>9. \A i \in 1..Len(c) : a[i] = [reply |-> c[i], depth |-> d] /\ a[i] \in Entry(k)
  <2>1. \A i \in 1..Len(c) : c[i] \in 1..k
    BY <1>6, <1>7
  <2>2. \A i \in 1..Len(c) : a[i] = [reply |-> c[i], depth |-> d]
    BY <1>8
  <2>3. \A x \in 1..k : [reply |-> x, depth |-> d] \in Entry(k)
    BY DEF Entry
  <2> HIDE DEF a
  <2> QED BY <2>1, <2>2, <2>3
<1>10. a \in Seq(Entry(k)) /\ Len(a) = Len(c)
  BY <1>6, <1>8, <1>9
<1> HIDE DEF a
<1>11. s = Reverse(a)
  BY <1>3 DEF a
<1>12. s \in Seq(Entry(k)) /\ Len(s) = Len(c)
  BY <1>10, <1>11, ReverseIs
<1>13. DOMAIN s = 1..Len(c)
  BY <1>12
<1>14. ASSUME NEW i \in 1..Len(c)
       PROVE  Len(c) - i + 1 \in 1..Len(c) /\ s[i].reply = c[Len(c) - i + 1] /\ s[i].depth = d
  <2>1. Len(c) - i + 1 \in 1..Len(c)
    BY <1>6
  <2>2. \A j \in 1..Len(a) : Reverse(a)[j] = a[Len(a) - j + 1]
    BY <1>10, ReverseIs
  <2>3. s[i] = a[Len(c) - i + 1]
    BY <1>10, <1>11, <2>2
  <2>4. a[Len(c) - i + 1] = [reply |-> c[Len(c) - i + 1], depth |-> d]
    BY <1>9, <2>1
  <2> QED BY <2>1, <2>3, <2>4
<1>15. EachOnce(s)
  <2>1. ASSUME NEW i \in 1..Len(c), NEW j \in 1..Len(c), s[i].reply = s[j].reply PROVE i = j
    <3>1. c[Len(c) - i + 1] = c[Len(c) - j + 1]
      BY <1>14, <2>1
    <3>2. Len(c) - i + 1 \in DOMAIN c /\ Len(c) - j + 1 \in DOMAIN c
      BY <1>6, <1>14
    <3>3. Len(c) - i + 1 = Len(c) - j + 1
      BY <1>5, <3>1, <3>2 DEF Distinct
    <3> QED BY <1>6, <3>3
  <2> QED BY <1>13, <2>1 DEF EachOnce
<1>16. RepliesIn(s) = C
  <2>1. \A i \in 1..Len(c) : s[i].reply \in C
    BY <1>6, <1>14
  <2>2. ASSUME NEW r \in C PROVE \E i \in 1..Len(c) : s[i].reply = r
    <3>1. PICK j \in 1..Len(c) : c[j] = r
      BY <1>5, <1>6, <2>2 DEF ToSet
    <3>2. Len(c) - j + 1 \in 1..Len(c) /\ Len(c) - (Len(c) - j + 1) + 1 = j
      BY <1>6
    <3> QED BY <1>14, <3>1, <3>2
  <2> QED BY <1>13, <2>1, <2>2 DEF RepliesIn
<1>17. ASSUME NEW i \in 1..Len(c), NEW j \in 1..Len(c), s[i].reply < s[j].reply PROVE j < i
  <2> DEFINE x == Len(c) - i + 1
             y == Len(c) - j + 1
  <2>1. x \in DOMAIN c /\ y \in DOMAIN c /\ c[x] < c[y]
    BY <1>6, <1>14, <1>17
  <2>2. c[x] \in Int /\ c[y] \in Int /\ x \in Int /\ y \in Int
    <3> HIDE DEF x, y
    <3>1. c[x] \in C /\ c[y] \in C /\ x \in 1..Len(c) /\ y \in 1..Len(c)
      BY <1>6, <2>1
    <3>2. c[x] \in Nat /\ c[y] \in Nat
      BY <1>4, <3>1
    <3> QED BY <1>6, <3>1, <3>2
  <2>3. x < y
    <3> HIDE DEF x, y
    <3>1. ~(c[y] < c[x]) /\ x # y
      BY <2>1, <2>2
    <3>2. ~(y < x)
      BY <3>1, <2>1, <1>5 DEF Rising
    <3> QED BY <2>2, <3>1, <3>2
  <2> QED BY <2>3, <1>6
<1> QED BY <1>12, <1>13, <1>14, <1>15, <1>16, <1>17 DEF C

LEMMA TreeStarts == ASSUME NEW k, TreeOf(k) PROVE TreeBegins \in TreeStates(k)
<1> DEFINE s == Reverse(AtDepth(ChildrenOf(0), 0))
           w == TreeBegins
<1>1. /\ s \in Seq(Entry(k)) /\ EachOnce(s)
      /\ RepliesIn(s) = {r \in 1..k : served.parent[r] = 0 /\ r \in reading.liked}
      /\ \A i, j \in DOMAIN s : s[i].reply < s[j].reply => j < i
      /\ \A i \in DOMAIN s : s[i].depth = 0
  BY ChildrenAre
<1>2. w = [todo |-> s, out |-> <<>>] /\ w.todo = s /\ w.out = <<>>
  BY DEF TreeBegins
<1> HIDE DEF s, w
<1>3. \A i \in DOMAIN s : served.parent[s[i].reply] = 0
  <2>1. \A i \in DOMAIN s : s[i].reply \in RepliesIn(s)
    BY DEF RepliesIn
  <2> QED BY <1>1, <2>1
<1>4. w.out \in Seq(Entry(k)) /\ DOMAIN w.out = {} /\ RepliesIn(w.out) = {} /\ EachOnce(w.out)
  BY <1>2 DEF RepliesIn, EachOnce
<1>5. \A i \in DOMAIN s : Under(w.out, s[i], Len(w.out) + 1)
  BY <1>1, <1>3 DEF Under
<1>6. TreeInv(k, w)
  BY <1>1, <1>2, <1>4, <1>5 DEF TreeInv
<1>7. w \in [todo : Seq(Entry(k)), out : Seq(Entry(k))]
  BY <1>1, <1>2, <1>4
<1> QED BY <1>6, <1>7 DEF TreeStates, w

LEMMA TreeGoesOn ==
    ASSUME NEW k, TreeOf(k), NEW w \in TreeStates(k)
    PROVE  /\ DescendOn(w) \in TreeStates(k)
           /\ w.todo # <<>> => Len(DescendOn(w).out) = Len(w.out) + 1
<1>1. CASE w.todo = <<>>
  BY <1>1 DEF DescendOn
<1>2. CASE w.todo # <<>>
  <2> DEFINE q == w.todo
             o == w.out
             h == Last(q)
             f == Front(q)
             s == Reverse(AtDepth(ChildrenOf(h.reply), h.depth + 1))
             q2 == f \o s
             o2 == Append(o, h)
             v == [todo |-> q2, out |-> o2]
             P(r) == served.parent[r]
             Q == RepliesIn(q)
             O == RepliesIn(o)
  <2>1. TreeInv(k, w) /\ q # <<>> /\ k \in Nat
    BY <1>2 DEF TreeStates, TreeOf
  <2>2. /\ q \in Seq(Entry(k)) /\ o \in Seq(Entry(k)) /\ EachOnce(q) /\ EachOnce(o) /\ Q \cap O = {}
        /\ \A r \in 1..k : r \in Q \cup O <=> r \in reading.liked /\ P(r) \in O \cup {0}
    BY <2>1 DEF TreeInv
  <2>3. /\ \A i, j \in DOMAIN o : Siblings(o[i], o[j]) /\ o[i].reply < o[j].reply => i < j
        /\ \A i, j \in DOMAIN q : Siblings(q[i], q[j]) /\ q[i].reply < q[j].reply => j < i
        /\ \A i \in DOMAIN q, j \in DOMAIN o : Siblings(q[i], o[j]) => o[j].reply < q[i].reply
    BY <2>1 DEF TreeInv
  <2>4. /\ \A i \in DOMAIN o : Under(o, o[i], i)
        /\ \A i \in DOMAIN q : Under(o, q[i], Len(o) + 1)
    BY <2>1 DEF TreeInv
  <2>5. h \in Entry(k) /\ h = q[Len(q)] /\ Len(q) \in Nat \ {0} /\ f \in Seq(Entry(k)) /\ Len(f) = Len(q) - 1
        /\ \A i \in 1..(Len(q) - 1) : f[i] = q[i]
    <3> HIDE DEF q
    <3>1. h \in Entry(k)
      BY <2>1, <2>2, LastIsIn
    <3> QED BY <2>1, <2>2, <3>1, FrontIs
  <2>6. h.reply \in 1..k /\ h.depth \in Nat /\ Len(q) \in DOMAIN q /\ h.reply \in Q /\ h.reply \notin O
    <3>1. h.reply \in 1..k /\ h.depth \in Nat
      BY <2>5 DEF Entry
    <3>2. Len(q) \in DOMAIN q
      BY <2>2, <2>5
    <3>3. h.reply \in Q
      BY <2>5, <3>2 DEF RepliesIn
    <3> QED BY <2>2, <3>1, <3>2, <3>3
  <2>7. DescendOn(w) = v
    <3>1. ~(\E i \in DOMAIN w.out : w.out[i].reply = h.reply)
      BY <2>6 DEF RepliesIn
    <3> QED BY <3>1, <1>2 DEF DescendOn
  <2>8. /\ s \in Seq(Entry(k)) /\ EachOnce(s) /\ DOMAIN s = 1..Len(s)
        /\ RepliesIn(s) = {r \in 1..k : P(r) = h.reply /\ r \in reading.liked}
        /\ \A i, j \in DOMAIN s : s[i].reply < s[j].reply => j < i
        /\ \A i \in DOMAIN s : s[i].depth = h.depth + 1
    <3>1. h.depth + 1 \in Nat
      BY <2>6
    <3> DEFINE p == h.reply
               d == h.depth + 1
    <3>2. s = Reverse(AtDepth(ChildrenOf(p), d)) /\ d \in Nat
      BY <3>1
    <3> HIDE DEF h, s, p, d
    <3>3. s \in Seq(Entry(k)) /\ EachOnce(s) /\ DOMAIN s = 1..Len(s)
      BY <3>2, ChildrenAre
    <3>4. RepliesIn(s) = {r \in 1..k : served.parent[r] = p /\ r \in reading.liked}
      BY <3>2, ChildrenAre
    <3>5. \A i, j \in DOMAIN s : s[i].reply < s[j].reply => j < i
      BY <3>2, ChildrenAre
    <3>6. \A i \in DOMAIN s : s[i].depth = d
      BY <3>2, ChildrenAre
    <3> QED BY <3>3, <3>4, <3>5, <3>6 DEF p, d
  <2> HIDE DEF q, o, h, f, s
  <2>9. DOMAIN q = 1..Len(q) /\ DOMAIN o = 1..Len(o) /\ Len(o) \in Nat /\ Len(s) \in Nat /\ DOMAIN f = 1..(Len(q) - 1)
    BY <2>2, <2>5, <2>8
  <2>10. q2 \in Seq(Entry(k)) /\ DOMAIN q2 = 1..(Len(f) + Len(s))
    <3>1. q2 \in Seq(Entry(k)) /\ Len(q2) = Len(f) + Len(s)
      BY <2>5, <2>8, JoinedIs
    <3> QED BY <3>1
  <2>11. \A i \in DOMAIN q2 : \/ i \in 1..(Len(q) - 1) /\ q2[i] = q[i]
                              \/ ~(i <= Len(q) - 1) /\ i - (Len(q) - 1) \in DOMAIN s /\ q2[i] = s[i - (Len(q) - 1)]
    <3> SUFFICES ASSUME NEW i \in DOMAIN q2
                 PROVE  \/ i \in 1..(Len(q) - 1) /\ q2[i] = q[i]
                        \/ ~(i <= Len(q) - 1) /\ i - (Len(q) - 1) \in DOMAIN s /\ q2[i] = s[i - (Len(q) - 1)]
      OBVIOUS
    <3>1. \/ i \in 1..Len(f) /\ q2[i] = f[i]
          \/ ~(i <= Len(f)) /\ i - Len(f) \in 1..Len(s) /\ q2[i] = s[i - Len(f)]
      BY <2>5, <2>8, PlacesJoined
    <3> QED BY <3>1, <2>5, <2>8
  <2>12. o2 \in Seq(Entry(k)) /\ DOMAIN o2 = 1..(Len(o) + 1) /\ Len(o2) = Len(o) + 1 /\ o2[Len(o) + 1] = h
         /\ \A i \in 1..Len(o) : o2[i] = o[i]
    BY <2>2, <2>5
  <2>13. /\ \A i \in DOMAIN q : q[i] \in Entry(k) /\ q[i].reply \in 1..k /\ q[i].reply \in Q
         /\ \A i \in DOMAIN o : o[i] \in Entry(k) /\ o[i].reply \in 1..k /\ o[i].reply \in O
         /\ \A i \in DOMAIN s : s[i] \in Entry(k) /\ s[i].reply \in 1..k /\ s[i].reply \in RepliesIn(s)
    <3>1. \A i \in DOMAIN q : q[i] \in Entry(k)
      BY <2>2
    <3>2. \A i \in DOMAIN o : o[i] \in Entry(k)
      BY <2>2
    <3>3. \A i \in DOMAIN s : s[i] \in Entry(k)
      BY <2>8
    <3>4. \A e \in Entry(k) : e.reply \in 1..k
      BY DEF Entry
    <3> QED BY <3>1, <3>2, <3>3, <3>4 DEF RepliesIn
  <2> HIDE DEF q2, o2
  <2>14. RepliesIn(o2) = O \cup {h.reply}
    <3>1. \A i \in DOMAIN o2 : i \in 1..Len(o) \/ i = Len(o) + 1
      BY <2>9, <2>12
    <3>2. \A i \in DOMAIN o : i \in DOMAIN o2 /\ o2[i] = o[i]
      BY <2>9, <2>12
    <3>3. Len(o) + 1 \in DOMAIN o2
      BY <2>9, <2>12
    <3> QED BY <2>9, <2>12, <3>1, <3>2, <3>3 DEF RepliesIn
  <2>15. RepliesIn(q2) = (Q \ {h.reply}) \cup RepliesIn(s)
    <3>1. \A i \in 1..(Len(q) - 1) : i \in DOMAIN q2 /\ q2[i] = q[i] /\ i \in DOMAIN q /\ q[i].reply # h.reply
      <4> SUFFICES ASSUME NEW i \in 1..(Len(q) - 1)
                   PROVE  i \in DOMAIN q2 /\ q2[i] = q[i] /\ i \in DOMAIN q /\ q[i].reply # h.reply
        OBVIOUS
      <4>1. i \in DOMAIN q2 /\ i \in DOMAIN q /\ i # Len(q)
        BY <2>5, <2>9, <2>10
      <4>2. q2[i] = q[i]
        BY <4>1, <2>11
      <4> QED BY <4>1, <4>2, <2>2, <2>5, <2>6 DEF EachOnce
    <3>2. \A i \in DOMAIN s : Len(q) - 1 + i \in DOMAIN q2 /\ q2[Len(q) - 1 + i] = s[i]
      <4> SUFFICES ASSUME NEW i \in DOMAIN s PROVE Len(q) - 1 + i \in DOMAIN q2 /\ q2[Len(q) - 1 + i] = s[i]
        OBVIOUS
      <4>1. Len(q) - 1 + i \in DOMAIN q2 /\ ~(Len(q) - 1 + i <= Len(q) - 1) /\ (Len(q) - 1 + i) - (Len(q) - 1) = i
        BY <2>5, <2>8, <2>9, <2>10
      <4> QED BY <4>1, <2>11
    <3>3. ASSUME NEW r \in RepliesIn(q2) PROVE r \in (Q \ {h.reply}) \cup RepliesIn(s)
      <4>1. PICK i \in DOMAIN q2 : r = q2[i].reply
        BY <3>3 DEF RepliesIn
      <4> QED BY <4>1, <2>11, <2>13, <3>1
    <3>4. ASSUME NEW r \in Q, r # h.reply PROVE r \in RepliesIn(q2)
      <4>1. PICK i \in DOMAIN q : r = q[i].reply
        BY <3>4 DEF RepliesIn
      <4>2. i \in 1..(Len(q) - 1)
        BY <4>1, <3>4, <2>5, <2>9
      <4> QED BY <4>1, <4>2, <3>1 DEF RepliesIn
    <3>5. ASSUME NEW r \in RepliesIn(s) PROVE r \in RepliesIn(q2)
      <4>1. PICK i \in DOMAIN s : r = s[i].reply
        BY <3>5 DEF RepliesIn
      <4> QED BY <4>1, <3>2 DEF RepliesIn
    <3> QED BY <3>3, <3>4, <3>5
  <2>16. /\ \A r \in Q \cup O : r \in 1..k /\ P(r) \in O \cup {0}
         /\ \A r \in RepliesIn(s) : r \in 1..k /\ P(r) = h.reply /\ r \notin Q /\ r \notin O /\ r # h.reply
         /\ h.reply # 0
    <3>1. \A r \in Q \cup O : r \in 1..k
      BY <2>13 DEF RepliesIn
    <3>2. \A r \in Q \cup O : P(r) \in O \cup {0}
      BY <2>2, <3>1
    <3>3. h.reply # 0
      BY <2>6
    <3>4. \A r \in RepliesIn(s) : r \in 1..k /\ P(r) = h.reply
      BY <2>8
    <3>5. \A r \in RepliesIn(s) : r \notin Q \cup O
      BY <3>2, <3>3, <3>4, <2>6
    <3> QED BY <3>1, <3>2, <3>3, <3>4, <3>5, <2>6
  <2>17. EachOnce(o2)
    <3> SUFFICES ASSUME NEW i \in DOMAIN o2, NEW j \in DOMAIN o2, o2[i].reply = o2[j].reply PROVE i = j
      BY DEF EachOnce
    <3>1. \A x \in DOMAIN o2 : (x \in DOMAIN o /\ o2[x] = o[x] /\ o2[x].reply # h.reply) \/ (x = Len(o) + 1 /\ o2[x] = h)
      <4>1. \A x \in DOMAIN o2 : (x \in DOMAIN o /\ o2[x] = o[x]) \/ (x = Len(o) + 1 /\ o2[x] = h)
        BY <2>9, <2>12
      <4>2. \A x \in DOMAIN o : o[x].reply # h.reply
        BY <2>6, <2>13
      <4> QED BY <4>1, <4>2
    <3>2. CASE i \in DOMAIN o /\ j \in DOMAIN o
      BY <3>1, <3>2, <2>2, <2>9, <2>12 DEF EachOnce
    <3> QED BY <3>1, <3>2
  <2>18. EachOnce(q2)
    <3> SUFFICES ASSUME NEW i \in DOMAIN q2, NEW j \in DOMAIN q2, q2[i].reply = q2[j].reply PROVE i = j
      BY DEF EachOnce
    <3> DEFINE l == Len(q) - 1
    <3>1. \A x \in DOMAIN q2 : \/ x \in 1..l /\ x \in DOMAIN q /\ q2[x] = q[x] /\ q2[x].reply \in Q
                               \/ ~(x <= l) /\ x - l \in DOMAIN s /\ q2[x] = s[x - l] /\ q2[x].reply \in RepliesIn(s)
      <4>1. \A x \in 1..(Len(q) - 1) : x \in DOMAIN q /\ q[x].reply \in Q
        BY <2>5, <2>9, <2>13
      <4>2. \A x \in DOMAIN s : s[x].reply \in RepliesIn(s)
        BY <2>13
      <4> QED BY <4>1, <4>2, <2>11
    <3>2. i \in Int /\ j \in Int /\ l \in Int
      BY <2>5, <2>10
    <3> HIDE DEF l
    <3>3. CASE i <= l /\ j <= l
      BY <3>1, <3>3, <2>2 DEF EachOnce
    <3>4. CASE ~(i <= l) /\ ~(j <= l)
      <4>1. i - l = j - l
        BY <3>1, <3>4, <2>8 DEF EachOnce
      <4> QED BY <4>1, <3>2
    <3>5. CASE ~(i <= l <=> j <= l)
      BY <3>1, <3>5, <2>16
    <3> QED BY <3>3, <3>4, <3>5
  <2>19. RepliesIn(q2) \cap RepliesIn(o2) = {}
    BY <2>2, <2>14, <2>15, <2>16
  <2>20. ASSUME NEW r \in 1..k
         PROVE  r \in RepliesIn(q2) \cup RepliesIn(o2) <=> r \in reading.liked /\ P(r) \in RepliesIn(o2) \cup {0}
    <3>1. r \in RepliesIn(q2) \cup RepliesIn(o2) <=> r \in Q \cup O \/ r \in RepliesIn(s)
      BY <2>6, <2>14, <2>15
    <3>2. r \in RepliesIn(s) <=> P(r) = h.reply /\ r \in reading.liked
      BY <2>8
    <3>3. r \in Q \cup O <=> r \in reading.liked /\ P(r) \in O \cup {0}
      BY <2>2
    <3> HIDE DEF P, Q, O
    <3> QED BY <3>1, <3>2, <3>3, <2>14
  <2>21. ASSUME NEW i \in DOMAIN o2, NEW j \in DOMAIN o2, Siblings(o2[i], o2[j]), o2[i].reply < o2[j].reply PROVE i < j
    <3>1. \A x \in DOMAIN o2 : (x \in DOMAIN o /\ o2[x] = o[x]) \/ (x = Len(o) + 1 /\ o2[x] = h)
      BY <2>9, <2>12
    <3>2. CASE i \in DOMAIN o /\ j \in DOMAIN o
      BY <3>2, <2>3, <2>9, <2>12, <2>21
    <3>3. CASE i \in DOMAIN o /\ j = Len(o) + 1
      BY <3>3, <2>9
    <3>4. CASE i = Len(o) + 1 /\ j \in DOMAIN o
      <4>1. Siblings(q[Len(q)], o[j]) /\ o[j].reply > q[Len(q)].reply
        BY <3>4, <2>5, <2>9, <2>12, <2>21
      <4>2. o[j].reply < q[Len(q)].reply
        BY <4>1, <3>4, <2>3, <2>6
      <4>3. o[j].reply \in 1..k /\ q[Len(q)].reply \in 1..k
        BY <3>4, <2>6, <2>13
      <4> QED BY <4>1, <4>2, <4>3
    <3>5. CASE i = Len(o) + 1 /\ j = Len(o) + 1
      BY <3>5, <2>21, <2>12, <2>6
    <3> QED BY <3>1, <3>2, <3>3, <3>4, <3>5
  <2>22. \A x \in DOMAIN q2 :
             \/ /\ x \in 1..(Len(q) - 1) /\ x \in DOMAIN q /\ q2[x] = q[x] /\ q2[x].reply \in Q
                /\ P(q2[x].reply) \in O \cup {0}
             \/ /\ ~(x <= Len(q) - 1) /\ x - (Len(q) - 1) \in DOMAIN s /\ q2[x] = s[x - (Len(q) - 1)]
                /\ q2[x].reply \in RepliesIn(s) /\ P(q2[x].reply) = h.reply
    <3>1. \A x \in 1..(Len(q) - 1) : x \in DOMAIN q /\ q[x].reply \in Q /\ P(q[x].reply) \in O \cup {0}
      <4>1. \A x \in 1..(Len(q) - 1) : x \in DOMAIN q /\ q[x].reply \in Q
        BY <2>5, <2>9, <2>13
      <4> HIDE DEF P, Q, O
      <4> QED BY <4>1, <2>16
    <3>2. \A x \in DOMAIN s : s[x].reply \in RepliesIn(s) /\ P(s[x].reply) = h.reply
      BY <2>13, <2>16
    <3> HIDE DEF P, Q, O
    <3> QED BY <3>1, <3>2, <2>11
  <2>23. h.reply \notin O \cup {0}
    BY <2>6
  <2>24. ASSUME NEW i \in DOMAIN q2, NEW j \in DOMAIN q2, Siblings(q2[i], q2[j]), q2[i].reply < q2[j].reply PROVE j < i
    <3> DEFINE l == Len(q) - 1
    <3>1. P(q2[i].reply) = P(q2[j].reply)
      BY <2>24 DEF Siblings
    <3>2. i \in Int /\ j \in Int /\ l \in Int
      BY <2>5, <2>10
    <3>3. CASE i \in 1..l /\ j \in 1..l
      <4>1. i \in DOMAIN q /\ j \in DOMAIN q /\ q2[i] = q[i] /\ q2[j] = q[j]
        BY <2>22, <3>2, <3>3
      <4> QED BY <4>1, <2>3, <2>24
    <3>4. CASE ~(i <= l) /\ ~(j <= l)
      <4>1. i - l \in DOMAIN s /\ j - l \in DOMAIN s /\ s[i - l].reply < s[j - l].reply
        BY <2>22, <2>24, <3>4
      <4>2. j - l < i - l
        BY <4>1, <2>8
      <4> QED BY <4>2, <3>2
    <3>5. (i \in 1..l \/ ~(i <= l)) /\ (j \in 1..l \/ ~(j <= l))
      BY <2>22
    <3>6. CASE ~(i <= l <=> j <= l)
      BY <2>22, <2>23, <3>1, <3>6
    <3> QED BY <3>2, <3>3, <3>4, <3>5, <3>6
  <2>25. ASSUME NEW i \in DOMAIN q2, NEW j \in DOMAIN o2, Siblings(q2[i], o2[j]) PROVE o2[j].reply < q2[i].reply
    <3>1. P(q2[i].reply) = P(o2[j].reply)
      BY <2>25 DEF Siblings
    <3>2. (j \in DOMAIN o /\ o2[j] = o[j]) \/ o2[j] = q[Len(q)]
      BY <2>5, <2>9, <2>12
    <3>3. P(o2[j].reply) \in O \cup {0}
      BY <3>2, <2>6, <2>13, <2>16
    <3>4. i \in 1..(Len(q) - 1) /\ i \in DOMAIN q /\ q2[i] = q[i]
      BY <3>1, <3>3, <2>22, <2>23
    <3>5. CASE j \in DOMAIN o /\ o2[j] = o[j]
      BY <3>4, <3>5, <2>3, <2>25
    <3>6. CASE o2[j] = q[Len(q)]
      <4>1. Siblings(q[i], q[Len(q)])
        BY <3>4, <3>6, <2>25
      <4>2. ~(q[i].reply < q[Len(q)].reply)
        <5>1. ~(Len(q) < i)
          BY <3>4, <2>5
        <5> QED BY <4>1, <5>1, <3>4, <2>3, <2>6
      <4>3. q[i].reply # q[Len(q)].reply
        <5>1. i # Len(q)
          BY <3>4, <2>5
        <5> QED BY <5>1, <3>4, <2>2, <2>6 DEF EachOnce
      <4>4. q[i].reply \in 1..k /\ q[Len(q)].reply \in 1..k
        BY <3>4, <2>6, <2>13
      <4> QED BY <4>2, <4>3, <4>4, <3>4, <3>6
    <3> QED BY <3>2, <3>5, <3>6
  <2>26. ASSUME NEW e, NEW i \in 1..(Len(o) + 1), Under(o, e, i) PROVE Under(o2, e, i)
    <3>1. \A j \in 1..(i - 1) : o2[j] = o[j]
      BY <2>9, <2>12
    <3> QED BY <3>1, <2>26 DEF Under
  <2>27. ASSUME NEW i \in DOMAIN o2 PROVE Under(o2, o2[i], i)
    <3>1. i \in 1..(Len(o) + 1) /\ ((i \in DOMAIN o /\ o2[i] = o[i]) \/ (i = Len(o) + 1 /\ o2[i] = q[Len(q)]))
      BY <2>5, <2>9, <2>12
    <3>2. Under(o, o2[i], i)
      BY <3>1, <2>4, <2>6
    <3> QED BY <3>1, <3>2, <2>26
  <2>28. ASSUME NEW i \in DOMAIN q2 PROVE Under(o2, q2[i], Len(o2) + 1)
    <3>1. CASE i \in DOMAIN q /\ q2[i] = q[i]
      <4>1. Under(o, q2[i], Len(o) + 1)
        BY <3>1, <2>4
      <4>2. Under(o2, q2[i], Len(o) + 1)
        BY <4>1, <2>9, <2>26
      <4>3. 1..((Len(o) + 1) - 1) \subseteq 1..((Len(o2) + 1) - 1)
        BY <2>9, <2>12
      <4> QED BY <4>2, <4>3 DEF Under
    <3>2. CASE i - (Len(q) - 1) \in DOMAIN s /\ q2[i] = s[i - (Len(q) - 1)] /\ P(q2[i].reply) = h.reply
      <4>1. q2[i].depth = h.depth + 1 /\ served.parent[q2[i].reply] = h.reply
        BY <3>2, <2>8
      <4>2. Len(o) + 1 \in 1..((Len(o2) + 1) - 1) /\ o2[Len(o) + 1].reply = h.reply /\ q2[i].depth = o2[Len(o) + 1].depth + 1
        BY <4>1, <2>9, <2>12
      <4> QED BY <4>1, <4>2, <2>16 DEF Under
    <3> QED BY <3>1, <3>2, <2>22
  <2>29. v.todo = q2 /\ v.out = o2 /\ v \in [todo : Seq(Entry(k)), out : Seq(Entry(k))]
    BY <2>10, <2>12
  <2> HIDE DEF v, P, Q, O
  <2>30. TreeInv(k, v)
    <3>1. \A r \in 1..k : r \in RepliesIn(q2) \cup RepliesIn(o2) <=>
                             r \in reading.liked /\ served.parent[r] \in RepliesIn(o2) \cup {0}
      BY <2>20 DEF P
    <3>2. \A i, j \in DOMAIN o2 : Siblings(o2[i], o2[j]) /\ o2[i].reply < o2[j].reply => i < j
      BY <2>21
    <3>3. \A i, j \in DOMAIN q2 : Siblings(q2[i], q2[j]) /\ q2[i].reply < q2[j].reply => j < i
      BY <2>24
    <3>4. \A i \in DOMAIN q2, j \in DOMAIN o2 : Siblings(q2[i], o2[j]) => o2[j].reply < q2[i].reply
      BY <2>25
    <3>5. (\A i \in DOMAIN o2 : Under(o2, o2[i], i)) /\ \A i \in DOMAIN q2 : Under(o2, q2[i], Len(o2) + 1)
      BY <2>27, <2>28
    <3> QED BY <2>10, <2>12, <2>17, <2>18, <2>19, <2>29, <3>1, <3>2, <3>3, <3>4, <3>5 DEF TreeInv
  <2> QED BY <2>7, <2>12, <2>29, <2>30 DEF TreeStates, o
<1> QED BY <1>1, <1>2

Descents(t) ==
    t = [k \in 0..Len(KeptContext.replies) |-> IF k = 0 THEN TreeBegins ELSE DescendOn(t[k - 1])]

LEMMA DescendIs ==
    ASSUME NEW n, TreeOf(n)
    PROVE  Descend[0] = TreeBegins /\ \A k \in 1..n : Descend[k] = DescendOn(Descend[k - 1])
<1> DEFINE X == TreeStates(n)
           F == [p \in (1..n) \X X |-> DescendOn(p[2])]
<1>1. n \in Nat /\ Len(KeptContext.replies) = n /\ TreeBegins \in X
  BY TreeStarts, UpToIs DEF TreeOf
<1>2. F \in [(1..n) \X X -> X]
  <2>1. \A w \in X : DescendOn(w) \in X
    BY TreeGoesOn
  <2> HIDE DEF X
  <2> QED BY <2>1
<1>3. \A k \in 1..n, w \in X : F[<<k, w>>] = DescendOn(w)
  <2> HIDE DEF X
  <2> QED OBVIOUS
<1> HIDE DEF X, F
<1>4. PICK t \in [0..n -> X] : Iterated(t, F, TreeBegins, n)
  BY <1>1, <1>2, Iterates
<1>5. t = [k \in 0..n |-> IF k = 0 THEN TreeBegins ELSE DescendOn(t[k - 1])]
  <2>1. t = [k \in 0..n |-> IF k = 0 THEN TreeBegins ELSE F[<<k, t[k - 1]>>]]
    BY <1>4 DEF Iterated
  <2>2. \A k \in 0..n : k # 0 => F[<<k, t[k - 1]>>] = DescendOn(t[k - 1])
    <3>1. \A k \in 0..n : k # 0 => k \in 1..n /\ t[k - 1] \in X
      BY <1>1
    <3> QED BY <3>1, <1>3
  <2> QED BY <2>1, <2>2
<1>6. Descents(t)
  BY <1>1, <1>5 DEF Descents
<1>7. Descend = CHOOSE u : Descents(u)
  BY Zenon DEF Descend, Descents, TreeBegins
<1>8. Descents(Descend)
  BY <1>6, <1>7
<1> QED BY <1>1, <1>8 DEF Descents

\* The walk ends within its turns.
LEMMA TreeIsWalked ==
    ASSUME NEW n, TreeOf(n)
    PROVE  TreeInv(n, [todo |-> <<>>, out |-> Descendants])
<1>1. n \in Nat /\ Len(KeptContext.replies) = n
  BY UpToIs DEF TreeOf
<1>2. Descend[0] = TreeBegins
  BY DescendIs
<1>3. \A k \in 1..n : Descend[k] = DescendOn(Descend[k - 1])
  BY DescendIs
<1> DEFINE S == {k \in 0..n : /\ Descend[k] \in TreeStates(n)
                              /\ Descend[k].todo # <<>> => Len(Descend[k].out) = k}
<1>4. 0 \in S
  <2>1. Descend[0] \in TreeStates(n)
    BY <1>2, TreeStarts
  <2>2. Descend[0].out = <<>>
    BY <1>2 DEF TreeBegins
  <2>3. Len(Descend[0].out) = 0
    BY <2>2
  <2> QED BY <1>1, <2>1, <2>3
<1>5. ASSUME NEW k \in 1..n, k - 1 \in S PROVE k \in S
  <2> DEFINE w == Descend[k - 1]
  <2>1. w \in TreeStates(n) /\ (w.todo # <<>> => Len(w.out) = k - 1) /\ Descend[k] = DescendOn(w)
    BY <1>3, <1>5
  <2> HIDE DEF w
  <2>2. DescendOn(w) \in TreeStates(n)
    BY <2>1, TreeGoesOn
  <2>3. w.todo # <<>> => Len(DescendOn(w).out) = k
    <3>1. w.todo # <<>> => Len(DescendOn(w).out) = Len(w.out) + 1
      BY <2>1, TreeGoesOn
    <3> QED BY <2>1, <3>1
  <2>4. w.todo = <<>> => DescendOn(w).todo = <<>>
    BY DEF DescendOn
  <2> QED BY <2>1, <2>2, <2>3, <2>4
<1>6. n \in S
  <2>1. \A k \in 0..n : k \in S
    <3> HIDE DEF S
    <3> QED BY <1>1, <1>4, <1>5, CountsUp
  <2>2. n \in 0..n
    BY <1>1
  <2> HIDE DEF S
  <2> QED BY <2>1, <2>2
<1> DEFINE w == Descend[n]
           q == w.todo
           o == w.out
<1>7. w \in TreeStates(n) /\ (q # <<>> => Len(o) = n) /\ Descendants = o
  BY <1>1, <1>6 DEF Descendants
<1>8. /\ q \in Seq(Entry(n)) /\ o \in Seq(Entry(n)) /\ EachOnce(o) /\ RepliesIn(q) \cap RepliesIn(o) = {}
  BY <1>7 DEF TreeStates, TreeInv
<1>9. TreeInv(n, w) /\ w = [todo |-> q, out |-> o]
  BY <1>7 DEF TreeStates
<1> HIDE DEF w, q, o
<1>10. ASSUME q # <<>> PROVE FALSE
  <2> DEFINE f == [i \in 1..n |-> o[i].reply]
  <2>1. DOMAIN o = 1..n
    BY <1>7, <1>8, <1>10
  <2>2. \A i \in 1..n : o[i].reply \in 1..n
    <3>1. \A i \in DOMAIN o : o[i] \in Entry(n)
      BY <1>8
    <3>2. \A i \in 1..n : o[i] \in Entry(n)
      BY <2>1, <3>1
    <3> QED BY <3>2 DEF Entry
  <2>3. \A i, j \in 1..n : o[i].reply = o[j].reply => i = j
    BY <1>8, <2>1 DEF EachOnce
  <2>4. f \in Injection(1..n, 1..n)
    BY <2>2, <2>3 DEF Injection, IsInjective
  <2>5. IsFiniteSet(1..n)
    BY <1>1, FS_Interval
  <2>6. f \in Surjection(1..n, 1..n)
    <3> HIDE DEF f
    <3> QED BY <2>4, <2>5, FS_Injection
  <2>7. \A r \in 1..n : \E i \in 1..n : o[i].reply = r
    BY <2>6 DEF Surjection
  <2>8. q[1] \in Entry(n) /\ 1 \in DOMAIN q
    BY <1>8, <1>10
  <2>9. q[1].reply \in RepliesIn(q) /\ q[1].reply \in 1..n
    BY <2>8 DEF RepliesIn, Entry
  <2>10. q[1].reply \in RepliesIn(o)
    BY <2>1, <2>7, <2>9 DEF RepliesIn
  <2> QED BY <1>8, <2>9, <2>10
<1> QED BY <1>7, <1>9, <1>10

-----------------------------------------------------------------------------
\* Text.

LineType == [of : Nat, size : Nat]
Summed(t, lines, m) == t = [n \in 0..m |-> IF n = 0 THEN 0 ELSE t[n - 1] + lines[n].size + 1]

LEMMA SizeIsIn == ASSUME NEW lines \in Seq(LineType), NEW n \in 1..Len(lines) PROVE lines[n].size \in Nat /\ lines[n].of \in Nat
<1>1. lines[n] \in LineType
  OBVIOUS
<1> QED BY <1>1 DEF LineType

LEMMA SumExists ==
    ASSUME NEW lines \in Seq(LineType)
    PROVE  \E t \in [0..Len(lines) -> Nat] : Summed(t, lines, Len(lines))
<1> DEFINE L == Len(lines)
           F == [p \in (1..L) \X Nat |-> p[2] + lines[p[1]].size + 1]
<1>1. L \in Nat
  OBVIOUS
<1>2. \A n \in 1..L : lines[n].size \in Nat
  BY SizeIsIn
<1> HIDE DEF L
<1>3. F \in [(1..L) \X Nat -> Nat]
  BY <1>2
<1>4. \A n \in 1..L, x \in Nat : F[<<n, x>>] = x + lines[n].size + 1
  OBVIOUS
<1> HIDE DEF F
<1>5. PICK t \in [0..L -> Nat] : Iterated(t, F, 0, L)
  BY <1>1, <1>3, Iterates
<1>6. t = [n \in 0..L |-> IF n = 0 THEN 0 ELSE F[<<n, t[n - 1]>>]]
  BY <1>5 DEF Iterated
<1>7. \A n \in 0..L : n # 0 => F[<<n, t[n - 1]>>] = t[n - 1] + lines[n].size + 1
  <2>1. \A n \in 0..L : n # 0 => n \in 1..L /\ t[n - 1] \in Nat
    BY <1>1
  <2> QED BY <2>1, <1>4
<1>8. t = [n \in 0..L |-> IF n = 0 THEN 0 ELSE t[n - 1] + lines[n].size + 1]
  BY <1>6, <1>7
<1>9. Summed(t, lines, L)
  BY <1>8 DEF Summed
<1> QED BY <1>9 DEF L

LEMMA SumsAgree ==
    ASSUME NEW L \in Nat, NEW lines, NEW t, NEW u, Summed(t, lines, L), Summed(u, lines, L)
    PROVE  t[L] = u[L]
<1> DEFINE S == {n \in 0..L : t[n] = u[n]}
<1>1. \A n \in 0..L : t[n] = IF n = 0 THEN 0 ELSE t[n - 1] + lines[n].size + 1
  BY DEF Summed
<1>2. \A n \in 0..L : u[n] = IF n = 0 THEN 0 ELSE u[n - 1] + lines[n].size + 1
  BY DEF Summed
<1>3. 0 \in S
  BY <1>1, <1>2
<1>4. ASSUME NEW n \in 1..L, n - 1 \in S PROVE n \in S
  BY <1>1, <1>2, <1>4
<1>5. \A n \in 0..L : n \in S
  <2> HIDE DEF S
  <2> QED BY <1>3, <1>4, CountsUp
<1> QED BY <1>5

LEMMA RenderedIs ==
    ASSUME NEW lines \in Seq(LineType), NEW t, Summed(t, lines, Len(lines))
    PROVE  Rendered(lines) = t[Len(lines)]
<1> DEFINE L == Len(lines)
           c == CHOOSE u : Summed(u, lines, L)
<1>1. Rendered(lines) = c[L]
  BY Zenon DEF Rendered, Summed
<1>2. Summed(c, lines, L)
  OBVIOUS
<1>3. L \in Nat
  OBVIOUS
<1> HIDE DEF c, L
<1>4. Summed(t, lines, L)
  BY DEF L
<1>5. c[L] = t[L]
  BY <1>2, <1>3, <1>4, SumsAgree
<1> QED BY <1>1, <1>5 DEF L

LEMMA RenderedNone == Rendered(<<>>) = 0
<1> DEFINE t == [n \in 0..0 |-> 0]
<1>1. t = [n \in 0..0 |-> IF n = 0 THEN 0 ELSE t[n - 1] + <<>>[n].size + 1]
  OBVIOUS
<1>2. Len(<<>>) = 0 /\ <<>> \in Seq(LineType)
  OBVIOUS
<1>3. Summed(t, <<>>, Len(<<>>))
  BY <1>1, <1>2 DEF Summed
<1>4. t[Len(<<>>)] = 0
  BY <1>2
<1> HIDE DEF t
<1>5. Rendered(<<>>) = t[Len(<<>>)]
  BY <1>2, <1>3, RenderedIs
<1> QED BY <1>4, <1>5

LEMMA RenderedMore ==
    ASSUME NEW lines \in Seq(LineType), NEW l \in LineType
    PROVE  Rendered(lines) \in Nat /\ Rendered(Append(lines, l)) = Rendered(lines) + l.size + 1
<1> DEFINE L == Len(lines)
           more == Append(lines, l)
<1>1. L \in Nat /\ more \in Seq(LineType) /\ Len(more) = L + 1 /\ more[L + 1] = l /\ \A n \in 1..L : more[n] = lines[n]
  OBVIOUS
<1> HIDE DEF more
<1>2. PICK t \in [0..(L + 1) -> Nat] : Summed(t, more, L + 1)
  BY <1>1, SumExists
<1> DEFINE u == [n \in 0..L |-> t[n]]
<1>3. \A n \in 0..(L + 1) : t[n] = IF n = 0 THEN 0 ELSE t[n - 1] + more[n].size + 1
  BY <1>2 DEF Summed
<1>4. ASSUME NEW n \in 0..L PROVE u[n] = IF n = 0 THEN 0 ELSE u[n - 1] + lines[n].size + 1
  <2>1. u[n] = t[n] /\ n \in 0..(L + 1)
    BY <1>1
  <2>2. CASE n = 0
    BY <2>1, <2>2, <1>3
  <2>3. CASE n # 0
    <3>1. n - 1 \in 0..L /\ n \in 1..L
      BY <1>1, <2>3
    <3>2. u[n - 1] = t[n - 1]
      BY <3>1
    <3>3. more[n] = lines[n]
      BY <1>1, <3>1
    <3>4. t[n] = t[n - 1] + more[n].size + 1
      BY <1>3, <2>1, <2>3
    <3> HIDE DEF u
    <3> QED BY <2>1, <2>3, <3>2, <3>3, <3>4
  <2> QED BY <2>2, <2>3
<1>5. u = [n \in 0..L |-> u[n]] /\ u[L] = t[L] /\ u[L] \in Nat
  BY <1>1, <1>2
<1> HIDE DEF u
<1>6. u = [n \in 0..L |-> IF n = 0 THEN 0 ELSE u[n - 1] + lines[n].size + 1]
  BY <1>4, <1>5
<1>7. Summed(u, lines, L)
  BY <1>6 DEF Summed
<1>8. Rendered(lines) = u[L]
  BY <1>7, RenderedIs
<1>9. Rendered(more) = t[L + 1]
  BY <1>1, <1>2, RenderedIs
<1>10. t[L + 1] = t[L] + l.size + 1
  <2>1. L + 1 \in 0..(L + 1) /\ L + 1 # 0 /\ (L + 1) - 1 = L
    BY <1>1
  <2> QED BY <2>1, <1>1, <1>3
<1> QED BY <1>5, <1>8, <1>9, <1>10 DEF more

-----------------------------------------------------------------------------
\* Groups of lines laid end to end.

FlattenOn(t, gs, m) == t = [i \in 0..m |-> IF i = 0 THEN <<>> ELSE t[i - 1] \o gs[i]]
Flat(t, gs) == t = [i \in 1..Len(gs) |-> IF i = 1 THEN gs[i] ELSE t[i - 1] \o gs[i]]

LEMMA FlatExists ==
    ASSUME NEW T, NEW gs \in Seq(Seq(T))
    PROVE  \E t \in [0..Len(gs) -> Seq(T)] : FlattenOn(t, gs, Len(gs))
<1> DEFINE L == Len(gs)
           X == Seq(T)
           F == [p \in (1..L) \X X |-> p[2] \o gs[p[1]]]
<1>1. L \in Nat /\ <<>> \in X
  OBVIOUS
<1>2. \A n \in 1..L : gs[n] \in Seq(T)
  OBVIOUS
<1>3. \A n \in 1..L, x \in X : x \o gs[n] \in X
  BY <1>2
<1> HIDE DEF L, X
<1>4. F \in [(1..L) \X X -> X]
  BY <1>3
<1>5. \A n \in 1..L, x \in X : F[<<n, x>>] = x \o gs[n]
  OBVIOUS
<1> HIDE DEF F
<1>6. PICK t \in [0..L -> X] : Iterated(t, F, <<>>, L)
  BY <1>1, <1>4, Iterates
<1>7. t = [n \in 0..L |-> IF n = 0 THEN <<>> ELSE F[<<n, t[n - 1]>>]]
  BY <1>6 DEF Iterated
<1>8. \A n \in 0..L : n # 0 => F[<<n, t[n - 1]>>] = t[n - 1] \o gs[n]
  <2>1. \A n \in 0..L : n # 0 => n \in 1..L /\ t[n - 1] \in X
    BY <1>1
  <2> QED BY <2>1, <1>5
<1>9. t = [n \in 0..L |-> IF n = 0 THEN <<>> ELSE t[n - 1] \o gs[n]]
  BY <1>7, <1>8
<1>10. FlattenOn(t, gs, L)
  BY <1>9 DEF FlattenOn
<1> QED BY <1>10 DEF L, X

LEMMA FlatIs ==
    ASSUME NEW T, NEW gs \in Seq(Seq(T)), NEW t \in [0..Len(gs) -> Seq(T)], FlattenOn(t, gs, Len(gs))
    PROVE  FlattenSeq(gs) = t[Len(gs)]
<1> DEFINE L == Len(gs)
<1>1. L \in Nat /\ DOMAIN gs = 1..L
  OBVIOUS
<1>2. \A i \in 0..L : t[i] = IF i = 0 THEN <<>> ELSE t[i - 1] \o gs[i]
  BY DEF FlattenOn
<1>3. \A i \in 1..L : gs[i] \in Seq(T)
  OBVIOUS
<1>4. L = 0 => gs = <<>>
  OBVIOUS
<1>5. Len(gs) = L
  OBVIOUS
<1> HIDE DEF L
<1>6. CASE L = 0
  <2>1. gs = <<>> /\ t[0] = <<>>
    BY <1>1, <1>2, <1>6, <1>4
  <2>2. FlattenSeq(gs) = gs
    BY <1>6, <1>5 DEF FlattenSeq
  <2> QED BY <1>6, <2>1, <2>2
<1>7. CASE L # 0
  <2> DEFINE u == [i \in 1..L |-> t[i]]
             c == CHOOSE v : Flat(v, gs)
  <2>1. ASSUME NEW i \in 1..L PROVE u[i] = IF i = 1 THEN gs[i] ELSE u[i - 1] \o gs[i]
    <3>1. u[i] = t[i] /\ i \in 0..L /\ i # 0 /\ t[i] = t[i - 1] \o gs[i] /\ gs[i] \in Seq(T)
      <4>1. i \in 0..L /\ i # 0
        BY <1>1
      <4>2. t[i] = t[i - 1] \o gs[i]
        BY <1>2, <4>1
      <4> QED BY <1>3, <4>1, <4>2
    <3>2. CASE i = 1
      <4>1. t[0] = <<>>
        BY <1>1, <1>2
      <4>2. t[i] = <<>> \o gs[i]
        <5>1. i - 1 = 0
          BY <3>2
        <5> QED BY <3>1, <4>1, <5>1
      <4>3. <<>> \o gs[i] = gs[i]
        BY <3>1
      <4> QED BY <3>1, <3>2, <4>2, <4>3
    <3>3. CASE i # 1
      <4>1. i - 1 \in 1..L
        BY <1>1, <3>3
      <4>2. u[i - 1] = t[i - 1]
        BY <4>1
      <4> HIDE DEF u
      <4> QED BY <3>1, <3>3, <4>2
    <3> QED BY <3>2, <3>3
  <2>2. u = [i \in 1..L |-> u[i]]
    OBVIOUS
  <2>3. Flat(u, gs)
    <3> HIDE DEF u
    <3> QED BY <2>1, <2>2, <1>5 DEF Flat
  <2>4. u[L] = t[L]
    BY <1>1, <1>7
  <2> HIDE DEF u
  <2>5. Flat(c, gs)
    BY <2>3
  <2>6. FlattenSeq(gs) = c[L]
    BY <1>7, <1>5, Zenon DEF FlattenSeq, Flat
  <2> HIDE DEF c
  <2>7. \A i \in 1..L : c[i] = IF i = 1 THEN gs[i] ELSE c[i - 1] \o gs[i]
    BY <2>5, <1>5 DEF Flat
  <2> DEFINE S == {i \in 0..L : i = 0 \/ c[i] = u[i]}
  <2>8. 0 \in S
    BY <1>1
  <2>9. ASSUME NEW i \in 1..L, i - 1 \in S PROVE i \in S
    <3>1. CASE i = 1
      BY <3>1, <2>1, <2>7
    <3>2. CASE i # 1
      <4>1. c[i - 1] = u[i - 1]
        BY <2>9, <3>2
      <4>2. c[i] = c[i - 1] \o gs[i] /\ u[i] = u[i - 1] \o gs[i]
        BY <2>1, <2>7, <3>2
      <4>3. c[i] = u[i] /\ i \in 0..L
        BY <4>1, <4>2
      <4> QED BY <4>3
    <3> QED BY <3>1, <3>2
  <2>10. \A i \in 0..L : i \in S
    <3> HIDE DEF S
    <3> QED BY <1>1, <2>8, <2>9, CountsUp
  <2>11. c[L] = u[L]
    <3>1. L \in 0..L
      BY <1>1
    <3> QED BY <1>7, <2>10, <3>1
  <2> QED BY <2>4, <2>6, <2>11, <1>5
<1> QED BY <1>6, <1>7, <1>1

LEMMA FlatNone == FlattenSeq(<<>>) = <<>>
<1>1. Len(<<>>) = 0
  OBVIOUS
<1> QED BY <1>1 DEF FlattenSeq

LEMMA FlatMore ==
    ASSUME NEW T, NEW gs \in Seq(Seq(T)), NEW g \in Seq(T)
    PROVE  FlattenSeq(gs) \in Seq(T) /\ FlattenSeq(Append(gs, g)) = FlattenSeq(gs) \o g
<1> DEFINE L == Len(gs)
           more == Append(gs, g)
<1>1. L \in Nat /\ more \in Seq(Seq(T)) /\ Len(more) = L + 1 /\ more[L + 1] = g /\ \A n \in 1..L : more[n] = gs[n]
  OBVIOUS
<1> HIDE DEF more
<1>2. PICK t \in [0..(L + 1) -> Seq(T)] : FlattenOn(t, more, L + 1)
  BY <1>1, FlatExists
<1> DEFINE u == [n \in 0..L |-> t[n]]
<1>3. \A n \in 0..(L + 1) : t[n] = IF n = 0 THEN <<>> ELSE t[n - 1] \o more[n]
  BY <1>2 DEF FlattenOn
<1>4. ASSUME NEW n \in 0..L PROVE u[n] = IF n = 0 THEN <<>> ELSE u[n - 1] \o gs[n]
  <2>1. u[n] = t[n] /\ n \in 0..(L + 1)
    BY <1>1
  <2>2. CASE n = 0
    BY <2>1, <2>2, <1>3
  <2>3. CASE n # 0
    <3>1. n - 1 \in 0..L /\ n \in 1..L
      BY <1>1, <2>3
    <3>2. u[n - 1] = t[n - 1]
      BY <3>1
    <3>3. more[n] = gs[n]
      BY <1>1, <3>1
    <3>4. t[n] = t[n - 1] \o more[n]
      BY <1>3, <2>1, <2>3
    <3> HIDE DEF u
    <3> QED BY <2>1, <2>3, <3>2, <3>3, <3>4
  <2> QED BY <2>2, <2>3
<1>5. u = [n \in 0..L |-> u[n]] /\ u[L] = t[L] /\ u[L] \in Seq(T) /\ u \in [0..L -> Seq(T)]
  BY <1>1, <1>2
<1> HIDE DEF u
<1>6. u = [n \in 0..L |-> IF n = 0 THEN <<>> ELSE u[n - 1] \o gs[n]]
  BY <1>4, <1>5
<1>7. FlattenOn(u, gs, L)
  BY <1>6 DEF FlattenOn
<1>8. FlattenSeq(gs) = u[L]
  BY <1>5, <1>7, FlatIs
<1>9. FlattenSeq(more) = t[L + 1]
  <2>1. t \in [0..Len(more) -> Seq(T)] /\ FlattenOn(t, more, Len(more)) /\ Len(more) = L + 1
    BY <1>1, <1>2
  <2> QED BY <1>1, <2>1, FlatIs
<1>10. t[L + 1] = t[L] \o g
  <2>1. L + 1 \in 0..(L + 1) /\ L + 1 # 0 /\ (L + 1) - 1 = L
    BY <1>1
  <2> QED BY <2>1, <1>1, <1>3
<1> QED BY <1>5, <1>8, <1>9, <1>10 DEF more

-----------------------------------------------------------------------------
\* Chunks.

LEMMA AppendLater ==
    ASSUME NEW T, NEW s \in Seq(T), NEW t \in Seq(T), NEW x \in T
    PROVE  s \o Append(t, x) = Append(s \o t, x)
<1> DEFINE a == s \o Append(t, x)
           b == Append(s \o t, x)
<1>1. Len(s) \in Nat /\ Len(t) \in Nat /\ Append(t, x) \in Seq(T) /\ Len(Append(t, x)) = Len(t) + 1
  OBVIOUS
<1>2. s \o t \in Seq(T) /\ Len(s \o t) = Len(s) + Len(t)
  BY JoinedIs
<1>3. a \in Seq(T) /\ Len(a) = Len(s) + Len(t) + 1
  <2> DEFINE r == Append(t, x)
  <2>1. r \in Seq(T) /\ Len(r) = Len(t) + 1
    BY <1>1
  <2> HIDE DEF r
  <2>2. s \o r \in Seq(T) /\ Len(s \o r) = Len(s) + Len(r)
    BY <2>1, JoinedIs
  <2> QED BY <2>1, <2>2, <1>1 DEF r
<1>4. b \in Seq(T) /\ Len(b) = Len(s) + Len(t) + 1
  <2> DEFINE r == s \o t
  <2> HIDE DEF r
  <2>1. r \in Seq(T) /\ Len(r) = Len(s) + Len(t)
    BY <1>2 DEF r
  <2>2. Append(r, x) \in Seq(T) /\ Len(Append(r, x)) = Len(r) + 1
    BY <2>1
  <2> QED BY <2>1, <2>2 DEF r
<1>5. ASSUME NEW i \in 1..(Len(s) + Len(t) + 1) PROVE a[i] = b[i]
  <2>1. CASE i \in 1..Len(s)
    BY <2>1, <1>1
  <2>2. CASE i - Len(s) \in 1..Len(t)
    BY <2>2, <1>1
  <2>3. CASE i = Len(s) + Len(t) + 1
    BY <2>3, <1>1
  <2> QED BY <2>1, <2>2, <2>3, <1>1
<1> HIDE DEF a, b
<1>6. a = b
  BY <1>3, <1>4, <1>5
<1> QED BY <1>6 DEF a, b

LEMMA FrontAndLast ==
    ASSUME NEW S, NEW s \in Seq(S), s # <<>>
    PROVE  Append(Front(s), Last(s)) = s
<1> DEFINE f == Front(s)
           e == Last(s)
<1>1. f \in Seq(S) /\ Len(f) = Len(s) - 1 /\ e = s[Len(s)] /\ Len(s) \in Nat \ {0} /\ e \in S
      /\ \A i \in 1..(Len(s) - 1) : f[i] = s[i]
  BY FrontIs, LastIsIn
<1> HIDE DEF f, e
<1>2. Append(f, e) \in Seq(S) /\ Len(Append(f, e)) = Len(s)
  BY <1>1
<1>3. ASSUME NEW i \in 1..Len(s) PROVE Append(f, e)[i] = s[i]
  <2>1. CASE i = Len(s)
    BY <2>1, <1>1
  <2>2. CASE i # Len(s)
    BY <2>2, <1>1
  <2> QED BY <2>1, <2>2
<1>4. Append(f, e) = s
  BY <1>2, <1>3
<1> QED BY <1>4 DEF f, e

\* Groups that are none over the budget by more than the newline of their last line.
Grouped(gs, b) ==
    /\ gs \in Seq(Seq(LineType))
    /\ \A i \in DOMAIN gs : Rendered(gs[i]) \in Nat /\ Rendered(gs[i]) <= b + 1

LEMMA JoinsOn ==
    ASSUME NEW b \in Nat, NEW gs, Grouped(gs, b), NEW l \in LineType, l.size <= b
    PROVE  Grouped(Joined(gs, l, b), b) /\ FlattenSeq(Joined(gs, l, b)) = Append(FlattenSeq(gs), l)
<1>1. gs \in Seq(Seq(LineType)) /\ l.size \in Nat /\ <<l>> \in Seq(LineType)
  BY DEF Grouped, LineType
<1>2. FlattenSeq(gs) \in Seq(LineType)
  BY <1>1, FlatMore
<1>3. CASE gs # <<>> /\ Rendered(Last(gs)) + l.size + 1 <= b
  <2> DEFINE f == Front(gs)
             e == Last(gs)
             h == Append(e, l)
  <2>1. Joined(gs, l, b) = Append(f, h)
    BY <1>3 DEF Joined
  <2>2. f \in Seq(Seq(LineType)) /\ Len(f) = Len(gs) - 1 /\ e \in Seq(LineType) /\ Len(gs) \in Nat
        /\ \A i \in 1..(Len(gs) - 1) : f[i] = gs[i]
    BY <1>1, <1>3, FrontIs, LastIsIn
  <2>3. gs = Append(f, e)
    BY <1>1, <1>3, FrontAndLast
  <2>4. Rendered(e) + l.size + 1 <= b
    BY <1>3
  <2> HIDE DEF f, e
  <2>5. h \in Seq(LineType)
    BY <2>2
  <2>6. Rendered(h) = Rendered(e) + l.size + 1 /\ Rendered(e) \in Nat
    BY <2>2, RenderedMore
  <2> HIDE DEF h
  <2>7. FlattenSeq(gs) = FlattenSeq(f) \o e /\ FlattenSeq(f) \in Seq(LineType)
    BY <2>2, <2>3, FlatMore
  <2>8. FlattenSeq(Append(f, h)) = FlattenSeq(f) \o h
    BY <2>2, <2>5, FlatMore
  <2>9. FlattenSeq(f) \o h = Append(FlattenSeq(f) \o e, l)
    BY <2>2, <2>7, AppendLater DEF h
  <2>10. Grouped(Append(f, h), b)
    <3>1. Append(f, h) \in Seq(Seq(LineType)) /\ DOMAIN Append(f, h) = 1..(Len(f) + 1)
      BY <2>2, <2>5
    <3>2. ASSUME NEW i \in 1..(Len(f) + 1) PROVE Rendered(Append(f, h)[i]) \in Nat /\ Rendered(Append(f, h)[i]) <= b + 1
      <4>1. CASE i = Len(f) + 1
        <5>1. Append(f, h)[i] = h
          BY <4>1, <2>2, <2>5
        <5> QED BY <5>1, <2>4, <2>6, <1>1
      <4>2. CASE i # Len(f) + 1
        <5>1. i \in 1..(Len(gs) - 1) /\ i \in DOMAIN gs /\ Append(f, h)[i] = f[i]
          BY <4>2, <2>2, <2>5, <1>1
        <5>2. Append(f, h)[i] = gs[i]
          BY <5>1, <2>2
        <5> QED BY <5>1, <5>2 DEF Grouped
      <4> QED BY <4>1, <4>2
    <3> QED BY <3>1, <3>2 DEF Grouped
  <2> QED BY <2>1, <2>7, <2>8, <2>9, <2>10
<1>4. CASE ~(gs # <<>> /\ Rendered(Last(gs)) + l.size + 1 <= b)
  <2>1. Joined(gs, l, b) = Append(gs, <<l>>)
    BY <1>4 DEF Joined
  <2>2. FlattenSeq(Append(gs, <<l>>)) = FlattenSeq(gs) \o <<l>>
    BY <1>1, FlatMore
  <2>3. FlattenSeq(gs) \o <<l>> = Append(FlattenSeq(gs), l)
    BY <1>2
  <2>4. Rendered(<<l>>) = l.size + 1
    <3>1. Append(<<>>, l) = <<l>> /\ <<>> \in Seq(LineType)
      OBVIOUS
    <3>2. Rendered(Append(<<>>, l)) = Rendered(<<>>) + l.size + 1
      BY <3>1, RenderedMore
    <3> QED BY <3>1, <3>2, <1>1, RenderedNone
  <2> DEFINE h == <<l>>
  <2>5. h \in Seq(LineType) /\ Rendered(h) \in Nat /\ Rendered(h) <= b + 1
    BY <1>1, <2>4
  <2> HIDE DEF h
  <2>6. Grouped(Append(gs, h), b)
    <3>1. Append(gs, h) \in Seq(Seq(LineType)) /\ DOMAIN Append(gs, h) = 1..(Len(gs) + 1) /\ Len(gs) \in Nat
      BY <1>1, <2>5
    <3>2. ASSUME NEW i \in 1..(Len(gs) + 1) PROVE Rendered(Append(gs, h)[i]) \in Nat /\ Rendered(Append(gs, h)[i]) <= b + 1
      <4>1. CASE i = Len(gs) + 1
        <5>1. Append(gs, h)[i] = h
          BY <4>1, <1>1, <2>5
        <5> QED BY <5>1, <2>5
      <4>2. CASE i # Len(gs) + 1
        <5>1. i \in 1..Len(gs) /\ DOMAIN gs = 1..Len(gs)
          BY <4>2, <1>1, <3>1
        <5>2. i \in DOMAIN gs /\ Append(gs, h)[i] = gs[i]
          BY <5>1, <1>1, <2>5
        <5> QED BY <5>2 DEF Grouped
      <4> QED BY <4>1, <4>2
    <3> QED BY <3>1, <3>2 DEF Grouped
  <2> QED BY <2>1, <2>2, <2>3, <2>6 DEF h
<1> QED BY <1>3, <1>4

Grouping(t, lines, b) ==
    t = [n \in 0..Len(lines) |-> IF n = 0 THEN <<>> ELSE Joined(t[n - 1], lines[n], b)]

LEMMA GroupsAre ==
    ASSUME NEW b \in Nat, NEW lines \in Seq(LineType), \A i \in 1..Len(lines) : lines[i].size <= b
    PROVE  Grouped(GroupBySize(lines, b), b) /\ FlattenSeq(GroupBySize(lines, b)) = lines
<1> DEFINE L == Len(lines)
           X == {gs \in Seq(Seq(LineType)) : Grouped(gs, b)}
           F == [p \in (1..L) \X X |-> Joined(p[2], lines[p[1]], b)]
<1>1. L \in Nat /\ (\A i \in 1..L : lines[i] \in LineType /\ lines[i].size <= b) /\ Len(lines) = L
  OBVIOUS
<1>2. <<>> \in X
  <2>1. <<>> \in Seq(Seq(LineType)) /\ DOMAIN <<>> = {}
    OBVIOUS
  <2> QED BY <2>1 DEF Grouped
<1>3. \A n \in 1..L, gs \in X : Joined(gs, lines[n], b) \in X
  <2> SUFFICES ASSUME NEW n \in 1..L, NEW gs \in X PROVE Joined(gs, lines[n], b) \in X
    OBVIOUS
  <2>1. Grouped(gs, b) /\ lines[n] \in LineType /\ lines[n].size <= b
    BY <1>1
  <2>2. Grouped(Joined(gs, lines[n], b), b)
    BY <2>1, JoinsOn
  <2> QED BY <2>2 DEF Grouped
<1> HIDE DEF L, X
<1>4. F \in [(1..L) \X X -> X]
  BY <1>3
<1>5. \A n \in 1..L, x \in X : F[<<n, x>>] = Joined(x, lines[n], b)
  OBVIOUS
<1> HIDE DEF F
<1>6. PICK t \in [0..L -> X] : Iterated(t, F, <<>>, L)
  BY <1>1, <1>2, <1>4, Iterates
<1>7. t = [n \in 0..L |-> IF n = 0 THEN <<>> ELSE F[<<n, t[n - 1]>>]]
  BY <1>6 DEF Iterated
<1>8. \A n \in 0..L : n # 0 => F[<<n, t[n - 1]>>] = Joined(t[n - 1], lines[n], b)
  <2>1. \A n \in 0..L : n # 0 => n \in 1..L /\ t[n - 1] \in X
    BY <1>1
  <2> QED BY <2>1, <1>5
<1>9. Grouping(t, lines, b)
  <2>1. t = [n \in 0..L |-> IF n = 0 THEN <<>> ELSE Joined(t[n - 1], lines[n], b)]
    BY <1>7, <1>8
  <2> QED BY <2>1 DEF Grouping, L
<1> DEFINE c == CHOOSE u : Grouping(u, lines, b)
<1>10. GroupBySize(lines, b) = c[L]
  BY Zenon DEF GroupBySize, Grouping, L
<1>11. Grouping(c, lines, b)
  BY <1>9
<1> HIDE DEF c
<1>12. \A n \in 0..L : c[n] = IF n = 0 THEN <<>> ELSE Joined(c[n - 1], lines[n], b)
  BY <1>1, <1>11 DEF Grouping
<1> DEFINE S == {n \in 0..L : c[n] \in X /\ FlattenSeq(c[n]) = SubSeq(lines, 1, n)}
<1>13. 0 \in S
  <2>1. c[0] = <<>>
    BY <1>1, <1>12
  <2>2. SubSeq(lines, 1, 0) = <<>>
    <3>1. SubSeq(lines, 1, 0) \in Seq(LineType) /\ Len(SubSeq(lines, 1, 0)) = 0
      BY <1>1, FirstOfIs
    <3> QED BY <3>1
  <2> QED BY <1>1, <1>2, <2>1, <2>2, FlatNone
<1>14. ASSUME NEW n \in 1..L, n - 1 \in S PROVE n \in S
  <2>1. c[n - 1] \in X /\ FlattenSeq(c[n - 1]) = SubSeq(lines, 1, n - 1) /\ n \in 0..L /\ n # 0
    BY <1>1, <1>14
  <2>2. c[n] = Joined(c[n - 1], lines[n], b)
    BY <1>12, <2>1
  <2>3. Grouped(c[n - 1], b) /\ lines[n] \in LineType /\ lines[n].size <= b
    BY <1>1, <2>1 DEF X
  <2>4. FlattenSeq(c[n]) = Append(FlattenSeq(c[n - 1]), lines[n])
    BY <2>2, <2>3, JoinsOn
  <2>5. c[n] \in X
    BY <1>3, <2>1, <2>2
  <2>6. Append(SubSeq(lines, 1, n - 1), lines[n]) = SubSeq(lines, 1, n)
    <3> DEFINE p == SubSeq(lines, 1, n - 1)
               q == SubSeq(lines, 1, n)
    <3>1. p \in Seq(LineType) /\ Len(p) = n - 1 /\ \A i \in 1..(n - 1) : p[i] = lines[i]
      <4>1. n - 1 \in 0..Len(lines)
        BY <1>1
      <4> QED BY <4>1, FirstOfIs
    <3>2. q \in Seq(LineType) /\ Len(q) = n /\ \A i \in 1..n : q[i] = lines[i]
      <4>1. n \in 0..Len(lines)
        BY <1>1
      <4> QED BY <4>1, FirstOfIs
    <3> HIDE DEF p, q
    <3>3. Append(p, lines[n]) \in Seq(LineType) /\ Len(Append(p, lines[n])) = n
      BY <3>1, <2>3
    <3>4. ASSUME NEW i \in 1..n PROVE Append(p, lines[n])[i] = q[i]
      <4>1. CASE i = n
        BY <4>1, <3>1, <3>2
      <4>2. CASE i # n
        BY <4>2, <3>1, <3>2
      <4> QED BY <4>1, <4>2
    <3>5. Append(p, lines[n]) = q
      BY <3>2, <3>3, <3>4
    <3> QED BY <3>5 DEF p, q
  <2> QED BY <2>1, <2>4, <2>5, <2>6
<1>15. L \in S
  <2>1. \A n \in 0..L : n \in S
    <3> HIDE DEF S
    <3> QED BY <1>1, <1>13, <1>14, CountsUp
  <2>2. L \in 0..L
    BY <1>1
  <2> HIDE DEF S
  <2> QED BY <2>1, <2>2
<1>16. SubSeq(lines, 1, L) = lines
  <2> DEFINE q == SubSeq(lines, 1, L)
  <2>1. q \in Seq(LineType) /\ Len(q) = L /\ \A i \in 1..L : q[i] = lines[i]
    BY <1>1, FirstOfIs
  <2> HIDE DEF q
  <2>2. q = lines
    BY <1>1, <2>1
  <2> QED BY <2>2 DEF q
<1> QED BY <1>10, <1>15, <1>16 DEF X

LEMMA ClipIs ==
    ASSUME NEW line \in LineType, NEW limit \in Nat
    PROVE  Clip(line, limit) \in LineType /\ Clip(line, limit).of = line.of /\ Clip(line, limit).size <= limit
<1>1. Clip(line, limit) = [line EXCEPT !.size = Least(line.size, limit)]
  BY DEF Clip
<1>2. Least(line.size, limit) \in Nat /\ Least(line.size, limit) <= limit
  BY DEF Least, LineType
<1> QED BY <1>1, <1>2 DEF LineType

LEMMA LinesAre ==
    ASSUME NEW list \in Seq(Nat), reading.size \in Seq(Nat), reading.size # <<>>
    PROVE  /\ Lines(list) \in Seq(LineType) /\ Len(Lines(list)) = Len(list)
           /\ \A i \in 1..Len(list) : Lines(list)[i].size <= ChunkChars
           /\ Of(Lines(list)) = list
<1> DEFINE raw == [i \in DOMAIN list |-> Line(list[i], SizeOf(list, i))]
           ls == Lines(list)
           L == Len(list)
<1>1. L \in Nat /\ DOMAIN list = 1..L /\ \A i \in 1..L : list[i] \in Nat
  OBVIOUS
<1>2. ASSUME NEW i \in 1..L PROVE SizeOf(list, i) \in Nat
  <2> DEFINE m == Len(reading.size)
             j == ((i - 1) % m) + 1
  <2>1. m \in Nat \ {0}
    OBVIOUS
  <2>2. j \in 1..m
    <3> HIDE DEF m
    <3> QED BY <2>1, <1>1
  <2>3. SizeOf(list, i) = reading.size[j]
    BY DEF SizeOf
  <2> HIDE DEF j
  <2> QED BY <2>2, <2>3
<1>3. ASSUME NEW i \in 1..L PROVE raw[i] \in LineType /\ raw[i].of = list[i]
  <2>1. raw[i] = [of |-> list[i], size |-> SizeOf(list, i)]
    BY <1>1 DEF Line
  <2> HIDE DEF raw
  <2> QED BY <1>1, <1>2, <2>1 DEF LineType
<1>4. DOMAIN raw = 1..L
  BY <1>1
<1>5. ls = [i \in 1..L |-> Clip(raw[i], ChunkChars)]
  BY <1>4 DEF Lines, ClipAll
<1> HIDE DEF raw, L
<1>6. \A i \in 1..L : ls[i] \in LineType /\ ls[i].of = list[i] /\ ls[i].size <= ChunkChars
  <2> SUFFICES ASSUME NEW i \in 1..L PROVE ls[i] \in LineType /\ ls[i].of = list[i] /\ ls[i].size <= ChunkChars
    OBVIOUS
  <2>1. ls[i] = Clip(raw[i], ChunkChars)
    BY <1>5
  <2>2. raw[i] \in LineType /\ raw[i].of = list[i] /\ ChunkChars \in Nat
    BY <1>3, MastodonAssumption
  <2> HIDE DEF ls
  <2> QED BY <2>1, <2>2, ClipIs
<1> HIDE DEF ls
<1>7. ls \in Seq(LineType) /\ Len(ls) = L /\ DOMAIN ls = 1..L
  BY <1>1, <1>5, <1>6
<1>8. Of(ls) = list
  <2>1. Of(ls) = [i \in 1..L |-> ls[i].of]
    BY <1>7 DEF Of
  <2>2. Of(ls) = [i \in 1..L |-> list[i]]
    BY <1>6, <2>1
  <2>3. list = [i \in 1..L |-> list[i]]
    BY <1>1
  <2> QED BY <2>2, <2>3
<1> QED BY <1>6, <1>7, <1>8 DEF ls, L

LEMMA EndIs ==
    ASSUME NEW a \in Seq(LineType), NEW m \in 1..(Len(a) + 1)
    PROVE  /\ SubSeq(a, m, Len(a)) \in Seq(LineType) /\ Len(SubSeq(a, m, Len(a))) = Len(a) - m + 1
           /\ \A i \in 1..(Len(a) - m + 1) : SubSeq(a, m, Len(a))[i] = a[m + i - 1]
<1> DEFINE n == Len(a)
<1>1. n \in Nat /\ \A i \in m..n : a[i] \in LineType
  OBVIOUS
<1> HIDE DEF n
<1>2. SubSeq(a, m, n) \in Seq(LineType)
  BY <1>1, SubSeqProperties
<1>3. Len(SubSeq(a, m, n)) = IF m <= n THEN n - m + 1 ELSE 0
  BY <1>1, SubSeqProperties
<1>4. \A i \in 1..(n - m + 1) : SubSeq(a, m, n)[i] = a[m + i - 1]
  BY <1>1, SubSeqProperties
<1>5. m <= n + 1
  BY DEF n
<1> QED BY <1>1, <1>2, <1>3, <1>4, <1>5 DEF n

LEMMA CutInTwo ==
    ASSUME NEW a \in Seq(LineType), NEW k \in 0..Len(a)
    PROVE  SubSeq(a, 1, Len(a) - k) \o SubSeq(a, Len(a) - k + 1, Len(a)) = a
<1> DEFINE n == Len(a)
           p == SubSeq(a, 1, n - k)
           q == SubSeq(a, n - k + 1, n)
<1>1. n \in Nat /\ n - k \in 0..n /\ n - k + 1 \in 1..(n + 1)
  OBVIOUS
<1>2. p \in Seq(LineType) /\ Len(p) = n - k /\ \A i \in 1..(n - k) : p[i] = a[i]
  BY <1>1, FirstOfIs
<1>3. q \in Seq(LineType) /\ Len(q) = n - (n - k + 1) + 1 /\ \A i \in 1..(n - (n - k + 1) + 1) : q[i] = a[(n - k + 1) + i - 1]
  BY <1>1, EndIs
<1>4. Len(a) = n
  OBVIOUS
<1> HIDE DEF n, p, q
<1>5. Len(q) = k /\ \A i \in 1..k : q[i] = a[(n - k) + i]
  <2>1. n - (n - k + 1) + 1 = k /\ \A i \in 1..k : (n - k + 1) + i - 1 = (n - k) + i
    BY <1>1
  <2> QED BY <1>3, <2>1
<1>6. p \o q \in Seq(LineType) /\ Len(p \o q) = n
  <2>1. p \o q \in Seq(LineType) /\ Len(p \o q) = Len(p) + Len(q)
    BY <1>2, <1>3, JoinedIs
  <2> QED BY <1>1, <1>2, <1>5, <2>1
<1>7. ASSUME NEW i \in 1..n PROVE (p \o q)[i] = a[i]
  <2>1. DOMAIN (p \o q) = 1..n
    BY <1>6
  <2>2. \/ i \in 1..Len(p) /\ (p \o q)[i] = p[i]
        \/ ~(i <= Len(p)) /\ i - Len(p) \in 1..Len(q) /\ (p \o q)[i] = q[i - Len(p)]
    BY <1>2, <1>3, <2>1, PlacesJoined
  <2>3. CASE i \in 1..Len(p) /\ (p \o q)[i] = p[i]
    BY <2>3, <1>2
  <2>4. CASE i - Len(p) \in 1..Len(q) /\ (p \o q)[i] = q[i - Len(p)]
    <3>1. i - (n - k) \in 1..k /\ (n - k) + (i - (n - k)) = i
      BY <2>4, <1>1, <1>2, <1>5
    <3>2. q[i - (n - k)] = a[(n - k) + (i - (n - k))]
      BY <1>5, <3>1
    <3> QED BY <2>4, <3>1, <3>2, <1>2
  <2> QED BY <2>2, <2>3, <2>4
<1>8. p \o q = a
  BY <1>4, <1>6, <1>7
<1> QED BY <1>8 DEF p, q, n

LEMMA HeadFits == HeadSize \in Nat /\ HeadSize <= ChunkChars /\ ChunkChars \in Nat /\ Threshold \in Nat
BY MastodonAssumption DEF HeadSize, Least

LEMMA NearestIs ==
    ASSUME NEW lines \in Seq(LineType)
    PROVE  \E k \in 0..Len(lines) :
              /\ Nearest(lines) = SubSeq(lines, Len(lines) - k + 1, Len(lines))
              /\ Rendered(Nearest(lines)) <= ChunkChars - HeadSize
<1> DEFINE L == Len(lines)
           ending(k) == SubSeq(lines, L - k + 1, L)
           fits == {k \in 0..L : Rendered(ending(k)) <= ChunkChars - HeadSize}
           best == CHOOSE k \in fits : \A j \in fits : j <= k
           T == {L - k : k \in fits}
<1>1. L \in Nat
  OBVIOUS
<1>2. 0 \in fits
  <2>1. L + 1 \in 1..(L + 1) /\ L - 0 + 1 = L + 1
    BY <1>1
  <2>2. ending(0) \in Seq(LineType) /\ Len(ending(0)) = 0
    <3>1. Len(SubSeq(lines, L + 1, L)) = L - (L + 1) + 1 /\ SubSeq(lines, L + 1, L) \in Seq(LineType)
      BY <2>1, EndIs
    <3> QED BY <1>1, <2>1, <3>1
  <2>3. ending(0) = <<>>
    <3> HIDE DEF ending
    <3> QED BY <2>2
  <2>4. Rendered(ending(0)) <= ChunkChars - HeadSize
    <3> HIDE DEF ending
    <3> QED BY <2>3, RenderedNone, HeadFits
  <2> HIDE DEF L
  <2> QED BY <1>1, <2>4
<1>3. T \in SUBSET Nat /\ T # {}
  <2>1. \A k \in fits : k \in 0..L /\ L - k \in Nat
    BY <1>1
  <2> HIDE DEF fits
  <2> QED BY <1>2, <2>1
<1>4. \E k \in fits : \A j \in fits : j <= k
  <2>1. PICK x \in T : \A y \in T : x <= y
    <3> HIDE DEF T
    <3> QED BY <1>3, LeastOf
  <2>2. PICK k \in fits : x = L - k
    BY <2>1
  <2>3. \A j \in fits : L - k <= L - j
    BY <2>1, <2>2
  <2>4. \A j \in fits : j \in 0..L
    OBVIOUS
  <2> HIDE DEF fits, L
  <2> QED BY <1>1, <2>2, <2>3, <2>4
<1>5. best \in fits
  <2> HIDE DEF fits
  <2> QED BY <1>4
<1>6. Nearest(lines) = ending(best)
  BY Zenon DEF Nearest
<1> HIDE DEF best
<1>7. best \in 0..L /\ Rendered(ending(best)) <= ChunkChars - HeadSize
  BY <1>5
<1> QED BY <1>6, <1>7

\* The chunks of a text hold its lines in order, none over the budget.
LEMMA ChunksHold ==
    ASSUME NEW lines \in Seq(LineType), \A i \in 1..Len(lines) : lines[i].size <= ChunkChars
    PROVE  /\ FlattenSeq(Chunked(lines, Threshold, ChunkChars)) = lines
           /\ \A i \in DOMAIN Chunked(lines, Threshold, ChunkChars) :
                 TextSize(Chunked(lines, Threshold, ChunkChars)[i]) <= Most(ChunkChars, Threshold)
<1> DEFINE gs == Chunked(lines, Threshold, ChunkChars)
           most == Most(ChunkChars, Threshold)
<1>1. ChunkChars \in Nat /\ Threshold \in Nat
  BY MastodonAssumption
<1>2. most \in Nat /\ ChunkChars <= most /\ Threshold <= most
  BY <1>1 DEF Most
<1> HIDE DEF most
<1>3. CASE lines = <<>>
  <2>1. gs = <<>>
    BY <1>3 DEF Chunked
  <2> HIDE DEF gs
  <2>2. DOMAIN gs = {} /\ FlattenSeq(gs) = lines
    BY <2>1, <1>3, FlatNone
  <2> QED BY <2>2 DEF gs, most
<1>4. CASE lines # <<>> /\ Rendered(lines) <= Threshold
  <2>1. gs = <<lines>>
    BY <1>4 DEF Chunked
  <2>2. Append(<<>>, lines) = <<lines>> /\ <<>> \in Seq(Seq(LineType)) /\ <<>> \o lines = lines
    OBVIOUS
  <2>3. FlattenSeq(Append(<<>>, lines)) = FlattenSeq(<<>>) \o lines
    BY <2>2, FlatMore
  <2>4. FlattenSeq(gs) = lines
    BY <2>1, <2>2, <2>3, FlatNone
  <2>5. DOMAIN gs = {1} /\ gs[1] = lines
    BY <2>1
  <2>6. Rendered(lines) \in Nat
    <3>1. LineType # {}
      <4>1. [of |-> 0, size |-> 0] \in LineType
        BY DEF LineType
      <4> QED BY <4>1
    <3> QED BY <3>1, RenderedMore
  <2>7. TextSize(lines) <= most
    BY <1>2, <1>1, <1>4, <2>6 DEF TextSize
  <2> HIDE DEF gs
  <2> QED BY <2>4, <2>5, <2>7 DEF gs, most
<1>5. CASE lines # <<>> /\ ~(Rendered(lines) <= Threshold)
  <2>1. gs = GroupBySize(lines, ChunkChars)
    BY <1>5 DEF Chunked
  <2> HIDE DEF gs
  <2>2. Grouped(gs, ChunkChars) /\ FlattenSeq(gs) = lines
    BY <1>1, <2>1, GroupsAre
  <2>3. ASSUME NEW i \in DOMAIN gs PROVE TextSize(gs[i]) <= most
    BY <1>1, <1>2, <2>2 DEF Grouped, TextSize
  <2> QED BY <2>2, <2>3 DEF gs, most
<1> QED BY <1>3, <1>4, <1>5

\* What goes with the status and what is older make up the ancestors.
LEMMA AncestorsHold ==
    ASSUME KeptContext.ancestors \in Seq(Nat), reading.size \in Seq(Nat), reading.size # <<>>
    PROVE  /\ Of(FlattenSeq(Older) \o WithStatus) = KeptContext.ancestors
           /\ Rendered(WithStatus) + HeadSize <= Most(ChunkChars, Threshold)
           /\ \A i \in DOMAIN Older : TextSize(Older[i]) <= ChunkChars
<1> DEFINE L == Len(Above)
           most == Most(ChunkChars, Threshold)
<1>1. Above \in Seq(LineType) /\ Of(Above) = KeptContext.ancestors /\ \A i \in 1..L : Above[i].size <= ChunkChars
  BY LinesAre DEF Above
<1>2. HeadSize \in Nat /\ HeadSize <= ChunkChars /\ ChunkChars \in Nat /\ Threshold \in Nat
  BY HeadFits
<1>3. most \in Nat /\ ChunkChars <= most /\ Threshold <= most
  BY <1>2 DEF Most
<1>4. \E k \in 0..L : WithStatus = SubSeq(Above, L - k + 1, L) /\ Rendered(WithStatus) + HeadSize <= most
  <2>1. CASE InOneCall
    <3>1. WithStatus = Above /\ Rendered(Above) + HeadSize <= Threshold
      BY <2>1 DEF WithStatus, InOneCall
    <3>2. SubSeq(Above, L - L + 1, L) = Above /\ L \in 0..L
      <4>1. L \in Nat /\ L - L + 1 = 1 /\ L \in 0..L
        BY <1>1
      <4> DEFINE q == SubSeq(Above, 1, L)
      <4>2. q \in Seq(LineType) /\ Len(q) = L /\ \A i \in 1..L : q[i] = Above[i]
        BY <1>1, <4>1, FirstOfIs
      <4> HIDE DEF q
      <4>3. q = Above
        BY <1>1, <4>2
      <4> QED BY <4>1, <4>3 DEF q
    <3>3. Rendered(Above) \in Nat
      <4>1. [of |-> 0, size |-> 0] \in LineType
        BY DEF LineType
      <4> QED BY <1>1, <4>1, RenderedMore
    <3>4. Rendered(WithStatus) + HeadSize <= most
      BY <1>2, <1>3, <3>1, <3>3
    <3> HIDE DEF L, most
    <3> QED BY <3>1, <3>2, <3>4
  <2>2. CASE ~InOneCall
    <3>1. WithStatus = Nearest(Above)
      BY <2>2 DEF WithStatus
    <3>2. PICK k \in 0..L : /\ Nearest(Above) = SubSeq(Above, L - k + 1, L)
                            /\ Rendered(Nearest(Above)) <= ChunkChars - HeadSize
      BY <1>1, NearestIs
    <3>3. Rendered(Nearest(Above)) \in Nat
      <4>1. [of |-> 0, size |-> 0] \in LineType
        BY DEF LineType
      <4>2. L - k + 1 \in 1..(L + 1)
        BY <1>1
      <4>3. Nearest(Above) \in Seq(LineType)
        BY <1>1, <3>2, <4>2, EndIs
      <4> QED BY <4>1, <4>3, RenderedMore
    <3>4. Rendered(WithStatus) + HeadSize <= most
      BY <1>2, <1>3, <3>1, <3>2, <3>3
    <3> HIDE DEF L, most
    <3> QED BY <3>1, <3>2, <3>4
  <2> QED BY <2>1, <2>2
<1>5. PICK k \in 0..L : WithStatus = SubSeq(Above, L - k + 1, L) /\ Rendered(WithStatus) + HeadSize <= most
  BY <1>4
<1> DEFINE before == SubSeq(Above, 1, L - k)
<1>6. Len(WithStatus) = k
  <2>1. L \in Nat /\ L - k + 1 \in 1..(L + 1)
    BY <1>1
  <2>2. Len(SubSeq(Above, L - k + 1, L)) = L - (L - k + 1) + 1
    BY <1>1, <2>1, EndIs
  <2> HIDE DEF L
  <2> QED BY <1>5, <2>1, <2>2
<1>7. before \in Seq(LineType) /\ \A i \in 1..Len(before) : before[i].size <= ChunkChars
  <2>1. L - k \in 0..L /\ L \in Nat
    BY <1>1
  <2>2. before \in Seq(LineType) /\ Len(before) = L - k /\ \A i \in 1..(L - k) : before[i] = Above[i]
    BY <1>1, <2>1, FirstOfIs
  <2> HIDE DEF before, L
  <2> QED BY <1>1, <2>1, <2>2
<1>8. Older = GroupBySize(before, ChunkChars)
  BY <1>6 DEF Older
<1>9. before \o WithStatus = Above
  BY <1>1, <1>5, CutInTwo
<1> HIDE DEF before, L, most
<1>10. Grouped(Older, ChunkChars) /\ FlattenSeq(Older) = before
  BY <1>2, <1>7, <1>8, GroupsAre
<1>11. \A i \in DOMAIN Older : TextSize(Older[i]) <= ChunkChars
  BY <1>2, <1>10 DEF Grouped, TextSize
<1> QED BY <1>1, <1>5, <1>9, <1>10, <1>11 DEF most

LEMMA CountedOff ==
    ASSUME NEW n \in Nat, NEW S, NEW f \in Bijection(1..n, S)
    PROVE  Cardinality(S) = n
<1>1. 1 \in Int /\ n \in Int
  OBVIOUS
<1>2. IsFiniteSet(1..n) /\ Cardinality(1..n) = IF 1 > n THEN 0 ELSE n - 1 + 1
  BY <1>1, FS_Interval
<1>3. ExistsBijection(1..n, S)
  BY DEF ExistsBijection
<1>4. Cardinality(S) = Cardinality(1..n)
  BY <1>2, <1>3, FS_Bijection
<1> QED BY <1>2, <1>4

LEMMA RepliesHold ==
    ASSUME MastoInv, reading # Nothing
    PROVE  LET out == Descendants
               place(r) == CHOOSE i \in DOMAIN out : out[i].reply = r
               shown == {out[i].reply : i \in DOMAIN out}
               sibling(r, s) == served.parent[r] = served.parent[s]
           IN  /\ Cardinality(shown) = Len(out)
               /\ \A r \in DOMAIN served.parent :
                     r \in shown <=> /\ r \in ToSet(KeptContext.replies) \cap reading.liked
                                     /\ served.parent[r] \in shown \cup {0}
               /\ \A r, s \in shown : sibling(r, s) /\ r < s => place(r) < place(s)
               /\ \A r \in shown : LET p == served.parent[r] IN
                     IF p = 0 THEN out[place(r)].depth = 0
                     ELSE place(p) < place(r) /\ out[place(r)].depth = out[place(p)].depth + 1
               /\ [i \in DOMAIN out |-> out[i].reply] \in Seq(Nat)
<1> DEFINE out == Descendants
           place(r) == CHOOSE i \in DOMAIN out : out[i].reply = r
           shown == {out[i].reply : i \in DOMAIN out}
           sibling(r, s) == served.parent[r] = served.parent[s]
           L == Len(out)
<1>1. stored # Nothing
  BY DEF MastoInv
<1>2. PICK m \in Nat, n \in Nat : Served(m, n)
  BY DEF MastoInv
<1>3. PICK k \in 0..n : KeptContext.replies = UpTo(k)
  BY <1>1, <1>2, RepliesKept
<1>4. TreeOf(k) /\ k \in Nat /\ DOMAIN served.parent = 1..n /\ \A r \in 1..n : served.parent[r] \in Nat
  BY <1>2, <1>3 DEF TreeOf, Served
<1>5. TreeInv(k, [todo |-> <<>>, out |-> out])
  BY <1>4, TreeIsWalked
<1>6. out \in Seq(Entry(k)) /\ EachOnce(out) /\ DOMAIN out = 1..L /\ L \in Nat
  BY <1>5 DEF TreeInv
<1>7. RepliesIn(out) = shown
  BY DEF RepliesIn
<1>8. \A r \in 1..k : r \in shown <=> r \in reading.liked /\ served.parent[r] \in shown \cup {0}
  <2>1. RepliesIn(<<>>) = {}
    BY DEF RepliesIn
  <2> HIDE DEF shown, out
  <2> QED BY <1>5, <1>7, <2>1 DEF TreeInv
<1>9. /\ \A i, j \in DOMAIN out : Siblings(out[i], out[j]) /\ out[i].reply < out[j].reply => i < j
      /\ \A i \in DOMAIN out : Under(out, out[i], i)
  BY <1>5 DEF TreeInv
<1> HIDE DEF out
<1>10. \A i \in DOMAIN out : out[i].reply \in 1..k
  <2>1. \A i \in DOMAIN out : out[i] \in Entry(k)
    BY <1>6
  <2> QED BY <2>1 DEF Entry
<1>11. ASSUME NEW r \in shown PROVE place(r) \in DOMAIN out /\ out[place(r)].reply = r
  <2>1. \E i \in DOMAIN out : out[i].reply = r
    BY <1>11
  <2> QED BY <2>1
<1>12. \A i \in DOMAIN out : place(out[i].reply) = i
  <2> SUFFICES ASSUME NEW i \in DOMAIN out PROVE place(out[i].reply) = i
    OBVIOUS
  <2>1. out[i].reply \in shown
    OBVIOUS
  <2>2. place(out[i].reply) \in DOMAIN out /\ out[place(out[i].reply)].reply = out[i].reply
    <3> HIDE DEF place, shown
    <3> QED BY <1>11, <2>1
  <2> HIDE DEF place
  <2> QED BY <1>6, <2>2 DEF EachOnce
<1>13. Cardinality(shown) = L
  <2> DEFINE f == [i \in 1..L |-> out[i].reply]
  <2>1. f \in Bijection(1..L, shown)
    <3>1. f \in [1..L -> shown]
      BY <1>6
    <3>2. \A i, j \in 1..L : f[i] = f[j] => i = j
      BY <1>6 DEF EachOnce
    <3>3. \A r \in shown : \E i \in 1..L : f[i] = r
      BY <1>6
    <3> HIDE DEF f, shown
    <3> QED BY <3>1, <3>2, <3>3 DEF Bijection, Injection, Surjection, IsInjective
  <2> HIDE DEF f, shown, L
  <2> QED BY <1>6, <2>1, CountedOff
<1>14. ASSUME NEW r \in DOMAIN served.parent
       PROVE  r \in shown <=> /\ r \in ToSet(KeptContext.replies) \cap reading.liked
                              /\ served.parent[r] \in shown \cup {0}
  <2>1. ToSet(KeptContext.replies) = 1..k
    BY <1>3, <1>4 DEF UpTo, ToSet
  <2>2. r \in shown => r \in 1..k
    BY <1>10
  <2> HIDE DEF shown
  <2> QED BY <1>8, <2>1, <2>2
<1> HIDE DEF place, L
<1>15. ASSUME NEW r \in shown, NEW s \in shown, sibling(r, s), r < s PROVE place(r) < place(s)
  <2>1. place(r) \in DOMAIN out /\ place(s) \in DOMAIN out /\ out[place(r)].reply = r /\ out[place(s)].reply = s
    <3> HIDE DEF shown
    <3> QED BY <1>11
  <2> QED BY <1>9, <1>15, <2>1 DEF Siblings
<1>16. ASSUME NEW r \in shown, NEW p, p = served.parent[r]
       PROVE  IF p = 0 THEN out[place(r)].depth = 0
              ELSE place(p) < place(r) /\ out[place(r)].depth = out[place(p)].depth + 1
  <2> DEFINE i == place(r)
  <2>1. i \in DOMAIN out /\ out[i].reply = r /\ i \in 1..L
    <3> HIDE DEF shown
    <3> QED BY <1>6, <1>11
  <2>2. Under(out, out[i], i)
    BY <1>9, <2>1
  <2>3. p # 0 => \E j \in 1..(i - 1) : out[j].reply = p /\ out[i].depth = out[j].depth + 1
    BY <1>16, <2>1, <2>2 DEF Under
  <2>4. p = 0 => out[i].depth = 0
    BY <1>16, <2>1, <2>2 DEF Under
  <2>5. ASSUME p # 0 PROVE place(p) < i /\ out[i].depth = out[place(p)].depth + 1
    <3>1. PICK j \in 1..(i - 1) : out[j].reply = p /\ out[i].depth = out[j].depth + 1
      BY <2>3, <2>5
    <3>2. j \in DOMAIN out /\ j < i
      BY <1>6, <2>1, <3>1
    <3>3. place(p) = j
      BY <1>12, <3>1, <3>2
    <3> QED BY <3>1, <3>2, <3>3
  <2> QED BY <2>4, <2>5
<1>17. [i \in DOMAIN out |-> out[i].reply] \in Seq(Nat)
  <2>1. \A i \in 1..L : out[i].reply \in Nat
    BY <1>4, <1>6, <1>10
  <2> HIDE DEF out
  <2> QED BY <1>6, <2>1
<1>18. \A r \in DOMAIN served.parent :
          r \in shown <=> /\ r \in ToSet(KeptContext.replies) \cap reading.liked
                         /\ served.parent[r] \in shown \cup {0}
  <2> HIDE DEF shown
  <2> QED BY <1>14
<1>19. \A r, s \in shown : sibling(r, s) /\ r < s => place(r) < place(s)
  <2> HIDE DEF shown, sibling
  <2> QED BY <1>15
<1>20. \A r \in shown : IF served.parent[r] = 0 THEN out[place(r)].depth = 0
                         ELSE /\ place(served.parent[r]) < place(r)
                              /\ out[place(r)].depth = out[place(served.parent[r])].depth + 1
  <2> HIDE DEF shown
  <2> QED BY <1>16
<1> USE DEF place, L, out
<1> HIDE DEF shown, place, L, sibling
<1> QED BY <1>13, <1>17, <1>18, <1>19, <1>20, Zenon DEF place, L, shown, sibling

LEMMA MastoHolds == ASSUME MastoInv PROVE ThreadIsReadWhole
<1>1. ASSUME stored # Nothing
      PROVE  LET all == Context(UpTo(served.ancestors), UpTo(Len(served.parent))) IN
             /\ KeptContext = CapContext(all, Least(fetchCap, cap))
             /\ Len(KeptContext.ancestors) + Len(KeptContext.replies) <= cap
             /\ KeptContext.ancestors # <<>> => KeptContext.ancestors[1] = 1
             /\ KeptContext # all /\ cap <= fetchCap => CapHit
  BY <1>1, ContextHolds DEF All
<1>2. ASSUME reading # Nothing
      PROVE  LET out == Descendants
                 place(r) == CHOOSE i \in DOMAIN out : out[i].reply = r
                 shown == {out[i].reply : i \in DOMAIN out}
                 sibling(r, s) == served.parent[r] = served.parent[s]
             IN  /\ Cardinality(shown) = Len(out)
                 /\ \A r \in DOMAIN served.parent :
                       r \in shown <=> /\ r \in ToSet(KeptContext.replies) \cap reading.liked
                                       /\ served.parent[r] \in shown \cup {0}
                 /\ \A r, s \in shown : sibling(r, s) /\ r < s => place(r) < place(s)
                 /\ \A r \in shown : LET p == served.parent[r] IN
                       IF p = 0 THEN out[place(r)].depth = 0
                       ELSE place(p) < place(r) /\ out[place(r)].depth = out[place(p)].depth + 1
                 /\ [i \in DOMAIN out |-> out[i].reply] \in Seq(Nat)
  BY <1>2, RepliesHold
<1>3. ASSUME reading # Nothing
      PROVE  /\ Of(FlattenSeq(Older) \o WithStatus) = KeptContext.ancestors
             /\ Rendered(WithStatus) + HeadSize <= Most(ChunkChars, Threshold)
             /\ \A i \in DOMAIN Older : TextSize(Older[i]) <= ChunkChars
  <2>1. PICK m \in Nat, n \in Nat : Served(m, n)
    BY DEF MastoInv
  <2>2. stored # Nothing /\ reading.size \in Seq(Nat) /\ reading.size # <<>>
    BY <1>3 DEF MastoInv
  <2>3. KeptContext.ancestors \in Seq(Nat)
    BY <2>1, <2>2, KeptIs DEF Capped
  <2> QED BY <2>2, <2>3, AncestorsHold
<1>4. ASSUME reading # Nothing
      PROVE  /\ FlattenSeq(ReplyChunks) = Lines([i \in DOMAIN Descendants |-> Descendants[i].reply])
             /\ \A i \in DOMAIN ReplyChunks : TextSize(ReplyChunks[i]) <= Most(ChunkChars, Threshold)
  <2> DEFINE list == [i \in DOMAIN Descendants |-> Descendants[i].reply]
             ls == Lines(list)
  <2>1. list \in Seq(Nat)
    BY <1>2, <1>4
  <2>2. reading.size \in Seq(Nat) /\ reading.size # <<>>
    BY <1>4 DEF MastoInv
  <2>3. ReplyChunks = Chunked(ls, Threshold, ChunkChars)
    BY DEF ReplyChunks
  <2> HIDE DEF list
  <2>4. ls \in Seq(LineType) /\ Len(ls) = Len(list) /\ \A i \in 1..Len(list) : ls[i].size <= ChunkChars
    BY <2>1, <2>2, LinesAre
  <2> HIDE DEF ls
  <2>5. \A i \in 1..Len(ls) : ls[i].size <= ChunkChars
    BY <2>4
  <2>6. /\ FlattenSeq(Chunked(ls, Threshold, ChunkChars)) = ls
        /\ \A i \in DOMAIN Chunked(ls, Threshold, ChunkChars) :
              TextSize(Chunked(ls, Threshold, ChunkChars)[i]) <= Most(ChunkChars, Threshold)
    BY <2>4, <2>5, ChunksHold
  <2> QED BY <2>3, <2>6 DEF ls, list
<1> QED BY <1>1, <1>2, <1>3, <1>4 DEF ThreadIsReadWhole

-----------------------------------------------------------------------------
(* The sources side by side.                                                       *)

SourcesInv ==
    /\ part = "hackernews" => HNInv
    /\ part = "mastodon" => MastoInv
    /\ part = "reddit" => RedditInv

LEMMA SourcesBegin == ASSUME SourcesInit PROVE SourcesInv
BY HNBegins, MastoBegins, RedditBegins DEF SourcesInit, SourcesInv

LEMMA SourcesGoOn ==
    ASSUME SourcesInv, [SourcesNext]_<<part, hn, masto, redditVars, gvars>> PROVE SourcesInv'
<1>1. part' = part
  BY DEF SourcesNext
<1>2. ASSUME part = "hackernews" PROVE HNInv'
  <2>1. HNNext \/ UNCHANGED hn
    BY <1>2 DEF SourcesNext
  <2> QED BY <1>2, <2>1, HNKeeps, HNStays DEF SourcesInv
<1>3. ASSUME part = "mastodon" PROVE MastoInv'
  <2>1. [MNext]_masto
    BY <1>3 DEF SourcesNext
  <2> QED BY <1>3, <2>1, MastoKeeps DEF SourcesInv
<1>4. ASSUME part = "reddit" PROVE RedditInv'
  <2>1. [RNext]_redditVars
    BY <1>4 DEF SourcesNext
  <2> QED BY <1>4, <2>1, RedditKeeps DEF SourcesInv
<1> QED BY <1>1, <1>2, <1>3, <1>4 DEF SourcesInv

\* A thread is read as it was fetched, whole, whatever its size and its caps.  Hacker News:
\* the rendering walk over the stored items comes to the captured comments in the order the
\* importer captured them.  Mastodon: a context capped when fetched and again when read is
\* the context capped once, the replies below what is read come each once under the reply
\* they answer, and the chunks hold every line in order, none over its budget.  Reddit: a
\* live comment with enough score is shown unless its score was not settled, or the limit
\* was hit and everything shown scored as high (hackernews.py, mastodon.py, reddit.py).
THEOREM ThreadsAreWhole == SourcesSpec => []ThreadsAreReadWhole
<1>1. SourcesInit => SourcesInv
  BY SourcesBegin
<1>2. SourcesInv /\ [SourcesNext]_<<part, hn, masto, redditVars, gvars>> => SourcesInv'
  BY SourcesGoOn
<1>3. SourcesInv => ThreadsAreReadWhole
  BY HNAgrees, MastoHolds, RedditHolds DEF SourcesInv, ThreadsAreReadWhole
<1> QED BY <1>1, <1>2, <1>3, PTL DEF SourcesSpec
=====================================================================================
