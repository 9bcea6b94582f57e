---------------------------------- MODULE Calibration ----------------------------------
(***************************************************************************)
(* How stated confidences are calibrated against observed hit rates        *)
(* (src/particles/extraction/calibration.py): the isotonic map fitted by   *)
(* pooling adjacent violators and then small blocks, and the value it      *)
(* gives a stated confidence; and the life of a fit, from its diagnosis to *)
(* the claims it is applied to (extraction/general.py).  A stated          *)
(* confidence is a number of tenths; hit rates and calibrated values are   *)
(* fractions.  The pairs of a benchmark come in any order.                 *)
(***************************************************************************)
EXTENDS Integers, Sequences, SequencesExt, FiniteSets, FiniteSetsExt

CONSTANTS
    Stated,    \* confidences the extractor states, in tenths
    MinBlock,  \* ISOTONIC_MIN_BLOCK
    MaxPairs,  \* bound: pairs of a benchmark
    Releases   \* versions the extractor may run at

VARIABLES
    pairs,    \* [stated, correct], correct being 0 or 1, as the benchmark ran
    fit,      \* the fit in hand: its FitDiagnostics, and what its pairs told apart
    kept,     \* the ExtractorCalibration on record
    running,  \* EXTRACTOR_VERSION
    minted    \* the confidence of the last claim stored
calibration == <<pairs, fit, kept, running, minted>>

NoFit == [method |-> "none"]
Unknown == 0
\* A record: the form of its map, the version it was fitted under, and what its pairs told
\* apart: how many outcomes and how many stated levels among those the map can move.
Kept(transform, version, contrast) ==
    [transform |-> transform, version |-> version, contrast |-> contrast]
\* Older records: none; one of the retired form; a map without breakpoints; one fitted
\* before versions were kept.
OldRecords == {Kept("none", Unknown, <<0, 0>>), Kept("linear", Unknown, <<1, 1>>),
               Kept("isotonic, empty", 1, <<0, 0>>), Kept("logit", Unknown, <<2, 2>>)}
Nothing == [source |-> "none"]

Init ==
    /\ pairs = <<>> /\ fit = NoFit /\ kept \in OldRecords /\ running \in Releases
    /\ minted = Nothing

Observe(s, ok) ==
    /\ Len(pairs) < MaxPairs /\ fit = NoFit
    /\ pairs' = Append(pairs, [stated |-> s, correct |-> ok])
    /\ minted' = Nothing
    /\ UNCHANGED <<fit, kept, running>>

-----------------------------------------------------------------------------
\* IsotonicScaler.fit

Block(sum, hits, count) == [sum |-> sum, hits |-> hits, count |-> count]
Pooled(b, c) == Block(b.sum + c.sum, b.hits + c.hits, b.count + c.count)
RateAtLeast(b, c) == b.hits * c.count >= c.hits * b.count

\* Sorted by what is stated alone: ties keep the order of the benchmark.
Sorted ==
    LET before(i, k) == \/ pairs[i].stated < pairs[k].stated
                        \/ pairs[i].stated = pairs[k].stated /\ i < k
        order == SetToSortSeq(DOMAIN pairs, before)
    IN  [i \in DOMAIN order |-> pairs[order[i]]]

\* Mutant: a pair is pooled into the block before it, and no further back.
PoolBackOnce(blocks, b) ==
    IF blocks # <<>> /\ RateAtLeast(Last(blocks), b)
    THEN Append(Front(blocks), Pooled(Last(blocks), b))
    ELSE Append(blocks, b)

\* A new block swallows those before it as long as their rate is no smaller.
PoolBack(blocks, b) ==
    LET swallow(prev, s) ==
            IF s.kept = <<>> /\ RateAtLeast(prev, s.last)
            THEN [s EXCEPT !.last = Pooled(prev, @)]
            ELSE [s EXCEPT !.kept = <<prev>> \o @]
        swallowed == FoldRight(swallow, blocks, [kept |-> <<>>, last |-> b])
    IN  Append(swallowed.kept, swallowed.last)

Adjacent(s) == FoldLeft(LAMBDA blocks, p : PoolBack(blocks, Block(p.stated, p.correct, 1)), <<>>, s)

\* The first of the smallest blocks is pooled into its smaller neighbour.
PoolSmallest(blocks) ==
    LET n == Len(blocks)
        i == CHOOSE k \in 1..n : \A m \in 1..n : /\ blocks[k].count <= blocks[m].count
                                                 /\ m < k => blocks[k].count < blocks[m].count
        j == IF i = n \/ (i > 1 /\ blocks[i - 1].count <= blocks[i + 1].count) THEN i - 1 ELSE i + 1
        lo == Min({i, j})
    IN  SubSeq(blocks, 1, lo - 1) \o <<Pooled(blocks[lo], blocks[lo + 1])>> \o SubSeq(blocks, lo + 2, n)

Large(blocks) ==
    LET small(bs) == Len(bs) > 1 /\ \E i \in DOMAIN bs : bs[i].count < MinBlock
        turn(bs, b) == IF small(bs) THEN PoolSmallest(bs) ELSE bs
    IN  FoldLeft(turn, blocks, blocks)

Fit == Large(Adjacent(Sorted))

\* calibrate: a block stands at the mean of what it stated, and between two of them the
\* value is interpolated.
Fraction(num, den) == [num |-> num, den |-> den]
Calibrated(map, x) ==
    LET n == Len(map)
        rate(b) == Fraction(b.hits, b.count)
        k == CHOOSE i \in 1..(n - 1) : /\ x * map[i].count >= map[i].sum
                                       /\ x * map[i + 1].count <= map[i + 1].sum
                                       /\ \A m \in 1..(i - 1) : x * map[m + 1].count > map[m + 1].sum
        b == map[k]
        c == map[k + 1]
        apart == c.sum * b.count - b.sum * c.count
    IN  IF x * map[1].count <= map[1].sum THEN rate(map[1])
        ELSE IF x * map[n].count >= map[n].sum THEN rate(map[n])
        ELSE IF apart = 0 THEN rate(c)
        ELSE Fraction(b.hits * apart + (c.hits * b.count - b.hits * c.count) * (x * b.count - b.sum),
                      b.count * apart)

-----------------------------------------------------------------------------
\* FitDiagnostics.  A temperature moves neither 0 nor 1, so it is fitted on the others alone.
is_saturated(p) == p.stated \in {0, 10}
Movable == SelectSeq(pairs, LAMBDA p : ~is_saturated(p))

Diagnosed(method, fitted, onBound) ==
    [method |-> method, n |-> Len(pairs), fitted |-> Len(fitted),
     distinct |-> Cardinality({p.stated : p \in ToSet(fitted)}),
     right |-> Len(SelectSeq(fitted, LAMBDA p : p.correct = 1)),
     contrast |-> <<Cardinality({p.correct : p \in ToSet(fitted)}),
                    Cardinality({p.stated : p \in ToSet(fitted)})>>,
     onBound |-> onBound, ece |-> "unknown", heldout |-> "unasked"]

DegenerateLabels(d) == d.fitted > 0 /\ d.right \in {0, d.fitted}
PredictorDegenerate(d) == d.distinct < 2
Trustworthy(d) ==
    ~(DegenerateLabels(d) \/ d.onBound \/ PredictorDegenerate(d) \/ d.ece = "no better"
        \/ d.heldout \in {"missing", "worse"})
\* What the operator is told, by a list of its own.
Reasons(d) ==
    (IF DegenerateLabels(d) THEN {"labels"} ELSE {}) \cup
    (IF PredictorDegenerate(d) THEN {"levels"} ELSE {}) \cup
    (IF d.onBound THEN {"bound"} ELSE {}) \cup
    (IF d.ece = "no better" THEN {"ece"} ELSE {}) \cup
    (IF d.heldout = "missing" THEN {"no held-out"} ELSE {}) \cup
    (IF d.heldout = "worse" THEN {"held-out"} ELSE {})

\* Where the optimum lies is the optimizer's; with nothing to fit the temperature stays 1.
FitTemperature(onBound) ==
    /\ pairs # <<>> /\ fit = NoFit /\ (onBound => Movable # <<>>)
    /\ fit' = Diagnosed("logit", Movable, onBound) /\ pairs' = <<>>
    /\ UNCHANGED <<kept, running, minted>>
FitIsotonic ==
    /\ pairs # <<>> /\ fit = NoFit
    /\ fit' = Diagnosed("isotonic", pairs, FALSE) /\ pairs' = <<>>
    /\ UNCHANGED <<kept, running, minted>>

\* with_ece, over all pairs, and heldout_check, over those of another benchmark.
Judge(ece, heldout) ==
    /\ fit # NoFit /\ fit.ece = "unknown"
    /\ fit' = [fit EXCEPT !.ece = ece, !.heldout = heldout]
    /\ UNCHANGED <<pairs, kept, running, minted>>

\* `extractor calibrate`: a judged and trustworthy fit is kept, any other is dropped.
Persist ==
    /\ fit # NoFit /\ fit.ece # "unknown"
    /\ kept' = IF Trustworthy(fit) THEN Kept(fit.method, running, fit.contrast) ELSE kept
    /\ fit' = NoFit
    /\ UNCHANGED <<pairs, running, minted>>
Release(v) ==
    /\ v # running /\ fit = NoFit /\ pairs = <<>>
    /\ running' = v
    /\ UNCHANGED <<pairs, fit, kept, minted>>

-----------------------------------------------------------------------------
\* Mutant: any record that names a form is applied.
AppliesNamed(record) == record.transform \notin {"none", "isotonic, empty"}
\* scaler_for_record and version_mismatch_reason
Applies(record) == record.transform \in {"logit", "isotonic"}
Mismatched(record) == record.version \in {Unknown} \/ record.version # running

\* candidate_to_particle: a declared source first, then the record, then the stated value.
\* The version is judged where the caller names the running one; a claim that calls itself
\* structured without a triple is stored as prose.
Mint(declared, named, structured, triple) ==
    LET scaled == ~declared /\ Applies(kept) /\ ~(named /\ Mismatched(kept))
    IN  /\ fit = NoFit /\ pairs = <<>>
        /\ minted' = [source |-> IF declared THEN "IMPORTED"
                                 ELSE IF scaled THEN "CALIBRATED_BENCHMARK" ELSE "EXTRACTOR_DIRECT",
                      scaled |-> scaled, ref |-> IF scaled THEN kept ELSE Kept("none", Unknown, <<0, 0>>),
                      named |-> named, version |-> running, triple |-> triple,
                      form |-> IF structured /\ triple THEN "STRUCTURED" ELSE "PROSE"]
        /\ UNCHANGED <<pairs, fit, kept, running>>

Next ==
    \/ \E s \in Stated, ok \in {0, 1} : Observe(s, ok)
    \/ \E b \in BOOLEAN : FitTemperature(b)
    \/ FitIsotonic \/ Persist
    \/ \E e \in {"better", "no better"}, h \in {"missing", "worse", "fine"} : Judge(e, h)
    \/ \E v \in Releases : Release(v)
    \/ \E d, n, s, t \in BOOLEAN : Mint(d, n, s, t)
Spec == Init /\ [][Next]_calibration

-----------------------------------------------------------------------------
\* A stored confidence says truly what wrote it: a map changed it only if the stamp says so
\* and names a record of a form this release applies, fitted under the version the caller
\* named, on pairs the map can move that told right from wrong and one level from another
\* (a record from before versions may have been fitted on anything); and whatever is held
\* against a fit is told to the operator.
StampsAreEarned ==
    /\ minted # Nothing =>
          /\ minted.scaled <=> minted.source = "CALIBRATED_BENCHMARK"
          /\ minted.scaled =>
                /\ minted.ref.transform \in {"logit", "isotonic"}
                /\ minted.named => minted.ref.version = minted.version
                /\ minted.ref.contrast[1] = 2 /\ minted.ref.contrast[2] >= 2
          /\ minted.form = "STRUCTURED" => minted.triple
    /\ fit # NoFit => (Reasons(fit) = {} <=> Trustworthy(fit))

\* The map is the isotonic regression of the pairs: before small blocks are pooled, every
\* pair lies in a block whose rate is the greatest over starts before it of the least over
\* ends after it of the mean between; after, the rates still rise from block to block, no
\* block is small, no pair is lost, and no confidence is given less than a smaller one.
FitIsIsotonic ==
    LET s == Sorted
        n == Len(s)
        blocks == Adjacent(s)
        map == Large(blocks)
        hits(i, k) == MapThenSumSet(LAMBDA m : s[m].correct, i..k)
        begins(b) == MapThenSumSet(LAMBDA m : blocks[m].count, 1..(b - 1)) + 1
        ends(b) == begins(b) + blocks[b].count - 1
        atLeast(b, i, k) == blocks[b].hits * (k - i + 1) >= hits(i, k) * blocks[b].count
        atMost(b, i, k) == blocks[b].hits * (k - i + 1) <= hits(i, k) * blocks[b].count
        value == [x \in Stated |-> Calibrated(map, x)]
    IN  pairs # <<>> =>
          /\ \A b \in DOMAIN blocks : \A m \in begins(b)..ends(b) :
                /\ \A i \in 1..m : \E k \in m..n : atLeast(b, i, k)
                /\ \E i \in 1..m : \A k \in m..n : atMost(b, i, k)
          /\ \A i \in 1..(Len(map) - 1) : ~RateAtLeast(map[i], map[i + 1])
          /\ Len(map) = 1 \/ \A i \in DOMAIN map : map[i].count >= MinBlock
          /\ MapThenSumSet(LAMBDA i : map[i].count, DOMAIN map) = n
          /\ MapThenSumSet(LAMBDA i : map[i].hits, DOMAIN map) = hits(1, n)
          /\ \A x, y \in Stated : x < y =>
                value[x].num * value[y].den <= value[y].num * value[x].den
=====================================================================================
