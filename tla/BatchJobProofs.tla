---------------------------- MODULE BatchJobProofs ----------------------------
(***************************************************************************)
(* Theorems about BatchJob, for every number of jobs and requests and all  *)
(* the bounds: a request is paid for once, what was paid for reaches the   *)
(* caller in its place, and the budgets the jobs share hold.               *)
(*                                                                         *)
(* Each job keeps an invariant of its own (JobInv): its stack is the chunk *)
(* after the results and at most one re-run of some of its requests; what  *)
(* was billed is never owed again; and text a batch answered is in the     *)
(* results or in the call that will fill its place.  Every step is one of  *)
(* a few kinds: the top call goes on (GoesOn, BillsTop), a call is entered *)
(* or left (Moves, Entered), or the set starts over (FallsBack).           *)
(***************************************************************************)
EXTENDS BatchJob, FiniteSetTheorems, SequenceTheorems, TLAPS

\* Where a job stands: its frame is out, or its texts are there; it has no frame otherwise.
Sending == {"submitting", "polling", "canceling", "collecting", "chunkSequential"}
Reading == {"settling", "remainder", "returning"}
Label == {"asked", "chunking", "sequential", "done", "raised"} \cup Sending \cup Reading

\* What the records of a job are made of.
Reply == [text : 0..N, failure : {"none", "EMPTY", "REFUSED", "UNAVAILABLE"}]
FrameType ==
    [reqs : Seq(Request), fills : Seq(Nat), temp : BOOLEAN, cap : Nat, elapsed : Nat,
     cancelled : BOOLEAN, grace : 0..Grace, texts : Seq(Reply),
     canceledIds : SUBSET Nat, temperatureIds : SUBSET Nat]
Bills == [batch : [Request -> Nat], sequential : [Request -> Nat]]

\* An entry that answers request r, with text or with the reason why not.
Answers(e, r) == e.text \in {0, r} /\ (e.text = 0 <=> e.failure # "none")
Complete(f) == Len(f.texts) = Len(f.reqs) /\ \A i \in 1..Len(f.reqs) : Answers(f.texts[i], f.reqs[i])

\* Every variable holds what the code puts there.
TypeInv ==
    /\ pc \in [Job -> Label] /\ results \in [Job -> Seq(Reply)] /\ frames \in [Job -> Seq(FrameType)]
    /\ spentSeconds \in Nat /\ spentUsd \in Nat /\ waits \in SUBSET Job /\ fellBack \in SUBSET Job
    /\ noTemp \in BOOLEAN /\ refuses \in BOOLEAN
    /\ answered \in [Job -> SUBSET Request] /\ waited \in [Job -> Nat] /\ billed \in [Job -> Bills]

\* The ids a call keeps are positions of its own requests, and a call sent without a
\* temperature has none refused for it.
OwnIds(f) ==
    /\ f.canceledIds \subseteq 1..Len(f.reqs) /\ f.temperatureIds \subseteq 1..Len(f.reqs)
    /\ f.canceledIds \cap f.temperatureIds = {}
    /\ ~f.temp => f.temperatureIds = {}
\* The first call of a stack is the chunk after the n results.
ChunkOf(f, n) ==
    /\ OwnIds(f) /\ Len(f.reqs) <= ChunkSize /\ n + Len(f.reqs) <= N
    /\ \A i \in 1..Len(f.reqs) : f.reqs[i] = n + i
\* The second call runs some requests of the first again, none of them cancelled, once each.
RerunOf(g, f) ==
    /\ OwnIds(g) /\ ~g.temp
    /\ f.temperatureIds = {} /\ Complete(f)
    /\ Len(g.fills) = Len(g.reqs)
    /\ \A m \in 1..Len(g.reqs) :
          /\ g.fills[m] \in 1..Len(f.reqs) \ f.canceledIds
          /\ g.reqs[m] = f.reqs[g.fills[m]]
    /\ \A m, k \in 1..Len(g.reqs) : g.fills[m] = g.fills[k] => m = k
\* What the stack of calls looks like wherever the job stands.
StackOK(p, res, fr) ==
    /\ Len(fr) <= 2
    /\ fr = <<>> <=> p \notin Sending \cup Reading
    /\ fr # <<>> => ChunkOf(fr[1], Len(res))
    /\ Len(fr) = 2 => RerunOf(fr[2], fr[1])
    /\ p \in Reading => Complete(fr[Len(fr)])
    /\ p = "remainder" => fr[Len(fr)].temperatureIds = {}
\* The replies collected so far answer the set's requests in order.
ResultsOK(p, res) ==
    /\ Len(res) <= N /\ (p = "done" => Len(res) = N) /\ (p = "asked" => res = <<>>)
    /\ \A i \in 1..Len(res) : Answers(res[i], i)

\* The requests that were not billed yet: those of the chunks to come, and in the chunk that is
\* out those whose frame may still be answered or run again.
OwedIn(f, p) ==
    {i \in 1..Len(f.reqs) :
        \/ p \in Sending
        \/ p = "settling" /\ i \in f.temperatureIds \cup f.canceledIds
        \/ p = "remainder" /\ i \in f.canceledIds}
OwedBy(fr, p) ==
    IF fr = <<>> THEN {}
    ELSE IF Len(fr) = 1 THEN {fr[1].reqs[i] : i \in OwedIn(fr[1], p)}
    ELSE {fr[2].reqs[i] : i \in OwedIn(fr[2], p)} \cup {fr[1].reqs[i] : i \in fr[1].canceledIds}
\* The last request of the chunk that is out, and those of the chunks after it.
LastOf(res, fr) == Len(res) + IF fr = <<>> THEN 0 ELSE Len(fr[1].reqs)
Ahead(p, res, fr) ==
    IF p \in {"asked", "chunking"} \cup Sending \cup Reading THEN {r \in Request : r > LastOf(res, fr)}
    ELSE IF p = "sequential" THEN Request ELSE {}
\* Usage recorded so far: at most once a request, and not at all for a request still owed a reply.
\* A set that fell back may be billed a second time, by the sequential run.
BilledOK(p, res, fr, b, back) ==
    /\ ~back => /\ \A r \in Request : b.batch[r] + b.sequential[r] <= 1
                /\ \A r \in Ahead(p, res, fr) \cup OwedBy(fr, p) : b.batch[r] = 0 /\ b.sequential[r] = 0
    /\ back => /\ p \in {"sequential", "done", "raised"}
               /\ \A r \in Request : /\ b.batch[r] <= 1
                                     /\ b.sequential[r] <= IF p = "sequential" THEN 1 ELSE 2

\* A request that a batch answered has its text in the results or in the frame that will fill it.
InRerun(fr, i) == Len(fr) = 2 /\ \E m \in 1..Len(fr[2].reqs) : fr[2].fills[m] = i
\* The text of r is in the results, or in the top call that will fill its place.
KeptAt(p, res, fr, r) ==
    IF r <= Len(res) THEN res[r].text = r
    ELSE /\ p \in Sending \cup Reading /\ r <= LastOf(res, fr)
         /\ IF InRerun(fr, r - Len(res))
            THEN \E m \in 1..Len(fr[2].texts) : /\ m <= Len(fr[2].reqs) /\ fr[2].fills[m] = r - Len(res)
                                                /\ fr[2].texts[m].text = r
            ELSE r - Len(res) <= Len(fr[1].texts) /\ fr[1].texts[r - Len(res)].text = r
\* What a batch answered is billed and kept.
PaidOK(p, res, fr, b, ans, back) ==
    ~back => \A r \in ans : b.batch[r] > 0 /\ KeptAt(p, res, fr, r)

\* The invariant of one job.
JobInv(j) ==
    /\ StackOK(pc[j], results[j], frames[j]) /\ ResultsOK(pc[j], results[j])
    /\ BilledOK(pc[j], results[j], frames[j], billed[j], j \in fellBack)
    /\ PaidOK(pc[j], results[j], frames[j], billed[j], answered[j], j \in fellBack)

\* The requests at some positions.
HitBy(reqs, hit) == {reqs[i] : i \in hit}

\* Usage is recorded for the requests H.
BilledFor(b, b2, route, H) ==
    /\ \A r \in Request : b2[route][r] = IF r \in H THEN b[route][r] + 1 ELSE b[route][r]
    /\ route = "batch" => b2.sequential = b.sequential
    /\ route = "sequential" => b2.batch = b.batch

\* A finite set of numbers has its ascending sequence: each member stands at its rank.
LEMMA AscendingIs ==
    ASSUME NEW n \in Nat, NEW S \in SUBSET (1..n)
    PROVE  /\ Cardinality(S) \in Nat /\ Cardinality(S) <= n
           /\ Ascending(S) \in [1..Cardinality(S) -> S]
           /\ \A m, k \in 1..Cardinality(S) : Ascending(S)[m] = Ascending(S)[k] => m = k
           /\ \A x \in S : \E m \in 1..Cardinality(S) : Ascending(S)[m] = x
<1> DEFINE c == Cardinality(S)
           Below(x) == {y \in S : y < x}
           rank == [x \in S |-> Cardinality(Below(x)) + 1]
<1>1. IsFiniteSet(S) /\ c \in Nat /\ c <= n
  <2>1. IsFiniteSet(1..n) /\ Cardinality(1..n) = n
    BY FS_Interval
  <2>2. IsFiniteSet(S) /\ Cardinality(S) <= Cardinality(1..n)
    BY <2>1, FS_Subset
  <2>3. Cardinality(S) \in Nat
    BY <2>2, FS_CardinalityType
  <2> QED
    BY <2>1, <2>2, <2>3
<1>2. \A x \in S : /\ IsFiniteSet(Below(x)) /\ Cardinality(Below(x)) \in Nat /\ Cardinality(Below(x)) < c
  <2> SUFFICES ASSUME NEW x \in S
               PROVE  IsFiniteSet(Below(x)) /\ Cardinality(Below(x)) \in Nat /\ Cardinality(Below(x)) < c
    OBVIOUS
  <2>1. Below(x) \in SUBSET S /\ x \notin Below(x)
    OBVIOUS
  <2>2. IsFiniteSet(Below(x)) /\ Cardinality(Below(x)) <= c /\ Cardinality(Below(x)) # c
    <3> HIDE DEF Below
    <3> QED
      BY <1>1, <2>1, FS_Subset
  <2>3. Cardinality(Below(x)) \in Nat
    BY <2>2, FS_CardinalityType
  <2> QED
    BY <1>1, <2>2, <2>3
<1>3. \A x, z \in S : x < z => Cardinality(Below(x)) < Cardinality(Below(z))
  <2> SUFFICES ASSUME NEW x \in S, NEW z \in S, x < z
               PROVE  Cardinality(Below(x)) < Cardinality(Below(z))
    OBVIOUS
  <2>1. Below(x) \in SUBSET Below(z) /\ x \in Below(z) /\ x \notin Below(x)
    <3>1. \A y \in S : y \in Int
      OBVIOUS
    <3>2. ~(x < x) /\ \A y \in S : y < x => y < z
      BY <3>1
    <3> QED
      BY <3>2
  <2>2. Cardinality(Below(x)) <= Cardinality(Below(z)) /\ Cardinality(Below(x)) # Cardinality(Below(z))
    BY <1>2, <2>1, FS_Subset
  <2> QED
    BY <1>2, <2>2
<1> HIDE DEF Below
<1>4. rank \in [S -> 1..c] /\ \A x, z \in S : x < z => rank[x] < rank[z]
  BY <1>1, <1>2, <1>3
<1> HIDE DEF rank
<1>5. \A x, z \in S : rank[x] = rank[z] => x = z
  <2> SUFFICES ASSUME NEW x \in S, NEW z \in S, rank[x] = rank[z], x # z PROVE FALSE
    OBVIOUS
  <2>1. x < z \/ z < x
    OBVIOUS
  <2>2. rank[x] \in Nat /\ rank[z] \in Nat
    BY <1>4, <1>1
  <2> QED
    BY <1>4, <2>1, <2>2
<1>6. \A k \in 1..c : \E x \in S : rank[x] = k
  <2>1. rank \in Injection(S, 1..c)
    BY <1>4, <1>5 DEF Injection, IsInjective
  <2>2. IsFiniteSet(1..c) /\ Cardinality(1..c) = c
    BY <1>1, FS_Interval
  <2>3. rank \in Surjection(S, 1..c)
    BY <2>1, <2>2, FS_Injection
  <2> QED
    BY <2>3 DEF Surjection
<1> DEFINE inv == [k \in 1..c |-> CHOOSE x \in S : rank[x] = k]
<1>7. inv \in [1..c -> S] /\ \A k \in 1..c : rank[inv[k]] = k
  BY <1>6
<1> HIDE DEF inv
<1>8. \A m, k \in DOMAIN inv : m < k => inv[m] < inv[k]
  <2> SUFFICES ASSUME NEW m \in 1..c, NEW k \in 1..c, m < k PROVE inv[m] < inv[k]
    BY <1>7
  <2>1. inv[m] \in S /\ inv[k] \in S /\ rank[inv[m]] = m /\ rank[inv[k]] = k
    BY <1>7
  <2>2. inv[k] < inv[m] => k < m
    BY <1>4, <2>1
  <2>3. inv[m] # inv[k] /\ ~(inv[k] < inv[m])
    BY <2>1, <2>2, <1>1
  <2>4. inv[m] \in 1..n /\ inv[k] \in 1..n
    BY <2>1
  <2> QED
    BY <2>3, <2>4
<1> DEFINE Sorted(s) == \A m, k \in DOMAIN s : m < k => s[m] < s[k]
<1>9. Ascending(S) = CHOOSE s \in [1..c -> S] : Sorted(s)
  BY DEF Ascending
<1>10. Sorted(inv)
  BY <1>8
<1> DEFINE a == Ascending(S)
<1> HIDE DEF Sorted
<1>11. a \in [1..c -> S] /\ Sorted(a)
  BY <1>7, <1>9, <1>10
<1> HIDE DEF a
<1>12. \A m, k \in 1..c : a[m] = a[k] => m = k
  <2> SUFFICES ASSUME NEW m \in 1..c, NEW k \in 1..c, a[m] = a[k], m # k PROVE FALSE
    OBVIOUS
  <2>1. m < k \/ k < m
    BY <1>1
  <2>2. a[m] < a[k] \/ a[k] < a[m]
    BY <1>11, <2>1 DEF Sorted
  <2>3. a[m] \in 1..n /\ a[k] \in 1..n
    BY <1>11
  <2> QED
    BY <2>2, <2>3
<1>13. \A x \in S : \E m \in 1..c : a[m] = x
  <2>1. a \in Injection(1..c, S)
    BY <1>11, <1>12 DEF Injection, IsInjective
  <2>2. IsFiniteSet(1..c) /\ Cardinality(1..c) = c
    BY <1>1, FS_Interval
  <2>3. a \in Surjection(1..c, S)
    BY <1>1, <2>1, <2>2, FS_Injection
  <2> QED
    BY <2>3 DEF Surjection
<1> QED
  BY <1>1, <1>11, <1>12, <1>13 DEF a

\* custom_id finds every entry: the stream delivers each index once, in some order.
LEMMA LookupIs ==
    ASSUME NEW n \in Nat, NEW order \in Orders(n), NEW i \in 1..n
    PROVE  Lookup(order, i) \in 1..n /\ order[Lookup(order, i)] = i
<1>1. order \in [1..n -> 1..n] /\ \A m, k \in 1..n : order[m] = order[k] => m = k
  BY DEF Orders
<1>2. order \in Injection(1..n, 1..n)
  BY <1>1 DEF Injection, IsInjective
<1>3. IsFiniteSet(1..n)
  BY FS_Interval
<1>4. order \in Surjection(1..n, 1..n)
  BY <1>2, <1>3, FS_Injection
<1>5. \E k \in 1..n : order[k] = i
  BY <1>4 DEF Surjection
<1>6. DOMAIN order = 1..n
  BY <1>1
<1> QED
  BY <1>5, <1>6 DEF Lookup

\* The units of f[j], and how a sum is taken apart.
Units(f, j) == {j} \X (1..f[j])

\* A place has as many units as its number says.
LEMMA UnitsAre ==
    ASSUME NEW f, NEW j, f[j] \in Nat
    PROVE  IsFiniteSet(Units(f, j)) /\ Cardinality(Units(f, j)) = f[j]
<1>1. IsFiniteSet({j}) /\ Cardinality({j}) = 1
  BY FS_Singleton
<1>2. IsFiniteSet(1..f[j]) /\ Cardinality(1..f[j]) = f[j]
  BY FS_Interval
<1>3. IsFiniteSet({j} \X (1..f[j])) /\ Cardinality({j} \X (1..f[j])) = 1 * f[j]
  BY <1>1, <1>2, FS_Product
<1> QED
  BY <1>3 DEF Units

\* A sum of finitely many numbers is a number.
LEMMA TotalIs ==
    ASSUME NEW D, IsFiniteSet(D), NEW f \in [D -> Nat]
    PROVE  /\ IsFiniteSet(UNION {Units(f, j) : j \in D})
           /\ Total(f) = Cardinality(UNION {Units(f, j) : j \in D})
           /\ Total(f) \in Nat
<1> DEFINE u == [j \in D |-> Units(f, j)]
<1>1. u \in Surjection(D, {Units(f, j) : j \in D})
  BY DEF Surjection
<1>2. IsFiniteSet({Units(f, j) : j \in D})
  BY <1>1, FS_Surjection
<1>3. \A U \in {Units(f, j) : j \in D} : IsFiniteSet(U)
  BY UnitsAre
<1>4. IsFiniteSet(UNION {Units(f, j) : j \in D})
  BY <1>2, <1>3, FS_UNION
<1>5. DOMAIN f = D
  OBVIOUS
<1>6. Total(f) = Cardinality(UNION {Units(f, j) : j \in D})
  BY <1>5 DEF Total, Units
<1> QED
  BY <1>4, <1>6, FS_CardinalityType

\* A sum is the value at one place and the sum over the others.
LEMMA TotalSplits ==
    ASSUME NEW D, IsFiniteSet(D), NEW f \in [D -> Nat], NEW j \in D
    PROVE  /\ Total([k \in D \ {j} |-> f[k]]) \in Nat
           /\ Total(f) = f[j] + Total([k \in D \ {j} |-> f[k]])
<1> DEFINE g == [k \in D \ {j} |-> f[k]]
           A == UNION {Units(g, k) : k \in D \ {j}}
           B == Units(f, j)
<1>1. IsFiniteSet(D \ {j})
  BY FS_RemoveElement
<1>2. g \in [D \ {j} -> Nat]
  OBVIOUS
<1>3. IsFiniteSet(A) /\ Total(g) = Cardinality(A) /\ Total(g) \in Nat
  BY <1>1, <1>2, TotalIs
<1>4. IsFiniteSet(B) /\ Cardinality(B) = f[j]
  BY UnitsAre
<1>5. UNION {Units(f, k) : k \in D} = A \cup B
  <2>1. \A k \in D \ {j} : Units(g, k) = Units(f, k)
    BY DEF Units
  <2> QED
    BY <2>1
<1>6. A \cap B = {}
  BY DEF Units
<1>7. Total(f) = Cardinality(A \cup B)
  BY <1>5, TotalIs
<1> HIDE DEF A, B, g
<1>8. Cardinality(A \cup B) = Cardinality(A) + Cardinality(B) - Cardinality(A \cap B)
  BY <1>3, <1>4, FS_Union
<1>9. Cardinality(A \cap B) = 0
  BY <1>6, FS_EmptySet
<1>10. f[j] \in Nat
  OBVIOUS
<1>11. Total(f) = f[j] + Total(g)
  BY <1>3, <1>4, <1>7, <1>8, <1>9, <1>10
<1> QED
  BY <1>3, <1>11 DEF g

\* A sum of numbers up to c is at most c for each of them.
LEMMA TotalIsBounded ==
    ASSUME NEW D, IsFiniteSet(D), NEW c \in Nat, NEW f \in [D -> Nat], \A j \in D : f[j] <= c
    PROVE  Total(f) <= Cardinality(D) * c
<1>1. IsFiniteSet(1..c) /\ Cardinality(1..c) = c
  BY FS_Interval
<1>2. IsFiniteSet(D \X (1..c)) /\ Cardinality(D \X (1..c)) = Cardinality(D) * c
  BY <1>1, FS_Product
<1>3. UNION {Units(f, j) : j \in D} \in SUBSET (D \X (1..c))
  BY DEF Units
<1>4. Cardinality(UNION {Units(f, j) : j \in D}) <= Cardinality(D \X (1..c))
  BY <1>2, <1>3, FS_Subset
<1> QED
  BY <1>2, <1>4, TotalIs

\* The bounds, one by one.
LEMMA Constants ==
    /\ N \in Nat \ {0} /\ ChunkSize \in Nat \ {0} /\ PollInterval \in Nat \ {0}
    /\ MaxWait \in Nat /\ Grace \in Nat /\ WaitBudget \in Nat /\ Floor \in Nat /\ SpendLimit \in Nat
BY BoundsAssumption

\* A function on 1..n is a sequence of length n.
LEMMA IsSequence ==
    ASSUME NEW S, NEW n \in Nat, NEW s \in [1..n -> S]
    PROVE  s \in Seq(S) /\ Len(s) = n /\ DOMAIN s = 1..n
BY SeqDef

\* Two lists of known lengths joined.
LEMMA JoinIs ==
    ASSUME NEW s \in Seq(Reply), NEW t \in Seq(Reply), NEW n \in Nat, NEW m \in Nat, Len(s) = n, Len(t) = m
    PROVE  /\ s \o t \in Seq(Reply) /\ Len(s \o t) = n + m
           /\ \A i \in 1..(n + m) : (s \o t)[i] = IF i <= n THEN s[i] ELSE t[i - n]
BY ConcatProperties

\* The next chunk holds the positions after the results, up to a full chunk.
LEMMA ChunkIs ==
    ASSUME NEW j \in Job, results \in [Job -> Seq(Reply)], Len(results[j]) <= N
    PROVE  /\ Chunk(j) \in Seq(Request)
           /\ Len(Chunk(j)) <= ChunkSize /\ Len(results[j]) + Len(Chunk(j)) <= N
           /\ \A i \in 1..Len(Chunk(j)) : Chunk(j)[i] = Len(results[j]) + i
           /\ Chunk(j) = <<>> => Len(results[j]) = N
           /\ Chunk(j) # <<>> => Len(Chunk(j)) > 0
<1> DEFINE n == Len(results[j])
           m == ChunkEnd(n + 1) - (n + 1) + 1
<1>1. n \in Nat /\ n <= N
  BY LenProperties
<1>2. m \in Nat /\ m <= ChunkSize /\ n + m <= N /\ (n < N => m > 0)
  BY <1>1, Constants DEF ChunkEnd
<1>4. Chunk(j) = [i \in 1..m |-> n + i]
  <2>1. \A i \in 1..m : (n + 1) + i - 1 = n + i
    BY <1>1, <1>2
  <2>2. Chunk(j) = [i \in 1..m |-> (n + 1) + i - 1]
    BY Zenon DEF Chunk
  <2> QED
    BY <2>1, <2>2
<1> HIDE DEF n, m
<1>5. Chunk(j) \in [1..m -> Request]
  BY <1>1, <1>2, <1>4, Constants DEF Request
<1>6. Chunk(j) \in Seq(Request) /\ Len(Chunk(j)) = m
  BY <1>2, <1>5, IsSequence
<1>7. \A i \in 1..m : Chunk(j)[i] = n + i
  BY <1>4
<1>8. Chunk(j) # <<>> => Len(Chunk(j)) > 0
  BY <1>6, EmptySeq
<1>9. Chunk(j) = <<>> => m = 0
  BY <1>6, EmptySeq
<1>10. Chunk(j) = <<>> => n = N
  BY <1>1, <1>2, <1>9, Constants
<1>11. n = Len(results[j])
  BY DEF n
<1> QED
  BY <1>2, <1>6, <1>7, <1>8, <1>10, <1>11

\* The requests at the positions of a set, in ascending order.
LEMMA AtIs ==
    ASSUME NEW T, NEW q \in Seq(T), NEW S \in SUBSET (1..Len(q))
    PROVE  /\ Ascending(S) \in Seq(Nat) /\ At(q, Ascending(S)) \in Seq(T)
           /\ Len(Ascending(S)) = Len(At(q, Ascending(S)))
           /\ DOMAIN Ascending(S) = 1..Len(Ascending(S))
           /\ \A m \in 1..Len(Ascending(S)) :
                 Ascending(S)[m] \in S /\ At(q, Ascending(S))[m] = q[Ascending(S)[m]]
           /\ \A m, k \in 1..Len(Ascending(S)) : Ascending(S)[m] = Ascending(S)[k] => m = k
           /\ \A x \in S : \E m \in 1..Len(Ascending(S)) : Ascending(S)[m] = x
<1> DEFINE c == Cardinality(S)
           a == Ascending(S)
<1>1. Len(q) \in Nat
  BY LenProperties
<1>2. /\ c \in Nat /\ a \in [1..c -> S]
      /\ \A m, k \in 1..c : a[m] = a[k] => m = k
      /\ \A x \in S : \E m \in 1..c : a[m] = x
  BY <1>1, AscendingIs
<1> HIDE DEF c, a
<1>3. a \in [1..c -> Nat]
  <2>1. S \subseteq Nat
    BY <1>1
  <2> QED
    BY <1>2, <2>1, Zenon
<1>4. a \in Seq(Nat) /\ Len(a) = c /\ DOMAIN a = 1..c
  BY <1>2, <1>3, IsSequence
<1>5. At(q, a) = [k \in 1..c |-> q[a[k]]]
  BY <1>4 DEF At
<1>6. \A k \in 1..c : q[a[k]] \in T
  BY <1>2, ElementOfSeq
<1>7. At(q, a) \in [1..c -> T]
  BY <1>5, <1>6
<1>8. At(q, a) \in Seq(T) /\ Len(At(q, a)) = c
  BY <1>2, <1>7, IsSequence
<1>9. \A m \in 1..c : a[m] \in S /\ At(q, a)[m] = q[a[m]]
  BY <1>2, <1>5
<1> QED
  BY <1>2, <1>4, <1>8, <1>9 DEF a

\* The zip loops put a reply at each listed place: places are listed once, with a reply for each.
Fillable(T, q, at, replies) ==
    /\ q \in Seq(T) /\ replies \in Seq(T) /\ at \in Seq(Nat) /\ Len(at) <= Len(replies)
    /\ \A m, k \in 1..Len(at) : at[m] = at[k] => m = k

\* What the zip loops leave: the replies at the listed places, the rest as it was.
LEMMA FillIs ==
    ASSUME NEW T, NEW q, NEW at, NEW replies, Fillable(T, q, at, replies)
    PROVE  /\ Fill(q, at, replies) \in Seq(T) /\ Len(Fill(q, at, replies)) = Len(q)
           /\ \A m \in 1..Len(at) : at[m] \in 1..Len(q) => Fill(q, at, replies)[at[m]] = replies[m]
           /\ \A i \in 1..Len(q) :
                 (\A m \in 1..Len(at) : at[m] # i) => Fill(q, at, replies)[i] = q[i]
<1> DEFINE f == Fill(q, at, replies)
<1> USE DEF Fillable
<1>1. /\ Len(q) \in Nat /\ DOMAIN q = 1..Len(q) /\ DOMAIN at = 1..Len(at) /\ Len(at) \in Nat
      /\ Len(replies) \in Nat
  BY LenProperties
<1>2. f = [i \in 1..Len(q) |->
              IF \E k \in 1..Len(at) : at[k] = i
              THEN replies[CHOOSE k \in 1..Len(at) : at[k] = i] ELSE q[i]]
  BY <1>1 DEF Fill
<1> HIDE DEF f
<1>3. \A m \in 1..Len(at) : (CHOOSE k \in 1..Len(at) : at[k] = at[m]) = m
  OBVIOUS
<1>4. \A m \in 1..Len(at) : at[m] \in 1..Len(q) => f[at[m]] = replies[m]
  BY <1>2, <1>3
<1>5. \A i \in 1..Len(q) : (\A m \in 1..Len(at) : at[m] # i) => f[i] = q[i]
  BY <1>2
<1>6. \A i \in 1..Len(q) : f[i] \in T
  <2> SUFFICES ASSUME NEW i \in 1..Len(q) PROVE f[i] \in T
    OBVIOUS
  <2>1. q[i] \in T /\ \A m \in 1..Len(at) : replies[m] \in T
    <3>1. \A m \in 1..Len(at) : m \in 1..Len(replies)
      BY <1>1
    <3> QED
      BY <3>1, ElementOfSeq
  <2>2. CASE \E m \in 1..Len(at) : at[m] = i
    BY <1>4, <2>1, <2>2
  <2>3. CASE \A m \in 1..Len(at) : at[m] # i
    BY <1>5, <2>1, <2>3
  <2> QED
    BY <2>2, <2>3
<1>7. f \in [1..Len(q) -> T]
  BY <1>2, <1>6
<1>8. f \in Seq(T) /\ Len(f) = Len(q)
  BY <1>1, <1>7, IsSequence
<1> QED
  BY <1>4, <1>5, <1>8 DEF f

\* record_usage for the replies to some positions: the job is billed for those requests and the
\* run for what they cost, nobody else for anything.
LEMMA BillIs ==
    ASSUME TypeInv, NEW j \in Job, NEW reqs, NEW hit, NEW route \in {"batch", "sequential"},
           IsFiniteSet(hit), Bill(j, reqs, hit, route)
    PROVE  /\ billed' \in [Job -> Bills] /\ spentUsd' \in Nat
           /\ \A k \in Job \ {j} : billed'[k] = billed[k]
           /\ BilledFor(billed[j], billed'[j], route, HitBy(reqs, hit))
           /\ spentUsd' = spentUsd + Cardinality(hit) * (IF route = "batch" THEN 1 ELSE 2)
<1> DEFINE more == [r \in Request |-> billed[j][route][r] + IF r \in HitBy(reqs, hit) THEN 1 ELSE 0]
<1>1. billed \in [Job -> Bills] /\ spentUsd \in Nat /\ Cardinality(hit) \in Nat
  BY FS_CardinalityType DEF TypeInv
<1>2. billed' = [billed EXCEPT ![j] = [billed[j] EXCEPT ![route] = more]]
  BY <1>1 DEF Bill, HitBy
<1>3. billed[j] \in Bills
  BY <1>1
<1>4. billed[j][route] \in [Request -> Nat]
  BY <1>3 DEF Bills
<1>5. more \in [Request -> Nat]
  BY <1>4
<1>6. spentUsd' = spentUsd + Cardinality(hit) * (IF route = "batch" THEN 1 ELSE 2)
  BY DEF Bill
<1>7. spentUsd' \in Nat
  BY <1>1, <1>6
<1>8. \A r \in Request : more[r] =
         IF r \in HitBy(reqs, hit) THEN billed[j][route][r] + 1 ELSE billed[j][route][r]
  BY <1>4
<1> HIDE DEF more
<1>9. /\ [billed[j] EXCEPT ![route] = more] \in Bills
      /\ [billed[j] EXCEPT ![route] = more][route] = more
      /\ route = "batch" => [billed[j] EXCEPT ![route] = more].sequential = billed[j].sequential
      /\ route = "sequential" => [billed[j] EXCEPT ![route] = more].batch = billed[j].batch
  BY <1>3, <1>5 DEF Bills
<1>10. BilledFor(billed[j], billed'[j], route, HitBy(reqs, hit))
  BY <1>1, <1>2, <1>8, <1>9 DEF BilledFor
<1> QED
  BY <1>1, <1>2, <1>6, <1>7, <1>9, <1>10

\* The requests of the call on top, all that is owed a reply, and what the rest of the set is owed.
Asked(f) == {f.reqs[i] : i \in 1..Len(f.reqs)}
Owed(p, res, fr) == Ahead(p, res, fr) \cup OwedBy(fr, p)
Others(p, res, fr) ==
    Ahead(p, res, fr) \cup IF Len(fr) = 2 THEN {fr[1].reqs[i] : i \in fr[1].canceledIds} ELSE {}

\* The call on top: its requests are its own, each once, in the chunk after the results.
LEMMA CallIs ==
    ASSUME NEW p, NEW res \in Seq(Reply), NEW fr \in Seq(FrameType), fr # <<>>, StackOK(p, res, fr)
    PROVE  LET f == fr[Len(fr)] IN
           /\ Len(fr) \in {1, 2} /\ f \in FrameType /\ fr[1] \in FrameType /\ ChunkOf(fr[1], Len(res))
           /\ p \in Sending \cup Reading /\ OwnIds(f) /\ Len(f.reqs) \in Nat /\ Len(res) \in Nat
           /\ Len(fr[1].reqs) \in Nat
           /\ \A i, k \in 1..Len(f.reqs) : f.reqs[i] = f.reqs[k] => i = k
           /\ \A i \in 1..Len(f.reqs) : /\ f.reqs[i] \in Request
                                        /\ Len(res) < f.reqs[i] /\ f.reqs[i] <= LastOf(res, fr)
           /\ Asked(f) \cap Others(p, res, fr) = {}
<1> DEFINE f == fr[Len(fr)]
<1>1. Len(fr) \in {1, 2} /\ p \in Sending \cup Reading /\ Len(res) \in Nat
  <2>1. Len(fr) \in Nat \ {0} /\ Len(res) \in Nat
    BY LenProperties, EmptySeq
  <2>2. Len(fr) <= 2 /\ p \in Sending \cup Reading
    BY DEF StackOK
  <2>3. \A n \in Nat \ {0} : n <= 2 => n \in {1, 2}
    OBVIOUS
  <2>4. Len(fr) \in {1, 2}
    BY <2>1, <2>2, <2>3, Zenon
  <2> QED
    BY <2>1, <2>2, <2>4
<1>2. f \in FrameType /\ fr[1] \in FrameType
  <2>1. 1 \in 1..Len(fr) /\ Len(fr) \in 1..Len(fr)
    BY <1>1
  <2> QED
    BY <2>1, ElementOfSeq
<1>3. Len(f.reqs) \in Nat /\ \A i \in 1..Len(f.reqs) : f.reqs[i] \in Request
  <2>1. f.reqs \in Seq(Request)
    BY <1>2 DEF FrameType
  <2> HIDE DEF f
  <2> QED
    BY <2>1, LenProperties, ElementOfSeq
<1>4. Len(fr[1].reqs) \in Nat /\ \A i \in 1..Len(fr[1].reqs) : fr[1].reqs[i] \in Request
  BY <1>2, LenProperties, ElementOfSeq DEF FrameType
<1>5. ChunkOf(fr[1], Len(res))
  BY DEF StackOK
<1>6. LastOf(res, fr) = Len(res) + Len(fr[1].reqs)
  BY DEF LastOf
<1> HIDE DEF f
<1>7. CASE Len(fr) = 1
  <2>1. f = fr[1]
    BY <1>7 DEF f
  <2>2. \A i \in 1..Len(f.reqs) : f.reqs[i] = Len(res) + i
    BY <1>5, <2>1 DEF ChunkOf
  <2>3. \A i, k \in 1..Len(f.reqs) : f.reqs[i] = f.reqs[k] => i = k
    BY <1>1, <1>3, <2>2
  <2>4. \A i \in 1..Len(f.reqs) : Len(res) < f.reqs[i] /\ f.reqs[i] <= LastOf(res, fr)
    BY <1>1, <1>3, <1>6, <2>1, <2>2
  <2>5. Asked(f) \cap Others(p, res, fr) = {}
    <3>1. Others(p, res, fr) = {r \in Request : r > LastOf(res, fr)}
      BY <1>1, <1>7 DEF Others, Ahead
    <3>2. LastOf(res, fr) \in Nat
      BY <1>1, <1>4, <1>6
    <3>3. \A i \in 1..Len(f.reqs) : ~(f.reqs[i] > LastOf(res, fr))
      BY <1>3, <2>4, <3>2 DEF Request
    <3> QED
      BY <3>1, <3>3 DEF Asked
  <2> QED
    BY <1>1, <1>2, <1>3, <1>4, <1>5, <2>1, <2>3, <2>4, <2>5 DEF ChunkOf, f
<1>8. CASE Len(fr) = 2
  <2>1. f = fr[2] /\ RerunOf(f, fr[1])
    BY <1>8 DEF f, StackOK
  <2>2. \A m \in 1..Len(f.reqs) : /\ f.fills[m] \in 1..Len(fr[1].reqs) \ fr[1].canceledIds
                                  /\ f.reqs[m] = fr[1].reqs[f.fills[m]]
    BY <2>1 DEF RerunOf
  <2>3. \A m, k \in 1..Len(f.reqs) : f.fills[m] = f.fills[k] => m = k
    BY <2>1 DEF RerunOf
  <2>4. \A i \in 1..Len(fr[1].reqs) : fr[1].reqs[i] = Len(res) + i
    BY <1>5 DEF ChunkOf
  <2>5. \A m \in 1..Len(f.reqs) : f.reqs[m] = Len(res) + f.fills[m]
    BY <2>2, <2>4
  <2>6. \A i, k \in 1..Len(f.reqs) : f.reqs[i] = f.reqs[k] => i = k
    <3> SUFFICES ASSUME NEW i \in 1..Len(f.reqs), NEW k \in 1..Len(f.reqs), f.reqs[i] = f.reqs[k]
                 PROVE  i = k
      OBVIOUS
    <3>1. f.fills[i] = f.fills[k]
      BY <1>1, <1>4, <2>2, <2>5
    <3> QED
      BY <2>3, <3>1
  <2>7. \A i \in 1..Len(f.reqs) : Len(res) < f.reqs[i] /\ f.reqs[i] <= LastOf(res, fr)
    <3> SUFFICES ASSUME NEW i \in 1..Len(f.reqs)
                 PROVE  Len(res) < f.reqs[i] /\ f.reqs[i] <= LastOf(res, fr)
      OBVIOUS
    <3>1. f.fills[i] \in Nat /\ 1 <= f.fills[i] /\ f.fills[i] <= Len(fr[1].reqs)
      BY <1>4, <2>2
    <3> QED
      BY <1>1, <1>4, <1>6, <2>5, <3>1
  <2>8. Asked(f) \cap Others(p, res, fr) = {}
    <3>1. Others(p, res, fr) = {r \in Request : r > LastOf(res, fr)}
                                  \cup {fr[1].reqs[i] : i \in fr[1].canceledIds}
      BY <1>1, <1>8 DEF Others, Ahead
    <3>2. LastOf(res, fr) \in Nat
      BY <1>1, <1>4, <1>6
    <3>3. \A i \in 1..Len(f.reqs) : ~(f.reqs[i] > LastOf(res, fr))
      BY <1>3, <2>7, <3>2 DEF Request
    <3>4. \A i \in 1..Len(f.reqs), c \in fr[1].canceledIds : f.reqs[i] # fr[1].reqs[c]
      <4> SUFFICES ASSUME NEW i \in 1..Len(f.reqs), NEW c \in fr[1].canceledIds, f.reqs[i] = fr[1].reqs[c]
                   PROVE  FALSE
        OBVIOUS
      <4>1. c \in 1..Len(fr[1].reqs)
        BY <1>5 DEF ChunkOf, OwnIds
      <4>2. f.fills[i] = c
        BY <1>1, <1>4, <2>2, <2>4, <2>5, <4>1
      <4> QED
        BY <2>2, <4>2
    <3> QED
      BY <3>1, <3>3, <3>4 DEF Asked
  <2> QED
    BY <1>1, <1>2, <1>3, <1>4, <1>5, <2>1, <2>6, <2>7, <2>8 DEF RerunOf, f
<1> QED
  BY <1>1, <1>7, <1>8

\* What is owed: by the call on top, and by the rest of the set.
LEMMA OwedIs ==
    ASSUME NEW p, NEW res \in Seq(Reply), NEW fr \in Seq(FrameType), fr # <<>>, StackOK(p, res, fr)
    PROVE  Owed(p, res, fr) =
              Others(p, res, fr) \cup HitBy(fr[Len(fr)].reqs, OwedIn(fr[Len(fr)], p))
<1>1. Len(fr) \in {1, 2}
  BY CallIs
<1>2. CASE Len(fr) = 1
  BY <1>2 DEF Owed, Others, OwedBy, HitBy
<1>3. CASE Len(fr) = 2
  BY <1>3 DEF Owed, Others, OwedBy, HitBy
<1> QED
  BY <1>1, <1>2, <1>3

\* Replies are billed to requests that were owed one, and are owed none after that.
BillingMoves(owed, owed2, b, b2, route, H) ==
    /\ b \in Bills /\ b2 \in Bills /\ route \in {"batch", "sequential"} /\ H \subseteq Request
    /\ H \subseteq owed /\ owed2 \subseteq owed \ H /\ owed2 \subseteq Request
    /\ BilledFor(b, b2, route, H)

\* No request is billed twice, and none that is owed a reply is billed.
BillsOK(b, owed) ==
    /\ \A r \in Request : b.batch[r] + b.sequential[r] <= 1
    /\ \A r \in owed : b.batch[r] = 0 /\ b.sequential[r] = 0

\* Billing replies that were owed keeps both.
LEMMA BilledMoves ==
    ASSUME NEW owed, NEW owed2, NEW b, NEW b2, NEW route, NEW H,
           BillingMoves(owed, owed2, b, b2, route, H), BillsOK(b, owed)
    PROVE  BillsOK(b2, owed2)
<1> USE DEF BillingMoves
<1>1. /\ \A r \in Request : b.batch[r] + b.sequential[r] <= 1
      /\ \A r \in owed : b.batch[r] = 0 /\ b.sequential[r] = 0
  BY DEF BillsOK
<1>2. \A r \in Request : b.batch[r] \in Nat /\ b.sequential[r] \in Nat
  BY DEF Bills
<1>3. CASE route = "batch"
  <2>1. /\ \A r \in Request : b2.batch[r] = IF r \in H THEN b.batch[r] + 1 ELSE b.batch[r]
        /\ b2.sequential = b.sequential
    BY <1>3 DEF BilledFor
  <2>2. \A r \in Request : b2.batch[r] + b2.sequential[r] <= 1
    BY <1>1, <1>2, <2>1
  <2>3. \A r \in owed2 : b2.batch[r] = 0 /\ b2.sequential[r] = 0
    BY <1>1, <2>1
  <2> QED
    BY <2>2, <2>3 DEF BillsOK
<1>4. CASE route = "sequential"
  <2>1. /\ \A r \in Request : b2.sequential[r] = IF r \in H THEN b.sequential[r] + 1 ELSE b.sequential[r]
        /\ b2.batch = b.batch
    BY <1>4 DEF BilledFor
  <2>2. \A r \in Request : b2.batch[r] + b2.sequential[r] <= 1
    BY <1>1, <1>2, <2>1
  <2>3. \A r \in owed2 : b2.batch[r] = 0 /\ b2.sequential[r] = 0
    BY <1>1, <2>1
  <2> QED
    BY <2>2, <2>3 DEF BillsOK
<1> QED
  BY <1>3, <1>4

\* A call changed on top of its stack.
Replaced(fr, g) == [fr EXCEPT ![Len(fr)] = g]

\* The rest of the stack stays.
LEMMA ReplacedIs ==
    ASSUME NEW fr \in Seq(FrameType), fr # <<>>, NEW g \in FrameType
    PROVE  /\ Replaced(fr, g) \in Seq(FrameType) /\ Replaced(fr, g) # <<>>
           /\ Len(Replaced(fr, g)) = Len(fr) /\ Replaced(fr, g)[Len(fr)] = g
           /\ Len(fr) = 2 => Replaced(fr, g)[1] = fr[1]
<1>1. Len(fr) \in Nat \ {0}
  BY EmptySeq
<1>2. Len(fr) \in 1..Len(fr)
  BY <1>1
<1>3. /\ Replaced(fr, g) \in Seq(FrameType) /\ Len(Replaced(fr, g)) = Len(fr)
      /\ \A k \in 1..Len(fr) : Replaced(fr, g)[k] = IF k = Len(fr) THEN g ELSE fr[k]
  BY <1>2, ExceptSeq DEF Replaced
<1>4. Replaced(fr, g) # <<>>
  BY <1>1, <1>3, EmptySeq
<1>5. Len(fr) = 2 => Replaced(fr, g)[1] = fr[1]
  BY <1>3
<1> QED
  BY <1>2, <1>3, <1>4, <1>5

\* The top call goes on as g, with other replies, on a stack in order.
GoesOn(p, p2, res, fr, g) ==
    /\ res \in Seq(Reply) /\ fr \in Seq(FrameType) /\ fr # <<>> /\ StackOK(p, res, fr)
    /\ p2 \in Sending \cup Reading
    /\ g \in FrameType /\ g.reqs = fr[Len(fr)].reqs /\ g.fills = fr[Len(fr)].fills
    /\ OwnIds(g) /\ (~fr[Len(fr)].temp => ~g.temp)
    /\ p2 \in Reading => Complete(g)
    /\ p2 = "remainder" => g.temperatureIds = {}

\* The same call with other replies: the stack stays in order, the others are owed what they were,
\* and text is kept where it was unless the call is asked for it.
LEMMA NewTop ==
    ASSUME NEW p, NEW p2, NEW res, NEW fr, NEW g, GoesOn(p, p2, res, fr, g)
    PROVE  /\ Replaced(fr, g) \in Seq(FrameType) /\ StackOK(p2, res, Replaced(fr, g))
           /\ Others(p2, res, Replaced(fr, g)) = Others(p, res, fr)
           /\ \A r \in Request :
                 /\ KeptAt(p, res, fr, r)
                 /\ \A i \in 1..Len(g.reqs) : g.reqs[i] = r => i <= Len(g.texts) /\ g.texts[i].text = r
                 => KeptAt(p2, res, Replaced(fr, g), r)
<1> DEFINE f == fr[Len(fr)]
           fr2 == Replaced(fr, g)
<1> USE DEF GoesOn
<1>1. /\ Len(fr) \in {1, 2} /\ f \in FrameType /\ fr[1] \in FrameType /\ ChunkOf(fr[1], Len(res))
      /\ p \in Sending \cup Reading /\ OwnIds(f) /\ Len(f.reqs) \in Nat /\ Len(res) \in Nat
      /\ Len(fr[1].reqs) \in Nat
  BY CallIs
<1>2. /\ fr2 \in Seq(FrameType) /\ fr2 # <<>> /\ Len(fr2) = Len(fr) /\ fr2[Len(fr)] = g
      /\ Len(fr) = 2 => fr2[1] = fr[1]
  BY ReplacedIs
<1> HIDE DEF f, fr2
<1>3. g.reqs = f.reqs /\ g.fills = f.fills
  BY DEF f
<1>4. LastOf(res, fr2) = LastOf(res, fr) /\ fr2[1].reqs = fr[1].reqs /\ ChunkOf(fr2[1], Len(res))
  <2>1. CASE Len(fr) = 1
    <3>1. fr2[1] = g /\ f = fr[1]
      BY <1>2, <2>1 DEF f
    <3>2. ChunkOf(g, Len(res))
      BY <1>1, <1>3, <3>1 DEF ChunkOf
    <3> QED
      BY <1>2, <1>3, <3>1, <3>2 DEF LastOf
  <2>2. CASE Len(fr) = 2
    BY <1>1, <1>2, <2>2 DEF LastOf
  <2> QED
    BY <1>1, <2>1, <2>2
<1>5. Others(p2, res, fr2) = Others(p, res, fr)
  BY <1>1, <1>2, <1>4 DEF Others, Ahead
<1>6. Len(fr) = 2 => RerunOf(g, fr2[1])
  <2>1. SUFFICES ASSUME Len(fr) = 2 PROVE RerunOf(g, fr[1])
    BY <1>2
  <2>2. RerunOf(f, fr[1])
    BY <2>1 DEF f, StackOK
  <2>3. ~f.temp => ~g.temp
    BY DEF f
  <2> QED
    BY <1>3, <2>2, <2>3 DEF RerunOf
<1>7. StackOK(p2, res, fr2)
  <2>1. Len(fr2) <= 2
    BY <1>1, <1>2
  <2>2. Len(fr2) = 2 => RerunOf(fr2[2], fr2[1])
    BY <1>2, <1>6
  <2>3. p2 \in Reading => Complete(fr2[Len(fr2)])
    BY <1>2
  <2>4. p2 = "remainder" => fr2[Len(fr2)].temperatureIds = {}
    BY <1>2
  <2> QED
    BY <1>2, <1>4, <2>1, <2>2, <2>3, <2>4 DEF StackOK
<1>8. ASSUME NEW r \in Request, KeptAt(p, res, fr, r),
             \A i \in 1..Len(g.reqs) : g.reqs[i] = r => i <= Len(g.texts) /\ g.texts[i].text = r
      PROVE  KeptAt(p2, res, fr2, r)
  <2>1. CASE r <= Len(res)
    BY <1>8, <2>1 DEF KeptAt
  <2>2. CASE ~(r <= Len(res))
    <3> DEFINE i == r - Len(res)
    <3>1. r <= LastOf(res, fr)
      BY <1>8, <2>2 DEF KeptAt
    <3>2. LastOf(res, fr) = Len(res) + Len(fr[1].reqs)
      BY DEF LastOf
    <3>3. i \in 1..Len(fr[1].reqs) /\ Len(res) + i = r
      BY <1>1, <2>2, <3>1, <3>2 DEF Request
    <3>4. fr[1].reqs[i] = r
      BY <1>1, <3>3 DEF ChunkOf
    <3> HIDE DEF i
    <3>5. CASE Len(fr) = 1
      <4>1. f = fr[1] /\ fr2[1] = g
        BY <1>2, <3>5 DEF f
      <4>2. i <= Len(g.texts) /\ g.texts[i].text = r
        BY <1>3, <1>8, <3>3, <3>4, <4>1
      <4>3. ~InRerun(fr2, i)
        BY <1>2, <3>5 DEF InRerun
      <4> QED
        BY <1>2, <1>4, <2>2, <3>1, <4>1, <4>2, <4>3 DEF KeptAt, i
    <3>6. CASE Len(fr) = 2
      <4>1. f = fr[2] /\ fr2[2] = g /\ fr2[1] = fr[1] /\ Len(fr2) = 2
        BY <1>2, <3>6 DEF f
      <4>2. InRerun(fr2, i) <=> InRerun(fr, i)
        BY <1>3, <3>6, <4>1 DEF InRerun
      <4>3. CASE InRerun(fr, i)
        <5>1. PICK m \in 1..Len(f.reqs) : f.fills[m] = i
          BY <4>1, <4>3 DEF InRerun
        <5>2. f.reqs[m] = r
          BY <1>1, <3>4, <3>6, <4>1, <5>1 DEF StackOK, RerunOf
        <5>3. m <= Len(g.texts) /\ g.texts[m].text = r
          BY <1>3, <1>8, <5>1, <5>2
        <5>4. g.texts \in Seq(Reply)
          BY DEF FrameType
        <5>5. m \in 1..Len(g.texts) /\ m <= Len(g.reqs)
          BY <1>1, <1>3, <5>1, <5>3, <5>4, LenProperties
        <5> QED
          BY <1>2, <1>3, <1>4, <2>2, <3>1, <4>1, <4>2, <4>3, <5>1, <5>3, <5>5 DEF KeptAt, i
      <4>4. CASE ~InRerun(fr, i)
        <5>1. i <= Len(fr[1].texts) /\ fr[1].texts[i].text = r
          BY <1>8, <2>2, <4>4 DEF KeptAt, i
        <5> QED
          BY <1>4, <2>2, <3>1, <4>1, <4>2, <4>4, <5>1 DEF KeptAt, i
      <4> QED
        BY <4>3, <4>4
    <3> QED
      BY <1>1, <3>5, <3>6
  <2> QED
    BY <2>1, <2>2
<1> QED
  BY <1>2, <1>5, <1>7, <1>8 DEF fr2

\* What the top call keeps of its own requests is what is in its texts.
LEMMA TopKeeps ==
    ASSUME NEW p, NEW res \in Seq(Reply), NEW fr \in Seq(FrameType), fr # <<>>, StackOK(p, res, fr),
           NEW i \in 1..Len(fr[Len(fr)].reqs)
    PROVE  LET f == fr[Len(fr)] IN
           /\ i <= Len(f.texts) /\ f.texts[i].text = f.reqs[i] => KeptAt(p, res, fr, f.reqs[i])
           /\ KeptAt(p, res, fr, f.reqs[i]) => i <= Len(f.texts) /\ f.texts[i].text = f.reqs[i]
<1> DEFINE f == fr[Len(fr)]
           r == f.reqs[i]
<1>1. /\ Len(fr) \in {1, 2} /\ f \in FrameType /\ fr[1] \in FrameType /\ ChunkOf(fr[1], Len(res))
      /\ p \in Sending \cup Reading /\ Len(f.reqs) \in Nat /\ Len(res) \in Nat
      /\ Len(fr[1].reqs) \in Nat
      /\ r \in Request /\ Len(res) < r /\ r <= LastOf(res, fr)
  BY CallIs
<1>2. f.texts \in Seq(Reply)
  BY <1>1 DEF FrameType
<1>3. i \in 1..Len(f.reqs)
  OBVIOUS
<1> HIDE DEF f
<1>4. ~(r <= Len(res)) /\ r - Len(res) \in Nat
  BY <1>1 DEF Request
<1>5. CASE Len(fr) = 1
  <2>1. f = fr[1] /\ r = Len(res) + i
    BY <1>1, <1>3, <1>5 DEF f, ChunkOf
  <2>2. r - Len(res) = i
    BY <1>1, <1>3, <2>1
  <2>3. ~InRerun(fr, i)
    BY <1>5 DEF InRerun
  <2> QED
    BY <1>1, <1>4, <2>1, <2>2, <2>3 DEF KeptAt, f
<1>6. CASE Len(fr) = 2
  <2>1. f = fr[2] /\ RerunOf(f, fr[1])
    BY <1>6 DEF f, StackOK
  <2>2. f.fills[i] \in 1..Len(fr[1].reqs) /\ r = fr[1].reqs[f.fills[i]]
    BY <1>3, <2>1 DEF RerunOf
  <2>3. r = Len(res) + f.fills[i]
    BY <1>1, <2>2 DEF ChunkOf
  <2>4. r - Len(res) = f.fills[i]
    BY <1>1, <2>2, <2>3
  <2>5. InRerun(fr, f.fills[i])
    BY <1>3, <1>6, <2>1 DEF InRerun
  <2>6. \A m \in 1..Len(f.texts) : m <= Len(f.reqs) /\ f.fills[m] = f.fills[i] => m = i
    <3> SUFFICES ASSUME NEW m \in 1..Len(f.texts), m <= Len(f.reqs), f.fills[m] = f.fills[i] PROVE m = i
      OBVIOUS
    <3>1. m \in 1..Len(f.reqs)
      BY <1>1, <1>2, LenProperties
    <3> QED
      BY <1>3, <2>1, <3>1 DEF RerunOf
  <2>7. KeptAt(p, res, fr, r) <=> \E m \in 1..Len(f.texts) : /\ m <= Len(f.reqs) /\ f.fills[m] = f.fills[i]
                                                             /\ f.texts[m].text = r
    BY <1>1, <1>4, <2>1, <2>4, <2>5 DEF KeptAt
  <2>8. Len(f.texts) \in Nat /\ i <= Len(f.reqs)
    BY <1>1, <1>2, <1>3, LenProperties
  <2>9. i <= Len(f.texts) <=> i \in 1..Len(f.texts)
    BY <1>1, <1>3, <2>8
  <2> QED
    BY <2>6, <2>7, <2>8, <2>9 DEF f
<1> QED
  BY <1>1, <1>5, <1>6

\* Where a set that fell back may stand.
Back == {"sequential", "done", "raised"}

\* A request that a batch answered is owed nothing any more.
LEMMA AnsweredIsSettled ==
    ASSUME NEW p, NEW res, NEW fr, NEW b, NEW ans,
           BilledOK(p, res, fr, b, FALSE), PaidOK(p, res, fr, b, ans, FALSE)
    PROVE  \A r \in ans : b.batch[r] > 0 /\ r \notin Owed(p, res, fr) /\ KeptAt(p, res, fr, r)
<1>1. \A r \in Owed(p, res, fr) : b.batch[r] = 0
  BY DEF BilledOK, Owed
<1>2. \A r \in ans : b.batch[r] > 0 /\ KeptAt(p, res, fr, r)
  BY DEF PaidOK
<1> QED
  BY <1>1, <1>2

\* A job still in its batches has not fallen back.
LEMMA NotBack ==
    ASSUME TypeInv, NEW j \in Job, JobInv(j), pc[j] \notin Back
    PROVE  /\ j \notin fellBack
           /\ BilledOK(pc[j], results[j], frames[j], billed[j], FALSE)
           /\ PaidOK(pc[j], results[j], frames[j], billed[j], answered[j], FALSE)
<1>1. j \notin fellBack
  BY DEF JobInv, BilledOK, Back
<1> QED
  BY <1>1 DEF JobInv, BilledOK, PaidOK

\* What holds of a set that has not fallen back.
LEMMA StillIn ==
    ASSUME NEW p, NEW res, NEW fr, NEW b, NEW ans, NEW back, ~back,
           BilledOK(p, res, fr, b, FALSE), PaidOK(p, res, fr, b, ans, FALSE)
    PROVE  BilledOK(p, res, fr, b, back) /\ PaidOK(p, res, fr, b, ans, back)
BY DEF BilledOK, PaidOK

\* Only requests are owed replies.
LEMMA OwedIsRequest ==
    ASSUME NEW p, NEW res \in Seq(Reply), NEW fr \in Seq(FrameType), fr # <<>>, StackOK(p, res, fr)
    PROVE  Owed(p, res, fr) \subseteq Request
<1>1. /\ ChunkOf(fr[1], Len(res)) /\ fr[1] \in FrameType /\ Len(fr) \in {1, 2}
      /\ \A i \in 1..Len(fr[Len(fr)].reqs) : fr[Len(fr)].reqs[i] \in Request
  BY CallIs
<1>2. \A i \in 1..Len(fr[1].reqs) : fr[1].reqs[i] \in Request
  BY <1>1, ElementOfSeq DEF FrameType
<1>3. Others(p, res, fr) \subseteq Request
  BY <1>1, <1>2 DEF Others, Ahead, ChunkOf, OwnIds
<1>4. OwedIn(fr[Len(fr)], p) \subseteq 1..Len(fr[Len(fr)].reqs)
  BY DEF OwedIn
<1>5. HitBy(fr[Len(fr)].reqs, OwedIn(fr[Len(fr)], p)) \subseteq Request
  BY <1>1, <1>4 DEF HitBy
<1> QED
  BY <1>3, <1>5, OwedIs

\* The same entry at place i of two lists.
SameAt(texts, old, i) == Len(texts) = Len(old) /\ texts[i] = old[i]

\* The step of a call on top: it bills what it was owed, and owes its answered requests no more.
LEMMA TopMoves ==
    ASSUME NEW p, NEW p2, NEW res, NEW fr, NEW g, GoesOn(p, p2, res, fr, g),
           NEW b \in Bills, NEW b2 \in Bills, NEW route \in {"batch", "sequential"},
           NEW ans \in SUBSET Request, NEW ans2 \in SUBSET Request, NEW hit \in SUBSET OwedIn(fr[Len(fr)], p),
           BilledOK(p, res, fr, b, FALSE), PaidOK(p, res, fr, b, ans, FALSE),
           OwedIn(g, p2) \subseteq OwedIn(fr[Len(fr)], p) \ hit,
           BilledFor(b, b2, route, HitBy(g.reqs, hit)),
           \A r \in ans2 : r \in ans \/ \E i \in 1..Len(g.reqs) : r = g.reqs[i] /\ b2.batch[r] > 0,
           \A i \in 1..Len(g.reqs) : g.reqs[i] \in ans2 =>
                \/ i <= Len(g.texts) /\ g.texts[i].text = g.reqs[i]
                \/ g.reqs[i] \in ans /\ (i \in OwedIn(fr[Len(fr)], p) \/ SameAt(g.texts, fr[Len(fr)].texts, i))
    PROVE  /\ StackOK(p2, res, Replaced(fr, g))
           /\ BilledOK(p2, res, Replaced(fr, g), b2, FALSE)
           /\ PaidOK(p2, res, Replaced(fr, g), b2, ans2, FALSE)
<1> DEFINE f == fr[Len(fr)]
           fr2 == Replaced(fr, g)
<1>1. /\ fr2 \in Seq(FrameType) /\ StackOK(p2, res, fr2) /\ Others(p2, res, fr2) = Others(p, res, fr)
      /\ \A r \in Request :
            /\ KeptAt(p, res, fr, r)
            /\ \A i \in 1..Len(g.reqs) : g.reqs[i] = r => i <= Len(g.texts) /\ g.texts[i].text = r
            => KeptAt(p2, res, fr2, r)
  BY NewTop
<1>0. res \in Seq(Reply) /\ fr \in Seq(FrameType) /\ fr # <<>> /\ StackOK(p, res, fr) /\ g \in FrameType
  BY DEF GoesOn
<1>2. /\ fr2 \in Seq(FrameType) /\ fr2 # <<>> /\ Len(fr2) = Len(fr) /\ fr2[Len(fr2)] = g
  <2>1. fr2 \in Seq(FrameType) /\ fr2 # <<>> /\ Len(fr2) = Len(fr) /\ fr2[Len(fr)] = g
    BY <1>0, ReplacedIs
  <2> HIDE DEF fr2
  <2> QED
    BY <2>1
<1>3. /\ f \in FrameType /\ Asked(f) \cap Others(p, res, fr) = {}
      /\ \A i, k \in 1..Len(f.reqs) : f.reqs[i] = f.reqs[k] => i = k
      /\ \A i \in 1..Len(f.reqs) : f.reqs[i] \in Request
  BY <1>0, CallIs
<1> HIDE DEF fr2
<1>4. Owed(p, res, fr) = Others(p, res, fr) \cup HitBy(f.reqs, OwedIn(f, p))
  BY <1>0, OwedIs
<1>5. Owed(p2, res, fr2) = Others(p, res, fr) \cup HitBy(g.reqs, OwedIn(g, p2))
  BY <1>0, <1>1, <1>2, OwedIs
<1>6. Owed(p2, res, fr2) \subseteq Request
  BY <1>0, <1>1, <1>2, OwedIsRequest
<1>7. OwedIn(f, p) \subseteq 1..Len(f.reqs)
  BY DEF OwedIn
<1> HIDE DEF f
<1>8. /\ g.reqs = f.reqs /\ hit \subseteq OwedIn(f, p) /\ OwedIn(g, p2) \subseteq OwedIn(f, p) \ hit
  BY DEF f, GoesOn
<1> DEFINE H == HitBy(g.reqs, hit)
<1>9. /\ H \subseteq Request /\ H \subseteq Owed(p, res, fr) /\ Owed(p2, res, fr2) \subseteq Owed(p, res, fr) \ H
  <2>1. H \subseteq Request /\ H \subseteq Owed(p, res, fr) /\ H \subseteq Asked(f)
    BY <1>3, <1>4, <1>7, <1>8 DEF HitBy, Asked
  <2>2. \A i \in OwedIn(g, p2) : g.reqs[i] \notin H
    BY <1>3, <1>7, <1>8 DEF HitBy
  <2>3. Others(p, res, fr) \cap H = {}
    BY <1>3, <2>1
  <2>4. Owed(p2, res, fr2) \subseteq Owed(p, res, fr)
    BY <1>4, <1>5, <1>8 DEF HitBy
  <2> HIDE DEF H
  <2> QED
    BY <1>5, <2>1, <2>2, <2>3, <2>4 DEF HitBy
<1>10. BilledOK(p2, res, fr2, b2, FALSE)
  <2> HIDE DEF H
  <2>1. BillingMoves(Owed(p, res, fr), Owed(p2, res, fr2), b, b2, route, H)
    BY <1>6, <1>9 DEF BillingMoves, H
  <2>2. BillsOK(b, Owed(p, res, fr))
    BY DEF BillsOK, BilledOK, Owed
  <2>3. BillsOK(b2, Owed(p2, res, fr2))
    BY <2>1, <2>2, BilledMoves
  <2> QED
    BY <2>3 DEF BillsOK, BilledOK, Owed
<1>11. PaidOK(p2, res, fr2, b2, ans2, FALSE)
  <2> SUFFICES ASSUME NEW r \in ans2 PROVE b2.batch[r] > 0 /\ KeptAt(p2, res, fr2, r)
    BY DEF PaidOK
  <2>1. r \in Request
    OBVIOUS
  <2>2. \A q \in ans : b.batch[q] > 0 /\ q \notin Owed(p, res, fr) /\ KeptAt(p, res, fr, q)
    BY AnsweredIsSettled
  <2>3. b2.batch[r] > 0
    <3>1. CASE r \in ans
      <4>1. b.batch[r] \in Nat /\ b.batch[r] > 0
        BY <2>1, <2>2, <3>1 DEF Bills
      <4>2. b2.batch[r] = b.batch[r] \/ b2.batch[r] = b.batch[r] + 1
        BY <2>1 DEF BilledFor
      <4> QED
        BY <4>1, <4>2
    <3>2. CASE r \notin ans
      BY <3>2
    <3> QED
      BY <3>1, <3>2
  <2>4. ASSUME NEW i \in 1..Len(g.reqs), g.reqs[i] = r
        PROVE  i <= Len(g.texts) /\ g.texts[i].text = r
    <3>1. CASE i <= Len(g.texts) /\ g.texts[i].text = g.reqs[i]
      BY <2>4, <3>1
    <3>2. CASE r \in ans
      <4>1. i \notin OwedIn(f, p)
        BY <1>4, <1>8, <2>2, <2>4, <3>2 DEF HitBy
      <4>2. f.reqs[i] = r /\ i \in 1..Len(f.reqs)
        BY <1>8, <2>4
      <4>3. i <= Len(f.texts) /\ f.texts[i].text = r
        <5>1. KeptAt(p, res, fr, f.reqs[i])
          BY <2>2, <3>2, <4>2
        <5>2. i <= Len(f.texts) /\ f.texts[i].text = f.reqs[i]
          BY <1>0, <4>2, <5>1, TopKeeps, Zenon DEF f
        <5> QED
          BY <4>2, <5>2
      <4>4. CASE SameAt(g.texts, f.texts, i)
        BY <4>3, <4>4 DEF SameAt
      <4>5. CASE ~SameAt(g.texts, f.texts, i)
        BY <2>4, <4>1, <4>5 DEF f
      <4> QED
        BY <4>4, <4>5
    <3> QED
      BY <2>4, <3>1, <3>2
  <2>5. CASE r \in ans
    <3>1. KeptAt(p, res, fr, r)
      BY <2>2, <2>5
    <3>2. KeptAt(p2, res, fr2, r)
      BY <1>1, <2>1, <2>4, <3>1
    <3> QED
      BY <2>3, <3>2
  <2>6. CASE r \notin ans
    <3>1. PICK i \in 1..Len(g.reqs) : r = g.reqs[i]
      BY <2>6
    <3>2. i <= Len(g.texts) /\ g.texts[i].text = r
      BY <2>4, <3>1
    <3>3. StackOK(p2, res, fr2) /\ i \in 1..Len(fr2[Len(fr2)].reqs)
      BY <1>1, <1>2
    <3>4. KeptAt(p2, res, fr2, fr2[Len(fr2)].reqs[i])
      <4>1. fr2[Len(fr2)].texts[i].text = fr2[Len(fr2)].reqs[i] /\ i <= Len(fr2[Len(fr2)].texts)
        BY <1>2, <3>1, <3>2
      <4> QED
        BY <1>0, <1>2, <3>3, <4>1, TopKeeps, Zenon
    <3> QED
      BY <1>2, <2>3, <3>1, <3>4
  <2> QED
    BY <2>3, <2>5, <2>6
<1> QED
  BY <1>1, <1>10, <1>11 DEF fr2

\* The parts of the invariant of a job, and its stack by where it stands.
LEMMA StackIs ==
    ASSUME TypeInv, NEW j \in Job, JobInv(j)
    PROVE  /\ results[j] \in Seq(Reply) /\ frames[j] \in Seq(FrameType) /\ billed[j] \in Bills
           /\ answered[j] \in SUBSET Request /\ Len(results[j]) \in Nat
           /\ StackOK(pc[j], results[j], frames[j]) /\ ResultsOK(pc[j], results[j])
           /\ pc[j] \in Sending \cup Reading => frames[j] # <<>> /\ pc[j] \notin Back
           /\ pc[j] \notin Sending \cup Reading => frames[j] = <<>>
<1>1. /\ results[j] \in Seq(Reply) /\ frames[j] \in Seq(FrameType) /\ billed[j] \in Bills
      /\ answered[j] \in SUBSET Request
  BY DEF TypeInv
<1>2. StackOK(pc[j], results[j], frames[j]) /\ ResultsOK(pc[j], results[j])
  BY DEF JobInv
<1>3. pc[j] \in Sending \cup Reading => pc[j] \notin Back
  BY DEF Sending, Reading, Back
<1>4. Len(results[j]) \in Nat
  BY <1>1, LenProperties
<1> QED
  BY <1>1, <1>2, <1>3, <1>4 DEF StackOK

\* A step that bills nothing and adds no result.
Quiet(j) == UNCHANGED <<results, billed, answered, fellBack, noTemp, refuses>>

\* A quiet step of the top call keeps the invariant of its job.
LEMMA QuietStep ==
    ASSUME TypeInv, NEW j \in Job, JobInv(j), pc[j] \in Sending \cup Reading,
           NEW label, Goto(j, label), NEW g, GoesOn(pc[j], label, results[j], frames[j], g),
           frames' = [frames EXCEPT ![j] = Replaced(frames[j], g)], Quiet(j),
           OwedIn(g, label) \subseteq OwedIn(Top(j), pc[j]),
           \/ g.texts = Top(j).texts
           \/ OwedIn(Top(j), pc[j]) = 1..Len(g.reqs)
    PROVE  JobInv(j)' /\ frames' \in [Job -> Seq(FrameType)] /\ pc' \in [Job -> Label]
<1> DEFINE p == pc[j]
           res == results[j]
           fr == frames[j]
           b == billed[j]
           ans == answered[j]
<1>1. /\ res \in Seq(Reply) /\ fr \in Seq(FrameType) /\ fr # <<>> /\ b \in Bills /\ ans \in SUBSET Request
      /\ p \notin Back /\ ResultsOK(p, res)
  BY StackIs
<1>2. /\ j \notin fellBack /\ BilledOK(p, res, fr, b, FALSE) /\ PaidOK(p, res, fr, b, ans, FALSE)
  BY <1>1, NotBack
<1>3. /\ pc'[j] = label /\ results'[j] = res /\ frames'[j] = Replaced(fr, g) /\ billed'[j] = b
      /\ answered'[j] = ans /\ j \notin fellBack'
  BY <1>2 DEF Goto, Quiet, TypeInv
<1>4. BilledFor(b, b, "batch", HitBy(g.reqs, {}))
  BY DEF BilledFor, HitBy
<1>5. Top(j) = fr[Len(fr)]
  BY DEF Top
<1> HIDE DEF p, res, fr, b, ans
<1>6. GoesOn(p, label, res, fr, g)
  BY DEF p, res, fr
<1>7. /\ OwedIn(g, label) \subseteq OwedIn(fr[Len(fr)], p) \ {}
      /\ {} \in SUBSET OwedIn(fr[Len(fr)], p) /\ "batch" \in {"batch", "sequential"}
  BY <1>5 DEF p
<1>8. \A r \in ans : r \in ans \/ \E i \in 1..Len(g.reqs) : r = g.reqs[i] /\ b.batch[r] > 0
  OBVIOUS
<1>9. \A i \in 1..Len(g.reqs) : g.reqs[i] \in ans =>
         \/ i <= Len(g.texts) /\ g.texts[i].text = g.reqs[i]
         \/ g.reqs[i] \in ans /\ (i \in OwedIn(fr[Len(fr)], p) \/ SameAt(g.texts, fr[Len(fr)].texts, i))
  BY <1>5 DEF p, SameAt
<1>10. /\ StackOK(label, res, Replaced(fr, g))
       /\ BilledOK(label, res, Replaced(fr, g), b, FALSE)
       /\ PaidOK(label, res, Replaced(fr, g), b, ans, FALSE)
  BY <1>1, <1>2, <1>4, <1>6, <1>7, <1>8, <1>9, TopMoves
<1>11. label \in Sending \cup Reading /\ Replaced(fr, g) \in Seq(FrameType)
  BY <1>6, NewTop DEF GoesOn
<1>12. ResultsOK(label, res)
  BY <1>1, <1>11 DEF ResultsOK, Sending, Reading
<1>13. pc' \in [Job -> Label]
  BY <1>11 DEF TypeInv, Goto, Label
<1>14. frames' \in [Job -> Seq(FrameType)]
  BY <1>11 DEF TypeInv, fr
<1> QED
  BY <1>3, <1>10, <1>12, <1>13, <1>14, StillIn DEF JobInv

\* The top call of a job, while it has one.
LEMMA TopIs ==
    ASSUME TypeInv, NEW j \in Job, JobInv(j), pc[j] \in Sending \cup Reading
    PROVE  /\ Top(j) \in FrameType /\ Len(frames[j]) \in {1, 2} /\ OwnIds(Top(j))
           /\ Top(j).reqs \in Seq(Request) /\ Len(Top(j).reqs) \in Nat /\ DOMAIN Top(j).reqs = 1..Len(Top(j).reqs)
           /\ \A i, k \in 1..Len(Top(j).reqs) : Top(j).reqs[i] = Top(j).reqs[k] => i = k
           /\ frames = [frames EXCEPT ![j] = Replaced(frames[j], Top(j))]
           /\ pc[j] \in Reading => Complete(Top(j))
           /\ Len(frames[j]) = 2 => ~Top(j).temp
<1>1. /\ frames[j] \in Seq(FrameType) /\ frames[j] # <<>> /\ results[j] \in Seq(Reply)
      /\ StackOK(pc[j], results[j], frames[j])
  BY StackIs
<1>2. /\ Top(j) \in FrameType /\ Len(frames[j]) \in {1, 2} /\ OwnIds(Top(j))
      /\ \A i, k \in 1..Len(Top(j).reqs) : Top(j).reqs[i] = Top(j).reqs[k] => i = k
  BY <1>1, CallIs DEF Top
<1>3. Top(j).reqs \in Seq(Request)
  BY <1>2 DEF FrameType
<1>4. Len(Top(j).reqs) \in Nat /\ DOMAIN Top(j).reqs = 1..Len(Top(j).reqs)
  BY <1>3, LenProperties
<1>5. Replaced(frames[j], Top(j)) = frames[j]
  <2>0. \A n \in {1, 2} : n \in 1..n
    OBVIOUS
  <2>1. Len(frames[j]) \in 1..Len(frames[j])
    BY <1>2, <2>0, Zenon
  <2>2. /\ Replaced(frames[j], Top(j)) \in Seq(FrameType) /\ Len(Replaced(frames[j], Top(j))) = Len(frames[j])
        /\ \A i \in 1..Len(frames[j]) : Replaced(frames[j], Top(j))[i] = frames[j][i]
    BY <1>1, <1>2, <2>1, ExceptSeq DEF Replaced, Top
  <2> QED
    BY <1>1, <2>2, SeqEqual
<1>6. frames = [frames EXCEPT ![j] = Replaced(frames[j], Top(j))]
  BY <1>5 DEF TypeInv
<1>7. pc[j] \in Reading => Complete(Top(j))
  BY <1>1 DEF StackOK, Top
<1>8. Len(frames[j]) = 2 => ~Top(j).temp
  BY <1>1 DEF StackOK, RerunOf, Top
<1> QED
  BY <1>2, <1>3, <1>4, <1>6, <1>7, <1>8

\* A call that changes its label only, or how long it has waited.
LEMMA Waits ==
    ASSUME TypeInv, NEW j \in Job, JobInv(j), pc[j] \in Sending, NEW label \in Sending, Goto(j, label),
           NEW g \in FrameType, frames' = [frames EXCEPT ![j] = Replaced(frames[j], g)], Quiet(j),
           g.reqs = Top(j).reqs, g.fills = Top(j).fills, g.temp = Top(j).temp, g.texts = Top(j).texts,
           g.canceledIds = Top(j).canceledIds, g.temperatureIds = Top(j).temperatureIds
    PROVE  JobInv(j)' /\ frames' \in [Job -> Seq(FrameType)] /\ pc' \in [Job -> Label]
<1>1. Top(j) \in FrameType /\ OwnIds(Top(j))
  BY TopIs
<1>2. OwnIds(g)
  BY <1>1 DEF OwnIds
<1>3. label \notin Reading /\ label \in Sending \cup Reading
  BY DEF Sending, Reading
<1>4. GoesOn(pc[j], label, results[j], frames[j], g)
  BY <1>2, <1>3, StackIs DEF GoesOn, Top, Reading
<1>5. OwedIn(g, label) \subseteq OwedIn(Top(j), pc[j])
  BY DEF OwedIn
<1> QED
  BY <1>4, <1>5, QuietStep

\* batches.create keeps types and the invariant.
LEMMA SubmitStep ==
    ASSUME TypeInv, NEW j \in Job, JobInv(j), Submit(j)
    PROVE  TypeInv' /\ JobInv(j)'
<1>1. pc[j] = "submitting" /\ Goto(j, "polling") /\ Quiet(j) /\ frames' = frames
  BY DEF Submit, Quiet, memo, history
<1>2. pc[j] \in Sending /\ "polling" \in Sending
  BY <1>1 DEF Sending
<1>3. Top(j) \in FrameType /\ frames' = [frames EXCEPT ![j] = Replaced(frames[j], Top(j))]
  BY <1>1, <1>2, TopIs
<1>4. JobInv(j)' /\ frames' \in [Job -> Seq(FrameType)] /\ pc' \in [Job -> Label]
  BY <1>1, <1>2, <1>3, Waits
<1>5. TypeInv'
  BY <1>4 DEF Submit, TypeInv, memo, history
<1> QED
  BY <1>4, <1>5

\* A poll of an open batch keeps them.
LEMMA PollStep ==
    ASSUME TypeInv, NEW j \in Job, JobInv(j), Poll(j)
    PROVE  TypeInv' /\ JobInv(j)'
<1> DEFINE f == Top(j)
<1>1. pc[j] = "polling" /\ Quiet(j) /\ pc[j] \in Sending
  BY DEF Poll, Quiet, memo, Sending
<1>2. f \in FrameType /\ frames = [frames EXCEPT ![j] = Replaced(frames[j], f)]
  BY <1>1, TopIs
<1>3. f.elapsed \in Nat /\ f.elapsed + PollInterval \in Nat
  BY <1>2, Constants DEF FrameType
<1>4. CASE CloseWait(j, f) /\ Goto(j, "collecting") /\ UNCHANGED <<frames, waited>>
  <2>1. "collecting" \in Sending
    BY DEF Sending
  <2>2. JobInv(j)' /\ frames' \in [Job -> Seq(FrameType)] /\ pc' \in [Job -> Label]
    BY <1>1, <1>2, <1>4, <2>1, Waits
  <2> QED
    BY <1>3, <1>4, <2>2 DEF Poll, TypeInv, CloseWait, memo
<1>5. CASE /\ SetTop(j, [f EXCEPT !.elapsed = @ + PollInterval])
           /\ waited' = [waited EXCEPT ![j] = @ + PollInterval]
           /\ UNCHANGED <<pc, waits, spentSeconds>>
  <2> DEFINE g == [f EXCEPT !.elapsed = @ + PollInterval]
  <2>1. g \in FrameType /\ g.reqs = f.reqs /\ g.fills = f.fills /\ g.temp = f.temp /\ g.texts = f.texts
        /\ g.canceledIds = f.canceledIds /\ g.temperatureIds = f.temperatureIds
    BY <1>2, <1>3 DEF FrameType
  <2>2. Goto(j, "polling") /\ "polling" \in Sending
    BY <1>1, <1>5 DEF Goto, TypeInv, Sending
  <2>3. frames' = [frames EXCEPT ![j] = Replaced(frames[j], g)]
    BY <1>5 DEF SetTop, Replaced
  <2> HIDE DEF g, f
  <2>4. JobInv(j)' /\ frames' \in [Job -> Seq(FrameType)] /\ pc' \in [Job -> Label]
    BY <1>1, <1>2, <2>1, <2>2, <2>3, Waits DEF f
  <2>5. waited' \in [Job -> Nat]
    BY <1>5, Constants DEF TypeInv
  <2> QED
    BY <1>5, <2>4, <2>5 DEF Poll, TypeInv, memo
<1>6. CASE /\ SetTop(j, [f EXCEPT !.cancelled = TRUE])
           /\ Goto(j, "canceling")
           /\ UNCHANGED <<waits, spentSeconds, waited>>
  <2> DEFINE g == [f EXCEPT !.cancelled = TRUE]
  <2>1. g \in FrameType /\ g.reqs = f.reqs /\ g.fills = f.fills /\ g.temp = f.temp /\ g.texts = f.texts
        /\ g.canceledIds = f.canceledIds /\ g.temperatureIds = f.temperatureIds
    BY <1>2 DEF FrameType
  <2>2. "canceling" \in Sending
    BY DEF Sending
  <2>3. frames' = [frames EXCEPT ![j] = Replaced(frames[j], g)]
    BY <1>6 DEF SetTop, Replaced
  <2> HIDE DEF g, f
  <2>4. JobInv(j)' /\ frames' \in [Job -> Seq(FrameType)] /\ pc' \in [Job -> Label]
    BY <1>1, <1>2, <1>6, <2>1, <2>2, <2>3, Waits DEF f
  <2> QED
    BY <1>6, <2>4 DEF Poll, TypeInv, memo
<1> QED
  BY <1>4, <1>5, <1>6 DEF Poll

\* A reply carries its request's text or the reason why not.
LEMMA ReplyIs ==
    ASSUME NEW r \in Request, NEW outcome \in {"text", "EMPTY", "REFUSED", "dead", "canceled", "temperature"}
    PROVE  /\ ReplyOf(r, outcome) \in Reply /\ Answers(ReplyOf(r, outcome), r)
           /\ ReplyOf(r, outcome).text = r <=> outcome = "text"
           /\ Unavailable \in Reply /\ Answers(Unavailable, r)
<1>1. r \in 0..N /\ r # 0 /\ 0 \in 0..N
  BY Constants DEF Request
<1> QED
  BY <1>1 DEF ReplyOf, Unavailable, Reply, Answers

\* A poll of a cancelled batch keeps them.
LEMMA PollCancelledStep ==
    ASSUME TypeInv, NEW j \in Job, JobInv(j), PollCancelled(j)
    PROVE  TypeInv' /\ JobInv(j)'
<1> DEFINE f == Top(j)
           nap == IF f.grace < PollInterval THEN f.grace ELSE PollInterval
<1>1. pc[j] = "canceling" /\ Quiet(j) /\ pc[j] \in Sending
  BY DEF PollCancelled, Quiet, memo, Sending
<1>2. f \in FrameType /\ frames = [frames EXCEPT ![j] = Replaced(frames[j], f)]
      /\ f.reqs \in Seq(Request) /\ Len(f.reqs) \in Nat /\ DOMAIN f.reqs = 1..Len(f.reqs) /\ OwnIds(f)
  BY <1>1, TopIs
<1>3. f.elapsed \in Nat /\ f.grace \in 0..Grace /\ nap \in Nat /\ nap <= f.grace
  BY <1>2, Constants DEF FrameType
<1>4. CASE f.grace > 0
  <2> DEFINE g == [f EXCEPT !.grace = @ - nap, !.elapsed = @ + nap]
  <2>0. f.grace - nap \in 0..Grace /\ f.elapsed + nap \in Nat
    BY <1>3, Constants
  <2> HIDE DEF nap
  <2>1. g \in FrameType /\ g.reqs = f.reqs /\ g.fills = f.fills /\ g.temp = f.temp /\ g.texts = f.texts
        /\ g.canceledIds = f.canceledIds /\ g.temperatureIds = f.temperatureIds
    BY <1>2, <2>0 DEF FrameType
  <2>2. /\ waited' = [waited EXCEPT ![j] = @ + nap] /\ SetTop(j, g)
        /\ \/ UNCHANGED <<pc, waits, spentSeconds>>
           \/ CloseWait(j, g) /\ Goto(j, "collecting")
    BY <1>4 DEF PollCancelled, nap
  <2>3. frames' = [frames EXCEPT ![j] = Replaced(frames[j], g)]
    BY <2>2 DEF SetTop, Replaced
  <2>4. \/ Goto(j, "canceling") /\ "canceling" \in Sending
        \/ Goto(j, "collecting") /\ "collecting" \in Sending
    BY <1>1, <2>2 DEF Goto, TypeInv, Sending
  <2>5. g.elapsed \in Nat
    BY <2>1 DEF FrameType
  <2> HIDE DEF g, f
  <2>6. JobInv(j)' /\ frames' \in [Job -> Seq(FrameType)] /\ pc' \in [Job -> Label]
    BY <1>1, <1>2, <2>1, <2>3, <2>4, Waits DEF f
  <2>7. waited' \in [Job -> Nat]
    BY <1>3, <2>2 DEF TypeInv
  <2>8. spentSeconds' \in Nat /\ waits' \in SUBSET Job
    BY <2>2, <2>5 DEF TypeInv, CloseWait
  <2> QED
    BY <2>6, <2>7, <2>8 DEF PollCancelled, TypeInv, memo
<1>5. CASE ~(f.grace > 0)
  <2> DEFINE t == [i \in DOMAIN f.reqs |-> Unavailable]
             g == [f EXCEPT !.texts = t]
  <2>1. CloseWait(j, f) /\ SetTop(j, g) /\ Goto(j, "returning") /\ UNCHANGED waited
    BY <1>5 DEF PollCancelled
  <2>2. Unavailable \in Reply /\ \A r \in Request : Answers(Unavailable, r)
    <3>1. 1 \in Request /\ "dead" \in {"text", "EMPTY", "REFUSED", "dead", "canceled", "temperature"}
      BY Constants DEF Request
    <3> QED
      BY <3>1, ReplyIs
  <2>3. t \in Seq(Reply) /\ Len(t) = Len(f.reqs)
    <3>1. t \in [1..Len(f.reqs) -> Reply]
      BY <1>2, <2>2
    <3> QED
      BY <1>2, <3>1, IsSequence
  <2>4. \A i \in 1..Len(f.reqs) : t[i] = Unavailable /\ f.reqs[i] \in Request
    BY <1>2, ElementOfSeq
  <2> HIDE DEF t
  <2>5. g \in FrameType /\ g.reqs = f.reqs /\ g.fills = f.fills /\ g.temp = f.temp /\ g.texts = t
        /\ g.canceledIds = f.canceledIds /\ g.temperatureIds = f.temperatureIds
    BY <1>2, <2>3 DEF FrameType
  <2>6. frames' = [frames EXCEPT ![j] = Replaced(frames[j], g)]
    BY <2>1 DEF SetTop, Replaced
  <2> HIDE DEF g, f
  <2>7. Complete(g) /\ OwnIds(g)
    BY <1>2, <2>2, <2>3, <2>4, <2>5 DEF Complete, OwnIds
  <2>8. GoesOn(pc[j], "returning", results[j], frames[j], g)
    BY <1>1, <2>5, <2>7, StackIs DEF GoesOn, f, Top, Reading
  <2>9. OwedIn(g, "returning") = {} /\ OwedIn(f, pc[j]) = 1..Len(g.reqs)
    BY <1>1, <2>5 DEF OwedIn, Sending
  <2>10. JobInv(j)' /\ frames' \in [Job -> Seq(FrameType)] /\ pc' \in [Job -> Label]
    BY <1>1, <2>1, <2>6, <2>8, <2>9, QuietStep DEF f
  <2> QED
    BY <1>3, <2>1, <2>10 DEF PollCancelled, TypeInv, memo, CloseWait
<1> QED
  BY <1>4, <1>5

\* Settling what a batch left open keeps them.
LEMMA SettleStep ==
    ASSUME TypeInv, NEW j \in Job, JobInv(j), Settle(j)
    PROVE  TypeInv' /\ JobInv(j)'
<1> DEFINE f == Top(j)
           label == IF f.cancelled /\ f.canceledIds # {} /\ Cardinality(f.canceledIds) <= RerunMax
                    THEN "remainder" ELSE "returning"
<1>1. /\ pc[j] = "settling" /\ Goto(j, label) /\ Quiet(j) /\ frames' = frames /\ f.temperatureIds = {}
      /\ pc[j] \in Reading
  BY DEF Settle, Quiet, memo, history, Reading
<1>2. /\ f \in FrameType /\ frames = [frames EXCEPT ![j] = Replaced(frames[j], f)]
      /\ OwnIds(f) /\ Complete(f)
  BY <1>1, TopIs
<1>3. label \in {"remainder", "returning"}
  OBVIOUS
<1> HIDE DEF label, f
<1>4. GoesOn(pc[j], label, results[j], frames[j], f)
  BY <1>1, <1>2, <1>3, StackIs DEF GoesOn, Top, Reading, f
<1>5. OwedIn(f, label) \subseteq OwedIn(f, pc[j])
  BY <1>1, <1>2, <1>3 DEF OwedIn, Sending
<1>6. JobInv(j)' /\ frames' \in [Job -> Seq(FrameType)] /\ pc' \in [Job -> Label]
  BY <1>1, <1>2, <1>4, <1>5, QuietStep DEF f
<1> QED
  BY <1>6 DEF Settle, TypeInv, budgets, memo, history

\* A step of the call on top that bills replies: to requests that were owed one, keeping text.
BillsTop(j, label, g, route, hit) ==
    /\ Goto(j, label) /\ GoesOn(pc[j], label, results[j], frames[j], g)
    /\ frames' = [frames EXCEPT ![j] = Replaced(frames[j], g)] /\ UNCHANGED <<results, fellBack>>
    /\ route \in {"batch", "sequential"} /\ hit \subseteq OwedIn(Top(j), pc[j])
    /\ billed' \in [Job -> Bills] /\ BilledFor(billed[j], billed'[j], route, HitBy(g.reqs, hit))
    /\ OwedIn(g, label) \subseteq OwedIn(Top(j), pc[j]) \ hit
    /\ answered' \in [Job -> SUBSET Request]
    /\ \A r \in answered'[j] :
          r \in answered[j] \/ \E i \in 1..Len(g.reqs) : r = g.reqs[i] /\ billed'[j].batch[r] > 0
    /\ \A i \in 1..Len(g.reqs) : g.reqs[i] \in answered'[j] =>
          \/ i <= Len(g.texts) /\ g.texts[i].text = g.reqs[i]
          \/ g.reqs[i] \in answered[j] /\ (i \in OwedIn(Top(j), pc[j]) \/ SameAt(g.texts, Top(j).texts, i))

\* Such a step keeps the invariant of its job.
LEMMA BillingStep ==
    ASSUME TypeInv, NEW j \in Job, JobInv(j), pc[j] \in Sending \cup Reading,
           NEW label, NEW g, NEW route, NEW hit, BillsTop(j, label, g, route, hit)
    PROVE  JobInv(j)' /\ frames' \in [Job -> Seq(FrameType)] /\ pc' \in [Job -> Label]
<1> DEFINE p == pc[j]
           res == results[j]
           fr == frames[j]
           b == billed[j]
           b2 == billed'[j]
           ans == answered[j]
           ans2 == answered'[j]
<1> USE DEF BillsTop
<1>1. /\ res \in Seq(Reply) /\ fr \in Seq(FrameType) /\ fr # <<>> /\ b \in Bills /\ ans \in SUBSET Request
      /\ p \notin Back /\ ResultsOK(p, res) /\ b2 \in Bills /\ ans2 \in SUBSET Request
  BY StackIs
<1>2. /\ j \notin fellBack /\ BilledOK(p, res, fr, b, FALSE) /\ PaidOK(p, res, fr, b, ans, FALSE)
  BY <1>1, NotBack
<1>3. pc'[j] = label /\ results'[j] = res /\ frames'[j] = Replaced(fr, g) /\ j \notin fellBack'
  BY <1>2 DEF Goto, TypeInv
<1>4. Top(j) = fr[Len(fr)]
  BY DEF Top
<1>5. BilledFor(b, b2, route, HitBy(g.reqs, hit))
  OBVIOUS
<1>6. GoesOn(p, label, res, fr, g)
  OBVIOUS
<1>7. OwedIn(g, label) \subseteq OwedIn(fr[Len(fr)], p) \ hit /\ hit \in SUBSET OwedIn(fr[Len(fr)], p)
  BY <1>4
<1>8. \A r \in ans2 : r \in ans \/ \E i \in 1..Len(g.reqs) : r = g.reqs[i] /\ b2.batch[r] > 0
  OBVIOUS
<1>9. \A i \in 1..Len(g.reqs) : g.reqs[i] \in ans2 =>
         \/ i <= Len(g.texts) /\ g.texts[i].text = g.reqs[i]
         \/ g.reqs[i] \in ans /\ (i \in OwedIn(fr[Len(fr)], p) \/ SameAt(g.texts, fr[Len(fr)].texts, i))
  BY <1>4
<1> HIDE DEF p, res, fr, b, b2, ans, ans2
<1>10. /\ StackOK(label, res, Replaced(fr, g))
       /\ BilledOK(label, res, Replaced(fr, g), b2, FALSE)
       /\ PaidOK(label, res, Replaced(fr, g), b2, ans2, FALSE)
  BY <1>1, <1>2, <1>5, <1>6, <1>7, <1>8, <1>9, TopMoves, ZenonT(120)
<1>11. label \in Sending \cup Reading /\ Replaced(fr, g) \in Seq(FrameType)
  BY <1>6, NewTop DEF GoesOn
<1>12. ResultsOK(label, res)
  BY <1>1, <1>11 DEF ResultsOK, Sending, Reading
<1>13. pc' \in [Job -> Label]
  BY <1>11 DEF TypeInv, Goto, Label
<1>14. frames' \in [Job -> Seq(FrameType)]
  BY <1>11 DEF TypeInv, fr
<1>15. /\ BilledOK(label, res, Replaced(fr, g), b2, j \in fellBack')
       /\ PaidOK(label, res, Replaced(fr, g), b2, ans2, j \in fellBack')
  BY <1>3, <1>10, StillIn
<1> QED
  BY <1>3, <1>10, <1>12, <1>13, <1>14, <1>15 DEF JobInv, b2, ans2

\* Reading the results of a batch keeps them: its text is billed and put in its place.
LEMMA CollectStep ==
    ASSUME TypeInv, NEW j \in Job, JobInv(j), Collect(j)
    PROVE  TypeInv' /\ JobInv(j)'
<1> DEFINE f == Top(j)
           n == Len(f.reqs)
<1>1. /\ pc[j] = "collecting" /\ Goto(j, "settling") /\ pc[j] \in Sending
      /\ UNCHANGED <<results, spentSeconds, waits, noTemp, refuses, declined, waited, fellBack>>
  BY DEF Collect, memo, Sending
<1>2. /\ f \in FrameType /\ f.reqs \in Seq(Request) /\ n \in Nat /\ DOMAIN f.reqs = 1..n
  BY <1>1, TopIs
<1> HIDE DEF f, n
<1>3. PICK outcome \in [1..n -> BatchOutcome(f)], order \in Orders(n) :
         LET entry(i) == order[Lookup(order, i)]
             idsOf(o) == {i \in 1..n : outcome[i] = o}
         IN  /\ SetTop(j, [f EXCEPT
                   !.texts = [i \in 1..n |-> ReplyOf(f.reqs[entry(i)], outcome[entry(i)])],
                   !.canceledIds = idsOf("canceled"),
                   !.temperatureIds = idsOf("temperature")])
             /\ Bill(j, f.reqs, {i \in 1..n : outcome[i] \in Billable}, "batch")
             /\ answered' = [answered EXCEPT ![j] = @ \cup {f.reqs[i] : i \in idsOf("text")}]
  BY <1>2 DEF Collect, f, n
<1> DEFINE texts == [i \in 1..n |-> ReplyOf(f.reqs[i], outcome[i])]
           cancelled == {i \in 1..n : outcome[i] = "canceled"}
           temperature == {i \in 1..n : outcome[i] = "temperature"}
           hit == {i \in 1..n : outcome[i] \in Billable}
           g == [f EXCEPT !.texts = texts, !.canceledIds = cancelled, !.temperatureIds = temperature]
<1>4. \A i \in 1..n : order[Lookup(order, i)] = i
  BY <1>2, LookupIs
<1>5. SetTop(j, g)
  <2>1. [i \in 1..n |-> ReplyOf(f.reqs[order[Lookup(order, i)]], outcome[order[Lookup(order, i)]])] = texts
    BY <1>4
  <2> QED
    BY <1>3, <2>1
<1>6. /\ Bill(j, f.reqs, hit, "batch")
      /\ answered' = [answered EXCEPT ![j] = @ \cup {f.reqs[i] : i \in {k \in 1..n : outcome[k] = "text"}}]
  BY <1>3
<1>7. \A i \in 1..n : outcome[i] \in {"text", "EMPTY", "REFUSED", "dead", "canceled", "temperature"}
                      /\ f.reqs[i] \in Request /\ (outcome[i] = "temperature" => f.temp)
  BY <1>2, ElementOfSeq DEF BatchOutcome, n
<1>8. \A i \in 1..n : /\ texts[i] \in Reply /\ Answers(texts[i], f.reqs[i])
                      /\ texts[i].text = f.reqs[i] <=> outcome[i] = "text"
  <2> SUFFICES ASSUME NEW i \in 1..n
               PROVE  LET t == ReplyOf(f.reqs[i], outcome[i]) IN
                      t \in Reply /\ Answers(t, f.reqs[i]) /\ (t.text = f.reqs[i] <=> outcome[i] = "text")
    OBVIOUS
  <2> QED
    BY <1>7, ReplyIs
<1>9. texts \in Seq(Reply) /\ Len(texts) = n
  <2>1. texts \in [1..n -> Reply]
    BY <1>8
  <2> QED
    BY <1>2, <2>1, IsSequence
<1>10. cancelled \in SUBSET Nat /\ temperature \in SUBSET Nat
  BY <1>2
<1> HIDE DEF texts
<1>11. /\ g \in FrameType /\ g.reqs = f.reqs /\ g.fills = f.fills /\ g.temp = f.temp /\ g.texts = texts
       /\ g.canceledIds = cancelled /\ g.temperatureIds = temperature
  <2> HIDE DEF cancelled, temperature
  <2> QED
    BY <1>2, <1>9, <1>10 DEF FrameType
<1>12. frames' = [frames EXCEPT ![j] = Replaced(frames[j], g)]
  BY <1>5 DEF SetTop, Replaced
<1> HIDE DEF g
<1>13. Complete(g)
  BY <1>8, <1>9, <1>11 DEF Complete, n
<1>14. OwnIds(g)
  BY <1>7, <1>11 DEF OwnIds, n
<1>15. GoesOn(pc[j], "settling", results[j], frames[j], g)
  BY <1>1, <1>11, <1>13, <1>14, StackIs DEF GoesOn, Top, Reading, f
<1>16. /\ hit \in SUBSET OwedIn(f, pc[j]) /\ OwedIn(f, pc[j]) = 1..n
       /\ OwedIn(g, "settling") \subseteq OwedIn(f, pc[j]) \ hit
  BY <1>1, <1>11 DEF OwedIn, Sending, n, Billable
<1>17. IsFiniteSet(hit)
  BY <1>2, FS_Interval, FS_Subset
<1>18. hit = {i \in 1..n : outcome[i] \in Billable}
  OBVIOUS
<1> HIDE DEF hit
<1>19. /\ billed' \in [Job -> Bills] /\ spentUsd' \in Nat
       /\ BilledFor(billed[j], billed'[j], "batch", HitBy(g.reqs, hit))
  BY <1>6, <1>11, <1>17, BillIs
<1>20. answered' \in [Job -> SUBSET Request]
  <2>1. answered[j] \cup {f.reqs[i] : i \in {k \in 1..n : outcome[k] = "text"}} \in SUBSET Request
    BY <1>7 DEF TypeInv
  <2> QED
    BY <1>6, <2>1 DEF TypeInv
<1>21. \A r \in answered'[j] : r \in answered[j] \/ \E i \in 1..n : r = f.reqs[i] /\ outcome[i] = "text"
  BY <1>6 DEF TypeInv
<1>22. \A r \in answered'[j] :
          r \in answered[j] \/ \E i \in 1..Len(g.reqs) : r = g.reqs[i] /\ billed'[j].batch[r] > 0
  <2> SUFFICES ASSUME NEW i \in 1..n, outcome[i] = "text" PROVE billed'[j].batch[f.reqs[i]] > 0
    BY <1>11, <1>21 DEF n
  <2>1. f.reqs[i] \in HitBy(g.reqs, hit) /\ f.reqs[i] \in Request
    BY <1>7, <1>11, <1>18 DEF HitBy, Billable
  <2>2. billed'[j].batch[f.reqs[i]] = billed[j].batch[f.reqs[i]] + 1
    BY <1>19, <2>1 DEF BilledFor
  <2>3. billed[j].batch[f.reqs[i]] \in Nat
    BY <2>1 DEF TypeInv, Bills
  <2> QED
    BY <2>2, <2>3
<1>23. \A i \in 1..Len(g.reqs) : g.reqs[i] \in answered'[j] =>
          \/ i <= Len(g.texts) /\ g.texts[i].text = g.reqs[i]
          \/ g.reqs[i] \in answered[j] /\ (i \in OwedIn(f, pc[j]) \/ SameAt(g.texts, f.texts, i))
  <2> SUFFICES ASSUME NEW i \in 1..n, f.reqs[i] \in answered'[j], f.reqs[i] \notin answered[j]
               PROVE  i <= n /\ texts[i].text = f.reqs[i]
    BY <1>9, <1>11, <1>16 DEF n
  <2>1. PICK k \in 1..n : f.reqs[k] = f.reqs[i] /\ outcome[k] = "text"
    BY <1>21
  <2>2. k = i
    BY <1>1, <2>1, TopIs DEF f, n
  <2> QED
    BY <1>2, <1>8, <2>1, <2>2
<1>24. JobInv(j)' /\ frames' \in [Job -> Seq(FrameType)] /\ pc' \in [Job -> Label]
  <2>1. BillsTop(j, "settling", g, "batch", hit)
    BY <1>1, <1>12, <1>15, <1>16, <1>19, <1>20, <1>22, <1>23 DEF BillsTop, f
  <2> QED
    BY <1>1, <2>1, BillingStep
<1> QED
  BY <1>1, <1>19, <1>20, <1>24 DEF TypeInv

\* A run of the sequential path bills some of the requests and leaves the memo a truth value.
LEMMA SequentialCallsAre ==
    ASSUME TypeInv, NEW j \in Job, NEW reqs, NEW hit, IsFiniteSet(hit), NEW temp,
           SequentialCalls(j, reqs, hit, temp)
    PROVE  /\ billed' \in [Job -> Bills] /\ spentUsd' \in Nat /\ noTemp' \in BOOLEAN
           /\ BilledFor(billed[j], billed'[j], "sequential", HitBy(reqs, hit))
           /\ \A k \in Job \ {j} : billed'[k] = billed[k]
           /\ hit = {} => spentUsd' = spentUsd
<1>1. Bill(j, reqs, hit, "sequential") /\ "sequential" \in {"batch", "sequential"}
  BY DEF SequentialCalls
<1>2. /\ billed' \in [Job -> Bills] /\ spentUsd' \in Nat
      /\ BilledFor(billed[j], billed'[j], "sequential", HitBy(reqs, hit))
      /\ \A k \in Job \ {j} : billed'[k] = billed[k]
      /\ spentUsd' = spentUsd + Cardinality(hit) * 2
  BY <1>1, BillIs
<1>3. noTemp' \in BOOLEAN
  BY DEF SequentialCalls, TypeInv
<1>4. hit = {} => spentUsd' = spentUsd
  BY <1>2, FS_EmptySet DEF TypeInv
<1> QED
  BY <1>2, <1>3, <1>4

\* A chunk served without a batch keeps them.
LEMMA RunChunkSequentiallyStep ==
    ASSUME TypeInv, NEW j \in Job, JobInv(j), RunChunkSequentially(j)
    PROVE  TypeInv' /\ JobInv(j)'
<1> DEFINE f == Top(j)
           n == Len(f.reqs)
<1>1. /\ pc[j] = "chunkSequential" /\ Goto(j, "returning") /\ pc[j] \in Sending
      /\ UNCHANGED <<results, spentSeconds, waits, refuses, answered, waited, fellBack>>
  BY DEF RunChunkSequentially, Sending
<1>2. /\ f \in FrameType /\ f.reqs \in Seq(Request) /\ n \in Nat /\ DOMAIN f.reqs = 1..n /\ OwnIds(f)
  BY <1>1, TopIs
<1> HIDE DEF f, n
<1>3. PICK outcome \in [1..n -> SeqOutcome] :
         /\ SetTop(j, [f EXCEPT !.texts = [i \in 1..n |-> ReplyOf(f.reqs[i], outcome[i])]])
         /\ SequentialCalls(j, f.reqs, {i \in 1..n : outcome[i] \in Billable}, AskedTemp(j))
  BY <1>2 DEF RunChunkSequentially, Sequentially, f, n
<1> DEFINE texts == [i \in 1..n |-> ReplyOf(f.reqs[i], outcome[i])]
           hit == {i \in 1..n : outcome[i] \in Billable}
           g == [f EXCEPT !.texts = texts]
<1>4. SetTop(j, g) /\ SequentialCalls(j, f.reqs, hit, AskedTemp(j))
  BY <1>3
<1>5. \A i \in 1..n : /\ outcome[i] \in {"text", "EMPTY", "REFUSED", "dead", "canceled", "temperature"}
                      /\ f.reqs[i] \in Request
  BY <1>2, ElementOfSeq DEF SeqOutcome, n
<1>6. \A i \in 1..n : texts[i] \in Reply /\ Answers(texts[i], f.reqs[i])
  <2> SUFFICES ASSUME NEW i \in 1..n
               PROVE  ReplyOf(f.reqs[i], outcome[i]) \in Reply /\ Answers(ReplyOf(f.reqs[i], outcome[i]), f.reqs[i])
    OBVIOUS
  <2> QED
    BY <1>5, ReplyIs
<1>7. texts \in Seq(Reply) /\ Len(texts) = n
  <2>1. texts \in [1..n -> Reply]
    BY <1>6
  <2> QED
    BY <1>2, <2>1, IsSequence
<1> HIDE DEF texts
<1>8. /\ g \in FrameType /\ g.reqs = f.reqs /\ g.fills = f.fills /\ g.temp = f.temp /\ g.texts = texts
      /\ g.canceledIds = f.canceledIds /\ g.temperatureIds = f.temperatureIds
  BY <1>2, <1>7 DEF FrameType
<1>9. frames' = [frames EXCEPT ![j] = Replaced(frames[j], g)]
  BY <1>4 DEF SetTop, Replaced
<1> HIDE DEF g
<1>10. Complete(g) /\ OwnIds(g)
  BY <1>2, <1>6, <1>7, <1>8 DEF Complete, OwnIds, n
<1>11. GoesOn(pc[j], "returning", results[j], frames[j], g)
  BY <1>1, <1>8, <1>10, StackIs DEF GoesOn, Top, Reading, f
<1>12. OwedIn(f, pc[j]) = 1..n /\ OwedIn(g, "returning") = {} /\ hit \subseteq OwedIn(f, pc[j])
  BY <1>1, <1>8 DEF OwedIn, Sending, n
<1>13. IsFiniteSet(hit)
  BY <1>2, FS_Interval, FS_Subset
<1> HIDE DEF hit
<1>14. /\ billed' \in [Job -> Bills] /\ spentUsd' \in Nat /\ noTemp' \in BOOLEAN
       /\ BilledFor(billed[j], billed'[j], "sequential", HitBy(g.reqs, hit))
  BY <1>4, <1>8, <1>13, SequentialCallsAre
<1>15. answered' \in [Job -> SUBSET Request] /\ answered'[j] = answered[j]
  BY <1>1 DEF TypeInv
<1>16. Len(g.reqs) = n
  BY <1>8 DEF n
<1>17. BillsTop(j, "returning", g, "sequential", hit)
  BY <1>1, <1>9, <1>11, <1>12, <1>14, <1>15, <1>16 DEF BillsTop, f
<1>18. JobInv(j)' /\ frames' \in [Job -> Seq(FrameType)] /\ pc' \in [Job -> Label]
  BY <1>1, <1>17, BillingStep
<1> QED
  BY <1>1, <1>14, <1>15, <1>18 DEF TypeInv

\* Running what a cancelled batch left open keeps them.
LEMMA RunRemainderStep ==
    ASSUME TypeInv, NEW j \in Job, JobInv(j), RunRemainder(j)
    PROVE  TypeInv' /\ JobInv(j)'
<1> DEFINE f == Top(j)
           n == Len(f.reqs)
           again == Ascending(f.canceledIds)
           reqs == At(f.reqs, again)
           c == Len(again)
<1>1. /\ pc[j] = "remainder" /\ Goto(j, "returning") /\ pc[j] \in Reading
      /\ UNCHANGED <<results, spentSeconds, waits, refuses, answered, waited, fellBack>>
  BY DEF RunRemainder, Reading
<1>2. /\ f \in FrameType /\ f.reqs \in Seq(Request) /\ n \in Nat /\ OwnIds(f) /\ Complete(f)
  BY <1>1, TopIs
<1>3. f.canceledIds \in SUBSET (1..n) /\ f.texts \in Seq(Reply) /\ Len(f.texts) = n
  BY <1>2 DEF OwnIds, Complete, FrameType
<1>4. /\ again \in Seq(Nat) /\ reqs \in Seq(Request) /\ c = Len(reqs) /\ DOMAIN again = 1..c
      /\ \A m \in 1..c : again[m] \in f.canceledIds /\ reqs[m] = f.reqs[again[m]]
      /\ \A m, k \in 1..c : again[m] = again[k] => m = k
      /\ \A x \in f.canceledIds : \E m \in 1..c : again[m] = x
  BY <1>2, <1>3, AtIs
<1>5. c \in Nat /\ DOMAIN reqs = 1..c /\ \A m \in 1..c : reqs[m] \in Request
  BY <1>4, LenProperties, ElementOfSeq
<1>6. PICK outcome \in [1..c -> SeqOutcome] :
         /\ SetTop(j, [f EXCEPT !.texts = Fill(@, again, [k \in 1..c |-> ReplyOf(reqs[k], outcome[k])])])
         /\ SequentialCalls(j, reqs, {k \in 1..c : outcome[k] \in Billable}, AskedTemp(j))
  BY <1>4, <1>5 DEF RunRemainder, Sequentially
<1> HIDE DEF f, n, again, reqs, c
<1> DEFINE replies == [k \in 1..c |-> ReplyOf(reqs[k], outcome[k])]
           heard == {k \in 1..c : outcome[k] \in Billable}
           hit == {again[k] : k \in heard}
           texts == Fill(f.texts, again, replies)
           g == [f EXCEPT !.texts = texts]
<1>7. SetTop(j, g) /\ SequentialCalls(j, reqs, heard, AskedTemp(j))
  BY <1>6
<1>8. \A k \in 1..c : replies[k] \in Reply /\ Answers(replies[k], reqs[k])
  <2> SUFFICES ASSUME NEW k \in 1..c
               PROVE  ReplyOf(reqs[k], outcome[k]) \in Reply /\ Answers(ReplyOf(reqs[k], outcome[k]), reqs[k])
    OBVIOUS
  <2>1. outcome[k] \in {"text", "EMPTY", "REFUSED", "dead", "canceled", "temperature"} /\ reqs[k] \in Request
    BY <1>5 DEF SeqOutcome
  <2> QED
    BY <2>1, ReplyIs
<1>9. replies \in Seq(Reply) /\ Len(replies) = c
  <2>1. replies \in [1..c -> Reply]
    BY <1>8
  <2> QED
    BY <1>5, <2>1, IsSequence
<1> HIDE DEF replies
<1>10. /\ texts \in Seq(Reply) /\ Len(texts) = n
       /\ \A m \in 1..c : again[m] \in 1..n => texts[again[m]] = replies[m]
       /\ \A i \in 1..n : (\A m \in 1..c : again[m] # i) => texts[i] = f.texts[i]
  <2>1. Len(again) <= Len(replies) /\ Len(again) = c
    BY <1>5, <1>9 DEF c
  <2>2. \A m, k \in 1..Len(again) : again[m] = again[k] => m = k
    BY <1>4, <2>1
  <2> HIDE DEF texts
  <2>5. Fillable(Reply, f.texts, again, replies)
    BY <1>3, <1>4, <1>9, <2>1, <2>2 DEF Fillable
  <2>3. LET t == Fill(f.texts, again, replies) IN
        /\ t \in Seq(Reply) /\ Len(t) = Len(f.texts)
        /\ \A m \in 1..Len(again) : again[m] \in 1..Len(f.texts) => t[again[m]] = replies[m]
        /\ \A i \in 1..Len(f.texts) : (\A m \in 1..Len(again) : again[m] # i) => t[i] = f.texts[i]
    BY <2>5, FillIs
  <2>4. texts = Fill(f.texts, again, replies)
    BY DEF texts
  <2> QED
    BY <1>3, <2>1, <2>3, <2>4
<1> HIDE DEF texts
<1>11. /\ g \in FrameType /\ g.reqs = f.reqs /\ g.fills = f.fills /\ g.temp = f.temp /\ g.texts = texts
       /\ g.canceledIds = f.canceledIds /\ g.temperatureIds = f.temperatureIds
  BY <1>2, <1>10 DEF FrameType
<1>12. frames' = [frames EXCEPT ![j] = Replaced(frames[j], g)]
  BY <1>7 DEF SetTop, Replaced
<1> HIDE DEF g
<1>13. \A i \in 1..n : Answers(texts[i], f.reqs[i])
  <2> SUFFICES ASSUME NEW i \in 1..n PROVE Answers(texts[i], f.reqs[i])
    OBVIOUS
  <2>1. CASE i \in f.canceledIds
    <3>1. PICK m \in 1..c : again[m] = i
      BY <1>4, <2>1
    <3> QED
      BY <1>4, <1>8, <1>10, <3>1
  <2>2. CASE i \notin f.canceledIds
    <3>1. texts[i] = f.texts[i]
      BY <1>4, <1>10, <2>2
    <3> QED
      BY <1>2, <3>1 DEF Complete, n
  <2> QED
    BY <2>1, <2>2
<1>14. Complete(g) /\ OwnIds(g)
  BY <1>2, <1>10, <1>11, <1>13 DEF Complete, OwnIds, n
<1>15. GoesOn(pc[j], "returning", results[j], frames[j], g)
  BY <1>1, <1>11, <1>14, StackIs DEF GoesOn, Top, Reading, f
<1>16. OwedIn(f, pc[j]) = f.canceledIds /\ OwedIn(g, "returning") = {} /\ hit \subseteq OwedIn(f, pc[j])
  <2>1. OwedIn(f, pc[j]) = f.canceledIds
    BY <1>1, <1>3 DEF OwedIn, Sending, n
  <2>2. hit \subseteq f.canceledIds
    BY <1>4
  <2> QED
    BY <2>1, <2>2 DEF OwedIn, Sending
<1>17. IsFiniteSet(heard)
  BY <1>5, FS_Interval, FS_Subset
<1>18. HitBy(reqs, heard) = HitBy(g.reqs, hit)
  <2>1. \A k \in heard : reqs[k] = f.reqs[again[k]]
    BY <1>4
  <2> QED
    BY <1>11, <2>1 DEF HitBy
<1> HIDE DEF heard, hit
<1>19. /\ billed' \in [Job -> Bills] /\ spentUsd' \in Nat /\ noTemp' \in BOOLEAN
       /\ BilledFor(billed[j], billed'[j], "sequential", HitBy(g.reqs, hit))
  <2>1. BilledFor(billed[j], billed'[j], "sequential", HitBy(reqs, heard))
    BY <1>7, <1>17, SequentialCallsAre
  <2> QED
    BY <1>7, <1>17, <1>18, <2>1, SequentialCallsAre
<1>20. answered' \in [Job -> SUBSET Request] /\ answered'[j] = answered[j]
  BY <1>1 DEF TypeInv
<1>21. \A i \in 1..n : i \in OwedIn(f, pc[j]) \/ SameAt(g.texts, f.texts, i)
  <2> SUFFICES ASSUME NEW i \in 1..n, i \notin f.canceledIds
               PROVE  SameAt(g.texts, f.texts, i)
    BY <1>16
  <2>1. \A m \in 1..c : again[m] # i
    BY <1>4
  <2>2. texts[i] = f.texts[i]
    BY <1>10, <2>1
  <2>3. Len(texts) = Len(f.texts)
    BY <1>3, <1>10
  <2> QED
    BY <1>11, <2>2, <2>3 DEF SameAt
<1>22. Len(g.reqs) = n
  BY <1>11 DEF n
<1>23. BillsTop(j, "returning", g, "sequential", hit)
  BY <1>1, <1>12, <1>15, <1>16, <1>19, <1>20, <1>21, <1>22 DEF BillsTop, f
<1>24. JobInv(j)' /\ frames' \in [Job -> Seq(FrameType)] /\ pc' \in [Job -> Label]
  BY <1>1, <1>23, BillingStep
<1> QED
  BY <1>1, <1>19, <1>20, <1>24 DEF TypeInv

\* A step of j that bills nothing: the requests owed shrink and what was kept is kept.
Moves(j, p, res, fr) ==
    /\ pc' = [pc EXCEPT ![j] = p] /\ p \in Label
    /\ results' = [results EXCEPT ![j] = res] /\ res \in Seq(Reply)
    /\ frames' = [frames EXCEPT ![j] = fr] /\ fr \in Seq(FrameType)
    /\ UNCHANGED <<billed, answered, fellBack>>
    /\ StackOK(p, res, fr) /\ ResultsOK(p, res)
    /\ Owed(p, res, fr) \subseteq Owed(pc[j], results[j], frames[j])
    /\ \A r \in answered[j] :
          r \notin Owed(pc[j], results[j], frames[j]) /\ KeptAt(pc[j], results[j], frames[j], r)
             => KeptAt(p, res, fr, r)

\* Such a step keeps the invariant of its job.
LEMMA MovesKeeps ==
    ASSUME TypeInv, NEW j \in Job, JobInv(j), pc[j] \notin Back, NEW p, NEW res, NEW fr, Moves(j, p, res, fr)
    PROVE  /\ JobInv(j)' /\ pc' \in [Job -> Label] /\ results' \in [Job -> Seq(Reply)]
           /\ frames' \in [Job -> Seq(FrameType)]
<1> USE DEF Moves
<1>1. /\ j \notin fellBack /\ BilledOK(pc[j], results[j], frames[j], billed[j], FALSE)
      /\ PaidOK(pc[j], results[j], frames[j], billed[j], answered[j], FALSE)
  BY NotBack
<1>2. pc'[j] = p /\ results'[j] = res /\ frames'[j] = fr
  BY DEF TypeInv
<1>3. BilledOK(p, res, fr, billed[j], FALSE)
  BY <1>1 DEF BilledOK, Owed
<1>4. PaidOK(p, res, fr, billed[j], answered[j], FALSE)
  <2>1. \A r \in answered[j] :
           /\ billed[j].batch[r] > 0 /\ r \notin Owed(pc[j], results[j], frames[j])
           /\ KeptAt(pc[j], results[j], frames[j], r)
    BY <1>1, AnsweredIsSettled
  <2> QED
    BY <2>1 DEF PaidOK
<1>5. /\ BilledOK(p, res, fr, billed[j], j \in fellBack')
      /\ PaidOK(p, res, fr, billed[j], answered[j], j \in fellBack')
  BY <1>1, <1>3, <1>4, StillIn
<1>6. JobInv(j)'
  BY <1>2, <1>5 DEF JobInv
<1>7. pc' \in [Job -> Label] /\ results' \in [Job -> Seq(Reply)] /\ frames' \in [Job -> Seq(FrameType)]
  BY DEF TypeInv
<1> QED
  BY <1>6, <1>7

\* No call is out: the requests to come are owed.
LEMMA Idle ==
    ASSUME NEW p, NEW res
    PROVE  /\ Owed(p, res, <<>>) = Ahead(p, res, <<>>)
           /\ Len(res) \in Nat => LastOf(res, <<>>) = Len(res)
BY DEF Owed, OwedBy, LastOf

\* A job without a call has its stack in order.
LEMMA IdleStack ==
    ASSUME NEW p, NEW res, p \notin Sending \cup Reading
    PROVE  StackOK(p, res, <<>>)
<1>1. Len(<<>>) = 0
  OBVIOUS
<1>2. p # "remainder" /\ p \notin Reading
  BY DEF Reading
<1> QED
  BY <1>1, <1>2 DEF StackOK

\* A call that is about to be sent.
Fresh(f, reqs, fills, temp, cap) ==
    /\ f \in FrameType /\ OwnIds(f) /\ f.reqs = reqs /\ f.fills = fills /\ f.temp = temp
    /\ f.cap = cap /\ f.elapsed = 0 /\ f.grace = Grace /\ f.texts = <<>>
    /\ f.canceledIds = {} /\ f.temperatureIds = {}

\* Frame makes one.
LEMMA FrameIs ==
    ASSUME NEW reqs \in Seq(Request), NEW fills \in Seq(Nat), NEW temp \in BOOLEAN, NEW cap \in Nat
    PROVE  Fresh(Frame(reqs, fills, temp, cap), reqs, fills, temp, cap)
<1>1. /\ <<>> \in Seq(Reply) /\ Grace \in 0..Grace /\ 0 \in Nat
  BY Constants, EmptySeq
<1>2. Frame(reqs, fills, temp, cap) \in FrameType
  BY <1>1 DEF Frame, FrameType
<1> QED
  BY <1>2 DEF Frame, OwnIds, Fresh

\* A call entered: with the wait the balance allows and a temperature unless the memo bars it, or
\* as it is, on the sequential path.
Entered(j, below, f, g, p) ==
    /\ pc' = [pc EXCEPT ![j] = p] /\ frames' = [frames EXCEPT ![j] = Append(below, g)]
    /\ g \in FrameType /\ p \in {"submitting", "chunkSequential"}
    /\ OwnIds(g) /\ g.reqs = f.reqs /\ g.fills = f.fills /\ (~f.temp => ~g.temp)
    /\ g.elapsed = f.elapsed /\ g.grace = f.grace /\ g.texts = f.texts
    /\ g.canceledIds = f.canceledIds /\ g.temperatureIds = f.temperatureIds
    /\ p = "submitting" => CanSubmit /\ g.cap = WaitCap(f.cap)

\* EnterBatch enters a call in one of the two ways.
LEMMA EnteredIs ==
    ASSUME TypeInv, NEW j \in Job, NEW below, NEW f \in FrameType, OwnIds(f), f.temperatureIds = {},
           EnterBatch(j, below, f)
    PROVE  \E g, p : Entered(j, below, f, g, p)
<1>1. CASE CanSubmit
  <2> DEFINE temp == f.temp /\ ~noTemp
             cap == WaitCap(f.cap)
             g == [f EXCEPT !.cap = cap, !.temp = temp]
  <2>1. cap \in Nat /\ temp \in BOOLEAN
    BY Constants DEF WaitCap, Remaining, TypeInv, FrameType
  <2>2. frames' = [frames EXCEPT ![j] = Append(below, g)] /\ pc' = [pc EXCEPT ![j] = "submitting"]
    BY <1>1 DEF EnterBatch, Goto
  <2>3. ~f.temp => ~temp
    OBVIOUS
  <2> HIDE DEF temp, cap
  <2>4. /\ g \in FrameType /\ g.reqs = f.reqs /\ g.fills = f.fills /\ g.temp = temp /\ g.cap = cap
        /\ g.elapsed = f.elapsed /\ g.grace = f.grace /\ g.texts = f.texts
        /\ g.canceledIds = f.canceledIds /\ g.temperatureIds = f.temperatureIds
    BY <2>1 DEF FrameType
  <2> HIDE DEF g
  <2>5. OwnIds(g)
    BY <2>4 DEF OwnIds
  <2>6. "submitting" \in Sending /\ cap = WaitCap(f.cap)
    BY DEF Sending, cap
  <2>7. Entered(j, below, f, g, "submitting")
    BY <1>1, <2>2, <2>3, <2>4, <2>5, <2>6 DEF Entered
  <2> QED
    BY <2>7
<1>2. CASE ~CanSubmit
  <2>1. Entered(j, below, f, f, "chunkSequential")
    BY <1>2 DEF EnterBatch, Goto, Entered
  <2> QED
    BY <2>1
<1> QED
  BY <1>1, <1>2

\* The registry's choice of the sequential path keeps them.
LEMMA ServeSequentiallyStep ==
    ASSUME TypeInv, NEW j \in Job, JobInv(j), ServeSequentially(j)
    PROVE  TypeInv' /\ JobInv(j)'
<1>1. /\ pc[j] = "asked" /\ Goto(j, "sequential") /\ pc[j] \notin Sending \cup Reading /\ pc[j] \notin Back
      /\ UNCHANGED <<results, frames, budgets, memo, history>>
  BY DEF ServeSequentially, Sending, Reading, Back
<1>2. /\ results[j] \in Seq(Reply) /\ frames[j] = <<>> /\ ResultsOK(pc[j], results[j])
  BY <1>1, StackIs
<1>3. results[j] = <<>>
  BY <1>1, <1>2 DEF ResultsOK
<1>4. "sequential" \notin Sending \cup Reading /\ "sequential" \in Label
  BY DEF Sending, Reading, Label
<1>5. Owed("sequential", results[j], frames[j]) \subseteq Owed(pc[j], results[j], frames[j])
  <2>1. Ahead(pc[j], results[j], <<>>) = {r \in Request : r > LastOf(results[j], <<>>)}
    BY <1>1 DEF Ahead
  <2>2. Ahead("sequential", results[j], <<>>) = Request
    BY <1>4 DEF Ahead
  <2>3. LastOf(results[j], <<>>) = 0
    BY <1>3 DEF LastOf
  <2>4. \A r \in Request : r > 0
    BY DEF Request
  <2> QED
    BY <1>2, <2>1, <2>2, <2>3, <2>4, Idle
<1>6. StackOK("sequential", results[j], frames[j]) /\ ResultsOK("sequential", results[j])
  BY <1>2, <1>4, IdleStack DEF ResultsOK
<1>7. \A r \in answered[j] : KeptAt(pc[j], results[j], frames[j], r) =>
                             KeptAt("sequential", results[j], frames[j], r)
  BY <1>1 DEF KeptAt
<1>8. Moves(j, "sequential", results[j], frames[j])
  BY <1>1, <1>2, <1>4, <1>5, <1>6, <1>7 DEF Moves, Goto, TypeInv, history
<1> QED
  BY <1>1, <1>8, MovesKeeps DEF TypeInv, budgets, memo, history

\* Two lists of replies joined.
LEMMA JoinLen ==
    ASSUME NEW s \in Seq(Reply), NEW t \in Seq(Reply)
    PROVE  /\ s \o t \in Seq(Reply) /\ Len(s \o t) = Len(s) + Len(t)
           /\ \A i \in 1..(Len(s) + Len(t)) : (s \o t)[i] = IF i <= Len(s) THEN s[i] ELSE t[i - Len(s)]
BY LenProperties, JoinIs

\* A stack of one call.
LEMMA OneCall ==
    ASSUME NEW g \in FrameType
    PROVE  /\ Append(<<>>, g) \in Seq(FrameType) /\ Len(Append(<<>>, g)) = 1
           /\ Append(<<>>, g)[1] = g /\ Append(<<>>, g) # <<>>
BY EmptySeq, AppendProperties

\* Opening the next chunk keeps them, as does declining what is left.
LEMMA NextChunkStep ==
    ASSUME TypeInv, NEW j \in Job, JobInv(j), NextChunk(j)
    PROVE  TypeInv' /\ JobInv(j)'
<1> DEFINE res == results[j]
           chunk == Chunk(j)
           n == Len(res)
           m == Len(chunk)
<1>1. /\ pc[j] \in {"asked", "chunking"} /\ pc[j] \notin Sending \cup Reading /\ pc[j] \notin Back
      /\ UNCHANGED <<budgets, memo, billed, answered, waited, fellBack>>
  BY DEF NextChunk, Sending, Reading, Back
<1>2. /\ res \in Seq(Reply) /\ frames[j] = <<>> /\ ResultsOK(pc[j], res) /\ n \in Nat
  BY <1>1, StackIs
<1>3. n <= N /\ \A i \in 1..n : Answers(res[i], i)
  BY <1>2 DEF ResultsOK
<1>4. /\ chunk \in Seq(Request) /\ m <= ChunkSize /\ n + m <= N
      /\ \A i \in 1..m : chunk[i] = n + i
      /\ chunk = <<>> => n = N
      /\ chunk # <<>> => m > 0
  BY <1>3, ChunkIs DEF TypeInv
<1>5. m \in Nat /\ DOMAIN chunk = 1..m
  BY <1>4, LenProperties
<1>6. Owed(pc[j], res, frames[j]) = {r \in Request : r > n}
  <2>1. LastOf(res, <<>>) = n
    BY <1>2, Idle
  <2> QED
    BY <1>1, <1>2, <2>1, Idle DEF Ahead
<1>7. \A r \in answered[j] : KeptAt(pc[j], res, frames[j], r) => r <= n /\ res[r].text = r
  BY <1>1 DEF KeptAt
<1>8. ASSUME Goto(j, "done"), chunk = <<>>, UNCHANGED <<results, frames>>
      PROVE  Moves(j, "done", res, <<>>)
  <2>1. "done" \notin Sending \cup Reading /\ "done" \in Label /\ <<>> \in Seq(FrameType)
    BY EmptySeq DEF Sending, Reading, Label
  <2>2. StackOK("done", res, <<>>) /\ ResultsOK("done", res)
    BY <1>3, <1>4, <1>8, <2>1, IdleStack DEF ResultsOK
  <2>3. Owed("done", res, <<>>) = {}
    BY <2>1, Idle DEF Ahead
  <2>4. \A r \in answered[j] : r <= n /\ res[r].text = r => KeptAt("done", res, <<>>, r)
    BY DEF KeptAt
  <2> QED
    BY <1>1, <1>2, <1>7, <1>8, <2>1, <2>2, <2>3, <2>4 DEF Moves, Goto, TypeInv
<1>9. ASSUME Decline(j, chunk), Goto(j, "chunking"), chunk # <<>>, UNCHANGED frames
      PROVE  Moves(j, "chunking", results'[j], <<>>) /\ results' = [results EXCEPT ![j] = results'[j]]
  <2> DEFINE more == [i \in DOMAIN chunk |-> Unavailable]
             res2 == res \o more
  <2>1. Unavailable \in Reply /\ \A r \in Request : Answers(Unavailable, r)
    <3>1. 1 \in Request /\ "dead" \in {"text", "EMPTY", "REFUSED", "dead", "canceled", "temperature"}
      BY Constants DEF Request
    <3> QED
      BY <3>1, ReplyIs
  <2>2. more \in Seq(Reply) /\ Len(more) = m
    <3>1. more \in [1..m -> Reply]
      BY <1>5, <2>1
    <3> QED
      BY <1>5, <3>1, IsSequence
  <2>3. \A i \in 1..m : more[i] = Unavailable
    BY <1>5
  <2> HIDE DEF more
  <2>4. /\ res2 \in Seq(Reply) /\ Len(res2) = n + m
        /\ \A i \in 1..(n + m) : res2[i] = IF i <= n THEN res[i] ELSE more[i - n]
    <3>1. /\ res \o more \in Seq(Reply) /\ Len(res \o more) = Len(res) + Len(more)
          /\ \A i \in 1..(Len(res) + Len(more)) :
                (res \o more)[i] = IF i <= Len(res) THEN res[i] ELSE more[i - Len(res)]
      <4> HIDE DEF res
      <4> QED
        BY <1>2, <2>2, JoinLen
    <3> QED
      BY <2>2, <3>1
  <2>5. results' = [results EXCEPT ![j] = res2]
    BY <1>9 DEF Decline, more
  <2>6. results'[j] = res2
    BY <2>5 DEF TypeInv
  <2> HIDE DEF res2, res, n, m, chunk
  <2>7. "chunking" \notin Sending \cup Reading /\ "chunking" \in Label /\ <<>> \in Seq(FrameType)
    BY EmptySeq DEF Sending, Reading, Label
  <2>8. \A i \in 1..(n + m) : Answers(res2[i], i)
    <3> SUFFICES ASSUME NEW i \in 1..(n + m) PROVE Answers(res2[i], i)
      OBVIOUS
    <3>1. CASE i <= n
      BY <1>2, <1>3, <2>4, <3>1 DEF n
    <3>2. CASE ~(i <= n)
      <4>1. i - n \in 1..m /\ i \in Request
        BY <1>2, <1>4, <1>5, <3>2, Constants DEF Request, n, m
      <4> QED
        BY <2>1, <2>3, <2>4, <3>2, <4>1
    <3> QED
      BY <3>1, <3>2
  <2>9. StackOK("chunking", res2, <<>>) /\ ResultsOK("chunking", res2)
    BY <1>4, <2>4, <2>7, <2>8, IdleStack DEF ResultsOK, n, m
  <2>10. Owed("chunking", res2, <<>>) \subseteq {r \in Request : r > n}
    <3>0. n + m \in Nat
      BY <1>2, <1>5 DEF n, m
    <3>1. LastOf(res2, <<>>) = n + m
      BY <2>4, <3>0, Idle
    <3>2. \A r \in Request : r > n + m => r > n
      BY <1>2, <1>5 DEF Request, n, m
    <3> QED
      BY <2>7, <3>1, <3>2, Idle DEF Ahead
  <2>11. \A r \in answered[j] : r <= n /\ res[r].text = r => KeptAt("chunking", res2, <<>>, r)
    <3> SUFFICES ASSUME NEW r \in answered[j], r <= n, res[r].text = r PROVE KeptAt("chunking", res2, <<>>, r)
      OBVIOUS
    <3>1. r \in Request
      BY StackIs
    <3>2. r \in 1..(n + m) /\ r <= n + m
      BY <1>2, <1>5, <3>1 DEF Request, n, m
    <3>3. res2[r] = res[r]
      BY <2>4, <3>2
    <3> QED
      BY <2>4, <3>2, <3>3 DEF KeptAt
  <2>12. Owed("chunking", res2, <<>>) \subseteq Owed(pc[j], results[j], frames[j])
    BY <1>6, <2>10 DEF res
  <2>13. \A r \in answered[j] : KeptAt(pc[j], results[j], frames[j], r) => KeptAt("chunking", res2, <<>>, r)
    BY <1>7, <2>11 DEF res
  <2>14. frames' = [frames EXCEPT ![j] = <<>>]
    BY <1>2, <1>9 DEF TypeInv
  <2>15. Moves(j, "chunking", res2, <<>>)
    BY <1>1, <1>9, <2>4, <2>5, <2>7, <2>9, <2>12, <2>13, <2>14 DEF Moves, Goto
  <2> QED
    BY <2>5, <2>6, <2>15
<1>10. ASSUME EnterBatch(j, <<>>, Frame(chunk, <<>>, TRUE, MaxWait)), chunk # <<>>, UNCHANGED results
       PROVE  Moves(j, pc'[j], res, frames'[j])
  <2> DEFINE g0 == Frame(chunk, <<>>, TRUE, MaxWait)
  <2>0. chunk \in Seq(Request) /\ <<>> \in Seq(Nat) /\ TRUE \in BOOLEAN /\ MaxWait \in Nat
    BY <1>4, Constants, EmptySeq
  <2>1. g0 \in FrameType /\ OwnIds(g0) /\ g0.temperatureIds = {} /\ g0.reqs = chunk
    <3>1. Fresh(g0, chunk, <<>>, TRUE, MaxWait)
      BY <2>0, FrameIs, Zenon
    <3> HIDE DEF g0
    <3> QED
      BY <3>1 DEF Fresh
  <2> HIDE DEF g0
  <2>2. PICK g, p : Entered(j, <<>>, g0, g, p)
    BY <1>10, <2>1, EnteredIs DEF g0
  <2> DEFINE fr == Append(<<>>, g)
  <2>3. OwnIds(g) /\ g.reqs = chunk
    BY <2>1, <2>2 DEF Entered
  <2>4. pc' = [pc EXCEPT ![j] = p] /\ frames' = [frames EXCEPT ![j] = fr]
    BY <2>2 DEF Entered
  <2>5. p \in Sending /\ p \in Label /\ g \in FrameType
    BY <2>2 DEF Label, Sending, Entered
  <2>6. fr \in Seq(FrameType) /\ Len(fr) = 1 /\ fr[1] = g /\ fr # <<>>
    BY <2>5, OneCall
  <2>7. pc'[j] = p /\ frames'[j] = fr
    BY <2>4 DEF TypeInv
  <2> HIDE DEF fr, res, n, m, chunk
  <2>8. ChunkOf(g, n)
    BY <1>4, <2>3 DEF ChunkOf, m
  <2>9. StackOK(p, res, fr)
    BY <2>5, <2>6, <2>8 DEF StackOK, Sending, Reading, n
  <2>10. ResultsOK(p, res)
    BY <1>3, <2>5 DEF ResultsOK, Sending, n
  <2>11. LastOf(res, fr) = n + m
    BY <2>3, <2>6 DEF LastOf, n, m
  <2>12. Owed(p, res, fr) \subseteq {r \in Request : r > n}
    <3>1. Ahead(p, res, fr) = {r \in Request : r > n + m}
      BY <2>5, <2>11 DEF Ahead
    <3>2. OwedBy(fr, p) \subseteq {chunk[i] : i \in 1..m}
      BY <2>3, <2>6 DEF OwedBy, OwedIn, m
    <3>3. \A i \in 1..m : chunk[i] \in Request /\ chunk[i] > n
      BY <1>2, <1>4, <1>5, ElementOfSeq DEF n, m
    <3>4. \A r \in Request : r > n + m => r > n
      BY <1>2, <1>5 DEF Request, n, m
    <3> QED
      BY <3>1, <3>2, <3>3, <3>4 DEF Owed
  <2>13. \A r \in answered[j] : r <= n /\ res[r].text = r => KeptAt(p, res, fr, r)
    BY DEF KeptAt, n
  <2>14. Moves(j, p, res, fr)
    BY <1>1, <1>2, <1>6, <1>7, <1>10, <2>4, <2>5, <2>6, <2>9, <2>10, <2>12, <2>13 DEF Moves, TypeInv, res
  <2> QED
    BY <2>7, <2>14
<1>11. \E p, r2, fr : Moves(j, p, r2, fr)
  BY <1>8, <1>9, <1>10 DEF NextChunk
<1> QED
  BY <1>1, <1>11, MovesKeeps DEF TypeInv, budgets, memo

\* The chunk whose refused requests are about to run again, on its own without a temperature.
LEMMA RerunStack ==
    ASSUME TypeInv, NEW j \in Job, JobInv(j), pc[j] = "settling", Top(j).temperatureIds # {}
    PROVE  LET f == Top(j)
               h == [f EXCEPT !.temperatureIds = {}]
           IN  /\ Len(frames[j]) = 1 /\ frames[j][1] = f /\ frames[j] # <<>>
               /\ h \in FrameType /\ h.reqs = f.reqs /\ h.texts = f.texts
               /\ h.canceledIds = f.canceledIds /\ h.temperatureIds = {}
               /\ h.temp = f.temp
<1> DEFINE f == Top(j)
           h == [f EXCEPT !.temperatureIds = {}]
<1>1. pc[j] \in Sending \cup Reading
  BY DEF Reading
<1>2. f \in FrameType /\ Len(frames[j]) \in {1, 2} /\ OwnIds(f) /\ (Len(frames[j]) = 2 => ~f.temp)
  BY <1>1, TopIs
<1>3. Len(frames[j]) = 1
  BY <1>2 DEF OwnIds
<1>4. frames[j][1] = f
  BY <1>3 DEF Top
<1>5. frames[j] # <<>>
  BY <1>1, StackIs
<1>6. /\ h \in FrameType /\ h.reqs = f.reqs /\ h.texts = f.texts /\ h.temp = f.temp
      /\ h.canceledIds = f.canceledIds /\ h.temperatureIds = {}
  <2> HIDE DEF f
  <2> QED
    BY <1>2 DEF FrameType
<1> QED
  BY <1>3, <1>4, <1>5, <1>6

\* A stack of two calls.
LEMMA TwoCalls ==
    ASSUME NEW s \in Seq(FrameType), Len(s) = 1, NEW g \in FrameType
    PROVE  /\ Append(s, g) \in Seq(FrameType) /\ Len(Append(s, g)) = 2 /\ Append(s, g) # <<>>
           /\ Append(s, g)[1] = s[1] /\ Append(s, g)[2] = g
<1>1. /\ Append(s, g) \in Seq(FrameType) /\ Len(Append(s, g)) = Len(s) + 1
      /\ Append(s, g)[Len(s) + 1] = g
  <2> DEFINE longer == Append(s, g)
  <2>1. longer \in Seq(FrameType) /\ Len(longer) = Len(s) + 1 /\ longer[Len(s) + 1] = g
    BY AppendProperties, Zenon
  <2> QED
    BY <2>1
<1>2. Append(s, g)[1] = s[1]
  BY AppendProperties
<1>3. /\ Append(s, g) \in Seq(FrameType) /\ Len(Append(s, g)) = 2
      /\ Append(s, g)[1] = s[1] /\ Append(s, g)[2] = g
  BY <1>1, <1>2
<1>4. Append(s, g) # <<>>
  BY <1>3
<1> QED
  BY <1>3, <1>4

\* A re-run keeps them: its requests are owed again, by the call on top.
LEMMA RerunWithoutTemperatureStep ==
    ASSUME TypeInv, NEW j \in Job, JobInv(j), RerunWithoutTemperature(j)
    PROVE  TypeInv' /\ JobInv(j)'
<1> DEFINE f == Top(j)
           h == [f EXCEPT !.temperatureIds = {}]
           ids == f.temperatureIds
           again == Ascending(ids)
           asked == At(f.reqs, again)
           g0 == Frame(asked, again, FALSE, f.cap)
           below == Replaced(frames[j], h)
           res == results[j]
           n == Len(res)
<1>1. /\ pc[j] = "settling" /\ ids # {} /\ noTemp' = TRUE
      /\ EnterBatch(j, below, g0)
      /\ UNCHANGED <<results, budgets, refuses, history>>
  BY DEF RerunWithoutTemperature, Rerun, Replaced, Top
<1>2. pc[j] \in Sending \cup Reading /\ pc[j] \notin Back /\ pc[j] \in Reading
  BY <1>1 DEF Reading, Back
<1>3. /\ f \in FrameType /\ OwnIds(f) /\ Complete(f) /\ f.reqs \in Seq(Request) /\ Len(f.reqs) \in Nat
  BY <1>2, TopIs
<1>4. /\ Len(frames[j]) = 1 /\ frames[j][1] = f /\ frames[j] # <<>>
      /\ h \in FrameType /\ h.reqs = f.reqs /\ h.texts = f.texts
      /\ h.canceledIds = f.canceledIds /\ h.temperatureIds = {} /\ h.temp = f.temp
  BY <1>1, RerunStack
<1>5. /\ res \in Seq(Reply) /\ frames[j] \in Seq(FrameType) /\ StackOK(pc[j], res, frames[j])
      /\ ResultsOK(pc[j], res) /\ n \in Nat /\ answered[j] \in SUBSET Request
  BY StackIs
<1>6. below \in Seq(FrameType) /\ Len(below) = 1 /\ below[1] = h
  <2> HIDE DEF h, f
  <2> QED
    BY <1>4, <1>5, ReplacedIs
<1>7. ids \in SUBSET (1..Len(f.reqs)) /\ ids \cap f.canceledIds = {} /\ f.cap \in Nat
  BY <1>3 DEF OwnIds, FrameType
<1>8. /\ again \in Seq(Nat) /\ asked \in Seq(Request) /\ Len(again) = Len(asked)
      /\ \A m \in 1..Len(again) : again[m] \in ids /\ asked[m] = f.reqs[again[m]]
      /\ \A m, k \in 1..Len(again) : again[m] = again[k] => m = k
  <2> HIDE DEF f, ids
  <2> QED
    BY <1>3, <1>7, AtIs
<1>9. Fresh(g0, asked, again, FALSE, f.cap)
  <2>1. FALSE \in BOOLEAN
    OBVIOUS
  <2> HIDE DEF asked, again, f
  <2> QED
    BY <1>7, <1>8, <2>1, FrameIs, Zenon
<1> HIDE DEF g0, h, below, asked, again, ids, f
<1>10. PICK g, p : Entered(j, below, g0, g, p)
  <2>1. g0 \in FrameType /\ OwnIds(g0) /\ g0.temperatureIds = {}
    BY <1>9 DEF Fresh
  <2> QED
    BY <1>1, <2>1, EnteredIs
<1>11. /\ g \in FrameType /\ OwnIds(g) /\ g.reqs = asked /\ g.fills = again /\ ~g.temp
       /\ pc' = [pc EXCEPT ![j] = p] /\ frames' = [frames EXCEPT ![j] = Append(below, g)]
       /\ p \in {"submitting", "chunkSequential"}
  BY <1>9, <1>10 DEF Entered, Fresh
<1>12. p \in Sending /\ p \in Label /\ p \notin Reading
  BY <1>11 DEF Sending, Label, Reading
<1> DEFINE fr == Append(below, g)
<1>13. fr \in Seq(FrameType) /\ Len(fr) = 2 /\ fr[1] = h /\ fr[2] = g /\ fr # <<>>
  BY <1>6, <1>11, TwoCalls
<1> HIDE DEF fr, res, n
<1>14. ChunkOf(f, n)
  BY <1>4, <1>5 DEF StackOK, n
<1>15. StackOK(p, res, fr)
  <2>1. OwnIds(h)
    BY <1>3, <1>4, <1>7 DEF OwnIds
  <2>2. ChunkOf(h, n)
    BY <1>4, <1>14, <2>1 DEF ChunkOf
  <2>3. Complete(h)
    BY <1>3, <1>4 DEF Complete
  <2>4. \A m \in 1..Len(g.reqs) : /\ g.fills[m] \in 1..Len(h.reqs) \ h.canceledIds
                                  /\ g.reqs[m] = h.reqs[g.fills[m]]
    BY <1>4, <1>7, <1>8, <1>11
  <2>5. RerunOf(g, h)
    BY <1>4, <1>8, <1>11, <2>3, <2>4 DEF RerunOf
  <2> QED
    BY <1>11, <1>12, <1>13, <2>2, <2>5 DEF StackOK, n
<1>16. ResultsOK(p, res)
  BY <1>5, <1>11 DEF ResultsOK
<1>17. LastOf(res, fr) = LastOf(res, frames[j])
  BY <1>4, <1>13 DEF LastOf
<1>18. Owed(p, res, fr) \subseteq Owed(pc[j], results[j], frames[j])
  <2>1. Ahead(p, res, fr) = Ahead(pc[j], results[j], frames[j])
    BY <1>2, <1>12, <1>17 DEF Ahead, res
  <2>2. OwedBy(fr, p) \subseteq OwedBy(frames[j], pc[j])
    <3>1. OwedBy(frames[j], pc[j]) = {f.reqs[i] : i \in OwedIn(f, "settling")}
      BY <1>1, <1>4 DEF OwedBy
    <3>2. OwedBy(fr, p) = {asked[i] : i \in OwedIn(g, p)} \cup {f.reqs[i] : i \in f.canceledIds}
      BY <1>4, <1>11, <1>13 DEF OwedBy
    <3>3. \A i \in OwedIn(g, p) : i \in 1..Len(again)
      BY <1>8, <1>11 DEF OwedIn
    <3>4. OwedIn(f, "settling") = {i \in 1..Len(f.reqs) : i \in f.temperatureIds \cup f.canceledIds}
      BY DEF OwedIn, Sending
    <3>5. ids \subseteq OwedIn(f, "settling") /\ f.canceledIds \subseteq OwedIn(f, "settling")
      BY <1>3, <3>4 DEF OwnIds, ids
    <3> QED
      BY <1>8, <3>1, <3>2, <3>3, <3>5
  <2> QED
    BY <2>1, <2>2 DEF Owed
<1>19. \A r \in answered[j] :
          r \notin Owed(pc[j], results[j], frames[j]) /\ KeptAt(pc[j], results[j], frames[j], r)
             => KeptAt(p, res, fr, r)
  <2> SUFFICES ASSUME NEW r \in answered[j], r \notin Owed(pc[j], results[j], frames[j]),
                      KeptAt(pc[j], results[j], frames[j], r), ~(r <= n)
               PROVE  KeptAt(p, res, fr, r)
    BY DEF KeptAt, n, res
  <2> DEFINE i == r - n
  <2>1. r \in Nat
    BY <1>5 DEF Request
  <2>2. r <= LastOf(res, frames[j]) /\ i <= Len(f.texts) /\ f.texts[i].text = r
    <3>1. ~InRerun(frames[j], i)
      BY <1>4 DEF InRerun
    <3> QED
      BY <1>4, <3>1 DEF KeptAt, n, res
  <2>3. i \in 1..Len(f.reqs)
    <3>1. LastOf(res, frames[j]) = n + Len(f.reqs)
      BY <1>4 DEF LastOf, n
    <3> QED
      <4>1. n \in Nat /\ Len(f.reqs) \in Nat /\ r <= n + Len(f.reqs)
        BY <1>3, <1>5, <2>2, <3>1 DEF n, res
      <4> QED
        BY <2>1, <4>1
  <2>4. f.reqs[i] = r
    BY <1>5, <1>14, <2>1, <2>3 DEF ChunkOf, n, res
  <2>5. i \notin ids
    <3>1. OwedBy(frames[j], pc[j]) = {f.reqs[k] : k \in OwedIn(f, "settling")}
      BY <1>1, <1>4 DEF OwedBy
    <3>2. i \in ids => i \in OwedIn(f, "settling")
      BY <2>3 DEF OwedIn, ids
    <3> QED
      BY <2>4, <3>1, <3>2 DEF Owed
  <2>6. ~InRerun(fr, i)
    BY <1>8, <1>11, <1>13, <2>5 DEF InRerun
  <2> HIDE DEF i
  <2>7. i <= Len(h.texts) /\ h.texts[i].text = r
    BY <1>4, <2>2
  <2> QED
    BY <1>12, <1>13, <1>17, <2>2, <2>6, <2>7 DEF KeptAt, i, n
<1>20. Moves(j, p, res, fr)
  BY <1>1, <1>5, <1>11, <1>12, <1>13, <1>15, <1>16, <1>18, <1>19 DEF Moves, TypeInv, res, fr, history
<1> QED
  BY <1>1, <1>2, <1>20, MovesKeeps DEF TypeInv, budgets, history

\* The stack under the top call.
LEMMA BelowIs ==
    ASSUME NEW fr \in Seq(FrameType), fr # <<>>, Len(fr) \in {1, 2}
    PROVE  /\ Front(fr) = <<>> <=> Len(fr) = 1
           /\ Len(fr) = 2 => Front(fr) \in Seq(FrameType) /\ Len(Front(fr)) = 1 /\ Front(fr)[1] = fr[1]
<1>1. CASE Len(fr) = 1
  <2>1. Front(fr) = <<>>
    BY <1>1, SubSeqEmpty DEF Front
  <2> QED
    BY <1>1, <2>1
<1>2. CASE Len(fr) = 2
  <2>1. \A i \in 1..1 : fr[i] \in FrameType
    BY <1>2, ElementOfSeq
  <2>2. /\ SubSeq(fr, 1, 1) \in Seq(FrameType) /\ Len(SubSeq(fr, 1, 1)) = 1
        /\ SubSeq(fr, 1, 1)[1] = fr[1]
    BY <2>1, SubSeqProperties
  <2>3. Front(fr) = SubSeq(fr, 1, 1)
    BY <1>2 DEF Front
  <2>4. Front(fr) # <<>>
    BY <2>2, <2>3
  <2> QED
    BY <1>2, <2>2, <2>3, <2>4
<1> QED
  BY <1>1, <1>2

\* A chunk is done: its replies follow the results.
LEMMA ReturnChunk ==
    ASSUME TypeInv, NEW j \in Job, JobInv(j), Return(j), Front(frames[j]) = <<>>
    PROVE  \E res2 : Moves(j, "chunking", res2, <<>>)
<1> DEFINE f == Top(j)
           fr == frames[j]
           res == results[j]
           n == Len(res)
           m == Len(f.reqs)
           res2 == res \o f.texts
<1>1. pc[j] = "returning" /\ pc[j] \in Reading /\ pc[j] \in Sending \cup Reading /\ pc[j] \notin Sending
  BY DEF Return, Reading, Sending
<1>2. /\ UNCHANGED <<billed, answered, fellBack>> /\ Goto(j, "chunking")
      /\ results' = [results EXCEPT ![j] = res2] /\ frames' = [frames EXCEPT ![j] = <<>>]
  BY DEF Return, history
<1>3. /\ f \in FrameType /\ Complete(f) /\ m \in Nat /\ Len(fr) \in {1, 2}
  BY <1>1, TopIs
<1>4. /\ res \in Seq(Reply) /\ fr \in Seq(FrameType) /\ fr # <<>> /\ n \in Nat
      /\ StackOK(pc[j], res, fr) /\ ResultsOK(pc[j], res) /\ answered[j] \in SUBSET Request
  BY <1>1, StackIs
<1>5. Len(fr) = 1 /\ fr[1] = f
  <2>1. Len(fr) = 1
    BY <1>3, <1>4, BelowIs
  <2> QED
    BY <2>1 DEF Top
<1>6. ChunkOf(f, n)
  BY <1>4, <1>5 DEF StackOK
<1>7. /\ f.texts \in Seq(Reply) /\ Len(f.texts) = m /\ n + m <= N /\ n <= N
      /\ \A i \in 1..m : Answers(f.texts[i], n + i)
      /\ \A i \in 1..n : Answers(res[i], i)
  BY <1>3, <1>4, <1>6 DEF FrameType, Complete, ChunkOf, ResultsOK
<1>8. /\ res2 \in Seq(Reply) /\ Len(res2) = n + m
      /\ \A i \in 1..(n + m) : res2[i] = IF i <= n THEN res[i] ELSE f.texts[i - n]
  <2>1. /\ res \o f.texts \in Seq(Reply) /\ Len(res \o f.texts) = Len(res) + Len(f.texts)
        /\ \A i \in 1..(Len(res) + Len(f.texts)) :
              (res \o f.texts)[i] = IF i <= Len(res) THEN res[i] ELSE f.texts[i - Len(res)]
    <3> HIDE DEF res, f
    <3> QED
      BY <1>4, <1>7, JoinLen
  <2> QED
    BY <1>7, <2>1
<1>9. LastOf(res, fr) = n + m
  BY <1>4, <1>5 DEF LastOf
<1> HIDE DEF res2, res, n, m, f, fr
<1>10. "chunking" \notin Sending \cup Reading /\ "chunking" \in Label /\ <<>> \in Seq(FrameType)
  BY EmptySeq DEF Sending, Reading, Label
<1>11. \A i \in 1..(n + m) : Answers(res2[i], i)
  <2> SUFFICES ASSUME NEW i \in 1..(n + m) PROVE Answers(res2[i], i)
    OBVIOUS
  <2>1. CASE i <= n
    BY <1>4, <1>7, <1>8, <2>1 DEF n
  <2>2. CASE ~(i <= n)
    <3>1. i - n \in 1..m /\ n + (i - n) = i
      BY <1>3, <1>4, <2>2 DEF n, m
    <3> QED
      BY <1>7, <1>8, <2>2, <3>1
  <2> QED
    BY <2>1, <2>2
<1>12. StackOK("chunking", res2, <<>>) /\ ResultsOK("chunking", res2)
  BY <1>7, <1>8, <1>10, <1>11, IdleStack DEF ResultsOK
<1>13. LastOf(res2, <<>>) = n + m
  <2>1. n + m \in Nat
    BY <1>3, <1>4 DEF n, m
  <2> QED
    BY <1>8, <2>1, Idle
<1>14. Owed("chunking", res2, <<>>) \subseteq Owed(pc[j], res, fr)
  <2>1. Ahead("chunking", res2, <<>>) = Ahead(pc[j], res, fr)
    BY <1>1, <1>9, <1>13 DEF Ahead
  <2> QED
    BY <2>1, Idle DEF Owed
<1>15. \A r \in answered[j] : KeptAt(pc[j], res, fr, r) => KeptAt("chunking", res2, <<>>, r)
  <2> SUFFICES ASSUME NEW r \in answered[j], KeptAt(pc[j], res, fr, r) PROVE KeptAt("chunking", res2, <<>>, r)
    OBVIOUS
  <2>1. r \in Nat /\ r > 0
    BY <1>4 DEF Request
  <2>2. r <= n + m /\ res2[r].text = r
    <3>1. CASE r <= n
      <4>1. res[r].text = r
        BY <3>1 DEF KeptAt, n
      <4>2. r \in 1..(n + m) /\ r <= n + m
        BY <1>3, <1>4, <2>1, <3>1 DEF n, m
      <4> QED
        BY <1>8, <3>1, <4>1, <4>2
    <3>2. CASE ~(r <= n)
      <4>1. ~InRerun(fr, r - n)
        BY <1>5 DEF InRerun
      <4>2. r <= n + m /\ f.texts[r - n].text = r
        BY <1>5, <1>9, <3>2, <4>1 DEF KeptAt, n
      <4>3. r \in 1..(n + m)
        BY <1>3, <1>4, <2>1, <4>2 DEF n, m
      <4> QED
        BY <1>8, <3>2, <4>2, <4>3
    <3> QED
      BY <3>1, <3>2
  <2> QED
    BY <1>8, <2>2 DEF KeptAt
<1>16. Moves(j, "chunking", res2, <<>>)
  BY <1>1, <1>2, <1>8, <1>10, <1>12, <1>14, <1>15 DEF Moves, Goto, res, fr
<1> QED
  BY <1>16

\* A re-run is done: its replies fill the places of the chunk they were asked for.
LEMMA ReturnRerun ==
    ASSUME TypeInv, NEW j \in Job, JobInv(j), Return(j), Front(frames[j]) # <<>>
    PROVE  \E fr2 : Moves(j, "settling", results[j], fr2)
<1> DEFINE g == Top(j)
           fr == frames[j]
           f == fr[1]
           res == results[j]
           n == Len(res)
           m == Len(f.reqs)
           c == Len(g.reqs)
           texts == Fill(f.texts, g.fills, g.texts)
           h == [f EXCEPT !.texts = texts]
           fr2 == Replaced(Front(fr), h)
<1>1. pc[j] = "returning" /\ pc[j] \in Reading /\ pc[j] \in Sending \cup Reading /\ pc[j] \notin Sending
  BY DEF Return, Reading, Sending
<1>2. /\ g \in FrameType /\ Complete(g) /\ c \in Nat /\ Len(fr) \in {1, 2}
  BY <1>1, TopIs
<1>3. /\ res \in Seq(Reply) /\ fr \in Seq(FrameType) /\ fr # <<>> /\ n \in Nat
      /\ StackOK(pc[j], res, fr) /\ ResultsOK(pc[j], res) /\ answered[j] \in SUBSET Request
  BY <1>1, StackIs
<1>4. Len(fr) = 2 /\ fr[2] = g /\ f \in FrameType
  <2>1. Len(fr) = 2
    BY <1>2, <1>3, BelowIs
  <2> QED
    BY <1>3, <2>1, ElementOfSeq DEF Top
<1>5. Front(fr) \in Seq(FrameType) /\ Len(Front(fr)) = 1 /\ Front(fr)[1] = f
  BY <1>2, <1>3, <1>4, BelowIs
<1>6. /\ UNCHANGED <<results, billed, answered, fellBack>> /\ Goto(j, "settling")
      /\ frames' = [frames EXCEPT ![j] = fr2]
  <2>1. Front(fr) # <<>>
    OBVIOUS
  <2> QED
    BY <1>5, <2>1 DEF Return, history, Replaced
<1>7. ChunkOf(f, n) /\ RerunOf(g, f)
  BY <1>3, <1>4 DEF StackOK
<1> HIDE DEF texts, h, fr2, g, f, fr, res
<1>8. /\ Len(g.fills) = c /\ Len(g.texts) = c /\ Len(f.texts) = m /\ f.temperatureIds = {}
      /\ f.texts \in Seq(Reply) /\ g.texts \in Seq(Reply) /\ g.fills \in Seq(Nat) /\ m \in Nat
      /\ \A k \in 1..c : g.fills[k] \in 1..m \ f.canceledIds /\ g.reqs[k] = f.reqs[g.fills[k]]
      /\ \A k, l \in 1..c : g.fills[k] = g.fills[l] => k = l
      /\ \A k \in 1..c : Answers(g.texts[k], g.reqs[k])
      /\ \A i \in 1..m : Answers(f.texts[i], f.reqs[i])
  <2>1. /\ f.texts \in Seq(Reply) /\ g.texts \in Seq(Reply) /\ g.fills \in Seq(Nat) /\ m \in Nat
    BY <1>2, <1>4, LenProperties DEF FrameType
  <2> QED
    BY <1>2, <1>7, <2>1 DEF RerunOf, Complete
<1>9. /\ texts \in Seq(Reply) /\ Len(texts) = m
      /\ \A k \in 1..c : texts[g.fills[k]] = g.texts[k]
      /\ \A i \in 1..m : (\A k \in 1..c : g.fills[k] # i) => texts[i] = f.texts[i]
  <2>1. Len(g.fills) <= Len(g.texts)
    BY <1>2, <1>8
  <2>2. Fillable(Reply, f.texts, g.fills, g.texts)
    <3> HIDE DEF c, m
    <3> QED
      BY <1>8, <2>1 DEF Fillable
  <2>3. LET t == Fill(f.texts, g.fills, g.texts) IN
        /\ t \in Seq(Reply) /\ Len(t) = Len(f.texts)
        /\ \A k \in 1..Len(g.fills) : g.fills[k] \in 1..Len(f.texts) => t[g.fills[k]] = g.texts[k]
        /\ \A i \in 1..Len(f.texts) : (\A k \in 1..Len(g.fills) : g.fills[k] # i) => t[i] = f.texts[i]
    BY <2>2, FillIs
  <2>4. texts = Fill(f.texts, g.fills, g.texts)
    BY DEF texts
  <2>5. \A k \in 1..c : g.fills[k] \in 1..m
    BY <1>8
  <2> HIDE DEF c, m
  <2> QED
    BY <1>8, <2>3, <2>4, <2>5
<1>10. /\ h \in FrameType /\ h.reqs = f.reqs /\ h.texts = texts /\ h.canceledIds = f.canceledIds
       /\ h.temperatureIds = f.temperatureIds /\ h.temp = f.temp
  BY <1>4, <1>9 DEF FrameType, h
<1>11. fr2 \in Seq(FrameType) /\ Len(fr2) = 1 /\ fr2[1] = h /\ fr2 # <<>>
  <2>1. Front(fr) # <<>>
    BY <1>5
  <2> QED
    BY <1>5, <1>10, <2>1, ReplacedIs DEF fr2
<1>12. "settling" \in Reading /\ "settling" \in Label /\ "settling" \notin Sending
  BY DEF Reading, Label, Sending
<1>13. \A i \in 1..m : Answers(texts[i], f.reqs[i])
  <2> SUFFICES ASSUME NEW i \in 1..m PROVE Answers(texts[i], f.reqs[i])
    OBVIOUS
  <2>1. CASE \E k \in 1..c : g.fills[k] = i
    <3>1. PICK k \in 1..c : g.fills[k] = i
      BY <2>1
    <3> QED
      BY <1>8, <1>9, <3>1
  <2>2. CASE ~\E k \in 1..c : g.fills[k] = i
    BY <1>8, <1>9, <2>2
  <2> QED
    BY <2>1, <2>2
<1>14. StackOK("settling", res, fr2)
  <2>1. Complete(h)
    BY <1>9, <1>10, <1>13 DEF Complete, m
  <2>2. OwnIds(h) /\ ChunkOf(h, n)
    BY <1>7, <1>10 DEF ChunkOf, OwnIds
  <2> QED
    BY <1>11, <1>12, <2>1, <2>2 DEF StackOK, n
<1>15. ResultsOK("settling", res)
  BY <1>3 DEF ResultsOK
<1>16. LastOf(res, fr2) = LastOf(res, fr) /\ LastOf(res, fr) = n + m
  BY <1>3, <1>10, <1>11 DEF LastOf, n, m, f
<1>17. Owed("settling", res, fr2) \subseteq Owed(pc[j], res, fr)
  <2>1. Ahead("settling", res, fr2) = Ahead(pc[j], res, fr)
    BY <1>1, <1>12, <1>16 DEF Ahead
  <2>2. OwedBy(fr2, "settling") = {h.reqs[i] : i \in OwedIn(h, "settling")}
    BY <1>11 DEF OwedBy
  <2>3. OwedIn(h, "settling") \subseteq f.canceledIds
    BY <1>8, <1>10, <1>12 DEF OwedIn
  <2>4. {f.reqs[i] : i \in f.canceledIds} \subseteq OwedBy(fr, pc[j])
    BY <1>3, <1>4 DEF OwedBy, f
  <2> QED
    BY <1>10, <2>1, <2>2, <2>3, <2>4 DEF Owed
<1>18. \A r \in answered[j] : KeptAt(pc[j], res, fr, r) => KeptAt("settling", res, fr2, r)
  <2> SUFFICES ASSUME NEW r \in answered[j], KeptAt(pc[j], res, fr, r), ~(r <= n)
               PROVE  KeptAt("settling", res, fr2, r)
    BY DEF KeptAt, n
  <2> DEFINE i == r - n
  <2>1. r \in Nat /\ r <= LastOf(res, fr)
    BY <1>3 DEF Request, KeptAt, n
  <2>2. i \in 1..m /\ i <= m
    <3>1. m \in Nat /\ n \in Nat /\ r <= n + m
      BY <1>3, <1>8, <1>16, <2>1
    <3> HIDE DEF m, n
    <3> QED
      BY <2>1, <3>1
  <2>3. texts[i].text = r
    <3>1. CASE InRerun(fr, i)
      <4>1. PICK k \in 1..Len(g.texts) : k <= Len(g.reqs) /\ g.fills[k] = i /\ g.texts[k].text = r
        BY <1>4, <3>1 DEF KeptAt, n
      <4>2. k \in 1..c
        BY <1>8, <4>1
      <4> QED
        BY <1>9, <4>1, <4>2
    <3>2. CASE ~InRerun(fr, i)
      <4>1. f.texts[i].text = r
        BY <3>2 DEF KeptAt, n, f
      <4>2. \A k \in 1..c : g.fills[k] # i
        BY <1>4, <3>2 DEF InRerun
      <4> QED
        BY <1>9, <2>2, <4>1, <4>2
    <3> QED
      BY <3>1, <3>2
  <2>4. ~InRerun(fr2, i)
    BY <1>11 DEF InRerun
  <2> HIDE DEF i
  <2>5. i <= Len(h.texts) /\ h.texts[i].text = r
    BY <1>9, <1>10, <2>2, <2>3
  <2> QED
    BY <1>11, <1>12, <1>16, <2>1, <2>4, <2>5 DEF KeptAt, i, n
<1>19. Moves(j, "settling", res, fr2)
  BY <1>3, <1>6, <1>11, <1>12, <1>14, <1>15, <1>17, <1>18 DEF Moves, Goto, TypeInv, res, fr
<1> QED
  BY <1>19 DEF res

\* Returning from a call keeps them.
LEMMA ReturnStep ==
    ASSUME TypeInv, NEW j \in Job, JobInv(j), Return(j)
    PROVE  TypeInv' /\ JobInv(j)'
<1>1. \E p, res2, fr2 : Moves(j, p, res2, fr2)
  BY ReturnChunk, ReturnRerun
<1>2. pc[j] \notin Back /\ UNCHANGED <<budgets, memo, history>>
  BY DEF Return, Back
<1> QED
  BY <1>1, <1>2, MovesKeeps DEF TypeInv, budgets, memo, history

\* A set that starts over: nothing is out, and what was billed by this step was owed.
LEMMA FallsBack ==
    ASSUME TypeInv, NEW j \in Job, JobInv(j), pc[j] \in Sending \cup Reading, FallBack(j),
           NEW route \in {"batch", "sequential"}, NEW hit \in SUBSET OwedIn(Top(j), pc[j]),
           billed' \in [Job -> Bills],
           BilledFor(billed[j], billed'[j], route, HitBy(Top(j).reqs, hit))
    PROVE  /\ JobInv(j)' /\ pc' \in [Job -> Label] /\ results' \in [Job -> Seq(Reply)]
           /\ frames' \in [Job -> Seq(FrameType)] /\ fellBack' \in SUBSET Job
<1> DEFINE b == billed[j]
           b2 == billed'[j]
           H == HitBy(Top(j).reqs, hit)
<1>1. /\ results' = [results EXCEPT ![j] = <<>>] /\ frames' = [frames EXCEPT ![j] = <<>>]
      /\ fellBack' = fellBack \cup {j} /\ pc' = [pc EXCEPT ![j] = "sequential"]
  BY DEF FallBack, Goto
<1>2. "sequential" \in Label /\ <<>> \in Seq(Reply) /\ <<>> \in Seq(FrameType) /\ Len(<<>>) = 0
  BY EmptySeq DEF Label
<1>3. /\ pc' \in [Job -> Label] /\ results' \in [Job -> Seq(Reply)]
      /\ frames' \in [Job -> Seq(FrameType)] /\ fellBack' \in SUBSET Job
  BY <1>1, <1>2 DEF TypeInv
<1>4. pc'[j] = "sequential" /\ results'[j] = <<>> /\ frames'[j] = <<>> /\ j \in fellBack'
  BY <1>1 DEF TypeInv
<1>5. /\ frames[j] \in Seq(FrameType) /\ frames[j] # <<>> /\ results[j] \in Seq(Reply)
      /\ StackOK(pc[j], results[j], frames[j]) /\ pc[j] \notin Back /\ b \in Bills
  BY StackIs
<1>6. BilledOK(pc[j], results[j], frames[j], b, FALSE)
  BY <1>5, NotBack
<1>7. H \subseteq Owed(pc[j], results[j], frames[j])
  <2>1. H \subseteq HitBy(Top(j).reqs, OwedIn(Top(j), pc[j]))
    BY DEF HitBy
  <2>2. HitBy(Top(j).reqs, OwedIn(Top(j), pc[j])) \subseteq Owed(pc[j], results[j], frames[j])
    BY <1>5, OwedIs DEF Top
  <2> QED
    BY <2>1, <2>2
<1>8. /\ \A r \in Request : b.batch[r] + b.sequential[r] <= 1
      /\ \A r \in H : b.batch[r] = 0 /\ b.sequential[r] = 0
  BY <1>6, <1>7 DEF BilledOK, Owed
<1> HIDE DEF H
<1>9. \A r \in Request : b2.batch[r] <= 1 /\ b2.sequential[r] <= 1
  <2> SUFFICES ASSUME NEW r \in Request PROVE b2.batch[r] <= 1 /\ b2.sequential[r] <= 1
    OBVIOUS
  <2>1. b.batch[r] \in Nat /\ b.sequential[r] \in Nat
    BY <1>5 DEF Bills
  <2>2. b.batch[r] <= 1 /\ b.sequential[r] <= 1
    BY <1>8, <2>1
  <2>3. /\ b2[route][r] = IF r \in H THEN b[route][r] + 1 ELSE b[route][r]
        /\ route = "batch" => b2.sequential = b.sequential
        /\ route = "sequential" => b2.batch = b.batch
    BY DEF BilledFor, H
  <2>4. b2[route][r] <= 1
    BY <1>8, <2>1, <2>2, <2>3
  <2>5. CASE route = "batch"
    BY <2>2, <2>3, <2>4, <2>5
  <2>6. CASE route = "sequential"
    BY <2>2, <2>3, <2>4, <2>6
  <2> QED
    BY <2>5, <2>6
<1>10. StackOK("sequential", <<>>, <<>>)
  <2>1. "sequential" \notin Sending \cup Reading
    BY DEF Sending, Reading
  <2> QED
    BY <2>1, IdleStack
<1>11. ResultsOK("sequential", <<>>)
  BY <1>2, Constants DEF ResultsOK
<1>12. BilledOK("sequential", <<>>, <<>>, b2, TRUE) /\ PaidOK("sequential", <<>>, <<>>, b2, answered'[j], TRUE)
  BY <1>9 DEF BilledOK, PaidOK
<1>13. JobInv(j)'
  <2>1. (j \in fellBack') = TRUE
    BY <1>4
  <2> QED
    BY <1>4, <1>10, <1>11, <1>12, <2>1 DEF JobInv
<1> QED
  BY <1>3, <1>13

\* An SDK error outside the calls it is caught in keeps them.
LEMMA BatchRaisesStep ==
    ASSUME TypeInv, NEW j \in Job, JobInv(j), BatchRaises(j)
    PROVE  TypeInv' /\ JobInv(j)'
<1> DEFINE f == Top(j)
           n == Len(f.reqs)
<1>1. /\ pc[j] \in Sending /\ FallBack(j) /\ waits' = waits \ {j}
      /\ UNCHANGED <<spentSeconds, memo, answered, waited>>
  BY DEF BatchRaises, SdkRaises, Sending
<1>2. n \in Nat /\ DOMAIN f.reqs = 1..n
  BY <1>1, TopIs
<1>3. PICK hit \in SUBSET (1..n) : Bill(j, f.reqs, hit, "batch")
  BY <1>2 DEF BatchRaises, SdkRaises
<1>4. IsFiniteSet(hit) /\ "batch" \in {"batch", "sequential"}
  <2>1. IsFiniteSet(1..n)
    BY <1>2, FS_Interval
  <2> HIDE DEF n
  <2> QED
    BY <2>1, FS_Subset
<1>5. /\ billed' \in [Job -> Bills] /\ spentUsd' \in Nat
      /\ BilledFor(billed[j], billed'[j], "batch", HitBy(f.reqs, hit))
  BY <1>3, <1>4, BillIs
<1>6. hit \in SUBSET OwedIn(f, pc[j])
  BY <1>1 DEF OwedIn
<1>7. /\ JobInv(j)' /\ pc' \in [Job -> Label] /\ results' \in [Job -> Seq(Reply)]
      /\ frames' \in [Job -> Seq(FrameType)] /\ fellBack' \in SUBSET Job
  BY <1>1, <1>4, <1>5, <1>6, FallsBack
<1> QED
  BY <1>1, <1>5, <1>7 DEF TypeInv, memo

\* A sequential call that fails the account keeps them.
LEMMA SequentialRaisesStep ==
    ASSUME TypeInv, NEW j \in Job, JobInv(j), SequentialRaises(j)
    PROVE  TypeInv' /\ JobInv(j)'
<1> DEFINE f == Top(j)
           n == Len(f.reqs)
           again == Ascending(f.canceledIds)
           reqs == IF pc[j] = "remainder" THEN At(f.reqs, again) ELSE f.reqs
<1>1. /\ pc[j] \in {"remainder", "chunkSequential"} /\ FallBack(j)
      /\ UNCHANGED <<spentSeconds, waits, refuses, answered, waited>>
      /\ AccountFails(j, reqs, AskedTemp(j))
  BY DEF SequentialRaises
<1>2. pc[j] \in Sending \cup Reading
  BY <1>1 DEF Sending, Reading
<1>3. f \in FrameType /\ f.reqs \in Seq(Request) /\ n \in Nat /\ OwnIds(f)
  BY <1>2, TopIs
<1>4. PICK heard \in SUBSET (1..(Len(reqs) - 1)) : SequentialCalls(j, reqs, heard, AskedTemp(j))
  BY <1>1 DEF AccountFails
<1>5. \E hit \in SUBSET OwedIn(f, pc[j]) : HitBy(reqs, heard) = HitBy(f.reqs, hit)
  <2>1. CASE pc[j] = "chunkSequential"
    <3>1. OwedIn(f, pc[j]) = 1..n /\ reqs = f.reqs
      BY <2>1 DEF OwedIn, Sending
    <3>2. 1..(n - 1) \subseteq 1..n
      BY <1>3
    <3> QED
      BY <3>1, <3>2
  <2>2. CASE pc[j] = "remainder"
    <3> DEFINE c == Len(again)
               hit == {again[k] : k \in heard}
    <3>1. reqs = At(f.reqs, again)
      BY <2>2
    <3>2. f.canceledIds \in SUBSET (1..n)
      BY <1>3 DEF OwnIds
    <3>3. /\ c = Len(At(f.reqs, again)) /\ again \in Seq(Nat)
          /\ \A m \in 1..c : again[m] \in f.canceledIds /\ At(f.reqs, again)[m] = f.reqs[again[m]]
      <4> HIDE DEF f
      <4> QED
        BY <1>3, <3>2, AtIs DEF n
    <3>4. c \in Nat /\ 1..(c - 1) \subseteq 1..c
      BY <3>3, LenProperties
    <3>5. \A k \in heard : again[k] \in f.canceledIds /\ reqs[k] = f.reqs[again[k]]
      BY <3>1, <3>3, <3>4
    <3>6. HitBy(reqs, heard) = HitBy(f.reqs, hit)
      BY <3>5 DEF HitBy
    <3>7. hit \subseteq OwedIn(f, pc[j])
      BY <2>2, <3>2, <3>5 DEF OwedIn
    <3> QED
      BY <3>6, <3>7
  <2> QED
    BY <1>1, <2>1, <2>2
<1>6. PICK hit \in SUBSET OwedIn(f, pc[j]) : HitBy(reqs, heard) = HitBy(f.reqs, hit)
  BY <1>5
<1>7. IsFiniteSet(heard) /\ "sequential" \in {"batch", "sequential"}
  <2>1. IsFiniteSet(1..(Len(reqs) - 1))
    <3>1. Len(reqs) - 1 \in Int
      <4>1. DOMAIN f.canceledIds = DOMAIN f.canceledIds
        OBVIOUS
      <4>2. f.canceledIds \in SUBSET (1..n)
        BY <1>3 DEF OwnIds
      <4>3. At(f.reqs, again) \in Seq(Request)
        <5> HIDE DEF f
        <5> QED
          BY <1>3, <4>2, AtIs DEF n
      <4>4. reqs \in Seq(Request)
        BY <1>3, <4>3
      <4> QED
        BY <4>4, LenProperties
    <3> QED
      BY <3>1, FS_Interval
  <2> QED
    BY <2>1, FS_Subset
<1> HIDE DEF reqs
<1>8. /\ billed' \in [Job -> Bills] /\ spentUsd' \in Nat /\ noTemp' \in BOOLEAN
      /\ BilledFor(billed[j], billed'[j], "sequential", HitBy(f.reqs, hit))
  BY <1>4, <1>6, <1>7, SequentialCallsAre
<1>9. /\ JobInv(j)' /\ pc' \in [Job -> Label] /\ results' \in [Job -> Seq(Reply)]
      /\ frames' \in [Job -> Seq(FrameType)] /\ fellBack' \in SUBSET Job
  BY <1>1, <1>2, <1>6, <1>7, <1>8, FallsBack
<1> QED
  BY <1>1, <1>8, <1>9 DEF TypeInv

\* The registry's own sequential run: only a set that fell back was billed before it.
LEMMA RunsOut ==
    ASSUME TypeInv, NEW j \in Job, JobInv(j), pc[j] = "sequential",
           NEW label \in {"done", "raised"}, Goto(j, label),
           NEW H \in SUBSET Request, billed' \in [Job -> Bills],
           BilledFor(billed[j], billed'[j], "sequential", H),
           UNCHANGED <<frames, answered, fellBack>>,
           results' \in [Job -> Seq(Reply)], ResultsOK(label, results'[j])
    PROVE  JobInv(j)' /\ pc' \in [Job -> Label]
<1> DEFINE b == billed[j]
           b2 == billed'[j]
           res == results[j]
           res2 == results'[j]
           back == j \in fellBack
<1>1. pc' = [pc EXCEPT ![j] = label] /\ label \in Label
  BY DEF Goto, Label
<1>2. pc' \in [Job -> Label] /\ pc'[j] = label
  BY <1>1 DEF TypeInv
<1>3. "sequential" \notin Sending \cup Reading /\ label \notin Sending \cup Reading
  BY DEF Sending, Reading
<1>4. /\ frames[j] = <<>> /\ b \in Bills /\ BilledOK("sequential", res, <<>>, b, back)
      /\ PaidOK("sequential", res, <<>>, b, answered[j], back)
  BY <1>3, StackIs DEF JobInv
<1>5. StackOK(label, res2, <<>>)
  BY <1>3, IdleStack
<1>6. \A r \in Request : /\ b.batch[r] \in Nat /\ b.sequential[r] \in Nat
                         /\ b2.batch[r] = b.batch[r] /\ b2.sequential[r] \in Nat
                         /\ b2.sequential[r] <= b.sequential[r] + 1
  <2> SUFFICES ASSUME NEW r \in Request
               PROVE  /\ b.batch[r] \in Nat /\ b.sequential[r] \in Nat
                      /\ b2.batch[r] = b.batch[r] /\ b2.sequential[r] \in Nat
                      /\ b2.sequential[r] <= b.sequential[r] + 1
    OBVIOUS
  <2>1. b.batch[r] \in Nat /\ b.sequential[r] \in Nat
    BY <1>4 DEF Bills
  <2>2. b2.batch = b.batch /\ b2.sequential[r] = IF r \in H THEN b.sequential[r] + 1 ELSE b.sequential[r]
    BY DEF BilledFor
  <2> QED
    BY <2>1, <2>2
<1>7. ASSUME ~back
      PROVE  BilledOK(label, res2, <<>>, b2, FALSE) /\ PaidOK(label, res2, <<>>, b2, answered[j], FALSE)
  <2>1. \A r \in Request : b.batch[r] = 0 /\ b.sequential[r] = 0
    BY <1>3, <1>4, <1>7 DEF BilledOK, Ahead
  <2>2. \A r \in Request : b2.batch[r] + b2.sequential[r] <= 1 /\ ~(b.batch[r] > 0)
    BY <1>6, <2>1
  <2>3. Ahead(label, res2, <<>>) = {} /\ OwedBy(<<>>, label) = {}
    BY <1>3 DEF Ahead, OwedBy
  <2>4. BilledOK(label, res2, <<>>, b2, FALSE)
    BY <2>2, <2>3 DEF BilledOK
  <2>5. answered[j] = {}
    BY <1>4, <1>7, <2>2, StackIs DEF PaidOK
  <2> QED
    BY <2>4, <2>5 DEF PaidOK
<1>8. ASSUME back
      PROVE  BilledOK(label, res2, <<>>, b2, TRUE) /\ PaidOK(label, res2, <<>>, b2, answered[j], TRUE)
  <2>1. \A r \in Request : b.batch[r] <= 1 /\ b.sequential[r] <= 1
    BY <1>4, <1>8 DEF BilledOK
  <2>2. \A r \in Request : b2.batch[r] <= 1 /\ b2.sequential[r] <= 2
    BY <1>6, <2>1
  <2>3. label # "sequential" /\ label \in {"sequential", "done", "raised"}
    OBVIOUS
  <2> QED
    BY <2>2, <2>3 DEF BilledOK, PaidOK
<1>9. BilledOK(label, res2, <<>>, b2, back) /\ PaidOK(label, res2, <<>>, b2, answered[j], back)
  BY <1>7, <1>8 DEF BilledOK, PaidOK
<1>10. JobInv(j)'
  BY <1>2, <1>4, <1>5, <1>9 DEF JobInv
<1> QED
  BY <1>2, <1>10

\* The run that serves the whole set without a batch keeps them.
LEMMA RunSequentiallyStep ==
    ASSUME TypeInv, NEW j \in Job, JobInv(j), RunSequentially(j)
    PROVE  TypeInv' /\ JobInv(j)'
<1> DEFINE reqs == [i \in Request |-> i]
<1>1. /\ pc[j] = "sequential"
      /\ UNCHANGED <<frames, spentSeconds, waits, refuses, answered, waited, fellBack>>
  BY DEF RunSequentially
<1>2. reqs \in Seq(Request) /\ Len(reqs) = N /\ DOMAIN reqs = Request /\ N \in Nat
  <2>1. reqs \in [1..N -> Request]
    BY DEF Request
  <2> QED
    BY <2>1, Constants, IsSequence DEF Request
<1>3. ResultsOK("sequential", results[j]) /\ results[j] \in Seq(Reply)
  BY <1>1, StackIs
<1> HIDE DEF reqs
<1>4. ASSUME NEW outcome \in [Request -> SeqOutcome],
             results' = [results EXCEPT ![j] = [i \in Request |-> ReplyOf(i, outcome[i])]],
             Sequentially(j, reqs, TRUE, outcome), Goto(j, "done")
      PROVE  TypeInv' /\ JobInv(j)'
  <2> DEFINE res2 == [i \in Request |-> ReplyOf(i, outcome[i])]
             hit == {i \in Request : outcome[i] \in Billable}
  <2>1. \A i \in Request : res2[i] \in Reply /\ Answers(res2[i], i)
    <3> SUFFICES ASSUME NEW i \in Request
                 PROVE  ReplyOf(i, outcome[i]) \in Reply /\ Answers(ReplyOf(i, outcome[i]), i)
      OBVIOUS
    <3>1. outcome[i] \in {"text", "EMPTY", "REFUSED", "dead", "canceled", "temperature"}
      BY DEF SeqOutcome
    <3> QED
      BY <3>1, ReplyIs
  <2>2. res2 \in Seq(Reply) /\ Len(res2) = N
    <3>1. res2 \in [1..N -> Reply]
      BY <2>1 DEF Request
    <3> QED
      BY <1>2, <3>1, IsSequence
  <2>3. SequentialCalls(j, reqs, hit, TRUE)
    BY <1>2, <1>4 DEF Sequentially
  <2> HIDE DEF res2, hit
  <2>4. results' \in [Job -> Seq(Reply)] /\ results'[j] = res2
    BY <1>4, <2>2 DEF TypeInv, res2
  <2>5. ResultsOK("done", res2)
    BY <1>2, <2>1, <2>2 DEF ResultsOK, Request
  <2>6. IsFiniteSet(hit) /\ hit \subseteq Request /\ HitBy(reqs, hit) \in SUBSET Request
    <3>1. IsFiniteSet(Request) /\ hit \subseteq Request
      BY <1>2, FS_Interval DEF Request, hit
    <3>2. \A i \in hit : reqs[i] \in Request
      BY <1>2, <3>1 DEF reqs
    <3> QED
      BY <3>1, <3>2, FS_Subset DEF HitBy
  <2>7. /\ billed' \in [Job -> Bills] /\ spentUsd' \in Nat /\ noTemp' \in BOOLEAN
        /\ BilledFor(billed[j], billed'[j], "sequential", HitBy(reqs, hit))
    BY <2>3, <2>6, SequentialCallsAre
  <2>8. JobInv(j)' /\ pc' \in [Job -> Label]
    BY <1>1, <1>4, <2>4, <2>5, <2>6, <2>7, RunsOut
  <2> QED
    BY <1>1, <2>4, <2>7, <2>8 DEF TypeInv
<1>5. ASSUME AccountFails(j, reqs, TRUE), Goto(j, "raised"), UNCHANGED results
      PROVE  TypeInv' /\ JobInv(j)'
  <2>1. PICK hit \in SUBSET (1..(N - 1)) : SequentialCalls(j, reqs, hit, TRUE)
    BY <1>2, <1>5 DEF AccountFails
  <2>2. IsFiniteSet(hit) /\ hit \subseteq Request /\ HitBy(reqs, hit) \in SUBSET Request
    <3>1. IsFiniteSet(Request) /\ hit \subseteq Request
      BY <1>2, FS_Interval DEF Request
    <3>2. \A i \in hit : reqs[i] \in Request
      BY <1>2, <3>1 DEF reqs
    <3> QED
      BY <3>1, <3>2, FS_Subset DEF HitBy
  <2>3. /\ billed' \in [Job -> Bills] /\ spentUsd' \in Nat /\ noTemp' \in BOOLEAN
        /\ BilledFor(billed[j], billed'[j], "sequential", HitBy(reqs, hit))
    BY <2>1, <2>2, SequentialCallsAre
  <2>4. ResultsOK("raised", results'[j]) /\ results' \in [Job -> Seq(Reply)]
    BY <1>3, <1>5 DEF ResultsOK, TypeInv
  <2>5. JobInv(j)' /\ pc' \in [Job -> Label]
    BY <1>1, <1>5, <2>2, <2>3, <2>4, RunsOut
  <2> QED
    BY <1>1, <1>5, <2>3, <2>4, <2>5 DEF TypeInv
<1> QED
  BY <1>4, <1>5 DEF RunSequentially, reqs

\* What is a job's own, and stays as it is while another job steps.
Same(k) ==
    /\ pc'[k] = pc[k] /\ results'[k] = results[k] /\ frames'[k] = frames[k]
    /\ billed'[k] = billed[k] /\ answered'[k] = answered[k] /\ waited'[k] = waited[k]
    /\ k \in fellBack' <=> k \in fellBack
    /\ k \in waits' <=> k \in waits

\* Usage recorded for one job leaves the others' alone.
LEMMA BillSame ==
    ASSUME TypeInv, NEW j \in Job, NEW reqs, NEW hit, NEW route, Bill(j, reqs, hit, route)
    PROVE  \A k \in Job \ {j} : billed'[k] = billed[k]
BY DEF Bill, TypeInv

\* Nor does a sequential run for one job touch the bills of another,
LEMMA SequentialSame ==
    ASSUME TypeInv, NEW j \in Job, NEW reqs, NEW hit, NEW temp, SequentialCalls(j, reqs, hit, temp)
    PROVE  \A k \in Job \ {j} : billed'[k] = billed[k]
BY BillSame DEF SequentialCalls

\* nor one that fails the account.
LEMMA FailsSame ==
    ASSUME TypeInv, NEW j \in Job, NEW reqs, NEW temp, AccountFails(j, reqs, temp)
    PROVE  \A k \in Job \ {j} : billed'[k] = billed[k]
BY SequentialSame DEF AccountFails

\* A step of one job leaves the others as they are.
LEMMA OthersAreSame ==
    ASSUME TypeInv, NEW j \in Job, Step(j)
    PROVE  \A k \in Job \ {j} : Same(k)
<1> USE DEF Same, Goto, history, memo, budgets
<1>0. ASSUME FallBack(j)
      PROVE  \A k \in Job \ {j} : /\ pc'[k] = pc[k] /\ results'[k] = results[k] /\ frames'[k] = frames[k]
                                  /\ k \in fellBack' <=> k \in fellBack
  BY <1>0 DEF FallBack, TypeInv
<1>1. CASE ServeSequentially(j)
  BY <1>1 DEF ServeSequentially, TypeInv
<1>2. CASE NextChunk(j)
  <2>1. UNCHANGED <<waits, billed, answered, waited, fellBack>>
    BY <1>2 DEF NextChunk
  <2>2. \A k \in Job \ {j} : pc'[k] = pc[k] /\ results'[k] = results[k] /\ frames'[k] = frames[k]
    BY <1>2 DEF NextChunk, Decline, EnterBatch, TypeInv
  <2> QED
    BY <2>1, <2>2
<1>3. CASE Submit(j)
  BY <1>3 DEF Submit, TypeInv
<1>4. CASE Poll(j)
  BY <1>4 DEF Poll, CloseWait, SetTop, TypeInv
<1>5. CASE PollCancelled(j)
  BY <1>5 DEF PollCancelled, CloseWait, SetTop, TypeInv
<1>6. CASE Collect(j)
  <2>1. \A k \in Job \ {j} : billed'[k] = billed[k]
    BY <1>6, BillSame DEF Collect
  <2>2. \A k \in Job \ {j} : pc'[k] = pc[k] /\ frames'[k] = frames[k] /\ answered'[k] = answered[k]
    BY <1>6 DEF Collect, SetTop, TypeInv
  <2>3. UNCHANGED <<results, waits, waited, fellBack>>
    BY <1>6 DEF Collect
  <2> QED
    BY <2>1, <2>2, <2>3
<1>7. CASE RerunWithoutTemperature(j)
  BY <1>7 DEF RerunWithoutTemperature, Rerun, EnterBatch, TypeInv
<1>8. CASE Settle(j)
  BY <1>8 DEF Settle, TypeInv
<1>9. CASE RunRemainder(j)
  <2>1. \A k \in Job \ {j} : billed'[k] = billed[k]
    BY <1>9, SequentialSame DEF RunRemainder, Sequentially
  <2>2. \A k \in Job \ {j} : pc'[k] = pc[k] /\ frames'[k] = frames[k]
    BY <1>9 DEF RunRemainder, SetTop, TypeInv
  <2>3. UNCHANGED <<results, waits, answered, waited, fellBack>>
    BY <1>9 DEF RunRemainder
  <2> QED
    BY <2>1, <2>2, <2>3
<1>10. CASE RunChunkSequentially(j)
  <2>1. \A k \in Job \ {j} : billed'[k] = billed[k]
    BY <1>10, SequentialSame DEF RunChunkSequentially, Sequentially
  <2>2. \A k \in Job \ {j} : pc'[k] = pc[k] /\ frames'[k] = frames[k]
    BY <1>10 DEF RunChunkSequentially, SetTop, TypeInv
  <2>3. UNCHANGED <<results, waits, answered, waited, fellBack>>
    BY <1>10 DEF RunChunkSequentially
  <2> QED
    BY <2>1, <2>2, <2>3
<1>11. CASE Return(j)
  BY <1>11 DEF Return, TypeInv
<1>12. CASE BatchRaises(j)
  <2>1. \A k \in Job \ {j} : billed'[k] = billed[k]
    BY <1>12, BillSame DEF BatchRaises, SdkRaises
  <2>2. FallBack(j) /\ waits' = waits \ {j} /\ UNCHANGED <<answered, waited>>
    BY <1>12 DEF BatchRaises, SdkRaises
  <2> QED
    BY <1>0, <2>1, <2>2
<1>13. CASE SequentialRaises(j)
  <2>1. \A k \in Job \ {j} : billed'[k] = billed[k]
    BY <1>13, FailsSame DEF SequentialRaises
  <2>2. FallBack(j) /\ UNCHANGED <<waits, answered, waited>>
    BY <1>13 DEF SequentialRaises
  <2> QED
    BY <1>0, <2>1, <2>2
<1>14. CASE RunSequentially(j)
  <2>1. \A k \in Job \ {j} : billed'[k] = billed[k]
    BY <1>14, SequentialSame, FailsSame DEF RunSequentially, Sequentially
  <2>2. \A k \in Job \ {j} : pc'[k] = pc[k] /\ results'[k] = results[k]
    BY <1>14 DEF RunSequentially, TypeInv
  <2>3. UNCHANGED <<frames, waits, answered, waited, fellBack>>
    BY <1>14 DEF RunSequentially
  <2> QED
    BY <2>1, <2>2, <2>3
<1> QED
  BY <1>1, <1>2, <1>3, <1>4, <1>5, <1>6, <1>7, <1>8, <1>9, <1>10, <1>11, <1>12, <1>13, <1>14 DEF Step

\* A job's own step keeps its part of the invariant.
LEMMA StepKeepsJob ==
    ASSUME TypeInv, NEW j \in Job, JobInv(j), Step(j)
    PROVE  TypeInv' /\ JobInv(j)'
BY ServeSequentiallyStep, NextChunkStep, SubmitStep, PollStep, PollCancelledStep, CollectStep,
   RerunWithoutTemperatureStep, SettleStep, RunRemainderStep, RunChunkSequentiallyStep, ReturnStep,
   BatchRaisesStep, SequentialRaisesStep, RunSequentiallyStep DEF Step

\* The invariant of them all.
JobsInv == TypeInv /\ \A j \in Job : JobInv(j)

\* The invariant holds at first.
LEMMA JobsInit ==
    ASSUME Init
    PROVE  JobsInv
<1>1. "asked" \in Label /\ "asked" \notin Sending \cup Reading /\ <<>> \in Seq(Reply) /\ <<>> \in Seq(FrameType)
  BY EmptySeq DEF Label, Sending, Reading
<1>2. [batch |-> [r \in Request |-> 0], sequential |-> [r \in Request |-> 0]] \in Bills
  BY DEF Bills
<1>3. TypeInv
  BY <1>1, <1>2 DEF Init, TypeInv
<1>4. ASSUME NEW j \in Job PROVE JobInv(j)
  <2>1. /\ pc[j] = "asked" /\ results[j] = <<>> /\ frames[j] = <<>> /\ answered[j] = {} /\ j \notin fellBack
        /\ \A r \in Request : billed[j].batch[r] = 0 /\ billed[j].sequential[r] = 0
    BY DEF Init
  <2>2. StackOK("asked", <<>>, <<>>)
    BY <1>1, IdleStack
  <2>3. Len(<<>>) = 0 /\ N \in Nat
    BY Constants
  <2>4. ResultsOK("asked", <<>>)
    BY <2>3 DEF ResultsOK
  <2>5. Ahead("asked", <<>>, <<>>) \cup OwedBy(<<>>, "asked") \subseteq Request
    BY DEF Ahead, OwedBy
  <2>6. BilledOK("asked", <<>>, <<>>, billed[j], FALSE) /\ PaidOK("asked", <<>>, <<>>, billed[j], {}, FALSE)
    BY <2>1, <2>5 DEF BilledOK, PaidOK
  <2> QED
    BY <2>1, <2>2, <2>4, <2>6, StillIn DEF JobInv
<1> QED
  BY <1>3, <1>4 DEF JobsInv

\* Every step keeps it: that of the job that moves by the lemmas above, the others because nothing
\* of theirs changes.
LEMMA JobsNext ==
    ASSUME JobsInv, [Next]_vars
    PROVE  JobsInv'
<1>1. ASSUME NEW j \in Job, Step(j) PROVE JobsInv'
  <2>1. TypeInv' /\ JobInv(j)'
    BY <1>1, StepKeepsJob DEF JobsInv
  <2>2. ASSUME NEW k \in Job \ {j} PROVE JobInv(k)'
    <3>1. Same(k)
      BY <1>1, OthersAreSame DEF JobsInv
    <3>2. JobInv(k)
      BY DEF JobsInv
    <3>3. (k \in fellBack') = (k \in fellBack)
      BY <3>1 DEF Same
    <3> QED
      BY <3>1, <3>2, <3>3 DEF Same, JobInv
  <2> QED
    BY <2>1, <2>2 DEF JobsInv
<1>2. ASSUME UNCHANGED vars PROVE JobsInv'
  <2>1. UNCHANGED <<pc, results, frames, spentSeconds, waits, spentUsd, noTemp, refuses, billed, answered, waited, fellBack>>
    BY <1>2 DEF vars, budgets, memo, history
  <2>2. TypeInv'
    BY <2>1 DEF JobsInv, TypeInv
  <2>3. \A j \in Job : JobInv(j)'
    BY <2>1 DEF JobsInv, JobInv
  <2> QED
    BY <2>2, <2>3 DEF JobsInv
<1> QED
  BY <1>1, <1>2 DEF Next, Finished

\* A job's stack, its replies, what it was billed for and the text it was paid for agree in every
\* reachable state, however the jobs interleave (llm/adapters/anthropic.py, llm/registry.py).
THEOREM JobsAreInvariant == Spec => []JobsInv
<1>1. Init => JobsInv
  BY JobsInit
<1>2. JobsInv /\ [Next]_vars => JobsInv'
  BY JobsNext
<1> QED
  BY <1>1, <1>2, PTL DEF Spec

\* It is what billing once rests on,
LEMMA JobsBilledOnce == JobsInv => BilledOnce
<1> SUFFICES ASSUME JobsInv, NEW j \in Job
             PROVE  /\ Len(frames[j]) <= 2
                    /\ \A r \in Request :
                          LET b == billed[j].batch[r]
                              s == billed[j].sequential[r]
                          IN  IF j \in fellBack THEN b <= 1 /\ s <= 2 ELSE b + s <= 1
  BY DEF BilledOnce
<1>1. /\ StackOK(pc[j], results[j], frames[j])
      /\ BilledOK(pc[j], results[j], frames[j], billed[j], j \in fellBack) /\ billed[j] \in Bills
  BY DEF JobsInv, JobInv, TypeInv
<1>2. Len(frames[j]) <= 2
  BY <1>1 DEF StackOK
<1>3. CASE j \notin fellBack
  BY <1>1, <1>2, <1>3 DEF BilledOK
<1>4. CASE j \in fellBack
  <2>1. \A r \in Request : /\ billed[j].batch[r] <= 1
                           /\ billed[j].sequential[r] <= IF pc[j] = "sequential" THEN 1 ELSE 2
    BY <1>1, <1>4 DEF BilledOK
  <2>2. \A r \in Request : billed[j].sequential[r] \in Nat
    BY <1>1 DEF Bills
  <2>3. \A r \in Request : billed[j].sequential[r] <= 2
    BY <2>1, <2>2
  <2> QED
    BY <1>2, <1>4, <2>1, <2>3
<1> QED
  BY <1>3, <1>4

\* and what the place of paid text rests on.
LEMMA JobsPaidTextInPlace == JobsInv => PaidTextInPlace
<1> SUFFICES ASSUME JobsInv, NEW j \in Job, pc[j] = "done"
             PROVE  /\ Len(results[j]) = N
                    /\ \A i \in Request : /\ results[j][i].text \in {0, i}
                                          /\ results[j][i].text = 0 <=> results[j][i].failure # "none"
                    /\ j \notin fellBack => \A r \in answered[j] : results[j][r].text = r
  BY DEF PaidTextInPlace, Aligned, PaidTextKept
<1>1. /\ ResultsOK(pc[j], results[j])
      /\ PaidOK(pc[j], results[j], frames[j], billed[j], answered[j], j \in fellBack)
      /\ answered[j] \in SUBSET Request
  BY DEF JobsInv, JobInv, TypeInv
<1>2. Len(results[j]) = N /\ \A i \in Request : Answers(results[j][i], i)
  BY <1>1 DEF ResultsOK, Request
<1>3. \A r \in answered[j] : r <= Len(results[j])
  BY <1>1, <1>2, Constants DEF Request
<1>4. j \notin fellBack => \A r \in answered[j] : results[j][r].text = r
  BY <1>1, <1>3 DEF PaidOK, KeptAt
<1> QED
  BY <1>2, <1>4 DEF Answers

\* A request is paid for once, by its batch or by the sequential path, whatever is cancelled, re-run
\* or interleaved; only a set that fell back pays again, in its sequential run.
THEOREM RequestsAreBilledOnce == Spec => []BilledOnce
BY JobsAreInvariant, JobsBilledOnce, PTL

\* Text that a batch was paid for reaches the caller at the place of its request, through re-runs,
\* partial cancellations and chunks, unless the set fell back.
THEOREM PaidTextIsInPlace == Spec => []PaidTextInPlace
BY JobsAreInvariant, JobsPaidTextInPlace, PTL

-----------------------------------------------------------------------------
\* The budgets, which the jobs share: each step of a job is weighed against what all of
\* them have out.  Time: seconds waited are charged or in an open wait (Booked).  Money:
\* replies are paid for or out (Paid).

\* The number at a place, and the numbers at the other places.
ValueAt(f, j) == IF j \in DOMAIN f THEN f[j] ELSE 0
Without(D, j, f) == [k \in D \ {j} |-> f[k]]

\* A sum is the number at a place, none if it is outside, and the sum of the others.
LEMMA TotalWithout ==
    ASSUME NEW D, IsFiniteSet(D), NEW f \in [D -> Nat], NEW j
    PROVE  /\ Total(f) \in Nat /\ Total(Without(D, j, f)) \in Nat /\ ValueAt(f, j) \in Nat
           /\ Total(f) = ValueAt(f, j) + Total(Without(D, j, f))
<1>1. CASE j \in D
  <2>1. /\ Total([k \in D \ {j} |-> f[k]]) \in Nat
        /\ Total(f) = f[j] + Total([k \in D \ {j} |-> f[k]])
    BY <1>1, TotalSplits
  <2> QED
    BY <1>1, <2>1, TotalIs DEF ValueAt, Without
<1>2. CASE j \notin D
  <2>1. [k \in D \ {j} |-> f[k]] = f
    BY <1>2
  <2>2. ValueAt(f, j) = 0
    BY <1>2 DEF ValueAt
  <2>3. Without(D, j, f) = f
    BY <2>1 DEF Without
  <2> QED
    <3>1. Total(f) \in Nat
      BY TotalIs
    <3> QED
      BY <2>2, <2>3, <3>1
<1> QED
  BY <1>1, <1>2

\* Two sums that differ at one place at most differ by the numbers there.
LEMMA TotalChanges ==
    ASSUME NEW D, IsFiniteSet(D), NEW f \in [D -> Nat], NEW D2, IsFiniteSet(D2), NEW f2 \in [D2 -> Nat],
           NEW j, D \ {j} = D2 \ {j}, \A k \in D \ {j} : f2[k] = f[k]
    PROVE  /\ Total(f) \in Nat /\ Total(f2) \in Nat /\ ValueAt(f, j) \in Nat /\ ValueAt(f2, j) \in Nat
           /\ Total(f2) + ValueAt(f, j) = Total(f) + ValueAt(f2, j)
<1>1. Without(D2, j, f2) = Without(D, j, f)
  BY DEF Without
<1>2. /\ Total(f) \in Nat /\ Total(Without(D, j, f)) \in Nat /\ ValueAt(f, j) \in Nat
      /\ Total(f) = ValueAt(f, j) + Total(Without(D, j, f))
  BY TotalWithout
<1>3. /\ Total(f2) \in Nat /\ ValueAt(f2, j) \in Nat
      /\ Total(f2) = ValueAt(f2, j) + Total(Without(D, j, f))
  BY <1>1, TotalWithout
<1> QED
  BY <1>2, <1>3

\* A job waits while its batch is out or is being cancelled; Limit is what one job may wait in all.
Waiting == {"polling", "canceling"}
Limit == WaitBudget + Grace + PollInterval - 1
\* What a job waited is charged, but for the batch that is out, and the wait of that batch fits the
\* balance it was entered with.
TimeOK(p, f, w, back, spent) ==
    /\ w <= Limit
    /\ ~back =>
         /\ p \notin Waiting => w <= spent
         /\ p = "submitting" => f.elapsed = 0 /\ f.grace = Grace /\ w + f.cap <= WaitBudget
         /\ p \in Waiting => f.elapsed <= w /\ (w - f.elapsed) + f.cap <= WaitBudget /\ w - f.elapsed <= spent
         /\ p = "polling" => f.elapsed < f.cap + PollInterval /\ f.grace = Grace
         /\ p = "canceling" => f.elapsed + f.grace < f.cap + PollInterval + Grace
\* The seconds of the waits still open, and the invariant of the wait budget.
Open == [j \in waits |-> Top(j).elapsed]
TimeInv ==
    /\ \A j \in Job : j \in waits <=> pc[j] \in Waiting
    /\ \A j \in Job : TimeOK(pc[j], Top(j), waited[j], j \in fellBack, spentSeconds)
    /\ EverySecondCharged

\* A step of j accounts for its time: seconds waited are open or charged.
Booked(j) ==
    /\ j \in waits' <=> pc'[j] \in Waiting
    /\ spentSeconds' \in Nat /\ spentSeconds <= spentSeconds'
    /\ TimeOK(pc'[j], Top(j)', waited'[j], (j \in fellBack)', spentSeconds')
    /\ fellBack \subseteq fellBack'
    /\ fellBack' = {} => spentSeconds' + ValueAt(Open', j) + waited[j] = spentSeconds + ValueAt(Open, j) + waited'[j]

\* The top call of a stack.
LEMMA LastIs ==
    ASSUME NEW fr \in Seq(FrameType), fr # <<>>
    PROVE  fr[Len(fr)] \in FrameType
<1>1. Len(fr) \in Nat \ {0}
  BY EmptySeq
<1> QED
  BY <1>1, ElementOfSeq

\* The open waits are numbers.
LEMMA OpenIs ==
    ASSUME JobsInv, \A j \in Job : j \in waits <=> pc[j] \in Waiting
    PROVE  IsFiniteSet(waits) /\ Open \in [waits -> Nat]
<1>1. waits \in SUBSET Job
  BY DEF JobsInv, TypeInv
<1>2. IsFiniteSet(waits)
  BY <1>1, JobsAssumption, FS_Subset
<1>3. \A j \in waits : Top(j).elapsed \in Nat
  <2> SUFFICES ASSUME NEW j \in waits PROVE Top(j).elapsed \in Nat
    OBVIOUS
  <2>1. pc[j] \in Sending \cup Reading
    BY <1>1 DEF Waiting, Sending
  <2>2. Top(j) \in FrameType
    BY <1>1, <2>1, TopIs DEF JobsInv
  <2> QED
    BY <2>2 DEF FrameType
<1> QED
  BY <1>2, <1>3 DEF Open

\* Such a step keeps the invariant of the wait budget.
LEMMA BookedKeeps ==
    ASSUME JobsInv, TimeInv, JobsInv', NEW j \in Job, Step(j), Booked(j)
    PROVE  TimeInv'
<1>1. \A k \in Job \ {j} : Same(k)
  BY OthersAreSame DEF JobsInv
<1>2. \A k \in Job : k \in waits' <=> pc'[k] \in Waiting
  BY <1>1 DEF Booked, TimeInv, Same
<1>3. ASSUME NEW k \in Job PROVE TimeOK(pc[k], Top(k), waited[k], k \in fellBack, spentSeconds)'
  <2>1. CASE k = j
    BY <2>1 DEF Booked
  <2>2. CASE k # j
    <3>1. Same(k) /\ (k \in fellBack') = (k \in fellBack)
      BY <1>1, <2>2 DEF Same
    <3>2. TimeOK(pc[k], Top(k), waited[k], k \in fellBack, spentSeconds)
      BY DEF TimeInv
    <3>3. Top(k)' = Top(k)
      BY <3>1 DEF Top, Same
    <3>4. spentSeconds \in Nat /\ spentSeconds' \in Nat /\ spentSeconds <= spentSeconds' /\ waited[k] \in Nat
      BY DEF Booked, JobsInv, TypeInv
    <3>5. \A e \in Nat : pc[k] \in Waiting /\ e = Top(k).elapsed /\ e <= waited[k] /\ waited[k] - e <= spentSeconds
                            => waited[k] - e <= spentSeconds'
      BY <3>4
    <3>6. pc[k] \in Waiting => Top(k).elapsed \in Nat
      <4>1. pc[k] \in Waiting => pc[k] \in Sending \cup Reading
        BY DEF Waiting, Sending
      <4> QED
        BY <4>1, TopIs DEF JobsInv, FrameType
    <3> DEFINE back == k \in fellBack
               f == Top(k)
               w == waited[k]
               p == pc[k]
    <3>7. TimeOK(p, f, w, back, spentSeconds')
      <4>1. p \notin Waiting /\ w <= spentSeconds => w <= spentSeconds'
        BY <3>4
      <4> HIDE DEF back, f, w, p
      <4>2. TimeOK(p, f, w, back, spentSeconds)
        BY <3>2 DEF back, f, w, p
      <4>3. p \in Waiting /\ f.elapsed <= w /\ w - f.elapsed <= spentSeconds => w - f.elapsed <= spentSeconds'
        BY <3>5, <3>6 DEF f, w, p
      <4> QED
        BY <4>1, <4>2, <4>3 DEF TimeOK
    <3> QED
      BY <3>1, <3>3, <3>7 DEF Same
  <2> QED
    BY <2>1, <2>2
<1>4. EverySecondCharged'
  <2> SUFFICES ASSUME fellBack' = {} PROVE spentSeconds' + Total(Open') = Total(waited')
    BY DEF EverySecondCharged, Open
  <2>1. spentSeconds + Total(Open) = Total(waited)
    BY DEF Booked, TimeInv, EverySecondCharged, Open
  <2>2. IsFiniteSet(waits) /\ Open \in [waits -> Nat]
    BY OpenIs DEF TimeInv
  <2>3. IsFiniteSet(waits') /\ Open' \in [waits' -> Nat]
    <3>1. waits' \in SUBSET Job
      BY DEF JobsInv, TypeInv
    <3>2. IsFiniteSet(waits')
      BY <3>1, JobsAssumption, FS_Subset
    <3>3. ASSUME NEW k \in waits' PROVE Top(k)'.elapsed \in Nat
      <4>1. k \in Job /\ pc'[k] \in Sending \cup Reading
        BY <1>2, <3>1 DEF Waiting, Sending
      <4>2. frames'[k] \in Seq(FrameType) /\ frames'[k] # <<>>
        BY <4>1 DEF JobsInv, TypeInv, JobInv, StackOK
      <4>3. frames'[k][Len(frames'[k])] \in FrameType
        BY <4>2, LastIs
      <4> QED
        BY <4>3 DEF Top, FrameType
    <3> QED
      BY <3>2, <3>3 DEF Open
  <2>4. waits \ {j} = waits' \ {j}
    BY <1>1 DEF Same, JobsInv, TypeInv
  <2>5. \A k \in waits \ {j} : Open'[k] = Open[k]
    BY <1>1, <2>4 DEF Open, Top, Same, JobsInv, TypeInv
  <2>6. /\ Total(Open) \in Nat /\ Total(Open') \in Nat /\ ValueAt(Open, j) \in Nat /\ ValueAt(Open', j) \in Nat
        /\ Total(Open') + ValueAt(Open, j) = Total(Open) + ValueAt(Open', j)
    <3> HIDE DEF Open
    <3> QED
      BY <2>2, <2>3, <2>4, <2>5, TotalChanges
  <2>7. /\ waited \in [Job -> Nat] /\ waited' \in [Job -> Nat] /\ \A k \in Job \ {j} : waited'[k] = waited[k]
    BY <1>1 DEF JobsInv, TypeInv, Same
  <2>8. /\ Total(waited) \in Nat /\ Total(waited') \in Nat
        /\ Total(waited') + ValueAt(waited, j) = Total(waited) + ValueAt(waited', j)
    BY <2>7, JobsAssumption, TotalChanges
  <2>9. ValueAt(waited, j) = waited[j] /\ ValueAt(waited', j) = waited'[j] /\ waited[j] \in Nat /\ waited'[j] \in Nat
    BY <2>7 DEF ValueAt
  <2>10. spentSeconds' + ValueAt(Open', j) + waited[j] = spentSeconds + ValueAt(Open, j) + waited'[j]
    BY DEF Booked
  <2>11. spentSeconds \in Nat /\ spentSeconds' \in Nat
    BY DEF JobsInv, TypeInv
  <2>13. Total(waited') + waited[j] = Total(waited) + waited'[j]
    BY <2>8, <2>9
  <2> DEFINE e == ValueAt(Open, j)
             e2 == ValueAt(Open', j)
             o == Total(Open)
             o2 == Total(Open')
             t == Total(waited)
             t2 == Total(waited')
  <2> DEFINE w == waited[j]
             w2 == waited'[j]
             s == spentSeconds
             s2 == spentSeconds'
  <2>14. /\ o \in Nat /\ o2 \in Nat /\ t \in Nat /\ t2 \in Nat /\ e \in Nat /\ e2 \in Nat
         /\ w \in Nat /\ w2 \in Nat /\ s \in Nat /\ s2 \in Nat
    BY <2>6, <2>8, <2>9, <2>11
  <2>15. s + o = t /\ o2 + e = o + e2 /\ t2 + w = t + w2 /\ s2 + e2 + w = s + e + w2
    BY <2>1, <2>6, <2>10, <2>13
  <2> HIDE DEF e, e2, o, o2, t, t2, w, w2, s, s2
  <2>16. s2 + o2 = t2
    BY <2>14, <2>15
  <2> QED
    BY <2>16 DEF s2, o2, t2
<1> QED
  BY <1>2, <1>3, <1>4 DEF TimeInv

\* The value of an open wait, and that of a job that has none.
LEMMA OpenValue ==
    ASSUME NEW j
    PROVE  /\ j \in waits => ValueAt(Open, j) = Top(j).elapsed
           /\ j \notin waits => ValueAt(Open, j) = 0
           /\ j \in waits' => ValueAt(Open', j) = Top(j)'.elapsed
           /\ j \notin waits' => ValueAt(Open', j) = 0
BY DEF ValueAt, Open

\* The parts of that invariant for one job.
LEMMA Times ==
    ASSUME JobsInv, TimeInv, NEW j \in Job
    PROVE  /\ spentSeconds \in Nat /\ waited[j] \in Nat /\ waits \in SUBSET Job
           /\ TimeOK(pc[j], Top(j), waited[j], j \in fellBack, spentSeconds)
           /\ j \in waits <=> pc[j] \in Waiting
           /\ pc[j] \in Sending \cup Reading => j \notin fellBack /\ Top(j) \in FrameType
           /\ Limit \in Nat
<1>1. pc[j] \in Sending \cup Reading => j \notin fellBack /\ Top(j) \in FrameType
  <2> SUFFICES ASSUME pc[j] \in Sending \cup Reading PROVE j \notin fellBack /\ Top(j) \in FrameType
    OBVIOUS
  <2>1. pc[j] \notin Back
    BY StackIs DEF JobsInv
  <2> QED
    BY <2>1, NotBack, TopIs DEF JobsInv
<1>2. Limit \in Nat
  BY Constants DEF Limit
<1> QED
  BY <1>1, <1>2 DEF JobsInv, TimeInv, TypeInv

\* A step that touches no wait.
LEMMA Untimed ==
    ASSUME JobsInv, TimeInv, NEW j \in Job, JobsInv',
           pc[j] \notin Waiting, pc'[j] \notin Waiting,
           pc'[j] # "submitting", UNCHANGED spentSeconds, UNCHANGED waited,
           waits' = waits \/ waits' = waits \ {j}, fellBack \subseteq fellBack'
    PROVE  Booked(j)
<1>1. j \notin waits /\ j \notin waits' /\ waited'[j] = waited[j]
  BY Times
<1>2. ValueAt(Open, j) = 0 /\ ValueAt(Open', j) = 0
  BY <1>1, OpenValue
<1> DEFINE back == j \in fellBack
           back2 == j \in fellBack'
<1>3. back => back2
  OBVIOUS
<1>4. TimeOK(pc[j], Top(j), waited[j], back, spentSeconds)
  BY Times
<1>5. TimeOK(pc'[j], Top(j)', waited[j], back2, spentSeconds)
  <2>1. pc'[j] # "polling" /\ pc'[j] # "canceling"
    BY DEF Waiting
  <2> HIDE DEF back, back2
  <2> QED
    BY <1>3, <1>4, <2>1 DEF TimeOK
<1> QED
  BY <1>1, <1>2, <1>5, Times DEF Booked

\* A call that is entered fits the balance.
LEMMA EnteredTimed ==
    ASSUME JobsInv, TimeInv, Floor # 0, NEW j \in Job, JobsInv', NEW below \in Seq(FrameType),
           NEW g, NEW f \in FrameType, NEW p, Entered(j, below, f, g, p),
           f.elapsed = 0, f.grace = Grace, pc[j] \notin Waiting, pc[j] \notin Back,
           UNCHANGED <<spentSeconds, waits, waited, fellBack>>
    PROVE  Booked(j)
<1>1. pc'[j] = p /\ frames'[j] = Append(below, g) /\ g \in FrameType
  BY DEF Entered, JobsInv, TypeInv
<1>2. Top(j)' = g
  <2>1. Len(Append(below, g)) = Len(below) + 1 /\ Append(below, g)[Len(below) + 1] = g
    BY <1>1, AppendProperties
  <2> QED
    BY <1>1, <2>1 DEF Top
<1>3. /\ p \in {"submitting", "chunkSequential"} /\ g.elapsed = 0 /\ g.grace = Grace
      /\ p = "submitting" => CanSubmit /\ g.cap = WaitCap(f.cap)
  BY DEF Entered
<1>4. CASE p = "chunkSequential"
  BY <1>1, <1>4, Untimed DEF Waiting
<1>5. CASE p = "submitting"
  <2>1. j \notin waits /\ j \notin waits' /\ waited'[j] = waited[j] /\ p \notin Waiting
    BY <1>5, Times DEF Waiting
  <2>2. ValueAt(Open, j) = 0 /\ ValueAt(Open', j) = 0
    BY <2>1, OpenValue
  <2>3. j \notin fellBack
    BY NotBack DEF JobsInv
  <2>4. waited[j] <= spentSeconds /\ waited[j] <= Limit
    BY <2>3, Times DEF TimeOK
  <2>5. spentSeconds \in Nat /\ waited[j] \in Nat /\ f.cap \in Nat
    BY Times DEF FrameType
  <2>6. Remaining >= Floor /\ Floor > 0
    BY <1>3, <1>5, Constants DEF CanSubmit
  <2>7. spentSeconds < WaitBudget /\ Remaining = WaitBudget - spentSeconds
    BY <2>5, <2>6, Constants DEF Remaining
  <2>8. g.cap <= WaitBudget - spentSeconds /\ g.cap \in Nat
    BY <1>3, <1>5, <2>5, <2>7, Constants DEF WaitCap
  <2>9. waited[j] + g.cap <= WaitBudget
    BY <2>4, <2>5, <2>7, <2>8, Constants
  <2>10. TimeOK(p, g, waited[j], FALSE, spentSeconds)
    BY <1>3, <1>5, <2>1, <2>4, <2>9 DEF TimeOK, Waiting
  <2>11. (j \in fellBack)' = FALSE
    BY <2>3
  <2>12. TimeOK(pc'[j], Top(j)', waited'[j], (j \in fellBack)', spentSeconds')
    BY <1>1, <1>2, <2>1, <2>10, <2>11
  <2>13. /\ spentSeconds' \in Nat /\ spentSeconds <= spentSeconds' /\ fellBack \subseteq fellBack'
         /\ spentSeconds' + ValueAt(Open', j) + waited[j] = spentSeconds + ValueAt(Open, j) + waited'[j]
    BY <2>1, <2>2, <2>5
  <2> QED
    BY <1>1, <2>1, <2>12, <2>13 DEF Booked
<1> QED
  BY <1>3, <1>4, <1>5

\* A job that waits: what its batch has waited so far.
LEMMA WaitingTimes ==
    ASSUME JobsInv, TimeInv, NEW j \in Job, pc[j] \in Waiting
    PROVE  LET f == Top(j) IN
           /\ pc[j] \in Sending \cup Reading /\ j \notin fellBack /\ f \in FrameType
           /\ f.elapsed \in Nat /\ f.grace \in Nat /\ f.grace <= Grace /\ f.cap \in Nat /\ waited[j] \in Nat /\ spentSeconds \in Nat
           /\ j \in waits /\ ValueAt(Open, j) = f.elapsed
           /\ f.elapsed <= waited[j] /\ (waited[j] - f.elapsed) + f.cap <= WaitBudget
           /\ waited[j] - f.elapsed <= spentSeconds /\ waited[j] <= Limit
           /\ pc[j] = "polling" => f.elapsed < f.cap + PollInterval /\ f.grace = Grace
           /\ pc[j] = "canceling" => f.elapsed + f.grace < f.cap + PollInterval + Grace
<1>1. pc[j] \in Sending \cup Reading
  BY DEF Waiting, Sending
<1>2. /\ j \notin fellBack /\ Top(j) \in FrameType /\ j \in waits /\ waited[j] \in Nat /\ spentSeconds \in Nat
      /\ TimeOK(pc[j], Top(j), waited[j], FALSE, spentSeconds)
  <2>1. (j \in fellBack) = FALSE
    BY <1>1, Times
  <2> QED
    BY <1>1, <2>1, Times
<1>3. ValueAt(Open, j) = Top(j).elapsed
  BY <1>2, OpenValue
<1>4. Top(j).elapsed \in Nat /\ Top(j).grace \in Nat /\ Top(j).grace <= Grace /\ Top(j).cap \in Nat
  BY <1>2, Constants DEF FrameType
<1> QED
  BY <1>1, <1>2, <1>3, <1>4 DEF TimeOK

\* The wait of j goes on: g is its batch's call after it.
Sleeps(j, g) ==
    /\ frames' = [frames EXCEPT ![j] = Replaced(frames[j], g)] /\ g \in FrameType
    /\ UNCHANGED <<spentSeconds, waits, fellBack>>
    /\ waited' = [waited EXCEPT ![j] = waited[j] + (g.elapsed - Top(j).elapsed)]
    /\ g.cap = Top(j).cap /\ g.elapsed >= Top(j).elapsed

\* The call put on top is the top call.
LEMMA NewTopIs ==
    ASSUME JobsInv, NEW j \in Job, pc[j] \in Sending \cup Reading, NEW g \in FrameType,
           frames' = [frames EXCEPT ![j] = Replaced(frames[j], g)]
    PROVE  Top(j)' = g
<1>1. frames[j] \in Seq(FrameType) /\ frames[j] # <<>>
  BY StackIs DEF JobsInv
<1>2. frames'[j] = Replaced(frames[j], g)
  BY DEF JobsInv, TypeInv
<1>3. Len(Replaced(frames[j], g)) = Len(frames[j]) /\ Replaced(frames[j], g)[Len(frames[j])] = g
  BY <1>1, ReplacedIs
<1> QED
  BY <1>2, <1>3 DEF Top

\* Such a step accounts for its time.
LEMMA SleepsBooked ==
    ASSUME JobsInv, TimeInv, NEW j \in Job, pc[j] \in Waiting, NEW g, Sleeps(j, g), pc'[j] \in Waiting,
           pc'[j] = "polling" => g.elapsed < g.cap + PollInterval /\ g.grace = Grace,
           pc'[j] = "canceling" => g.elapsed + g.grace < g.cap + PollInterval + Grace
    PROVE  Booked(j)
<1> DEFINE f == Top(j)
           w == waited[j]
           d == g.elapsed - f.elapsed
           w2 == w + d
<1>1. /\ pc[j] \in Sending \cup Reading /\ j \notin fellBack
      /\ f.elapsed \in Nat /\ f.cap \in Nat /\ w \in Nat /\ spentSeconds \in Nat
      /\ j \in waits /\ ValueAt(Open, j) = f.elapsed
      /\ f.elapsed <= w /\ (w - f.elapsed) + f.cap <= WaitBudget /\ w - f.elapsed <= spentSeconds
  BY WaitingTimes
<1>2. Top(j)' = g /\ j \in waits' /\ waited'[j] = w2 /\ (j \in fellBack)' = FALSE
  <2>1. Top(j)' = g
    BY <1>1, NewTopIs DEF Sleeps
  <2>2. waited'[j] = w2
    BY DEF Sleeps, JobsInv, TypeInv
  <2>3. waits' = waits /\ fellBack' = fellBack
    BY DEF Sleeps
  <2> QED
    BY <1>1, <2>1, <2>2, <2>3
<1>3. ValueAt(Open', j) = g.elapsed
  BY <1>2, OpenValue
<1>4. g.elapsed \in Nat /\ g.grace \in Nat /\ g.cap = f.cap /\ g.elapsed >= f.elapsed /\ g.grace <= Grace
  BY Constants DEF Sleeps, FrameType
<1> HIDE DEF f, w
<1>5. w2 - g.elapsed = w - f.elapsed /\ g.elapsed <= w2 /\ w2 \in Nat
  BY <1>1, <1>4
<1>6. w2 <= Limit
  <2>1. CASE pc'[j] = "polling"
    <3>1. g.elapsed < g.cap + PollInterval
      BY <2>1
    <3> QED
      BY <1>1, <1>4, <1>5, <3>1, Constants DEF Limit
  <2>2. CASE pc'[j] = "canceling"
    <3>1. g.elapsed + g.grace < g.cap + PollInterval + Grace
      BY <2>2
    <3> QED
      BY <1>1, <1>4, <1>5, <3>1, Constants DEF Limit
  <2> QED
    BY <2>1, <2>2 DEF Waiting
<1>7. spentSeconds + g.elapsed + w = spentSeconds + f.elapsed + w2
  BY <1>1, <1>4
<1> HIDE DEF w2
<1>8. TimeOK(pc'[j], g, w2, FALSE, spentSeconds)
  BY <1>1, <1>4, <1>5, <1>6 DEF TimeOK, Waiting
<1> QED
  <2>1. spentSeconds' = spentSeconds /\ fellBack' = fellBack
    BY DEF Sleeps
  <2>2. TimeOK(pc'[j], Top(j)', waited'[j], (j \in fellBack)', spentSeconds')
    BY <1>2, <1>8, <2>1
  <2>3. /\ spentSeconds' \in Nat /\ spentSeconds <= spentSeconds'
        /\ spentSeconds' + ValueAt(Open', j) + waited[j] = spentSeconds + ValueAt(Open, j) + waited'[j]
    BY <1>1, <1>2, <1>3, <1>7, <2>1 DEF w, f
  <2> QED
    BY <1>2, <2>1, <2>2, <2>3 DEF Booked

\* The wait of j is over after its batch waited e seconds in all.
Wakes(j, e) ==
    /\ waits' = waits \ {j} /\ spentSeconds' = spentSeconds + e /\ e \in Nat
    /\ waited' = [waited EXCEPT ![j] = waited[j] + (e - Top(j).elapsed)]
    /\ e >= Top(j).elapsed /\ UNCHANGED fellBack

\* Such a step charges its wait to the budget.
LEMMA WakesBooked ==
    ASSUME JobsInv, TimeInv, NEW j \in Job, pc[j] \in Waiting, NEW e, Wakes(j, e),
           pc'[j] \notin Waiting, pc'[j] # "submitting",
           waited'[j] <= Limit
    PROVE  Booked(j)
<1> DEFINE f == Top(j)
           w == waited[j]
           w2 == w + (e - f.elapsed)
<1>1. /\ j \notin fellBack /\ f.elapsed \in Nat /\ w \in Nat /\ spentSeconds \in Nat
      /\ ValueAt(Open, j) = f.elapsed /\ f.elapsed <= w /\ w - f.elapsed <= spentSeconds
  BY WaitingTimes
<1>2. j \notin waits' /\ waited'[j] = w2 /\ (j \in fellBack)' = FALSE /\ e \in Nat /\ e >= f.elapsed
  BY <1>1 DEF Wakes, JobsInv, TypeInv
<1>3. ValueAt(Open', j) = 0
  BY <1>2, OpenValue
<1> HIDE DEF f, w
<1>4. w2 <= spentSeconds + e /\ spentSeconds + e \in Nat /\ spentSeconds <= spentSeconds + e
  BY <1>1, <1>2
<1>5. (spentSeconds + e) + 0 + w = spentSeconds + f.elapsed + w2
  BY <1>1, <1>2
<1> HIDE DEF w2
<1>6. TimeOK(pc'[j], Top(j)', w2, FALSE, spentSeconds + e)
  BY <1>2, <1>4 DEF TimeOK, Waiting
<1>7. spentSeconds' = spentSeconds + e /\ fellBack' = fellBack
  BY DEF Wakes
<1> QED
  BY <1>1, <1>2, <1>3, <1>4, <1>5, <1>6, <1>7 DEF Booked, w

\* Where a job goes is where it stands.
LEMMA PcIs ==
    ASSUME JobsInv, NEW j \in Job, NEW label, Goto(j, label)
    PROVE  pc'[j] = label
BY DEF Goto, JobsInv, TypeInv

\* batches.create opens a wait of nothing.
LEMMA SubmitBooked ==
    ASSUME JobsInv, TimeInv, NEW j \in Job, JobsInv', Submit(j)
    PROVE  Booked(j)
<1> DEFINE f == Top(j)
           w == waited[j]
<1>1. /\ pc[j] = "submitting" /\ pc'[j] = "polling" /\ waits' = waits \cup {j}
      /\ UNCHANGED <<frames, spentSeconds, waited, fellBack>>
  BY PcIs DEF Submit, history
<1>2. pc[j] \in Sending /\ pc[j] \notin Waiting /\ pc'[j] \in Waiting
  BY <1>1 DEF Sending, Waiting
<1>3. j \notin waits /\ (j \in fellBack) = FALSE /\ f \in FrameType /\ w \in Nat /\ spentSeconds \in Nat
  BY <1>2, Times
<1>4. TimeOK(pc[j], f, w, FALSE, spentSeconds)
  BY <1>3, Times
<1>5. f.elapsed = 0 /\ f.grace = Grace /\ w + f.cap <= WaitBudget /\ w <= spentSeconds /\ w <= Limit /\ f.cap \in Nat
  BY <1>1, <1>2, <1>3, <1>4 DEF TimeOK, FrameType
<1>6. Top(j)' = f /\ j \in waits' /\ (j \in fellBack') = FALSE
  BY <1>1, <1>3 DEF Top
<1>7. ValueAt(Open, j) = 0 /\ ValueAt(Open', j) = 0
  BY <1>3, <1>5, <1>6, OpenValue
<1> HIDE DEF f, w
<1>8. TimeOK("polling", f, w, FALSE, spentSeconds)
  <2>1. f.elapsed <= w /\ w - f.elapsed = w /\ f.elapsed < f.cap + PollInterval
    BY <1>3, <1>5, Constants
  <2> QED
    BY <1>5, <2>1 DEF TimeOK, Waiting
<1>9. TimeOK(pc'[j], Top(j)', waited'[j], (j \in fellBack)', spentSeconds')
  BY <1>1, <1>6, <1>8 DEF w
<1>10. /\ spentSeconds' \in Nat /\ spentSeconds <= spentSeconds' /\ fellBack \subseteq fellBack'
       /\ spentSeconds' + ValueAt(Open', j) + waited[j] = spentSeconds + ValueAt(Open, j) + waited'[j]
  BY <1>1, <1>3, <1>7
<1> QED
  BY <1>2, <1>6, <1>9, <1>10 DEF Booked

\* A poll waits on, or closes the wait and charges it; one that runs out of its cap has waited less
\* than a poll more.
LEMMA PollBooked ==
    ASSUME JobsInv, TimeInv, NEW j \in Job, JobsInv', Poll(j)
    PROVE  Booked(j)
<1> DEFINE f == Top(j)
<1>1. pc[j] = "polling" /\ pc[j] \in Waiting /\ UNCHANGED fellBack
  BY DEF Poll, Waiting
<1>2. /\ pc[j] \in Sending \cup Reading /\ f \in FrameType
      /\ f.elapsed \in Nat /\ f.cap \in Nat /\ waited[j] \in Nat /\ f.elapsed <= waited[j] /\ waited[j] <= Limit
      /\ f.elapsed < f.cap + PollInterval /\ f.grace = Grace
  BY <1>1, WaitingTimes
<1>3. waited \in [Job -> Nat]
  BY DEF JobsInv, TypeInv
<1>4. ASSUME CloseWait(j, f), Goto(j, "collecting"), UNCHANGED waited
      PROVE  Booked(j)
  <2>1. pc'[j] = "collecting" /\ pc'[j] \notin Waiting
    BY <1>4, PcIs DEF Waiting
  <2>2. waited' = [waited EXCEPT ![j] = waited[j] + (f.elapsed - f.elapsed)]
    <3>1. waited[j] + (f.elapsed - f.elapsed) = waited[j]
      BY <1>2
    <3> QED
      BY <1>3, <1>4, <3>1
  <2>3. Wakes(j, f.elapsed)
    <3>1. f.elapsed >= f.elapsed /\ f.elapsed \in Nat /\ f = Top(j)
      BY <1>2
    <3> HIDE DEF f
    <3> QED
      BY <1>1, <1>4, <2>2, <3>1 DEF Wakes, CloseWait
  <2> QED
    BY <1>1, <1>2, <1>4, <2>1, <2>3, WakesBooked
<1>5. ASSUME f.elapsed < f.cap, SetTop(j, [f EXCEPT !.elapsed = @ + PollInterval]),
             waited' = [waited EXCEPT ![j] = @ + PollInterval], UNCHANGED <<pc, waits, spentSeconds>>
      PROVE  Booked(j)
  <2> DEFINE g == [f EXCEPT !.elapsed = @ + PollInterval]
  <2>1. /\ g \in FrameType /\ g.cap = f.cap /\ g.grace = f.grace /\ g.elapsed = f.elapsed + PollInterval
    <3>1. f.elapsed + PollInterval \in Nat
      BY <1>2, Constants
    <3> HIDE DEF f
    <3> QED
      BY <1>2, <3>1 DEF FrameType
  <2>2. frames' = [frames EXCEPT ![j] = Replaced(frames[j], g)]
    BY <1>5 DEF SetTop, Replaced
  <2> HIDE DEF g, f
  <2>3. waited' = [waited EXCEPT ![j] = waited[j] + (g.elapsed - f.elapsed)]
    <3>1. g.elapsed - f.elapsed = PollInterval
      BY <1>2, <2>1, Constants
    <3> QED
      BY <1>5, <3>1
  <2>4. g.elapsed >= f.elapsed /\ g.elapsed < g.cap + PollInterval
    BY <1>2, <1>5, <2>1, Constants
  <2>5. Sleeps(j, g)
    BY <1>1, <1>5, <2>1, <2>2, <2>3, <2>4 DEF Sleeps, f
  <2>6. pc'[j] = "polling" /\ pc'[j] \in Waiting
    BY <1>1, <1>5
  <2> QED
    BY <1>1, <1>2, <2>1, <2>4, <2>5, <2>6, SleepsBooked
<1>6. ASSUME f.elapsed >= f.cap, SetTop(j, [f EXCEPT !.cancelled = TRUE]), Goto(j, "canceling"),
             UNCHANGED <<waits, spentSeconds, waited>>
      PROVE  Booked(j)
  <2> DEFINE g == [f EXCEPT !.cancelled = TRUE]
  <2>1. /\ g \in FrameType /\ g.cap = f.cap /\ g.grace = f.grace /\ g.elapsed = f.elapsed
    <3> HIDE DEF f
    <3> QED
      BY <1>2 DEF FrameType
  <2>2. frames' = [frames EXCEPT ![j] = Replaced(frames[j], g)]
    BY <1>6 DEF SetTop, Replaced
  <2> HIDE DEF g, f
  <2>3. waited' = [waited EXCEPT ![j] = waited[j] + (g.elapsed - f.elapsed)]
    <3>1. waited[j] + (g.elapsed - f.elapsed) = waited[j]
      BY <1>2, <2>1
    <3> QED
      BY <1>3, <1>6, <3>1
  <2>4. g.elapsed >= f.elapsed /\ g.elapsed + g.grace < g.cap + PollInterval + Grace
    BY <1>2, <2>1, Constants
  <2>5. Sleeps(j, g)
    BY <1>1, <1>6, <2>1, <2>2, <2>3, <2>4 DEF Sleeps, f
  <2>6. pc'[j] = "canceling" /\ pc'[j] \in Waiting
    BY <1>6, PcIs DEF Waiting
  <2> QED
    BY <1>1, <1>2, <2>1, <2>4, <2>5, <2>6, SleepsBooked
<1> QED
  BY <1>4, <1>5, <1>6 DEF Poll

\* So does a poll of a cancelled batch, whose grace adds to the cap.
LEMMA PollCancelledBooked ==
    ASSUME JobsInv, TimeInv, NEW j \in Job, JobsInv', PollCancelled(j)
    PROVE  Booked(j)
<1> DEFINE f == Top(j)
           nap == IF f.grace < PollInterval THEN f.grace ELSE PollInterval
           g == [f EXCEPT !.grace = @ - nap, !.elapsed = @ + nap]
<1>1. pc[j] = "canceling" /\ pc[j] \in Waiting /\ UNCHANGED fellBack
  BY DEF PollCancelled, Waiting
<1>2. /\ pc[j] \in Sending \cup Reading /\ f \in FrameType
      /\ f.elapsed \in Nat /\ f.cap \in Nat /\ f.grace \in Nat /\ f.grace <= Grace
      /\ waited[j] \in Nat /\ f.elapsed <= waited[j] /\ waited[j] <= Limit
      /\ (waited[j] - f.elapsed) + f.cap <= WaitBudget
      /\ f.elapsed + f.grace < f.cap + PollInterval + Grace
  BY <1>1, WaitingTimes
<1>3. waited \in [Job -> Nat]
  BY DEF JobsInv, TypeInv
<1>4. \/ /\ f.grace > 0
         /\ waited' = [waited EXCEPT ![j] = @ + nap]
         /\ SetTop(j, g)
         /\ UNCHANGED <<pc, waits, spentSeconds>> \/ (CloseWait(j, g) /\ Goto(j, "collecting"))
      \/ CloseWait(j, f) /\ Goto(j, "returning") /\ UNCHANGED waited
  BY DEF PollCancelled
<1>5. nap \in Nat /\ nap <= f.grace
  BY <1>2, Constants
<1> HIDE DEF nap
<1>6. ASSUME waited' = [waited EXCEPT ![j] = @ + nap], SetTop(j, g),
             \/ UNCHANGED <<pc, waits, spentSeconds>>
             \/ CloseWait(j, g) /\ Goto(j, "collecting")
      PROVE  Booked(j)
  <2>1. /\ g \in FrameType /\ g.cap = f.cap /\ g.grace = f.grace - nap /\ g.elapsed = f.elapsed + nap
    <3>1. f.grace - nap \in 0..Grace /\ f.elapsed + nap \in Nat
      BY <1>2, <1>5, Constants
    <3> HIDE DEF f
    <3> QED
      BY <1>2, <3>1 DEF FrameType
  <2>2. frames' = [frames EXCEPT ![j] = Replaced(frames[j], g)]
    BY <1>6 DEF SetTop, Replaced
  <2> HIDE DEF g, f
  <2>3. waited' = [waited EXCEPT ![j] = waited[j] + (g.elapsed - f.elapsed)]
    <3>1. g.elapsed - f.elapsed = nap
      BY <1>2, <1>5, <2>1
    <3> QED
      BY <1>6, <3>1
  <2>4. /\ g.elapsed >= f.elapsed /\ g.elapsed \in Nat
        /\ g.elapsed + g.grace < g.cap + PollInterval + Grace
    BY <1>2, <1>5, <2>1, Constants
  <2>5. CASE UNCHANGED <<pc, waits, spentSeconds>>
    <3>1. Sleeps(j, g)
      BY <1>1, <2>1, <2>2, <2>3, <2>4, <2>5 DEF Sleeps, f
    <3>2. pc'[j] = "canceling" /\ pc'[j] \in Waiting
      BY <1>1, <2>5
    <3> QED
      BY <1>1, <2>4, <3>1, <3>2, SleepsBooked
  <2>6. CASE CloseWait(j, g) /\ Goto(j, "collecting")
    <3>1. pc'[j] = "collecting" /\ pc'[j] \notin Waiting
      BY <2>6, PcIs DEF Waiting
    <3>2. Wakes(j, g.elapsed)
      BY <1>1, <2>3, <2>4, <2>6 DEF Wakes, CloseWait, f
    <3>3. waited'[j] = waited[j] + (g.elapsed - f.elapsed)
      BY <1>3, <2>3
    <3>4. waited'[j] <= Limit
      <4>1. g.grace \in Nat
        BY <1>2, <1>5, <2>1
      <4>2. (waited[j] - f.elapsed) + g.elapsed <= Limit
        BY <1>2, <2>1, <2>4, <4>1, Constants DEF Limit
      <4>3. waited[j] + (g.elapsed - f.elapsed) = (waited[j] - f.elapsed) + g.elapsed
        BY <1>2, <2>4
      <4> QED
        BY <3>3, <4>2, <4>3
    <3> QED
      BY <1>1, <3>1, <3>2, <3>4, WakesBooked
  <2> QED
    BY <1>6, <2>5, <2>6
<1>7. ASSUME CloseWait(j, f), Goto(j, "returning"), UNCHANGED waited
      PROVE  Booked(j)
  <2>1. pc'[j] = "returning" /\ pc'[j] \notin Waiting
    BY <1>7, PcIs DEF Waiting
  <2>2. waited' = [waited EXCEPT ![j] = waited[j] + (f.elapsed - f.elapsed)]
    <3>1. waited[j] + (f.elapsed - f.elapsed) = waited[j]
      BY <1>2
    <3> QED
      BY <1>3, <1>7, <3>1
  <2>3. Wakes(j, f.elapsed)
    <3>1. f.elapsed >= f.elapsed /\ f.elapsed \in Nat /\ f = Top(j)
      BY <1>2
    <3> HIDE DEF f
    <3> QED
      BY <1>1, <1>7, <2>2, <3>1 DEF Wakes, CloseWait
  <2> QED
    BY <1>1, <1>2, <1>7, <2>1, <2>3, WakesBooked
<1> QED
  BY <1>4, <1>6, <1>7

\* Opening a chunk waits for nothing: the cap of its batch fits the balance.
LEMMA NextChunkBooked ==
    ASSUME JobsInv, TimeInv, Floor # 0, NEW j \in Job, JobsInv', NextChunk(j)
    PROVE  Booked(j)
<1>1. /\ pc[j] \notin Waiting /\ pc[j] \notin Back /\ UNCHANGED <<spentSeconds, waits, waited, fellBack>>
  BY DEF NextChunk, Waiting, Back, budgets
<1>2. CASE pc'[j] \notin Waiting /\ pc'[j] # "submitting"
  BY <1>1, <1>2, Untimed
<1>3. ASSUME EnterBatch(j, <<>>, Frame(Chunk(j), <<>>, TRUE, MaxWait))
      PROVE  Booked(j)
  <2> DEFINE f == Frame(Chunk(j), <<>>, TRUE, MaxWait)
  <2>1. Chunk(j) \in Seq(Request) /\ <<>> \in Seq(Nat) /\ TRUE \in BOOLEAN /\ MaxWait \in Nat /\ <<>> \in Seq(FrameType)
    <3>1. results \in [Job -> Seq(Reply)] /\ Len(results[j]) <= N
      BY DEF JobsInv, TypeInv, JobInv, ResultsOK
    <3>2. Chunk(j) \in Seq(Request)
      BY <3>1, ChunkIs
    <3> QED
      BY <3>2, Constants, EmptySeq
  <2>2. Fresh(f, Chunk(j), <<>>, TRUE, MaxWait)
    BY <2>1, FrameIs, Zenon
  <2> HIDE DEF f
  <2>3. f \in FrameType /\ OwnIds(f) /\ f.temperatureIds = {} /\ f.elapsed = 0 /\ f.grace = Grace
    BY <2>2 DEF Fresh
  <2>4. PICK g, p : Entered(j, <<>>, f, g, p)
    BY <1>3, <2>3, EnteredIs DEF f, JobsInv
  <2> QED
    BY <1>1, <2>1, <2>3, <2>4, EnteredTimed
<1>4. ASSUME Goto(j, "done") \/ Goto(j, "chunking")
      PROVE  Booked(j)
  <2>1. pc'[j] \in {"done", "chunking"}
    BY <1>4, PcIs
  <2> QED
    BY <1>2, <2>1 DEF Waiting
<1> QED
  BY <1>3, <1>4 DEF NextChunk

\* Nor does a re-run: its cap is cut to the balance that is left.
LEMMA RerunBooked ==
    ASSUME JobsInv, TimeInv, Floor # 0, NEW j \in Job, JobsInv', RerunWithoutTemperature(j)
    PROVE  Booked(j)
<1> DEFINE f == Top(j)
           h == [f EXCEPT !.temperatureIds = {}]
           ids == f.temperatureIds
           again == Ascending(ids)
           asked == At(f.reqs, again)
           g0 == Frame(asked, again, FALSE, f.cap)
           below == Replaced(frames[j], h)
<1>1. /\ pc[j] = "settling" /\ ids # {} /\ EnterBatch(j, below, g0)
      /\ UNCHANGED <<spentSeconds, waits, waited, fellBack>>
  BY DEF RerunWithoutTemperature, Rerun, Replaced, Top, budgets, history
<1>2. pc[j] \in Sending \cup Reading /\ pc[j] \notin Back /\ pc[j] \notin Waiting
  BY <1>1 DEF Reading, Back, Waiting
<1>3. f \in FrameType /\ OwnIds(f) /\ f.reqs \in Seq(Request) /\ FALSE \in BOOLEAN
  BY <1>2, TopIs DEF JobsInv
<1>4. h \in FrameType /\ frames[j] # <<>> /\ frames[j] \in Seq(FrameType)
  BY <1>1, RerunStack, StackIs DEF JobsInv
<1>5. ids \in SUBSET (1..Len(f.reqs)) /\ f.cap \in Nat
  BY <1>3 DEF OwnIds, FrameType
<1>6. again \in Seq(Nat) /\ asked \in Seq(Request)
  <2> HIDE DEF f, ids
  <2> QED
    BY <1>3, <1>5, AtIs
<1>7. below \in Seq(FrameType)
  <2> HIDE DEF h
  <2> QED
    BY <1>4, ReplacedIs
<1>8. Fresh(g0, asked, again, FALSE, f.cap)
  <2> HIDE DEF asked, again, f
  <2> QED
    BY <1>3, <1>5, <1>6, FrameIs, Zenon
<1> HIDE DEF g0, h, below, asked, again, ids, f
<1>9. g0 \in FrameType /\ OwnIds(g0) /\ g0.temperatureIds = {} /\ g0.elapsed = 0 /\ g0.grace = Grace
  BY <1>8 DEF Fresh
<1>10. PICK g, p : Entered(j, below, g0, g, p)
  BY <1>1, <1>9, EnteredIs DEF JobsInv
<1> QED
  BY <1>1, <1>2, <1>7, <1>9, <1>10, EnteredTimed

\* An SDK error charges the wait it ends.
LEMMA BatchRaisesBooked ==
    ASSUME JobsInv, TimeInv, NEW j \in Job, JobsInv', BatchRaises(j)
    PROVE  Booked(j)
<1>1. /\ FallBack(j) /\ waits' = waits \ {j} /\ UNCHANGED <<spentSeconds, waited>>
  BY DEF BatchRaises, SdkRaises
<1>2. pc'[j] = "sequential" /\ fellBack' = fellBack \cup {j}
  BY <1>1, PcIs DEF FallBack
<1>3. spentSeconds \in Nat /\ waited[j] <= Limit /\ waits \in SUBSET Job
  BY Times DEF TimeOK
<1>4. TimeOK(pc'[j], Top(j)', waited'[j], TRUE, spentSeconds')
  BY <1>1, <1>3 DEF TimeOK
<1>5. TimeOK(pc'[j], Top(j)', waited'[j], (j \in fellBack)', spentSeconds')
  <2>1. (j \in fellBack)' = TRUE
    BY <1>2
  <2> QED
    BY <1>4, <2>1
<1> QED
  BY <1>1, <1>2, <1>3, <1>5 DEF Booked, Waiting

\* The other steps pass no time.
LEMMA OtherBooked ==
    ASSUME JobsInv, TimeInv, NEW j \in Job, JobsInv',
           \/ ServeSequentially(j) \/ Collect(j) \/ Settle(j) \/ RunRemainder(j)
           \/ RunChunkSequentially(j) \/ Return(j) \/ SequentialRaises(j) \/ RunSequentially(j)
    PROVE  Booked(j)
<1> USE DEF budgets, memo, history
<1>1. /\ pc[j] \in {"asked", "collecting", "settling", "remainder", "chunkSequential", "returning", "sequential"}
      /\ UNCHANGED spentSeconds /\ UNCHANGED waited /\ waits' = waits
  BY DEF ServeSequentially, Collect, Settle, RunRemainder, RunChunkSequentially, Return, SequentialRaises, RunSequentially
<1>2. fellBack \subseteq fellBack'
  BY DEF ServeSequentially, Collect, Settle, RunRemainder, RunChunkSequentially, Return, SequentialRaises, RunSequentially, FallBack
<1>3. \E label \in {"sequential", "settling", "remainder", "returning", "chunking", "done", "raised"} : Goto(j, label)
  BY DEF ServeSequentially, Collect, Settle, RunRemainder, RunChunkSequentially, Return, SequentialRaises, RunSequentially, FallBack
<1>4. pc'[j] \in {"sequential", "settling", "remainder", "returning", "chunking", "done", "raised"}
  BY <1>3, PcIs
<1>5. pc[j] \notin Waiting /\ pc'[j] \notin Waiting /\ pc'[j] # "submitting"
  BY <1>1, <1>4 DEF Waiting
<1> QED
  BY <1>1, <1>2, <1>5, Untimed

\* Every step accounts for its time.
LEMMA StepBooked ==
    ASSUME JobsInv, TimeInv, Floor # 0, NEW j \in Job, JobsInv', Step(j)
    PROVE  Booked(j)
BY SubmitBooked, PollBooked, PollCancelledBooked, NextChunkBooked, RerunBooked, BatchRaisesBooked, OtherBooked DEF Step

\* The invariant of the wait budget holds at first.
LEMMA TimeInit ==
    ASSUME Init
    PROVE  TimeInv
<1>1. /\ waits = {} /\ fellBack = {} /\ spentSeconds = 0 /\ waited = [j \in Job |-> 0] /\ pc = [j \in Job |-> "asked"]
  BY DEF Init
<1>2. ASSUME NEW j \in Job PROVE TimeOK(pc[j], Top(j), waited[j], j \in fellBack, spentSeconds)
  <2>1. 0 <= Limit /\ pc[j] = "asked" /\ waited[j] = 0 /\ spentSeconds = 0
    BY <1>1, Constants DEF Limit
  <2> QED
    BY <2>1 DEF TimeOK, Waiting
<1>3. EverySecondCharged
  <2>1. Total(waited) = 0
    <3>1. waited \in [Job -> Nat] /\ \A j \in Job : waited[j] <= 0
      BY <1>1
    <3>2. Total(waited) <= Cardinality(Job) * 0 /\ Total(waited) \in Nat
      BY <3>1, JobsAssumption, TotalIsBounded, TotalIs
    <3>3. Cardinality(Job) \in Nat
      BY JobsAssumption, FS_CardinalityType
    <3> QED
      BY <3>2, <3>3
  <2>2. Total([j \in waits |-> Top(j).elapsed]) = 0
    <3> DEFINE o == [j \in waits |-> Top(j).elapsed]
    <3>1. o \in [{} -> Nat] /\ \A j \in {} : o[j] <= 0
      BY <1>1
    <3>2. IsFiniteSet({}) /\ Cardinality({}) = 0
      BY FS_EmptySet
    <3> HIDE DEF o
    <3>3. Total(o) <= Cardinality({}) * 0 /\ Total(o) \in Nat
      BY <3>1, <3>2, TotalIsBounded, TotalIs
    <3>4. Total(o) = 0
      BY <3>2, <3>3
    <3> QED
      BY <3>4 DEF o
  <2> QED
    BY <1>1, <2>1, <2>2 DEF EverySecondCharged
<1> QED
  BY <1>1, <1>2, <1>3 DEF TimeInv, Waiting

\* Every step keeps it.
LEMMA TimeNext ==
    ASSUME JobsInv, TimeInv, Floor # 0, [Next]_vars, JobsInv'
    PROVE  TimeInv'
<1>1. ASSUME NEW j \in Job, Step(j) PROVE TimeInv'
  BY <1>1, StepBooked, BookedKeeps
<1>2. ASSUME UNCHANGED vars PROVE TimeInv'
  <2>1. UNCHANGED <<pc, frames, spentSeconds, waits, waited, fellBack>>
    BY <1>2 DEF vars, budgets, history
  <2>2. \A j \in Job : Top(j)' = Top(j)
    BY <2>1 DEF Top
  <2>3. EverySecondCharged'
    BY <2>1 DEF TimeInv, EverySecondCharged, Top
  <2>4. \A j \in Job : TimeOK(pc[j], Top(j), waited[j], j \in fellBack, spentSeconds)'
    <3> SUFFICES ASSUME NEW j \in Job PROVE TimeOK(pc[j], Top(j), waited[j], j \in fellBack, spentSeconds)'
      OBVIOUS
    <3>1. TimeOK(pc[j], Top(j), waited[j], j \in fellBack, spentSeconds)
      BY DEF TimeInv
    <3> QED
      BY <2>1, <2>2, <3>1 DEF TimeOK
  <2> QED
    BY <2>1, <2>3, <2>4 DEF TimeInv
<1> QED
  BY <1>1, <1>2 DEF Next, Finished

\* The batched replies a job may still be billed for: its batch is out, or some of it runs again.
OutBy(p, f) ==
    IF p \in Sending THEN Len(f.reqs) ELSE IF p = "settling" THEN Cardinality(f.temperatureIds) ELSE 0
OutOf == [j \in Job |-> OutBy(pc[j], Top(j))]
InFlight == (Cardinality(Job) - 1) * ChunkSize
AllBatched == \A j \in Job, r \in Request : billed[j].sequential[r] = 0
\* With every reply batched, what was paid and what is out are over the limit by no more than the
\* other jobs had out when this one was let out.
SpendInv ==
    /\ \A j \in Job : OutOf[j] <= ChunkSize
    /\ AllBatched => spentUsd + Total(OutOf) <= SpendLimit + InFlight

\* What is out is a number.
LEMMA OutIsNumber ==
    ASSUME NEW p, NEW res \in Seq(Reply), NEW fr \in Seq(FrameType), StackOK(p, res, fr)
    PROVE  OutBy(p, fr[Len(fr)]) \in Nat
<1>1. CASE p \in Sending \cup Reading
  <2> DEFINE f == fr[Len(fr)]
  <2>1. fr # <<>>
    BY <1>1 DEF StackOK
  <2>2. f \in FrameType /\ OwnIds(f) /\ Len(f.reqs) \in Nat
    BY <2>1, CallIs
  <2>3. f.temperatureIds \in SUBSET (1..Len(f.reqs))
    BY <2>2 DEF OwnIds
  <2>4. IsFiniteSet(f.temperatureIds)
    <3> HIDE DEF f
    <3>1. IsFiniteSet(1..Len(f.reqs))
      BY <2>2, FS_Interval
    <3> QED
      BY <2>3, <3>1, FS_Subset
  <2>5. Cardinality(f.temperatureIds) \in Nat
    BY <2>4, FS_CardinalityType
  <2> QED
    BY <2>2, <2>5 DEF OutBy
<1>2. CASE p \notin Sending \cup Reading
  BY <1>2 DEF OutBy, Reading
<1> QED
  BY <1>1, <1>2

\* What each job has out is a number, before and after a step.
LEMMA OutTypes ==
    ASSUME JobsInv, JobsInv'
    PROVE  OutOf \in [Job -> Nat] /\ OutOf' \in [Job -> Nat]
<1>1. \A j \in Job : OutBy(pc[j], Top(j)) \in Nat
  BY OutIsNumber DEF JobsInv, JobInv, TypeInv, Top
<1>2. \A j \in Job : OutBy(pc'[j], frames'[j][Len(frames'[j])]) \in Nat
  BY OutIsNumber DEF JobsInv, JobInv, TypeInv
<1> QED
  BY <1>1, <1>2 DEF OutOf, Top

\* A step of j pays for what it had out, or is let out under the limit.
Paid(j) ==
    /\ OutOf'[j] <= ChunkSize
    /\ \A r \in Request : billed'[j].sequential[r] = 0 => billed[j].sequential[r] = 0
    /\ (\A r \in Request : billed'[j].sequential[r] = 0) =>
          spentUsd' + OutOf'[j] <= spentUsd + OutOf[j] \/ spentUsd' + OutOf'[j] <= SpendLimit

\* Such a step keeps the invariant of the spend budget.
LEMMA PaidKeeps ==
    ASSUME JobsInv, SpendInv, JobsInv', NEW j \in Job, Step(j), Paid(j)
    PROVE  SpendInv'
<1>1. OutOf \in [Job -> Nat] /\ OutOf' \in [Job -> Nat]
  BY OutTypes
<1>2. \A k \in Job \ {j} : Same(k) /\ OutOf'[k] = OutOf[k]
  <2>1. \A k \in Job \ {j} : Same(k)
    BY OthersAreSame DEF JobsInv
  <2> QED
    BY <2>1 DEF OutOf, Top, Same
<1>3. \A k \in Job : OutOf'[k] <= ChunkSize
  BY <1>2 DEF SpendInv, Paid
<1>4. ASSUME AllBatched' PROVE spentUsd' + Total(OutOf') <= SpendLimit + InFlight
  <2>1. AllBatched
    BY <1>2, <1>4 DEF AllBatched, Same, Paid
  <2>2. spentUsd' + OutOf'[j] <= spentUsd + OutOf[j] \/ spentUsd' + OutOf'[j] <= SpendLimit
    BY <1>4 DEF AllBatched, Paid
  <2>3. spentUsd \in Nat /\ spentUsd' \in Nat /\ OutOf[j] \in Nat /\ OutOf'[j] \in Nat
    BY <1>1 DEF JobsInv, TypeInv
  <2>4. /\ Total(OutOf) \in Nat /\ Total(OutOf') \in Nat
        /\ Total(OutOf') + OutOf[j] = Total(OutOf) + OutOf'[j]
    <3>1. ValueAt(OutOf, j) = OutOf[j] /\ ValueAt(OutOf', j) = OutOf'[j]
      BY <1>1 DEF ValueAt
    <3> HIDE DEF OutOf
    <3> QED
      BY <1>1, <1>2, <3>1, JobsAssumption, TotalChanges
  <2>5. InFlight \in Int /\ SpendLimit \in Nat
    <3>1. Cardinality(Job) \in Nat
      BY JobsAssumption, FS_CardinalityType
    <3> QED
      BY <3>1, Constants DEF InFlight
  <2>6. CASE spentUsd' + OutOf'[j] <= spentUsd + OutOf[j]
    <3>1. spentUsd + Total(OutOf) <= SpendLimit + InFlight
      BY <2>1 DEF SpendInv
    <3> DEFINE t == Total(OutOf)
               t2 == Total(OutOf')
               o == OutOf[j]
               o2 == OutOf'[j]
               s == spentUsd
               s2 == spentUsd'
    <3>2. /\ t \in Nat /\ t2 \in Nat /\ o \in Nat /\ o2 \in Nat /\ s \in Nat /\ s2 \in Nat
          /\ t2 + o = t + o2 /\ s2 + o2 <= s + o /\ s + t <= SpendLimit + InFlight
      BY <2>3, <2>4, <2>6, <3>1
    <3> HIDE DEF t, t2, o, o2, s, s2, InFlight
    <3>3. s2 + t2 <= SpendLimit + InFlight
      BY <2>5, <3>2
    <3> QED
      BY <3>3 DEF t2, s2
  <2>7. CASE spentUsd' + OutOf'[j] <= SpendLimit
    <3> DEFINE rest == Without(Job, j, OutOf')
    <3>1. Total(OutOf') = ValueAt(OutOf', j) + Total(rest) /\ Total(rest) \in Nat
      <4> HIDE DEF OutOf
      <4> QED
        BY <1>1, JobsAssumption, TotalWithout
    <3>2. ValueAt(OutOf', j) = OutOf'[j]
      BY <1>1 DEF ValueAt
    <3>3. IsFiniteSet(Job \ {j}) /\ Cardinality(Job \ {j}) = Cardinality(Job) - 1
      BY JobsAssumption, FS_RemoveElement
    <3>4. rest \in [Job \ {j} -> Nat] /\ \A k \in Job \ {j} : rest[k] <= ChunkSize
      BY <1>1, <1>3 DEF Without
    <3> HIDE DEF rest
    <3>5. Total(rest) <= Cardinality(Job \ {j}) * ChunkSize
      BY <3>3, <3>4, Constants, TotalIsBounded
    <3>6. Total(rest) <= InFlight
      BY <3>3, <3>5 DEF InFlight
    <3> HIDE DEF InFlight, OutOf
    <3> QED
      BY <2>3, <2>5, <2>7, <3>1, <3>2, <3>6
  <2> QED
    BY <2>2, <2>6, <2>7
<1> QED
  BY <1>3, <1>4 DEF SpendInv, InFlight

\* A step that bills nothing.
LEMMA Unbilled ==
    ASSUME JobsInv, JobsInv', SpendInv, NEW j \in Job, OutOf'[j] <= OutOf[j], UNCHANGED billed, UNCHANGED spentUsd
    PROVE  Paid(j)
<1>1. OutOf[j] \in Nat /\ OutOf'[j] \in Nat /\ spentUsd \in Nat
  BY OutTypes DEF JobsInv, TypeInv
<1>2. OutOf'[j] <= ChunkSize
  BY <1>1, Constants DEF SpendInv
<1>3. spentUsd' + OutOf'[j] <= spentUsd + OutOf[j]
  BY <1>1
<1> QED
  BY <1>2, <1>3 DEF Paid

\* A step that bills replies of a batch.
LEMMA BatchBilled ==
    ASSUME JobsInv, JobsInv', SpendInv, NEW j \in Job, NEW reqs, NEW hit, IsFiniteSet(hit),
           Bill(j, reqs, hit, "batch"), OutOf'[j] + Cardinality(hit) <= OutOf[j]
    PROVE  Paid(j)
<1>1. OutOf[j] \in Nat /\ OutOf'[j] \in Nat /\ spentUsd \in Nat /\ Cardinality(hit) \in Nat
  BY OutTypes, FS_CardinalityType DEF JobsInv, TypeInv
<1>2. OutOf'[j] <= ChunkSize
  <2>1. OutOf[j] <= ChunkSize
    BY DEF SpendInv
  <2> QED
    BY <1>1, <2>1, Constants
<1>3. "batch" \in {"batch", "sequential"}
  OBVIOUS
<1>4. /\ BilledFor(billed[j], billed'[j], "batch", HitBy(reqs, hit))
      /\ spentUsd' = spentUsd + Cardinality(hit) * (IF "batch" = "batch" THEN 1 ELSE 2)
  BY <1>3, BillIs DEF JobsInv
<1>5. billed'[j].sequential = billed[j].sequential /\ spentUsd' = spentUsd + Cardinality(hit)
  BY <1>1, <1>4 DEF BilledFor
<1>6. spentUsd' + OutOf'[j] <= spentUsd + OutOf[j]
  BY <1>1, <1>5
<1> QED
  BY <1>2, <1>5, <1>6 DEF Paid

\* A step that runs requests sequentially.
LEMMA SequentialBilled ==
    ASSUME JobsInv, JobsInv', SpendInv, NEW j \in Job, NEW reqs, NEW hit, IsFiniteSet(hit), NEW temp,
           SequentialCalls(j, reqs, hit, temp), \A i \in hit : reqs[i] \in Request,
           OutOf'[j] <= OutOf[j]
    PROVE  Paid(j)
<1>1. OutOf[j] \in Nat /\ OutOf'[j] \in Nat /\ spentUsd \in Nat
  BY OutTypes DEF JobsInv, TypeInv
<1>2. OutOf'[j] <= ChunkSize
  <2>1. OutOf[j] <= ChunkSize
    BY DEF SpendInv
  <2> QED
    BY <1>1, <2>1, Constants
<1>3. /\ BilledFor(billed[j], billed'[j], "sequential", HitBy(reqs, hit))
      /\ hit = {} => spentUsd' = spentUsd
  BY SequentialCallsAre DEF JobsInv
<1>4. \A r \in Request : /\ billed[j].sequential[r] \in Nat
                         /\ billed'[j].sequential[r] =
                               IF r \in HitBy(reqs, hit) THEN billed[j].sequential[r] + 1 ELSE billed[j].sequential[r]
  <2>1. \A r \in Request : billed[j].sequential[r] \in Nat
    BY DEF JobsInv, TypeInv, Bills
  <2>2. \A r \in Request : billed'[j].sequential[r] =
                               IF r \in HitBy(reqs, hit) THEN billed[j].sequential[r] + 1 ELSE billed[j].sequential[r]
    BY <1>3 DEF BilledFor
  <2> QED
    BY <2>1, <2>2
<1>5. \A r \in Request : billed'[j].sequential[r] = 0 => billed[j].sequential[r] = 0
  BY <1>4
<1>6. (\A r \in Request : billed'[j].sequential[r] = 0) => spentUsd' + OutOf'[j] <= spentUsd + OutOf[j]
  <2> SUFFICES ASSUME \A r \in Request : billed'[j].sequential[r] = 0
               PROVE  spentUsd' + OutOf'[j] <= spentUsd + OutOf[j]
    OBVIOUS
  <2>1. \A r \in Request : r \notin HitBy(reqs, hit)
    BY <1>4
  <2>2. hit = {}
    BY <2>1 DEF HitBy
  <2> QED
    BY <1>1, <1>3, <2>2
<1> QED
  BY <1>2, <1>5, <1>6 DEF Paid

\* What is out, by where the job stands.
LEMMA OutAt ==
    ASSUME JobsInv, NEW j \in Job
    PROVE  /\ pc[j] \in Sending => OutOf[j] = Len(Top(j).reqs)
           /\ pc[j] = "settling" => OutOf[j] = Cardinality(Top(j).temperatureIds)
           /\ pc'[j] \in Sending => OutOf'[j] = Len(Top(j)'.reqs)
           /\ pc'[j] = "settling" => OutOf'[j] = Cardinality(Top(j)'.temperatureIds)
           /\ pc'[j] \notin Sending \cup {"settling"} => OutOf'[j] = 0
BY DEF OutOf, OutBy, Sending

\* The call on top is the one that was put there.
LEMMA TopSet ==
    ASSUME JobsInv, NEW j \in Job, pc[j] \in Sending \cup Reading, NEW g, SetTop(j, g)
    PROVE  Top(j)' = g
<1> DEFINE fr == frames[j]
           S == FrameType \cup {g}
<1>1. fr \in Seq(FrameType) /\ fr # <<>> /\ frames'[j] = [fr EXCEPT ![Len(fr)] = g]
  BY StackIs DEF JobsInv, TypeInv, SetTop
<1>2. Len(fr) \in Nat \ {0} /\ \A i \in 1..Len(fr) : fr[i] \in FrameType
  BY <1>1, EmptySeq, ElementOfSeq
<1>3. fr \in Seq(S)
  <2>1. fr \in [1..Len(fr) -> S]
    <3>1. fr \in [1..Len(fr) -> FrameType]
      BY <1>1, LenProperties
    <3>2. FrameType \subseteq S
      OBVIOUS
    <3> QED
      BY <3>1, <3>2, Zenon
  <2> HIDE DEF S, fr
  <2> QED
    BY <1>2, <2>1, IsSequence
<1> HIDE DEF S
<1>4. g \in S /\ Len(fr) \in 1..Len(fr)
  BY <1>2 DEF S
<1> HIDE DEF fr
<1>5. /\ Len([fr EXCEPT ![Len(fr)] = g]) = Len(fr)
      /\ \A i \in 1..Len(fr) : [fr EXCEPT ![Len(fr)] = g][i] = IF i = Len(fr) THEN g ELSE fr[i]
  BY <1>3, <1>4, ExceptSeq
<1> QED
  BY <1>1, <1>4, <1>5 DEF Top

\* Submitting and polling pay for nothing and let nothing out.
LEMMA WaitsPaid ==
    ASSUME JobsInv, JobsInv', SpendInv, NEW j \in Job, Submit(j) \/ Poll(j) \/ PollCancelled(j)
    PROVE  Paid(j)
<1> DEFINE f == Top(j)
           n == Len(f.reqs)
<1>1. pc[j] \in Sending /\ UNCHANGED billed /\ UNCHANGED spentUsd
  BY DEF Submit, Poll, PollCancelled, Sending, history
<1>2. f \in FrameType /\ n \in Nat /\ OutOf[j] = n
  BY <1>1, TopIs, OutAt DEF JobsInv
<1>3. pc'[j] \in {"polling", "collecting", "canceling", "returning"}
  <2>1. \/ UNCHANGED pc /\ pc[j] \in {"polling", "canceling"}
        \/ Goto(j, "polling") \/ Goto(j, "collecting") \/ Goto(j, "canceling") \/ Goto(j, "returning")
    BY DEF Submit, Poll, PollCancelled
  <2> QED
    BY <2>1, PcIs
<1>4. pc'[j] # "returning" => Top(j)'.reqs = f.reqs
  <2>1. CASE UNCHANGED frames
    BY <2>1 DEF Top
  <2>2. ASSUME NEW g, SetTop(j, g), g.reqs = f.reqs PROVE Top(j)'.reqs = f.reqs
    BY <1>1, <2>2, TopSet
  <2>3. CASE Submit(j)
    BY <2>1, <2>3 DEF Submit
  <2>4. CASE Poll(j)
    <3>1. \/ UNCHANGED frames
          \/ SetTop(j, [f EXCEPT !.elapsed = @ + PollInterval])
          \/ SetTop(j, [f EXCEPT !.cancelled = TRUE])
      BY <2>4 DEF Poll
    <3>2. /\ [f EXCEPT !.elapsed = @ + PollInterval].reqs = f.reqs
          /\ [f EXCEPT !.cancelled = TRUE].reqs = f.reqs
      <4> HIDE DEF f
      <4> QED
        BY <1>2 DEF FrameType
    <3> QED
      BY <2>1, <2>2, <3>1, <3>2
  <2>5. CASE PollCancelled(j)
    <3> DEFINE nap == IF f.grace < PollInterval THEN f.grace ELSE PollInterval
               g == [f EXCEPT !.grace = @ - nap, !.elapsed = @ + nap]
    <3>1. SetTop(j, g) \/ Goto(j, "returning")
      BY <2>5 DEF PollCancelled
    <3>2. g.reqs = f.reqs
      <4> HIDE DEF f, nap
      <4> QED
        BY <1>2 DEF FrameType
    <3> HIDE DEF g
    <3> QED
      BY <2>2, <3>1, <3>2, PcIs
  <2> QED
    BY <2>3, <2>4, <2>5
<1>5. OutOf'[j] <= n
  <2>1. CASE pc'[j] = "returning"
    <3>1. OutOf'[j] = 0
      BY <2>1, OutAt DEF Sending
    <3> HIDE DEF n
    <3> QED
      BY <1>2, <3>1
  <2>2. CASE pc'[j] # "returning"
    <3>1. OutOf'[j] = Len(Top(j)'.reqs)
      BY <1>3, <2>2, OutAt DEF Sending
    <3>2. OutOf'[j] = n
      BY <1>4, <2>2, <3>1
    <3> HIDE DEF n
    <3> QED
      BY <1>2, <3>2
  <2> QED
    BY <2>1, <2>2
<1> QED
  BY <1>1, <1>2, <1>5, Unbilled

\* A job with nothing out after the step has no more out than before.
LEMMA NothingOut ==
    ASSUME JobsInv, JobsInv', NEW j \in Job, pc'[j] \notin Sending \cup {"settling"}
    PROVE  OutOf'[j] <= OutOf[j]
<1>1. OutOf[j] \in Nat /\ OutOf'[j] = 0
  BY OutTypes, OutAt
<1> QED
  BY <1>1

\* Nor do the registry's choice and settling.
LEMMA QuietPaid ==
    ASSUME JobsInv, JobsInv', SpendInv, NEW j \in Job, ServeSequentially(j) \/ Settle(j)
    PROVE  Paid(j)
<1>1. UNCHANGED billed /\ UNCHANGED spentUsd
  BY DEF ServeSequentially, Settle, history, budgets
<1>2. Goto(j, "sequential") \/ Goto(j, "remainder") \/ Goto(j, "returning")
  BY DEF ServeSequentially, Settle
<1>3. pc'[j] \notin Sending \cup {"settling"}
  BY <1>2, PcIs DEF Sending
<1> QED
  BY <1>1, <1>3, NothingOut, Unbilled

\* Returning to the chunk takes its refused requests off what is out.
LEMMA ReturnPaid ==
    ASSUME JobsInv, JobsInv', SpendInv, NEW j \in Job, Return(j)
    PROVE  Paid(j)
<1> DEFINE fr == frames[j]
           g == Top(j)
           f == fr[1]
<1>1. UNCHANGED billed /\ UNCHANGED spentUsd /\ pc[j] = "returning" /\ pc[j] \in Reading
  BY DEF Return, history, budgets, Reading
<1>2. CASE Front(fr) = <<>>
  <2>1. pc'[j] = "chunking"
    BY <1>2, PcIs DEF Return
  <2> QED
    BY <1>1, <2>1, NothingOut, Unbilled DEF Sending
<1>3. CASE Front(fr) # <<>>
  <2> DEFINE below == Front(fr)
             h == [f EXCEPT !.texts = Fill(@, g.fills, g.texts)]
  <2>1. fr \in Seq(FrameType) /\ fr # <<>> /\ Len(fr) \in {1, 2} /\ StackOK(pc[j], results[j], fr)
    BY <1>1, StackIs, TopIs DEF JobsInv
  <2>2. Len(fr) = 2 /\ below \in Seq(FrameType) /\ Len(below) = 1 /\ below[1] = f
    BY <1>3, <2>1, BelowIs
  <2>3. f \in FrameType /\ f.temperatureIds = {}
    BY <2>1, <2>2, ElementOfSeq DEF StackOK, RerunOf
  <2>4. pc'[j] = "settling"
    BY <1>3, PcIs DEF Return
  <2>5. frames'[j] = [below EXCEPT ![1] = h]
    BY <1>3, <2>2 DEF Return, JobsInv, TypeInv
  <2>6. h.temperatureIds = {}
    <3> HIDE DEF f, g
    <3> QED
      BY <2>3 DEF FrameType
  <2>7. Len(frames'[j]) = 1 /\ frames'[j][1] = h
    <3>1. DOMAIN below = 1..1
      BY <2>2, LenProperties
    <3>2. DOMAIN frames'[j] = 1..1 /\ frames'[j][1] = h
      BY <2>5, <3>1
    <3>3. frames'[j] \in Seq(FrameType)
      BY DEF JobsInv, TypeInv
    <3>4. Len(frames'[j]) \in Nat /\ DOMAIN frames'[j] = 1..Len(frames'[j])
      BY <3>3, LenProperties
    <3>5. 1..Len(frames'[j]) = 1..1
      BY <3>2, <3>4
    <3>6. Len(frames'[j]) = 1
      <4> DEFINE L == Len(frames'[j])
      <4>1. L \in Nat /\ 1..L = 1..1
        BY <3>4, <3>5
      <4> HIDE DEF L
      <4>2. 1 \in 1..L
        BY <4>1
      <4>3. L \in 1..L
        BY <4>1, <4>2
      <4>4. L \in 1..1
        BY <4>1, <4>3
      <4>5. L = 1
        BY <4>4
      <4> QED
        BY <4>5 DEF L
    <3> QED
      BY <3>2, <3>6
  <2>8. Top(j)'.temperatureIds = {}
    BY <2>6, <2>7 DEF Top
  <2>9. OutOf'[j] = 0 /\ OutOf[j] \in Nat
    <3>1. OutOf'[j] = Cardinality({})
      BY <2>4, <2>8, OutAt
    <3> QED
      BY <3>1, FS_EmptySet, OutTypes
  <2>10. OutOf'[j] <= OutOf[j]
    BY <2>9
  <2> QED
    BY <1>1, <2>10, Unbilled
<1> QED
  BY <1>2, <1>3

\* Reading results pays for replies that were out.
LEMMA CollectPaid ==
    ASSUME JobsInv, JobsInv', SpendInv, NEW j \in Job, Collect(j)
    PROVE  Paid(j)
<1> DEFINE f == Top(j)
           n == Len(f.reqs)
<1>1. pc[j] = "collecting" /\ pc'[j] = "settling" /\ pc[j] \in Sending
  BY PcIs DEF Collect, Sending
<1>2. f \in FrameType /\ n \in Nat /\ DOMAIN f.reqs = 1..n /\ OutOf[j] = n
  BY <1>1, TopIs, OutAt DEF JobsInv
<1>3a. PICK outcome \in [1..n -> BatchOutcome(f)] : \E t, c :
         /\ SetTop(j, [f EXCEPT !.texts = t, !.canceledIds = c, !.temperatureIds = {i \in 1..n : outcome[i] = "temperature"}])
         /\ Bill(j, f.reqs, {i \in 1..n : outcome[i] \in Billable}, "batch")
  BY <1>2 DEF Collect
<1>3. PICK t, c :
         /\ SetTop(j, [f EXCEPT !.texts = t, !.canceledIds = c, !.temperatureIds = {i \in 1..n : outcome[i] = "temperature"}])
         /\ Bill(j, f.reqs, {i \in 1..n : outcome[i] \in Billable}, "batch")
  BY <1>3a
<1> DEFINE again == {i \in 1..n : outcome[i] = "temperature"}
           hit == {i \in 1..n : outcome[i] \in Billable}
           g == [f EXCEPT !.texts = t, !.canceledIds = c, !.temperatureIds = again]
<1>4. SetTop(j, g) /\ Bill(j, f.reqs, hit, "batch")
  BY <1>3
<1>5. again \cap hit = {} /\ again \in SUBSET (1..n) /\ hit \in SUBSET (1..n)
  BY DEF Billable
<1> HIDE DEF again, hit
<1>6. Top(j)'.temperatureIds = again
  <2>1. g.temperatureIds = again
    <3> HIDE DEF f
    <3> QED
      BY <1>2 DEF FrameType
  <2> HIDE DEF g
  <2> QED
    BY <1>1, <1>4, <2>1, TopSet
<1> HIDE DEF n
<1>7. IsFiniteSet(1..n) /\ Cardinality(1..n) = n
  BY <1>2, FS_Interval
<1>8. IsFiniteSet(again) /\ IsFiniteSet(hit) /\ Cardinality(again) \in Nat /\ Cardinality(hit) \in Nat
  BY <1>5, <1>7, FS_Subset, FS_CardinalityType
<1>9. Cardinality(again) + Cardinality(hit) <= n
  <2>1. Cardinality(again \cup hit) = Cardinality(again) + Cardinality(hit) - Cardinality(again \cap hit)
    BY <1>8, FS_Union
  <2>2. Cardinality(again \cap hit) = 0
    BY <1>5, FS_EmptySet
  <2>3. again \cup hit \in SUBSET (1..n)
    BY <1>5
  <2>4. Cardinality(again \cup hit) <= n
    BY <1>7, <2>3, FS_Subset
  <2> QED
    BY <1>8, <2>1, <2>2, <2>4
<1>10. OutOf'[j] + Cardinality(hit) <= OutOf[j]
  <2>1. OutOf'[j] = Cardinality(again)
    BY <1>1, <1>6, OutAt
  <2> QED
    BY <1>2, <1>9, <2>1
<1> QED
  BY <1>4, <1>8, <1>10, BatchBilled

\* An SDK error pays for some of the replies that were out.
LEMMA BatchRaisesPaid ==
    ASSUME JobsInv, JobsInv', SpendInv, NEW j \in Job, BatchRaises(j)
    PROVE  Paid(j)
<1> DEFINE f == Top(j)
           n == Len(f.reqs)
<1>1. pc[j] \in Sending /\ Goto(j, "sequential")
  BY DEF BatchRaises, SdkRaises, Sending, FallBack
<1>2. n \in Nat /\ DOMAIN f.reqs = 1..n /\ OutOf[j] = n
  BY <1>1, TopIs, OutAt DEF JobsInv
<1>3. PICK hit \in SUBSET (1..n) : Bill(j, f.reqs, hit, "batch")
  BY <1>2 DEF BatchRaises, SdkRaises
<1> HIDE DEF n
<1>4. IsFiniteSet(1..n) /\ Cardinality(1..n) = n
  BY <1>2, FS_Interval
<1>5. IsFiniteSet(hit) /\ Cardinality(hit) <= n /\ Cardinality(hit) \in Nat
  BY <1>4, FS_Subset, FS_CardinalityType
<1>6. OutOf'[j] = 0
  BY <1>1, PcIs, OutAt DEF Sending
<1>7. OutOf'[j] + Cardinality(hit) <= OutOf[j]
  BY <1>2, <1>5, <1>6
<1> QED
  BY <1>3, <1>5, <1>7, BatchBilled

\* A chunk is let out only under the limit, replies out elsewhere aside.
LEMMA NextChunkPaid ==
    ASSUME JobsInv, JobsInv', SpendInv, NEW j \in Job, NextChunk(j)
    PROVE  Paid(j)
<1>1. UNCHANGED billed /\ UNCHANGED spentUsd
  BY DEF NextChunk, budgets
<1>2. ASSUME Goto(j, "done") \/ Goto(j, "chunking") PROVE Paid(j)
  <2>1. pc'[j] \notin Sending \cup {"settling"}
    BY <1>2, PcIs DEF Sending
  <2> QED
    BY <1>1, <2>1, NothingOut, Unbilled
<1>3. ASSUME AllowsChunk(Len(Chunk(j))), EnterBatch(j, <<>>, Frame(Chunk(j), <<>>, TRUE, MaxWait))
      PROVE  Paid(j)
  <2> DEFINE chunk == Chunk(j)
             f == Frame(chunk, <<>>, TRUE, MaxWait)
  <2>1. /\ chunk \in Seq(Request) /\ <<>> \in Seq(Nat) /\ TRUE \in BOOLEAN /\ MaxWait \in Nat
        /\ Len(chunk) <= ChunkSize /\ Len(chunk) \in Nat
    <3>1. results \in [Job -> Seq(Reply)] /\ Len(results[j]) <= N
      BY DEF JobsInv, TypeInv, JobInv, ResultsOK
    <3>2. chunk \in Seq(Request) /\ Len(chunk) <= ChunkSize
      BY <3>1, ChunkIs
    <3> QED
      BY <3>2, Constants, EmptySeq, LenProperties
  <2>2. Fresh(f, chunk, <<>>, TRUE, MaxWait)
    BY <2>1, FrameIs, Zenon
  <2> HIDE DEF f
  <2>3. f \in FrameType /\ OwnIds(f) /\ f.temperatureIds = {} /\ f.reqs = chunk
    BY <2>2 DEF Fresh
  <2>4. PICK g, p : Entered(j, <<>>, f, g, p)
    BY <1>3, <2>3, EnteredIs DEF f, JobsInv
  <2>5. pc'[j] \in Sending /\ frames'[j] = Append(<<>>, g) /\ g \in FrameType /\ g.reqs = chunk
    BY <2>3, <2>4 DEF Entered, JobsInv, TypeInv, Sending
  <2>6. Top(j)' = g
    BY <2>5, OneCall DEF Top
  <2>7. OutOf'[j] = Len(chunk)
    BY <2>5, <2>6, OutAt
  <2>8. spentUsd + Len(chunk) <= SpendLimit
    BY <1>3 DEF AllowsChunk
  <2> HIDE DEF chunk
  <2> QED
    BY <1>1, <2>1, <2>7, <2>8 DEF Paid
<1> QED
  BY <1>2, <1>3 DEF NextChunk

\* A re-run takes out again what was refused, no more.
LEMMA RerunPaid ==
    ASSUME JobsInv, JobsInv', SpendInv, NEW j \in Job, RerunWithoutTemperature(j)
    PROVE  Paid(j)
<1> DEFINE f == Top(j)
           h == [f EXCEPT !.temperatureIds = {}]
           ids == f.temperatureIds
           again == Ascending(ids)
           asked == At(f.reqs, again)
           g0 == Frame(asked, again, FALSE, f.cap)
           below == Replaced(frames[j], h)
<1>1. /\ pc[j] = "settling" /\ ids # {} /\ EnterBatch(j, below, g0)
      /\ UNCHANGED billed /\ UNCHANGED spentUsd
  BY DEF RerunWithoutTemperature, Rerun, Replaced, Top, budgets, history
<1>2. pc[j] \in Sending \cup Reading
  BY <1>1 DEF Reading
<1>3. f \in FrameType /\ OwnIds(f) /\ f.reqs \in Seq(Request) /\ FALSE \in BOOLEAN /\ Len(f.reqs) \in Nat
  BY <1>2, TopIs DEF JobsInv
<1>4. h \in FrameType /\ frames[j] # <<>> /\ frames[j] \in Seq(FrameType)
  BY <1>1, RerunStack, StackIs DEF JobsInv
<1>5. ids \in SUBSET (1..Len(f.reqs)) /\ f.cap \in Nat
  BY <1>3 DEF OwnIds, FrameType
<1>6. /\ again \in Seq(Nat) /\ asked \in Seq(Request) /\ Len(again) = Len(asked)
      /\ again \in [1..Cardinality(ids) -> ids] /\ Cardinality(ids) \in Nat
  <2> HIDE DEF f, ids
  <2> QED
    BY <1>3, <1>5, AtIs, AscendingIs
<1>7. below \in Seq(FrameType)
  <2> HIDE DEF h
  <2> QED
    BY <1>4, ReplacedIs
<1>8. Fresh(g0, asked, again, FALSE, f.cap)
  <2> HIDE DEF asked, again, f
  <2> QED
    BY <1>3, <1>5, <1>6, FrameIs, Zenon
<1> HIDE DEF g0, h, below, asked, again, ids, f
<1>9. Len(again) = Cardinality(ids)
  <2>1. Len(again) = Cardinality(ids)
    BY <1>6, IsSequence
  <2> QED
    BY <2>1
<1>10. g0 \in FrameType /\ OwnIds(g0) /\ g0.temperatureIds = {} /\ g0.reqs = asked
  BY <1>8 DEF Fresh
<1>11. PICK g, p : Entered(j, below, g0, g, p)
  BY <1>1, <1>10, EnteredIs DEF JobsInv
<1>12. pc'[j] \in Sending /\ frames'[j] = Append(below, g) /\ g \in FrameType /\ g.reqs = asked
  BY <1>10, <1>11 DEF Entered, JobsInv, TypeInv, Sending
<1>13. Top(j)' = g
  <2>1. Len(Append(below, g)) = Len(below) + 1 /\ Append(below, g)[Len(below) + 1] = g
    BY <1>7, <1>12, AppendProperties
  <2> QED
    BY <1>12, <2>1 DEF Top
<1>14. OutOf'[j] = Len(asked)
  BY <1>12, <1>13, OutAt
<1>15. OutOf[j] = Cardinality(ids)
  BY <1>1, OutAt DEF ids, f
<1>16. OutOf'[j] <= OutOf[j]
  <2>1. Len(asked) = Len(again)
    BY <1>6
  <2>2. Len(asked) = Cardinality(ids)
    BY <1>9, <2>1
  <2>3. OutOf'[j] = OutOf[j] /\ OutOf[j] \in Nat
    BY <1>1, <1>14, <1>15, <2>2, OutTypes, Zenon
  <2> QED
    BY <2>3
<1> QED
  BY <1>1, <1>16, Unbilled

\* The requests a sequential run of part of the top call asks for.
LEMMA RemainderIs ==
    ASSUME JobsInv, NEW j \in Job, pc[j] \in {"remainder", "chunkSequential"}
    PROVE  LET f == Top(j)
               again == Ascending(f.canceledIds)
           IN  /\ f.reqs \in Seq(Request) /\ At(f.reqs, again) \in Seq(Request)
               /\ DOMAIN again = 1..Len(again) /\ Len(again) = Len(At(f.reqs, again))
<1>1. pc[j] \in Sending \cup Reading
  BY DEF Sending, Reading
<1>2. Top(j).reqs \in Seq(Request) /\ Top(j).canceledIds \in SUBSET (1..Len(Top(j).reqs))
  BY <1>1, TopIs DEF JobsInv, OwnIds
<1> DEFINE reqs == Top(j).reqs
           ids == Top(j).canceledIds
<1>3. reqs \in Seq(Request) /\ ids \in SUBSET (1..Len(reqs))
  BY <1>2
<1> HIDE DEF reqs, ids
<1>4. /\ At(reqs, Ascending(ids)) \in Seq(Request)
      /\ DOMAIN Ascending(ids) = 1..Len(Ascending(ids)) /\ Len(Ascending(ids)) = Len(At(reqs, Ascending(ids)))
  BY <1>3, AtIs
<1> QED
  BY <1>3, <1>4 DEF reqs, ids

\* Positions of a list of requests.
LEMMA PositionsAre ==
    ASSUME NEW reqs \in Seq(Request), NEW hit \in SUBSET (1..Len(reqs))
    PROVE  IsFiniteSet(hit) /\ \A i \in hit : reqs[i] \in Request
<1>1. Len(reqs) \in Nat /\ \A i \in 1..Len(reqs) : reqs[i] \in Request
  BY LenProperties, ElementOfSeq
<1>2. IsFiniteSet(1..Len(reqs))
  BY <1>1, FS_Interval
<1>3. IsFiniteSet(hit)
  BY <1>2, FS_Subset
<1> QED
  BY <1>1, <1>3

\* A sequential call that fails the account has billed sequentially, or not at all.
LEMMA FailsPaid ==
    ASSUME JobsInv, JobsInv', SpendInv, NEW j \in Job, NEW reqs \in Seq(Request), NEW temp,
           AccountFails(j, reqs, temp), pc'[j] \notin Sending \cup {"settling"}
    PROVE  Paid(j)
<1>1. PICK hit \in SUBSET (1..(Len(reqs) - 1)) : SequentialCalls(j, reqs, hit, temp)
  BY DEF AccountFails
<1>2. hit \in SUBSET (1..Len(reqs))
  <2>1. Len(reqs) \in Nat
    BY LenProperties
  <2>2. 1..(Len(reqs) - 1) \subseteq 1..Len(reqs)
    BY <2>1
  <2> QED
    BY <2>2
<1>3. IsFiniteSet(hit) /\ \A i \in hit : reqs[i] \in Request
  BY <1>2, PositionsAre
<1>4. OutOf'[j] <= OutOf[j]
  BY NothingOut
<1> QED
  BY <1>1, <1>3, <1>4, SequentialBilled

\* Nor does a sequential run let anything out.
LEMMA SequentialPaid ==
    ASSUME JobsInv, JobsInv', SpendInv, NEW j \in Job,
           RunRemainder(j) \/ RunChunkSequentially(j) \/ SequentialRaises(j) \/ RunSequentially(j)
    PROVE  Paid(j)
<1>1. \E label \in {"returning", "sequential", "done", "raised"} : Goto(j, label)
  BY DEF RunRemainder, RunChunkSequentially, SequentialRaises, RunSequentially, FallBack
<1>2. pc'[j] \notin Sending \cup {"settling"} /\ OutOf'[j] <= OutOf[j]
  <2>1. pc'[j] \notin Sending \cup {"settling"}
    BY <1>1, PcIs DEF Sending
  <2> QED
    BY <2>1, NothingOut
<1>3. CASE RunRemainder(j)
  <2> DEFINE f == Top(j)
             again == Ascending(f.canceledIds)
             reqs == At(f.reqs, again)
  <2>1. reqs \in Seq(Request) /\ DOMAIN again = 1..Len(reqs)
    BY <1>3, RemainderIs DEF RunRemainder
  <2>2. PICK outcome : SequentialCalls(j, reqs, {i \in DOMAIN reqs : outcome[i] \in Billable}, AskedTemp(j))
    BY <1>3 DEF RunRemainder, Sequentially
  <2> HIDE DEF reqs
  <2> DEFINE hit == {i \in DOMAIN reqs : outcome[i] \in Billable}
  <2>3. hit \in SUBSET (1..Len(reqs))
    BY <2>1, LenProperties
  <2> HIDE DEF hit
  <2>4. IsFiniteSet(hit) /\ \A i \in hit : reqs[i] \in Request
    BY <2>1, <2>3, PositionsAre
  <2> QED
    BY <1>2, <2>2, <2>4, SequentialBilled DEF hit
<1>4. CASE RunChunkSequentially(j)
  <2> DEFINE reqs == Top(j).reqs
  <2>1. reqs \in Seq(Request)
    BY <1>4, RemainderIs DEF RunChunkSequentially
  <2>2. PICK outcome : SequentialCalls(j, reqs, {i \in DOMAIN reqs : outcome[i] \in Billable}, AskedTemp(j))
    BY <1>4 DEF RunChunkSequentially, Sequentially
  <2> HIDE DEF reqs
  <2> DEFINE hit == {i \in DOMAIN reqs : outcome[i] \in Billable}
  <2>3. hit \in SUBSET (1..Len(reqs))
    BY <2>1, LenProperties
  <2> HIDE DEF hit
  <2>4. IsFiniteSet(hit) /\ \A i \in hit : reqs[i] \in Request
    BY <2>1, <2>3, PositionsAre
  <2> QED
    BY <1>2, <2>2, <2>4, SequentialBilled DEF hit
<1>5. CASE SequentialRaises(j)
  <2> DEFINE f == Top(j)
             reqs == IF pc[j] = "remainder" THEN At(f.reqs, Ascending(f.canceledIds)) ELSE f.reqs
  <2>1. pc[j] \in {"remainder", "chunkSequential"} /\ AccountFails(j, reqs, AskedTemp(j))
    BY <1>5 DEF SequentialRaises
  <2>2. reqs \in Seq(Request)
    BY <2>1, RemainderIs
  <2> HIDE DEF reqs
  <2> QED
    BY <1>2, <2>1, <2>2, FailsPaid
<1>6. CASE RunSequentially(j)
  <2> DEFINE reqs == [i \in Request |-> i]
  <2>1. reqs \in Seq(Request) /\ Len(reqs) = N /\ DOMAIN reqs = Request
    <3>1. reqs \in [1..N -> Request] /\ N \in Nat
      BY Constants DEF Request
    <3> QED
      BY <3>1, IsSequence DEF Request
  <2>2. \/ \E outcome : SequentialCalls(j, reqs, {i \in DOMAIN reqs : outcome[i] \in Billable}, TRUE)
        \/ AccountFails(j, reqs, TRUE)
    BY <1>6 DEF RunSequentially, Sequentially
  <2> HIDE DEF reqs
  <2>3. ASSUME NEW outcome, SequentialCalls(j, reqs, {i \in DOMAIN reqs : outcome[i] \in Billable}, TRUE)
        PROVE  Paid(j)
    <3> DEFINE hit == {i \in DOMAIN reqs : outcome[i] \in Billable}
    <3>1. hit \in SUBSET (1..Len(reqs))
      BY <2>1, LenProperties
    <3> HIDE DEF hit
    <3>2. IsFiniteSet(hit) /\ \A i \in hit : reqs[i] \in Request
      BY <2>1, <3>1, PositionsAre
    <3> QED
      BY <1>2, <2>3, <3>2, SequentialBilled DEF hit
  <2> QED
    BY <1>2, <2>1, <2>2, <2>3, FailsPaid
<1> QED
  BY <1>3, <1>4, <1>5, <1>6

\* Every step pays for what was out, or is let out under the limit.
LEMMA StepPaid ==
    ASSUME JobsInv, JobsInv', SpendInv, NEW j \in Job, Step(j)
    PROVE  Paid(j)
BY WaitsPaid, QuietPaid, ReturnPaid, CollectPaid, BatchRaisesPaid, NextChunkPaid, RerunPaid, SequentialPaid DEF Step

\* The invariant of the spend budget holds at first.
LEMMA SpendInit ==
    ASSUME Init
    PROVE  SpendInv
<1>1. JobsInv
  BY JobsInit
<1>2. \A j \in Job : pc[j] = "asked"
  BY DEF Init
<1>3. OutOf \in [Job -> Nat] /\ \A j \in Job : OutOf[j] <= 0 /\ OutOf[j] = 0
  BY <1>2 DEF OutOf, OutBy, Sending
<1>4. Cardinality(Job) \in Nat
  BY JobsAssumption, FS_CardinalityType
<1>5. Total(OutOf) = 0
  <2> HIDE DEF OutOf
  <2>1. Total(OutOf) <= Cardinality(Job) * 0 /\ Total(OutOf) \in Nat
    BY <1>3, JobsAssumption, TotalIsBounded, TotalIs
  <2> QED
    BY <1>4, <2>1
<1>6. InFlight \in Nat
  <2>1. Cardinality(Job) # 0
    BY JobsAssumption, FS_EmptySet
  <2>2. Cardinality(Job) - 1 \in Nat
    BY <1>4, <2>1
  <2> QED
    BY <2>2, Constants DEF InFlight
<1>7. spentUsd = 0 /\ SpendLimit \in Nat /\ ChunkSize \in Nat
  BY Constants DEF Init
<1>8. spentUsd + Total(OutOf) <= SpendLimit + InFlight
  <2> HIDE DEF OutOf, InFlight
  <2> QED
    BY <1>5, <1>6, <1>7
<1> QED
  BY <1>3, <1>7, <1>8 DEF SpendInv

\* Every step keeps it.
LEMMA SpendNext ==
    ASSUME JobsInv, SpendInv, [Next]_vars, JobsInv'
    PROVE  SpendInv'
<1>1. ASSUME NEW j \in Job, Step(j) PROVE SpendInv'
  BY <1>1, StepPaid, PaidKeeps
<1>2. ASSUME UNCHANGED vars PROVE SpendInv'
  <2>1. UNCHANGED <<pc, frames, billed, spentUsd>>
    BY <1>2 DEF vars, budgets, history
  <2>2. OutOf' = OutOf
    BY <2>1 DEF OutOf, Top
  <2>3. AllBatched' <=> AllBatched
    BY <2>1 DEF AllBatched
  <2> HIDE DEF OutOf, AllBatched
  <2> QED
    BY <2>1, <2>2, <2>3 DEF SpendInv, InFlight
<1> QED
  BY <1>1, <1>2 DEF Next, Finished

\* Where a wait needs a balance to start (min_remaining_seconds above 0), the jobs, the wait budget
\* and the spend budget keep their invariants in every reachable state.
THEOREM BudgetsAreInvariant ==
    ASSUME Floor # 0
    PROVE  Spec => [](JobsInv /\ TimeInv /\ SpendInv)
<1>1. Init => JobsInv /\ TimeInv /\ SpendInv
  BY JobsInit, TimeInit, SpendInit
<1>2. JobsInv /\ TimeInv /\ SpendInv /\ [Next]_vars => (JobsInv /\ TimeInv /\ SpendInv)'
  <2> SUFFICES ASSUME JobsInv, TimeInv, SpendInv, [Next]_vars PROVE (JobsInv /\ TimeInv /\ SpendInv)'
    OBVIOUS
  <2>1. JobsInv'
    BY JobsNext
  <2>2. TimeInv'
    BY <2>1, TimeNext
  <2>3. SpendInv'
    BY <2>1, SpendNext
  <2> QED
    BY <2>1, <2>2, <2>3
<1> QED
  BY <1>1, <1>2, PTL DEF Spec

\* They are what the two budgets promise.
LEMMA BudgetsFollow == JobsInv /\ TimeInv /\ SpendInv => BudgetsHold
<1> SUFFICES ASSUME JobsInv, TimeInv, SpendInv PROVE BudgetsHold
  OBVIOUS
<1>1. WaitsClosed
  BY DEF TimeInv, WaitsClosed, Waiting, JobsInv, TypeInv
<1>2. JobWaitIsBounded
  BY DEF TimeInv, TimeOK, Limit, JobWaitIsBounded
<1>3. EverySecondCharged
  BY DEF TimeInv
<1>4. SpendIsBounded
  <2> SUFFICES ASSUME AllBatched PROVE spentUsd <= SpendLimit + InFlight
    BY DEF SpendIsBounded, AllBatched, InFlight
  <2>1. OutOf \in [Job -> Nat]
    <3>1. \A j \in Job : OutBy(pc[j], Top(j)) \in Nat
      BY OutIsNumber DEF JobsInv, JobInv, TypeInv, Top
    <3> QED
      BY <3>1 DEF OutOf
  <2> HIDE DEF OutOf
  <2>2. Total(OutOf) \in Nat /\ spentUsd \in Nat /\ spentUsd + Total(OutOf) <= SpendLimit + InFlight
    BY <2>1, JobsAssumption, TotalIs DEF SpendInv, JobsInv, TypeInv
  <2>3. InFlight \in Int /\ SpendLimit \in Nat
    <3>1. Cardinality(Job) \in Nat
      BY JobsAssumption, FS_CardinalityType
    <3> QED
      BY <3>1, Constants DEF InFlight
  <2> HIDE DEF InFlight
  <2> QED
    BY <2>2, <2>3
<1> QED
  BY <1>1, <1>2, <1>3, <1>4 DEF BudgetsHold

\* No job waits longer than the budget, a grace period and a poll; every second is charged once; and
\* batched spending passes the limit by no more than the other jobs had out
\* (llm/batch_budget.py, llm/spend_budget.py).  With min_remaining_seconds 0 the first would fail: a
\* spent balance would still let a wait of a poll start, again and again.
THEOREM BothBudgetsHold ==
    ASSUME Floor # 0
    PROVE  Spec => []BudgetsHold
BY BudgetsAreInvariant, BudgetsFollow, PTL
===============================================================================
