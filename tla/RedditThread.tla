-------------------------------- MODULE RedditThread --------------------------------
(***************************************************************************)
(* A Reddit thread (src/particles/extraction/reddit.py): the comments of a *)
(* stored blob, walked breadth-first and filtered by score, and the        *)
(* quality notes about what was left out.  The blob comes from Reddit      *)
(* itself or from the archive, which captures a comment early, when its    *)
(* score still reads 0 or 1, and visits it a second time later; a refresh  *)
(* stores a new blob.                                                      *)
(***************************************************************************)
EXTENDS ThreadText

CONSTANTS
    MaxThread,  \* bound: comments in a thread
    Score,      \* scores a comment may end up with
    Floor,      \* reddit.min_comment_score
    TopCount    \* reddit.top_comment_count

ASSUME RedditAssumption ==
    MaxThread \in Nat /\ Score \subseteq Int /\ Floor \in Int /\ TopCount \in Nat

VARIABLES
    parent,  \* per comment the comment it answers, 0 for the post
    score,   \* the score each has in the end
    gone,    \* comments deleted or removed
    blob,    \* per comment the score stored and whether it is settled
    backend  \* "none" yet, "reddit" or "arctic_shift"

redditVars == <<parent, score, gone, blob, backend>>

Thread == DOMAIN parent
Stored(s, settled) == [score |-> s, settled |-> settled]

RInit ==
    /\ \E n \in 0..MaxThread :
          /\ parent \in {f \in [1..n -> 0..n] : \A c \in 1..n : f[c] < c}
          /\ score \in [1..n -> Score] /\ gone \in SUBSET (1..n)
    /\ blob = <<>> /\ backend = "none"

\* Reddit's own response: live scores, and nothing says when they were taken.
FetchReddit ==
    /\ backend = "none"
    /\ backend' = "reddit" /\ blob' = [c \in Thread |-> Stored(score[c], FALSE)]
    /\ UNCHANGED <<parent, score, gone>>

\* The archive's: comments captured early and not yet visited again read 0 or 1.
FetchArchive(early, reads) ==
    /\ backend # "reddit"
    /\ blob # <<>> => \A c \in early : ~blob[c].settled /\ blob[c].score = reads[c]
    /\ backend' = "arctic_shift"
    /\ blob' = [c \in Thread |-> IF c \in early THEN Stored(reads[c], FALSE)
                                               ELSE Stored(score[c], TRUE)]
    /\ UNCHANGED <<parent, score, gone>>

RNext ==
    \/ FetchReddit
    \/ \E early \in SUBSET Thread, reads \in [Thread -> {0, 1}] : FetchArchive(early, reads)

RSpec == RInit /\ [][RNext]_redditVars

-----------------------------------------------------------------------------
RepliesTo(p) == InTurn({c \in Thread : parent[c] = p})

\* One turn of _iter_comments: the comments queued and those yielded.
BreadthOn(w) ==
    IF w.queue = <<>> THEN w
    ELSE [queue |-> Tail(w.queue) \o RepliesTo(Head(w.queue)), out |-> Append(w.out, Head(w.queue))]

\* Each comment takes a turn.
Breadth ==
    LET walk[k \in 0..Len(parent)] ==
            IF k = 0 THEN [queue |-> RepliesTo(0), out |-> <<>>] ELSE BreadthOn(walk[k - 1])
    IN  walk
Comments == Breadth[Len(parent)].out

Live(c) == c \notin gone

\* Kept whatever became of the comment it answers.
Qualifies(c) == Live(c) /\ blob[c].score >= Floor

\* _get_all_qualifying_comments: best score first, ties in the order of the walk.
Found == {i \in DOMAIN Comments : Qualifies(Comments[i])}
Before(i, k) ==
    LET a == blob[Comments[i]].score  b == blob[Comments[k]].score IN a > b \/ (a = b /\ i < k)
Ahead(i) == Cardinality({k \in Found : Before(k, i)})
Qualifying ==
    [m \in 1..Cardinality(Found) |-> Comments[CHOOSE i \in Found : Ahead(i) = m - 1]]
Shown == SubSeq(Qualifying, 1, IF Len(Qualifying) <= TopCount THEN Len(Qualifying) ELSE TopCount)

LimitHit == Len(Qualifying) > TopCount

\* _count_unsettled_below_floor; a blob of Reddit's own has no unsettled scores.
Unsettled ==
    IF backend # "arctic_shift" THEN {}
    ELSE {c \in ToSet(Comments) : Live(c) /\ blob[c].score < Floor /\ ~blob[c].settled}

-----------------------------------------------------------------------------
\* No comment worth reading is left out silently: one that is live and ends up at the
\* floor, however deep and whatever its parent's score, is read, or ranks behind all that
\* are with the limit noted, or is among the comments the note on unsettled scores counts.
OmissionsAreNoted ==
    backend # "none" => \A c \in Thread :
        Live(c) /\ score[c] >= Floor =>
            \/ c \in ToSet(Shown)
            \/ LimitHit /\ \A i \in DOMAIN Shown : blob[Shown[i]].score >= blob[c].score
            \/ c \in Unsettled
=====================================================================================
