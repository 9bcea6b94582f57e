------------------------------ MODULE HackerNewsThread ------------------------------
(***************************************************************************)
(* A Hacker News thread (src/particles/extraction/hackernews.py): the      *)
(* importer's capped walk of the item API, one request a step, and the     *)
(* extractor's own walk of the blob it stored.  Items are the server's:    *)
(* their kids may repeat, lead back or name the story, and an item may     *)
(* read as nothing.  A comment is abstracted to whether it is rendered     *)
(* (has a text, is neither dead nor deleted, meets the floor).             *)
(***************************************************************************)
EXTENDS ThreadText

CONSTANTS
    Comment,      \* item ids of the comments
    Story,        \* item id of the story
    Kids,         \* the lists of kids an item may have
    MaxKids,      \* bound: the kids of an item
    MaxComments,  \* hackernews.max_comments
    Nature        \* what a comment may be: "kept", "dropped" or "null"

ASSUME HackerNewsAssumption ==
    /\ Story \notin Comment /\ MaxComments \in Nat /\ MaxKids \in Nat
    /\ \A listed \in Kids : listed \in Seq(Comment \cup {Story}) /\ Len(listed) <= MaxKids
    /\ <<>> \in Kids

VARIABLES
    kids,     \* per item, the kids the server listed when it was fetched
    nature,   \* per comment, what the server answered
    stack,    \* ids the walk has still to visit, the next one last
    visited,  \* ids it has visited, and the story
    captured, \* the comments of the blob, in the order they were fetched
    fetches,  \* comment requests made
    at        \* "fetching", "stored", or "failed": nothing is stored

hn == <<kids, nature, stack, visited, captured, fetches, at>>

HNInit ==
    /\ \E listed \in Kids :
          /\ kids = [i \in Comment \cup {Story} |-> IF i = Story THEN listed ELSE <<>>]
          /\ stack = Reverse(listed)
    /\ nature = [c \in Comment |-> "null"] /\ visited = {Story}
    /\ captured = <<>> /\ fetches = 0 /\ at = "fetching"

\* Mutant: the kids are pushed in the order they are listed.
PushForward(ids, listed) == ids \o listed

\* stack.extend(reversed(kids))
Push(ids, listed) == ids \o Reverse(listed)

\* One turn of _fetch_thread's loop on a comment that is new.
FetchItem(answer, listed) ==
    LET id == Last(stack) IN
    /\ at = "fetching" /\ stack # <<>> /\ fetches < MaxComments
    /\ id \notin visited
    /\ visited' = visited \cup {id} /\ fetches' = fetches + 1
    /\ nature' = [nature EXCEPT ![id] = answer] /\ kids' = [kids EXCEPT ![id] = listed]
    /\ \/ /\ answer = "null" /\ listed = <<>>
          /\ stack' = Front(stack) /\ UNCHANGED captured
       \/ /\ answer # "null"
          /\ stack' = Push(Front(stack), listed) /\ captured' = Append(captured, id)
    /\ UNCHANGED at

\* A kid that was visited before, or is the story, costs nothing.
SkipItem ==
    /\ at = "fetching" /\ stack # <<>> /\ fetches < MaxComments
    /\ Last(stack) \in visited
    /\ stack' = Front(stack)
    /\ UNCHANGED <<kids, nature, visited, captured, fetches, at>>

\* raise_for_status, ResponseTooLarge: the import fails as a whole.
FetchFails ==
    /\ at = "fetching" /\ at' = "failed"
    /\ UNCHANGED <<kids, nature, stack, visited, captured, fetches>>

Store ==
    /\ at = "fetching" /\ (stack = <<>> \/ fetches >= MaxComments)
    /\ at' = "stored"
    /\ UNCHANGED <<kids, nature, stack, visited, captured, fetches>>

HNNext == (\E answer \in Nature, listed \in Kids : FetchItem(answer, listed)) \/ SkipItem \/ FetchFails \/ Store

HNSpec == HNInit /\ [][HNNext]_hn

-----------------------------------------------------------------------------
\* The extractor

\* One turn of _walk_comments_dfs.
WalkOn(w, listed, held) ==
    IF w.todo = <<>> THEN w
    ELSE LET id == Last(w.todo) IN
         IF id \in held /\ id \notin ToSet(w.out)
         THEN [todo |-> Front(w.todo) \o Reverse(listed[id]), out |-> Append(w.out, id)]
         ELSE [todo |-> Front(w.todo), out |-> w.out]

\* Up to n turns over the comments held: the ids still to visit, the next one last, and the
\* comments visited.
Walk(listed, held, n) ==
    LET walk[k \in 0..n] ==
            IF k = 0 THEN [todo |-> Reverse(listed[Story]), out |-> <<>>]
            ELSE WalkOn(walk[k - 1], listed, held)
    IN  walk

\* It ends before it has popped as many ids as the items of the blob can list.
Turns == MaxKids * (Len(captured) + 1)
Visited == Walk(kids, ToSet(captured), Turns)[Turns].out
WorthShowing(ids) == SelectSeq(ids, LAMBDA c : nature[c] = "kept")
Rendering == WorthShowing(Visited)

-----------------------------------------------------------------------------
\* The two walks agree: what is read to the model is every comment of the blob worth
\* showing, once, in the order it was fetched, however the kids repeat or lead back and
\* wherever the cap cut the thread.
RenderedAsFetched ==
    at = "stored" => Rendering = WorthShowing(captured)
=====================================================================================
