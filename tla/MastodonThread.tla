------------------------------- MODULE MastodonThread -------------------------------
(***************************************************************************)
(* A Mastodon thread (src/particles/extraction/mastodon.py): the context   *)
(* the instance serves, held to the cap when it is fetched and again when  *)
(* the stored blob is extracted, the cap possibly changed in between; the  *)
(* replies put back into a tree; and everything cut into chunks.           *)
(* Ancestors and replies are named by their place in the lists served; a   *)
(* reply may answer the status (0), any reply, itself, or one not served.  *)
(***************************************************************************)
EXTENDS ThreadText

CONSTANTS
    MaxAncestors,  \* bound: ancestors served
    MaxServed,     \* bound: replies served
    ThreadCaps,    \* values of mastodon.max_replies
    Sizes,         \* rendered lengths by place, ancestors first
    Headline,      \* length of the rendered status
    Threshold,     \* extraction.single_call_threshold_chars
    ChunkChars     \* extraction.comment_chunk_chars

ASSUME MastodonAssumption ==
    /\ MaxAncestors \in Nat /\ MaxServed \in Nat /\ ThreadCaps \subseteq Nat
    /\ Sizes \subseteq Seq(Nat) \ {<<>>}
    /\ Headline \in Nat /\ Threshold \in Nat /\ ChunkChars \in Nat

VARIABLES
    served,   \* what the instance has: ancestors, the replies' parents and favourites
    stored,   \* what was stored: [ancestors, replies], or the empty record
    fetchCap, \* the cap when it was fetched
    cap,      \* the cap now
    reading   \* sizes and favourites floor of the extraction, or the empty record

masto == <<served, stored, fetchCap, cap, reading>>

Nothing == [none |-> TRUE]
Context(ancestors, replies) == [ancestors |-> ancestors, replies |-> replies]
UpTo(n) == [i \in 1..n |-> i]

\* _cap_context: past the cap the root and the nearest ancestors; replies take the rest.
CapContext(ctx, c) ==
    LET n == Len(ctx.ancestors)
        ancestors == IF n <= c THEN ctx.ancestors
                     ELSE IF c = 0 THEN <<>>
                     ELSE <<ctx.ancestors[1]>> \o SubSeq(ctx.ancestors, n - c + 2, n)
    IN  Context(ancestors, SubSeq(ctx.replies, 1, Least(Len(ctx.replies), c - Len(ancestors))))

-----------------------------------------------------------------------------
MInit ==
    /\ \E m \in 0..MaxAncestors, n \in 0..MaxServed :
          \E parent \in [1..n -> 0..(MaxServed + 1)] :
             served = [ancestors |-> m, parent |-> parent]
    /\ cap \in ThreadCaps /\ fetchCap = cap /\ stored = Nothing /\ reading = Nothing

\* _fetch_thread
Fetch ==
    /\ stored = Nothing
    /\ stored' = CapContext(Context(UpTo(served.ancestors), UpTo(Len(served.parent))), cap)
    /\ fetchCap' = cap
    /\ UNCHANGED <<served, cap, reading>>

SetCap(c) == stored # Nothing /\ reading = Nothing /\ c # cap /\ cap' = c
             /\ UNCHANGED <<served, stored, fetchCap, reading>>

\* The extraction of the stored blob; which replies meet the floor on favourites.
ReadThread(size, liked) ==
    /\ stored # Nothing /\ reading = Nothing
    /\ reading' = [size |-> size, liked |-> liked]
    /\ UNCHANGED <<served, stored, fetchCap, cap>>

MNext ==
    \/ Fetch
    \/ \E c \in ThreadCaps : SetCap(c)
    \/ \E size \in Sizes, liked \in SUBSET DOMAIN served.parent : ReadThread(size, liked)

MSpec == MInit /\ [][MNext]_masto

-----------------------------------------------------------------------------
\* _normalise

KeptContext == CapContext(stored, cap)
CapHit == Len(KeptContext.ancestors) + Len(KeptContext.replies) >= cap

\* by_parent, less the replies under the floor, in the order served.
ChildrenOf(p) ==
    InTurn({r \in ToSet(KeptContext.replies) : served.parent[r] = p /\ r \in reading.liked})
AtDepth(replies, depth) == [i \in DOMAIN replies |-> [reply |-> replies[i], depth |-> depth]]

\* One turn of _build_descendant_lines: its stack, the next one last, and what it has rendered.
DescendOn(w) ==
    IF w.todo = <<>> THEN w
    ELSE LET next == Last(w.todo) IN
         IF \E i \in DOMAIN w.out : w.out[i].reply = next.reply THEN [todo |-> Front(w.todo), out |-> w.out]
         ELSE [todo |-> Front(w.todo) \o Reverse(AtDepth(ChildrenOf(next.reply), next.depth + 1)),
               out |-> Append(w.out, next)]
\* Each reply takes a turn.
Descend ==
    LET walk[k \in 0..Len(KeptContext.replies)] ==
            IF k = 0 THEN [todo |-> Reverse(AtDepth(ChildrenOf(0), 0)), out |-> <<>>]
            ELSE DescendOn(walk[k - 1])
    IN  walk
Descendants == Descend[Len(KeptContext.replies)].out

SizeOf(list, i) == reading.size[((i - 1) % Len(reading.size)) + 1]
Lines(list) == ClipAll([i \in DOMAIN list |-> Line(list[i], SizeOf(list, i))], ChunkChars)

HeadSize == Least(Headline, ChunkChars)

\* _nearest_lines_within: the longest tail that fits beside the headline.
Nearest(lines) ==
    LET tail(k) == SubSeq(lines, Len(lines) - k + 1, Len(lines))
        fits == {k \in 0..Len(lines) : Rendered(tail(k)) <= ChunkChars - HeadSize}
    IN  tail(CHOOSE k \in fits : \A j \in fits : j <= k)

\* _build_mastodon_chunks: the older ancestors, the status and its nearest, the replies.
Above == Lines(KeptContext.ancestors)
InOneCall == Rendered(Above) + HeadSize <= Threshold
WithStatus == IF InOneCall THEN Above ELSE Nearest(Above)
Older == GroupBySize(SubSeq(Above, 1, Len(Above) - Len(WithStatus)), ChunkChars)
ReplyChunks == Chunked(Lines([i \in DOMAIN Descendants |-> Descendants[i].reply]), Threshold, ChunkChars)

-----------------------------------------------------------------------------
\* Every reply whose chain of parents down from the status is kept is read to the model
\* once, below its parent and after the earlier answers to it, whatever cycles the parents
\* form; every ancestor once, oldest first; and no chunk outgrows its budget.  What a
\* thread keeps of its context is what one cap, the smaller of the fetch's and the
\* reading's, gives; never more than the cap, never without the root, and never cut without
\* the quality note unless the operator has raised the cap since.
ThreadIsReadWhole ==
    /\ stored # Nothing =>
        LET all == Context(UpTo(served.ancestors), UpTo(Len(served.parent))) IN
        /\ KeptContext = CapContext(all, Least(fetchCap, cap))
        /\ Len(KeptContext.ancestors) + Len(KeptContext.replies) <= cap
        /\ KeptContext.ancestors # <<>> => KeptContext.ancestors[1] = 1
        /\ KeptContext # all /\ cap <= fetchCap => CapHit
    /\ reading # Nothing =>
        LET out == Descendants
            place(r) == CHOOSE i \in DOMAIN out : out[i].reply = r
            shown == {out[i].reply : i \in DOMAIN out}
            sibling(r, s) == served.parent[r] = served.parent[s]
        IN  /\ Cardinality(shown) = Len(out)
            /\ \A r \in DOMAIN served.parent :
                  r \in shown <=> /\ r \in ToSet(KeptContext.replies) \cap reading.liked
                                  /\ served.parent[r] \in shown \cup {0}
            /\ \A r, s \in shown : sibling(r, s) /\ r < s => place(r) < place(s)
            /\ \A r \in shown : LET p == served.parent[r] IN
                  IF p = 0 THEN out[place(r)].depth = 0
                  ELSE place(p) < place(r) /\ out[place(r)].depth = out[place(p)].depth + 1
            /\ Of(FlattenSeq(Older) \o WithStatus) = KeptContext.ancestors
            /\ Rendered(WithStatus) + HeadSize <= Most(ChunkChars, Threshold)
            /\ FlattenSeq(ReplyChunks) = Lines([i \in DOMAIN out |-> out[i].reply])
            /\ \A i \in DOMAIN ReplyChunks : TextSize(ReplyChunks[i]) <= Most(ChunkChars, Threshold)
            /\ \A i \in DOMAIN Older : TextSize(Older[i]) <= ChunkChars
=====================================================================================
