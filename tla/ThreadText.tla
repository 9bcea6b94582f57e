--------------------------------- MODULE ThreadText ---------------------------------
(***************************************************************************)
(* What the thread extractors share (src/particles/extraction/hackernews,  *)
(* mastodon and reddit.py): a rendered line is its comment and its length, *)
(* clipped to a limit, and lines are grouped greedily into chunks.         *)
(***************************************************************************)
EXTENDS Integers, Sequences, SequencesExt, FiniteSets, FiniteSetsExt

Least(m, n) == IF m <= n THEN m ELSE n
Most(m, n) == IF m <= n THEN n ELSE m

\* Numbers from the least up.
InTurn(S) == [k \in 1..Cardinality(S) |-> CHOOSE n \in S : Cardinality({m \in S : m < n}) = k - 1]

Line(of, size) == [of |-> of, size |-> size]
Clip(line, limit) == [line EXCEPT !.size = Least(@, limit)]
ClipAll(lines, limit) == [i \in DOMAIN lines |-> Clip(lines[i], limit)]

\* The lines, each with its newline.
Rendered(lines) ==
    LET size[n \in 0..Len(lines)] == IF n = 0 THEN 0 ELSE size[n - 1] + lines[n].size + 1
    IN  size[Len(lines)]
Of(lines) == [i \in DOMAIN lines |-> lines[i].of]

\* _chunk_lines_by_size: a line joins the last group while that stays within the budget.
Joined(groups, line, budget) ==
    IF groups # <<>> /\ Rendered(Last(groups)) + line.size + 1 <= budget
    THEN Append(Front(groups), Append(Last(groups), line))
    ELSE Append(groups, <<line>>)
GroupBySize(lines, budget) ==
    LET groups[n \in 0..Len(lines)] ==
            IF n = 0 THEN <<>> ELSE Joined(groups[n - 1], lines[n], budget)
    IN  groups[Len(lines)]

\* One chunk while the lines fit a single call, else groups of the chunk budget.
Chunked(lines, threshold, budget) ==
    IF lines = <<>> THEN <<>>
    ELSE IF Rendered(lines) <= threshold THEN <<lines>>
    ELSE GroupBySize(lines, budget)

\* Text of a chunk without its header lines.
TextSize(lines) == Rendered(lines) - 1
=====================================================================================
