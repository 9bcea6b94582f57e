----------------------------- MODULE BoundedYaml -----------------------------
(* The bounded YAML reader (core/bounded_yaml.py): load composes a whole      *)
(* document and then builds it, load_sequence builds each item of a top-level *)
(* sequence as soon as it is composed and lets its nodes go, keeping of an    *)
(* anchor only what it built.  A later alias or merge of that anchor must     *)
(* still give what it would have given in the whole document.                 *)
(*                                                                            *)
(* A written node is a scalar, an alias, a sequence or a mapping, possibly    *)
(* anchored; the key "<<" of a mapping is a merge.  A composed node has its   *)
(* aliases replaced by what they stand for; a node let go is "done".          *)
EXTENDS Integers, Sequences, FiniteSets, SequencesExt

CONSTANTS
    Document,     \* documents: [top |-> "seq", "map", "tagged" or "none", items |-> sequence of nodes]
    MaxNodes,     \* max_nodes, the budget of expanded nodes
    MaxDepth,     \* _MAX_DEPTH
    MaxItems      \* max_items of load_sequence

VARIABLES
    doc,      \* the document
    at,       \* items read by load_sequence
    env,      \* its anchors, name to composed or done node
    spent,    \* nodes charged to its budget
    items,    \* the items it built
    outcome   \* "reading", "value", "limit" or "refused"
reading == <<doc, at, env, spent, items, outcome>>

Scalar(v) == [scalar |-> v]
List(s) == [seq |-> s]
Table(f) == [map |-> f]
IsTable(v) == DOMAIN v = {"map"}
IsList(v) == DOMAIN v = {"seq"}
NoPairs == [k \in {} |-> Scalar("")]
Over(f, k, v) == [x \in DOMAIN f \cup {k} |-> IF x = k THEN v ELSE f[x]]
Refusal == [ok |-> FALSE]
Total(s) == FoldSeq(LAMBDA x, y : x + y, 0, s)
Deepest(s) == FoldSeq(LAMBDA x, y : IF x > y THEN x ELSE y, 0, s)

\* The entries of a built mapping as the entries of a node.
Pairs(f) == LET ks == SetToSeq(DOMAIN f) IN [i \in DOMAIN ks |-> [key |-> ks[i], val |-> [kind |-> "built", built |-> f[ks[i]]]]]

RECURSIVE Entries(_), Merged(_), Children(_, _), Size(_, _), Levels(_, _), Build(_)

\* The mappings a merge value stands for, the last one first: a mapping, a
\* sequence of mappings, or what either of them built.
Sources(n) ==
    IF n.kind = "map" THEN <<n>>
    ELSE IF n.kind = "seq" THEN IF \A i \in DOMAIN n.kids : n.kids[i].kind = "map" \/ (n.kids[i].kind = "done" /\ IsTable(n.kids[i].built))
                                THEN Reverse(n.kids) ELSE <<>>
    ELSE IF n.kind = "done" /\ IsTable(n.built) THEN <<n>>
    ELSE IF n.kind = "done" /\ IsList(n.built) THEN
         IF \A i \in DOMAIN n.built.seq : IsTable(n.built.seq[i])
         THEN Reverse([i \in DOMAIN n.built.seq |-> [kind |-> "done", built |-> n.built.seq[i], size |-> 0, levels |-> 0]])
         ELSE <<>>
    ELSE <<>>
Mergeable(n) == Sources(n) # <<>> \/ (n.kind = "seq" /\ n.kids = <<>>) \/ (n.kind = "done" /\ n.built = List(<<>>))

\* flatten_mapping: the merged entries, then the mapping's own, which win.
Merged(n) == IF n.kind = "done" THEN Pairs(n.built.map) ELSE Entries(n)
Entries(n) ==
    LET merge == SelectSeq(n.pairs, LAMBDA p : p.key = "<<")
        kept == SelectSeq(n.pairs, LAMBDA p : p.key # "<<")
    IN FlattenSeq([i \in DOMAIN merge |-> FlattenSeq([j \in DOMAIN Sources(merge[i].val) |-> Merged(Sources(merge[i].val)[j])])]) \o kept

\* The nodes below one: as composed, or, of a mapping that was built, flattened.
Children(n, built) ==
    IF n.kind = "seq" THEN n.kids
    ELSE IF n.kind = "map" THEN
         LET ps == IF built THEN Entries(n) ELSE n.pairs
         IN [i \in DOMAIN ps |-> ps[i].val] \o [i \in DOMAIN ps |-> [kind |-> "scalar", v |-> ps[i].key]]
    ELSE <<>>
Size(n, built) ==
    IF n.kind = "done" THEN n.size
    ELSE LET c == Children(n, built) IN 1 + Total([i \in DOMAIN c |-> Size(c[i], built)])
Levels(n, built) ==
    IF n.kind = "done" THEN n.levels
    ELSE LET c == Children(n, built) IN 1 + Deepest([i \in DOMAIN c |-> Levels(c[i], built)])

\* The constructor: a value, or a refusal of a merge of something else.
Build(n) ==
    IF n.kind \in {"done", "built"} THEN [ok |-> TRUE, val |-> n.built]
    ELSE IF n.kind = "scalar" THEN [ok |-> TRUE, val |-> Scalar(n.v)]
    ELSE IF n.kind = "seq"
    THEN LET parts == [i \in DOMAIN n.kids |-> Build(n.kids[i])]
         IN IF \A i \in DOMAIN parts : parts[i].ok
            THEN [ok |-> TRUE, val |-> List([i \in DOMAIN parts |-> parts[i].val])] ELSE Refusal
    ELSE IF \E i \in DOMAIN n.pairs : n.pairs[i].key = "<<" /\ ~Mergeable(n.pairs[i].val) THEN Refusal
    ELSE LET ps == Entries(n)
             parts == [i \in DOMAIN ps |-> Build(ps[i].val)]
         IN IF \A i \in DOMAIN parts : parts[i].ok
            THEN [ok |-> TRUE, val |-> Table(FoldLeft(LAMBDA f, i : Over(f, ps[i].key, parts[i].val), NoPairs, [i \in DOMAIN ps |-> i]))]
            ELSE Refusal

RECURSIVE Compose(_, _, _), ComposeAll(_, _, _)

\* The composer: an alias stands for its anchor's node and is charged as many
\* nodes, an anchor still open or given twice is refused, and so are a document
\* nested too deep and a number too long.
Compose(n, names, depth) ==
    IF n.kind = "alias"
    THEN IF n.name \in DOMAIN names /\ depth + Levels(names[n.name], FALSE) <= MaxDepth
         THEN [ok |-> TRUE, node |-> names[n.name], names |-> names, cost |-> Size(names[n.name], FALSE)]
         ELSE Refusal
    ELSE IF depth + 1 > MaxDepth \/ (n.anchor # "" /\ n.anchor \in DOMAIN names)
            \/ (n.kind = "scalar" /\ n.v = "long number") THEN Refusal
    ELSE LET below == ComposeAll(IF n.kind = "seq" THEN n.kids
                                 ELSE IF n.kind = "map" THEN [i \in DOMAIN n.pairs |-> n.pairs[i].val] ELSE <<>>,
                                 names, depth + 1)
         IN IF ~below.ok THEN Refusal
            ELSE LET node == IF n.kind = "scalar" THEN [kind |-> "scalar", v |-> n.v]
                             ELSE IF n.kind = "seq" THEN [kind |-> "seq", kids |-> below.nodes]
                             ELSE [kind |-> "map", pairs |-> [i \in DOMAIN n.pairs |->
                                                               [key |-> n.pairs[i].key, val |-> below.nodes[i]]]]
                 IN [ok |-> TRUE, node |-> node,
                     names |-> IF n.anchor = "" THEN below.names ELSE Over(below.names, n.anchor, node),
                     cost |-> 1 + below.cost + (IF n.kind = "map" THEN Len(n.pairs) ELSE 0)]
ComposeAll(ns, names, depth) ==
    IF ns = <<>> THEN [ok |-> TRUE, nodes |-> <<>>, names |-> names, cost |-> 0]
    ELSE LET first == Compose(Head(ns), names, depth) IN
         IF ~first.ok THEN Refusal
         ELSE LET rest == ComposeAll(Tail(ns), first.names, depth) IN
              IF ~rest.ok THEN Refusal
              ELSE [ok |-> TRUE, nodes |-> <<first.node>> \o rest.nodes, names |-> rest.names,
                    cost |-> first.cost + rest.cost]

\* The whole document is composed, within its budget, and then built.
Load(d) ==
    IF d.top = "none" THEN [ok |-> TRUE, val |-> List(<<>>)]
    ELSE IF d.top # "seq" THEN Refusal
    ELSE LET whole == ComposeAll(d.items, NoPairs, 1)
         IN IF ~whole.ok \/ 1 + whole.cost > MaxNodes THEN Refusal
            ELSE Build([kind |-> "seq", kids |-> whole.nodes])

\* Mutant: what is let go is replaced by nothing, and a merge of it finds the
\* emptied node.
ReleaseEmptied(n, name, built) == [kind |-> "map", pairs |-> <<>>]

\* _release_anchored: the node of an anchor that was built is let go, its value
\* kept and counted.  A mapping that was only merged has no value of its own,
\* and stays.
Release(n, name, built) ==
    IF name \in built /\ n.kind \in {"seq", "map"} /\ Build(n).ok
    THEN [kind |-> "done", built |-> Build(n).val, size |-> Size(n, TRUE), levels |-> Levels(n, TRUE)]
    ELSE n

\* The anchors of a written node that are built for themselves: not those that
\* stand under a merge key.
RECURSIVE BuiltAnchors(_)
BuiltAnchors(n) ==
    IF n.kind = "alias" THEN {}
    ELSE {n.anchor} \cup UNION (IF n.kind = "seq" THEN {BuiltAnchors(n.kids[i]) : i \in DOMAIN n.kids}
                                ELSE IF n.kind = "map"
                                THEN {BuiltAnchors(n.pairs[i].val) :
                                         i \in {j \in DOMAIN n.pairs : n.pairs[j].key # "<<"}}
                                ELSE {})
-----------------------------------------------------------------------------
YInit ==
    /\ doc \in Document
    /\ at = 0 /\ env = NoPairs /\ spent = 1 /\ items = <<>> /\ outcome = "reading"

\* A document that is not a plain sequence: nothing, or a refusal of the caller.
ReadOther ==
    /\ outcome = "reading" /\ doc.top # "seq"
    /\ outcome' = IF doc.top = "none" THEN "value" ELSE "refused"
    /\ UNCHANGED <<doc, at, env, spent, items>>

\* One item: composed, built, and let go.
ReadItem ==
    /\ outcome = "reading" /\ doc.top = "seq" /\ at < Len(doc.items)
    /\ LET n == doc.items[at + 1]
           c == Compose(n, env, 1)
       IN IF at >= MaxItems THEN outcome' = "limit" /\ UNCHANGED <<at, env, spent, items>>
          ELSE IF ~c.ok \/ spent + c.cost > MaxNodes \/ ~Build(c.node).ok
          THEN outcome' = "refused" /\ UNCHANGED <<at, env, spent, items>>
          ELSE /\ at' = at + 1
               /\ spent' = spent + c.cost
               /\ items' = Append(items, Build(c.node).val)
               /\ env' = [x \in DOMAIN c.names |->
                            IF x \in DOMAIN env THEN env[x] ELSE Release(c.names[x], x, BuiltAnchors(n))]
               /\ UNCHANGED outcome
    /\ UNCHANGED doc

Finish ==
    /\ outcome = "reading" /\ doc.top = "seq" /\ at = Len(doc.items)
    /\ outcome' = "value"
    /\ UNCHANGED <<doc, at, env, spent, items>>

YNext == ReadOther \/ ReadItem \/ Finish
-----------------------------------------------------------------------------
RECURSIVE Merges(_)
Merges(n) == \/ n.kind = "map" /\ \E i \in DOMAIN n.pairs : n.pairs[i].key = "<<" \/ Merges(n.pairs[i].val)
             \/ n.kind = "seq" /\ \E i \in DOMAIN n.kids : Merges(n.kids[i])

\* Reading item by item gives what reading the whole document gives, whatever
\* its later items say of earlier ones: the same value, and every refusal but
\* the limit on items has its counterpart (load_sequence, _construct_item,
\* _release_anchored).  A document with merges may differ in its count of nodes.
StreamedIsWhole ==
    LET whole == Load(doc) IN
    /\ outcome = "value" =>
         /\ whole.ok => whole.val = List(items)
         /\ whole.ok \/ \E i \in DOMAIN doc.items : Merges(doc.items[i])
    /\ outcome = "refused" => ~whole.ok
    /\ outcome = "limit" => Len(doc.items) > MaxItems
=============================================================================
