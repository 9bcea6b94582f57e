---------------------------------- MODULE ValidTime ----------------------------------
(***************************************************************************)
(* World time on one claim: what the extraction gates let through          *)
(* (_gate_valid_until, _gate_valid_from, src/particles/extraction/         *)
(* general.py), the default read off its prose, the close of a retired     *)
(* claim, and in which windows of time it is read                          *)
(* (src/particles/core/validity.py).  An instant is a number; a day is two *)
(* of them, midnight and noon, and a unit (a month or a year) is two days. *)
(* A time that may be missing is a set of at most one instant.             *)
(***************************************************************************)
EXTENDS Integers, FiniteSets, FiniteSetsExt

CONSTANT MaxTime  \* bound: the last instant

VARIABLES
    now,
    claim,    \* undated, or dated: [from, kind, basis, until, closed]
    arrived,  \* the claim has been extracted or imported
    retired

validTime == <<now, claim, arrived, retired>>

Instant == 0..MaxTime
Maybe(S) == {{}} \cup {{x} : x \in S}
Day(t) == t \div 2
UnitEnd(t) == 4 * (t \div 4) + 3

Undated(until) == [from |-> {}, kind |-> "none", basis |-> "none", until |-> until, closed |-> {}]
Dated(from, kind, basis, until) ==
    [from |-> {from}, kind |-> kind, basis |-> basis, until |-> until, closed |-> {}]

\* What Particle refuses: a start after the end, a moment with an end.
Wellformed(c) ==
    /\ \A f \in c.from, u \in c.until : f <= u
    /\ c.kind = "EVENT" => c.until = {}

-----------------------------------------------------------------------------
\* Extraction

\* The three conditions on an end: a date, sure enough, and still to come.
GatedUntil(until, sure) == {u \in until : sure /\ u > now}

\* A state anchored at the session it was told in is one known to hold then.
GatedBasis(kind, basis) ==
    IF basis = "session" /\ kind = "STATE" THEN "as-of"
    ELSE IF basis \in {"stated", "as-of", "session"} THEN basis
    ELSE "stated"

GatedFrom(from, kind, basis, sure, transcript) ==
    {f \in from : /\ kind \in {"EVENT", "STATE"}
                  /\ basis = "session" => transcript
                  /\ ~(GatedBasis(kind, basis) = "as-of" /\ kind = "EVENT")
                  /\ sure}

\* _parse_extraction_reply: a moment that has an end is read as a state, and a start
\* after the end is dropped.
Extracted(from, kind, basis, until) ==
    LET read == IF kind = "EVENT" /\ until # {} THEN "STATE" ELSE kind
        kept == {f \in from : \A u \in until : f <= u}
    IN  IF kept = {} THEN Undated(until)
        ELSE Dated(Min(kept), read, GatedBasis(kind, basis), until)

Extract(from, kind, basis, sure, transcript, until, untilSure) ==
    /\ ~arrived /\ arrived' = TRUE
    /\ claim' = Extracted(GatedFrom(from, kind, basis, sure, transcript), kind, basis,
                          GatedUntil(until, untilSure))
    /\ UNCHANGED <<now, retired>>

\* A claim another store exported: any start and end Particle accepts, its kind not given.
Import(from, until) ==
    /\ ~arrived /\ arrived' = TRUE
    /\ claim' = Dated(from, "none", "operator", until) /\ Wellformed(claim')
    /\ UNCHANGED <<now, retired>>

\* anchor_from_prose: one date, behind a cue.
Anchor(cue, t) ==
    CASE cue = "on" -> [from |-> 2 * Day(t), kind |-> "EVENT", basis |-> "prose"]
      [] cue = "since" -> [from |-> 2 * Day(t), kind |-> "STATE", basis |-> "prose"]
      [] cue = "as of" -> [from |-> 2 * Day(t), kind |-> "STATE", basis |-> "as-of"]
      [] cue = "in" -> [from |-> 4 * (t \div 4), kind |-> "EVENT", basis |-> "coarse"]

DefaultFromProse(cue, t) ==
    LET a == Anchor(cue, t) IN
    /\ arrived /\ ~retired /\ claim.from = {}
    /\ claim' = Dated(a.from, a.kind, a.basis, claim.until) /\ Wellformed(claim')
    /\ UNCHANGED <<now, arrived, retired>>

\* resolve_close, when any of the three ends is known: the earliest.
ResolveClose(until, successor, at) == {Min(until \cup successor \cup at)}

Retire(successor, at) ==
    /\ arrived /\ ~retired /\ claim.until \cup successor \cup at # {}
    /\ retired' = TRUE
    /\ claim' = [claim EXCEPT !.closed =
                   IF claim.kind = "STATE" THEN ResolveClose(claim.until, successor, at) ELSE {}]
    /\ UNCHANGED <<now, arrived>>

Tick == now < MaxTime /\ now' = now + 1 /\ UNCHANGED <<claim, arrived, retired>>

Init == now = 0 /\ claim = Undated({}) /\ arrived = FALSE /\ retired = FALSE

Next ==
    \/ \E from, until \in Maybe(Instant), kind \in {"EVENT", "STATE", "other"},
          basis \in {"stated", "as-of", "session", "other"}, sure, transcript, untilSure \in BOOLEAN :
             Extract(from, kind, basis, sure, transcript, until, untilSure)
    \/ \E from \in Instant, until \in Maybe(Instant) : Import(from, until)
    \/ \E cue \in {"on", "since", "as of", "in"}, t \in Instant : DefaultFromProse(cue, t)
    \/ \E successor \in Maybe(Instant), at \in {{}, {now}} : Retire(successor, at)
    \/ Tick

Spec == Init /\ [][Next]_validTime

-----------------------------------------------------------------------------
\* Windows

Window(start, end) == [start |-> start, end |-> end]
IsPoint(w) == w.start # {} /\ w.start = w.end

\* interval: its start, and the earliest end known.
Ends(c) ==
    LET unit == IF c.basis = "coarse" THEN {UnitEnd(f) : f \in c.from} ELSE {} IN
    IF c.kind = "EVENT" THEN IF unit # {} THEN unit ELSE c.from
    ELSE LET ends == c.until \cup c.closed \cup unit IN IF ends = {} THEN {} ELSE {Min(ends)}

\* Mutant: a claim that ends as the window starts is out of it.
IntersectsOpen(s, e, w) == (\A x \in w.end : s <= x) /\ (\A x \in w.start, y \in e : y > x)

\* _intersects
Intersects(s, e, w) == (\A x \in w.end : s <= x) /\ (\A x \in w.start, y \in e : y >= x)

UnderBasis(c, otherwise) ==
    IF c.basis = "as-of" THEN "HELD_AT" ELSE IF c.basis = "coarse" THEN "WITHIN" ELSE otherwise

\* The point form, at an instant.
ReadOn(c, at) ==
    LET s == Min(c.from) IN
    IF c.kind = "EVENT" /\ c.basis # "coarse" THEN IF Day(s) = Day(at) THEN "BEGAN" ELSE "out"
    ELSE IF c.kind # "none" /\ s <= at /\ (\A y \in Ends(c) : at <= y)
         THEN UnderBasis(c, IF Day(s) = Day(at) THEN "BEGAN" ELSE "IN_FORCE")
         ELSE "out"

\* read_window
ReadWindow(c, w) ==
    LET s == Min(c.from)
        inside == (\A x \in w.start : s >= x) /\ (\A x \in w.end : s <= x)
    IN  IF c.from = {} THEN "out"
        ELSE IF IsPoint(w) THEN ReadOn(c, Min(w.start))
        ELSE IF inside /\ c.basis \notin {"as-of", "coarse"} THEN "BEGAN"
        ELSE IF c.kind # "none" /\ (c.kind = "STATE" \/ c.basis = "coarse") /\ Intersects(s, Ends(c), w)
             THEN UnderBasis(c, "IN_FORCE")
             ELSE "out"

\* window_for_day, and the days from one through another, to the end of the last.
OnDay(d) == Window({2 * d}, {2 * d})
Days(d, e) == Window({2 * d}, {2 * e + 1})

-----------------------------------------------------------------------------
\* The windows of one claim agree with each other.  What a window reads every wider one
\* reads.  A span of days reads what its two halves read between them, and a claim begins
\* in one of the two at most - a claim whose close precedes its start, which a retirement
\* may leave, aside.  A day asked for as a point reads what the day asked for as a window
\* reads, under the same reading, but for a state that began after midnight.
WindowsAgree ==
    claim.from # {} =>
        LET read(w) == ReadWindow(claim, w)
            days == 0..Day(MaxTime)
            inverted == \E f \in claim.from, e \in Ends(claim) : e < f
        IN  /\ \A start, end \in Maybe(Instant) :
                  (\A x \in start, y \in end : x < y) /\ read(Window(start, end)) # "out" =>
                      /\ read(Window({}, end)) # "out" /\ read(Window(start, {})) # "out"
                      /\ \A x \in start \ {0} : read(Window({x - 1}, end)) # "out"
                      /\ \A y \in end : read(Window(start, {y + 1})) # "out"
            /\ ~inverted => \A a, m, b \in days : a <= m /\ m < b =>
                  LET left == read(Days(a, m))
                      right == read(Days(m + 1, b))
                  IN  /\ read(Days(a, b)) # "out" <=> (left # "out" \/ right # "out")
                      /\ ~(left = "BEGAN" /\ right = "BEGAN")
            /\ \A d \in days :
                  IF read(OnDay(d)) # "out" THEN read(OnDay(d)) = read(Days(d, d))
                  ELSE read(Days(d, d)) # "out" =>
                          inverted \/ claim.kind = "none" \/ (claim.kind = "STATE" /\ \A f \in claim.from : f > 2 * d)

\* A claim anchored at its session is an act performed in it: "a session STATE is what
\* as-of already says and is read as that" (_gate_valid_from).
SessionIsAnEvent == claim.basis = "session" => claim.kind = "EVENT"
=====================================================================================
