------------------------------ MODULE GeneralExtractor ------------------------------
(***************************************************************************)
(* GeneralExtractor.extract (src/particles/extraction/general.py): the     *)
(* content's first bytes choose the path.  Anything that is neither a PDF  *)
(* nor an image is text (ChunkedRead).  An image is one call and one       *)
(* reply.  A PDF is read page by page: _extract_pdf_paged and its pooled   *)
(* variant.                                                                *)
(*                                                                         *)
(* A page is its number of text lines and whether it bears an image.  What *)
(* is sent for a page is its own lines, the last lines of the page before  *)
(* it, and whether the rendered page goes along.  A call answers or fails; *)
(* whether it found claims does not matter here.  The stop at the          *)
(* wall-clock budget may fall before any page.                             *)
(***************************************************************************)
EXTENDS ChunkedRead, FiniteSetsExt

CONSTANTS
    MaxDocPages,   \* bound: pages in a document
    MaxLines,      \* bound: lines of text on a page
    MaxPages,      \* extraction.max_pdf_pages
    VisionPages,   \* extraction_vision.max_pages
    OverlapLines   \* extraction.pdf_page_overlap_lines

ASSUME PagedAssumption ==
    {MaxDocPages, MaxLines, MaxPages, VisionPages, OverlapLines} \subseteq Nat

VARIABLES
    content,  \* what the bytes are: "text", "pdf" or "image"
    picture,  \* an image's result: "none" yet, "skipped", "answered", "failed"
    pages,    \* the document
    vision,   \* extraction_vision.enabled
    grouped,  \* is there a completion pool
    pc,       \* "parse", "group", "images", "assemble", "done", "raised"
    tail,     \* lines of prev_tail
    plans,    \* per page parsed, what is sent for it
    replies,  \* page number -> did the call answer
    rendered, \* vision_pages_used
    stats     \* the result: per page, in the order it is returned

pvars == <<pages, vision, grouped, pc, tail, plans, replies, rendered, stats>>
gvars == <<vars, pvars, content, picture>>

PageKind == [lines : 0..MaxLines, image : BOOLEAN]

At == Len(plans) + 1
Page == pages[At]

\* _page_is_visual under image_bearing: embedded images, or too little text.
IsVisual(page) == page.image \/ page.lines = 0

PInit ==
    /\ pages \in UNION {[1..n -> PageKind] : n \in 0..MaxDocPages}
    /\ vision \in BOOLEAN /\ grouped \in BOOLEAN
    /\ pc = "parse" /\ tail = 0 /\ plans = <<>> /\ replies = <<>>
    /\ rendered = 0 /\ stats = <<>>

More == pc = "parse" /\ At <= Len(pages) /\ At <= MaxPages
Skipped(p) == p.carried + p.own = 0 /\ ~p.image

\* What the page sends, given whether rendering it worked.
PlanOf(renders) ==
    [carried |-> tail, own |-> Page.lines,
     image |-> vision /\ IsVisual(Page) /\ rendered < VisionPages /\ renders]

Answered(n, ok) == [m \in DOMAIN replies \cup {n} |-> IF m = n THEN ok ELSE replies[m]]

\* Neither text nor image to send: ZERO_PAGE_YIELD, and no overlap goes on.
SkipPage(renders) ==
    /\ More /\ Skipped(PlanOf(renders))
    /\ plans' = Append(plans, PlanOf(renders)) /\ tail' = 0
    /\ UNCHANGED <<pages, vision, grouped, pc, replies, rendered, stats>>

\* lines[-n:] of the page's own text; [-0:] is the whole of it.
TailOf(page) == IF OverlapLines = 0 THEN page.lines ELSE Min({page.lines, OverlapLines})

\* Sequential: the call is made while the page is parsed.  Pooled: it is planned.
ReadPage(renders, ok) ==
    LET plan == PlanOf(renders)
    IN  /\ More /\ ~Skipped(plan)
        /\ plans' = Append(plans, plan)
        /\ replies' = IF grouped THEN replies ELSE Answered(At, ok)
        /\ rendered' = rendered + (IF plan.image THEN 1 ELSE 0)
        /\ tail' = TailOf(Page)
        /\ UNCHANGED <<pages, vision, grouped, pc, stats>>

\* The last page, the page cap or the wall-clock budget.
EndParse ==
    /\ pc = "parse"
    /\ pc' = IF grouped THEN "group" ELSE "assemble"
    /\ UNCHANGED <<pages, vision, grouped, tail, plans, replies, rendered, stats>>

TextPlans == {n \in DOMAIN plans : ~Skipped(plans[n]) /\ ~plans[n].image}
ImagePlans == {n \in DOMAIN plans : plans[n].image}

\* Every text page rides one pooled group; it may degrade to no reply for all.
Group(ok) ==
    /\ pc = "group" /\ DOMAIN ok = TextPlans
    /\ replies' = ok /\ pc' = "images"
    /\ UNCHANGED <<pages, vision, grouped, tail, plans, rendered, stats>>

\* Then the vision pages, one call each, in page order.
AskImage(ok) ==
    /\ pc = "images" /\ ImagePlans \ DOMAIN replies # {}
    /\ replies' = Answered(Min(ImagePlans \ DOMAIN replies), ok)
    /\ UNCHANGED <<pages, vision, grouped, pc, tail, plans, rendered, stats>>

EndImages ==
    /\ pc = "images" /\ ImagePlans \subseteq DOMAIN replies
    /\ pc' = "assemble"
    /\ UNCHANGED <<pages, vision, grouped, tail, plans, replies, rendered, stats>>

\* An account-level failure leaves the loop, and the replies had are lost.
Raise ==
    /\ pc \in {"group", "images"} \/ More
    /\ pc' = "raised"
    /\ UNCHANGED <<pages, vision, grouped, tail, plans, replies, rendered, stats>>

\* Candidates, notes and page stats are put together in page order.
Order == [i \in DOMAIN plans |-> i]

Assemble ==
    /\ pc = "assemble"
    /\ stats' = [i \in DOMAIN Order |->
                   [page |-> Order[i],
                    call |-> IF Order[i] \notin DOMAIN replies THEN "none"
                             ELSE IF replies[Order[i]] THEN "answered" ELSE "failed"]]
    /\ pc' = "done"
    /\ UNCHANGED <<pages, vision, grouped, tail, plans, replies, rendered>>

PNext ==
    \/ \E renders \in BOOLEAN : SkipPage(renders)
    \/ \E renders, ok \in BOOLEAN : ReadPage(renders, ok)
    \/ EndParse
    \/ \E S \in SUBSET (1..MaxDocPages) : \E ok \in [S -> BOOLEAN] : Group(ok)
    \/ \E ok \in BOOLEAN : AskImage(ok)
    \/ EndImages
    \/ Raise
    \/ Assemble

-----------------------------------------------------------------------------
NoPages ==
    /\ pages = <<>> /\ vision = FALSE /\ grouped = FALSE /\ pc = "done" /\ tail = 0
    /\ plans = <<>> /\ replies = <<>> /\ rendered = 0 /\ stats = <<>>

\* Where no text is read, one version stands for all.
GInit ==
    /\ Init /\ picture = "none"
    /\ content = "text" \/ version = CHOOSE v \in Versions : TRUE
    /\ \/ content = "pdf" /\ PInit
       \/ content \in {"text", "image"} /\ NoPages

\* _extract_image: over max_image_bytes it is skipped, else asked once.
ReadImage(result) ==
    /\ picture = "none"
    /\ picture' = result
    /\ UNCHANGED <<vars, pvars, content>>

GNext ==
    \/ content = "text" /\ Next /\ UNCHANGED <<pvars, content, picture>>
    \/ content = "pdf" /\ PNext /\ UNCHANGED <<vars, content, picture>>
    \/ content = "image" /\ \E r \in {"skipped", "answered", "failed"} : ReadImage(r)

GSpec == GInit /\ [][GNext]_gvars
-----------------------------------------------------------------------------
CallsOf(outcome) == Cardinality({i \in DOMAIN stats : stats[i].call = outcome})

\* The result lists the pages parsed once each, in page order, each with the reply
\* to its own call, and its counts are the calls made: a vision page of the pooled
\* path, asked after the group, still takes its own place, and no document costs
\* more than VisionPages renderings or MaxPages pages.  An entry that straddles two
\* pages is read whole, and paid for once: the last OverlapLines lines of a page, and
\* no more, are in the next page's prompt, whichever of the two went with an image
\* (an overlap set to 0 is the exception: lines[-0:] is the whole page).
PagesInOrder ==
    /\ Len(plans) <= MaxPages /\ Cardinality(ImagePlans) <= VisionPages
    /\ OverlapLines # 0 =>
          \A n \in 2..Len(plans) : plans[n].carried = Min({pages[n - 1].lines, OverlapLines})
    /\ pc = "done" =>
        /\ Len(stats) = Len(plans)
        /\ \A i \in DOMAIN stats :
              /\ stats[i].page = i
              /\ stats[i].call = "none" <=> Skipped(plans[i])
              /\ stats[i].call = "answered" => replies[i]
        /\ CallsOf("answered") + CallsOf("failed") = Cardinality(TextPlans \cup ImagePlans)

\* However often a text is read, it is read as one pass would read it, and every page keeps
\* its own reply and the end of the page before it.
TextIsReadWhole == ReadAsOnePass /\ PagesInOrder
=====================================================================================
