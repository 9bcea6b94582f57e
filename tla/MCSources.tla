---------------------------------- MODULE MCSources ----------------------------------
(***************************************************************************)
(* How a source is read, checked side by side: the three thread sources    *)
(* and the general extractor.  They share no state: which one runs is      *)
(* chosen at the start and the others stay at rest.                        *)
(***************************************************************************)
EXTENDS GeneralExtractor, HackerNewsThread, MastodonThread, RedditThread, TLC

VARIABLE part

HackerNewsRests ==
    /\ kids = "rest" /\ nature = "rest" /\ stack = "rest" /\ visited = "rest"
    /\ captured = "rest" /\ fetches = "rest" /\ at = "rest"
MastodonRests ==
    served = "rest" /\ stored = "rest" /\ fetchCap = "rest" /\ cap = "rest" /\ reading = "rest"
RedditRests ==
    parent = "rest" /\ score = "rest" /\ gone = "rest" /\ blob = "rest" /\ backend = "rest"

\* The extractor at rest has an image before it that it does not read.
ExtractorRests == GInit /\ content = "image"

SourcesInit ==
    \/ part = "hackernews" /\ HNInit /\ MastodonRests /\ RedditRests /\ ExtractorRests
    \/ part = "mastodon" /\ MInit /\ HackerNewsRests /\ RedditRests /\ ExtractorRests
    \/ part = "reddit" /\ RInit /\ HackerNewsRests /\ MastodonRests /\ ExtractorRests
    \/ part = "extractor" /\ GInit /\ HackerNewsRests /\ MastodonRests /\ RedditRests

SourcesNext ==
    \/ part = "hackernews" /\ HNNext /\ UNCHANGED <<part, masto, redditVars, gvars>>
    \/ part = "mastodon" /\ MNext /\ UNCHANGED <<part, hn, redditVars, gvars>>
    \/ part = "reddit" /\ RNext /\ UNCHANGED <<part, hn, masto, gvars>>
    \/ part = "extractor" /\ GNext /\ UNCHANGED <<part, hn, masto, redditVars>>

SourcesSpec == SourcesInit /\ [][SourcesNext]_<<part, hn, masto, redditVars, gvars>>

\* Up to two kids, the story and the same kid twice among them.
KidLists == {<<>>} \cup {<<c>> : c \in Comment \cup {Story}} \cup {<<c, d>> : c \in Comment, d \in Comment}
RenderedSizes == {<<1>>, <<2, 5>>, <<1, 1, 4>>}
Interchangeable == Permutations(Comment) \cup Permutations(Para)

-----------------------------------------------------------------------------
\* A thread is read as it was fetched, whole, and what is left out is noted: the walk that
\* renders is the walk that fetched (HackerNewsThread), a thread capped twice is the thread
\* capped once (MastodonThread), no comment worth reading goes without a note (RedditThread).
ThreadsAreReadWhole ==
    /\ part = "hackernews" => RenderedAsFetched
    /\ part = "mastodon" => ThreadIsReadWhole
    /\ part = "reddit" => OmissionsAreNoted
=====================================================================================
