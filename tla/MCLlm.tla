------------------------------------ MODULE MCLlm ------------------------------------
(***************************************************************************)
(* The seams of the LLM layer, checked side by side: the circuit breaker   *)
(* of the semantic calls, the stack of the extraction calls, one           *)
(* completion through an OpenAI-compatible endpoint, the reading of the    *)
(* replies, the record of what an extraction exercised, the reading of its *)
(* adjudicability, and the encoder the threads share.  Which one runs is   *)
(* chosen at the start and the others stay at rest.                        *)
(***************************************************************************)
EXTENDS Breaker, LlmCall, Components, Adjudicability, Embeddings, ClaimReading, TLC

CONSTANTS MaxRetries, MaxReloads, MaxScopes, MaxAnswers

ASSUME EndpointAssumption == {MaxRetries, MaxReloads, MaxScopes, MaxAnswers} \subseteq Nat

VARIABLES
    part,
    entry, reloads, scopes, flight, anthropic   \* Endpoint

\* The candidate array: a required key, and optional ones with and without a null.
Text(values) == [types |-> {"string"}, values |-> values, props |-> <<>>, required |-> {},
                 closed |-> FALSE, items |-> [none |-> TRUE]]
CandidateSchema ==
    [Text({}) EXCEPT !.types = {"object"}, !.required = {"content"}, !.closed = TRUE,
        !.props = [content |-> Text({}), polarity |-> Text({"ASSERTED", "MENTIONED"}),
                   valid_until |-> [Text({}) EXCEPT !.types = {"string", "null"}],
                   stance_kind |-> [Text({"ENDORSES", "null"}) EXCEPT !.types = {"string", "null"}]]]
Unasked == [purpose |-> "query", schema |-> [none |-> TRUE], temperature |-> FALSE,
            images |-> FALSE, schemaless |-> FALSE]
Asked == [Unasked EXCEPT !.purpose = "extraction", !.temperature = TRUE,
                         !.schema = [Text({}) EXCEPT !.types = {"array"}, !.items = CandidateSchema]]
SomeRequests ==
    {Asked, Unasked, [Asked EXCEPT !.schema = CandidateSchema], [Unasked EXCEPT !.images = TRUE],
     [Unasked EXCEPT !.schemaless = TRUE]}
Reachable == [adapter |-> "compat", dialect |-> "auto", allowed |-> TRUE, known |-> TRUE, key |-> TRUE,
              cleartext |-> FALSE, plaintext |-> FALSE, sends |-> TRUE]
SomeEntries ==
    {Reachable, [Reachable EXCEPT !.dialect = "strict", !.sends = FALSE],
     [Reachable EXCEPT !.dialect = "off", !.key = FALSE, !.cleartext = TRUE],
     [Reachable EXCEPT !.cleartext = TRUE],
     [Reachable EXCEPT !.cleartext = TRUE, !.plaintext = TRUE, !.dialect = "strict"],
     [Reachable EXCEPT !.allowed = FALSE], [Reachable EXCEPT !.known = FALSE],
     [Reachable EXCEPT !.adapter = "anthropic"],
     [Reachable EXCEPT !.adapter = "anthropic", !.cleartext = TRUE]}

E == INSTANCE Endpoint WITH Requests <- SomeRequests, Entries <- SomeEntries

\* Elements of a reply: none, an empty one, a claim with a withheld name, a momentary one of a
\* worktree, a claim that takes a stance on the first element, and a remark on the document.
Claim(text, subjects, about) ==
    [kind |-> "object", text |-> text, scope |-> "WORLD", stance |-> {}, polarity |-> "ASSERTED",
     modality |-> "FALSIFIABLE", subjects |-> subjects, about |-> about]
SomeElements ==
    {[kind |-> "other"], Claim("", {}, ""), Claim("a", {"Acme", "ADR-7"}, "Acme"),
     Claim("now", {"tree"}, "tree"),
     [Claim("b", {"the pull request"}, "the pull request") EXCEPT !.stance = {0}, !.modality = "odd"],
     [Claim("c", {"the pull request"}, "the pull request") EXCEPT !.scope = "DOCUMENT_META", !.stance = {1}]}
Source(mode, exempt, session, disposition) ==
    [mode |-> mode, exempt |-> exempt, session |-> session, disposition |-> disposition]
SomeSettings ==
    {Source("label", TRUE, TRUE, "suppress"), Source("suppress", FALSE, TRUE, "qualify"),
     Source("passthrough", FALSE, FALSE, "suppress")}

\* A release and the settings: everything off, or deltas and the vision provider on; texts, a
\* journal, and PDFs whose page has little text or an image.
Off == [f \in {"rules", "reference", "parse", "validity", "delta", "size", "context", "vision",
               "always", "low"} |-> 0]
Material(kind, length, prefix, chars, image) ==
    [kind |-> kind, length |-> length, prefix |-> prefix, chars |-> chars, image |-> image]
SomeStarts == {Off, [Off EXCEPT !["vision"] = 1, !["delta"] = 1]}
SomeSources ==
    {Material("text", 2, TRUE, 1, FALSE), Material("text", 2, FALSE, 1, FALSE),
     Material("journal", 2, FALSE, 1, FALSE), Material("pdf", 2, FALSE, 0, FALSE),
     Material("pdf", 1, FALSE, 1, TRUE)}

\* Claims made by each extractor, with and without a record; lenses that grant and withhold.
Minted(extractor, classified, recorded, mixed) ==
    [extractor |-> extractor, classified |-> classified, recorded |-> recorded, mixed |-> mixed,
     scopes |-> {"subject", "source"}]
LensRule(scope, when, modality) == [scope |-> scope, when |-> when, modality |-> modality]
SomeLenses ==
    {[a |-> {LensRule("source", {0, 1}, 1)}, b |-> {LensRule("subject", {1}, 0)}],
     [a |-> {LensRule("source", {0, 1}, 1), LensRule("subject", {0, 1}, 0)},
      b |-> {LensRule("particle", {0, 1}, 1)}]}
SomeModes ==
    {Minted("general", TRUE, TRUE, FALSE), Minted("general", TRUE, TRUE, TRUE),
     Minted("general", TRUE, FALSE, FALSE), Minted("general", FALSE, TRUE, FALSE),
     Minted("journal", TRUE, TRUE, FALSE), Minted("journal", TRUE, FALSE, FALSE),
     Minted("assertion", FALSE, FALSE, FALSE), Minted("feed", FALSE, FALSE, FALSE)}

endpoint == <<entry, reloads, scopes, flight, anthropic>>

ExtractionRests == ExtractionInit /\ meter = <<>> /\ path = "sequential"
EndpointRests ==
    /\ entry = "rest" /\ reloads = "rest" /\ scopes = "rest" /\ flight = "rest"
    /\ anthropic = "rest"
ReadingRests == RInit /\ set = CHOOSE s \in Settings : TRUE
ComponentsRest == ComponentInit /\ today = Off
ModalityRests == ModalityInit /\ lenses = CHOOSE l \in Lenses : TRUE
EncoderRests == EmbeddingInit /\ ~refused /\ cached = {}

LlmInit ==
    /\ part \in {"breaker", "extraction", "endpoint", "reading", "components", "modality", "encoder"}
    /\ Init /\ (part # "breaker" => account = "ok")
    /\ IF part = "extraction" THEN ExtractionInit ELSE ExtractionRests
    /\ IF part = "endpoint" THEN E!Init ELSE EndpointRests
    /\ IF part = "reading" THEN RInit ELSE ReadingRests
    /\ IF part = "components" THEN ComponentInit ELSE ComponentsRest
    /\ IF part = "modality" THEN ModalityInit ELSE ModalityRests
    /\ IF part = "encoder" THEN EmbeddingInit ELSE EncoderRests

Steps ==
    \/ /\ part = "breaker" /\ Next
       /\ UNCHANGED <<extractionCalls, endpoint, reading, componentVars, modalityVars, embeddingVars>>
    \/ /\ part = "extraction" /\ ExtractionNext
       /\ UNCHANGED <<vars, endpoint, reading, componentVars, modalityVars, embeddingVars>>
    \/ /\ part = "endpoint" /\ E!Next
       /\ UNCHANGED <<vars, extractionCalls, reading, componentVars, modalityVars, embeddingVars>>
    \/ /\ part = "reading" /\ RNext
       /\ UNCHANGED <<vars, extractionCalls, endpoint, componentVars, modalityVars, embeddingVars>>
    \/ /\ part = "components" /\ ComponentNext
       /\ UNCHANGED <<vars, extractionCalls, endpoint, reading, modalityVars, embeddingVars>>
    \/ /\ part = "modality" /\ ModalityNext
       /\ UNCHANGED <<vars, extractionCalls, endpoint, reading, componentVars, embeddingVars>>
    \/ /\ part = "encoder" /\ EmbeddingNext
       /\ UNCHANGED <<vars, extractionCalls, endpoint, reading, componentVars, modalityVars>>
LlmNext == Steps /\ UNCHANGED part

LlmSpec ==
    LlmInit /\ [][LlmNext]_<<part, vars, extractionCalls, endpoint, reading, componentVars, modalityVars,
                             embeddingVars>>

-----------------------------------------------------------------------------
\* The call site reads what the model wrote, a strict schema asks what a strict endpoint
\* takes and no less than the call site does, and every open usage scope has counted every
\* reply it heard, once (Endpoint).
ContractIsKept ==
    part = "endpoint" => E!ReadsWhatWasWritten /\ E!StrictIsStrict /\ E!EveryReplyIsCounted
\* An optional key may be null in a strict reply (Endpoint).
OptionalStaysOptional == part = "endpoint" => E!OptionalStaysOptional
=====================================================================================
