---------------------------------- MODULE Endpoint ----------------------------------
(***************************************************************************)
(* One completion through an OpenAI-compatible endpoint or through         *)
(* Anthropic's: how a purpose is resolved to a provider (llm/registry.py), *)
(* what the adapter asks for, retries, downgrades and hands back           *)
(* (llm/adapters/openai_compat.py, anthropic.py), and what the open usage  *)
(* scopes count (llm/usage.py).                                            *)
(*                                                                         *)
(* A schema is a record of the types and the enumerated values it admits,  *)
(* its properties and its items.  A reply is a shape: an array, an object  *)
(* with an items list, any other text, or nothing.                         *)
(***************************************************************************)
EXTENDS Naturals, Sequences, FiniteSets, SequencesExt

CONSTANTS
    Requests,    \* what call sites ask: purpose, schema, whether a temperature
    Entries,     \* the settings a reload may bring
    MaxRetries,  \* llm.providers.<name>.max_retries
    MaxReloads,  \* bound
    MaxScopes,   \* bound: blocks open at once
    MaxAnswers   \* bound: replies a scope hears

VARIABLES
    entry,    \* the settings in force
    reloads,  \* reloads so far
    scopes,   \* the with-blocks open, innermost last
    flight,     \* the completion in flight
    anthropic \* whether its client is built, and whether its model refuses a temperature

evars == <<entry, reloads, scopes, flight, anthropic>>

Rest == [pc |-> "rest"]

-----------------------------------------------------------------------------
\* JSON Schemas.
AnyValue == {}
NoItems == [none |-> TRUE]
Leaf(types, values) ==
    [types |-> types, values |-> values, props |-> <<>>, required |-> {}, closed |-> FALSE,
     items |-> NoItems]
ObjectOf(types, props, required) ==
    [Leaf(types, AnyValue) EXCEPT !.props = props, !.required = required, !.closed = TRUE]
ArrayOf(items) == [Leaf({"array"}, AnyValue) EXCEPT !.items = items]

\* _wrap_array_schema: an object root around an array root.
Wrap(schema) == ObjectOf({"object"}, [items |-> schema], {"items"})

\* _nullable widens the types; the enumerated values stay what they are.
Nullable(schema) == [schema EXCEPT !.types = @ \cup {"null"}]

WithOptional(schema, props) ==
    [k \in DOMAIN props |-> IF k \in schema.required THEN props[k] ELSE Nullable(props[k])]

\* _to_strict_schema.  Only a schema whose type is "object" alone is an object to it.
RECURSIVE Strict(_)
Strict(schema) ==
    LET inner == IF schema.items = NoItems THEN schema ELSE [schema EXCEPT !.items = Strict(@)]
        props == [k \in DOMAIN schema.props |-> Strict(schema.props[k])]
    IN  IF schema.types # {"object"} THEN inner
        ELSE [inner EXCEPT !.props = WithOptional(schema, props),
                           !.required = DOMAIN props, !.closed = TRUE]

AdmitsNull(schema) == "null" \in schema.types /\ (schema.values = AnyValue \/ "null" \in schema.values)

-----------------------------------------------------------------------------
\* The innermost override of a purpose wins over the settings.
Overrides == UNION {scopes[i].purposes : i \in DOMAIN scopes}
Counting(i) == scopes[i].kind = "usage"

Zero == [calls |-> 0, input |-> 0, cached |-> 0, output |-> 0, stops |-> 0, dropped |-> 0]
NoneHeard == [replies |-> 0, prompt |-> 0, written |-> 0, cut |-> 0, bare |-> 0]
UsageScope == [kind |-> "usage", purposes |-> {}, counts |-> Zero, heard |-> NoneHeard]
OverrideScope(purposes) == [UsageScope EXCEPT !.kind = "override", !.purposes = purposes]

Init ==
    /\ entry \in Entries /\ reloads = 0
    /\ scopes = <<>> /\ flight = Rest /\ anthropic = [built |-> FALSE, bare |-> FALSE]

\* track_usage and override_providers: blocks nest, and a call runs inside them.
Open(scope) ==
    /\ flight = Rest /\ Len(scopes) < MaxScopes
    /\ scopes' = Append(scopes, scope)
    /\ UNCHANGED <<entry, reloads, flight, anthropic>>

Close ==
    /\ flight = Rest /\ scopes # <<>>
    /\ scopes' = Front(scopes)
    /\ UNCHANGED <<entry, reloads, flight, anthropic>>

\* UsageAccumulator.take: the totals so far, then from zero.
Take ==
    /\ flight = Rest /\ scopes # <<>> /\ Counting(Len(scopes))
    /\ scopes' = [scopes EXCEPT ![Len(scopes)] = UsageScope]
    /\ scopes' # scopes
    /\ UNCHANGED <<entry, reloads, flight, anthropic>>

Reload(new) ==
    /\ reloads < MaxReloads /\ new # entry
    /\ entry' = new /\ reloads' = reloads + 1
    /\ UNCHANGED <<scopes, flight, anthropic>>

-----------------------------------------------------------------------------
Ended(how) == [pc |-> "ended", how |-> how]

\* What the request carries: the schema, wrapped and made strict as the dialect asks.
Enforced(request) == request.schema # NoItems /\ entry.dialect \in {"auto", "strict"}
IsArray(schema) == schema # NoItems /\ schema.types = {"array"}
Format(request) ==
    LET schema == IF IsArray(request.schema) THEN Wrap(request.schema) ELSE request.schema
    IN  IF ~Enforced(request) THEN NoItems
        ELSE IF entry.dialect = "strict" THEN Strict(schema) ELSE schema

\* _check_plaintext_base_url, and its like for an entry.
InClear == entry.cleartext /\ ~entry.plaintext

\* get_provider and the start of complete: everything before the first request is sent is
\* read from the settings at once, and stays what it is over the retries.
Ask(request) ==
    /\ flight = Rest
    /\ flight' = IF request.purpose \in Overrides THEN Ended("scripted")
               ELSE IF ~entry.allowed THEN Ended("refused")
               ELSE IF ~entry.known THEN Ended("unknown provider")
               ELSE IF entry.adapter = "anthropic" THEN [pc |-> "connect", request |-> request]
               ELSE IF request.images THEN Ended("no images")
               ELSE IF request.schemaless THEN Ended("no json_object")
               ELSE IF entry.key /\ InClear THEN Ended("key kept")
               ELSE [pc |-> "post", adapter |-> "compat", request |-> request, attempt |-> 0,
                     format |-> Format(request), dialect |-> entry.dialect,
                     wrapped |-> Enforced(request) /\ IsArray(request.schema),
                     temperature |-> request.temperature /\ entry.sends]
    /\ UNCHANGED <<entry, reloads, scopes, anthropic>>

\* get_client, in the worker thread: the key and the base URL are judged when the client is
\* built, and the client is kept.  The schema is not sent, and no temperature to a model
\* known to refuse it.
Connect ==
    /\ flight.pc = "connect"
    /\ IF ~anthropic.built /\ (~entry.key \/ InClear)
       THEN flight' = Ended("key kept") /\ UNCHANGED anthropic
       ELSE /\ anthropic' = [anthropic EXCEPT !.built = TRUE]
            /\ flight' = [pc |-> "post", adapter |-> "anthropic", request |-> flight.request,
                          attempt |-> 0, format |-> NoItems, dialect |-> "off",
                          wrapped |-> FALSE,
                          temperature |-> flight.request.temperature /\ ~anthropic.bare]
    /\ UNCHANGED <<entry, reloads, scopes>>

\* Every request is judged by the posture in force; a refusal is no transient failure.
RefusePost ==
    /\ flight.pc = "post" /\ ~entry.allowed
    /\ flight' = Ended("refused")
    /\ UNCHANGED <<entry, reloads, scopes, anthropic>>

CanPost == flight.pc = "post" /\ entry.allowed

\* _post_with_retry: a connection error and a transient status are tried again.
Transient ==
    /\ CanPost /\ flight.adapter = "compat"
    /\ flight' = IF flight.attempt < MaxRetries THEN [flight EXCEPT !.attempt = @ + 1]
               ELSE Ended("exhausted")
    /\ UNCHANGED <<entry, reloads, scopes, anthropic>>

\* Mutant: the reply to the bare request is still taken for a wrapped one.
DowngradedWrapped == [flight EXCEPT !.format = NoItems, !.attempt = 0]

\* The endpoint does not know response_format: once more, with a new budget of retries,
\* without it, and the reply is nobody's envelope.
Downgraded == [flight EXCEPT !.format = NoItems, !.wrapped = FALSE, !.attempt = 0]

Rejected ==
    /\ CanPost
    /\ \/ flight' = Ended("rejected")
       \/ flight.format # NoItems /\ flight' = Downgraded
    /\ UNCHANGED <<entry, reloads, scopes, anthropic>>

\* The model has deprecated the temperature: once more without it, and never again with it.
Deprecated ==
    /\ CanPost /\ flight.adapter = "anthropic" /\ flight.temperature
    /\ flight' = [flight EXCEPT !.temperature = FALSE]
    /\ anthropic' = [anthropic EXCEPT !.bare = TRUE]
    /\ UNCHANGED <<entry, reloads, scopes>>

-----------------------------------------------------------------------------
\* The reply of the endpoint: its text, why it stopped, and what it says it cost.
Text == {"array", "items", "text", "none"}
Costs == {[prompt |-> 0, cached |-> 0, written |-> 0], [prompt |-> 2, cached |-> 1, written |-> 1],
          [prompt |-> 1, cached |-> 3, written |-> 1]}
Finish == {"stop", "length", "content_filter"}

\* The cached share is moved out of the prompt (_record_payload_usage), where the endpoint
\* does not say it apart (_record_message_usage).
Apart == flight.adapter = "anthropic"
Counted(counts, cost, finish) ==
    LET cached == IF Apart \/ cost.cached < cost.prompt THEN cost.cached ELSE cost.prompt
        moved == IF Apart THEN 0 ELSE cached
    IN  [calls |-> counts.calls + 1, input |-> counts.input + cost.prompt - moved,
         cached |-> counts.cached + cached, output |-> counts.output + cost.written,
         stops |-> counts.stops + IF finish = "length" THEN 1 ELSE 0,
         dropped |-> counts.dropped + IF flight.request.temperature /\ ~flight.temperature THEN 1 ELSE 0]

Heard(heard, cost, finish) ==
    [replies |-> heard.replies + 1,
     prompt |-> heard.prompt + cost.prompt + (IF Apart THEN cost.cached ELSE 0),
     written |-> heard.written + cost.written,
     cut |-> heard.cut + IF finish = "length" THEN 1 ELSE 0,
     bare |-> heard.bare + IF flight.request.temperature /\ ~flight.temperature THEN 1 ELSE 0]

\* _unwrap_items_reply
Unwrapped(text) == IF text = "items" THEN "array" ELSE text

\* A reply that is cut off is read like any other.
Ending(text, finish) ==
    IF finish = "content_filter" THEN Ended("declined")
    ELSE IF text = "none" THEN Ended("empty")
    ELSE [pc |-> "ended", how |-> "answered", written |-> text,
          read |-> IF flight.wrapped THEN Unwrapped(text) ELSE text,
          enveloped |-> flight.format # NoItems /\ IsArray(flight.request.schema)]

\* _extract_text: the usage is recorded before the reply is judged.
Answer(text, cost, finish) ==
    /\ CanPost /\ \A i \in DOMAIN scopes : scopes[i].heard.replies < MaxAnswers
    /\ scopes' = [i \in DOMAIN scopes |->
                    IF ~Counting(i) THEN scopes[i]
                    ELSE [scopes[i] EXCEPT
                            !.counts = Counted(@, cost, finish),
                            !.heard = Heard(@, cost, finish)]]
    /\ flight' = Ending(text, finish)
    /\ UNCHANGED <<entry, reloads, anthropic>>

Return ==
    /\ flight.pc = "ended" /\ flight' = Rest
    /\ UNCHANGED <<entry, reloads, scopes, anthropic>>

Next ==
    \/ Open(UsageScope) \/ Close \/ Take
    \/ \E r \in Requests : Open(OverrideScope({r.purpose})) \/ Ask(r)
    \/ \E new \in Entries : Reload(new)
    \/ Connect \/ RefusePost \/ Transient \/ Rejected \/ Deprecated \/ Return
    \/ \E t \in Text, c \in Costs, f \in Finish : Answer(t, c, f)

Spec == Init /\ [][Next]_evars

-----------------------------------------------------------------------------
\* Whatever is retried, reloaded or nested, each open scope has counted every reply it
\* heard, a declined or an empty one too, once, with no token of the prompt counted twice
\* (openai_compat.py:573, "Billed whether or not the reply carries text").
EveryReplyIsCounted == \A i \in DOMAIN scopes :
    LET counts == scopes[i].counts
        heard == scopes[i].heard
    IN  /\ counts.calls = heard.replies
        /\ counts.input + counts.cached = heard.prompt
        /\ counts.output = heard.written
        /\ counts.stops = heard.cut /\ counts.dropped = heard.bare

\* The call site reads what the model wrote.  Only an envelope this very request asked for
\* is taken off, and it is taken off whenever it was asked for.
ReadsWhatWasWritten ==
    flight.pc = "ended" /\ flight.how = "answered" =>
        flight.read = IF flight.enveloped THEN Unwrapped(flight.written) ELSE flight.written

\* The schema nodes of a request.
RECURSIVE Nodes(_)
Nodes(schema) ==
    {schema} \cup UNION {Nodes(schema.props[k]) : k \in DOMAIN schema.props}
             \cup IF schema.items = NoItems THEN {} ELSE Nodes(schema.items)

\* What a strict endpoint asks of a schema: every key of an object is required and no other
\* is allowed; and a key the call site requires is not made optional on the way.
StrictIsStrict ==
    flight.pc = "post" /\ flight.format # NoItems /\ flight.dialect = "strict" =>
        /\ \A n \in Nodes(flight.format) : n.props # <<>> => n.required = DOMAIN n.props /\ n.closed
        /\ \A n \in Nodes(flight.request.schema), m \in Nodes(flight.format) :
             n.props # <<>> /\ DOMAIN n.props = DOMAIN m.props =>
                \A k \in n.required : AdmitsNull(m.props[k]) = AdmitsNull(n.props[k])

\* What the docstring says of _to_strict_schema: it "re-expresses the originally-optional
\* keys as unions with ``null``", so a reply may still leave an optional key out.
OptionalStaysOptional ==
    flight.pc = "post" /\ flight.format # NoItems /\ flight.dialect = "strict" =>
        \A n \in Nodes(flight.request.schema), m \in Nodes(flight.format) :
            n.props # <<>> /\ DOMAIN n.props = DOMAIN m.props =>
                \A k \in DOMAIN n.props \ n.required : AdmitsNull(m.props[k])
=====================================================================================
