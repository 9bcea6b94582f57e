---------------------------------- MODULE Outbound ----------------------------------
(***************************************************************************)
(* One fetch of a source from the network and the three gates it passes:   *)
(* the no-egress posture and its process-wide backstop (egress.py), the    *)
(* transport that resolves, vets and pins a host at connect time           *)
(* (url_safety.py), and the client that follows redirects, caps the body,  *)
(* retries a transient status and keeps credentials on their origin        *)
(* (http.py).                                                              *)
(*                                                                         *)
(* A URL is a scheme and a host; a host is a name or an address.  The      *)
(* settings may be reloaded and the zone may change between any two awaits.*)
(***************************************************************************)
EXTENDS Naturals, Sequences, FiniteSets, SequencesExt

CONSTANTS
    Name,       \* host names
    Addr,       \* addresses
    Blocked,    \* those _is_blocked_ip refuses
    Postures,   \* the network settings a reload may bring
    Retries,    \* len(backoffs)
    MaxHops,    \* bound: redirects followed
    MaxChanges  \* bound: reloads, re-armings and changes of the zone

VARIABLES
    policy,    \* the policy compiled from the settings in force
    armed,     \* the backstop's policy, or Off
    admitted,  \* policy object -> addresses its listed names resolved to, with the ports
    zone,      \* name -> the addresses it resolves to, in order
    changes,   \* changes so far
    req,       \* the request in flight
    sent       \* the last request that reached the network, or Nothing

ovars == <<policy, armed, admitted, zone, changes, req, sent>>

Host == Name \cup Addr
Port(scheme) == IF scheme = "https" THEN 443 ELSE 80
AnyPort == 0
Off == [id |-> 0, posture |-> "open", entries |-> {}]
URL == [scheme : {"http", "https"}, host : Host]
Rest == [pc |-> "rest"]
Nothing == [addr |-> "none"]

-----------------------------------------------------------------------------
\* EgressPolicy.  An entry with no port stands for every port.
Allows(p, host, port) ==
    p.posture = "open" \/ \E e \in p.entries : e.host = host /\ e.port \in {AnyPort, port}

AllowsLookup(p, host) ==
    p.posture = "open" \/ host \in Addr \/ \E e \in p.entries : e.host = host

\* record_resolution: the ports a name is listed with, for each of its addresses.
Recorded(p, host, addrs) ==
    IF host \in Addr THEN {}
    ELSE ToSet(addrs) \X {e.port : e \in {x \in p.entries : x.host = host}}

AdmitsAddress(p, addr, port) ==
    \/ Allows(p, addr, port)
    \/ \E q \in {AnyPort, port} : <<addr, q>> \in admitted[p.id]

\* current_policy: a reload compiles a new policy object, with nothing admitted yet.
Reload(settings) ==
    /\ changes < MaxChanges
    /\ policy' = [id |-> policy.id + 1, posture |-> settings.posture, entries |-> settings.entries]
    /\ changes' = changes + 1
    /\ UNCHANGED <<armed, admitted, zone, req, sent>>

\* ensure_backstop, which an entry point of the process calls before its first request.
Arm ==
    /\ changes < MaxChanges /\ req = Rest
    /\ armed' = IF policy.posture = "open" THEN Off ELSE policy
    /\ armed' # armed /\ changes' = changes + 1
    /\ UNCHANGED <<policy, admitted, zone, req, sent>>

\* External: a name resolves to something else.
Rebind(name, addrs) ==
    /\ changes < MaxChanges /\ zone[name] # addrs
    /\ zone' = [zone EXCEPT ![name] = addrs] /\ changes' = changes + 1
    /\ UNCHANGED <<policy, armed, admitted, req, sent>>

-----------------------------------------------------------------------------
Ended(how) == [pc |-> "ended", how |-> how, gate |-> req.gate, by |-> armed]

OInit ==
    /\ policy \in [id : {1}, posture : {s.posture : s \in Postures},
                   entries : {s.entries : s \in Postures}]
    /\ [posture |-> policy.posture, entries |-> policy.entries] \in Postures
    /\ armed = IF policy.posture = "open" THEN Off ELSE policy
    /\ admitted = [i \in 0..(MaxChanges + 1) |-> {}]
    /\ zone \in [Name -> {<<>>} \cup {<<a>> : a \in Addr}]
    /\ changes = 0 /\ req = Rest /\ sent = Nothing

\* get_with_retry's first attempt: get_capped streams a new chain of requests.
Attempt(url, creds, tries) ==
    [pc |-> "hop", url |-> url, first |-> url, creds |-> creds, asked |-> creds,
     hops |-> 0, tries |-> tries, cands |-> <<>>, name |-> url.host, gate |-> policy]

Begin(url, creds) ==
    /\ req = Rest
    /\ req' = Attempt(url, creds, 1)
    /\ UNCHANGED <<policy, armed, admitted, zone, changes, sent>>

\* _same_origin: the http-to-https upgrade of one host is no change of origin.
SameOrigin(origin, url) ==
    origin = url \/ (origin.host = url.host /\ origin.scheme = "http" /\ url.scheme = "https")

\* The request hook: off the chain's origin what the first request bound is dropped.
Carries == req.creds /\ SameOrigin(req.first, req.url)

Answer == IF req.url.host \in Addr THEN <<req.url.host>> ELSE zone[req.url.host]
Vetted(addrs) == addrs # <<>> /\ ToSet(addrs) \cap Blocked = {}

\* The gate before anything is resolved.
RefuseHop ==
    /\ req.pc = "hop" /\ ~Allows(policy, req.url.host, Port(req.url.scheme))
    /\ req' = Ended("refused")
    /\ UNCHANGED <<policy, armed, admitted, zone, changes, sent>>

GateOpen == req.pc = "hop" /\ Allows(policy, req.url.host, Port(req.url.scheme))

\* The audit hook on the lookup, by the backstop's policy.
RefuseLookup ==
    /\ GateOpen /\ req.url.host \in Name /\ ~AllowsLookup(armed, req.url.host)
    /\ req' = [Ended("backstop") EXCEPT !.gate = policy]
    /\ UNCHANGED <<policy, armed, admitted, zone, changes, sent>>

\* Resolve and vet, in one step: nothing is awaited from the gate to the first connect.
Resolve ==
    /\ GateOpen /\ (req.url.host \in Addr \/ AllowsLookup(armed, req.url.host))
    /\ admitted' = [admitted EXCEPT ![armed.id] = @ \cup Recorded(armed, req.url.host, Answer)]
    /\ req' = IF Vetted(Answer)
              THEN [req EXCEPT !.pc = "connect", !.cands = Answer, !.name = req.url.host,
                               !.creds = Carries, !.gate = policy]
              ELSE Ended("unsafe")
    /\ UNCHANGED <<policy, armed, zone, changes, sent>>

\* Mutant: the name is looked up again for the connection.
DialledNow == IF req.name \in Name /\ zone[req.name] # <<>> THEN Head(zone[req.name]) ELSE Head(req.cands)

\* The connection is pinned to a vetted address, in resolver order.
Dialled == Head(req.cands)

\* The audit hook on a connect sees the pinned address.
RefuseConnect ==
    /\ req.pc = "connect" /\ ~AdmitsAddress(armed, Dialled, Port(req.url.scheme))
    /\ req' = Ended("backstop")
    /\ UNCHANGED <<policy, armed, admitted, zone, changes, sent>>

\* Only a failure to connect moves on to the next vetted address.
FailConnect ==
    /\ req.pc = "connect" /\ AdmitsAddress(armed, Dialled, Port(req.url.scheme))
    /\ req' = IF Len(req.cands) = 1 THEN Ended("failed") ELSE [req EXCEPT !.cands = Tail(@)]
    /\ UNCHANGED <<policy, armed, admitted, zone, changes, sent>>

\* The connection stands and the request goes out; the transport has put the address
\* in the request's own URL.
Connect ==
    /\ req.pc = "connect" /\ AdmitsAddress(armed, Dialled, Port(req.url.scheme))
    /\ sent' = [addr |-> Dialled, name |-> req.name, creds |-> req.creds,
                scheme |-> req.url.scheme, first |-> req.first, by |-> armed]
    /\ req' = [req EXCEPT !.pc = "answer", !.url.host = Dialled]
    /\ UNCHANGED <<policy, armed, admitted, zone, changes>>

\* A body over the cap, declared or decompressed, ends the fetch, whatever the status.
TooLarge ==
    /\ req.pc = "answer" /\ req' = Ended("too large")
    /\ UNCHANGED <<policy, armed, admitted, zone, changes, sent>>

Deliver ==
    /\ req.pc = "answer" /\ req' = Ended("answered")
    /\ UNCHANGED <<policy, armed, admitted, zone, changes, sent>>

\* A transient status: the whole chain starts again, with what the caller asked for.
Retry ==
    /\ req.pc = "answer"
    /\ req' = IF req.tries > Retries THEN Ended("transient")
              ELSE Attempt(req.first, req.asked, req.tries + 1)
    /\ UNCHANGED <<policy, armed, admitted, zone, changes, sent>>

\* External: the client follows a redirect.  A location without a host is joined to the
\* URL of the request that was sent, where the transport has put the address.
Redirect(url) ==
    /\ req.pc = "answer" /\ req.hops < MaxHops
    /\ req' = [req EXCEPT !.pc = "hop", !.url = url, !.hops = @ + 1]
    /\ UNCHANGED <<policy, armed, admitted, zone, changes, sent>>

\* The fetch is over: the next one may start.
Again ==
    /\ req.pc = "ended" /\ req' = Rest /\ sent' = Nothing
    /\ UNCHANGED <<policy, armed, admitted, zone, changes>>

ONext ==
    \/ \E s \in Postures : Reload(s)
    \/ Arm
    \/ \E n \in Name, a, b \in Addr : Rebind(n, <<a, b>>) \/ Rebind(n, <<a>>)
    \/ \E u \in URL, c \in BOOLEAN : Begin(u, c)
    \/ RefuseHop \/ RefuseLookup \/ Resolve \/ RefuseConnect
    \/ FailConnect \/ Connect \/ TooLarge \/ Deliver \/ Retry
    \/ \E u \in URL : Redirect(u)
    \/ req.pc = "answer" /\ Redirect(req.url)

OSpec == OInit /\ [][ONext]_ovars
-----------------------------------------------------------------------------
\* Over failovers, redirects, retries, a zone that changes and settings that are reloaded
\* between any two steps: nothing goes to a blocked address, nothing leaves under a
\* backstop that admits nothing, and what the first request of a chain carried as a
\* credential reaches only the host it was meant for, over no weaker a scheme.
OnlyVettedIsReached == sent # Nothing =>
    /\ sent.addr \notin Blocked
    /\ sent.by.posture # "none"
    /\ sent.creds => /\ sent.name = sent.first.host
                     /\ sent.scheme \in {sent.first.scheme, "https"}

\* The gate judges a name and the backstop the address it resolved to.  They agree: the
\* backstop refuses no lookup and no connection that the gate let through under the
\* same policy, whatever ports the name is listed with and however often it moves.
LayersAgree ==
    req.pc = "ended" /\ req.how = "backstop" => req.by # req.gate

\* What is reached was vetted, and what the policy of a request admitted its backstop admits too.
NothingLeavesUnvetted == OnlyVettedIsReached /\ LayersAgree
=====================================================================================
