------------------------------- MODULE Embeddings -------------------------------
(* The encoder of a process (embeddings.py): loaded at the first call, without a  *)
(* lock, so that threads which find none each load one; and driven by one thread  *)
(* at a time, because two threads in one device crash it.                         *)
EXTENDS Naturals, FiniteSets

CONSTANTS
    Thread,    \* the worker threads that encode
    Pinned,    \* EMBEDDING_MODEL_REVISION
    Others,    \* revisions other tools fetch
    MaxLoads,  \* bound: loads begun
    MaxTurns   \* bound: what the operator and other tools do

VARIABLES
    refused,  \* network.egress refuses the hub
    cached,   \* revisions in the local cache
    shared,   \* _embedding_model: an instance, or none
    failed,   \* _offline_load_failed
    lock,     \* _encode_lock: the thread that holds it, or none
    thread,   \* thread |-> where it is, and with what
    loads, turns
embeddingVars == <<refused, cached, shared, failed, lock, thread, loads, turns>>

NoModel == [instance |-> 0, revision |-> 0]
Nobody == "nobody"
NoWork == [at |-> "idle", model |-> NoModel, offline |-> FALSE]

EmbeddingInit ==
    /\ refused \in BOOLEAN /\ cached \in SUBSET ({Pinned} \cup Others)
    /\ shared = NoModel /\ failed = FALSE /\ lock = Nobody
    /\ thread = [t \in Thread |-> NoWork] /\ loads = 0 /\ turns = 0

At(t, place) == thread[t].at = place
Go(t, place, model) == thread' = [thread EXCEPT ![t] = [@ EXCEPT !.at = place, !.model = model]]
-----------------------------------------------------------------------------
(* get_embedding_model                                                            *)

Shared(t) ==
    /\ At(t, "idle") /\ shared # NoModel
    /\ Go(t, "ready", shared)
    /\ UNCHANGED <<refused, cached, shared, failed, lock, loads, turns>>

\* A failed load is not tried again while the hub is refused: semantics are off.
GiveUp(t) ==
    /\ At(t, "idle") /\ shared = NoModel /\ refused /\ failed
    /\ Go(t, "without", NoModel)
    /\ UNCHANGED <<refused, cached, shared, failed, lock, loads, turns>>

\* The posture is read once, before the load.
BeginLoad(t) ==
    /\ At(t, "idle") /\ shared = NoModel /\ ~(refused /\ failed) /\ loads < MaxLoads
    /\ thread' = [thread EXCEPT ![t] = [at |-> "loading", offline |-> refused,
                                             model |-> [NoModel EXCEPT !.instance = loads + 1]]]
    /\ loads' = loads + 1
    /\ UNCHANGED <<refused, cached, shared, failed, lock, turns>>

\* _load_cached: the pinned revision, from the local cache only.
InCache(revision) == revision = Pinned /\ revision \in cached
\* From the hub, if it answers: the pinned revision too.
Loads(t, revision) ==
    IF thread[t].offline THEN InCache(revision) ELSE revision = Pinned

\* An instance of its own for each load; the last one stays.
Loaded(t, revision) ==
    /\ At(t, "loading") /\ Loads(t, revision)
    /\ shared' = [thread[t].model EXCEPT !.revision = revision]
    /\ cached' = cached \cup (IF thread[t].offline THEN {} ELSE {revision})
    /\ Go(t, "loaded", shared')
    /\ UNCHANGED <<refused, failed, lock, loads, turns>>
\* The instance that is shared by now, which another thread may have loaded.
TakeShared(t) ==
    /\ At(t, "loaded")
    /\ Go(t, "ready", shared)
    /\ UNCHANGED <<refused, cached, shared, failed, lock, loads, turns>>
\* The hub does not answer, the cache lacks the revision, or it does not load.
LoadFailed(t) ==
    /\ At(t, "loading")
    /\ failed' = (failed \/ thread[t].offline)
    /\ Go(t, "without", NoModel)
    /\ UNCHANGED <<refused, cached, shared, lock, loads, turns>>
-----------------------------------------------------------------------------
(* encode, whose lock is the module's.                                            *)

\* Mutant: each wrapper has a lock of its own.
FreeForModel(t) ==
    \A u \in Thread \ {t} : At(u, "encoding") => thread[u].model # thread[t].model
Free(t) == lock = Nobody
Acquire(t) ==
    /\ At(t, "ready") /\ Free(t)
    /\ lock' = t
    /\ Go(t, "encoding", thread[t].model)
    /\ UNCHANGED <<refused, cached, shared, failed, loads, turns>>
\* A result or an exception: the lock is free either way, and the caller may encode more.
Encoded(t) ==
    /\ At(t, "encoding")
    /\ lock' = IF lock = t THEN Nobody ELSE lock
    /\ Go(t, "idle", NoModel) \/ Go(t, "ready", thread[t].model)
    /\ UNCHANGED <<refused, cached, shared, failed, loads, turns>>
Forgo(t) ==
    /\ At(t, "without")
    /\ Go(t, "idle", NoModel)
    /\ UNCHANGED <<refused, cached, shared, failed, lock, loads, turns>>

\* The operator changes the posture, or another tool fetches a revision.
Posture ==
    /\ turns < MaxTurns /\ turns' = turns + 1
    /\ refused' = ~refused
    /\ UNCHANGED <<cached, shared, failed, lock, thread, loads>>
Fetch(revision) ==
    /\ turns < MaxTurns /\ turns' = turns + 1
    /\ cached' = cached \cup {revision}
    /\ UNCHANGED <<refused, shared, failed, lock, thread, loads>>

EmbeddingNext ==
    \/ \E t \in Thread : Shared(t) \/ GiveUp(t) \/ BeginLoad(t) \/ TakeShared(t) \/ LoadFailed(t)
                         \/ Acquire(t) \/ Encoded(t) \/ Forgo(t)
    \/ \E t \in Thread, r \in {Pinned} \cup Others : Loaded(t, r)
    \/ Posture \/ \E r \in {Pinned} \cup Others : Fetch(r)
EmbeddingSpec == EmbeddingInit /\ [][EmbeddingNext]_embeddingVars
-----------------------------------------------------------------------------
\* One thread at a time drives the device, also where two threads loaded an encoder each.
OneEncodes == Cardinality({t \in Thread : At(t, "encoding")}) <= 1

\* Whoever encodes does so with the revision this release names, whatever is cached and
\* however loads, failures and changes of posture interleave: vectors share one space.
OneSpace ==
    /\ \A t \in Thread : thread[t].at \in {"ready", "encoding"} => thread[t].model.revision = Pinned
    /\ shared # NoModel => shared.revision = Pinned

\* However the threads of a process load and encode, one at a time drives the device and all of
\* them use the revision the release names.
EncodersAreShared == OneEncodes /\ OneSpace
=============================================================================
