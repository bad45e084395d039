----------------------------- MODULE ClientMeta -----------------------------
(***************************************************************************)
(* The metadata of one client of a mesh: what its stream holds, what the   *)
(* node keeps of it in clientMetadata, and what the registry in Redis says *)
(* (src/services/mesh-client/mesh-srpc-server.ts, mesh-client-service.ts   *)
(* and the scripts of mesh-client-redis-registry.ts).                      *)
(*                                                                         *)
(* A node handles the answers of Redis one by one and in the order of its  *)
(* commands; a microtask goes with what has queued it.  All meshes run,    *)
(* every stream supersedes (MeshClients has the rest), Redis does not fail.*)
(***************************************************************************)
EXTENDS Integers, Sequences, Functions

CONSTANTS
    Node, Field, Value,
    MaxStreams, MaxChanges, MaxUpdates  \* bounds

VARIABLES
    streams,    \* [node, step, meta], in the order they were accepted
    kept,       \* clientMetadata: node -> metadata
    entry,      \* of the registry: [node, state, meta]
    chain,      \* clientRegistryChains: node -> jobs [kind, s, meta, sent]
    pipe,       \* node -> its commands that Redis has not answered
    kicks,      \* nodes that are told to let the client go
    updates,    \* calls of updateClientMetadata(): [at, meta, step, before, owner, updated]
    changes, raced

vars == <<streams, kept, entry, chain, pipe, kicks, updates, changes, raced>>

Nothing == <<>>     \* no entry, no metadata
Fresh == [f \in Field |-> CHOOSE v \in Value : \A w \in Value : v <= w]

Current(n) == {s \in DOMAIN streams : streams[s].node = n /\ streams[s].step # "gone"}
Active(n)  == {s \in Current(n) : streams[s].step \in {"activating", "open"}}

\* A node's microtasks are done.
Drained == \A n \in Node : chain[n] # <<>> => Head(chain[n]).sent

NewJob(kind, s, meta) == [kind |-> kind, s |-> s, meta |-> meta, sent |-> FALSE]
Command(kind, meta, u) == [kind |-> kind, meta |-> meta, u |-> u]

\* Assignment field by field: what the update lacks stays.
Merged(meta, update) == [f \in Field |-> IF f \in DOMAIN update THEN update[f] ELSE meta[f]]

\* Mutant: what is kept is not compared, but left as it is.
SyncOnce(n, meta, k, queue) ==
    /\ kept' = [k EXCEPT ![n] = meta]
    /\ chain' = [chain EXCEPT ![n] = IF k[n] = Nothing THEN Append(queue, NewJob("update", 0, meta)) ELSE queue]

\* syncStreamMeta(), where k is clientMetadata and queue n's chain so far.
Sync(n, meta, k, queue) ==
    /\ kept' = [k EXCEPT ![n] = meta]
    /\ chain' = [chain EXCEPT ![n] = IF k[n] = meta THEN queue ELSE Append(queue, NewJob("update", 0, meta))]

-----------------------------------------------------------------------------
(* Streams. *)

Gone(s) == [streams[s] EXCEPT !.step = "gone"]

\* postEstablishCheck(), behind the end of the stream that the new one supersedes.
Connect(n) ==
    /\ Drained /\ Len(streams) < MaxStreams
    /\ LET new == Len(streams) + 1
           ends == [i \in DOMAIN streams |-> IF i \in Current(n) THEN Gone(i) ELSE streams[i]]
           farewell == IF Current(n) = {} THEN <<>>
                       ELSE <<NewJob("disconnect", CHOOSE s \in Current(n) : TRUE, Nothing)>>
       IN /\ streams' = Append(ends, [node |-> n, step |-> "checking", meta |-> Fresh])
          /\ chain' = [chain EXCEPT ![n] = @ \o farewell \o <<NewJob("reserve", new, Fresh)>>]
    /\ kept' = [kept EXCEPT ![n] = Fresh]
    /\ UNCHANGED <<entry, pipe, kicks, updates, changes, raced>>

\* onStreamActivated(), up to its await.
Activate(s) ==
    /\ Drained /\ streams[s].step = "connecting"
    /\ LET n == streams[s].node IN
        /\ kept' = [kept EXCEPT ![n] = streams[s].meta]
        /\ chain' = [chain EXCEPT ![n] = Append(@, NewJob("activate", s, streams[s].meta))]
    /\ streams' = [streams EXCEPT ![s].step = "activating"]
    /\ UNCHANGED <<entry, pipe, kicks, updates, changes, raced>>

\* cleanupStream() and onStreamDisconnected().
Clean(s) ==
    /\ streams' = [streams EXCEPT ![s] = Gone(s)]
    /\ chain' = [chain EXCEPT ![streams[s].node] = Append(@, NewJob("disconnect", s, Nothing))]

Leave(s) ==
    /\ Drained /\ streams[s].step # "gone" /\ Clean(s)
    /\ UNCHANGED <<kept, entry, pipe, kicks, updates, changes, raced>>

Kicked(n) ==
    /\ Drained /\ n \in kicks /\ kicks' = kicks \ {n}
    /\ IF Current(n) = {} THEN UNCHANGED <<streams, chain>> ELSE \E s \in Current(n) : Clean(s)
    /\ UNCHANGED <<kept, entry, pipe, updates, changes, raced>>

\* The application sets a field; the proxy synchronises in a microtask.
Change(s, f, v) ==
    /\ Drained /\ streams[s].step # "gone" /\ changes < MaxChanges
    /\ LET n == streams[s].node
           meta == [streams[s].meta EXCEPT ![f] = v]
       IN streams' = [streams EXCEPT ![s].meta = meta] /\ Sync(n, meta, kept, chain[n])
    /\ changes' = changes + 1
    /\ UNCHANGED <<entry, pipe, kicks, updates, raced>>

-----------------------------------------------------------------------------
(* The chain and Redis. *)

\* The first job of a chain starts: some have become pointless.
Start(n) ==
    /\ chain[n] # <<>> /\ ~Head(chain[n]).sent
    /\ LET job == Head(chain[n])
           pointless == CASE job.kind \in {"reserve", "activate"} -> streams[job.s].step = "gone"
                          [] job.kind = "disconnect"              -> Current(n) # {}
                          [] job.kind = "update"                  -> FALSE
       IN IF pointless
          THEN chain' = [chain EXCEPT ![n] = Tail(@)] /\ UNCHANGED pipe
          ELSE /\ chain' = [chain EXCEPT ![n][1].sent = TRUE]
               /\ pipe' = [pipe EXCEPT ![n] = Append(@, Command(job.kind, job.meta, 0))]
    /\ UNCHANGED <<streams, kept, entry, kicks, updates, changes, raced>>

Owns(n) == entry # Nothing /\ entry.node = n

Answer(n, kind) ==
    /\ Drained /\ pipe[n] # <<>> /\ Head(pipe[n]).kind = kind
    /\ pipe' = [pipe EXCEPT ![n] = Tail(@)]

Reserved(n) ==
    /\ Answer(n, "reserve")
    /\ entry' = [node |-> n, state |-> "pending", meta |-> Head(pipe[n]).meta]
    /\ kicks' = IF entry = Nothing \/ Owns(n) THEN kicks ELSE kicks \cup {entry.node}
    /\ LET s == Head(chain[n]).s IN
        streams' = IF streams[s].step = "gone" THEN streams ELSE [streams EXCEPT ![s].step = "connecting"]
    /\ chain' = [chain EXCEPT ![n] = Tail(@)]
    /\ UNCHANGED <<kept, updates, changes, raced>>

\* The rest of onStreamActivated(), which synchronises although the stream may have gone.
Activated(n) ==
    /\ Answer(n, "activate")
    /\ LET s == Head(chain[n]).s IN
        IF Owns(n)
        THEN /\ entry' = [entry EXCEPT !.state = "active", !.meta = Head(pipe[n]).meta]
             /\ streams' = IF streams[s].step = "gone" THEN streams ELSE [streams EXCEPT ![s].step = "open"]
             /\ Sync(n, streams[s].meta, kept, Tail(chain[n]))
        ELSE /\ IF streams[s].step = "gone"
                THEN chain' = [chain EXCEPT ![n] = Tail(@)] /\ UNCHANGED streams
                ELSE /\ streams' = [streams EXCEPT ![s] = Gone(s)]
                     /\ chain' = [chain EXCEPT ![n] = Append(Tail(@), NewJob("disconnect", s, Nothing))]
             /\ UNCHANGED <<entry, kept>>
    /\ UNCHANGED <<kicks, updates, changes, raced>>

Updated(n) ==
    /\ Answer(n, "update")
    /\ entry' = IF Owns(n) THEN [entry EXCEPT !.meta = Head(pipe[n]).meta] ELSE entry
    /\ chain' = [chain EXCEPT ![n] = Tail(@)]
    /\ UNCHANGED <<streams, kept, kicks, updates, changes, raced>>

Unregistered(n) ==
    /\ Answer(n, "disconnect")
    /\ entry' = IF Owns(n) THEN Nothing ELSE entry
    /\ kept' = [kept EXCEPT ![n] = Nothing]
    /\ chain' = [chain EXCEPT ![n] = Tail(@)]
    /\ UNCHANGED <<streams, kicks, updates, changes, raced>>

-----------------------------------------------------------------------------
(* updateClientMetadata(), at any node. *)

Update(n, meta) ==
    /\ Drained /\ Len(updates) < MaxUpdates
    /\ updates' = Append(updates, [at |-> n, meta |-> meta, step |-> "looking", before |-> kept[n],
                                   owner |-> n, updated |-> FALSE])
    /\ kept' = [kept EXCEPT ![n] = meta]
    /\ pipe' = [pipe EXCEPT ![n] = Append(@, Command("get", Nothing, Len(updates) + 1))]
    /\ UNCHANGED <<streams, entry, chain, kicks, changes, raced>>

\* What clientMetadata becomes when call u was in vain.
Restored(u) == [kept EXCEPT ![updates[u].at] = updates[u].before]

\* Something else has been put into clientMetadata since, or a stream holds something else.
Disturbs(u) ==
    LET n == updates[u].at IN
    kept[n] # updates[u].meta \/ \E s \in Current(n) : streams[s].meta # updates[u].before

InVain(u) ==
    /\ updates' = [updates EXCEPT ![u].step = "done"]
    /\ kept' = Restored(u)
    /\ raced' = (raced \/ Disturbs(u))

\* getClient() hides what is not activated.
NotFound(n) ==
    /\ Answer(n, "get")
    /\ entry = Nothing \/ (entry # Nothing /\ entry.state = "pending")
    /\ InVain(Head(pipe[n]).u)
    /\ UNCHANGED <<streams, entry, chain, kicks, changes>>

FoundAway(n) ==
    /\ Answer(n, "get")
    /\ entry # Nothing /\ entry.state = "active" /\ entry.node # n
    /\ updates' = [updates EXCEPT ![Head(pipe[n]).u].step = "away", ![Head(pipe[n]).u].owner = entry.node]
    /\ UNCHANGED <<streams, kept, entry, chain, kicks, changes, raced>>

\* The client is here: its stream is changed, the registry is written, and then comes the
\* microtask. What is written is the update alone, which nobody completes when the microtask
\* finds nothing new.
FoundHere(n) ==
    /\ Drained /\ pipe[n] # <<>> /\ Head(pipe[n]).kind = "get"
    /\ Owns(n) /\ entry.state = "active"
    /\ LET u == Head(pipe[n]).u
           update == updates[u].meta
       IN /\ pipe' = [pipe EXCEPT ![n] = Append(Tail(@), Command("direct", update, u))]
          /\ updates' = [updates EXCEPT ![u].step = "writing"]
          /\ IF Active(n) = {} THEN UNCHANGED <<streams, kept, chain>>
             ELSE \E s \in Active(n) : LET meta == Merged(streams[s].meta, update) IN
                    streams' = [streams EXCEPT ![s].meta = meta] /\ Sync(n, meta, kept, chain[n])
          /\ raced' = \/ raced \/ \E i \in DOMAIN chain[n] : ~chain[n][i].sent
                      \/ DOMAIN update # Field /\ chain' = chain
    /\ UNCHANGED <<entry, kicks, changes>>

Written(n) ==
    /\ Answer(n, "direct")
    /\ entry' = IF Owns(n) THEN [entry EXCEPT !.meta = Head(pipe[n]).meta] ELSE entry
    /\ LET u == Head(pipe[n]).u IN
        IF Owns(n) THEN updates' = [updates EXCEPT ![u].step = "done", ![u].updated = TRUE] /\ UNCHANGED <<kept, raced>>
        ELSE InVain(u)
    /\ UNCHANGED <<streams, chain, kicks, changes>>

\* The "updateMeta" request at the node that owned the client.
UpdateArrives(u) ==
    /\ Drained /\ updates[u].step = "away"
    /\ LET n == updates[u].owner IN
        IF Active(n) = {} THEN UNCHANGED <<streams, kept, chain>>
        ELSE \E s \in Active(n) : LET meta == Merged(streams[s].meta, updates[u].meta) IN
                streams' = [streams EXCEPT ![s].meta = meta] /\ Sync(n, meta, kept, chain[n])
    /\ updates' = [updates EXCEPT ![u].step = "answered", ![u].updated = Active(updates[u].owner) # {}]
    /\ UNCHANGED <<entry, pipe, kicks, changes, raced>>

\* Its answer, or a failure of the mesh, before or after that.
UpdateAnswered(u) ==
    /\ Drained
    /\ \/ /\ updates[u].step = "answered" /\ updates[u].updated
          /\ updates' = [updates EXCEPT ![u].step = "done"]
          /\ UNCHANGED <<kept, raced>>
       \/ updates[u].step \in {"away", "answered"} /\ InVain(u)
    /\ UNCHANGED <<streams, entry, chain, pipe, kicks, changes>>

-----------------------------------------------------------------------------
Init ==
    /\ streams = <<>> /\ entry = Nothing /\ updates = <<>>
    /\ kept = [n \in Node |-> Nothing]
    /\ chain = [n \in Node |-> <<>>] /\ pipe = [n \in Node |-> <<>>]
    /\ kicks = {} /\ changes = 0 /\ raced = FALSE

Partial == UNION {[fs -> Value] : fs \in SUBSET Field \ {{}}}

Next ==
    \/ \E n \in Node :
        \/ Connect(n) \/ Kicked(n) \/ Start(n)
        \/ Reserved(n) \/ Activated(n) \/ Updated(n) \/ Unregistered(n)
        \/ NotFound(n) \/ FoundAway(n) \/ FoundHere(n) \/ Written(n)
        \/ \E meta \in Partial : Update(n, meta)
    \/ \E s \in DOMAIN streams :
        \/ Activate(s) \/ Leave(s)
        \/ \E f \in Field, v \in Value : Change(s, f, v)
    \/ \E u \in DOMAIN updates : UpdateArrives(u) \/ UpdateAnswered(u)

Spec == Init /\ [][Next]_vars

-----------------------------------------------------------------------------
(* Properties. *)

\* Nothing is on its way.
AtRest ==
    /\ \A n \in Node : chain[n] = <<>> /\ pipe[n] = <<>>
    /\ kicks = {} /\ \A u \in DOMAIN updates : updates[u].step = "done"

\* When everything has been answered, the registry has the metadata of the client's open stream,
\* whoever changed it and wherever, unless an update overtook the chain, lacked a field and was not
\* followed by a synchronisation, or took back what had changed meanwhile.
MetaAgrees ==
    AtRest /\ ~raced =>
        \A n \in Node : \A s \in Current(n) :
            streams[s].step = "open" /\ Owns(n) => entry.meta = streams[s].meta
=============================================================================
