----------------------------- MODULE DevConsole -----------------------------
(***************************************************************************)
(* The DevConsole: a process records what its parts do in ring buffers     *)
(* (src/devconsole/devconsole.store.ts, patches.ts) and tells a browser,   *)
(* which shows it: a snapshot when a page opens and after every            *)
(* reconnection, and events in between (devconsole.ws.ts; srpc-client.ts,  *)
(* ws.ts and the views of /devconsole).                                    *)
(*                                                                         *)
(* A behaviour is about one topic: "http" and "db" keep a log; "mutex" and *)
(* "srpc" keep a log and what is active.  The pages of "http" and "db"     *)
(* differ in that a query is logged before it is over.  The page of "srpc" *)
(* asks two requests and shows the first reply with the second; its        *)
(* messages are a log like "http", and are left out here.                  *)
(*                                                                         *)
(* The server answers a request before its event loop does anything else.  *)
(* Events of a behaviour that nothing but time limits are counted by spent.*)
(***************************************************************************)
EXTENDS Integers, Sequences, SequencesExt, FiniteSets

CONSTANTS
    Topics,
    Capacity,       \* of a ring buffer, and MAX_ENTRIES of the page
    \* Bounds
    MaxThings, MaxSockets,
    MaxUnread,      \* messages on their way to the browser while something is recorded
    MaxSpent        \* lost and closed connections, timeouts, restarts, clears, pages left

VARIABLES
    topic,
    made,       \* the entries that were made: [id, state]; buffers hold references to them
    ring,       \* RingBuffer: [buffer, head, count]
    kept,       \* what was pushed since the last clear
    live,       \* activeMutexes, srpcConnections: references in the order of their insertion
    doing,      \* what the application does: id -> phase
    sock,       \* the browser's web sockets
    browser,    \* SrpcBrowserClient: [ws, connected, timer, pending, waiting]
    view,       \* the page: what it shows
    spent

vars == <<topic, made, ring, kept, live, doing, sock, browser, view, spent>>

Thing  == 1..MaxThings
Socket == 1..MaxSockets
None   == 0

store == <<made, ring, kept, live>>

-----------------------------------------------------------------------------
(* RingBuffer. *)

EmptyRing == [buffer |-> [i \in 0..(Capacity - 1) |-> None], head |-> 0, count |-> 0]

\* Mutant: the count passes the capacity.
PushAlways(r, e) ==
    [buffer |-> [r.buffer EXCEPT ![r.head] = e],
     head   |-> (r.head + 1) % Capacity,
     count  |-> r.count + 1]

Push(r, e) ==
    [buffer |-> [r.buffer EXCEPT ![r.head] = e],
     head   |-> (r.head + 1) % Capacity,
     count  |-> IF r.count < Capacity THEN r.count + 1 ELSE r.count]

ToArray(r) ==
    IF r.count < Capacity
    THEN [i \in 1..r.count |-> r.buffer[i - 1]]
    ELSE [i \in 1..r.count |-> r.buffer[(r.head + i - 1) % Capacity]]

-----------------------------------------------------------------------------
(* Messages.  A copy of an entry travels, never the entry. *)

NoCopy == [id |-> None, state |-> "none"]

Event(type, copy) == [kind |-> "event", type |-> type, copy |-> copy, request |-> None, log |-> <<>>, live |-> <<>>]
Reply(type, request, log, lives) ==
    [kind |-> "reply", type |-> type, copy |-> NoCopy, request |-> request, log |-> log, live |-> lives]
Ping == [Event("none", NoCopy) EXCEPT !.kind = "ping"]
Bye  == [Event("none", NoCopy) EXCEPT !.kind = "bye"]

\* invoke() of the server writes to every stream that is established.
Broadcast(s, event) ==
    [n \in Socket |-> IF s[n].far = "live" THEN [s[n] EXCEPT !.down = Append(@, event)] ELSE s[n]]

-----------------------------------------------------------------------------
(* The store. *)

\* An entry is made, kept in the log and told.
Record(id, state, type) ==
    LET e == [id |-> id, state |-> state] IN
    /\ made' = Append(made, e)
    /\ ring' = Push(ring, Len(made) + 1)
    /\ kept' = Append(kept, Len(made) + 1)
    /\ sock' = Broadcast(sock, Event(type, e))

\* An entry that buffers refer to changes.
Change(e, state, type) ==
    /\ made' = [made EXCEPT ![e].state = state]
    /\ sock' = Broadcast(sock, Event(type, made'[e]))
    /\ UNCHANGED <<ring, kept>>

Does(id, from, to) == doing[id] = from /\ doing' = [doing EXCEPT ![id] = to]

Active(id) == {i \in DOMAIN live : made[live[i]].id = id}

\* The things that begin do so in the order of their numbers.
Next1(id) == doing[id] = "new" /\ \A i \in Thing : i < id => doing[i] # "new"

\* addHttpEntry, when the request is over.
Request(id) ==
    /\ topic = "http" /\ Next1(id) /\ Does(id, "new", "over")
    /\ Record(id, "done", "entry")
    /\ UNCHANGED <<topic, live, browser, view, spent>>

\* startEntry
Query(id) ==
    /\ topic = "db" /\ Next1(id) /\ Does(id, "new", "running")
    /\ Record(id, "running", "entry")
    /\ UNCHANGED <<topic, live, browser, view, spent>>

\* completeEntry
QueryEnds(id) ==
    /\ topic = "db" /\ Does(id, "running", "over")
    /\ \E e \in DOMAIN made, state \in {"ok", "error"} : made[e].id = id /\ Change(e, state, "complete")
    /\ UNCHANGED <<topic, live, browser, view, spent>>

\* withMutex() as patched: pending,
Wait(id) ==
    /\ topic = "mutex" /\ Next1(id) /\ Does(id, "new", "waiting")
    /\ Record(id, "pending", "pending")
    /\ live' = Append(live, Len(made) + 1)
    /\ UNCHANGED <<topic, browser, view, spent>>

\* its function called,
Enter(id) ==
    /\ topic = "mutex" /\ Does(id, "waiting", "inside")
    /\ \E i \in Active(id) : Change(live[i], "acquired", "acquired")
    /\ UNCHANGED <<topic, live, browser, view, spent>>

\* and over; a mutex that was lost is off the list already.
Leave(id) ==
    /\ topic = "mutex" /\ Does(id, "inside", "over")
    /\ IF Active(id) = {} THEN UNCHANGED <<store, sock>>
       ELSE \E i \in Active(id), end \in {"released", "error"} :
                Change(live[i], end, end) /\ live' = RemoveAt(live, i)
    /\ UNCHANGED <<topic, browser, view, spent>>

\* MutexAcquisitionError: not acquired, or acquired and lost while its function goes on.
Fail(id) ==
    /\ topic = "mutex" /\ doing[id] \in {"waiting", "inside"} /\ Active(id) # {}
    /\ doing' = [doing EXCEPT ![id] = IF @ = "waiting" THEN "over" ELSE @]
    /\ \E i \in Active(id) : Change(live[i], "failed", "failed") /\ live' = RemoveAt(live, i)
    /\ UNCHANGED <<topic, browser, view, spent>>

\* The function throws the MutexAcquisitionError of a mutex inside: the entry that is over already
\* is recorded again.
FailInside(id) ==
    /\ topic = "mutex" /\ Does(id, "inside", "over")
    /\ \E i \in Active(id) :
           LET over  == [made EXCEPT ![live[i]].state = "error"]
               again == [id |-> id, state |-> "failed"] IN
           /\ made' = Append(over, again)
           /\ ring' = Push(ring, Len(made) + 1) /\ kept' = Append(kept, Len(made) + 1)
           /\ sock' = Broadcast(Broadcast(sock, Event("error", over[live[i]])), Event("failed", again))
           /\ live' = RemoveAt(live, i)
    /\ UNCHANGED <<topic, browser, view, spent>>

\* Any other error before the function is called: nothing is recorded.
Break(id) ==
    /\ topic = "mutex" /\ Does(id, "waiting", "broken")
    /\ UNCHANGED <<topic, store, sock, browser, view, spent>>

\* handleStreamEstablished as patched: also of a stream that is refused, which counts as cleaned up
\* and so is never removed.
Establish(id) ==
    /\ topic = "srpc" /\ Next1(id)
    /\ \E phase \in {"on", "broken"} : Does(id, "new", phase)
    /\ made' = Append(made, [id |-> id, state |-> "on"])
    /\ live' = Append(live, Len(made) + 1)
    /\ sock' = Broadcast(sock, Event("connection", made'[Len(made) + 1]))
    /\ UNCHANGED <<topic, ring, kept, browser, view, spent>>

\* cleanupStream as patched
CleanUp(id) ==
    /\ topic = "srpc" /\ Does(id, "on", "over")
    /\ Record(id, "gone", "disconnection")
    /\ live' = SelectSeq(live, LAMBDA e : made[e].id # id)
    /\ UNCHANGED <<topic, browser, view, spent>>

Recording ==
    /\ \A n \in Socket : Len(sock[n].down) < MaxUnread
    /\ \E id \in Thing :
        \/ Request(id) \/ Query(id) \/ QueryEnds(id)
        \/ Wait(id) \/ Enter(id) \/ Leave(id) \/ Fail(id) \/ FailInside(id) \/ Break(id)
        \/ Establish(id) \/ CleanUp(id)

-----------------------------------------------------------------------------
(* The page. *)

Closed == [shown |-> FALSE, loaded |-> FALSE, fresh |-> FALSE, log |-> <<>>, live |-> <<>>,
           half |-> <<>>, slipped |-> FALSE, odd |-> FALSE, error |-> FALSE]

Cut(log) == SubSeq(log, 1, IF Len(log) < Capacity THEN Len(log) ELSE Capacity)
Without(copies, id) == SelectSeq(copies, LAMBDA c : c.id # id)
Holds(copies, id)   == \E i \in DOMAIN copies : copies[i].id = id

\* The first copy with this id is replaced: findIndex().
Replaced(copies, copy) ==
    [i \in DOMAIN copies |->
        IF copies[i].id = copy.id /\ \A j \in 1..(i - 1) : copies[j].id # copy.id THEN copy ELSE copies[i]]

\* A reply to fetchData(); of an error of an earlier load it says nothing.
Loaded(v, reply, slipped) ==
    [v EXCEPT !.loaded = TRUE, !.fresh = TRUE, !.log = reply.log, !.live = reply.live,
              !.half = <<>>, !.slipped = FALSE, !.odd = slipped]

\* fetchData() catches the error of a request: the page shows that, and no data, until it is left.
LoadFailed(v, kinds) == [v EXCEPT !.error = @ \/ kinds \cap {"get", "more"} # {}]

\* "srpc" shows its first reply when it has both; what came in between is gone from the page.
LoadedBoth(v) == IF v.half = <<>> THEN v ELSE Loaded(v, v.half[1], v.slipped)

Emptied(v) == IF topic = "srpc" /\ ~v.loaded THEN v ELSE [v EXCEPT !.loaded = TRUE, !.log = <<>>]

Prepended(v, copy) == [v EXCEPT !.log = Cut(<<copy>> \o @)]

\* Before the first reply of its kind a page has no list to put an event in, except "mutex".
RequestsShow(v, type, copy) == IF type = "entry" /\ v.loaded THEN Prepended(v, copy) ELSE v

QueriesShow(v, type, copy) ==
    CASE type = "entry" /\ v.loaded    -> Prepended(v, copy)
      [] type = "complete" /\ v.loaded -> [v EXCEPT !.log = Replaced(@, copy)]
      [] ~v.loaded                     -> v

MutexesShow(v, type, copy) ==
    LET gone == [v EXCEPT !.live = Without(@, copy.id)]
    IN  CASE type = "pending"  -> [Prepended(v, copy) EXCEPT !.live = Append(@, copy)]
          [] type = "acquired" -> [v EXCEPT !.live = Replaced(@, copy), !.log = Replaced(@, copy)]
          [] type \in {"released", "error"} -> [gone EXCEPT !.log = Replaced(@, copy)]
          [] type = "failed" ->
                IF Holds(v.log, copy.id)
                THEN [gone EXCEPT !.log = Replaced(@, copy), !.odd = @ \/ ~Holds(v.live, copy.id)]
                ELSE [Prepended(gone, copy) EXCEPT !.odd = TRUE]

ConnectionsShow(v, type, copy) ==
    CASE type = "connection" /\ v.loaded    -> [v EXCEPT !.live = Append(@, copy)]
      [] type = "disconnection" /\ v.loaded -> [Prepended(v, copy) EXCEPT !.live = Without(@, copy.id)]
      [] ~v.loaded                          -> v

Shows(v, event) ==
    LET seen == [v EXCEPT !.slipped = @ \/ v.half # <<>>]
    IN  CASE event.type = "cleared" -> Emptied(seen)
          [] event.type # "cleared" /\ topic = "http"  -> RequestsShow(seen, event.type, event.copy)
          [] event.type # "cleared" /\ topic = "db"    -> QueriesShow(seen, event.type, event.copy)
          [] event.type # "cleared" /\ topic = "mutex" -> MutexesShow(seen, event.type, event.copy)
          [] event.type # "cleared" /\ topic = "srpc"  -> ConnectionsShow(seen, event.type, event.copy)

-----------------------------------------------------------------------------
(* Requests of the browser. *)

FetchData == IF topic = "srpc" THEN <<"get", "more">> ELSE <<"get">>

\* A request has the first number that nothing on its way has.
FreeRequest(b, s) ==
    LET used == {p.request : p \in b.pending}
                    \cup {f.request : f \in UNION {Range(s[n].up) \cup Range(s[n].down) : n \in Socket}}
    IN  CHOOSE r \in 1..(Cardinality(used) + 1) : r \notin used /\ \A q \in 1..(r - 1) : q \in used

\* invoke() of the client: at once, or it rejects with "Not connected".
CanSend(b, s) == b.ws # None /\ s[b.ws].near = "open"

Sent(kind, b, s) ==
    IF CanSend(b, s)
    THEN LET r == [kind |-> kind, request |-> FreeRequest(b, s)] IN
         [b |-> [b EXCEPT !.pending = @ \cup {r}], s |-> [s EXCEPT ![b.ws].up = Append(@, r)]]
    ELSE [b |-> b, s |-> s]

AllSent(kinds, b, s) == FoldLeft(LAMBDA both, kind : Sent(kind, both.b, both.s), [b |-> b, s |-> s], kinds)

\* invoke() of ws.ts waits for readyPromise.
Invoke(kinds) ==
    LET sent == AllSent(kinds, browser, sock) IN
    IF browser.connected
    THEN browser' = sent.b /\ sock' = sent.s
    ELSE browser' = [browser EXCEPT !.waiting = @ \o kinds] /\ UNCHANGED sock

Spends == spent < MaxSpent /\ spent' = spent + 1

\* onMounted
OpenPage ==
    /\ ~view.shown
    /\ LET opened == [Closed EXCEPT !.shown = TRUE, !.loaded = topic = "mutex"] IN
       view' = IF browser.connected /\ ~CanSend(browser, sock) THEN LoadFailed(opened, ToSet(FetchData)) ELSE opened
    /\ Invoke(FetchData)
    /\ UNCHANGED <<topic, store, doing, spent>>

\* onUnmounted: what the page has asked is answered to nobody.
ClosePage ==
    /\ view.shown /\ Spends
    /\ view' = Closed
    /\ browser' = [browser EXCEPT !.pending = {[p EXCEPT !.kind = "void"] : p \in @},
                                  !.waiting = [i \in DOMAIN @ |-> "void"]]
    /\ UNCHANGED <<topic, store, doing, sock>>

\* clearAll
ClearAll ==
    /\ view.shown /\ topic # "mutex" /\ Spends
    /\ Invoke(<<"clear">>)
    /\ UNCHANGED <<topic, store, doing, view>>

\* The timer of invoke().
RequestExpires ==
    /\ Spends
    /\ \E p \in browser.pending :
        /\ browser' = [browser EXCEPT !.pending = @ \ {p}]
        /\ view' = LoadFailed(view, {p.kind})
    /\ UNCHANGED <<topic, store, doing, sock>>

Copies(entries) == [i \in DOMAIN entries |-> made[entries[i]]]

\* The server reads a request and answers it.
Serve(n) ==
    /\ sock[n].far = "live" /\ sock[n].up # <<>>
    /\ LET r == Head(sock[n].up)
           read == [sock EXCEPT ![n].up = Tail(@)]
           answer(log, lives) == Reply(r.kind, r.request, log, lives) IN
       CASE r.kind \in {"get", "more", "void"} ->
                /\ sock' = [read EXCEPT ![n].down = Append(@, answer(Reverse(Copies(ToArray(ring))), Copies(live)))]
                /\ UNCHANGED <<ring, kept>>
         [] r.kind = "clear" ->
                /\ ring' = EmptyRing /\ kept' = <<>>
                /\ LET told == Broadcast(read, Event("cleared", NoCopy)) IN
                   sock' = [told EXCEPT ![n].down = Append(@, answer(<<>>, <<>>))]
         [] r.kind = "bye" ->
                /\ sock' = [read EXCEPT ![n].far = "closed"]
                /\ UNCHANGED <<ring, kept>>
    /\ UNCHANGED <<topic, made, live, doing, browser, view, spent>>

-----------------------------------------------------------------------------
(* Connections. *)

\* close() of the browser; a bye follows what it has sent.
ClosedNear(s, n) ==
    IF n = None \/ s[n].near \notin {"connecting", "open"} THEN s
    ELSE [s EXCEPT ![n].near = "closing",
                   ![n].up = IF s[n].near = "open" THEN Append(@, [kind |-> "bye", request |-> None]) ELSE @]

ClosedFar(s, n) == [s EXCEPT ![n].far = "closed", ![n].down = Append(@, Bye)]

\* connect(), when the reconnect timer fires.
Reconnect ==
    /\ browser.timer
    /\ \E n \in Socket :
        /\ sock[n].near = "unused" /\ \A m \in Socket : m < n => sock[m].near # "unused"
        /\ sock' = [ClosedNear(sock, browser.ws) EXCEPT ![n].near = "connecting", ![n].limit = TRUE]
        /\ browser' = [browser EXCEPT !.ws = n, !.timer = FALSE]
    /\ UNCHANGED <<topic, store, doing, view, spent>>

\* The server takes every browser for the same client: the stream it had before is superseded.
Accept(n) ==
    /\ sock[n].near = "connecting"
    /\ LET kicked == [m \in Socket |-> IF sock[m].far = "live" THEN ClosedFar(sock, m)[m] ELSE sock[m]] IN
       sock' = [kicked EXCEPT ![n].near = "open", ![n].far = "live", ![n].down = <<Ping>>]
    /\ UNCHANGED <<topic, store, doing, browser, view, spent>>

\* The first ping: what waits for the connection is sent, and a page that saw it go loads again.
Handshake(n) ==
    LET b == [browser EXCEPT !.connected = TRUE, !.waiting = <<>>]
        s == [sock EXCEPT ![n].down = Tail(@), ![n].limit = FALSE]
        asks == browser.waiting \o (IF view.shown /\ ~browser.connected THEN FetchData ELSE <<>>)
        sent == AllSent(asks, b, s)
    IN  /\ browser' = sent.b /\ sock' = sent.s
        /\ view' = IF CanSend(b, s) THEN view ELSE LoadFailed(view, ToSet(asks))

\* handleDisconnect(), whatever socket has closed: what is pending rejects.
Disconnected ==
    /\ browser' = [browser EXCEPT !.connected = FALSE, !.ws = None, !.pending = {}, !.timer = TRUE]
    /\ view' = LoadFailed([view EXCEPT !.fresh = FALSE, !.half = <<>>, !.slipped = FALSE],
                          {p.kind : p \in browser.pending})

Settle(reply) ==
    LET mine == {p \in browser.pending : p.request = reply.request} IN
    /\ browser' = [browser EXCEPT !.pending = @ \ mine]
    /\ view' = IF mine = {} THEN view
               ELSE LET kind == (CHOOSE p \in mine : TRUE).kind IN
                    CASE kind = "get" /\ topic = "srpc" -> [view EXCEPT !.half = <<reply>>, !.slipped = FALSE]
                      [] kind = "get" /\ topic # "srpc" -> Loaded(view, reply, FALSE)
                      [] kind = "more"  -> LoadedBoth(view)
                      [] kind = "clear" -> Emptied(view)
                      [] OTHER          -> view

\* onmessage
Receive(n) ==
    /\ sock[n].near = "open" /\ sock[n].down # <<>>
    /\ LET f == Head(sock[n].down)
           read == [sock EXCEPT ![n].down = Tail(@)] IN
       CASE f.kind = "ping"  -> Handshake(n)
         [] f.kind = "event" ->
                /\ sock' = read
                /\ view' = IF view.shown THEN Shows(view, f) ELSE view
                /\ UNCHANGED browser
         [] f.kind = "reply" -> sock' = read /\ Settle(f)
         [] f.kind = "bye"   -> sock' = [read EXCEPT ![n].near = "closed", ![n].limit = FALSE] /\ Disconnected
    /\ UNCHANGED <<topic, store, doing, spent>>

\* onclose of a socket that the browser or the network has closed.
OnClose(n) ==
    /\ sock[n].near = "closing" /\ sock[n].far # "live"
    /\ sock' = [sock EXCEPT ![n].near = "closed", ![n].limit = FALSE, ![n].up = <<>>, ![n].down = <<>>]
    /\ Disconnected
    /\ UNCHANGED <<topic, store, doing, spent>>

\* connectTimeout
ConnectTimeout(n) ==
    /\ sock[n].limit /\ Spends
    /\ sock' = [ClosedNear(sock, n) EXCEPT ![n].limit = FALSE]
    /\ browser' = [browser EXCEPT !.timer = TRUE]
    /\ UNCHANGED <<topic, store, doing, view>>

\* doPingPong() has missed a pong.
PongTimeout ==
    /\ browser.connected /\ browser.ws # None /\ Spends
    /\ sock' = ClosedNear(sock, browser.ws)
    /\ UNCHANGED <<topic, store, doing, browser, view>>

\* The network loses a connection.
Lose(n) ==
    /\ sock[n].near \in {"connecting", "open", "closing"} /\ sock[n].far # "closed" /\ Spends
    /\ sock' = [sock EXCEPT ![n].near = "closing", ![n].far = "closed"]
    /\ UNCHANGED <<topic, store, doing, browser, view>>

\* Another tab connects: it is the same client for the server.
OtherTab(n) ==
    /\ sock[n].far = "live" /\ Spends
    /\ sock' = ClosedFar(sock, n)
    /\ UNCHANGED <<topic, store, doing, browser, view>>

\* The process restarts, and has recorded nothing.
Restart ==
    /\ Spends
    /\ made' = <<>> /\ ring' = EmptyRing /\ kept' = <<>> /\ live' = <<>>
    /\ doing' = [id \in Thing |-> IF doing[id] = "new" THEN "new" ELSE "over"]
    /\ sock' = [n \in Socket |-> IF sock[n].far = "live" THEN ClosedFar(sock, n)[n] ELSE sock[n]]
    /\ UNCHANGED <<topic, browser, view>>

-----------------------------------------------------------------------------
Unused == [near |-> "unused", far |-> "none", up |-> <<>>, down |-> <<>>, limit |-> FALSE]

\* main.ts connects; no page is open yet.
Init ==
    /\ topic \in Topics
    /\ made = <<>> /\ ring = EmptyRing /\ kept = <<>> /\ live = <<>>
    /\ doing = [id \in Thing |-> "new"]
    /\ sock = [n \in Socket |-> IF n = 1 THEN [Unused EXCEPT !.near = "connecting", !.limit = TRUE] ELSE Unused]
    /\ browser = [ws |-> 1, connected |-> FALSE, timer |-> FALSE, pending |-> {}, waiting |-> <<>>]
    /\ view = Closed
    /\ spent = 0

Next ==
    \/ Recording
    \/ OpenPage \/ ClosePage \/ ClearAll \/ RequestExpires
    \/ Reconnect \/ PongTimeout \/ Restart
    \/ \E n \in Socket :
        Serve(n) \/ Accept(n) \/ Receive(n) \/ OnClose(n) \/ ConnectTimeout(n) \/ Lose(n) \/ OtherTab(n)

Spec == Init /\ [][Next]_vars

-----------------------------------------------------------------------------
(* Properties. *)

\* The page has loaded over the present connection, and nothing is on its way.
Settled ==
    /\ view.shown /\ view.fresh /\ browser.pending = {}
    /\ browser.connected /\ browser.ws # None
    /\ sock[browser.ws].near = "open" /\ sock[browser.ws].far = "live"
    /\ sock[browser.ws].up = <<>> /\ sock[browser.ws].down = <<>>

Latest == SubSeq(kept, IF Len(kept) > Capacity THEN Len(kept) - Capacity + 1 ELSE 1, Len(kept))

\* A page shows the latest entries, the newest first, and what is active, as the process has them:
\* no event is lost between its snapshot and the events, and none comes twice, whenever it loads and
\* whatever becomes of the connection, the log or the process while it is not loading.  A load that
\* fails leaves the page with its error and no data, and none does before something was spent.
\* What "odd" marks is wrong until the page loads again.  And what it shows as active is going on,
\* except what the process was never told to be over.
PageAgrees ==
    /\ view.error => spent > 0
    /\ Settled /\ ~view.odd /\ ~view.error =>
        /\ view.log = Reverse(Copies(Latest)) /\ view.live = Copies(live)
        /\ \A i \in DOMAIN view.live : doing[view.live[i].id] \in {"waiting", "inside", "on", "broken"}
        /\ \A i, j \in DOMAIN view.live : view.live[i].id = view.live[j].id => i = j
=============================================================================
