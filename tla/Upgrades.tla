------------------------------ MODULE Upgrades ------------------------------
(***************************************************************************)
(* Who answers a web socket's upgrade request: the servers of sRPC on one  *)
(* HTTP server (src/srpc/WebSocketUpgradeHandler.ts), listeners of the     *)
(* application, or the fallback.  Requests share only the listeners, so a  *)
(* behaviour has one request, in any order with installations and ends of  *)
(* servers.                                                                *)
(***************************************************************************)
EXTENDS Integers, Sequences, SequencesExt

CONSTANTS
    Server, PathOf,     \* the servers of sRPC, and the path of each
    Kinds               \* listeners of the application: "at once", "later" or "destroys"

VARIABLES
    listeners,  \* of the upgrade event, in order: servers, kinds and "fallback"
    handler,    \* handler[p]: the server whose handler is installed for the path, or "none"
    closed,     \* the servers that have been closed
    target,      \* the path of the request, or "none"
    heard,      \* the listeners it was given to
    socket,     \* [claimed, timer, answers, destroyed, gone]
    verifying,  \* the server that is authenticating the request, or "none"
    opened      \* the server that has a connection of it, or "none"

vars == <<listeners, handler, closed, target, heard, socket, verifying, opened>>

Path == {PathOf[s] : s \in Server}

-----------------------------------------------------------------------------
(* Installation. *)

\* Mutant: on() instead of prependListener().
Appended(s) == Append(listeners, s)

\* prependListener()
Prepended(s) == <<s>> \o listeners

\* installUpgradeClaimHandling(): once for the HTTP server.
WithFallback(ls) == IF Contains(ls, "fallback") THEN ls ELSE Append(ls, "fallback")

\* A path has one handler, that of the first server; it stays when its server is closed.
Install(s) ==
    /\ s \notin closed /\ ~Contains(listeners, s)
    /\ IF handler[PathOf[s]] # "none"
       THEN listeners' = WithFallback(listeners) /\ UNCHANGED handler
       ELSE /\ listeners' = WithFallback(Prepended(s))
            /\ handler' = [handler EXCEPT ![PathOf[s]] = s]
    /\ UNCHANGED <<closed, target, heard, socket, verifying, opened>>

\* The application's own listener: it answers one path that is not of sRPC, at once or later,
\* or destroys whatever reaches it.
Listen(kind) ==
    /\ ~Contains(listeners, kind)
    /\ listeners' = Append(listeners, kind)
    /\ UNCHANGED <<handler, closed, target, heard, socket, verifying, opened>>

\* SrpcServer.close()
CloseServer(s) ==
    /\ s \notin closed
    /\ closed' = closed \cup {s}
    /\ UNCHANGED <<listeners, handler, target, heard, socket, verifying, opened>>

-----------------------------------------------------------------------------
(* A request. *)

Open == ~socket.destroyed /\ ~socket.gone

\* markUpgradeClaimed()
Claimed(s) == [s EXCEPT !.claimed = TRUE, !.timer = FALSE]

\* write() with its probe for "101", which is in place until the socket is claimed.
Answered(s, by, status) ==
    IF s.destroyed \/ s.gone THEN s
    ELSE LET answered == [s EXCEPT !.answers = @ \cup {[by |-> by, status |-> status]}]
         IN IF status = 101 THEN Claimed(answered) ELSE answered

Denied(s, by, status) == [Answered(s, by, status) EXCEPT !.destroyed = TRUE, !.timer = FALSE]

\* What a listener does in its own turn.
Turn(s, l, path) ==
    CASE l \in Server /\ PathOf[l] = path  -> Claimed(s)
      [] l = "fallback"                    -> [s EXCEPT !.timer = TRUE]
      [] l = "at once" /\ path = "now"        -> Answered(s, l, 101)
      [] l = "destroys"                    -> [s EXCEPT !.destroyed = TRUE, !.timer = FALSE]
      [] OTHER                             -> s

\* The socket after the first n listeners, and the patched emit(), which stops at a claim.
After(path, n) == FoldLeft(LAMBDA s, l : Turn(s, l, path), socket, SubSeq(listeners, 1, n))

Reached(path) ==
    LET claims == {n \in DOMAIN listeners : After(path, n).claimed}
    IN IF claims = {} THEN Len(listeners) ELSE CHOOSE n \in claims : \A m \in claims : n <= m

Upgrade(path) ==
    /\ target = "none" /\ Contains(listeners, "fallback")
    /\ target' = path
    /\ LET n == Reached(path) IN
        /\ heard' = SubSeq(listeners, 1, n)
        /\ socket' = After(path, n)
        /\ verifying' = IF listeners[n] \in Server /\ After(path, n).claimed THEN listeners[n] ELSE "none"
    /\ UNCHANGED <<listeners, handler, closed, opened>>

\* validateClientAuth(): the application's authorizer refuses or throws; or else a request has no
\* signature, its client no key, the fetcher of keys throws, its time is no number or is not
\* within the drift, or the signature is another.
Flaw == {"unauthorized", "authorizer throws", "unsigned", "no key", "fetcher throws", "no time", "late", "forged"}

Verdict(flaw) == IF flaw \in {"authorizer throws", "unsigned", "fetcher throws"} THEN 500 ELSE 403

\* verifyClient: a query that lacks something, authentication that fails or throws,
Reject ==
    /\ verifying # "none" /\ verifying' = "none"
    /\ \E status \in {400} \cup {Verdict(flaw) : flaw \in Flaw} : socket' = Denied(socket, verifying, status)
    /\ UNCHANGED <<listeners, handler, closed, target, heard, opened>>

\* or handleUpgrade(), where ws looks whether its server is closed and the socket still there.
Accept ==
    /\ verifying # "none" /\ verifying' = "none"
    /\ IF verifying \in closed \/ ~Open
       THEN socket' = Denied(socket, verifying, 503) /\ UNCHANGED opened
       ELSE socket' = Answered(socket, verifying, 101) /\ opened' = verifying
    /\ UNCHANGED <<listeners, handler, closed, target, heard>>

\* The application's listener that had something to wait for.
AnswerLater ==
    /\ Contains(heard, "later") /\ target = "later"
    /\ \A a \in socket.answers : a.by # "later"
    /\ Open /\ socket' = Answered(socket, "later", 101)
    /\ UNCHANGED <<listeners, handler, closed, target, heard, verifying, opened>>

\* The fallback's timer.
RejectUnclaimed ==
    /\ socket.timer
    /\ socket' = IF ~socket.claimed /\ Open THEN Denied(socket, "fallback", 400)
                 ELSE [socket EXCEPT !.timer = FALSE]
    /\ UNCHANGED <<listeners, handler, closed, target, heard, verifying, opened>>

ClientLeaves ==
    /\ target # "none" /\ Open
    /\ socket' = [socket EXCEPT !.gone = TRUE, !.timer = FALSE]
    /\ UNCHANGED <<listeners, handler, closed, target, heard, verifying, opened>>

-----------------------------------------------------------------------------
Init ==
    /\ listeners = <<>> /\ handler = [p \in Path |-> "none"] /\ closed = {}
    /\ target = "none" /\ heard = <<>>
    /\ socket = [claimed |-> FALSE, timer |-> FALSE, answers |-> {}, destroyed |-> FALSE, gone |-> FALSE]
    /\ verifying = "none" /\ opened = "none"

Next ==
    \/ \E s \in Server : Install(s) \/ CloseServer(s)
    \/ \E kind \in Kinds : Listen(kind)
    \/ \E path \in Path \cup {"now", "later", "other"} : Upgrade(path)
    \/ Reject \/ Accept \/ AnswerLater \/ RejectUnclaimed \/ ClientLeaves

Spec == Init /\ [][Next]_vars

-----------------------------------------------------------------------------
(* Properties. *)

\* A request for the path of an installed server reaches that server alone: no listener of the
\* application sees it, whichever was added first, and the fallback does not answer it while it
\* is authenticated or after.  No request has two answers, and one that nobody is authenticating
\* and no timer watches has been answered, destroyed or left by its client.
OneAnswers ==
    /\ \A s \in Server : Contains(heard, s) /\ PathOf[s] = target =>
            /\ \A i \in DOMAIN heard : heard[i] \in Server
            /\ \A a \in socket.answers : a.by = s
    /\ \A a, b \in socket.answers : a = b
    /\ opened # "none" => [by |-> opened, status |-> 101] \in socket.answers
    /\ target # "none" /\ verifying = "none" /\ ~socket.timer => socket.answers # {} \/ ~Open
=============================================================================
