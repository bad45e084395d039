---------------------------- MODULE HttpRequests ----------------------------
(***************************************************************************)
(* The life of an HTTP request: the kernel (src/http/kernel.ts), the       *)
(* workflow's listeners (workflow.ts, cors.ts), middleware (middleware.ts, *)
(* auth.ts) and the values cached with the request (store.ts), while the   *)
(* client may go away at any moment.                                       *)
(*                                                                         *)
(* Requests share nothing, so a behaviour is about one.  Deepkit's         *)
(* workflow (route, auth, parameters, controller, response) is external:   *)
(* its default listeners do nothing once the head of a response is sent.   *)
(***************************************************************************)
EXTENDS Integers, Sequences

CONSTANTS
    Middlewares,    \* of a route: sequences of "auth", "http" and "plain"
    Wants           \* what a route takes: "nothing", "jwt", "jwt?", "user" or "user?"

VARIABLES
    request,    \* [origin, method, verify]; verify is AUTH_JWT_ENABLE_VERIFY
    route,      \* [middlewares, validates, wants], when it is known
    at,         \* where the workflow is
    chain,      \* the promise of the middleware chain: [state, passed, step, listening]
    error,      \* what was thrown into the workflow
    reply,      \* status of the response that was handed to the workflow
    res,        \* the response: [status, by, cors, chunked, ended, finished, destroyed, closed]
    corsHeaders,    \* response[CorsHeaders] is set
    kernel,     \* [state, active, watching]; active is activeRequestCount
    cache,      \* request.store: [jwt, id, user]
    loads,      \* entities read from the database
    given, validated    \* the entities of the controller and of validateEntity()

vars == <<request, route, at, chain, error, reply, res, corsHeaders, kernel, cache, loads, given, validated>>

None == 0
Unread == -1
Sent == res.status # 0

NoChain == [state |-> "none", passed |-> 0, step |-> "id", listening |-> FALSE]

-----------------------------------------------------------------------------
(* Tokens.  What formatJwtError() does not know is thrown. *)

Token == {"none", "good", "forged", "late", "odd", "garbage", "strange"}

Valid(token) == IF request.verify THEN token = "good" ELSE token \in {"good", "forged", "late", "odd"}

\* Bearer token or cookie, whichever is valid first.  An invalid one counts as none.
Processed(header, cookie) ==
    CASE header = "strange" -> "thrown"
      [] header # "strange" /\ Valid(header) -> "valid"
      [] header # "strange" /\ ~Valid(header) ->
            CASE cookie = "strange" -> "thrown"
              [] cookie # "strange" /\ Valid(cookie)  -> "valid"
              [] cookie # "strange" /\ ~Valid(cookie) -> "none"

\* getJwtFromRequest(): from the cache, or now.
Jwts == IF cache.jwt = "unread" THEN {Processed(h, c) : h \in Token, c \in Token} ELSE {cache.jwt}

\* Only what resolves is cached.
Remembers(jwt) == [cache EXCEPT !.jwt = IF jwt = "thrown" THEN "unread" ELSE jwt]

\* getOrCacheValue() for the entity.
Users ==
    IF cache.user = Unread THEN {[user |-> loads + 1, read |-> TRUE], [user |-> None, read |-> TRUE]}
    ELSE {[user |-> cache.user, read |-> FALSE]}

-----------------------------------------------------------------------------
(* The kernel. *)

HandleRequest ==
    /\ at = "new" /\ at' = "route"
    /\ kernel' = [state |-> "pending", active |-> kernel.active + 1, watching |-> TRUE]
    /\ UNCHANGED <<request, route, chain, error, reply, res, corsHeaders, cache, loads, given, validated>>

\* finally: once, however often the promise is resolved.
Settled(k) ==
    IF k.state = "pending" THEN [k EXCEPT !.state = "settled", !.active = @ - 1] ELSE k

\* The workflow is over.
Handled ==
    /\ at = "over" /\ at' = "handled"
    /\ kernel' = [Settled(kernel) EXCEPT !.watching = FALSE]
    /\ UNCHANGED <<request, route, chain, error, reply, res, corsHeaders, cache, loads, given, validated>>

\* Mutant: nobody looks after a request whose client has gone.
NotWatched ==
    /\ res.destroyed /\ ~res.closed
    /\ res' = [res EXCEPT !.closed = TRUE]
    /\ UNCHANGED <<request, route, at, chain, error, reply, corsHeaders, kernel, cache, loads, given, validated>>

\* onClose
Close ==
    /\ res.destroyed /\ ~res.closed
    /\ res' = [res EXCEPT !.closed = TRUE]
    /\ kernel' = IF kernel.watching /\ ~res.finished THEN Settled(kernel) ELSE kernel
    /\ UNCHANGED <<request, route, at, chain, error, reply, corsHeaders, cache, loads, given, validated>>

ClientLeaves ==
    /\ at # "new" /\ ~res.destroyed
    /\ res' = [res EXCEPT !.destroyed = TRUE]
    /\ UNCHANGED <<request, route, at, chain, error, reply, corsHeaders, kernel, cache, loads, given, validated>>

\* The response has gone to the client: "finish".
Flush ==
    /\ res.ended /\ ~res.finished /\ ~res.destroyed
    /\ res' = [res EXCEPT !.finished = TRUE]
    /\ chain' = IF chain.listening
                THEN [chain EXCEPT !.listening = FALSE,
                                   !.state = IF @ \in {"running", "waiting"} THEN "resolved" ELSE @]
                ELSE chain
    /\ UNCHANGED <<request, route, at, error, reply, corsHeaders, kernel, cache, loads, given, validated>>

-----------------------------------------------------------------------------
(* Routes and middleware. *)

Write(status, by, withCors) ==
    [res EXCEPT !.status = status, !.by = by, !.cors = withCors, !.ended = TRUE]

\* onRoute of cors.ts, then onRouteOverride().  A request that no route is found for, or whose
\* path cannot be resolved, is "notFound".
Route ==
    /\ at = "route"
    /\ corsHeaders' = (request.origin = "listed")
    /\ \/ /\ \E mids \in Middlewares, validates \in BOOLEAN, wants \in Wants :
                /\ validates => \E i \in DOMAIN mids : mids[i] = "auth"
                /\ route' = [middlewares |-> mids, validates |-> validates, wants |-> wants]
                /\ at' = IF mids = <<>> THEN "auth" ELSE "chain"
                /\ chain' = IF mids = <<>> THEN chain
                            ELSE [NoChain EXCEPT !.state = "running", !.listening = TRUE]
       \/ /\ at' = "notFound"
          /\ UNCHANGED <<route, chain>>
    /\ UNCHANGED <<request, error, reply, res, kernel, cache, loads, given, validated>>

Runs(kind) ==
    /\ at = "chain" /\ chain.state = "running"
    /\ route.middlewares[chain.passed + 1] = kind

\* next()
Passes ==
    chain' = IF chain.passed + 1 = Len(route.middlewares)
             THEN [chain EXCEPT !.passed = @ + 1, !.state = "resolved", !.listening = FALSE]
             ELSE [chain EXCEPT !.passed = @ + 1, !.step = "id"]

\* HttpMiddleware: an HttpError is answered, with the headers of CORS; the chain goes on when
\* the response has gone.
Refuses(status) ==
    /\ res' = Write(status, "us", corsHeaders)
    /\ chain' = [chain EXCEPT !.state = "waiting"]

\* Any other error is answered too, and thrown.
Fails ==
    /\ res' = Write(500, "failure", FALSE)
    /\ chain' = [chain EXCEPT !.state = "rejected"]

HttpMiddleware ==
    /\ Runs("http")
    /\ \/ Passes /\ UNCHANGED res
       \/ Refuses(403)
       \/ Fails
    /\ UNCHANGED <<request, route, at, error, reply, corsHeaders, kernel, cache, loads, given, validated>>

\* Middleware that does not extend HttpMiddleware: it passes, answers, throws or passes an error.
PlainMiddleware ==
    /\ Runs("plain")
    /\ \/ Passes /\ UNCHANGED res
       \/ res' = Write(200, "app", FALSE) /\ chain' = [chain EXCEPT !.state = "waiting"]
       \/ \E off \in BOOLEAN :
            chain' = [chain EXCEPT !.state = "rejected", !.listening = ~off] /\ UNCHANGED res
    /\ UNCHANGED <<request, route, at, error, reply, corsHeaders, kernel, cache, loads, given, validated>>

\* createAuthMiddleware: the id of the JWT,
Identify ==
    /\ Runs("auth") /\ chain.step = "id"
    /\ \E jwt \in Jwts :
        /\ cache' = [Remembers(jwt) EXCEPT !.id = jwt = "valid"]
        /\ CASE jwt = "valid"  -> chain' = [chain EXCEPT !.step = "user"] /\ UNCHANGED res
             [] jwt = "none"   -> Refuses(401)
             [] jwt = "thrown" -> Fails
    /\ UNCHANGED <<request, route, at, error, reply, corsHeaders, kernel, loads, given, validated>>

\* and its entity, if there is something to validate.
LoadAndValidate ==
    /\ Runs("auth") /\ chain.step = "user"
    /\ \/ /\ ~route.validates /\ Passes
          /\ UNCHANGED <<res, cache, loads, validated>>
       \/ /\ route.validates
          /\ \E u \in Users :
                /\ cache' = [cache EXCEPT !.user = u.user]
                /\ loads' = IF u.read THEN loads + 1 ELSE loads
                /\ IF u.user = None THEN Refuses(401) /\ UNCHANGED validated
                   ELSE /\ validated' = u.user
                        /\ (Passes /\ UNCHANGED res) \/ Refuses(403) \/ Fails
       \/ /\ route.validates /\ Fails
          /\ UNCHANGED <<cache, loads, validated>>
    /\ UNCHANGED <<request, route, at, error, reply, corsHeaders, kernel, given>>

\* routeFound(), whether the chain passed or a response has gone; or notFound().
ChainEnds ==
    /\ at = "chain" /\ chain.state \in {"resolved", "rejected"}
    /\ at' = IF chain.state = "resolved" THEN "auth" ELSE "notFound"
    /\ UNCHANGED <<request, route, chain, error, reply, res, corsHeaders, kernel, cache, loads, given, validated>>

\* Deepkit's listener.
Auth ==
    /\ at = "auth"
    /\ at' = IF Sent THEN "over" ELSE "params"
    /\ UNCHANGED <<request, route, chain, error, reply, res, corsHeaders, kernel, cache, loads, given, validated>>

-----------------------------------------------------------------------------
(* Parameters and the controller. *)

Throws(kind, to) == error' = kind /\ at' = to

\* ParsedJwtResolver, or the resolver of an entity by the JWT, whose cached value is that of the
\* middleware; other parameters may be invalid.
ResolveParameters ==
    /\ at = "params"
    /\ \/ /\ route.wants = "nothing" /\ at' = "controller"
          /\ UNCHANGED <<error, cache, loads, given>>
       \/ /\ \E kind \in {"validation", "json", "other"} : Throws(kind, "paramsFailed")
          /\ UNCHANGED <<cache, loads, given>>
       \/ /\ route.wants \in {"jwt", "jwt?"}
          /\ \E jwt \in Jwts :
                /\ cache' = Remembers(jwt)
                /\ CASE jwt = "thrown" -> Throws("other", "paramsFailed")
                     [] jwt = "none" /\ route.wants = "jwt" -> Throws("http", "paramsFailed")
                     [] OTHER -> at' = "controller" /\ UNCHANGED error
          /\ UNCHANGED <<loads, given>>
       \/ /\ route.wants \in {"user", "user?"}
          /\ \/ /\ cache.user # Unread
                /\ at' = "controller" /\ given' = cache.user
                /\ UNCHANGED <<error, cache, loads>>
             \/ /\ cache.user = Unread
                /\ \E jwt \in Jwts :
                    CASE jwt = "thrown" ->
                            Throws("other", "paramsFailed") /\ UNCHANGED <<cache, loads, given>>
                      [] jwt = "none" /\ route.wants = "user" ->
                            Throws("http", "paramsFailed") /\ cache' = Remembers(jwt) /\ UNCHANGED <<loads, given>>
                      [] jwt = "none" /\ route.wants = "user?" ->
                            /\ at' = "controller" /\ cache' = [Remembers(jwt) EXCEPT !.user = None]
                            /\ UNCHANGED <<error, loads, given>>
                      [] jwt = "valid" ->
                            /\ loads' = loads + 1
                            /\ \/ /\ at' = "controller" /\ given' = loads + 1
                                  /\ cache' = [Remembers(jwt) EXCEPT !.user = loads + 1]
                                  /\ UNCHANGED error
                               \/ Throws("other", "paramsFailed") /\ cache' = Remembers(jwt) /\ UNCHANGED given
    /\ UNCHANGED <<request, route, chain, reply, res, corsHeaders, kernel, validated>>

Sends(status) == reply' = status /\ at' = "response"

\* onParametersFailed; what is no HttpError is left to Deepkit's listener.
ParametersFailed ==
    /\ at = "paramsFailed"
    /\ \E status \in {CASE error = "http" -> 401 [] error \in {"json", "validation"} -> 400 [] OTHER -> 500} :
            Sends(status)
    /\ UNCHANGED <<request, route, chain, error, res, corsHeaders, kernel, cache, loads, given, validated>>

\* The application's own: it returns or throws, before or after it has begun a response itself,
\* and may leave that open when it returns.
Controller ==
    /\ at = "controller"
    /\ \/ UNCHANGED res
       \/ \E status \in {200, 404}, chunked, ended \in BOOLEAN :
            res' = [Write(status, "app", FALSE) EXCEPT !.chunked = chunked, !.ended = ended]
    /\ \/ Sends(200) /\ UNCHANGED error
       \/ (\E kind \in {"http", "validation", "other"} : Throws(kind, "controllerError")) /\ UNCHANGED reply
    /\ UNCHANGED <<request, route, chain, corsHeaders, kernel, cache, loads, given, validated>>

\* onControllerError.  A response that has begun well is broken off, so that the client can tell.
ControllerError ==
    /\ at = "controllerError"
    /\ CASE Sent /\ res.status < 400 ->
                /\ res' = [res EXCEPT !.destroyed = TRUE] /\ at' = "over"
                /\ UNCHANGED reply
         [] ~(Sent /\ res.status < 400) /\ error = "http" -> Sends(403) /\ UNCHANGED res
         [] ~(Sent /\ res.status < 400) /\ error # "http" ->
                IF Sent THEN at' = "over" /\ UNCHANGED <<reply, res>>
                ELSE Sends(500) /\ UNCHANGED res
    /\ UNCHANGED <<request, route, chain, error, corsHeaders, kernel, cache, loads, given, validated>>

\* routeNotFound of cors.ts, then Deepkit's listener.
NotFound ==
    /\ at = "notFound"
    /\ CASE Sent -> at' = "over" /\ UNCHANGED <<reply, res>>
         [] ~Sent /\ request.method = "OPTIONS" /\ request.origin = "listed" ->
                res' = Write(204, "us", TRUE) /\ Sends(204)
         [] ~Sent /\ ~(request.method = "OPTIONS" /\ request.origin = "listed") ->
                Sends(404) /\ UNCHANGED res
    /\ UNCHANGED <<request, route, chain, error, corsHeaders, kernel, cache, loads, given, validated>>

\* onResponse of cors.ts, then Deepkit's listener.
Response ==
    /\ at = "response" /\ at' = "over"
    /\ res' = IF Sent THEN res ELSE Write(reply, "us", corsHeaders)
    /\ UNCHANGED <<request, route, chain, error, reply, corsHeaders, kernel, cache, loads, given, validated>>

\* A controller that kept the response ends it later, unless it has failed.
HookEnds ==
    /\ at \in {"over", "handled"} /\ Sent /\ res.by = "app" /\ ~res.ended /\ error = "none"
    /\ res' = [res EXCEPT !.ended = TRUE]
    /\ UNCHANGED <<request, route, at, chain, error, reply, corsHeaders, kernel, cache, loads, given, validated>>

-----------------------------------------------------------------------------
Init ==
    /\ request \in [origin : {"listed", "other"}, method : {"GET", "OPTIONS"}, verify : BOOLEAN]
    /\ route = [middlewares |-> <<>>, validates |-> FALSE, wants |-> "nothing"]
    /\ at = "new" /\ chain = NoChain /\ error = "none" /\ reply = 0
    /\ res = [status |-> 0, by |-> "none", cors |-> FALSE, chunked |-> FALSE,
              ended |-> FALSE, finished |-> FALSE, destroyed |-> FALSE, closed |-> FALSE]
    /\ corsHeaders = FALSE
    /\ kernel = [state |-> "idle", active |-> 0, watching |-> FALSE]
    /\ cache = [jwt |-> "unread", id |-> FALSE, user |-> Unread]
    /\ loads = 0 /\ given = None /\ validated = None

\* What goes on without the client's doing.
Work ==
    \/ Handled \/ Close \/ Flush
    \/ Route \/ HttpMiddleware \/ PlainMiddleware \/ Identify \/ LoadAndValidate \/ ChainEnds \/ Auth
    \/ ResolveParameters \/ ParametersFailed \/ Controller \/ ControllerError
    \/ NotFound \/ Response \/ HookEnds

Next == HandleRequest \/ ClientLeaves \/ Work

Spec == Init /\ [][Next]_vars

-----------------------------------------------------------------------------
(* Properties. *)

\* A controller that has begun to answer with an error, and then throws: nobody ends its response.
Abandoned == error # "none" /\ res.by = "app" /\ res.status >= 400

\* A request is handled to its end, whatever fails and whenever its client goes.  What a route
\* takes is looked at only when all its middleware has passed and nothing has been answered; the
\* entity that a controller is given is the one that was validated; what this code answers to a
\* listed origin, except for an error in the middleware itself, has the headers of CORS; and in
\* the end the kernel's promise is settled, its count is back, and the response has an end.
RequestHandled ==
    /\ at \in {"params", "paramsFailed", "controller"} => ~Sent /\ chain.passed = Len(route.middlewares)
    /\ given # None /\ validated # None => given = validated
    /\ res.by = "us" /\ request.origin = "listed" => res.cors
    /\ at # "new" /\ ~ENABLED Work =>
        /\ kernel.state = "settled" /\ kernel.active = 0
        /\ res.ended \/ res.destroyed \/ Abandoned
=============================================================================
