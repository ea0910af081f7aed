------------------------------ MODULE Pipeline ------------------------------
(***************************************************************************)
(* What HttpServer::handleRequest makes of one request: the before of each *)
(* middleware in the order in which main adds them, the router, a handler. *)
(* A middleware ends this by throwing its own response.  The afters, which *)
(* are called when nothing has been thrown, only add headers here.         *)
(*                                                                         *)
(* Operators only.  What depends on other requests is the argument event:  *)
(*   fine            nothing stands in the way                             *)
(*   limited         the limiter finds the client over its limit           *)
(*   limiterFails    the limiter cannot connect to Redis and throws        *)
(* Of the response its close flag is kept, and who has made it.            *)
(***************************************************************************)
EXTENDS SequencesExt

\* The middlewares in the order in which main adds them.
Chain == <<"cors", "rateLimit", "blacklist", "cache">>

\* What main registers: static paths, and one path with a parameter.
StaticRoutes ==
    { [method |-> "POST", path |-> "/api/shorten", handler |-> "ShortenHandler"],
      [method |-> "GET", path |-> "/metrics", handler |-> "MetricsHandler"],
      [method |-> "GET", path |-> "/healthz", handler |-> "HealthHandler"] }
RegexRoutes ==
    <<[method |-> "GET", path |-> "/s/id", handler |-> "RedirectHandler"]>>

Handlers == {r.handler : r \in StaticRoutes \cup ToSet(RegexRoutes)}
Paths == {"/api/shorten", "/metrics", "/healthz", "/s/id", "/s/javascript:", "/other"}

Events == {"fine", "limited", "limiterFails"}

Response(by, close) == [by |-> by, close |-> close]

-----------------------------------------------------------------------------
\* Variant with a fault: only the path is searched.
MatchesInPath(request, badBody) == request.path = "/s/javascript:"

\* A pattern of the blacklist occurs in the body or the path.
Matches(request, badBody) == badBody \/ request.path = "/s/javascript:"

\* The before of middleware m ends the request.  CacheAdapter's never does: its
\* cache stays empty.
Stops(m, request, badBody, event) ==
    \/ m = "cors" /\ request.method = "OPTIONS"
    \/ m = "rateLimit" /\ event \in {"limited", "limiterFails"}
    \/ m = "blacklist" /\ Matches(request, badBody)

\* processBefore: the place in the chain of the first one that does, 0 if none.
ProcessBefore(request, badBody, event) ==
    SelectInSeq(Chain, LAMBDA m : Stops(m, request, badBody, event))

\* Answered by handlePreflightRequest: 204, or 403 for an origin that is not
\* allowed, with the flag that a response is made with.
Preflight == Response("cors", TRUE)

\* What comes of a request that middleware m has ended: only CORS sets the flag
\* of the response it throws, and an exception leaves the flag as it was.
Stopped(m, event, close) ==
    CASE m = "cors" -> Preflight
      [] m = "rateLimit" /\ event = "limiterFails" -> Response(m, close)
      [] OTHER -> Response(m, FALSE)

\* The handler found for the request: by its path, then by the first pattern.
Route(request) ==
    LET fits(r) == r.method = request.method /\ r.path = request.path
        static == {r \in StaticRoutes : fits(r)}
        place == SelectInSeq(RegexRoutes, fits)
    IN  IF static # {} THEN (CHOOSE r \in static : TRUE).handler
        ELSE IF place > 0 THEN RegexRoutes[place].handler
        ELSE "noRoute"

\* route: no fitting route gives 404 and closes the connection; a handler, also
\* one that throws, leaves the flag as it was.
Routed(request, close) ==
    Response(Route(request), Route(request) = "noRoute" \/ close)

HandleRequest(request, badBody, event, close) ==
    LET place == ProcessBefore(request, badBody, event)
    IN  IF place > 0 THEN Stopped(Chain[place], event, close)
        ELSE Routed(request, close)
=============================================================================
