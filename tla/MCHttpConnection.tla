-------------------------- MODULE MCHttpConnection --------------------------
(* One connection and three requests of shapes that meet every branch of   *)
(* the parser: bodies of no, one and two bytes, lengths that are missing,  *)
(* no number or negative, a body with a GET, both versions, a fault in     *)
(* each part of the head, and every way through the pipeline: a handler,   *)
(* no route, a CORS preflight, a pattern of the blacklist in the path or   *)
(* the body.  And the same client of a server made with useSSL, after a    *)
(* handshake or instead.                                                   *)
EXTENDS HttpConnection

Shape(method, path, version, conn, length, bad, fault) ==
    [method |-> method, path |-> path, version |-> version, conn |-> conn,
     length |-> length, bad |-> bad, fault |-> fault]

MCShapes ==
    { Shape("GET", "/s/id", "HTTP/1.0", "Keep-Alive", NoLength, FALSE, "none"),
      Shape("GET", "/s/javascript:", "HTTP/1.1", "none", NoLength, FALSE, "none"),
      Shape("GET", "/s/id", "HTTP/1.1", "none", 1, FALSE, "none"),
      Shape("GET", "/other", "HTTP/1.1", "close", NoLength, FALSE, "none"),
      Shape("OPTIONS", "/api/shorten", "HTTP/1.1", "none", NoLength, FALSE, "none"),
      Shape("POST", "/api/shorten", "HTTP/1.1", "none", 0, FALSE, "none"),
      Shape("POST", "/api/shorten", "HTTP/1.0", "none", 1, FALSE, "none"),
      Shape("POST", "/api/shorten", "HTTP/1.1", "none", 1, TRUE, "none"),
      Shape("POST", "/api/shorten", "HTTP/1.1", "none", 2, FALSE, "none"),
      Shape("POST", "/api/shorten", "HTTP/1.1", "none", NoLength, FALSE, "none"),
      Shape("POST", "/api/shorten", "HTTP/1.1", "none", Junk, FALSE, "none"),
      Shape("POST", "/api/shorten", "HTTP/1.1", "none", Negative, FALSE, "none"),
      Shape("GET", "/s/id", "HTTP/1.1", "none", NoLength, FALSE, "line"),
      Shape("POST", "/api/shorten", "HTTP/1.1", "none", 1, FALSE, "header") }
=============================================================================
