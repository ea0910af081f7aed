--------------------------- MODULE HttpConnection ---------------------------
(***************************************************************************)
(* One connection of HttpServer: what the client sends arrives in pieces   *)
(* cut anywhere between lines and body bytes, each piece runs onMessage    *)
(* once, onMessage parses at most one request and onRequest answers it.    *)
(* Only a POST has its body read; that of another request is left in the   *)
(* buffer, in front of the next request line.  What it says is left open:  *)
(* its bytes may end a line or not, but no line in it is a request line.   *)
(*                                                                         *)
(* A line of the request head and a byte of a body are tokens; a POST      *)
(* stands for a PUT too.  muduo's send and shutdown are modelled from      *)
(* their use: nothing is sent after shutdown, while input is still read.   *)
(* Asserts are compiled out, as in the Release build of build/.            *)
(*                                                                         *)
(* On a server made with useSSL the input goes to SslConnection::onRead    *)
(* instead, which hands it to OpenSSL.  Of OpenSSL the model keeps how far *)
(* the handshake is; it cannot complete, as the answer that OpenSSL puts   *)
(* into writeBio_ is never taken from there and sent.                      *)
(***************************************************************************)
EXTENDS Integers, Pipeline

CONSTANTS
    Shapes,         \* the requests a client may send
    MaxRequests     \* bound on their number, for model checking

NoLength == -1      \* no Content-Length header
Junk == -2          \* one that std::stoi rejects
Negative == -3      \* one that it reads as a number below zero
Huge == 2147483647  \* what that is as uint64_t: more than ever arrives

\* conn: the Connection header, or "none"; bad: the body has a pattern of the
\* blacklist; fault: the request line or a header line that does not parse, or
\* "none".
AllShapes == [method : {"GET", "POST", "OPTIONS"}, path : Paths,
              version : {"HTTP/1.0", "HTTP/1.1"}, conn : {"none", "close", "Keep-Alive"},
              length : Nat \cup {NoLength, Junk, Negative}, bad : BOOLEAN,
              fault : {"none", "line", "header"}]

ASSUME ConnectionAssumption ==
    /\ Shapes \subseteq AllShapes
    /\ MaxRequests \in Nat

VARIABLES
    secure,     \* whether the server has been made with useSSL
    handshake,  \* what SSL_do_handshake has met so far
    patient,    \* whether the client awaits each answer before it goes on
    asked,      \* the shapes of the requests sent so far
    wire,       \* tokens on their way
    buf,        \* the input buffer of the connection
    pc,         \* the event loop: waiting, in parseRequest, in onRequest
    state,      \* state_ of HttpContext
    request,    \* request_ of HttpContext
    shut,       \* shutdown has been called
    out,        \* the responses sent, each for one of the requests
    handled     \* history: the requests passed on, their bodies, who answered

contextVars == <<buf, pc, state, request>>
replyVars == <<shut, out, handled>>
sslVars == <<secure, handshake>>
clientVars == <<patient, asked, wire>>
vars == <<sslVars, clientVars, contextVars, replyVars>>

Token(kind, n, value) == [kind |-> kind, n |-> n, value |-> value]

\* What the client sends as its n-th request.
Message(n, s) ==
    <<Token(IF s.fault = "line" THEN "badLine" ELSE "line", n, s)>>
    \o (IF s.conn = "none" THEN <<>> ELSE <<Token("conn", n, s)>>)
    \o (IF s.length = NoLength THEN <<>> ELSE <<Token("length", n, s)>>)
    \o (IF s.fault = "header" THEN <<Token("badHeader", n, s)>> ELSE <<>>)
    \o <<Token("blank", n, s)>>
    \o [i \in 1 .. (IF s.length > 0 THEN s.length ELSE 0) |-> Token("byte", n, s)]

\* A request of which nothing has been parsed; contentLength and content are
\* what the previous request on the connection left, because swap skips them.
Fresh(contentLength, content) ==
    [n |-> 0, method |-> "kInvalid", path |-> "none", version |-> "Unknown", conn |-> "none",
     length |-> NoLength, contentLength |-> contentLength, content |-> content]

\* The client of a secure server goes on only when it has got something back.
Init ==
    /\ secure \in BOOLEAN
    /\ handshake = "nothing"
    /\ patient \in BOOLEAN
    /\ secure => patient
    /\ asked = <<>>
    /\ wire = <<>>
    /\ buf = <<>>
    /\ pc = "wait"
    /\ state = "line"
    /\ request = Fresh(0, <<>>)
    /\ shut = FALSE
    /\ out = <<>>
    /\ handled = <<>>

-----------------------------------------------------------------------------
\* The client sends a request; a patient one not before it has its answers.
Ask(s) ==
    /\ Len(asked) < MaxRequests
    /\ patient => Len(out) = Len(asked) /\ ~shut
    /\ asked' = Append(asked, s)
    /\ wire' = wire \o Message(Len(asked) + 1, s)
    /\ UNCHANGED <<sslVars, patient, contextVars, replyVars>>

\* A TLS client begins the handshake, with a message that may be cut too.
SayHello ==
    /\ secure /\ handshake = "nothing"
    /\ asked = <<>> /\ wire = <<>>
    /\ wire' = <<Token("hello", 0, "begin"), Token("hello", 0, "end")>>
    /\ UNCHANGED <<sslVars, patient, asked, contextVars, replyVars>>

\* onConnection has made an SslConnection, whose constructor has replaced the
\* callback for input.
Secured == secure

\* The first k tokens of the wire arrive.
Arrives(k) == wire' = SubSeq(wire, k + 1, Len(wire))

\* A piece of the stream arrives and the loop calls onMessage.
Deliver ==
    /\ pc = "wait" /\ ~Secured
    /\ pc' = "parse"
    /\ \E k \in 1 .. Len(wire) : Arrives(k) /\ buf' = buf \o SubSeq(wire, 1, k)
    /\ UNCHANGED <<sslVars, patient, asked, state, request, replyVars>>

\* How far the handshake is when OpenSSL has read a piece: input that is no
\* part of it is an error for good.
Progress(piece) ==
    IF handshake = "error" \/ \E i \in DOMAIN piece : piece[i].kind # "hello" THEN "error"
    ELSE IF Last(piece).value = "begin" THEN "begun"
    ELSE "answered"

\* onRead moves a piece to readBio_ and tries the handshake again, which wants
\* more input or fails; handleHandshake then shuts the connection down.
DeliverSecure ==
    /\ Secured
    /\ \E k \in 1 .. Len(wire) : Arrives(k) /\ handshake' = Progress(SubSeq(wire, 1, k))
    /\ shut' = (shut \/ handshake' = "error")
    /\ UNCHANGED <<secure, patient, asked, contextVars, out, handled>>

-----------------------------------------------------------------------------
\* One round of the loop of parseRequest sees a token of this kind first.
Sees(st, kinds) == pc = "parse" /\ state = st /\ buf # <<>> /\ buf[1].kind \in kinds

\* conn->send, which does nothing once the connection is being shut down.
Sent(n) == IF shut THEN out ELSE Append(out, n)

\* parseRequest fails or throws: 400, and the connection is shut down.  The
\* context keeps its state, and input that comes later is parsed from there.
Refuse(n) ==
    /\ pc' = "wait"
    /\ out' = Sent(n)
    /\ shut' = TRUE
    /\ UNCHANGED handled

\* The request with what its first line says.
WithLine(n, s) ==
    [request EXCEPT !.n = n, !.method = s.method, !.path = s.path, !.version = s.version]

ParseLine ==
    /\ Sees("line", {"line"})
    /\ request' = WithLine(buf[1].n, buf[1].value)
    /\ state' = "headers"
    /\ buf' = Tail(buf)
    /\ UNCHANGED <<sslVars, clientVars, pc, replyVars>>

\* A line that does not parse, or begins with what is left of a body; it stays in
\* the buffer.
RefuseLine ==
    /\ Sees("line", {"badLine", "byte"})
    /\ Refuse(buf[1].n)
    /\ UNCHANGED <<sslVars, clientVars, buf, state, request>>

\* A line with a colon.  After a 400 the state may still be kExpectHeaders when
\* the next request comes in, whose request line then counts as a header line.
ParseHeader ==
    /\ \/ Sees("headers", {"conn"}) /\ request' = [request EXCEPT !.conn = buf[1].value.conn]
       \/ Sees("headers", {"length"}) /\ request' = [request EXCEPT !.length = buf[1].value.length]
       \/ Sees("headers", {"line", "badLine"}) /\ UNCHANGED request
    /\ buf' = Tail(buf)
    /\ UNCHANGED <<sslVars, clientVars, pc, state, replyVars>>

\* A line without one is skipped; the state remains kExpectHeaders.
RefuseHeader ==
    /\ Sees("headers", {"badHeader", "line", "badLine"})
    /\ Refuse(buf[1].n)
    /\ buf' = Tail(buf)
    /\ UNCHANGED <<sslVars, clientVars, state, request>>

\* Variant with a fault: the length is kept as a signed number.
AnnouncedSigned == request.length

\* setContentLength, which takes an unsigned number.
Announced == IF request.length = Negative THEN Huge ELSE request.length
HasLength == request.length \notin {NoLength, Junk}

\* The empty line ends a head whose request has no body to wait for.
EndHead ==
    /\ Sees("headers", {"blank"})
    /\ \/ request.method # "POST" /\ UNCHANGED request
       \/ request.method = "POST" /\ HasLength /\ ~(Announced > 0)
             /\ request' = [request EXCEPT !.contentLength = Announced]
    /\ pc' = "got"
    /\ buf' = Tail(buf)
    /\ UNCHANGED <<sslVars, clientVars, state, replyVars>>

\* It ends a head that announces a body.
ExpectBody ==
    /\ Sees("headers", {"blank"})
    /\ request.method = "POST" /\ HasLength /\ Announced > 0
    /\ request' = [request EXCEPT !.contentLength = Announced]
    /\ state' = "body"
    /\ buf' = Tail(buf)
    /\ UNCHANGED <<sslVars, clientVars, pc, replyVars>>

\* A POST without Content-Length, the line skipped, or with one that makes
\* std::stoi throw, the line left in the buffer.
RefuseLength ==
    /\ Sees("headers", {"blank"})
    /\ request.method = "POST"
    /\ \/ request.length = NoLength /\ buf' = Tail(buf)
       \/ request.length = Junk /\ UNCHANGED buf
    /\ Refuse(buf[1].n)
    /\ UNCHANGED <<sslVars, clientVars, state, request>>

\* Variant with a fault: a byte more than the body is waited for.
EnoughAndMore == Len(buf) > request.contentLength

\* Whether the buffer holds the whole body: none ever does when the length has
\* been read from a negative number.
Enough == request.length # Negative /\ Len(buf) >= request.contentLength

\* Variants with a fault: all that has arrived counts as the body, or is
\* dropped with it.
BodyIsBuffer == buf
NothingAfterBody == <<>>

\* The body, and what it leaves in the buffer.
Body == SubSeq(buf, 1, request.contentLength)
AfterBody == SubSeq(buf, request.contentLength + 1, Len(buf))

ParseBody ==
    /\ pc = "parse" /\ state = "body" /\ Enough
    /\ request' = [request EXCEPT !.content = [i \in DOMAIN Body |-> Body[i].n]]
    /\ buf' = AfterBody
    /\ pc' = "got"
    /\ UNCHANGED <<sslVars, clientVars, state, replyVars>>

\* parseRequest returns for want of input: there is nothing, or only bytes of a
\* body that end no line.
NeedMore ==
    /\ pc = "parse"
    /\ \/ state # "body" /\ buf = <<>>
       \/ state = "line" /\ \A i \in DOMAIN buf : buf[i].kind = "byte"
       \/ state = "body" /\ ~Enough
    /\ pc' = "wait"
    /\ UNCHANGED <<sslVars, clientVars, buf, state, request, replyVars>>

-----------------------------------------------------------------------------
\* Variant with a fault: the Connection header of HTTP/1.0 is not looked at.
WantsCloseAnyOld(r) == r.conn = "close" \/ r.version = "HTTP/1.0"

\* The flag that onRequest gives the response it creates.
WantsClose(r) ==
    \/ r.conn = "close"
    \/ r.version = "HTTP/1.0" /\ r.conn # "Keep-Alive"

\* The body has a pattern of the blacklist.
BadBody == \E i \in DOMAIN request.content : asked[request.content[i]].bad

\* Variant with a fault: the context is not reset.
NoReset == UNCHANGED <<state, request>>

\* reset, which leaves content_ and contentLength_ alone.
Reset ==
    /\ state' = "line"
    /\ request' = Fresh(request.contentLength, request.content)

\* onRequest and then reset.
Handle(event) ==
    LET response == HandleRequest(request, BadBody, event, WantsClose(request))
        close == \/ response.close
                 \/ request.version = "HTTP/1.0" /\ request.conn # "Keep-Alive"
    IN  /\ pc = "got"
        /\ out' = Sent(request.n)
        /\ shut' = (shut \/ close)
        /\ handled' = Append(handled, [n |-> request.n, body |-> request.content,
                                       by |-> response.by])
        /\ Reset
        /\ pc' = "wait"
        /\ UNCHANGED <<sslVars, clientVars, buf>>

Loop ==
    \/ ParseLine \/ RefuseLine \/ ParseHeader \/ RefuseHeader \/ EndHead
    \/ ExpectBody \/ RefuseLength \/ ParseBody \/ NeedMore
    \/ \E event \in Events : Handle(event)

\* The loop waits for input and none is on its way.
Rest == pc = "wait" /\ wire = <<>> /\ UNCHANGED vars

Next ==
    \/ \E s \in Shapes : Ask(s)
    \/ SayHello
    \/ Deliver \/ DeliverSecure
    \/ Loop
    \/ Rest

\* TCP delivers what was sent, and the event loop runs.
Spec == Init /\ [][Next]_vars /\ WF_vars(Deliver) /\ WF_vars(Loop)

-----------------------------------------------------------------------------
\* Types; what is handled or answered has been asked.
TypeOK ==
    /\ {secure, patient} \subseteq BOOLEAN
    /\ handshake \in {"nothing", "begun", "answered", "error"}
    /\ asked \in Seq(Shapes)
    /\ pc \in {"wait", "parse", "got"}
    /\ state \in {"line", "headers", "body"}
    /\ request.n \in 0 .. Len(asked)
    /\ request.contentLength \in Nat
    /\ shut \in BOOLEAN
    /\ \A i \in DOMAIN out : out[i] \in 1 .. Len(asked)
    /\ \A i \in DOMAIN handled :
          /\ handled[i].n \in 1 .. Len(asked)
          /\ handled[i].by \in Handlers \cup {"noRoute", "cors", "rateLimit", "blacklist"}

\* Requests whose bodies are not read: parseRequest completes a GET, an OPTIONS or
\* a DELETE with its head, whatever length that announces.
Strays == {n \in DOMAIN asked : asked[n].method # "POST" /\ asked[n].length > 0}

\* The i-th response on a connection is for the i-th request, so long as no
\* request before it has left its body in the buffer: none is skipped, answered
\* twice or out of order, however the stream is cut into pieces and pipelined,
\* until the connection is shut down (HttpServer::onMessage).
AnswersInOrder == \A i \in DOMAIN out : Strays \cap 1 .. i - 1 = {} => out[i] = i

\* A handler is given exactly the body bytes of its own request when there are
\* any, not those of a neighbour on the connection (HttpContext::parseRequest).
OwnBody ==
    \A i \in DOMAIN handled :
        LET s == asked[handled[i].n] IN
        s.method = "POST" /\ s.length > 0 =>
            handled[i].body = [j \in 1 .. s.length |-> handled[i].n]

\* A request is passed to the handlers at most once, and requests in the order
\* sent, also those that come in after a 400 (HttpContext::reset).
HandledOnce ==
    \A i, j \in DOMAIN handled : i < j => handled[i].n < handled[j].n

HasBody(s) == s.method = "POST" /\ s.length > 0

\* No handler is given a request whose own body or path has a pattern of the
\* blacklist, however it was cut into pieces and whatever came before it on the
\* connection (BlacklistMiddleware::before).
NoPatternHandled ==
    \A i \in DOMAIN handled :
        LET s == asked[handled[i].n] IN
        handled[i].by \in Handlers =>
            s.path # "/s/javascript:" /\ ~(HasBody(s) /\ s.bad)

WellFormed(s) ==
    s.fault = "none" /\ (s.method = "POST" => s.length \notin {NoLength, Junk})

\* While no request is malformed, the blacklist refuses one for a pattern in its
\* own path or body or, when it has no body, in the latest body before it on the
\* connection, which the context still holds; never for what comes behind it.
BlockedForCause ==
    \A i \in DOMAIN handled :
        LET n == handled[i].n
            withBody == {m \in 1 .. n : HasBody(asked[m])}
        IN  handled[i].by = "blacklist" /\ (\A m \in 1 .. n : WellFormed(asked[m])) =>
                \/ asked[n].path = "/s/javascript:"
                \/ withBody # {} /\ asked[Max(withBody)].bad

\* Whether the answer to request n, handled here, has to close the connection,
\* or may: a request that asks for it is disobeyed only when a limiter or the
\* blacklist answers it, whose response has a flag of its own.
MustClose(n) ==
    \/ ~WellFormed(asked[n])
    \/ \E i \in DOMAIN handled :
          /\ handled[i].n = n
          /\ \/ handled[i].by \in {"noRoute", "cors"}
             \/ asked[n].version = "HTTP/1.0" /\ asked[n].conn # "Keep-Alive"
             \/ asked[n].conn = "close" /\ handled[i].by \notin {"rateLimit", "blacklist"}
MayClose(n) == MustClose(n) \/ asked[n].conn = "close" \/ n \in Strays

\* A connection is shut down with the answer to a request that asks for it, is
\* malformed, finds no route or is a preflight, or after one whose body stays in
\* the buffer, and otherwise kept, whatever came before on it: no flag or header
\* of one request acts on another (HttpServer::onRequest, HttpContext::reset).
ClosesForCause ==
    ~secure => /\ (\E i \in DOMAIN out : MustClose(out[i])) => shut
               /\ shut => \E i \in DOMAIN out : MayClose(out[i])

\* A client that sends one request at a time, none with a negative length, has
\* each answered or its connection shut down, however the bytes arrive
\* (HttpServer::onMessage; a negative length makes the server wait forever).
PatientAnswered ==
    \A n \in 1 .. MaxRequests :
        patient /\ ~secure /\ Len(asked) = n /\ (\A i \in 1 .. n : asked[i].length # Negative)
            ~> Len(out) >= n \/ shut

\* "methods such as GET/HEAD/DELETE complete directly (no request body)": the
\* handlers see no body with such a request.
NoBodyWithGet ==
    \A i \in DOMAIN handled :
        asked[handled[i].n].method = "GET" => handled[i].body = <<>>
=============================================================================
