------------------------ MODULE HttpConnectionProofs ------------------------
(***************************************************************************)
(* Proofs about one connection, for any requests that the client may send  *)
(* and any number of them, cut into pieces anywhere.                       *)
(*                                                                         *)
(* The argument follows the parser through the stream: the input buffer    *)
(* and the wire together always hold the messages of the client from some  *)
(* token on (Follows), the request that the context is about is the one    *)
(* that this token belongs to, or an earlier one that has been refused     *)
(* (InHead, InBody, Got), and the context knows of it what its consumed    *)
(* tokens say.  A body that is not read ends this: from then on its first  *)
(* byte is in front of the parser (Stray), which waits or refuses it.      *)
(***************************************************************************)
EXTENDS HttpConnection, SequenceTheorems, WellFoundedInduction, TLAPS

Kinds == {"line", "badLine", "conn", "length", "badHeader", "blank", "byte"}
Lengths == Nat \cup {NoLength, Junk, Negative}
Tokens == [kind : Kinds, n : Nat, value : AllShapes]

\* Where the Content-Length of a request is, if it has one, and the sizes of its
\* head and of the whole.
LengthAt(s) == IF s.conn = "none" THEN 2 ELSE 3
HeadSize(s) ==
    LengthAt(s) + (IF s.length = NoLength THEN 0 ELSE 1) + (IF s.fault = "header" THEN 1 ELSE 0)
BodySize(s) == IF s.length > 0 THEN s.length ELSE 0
Size(s) == HeadSize(s) + BodySize(s)

\* The kind of the k-th token.
KindAt(s, k) ==
    IF k = 1 THEN (IF s.fault = "line" THEN "badLine" ELSE "line")
    ELSE IF k > HeadSize(s) THEN "byte"
    ELSE IF k = HeadSize(s) THEN "blank"
    ELSE IF k = HeadSize(s) - 1 /\ s.fault = "header" THEN "badHeader"
    ELSE IF k < LengthAt(s) THEN "conn"
    ELSE "length"

\* str consists of the messages of the requests ask from the k-th token of the
\* m-th on; first says where each begins, or would have begun.
Follows(str, ask, m, k) ==
    \E first \in [m .. Len(ask) + 1 -> Int] :
        /\ first[m] = 2 - k
        /\ first[Len(ask) + 1] = Len(str) + 1
        /\ \A n \in m .. Len(ask) : first[n + 1] = first[n] + Size(ask[n])
        /\ \A n \in m .. Len(ask) : \A j \in 1 .. Size(ask[n]) :
              first[n] + j - 1 >= 1 =>
                  /\ first[n] + j - 1 <= Len(str)
                  /\ str[first[n] + j - 1] = Message(n, ask[n])[j]

\* What request_ may hold.
Methods == {"kInvalid", "GET", "POST", "OPTIONS"}
Versions == {"Unknown", "HTTP/1.0", "HTTP/1.1"}
Conns == {"none", "close", "Keep-Alive"}
Requests == [n : Nat, method : Methods, path : Paths \cup {"none"}, version : Versions,
             conn : Conns, length : Lengths, contentLength : Nat, content : Seq(Nat)]

\* Who makes a response.
Makers == Handlers \cup {"noRoute", "cors", "rateLimit", "blacklist"}

Stream(m, k) == Follows(buf \o wire, asked, m, k)

\* What the context knows of its request.
Known ==
    /\ request.n \in 1 .. Len(asked)
    /\ request.method = asked[request.n].method
    /\ request.path = asked[request.n].path
    /\ request.version = asked[request.n].version

\* The request is a POST without Content-Length: it has been answered with 400,
\* but the parser goes on for it with the head of a later one.
Lengthless ==
    asked[request.n].method = "POST" /\ asked[request.n].length = NoLength /\ shut

\* The requests before the present one have been passed on, at most.
EarlierHandled == \A i \in DOMAIN handled : handled[i].n < request.n

\* The parser comes to the k-th token of the m-th message, before any line of
\* a request, in a head, before a body, or with a request that is complete.
InLine(m, k) ==
    /\ pc # "got" /\ state = "line" /\ k = 1
    /\ request = Fresh(request.contentLength, request.content)
    /\ \A i \in DOMAIN handled : handled[i].n < m

InHead(m, k) ==
    /\ pc # "got" /\ state = "headers"
    /\ Known /\ EarlierHandled /\ request.n <= m
    /\ m <= Len(asked) => k <= HeadSize(asked[m])
    /\ m = Len(asked) + 1 => k = 1
    /\ request.n = m =>
          /\ k > 1
          /\ request.conn = IF k > 2 THEN asked[m].conn ELSE "none"
    /\ request.n < m => Lengthless
    /\ request.length =
          IF m <= Len(asked) /\ k > LengthAt(asked[m]) THEN asked[m].length ELSE NoLength
    /\ ~shut => /\ asked[m].fault # "line"
                /\ k = HeadSize(asked[m]) => asked[m].fault = "none"

InBody(m, k) ==
    /\ pc # "got" /\ state = "body"
    /\ Known /\ EarlierHandled /\ request.n <= m
    /\ m <= Len(asked) /\ k = HeadSize(asked[m]) + 1
    /\ request.method = "POST"
    /\ request.length = asked[m].length
    /\ \/ request.length = Negative
       \/ request.length > 0 /\ request.contentLength = request.length
    /\ request.n = m => request.conn = asked[m].conn
    /\ request.n < m => Lengthless
    /\ ~shut => asked[m].fault = "none"

Got(m, k) ==
    /\ pc = "got" /\ state \in {"headers", "body"} /\ k = 1
    /\ Known /\ EarlierHandled /\ request.n < m
    /\ HasBody(asked[request.n]) =>
          request.content = [j \in 1 .. asked[request.n].length |-> request.n]
    /\ request.n + 1 = m => request.conn = asked[request.n].conn
    /\ request.n + 1 < m => Lengthless
    /\ ~shut => WellFormed(asked[request.n])

\* The parser comes to the body of the request before, which has not been read.
Stray(m, k) ==
    /\ k = 1 /\ m - 1 \in Strays /\ (pc = "got" \/ state = "line")
    /\ buf \o wire # <<>>
    /\ (buf \o wire)[1].kind = "byte" /\ (buf \o wire)[1].n = m - 1

\* The body that the context holds is of one of the first e requests, and when
\* these are well-formed that of the latest that has one.
LatestBody(e) ==
    /\ \A i \in DOMAIN request.content : request.content[i] \in 1 .. e
    /\ (\A j \in 1 .. e : WellFormed(asked[j])) =>
          \A i \in DOMAIN request.content :
              /\ HasBody(asked[request.content[i]])
              /\ \A j \in 1 .. e : HasBody(asked[j]) => j <= request.content[i]

Parsing(m, k) ==
    /\ Stream(m, k) \/ Stray(m, k)
    /\ InLine(m, k) \/ InHead(m, k) \/ InBody(m, k) \/ Got(m, k)
    /\ LatestBody(m - 1)
    /\ ~shut => Len(out) = IF pc = "got" THEN m - 2 ELSE m - 1

\* What has been answered, and for what the connection has been closed.
Answered ==
    /\ AnswersInOrder
    /\ ~shut => /\ \A i \in DOMAIN out : out[i] = i
                /\ \A n \in 1 .. Len(out) : ~MustClose(n)
    /\ shut => \E n \in Nat : MayClose(n) /\ \E i \in DOMAIN out : out[i] = n

\* What has been handled.
History == OwnBody /\ HandledOnce /\ NoPatternHandled /\ BlockedForCause

Typed ==
    /\ TypeOK
    /\ request \in Requests
    /\ out \in Seq(Nat)
    /\ handled \in Seq([n : Nat, body : Seq(Nat), by : Makers])

Plain ==
    /\ buf \in Seq(Tokens) /\ wire \in Seq(Tokens)
    /\ \E m \in 1 .. Len(asked) + 1 : \E k \in Nat \ {0} : Parsing(m, k)
    /\ Answered /\ History

\* On a server with TLS nothing gets beyond the handshake.
Silent ==
    /\ out = <<>> /\ handled = <<>> /\ pc = "wait"
    /\ shut <=> handshake = "error"

Inv == Typed /\ (secure => Silent) /\ (~secure => Plain)

-----------------------------------------------------------------------------
(* The messages of a client.                                               *)

LEMMA Sizes ==
    ASSUME NEW s \in AllShapes
    PROVE  /\ LengthAt(s) \in {2, 3} /\ HeadSize(s) \in 2 .. 5
           /\ BodySize(s) \in Nat /\ Size(s) \in Nat
           /\ HeadSize(s) >= LengthAt(s) /\ Size(s) >= HeadSize(s)
<1>1. s.length \in Nat \cup {-1, -2, -3}
  BY DEF AllShapes, NoLength, Junk, Negative
<1>2. BodySize(s) \in Nat
  BY <1>1 DEF BodySize
<1>3. LengthAt(s) \in {2, 3}
  BY DEF LengthAt
<1>4. HeadSize(s) \in {LengthAt(s), LengthAt(s) + 1, LengthAt(s) + 2}
  <2>1. CASE s.length = NoLength
    BY <1>3, <2>1 DEF HeadSize
  <2>2. CASE s.length # NoLength
    BY <1>3, <2>2 DEF HeadSize
  <2>3. QED BY <2>1, <2>2
<1>5. QED BY <1>2, <1>3, <1>4 DEF Size

\* A sequence and one more piece.
LEMMA Joined ==
    ASSUME NEW S, NEW s \in Seq(S), NEW t \in Seq(S)
    PROVE  /\ s \o t \in Seq(S)
           /\ Len(s) \in Nat /\ Len(t) \in Nat
           /\ Len(s \o t) = Len(s) + Len(t)
           /\ \A i \in 1 .. Len(s) : (s \o t)[i] = s[i]
           /\ \A i \in 1 .. Len(t) : (s \o t)[Len(s) + i] = t[i]
<1>1. Len(s) \in Nat /\ Len(t) \in Nat
  OBVIOUS
<1>2. QED BY <1>1, ConcatProperties

\* What a message consists of.
LEMMA MessageTokens ==
    ASSUME NEW n \in Nat, NEW s \in AllShapes
    PROVE  /\ Message(n, s) \in Seq(Tokens)
           /\ Len(Message(n, s)) = Size(s)
           /\ \A k \in 1 .. Size(s) : Message(n, s)[k] = Token(KindAt(s, k), n, s)
<1> DEFINE T(kind) == Token(kind, n, s)
           Line == <<Token(IF s.fault = "line" THEN "badLine" ELSE "line", n, s)>>
           Conn == IF s.conn = "none" THEN <<>> ELSE <<Token("conn", n, s)>>
           Length == IF s.length = NoLength THEN <<>> ELSE <<Token("length", n, s)>>
           Bad == IF s.fault = "header" THEN <<Token("badHeader", n, s)>> ELSE <<>>
           Blank == <<Token("blank", n, s)>>
           Bytes == [i \in 1 .. (IF s.length > 0 THEN s.length ELSE 0) |-> Token("byte", n, s)]
           L1 == Line \o Conn
           L2 == L1 \o Length
           L3 == L2 \o Bad
           L4 == L3 \o Blank
           M == Message(n, s)
<1>1. \A kind \in Kinds : T(kind) \in Tokens
  BY DEF Token, Tokens
<1>2. /\ Line \in Seq(Tokens) /\ Len(Line) = 1
      /\ Line[1] = T(IF s.fault = "line" THEN "badLine" ELSE "line")
  <2>1. T(IF s.fault = "line" THEN "badLine" ELSE "line") \in Tokens
    BY <1>1 DEF Kinds
  <2>2. QED BY <2>1
<1>3. /\ Conn \in Seq(Tokens) /\ Len(Conn) = (IF s.conn = "none" THEN 0 ELSE 1)
      /\ s.conn # "none" => Conn[1] = T("conn")
  BY <1>1 DEF Kinds
<1>4. /\ Length \in Seq(Tokens) /\ Len(Length) = (IF s.length = NoLength THEN 0 ELSE 1)
      /\ s.length # NoLength => Length[1] = T("length")
  BY <1>1 DEF Kinds
<1>5. /\ Bad \in Seq(Tokens) /\ Len(Bad) = (IF s.fault = "header" THEN 1 ELSE 0)
      /\ s.fault = "header" => Bad[1] = T("badHeader")
  BY <1>1 DEF Kinds
<1>6. /\ Blank \in Seq(Tokens) /\ Len(Blank) = 1 /\ Blank[1] = T("blank")
  BY <1>1 DEF Kinds
<1>7. /\ Bytes \in Seq(Tokens) /\ Len(Bytes) = BodySize(s)
      /\ \A i \in 1 .. BodySize(s) : Bytes[i] = T("byte")
  <2>1. BodySize(s) \in Nat /\ BodySize(s) = IF s.length > 0 THEN s.length ELSE 0
    BY Sizes DEF BodySize
  <2>2. T("byte") \in Tokens
    BY <1>1 DEF Kinds
  <2>3. Bytes = [i \in 1 .. BodySize(s) |-> T("byte")]
    BY <2>1
  <2>4. [i \in 1 .. BodySize(s) |-> T("byte")] \in [1 .. BodySize(s) -> Tokens]
    BY <2>2
  <2>5. Bytes \in Seq(Tokens)
    BY <2>1, <2>3, <2>4, SeqDef
  <2>6. DOMAIN Bytes = 1 .. Len(Bytes) /\ Len(Bytes) \in Nat
    BY <2>5, LenProperties
  <2>7. Len(Bytes) = BodySize(s)
    BY <2>1, <2>3, <2>6
  <2>8. QED BY <2>3, <2>5, <2>7
<1>8. M = L4 \o Bytes
  BY DEF Message
<1> HIDE DEF Line, Conn, Length, Bad, Blank, Bytes, M
<1>9. /\ L1 \in Seq(Tokens) /\ Len(L1) = Len(Line) + Len(Conn)
      /\ \A i \in 1 .. Len(Line) : L1[i] = Line[i]
      /\ \A i \in 1 .. Len(Conn) : L1[Len(Line) + i] = Conn[i]
  <2>1. Line \in Seq(Tokens) /\ Conn \in Seq(Tokens)
    BY <1>2, <1>3
  <2>2. QED BY <2>1, Joined
<1> HIDE DEF L1
<1>10. /\ L2 \in Seq(Tokens) /\ Len(L2) = Len(L1) + Len(Length)
       /\ \A i \in 1 .. Len(L1) : L2[i] = L1[i]
       /\ \A i \in 1 .. Len(Length) : L2[Len(L1) + i] = Length[i]
  BY <1>4, <1>9, Joined
<1> HIDE DEF L2
<1>11. /\ L3 \in Seq(Tokens) /\ Len(L3) = Len(L2) + Len(Bad)
       /\ \A i \in 1 .. Len(L2) : L3[i] = L2[i]
       /\ \A i \in 1 .. Len(Bad) : L3[Len(L2) + i] = Bad[i]
  BY <1>5, <1>10, Joined
<1> HIDE DEF L3
<1>12. /\ L4 \in Seq(Tokens) /\ Len(L4) = Len(L3) + Len(Blank)
       /\ \A i \in 1 .. Len(L3) : L4[i] = L3[i]
       /\ \A i \in 1 .. Len(Blank) : L4[Len(L3) + i] = Blank[i]
  BY <1>6, <1>11, Joined
<1> HIDE DEF L4
<1>13. /\ M \in Seq(Tokens) /\ Len(M) = Len(L4) + Len(Bytes)
       /\ \A i \in 1 .. Len(L4) : M[i] = L4[i]
       /\ \A i \in 1 .. Len(Bytes) : M[Len(L4) + i] = Bytes[i]
  <2>1. Bytes \in Seq(Tokens) /\ L4 \in Seq(Tokens)
    BY <1>7, <1>12
  <2>2. QED BY <1>8, <2>1, Joined
<1>14. /\ Len(L1) = LengthAt(s) - 1
       /\ Len(L2) = LengthAt(s) - 1 + (IF s.length = NoLength THEN 0 ELSE 1)
       /\ Len(L3) = HeadSize(s) - 1
       /\ Len(L4) = HeadSize(s)
       /\ Len(M) = Size(s)
  <2>1. Len(L1) = LengthAt(s) - 1
    BY <1>2, <1>3, <1>9 DEF LengthAt
  <2>2. Len(L2) = LengthAt(s) - 1 + (IF s.length = NoLength THEN 0 ELSE 1)
    BY <1>4, <1>10, <2>1, Sizes
  <2>3. Len(L3) = HeadSize(s) - 1
    BY <1>5, <1>11, <2>2, Sizes DEF HeadSize
  <2>4. Len(L4) = HeadSize(s)
    BY <1>6, <1>12, <2>3, Sizes
  <2>5. Len(M) = Size(s)
    BY <1>7, <1>13, <2>4, Sizes DEF Size
  <2>6. QED BY <2>1, <2>2, <2>3, <2>4, <2>5
<1>15. ASSUME NEW k \in 1 .. Size(s) PROVE M[k] = T(KindAt(s, k))
  <2> DEFINE H == HeadSize(s)
             A == LengthAt(s)
  <2>1. H \in 2 .. 5 /\ A \in {2, 3} /\ Size(s) = H + BodySize(s) /\ BodySize(s) \in Nat
    BY Sizes DEF Size
  <2> HIDE DEF H, A
  <2>2. k <= H => k \in 1 .. Len(L4) /\ M[k] = L4[k]
    BY <1>13, <1>14, <2>1 DEF H
  <2>3. k < H => k \in 1 .. Len(L3) /\ M[k] = L3[k]
    <3>1. k < H => k \in 1 .. Len(L3) /\ k <= H
      BY <1>14, <2>1 DEF H
    <3>2. QED BY <1>12, <2>2, <3>1
  <2>4. k <= Len(L2) => k < H /\ k \in 1 .. Len(L2) /\ M[k] = L2[k]
    BY <1>11, <1>14, <2>1, <2>3 DEF H, HeadSize
  <2>5. k < A => k \in 1 .. Len(L1) /\ M[k] = L1[k]
    <3>1. k < A => k \in 1 .. Len(L1) /\ k <= Len(L2)
      BY <1>14, <2>1 DEF A
    <3>2. QED BY <1>10, <2>4, <3>1
  <2>6. CASE k = 1
    <3>1. M[k] = Line[1]
      BY <1>2, <1>9, <2>1, <2>5, <2>6
    <3>2. QED BY <1>2, <2>6, <3>1 DEF KindAt
  <2>7. CASE k > H
    <3>1. k - H \in 1 .. BodySize(s) /\ k = H + (k - H)
      BY <2>1, <2>7
    <3>2. M[k] = Bytes[k - H]
      BY <1>7, <1>13, <1>14, <3>1 DEF H
    <3>3. KindAt(s, k) = "byte"
      BY <2>1, <2>7 DEF KindAt, H
    <3>4. QED BY <1>7, <3>1, <3>2, <3>3
  <2>8. CASE k = H
    <3>1. M[k] = Blank[1]
      BY <1>6, <1>12, <1>14, <2>1, <2>2, <2>8 DEF H
    <3>2. KindAt(s, k) = "blank"
      BY <2>1, <2>8 DEF KindAt, H
    <3>3. QED BY <1>6, <3>1, <3>2
  <2>9. CASE k > 1 /\ k = H - 1 /\ s.fault = "header"
    <3>1. Len(L2) = H - 2 /\ Len(Bad) = 1
      BY <1>5, <1>11, <1>14, <2>1, <2>9 DEF H
    <3>2. M[k] = Bad[1]
      BY <1>11, <2>1, <2>3, <2>9, <3>1
    <3>3. KindAt(s, k) = "badHeader"
      BY <2>1, <2>9 DEF KindAt, H
    <3>4. QED BY <1>5, <2>9, <3>2, <3>3
  <2>10. CASE 1 < k /\ k < H /\ ~(k = H - 1 /\ s.fault = "header")
    <3>1. CASE k < A
      <4>1. A = 3 /\ k = 2 /\ s.conn # "none"
        BY <2>1, <2>10, <3>1 DEF LengthAt, A
      <4>2. M[k] = Conn[1]
        BY <1>2, <1>3, <1>9, <2>5, <4>1
      <4>3. KindAt(s, k) = "conn"
        BY <2>1, <2>10, <3>1 DEF KindAt, A, H
      <4>4. QED BY <1>3, <4>1, <4>2, <4>3
    <3>2. CASE ~(k < A)
      <4>1. k = A /\ s.length # NoLength
        BY <2>1, <2>10, <3>2 DEF HeadSize, A, H
      <4>2. Len(L1) = A - 1 /\ Len(Length) = 1 /\ k <= Len(L2)
        BY <1>4, <1>14, <2>1, <4>1 DEF A
      <4>3. M[k] = Length[1]
        BY <1>10, <2>1, <2>4, <4>1, <4>2
      <4>4. KindAt(s, k) = "length"
        BY <2>1, <2>10, <3>2 DEF KindAt, A, H
      <4>5. QED BY <1>4, <4>1, <4>3, <4>4
    <3>3. QED BY <3>1, <3>2
  <2>11. QED BY <2>1, <2>6, <2>7, <2>8, <2>9, <2>10
<1>16. QED BY <1>13, <1>14, <1>15 DEF M

-----------------------------------------------------------------------------
(* The stream of messages, from some token on.                             *)

LEMMA ShapesOfAsked ==
    ASSUME NEW ask \in Seq(Shapes), NEW n \in 1 .. Len(ask)
    PROVE  /\ ask[n] \in Shapes /\ ask[n] \in AllShapes
           /\ Size(ask[n]) \in Nat /\ Size(ask[n]) >= 2
<1>1. ask[n] \in Shapes
  BY ElementOfSeq
<1>2. ask[n] \in AllShapes
  BY <1>1, ConnectionAssumption
<1>3. QED BY <1>1, <1>2, Sizes

\* Behind the last message nothing comes.
LEMMA FollowsEnd ==
    ASSUME NEW ask \in Seq(Shapes), NEW str \in Seq(Tokens),
           Follows(str, ask, Len(ask) + 1, 1)
    PROVE  str = <<>>
<1>1. PICK first \in [Len(ask) + 1 .. Len(ask) + 1 -> Int] :
        first[Len(ask) + 1] = 1 /\ first[Len(ask) + 1] = Len(str) + 1
  BY DEF Follows
<1>2. Len(str) = 0
  BY <1>1
<1>3. QED BY <1>2

\* The token that comes next, and then the rest.
LEMMA FollowsNext ==
    ASSUME NEW ask \in Seq(Shapes), NEW str \in Seq(Tokens), NEW m \in 1 .. Len(ask),
           NEW k \in 1 .. Size(ask[m]), Follows(str, ask, m, k)
    PROVE  str # <<>> /\ str[1] = Token(KindAt(ask[m], k), m, ask[m])
<1>1. PICK first \in [m .. Len(ask) + 1 -> Int] :
        /\ first[m] = 2 - k
        /\ \A n \in m .. Len(ask) : \A j \in 1 .. Size(ask[n]) :
              first[n] + j - 1 >= 1 =>
                  /\ first[n] + j - 1 <= Len(str)
                  /\ str[first[n] + j - 1] = Message(n, ask[n])[j]
  BY DEF Follows
<1>2. k \in Int /\ m \in m .. Len(ask)
  BY ShapesOfAsked
<1>3. first[m] + k - 1 = 1
  BY <1>1, <1>2
<1>4. 1 <= Len(str) /\ str[1] = Message(m, ask[m])[k]
  BY <1>1, <1>2, <1>3
<1>5. QED BY <1>4, ShapesOfAsked, MessageTokens

\* j tokens are consumed.
LEMMA FollowsOn ==
    ASSUME NEW ask \in Seq(Shapes), NEW str \in Seq(Tokens), NEW m \in 1 .. Len(ask),
           NEW k \in Nat \ {0}, Follows(str, ask, m, k),
           NEW rest \in Seq(Tokens), NEW i \in Nat, Len(str) = i + Len(rest),
           \A j \in 1 .. Len(rest) : rest[j] = str[i + j]
    PROVE  Follows(rest, ask, m, k + i)
<1>1. PICK first \in [m .. Len(ask) + 1 -> Int] :
        /\ first[m] = 2 - k
        /\ first[Len(ask) + 1] = Len(str) + 1
        /\ \A n \in m .. Len(ask) : first[n + 1] = first[n] + Size(ask[n])
        /\ \A n \in m .. Len(ask) : \A j \in 1 .. Size(ask[n]) :
              first[n] + j - 1 >= 1 =>
                  /\ first[n] + j - 1 <= Len(str)
                  /\ str[first[n] + j - 1] = Message(n, ask[n])[j]
  BY DEF Follows
<1> DEFINE now == [n \in m .. Len(ask) + 1 |-> first[n] - i]
<1>2. now \in [m .. Len(ask) + 1 -> Int]
  OBVIOUS
<1>3. now[m] = 2 - (k + i)
  BY <1>1
<1>4. now[Len(ask) + 1] = Len(rest) + 1
  BY <1>1
<1>5. ASSUME NEW n \in m .. Len(ask) PROVE now[n + 1] = now[n] + Size(ask[n])
  <2>1. Size(ask[n]) \in Nat
    BY ShapesOfAsked
  <2>2. n \in m .. Len(ask) + 1 /\ n + 1 \in m .. Len(ask) + 1
    OBVIOUS
  <2>3. /\ now[n + 1] = first[n + 1] - i /\ now[n] = first[n] - i
        /\ first[n] \in Int /\ first[n + 1] \in Int
    BY <2>2
  <2>4. first[n + 1] = first[n] + Size(ask[n])
    BY <1>1
  <2> HIDE DEF now
  <2>5. QED BY <2>1, <2>3, <2>4
<1>6. ASSUME NEW n \in m .. Len(ask), NEW j \in 1 .. Size(ask[n]), now[n] + j - 1 >= 1
      PROVE  /\ now[n] + j - 1 <= Len(rest)
             /\ rest[now[n] + j - 1] = Message(n, ask[n])[j]
  <2>1. Size(ask[n]) \in Nat
    BY ShapesOfAsked
  <2> DEFINE p == now[n] + j - 1
             f == first[n]
  <2>2. now[n] = f - i /\ f \in Int /\ j \in Nat
    <3>1. n \in m .. Len(ask) + 1
      OBVIOUS
    <3>2. now[n] = first[n] - i /\ first[n] \in Int
      BY <3>1
    <3>3. j \in Nat
      BY <2>1
    <3>4. QED BY <3>2, <3>3
  <2> HIDE DEF now, f
  <2>3. f + j - 1 <= Len(str) /\ str[f + j - 1] = Message(n, ask[n])[j]
    <3>1. f + j - 1 >= 1
      BY <1>6, <2>2
    <3>2. QED BY <1>1, <3>1 DEF f
  <2>4. p \in 1 .. Len(rest) /\ i + p = f + j - 1
    <3>1. p = f - i + j - 1 /\ p >= 1
      BY <1>6, <2>2
    <3> HIDE DEF p
    <3>2. Len(rest) \in Nat
      OBVIOUS
    <3>3. p \in Int /\ i + p = f + j - 1
      BY <2>2, <3>1
    <3>4. p <= Len(rest)
      BY <2>2, <2>3, <3>2, <3>3
    <3>5. QED BY <3>1, <3>2, <3>3, <3>4
  <2>5. rest[p] = str[i + p]
    BY <2>4
  <2>6. QED BY <2>3, <2>4, <2>5
<1>7. QED
  <2> HIDE DEF now
  <2>1. QED BY <1>2, <1>3, <1>4, <1>5, <1>6 DEF Follows

LEMMA FollowsTail ==
    ASSUME NEW ask \in Seq(Shapes), NEW str \in Seq(Tokens), NEW m \in 1 .. Len(ask),
           NEW k \in Nat \ {0}, Follows(str, ask, m, k), str # <<>>
    PROVE  Follows(Tail(str), ask, m, k + 1)
<1>1. /\ Tail(str) \in Seq(Tokens) /\ Len(Tail(str)) = Len(str) - 1
      /\ \A j \in 1 .. Len(Tail(str)) : Tail(str)[j] = str[j + 1]
  BY HeadTailProperties
<1>2. Len(str) = 1 + Len(Tail(str))
  BY <1>1
<1>3. \A j \in 1 .. Len(Tail(str)) : Tail(str)[j] = str[1 + j]
  BY <1>1
<1>4. QED BY <1>1, <1>2, <1>3, FollowsOn

\* Behind a message the next one begins.
LEMMA FollowsMessage ==
    ASSUME NEW ask \in Seq(Shapes), NEW str \in Seq(Tokens), NEW m \in 1 .. Len(ask),
           Follows(str, ask, m, Size(ask[m]) + 1)
    PROVE  Follows(str, ask, m + 1, 1)
<1>1. PICK first \in [m .. Len(ask) + 1 -> Int] :
        /\ first[m] = 2 - (Size(ask[m]) + 1)
        /\ first[Len(ask) + 1] = Len(str) + 1
        /\ \A n \in m .. Len(ask) : first[n + 1] = first[n] + Size(ask[n])
        /\ \A n \in m .. Len(ask) : \A j \in 1 .. Size(ask[n]) :
              first[n] + j - 1 >= 1 =>
                  /\ first[n] + j - 1 <= Len(str)
                  /\ str[first[n] + j - 1] = Message(n, ask[n])[j]
  BY DEF Follows
<1> DEFINE now == [n \in m + 1 .. Len(ask) + 1 |-> first[n]]
<1>2. now \in [m + 1 .. Len(ask) + 1 -> Int]
  OBVIOUS
<1>3. now[m + 1] = 2 - 1
  BY <1>1, ShapesOfAsked
<1>4. now[Len(ask) + 1] = Len(str) + 1
  BY <1>1
<1>5. \A n \in m + 1 .. Len(ask) :
        n \in m .. Len(ask) /\ now[n] = first[n] /\ now[n + 1] = first[n + 1]
  OBVIOUS
<1>6. \A n \in m + 1 .. Len(ask) : now[n + 1] = now[n] + Size(ask[n])
  BY <1>1, <1>5
<1>7. \A n \in m + 1 .. Len(ask) : \A j \in 1 .. Size(ask[n]) :
        now[n] + j - 1 >= 1 =>
            /\ now[n] + j - 1 <= Len(str)
            /\ str[now[n] + j - 1] = Message(n, ask[n])[j]
  <2> HIDE DEF now
  <2>1. QED BY <1>1, <1>5
<1>8. QED
  <2> HIDE DEF now
  <2>1. QED BY <1>2, <1>3, <1>4, <1>6, <1>7 DEF Follows

\* The body of a message: its tokens come next, all together.
LEMMA FollowsBody ==
    ASSUME NEW ask \in Seq(Shapes), NEW str \in Seq(Tokens), NEW m \in 1 .. Len(ask),
           Follows(str, ask, m, HeadSize(ask[m]) + 1), NEW i \in 1 .. BodySize(ask[m])
    PROVE  i <= Len(str) /\ str[i].n = m
<1> DEFINE H == HeadSize(ask[m])
<1>1. H \in Nat /\ BodySize(ask[m]) \in Nat /\ Size(ask[m]) = H + BodySize(ask[m])
  BY ShapesOfAsked, Sizes DEF Size
<1>2. PICK first \in [m .. Len(ask) + 1 -> Int] :
        /\ first[m] = 2 - (H + 1)
        /\ \A n \in m .. Len(ask) : \A j \in 1 .. Size(ask[n]) :
              first[n] + j - 1 >= 1 =>
                  /\ first[n] + j - 1 <= Len(str)
                  /\ str[first[n] + j - 1] = Message(n, ask[n])[j]
  BY DEF Follows
<1> HIDE DEF H
<1>3. H + i \in 1 .. Size(ask[m]) /\ first[m] + (H + i) - 1 = i /\ i >= 1
  <2>1. m \in m .. Len(ask) + 1 /\ first[m] \in Int /\ i \in 1 .. BodySize(ask[m])
    OBVIOUS
  <2>2. QED BY <1>1, <1>2, <2>1
<1>4. i <= Len(str) /\ str[i] = Message(m, ask[m])[H + i]
  BY <1>2, <1>3
<1>5. Message(m, ask[m])[H + i] = Token(KindAt(ask[m], H + i), m, ask[m])
  BY <1>3, ShapesOfAsked, MessageTokens
<1>6. QED BY <1>4, <1>5 DEF Token

\* The client sends one more message.
LEMMA FollowsAsk ==
    ASSUME NEW ask \in Seq(Shapes), NEW str \in Seq(Tokens), NEW s \in Shapes,
           NEW m \in 1 .. Len(ask) + 1, NEW k \in Nat \ {0}, Follows(str, ask, m, k)
    PROVE  Follows(str \o Message(Len(ask) + 1, s), Append(ask, s), m, k)
<1> DEFINE N == Len(ask)
           M == Message(N + 1, s)
           asks == Append(ask, s)
           all == str \o M
<1>1. PICK first \in [m .. N + 1 -> Int] :
        /\ first[m] = 2 - k
        /\ first[N + 1] = Len(str) + 1
        /\ \A n \in m .. N : first[n + 1] = first[n] + Size(ask[n])
        /\ \A n \in m .. N : \A j \in 1 .. Size(ask[n]) :
              first[n] + j - 1 >= 1 =>
                  /\ first[n] + j - 1 <= Len(str)
                  /\ str[first[n] + j - 1] = Message(n, ask[n])[j]
  BY DEF Follows
<1>2. /\ N \in Nat /\ Len(asks) = N + 1 /\ asks[N + 1] = s
      /\ \A n \in 1 .. N : asks[n] = ask[n]
  OBVIOUS
<1>3. s \in AllShapes /\ Size(s) \in Nat
  BY ConnectionAssumption, Sizes
<1>4. /\ M \in Seq(Tokens) /\ Len(M) = Size(s)
  BY <1>2, <1>3, MessageTokens
<1>5. /\ all \in Seq(Tokens) /\ Len(str) \in Nat
      /\ Len(all) = Len(str) + Size(s)
      /\ \A i \in 1 .. Len(str) : all[i] = str[i]
      /\ \A i \in 1 .. Size(s) : all[Len(str) + i] = M[i]
  <2> HIDE DEF M
  <2>1. /\ all \in Seq(Tokens) /\ Len(str) \in Nat
        /\ Len(all) = Len(str) + Len(M)
        /\ \A i \in 1 .. Len(str) : all[i] = str[i]
        /\ \A i \in 1 .. Len(M) : all[Len(str) + i] = M[i]
    <3>1. str \in Seq(Tokens) /\ M \in Seq(Tokens)
      BY <1>4
    <3>2. QED BY <3>1, Joined
  <2>2. QED BY <1>4, <2>1
<1> DEFINE now == [n \in m .. Len(asks) + 1 |->
                     IF n = N + 2 THEN first[N + 1] + Size(s) ELSE first[n]]
<1> HIDE DEF M, asks, all
<1>6. now \in [m .. Len(asks) + 1 -> Int]
  BY <1>2, <1>3
<1>7. now[m] = 2 - k
  BY <1>1, <1>2
<1>8. now[Len(asks) + 1] = Len(all) + 1
  BY <1>1, <1>2, <1>3, <1>5
<1>9. ASSUME NEW n \in m .. Len(asks) PROVE now[n + 1] = now[n] + Size(asks[n])
  <2>1. CASE n = N + 1
    BY <1>2, <2>1
  <2>2. CASE n # N + 1
    <3>1. n \in m .. N /\ now[n] = first[n] /\ now[n + 1] = first[n + 1] /\ asks[n] = ask[n]
      BY <1>2, <2>2
    <3>2. QED BY <1>1, <3>1
  <2>3. QED BY <2>1, <2>2
<1>10. ASSUME NEW n \in m .. Len(asks), NEW j \in 1 .. Size(asks[n]), now[n] + j - 1 >= 1
       PROVE  /\ now[n] + j - 1 <= Len(all)
              /\ all[now[n] + j - 1] = Message(n, asks[n])[j]
  <2>1. CASE n = N + 1
    <3>1. now[n] + j - 1 = Len(str) + j /\ j \in 1 .. Size(s)
      <4>1. asks[n] = s /\ Size(s) \in Nat
        BY <1>2, <1>3, <2>1
      <4>2. j \in 1 .. Size(s) /\ j \in Nat
        BY <4>1
      <4>3. N + 1 \in m .. Len(asks) + 1 /\ N + 1 # N + 2
        BY <1>2
      <4>4. now[N + 1] = first[N + 1]
        BY <4>3
      <4> HIDE DEF now
      <4>5. now[n] = Len(str) + 1
        BY <1>1, <2>1, <4>4
      <4>6. QED BY <1>5, <4>2, <4>5
    <3>2. Message(n, asks[n]) = M
      BY <1>2, <2>1 DEF M
    <3>3. Len(str) + j <= Len(all) /\ all[Len(str) + j] = M[j]
      BY <1>3, <1>5, <3>1
    <3> HIDE DEF now
    <3>4. QED BY <3>1, <3>2, <3>3
  <2>2. CASE n # N + 1
    <3>1. n \in m .. N /\ now[n] = first[n] /\ asks[n] = ask[n] /\ first[n] \in Int
      BY <1>2, <2>2
    <3>2. Size(ask[n]) \in Nat /\ j \in 1 .. Size(ask[n])
      BY <3>1, ShapesOfAsked
    <3>3. first[n] + j - 1 >= 1
      BY <1>10, <3>1
    <3>4. /\ first[n] + j - 1 <= Len(str)
          /\ str[first[n] + j - 1] = Message(n, ask[n])[j]
      BY <1>1, <3>1, <3>2, <3>3
    <3> DEFINE p == first[n] + j - 1
    <3>5. p \in 1 .. Len(str) /\ now[n] + j - 1 = p
      BY <1>5, <3>1, <3>2, <3>3, <3>4
    <3>6. p <= Len(all) /\ all[p] = str[p]
      BY <1>3, <1>5, <3>5
    <3>7. QED BY <3>1, <3>4, <3>5, <3>6
  <2>3. QED BY <2>1, <2>2
<1>11. Follows(all, asks, m, k)
  <2> HIDE DEF now
  <2>1. QED BY <1>6, <1>7, <1>8, <1>9, <1>10 DEF Follows
<1>12. QED BY <1>11 DEF M, asks, all

-----------------------------------------------------------------------------
(* What the middlewares, the router and the handlers make of a request.    *)

LEMMA HandlerNames ==
    Handlers = {"ShortenHandler", "MetricsHandler", "HealthHandler", "RedirectHandler"}
<1>1. ToSet(RegexRoutes) =
        {[method |-> "GET", path |-> "/s/id", handler |-> "RedirectHandler"]}
  BY DEF ToSet, RegexRoutes
<1>2. QED BY <1>1 DEF Handlers, StaticRoutes

\* processBefore finds the first middleware of the chain that ends the request.
LEMMA FirstThatStops ==
    ASSUME NEW r, NEW badBody, NEW event
    PROVE  LET place == ProcessBefore(r, badBody, event)
           IN  /\ place \in 0 .. 4
               /\ place > 0 => Stops(Chain[place], r, badBody, event)
               /\ place = 0 => \A i \in 1 .. 4 : ~Stops(Chain[i], r, badBody, event)
<1> DEFINE I == {i \in 1 .. Len(Chain) : Stops(Chain[i], r, badBody, event)}
<1>1. ProcessBefore(r, badBody, event) = IF I # {} THEN Min(I) ELSE 0
  BY DEF ProcessBefore, SelectInSeq
<1>2. Len(Chain) = 4
  BY DEF Chain
<1>3. CASE I = {}
  <2>1. \A i \in 1 .. 4 : ~Stops(Chain[i], r, badBody, event)
    BY <1>2, <1>3
  <2> HIDE DEF I
  <2>2. QED BY <1>1, <1>3, <2>1
<1>4. CASE I # {}
  <2>1. I \subseteq 1 .. 4
    BY <1>2
  <2>2. \A i \in I : Stops(Chain[i], r, badBody, event)
    OBVIOUS
  <2> HIDE DEF I
  <2>3. \E x \in I : \A y \in I : x <= y
    <3>1. CASE 1 \in I
      BY <2>1, <3>1
    <3>2. CASE 1 \notin I /\ 2 \in I
      BY <2>1, <3>2
    <3>3. CASE 1 \notin I /\ 2 \notin I /\ 3 \in I
      BY <2>1, <3>3
    <3>4. CASE 1 \notin I /\ 2 \notin I /\ 3 \notin I
      <4>1. PICK x \in I : TRUE
        BY <1>4
      <4>2. \A y \in I : y = 4
        BY <2>1, <3>4
      <4>3. QED BY <4>1, <4>2
    <3>5. QED BY <3>1, <3>2, <3>3, <3>4
  <2>4. Min(I) \in I
    BY <2>3 DEF Min
  <2>5. ProcessBefore(r, badBody, event) = Min(I)
    BY <1>1, <1>4
  <2>6. Min(I) \in 1 .. 4 /\ Stops(Chain[Min(I)], r, badBody, event)
    BY <2>1, <2>2, <2>4
  <2>7. QED BY <2>5, <2>6
<1>5. QED BY <1>3, <1>4

LEMMA Routes ==
    ASSUME NEW r
    PROVE  Route(r) \in Handlers \cup {"noRoute"}
<1> DEFINE fits(x) == x.method = r.method /\ x.path = r.path
           static == {x \in StaticRoutes : fits(x)}
           place == SelectInSeq(RegexRoutes, fits)
<1>1. CASE static # {}
  <2>1. (CHOOSE x \in static : TRUE) \in StaticRoutes
    BY <1>1
  <2>2. Route(r) = (CHOOSE x \in static : TRUE).handler
    BY <1>1 DEF Route
  <2>3. QED BY <2>1, <2>2 DEF Handlers
<1>2. CASE static = {}
  <2>1. Route(r) = IF place > 0 THEN RegexRoutes[place].handler ELSE "noRoute"
    BY <1>2 DEF Route
  <2>2. place \in {0, 1}
    <3> DEFINE I == {i \in 1 .. Len(RegexRoutes) : fits(RegexRoutes[i])}
    <3>1. Len(RegexRoutes) = 1
      BY DEF RegexRoutes
    <3>2. place = IF I # {} THEN Min(I) ELSE 0
      BY DEF SelectInSeq
    <3>3. I = {} \/ I = {1}
      BY <3>1
    <3> HIDE DEF I, place
    <3>4. Min({1}) = 1
      BY DEF Min
    <3>5. QED BY <3>2, <3>3, <3>4
  <2>3. RegexRoutes[1].handler = "RedirectHandler"
    BY DEF RegexRoutes
  <2> HIDE DEF place
  <2>4. QED BY <2>1, <2>2, <2>3, HandlerNames
<1>3. QED BY <1>1, <1>2

\* Who makes the response, and with which close flag.
LEMMA Responses ==
    ASSUME NEW r, NEW badBody \in BOOLEAN, NEW event \in Events, NEW close \in BOOLEAN
    PROVE  LET response == HandleRequest(r, badBody, event, close)
           IN  /\ response.by \in Handlers \cup {"noRoute", "cors", "rateLimit", "blacklist"}
               /\ response.close \in BOOLEAN
               /\ response.by \in Handlers => ~Matches(r, badBody)
               /\ response.by = "blacklist" => Matches(r, badBody)
               /\ response.by \in {"noRoute", "cors"} => response.close
               /\ close /\ response.by \notin {"rateLimit", "blacklist"} => response.close
               /\ response.close => close \/ response.by \in {"noRoute", "cors"}
<1> DEFINE place == ProcessBefore(r, badBody, event)
           response == HandleRequest(r, badBody, event, close)
<1>1. /\ place \in 0 .. 4
      /\ place > 0 => Stops(Chain[place], r, badBody, event)
      /\ place = 0 => \A i \in 1 .. 4 : ~Stops(Chain[i], r, badBody, event)
  BY FirstThatStops
<1>2. /\ Chain[1] = "cors" /\ Chain[2] = "rateLimit"
      /\ Chain[3] = "blacklist" /\ Chain[4] = "cache"
  BY DEF Chain
<1>3. response = IF place > 0 THEN Stopped(Chain[place], event, close) ELSE Routed(r, close)
  BY DEF HandleRequest
<1> HIDE DEF place, response
<1>4. CASE place = 0
  <2>1. response.by = Route(r) /\ response.close = (Route(r) = "noRoute" \/ close)
    BY <1>3, <1>4 DEF Routed, Response
  <2>2. ~Matches(r, badBody)
    BY <1>1, <1>2, <1>4 DEF Stops
  <2>3. Route(r) \in Handlers \cup {"noRoute"}
    BY Routes
  <2>4. QED BY <2>1, <2>2, <2>3, HandlerNames DEF response
<1>5. CASE place > 0
  <2>1. place \in {1, 2, 3, 4} /\ Stops(Chain[place], r, badBody, event)
    BY <1>1, <1>5
  <2>2. place # 4
    BY <1>2, <2>1 DEF Stops
  <2>3. CASE place = 1
    <3>1. response.by = "cors" /\ response.close = TRUE
      BY <1>2, <1>3, <2>3 DEF Stopped, Preflight, Response
    <3>2. QED BY <3>1, HandlerNames DEF response
  <2>4. CASE place = 2
    <3>1. response.by = "rateLimit" /\ response.close \in {close, FALSE}
      <4>1. response = Stopped("rateLimit", event, close)
        BY <1>2, <1>3, <2>4
      <4>2. CASE event = "limiterFails"
        BY <4>1, <4>2 DEF Stopped, Response
      <4>3. CASE event # "limiterFails"
        BY <4>1, <4>3 DEF Stopped, Response
      <4>4. QED BY <4>2, <4>3
    <3>2. QED BY <3>1, HandlerNames DEF response
  <2>5. CASE place = 3
    <3>1. response.by = "blacklist" /\ response.close = FALSE
      BY <1>2, <1>3, <2>5 DEF Stopped, Response
    <3>2. Matches(r, badBody)
      BY <1>2, <2>1, <2>5 DEF Stops
    <3>3. QED BY <3>1, <3>2, HandlerNames DEF response
  <2>6. QED BY <2>1, <2>2, <2>3, <2>4, <2>5
<1>6. QED BY <1>1, <1>4, <1>5

-----------------------------------------------------------------------------
(* What a token says, and what is left when it has been consumed.          *)

LEMMA ShapeFields ==
    ASSUME NEW s \in AllShapes
    PROVE  /\ s.method \in Methods /\ s.path \in Paths /\ s.version \in Versions
           /\ s.conn \in Conns /\ s.length \in Lengths
BY DEF AllShapes, Methods, Versions, Conns, Lengths

\* What is known of a request at the token of a given kind.
LEMMA KindSays ==
    ASSUME NEW s \in AllShapes, NEW k \in 1 .. Size(s)
    PROVE  /\ KindAt(s, k) = "line" => k = 1 /\ s.fault # "line"
           /\ KindAt(s, k) = "badLine" => k = 1 /\ s.fault = "line"
           /\ KindAt(s, k) = "conn" =>
                 /\ k = 2 /\ LengthAt(s) = 3 /\ 3 <= HeadSize(s)
                 /\ HeadSize(s) = 3 => s.fault # "header"
           /\ KindAt(s, k) = "length" =>
                 /\ k = LengthAt(s) /\ s.length # NoLength /\ k < HeadSize(s)
                 /\ k + 1 = HeadSize(s) => s.fault # "header"
           /\ KindAt(s, k) = "badHeader" =>
                 /\ s.fault = "header" /\ k > 1 /\ k + 1 = HeadSize(s)
                 /\ k >= LengthAt(s) /\ (k = LengthAt(s) => s.length = NoLength)
           /\ KindAt(s, k) = "blank" =>
                 /\ k = HeadSize(s)
                 /\ k >= LengthAt(s) /\ (k = LengthAt(s) => s.length = NoLength)
<1>1. LengthAt(s) \in {2, 3} /\ HeadSize(s) \in 2 .. 5 /\ k \in Nat \ {0}
  BY Sizes
<1>2. /\ HeadSize(s) >= LengthAt(s)
      /\ s.length # NoLength => HeadSize(s) >= LengthAt(s) + 1
      /\ s.fault = "header" => HeadSize(s) >= LengthAt(s) + 1
      /\ s.length # NoLength /\ s.fault = "header" => HeadSize(s) = LengthAt(s) + 2
      /\ s.length = NoLength /\ s.fault # "header" => HeadSize(s) = LengthAt(s)
      /\ s.length # NoLength /\ s.fault # "header" => HeadSize(s) = LengthAt(s) + 1
      /\ s.length = NoLength /\ s.fault = "header" => HeadSize(s) = LengthAt(s) + 1
  BY <1>1 DEF HeadSize
<1>3. CASE k = 1
  BY <1>1, <1>3 DEF KindAt
<1>4. CASE k > HeadSize(s)
  <2>1. KindAt(s, k) = "byte"
    BY <1>1, <1>4 DEF KindAt
  <2>2. QED BY <2>1
<1>5. CASE k = HeadSize(s)
  <2>1. KindAt(s, k) = "blank"
    BY <1>1, <1>5 DEF KindAt
  <2>2. QED BY <1>1, <1>2, <1>5, <2>1
<1>6. CASE k > 1 /\ k = HeadSize(s) - 1 /\ s.fault = "header"
  <2>1. KindAt(s, k) = "badHeader"
    BY <1>1, <1>6 DEF KindAt
  <2>2. QED BY <1>1, <1>2, <1>6, <2>1
<1>7. CASE 1 < k /\ k < HeadSize(s) /\ ~(k = HeadSize(s) - 1 /\ s.fault = "header")
  <2>1. CASE k < LengthAt(s)
    <3>1. KindAt(s, k) = "conn"
      BY <1>1, <1>7, <2>1 DEF KindAt
    <3>2. k = 2 /\ LengthAt(s) = 3
      BY <1>1, <1>7, <2>1
    <3>3. QED BY <1>1, <1>2, <1>7, <3>1, <3>2
  <2>2. CASE ~(k < LengthAt(s))
    <3>1. KindAt(s, k) = "length"
      BY <1>1, <1>7, <2>2 DEF KindAt
    <3>2. k = LengthAt(s) /\ s.length # NoLength
      BY <1>1, <1>2, <1>7, <2>2
    <3>3. QED BY <1>1, <1>2, <1>7, <3>1, <3>2
  <2>3. QED BY <2>1, <2>2
<1>8. QED BY <1>1, <1>3, <1>4, <1>5, <1>6, <1>7

LEMMA AskedTyped ==
    ASSUME Typed
    PROVE  /\ asked \in Seq(Shapes) /\ Len(asked) \in Nat
           /\ \A n \in 1 .. Len(asked) : asked[n] \in Shapes /\ asked[n] \in AllShapes
<1>1. asked \in Seq(Shapes)
  BY DEF Typed, TypeOK
<1>2. QED BY <1>1, ShapesOfAsked

\* The first token of the buffer, and the stream when it has been consumed.
LEMMA NextToken ==
    ASSUME Typed, buf \in Seq(Tokens), wire \in Seq(Tokens), buf # <<>>,
           NEW m \in 1 .. Len(asked) + 1, NEW k \in Nat \ {0}, Stream(m, k),
           m = Len(asked) + 1 => k = 1,
           m <= Len(asked) => k <= Size(asked[m])
    PROVE  /\ m \in 1 .. Len(asked) /\ k \in 1 .. Size(asked[m])
           /\ buf[1].kind = KindAt(asked[m], k) /\ buf[1].n = m /\ buf[1].value = asked[m]
           /\ Tail(buf) \in Seq(Tokens)
           /\ Follows(Tail(buf) \o wire, asked, m, k + 1)
<1> DEFINE str == buf \o wire
<1>1. /\ str \in Seq(Tokens) /\ Len(buf) \in Nat \ {0} /\ Len(wire) \in Nat
      /\ Len(str) = Len(buf) + Len(wire)
      /\ \A i \in 1 .. Len(buf) : str[i] = buf[i]
      /\ \A i \in 1 .. Len(wire) : str[Len(buf) + i] = wire[i]
  <2>1. Len(buf) \in Nat \ {0}
    OBVIOUS
  <2>2. QED BY <2>1, Joined
<1>2. Follows(str, asked, m, k)
  BY DEF Stream
<1>3. /\ Tail(buf) \in Seq(Tokens) /\ Len(Tail(buf)) = Len(buf) - 1
      /\ \A i \in 1 .. Len(Tail(buf)) : Tail(buf)[i] = buf[i + 1]
  BY HeadTailProperties
<1> DEFINE rest == Tail(buf) \o wire
<1>4. /\ rest \in Seq(Tokens)
      /\ Len(rest) = Len(Tail(buf)) + Len(wire)
      /\ \A i \in 1 .. Len(Tail(buf)) : rest[i] = Tail(buf)[i]
      /\ \A i \in 1 .. Len(wire) : rest[Len(Tail(buf)) + i] = wire[i]
  <2>1. Tail(buf) \in Seq(Tokens)
    BY <1>3
  <2>2. QED BY <2>1, Joined
<1> HIDE DEF str, rest
<1>5. asked \in Seq(Shapes) /\ Len(asked) \in Nat
  BY AskedTyped
<1>6. str # <<>>
  <2>1. Len(str) # 0
    BY <1>1
  <2>2. QED BY <2>1
<1>7. m \in 1 .. Len(asked)
  <2>1. CASE m = Len(asked) + 1
    <3>1. str = <<>>
      BY <1>1, <1>2, <1>5, <2>1, FollowsEnd
    <3>2. QED BY <1>6, <3>1
  <2>2. QED BY <1>5, <2>1
<1>8. k \in 1 .. Size(asked[m])
  BY <1>5, <1>7, ShapesOfAsked
<1>9. str[1] = Token(KindAt(asked[m], k), m, asked[m])
  BY <1>1, <1>2, <1>5, <1>7, <1>8, FollowsNext
<1>10. buf[1] = Token(KindAt(asked[m], k), m, asked[m])
  BY <1>1, <1>9
<1>11. Len(str) = 1 + Len(rest)
  BY <1>1, <1>3, <1>4
<1>12. ASSUME NEW i \in 1 .. Len(rest) PROVE rest[i] = str[1 + i]
  <2>1. CASE i <= Len(Tail(buf))
    <3>1. i \in 1 .. Len(Tail(buf)) /\ 1 + i \in 1 .. Len(buf)
      BY <1>1, <1>3, <2>1
    <3>2. QED BY <1>1, <1>3, <1>4, <3>1
  <2>2. CASE i > Len(Tail(buf))
    <3> DEFINE j == i - Len(Tail(buf))
    <3>1. /\ j \in 1 .. Len(wire) /\ i = Len(Tail(buf)) + j
          /\ 1 + i = Len(buf) + j
      BY <1>1, <1>3, <1>4, <2>2
    <3> HIDE DEF j
    <3>2. rest[i] = wire[j] /\ str[1 + i] = wire[j]
      BY <1>1, <1>4, <3>1
    <3>3. QED BY <3>2
  <2>3. QED BY <1>1, <1>3, <2>1, <2>2
<1>13. Follows(rest, asked, m, k + 1)
  <2>1. 1 \in Nat
    OBVIOUS
  <2>2. QED BY <1>1, <1>2, <1>4, <1>5, <1>7, <1>11, <1>12, <2>1, FollowsOn
<1>14. QED BY <1>3, <1>7, <1>8, <1>10, <1>13 DEF Token, rest

-----------------------------------------------------------------------------
(* The steps of the parser.                                                *)

\* A stray body stays where it is.
LEMMA StrayKept ==
    ASSUME NEW m, NEW k, Stray(m, k), asked' = asked, buf' \o wire' = buf \o wire,
           pc' = "got" \/ state' = "line"
    PROVE  Stray(m, k)'
BY DEF Stray, Strays

\* A step that answers nothing.
LEMMA AnswersNothing ==
    ASSUME Plain, UNCHANGED <<asked, shut, out, handled>>
    PROVE  (Answered /\ History)'
<1>1. Answered /\ History
  BY DEF Plain
<1>2. Answered'
  BY <1>1 DEF Answered, AnswersInOrder, MustClose, MayClose, Strays
<1>3. OwnBody' /\ HandledOnce' /\ NoPatternHandled'
  BY <1>1 DEF History, OwnBody, HandledOnce, NoPatternHandled
<1>4. BlockedForCause'
  BY <1>1 DEF History, BlockedForCause
<1>5. QED BY <1>2, <1>3, <1>4 DEF History

\* Types of the fields that a step of the parser leaves alone.
LEMMA TypesKept ==
    ASSUME Typed, UNCHANGED <<secure, patient, handshake, asked, handled>>,
           pc' \in {"wait", "parse", "got"}, state' \in {"line", "headers", "body"},
           shut' \in BOOLEAN,
           request'.n \in 0 .. Len(asked), request' \in Requests,
           out' \in Seq(Nat), \A i \in DOMAIN out' : out'[i] \in 1 .. Len(asked)
    PROVE  Typed'
BY DEF Typed, TypeOK, Requests

LEMMA Present ==
    ASSUME Typed
    PROVE  /\ pc \in {"wait", "parse", "got"} /\ state \in {"line", "headers", "body"}
           /\ shut \in BOOLEAN /\ request.n \in 0 .. Len(asked)
           /\ out \in Seq(Nat) /\ \A i \in DOMAIN out : out[i] \in 1 .. Len(asked)
           /\ request \in Requests
BY DEF Typed, TypeOK

LEMMA DeliverKeeps ==
    ASSUME Inv, ~secure, Deliver
    PROVE  Typed' /\ Plain'
<1>1. Typed /\ Plain
  BY DEF Inv
<1>2. PICK i \in 1 .. Len(wire) :
        wire' = SubSeq(wire, i + 1, Len(wire)) /\ buf' = buf \o SubSeq(wire, 1, i)
  BY DEF Deliver, Arrives
<1>3. PICK m \in 1 .. Len(asked) + 1 : \E k \in Nat \ {0} : Parsing(m, k)
  BY <1>1 DEF Plain
<1>4. PICK k \in Nat \ {0} : Parsing(m, k)
  BY <1>3
<1>5. /\ pc = "wait" /\ pc' = "parse"
      /\ UNCHANGED <<secure, handshake, patient, asked, state, request, shut, out, handled>>
  BY DEF Deliver, sslVars, replyVars
<1>6. Typed'
  BY <1>1, <1>5, Present, TypesKept
<1>7. (Answered /\ History)'
  BY <1>1, <1>5, AnswersNothing
<1>8. wire \in Seq(Tokens) /\ buf \in Seq(Tokens) /\ Len(wire) \in Nat
  BY <1>1 DEF Plain
<1>9. /\ SubSeq(wire, 1, i) \in Seq(Tokens) /\ SubSeq(wire, i + 1, Len(wire)) \in Seq(Tokens)
      /\ SubSeq(wire, 1, i) \o SubSeq(wire, i + 1, Len(wire)) = wire
  <2>1. SubSeq(wire, 1, i) \in Seq(Tokens) /\ SubSeq(wire, i + 1, Len(wire)) \in Seq(Tokens)
    BY <1>8
  <2>2. QED BY <1>8, <2>1
<1>10. buf' \in Seq(Tokens) /\ wire' \in Seq(Tokens) /\ buf' \o wire' = buf \o wire
  <2>1. buf' \in Seq(Tokens) /\ wire' \in Seq(Tokens)
    BY <1>2, <1>8, <1>9
  <2> DEFINE here == SubSeq(wire, 1, i)
             there == SubSeq(wire, i + 1, Len(wire))
  <2> HIDE DEF here, there
  <2>2. here \in Seq(Tokens) /\ there \in Seq(Tokens) /\ here \o there = wire
    BY <1>9 DEF here, there
  <2>3. (buf \o here) \o there = buf \o (here \o there)
    <3>1. buf \in Seq(Tokens) /\ here \in Seq(Tokens) /\ there \in Seq(Tokens)
      BY <1>8, <2>2
    <3>2. QED BY <3>1
  <2>4. QED BY <1>2, <2>1, <2>2, <2>3 DEF here, there
<1>11. Parsing(m, k)'
  <2>1. (Stream(m, k) \/ Stray(m, k))'
    <3>1. CASE Stream(m, k)
      BY <1>5, <1>10, <3>1 DEF Stream
    <3>2. CASE Stray(m, k)
      <4>1. state' = "line"
        BY <1>5, <3>2 DEF Stray
      <4>2. QED BY <1>5, <1>10, <3>2, <4>1, StrayKept
    <3>3. QED BY <1>4, <3>1, <3>2 DEF Parsing
  <2>2. (InLine(m, k) \/ InHead(m, k) \/ InBody(m, k) \/ Got(m, k))'
    BY <1>4, <1>5 DEF Parsing, InLine, InHead, InBody, Got, Known, EarlierHandled, Lengthless
  <2>3. LatestBody(m - 1)'
    BY <1>4, <1>5 DEF Parsing, LatestBody
  <2>4. (~shut => Len(out) = IF pc = "got" THEN m - 2 ELSE m - 1)'
    BY <1>4, <1>5 DEF Parsing
  <2>5. QED BY <2>1, <2>2, <2>3, <2>4 DEF Parsing
<1>12. QED BY <1>5, <1>6, <1>7, <1>10, <1>11 DEF Plain

LEMMA NeedMoreKeeps ==
    ASSUME Inv, ~secure, NeedMore
    PROVE  Typed' /\ Plain'
<1>1. Typed /\ Plain
  BY DEF Inv
<1>2. PICK m \in 1 .. Len(asked) + 1 : \E k \in Nat \ {0} : Parsing(m, k)
  BY <1>1 DEF Plain
<1>3. PICK k \in Nat \ {0} : Parsing(m, k)
  BY <1>2
<1>4. /\ pc = "parse" /\ pc' = "wait"
      /\ UNCHANGED <<secure, handshake, patient, asked, wire, buf, state, request, shut, out,
                     handled>>
  BY DEF NeedMore, sslVars, clientVars, replyVars
<1>5. Typed'
  BY <1>1, <1>4, Present, TypesKept
<1>6. (Answered /\ History)'
  BY <1>1, <1>4, AnswersNothing
<1>7. Parsing(m, k)'
  <2>1. (Stream(m, k) \/ Stray(m, k))'
    <3>1. CASE Stream(m, k)
      BY <1>4, <3>1 DEF Stream
    <3>2. CASE Stray(m, k)
      <4>1. state' = "line"
        BY <1>4, <3>2 DEF Stray
      <4>2. QED BY <1>4, <3>2, <4>1, StrayKept
    <3>3. QED BY <1>3, <3>1, <3>2 DEF Parsing
  <2>2. (InLine(m, k) \/ InHead(m, k) \/ InBody(m, k) \/ Got(m, k))'
    BY <1>3, <1>4 DEF Parsing, InLine, InHead, InBody, Got, Known, EarlierHandled, Lengthless
  <2>3. LatestBody(m - 1)'
    BY <1>3, <1>4 DEF Parsing, LatestBody
  <2>4. (~shut => Len(out) = IF pc = "got" THEN m - 2 ELSE m - 1)'
    BY <1>3, <1>4 DEF Parsing
  <2>5. QED BY <2>1, <2>2, <2>3, <2>4 DEF Parsing
<1>8. QED BY <1>1, <1>4, <1>5, <1>6, <1>7 DEF Plain

\* What is in front of the parser is in the buffer first.
LEMMA FirstOfBuf ==
    ASSUME Plain, buf # <<>>
    PROVE  (buf \o wire)[1] = buf[1]
<1>1. buf \in Seq(Tokens) /\ wire \in Seq(Tokens)
  BY DEF Plain
<1>2. 1 \in 1 .. Len(buf)
  BY <1>1
<1>3. QED BY <1>1, <1>2, Joined

\* Where the parser is when it sees a first token.
LEMMA SeesLine ==
    ASSUME Inv, ~secure, NEW kinds, Sees("line", kinds), "byte" \notin kinds
    PROVE  \E m \in 1 .. Len(asked) :
              /\ Parsing(m, 1) /\ InLine(m, 1)
              /\ buf[1].n = m /\ buf[1].value = asked[m]
              /\ buf[1].kind \in kinds /\ buf[1].kind = KindAt(asked[m], 1)
              /\ Tail(buf) \in Seq(Tokens) /\ Follows(Tail(buf) \o wire, asked, m, 2)
<1>1. Typed /\ Plain
  BY DEF Inv
<1>2. PICK m \in 1 .. Len(asked) + 1 : \E k \in Nat \ {0} : Parsing(m, k)
  BY <1>1 DEF Plain
<1>3. PICK k \in Nat \ {0} : Parsing(m, k)
  BY <1>2
<1>4. InLine(m, k) /\ Stream(m, k) /\ k = 1
  <2>1. InLine(m, k) /\ k = 1
    BY <1>3 DEF Sees, Parsing, InLine, InHead, InBody, Got
  <2>2. ~Stray(m, k)
    BY <1>1, FirstOfBuf DEF Sees, Stray
  <2>3. QED BY <1>3, <2>1, <2>2 DEF Parsing
<1>5. m <= Len(asked) => 1 <= Size(asked[m])
  BY <1>1, AskedTyped, ShapesOfAsked
<1>6. /\ m \in 1 .. Len(asked)
      /\ buf[1].kind = KindAt(asked[m], 1) /\ buf[1].n = m /\ buf[1].value = asked[m]
      /\ Tail(buf) \in Seq(Tokens)
      /\ Follows(Tail(buf) \o wire, asked, m, 1 + 1)
  BY <1>1, <1>4, <1>5, NextToken DEF Sees, Plain
<1>7. QED BY <1>3, <1>4, <1>6 DEF Sees

LEMMA SeesByte ==
    ASSUME Inv, ~secure, Sees("line", {"byte"})
    PROVE  \E m \in 1 .. Len(asked) + 1 :
              /\ Parsing(m, 1) /\ InLine(m, 1) /\ Stray(m, 1)
              /\ m - 1 \in Strays /\ buf[1].n = m - 1
<1>1. Typed /\ Plain
  BY DEF Inv
<1>2. PICK m \in 1 .. Len(asked) + 1 : \E k \in Nat \ {0} : Parsing(m, k)
  BY <1>1 DEF Plain
<1>3. PICK k \in Nat \ {0} : Parsing(m, k)
  BY <1>2
<1>4. InLine(m, k) /\ k = 1
  BY <1>3 DEF Sees, Parsing, InLine, InHead, InBody, Got
<1>5. m <= Len(asked) => 1 <= Size(asked[m])
  BY <1>1, AskedTyped, ShapesOfAsked
<1>6. ~Stream(m, k)
  <2> SUFFICES ASSUME Stream(m, k) PROVE FALSE
    OBVIOUS
  <2>1. buf[1].kind = KindAt(asked[m], 1)
    BY <1>1, <1>4, <1>5, NextToken DEF Sees, Plain
  <2>2. buf[1].kind = "byte"
    BY DEF Sees
  <2>3. QED BY <2>1, <2>2 DEF KindAt
<1>7. Stray(m, 1) /\ Parsing(m, 1)
  BY <1>3, <1>4, <1>6 DEF Parsing
<1>8. m - 1 \in Strays /\ buf[1].n = m - 1
  BY <1>1, <1>7, FirstOfBuf DEF Stray, Sees
<1>9. QED BY <1>4, <1>7, <1>8

LEMMA SeesHeaders ==
    ASSUME Inv, ~secure, NEW kinds, Sees("headers", kinds)
    PROVE  \E m \in 1 .. Len(asked) : \E k \in 1 .. HeadSize(asked[m]) :
              /\ Parsing(m, k) /\ InHead(m, k)
              /\ buf[1].n = m /\ buf[1].value = asked[m]
              /\ buf[1].kind \in kinds /\ buf[1].kind = KindAt(asked[m], k)
              /\ Tail(buf) \in Seq(Tokens) /\ Follows(Tail(buf) \o wire, asked, m, k + 1)
<1>1. Typed /\ Plain
  BY DEF Inv
<1>2. PICK m \in 1 .. Len(asked) + 1 : \E k \in Nat \ {0} : Parsing(m, k)
  BY <1>1 DEF Plain
<1>3. PICK k \in Nat \ {0} : Parsing(m, k)
  BY <1>2
<1>4. InHead(m, k) /\ Stream(m, k)
  BY <1>3 DEF Sees, Parsing, Stray, InLine, InHead, InBody, Got
<1>5. m <= Len(asked) =>
        /\ HeadSize(asked[m]) \in Nat /\ Size(asked[m]) \in Nat
        /\ Size(asked[m]) >= HeadSize(asked[m])
  BY <1>1, AskedTyped, Sizes
<1>6. m <= Len(asked) => k <= HeadSize(asked[m]) /\ k <= Size(asked[m])
  BY <1>4, <1>5 DEF InHead
<1>7. /\ m \in 1 .. Len(asked)
      /\ buf[1].kind = KindAt(asked[m], k) /\ buf[1].n = m /\ buf[1].value = asked[m]
      /\ Tail(buf) \in Seq(Tokens)
      /\ Follows(Tail(buf) \o wire, asked, m, k + 1)
  BY <1>1, <1>4, <1>6, NextToken DEF Sees, Plain, InHead
<1>8. k \in 1 .. HeadSize(asked[m])
  BY <1>5, <1>6, <1>7
<1>9. QED BY <1>3, <1>4, <1>7, <1>8 DEF Sees

LEMMA ParseLineKeeps ==
    ASSUME Inv, ~secure, ParseLine
    PROVE  Typed' /\ Plain'
<1>1. Typed /\ Plain
  BY DEF Inv
<1>2. PICK m \in 1 .. Len(asked) :
        /\ Parsing(m, 1) /\ InLine(m, 1)
        /\ buf[1].n = m /\ buf[1].value = asked[m]
        /\ buf[1].kind \in {"line"} /\ buf[1].kind = KindAt(asked[m], 1)
        /\ Tail(buf) \in Seq(Tokens) /\ Follows(Tail(buf) \o wire, asked, m, 2)
  BY SeesLine DEF ParseLine
<1>3. /\ pc = "parse" /\ state' = "headers" /\ buf' = Tail(buf)
      /\ request' = WithLine(m, asked[m])
      /\ UNCHANGED <<secure, handshake, patient, asked, wire, pc, shut, out, handled>>
  BY <1>2 DEF ParseLine, Sees, sslVars, clientVars, replyVars
<1>4. asked[m] \in AllShapes
  BY <1>1, AskedTyped
<1>5. /\ request'.n = m /\ request'.method = asked[m].method
      /\ request'.path = asked[m].path /\ request'.version = asked[m].version
      /\ request'.conn = "none" /\ request'.length = NoLength
      /\ request'.contentLength = request.contentLength
      /\ request'.content = request.content
      /\ request' \in Requests
  <2>1. request = Fresh(request.contentLength, request.content)
    BY <1>2 DEF InLine
  <2>2. request.conn = "none" /\ request.length = NoLength
    BY <2>1 DEF Fresh
  <2>3. asked[m].method \in Methods /\ asked[m].path \in Paths /\ asked[m].version \in Versions
    BY <1>4, ShapeFields
  <2>4. request' = [request EXCEPT !.n = m, !.method = asked[m].method, !.path = asked[m].path,
                                   !.version = asked[m].version]
    BY <1>3 DEF WithLine
  <2>5. m \in Nat
    OBVIOUS
  <2>6. request \in Requests
    BY <1>1, Present
  <2>7. QED BY <2>2, <2>3, <2>4, <2>5, <2>6 DEF Requests
<1>6. Typed'
  <2>1. request'.n \in 0 .. Len(asked)
    BY <1>5
  <2>2. QED BY <1>1, <1>3, <1>5, <2>1, Present, TypesKept
<1>7. (Answered /\ History)'
  BY <1>1, <1>3, AnswersNothing
<1>8. Parsing(m, 2)'
  <2>1. Stream(m, 2)'
    BY <1>2, <1>3 DEF Stream
  <2>2. LengthAt(asked[m]) \in {2, 3} /\ HeadSize(asked[m]) \in 2 .. 5 /\ 1 \in 1 .. Size(asked[m])
    BY <1>4, Sizes
  <2>3. asked[m].fault # "line"
    BY <1>2, <1>4, <2>2, KindSays
  <2>4. 2 = HeadSize(asked[m]) => asked[m].fault = "none"
    BY <1>4, <2>2, <2>3 DEF HeadSize, AllShapes
  <2>5. InHead(m, 2)'
    <3>1. (Known /\ EarlierHandled)'
      BY <1>2, <1>3, <1>5 DEF Known, EarlierHandled, InLine
    <3>2. QED BY <1>3, <1>5, <2>2, <2>3, <2>4, <3>1 DEF InHead
  <2>6. LatestBody(m - 1)'
    BY <1>2, <1>3, <1>5 DEF Parsing, LatestBody
  <2>7. (~shut => Len(out) = IF pc = "got" THEN m - 2 ELSE m - 1)'
    BY <1>2, <1>3 DEF Parsing
  <2>8. QED BY <2>1, <2>5, <2>6, <2>7 DEF Parsing
<1>9. QED
  <2>1. buf' \in Seq(Tokens) /\ wire' \in Seq(Tokens)
    BY <1>1, <1>2, <1>3 DEF Plain
  <2>2. m \in 1 .. Len(asked') + 1 /\ 2 \in Nat \ {0}
    BY <1>3
  <2>3. QED BY <1>6, <1>7, <1>8, <2>1, <2>2 DEF Plain

LEMMA ParseHeaderKeeps ==
    ASSUME Inv, ~secure, ParseHeader
    PROVE  Typed' /\ Plain'
<1> DEFINE kinds == {"conn", "length", "line", "badLine"}
<1>1. Typed /\ Plain
  BY DEF Inv
<1>2. Sees("headers", kinds)
  BY DEF ParseHeader, Sees
<1>3. PICK m \in 1 .. Len(asked) : \E k \in 1 .. HeadSize(asked[m]) :
        /\ Parsing(m, k) /\ InHead(m, k)
        /\ buf[1].n = m /\ buf[1].value = asked[m]
        /\ buf[1].kind \in kinds /\ buf[1].kind = KindAt(asked[m], k)
        /\ Tail(buf) \in Seq(Tokens) /\ Follows(Tail(buf) \o wire, asked, m, k + 1)
  BY <1>2, SeesHeaders
<1>4. PICK k \in 1 .. HeadSize(asked[m]) :
        /\ Parsing(m, k) /\ InHead(m, k)
        /\ buf[1].n = m /\ buf[1].value = asked[m]
        /\ buf[1].kind \in kinds /\ buf[1].kind = KindAt(asked[m], k)
        /\ Tail(buf) \in Seq(Tokens) /\ Follows(Tail(buf) \o wire, asked, m, k + 1)
  BY <1>3
<1>5. /\ pc = "parse" /\ state = "headers" /\ buf' = Tail(buf)
      /\ UNCHANGED <<secure, handshake, patient, asked, wire, pc, state, shut, out, handled>>
  BY DEF ParseHeader, Sees, sslVars, clientVars, replyVars
<1>6. asked[m] \in AllShapes /\ asked[m].conn \in Conns /\ asked[m].length \in Lengths
  BY <1>1, AskedTyped, ShapeFields
<1>7. /\ LengthAt(asked[m]) \in {2, 3} /\ HeadSize(asked[m]) \in 2 .. 5
      /\ k \in 1 .. Size(asked[m]) /\ k \in Nat \ {0}
  BY <1>6, Sizes
<1>8. /\ KindAt(asked[m], k) = "conn" => request' = [request EXCEPT !.conn = asked[m].conn]
      /\ KindAt(asked[m], k) = "length" =>
            request' = [request EXCEPT !.length = asked[m].length]
      /\ KindAt(asked[m], k) \in {"line", "badLine"} => request' = request
  BY <1>4 DEF ParseHeader, Sees
<1>9. KindAt(asked[m], k) \in kinds
  BY <1>4
<1>10. /\ request'.n = request.n /\ request'.method = request.method
       /\ request'.path = request.path /\ request'.version = request.version
       /\ request'.contentLength = request.contentLength
       /\ request'.content = request.content
       /\ request' \in Requests
  <2>1. CASE KindAt(asked[m], k) = "conn"
    BY <1>1, <1>6, <1>8, <2>1, Present DEF Requests
  <2>2. CASE KindAt(asked[m], k) = "length"
    BY <1>1, <1>6, <1>8, <2>2, Present DEF Requests
  <2>3. CASE KindAt(asked[m], k) \in {"line", "badLine"}
    BY <1>1, <1>8, <2>3, Present DEF Requests
  <2>4. QED BY <1>9, <2>1, <2>2, <2>3
<1>11. Typed'
  BY <1>1, <1>5, <1>10, Present, TypesKept
<1>12. (Answered /\ History)'
  BY <1>1, <1>5, AnswersNothing
<1>13. (Known /\ EarlierHandled)'
  BY <1>4, <1>5, <1>10 DEF InHead, Known, EarlierHandled
<1>14. InHead(m, k + 1)'
  <2>1. (request.n < m => Lengthless)'
    BY <1>4, <1>5, <1>10 DEF InHead, Lengthless
  <2>2. CASE KindAt(asked[m], k) = "conn"
    <3>1. /\ k = 2 /\ LengthAt(asked[m]) = 3 /\ 3 <= HeadSize(asked[m])
          /\ HeadSize(asked[m]) = 3 => asked[m].fault # "header"
      BY <1>6, <1>7, <2>2, KindSays
    <3>2. request'.conn = asked[m].conn /\ request'.length = NoLength
      BY <1>1, <1>4, <1>8, <2>2, <3>1, Present DEF InHead, Requests
    <3>3. ~shut => asked[m].fault # "line" /\ (k + 1 = HeadSize(asked[m]) => asked[m].fault = "none")
      BY <1>4, <1>6, <3>1 DEF InHead, AllShapes
    <3>4. QED BY <1>4, <1>5, <1>7, <1>10, <1>13, <2>1, <3>1, <3>2, <3>3 DEF InHead
  <2>3. CASE KindAt(asked[m], k) = "length"
    <3>1. /\ k = LengthAt(asked[m]) /\ k < HeadSize(asked[m])
          /\ k + 1 = HeadSize(asked[m]) => asked[m].fault # "header"
      BY <1>6, <1>7, <2>3, KindSays
    <3>2. request'.conn = request.conn /\ request'.length = asked[m].length
      BY <1>1, <1>8, <2>3, Present DEF Requests
    <3>3. ~shut => asked[m].fault # "line" /\ (k + 1 = HeadSize(asked[m]) => asked[m].fault = "none")
      BY <1>4, <1>6, <3>1 DEF InHead, AllShapes
    <3>4. request.n = m => request'.conn = asked[m].conn
      <4>1. CASE k > 2
        BY <1>4, <3>2, <4>1 DEF InHead
      <4>2. CASE k = 2
        BY <1>4, <3>1, <3>2, <4>2 DEF InHead, LengthAt
      <4>3. QED BY <1>7, <3>1, <4>1, <4>2
    <3>5. QED BY <1>4, <1>5, <1>7, <1>10, <1>13, <2>1, <3>1, <3>2, <3>3, <3>4 DEF InHead
  <2>4. CASE KindAt(asked[m], k) \in {"line", "badLine"}
    <3>1. k = 1
      BY <1>6, <1>7, <2>4, KindSays
    <3>2. request' = request /\ request.n < m /\ shut
      BY <1>4, <1>8, <2>4, <3>1 DEF InHead, Known, Lengthless
    <3>3. QED BY <1>4, <1>5, <1>7, <1>13, <2>1, <3>1, <3>2 DEF InHead
  <2>5. QED BY <1>9, <2>2, <2>3, <2>4
<1>15. Parsing(m, k + 1)'
  <2>1. Stream(m, k + 1)'
    BY <1>4, <1>5 DEF Stream
  <2>2. LatestBody(m - 1)'
    BY <1>4, <1>5, <1>10 DEF Parsing, LatestBody
  <2>3. (~shut => Len(out) = IF pc = "got" THEN m - 2 ELSE m - 1)'
    BY <1>4, <1>5 DEF Parsing
  <2>4. QED BY <1>14, <2>1, <2>2, <2>3 DEF Parsing
<1>16. QED
  <2>1. buf' \in Seq(Tokens) /\ wire' \in Seq(Tokens)
    BY <1>1, <1>4, <1>5 DEF Plain
  <2>2. m \in 1 .. Len(asked') + 1 /\ k + 1 \in Nat \ {0}
    BY <1>5, <1>7
  <2>3. QED BY <1>11, <1>12, <1>15, <2>1, <2>2 DEF Plain

\* At the empty line all of the head has been read.
LEMMA HeadRead ==
    ASSUME Inv, ~secure, Sees("headers", {"blank"})
    PROVE  \E m \in 1 .. Len(asked) :
              /\ Parsing(m, HeadSize(asked[m])) /\ InHead(m, HeadSize(asked[m]))
              /\ buf[1].n = m /\ Tail(buf) \in Seq(Tokens)
              /\ Follows(Tail(buf) \o wire, asked, m, HeadSize(asked[m]) + 1)
              /\ HeadSize(asked[m]) \in Nat \ {0}
              /\ request.length = asked[m].length
              /\ request.n = m => request.conn = asked[m].conn
              /\ ~shut => request.n = m /\ asked[m].fault = "none"
<1>1. PICK m \in 1 .. Len(asked) : \E k \in 1 .. HeadSize(asked[m]) :
        /\ Parsing(m, k) /\ InHead(m, k)
        /\ buf[1].n = m /\ buf[1].value = asked[m]
        /\ buf[1].kind \in {"blank"} /\ buf[1].kind = KindAt(asked[m], k)
        /\ Tail(buf) \in Seq(Tokens) /\ Follows(Tail(buf) \o wire, asked, m, k + 1)
  BY SeesHeaders
<1>2. PICK k \in 1 .. HeadSize(asked[m]) :
        /\ Parsing(m, k) /\ InHead(m, k)
        /\ buf[1].n = m /\ buf[1].value = asked[m]
        /\ buf[1].kind \in {"blank"} /\ buf[1].kind = KindAt(asked[m], k)
        /\ Tail(buf) \in Seq(Tokens) /\ Follows(Tail(buf) \o wire, asked, m, k + 1)
  BY <1>1
<1>3. asked[m] \in AllShapes
  BY AskedTyped DEF Inv
<1>4. LengthAt(asked[m]) \in {2, 3} /\ HeadSize(asked[m]) \in 2 .. 5 /\ k \in 1 .. Size(asked[m])
  BY <1>3, Sizes
<1>5. /\ k = HeadSize(asked[m])
      /\ k >= LengthAt(asked[m]) /\ (k = LengthAt(asked[m]) => asked[m].length = NoLength)
  BY <1>2, <1>3, <1>4, KindSays
<1>6. request.length = asked[m].length
  BY <1>2, <1>4, <1>5 DEF InHead
<1>7. request.n = m => request.conn = asked[m].conn
  <2>1. CASE k > 2
    BY <1>2, <2>1 DEF InHead
  <2>2. CASE ~(k > 2)
    <3>1. asked[m].conn = "none"
      BY <1>4, <1>5, <2>2 DEF LengthAt
    <3>2. QED BY <1>2, <2>2, <3>1 DEF InHead
  <2>3. QED BY <2>1, <2>2
<1>8. ~shut => request.n = m
  BY <1>2 DEF InHead, Known, Lengthless
<1>9. ~shut => asked[m].fault = "none"
  BY <1>2, <1>5 DEF InHead
<1>10. QED BY <1>2, <1>4, <1>5, <1>6, <1>7, <1>8, <1>9

LEMMA ExpectBodyKeeps ==
    ASSUME Inv, ~secure, ExpectBody
    PROVE  Typed' /\ Plain'
<1>1. Typed /\ Plain
  BY DEF Inv
<1>2. PICK m \in 1 .. Len(asked) :
        /\ Parsing(m, HeadSize(asked[m])) /\ InHead(m, HeadSize(asked[m]))
        /\ buf[1].n = m /\ Tail(buf) \in Seq(Tokens)
        /\ Follows(Tail(buf) \o wire, asked, m, HeadSize(asked[m]) + 1)
        /\ HeadSize(asked[m]) \in Nat \ {0}
        /\ request.length = asked[m].length
        /\ request.n = m => request.conn = asked[m].conn
        /\ ~shut => request.n = m /\ asked[m].fault = "none"
  BY HeadRead DEF ExpectBody
<1>3. /\ pc = "parse" /\ state' = "body" /\ buf' = Tail(buf)
      /\ request.method = "POST" /\ HasLength /\ Announced > 0
      /\ request' = [request EXCEPT !.contentLength = Announced]
      /\ UNCHANGED <<secure, handshake, patient, asked, wire, pc, shut, out, handled>>
  BY DEF ExpectBody, Sees, sslVars, clientVars, replyVars
<1>4. PICK k \in Nat \ {0} : k = HeadSize(asked[m]) + 1
  BY <1>2
<1>5. request \in Requests /\ request.length \in Lengths
  BY <1>1, Present DEF Requests
<1>6. /\ Announced \in Nat
      /\ \/ request.length = Negative
         \/ request.length > 0 /\ Announced = request.length
  <2>1. CASE request.length = Negative
    BY <2>1 DEF Announced, Huge
  <2>2. CASE request.length # Negative
    BY <1>3, <1>5, <2>2 DEF Announced, HasLength, Lengths
  <2>3. QED BY <2>1, <2>2
<1>7. /\ request'.n = request.n /\ request'.method = request.method
      /\ request'.path = request.path /\ request'.version = request.version
      /\ request'.conn = request.conn /\ request'.length = request.length
      /\ request'.contentLength = Announced /\ request'.content = request.content
      /\ request' \in Requests
  BY <1>3, <1>5, <1>6 DEF Requests
<1>8. Typed'
  BY <1>1, <1>3, <1>7, Present, TypesKept
<1>9. (Answered /\ History)'
  BY <1>1, <1>3, AnswersNothing
<1>10. Parsing(m, k)'
  <2>1. Stream(m, k)'
    BY <1>4, <1>2, <1>3 DEF Stream
  <2>2. (Known /\ EarlierHandled)'
    BY <1>2, <1>3, <1>7 DEF InHead, Known, EarlierHandled
  <2>3. InBody(m, k)'
    <3>1. (request.n < m => Lengthless)'
      BY <1>2, <1>3, <1>7 DEF InHead, Lengthless
    <3>2. (k = HeadSize(asked[m]) + 1)'
      BY <1>4, <1>3
    <3>3. QED BY <1>2, <1>3, <1>6, <1>7, <2>2, <3>1, <3>2 DEF InBody, InHead
  <2>4. LatestBody(m - 1)'
    BY <1>2, <1>3, <1>7 DEF Parsing, LatestBody
  <2>5. (~shut => Len(out) = IF pc = "got" THEN m - 2 ELSE m - 1)'
    BY <1>2, <1>3 DEF Parsing
  <2>6. QED BY <2>1, <2>3, <2>4, <2>5 DEF Parsing
<1>11. QED
  <2>1. buf' \in Seq(Tokens) /\ wire' \in Seq(Tokens)
    BY <1>1, <1>2, <1>3 DEF Plain
  <2>2. m \in 1 .. Len(asked') + 1 /\ k \in Nat \ {0}
    BY <1>3
  <2>3. QED BY <1>8, <1>9, <1>10, <2>1, <2>2 DEF Plain

\* A request without a body is complete.
LEMMA EndHeadKeeps ==
    ASSUME Inv, ~secure, EndHead
    PROVE  Typed' /\ Plain'
<1>1. Typed /\ Plain
  BY DEF Inv
<1>2. PICK m \in 1 .. Len(asked) :
        /\ Parsing(m, HeadSize(asked[m])) /\ InHead(m, HeadSize(asked[m]))
        /\ buf[1].n = m /\ Tail(buf) \in Seq(Tokens)
        /\ Follows(Tail(buf) \o wire, asked, m, HeadSize(asked[m]) + 1)
        /\ HeadSize(asked[m]) \in Nat \ {0}
        /\ request.length = asked[m].length
        /\ request.n = m => request.conn = asked[m].conn
        /\ ~shut => request.n = m /\ asked[m].fault = "none"
  BY HeadRead DEF EndHead
<1>3. /\ pc = "parse" /\ pc' = "got" /\ state = "headers" /\ buf' = Tail(buf)
      /\ UNCHANGED <<secure, handshake, patient, asked, wire, state, shut, out, handled>>
  BY DEF EndHead, Sees, sslVars, clientVars, replyVars
<1>4. request \in Requests /\ request.length \in Lengths /\ asked[m] \in Shapes
      /\ asked[m] \in AllShapes
  BY <1>1, AskedTyped, Present DEF Requests
<1>5. \/ request.method # "POST" /\ request' = request
      \/ /\ request.method = "POST" /\ request.length = 0
         /\ request' = [request EXCEPT !.contentLength = 0]
  <2>1. CASE request.method # "POST"
    BY <2>1 DEF EndHead
  <2>2. CASE request.method = "POST"
    <3>1. /\ HasLength /\ ~(Announced > 0)
          /\ request' = [request EXCEPT !.contentLength = Announced]
      BY <2>2 DEF EndHead
    <3>2. request.length # Negative
      BY <3>1 DEF Announced, Huge
    <3>3. request.length = 0 /\ Announced = 0
      BY <1>4, <3>1, <3>2 DEF Announced, HasLength, Lengths
    <3>4. QED BY <2>2, <3>1, <3>3
  <2>3. QED BY <2>1, <2>2
<1>6. /\ request'.n = request.n /\ request'.method = request.method
      /\ request'.path = request.path /\ request'.version = request.version
      /\ request'.conn = request.conn /\ request'.length = request.length
      /\ request'.content = request.content /\ request' \in Requests
  BY <1>4, <1>5 DEF Requests
<1>7. Typed'
  BY <1>1, <1>3, <1>6, Present, TypesKept
<1>8. (Answered /\ History)'
  BY <1>1, <1>3, AnswersNothing
<1>9. /\ request.n \in 1 .. m /\ request.method = asked[request.n].method
      /\ request.n < m => Lengthless /\ request.method = "POST"
  BY <1>2 DEF InHead, Known, Lengthless
<1>10. /\ ~HasBody(asked[m]) /\ ~HasBody(asked[request.n])
       /\ BodySize(asked[m]) # 0 => m \in Strays
  <2>1. CASE request.method # "POST"
    <3>1. request.n = m /\ asked[m].method # "POST"
      BY <1>9, <2>1
    <3>2. m \in DOMAIN asked
      BY <1>1, AskedTyped
    <3>3. asked[m].length > 0 => m \in Strays
      BY <3>1, <3>2 DEF Strays
    <3>4. QED BY <3>1, <3>3 DEF HasBody, BodySize
  <2>2. CASE request.method = "POST"
    <3>1. asked[m].length = 0
      BY <1>2, <1>5, <2>2
    <3>2. ~HasBody(asked[m]) /\ BodySize(asked[m]) = 0
      BY <3>1 DEF HasBody, BodySize
    <3>3. CASE request.n = m
      BY <3>2, <3>3
    <3>4. CASE request.n < m
      BY <1>9, <3>2, <3>4 DEF HasBody, Lengthless, NoLength
    <3>5. QED BY <1>9, <3>2, <3>3, <3>4
  <2>3. QED BY <2>1, <2>2
<1>11. Parsing(m + 1, 1)'
  <2>1. (Stream(m + 1, 1) \/ Stray(m + 1, 1))'
    <3> DEFINE rest == Tail(buf) \o wire
    <3>1. rest \in Seq(Tokens) /\ asked \in Seq(Shapes)
      BY <1>1, <1>2, AskedTyped DEF Plain
    <3>2. CASE BodySize(asked[m]) = 0
      <4>1. HeadSize(asked[m]) + 1 = Size(asked[m]) + 1
        BY <1>2, <3>2 DEF Size
      <4>2. Follows(rest, asked, m, Size(asked[m]) + 1)
        BY <1>2, <4>1
      <4> HIDE DEF rest
      <4>3. Follows(rest, asked, m + 1, 1)
        BY <3>1, <4>2, FollowsMessage
      <4>4. QED BY <1>3, <4>3 DEF Stream, rest
    <3>3. CASE BodySize(asked[m]) # 0
      <4>1. PICK k \in 1 .. Size(asked[m]) : k = HeadSize(asked[m]) + 1
        <5>1. HeadSize(asked[m]) + 1 \in 1 .. Size(asked[m])
          BY <1>4, <3>3, Sizes DEF Size
        <5>2. QED BY <5>1
      <4>2. Follows(rest, asked, m, k)
        BY <1>2, <4>1
      <4>3. KindAt(asked[m], k) = "byte"
        <5>1. k > 1 /\ k > HeadSize(asked[m])
          BY <1>2, <4>1
        <5>2. QED BY <5>1 DEF KindAt
      <4> HIDE DEF rest
      <4>4. rest # <<>> /\ rest[1] = Token(KindAt(asked[m], k), m, asked[m])
        BY <3>1, <4>2, FollowsNext
      <4>5. rest[1].kind = "byte" /\ rest[1].n = (m + 1) - 1
        BY <4>3, <4>4 DEF Token
      <4>6. (m + 1) - 1 \in Strays
        BY <1>10, <3>3
      <4>7. (buf \o wire)' = rest
        BY <1>3 DEF rest
      <4>8. QED BY <1>3, <4>4, <4>5, <4>6, <4>7 DEF Stray, Strays
    <3>4. QED BY <3>2, <3>3
  <2>2. (Known /\ EarlierHandled)'
    BY <1>2, <1>3, <1>6 DEF InHead, Known, EarlierHandled
  <2>3. Got(m + 1, 1)'
    <3>1. (~HasBody(asked[request.n]))'
      BY <1>3, <1>6, <1>10
    <3>2. (request.n + 1 = m + 1 => request.conn = asked[request.n].conn)'
      BY <1>2, <1>3, <1>6, <1>9
    <3>3. (request.n + 1 < m + 1 => Lengthless)'
      BY <1>3, <1>6, <1>9 DEF Lengthless
    <3>4. (~shut => WellFormed(asked[request.n]))'
      <4>1. ~shut => WellFormed(asked[m]) /\ request.n = m
        BY <1>2, <1>5, <1>9 DEF WellFormed, NoLength, Junk
      <4>2. QED BY <1>3, <1>6, <4>1
    <3>5. QED BY <1>3, <1>6, <1>9, <2>2, <3>1, <3>2, <3>3, <3>4 DEF Got
  <2>4. LatestBody((m + 1) - 1)'
    <3>1. \A j \in 1 .. (m + 1) - 1 : HasBody(asked[j]) => j \in 1 .. m - 1
      BY <1>10
    <3>2. QED BY <1>2, <1>3, <1>6, <3>1 DEF Parsing, LatestBody
  <2>5. (~shut => Len(out) = IF pc = "got" THEN (m + 1) - 2 ELSE (m + 1) - 1)'
    BY <1>2, <1>3 DEF Parsing
  <2>6. QED BY <2>1, <2>3, <2>4, <2>5 DEF Parsing
<1>12. QED
  <2>1. buf' \in Seq(Tokens) /\ wire' \in Seq(Tokens)
    BY <1>1, <1>2, <1>3 DEF Plain
  <2>2. m + 1 \in 1 .. Len(asked') + 1 /\ 1 \in Nat \ {0}
    BY <1>3
  <2>3. QED BY <1>7, <1>8, <1>11, <2>1, <2>2 DEF Plain

\* A request with its body is complete.
LEMMA ParseBodyKeeps ==
    ASSUME Inv, ~secure, ParseBody
    PROVE  Typed' /\ Plain'
<1>1. Typed /\ Plain
  BY DEF Inv
<1>2. PICK m \in 1 .. Len(asked) + 1 : \E k \in Nat \ {0} : Parsing(m, k)
  BY <1>1 DEF Plain
<1>3. PICK k \in Nat \ {0} : Parsing(m, k)
  BY <1>2
<1>4. /\ pc = "parse" /\ pc' = "got" /\ state = "body" /\ buf' = AfterBody /\ Enough
      /\ request' = [request EXCEPT !.content = [i \in DOMAIN Body |-> Body[i].n]]
      /\ UNCHANGED <<secure, handshake, patient, asked, wire, state, shut, out, handled>>
  BY DEF ParseBody, sslVars, clientVars, replyVars
<1>5. InBody(m, k)
  BY <1>3, <1>4 DEF Parsing, InLine, InHead, Got
<1>6. /\ asked \in Seq(Shapes) /\ m \in 1 .. Len(asked)
      /\ asked[m] \in Shapes /\ asked[m] \in AllShapes
  BY <1>1, <1>5, AskedTyped DEF InBody
<1>7. request \in Requests /\ request.length \in Lengths /\ request.contentLength \in Nat
  BY <1>1, Present DEF Requests
<1>8. PICK i \in Nat \ {0} : i = request.contentLength
  BY <1>4, <1>5, <1>7 DEF InBody, Enough
<1>9. asked[m].length = i /\ BodySize(asked[m]) = i /\ Len(buf) >= i
  <2>1. asked[m].length = i /\ i > 0 /\ Len(buf) >= i
    BY <1>4, <1>5, <1>8 DEF InBody, Enough
  <2>2. QED BY <2>1 DEF BodySize
<1>10. HeadSize(asked[m]) \in Nat /\ Size(asked[m]) = HeadSize(asked[m]) + i
  BY <1>6, <1>9, Sizes DEF Size
<1> DEFINE str == buf \o wire
<1>11. /\ buf \in Seq(Tokens) /\ wire \in Seq(Tokens)
       /\ Len(buf) \in Nat /\ Len(wire) \in Nat /\ str \in Seq(Tokens)
       /\ Len(str) = Len(buf) + Len(wire)
       /\ \A j \in 1 .. Len(buf) : str[j] = buf[j]
       /\ \A j \in 1 .. Len(wire) : str[Len(buf) + j] = wire[j]
  BY <1>1, Joined DEF Plain
<1>12. Follows(str, asked, m, HeadSize(asked[m]) + 1)
  BY <1>3, <1>4, <1>5 DEF Parsing, Stream, Stray, InBody
<1> HIDE DEF str
<1>13. [j \in DOMAIN Body |-> Body[j].n] = [j \in 1 .. i |-> m]
  <2>1. Body = SubSeq(buf, 1, i)
    BY <1>8 DEF Body
  <2>2. Body = [j \in 1 .. i |-> buf[j]]
    BY <1>9, <1>11, <2>1
  <2>3. \A j \in 1 .. i : buf[j].n = m
    <3>1. TAKE j \in 1 .. i
    <3>2. j \in 1 .. BodySize(asked[m]) /\ j \in 1 .. Len(buf)
      BY <1>9, <1>11
    <3>3. str[j].n = m
      BY <1>6, <1>11, <1>12, <3>2, FollowsBody
    <3>4. QED BY <1>11, <3>2, <3>3
  <2>4. DOMAIN Body = 1 .. i
    BY <2>2
  <2>5. QED BY <2>2, <2>3, <2>4
<1>14. /\ request'.n = request.n /\ request'.method = request.method
       /\ request'.path = request.path /\ request'.version = request.version
       /\ request'.conn = request.conn /\ request'.length = request.length
       /\ request'.content = [j \in 1 .. i |-> m] /\ request' \in Requests
  <2>1. [j \in 1 .. i |-> m] \in Seq(Nat)
    <3>1. [j \in 1 .. i |-> m] \in [1 .. i -> Nat]
      OBVIOUS
    <3>2. QED BY <3>1, SeqDef
  <2>2. request' = [request EXCEPT !.content = [j \in 1 .. i |-> m]]
    BY <1>4, <1>13
  <2>3. QED BY <1>7, <2>1, <2>2 DEF Requests
<1>15. Typed'
  BY <1>1, <1>4, <1>14, Present, TypesKept
<1>16. (Answered /\ History)'
  BY <1>1, <1>4, AnswersNothing
<1>17. AfterBody \in Seq(Tokens) /\ Follows(AfterBody \o wire, asked, m + 1, 1)
  <2> DEFINE after == SubSeq(buf, i + 1, Len(buf))
             rest == after \o wire
  <2>1. AfterBody = after
    BY <1>8 DEF AfterBody
  <2>2. /\ after \in Seq(Tokens) /\ Len(after) = Len(buf) - i
        /\ \A j \in 1 .. Len(buf) - i : after[j] = buf[i + j]
    BY <1>9, <1>11
  <2> HIDE DEF after
  <2>3. /\ rest \in Seq(Tokens) /\ Len(rest) = Len(after) + Len(wire)
        /\ \A j \in 1 .. Len(after) : rest[j] = after[j]
        /\ \A j \in 1 .. Len(wire) : rest[Len(after) + j] = wire[j]
    <3>1. after \in Seq(Tokens) /\ wire \in Seq(Tokens)
      BY <1>11, <2>2
    <3>2. QED BY <3>1, Joined
  <2> HIDE DEF rest
  <2>4. Len(str) = i + Len(rest) /\ Len(rest) \in Nat
    BY <1>9, <1>11, <2>2, <2>3
  <2>5. ASSUME NEW j \in 1 .. Len(rest) PROVE rest[j] = str[i + j]
    <3>1. CASE j <= Len(after)
      <4>1. j \in 1 .. Len(after) /\ i + j \in 1 .. Len(buf)
        BY <1>9, <1>11, <2>2, <3>1
      <4>2. QED BY <1>11, <2>2, <2>3, <4>1
    <3>2. CASE j > Len(after)
      <4>1. PICK p \in 1 .. Len(wire) : j = Len(after) + p
        <5>1. j - Len(after) \in 1 .. Len(wire) /\ j = Len(after) + (j - Len(after))
          BY <1>9, <1>11, <2>2, <2>3, <3>2
        <5>2. QED BY <5>1
      <4>2. i + j = Len(buf) + p
        BY <1>9, <1>11, <2>2, <4>1
      <4>3. QED BY <1>11, <2>3, <4>1, <4>2
    <3>3. QED BY <1>9, <1>11, <2>2, <2>4, <3>1, <3>2
  <2>6. Follows(rest, asked, m, (HeadSize(asked[m]) + 1) + i)
    <3>1. HeadSize(asked[m]) + 1 \in Nat \ {0} /\ i \in Nat
      BY <1>10
    <3>2. QED BY <1>6, <1>11, <1>12, <2>3, <2>4, <2>5, <3>1, FollowsOn
  <2>7. (HeadSize(asked[m]) + 1) + i = Size(asked[m]) + 1
    BY <1>10
  <2>8. Follows(rest, asked, m + 1, 1)
    BY <1>6, <2>3, <2>6, <2>7, FollowsMessage
  <2>9. QED BY <2>1, <2>2, <2>8 DEF rest
<1>18. /\ request.n \in 1 .. m
       /\ request.n < m => Lengthless
  BY <1>5 DEF InBody, Known
<1>19. Parsing(m + 1, 1)'
  <2>1. Stream(m + 1, 1)'
    BY <1>4, <1>17 DEF Stream
  <2>2. (Known /\ EarlierHandled)'
    BY <1>4, <1>5, <1>14 DEF InBody, Known, EarlierHandled
  <2>3. Got(m + 1, 1)'
    <3>1. (HasBody(asked[request.n]) =>
              request.content = [j \in 1 .. asked[request.n].length |-> request.n])'
      <4>1. CASE request.n = m
        BY <1>4, <1>9, <1>14, <4>1
      <4>2. CASE request.n < m
        BY <1>4, <1>14, <1>18, <4>2 DEF HasBody, Lengthless, NoLength
      <4>3. QED BY <1>18, <4>1, <4>2
    <3>2. (request.n + 1 = m + 1 => request.conn = asked[request.n].conn)'
      BY <1>4, <1>5, <1>14, <1>18 DEF InBody
    <3>3. (request.n + 1 < m + 1 => Lengthless)'
      BY <1>4, <1>14, <1>18 DEF Lengthless
    <3>4. (~shut => WellFormed(asked[request.n]))'
      <4>1. ~shut => request.n = m
        BY <1>18 DEF Lengthless
      <4>2. ~shut => WellFormed(asked[m])
        BY <1>5, <1>9 DEF InBody, WellFormed, NoLength, Junk
      <4>3. QED BY <1>4, <1>14, <4>1, <4>2
    <3>5. QED BY <1>4, <1>14, <1>18, <2>2, <3>1, <3>2, <3>3, <3>4 DEF Got
  <2>4. LatestBody((m + 1) - 1)'
    <3>1. \A j \in DOMAIN request'.content : request'.content[j] = m
      BY <1>14
    <3>2. m \in 1 .. (m + 1) - 1
      BY <1>6
    <3>3. (\A j \in 1 .. (m + 1) - 1 : WellFormed(asked[j])) => HasBody(asked[m])
      <4>1. CASE request.n = m
        <5>1. asked[m].method = "POST"
          BY <1>5, <4>1 DEF InBody, Known
        <5>2. asked[m].length > 0
          BY <1>9
        <5>3. QED BY <5>1, <5>2 DEF HasBody
      <4>2. CASE request.n < m
        <5>1. ~WellFormed(asked[request.n])
          BY <1>18, <4>2 DEF Lengthless, WellFormed
        <5>2. request.n \in 1 .. (m + 1) - 1
          BY <1>6, <1>18
        <5>3. QED BY <5>1, <5>2
      <4>3. QED BY <1>18, <4>1, <4>2
    <3>4. \A j \in 1 .. (m + 1) - 1 : j <= m
      OBVIOUS
    <3>5. QED BY <1>4, <3>1, <3>2, <3>3, <3>4 DEF LatestBody
  <2>5. (~shut => Len(out) = IF pc = "got" THEN (m + 1) - 2 ELSE (m + 1) - 1)'
    BY <1>3, <1>4 DEF Parsing
  <2>6. QED BY <2>1, <2>3, <2>4, <2>5 DEF Parsing
<1>20. QED
  <2>1. buf' \in Seq(Tokens) /\ wire' \in Seq(Tokens)
    BY <1>4, <1>11, <1>17
  <2>2. m + 1 \in 1 .. Len(asked') + 1 /\ 1 \in Nat \ {0}
    BY <1>4, <1>6
  <2>3. QED BY <1>15, <1>16, <1>19, <2>1, <2>2 DEF Plain

\* A refusal answers a request that is malformed, or a second time one whose body is
\* stray, and closes the connection.
LEMMA Refusal ==
    ASSUME Typed, Plain, NEW m \in 1 .. Len(asked) + 1, NEW n \in 1 .. Len(asked), Refuse(n),
           UNCHANGED asked,
           ~shut => /\ Len(out) = m - 1
                    /\ \/ n = m /\ ~WellFormed(asked[m])
                       \/ n = m - 1 /\ n \in Strays
    PROVE  /\ pc' = "wait" /\ shut' = TRUE /\ UNCHANGED handled
           /\ out' \in Seq(Nat) /\ \A i \in DOMAIN out' : out'[i] \in 1 .. Len(asked)
           /\ (Answered /\ History)'
<1>1. /\ pc' = "wait" /\ shut' = TRUE /\ UNCHANGED handled
      /\ out' = IF shut THEN out ELSE Append(out, n)
  BY DEF Refuse, Sent
<1>2. /\ shut \in BOOLEAN /\ out \in Seq(Nat)
      /\ \A i \in DOMAIN out : out[i] \in 1 .. Len(asked)
      /\ Answered /\ History
  BY Present DEF Plain
<1>3. out' \in Seq(Nat) /\ \A i \in DOMAIN out' : out'[i] \in 1 .. Len(asked)
  <2>1. CASE shut
    BY <1>1, <1>2, <2>1
  <2>2. CASE ~shut
    <3>1. out' = Append(out, n) /\ n \in Nat
      BY <1>1, <2>2
    <3>2. QED BY <1>2, <3>1
  <2>3. QED BY <2>1, <2>2
<1>4. Answered'
  <2>1. CASE shut
    BY <1>1, <1>2, <2>1 DEF Answered, AnswersInOrder, MustClose, MayClose, Strays
  <2>2. CASE ~shut
    <3>1. /\ out' = Append(out, n) /\ Len(out) = m - 1 /\ n \in Nat /\ m \in Nat
          /\ \/ n = m /\ ~WellFormed(asked[m])
             \/ n = m - 1 /\ n \in Strays
      BY <1>1, <2>2
    <3>2. /\ DOMAIN out' = 1 .. m /\ m \in DOMAIN out' /\ out'[m] = n
          /\ \A i \in 1 .. m - 1 : out'[i] = out[i]
      BY <1>2, <3>1
    <3>3. \A i \in 1 .. m - 1 : out[i] = i
      BY <1>2, <2>2, <3>1 DEF Answered
    <3>4. AnswersInOrder'
      <4>1. ASSUME NEW i \in DOMAIN out', Strays \cap 1 .. i - 1 = {} PROVE out'[i] = i
        <5>1. CASE i < m
          <6>1. i \in 1 .. m - 1
            BY <3>2, <5>1
          <6>2. QED BY <3>2, <3>3, <6>1
        <5>2. CASE i = m
          <6>1. n \in 1 .. m - 1 => n \notin Strays
            BY <4>1, <5>2
          <6>2. ~(n = m - 1 /\ n \in Strays)
            BY <3>1, <6>1
          <6>3. QED BY <3>1, <3>2, <5>2, <6>2
        <5>3. QED BY <3>1, <3>2, <5>1, <5>2
      <4>2. Strays' = Strays
        BY DEF Strays
      <4>3. QED BY <4>1, <4>2 DEF AnswersInOrder
    <3>5. MayClose(n)'
      BY <3>1 DEF MayClose, MustClose, Strays
    <3>6. QED BY <1>1, <3>1, <3>2, <3>4, <3>5 DEF Answered
  <2>3. QED BY <2>1, <2>2
<1>5. OwnBody' /\ HandledOnce' /\ NoPatternHandled'
  BY <1>1, <1>2 DEF History, OwnBody, HandledOnce, NoPatternHandled
<1>6. BlockedForCause'
  BY <1>1, <1>2 DEF History, BlockedForCause
<1>7. QED BY <1>1, <1>3, <1>4, <1>5, <1>6 DEF History

LEMMA RefusalOfMalformed ==
    ASSUME Typed, Plain, NEW m \in 1 .. Len(asked), Refuse(m), UNCHANGED asked,
           ~shut => Len(out) = m - 1 /\ ~WellFormed(asked[m])
    PROVE  /\ pc' = "wait" /\ shut' = TRUE /\ UNCHANGED handled
           /\ out' \in Seq(Nat) /\ \A i \in DOMAIN out' : out'[i] \in 1 .. Len(asked)
           /\ (Answered /\ History)'
<1>1. PICK p \in 1 .. Len(asked) + 1 : p = m
  BY AskedTyped
<1>2. ~shut => /\ Len(out) = p - 1
               /\ \/ m = p /\ ~WellFormed(asked[p])
                  \/ m = p - 1 /\ m \in Strays
  BY <1>1
<1>3. QED BY <1>2, Refusal

LEMMA RefuseLineKeeps ==
    ASSUME Inv, ~secure, RefuseLine
    PROVE  Typed' /\ Plain'
<1>1. Typed /\ Plain
  BY DEF Inv
<1>2. /\ pc = "parse" /\ state = "line" /\ Refuse(buf[1].n)
      /\ Sees("line", {"badLine"}) \/ Sees("line", {"byte"})
      /\ UNCHANGED <<secure, handshake, patient, asked, wire, buf, state, request>>
  BY DEF RefuseLine, Sees, sslVars, clientVars
<1>3. PICK m \in 1 .. Len(asked) + 1 :
        /\ Parsing(m, 1) /\ InLine(m, 1) /\ buf[1].n \in 1 .. Len(asked)
        /\ ~shut => \/ buf[1].n = m /\ ~WellFormed(asked[m])
                    \/ buf[1].n = m - 1 /\ buf[1].n \in Strays
  <2>1. CASE Sees("line", {"badLine"})
    <3>1. PICK m \in 1 .. Len(asked) :
            /\ Parsing(m, 1) /\ InLine(m, 1)
            /\ buf[1].n = m /\ buf[1].value = asked[m]
            /\ buf[1].kind \in {"badLine"} /\ buf[1].kind = KindAt(asked[m], 1)
            /\ Tail(buf) \in Seq(Tokens) /\ Follows(Tail(buf) \o wire, asked, m, 2)
      BY <2>1, SeesLine
    <3>2. asked[m] \in AllShapes
      BY <1>1, AskedTyped
    <3>3. 1 \in 1 .. Size(asked[m])
      BY <3>2, Sizes
    <3>4. ~WellFormed(asked[m])
      BY <3>1, <3>2, <3>3, KindSays DEF WellFormed
    <3>5. QED BY <3>1, <3>4
  <2>2. CASE Sees("line", {"byte"})
    <3>1. PICK m \in 1 .. Len(asked) + 1 :
            /\ Parsing(m, 1) /\ InLine(m, 1) /\ Stray(m, 1)
            /\ m - 1 \in Strays /\ buf[1].n = m - 1
      BY <2>2, SeesByte
    <3>2. m - 1 \in 1 .. Len(asked)
      BY <1>1, <3>1, AskedTyped DEF Strays
    <3>3. QED BY <3>1, <3>2
  <2>3. QED BY <1>2, <2>1, <2>2
<1>4. PICK n \in 1 .. Len(asked) : n = buf[1].n
  BY <1>3
<1>5. /\ Refuse(n)
      /\ ~shut => /\ Len(out) = m - 1
                  /\ \/ n = m /\ ~WellFormed(asked[m])
                     \/ n = m - 1 /\ n \in Strays
  BY <1>2, <1>3, <1>4 DEF Parsing
<1>6. /\ pc' = "wait" /\ shut' = TRUE /\ UNCHANGED handled
      /\ out' \in Seq(Nat) /\ \A i \in DOMAIN out' : out'[i] \in 1 .. Len(asked)
      /\ (Answered /\ History)'
  BY <1>1, <1>2, <1>5, Refusal
<1>7. Typed'
  BY <1>1, <1>2, <1>6, Present, TypesKept
<1>8. Parsing(m, 1)'
  <2>1. (Stream(m, 1) \/ Stray(m, 1))'
    <3>1. CASE Stream(m, 1)
      BY <1>2, <3>1 DEF Stream
    <3>2. CASE Stray(m, 1)
      <4>1. state' = "line"
        BY <1>2
      <4>2. QED BY <1>2, <3>2, <4>1, StrayKept
    <3>3. QED BY <1>3, <3>1, <3>2 DEF Parsing
  <2>2. InLine(m, 1)'
    BY <1>2, <1>3, <1>6 DEF InLine
  <2>3. LatestBody(m - 1)'
    BY <1>2, <1>3 DEF Parsing, LatestBody
  <2>4. QED BY <1>6, <2>1, <2>2, <2>3 DEF Parsing
<1>9. QED
  <2>1. buf' \in Seq(Tokens) /\ wire' \in Seq(Tokens)
    BY <1>1, <1>2 DEF Plain
  <2>2. m \in 1 .. Len(asked') + 1 /\ 1 \in Nat \ {0}
    BY <1>2
  <2>3. QED BY <1>6, <1>7, <1>8, <2>1, <2>2 DEF Plain

LEMMA RefuseHeaderKeeps ==
    ASSUME Inv, ~secure, RefuseHeader
    PROVE  Typed' /\ Plain'
<1> DEFINE kinds == {"badHeader", "line", "badLine"}
<1>1. Typed /\ Plain
  BY DEF Inv
<1>2. PICK m \in 1 .. Len(asked) : \E k \in 1 .. HeadSize(asked[m]) :
        /\ Parsing(m, k) /\ InHead(m, k)
        /\ buf[1].n = m /\ buf[1].value = asked[m]
        /\ buf[1].kind \in kinds /\ buf[1].kind = KindAt(asked[m], k)
        /\ Tail(buf) \in Seq(Tokens) /\ Follows(Tail(buf) \o wire, asked, m, k + 1)
  BY SeesHeaders DEF RefuseHeader
<1>3. PICK k \in 1 .. HeadSize(asked[m]) :
        /\ Parsing(m, k) /\ InHead(m, k)
        /\ buf[1].n = m /\ buf[1].value = asked[m]
        /\ buf[1].kind \in kinds /\ buf[1].kind = KindAt(asked[m], k)
        /\ Tail(buf) \in Seq(Tokens) /\ Follows(Tail(buf) \o wire, asked, m, k + 1)
  BY <1>2
<1>4. /\ pc = "parse" /\ Refuse(m) /\ state = "headers" /\ buf' = Tail(buf)
      /\ UNCHANGED <<secure, handshake, patient, asked, wire, state, request>>
  BY <1>3 DEF RefuseHeader, Sees, sslVars, clientVars
<1>5. asked[m] \in AllShapes
  BY <1>1, AskedTyped
<1>6. /\ LengthAt(asked[m]) \in {2, 3} /\ HeadSize(asked[m]) \in 2 .. 5
      /\ k \in 1 .. Size(asked[m]) /\ k \in Nat \ {0}
  BY <1>5, Sizes
<1>7. \/ /\ asked[m].fault = "header" /\ k > 1 /\ k + 1 = HeadSize(asked[m])
         /\ k >= LengthAt(asked[m]) /\ (k = LengthAt(asked[m]) => asked[m].length = NoLength)
      \/ k = 1 /\ request.n < m /\ shut
  <2>1. CASE KindAt(asked[m], k) = "badHeader"
    BY <1>5, <1>6, <2>1, KindSays
  <2>2. CASE KindAt(asked[m], k) \in {"line", "badLine"}
    <3>1. k = 1
      BY <1>5, <1>6, <2>2, KindSays
    <3>2. QED BY <1>3, <3>1 DEF InHead, Known, Lengthless
  <2>3. QED BY <1>3, <2>1, <2>2
<1>8. ~shut => Len(out) = m - 1 /\ ~WellFormed(asked[m])
  BY <1>3, <1>4, <1>7 DEF Parsing, WellFormed
<1>9. /\ pc' = "wait" /\ shut' = TRUE /\ UNCHANGED handled
      /\ out' \in Seq(Nat) /\ \A i \in DOMAIN out' : out'[i] \in 1 .. Len(asked)
      /\ (Answered /\ History)'
  BY <1>1, <1>4, <1>8, RefusalOfMalformed
<1>10. Typed'
  BY <1>1, <1>4, <1>9, Present, TypesKept
<1>11. InHead(m, k + 1)'
  <2>1. (Known /\ EarlierHandled)'
    BY <1>3, <1>4, <1>9 DEF InHead, Known, EarlierHandled
  <2>2. (request.n < m => Lengthless)'
    BY <1>3, <1>4, <1>9 DEF InHead, Lengthless
  <2>3. CASE k = 1 /\ request.n < m /\ shut
    BY <1>3, <1>4, <1>6, <1>9, <2>1, <2>2, <2>3 DEF InHead
  <2>4. CASE /\ asked[m].fault = "header" /\ k > 1 /\ k + 1 = HeadSize(asked[m])
             /\ k >= LengthAt(asked[m])
             /\ k = LengthAt(asked[m]) => asked[m].length = NoLength
    <3>1. request.length = asked[m].length
      BY <1>3, <1>6, <2>4 DEF InHead
    <3>2. request.n = m => request.conn = asked[m].conn
      <4>1. CASE k > 2
        BY <1>3, <4>1 DEF InHead
      <4>2. CASE ~(k > 2)
        <5>1. asked[m].conn = "none"
          BY <1>6, <2>4, <4>2 DEF LengthAt
        <5>2. QED BY <1>3, <4>2, <5>1 DEF InHead
      <4>3. QED BY <4>1, <4>2
    <3>3. k + 1 > 2 /\ k + 1 > LengthAt(asked[m]) /\ k + 1 <= HeadSize(asked[m])
      BY <1>6, <2>4
    <3>4. QED BY <1>3, <1>4, <1>6, <1>9, <2>1, <2>2, <3>1, <3>2, <3>3 DEF InHead
  <2>5. QED BY <1>7, <2>3, <2>4
<1>12. Parsing(m, k + 1)'
  <2>1. Stream(m, k + 1)'
    BY <1>3, <1>4 DEF Stream
  <2>2. LatestBody(m - 1)'
    BY <1>3, <1>4 DEF Parsing, LatestBody
  <2>3. QED BY <1>9, <1>11, <2>1, <2>2 DEF Parsing
<1>13. QED
  <2>1. buf' \in Seq(Tokens) /\ wire' \in Seq(Tokens)
    BY <1>1, <1>3, <1>4 DEF Plain
  <2>2. m \in 1 .. Len(asked') + 1 /\ k + 1 \in Nat \ {0}
    BY <1>4, <1>6
  <2>3. QED BY <1>9, <1>10, <1>12, <2>1, <2>2 DEF Plain

LEMMA RefuseLengthKeeps ==
    ASSUME Inv, ~secure, RefuseLength
    PROVE  Typed' /\ Plain'
<1>1. Typed /\ Plain
  BY DEF Inv
<1>2. PICK m \in 1 .. Len(asked) :
        /\ Parsing(m, HeadSize(asked[m])) /\ InHead(m, HeadSize(asked[m]))
        /\ buf[1].n = m /\ Tail(buf) \in Seq(Tokens)
        /\ Follows(Tail(buf) \o wire, asked, m, HeadSize(asked[m]) + 1)
        /\ HeadSize(asked[m]) \in Nat \ {0}
        /\ request.length = asked[m].length
        /\ request.n = m => request.conn = asked[m].conn
        /\ ~shut => request.n = m /\ asked[m].fault = "none"
  BY HeadRead DEF RefuseLength
<1>3. /\ pc = "parse" /\ Refuse(m) /\ state = "headers" /\ request.method = "POST"
      /\ \/ request.length = NoLength /\ buf' = Tail(buf)
         \/ request.length = Junk /\ buf' = buf
      /\ UNCHANGED <<secure, handshake, patient, asked, wire, state, request>>
  BY <1>2 DEF RefuseLength, Sees, sslVars, clientVars
<1>4. ~shut => Len(out) = m - 1 /\ ~WellFormed(asked[m])
  <2>1. ~shut => asked[m].method = "POST"
    BY <1>2, <1>3 DEF InHead, Known
  <2>2. QED BY <1>2, <1>3, <2>1 DEF Parsing, WellFormed
<1>5. /\ pc' = "wait" /\ shut' = TRUE /\ UNCHANGED handled
      /\ out' \in Seq(Nat) /\ \A i \in DOMAIN out' : out'[i] \in 1 .. Len(asked)
      /\ (Answered /\ History)'
  BY <1>1, <1>3, <1>4, RefusalOfMalformed
<1>6. Typed'
  BY <1>1, <1>3, <1>5, Present, TypesKept
<1>7. (Known /\ EarlierHandled)'
  BY <1>2, <1>3, <1>5 DEF InHead, Known, EarlierHandled
<1>8. request.n \in 1 .. m /\ (request.n < m => Lengthless)
  BY <1>2 DEF InHead, Known
<1>9. CASE request.length = NoLength
  <2>1. buf' = Tail(buf)
    BY <1>3, <1>9 DEF NoLength, Junk
  <2>2. asked[m].length = NoLength /\ BodySize(asked[m]) = 0 /\ ~HasBody(asked[m])
    BY <1>2, <1>9 DEF BodySize, HasBody, NoLength
  <2>3. Stream(m + 1, 1)'
    <3> DEFINE rest == Tail(buf) \o wire
    <3>1. rest \in Seq(Tokens) /\ asked \in Seq(Shapes)
      BY <1>1, <1>2, AskedTyped DEF Plain
    <3>2. HeadSize(asked[m]) + 1 = Size(asked[m]) + 1
      BY <1>2, <2>2 DEF Size
    <3>3. Follows(rest, asked, m, Size(asked[m]) + 1)
      BY <1>2, <3>2
    <3> HIDE DEF rest
    <3>4. Follows(rest, asked, m + 1, 1)
      BY <3>1, <3>3, FollowsMessage
    <3>5. QED BY <1>3, <2>1, <3>4 DEF Stream, rest
  <2>4. InHead(m + 1, 1)'
    <3>1. (Lengthless)'
      <4>1. asked[request.n].method = "POST" /\ asked[request.n].length = NoLength
        <5>1. CASE request.n = m
          BY <1>2, <1>3, <2>2, <5>1 DEF InHead, Known
        <5>2. CASE request.n < m
          BY <1>8, <5>2 DEF Lengthless
        <5>3. QED BY <1>8, <5>1, <5>2
      <4>2. QED BY <1>3, <1>5, <4>1 DEF Lengthless
    <3>2. m + 1 <= Len(asked) =>
             1 <= HeadSize(asked[m + 1]) /\ ~(1 > LengthAt(asked[m + 1]))
      <4>1. m + 1 <= Len(asked) => asked[m + 1] \in AllShapes
        BY <1>1, AskedTyped
      <4>2. QED BY <4>1, Sizes
    <3>3. request.n < m + 1 /\ request.n # m + 1
      BY <1>8
    <3>4. (request.length =
              IF m + 1 <= Len(asked) /\ 1 > LengthAt(asked[m + 1]) THEN asked[m + 1].length
              ELSE NoLength)'
      BY <1>3, <1>9, <3>2
    <3>5. (/\ request.n <= m + 1
           /\ m + 1 <= Len(asked) => 1 <= HeadSize(asked[m + 1])
           /\ request.n # m + 1)'
      BY <1>3, <1>8, <3>2, <3>3
    <3>6. pc' # "got" /\ state' = "headers" /\ shut'
      BY <1>3, <1>5
    <3>7. QED BY <1>7, <3>1, <3>4, <3>5, <3>6 DEF InHead
  <2>5. LatestBody((m + 1) - 1)'
    <3>1. \A j \in 1 .. (m + 1) - 1 : HasBody(asked[j]) => j \in 1 .. m - 1
      BY <2>2
    <3>2. QED BY <1>2, <1>3, <3>1 DEF Parsing, LatestBody
  <2>6. Parsing(m + 1, 1)'
    BY <1>5, <2>3, <2>4, <2>5 DEF Parsing
  <2>7. buf' \in Seq(Tokens) /\ wire' \in Seq(Tokens)
    BY <1>1, <1>2, <1>3, <2>1 DEF Plain
  <2>8. m + 1 \in 1 .. Len(asked') + 1 /\ 1 \in Nat \ {0}
    BY <1>3
  <2>9. QED BY <1>5, <1>6, <2>6, <2>7, <2>8 DEF Plain
<1>10. CASE request.length = Junk
  <2>1. buf' = buf
    BY <1>3, <1>10 DEF NoLength, Junk
  <2>2. PICK k \in Nat \ {0} : k = HeadSize(asked[m])
    BY <1>2
  <2>3. Stream(m, k)'
    BY <1>2, <1>3, <2>1, <2>2 DEF Parsing, Stream, Stray
  <2>4. InHead(m, k)'
    <3>1. (request.n < m => Lengthless)'
      BY <1>3, <1>5, <1>8 DEF Lengthless
    <3>2. QED BY <1>2, <1>3, <1>5, <1>7, <2>2, <3>1 DEF InHead
  <2>5. LatestBody(m - 1)'
    BY <1>2, <1>3 DEF Parsing, LatestBody
  <2>6. Parsing(m, k)'
    BY <1>5, <2>3, <2>4, <2>5 DEF Parsing
  <2>7. buf' \in Seq(Tokens) /\ wire' \in Seq(Tokens)
    BY <1>1, <1>3, <2>1 DEF Plain
  <2>8. m \in 1 .. Len(asked') + 1
    BY <1>3
  <2>9. QED BY <1>5, <1>6, <2>6, <2>7, <2>8 DEF Plain
<1>11. QED BY <1>3, <1>9, <1>10

-----------------------------------------------------------------------------
(* onRequest.                                                              *)

\* The place of the parser, and what Handle does in short: e is what is handled.
LEMMA Handles ==
    ASSUME Inv, ~secure, NEW event \in Events, Handle(event)
    PROVE  /\ \E m \in 1 .. Len(asked) + 1 : Parsing(m, 1) /\ Got(m, 1)
           /\ \E by \in Makers : \E close \in BOOLEAN :
                 /\ handled' = Append(handled, [n |-> request.n, body |-> request.content,
                                                by |-> by])
                 /\ shut' = (shut \/ close)
                 /\ by \in Handlers => ~Matches(request, BadBody)
                 /\ by = "blacklist" => Matches(request, BadBody)
                 /\ by \in {"noRoute", "cors"} => close
                 /\ request.version = "HTTP/1.0" /\ request.conn # "Keep-Alive" => close
                 /\ request.conn = "close" /\ by \notin {"rateLimit", "blacklist"} => close
                 /\ close => \/ by \in {"noRoute", "cors"}
                             \/ request.version = "HTTP/1.0" /\ request.conn # "Keep-Alive"
                             \/ request.conn = "close"
           /\ out' = IF shut THEN out ELSE Append(out, request.n)
           /\ pc = "got" /\ pc' = "wait" /\ state' = "line"
           /\ request' = Fresh(request.contentLength, request.content)
           /\ UNCHANGED <<secure, handshake, patient, asked, wire, buf>>
<1>1. \E m \in 1 .. Len(asked) + 1 : Parsing(m, 1) /\ Got(m, 1)
  <2>1. PICK m \in 1 .. Len(asked) + 1 : \E k \in Nat \ {0} : Parsing(m, k)
    BY DEF Inv, Plain
  <2>2. PICK k \in Nat \ {0} : Parsing(m, k)
    BY <2>1
  <2>3. Got(m, k) /\ k = 1
    BY <2>2 DEF Handle, Parsing, InLine, InHead, InBody, Got
  <2>4. QED BY <2>2, <2>3
<1> DEFINE response == HandleRequest(request, BadBody, event, WantsClose(request))
           close == \/ response.close
                    \/ request.version = "HTTP/1.0" /\ request.conn # "Keep-Alive"
<1>2. /\ handled' = Append(handled, [n |-> request.n, body |-> request.content,
                                     by |-> response.by])
      /\ shut' = (shut \/ close)
      /\ out' = IF shut THEN out ELSE Append(out, request.n)
      /\ pc = "got" /\ pc' = "wait" /\ state' = "line"
      /\ request' = Fresh(request.contentLength, request.content)
      /\ UNCHANGED <<secure, handshake, patient, asked, wire, buf>>
  BY DEF Handle, Reset, Sent, sslVars, clientVars
<1>3. BadBody \in BOOLEAN /\ WantsClose(request) \in BOOLEAN
  BY DEF BadBody, WantsClose
<1> HIDE DEF response
<1>4. /\ response.by \in Makers /\ response.close \in BOOLEAN
      /\ response.by \in Handlers => ~Matches(request, BadBody)
      /\ response.by = "blacklist" => Matches(request, BadBody)
      /\ response.by \in {"noRoute", "cors"} => response.close
      /\ WantsClose(request) /\ response.by \notin {"rateLimit", "blacklist"} => response.close
      /\ response.close => WantsClose(request) \/ response.by \in {"noRoute", "cors"}
  BY <1>3, Responses DEF response, Makers
<1>5. close \in BOOLEAN
  BY <1>4
<1>6. /\ response.by \in {"noRoute", "cors"} => close
      /\ request.version = "HTTP/1.0" /\ request.conn # "Keep-Alive" => close
      /\ request.conn = "close" /\ response.by \notin {"rateLimit", "blacklist"} => close
      /\ close => \/ response.by \in {"noRoute", "cors"}
                  \/ request.version = "HTTP/1.0" /\ request.conn # "Keep-Alive"
                  \/ request.conn = "close"
  BY <1>4 DEF WantsClose
<1> HIDE DEF close
<1>7. QED BY <1>1, <1>2, <1>4, <1>5, <1>6

\* What is handled of a request with a body is its body, and the blacklist has
\* searched that, or the latest body before the request.
LEMMA HandlesHistory ==
    ASSUME Typed, Plain, NEW m \in 1 .. Len(asked) + 1, Parsing(m, 1), Got(m, 1),
           NEW by \in Makers,
           handled' = Append(handled, [n |-> request.n, body |-> request.content, by |-> by]),
           by \in Handlers => ~Matches(request, BadBody),
           by = "blacklist" => Matches(request, BadBody),
           UNCHANGED asked
    PROVE  History'
<1> DEFINE n == request.n
           e == [n |-> request.n, body |-> request.content, by |-> by]
<1>1. /\ handled \in Seq([n : Nat, body : Seq(Nat), by : Makers])
      /\ \A i \in DOMAIN handled : handled[i].n \in 1 .. Len(asked)
      /\ Len(asked) \in Nat
  BY AskedTyped DEF Typed, TypeOK
<1>2. History
  BY DEF Plain
<1>3. e \in [n : Nat, body : Seq(Nat), by : Makers]
  BY Present DEF Requests
<1>4. /\ Len(handled') = Len(handled) + 1 /\ Len(handled) \in Nat
      /\ DOMAIN handled' = 1 .. Len(handled) + 1 /\ DOMAIN handled = 1 .. Len(handled)
      /\ \A i \in DOMAIN handled : handled'[i] = handled[i]
      /\ handled'[Len(handled) + 1] = e
  <2> HIDE DEF e
  <2>1. handled' = Append(handled, e)
    BY DEF e
  <2>2. /\ handled' \in Seq([n : Nat, body : Seq(Nat), by : Makers])
        /\ Len(handled') = Len(handled) + 1
        /\ \A i \in 1 .. Len(handled) : handled'[i] = handled[i]
        /\ handled'[Len(handled) + 1] = e
    BY <1>1, <1>3, <2>1, AppendProperties
  <2>3. DOMAIN handled = 1 .. Len(handled) /\ Len(handled) \in Nat
    BY <1>1
  <2>4. DOMAIN handled' = 1 .. Len(handled')
    BY <2>2
  <2>5. QED BY <2>2, <2>3, <2>4
<1>5. e.n = n /\ e.body = request.content /\ e.by = by
  OBVIOUS
<1> HIDE DEF e
<1>6. n \in 1 .. Len(asked) /\ n < m /\ Known /\ EarlierHandled
  BY DEF Got, Known
<1>7. asked[n] \in AllShapes /\ (HasBody(asked[n]) => asked[n].length \in Nat \ {0})
  <2>1. asked[n] \in AllShapes
    BY <1>6, AskedTyped
  <2>2. QED BY <2>1, ShapeFields DEF HasBody, Lengths, NoLength, Junk, Negative
<1>8. HasBody(asked[n]) => request.content = [j \in 1 .. asked[n].length |-> n]
  BY DEF Got
<1>9. OwnBody'
  <2>1. ASSUME NEW i \in DOMAIN handled', i # Len(handled) + 1
        PROVE  i \in DOMAIN handled /\ handled'[i] = handled[i]
    BY <1>4, <2>1
  <2>2. ASSUME NEW i \in DOMAIN handled', asked[handled'[i].n].method = "POST",
               asked[handled'[i].n].length > 0
        PROVE  handled'[i].body = [j \in 1 .. asked[handled'[i].n].length |-> handled'[i].n]
    <3>1. CASE i = Len(handled) + 1
      BY <1>4, <1>5, <1>8, <2>2, <3>1 DEF HasBody
    <3>2. CASE i # Len(handled) + 1
      BY <1>2, <2>1, <2>2, <3>2 DEF History, OwnBody
    <3>3. QED BY <3>1, <3>2
  <2>3. QED BY <2>2 DEF OwnBody
<1>10. HandledOnce'
  <2>1. ASSUME NEW i \in DOMAIN handled', NEW j \in DOMAIN handled', i < j
        PROVE  handled'[i].n < handled'[j].n
    <3>1. i \in DOMAIN handled /\ handled'[i] = handled[i]
      BY <1>4, <2>1
    <3>2. CASE j = Len(handled) + 1
      BY <1>4, <1>5, <1>6, <3>1, <3>2 DEF EarlierHandled
    <3>3. CASE j # Len(handled) + 1
      <4>1. j \in DOMAIN handled /\ handled'[j] = handled[j]
        BY <1>4, <3>3
      <4>2. QED BY <1>2, <2>1, <3>1, <4>1 DEF History, HandledOnce
    <3>4. QED BY <3>2, <3>3
  <2>2. QED BY <2>1 DEF HandledOnce
<1>11. NoPatternHandled'
  <2>1. ASSUME NEW i \in DOMAIN handled', handled'[i].by \in Handlers
        PROVE  LET s == asked[handled'[i].n]
               IN  s.path # "/s/javascript:" /\ ~(HasBody(s) /\ s.bad)
    <3>1. CASE i = Len(handled) + 1
      <4>1. handled'[i].n = n /\ by \in Handlers
        BY <1>4, <1>5, <2>1, <3>1
      <4>2. ~BadBody /\ asked[n].path # "/s/javascript:"
        BY <1>6, <4>1 DEF Matches, Known
      <4>3. ASSUME HasBody(asked[n]) PROVE ~asked[n].bad
        <5>1. 1 \in DOMAIN request.content /\ request.content[1] = n
          BY <1>7, <1>8, <4>3
        <5>2. QED BY <4>2, <5>1 DEF BadBody
      <4>4. QED BY <4>1, <4>2, <4>3
    <3>2. CASE i # Len(handled) + 1
      <4>1. i \in DOMAIN handled /\ handled'[i] = handled[i]
        BY <1>4, <3>2
      <4>2. QED BY <1>2, <2>1, <4>1 DEF History, NoPatternHandled
    <3>3. QED BY <3>1, <3>2
  <2>2. QED BY <2>1 DEF NoPatternHandled
<1>12. BlockedForCause'
  <2>1. ASSUME NEW i \in DOMAIN handled', handled'[i].by = "blacklist",
               \A p \in 1 .. handled'[i].n : WellFormed(asked[p])
        PROVE  LET q == handled'[i].n
                   withBody == {p \in 1 .. q : HasBody(asked[p])}
               IN  \/ asked[q].path = "/s/javascript:"
                   \/ withBody # {} /\ asked[Max(withBody)].bad
    <3>1. CASE i = Len(handled) + 1
      <4>1. handled'[i].n = n /\ by = "blacklist"
        BY <1>4, <1>5, <2>1, <3>1
      <4> DEFINE withBody == {p \in 1 .. n : HasBody(asked[p])}
      <4>2. CASE asked[n].path = "/s/javascript:"
        BY <4>1, <4>2
      <4>3. CASE asked[n].path # "/s/javascript:"
        <5>1. BadBody
          BY <1>6, <4>1, <4>3 DEF Matches, Known
        <5>2. PICK j \in DOMAIN request.content : asked[request.content[j]].bad
          BY <5>1 DEF BadBody
        <5>3. m - 1 = n
          <6>1. WellFormed(asked[n])
            BY <1>6, <2>1, <4>1
          <6>2. ~Lengthless
            BY <6>1 DEF WellFormed, Lengthless
          <6>3. ~(n + 1 < m)
            BY <6>2 DEF Got
          <6>4. QED BY <1>6, <6>3
        <5> DEFINE b == request.content[j]
        <5>4. /\ b \in 1 .. n /\ HasBody(asked[b]) /\ asked[b].bad
              /\ \A p \in 1 .. n : HasBody(asked[p]) => p <= b
          <6>1. LatestBody(n)
            BY <5>3 DEF Parsing
          <6>2. \A p \in 1 .. n : WellFormed(asked[p])
            BY <2>1, <4>1
          <6>3. QED BY <5>2, <6>1, <6>2 DEF LatestBody
        <5> HIDE DEF b
        <5>5. b \in withBody /\ \A p \in withBody : b >= p
          BY <5>4
        <5>6. \A x \in withBody : (\A y \in withBody : x >= y) => x = b
          BY <5>4, <5>5
        <5> HIDE DEF withBody
        <5>7. Max(withBody) = b
          BY <5>5, <5>6 DEF Max
        <5>8. withBody # {} /\ asked[Max(withBody)].bad
          BY <5>4, <5>5, <5>7
        <5>9. QED BY <4>1, <5>8 DEF withBody
      <4>4. QED BY <4>2, <4>3
    <3>2. CASE i # Len(handled) + 1
      <4>1. i \in DOMAIN handled /\ handled'[i] = handled[i]
        BY <1>4, <3>2
      <4>2. QED BY <1>2, <2>1, <4>1 DEF History, BlockedForCause
    <3>3. QED BY <3>1, <3>2
  <2>2. QED BY <2>1 DEF BlockedForCause
<1>13. QED BY <1>9, <1>10, <1>11, <1>12 DEF History

\* The answer closes the connection if it has to, and only if it may.
LEMMA HandlesAnswered ==
    ASSUME Typed, Plain, NEW m \in 1 .. Len(asked) + 1, Parsing(m, 1), Got(m, 1),
           NEW by \in Makers, NEW close \in BOOLEAN,
           handled' = Append(handled, [n |-> request.n, body |-> request.content, by |-> by]),
           shut' = (shut \/ close),
           out' = IF shut THEN out ELSE Append(out, request.n),
           by \in {"noRoute", "cors"} => close,
           request.version = "HTTP/1.0" /\ request.conn # "Keep-Alive" => close,
           request.conn = "close" /\ by \notin {"rateLimit", "blacklist"} => close,
           close => \/ by \in {"noRoute", "cors"}
                    \/ request.version = "HTTP/1.0" /\ request.conn # "Keep-Alive"
                    \/ request.conn = "close",
           UNCHANGED asked
    PROVE  Answered'
<1> DEFINE e == [n |-> request.n, body |-> request.content, by |-> by]
<1>1. /\ handled \in Seq([n : Nat, body : Seq(Nat), by : Makers]) /\ out \in Seq(Nat)
      /\ Answered /\ shut \in BOOLEAN
  BY Present DEF Typed, Plain
<1>2. e \in [n : Nat, body : Seq(Nat), by : Makers]
  BY Present DEF Requests
<1>3. PICK n \in Nat : n = request.n
  BY Present DEF Requests
<1>4. /\ DOMAIN handled' = 1 .. Len(handled) + 1 /\ DOMAIN handled = 1 .. Len(handled)
      /\ Len(handled) \in Nat
      /\ \A i \in DOMAIN handled : handled'[i] = handled[i]
      /\ handled'[Len(handled) + 1].n = n /\ handled'[Len(handled) + 1].by = by
  <2>1. e.n = n /\ e.by = by
    BY <1>3
  <2> HIDE DEF e
  <2>2. handled' = Append(handled, e)
    BY DEF e
  <2>3. /\ handled' \in Seq([n : Nat, body : Seq(Nat), by : Makers])
        /\ Len(handled') = Len(handled) + 1
        /\ \A i \in 1 .. Len(handled) : handled'[i] = handled[i]
        /\ handled'[Len(handled) + 1] = e
    BY <1>1, <1>2, <2>2, AppendProperties
  <2>4. DOMAIN handled = 1 .. Len(handled) /\ Len(handled) \in Nat
    BY <1>1
  <2>5. DOMAIN handled' = 1 .. Len(handled')
    BY <2>3
  <2>6. QED BY <2>1, <2>3, <2>4, <2>5
<1> HIDE DEF e
<1>5. n \in 1 .. Len(asked) /\ n < m /\ Known /\ EarlierHandled
  BY <1>3 DEF Got, Known
<1>6. CASE shut
  <2>1. shut' /\ out' = out
    BY <1>6
  <2>2. PICK p \in Nat : MayClose(p) /\ \E i \in DOMAIN out : out[i] = p
    BY <1>1, <1>6 DEF Answered
  <2>3. MayClose(p)'
    <3>1. CASE MustClose(p)
      <4>1. CASE ~WellFormed(asked[p])
        BY <4>1 DEF MayClose, MustClose
      <4>2. CASE WellFormed(asked[p])
        <5>1. PICK i \in DOMAIN handled :
                /\ handled[i].n = p
                /\ \/ handled[i].by \in {"noRoute", "cors"}
                   \/ asked[p].version = "HTTP/1.0" /\ asked[p].conn # "Keep-Alive"
                   \/ asked[p].conn = "close" /\ handled[i].by \notin {"rateLimit", "blacklist"}
          BY <3>1, <4>2 DEF MustClose
        <5>2. i \in DOMAIN handled' /\ handled'[i] = handled[i]
          BY <1>4
        <5>3. QED BY <5>1, <5>2 DEF MayClose, MustClose
      <4>3. QED BY <4>1, <4>2
    <3>2. CASE ~MustClose(p)
      BY <2>2, <3>2 DEF MayClose, Strays
    <3>3. QED BY <3>1, <3>2
  <2>4. AnswersInOrder'
    BY <1>1, <2>1 DEF Answered, AnswersInOrder, Strays
  <2>5. QED BY <2>1, <2>2, <2>3, <2>4 DEF Answered
<1>7. CASE ~shut
  <2>1. out' = Append(out, n) /\ shut' = close
    BY <1>3, <1>7
  <2>2. n + 1 = m /\ Len(out) = n - 1 /\ Len(out) \in Nat
    <3>1. n + 1 = m
      BY <1>3, <1>5, <1>7 DEF Got, Lengthless
    <3>2. Len(out) = m - 2
      BY <1>7 DEF Parsing, Got
    <3>3. Len(out) \in Nat
      BY <1>1
    <3>4. QED BY <3>1, <3>2, <3>3
  <2>3. WellFormed(asked[n]) /\ request.conn = asked[n].conn
    BY <1>3, <1>7, <2>2 DEF Got
  <2>4. /\ Len(out') = n /\ DOMAIN out' = 1 .. n
        /\ \A i \in 1 .. n - 1 : out'[i] = out[i]
        /\ out'[n] = n
    <3>1. /\ out' \in Seq(Nat) /\ Len(out') = Len(out) + 1
          /\ \A i \in 1 .. Len(out) : out'[i] = out[i]
          /\ out'[Len(out) + 1] = n
      BY <1>1, <1>3, <2>1, AppendProperties
    <3>2. DOMAIN out' = 1 .. Len(out')
      BY <3>1
    <3>3. QED BY <1>3, <2>2, <3>1, <3>2
  <2>5. AnswersInOrder' /\ \A i \in DOMAIN out' : out'[i] = i
    <3>1. \A i \in 1 .. n - 1 : out[i] = i
      BY <1>1, <1>7, <2>2 DEF Answered
    <3>2. QED BY <1>3, <2>4, <3>1 DEF AnswersInOrder
  <2>6. CASE close
    <3>1. PICK last \in DOMAIN handled' : handled'[last].n = n /\ handled'[last].by = by
      BY <1>4
    <3>2. MayClose(n)'
      <4>1. CASE by \in {"noRoute", "cors"}
        BY <3>1, <4>1 DEF MayClose, MustClose
      <4>2. CASE request.version = "HTTP/1.0" /\ request.conn # "Keep-Alive"
        <5>1. asked[n].version = "HTTP/1.0" /\ asked[n].conn # "Keep-Alive"
          BY <1>3, <1>5, <2>3, <4>2 DEF Known
        <5>2. QED BY <3>1, <5>1 DEF MayClose, MustClose
      <4>3. CASE request.conn = "close"
        BY <2>3, <4>3 DEF MayClose
      <4>4. QED BY <2>6, <4>1, <4>2, <4>3
    <3>3. shut' /\ \E i \in DOMAIN out' : out'[i] = n
      <4>1. n \in DOMAIN out'
        BY <1>3, <1>5, <2>4
      <4>2. shut'
        BY <2>1, <2>6
      <4>3. QED BY <2>4, <4>1, <4>2
    <3>4. QED BY <1>3, <2>5, <3>2, <3>3 DEF Answered
  <2>7. CASE ~close
    <3>1. ASSUME NEW p \in 1 .. n PROVE ~MustClose(p)'
      <4>1. CASE p = n
        <5>1. ASSUME NEW i \in DOMAIN handled', handled'[i].n = n
              PROVE  handled'[i].by = by
          <6>1. ~(i \in DOMAIN handled)
            BY <1>4, <1>3, <1>5, <5>1 DEF EarlierHandled
          <6>2. i = Len(handled) + 1
            BY <1>4, <6>1
          <6>3. QED BY <1>4, <6>2
        <5>2. /\ by \notin {"noRoute", "cors"}
              /\ ~(asked[n].version = "HTTP/1.0" /\ asked[n].conn # "Keep-Alive")
              /\ ~(asked[n].conn = "close" /\ by \notin {"rateLimit", "blacklist"})
          BY <1>3, <1>5, <2>3, <2>7 DEF Known
        <5>3. QED BY <2>3, <4>1, <5>1, <5>2 DEF MustClose
      <4>2. CASE p # n
        <5>1. p \in 1 .. Len(out) /\ ~MustClose(p)
          BY <1>1, <1>3, <1>7, <2>2, <4>2 DEF Answered
        <5>2. ASSUME NEW i \in DOMAIN handled', handled'[i].n = p
              PROVE  i \in DOMAIN handled /\ handled'[i] = handled[i]
          BY <1>4, <4>2, <5>2
        <5>3. QED BY <5>1, <5>2 DEF MustClose
      <4>3. QED BY <4>1, <4>2
    <3>2. ~shut'
      BY <2>1, <2>7
    <3>3. QED BY <2>4, <2>5, <3>1, <3>2 DEF Answered
  <2>8. QED BY <2>6, <2>7
<1>8. QED BY <1>1, <1>6, <1>7

\* After the answer the context is as new, but for the body it still holds.
LEMMA HandleKeeps ==
    ASSUME Inv, ~secure, NEW event \in Events, Handle(event)
    PROVE  Typed' /\ Plain'
<1>1. Typed /\ Plain
  BY DEF Inv
<1>2. PICK m \in 1 .. Len(asked) + 1 : Parsing(m, 1) /\ Got(m, 1)
  BY Handles
<1>3. PICK by \in Makers : \E close \in BOOLEAN :
        /\ handled' = Append(handled, [n |-> request.n, body |-> request.content, by |-> by])
        /\ shut' = (shut \/ close)
        /\ by \in Handlers => ~Matches(request, BadBody)
        /\ by = "blacklist" => Matches(request, BadBody)
        /\ by \in {"noRoute", "cors"} => close
        /\ request.version = "HTTP/1.0" /\ request.conn # "Keep-Alive" => close
        /\ request.conn = "close" /\ by \notin {"rateLimit", "blacklist"} => close
        /\ close => \/ by \in {"noRoute", "cors"}
                    \/ request.version = "HTTP/1.0" /\ request.conn # "Keep-Alive"
                    \/ request.conn = "close"
  BY Handles
<1>4. PICK close \in BOOLEAN :
        /\ handled' = Append(handled, [n |-> request.n, body |-> request.content, by |-> by])
        /\ shut' = (shut \/ close)
        /\ by \in Handlers => ~Matches(request, BadBody)
        /\ by = "blacklist" => Matches(request, BadBody)
        /\ by \in {"noRoute", "cors"} => close
        /\ request.version = "HTTP/1.0" /\ request.conn # "Keep-Alive" => close
        /\ request.conn = "close" /\ by \notin {"rateLimit", "blacklist"} => close
        /\ close => \/ by \in {"noRoute", "cors"}
                    \/ request.version = "HTTP/1.0" /\ request.conn # "Keep-Alive"
                    \/ request.conn = "close"
  BY <1>3
<1>5. /\ out' = IF shut THEN out ELSE Append(out, request.n)
      /\ pc' = "wait" /\ pc = "got" /\ state' = "line"
      /\ request' = Fresh(request.contentLength, request.content)
      /\ UNCHANGED <<secure, handshake, patient, asked, wire, buf>>
  BY Handles
<1>6. History'
  BY <1>1, <1>2, <1>4, <1>5, HandlesHistory
<1>7. Answered'
  BY <1>1, <1>2, <1>4, <1>5, HandlesAnswered
<1>8. PICK n \in 1 .. Len(asked) : n = request.n
  BY <1>2 DEF Got, Known
<1>9. /\ request \in Requests /\ shut \in BOOLEAN /\ out \in Seq(Nat)
      /\ \A i \in DOMAIN out : out[i] \in 1 .. Len(asked)
      /\ Len(asked) \in Nat
  BY <1>1, Present, AskedTyped
<1>10. n \in Nat /\ n < m /\ EarlierHandled
  BY <1>2, <1>8, <1>9 DEF Got
<1>11. /\ request'.n = 0 /\ request'.contentLength = request.contentLength
       /\ request'.content = request.content /\ request' \in Requests
       /\ request' = Fresh(request'.contentLength, request'.content)
  <2>1. request.contentLength \in Nat /\ request.content \in Seq(Nat)
    BY <1>9 DEF Requests
  <2>2. QED BY <1>5, <2>1 DEF Fresh, Requests, Methods, Versions, Conns, Lengths
<1>12. /\ out' \in Seq(Nat) /\ \A i \in DOMAIN out' : out'[i] \in 1 .. Len(asked)
       /\ ~shut => Len(out') = Len(out) + 1
  <2>1. CASE shut
    BY <1>5, <1>9, <2>1
  <2>2. CASE ~shut
    <3>1. out' = Append(out, n)
      BY <1>5, <1>8, <2>2
    <3>2. /\ out' \in Seq(Nat) /\ Len(out') = Len(out) + 1
          /\ \A i \in 1 .. Len(out) : out'[i] = out[i]
          /\ out'[Len(out) + 1] = n
      BY <1>9, <1>10, <3>1, AppendProperties
    <3>3. DOMAIN out' = 1 .. Len(out) + 1 /\ DOMAIN out = 1 .. Len(out) /\ Len(out) \in Nat
      BY <1>9, <3>2
    <3>4. ASSUME NEW i \in DOMAIN out' PROVE out'[i] \in 1 .. Len(asked)
      <4>1. CASE i = Len(out) + 1
        BY <3>2, <4>1
      <4>2. CASE i # Len(out) + 1
        <5>1. i \in DOMAIN out /\ out'[i] = out[i]
          BY <3>2, <3>3, <4>2
        <5>2. QED BY <1>9, <5>1
      <4>3. QED BY <4>1, <4>2
    <3>5. QED BY <3>2, <3>4
  <2>3. QED BY <1>9, <2>1, <2>2
<1> DEFINE e == [n |-> request.n, body |-> request.content, by |-> by]
           Records == [n : Nat, body : Seq(Nat), by : Makers]
<1>13. e \in Records /\ e.n = n /\ e.by = by
  BY <1>8, <1>9, <1>10 DEF Requests
<1>14. handled' = Append(handled, e)
  BY <1>4
<1> HIDE DEF e
<1>15. handled \in Seq(Records)
  BY <1>1 DEF Typed
<1>16. /\ handled' \in Seq(Records) /\ DOMAIN handled' = 1 .. Len(handled) + 1
       /\ DOMAIN handled = 1 .. Len(handled) /\ Len(handled) \in Nat
       /\ \A i \in DOMAIN handled : handled'[i] = handled[i]
       /\ handled'[Len(handled) + 1] = e
  <2> HIDE DEF Records
  <2>1. /\ handled' \in Seq(Records) /\ Len(handled') = Len(handled) + 1
        /\ \A i \in 1 .. Len(handled) : handled'[i] = handled[i]
        /\ handled'[Len(handled) + 1] = e
    BY <1>13, <1>14, <1>15, AppendProperties
  <2>2. DOMAIN handled = 1 .. Len(handled) /\ Len(handled) \in Nat
    BY <1>15
  <2>3. DOMAIN handled' = 1 .. Len(handled')
    BY <2>1
  <2>4. QED BY <2>1, <2>2, <2>3
<1>17. \A i \in DOMAIN handled' : i \in DOMAIN handled \/ i = Len(handled) + 1
  BY <1>16
<1>18. \A i \in DOMAIN handled' :
         /\ handled'[i].n \in 1 .. Len(asked) /\ handled'[i].by \in Makers
         /\ handled'[i].n < m
  <2>1. TAKE i \in DOMAIN handled'
  <2>2. CASE i = Len(handled) + 1
    BY <1>8, <1>10, <1>13, <1>16, <2>2
  <2>3. CASE i \in DOMAIN handled
    <3>1. handled'[i] = handled[i]
      BY <1>16, <2>3
    <3>2. handled[i].n < n
      BY <1>8, <1>10, <2>3 DEF EarlierHandled
    <3>3. handled[i].n \in 1 .. Len(asked) /\ handled[i].by \in Makers
      BY <1>1, <2>3 DEF Typed, TypeOK, Makers
    <3>4. handled[i].n < m
      BY <1>9, <1>10, <3>2, <3>3
    <3>5. QED BY <3>1, <3>3, <3>4
  <2>4. QED BY <1>17, <2>2, <2>3
<1>19. Typed'
  <2>1. /\ {secure', patient'} \subseteq BOOLEAN
        /\ handshake' \in {"nothing", "begun", "answered", "error"}
        /\ asked' \in Seq(Shapes)
    BY <1>1, <1>5 DEF Typed, TypeOK
  <2>2. shut' \in BOOLEAN
    BY <1>4, <1>9
  <2>3. request'.n \in 0 .. Len(asked') /\ request'.contentLength \in Nat
    <3>1. request'.contentLength \in Nat
      BY <1>9, <1>11 DEF Requests
    <3>2. QED BY <1>5, <1>9, <1>11, <3>1
  <2>4. /\ \A i \in DOMAIN out' : out'[i] \in 1 .. Len(asked')
        /\ \A i \in DOMAIN handled' :
              handled'[i].n \in 1 .. Len(asked') /\ handled'[i].by \in Makers
    BY <1>5, <1>12, <1>18
  <2>5. TypeOK'
    BY <1>5, <2>1, <2>2, <2>3, <2>4 DEF TypeOK, Makers
  <2>6. QED BY <1>11, <1>12, <1>16, <2>5 DEF Typed
<1>20. Parsing(m, 1)'
  <2>1. (Stream(m, 1) \/ Stray(m, 1))'
    <3>1. CASE Stream(m, 1)
      BY <1>5, <3>1 DEF Stream
    <3>2. CASE Stray(m, 1)
      BY <1>5, <3>2, StrayKept
    <3>3. QED BY <1>2, <3>1, <3>2 DEF Parsing
  <2>2. InLine(m, 1)'
    BY <1>5, <1>11, <1>18 DEF InLine
  <2>3. LatestBody(m - 1)'
    BY <1>2, <1>5, <1>11 DEF Parsing, LatestBody
  <2>4. (~shut => Len(out) = IF pc = "got" THEN m - 2 ELSE m - 1)'
    <3>1. ~shut' => ~shut
      BY <1>4
    <3>2. ~shut => Len(out) = m - 2
      BY <1>2, <1>5 DEF Parsing
    <3>3. QED BY <1>5, <1>12, <3>1, <3>2
  <2>5. QED BY <2>1, <2>2, <2>3, <2>4 DEF Parsing
<1>21. buf' \in Seq(Tokens) /\ wire' \in Seq(Tokens)
  BY <1>1, <1>5 DEF Plain
<1>22. m \in 1 .. Len(asked') + 1 /\ 1 \in Nat \ {0}
  BY <1>5
<1>23. QED BY <1>6, <1>7, <1>19, <1>20, <1>21, <1>22 DEF Plain

-----------------------------------------------------------------------------
(* One more request is sent.                                               *)

\* Of some of the first q requests one is the latest.
LEMMA LatestOfSome ==
    ASSUME NEW q \in Nat, NEW T \in SUBSET (1 .. q), T # {}
    PROVE  Max(T) \in T
<1> DEFINE D == {d \in Nat : q - d \in T}
           R == OpToRel(<, Nat)
<1>1. \A x, y \in Nat : x < y => <<x, y>> \in R
  BY Zenon DEF OpToRel
<1>2. IsWellFoundedOn(R, Nat)
  BY NatLessThanWellFounded, Zenon
<1> HIDE DEF R
<1>3. D \subseteq Nat /\ D # {}
  <2>1. PICK t \in T : TRUE
    OBVIOUS
  <2>2. q - t \in D
    BY <2>1
  <2>3. QED BY <2>2
<1>4. PICK d \in D : \A y \in D : ~(<<y, d>> \in R)
  <2> HIDE DEF D
  <2>1. QED BY <1>2, <1>3, WFMin
<1>5. ASSUME NEW y \in D PROVE d <= y
  <2>1. y \in Nat /\ d \in Nat
    BY <1>3
  <2>2. ~(y < d)
    BY <1>1, <1>4, <2>1
  <2>3. QED BY <2>1, <2>2
<1>6. q - d \in T /\ \A y \in T : q - d >= y
  <2>1. ASSUME NEW y \in T PROVE q - d >= y
    <3>1. y \in Nat /\ q - y \in D
      OBVIOUS
    <3>2. QED BY <1>3, <1>5, <3>1
  <2>2. QED BY <2>1
<1>7. QED BY <1>6 DEF Max

\* What Ask does; what has been asked stays.
LEMMA Asks ==
    ASSUME Typed, NEW s \in Shapes, Ask(s)
    PROVE  /\ Typed'
           /\ Len(asked') = Len(asked) + 1 /\ Len(asked) \in Nat
           /\ \A n \in 1 .. Len(asked) : asked'[n] = asked[n]
           /\ asked'[Len(asked) + 1] = s /\ asked' = Append(asked, s)
           /\ wire' = wire \o Message(Len(asked) + 1, s)
           /\ UNCHANGED <<secure, handshake, patient, buf, pc, state, request, shut, out,
                          handled>>
<1>1. /\ asked' = Append(asked, s) /\ wire' = wire \o Message(Len(asked) + 1, s)
      /\ UNCHANGED <<secure, handshake, patient, buf, pc, state, request, shut, out, handled>>
  BY DEF Ask, sslVars, contextVars, replyVars
<1>2. asked \in Seq(Shapes) /\ Len(asked) \in Nat
  BY AskedTyped
<1>3. /\ asked' \in Seq(Shapes) /\ Len(asked') = Len(asked) + 1
      /\ \A n \in 1 .. Len(asked) : asked'[n] = asked[n]
      /\ asked'[Len(asked) + 1] = s
  BY <1>1, <1>2, AppendProperties
<1>4. \A i \in 1 .. Len(asked) : i \in 1 .. Len(asked')
  BY <1>2, <1>3
<1>5. Typed'
  <2>1. request'.n \in 0 .. Len(asked')
    BY <1>1, <1>2, <1>3, Present
  <2>2. \A i \in DOMAIN out' : out'[i] \in 1 .. Len(asked')
    BY <1>1, <1>4 DEF Typed, TypeOK
  <2>3. \A i \in DOMAIN handled' :
          /\ handled'[i].n \in 1 .. Len(asked')
          /\ handled'[i].by \in Handlers \cup {"noRoute", "cors", "rateLimit", "blacklist"}
    BY <1>1, <1>4 DEF Typed, TypeOK
  <2>4. TypeOK'
    BY <1>1, <1>3, <2>1, <2>2, <2>3 DEF Typed, TypeOK
  <2>5. QED BY <1>1, <2>4 DEF Typed
<1>6. QED BY <1>1, <1>2, <1>3, <1>5

\* What has been handled and answered is not affected.
LEMMA AskKeepsReplies ==
    ASSUME Typed, Plain, NEW s \in Shapes, Ask(s)
    PROVE  Answered' /\ History'
<1>1. /\ Answered /\ History
      /\ \A n \in 1 .. Len(asked) : asked'[n] = asked[n]
      /\ UNCHANGED <<shut, out, handled>>
      /\ \A i \in DOMAIN handled : handled[i].n \in 1 .. Len(asked)
  BY Asks DEF Typed, TypeOK, Plain
<1>2. /\ \A i \in DOMAIN out : out[i] \in 1 .. Len(asked)
      /\ DOMAIN out = 1 .. Len(out)
  BY Present
<1>3. Answered'
  <2>1. /\ DOMAIN asked = 1 .. Len(asked) /\ DOMAIN asked' = 1 .. Len(asked) + 1
        /\ Len(asked) \in Nat
    BY Asks DEF Typed, TypeOK
  <2>2. ASSUME NEW n \in 1 .. Len(asked)
        PROVE  (n \in Strays)' <=> n \in Strays
    BY <1>1, <2>1 DEF Strays
  <2>3. ASSUME NEW n \in 1 .. Len(asked)
        PROVE  MustClose(n)' = MustClose(n) /\ MayClose(n)' = MayClose(n)
    BY <1>1, <2>2 DEF MustClose, MayClose
  <2>4. AnswersInOrder'
    <3>1. Strays \subseteq Strays'
      BY <2>1, <2>2 DEF Strays
    <3>2. QED BY <1>1, <3>1 DEF Answered, AnswersInOrder
  <2>5. (~shut => /\ \A i \in DOMAIN out : out[i] = i
                  /\ \A n \in 1 .. Len(out) : ~MustClose(n))'
    <3>1. SUFFICES ASSUME ~shut PROVE /\ \A i \in DOMAIN out : out[i] = i
                                      /\ \A n \in 1 .. Len(out) : ~MustClose(n)'
      BY <1>1
    <3>2. \A i \in DOMAIN out : out[i] = i
      BY <1>1, <3>1 DEF Answered
    <3>3. ASSUME NEW n \in 1 .. Len(out) PROVE ~MustClose(n)'
      <4>1. ~MustClose(n)
        BY <1>1, <3>1 DEF Answered
      <4>2. n \in 1 .. Len(asked)
        BY <1>2, <3>2
      <4>3. QED BY <2>3, <4>1, <4>2
    <3>4. QED BY <3>2, <3>3
  <2>6. (shut => \E n \in Nat : MayClose(n) /\ \E i \in DOMAIN out : out[i] = n)'
    <3>1. SUFFICES ASSUME shut
                   PROVE  \E n \in Nat : MayClose(n)' /\ \E i \in DOMAIN out : out[i] = n
      BY <1>1
    <3>2. PICK n \in Nat : MayClose(n) /\ \E i \in DOMAIN out : out[i] = n
      BY <1>1, <3>1 DEF Answered
    <3>3. MayClose(n)'
      BY <1>2, <2>3, <3>2
    <3>4. QED BY <3>2, <3>3
  <2>7. QED BY <2>4, <2>5, <2>6 DEF Answered
<1>4. OwnBody' /\ HandledOnce' /\ NoPatternHandled'
  BY <1>1 DEF History, OwnBody, HandledOnce, NoPatternHandled
<1>5. BlockedForCause'
  <2>1. ASSUME NEW i \in DOMAIN handled, handled[i].by = "blacklist",
               \A p \in 1 .. handled[i].n : WellFormed(asked'[p])
        PROVE  LET q == handled[i].n
                   withBody == {p \in 1 .. q : HasBody(asked'[p])}
               IN  \/ asked'[q].path = "/s/javascript:"
                   \/ withBody # {} /\ asked'[Max(withBody)].bad
    <3>1. PICK q \in 1 .. Len(asked) : q = handled[i].n
      BY <1>1
    <3>2. \A p \in 1 .. q : p \in 1 .. Len(asked) /\ asked'[p] = asked[p]
      BY <1>1, Asks
    <3>3. {p \in 1 .. q : HasBody(asked'[p])} = {p \in 1 .. q : HasBody(asked[p])}
      BY <3>2
    <3> DEFINE withBody == {p \in 1 .. q : HasBody(asked[p])}
    <3>4. \/ asked[q].path = "/s/javascript:"
          \/ withBody # {} /\ asked[Max(withBody)].bad
      BY <1>1, <2>1, <3>1, <3>2 DEF History, BlockedForCause
    <3>5. CASE asked[q].path = "/s/javascript:"
      BY <1>1, <3>1, <3>5
    <3>6. CASE withBody # {} /\ asked[Max(withBody)].bad
      <4>1. Max(withBody) \in withBody
        <5>1. withBody \in SUBSET (1 .. q) /\ withBody # {} /\ q \in Nat
          BY <3>6
        <5> HIDE DEF withBody
        <5>2. QED BY <5>1, LatestOfSome
      <4>2. QED BY <1>1, <3>1, <3>2, <3>3, <3>6, <4>1
    <3>7. QED BY <3>4, <3>5, <3>6
  <2>2. QED BY <1>1, <2>1 DEF BlockedForCause
<1>6. QED BY <1>3, <1>4, <1>5 DEF History

LEMMA AskKeeps ==
    ASSUME Inv, ~secure, NEW s \in Shapes, Ask(s)
    PROVE  Typed' /\ Plain'
<1>1. Typed /\ Plain
  BY DEF Inv
<1>2. /\ Typed'
      /\ Len(asked') = Len(asked) + 1 /\ Len(asked) \in Nat
      /\ \A n \in 1 .. Len(asked) : asked'[n] = asked[n]
      /\ asked'[Len(asked) + 1] = s /\ asked' = Append(asked, s)
      /\ wire' = wire \o Message(Len(asked) + 1, s)
      /\ UNCHANGED <<secure, handshake, patient, buf, pc, state, request, shut, out, handled>>
  BY <1>1, Asks
<1>3. Answered' /\ History'
  BY <1>1, AskKeepsReplies
<1>4. PICK m \in 1 .. Len(asked) + 1 : \E k \in Nat \ {0} : Parsing(m, k)
  BY <1>1 DEF Plain
<1>5. PICK k \in Nat \ {0} : Parsing(m, k)
  BY <1>4
<1>6. s \in AllShapes
  BY ConnectionAssumption
<1>7. buf \in Seq(Tokens) /\ wire \in Seq(Tokens) /\ asked \in Seq(Shapes)
  BY <1>1, AskedTyped DEF Plain
<1> DEFINE M == Message(Len(asked) + 1, s)
<1>8. M \in Seq(Tokens)
  <2>1. Len(asked) + 1 \in Nat
    BY <1>2
  <2>2. QED BY <1>6, <2>1, MessageTokens
<1>9. wire' = wire \o M /\ buf' = buf
  BY <1>2
<1> HIDE DEF M
<1>10. wire' \in Seq(Tokens) /\ buf' \o wire' = (buf \o wire) \o M
  <2>1. buf \in Seq(Tokens) /\ wire \in Seq(Tokens) /\ M \in Seq(Tokens)
    BY <1>7, <1>8
  <2>2. wire \o M \in Seq(Tokens) /\ buf \o (wire \o M) = (buf \o wire) \o M
    BY <2>1
  <2>3. QED BY <1>9, <2>2
<1>11. (Stream(m, k) \/ Stray(m, k))'
  <2>1. buf \o wire \in Seq(Tokens)
    BY <1>7
  <2>2. CASE Stream(m, k)
    <3>1. Follows((buf \o wire) \o M, Append(asked, s), m, k)
      BY <1>7, <2>1, <2>2, FollowsAsk DEF M, Stream
    <3>2. QED BY <1>2, <1>10, <3>1 DEF Stream
  <2>3. CASE Stray(m, k)
    <3>1. m - 1 \in Strays'
      BY <1>2, <1>7, <2>3 DEF Stray, Strays
    <3>2. (buf \o wire)' # <<>> /\ (buf \o wire)'[1] = (buf \o wire)[1]
      <4> DEFINE str == buf \o wire
      <4>1. str \in Seq(Tokens) /\ str # <<>> /\ (buf \o wire)' = str \o M
        BY <1>10, <2>1, <2>3 DEF Stray
      <4> HIDE DEF str
      <4>2. Len(str) \in Nat \ {0} /\ 1 \in 1 .. Len(str)
        BY <4>1
      <4>3. /\ (str \o M)[1] = str[1] /\ Len(str \o M) = Len(str) + Len(M)
            /\ Len(M) \in Nat
        BY <1>8, <4>1, <4>2, Joined
      <4>4. str \o M # <<>>
        BY <4>2, <4>3
      <4>5. QED BY <4>1, <4>3, <4>4 DEF str
    <3>3. QED BY <1>2, <2>3, <3>1, <3>2 DEF Stray
  <2>4. QED BY <1>5, <2>2, <2>3 DEF Parsing
<1>12. request.n \in 1 .. Len(asked) => asked'[request.n] = asked[request.n]
  BY <1>2
<1>13. (InLine(m, k) \/ InHead(m, k) \/ InBody(m, k) \/ Got(m, k))'
  <2>1. CASE InLine(m, k)
    BY <1>2, <2>1 DEF InLine
  <2>2. CASE InHead(m, k)
    <3>1. (Known /\ EarlierHandled)' /\ (Lengthless => Lengthless')
      BY <1>2, <1>12, <2>2 DEF InHead, Known, EarlierHandled, Lengthless
    <3>2. LengthAt(s) \in {2, 3} /\ HeadSize(s) \in 2 .. 5
      BY <1>6, Sizes
    <3>3. CASE m \in 1 .. Len(asked)
      <4>1. asked'[m] = asked[m] /\ m <= Len(asked) /\ m <= Len(asked') /\ m # Len(asked') + 1
        BY <1>2, <3>3
      <4>2. InHead(m, k)'
        BY <1>2, <2>2, <3>1, <4>1 DEF InHead
      <4>3. QED BY <4>2
    <3>4. CASE m = Len(asked) + 1
      <4>1. /\ asked'[m] = s /\ ~(m <= Len(asked)) /\ m <= Len(asked') /\ m # Len(asked') + 1
            /\ k = 1
        BY <1>2, <2>2, <3>4 DEF InHead
      <4>2. request.n < m /\ shut /\ request.length = NoLength
        <5>1. request.n # m /\ request.n <= m /\ request.n \in Nat
          BY <1>2, <2>2, <3>4 DEF InHead, Known
        <5>2. request.n < m
          BY <1>2, <5>1
        <5>3. QED BY <2>2, <4>1, <5>2 DEF InHead, Lengthless
      <4>3. k <= HeadSize(s) /\ ~(k > LengthAt(s))
        BY <3>2, <4>1
      <4>4. InHead(m, k)'
        BY <1>2, <2>2, <3>1, <4>1, <4>2, <4>3 DEF InHead
      <4>5. QED BY <4>4
    <3>5. QED BY <1>2, <3>3, <3>4
  <2>3. CASE InBody(m, k)
    <3>1. (Known /\ EarlierHandled)' /\ (Lengthless => Lengthless')
      <4>1. Known /\ EarlierHandled
        BY <2>3 DEF InBody
      <4>2. request.n \in 1 .. Len(asked')
        BY <1>2, <4>1 DEF Known
      <4>3. QED BY <1>2, <1>12, <4>1, <4>2 DEF Known, EarlierHandled, Lengthless
    <3>2. m \in 1 .. Len(asked)
      BY <1>2, <2>3 DEF InBody
    <3>3. asked'[m] = asked[m] /\ m <= Len(asked')
      BY <1>2, <3>2
    <3>4. InBody(m, k)'
      BY <1>2, <2>3, <3>1, <3>3 DEF InBody
    <3>5. QED BY <3>4
  <2>4. CASE Got(m, k)
    <3>1. (Known /\ EarlierHandled)' /\ (Lengthless => Lengthless')
      BY <1>2, <1>12, <2>4 DEF Got, Known, EarlierHandled, Lengthless
    <3>2. asked'[request.n] = asked[request.n]
      BY <1>12, <2>4 DEF Got, Known
    <3>3. Got(m, k)'
      BY <1>2, <2>4, <3>1, <3>2 DEF Got
    <3>4. QED BY <3>3
  <2>5. QED BY <1>5, <2>1, <2>2, <2>3, <2>4 DEF Parsing
<1>14. LatestBody(m - 1)'
  <2>1. LatestBody(m - 1)
    BY <1>5 DEF Parsing
  <2>2. \A n \in 1 .. m - 1 : n \in 1 .. Len(asked) /\ asked'[n] = asked[n]
    BY <1>2
  <2>3. QED BY <1>2, <2>1, <2>2 DEF LatestBody
<1>15. (~shut => Len(out) = IF pc = "got" THEN m - 2 ELSE m - 1)'
  BY <1>2, <1>5 DEF Parsing
<1>16. Parsing(m, k)'
  BY <1>11, <1>13, <1>14, <1>15 DEF Parsing
<1>17. m \in 1 .. Len(asked') + 1
  BY <1>2
<1>18. QED BY <1>2, <1>3, <1>7, <1>10, <1>16, <1>17 DEF Plain

-----------------------------------------------------------------------------
(* A server with TLS.                                                      *)

LEMMA SecureKeeps ==
    ASSUME Typed, Silent, secure, SayHello \/ DeliverSecure
    PROVE  Typed' /\ Silent'
<1>1. CASE SayHello
  <2>1. UNCHANGED <<secure, handshake, patient, asked, buf, pc, state, request, shut, out,
                    handled>>
    BY <1>1 DEF SayHello, sslVars, contextVars, replyVars
  <2>2. Typed'
    BY <2>1, Present, TypesKept
  <2>3. QED BY <2>1, <2>2 DEF Silent
<1>2. CASE DeliverSecure
  <2>1. PICK i \in 1 .. Len(wire) : handshake' = Progress(SubSeq(wire, 1, i))
    BY <1>2 DEF DeliverSecure
  <2>2. /\ shut' = (shut \/ handshake' = "error")
        /\ UNCHANGED <<secure, patient, asked, buf, pc, state, request, out, handled>>
    BY <1>2 DEF DeliverSecure, contextVars
  <2>3. /\ handshake' \in {"begun", "answered", "error"}
        /\ handshake = "error" => handshake' = "error"
    BY <2>1 DEF Progress
  <2>4. shut' <=> handshake' = "error"
    BY <2>2, <2>3 DEF Silent
  <2>5. TypeOK'
    <3>1. shut' \in BOOLEAN
      BY <2>2, Present
    <3>2. handshake' \in {"nothing", "begun", "answered", "error"}
      BY <2>3
    <3>3. QED BY <2>2, <3>1, <3>2 DEF Typed, TypeOK
  <2>6. QED BY <2>2, <2>4, <2>5 DEF Typed, Silent
<1>3. QED BY <1>1, <1>2

-----------------------------------------------------------------------------
(* The invariant.                                                          *)

LEMMA InitInv == Init => Inv
<1> SUFFICES ASSUME Init PROVE Inv
  OBVIOUS
<1>1. /\ asked = <<>> /\ wire = <<>> /\ buf = <<>> /\ out = <<>> /\ handled = <<>>
      /\ pc = "wait" /\ state = "line" /\ shut = FALSE /\ handshake = "nothing"
      /\ secure \in BOOLEAN /\ patient \in BOOLEAN
      /\ request = Fresh(0, <<>>)
  BY DEF Init
<1>2. Len(asked) = 0 /\ Len(out) = 0 /\ DOMAIN out = {} /\ DOMAIN handled = {}
  BY <1>1
<1>3. /\ request.n = 0 /\ request.contentLength = 0 /\ request.content = <<>>
      /\ request \in Requests
  BY <1>1 DEF Fresh, Requests, Methods, Versions, Conns, Lengths
<1>4. Typed
  <2>1. TypeOK
    <3>1. asked \in Seq(Shapes)
      BY <1>1
    <3>2. request.n \in 0 .. Len(asked) /\ request.contentLength \in Nat
      BY <1>2, <1>3
    <3>3. QED BY <1>1, <1>2, <3>1, <3>2 DEF TypeOK
  <2>2. out \in Seq(Nat) /\ handled \in Seq([n : Nat, body : Seq(Nat), by : Makers])
    BY <1>1
  <2>3. QED BY <1>3, <2>1, <2>2 DEF Typed
<1>5. Silent
  BY <1>1 DEF Silent
<1>6. Plain
  <2>1. buf \in Seq(Tokens) /\ wire \in Seq(Tokens)
    BY <1>1
  <2>2. Stream(1, 1)
    <3>1. (buf \o wire) = <<>>
      BY <1>1
    <3>2. Len(buf \o wire) = 0
      BY <3>1
    <3> DEFINE first == [i \in 1 .. 1 |-> 1]
    <3>3. /\ first \in [1 .. Len(asked) + 1 -> Int]
          /\ first[1] = 2 - 1 /\ first[Len(asked) + 1] = Len(buf \o wire) + 1
      BY <1>2, <3>2
    <3>4. \A n \in 1 .. Len(asked) : FALSE
      BY <1>2
    <3> HIDE DEF first
    <3>5. QED BY <3>3, <3>4 DEF Stream, Follows
  <2>3. InLine(1, 1)
    BY <1>1, <1>2, <1>3 DEF InLine
  <2>4. LatestBody(1 - 1)
    BY <1>3 DEF LatestBody
  <2>5. Parsing(1, 1)
    BY <1>1, <1>2, <2>2, <2>3, <2>4 DEF Parsing
  <2>6. Answered
    BY <1>1, <1>2 DEF Answered, AnswersInOrder
  <2>7. History
    BY <1>2 DEF History, OwnBody, HandledOnce, NoPatternHandled, BlockedForCause
  <2>8. 1 \in 1 .. Len(asked) + 1 /\ 1 \in Nat \ {0}
    BY <1>2
  <2>9. QED BY <2>1, <2>5, <2>6, <2>7, <2>8 DEF Plain
<1>7. QED BY <1>4, <1>5, <1>6 DEF Inv

\* A step of the loop, on a server without TLS.
LEMMA LoopKeeps ==
    ASSUME Inv, ~secure, Loop
    PROVE  Typed' /\ Plain'
<1>1. CASE ParseLine
  BY <1>1, ParseLineKeeps
<1>2. CASE RefuseLine
  BY <1>2, RefuseLineKeeps
<1>3. CASE ParseHeader
  BY <1>3, ParseHeaderKeeps
<1>4. CASE RefuseHeader
  BY <1>4, RefuseHeaderKeeps
<1>5. CASE EndHead
  BY <1>5, EndHeadKeeps
<1>6. CASE ExpectBody
  BY <1>6, ExpectBodyKeeps
<1>7. CASE RefuseLength
  BY <1>7, RefuseLengthKeeps
<1>8. CASE ParseBody
  BY <1>8, ParseBodyKeeps
<1>9. CASE NeedMore
  BY <1>9, NeedMoreKeeps
<1>10. CASE \E event \in Events : Handle(event)
  <2>1. PICK event \in Events : Handle(event)
    BY <1>10
  <2>2. QED BY <2>1, HandleKeeps
<1>11. QED
  BY <1>1, <1>2, <1>3, <1>4, <1>5, <1>6, <1>7, <1>8, <1>9, <1>10 DEF Loop

LEMMA LoopNeedsInput == Loop => pc # "wait"
<1>1. \A st, kinds : Sees(st, kinds) => pc # "wait"
  BY DEF Sees
<1>2. \A event : Handle(event) => pc # "wait"
  BY DEF Handle
<1>3. QED
  BY <1>1, <1>2 DEF Loop, ParseLine, RefuseLine, ParseHeader, RefuseHeader, EndHead,
                    ExpectBody, RefuseLength, ParseBody, NeedMore

LEMMA SecureKept == Next => UNCHANGED secure
<1> SUFFICES ASSUME Next PROVE secure' = secure
  OBVIOUS
<1>1. (\E s \in Shapes : Ask(s)) \/ SayHello \/ Deliver \/ DeliverSecure \/ Rest
        => secure' = secure
  BY DEF Ask, SayHello, Deliver, DeliverSecure, Rest, sslVars, vars
<1>2. (\E event \in Events : Handle(event)) => secure' = secure
  BY DEF Handle, sslVars
<1>3. Loop => secure' = secure
  BY <1>2 DEF Loop, ParseLine, RefuseLine, ParseHeader, RefuseHeader, EndHead,
              ExpectBody, RefuseLength, ParseBody, NeedMore, sslVars
<1>4. QED BY <1>1, <1>3 DEF Next

LEMMA StepKeeps == Inv /\ [Next]_vars => Inv'
<1> SUFFICES ASSUME Inv, [Next]_vars PROVE Inv'
  OBVIOUS
<1>1. CASE UNCHANGED vars
  <2>1. UNCHANGED <<secure, handshake, patient, asked, wire, buf, pc, state, request, shut, out,
                    handled>>
    BY <1>1 DEF vars, sslVars, clientVars, contextVars, replyVars
  <2>2. Typed => Typed'
    BY <2>1 DEF Typed, TypeOK
  <2>3. Silent => Silent'
    BY <2>1 DEF Silent
  <2>4. Plain => Plain'
    <3> SUFFICES ASSUME Plain PROVE Plain'
      OBVIOUS
    <3>1. PICK m \in 1 .. Len(asked) + 1 : \E k \in Nat \ {0} : Parsing(m, k)
      BY DEF Plain
    <3>2. PICK k \in Nat \ {0} : Parsing(m, k)
      BY <3>1
    <3>3. Parsing(m, k)'
      BY <2>1, <3>2 DEF Parsing, Stream, Stray, Strays, InLine, InHead, InBody, Got, Known,
                        EarlierHandled, Lengthless, LatestBody
    <3>4. (Answered /\ History)'
      BY <2>1, AnswersNothing
    <3>5. QED BY <2>1, <3>3, <3>4 DEF Plain
  <2>5. QED BY <2>1, <2>2, <2>3, <2>4 DEF Inv
<1>2. CASE Next /\ secure
  <2>1. Typed /\ Silent /\ secure'
    BY <1>2, SecureKept DEF Inv
  <2>2. pc = "wait" /\ ~Loop /\ ~Deliver
    BY <1>2, <2>1, LoopNeedsInput DEF Silent, Deliver, Secured
  <2>3. CASE \E s \in Shapes : Ask(s)
    <3>1. PICK s \in Shapes : Ask(s)
      BY <2>3
    <3>2. Typed' /\ UNCHANGED <<handshake, pc, shut, out, handled>>
      BY <2>1, <3>1, Asks
    <3>3. QED BY <2>1, <3>2 DEF Inv, Silent
  <2>4. CASE SayHello \/ DeliverSecure
    BY <1>2, <2>1, <2>4, SecureKeeps DEF Inv
  <2>5. CASE Rest
    BY <1>1, <2>5 DEF Rest
  <2>6. QED BY <1>2, <2>2, <2>3, <2>4, <2>5 DEF Next
<1>3. CASE Next /\ ~secure
  <2>1. ~secure'
    BY <1>3, SecureKept
  <2>2. ~SayHello /\ ~DeliverSecure
    BY <1>3 DEF SayHello, DeliverSecure, Secured
  <2>3. CASE \E s \in Shapes : Ask(s)
    <3>1. PICK s \in Shapes : Ask(s)
      BY <2>3
    <3>2. QED BY <1>3, <2>1, <3>1, AskKeeps DEF Inv
  <2>4. CASE Deliver
    BY <1>3, <2>1, <2>4, DeliverKeeps DEF Inv
  <2>5. CASE Loop
    BY <1>3, <2>1, <2>5, LoopKeeps DEF Inv
  <2>6. CASE Rest
    BY <1>1, <2>6 DEF Rest
  <2>7. QED BY <1>3, <2>2, <2>3, <2>4, <2>5, <2>6 DEF Next
<1>4. QED BY <1>1, <1>2, <1>3

\* At every moment, in whatever pieces the stream arrives, the input buffer and the
\* wire hold the rest of what the client has sent, from the token on at which
\* parseRequest is, and the context knows what the tokens before it have said
\* (HttpServer::onMessage, HttpContext::parseRequest, reset).
THEOREM Invariance == Spec => []Inv
<1>1. QED BY InitInv, StepKeeps, PTL DEF Spec

\* Of both kinds of server: what is handled and answered is as it should be.
LEMMA InvSays ==
    Inv => TypeOK /\ AnswersInOrder /\ History /\ ClosesForCause
<1> SUFFICES ASSUME Inv PROVE TypeOK /\ AnswersInOrder /\ History /\ ClosesForCause
  OBVIOUS
<1>1. TypeOK
  BY DEF Inv, Typed
<1>2. CASE secure
  <2>1. out = <<>> /\ handled = <<>> /\ (shut <=> handshake = "error")
    BY <1>2 DEF Inv, Silent
  <2>2. DOMAIN out = {} /\ DOMAIN handled = {}
    BY <2>1
  <2>3. AnswersInOrder /\ History
    BY <2>2 DEF AnswersInOrder, History, OwnBody, HandledOnce, NoPatternHandled,
                BlockedForCause
  <2>4. QED BY <1>1, <1>2, <2>1, <2>3 DEF ClosesForCause
<1>3. CASE ~secure
  <2>1. Answered /\ History
    BY <1>3 DEF Inv, Plain
  <2>2. AnswersInOrder /\ DOMAIN out = 1 .. Len(out)
    BY <2>1, Present DEF Answered, Inv
  <2>3. ClosesForCause
    <3>1. (\E i \in DOMAIN out : MustClose(out[i])) => shut
      BY <2>1, <2>2 DEF Answered
    <3>2. shut => \E i \in DOMAIN out : MayClose(out[i])
      BY <2>1 DEF Answered
    <3>3. QED BY <3>1, <3>2 DEF ClosesForCause
  <2>4. QED BY <1>1, <2>1, <2>2, <2>3
<1>4. QED BY <1>2, <1>3

\* What the connection, its context and its history hold is of the types that the
\* code declares, and only what has been asked is handled or answered
\* (HttpContext, HttpServer::onRequest).
THEOREM TypeCorrect == Spec => []TypeOK
<1>1. QED BY Invariance, InvSays, PTL

\* So long as no request has left its body in the buffer, responses go out in the
\* order of the requests, one for each, however the bytes are cut and pipelined,
\* until the connection is shut down (HttpServer::onMessage).
THEOREM InOrder == Spec => []AnswersInOrder
<1>1. QED BY Invariance, InvSays, PTL

\* A handler is given the body bytes of its own request when there are any, all of
\* them and no others (HttpContext::parseRequest).
THEOREM BodyIsOwn == Spec => []OwnBody
<1>1. Inv => OwnBody
  BY InvSays DEF History
<1>2. QED BY Invariance, <1>1, PTL

\* No request is passed on twice or before an earlier one, also none that comes in
\* after a 400 (HttpContext::reset).
THEOREM PassedOnOnce == Spec => []HandledOnce
<1>1. Inv => HandledOnce
  BY InvSays DEF History
<1>2. QED BY Invariance, <1>1, PTL

\* No handler sees a request in whose body or path the blacklist has a pattern
\* (BlacklistMiddleware::before, searching what parseRequest has put together).
THEOREM PatternsStopped == Spec => []NoPatternHandled
<1>1. Inv => NoPatternHandled
  BY InvSays DEF History
<1>2. QED BY Invariance, <1>1, PTL

\* The blacklist refuses for a pattern of the request itself or, as reset keeps the
\* content, of the latest body before it; never for what comes later
\* (BlacklistMiddleware::before, HttpContext::reset).
THEOREM RefusedForCause == Spec => []BlockedForCause
<1>1. Inv => BlockedForCause
  BY InvSays DEF History
<1>2. QED BY Invariance, <1>1, PTL

\* The connection is shut down by an answer that has to do so, and by none that may
\* not: no header of one request acts on another (HttpServer::onRequest).
THEOREM ClosedForCause == Spec => []ClosesForCause
<1>1. QED BY Invariance, InvSays, PTL
=============================================================================
