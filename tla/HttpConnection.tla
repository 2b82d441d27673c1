--------------------------- MODULE HttpConnection ---------------------------
(***************************************************************************)
(* A connection to the HTTP server of Rserve (http.c): a client that sends *)
(* requests, and the process that was forked for it and calls              *)
(* http_input_iteration as long as the socket is open.                     *)
(*                                                                         *)
(* What is sent is a sequence of units: a request line, the name of a      *)
(* header, a piece of text, CR, LF, or a unit of a body.  They arrive one  *)
(* by one, so that recv may find any part of what was sent.                *)
(***************************************************************************)
EXTENDS Naturals, Sequences, FiniteSets, SequencesExt

CONSTANTS Requests,     \* the requests of the client
          MaxRequests,  \* bound: requests of a connection
          LineBuf,      \* LINE_BUF_SIZE
          SplitEol,     \* whether a CR may arrive without its LF
          WsUpgrade     \* the flag HTTP_WS_UPGRADE of the server

ASSUME HttpAssumption ==
    /\ MaxRequests \in Nat /\ LineBuf \in Nat /\ LineBuf > 3
    /\ SplitEol \in BOOLEAN /\ WsUpgrade \in BOOLEAN
    /\ \A r \in Requests : /\ Len(r.headers) \in Nat /\ r.body \in Nat
                           /\ DOMAIN r.headers = 1..Len(r.headers)
                           /\ \A i \in 1..Len(r.headers) : r.headers[i].n \in Nat

VARIABLES mode,       \* http, or what the connection is as a WebSocket; gone
          open,       \* whether the server has not closed the socket
          eof,        \* whether the client has closed it
          sent,       \* history: the requests of the client
          todo,       \* what is still to be sent of the last of them
          wire,       \* what has arrived and was not received
          lineBuf,    \* line_buf, up to line_pos
          parsing,    \* whether lines of it are being processed
          req,        \* the request as far as it is known
          responses,  \* what was sent to the client
          processed   \* history: the requests handed to R

httpVars == <<mode, open, eof, sent, todo, wire, lineBuf, parsing, req, responses, processed>>

-----------------------------------------------------------------------------
(* The client.                                                             *)

Unit(k, v) == [k |-> k, v |-> v]
Eol        == <<Unit("CR", 0), Unit("LF", 0)>>
Filler(n)  == [i \in 1..n |-> Unit("text", 0)]

\* A header and its value; "long" has a value that no line buffer can hold.
HeaderUnits(h) ==
    <<Unit("header", h)>> \o Filler(IF h.name = "long" THEN LineBuf ELSE 1) \o Eol

Units(r) ==
    <<Unit("request", [method |-> r.method, http |-> r.http])>> \o Eol
    \o FlattenSeq([i \in 1..Len(r.headers) |-> HeaderUnits(r.headers[i])])
    \o Eol \o [i \in 1..r.body |-> Unit("body", i)]

\* The client sends a request once the last one is answered.
ClientRequest(r) ==
    /\ mode = "http" /\ open /\ ~eof
    /\ todo = <<>> /\ Len(sent) < MaxRequests /\ Len(responses) = Len(sent)
    /\ sent' = Append(sent, r)
    /\ todo' = Units(r)
    /\ UNCHANGED <<mode, open, eof, wire, lineBuf, parsing, req, responses, processed>>

\* The next unit arrives, or the next two if CR and LF do not part.
Arrives ==
    /\ todo # <<>> /\ ~eof
    /\ LET n == IF todo[1].k = "CR" /\ ~SplitEol THEN 2 ELSE 1
       IN  /\ wire' = wire \o SubSeq(todo, 1, n)
           /\ todo' = SubSeq(todo, n + 1, Len(todo))
    /\ UNCHANGED <<mode, open, eof, sent, lineBuf, parsing, req, responses, processed>>

ClientCloses ==
    /\ ~eof
    /\ eof' = TRUE
    /\ UNCHANGED <<mode, open, sent, todo, wire, lineBuf, parsing, req, responses, processed>>

-----------------------------------------------------------------------------
(* process_request.                                                        *)

\* args_t after the reset of a connection that is kept alive.
NoRequest == [part |-> "request", url |-> FALSE, method |-> "none", attr |-> {},
              length |-> 0, bodyPos |-> 0]

Serving == mode = "http" /\ open

\* What .http.request returns: an error; nothing usable; a string or raw vector; a
\* file, which is read to its end, turns out shorter than it was, or is missing.
Outcome == {"error", "invalid", "content", "file", "short", "missing"}

Upgrades == "upgrade" \in req.attr /\ WsUpgrade

\* Mutant: the connection is kept when the file was too short.
ClosesUnlessShort(out) == out \in {"error", "invalid"} \/ {"1.0", "close"} \cap req.attr # {}

\* CONNECTION_CLOSE after the answer, by fin_request or the client's wish.
ClosesAfter(out) ==
    \/ out \in {"error", "invalid"}
    \/ out = "short" /\ req.method # "HEAD"
    \/ {"1.0", "close"} \cap req.attr # {}

\* The status line, the headers and the content.  Only a 500 has no Content-length.
Response(out) ==
    [status |-> IF out \in {"error", "invalid"} THEN 500 ELSE 200,  \* or R's code
     framed |-> out \notin {"error", "invalid"},
     whole  |-> ~(out = "short" /\ req.method # "HEAD")]

Refusal(status) == [status |-> status, framed |-> FALSE, whole |-> TRUE]

Digest == [method |-> req.method, attr |-> req.attr, body |-> req.bodyPos]

\* R handles the request and the answer is sent.  cut: the client has closed, or
\* seems to have.
ProcessRequest(out, cut) ==
    IF req.url THEN /\ processed' = Append(processed, [request |-> Digest, cut |-> cut])
                    /\ responses' = Append(responses, Response(out))
               ELSE UNCHANGED <<processed, responses>>

\* http_close; the process ends.
HttpClose == open' = FALSE /\ parsing' = FALSE /\ UNCHANGED <<mode, req>>

\* A request that was read to its end: close, or get ready for the next one.
Finish(out, close) ==
    /\ ~Upgrades
    /\ ProcessRequest(out, FALSE)
    /\ IF close \/ ClosesAfter(out) THEN HttpClose
       ELSE /\ req' = NoRequest /\ parsing' = FALSE
            /\ UNCHANGED <<mode, open>>

\* An error response, and the end of the connection.
Reject(status) ==
    /\ responses' = Append(responses, Refusal(status))
    /\ HttpClose
    /\ UNCHANGED processed

-----------------------------------------------------------------------------
(* http_input_iteration: lines.                                            *)

Smaller(m, n) == IF m < n THEN m ELSE n
Room == LineBuf - Len(lineBuf) - 1

RecvLine ==
    /\ Serving /\ req.part # "body" /\ ~parsing
    /\ Room > 0 /\ wire # <<>>
    /\ LET n == Smaller(Room, Len(wire))
       IN  /\ lineBuf' = lineBuf \o SubSeq(wire, 1, n)
           /\ wire' = SubSeq(wire, n + 1, Len(wire))
    /\ parsing' = TRUE
    /\ UNCHANGED <<mode, open, eof, sent, todo, req, responses, processed>>

\* recv returns 0: the client has closed, or there is no room left, as the test for
\* a full buffer comes too late.  What there is of a request is processed.
RecvEnd(out) ==
    /\ Serving /\ ~parsing /\ ~Upgrades
    /\ req.part = "body" => req.bodyPos < req.length
    /\ \/ wire = <<>> /\ eof
       \/ req.part # "body" /\ Room = 0
    /\ ProcessRequest(out, TRUE)
    /\ HttpClose
    /\ UNCHANGED <<eof, sent, todo, wire, lineBuf>>

\* The first line of the buffer: its length, and how much its end takes.
IsEnd(u)   == u.k \in {"CR", "LF"}
LineLen    == SelectInSeq(lineBuf, IsEnd) - 1
EolLen(i)  == IF lineBuf[i].k = "CR" /\ i < Len(lineBuf) /\ lineBuf[i + 1].k = "LF" THEN 2 ELSE 1
HasLine    == SelectInSeq(lineBuf, IsEnd) # 0
EmptyLine  == HasLine /\ LineLen = 0 /\ (lineBuf[1].k = "LF" \/ EolLen(1) = 2)
Rest(n)    == SubSeq(lineBuf, n + 1, Len(lineBuf))
AfterLine  == Rest(LineLen + EolLen(LineLen + 1))

IncompleteLine ==
    /\ Serving /\ parsing /\ ~HasLine
    /\ parsing' = FALSE
    /\ UNCHANGED <<mode, open, eof, sent, todo, wire, lineBuf, req, responses, processed>>

RequestLine ==
    /\ Serving /\ parsing /\ HasLine /\ ~EmptyLine /\ req.part = "request"
    /\ lineBuf' = AfterLine
    /\ IF lineBuf[1].k = "request"
       THEN /\ req' = [req EXCEPT !.part = "header", !.url = TRUE,
                                  !.method = lineBuf[1].v.method,
                                  !.attr = @ \cup ({"1.0"} \cap {lineBuf[1].v.http})]
            /\ UNCHANGED <<mode, open, parsing, responses, processed>>
       ELSE Reject(400)
    /\ UNCHANGED <<eof, sent, todo, wire>>

\* Any header line; those that matter are host, connection: close, content-length,
\* content-type and those of an upgrade.
HeaderLine ==
    /\ Serving /\ parsing /\ HasLine /\ ~EmptyLine /\ req.part = "header"
    /\ lineBuf' = AfterLine
    /\ LET h == lineBuf[1].v
       IN  req' = IF lineBuf[1].k # "header" THEN req
                  ELSE [req EXCEPT !.attr = @ \cup {h.name},
                                   !.length = IF h.name = "length" THEN h.n ELSE @]
    /\ UNCHANGED <<mode, open, eof, sent, todo, wire, parsing, responses, processed>>

AtEmptyLine == Serving /\ parsing /\ EmptyLine

BadEnd == IF {"1.0", "host"} \cap req.attr = {} THEN 400
          ELSE IF "huge" \in req.attr THEN 413
          ELSE IF req.length > 0 /\ req.method \in {"GET", "HEAD"} THEN 400
          ELSE 0

\* No Host in HTTP/1.1, a length that is negative or above 2147483640, or a GET or
\* HEAD with a body.
RejectRequest ==
    /\ AtEmptyLine /\ BadEnd # 0
    /\ Reject(BadEnd)
    /\ lineBuf' = AfterLine
    /\ UNCHANGED <<eof, sent, todo, wire>>

\* Mutant: a kept connection goes on with what is known of the last request.
EndWithoutBodyKeepsRequest(out) ==
    /\ AtEmptyLine /\ BadEnd = 0 /\ req.length = 0 /\ ~Upgrades
    /\ ProcessRequest(out, FALSE)
    /\ IF ClosesAfter(out) THEN HttpClose
       ELSE /\ req' = [req EXCEPT !.part = "request"] /\ parsing' = FALSE
            /\ UNCHANGED <<mode, open>>
    /\ lineBuf' = AfterLine
    /\ UNCHANGED <<eof, sent, todo, wire>>

\* "GET/HEAD or no content length mean no body".
EndWithoutBody(out) ==
    /\ AtEmptyLine /\ BadEnd = 0 /\ req.length = 0
    /\ Finish(out, FALSE)
    /\ lineBuf' = AfterLine
    /\ UNCHANGED <<eof, sent, todo, wire>>

\* The body begins with what is left in the buffer; more than that stays there.
EndBeforeBody ==
    /\ AtEmptyLine /\ BadEnd = 0 /\ req.length > 0
    /\ LET n == Smaller(req.length, Len(AfterLine))
       IN  /\ req' = [req EXCEPT !.part = "body", !.bodyPos = n]
           /\ lineBuf' = SubSeq(AfterLine, n + 1, Len(AfterLine))
    /\ parsing' = FALSE
    /\ UNCHANGED <<mode, open, eof, sent, todo, wire, responses, processed>>

-----------------------------------------------------------------------------
(* http_input_iteration: the body.                                         *)

RecvBody ==
    /\ Serving /\ req.part = "body" /\ req.bodyPos < req.length /\ wire # <<>>
    /\ LET n == Smaller(req.length - req.bodyPos, Len(wire))
       IN  /\ req' = [req EXCEPT !.bodyPos = @ + n]
           /\ wire' = SubSeq(wire, n + 1, Len(wire))
    /\ lineBuf' = <<>>
    /\ UNCHANGED <<mode, open, eof, sent, todo, parsing, responses, processed>>

\* "we have to close the connection if there was a double-hit".
BodyComplete(out) ==
    /\ Serving /\ req.part = "body" /\ req.bodyPos = req.length
    /\ Finish(out, lineBuf # <<>>)
    /\ lineBuf' = <<>>
    /\ UNCHANGED <<eof, sent, todo, wire>>

-----------------------------------------------------------------------------
HttpInit ==
    /\ open = TRUE /\ eof = FALSE /\ parsing = FALSE
    /\ sent = <<>> /\ todo = <<>> /\ wire = <<>> /\ lineBuf = <<>>
    /\ req = NoRequest /\ responses = <<>> /\ processed = <<>>

HttpServer ==
    \/ RecvLine \/ IncompleteLine \/ RequestLine \/ HeaderLine
    \/ RejectRequest \/ EndBeforeBody \/ RecvBody
    \/ \E out \in Outcome : RecvEnd(out) \/ EndWithoutBody(out) \/ BodyComplete(out)

HttpClient == Arrives \/ ClientCloses \/ \E r \in Requests : ClientRequest(r)

-----------------------------------------------------------------------------
(* Properties.                                                             *)

RequestOf(r) ==
    [method |-> r.method,
     attr   |-> {r.headers[i].name : i \in DOMAIN r.headers} \cup ({"1.0"} \cap {r.http}),
     body   |-> r.body]

\* http_input_iteration hands to R what the client sent, however the network cuts it
\* up and whatever the last request left in the buffers: the method, all headers and
\* the whole body of each request, in order.  Only a request that the client itself
\* cuts short, or one with a line longer than the buffer, is handed over in part.
ProcessedAsSent ==
    \A i \in DOMAIN processed :
        /\ i <= Len(sent)
        /\ IF processed[i].cut
           THEN eof \/ \E j \in DOMAIN sent[i].headers : sent[i].headers[j].name = "long"
           ELSE processed[i].request = RequestOf(sent[i])

\* A client that reads responses by their Content-length stays in step: all of a
\* connection that is kept are framed and whole, there is never one ahead
\* of its request, and after any other kind process_request has closed the connection.
ResponsesFramed ==
    /\ open => Len(responses) <= Len(sent)
    /\ \A i \in DOMAIN responses :
          (i < Len(responses) \/ (open /\ mode = "http")) => responses[i].framed /\ responses[i].whole
=============================================================================
