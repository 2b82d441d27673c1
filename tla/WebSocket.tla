------------------------------ MODULE WebSocket ------------------------------
(***************************************************************************)
(* Web connections of Rserve: HTTP (HttpConnection), which may be upgraded *)
(* to WebSockets, and connections to the WebSockets server itself          *)
(* (websockets.c), with the text protocol or QAP1 (Rserv.c) on top.        *)
(*                                                                         *)
(* A frame is its type, its length, the masking key if it is masked, and   *)
(* the units of its payload.  The extended forms of the length are not     *)
(* told apart.  Handshakes of versions 00 to 03 end in mode "v00", whose   *)
(* frames are not modelled.                                                *)
(***************************************************************************)
EXTENDS HttpConnection

CONSTANTS Handshakes,   \* the requests of clients of the WebSockets server
          Messages,     \* what they send then: [n, masked, cut]
          MaxMessages,  \* bound: messages of a connection
          FrameBuf,     \* FRAME_BUFFER_SIZE
          TextBuf,      \* what Rserve_text_connected takes of a frame
          Header,       \* sizeof(struct phdr), above the length of a message
          MaxIn,        \* maxInBuf of the QAP1 session
          Chunk,        \* what it discards at a time
          MaskLen,      \* length of a masking key
          Key3          \* length of the third key of version 00

ASSUME WebSocketAssumption ==
    /\ {MaxMessages, FrameBuf, TextBuf, Header, MaxIn, Chunk, MaskLen, Key3} \subseteq Nat \ {0}
    /\ FrameBuf > 3 /\ Header > 1
    /\ \A r \in Handshakes : /\ Len(r.headers) \in Nat /\ r.body \in Nat
                             /\ DOMAIN r.headers = 1..Len(r.headers)
    /\ \A m \in Messages : m.n \in Nat /\ m.masked \in BOOLEAN /\ m.cut \in Nat

VARIABLES msgs,    \* history: the messages of the client
          fb,      \* args_t: buf up to bp, F_INFRAME, l1, F_MASK and its phase
          taken,   \* what the session has of the message it reads
          skip,    \* whether it discards the rest of it
          done,    \* history: the messages that were executed
          replies  \* history: what they were answered

wsVars == <<msgs, fb, taken, skip, done, replies>>
vars   == <<httpVars, wsVars>>

-----------------------------------------------------------------------------
(* The handshake: WS_connected.                                            *)

Handshaking == mode = "handshake" /\ open

ClientHandshake(r) ==
    /\ Handshaking /\ ~eof /\ sent = <<>>
    /\ sent' = <<r>>
    /\ todo' = Units(r)
    /\ UNCHANGED <<mode, open, eof, wire, lineBuf, parsing, req, responses, processed, wsVars>>

HsRecv ==
    /\ Handshaking /\ req.part # "key3" /\ ~parsing /\ Room > 0 /\ wire # <<>>
    /\ LET n == Smaller(Room, Len(wire))
       IN  /\ lineBuf' = lineBuf \o SubSeq(wire, 1, n)
           /\ wire' = SubSeq(wire, n + 1, Len(wire))
    /\ parsing' = TRUE
    /\ UNCHANGED <<mode, open, eof, sent, todo, req, responses, processed, wsVars>>

\* A line ends at LF.  NUL ends the text, also the one that replaced a colon.
IsLfOrNul(u) == u.k \in {"LF", "NUL"}
LfPos     == SelectInSeq(lineBuf, IsLfOrNul)
HsHasLine == LfPos # 0 /\ lineBuf[LfPos].k = "LF"
HsEmpty   == HsHasLine /\ lineBuf[1].k \in {"CR", "LF"} /\ req.part # "request"

HsLine ==
    /\ Handshaking /\ parsing /\ HsHasLine /\ ~HsEmpty
    /\ req' = IF req.part = "request" THEN [req EXCEPT !.part = "header"]
              ELSE IF lineBuf[1].k = "header" THEN [req EXCEPT !.attr = @ \cup {lineBuf[1].v.name}]
              ELSE req
    /\ lineBuf' = Rest(LfPos)
    /\ UNCHANGED <<mode, open, eof, sent, todo, wire, parsing, responses, processed, wsVars>>

HsReject ==
    /\ responses' = Append(responses, Refusal(400))
    /\ HttpClose
    /\ UNCHANGED <<processed, wsVars>>

\* The rest is not a line yet.  Its colon has been overwritten all the same, so a
\* header that does not arrive in one piece never will be one.
HsPartial ==
    /\ Handshaking /\ parsing /\ ~HsHasLine
    /\ IF Room = 0 THEN HsReject
       ELSE parsing' = FALSE /\ UNCHANGED <<mode, open, req, responses, processed, wsVars>>
    /\ lineBuf' = [i \in DOMAIN lineBuf |-> IF lineBuf[i].k = "header" THEN Unit("NUL", 0) ELSE lineBuf[i]]
    /\ UNCHANGED <<eof, sent, todo, wire>>

\* "connection failed before EOH", "Key3 incomplete".
HsEnd ==
    /\ Handshaking /\ ~parsing /\ wire = <<>> /\ eof
    /\ req.part = "key3" => Len(lineBuf) < Key3
    /\ HsReject
    /\ UNCHANGED <<eof, sent, todo, wire, lineBuf>>

NewSession == [buf |-> <<>>, in |-> FALSE, left |-> 0, mask |-> FALSE, phase |-> 0]

\* The session that takes over, after its greeting.
Session(attr) == IF "text" \in attr THEN "text" ELSE "qap"

\* Strings are built from the key, which must be there.
Switch(attr) ==
    /\ IF "key" \in attr
       THEN /\ mode' = Session(attr)
            /\ responses' = Append(responses, [status |-> 101, framed |-> TRUE, whole |-> TRUE])
            /\ UNCHANGED open
       ELSE mode' = "crashed" /\ open' = FALSE /\ UNCHANGED responses
    /\ parsing' = FALSE
    /\ UNCHANGED <<req, processed, wsVars>>

\* Version 4 and later.  What else the client has sent is dropped.
HsSwitch ==
    /\ Handshaking /\ parsing /\ HsEmpty /\ "version" \in req.attr
    /\ Switch(req.attr)
    /\ lineBuf' = <<>>
    /\ UNCHANGED <<eof, sent, todo, wire>>

\* No version was given: 00, with more of a key after the empty line.
HsOld ==
    /\ Handshaking /\ parsing /\ HsEmpty /\ "version" \notin req.attr
    /\ req' = [req EXCEPT !.part = "key3"]
    /\ lineBuf' = Rest(LfPos)
    /\ parsing' = FALSE
    /\ UNCHANGED <<mode, open, eof, sent, todo, wire, responses, processed, wsVars>>

\* The key has to be there after one recv at the latest.
HsKey3 ==
    /\ Handshaking /\ req.part = "key3"
    /\ Len(lineBuf) >= Key3 \/ wire # <<>>
    /\ LET n == IF Len(lineBuf) >= Key3 THEN 0 ELSE Smaller(Key3 - Len(lineBuf), Len(wire))
       IN  /\ lineBuf' = lineBuf \o SubSeq(wire, 1, n)
           /\ wire' = SubSeq(wire, n + 1, Len(wire))
           /\ IF Len(lineBuf) + n < Key3 \/ ~({"origin", "key1", "key2", "host"} \subseteq req.attr)
              THEN HsReject
              ELSE /\ mode' = "v00"
                   /\ responses' = Append(responses, [status |-> 101, framed |-> TRUE, whole |-> TRUE])
                   /\ UNCHANGED <<open, parsing, req, processed, wsVars>>
    /\ UNCHANGED <<eof, sent, todo>>

\* process_request of an HTTP request that asks for the upgrade: WS13_upgrade.
HttpUpgrade ==
    /\ Serving /\ Upgrades /\ req.url
    /\ \/ AtEmptyLine /\ BadEnd = 0 /\ req.length = 0
       \/ req.part = "body" /\ req.bodyPos = req.length
       \/ ~parsing /\ wire = <<>> /\ eof
       \/ ~parsing /\ req.part # "body" /\ Room = 0
    /\ Switch(req.attr)
    /\ lineBuf' = <<>>
    /\ UNCHANGED <<eof, sent, todo, wire>>

-----------------------------------------------------------------------------
(* Frames.                                                                 *)

Speaking == mode \in {"text", "qap"} /\ open

PayloadLen(m) == IF mode = "qap" THEN Header + m.n ELSE m.n

\* Units i..j of message k as a frame; each unit is masked by one unit of the key.
Frame(k, m, i, j) ==
    <<Unit("type", 0), Unit("len", [n |-> j - i + 1, masked |-> m.masked])>>
    \o (IF m.masked THEN <<Unit("key", 0)>> ELSE <<>>)
    \o [x \in 1..(j - i + 1) |->
           Unit("data", [msg |-> k, pos |-> i + x - 1, n |-> m.n,
                         mask |-> IF m.masked THEN (x - 1) % MaskLen ELSE MaskLen])]

\* A message of QAP1 may be sent in two frames.
Frames(k, m) ==
    IF mode = "qap" /\ m.cut > 0
    THEN Frame(k, m, 1, m.cut) \o Frame(k, m, m.cut + 1, PayloadLen(m))
    ELSE Frame(k, m, 1, PayloadLen(m))

FitsBuffer(m) == PayloadLen(m) + 3 <= FrameBuf

\* The client sends a message when it likes, but for one: after a message that does
\* not fit the buffer it waits until all of that has been taken.
ClientMessage(m) ==
    /\ Speaking /\ ~eof /\ todo = <<>> /\ Len(msgs) < MaxMessages
    /\ \/ \A i \in DOMAIN msgs : FitsBuffer(msgs[i])
       \/ wire = <<>> /\ fb.buf = <<>> /\ ~fb.in
    /\ msgs' = Append(msgs, m)
    /\ todo' = Frames(Len(msgs) + 1, m)
    /\ UNCHANGED <<mode, open, eof, sent, wire, lineBuf, parsing, req, responses, processed,
                   fb, taken, skip, done, replies>>

\* do_mask: the payload s from phase p of the key on.
Plain        == MaskLen + 1
DoMask(u, p) == [u EXCEPT !.v.mask = IF @ = p THEN Plain ELSE MaskLen + 2]
Unmask(s, p, masked) ==
    IF masked THEN [i \in DOMAIN s |-> DoMask(s[i], (p + i - 1) % MaskLen)] ELSE s

-----------------------------------------------------------------------------
(* The sessions on top: Rserve_text_connected and the loop of              *)
(* Rserve_QAP1_connected, as far as they read messages and answer them.    *)

\* What the session asks WS_recv_data for.
Wanted ==
    CASE mode = "text" -> IF skip THEN TextBuf ELSE TextBuf - Len(taken)
      [] mode = "qap" /\ taken = <<>> -> Header
      [] OTHER -> LET rest == Header + taken[1].v.n - Len(taken)
                  IN  IF skip THEN Smaller(rest, Chunk) ELSE rest

SessionEnds == open' = FALSE /\ UNCHANGED <<taken, skip, done>>

ReadsOn(t, s) == taken' = t /\ skip' = s /\ UNCHANGED <<open, done, replies>>

Answer(s, kind) == replies' = Append(replies, [msg |-> s[1].v.msg, kind |-> kind])

\* Mutant: a message that was too long is not the only one that is ignored.
TakeTextSkipsOn(s, in) ==
    CASE skip \/ (in /\ Len(s) >= TextBuf) -> ReadsOn(<<>>, TRUE)
      [] ~skip /\ in /\ Len(s) < TextBuf   -> ReadsOn(s, FALSE)
      [] ~skip /\ ~in ->
            /\ done' = Append(done, s) /\ taken' = <<>>
            /\ Answer(s, "result") \/ Answer(s, "lost")
            /\ UNCHANGED <<open, skip>>

\* WS_send_data refuses a result that the buffer cannot hold, and nobody looks.
TakeText(s, in) ==
    CASE skip \/ (in /\ Len(s) >= TextBuf) -> ReadsOn(<<>>, in)
      [] ~skip /\ in /\ Len(s) < TextBuf   -> ReadsOn(s, FALSE)
      [] ~skip /\ ~in ->
            /\ done' = Append(done, s) /\ taken' = <<>>
            /\ Answer(s, "result") \/ Answer(s, "lost")
            /\ UNCHANGED <<open, skip>>

\* A header, which has to come at once, and what it announces.
TakeQap(s) ==
    CASE Len(s) < Header -> SessionEnds /\ Answer(s, "ERR_conn_broken")
      [] Len(s) >= Header /\ Len(s) < Header + s[1].v.n -> ReadsOn(s, s[1].v.n >= MaxIn)
      [] Len(s) >= Header + s[1].v.n ->
            /\ taken' = <<>> /\ skip' = FALSE
            /\ IF skip THEN Answer(s, "ERR_data_overflow") /\ UNCHANGED done
                       ELSE Answer(s, "result") /\ done' = Append(done, s)
            /\ UNCHANGED open

\* WS_recv_data returns d; nothing is taken for the end of the connection.
Deliver(d, in) ==
    /\ IF d = <<>> THEN SessionEnds /\ UNCHANGED replies
       ELSE IF mode = "text" THEN TakeText(taken \o d, in) ELSE TakeQap(taken \o d)
    /\ UNCHANGED <<mode, eof, sent, todo, lineBuf, parsing, req, responses, processed, msgs>>

-----------------------------------------------------------------------------
(* WS_recv_data.                                                           *)

\* The frame whose header is at the start of the buffer.
FrameLen   == fb.buf[2].v.n
FrameMask  == fb.buf[2].v.masked
Need       == IF FrameMask THEN 3 ELSE 2
AtLeast    == Smaller(Need + FrameLen, FrameBuf)
HasHeader  == Len(fb.buf) >= 2 /\ Len(fb.buf) >= Need
HasPayload == HasHeader /\ Len(fb.buf) >= AtLeast

From(s, n) == SubSeq(s, n + 1, Len(s))

WsRecv ==
    /\ Speaking /\ ~fb.in /\ ~HasPayload /\ wire # <<>>
    /\ LET n == Smaller((IF HasHeader THEN AtLeast ELSE FrameBuf) - Len(fb.buf), Len(wire))
       IN  /\ fb' = [fb EXCEPT !.buf = @ \o SubSeq(wire, 1, n)]
           /\ wire' = From(wire, n)
    /\ UNCHANGED <<mode, open, eof, sent, todo, lineBuf, parsing, req, responses, processed,
                   msgs, taken, skip, done, replies>>

\* Mutant: the phase of the mask is not kept for the rest of the frame.
WsFrameFromZero ==
    /\ Speaking /\ ~fb.in /\ HasPayload
    /\ LET payload == AtLeast - Need
           data    == Unmask(SubSeq(fb.buf, Need + 1, AtLeast), 0, FrameMask)
           got     == Smaller(Wanted, payload)
           whole   == payload = FrameLen /\ got = payload
       IN  /\ fb' = [buf |-> From(data, got) \o From(fb.buf, AtLeast),
                     in |-> ~whole, left |-> FrameLen - got,
                     mask |-> FrameMask, phase |-> 0]
           /\ Deliver(SubSeq(data, 1, got), ~whole)
    /\ UNCHANGED wire

\* A new frame, all of it or what the buffer holds of it: all that there is gets
\* unmasked, what is wanted delivered, the rest kept for the next call.
WsFrame ==
    /\ Speaking /\ ~fb.in /\ HasPayload
    /\ LET payload == AtLeast - Need
           data    == Unmask(SubSeq(fb.buf, Need + 1, AtLeast), 0, FrameMask)
           got     == Smaller(Wanted, payload)
           whole   == payload = FrameLen /\ got = payload
       IN  /\ fb' = [buf |-> From(data, got) \o From(fb.buf, AtLeast),
                     in |-> ~whole, left |-> FrameLen - got,
                     mask |-> FrameMask, phase |-> payload % MaskLen]
           /\ Deliver(SubSeq(data, 1, got), ~whole)
    /\ UNCHANGED wire

\* More of a frame from the buffer, where it is unmasked.
WsBuffered ==
    /\ Speaking /\ fb.in /\ fb.buf # <<>>
    /\ LET got == Smaller(Wanted, Smaller(Len(fb.buf), fb.left))
       IN  /\ fb' = [fb EXCEPT !.buf = From(@, got), !.left = @ - got, !.in = fb.left > got]
           /\ Deliver(SubSeq(fb.buf, 1, got), fb.left > got)
    /\ UNCHANGED wire

\* More of a frame from the network.  What is not wanted stays, but is not moved to
\* the start of the buffer: the next call finds as much of what it was given now.
WsContinued ==
    /\ Speaking /\ fb.in /\ fb.buf = <<>> /\ wire # <<>>
    /\ LET r   == SubSeq(wire, 1, Smaller(FrameBuf, Len(wire)))
           got == Smaller(Wanted, Smaller(Len(r), fb.left))
       IN  /\ fb' = [fb EXCEPT !.buf = SubSeq(r, 1, Len(r) - got), !.left = @ - got,
                               !.in = fb.left > got, !.phase = (@ + got) % MaskLen]
           /\ wire' = From(wire, Len(r))
           /\ Deliver(Unmask(SubSeq(r, 1, got), fb.phase, fb.mask), fb.left > got)

\* The client has closed the connection.
WsEnd ==
    /\ Speaking /\ wire = <<>> /\ eof
    /\ IF fb.in THEN fb.buf = <<>> ELSE ~HasPayload
    /\ SessionEnds
    /\ UNCHANGED <<mode, eof, sent, todo, wire, lineBuf, parsing, req, responses, processed,
                   msgs, fb, replies>>

-----------------------------------------------------------------------------
Init ==
    /\ mode \in {"http", "handshake"}
    /\ HttpInit
    /\ msgs = <<>> /\ fb = NewSession /\ taken = <<>> /\ skip = FALSE /\ done = <<>> /\ replies = <<>>

Client ==
    \/ HttpClient /\ UNCHANGED wsVars
    \/ \E r \in Handshakes : ClientHandshake(r)
    \/ \E m \in Messages : ClientMessage(m)

Server ==
    \/ HttpServer /\ UNCHANGED wsVars
    \/ HsRecv \/ HsLine \/ HsPartial \/ HsEnd \/ HsSwitch \/ HsOld \/ HsKey3 \/ HttpUpgrade
    \/ WsRecv \/ WsFrame \/ WsBuffered \/ WsContinued \/ WsEnd

Next == Client \/ Server

Spec == Init /\ [][Next]_vars

\* The process of the connection is run, and the network delivers.
FairSpec ==
    /\ Spec
    /\ WF_vars(Server)
    /\ WF_vars(Arrives /\ UNCHANGED wsVars)

-----------------------------------------------------------------------------
(* Properties.                                                             *)

\* The session refuses to take in a message of this length.
TooLong(m) == IF mode = "qap" THEN m.n >= MaxIn ELSE m.n > TextBuf

Accepted(m) == ~TooLong(m)

\* The payload of message k as the client meant it.
IsMessage(s, k) ==
    /\ Len(s) = PayloadLen(msgs[k])
    /\ \A i \in DOMAIN s :
          /\ s[i].v.msg = k /\ s[i].v.pos = i
          /\ s[i].v.mask = IF msgs[k].masked THEN Plain ELSE MaskLen

\* However frames are cut up and run together, whether they are masked, longer than
\* the buffer of WS_recv_data or than what its callers ask for: the sessions execute
\* the messages of the client, whole, unmasked and in order, and leave out only the
\* ones that are too long for them.
MessagesExecuted ==
    \A i \in DOMAIN done :
        \E k \in DOMAIN msgs :
            /\ Accepted(msgs[k]) /\ IsMessage(done[i], k)
            /\ Cardinality({j \in 1..k : Accepted(msgs[j])}) = i

\* WS_connected waits for the end of a header whose colon it has overwritten: "we
\* will load more", but no end will be seen until the buffer is full.
Deaf == Room > 0 /\ \E i \in DOMAIN lineBuf : lineBuf[i].k = "NUL"

\* The client waits for the response to a request or a handshake, or for the answer to
\* a message.  A result that WS_send_data refuses counts as answered.
Pending ==
    /\ open /\ ~eof
    /\ \/ Len(responses) < Len(sent)
       \/ \E k \in DOMAIN msgs :
             /\ mode = "qap" \/ Accepted(msgs[k])
             /\ \A i \in DOMAIN replies : replies[i].msg # k

\* As long as neither side closes the connection the client does not wait forever: it
\* gets a response to every request and handshake, and an answer to each message but
\* those the text protocol ignores for their length.  The exception is a handshake
\* with a header that arrives in two pieces.
Answered == []<>(~Pending \/ Deaf)
=============================================================================
