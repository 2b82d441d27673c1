------------------------------ MODULE QapCodec ------------------------------
(***************************************************************************)
(* R objects on the wire: how the server stores the result of an           *)
(* evaluation in its send buffer (qap_encode.c), how the C++ client reads  *)
(* it and stores it again for an assignment (Rconnection.cc), and how the  *)
(* server decodes it (qap_decode.c).                                       *)
(*                                                                         *)
(* An object is its type, its elements and its attributes, a sequence of   *)
(* cells of a pairlist.  A buffer is a sequence of bytes: the first byte   *)
(* of a word or a number stands for all of it, the others are filler.      *)
(* Sizes are those of the code; only the limits are parameters.            *)
(***************************************************************************)
EXTENDS Naturals, Sequences, SequencesExt

CONSTANTS Objects,         \* the results of evaluations, a sequence
          LenMod,          \* 2^24: a short header has the length modulo this
          LargeLimit,      \* 0xfffff0: larger objects have a long header
          ClientLimit,     \* 0x7fffff: the same in the client
          SendBufSize,     \* sendBufSize
          MaxSendBufSize,  \* maxSendBufSize, 0 if there is none
          Spare,           \* the 64 bytes that are kept free in the send buffer
          Page             \* 0x1000: temporary buffers are multiples of this

ASSUME CodecAssumption ==
    /\ {LenMod, LargeLimit, ClientLimit, SendBufSize, MaxSendBufSize, Spare, Page} \subseteq Nat
    /\ ClientLimit < LenMod /\ LargeLimit < LenMod /\ Spare <= SendBufSize /\ Page > 0

VARIABLES stage,   \* object, sent, refused, read, assigned or decoded
          x,       \* the object
          buf,     \* what the last sender has written
          size,    \* the size of the send buffer
          rexp,    \* what the client has read
          result   \* what the server has decoded
vars == <<stage, x, buf, size, rexp, result>>

Object(sxp, vec, attrib) == [sxp |-> sxp, vec |-> vec, attrib |-> attrib]
Nil      == Object("NILSXP", <<>>, <<>>)
List(cs) == Object("LISTSXP", cs, <<>>)
NaString == <<"NA_STRING">>

\* Bytes.
Chr(c)    == [k |-> "chr", v |-> c]
Fill(n)   == [i \in 1..n |-> [k |-> "fill"]]
Val(v, n) == <<[k |-> "val", v |-> v]>> \o Fill(n - 1)
Word(n)   == <<[k |-> "int", v |-> n]>> \o Fill(3)
Nul       == Chr("0")
NaChar    == Chr("ff")
Pad(s, c) == s \o [i \in 1..((4 - (Len(s) % 4)) % 4) |-> c]
Chars(s)  == [i \in 1..Len(s) |-> Chr(s[i])]
Total(s)  == FoldSeq(LAMBDA a, b : a + b, 0, s)
Align(n)  == ((n + 3) \div 4) * 4

-----------------------------------------------------------------------------
(* qap_encode.c                                                            *)

Strlen(s) == IF s = NaString THEN 2 ELSE Len(s)

RECURSIVE getStorageSize(_)
getStorageSize(o) ==
    LET n    == Len(o.vec)
        tags == Total([i \in 1..n |-> getStorageSize(o.vec[i].tag)])
        len  == 4
                + (IF o.attrib # <<>> THEN getStorageSize(List(o.attrib)) ELSE 0)
                + CASE o.sxp \in {"LISTSXP", "LANGSXP"} ->
                         Total([i \in 1..n |-> getStorageSize(o.vec[i].car)])
                         + (IF tags > 4 * n THEN tags ELSE 0)
                    [] o.sxp \in {"CLOSXP", "VECSXP", "EXPRSXP"} ->
                         Total([i \in 1..n |-> getStorageSize(o.vec[i])])
                    [] o.sxp = "CPLXSXP" -> n * 16
                    [] o.sxp = "REALSXP" -> n * 8
                    [] o.sxp = "INTSXP"  -> n * 4
                    [] o.sxp \in {"LGLSXP", "RAWSXP"} -> IF n > 1 THEN 4 + Align(n) ELSE 4
                    [] o.sxp = "SYMSXP"  -> Align(n + 1)
                    [] o.sxp = "STRSXP"  ->
                         Total([i \in 1..n |-> 4 + Align(Strlen(o.vec[i]) + 1)])
                    [] o.sxp = "S4SXP"   -> 0
                    [] OTHER             -> 4
    IN  IF len > LargeLimit THEN len + 4 ELSE len

XT(o) == LET tagged == \E i \in 1..Len(o.vec) : o.vec[i].tag # Nil
         IN  CASE o.sxp = "NILSXP"  -> "XT_NULL"
               [] o.sxp = "LISTSXP" -> IF tagged THEN "XT_LIST_TAG" ELSE "XT_LIST_NOTAG"
               [] o.sxp = "LANGSXP" -> IF tagged THEN "XT_LANG_TAG" ELSE "XT_LANG_NOTAG"
               [] o.sxp = "CLOSXP"  -> "XT_CLOS"
               [] o.sxp = "REALSXP" -> "XT_ARRAY_DOUBLE"
               [] o.sxp = "CPLXSXP" -> "XT_ARRAY_CPLX"
               [] o.sxp = "RAWSXP"  -> "XT_RAW"
               [] o.sxp = "LGLSXP"  -> "XT_ARRAY_BOOL"
               [] o.sxp = "STRSXP"  -> "XT_ARRAY_STR"
               [] o.sxp = "VECSXP"  -> "XT_VECTOR"
               [] o.sxp = "EXPRSXP" -> "XT_VECTOR_EXP"
               [] o.sxp = "INTSXP"  -> "XT_ARRAY_INT"
               [] o.sxp = "S4SXP"   -> "XT_S4"
               [] o.sxp = "SYMSXP"  -> "XT_SYMNAME"
               [] OTHER             -> "XT_UNKNOWN"

\* Mutant: a leading 0xff is not doubled.
StoreStringPlain(s) == (IF s = NaString THEN <<NaChar>> ELSE Chars(s)) \o <<Nul>>

\* A leading 0xff is doubled: alone it means NA.
StoreString(s) ==
    (CASE s = NaString -> <<NaChar>>
       [] s # <<>> /\ s[1] = "ff" -> <<NaChar>> \o Chars(s)
       [] OTHER -> Chars(s)) \o <<Nul>>

\* SET_PAR, with XT_LARGE and the second word for what exceeds 24 bits.
Header(ty, attr, large, len) ==
    <<[k |-> "hdr", ty |-> ty, attr |-> attr, large |-> large, len |-> len % LenMod]>>
    \o Fill(3) \o (IF large THEN Word(len \div LenMod) ELSE <<>>)

\* storage_size decides on the header; 0 stands for getStorageSize.
RECURSIVE storeSEXP(_, _)
storeSEXP(o, storage_size) ==
    LET n       == Len(o.vec)
        attr    == IF o.attrib # <<>> THEN storeSEXP(List(o.attrib), 0) ELSE <<>>
        tagged  == XT(o) \in {"XT_LIST_TAG", "XT_LANG_TAG"}
        content ==
          CASE o.sxp \in {"LISTSXP", "LANGSXP"} ->
                 FlattenSeq([i \in 1..n |-> storeSEXP(o.vec[i].car, 0)
                               \o (IF tagged THEN storeSEXP(o.vec[i].tag, 0) ELSE <<>>)])
            [] o.sxp \in {"CLOSXP", "VECSXP", "EXPRSXP"} ->
                 FlattenSeq([i \in 1..n |-> storeSEXP(o.vec[i], 0)])
            [] o.sxp = "REALSXP" -> FlattenSeq([i \in 1..n |-> Val(o.vec[i], 8)])
            [] o.sxp = "CPLXSXP" -> FlattenSeq([i \in 1..n |-> Val(o.vec[i], 16)])
            [] o.sxp = "INTSXP"  -> FlattenSeq([i \in 1..n |-> Val(o.vec[i], 4)])
            [] o.sxp = "RAWSXP"  -> Pad(Word(n) \o Chars(o.vec), Chr("?"))
            [] o.sxp = "LGLSXP"  -> Pad(Word(n) \o Chars(o.vec), NaChar)
            [] o.sxp = "STRSXP"  ->
                 Pad(FlattenSeq([i \in 1..n |-> StoreString(o.vec[i])]), Chr("1"))
            [] o.sxp = "SYMSXP"  -> Pad(Chars(o.vec) \o <<Nul>>, Nul)
            [] o.sxp \in {"S4SXP", "NILSXP"} -> <<>>
            [] OTHER             -> Word(o.sxp)
        sz      == IF storage_size = 0 THEN getStorageSize(o) ELSE storage_size
        large   == o.sxp # "NILSXP" /\ sz > LargeLimit
    IN  Header(XT(o), o.attrib # <<>>, large, Len(attr \o content)) \o attr \o content

-----------------------------------------------------------------------------
(* Reading, common to both sides.                                          *)

Corrupt == Object("corrupt", <<>>, <<>>)

\* The byte at p; what is not a header where one is expected is not told apart.
Byte(b, p)      == IF p \in DOMAIN b THEN b[p] ELSE [k |-> "fill"]
Region(b, p, n) == [i \in 1..n |-> Byte(b, p + i - 1)]
ValueOf(c)      == IF "v" \in DOMAIN c THEN c.v ELSE "?"
Words(b, p, n, w) == [i \in 1..(n \div w) |-> ValueOf(Byte(b, p + w * (i - 1)))]
Text(cs)        == [i \in 1..Len(cs) |-> ValueOf(cs[i])]

\* The length of the object at p, and where its data begins.
LenAt(b, p)  == b[p].len + (IF b[p].large THEN LenMod * Byte(b, p + 4).v ELSE 0)
DataAt(b, p) == IF b[p].large THEN p + 8 ELSE p + 4

\* The strings that end in the region.
Strings(r) ==
    LET ends  == SetToSortSeq({i \in 1..Len(r) : r[i] = Nul}, <)
        first == [j \in 1..Len(ends) |-> IF j = 1 THEN 1 ELSE ends[j - 1] + 1]
    IN  [j \in 1..Len(ends) |-> Text(SubSeq(r, first[j], ends[j] - 1))]

-----------------------------------------------------------------------------
(* qap_decode.c                                                            *)

DecodeString(s) ==
    CASE s = <<"ff">> -> NaString
      [] s # <<>> /\ s[1] = "ff" -> Tail(s)
      [] OTHER -> s

SXP(ty) == CASE ty = "XT_ARRAY_INT" -> "INTSXP"  [] ty = "XT_ARRAY_BOOL" -> "LGLSXP"
             [] ty = "XT_ARRAY_DOUBLE" -> "REALSXP"  [] ty = "XT_ARRAY_CPLX" -> "CPLXSXP"
             [] ty = "XT_ARRAY_STR" -> "STRSXP"  [] ty = "XT_RAW" -> "RAWSXP"
             [] ty = "XT_VECTOR" -> "VECSXP"  [] ty = "XT_VECTOR_EXP" -> "EXPRSXP"
             [] ty = "XT_SYMNAME" -> "SYMSXP"  [] ty = "XT_S4" -> "S4SXP"
             [] ty \in {"XT_LIST_NOTAG", "XT_LIST_TAG"} -> "LISTSXP"
             [] ty \in {"XT_LANG_NOTAG", "XT_LANG_TAG"} -> "LANGSXP"
             [] OTHER -> "NILSXP"

RECURSIVE QAP_decode(_, _), DecodeUntil(_, _, _)

\* The objects from p to the end ie, and where the last of them ends.
DecodeUntil(b, p, ie) ==
    IF p >= ie THEN [vals |-> <<>>, next |-> p]
    ELSE LET d    == QAP_decode(b, p)
             rest == DecodeUntil(b, d.next, ie)
         IN  [vals |-> <<d.val>> \o rest.vals, next |-> rest.next]

\* Closures and unknown types become NULL.
QAP_decode(b, p) ==
    IF Byte(b, p).k # "hdr" THEN [val |-> Corrupt, next |-> Len(b) + 1]
    ELSE
    LET h    == b[p]
        pab  == DataAt(b, p)
        att  == IF h.attr THEN QAP_decode(b, pab) ELSE [val |-> Nil, next |-> pab]
        q    == att.next
        ie   == pab + LenAt(b, p)
        ln   == ie - q
        sub  == DecodeUntil(b, q, ie)
        n    == Byte(b, q).v
        made(vec, next) == [val |-> Object(SXP(h.ty), vec, att.val.vec), next |-> next]
    IN  CASE h.ty = "XT_ARRAY_INT"    -> made(Words(b, q, ln, 4), q + 4 * (ln \div 4))
          [] h.ty = "XT_ARRAY_DOUBLE" -> made(Words(b, q, ln, 8), q + 8 * (ln \div 8))
          [] h.ty = "XT_ARRAY_CPLX"   -> made(Words(b, q, ln, 16), q + 16 * (ln \div 16))
          [] h.ty = "XT_ARRAY_BOOL"   -> made(Text(Region(b, q + 4, n)), q + 4 + Align(n))
          [] h.ty = "XT_RAW"          -> made(Text(Region(b, q + 4, n)), ie)
          [] h.ty = "XT_SYMNAME"      -> made(Strings(Region(b, q, ln))[1], ie)
          [] h.ty = "XT_ARRAY_STR"    ->
               LET ss == Strings(Region(b, q, ln))
               IN  made([i \in 1..Len(ss) |-> DecodeString(ss[i])], ie)
          [] h.ty \in {"XT_VECTOR", "XT_VECTOR_EXP"} -> made(sub.vals, sub.next)
          [] h.ty \in {"XT_LIST_NOTAG", "XT_LANG_NOTAG"} ->
               made([i \in 1..Len(sub.vals) |-> [car |-> sub.vals[i], tag |-> Nil]], sub.next)
          [] h.ty \in {"XT_LIST_TAG", "XT_LANG_TAG"} ->
               made([i \in 1..(Len(sub.vals) \div 2) |->
                       [car |-> sub.vals[2 * i - 1], tag |-> sub.vals[2 * i]]], sub.next)
          [] h.ty \in {"XT_NULL", "XT_S4"} -> made(<<>>, q)
          [] OTHER -> made(<<>>, ie)

-----------------------------------------------------------------------------
(* The client: Rexp, its subclasses and Rconnection::assign.               *)

\* An Rexp: its type, what its class makes of the data, its attributes (0 or 1
\* Rexp), the data itself and where the next one begins.
RECURSIVE new_parsed_Rexp(_, _), ParseUntil(_, _, _)

ParseUntil(b, p, eod) ==
    IF p >= eod THEN <<>>
    ELSE LET e == new_parsed_Rexp(b, p) IN <<e>> \o ParseUntil(b, e.next, eod)

\* Mutant: the length is not reduced by that of the attributes.
ParseDataWithAttributes(b, p, attr) ==
    [at |-> IF attr = <<>> THEN DataAt(b, p) ELSE attr[1].next, len |-> LenAt(b, p)]

\* Rexp::parse: where the data is, once the attributes are taken off.
ParseData(b, p, attr) ==
    LET at == IF attr = <<>> THEN DataAt(b, p) ELSE attr[1].next
    IN  [at |-> at, len |-> LenAt(b, p) + DataAt(b, p) - at]

new_parsed_Rexp(b, p) ==
    IF Byte(b, p).k # "hdr"
    THEN [type |-> "corrupt", content |-> <<>>, attr |-> <<>>, data |-> <<>>, next |-> Len(b) + 1]
    ELSE
    LET h    == b[p]
        attr == IF h.attr THEN <<new_parsed_Rexp(b, DataAt(b, p))>> ELSE <<>>
        d    == ParseData(b, p, attr)
        sub  == ParseUntil(b, d.at, d.at + d.len)
        r    == Region(b, d.at, d.len)
    IN  [type    |-> h.ty,
         content |-> CASE h.ty = "XT_ARRAY_INT"    -> Words(b, d.at, d.len, 4)
                       [] h.ty = "XT_ARRAY_DOUBLE" -> Words(b, d.at, d.len, 8)
                       [] h.ty \in {"XT_VECTOR", "XT_LIST_NOTAG", "XT_LIST_TAG"} -> sub
                       [] h.ty = "XT_SYMNAME"      -> Strings(r)[1]
                       [] h.ty = "XT_ARRAY_STR"    -> Strings(r)
                       [] OTHER                    -> <<>>,
         attr    |-> attr,
         data    |-> r,
         next    |-> d.at + d.len]

\* Rexp::store: type and data; the attributes are gone.
RexpStore(e) ==
    Header(e.type, FALSE, Len(e.data) > ClientLimit, Len(e.data)) \o e.data

-----------------------------------------------------------------------------
(* A result is sent, read, assigned again and decoded.                     *)

Init == /\ stage = "object"
        /\ \E i \in DOMAIN Objects : x = Objects[i]
        /\ buf = <<>> /\ size = SendBufSize /\ rexp = <<>> /\ result = Nil

\* The size that CMD_eval reckons with: 25% more than needed.
Reckoned(o) == getStorageSize(o) + getStorageSize(o) \div 4

\* Mutant: the size of a temporary buffer is rounded down.
TempSizeDown(rs) == ((rs + Spare) \div Page) * Page

TempSize(rs) == ((rs + Spare) \div Page) * Page + Page

TooBig(rs) == rs + Spare > SendBufSize /\ MaxSendBufSize > 0 /\ rs + Spare > MaxSendBufSize

\* ERR_object_too_big.
Refuse ==
    /\ stage = "object" /\ TooBig(Reckoned(x))
    /\ stage' = "refused"
    /\ UNCHANGED <<x, buf, size, rexp, result>>

\* The end of CMD_eval: the result goes into the send buffer or a temporary one.
SendResult ==
    /\ stage = "object" /\ ~TooBig(Reckoned(x))
    /\ stage' = "sent"
    /\ size' = IF Reckoned(x) + Spare > SendBufSize THEN TempSize(Reckoned(x)) ELSE size
    /\ buf' = storeSEXP(x, Reckoned(x))
    /\ UNCHANGED <<x, rexp, result>>

\* Rconnection::eval returns the object that it parses from the message.
ClientRead ==
    /\ stage = "sent"
    /\ stage' = "read"
    /\ rexp' = <<new_parsed_Rexp(buf, 1)>>
    /\ UNCHANGED <<x, buf, size, result>>

\* Rconnection::assign of an object that the client has read.
ClientAssign ==
    /\ stage = "read"
    /\ stage' = "assigned"
    /\ buf' = RexpStore(rexp[1])
    /\ UNCHANGED <<x, size, rexp, result>>

\* CMD_assignSEXP, of this client or of one that sends what it has received.
ServerDecode ==
    /\ stage \in {"sent", "assigned"}
    /\ stage' = "decoded"
    /\ result' = QAP_decode(buf, 1)
    /\ UNCHANGED <<x, buf, size, rexp>>

Next == Refuse \/ SendResult \/ ClientRead \/ ClientAssign \/ ServerDecode
Spec == Init /\ [][Next]_vars

-----------------------------------------------------------------------------
(* Properties.                                                             *)

\* What the server can decode of an object: all but closures and unknown types.
RECURSIVE Decodable(_)
Decodable(o) ==
    LET cell(c) == [car |-> Decodable(c.car), tag |-> Decodable(c.tag)]
        cells(s) == [i \in 1..Len(s) |-> cell(s[i])]
    IN  CASE SXP(XT(o)) = "NILSXP" -> Object("NILSXP", <<>>, cells(o.attrib))
          [] o.sxp \in {"LISTSXP", "LANGSXP"} -> Object(o.sxp, cells(o.vec), cells(o.attrib))
          [] o.sxp \in {"VECSXP", "EXPRSXP"} ->
               Object(o.sxp, [i \in 1..Len(o.vec) |-> Decodable(o.vec[i])], cells(o.attrib))
          [] OTHER -> Object(o.sxp, o.vec, cells(o.attrib))

\* qap_decode.c inverts qap_encode.c for every type it knows: nested objects,
\* attributes, tags, padding, NA and 0xff strings and long headers all come back,
\* and the next object is found where this one ends.  What the C++ client assigns
\* comes back without the attributes of the object itself, and with its parts whole.
RoundTrip ==
    stage = "decoded" =>
        /\ result.val = IF rexp = <<>> THEN Decodable(x)
                        ELSE [Decodable(x) EXCEPT !.attrib = <<>>]
        /\ result.next = Len(buf) + 1

\* What the client's classes say of an object.
RECURSIVE ClientSees(_, _)
ClientSees(e, o) ==
    LET cells(es, cs) ==
            IF \E i \in DOMAIN cs : cs[i].tag # Nil
            THEN /\ Len(es) = 2 * Len(cs)
                 /\ \A i \in DOMAIN cs : /\ ClientSees(es[2 * i - 1], cs[i].car)
                                         /\ ClientSees(es[2 * i], cs[i].tag)
            ELSE Len(es) = Len(cs) /\ \A i \in DOMAIN cs : ClientSees(es[i], cs[i].car)
    IN  /\ e.type = XT(o)
        /\ o.attrib = <<>> <=> e.attr = <<>>
        /\ o.attrib # <<>> => cells(e.attr[1].content, o.attrib)
        /\ CASE o.sxp \in {"INTSXP", "REALSXP", "SYMSXP"} -> e.content = o.vec
             [] o.sxp = "LISTSXP" -> cells(e.content, o.vec)
             [] o.sxp = "VECSXP"  -> /\ Len(e.content) = Len(o.vec)
                                     /\ \A i \in DOMAIN o.vec : ClientSees(e.content[i], o.vec[i])
             [] o.sxp = "STRSXP"  ->
                  e.content = [i \in DOMAIN o.vec |-> Text(Front(StoreString(o.vec[i])))]
             [] OTHER -> TRUE

\* Rconnection.cc reads what qap_encode.c writes: same elements, names and
\* attributes at every depth, and nothing left over.
ClientReads ==
    rexp # <<>> => ClientSees(rexp[1], x) /\ (stage = "read" => rexp[1].next = Len(buf) + 1)

\* "**ERROR: underestimated storage": the object, with 8 bytes for its DT_SEXP
\* header, fits into the buffer that was chosen by getStorageSize, and is no
\* longer than getStorageSize says.
StorageCovers ==
    stage = "sent" => Len(buf) <= getStorageSize(x) /\ Len(buf) + 8 <= size
=============================================================================
