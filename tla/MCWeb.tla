-------------------------------- MODULE MCWeb --------------------------------
(* Web connections for TLC. *)
EXTENDS WebSocket

H(name)      == [name |-> name, n |-> 0]
Length(n)    == [name |-> "length", n |-> n]
R(method, http, headers, body) ==
    [method |-> method, http |-> http, headers |-> headers, body |-> body]

\* With and without a body; refused; closing; with a line that does not fit; upgrades.
SomeRequests ==
    {R("GET", "1.1", <<H("host")>>, 0),
     R("HEAD", "1.0", <<>>, 0),
     R("GET", "1.1", <<H("other")>>, 0),
     R("GET", "1.1", <<H("host"), Length(2)>>, 2),
     R("POST", "1.1", <<H("host"), Length(3)>>, 3),
     R("POST", "1.1", <<H("host"), H("close"), Length(2)>>, 2),
     R("POST", "1.1", <<H("host"), H("huge")>>, 0),
     R("GET", "1.1", <<H("host"), H("long")>>, 0),
     R("GET", "1.1", <<H("host"), H("upgrade"), H("key"), H("text")>>, 0),
     R("GET", "1.1", <<H("host"), H("upgrade")>>, 0),
     R("POST", "1.1", <<H("host"), H("upgrade"), H("key"), Length(2)>>, 2)}

\* Version 13 with and without a key; version 00 whole, and with a header missing; an
\* endless line.
SomeHandshakes ==
    {R("GET", "1.1", <<H("key"), H("version"), H("text")>>, 0),
     R("GET", "1.1", <<H("version"), H("key")>>, 0),
     R("GET", "1.1", <<H("version")>>, 0),
     R("GET", "1.1", <<H("origin"), H("host"), H("key1"), H("key2")>>, 2),
     R("GET", "1.1", <<H("key1"), H("key2")>>, 2),
     R("GET", "1.1", <<H("long")>>, 0)}

Msg(n, masked, cut) == [n |-> n, masked |-> masked, cut |-> cut]

\* Empty, short, as long as the buffer and longer, too long for the sessions; cut
\* after the header and within it.
SomeMessages ==
    {Msg(0, TRUE, 0), Msg(1, FALSE, 0), Msg(2, TRUE, 2), Msg(5, TRUE, 0), Msg(4, FALSE, 1),
     Msg(8, TRUE, 0), Msg(8, FALSE, 2), Msg(12, TRUE, 0)}
=============================================================================
