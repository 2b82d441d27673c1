----------------------------- MODULE QapSession -----------------------------
(***************************************************************************)
(* A session of the QAP1 server: the loop of Rserve_QAP1_connected         *)
(* (Rserv.c) in its own process, from the ID string to the end of the      *)
(* connection, with logins, control commands, files, evaluations and       *)
(* sessions that are detached and resumed over a new connection; and its   *)
(* client, as Rconnection.cc implements it: one request at a time, each    *)
(* followed by reading one message.                                        *)
(*                                                                         *)
(* The process knows connections by descriptors.  A resumed session sends  *)
(* and receives through a->s, the number of the connection it was detached *)
(* from, whatever number accept has returned.                              *)
(***************************************************************************)
EXTENDS Naturals, Sequences, FiniteSets, SequencesExt

CONSTANTS Configs,      \* configurations: [authReq, auth, io, oc]
          Commands,     \* what the client may send: [cmd, par]
          MaxRequests,  \* bound: requests of the client
          MaxConns,     \* bound: connections, the first one included
          MaxFd,        \* bound: descriptors that the session has open
          DetachedOpens \* whether an evaluation may open a file while it is detached

\* auth: what auth_user asks, the password file, a function of R, or nothing.
ASSUME QapAssumption ==
    /\ \A c \in Configs : /\ c.authReq \in BOOLEAN /\ c.io \in BOOLEAN /\ c.oc \in BOOLEAN
                          /\ c.auth \in {"file", "function", "none"}
    /\ MaxRequests \in Nat /\ MaxConns \in Nat \ {0} /\ MaxFd \in Nat \ {0}
    /\ DetachedOpens \in BOOLEAN

Conn == 1..MaxConns
Fd   == 1..MaxFd
Free == 0
File == MaxConns + 1   \* what a descriptor is that is no connection

VARIABLES cfg,        \* the configuration
          st,         \* start, loop, detached, resume, key, ended
          fdt,        \* the descriptors of the process
          s,          \* s: the descriptor of the connection
          as,         \* a->s: where the session sends and receives
          conns,      \* connections: who, in, out, and whether both ends are open
          authed,     \* authed
          canControl, \* can_control
          keyReq,     \* authkey_req
          cf,         \* the descriptor of cf
          pipe,       \* parent_pipe: open, closed, or (after a typing error) stdout
          oc,         \* whether oc_env has a reference the client can know
          cur,        \* the client: its connection
          asked,      \* the request it waits for
          hasKey,     \* whether it knows the key of the detached session
          asks,       \* history: number of its requests
          heard,      \* history: the last message it took for an answer
          twice,      \* history: whether it has met one that is sent twice
          proved,     \* history: the entries that its logins have matched
          log,        \* history: what was executed, and with which passwords given
          sentTo      \* history: where messages went

netVars    == <<st, fdt, s, as, conns, sentTo>>
rightVars  == <<authed, canControl, keyReq, proved>>
workVars   == <<cf, pipe, oc, log>>
clientVars == <<cur, asked, hasKey, asks, heard, twice>>
vars       == <<cfg, netVars, rightVars, workVars, clientVars>>

-----------------------------------------------------------------------------
(* Sending and receiving.                                                  *)

Looping == st = "loop"
Here    == fdt[as]
Inbox   == conns[Here].in
Message == Inbox[1]

Serialized == {"serEval", "serAssign"}

\* A whole message; for a serialized one nobody looks whether it is.
Whole == Message.cut = "no" \/ (Message.cut = "body" /\ Message.cmd \in Serialized)

\* A message with one of these commands, in a session that is not in OC mode.
Received(cmds) ==
    /\ Looping /\ Here \in Conn /\ Inbox # <<>> /\ ~cfg.oc
    /\ Message.cmd \in cmds /\ Whole

Tagged(codes) == [i \in DOMAIN codes |-> [to |-> Message.id, cmd |-> Message.cmd, code |-> codes[i]]]

\* The message is done with, after these messages to where a->s leads to now.
Reply(codes) ==
    /\ conns' = [conns EXCEPT ![Here].in = Tail(@), ![Here].out = @ \o Tagged(codes)]
    /\ sentTo' = sentTo \cup (IF codes = <<>> THEN {} ELSE {Here})
    /\ UNCHANGED <<st, fdt, s, as>>

\* The same, and the connection is closed, and the process ends.
ReplyAndEnd(codes) ==
    /\ conns' = [conns EXCEPT ![Here].in = Tail(@), ![Here].out = @ \o Tagged(codes), ![Here].up = FALSE]
    /\ sentTo' = sentTo \cup (IF codes = <<>> THEN {} ELSE {Here})
    /\ st' = "ended"
    /\ fdt' = [f \in Fd |-> Free]
    /\ UNCHANGED <<s, as>>

\* Rights are unchanged by all commands but logins.
Keeps == UNCHANGED <<cfg, rightVars, clientVars>>

Lowest(t) == CHOOSE f \in Fd : t[f] = Free /\ \A g \in Fd : t[g] = Free => f <= g
HasFree(t) == \E f \in Fd : t[f] = Free

Executes(kind) ==
    log' = log \cup {[kind |-> kind, proved |-> proved]}

-----------------------------------------------------------------------------
(* The start of the session.                                               *)

\* Mutant: control is open whenever no login is required.
ControlByDefaultAlways == ~cfg.authReq

\* "control is allowed by default only if authentication is not required and passwd is
\* not present".
ControlByDefault == ~cfg.authReq /\ cfg.auth # "file"

\* The ID string, or what oc.init returns, which registers a reference.
Start ==
    /\ st = "start"
    /\ st' = "loop"
    /\ canControl' = ControlByDefault
    /\ oc' = cfg.oc
    /\ sentTo' = sentTo \cup {Here}
    /\ UNCHANGED <<cfg, fdt, s, as, conns, authed, keyReq, proved, cf, pipe, log, clientVars>>

\* oc.init fails, or its result does not fit the buffer.
StartFails ==
    /\ st = "start" /\ cfg.oc
    /\ st' = "ended"
    /\ fdt' = [f \in Fd |-> Free]
    /\ conns' = [conns EXCEPT ![Here].up = FALSE]
    /\ UNCHANGED <<cfg, s, as, sentTo, rightVars, workVars, clientVars>>

\* "in OC mode everything but OCcall is invalid".
OcOnly ==
    /\ Looping /\ Inbox # <<>> /\ cfg.oc
    /\ Message.cmd # "OCcall" /\ Message.cut # "head"
    /\ ReplyAndEnd(<<"ERR_disabled">>)
    /\ Keeps /\ UNCHANGED workVars

-----------------------------------------------------------------------------
(* Commands that need no login.                                            *)

Passes == ~cfg.authReq \/ authed

\* Without a valid reference the connection is closed, "with no message".
OCcall(err) ==
    /\ Looping /\ Inbox # <<>> /\ Message.cmd = "OCcall" /\ Message.cut = "no"
    /\ IF Message.par = "ref" /\ oc
       THEN /\ Executes("OCcall")
            /\ IF Passes THEN Reply(<<IF err THEN "error" ELSE "result">>)
                         ELSE ReplyAndEnd(<<"ERR_auth_failed">>)
       ELSE ReplyAndEnd(<<>>) /\ UNCHANGED log
    /\ Keeps /\ UNCHANGED <<cf, pipe, oc>>

\* Mutant: the loop goes on to the end, where an unknown command is answered.
SwitchGoesOn ==
    /\ Received({"switch"})
    /\ Reply(<<"ERR_disabled", "ERR_inv_cmd">>)
    /\ Keeps /\ UNCHANGED workVars

\* CMD_switch: one answer in any case.
Switch ==
    /\ Received({"switch"})
    /\ Reply(<<CASE Message.par = "bad" -> "ERR_inv_par"
                 [] Message.par = "TLS" -> "ERR_disabled"
                 [] OTHER -> "ERR_unsupportedCmd">>)
    /\ Keeps /\ UNCHANGED workVars

\* CMD_keyReq: a second key for the same process ends it.
KeyReq ==
    /\ Received({"keyReq"})
    /\ IF Message.par = "rsa"
       THEN /\ keyReq' = keyReq + 1
            /\ IF keyReq = 0 THEN Reply(<<"OK">>) ELSE ReplyAndEnd(<<"ERR_securityClose">>)
       ELSE /\ Reply(<<IF Message.par = "bad" THEN "ERR_inv_par" ELSE "ERR_unavailable">>)
            /\ UNCHANGED keyReq
    /\ UNCHANGED <<cfg, authed, canControl, proved, workVars, clientVars>>

\* auth_user: what becomes of authed and can_control.  who is the kind of the first entry
\* of the file that the login matches (an entry * matches all): marked @ or not, or marked
\* @ and then refused for want of a uid, which does not take back the control.
AuthUser(who) ==
    IF cfg.auth = "file"
    THEN /\ authed' = (who \in {"user", "admin"})
         /\ canControl' = IF who \in {"user", "admin", "noUid"} THEN who # "user" ELSE canControl
    ELSE /\ authed' = (cfg.auth = "none" \/ who \in {"user", "admin"})
         /\ UNCHANGED canControl

Proves(who) ==
    proved' = proved \cup (CASE cfg.auth = "none" -> {"anyone"}
                             [] cfg.auth = "file" /\ who = "noUid" -> {"admin"}
                             [] OTHER -> {"user", "admin"} \cap {who})

\* What a login sends that was answered with codes and left authed as it is now.
Conclude(codes, now) ==
    IF cfg.authReq /\ ~now THEN ReplyAndEnd(codes \o <<"ERR_auth_failed">>)
    ELSE Reply(codes \o <<"ERR_inv_cmd">>)

\* CMD_login, unless the client is logged in; and CMD_secLogin, which takes a password
\* that was encrypted with the key.  Failures are answered twice, but for a wrong password.
Login ==
    /\ Received({"login", "secLogin"})
    /\ Message.cmd = "login" => ~authed
    /\ IF Message.par = "bad"
       THEN Conclude(<<"ERR_inv_par">>, authed) /\ UNCHANGED <<authed, canControl, proved>>
       ELSE IF Message.cmd = "secLogin" /\ keyReq = 0
       THEN Conclude(<<"ERR_auth_failed">>, authed) /\ UNCHANGED <<authed, canControl, proved>>
       ELSE /\ AuthUser(Message.par) /\ Proves(Message.par)
            /\ IF authed' THEN Reply(<<"OK">>) ELSE Conclude(<<>>, FALSE)
    /\ UNCHANGED <<cfg, keyReq, workVars, clientVars>>

\* More than maxInBuf: skipped and answered, before anyone asks for a login.
Overflow ==
    /\ Received({"huge"})
    /\ IF Passes THEN Reply(<<"ERR_data_overflow">>)
                 ELSE ReplyAndEnd(<<"ERR_data_overflow", "ERR_auth_failed">>)
    /\ Keeps /\ UNCHANGED workVars

Open == {"OCcall", "switch", "keyReq", "secLogin", "login", "huge"}

\* "if not authed by now, close connection".
Refuse ==
    /\ Looping /\ Here \in Conn /\ Inbox # <<>> /\ ~cfg.oc
    /\ Message.cmd \notin Open /\ Whole /\ ~Passes
    /\ ReplyAndEnd(<<"ERR_auth_failed">>)
    /\ Keeps /\ UNCHANGED workVars

-----------------------------------------------------------------------------
(* Commands of a client that may give them.                                *)

Granted(cmds) == Received(cmds) /\ Passes

\* CMD_shutdown, which asks for no right to control.
Shutdown ==
    /\ Granted({"shutdown"})
    /\ Executes("shutdown")
    /\ ReplyAndEnd(<<"OK">>)
    /\ Keeps /\ UNCHANGED <<cf, pipe, oc>>

\* The control commands: over the pipe to the server, which may be broken.
Control(fails) ==
    /\ Granted({"ctrlEval", "ctrlShutdown"})
    /\ IF ~canControl THEN Reply(<<"ERR_accessDenied">>) /\ UNCHANGED <<pipe, log>>
       ELSE IF Message.par = "bad" THEN Reply(<<"ERR_inv_par">>) /\ UNCHANGED <<pipe, log>>
       ELSE IF pipe = "closed" THEN Reply(<<"ERR_ctrl_closed">>) /\ UNCHANGED <<pipe, log>>
       ELSE IF fails = "no"
       THEN /\ Reply(<<"OK">>) /\ UNCHANGED pipe
            /\ IF pipe = "open" THEN Executes("control") ELSE UNCHANGED log
       ELSE /\ Reply(<<"ERR_ctrl_closed">>) /\ UNCHANGED log
            /\ pipe' = IF fails = "data" /\ Message.cmd = "ctrlEval" THEN "stdout" ELSE "closed"
    /\ Keeps /\ UNCHANGED <<cf, oc>>

\* CMD_setEncoding, CMD_setBufferSize; a login after the login; anything unknown.
Settings ==
    /\ \/ Granted({"setEncoding", "setBufferSize", "unknown"})
       \/ Granted({"login"}) /\ authed
    /\ Reply(<<CASE Message.cmd \in {"login", "unknown"} -> "ERR_inv_cmd"
                 [] Message.par = "bad" -> "ERR_inv_par"
                 [] OTHER -> "OK">>)
    /\ Keeps /\ UNCHANGED workVars

FileCommands == {"openFile", "closeFile", "readFile", "writeFile", "removeFile"}

\* The file of the session; createFile is openFile.  io: whether the system lets it.
Files(io) ==
    /\ Granted(FileCommands)
    /\ LET none == cf = 0
           t    == IF none THEN fdt ELSE [fdt EXCEPT ![cf] = Free]
           opens == cfg.io /\ Message.cmd = "openFile" /\ Message.par # "bad"
           got  == opens /\ io /\ HasFree(t)
           code == CASE ~cfg.io -> "ERR_accessDenied"
                     [] cfg.io /\ Message.cmd \in {"readFile", "writeFile"} /\ none -> "ERR_notOpen"
                     [] cfg.io /\ Message.par = "bad" /\ Message.cmd # "closeFile" -> "ERR_inv_par"
                     [] opens -> IF got THEN "OK" ELSE "ERR_IOerror"
                     [] OTHER -> IF io \/ Message.cmd = "closeFile" THEN "OK" ELSE "ERR_IOerror"
       IN  /\ conns' = [conns EXCEPT ![Here].in = Tail(@), ![Here].out = @ \o Tagged(<<code>>)]
           /\ sentTo' = sentTo \cup {Here}
           /\ IF cfg.io /\ (opens \/ Message.cmd = "closeFile")
              THEN /\ fdt' = IF got THEN [t EXCEPT ![Lowest(t)] = File] ELSE t
                   /\ cf' = IF got THEN Lowest(t) ELSE 0
              ELSE UNCHANGED <<fdt, cf>>
           /\ IF code \in {"OK", "ERR_IOerror"} THEN Executes("file") ELSE UNCHANGED log
    /\ Keeps /\ UNCHANGED <<st, s, as, pipe, oc>>

\* CMD_setSEXP and CMD_assignSEXP.
Assign ==
    /\ Granted({"assignSEXP"})
    /\ IF Message.par = "ok" THEN Reply(<<"OK">>) /\ Executes("eval")
       ELSE Reply(<<IF Message.par = "bad" THEN "ERR_inv_par" ELSE "parse error">>) /\ UNCHANGED log
    /\ Keeps /\ UNCHANGED <<cf, pipe, oc>>

\* What an evaluation may do to the session: nothing, fail, open a file, or register a
\* reference that the client learns.
Outcome == {"value", "error", "opens", "registers"}

\* CMD_eval, CMD_voidEval; CMD_detachedVoidEval of something that is not a string.
Eval(out) ==
    /\ \/ Granted({"eval", "voidEval"})
       \/ Granted({"detachedVoidEval"}) /\ Message.par \in {"bad", "sexp"}
    /\ IF Message.par \in {"bad", "syntax"}
       THEN /\ Reply(<<IF Message.par = "bad" THEN "ERR_inv_par" ELSE "parse error">>)
            /\ UNCHANGED workVars
       ELSE /\ conns' = [conns EXCEPT ![Here].in = Tail(@),
                         ![Here].out = @ \o Tagged(<<IF out = "error" THEN "error" ELSE "result">>)]
            /\ sentTo' = sentTo \cup {Here}
            /\ fdt' = IF out = "opens" /\ HasFree(fdt) THEN [fdt EXCEPT ![Lowest(fdt)] = File] ELSE fdt
            /\ oc' = (oc \/ out = "registers")
            /\ Executes("eval")
            /\ UNCHANGED <<st, s, as, cf, pipe>>
    /\ Keeps

\* CMD_serEval, CMD_serEEval and CMD_serAssign.  What cannot be unserialized is not
\* answered at all, an assignment that fails is answered twice.
SerEval(bad, err) ==
    /\ Granted(Serialized)
    /\ LET assign == Message.cmd = "serAssign"
           code   == CASE assign /\ Message.par = "bad" -> <<"ERR_inv_par">>
                       [] ~err -> <<"OK">>
                       [] OTHER -> IF assign THEN <<"error", "error">> ELSE <<"error">>
       IN  /\ Reply(IF bad THEN <<>> ELSE code)
           /\ IF bad \/ code = <<"ERR_inv_par">> THEN UNCHANGED log ELSE Executes("eval")
    /\ Keeps /\ UNCHANGED <<cf, pipe, oc>>

-----------------------------------------------------------------------------
(* Detached sessions.                                                      *)

Detaches == Granted({"detachSession"}) \/ (Granted({"detachedVoidEval"}) /\ Message.par = "ok")

\* detach_session finds no port.  It has sent the answer that its caller sends again.
DetachFails ==
    /\ Detaches
    /\ Reply(IF Message.cmd = "detachSession" THEN <<"ERR_detach_failed">>
             ELSE <<"ERR_detach_failed", "ERR_detach_failed">>)
    /\ Keeps /\ UNCHANGED workVars

\* What does not parse is answered before anything else.
DetachedSyntax ==
    /\ Granted({"detachedVoidEval"}) /\ Message.par = "syntax"
    /\ Reply(<<"parse error">>)
    /\ Keeps /\ UNCHANGED workVars

\* detach_session opens its own port, sends it with the key and closes the connection.
Detach ==
    /\ Detaches /\ HasFree(fdt)
    /\ conns' = [conns EXCEPT ![Here].in = Tail(@), ![Here].out = @ \o Tagged(<<"key">>), ![Here].up = FALSE]
    /\ sentTo' = sentTo \cup {Here}
    /\ fdt' = [fdt EXCEPT ![Lowest(fdt)] = File, ![as] = Free]
    /\ st' = IF Message.cmd = "detachSession" THEN "resume" ELSE "detached"
    /\ Keeps /\ UNCHANGED <<s, as, workVars>>

\* The evaluation, while nobody is connected.
DetachedEval(out) ==
    /\ st = "detached" /\ (out = "opens" => DetachedOpens)
    /\ fdt' = IF out = "opens" /\ HasFree(fdt) THEN [fdt EXCEPT ![Lowest(fdt)] = File] ELSE fdt
    /\ oc' = (oc \/ out = "registers")
    /\ Executes("eval")
    /\ st' = "resume"
    /\ UNCHANGED <<cfg, s, as, conns, sentTo, rightVars, cf, pipe, clientVars>>

\* resume_session accepts a connection, and closes it if it comes from elsewhere.
Accept(c) ==
    /\ st = "resume" /\ HasFree(fdt)
    /\ conns[c].who # "none" /\ c # 1 /\ conns[c].up /\ c \notin {fdt[f] : f \in Fd}
    /\ IF conns[c].who = "elsewhere"
       THEN conns' = [conns EXCEPT ![c].up = FALSE] /\ UNCHANGED <<st, fdt, s>>
       ELSE /\ s' = Lowest(fdt)
            /\ fdt' = [fdt EXCEPT ![Lowest(fdt)] = c]
            /\ st' = "key"
            /\ UNCHANGED conns
    /\ UNCHANGED <<cfg, as, sentTo, rightVars, workVars, clientVars>>

\* It waits for the key; the connection that brings it is the session's from now on.
\* The answer to the command that detached the session goes through a->s.
Resume ==
    /\ st = "key" /\ conns[fdt[s]].in # <<>> /\ conns[fdt[s]].in[1].par = "key"
    /\ conns' = [c \in Conn |->
          [conns[c] EXCEPT !.in  = IF c = fdt[s] THEN Tail(@) ELSE @,
                           !.out = IF c = Here
                                   THEN Append(@, [to |-> conns[fdt[s]].in[1].id, cmd |-> "resume", code |-> "OK"]) ELSE @]]
    /\ sentTo' = sentTo \cup {Here}
    /\ st' = "loop"
    /\ UNCHANGED <<cfg, fdt, s, as, rightVars, workVars, clientVars>>

\* Mutant: a connection without the key is not closed.
WrongKeyKept ==
    /\ st = "key"
    /\ IF conns[fdt[s]].in # <<>> THEN conns[fdt[s]].in[1].par # "key" ELSE ~conns[fdt[s]].peer
    /\ st' = "resume"
    /\ UNCHANGED <<cfg, fdt, conns, s, as, sentTo, rightVars, workVars, clientVars>>

\* Another key, part of a key, or the end of the connection.
WrongKey ==
    /\ st = "key"
    /\ IF conns[fdt[s]].in # <<>> THEN conns[fdt[s]].in[1].par # "key" ELSE ~conns[fdt[s]].peer
    /\ conns' = [conns EXCEPT ![fdt[s]].up = FALSE]
    /\ fdt' = [fdt EXCEPT ![s] = Free]
    /\ st' = "resume"
    /\ UNCHANGED <<cfg, s, as, sentTo, rightVars, workVars, clientVars>>

\* accept fails: s is -1, the answer goes through a->s all the same, and the session ends.
AcceptFails ==
    /\ st = "resume"
    /\ st' = "ended"
    /\ sentTo' = sentTo \cup ({Here} \ {Free})
    /\ fdt' = [f \in Fd |-> Free]
    /\ UNCHANGED <<cfg, s, as, conns, rightVars, workVars, clientVars>>

-----------------------------------------------------------------------------
(* The end of the connection.                                              *)

\* Part of a header: ERR_conn_broken; part of what it announces: no message.
Broken ==
    /\ Looping /\ Here \in Conn /\ Inbox # <<>>
    /\ ~Whole /\ (cfg.oc => Message.cut = "head")
    /\ ReplyAndEnd(IF Message.cut = "head" THEN <<"ERR_conn_broken">> ELSE <<>>)
    /\ Keeps /\ UNCHANGED workVars

End ==
    /\ Looping
    /\ Here \in Conn => Inbox = <<>> /\ ~conns[Here].peer
    /\ conns' = [c \in Conn |-> [conns[c] EXCEPT !.up = @ /\ c # Here]]
    /\ st' = "ended"
    /\ fdt' = [f \in Fd |-> Free]
    /\ Keeps /\ UNCHANGED <<s, as, sentTo, workVars>>

-----------------------------------------------------------------------------
(* The client.                                                             *)

NextId == asks + 1

\* The answers of Rserve_QAP1_connected that are followed by a second one.
AnsweredTwice(m) ==
    \/ m.cmd = "detachedVoidEval" /\ m.code = "ERR_detach_failed"
    \/ m.cmd = "serAssign" /\ m.code = "error"
    \/ m.cmd = "login" /\ m.code = "ERR_inv_par"
    \/ m.cmd = "secLogin" /\ m.code \in {"ERR_inv_par", "ERR_auth_failed"}

\* Rconnection::request.
Request(m) ==
    /\ cur # 0 /\ asked = 0 /\ NextId <= MaxRequests
    /\ asks' = NextId /\ asked' = NextId
    /\ conns' = [conns EXCEPT ![cur].in =
                    Append(@, [id |-> NextId, cmd |-> m.cmd, par |-> m.par, cut |-> "no"])]
    /\ UNCHANGED <<cfg, st, fdt, s, as, sentTo, rightVars, workVars, cur, hasKey, heard, twice>>

\* Rmessage::read.  With the key of a session the client leaves the connection.
ReadMessage ==
    /\ asked # 0 /\ conns[cur].out # <<>>
    /\ LET got == conns[cur].out[1]
       IN  /\ heard' = [asked |-> asked, got |-> got.to]
           /\ twice' = (twice \/ AnsweredTwice(got))
           /\ conns' = [conns EXCEPT ![cur].out = Tail(@), ![cur].peer = got.code # "key"]
           /\ cur' = IF got.code = "key" THEN 0 ELSE cur
           /\ hasKey' = (hasKey \/ got.code = "key")
    /\ asked' = 0
    /\ UNCHANGED <<cfg, st, fdt, s, as, sentTo, rightVars, workVars, asks>>

\* The server has closed the connection: -7 or -8.
ReadFails ==
    /\ asked # 0 /\ conns[cur].out = <<>> /\ ~conns[cur].up
    /\ conns' = [conns EXCEPT ![cur].peer = FALSE]
    /\ asked' = 0 /\ cur' = 0
    /\ UNCHANGED <<cfg, st, fdt, s, as, sentTo, rightVars, workVars, hasKey, asks, heard, twice>>

\* The client goes away, in the middle of a message perhaps, if it does not wait.
Leave(cmd, cut) ==
    /\ cur # 0
    /\ conns' = [conns EXCEPT ![cur].peer = FALSE,
                              ![cur].in = IF cut = "no" \/ asked # 0 THEN @
                                          ELSE Append(@, [id |-> 0, cmd |-> cmd, par |-> "ok", cut |-> cut])]
    /\ cur' = 0 /\ asked' = 0
    /\ UNCHANGED <<cfg, st, fdt, s, as, sentTo, rightVars, workVars, hasKey, asks, heard, twice>>

Listening == st \in {"detached", "resume", "key"}
NewConn(c) == Listening /\ conns[c].who = "none" /\ \A d \in 1..(c - 1) : conns[d].who # "none"

\* Rconnection::connect with the key of a session: send it and read a message.
Reconnect(c) ==
    /\ cur = 0 /\ hasKey /\ NewConn(c) /\ NextId <= MaxRequests
    /\ asks' = NextId /\ asked' = NextId /\ cur' = c /\ hasKey' = FALSE
    /\ conns' = [conns EXCEPT ![c] = [who |-> "client", out |-> <<>>, up |-> TRUE, peer |-> TRUE,
                    in |-> <<[id |-> NextId, cmd |-> "resume", par |-> "key", cut |-> "no"]>>]]
    /\ UNCHANGED <<cfg, st, fdt, s, as, sentTo, rightVars, workVars, heard, twice>>

\* Somebody else finds the port, on the client's host or on another one.
Stranger(c, who) ==
    /\ NewConn(c)
    /\ conns' = [conns EXCEPT ![c] = [who |-> who, out |-> <<>>, up |-> TRUE, peer |-> TRUE,
                    in |-> <<[id |-> 0, cmd |-> "resume", par |-> "wrong", cut |-> "no"]>>]]
    /\ UNCHANGED <<cfg, st, fdt, s, as, sentTo, rightVars, workVars, clientVars>>

-----------------------------------------------------------------------------
Unused == [who |-> "none", in |-> <<>>, out |-> <<>>, up |-> FALSE, peer |-> FALSE]

Init ==
    /\ cfg \in Configs
    /\ st = "start" /\ s = 1 /\ as = 1 /\ sentTo = {}
    /\ fdt = [f \in Fd |-> IF f = 1 THEN 1 ELSE Free]
    /\ conns = [c \in Conn |-> IF c = 1 THEN [Unused EXCEPT !.who = "client", !.up = TRUE, !.peer = TRUE]
                               ELSE Unused]
    /\ authed = FALSE /\ canControl = FALSE /\ keyReq = 0 /\ proved = {}
    /\ cf = 0 /\ pipe = "open" /\ oc = FALSE /\ log = {}
    /\ cur = 1 /\ asked = 0 /\ hasKey = FALSE /\ asks = 0 /\ twice = FALSE
    /\ heard = [asked |-> 0, got |-> 0]

Session ==
    \/ Start \/ StartFails \/ OcOnly \/ Switch \/ KeyReq \/ Login \/ Overflow \/ Refuse
    \/ Shutdown \/ Settings \/ Assign \/ DetachFails \/ DetachedSyntax \/ Detach
    \/ Resume \/ WrongKey \/ AcceptFails \/ Broken \/ End
    \/ \E err \in BOOLEAN : OCcall(err) \/ Files(err)
    \/ \E fails \in {"no", "command", "data"} : Control(fails)
    \/ \E out \in Outcome : Eval(out) \/ DetachedEval(out)
    \/ \E bad, err \in BOOLEAN : SerEval(bad, err)
    \/ \E c \in Conn : Accept(c)

Client ==
    \/ ReadMessage \/ ReadFails
    \/ \E m \in Commands : Request(m)
    \/ \E cmd \in {"eval", "serEval"}, cut \in {"no", "head", "body"} : Leave(cmd, cut)
    \/ \E c \in Conn : Reconnect(c) \/ Stranger(c, "local") \/ Stranger(c, "elsewhere")

Next == Session \/ Client

Spec == Init /\ [][Next]_vars

-----------------------------------------------------------------------------
(* Properties.                                                             *)

\* However a session is detached and resumed, and whoever tries to take it over in
\* between, all it sends reaches the client: the connection it was started for or one
\* that has shown the key.  That is what makes the stale a->s of a resumed session work:
\* accept returns the number that detach_session has set free.
RepliesToClient == \A c \in sentTo : c \in Conn /\ conns[c].who = "client"

\* Nothing is executed for a client that should have logged in and has not, but for
\* calls of references, which are a permission of their own; the server takes control
\* commands only from clients who matched an entry marked @, or if neither
\* a login nor a password file is there; and no file is touched unless that is allowed.
OnlyAsPermitted ==
    \A e \in log :
        /\ cfg.authReq => e.proved # {} \/ e.kind = "OCcall"
        /\ e.kind = "control" => "admin" \in e.proved \/ (~cfg.authReq /\ cfg.auth # "file")
        /\ e.kind = "file" => cfg.io

\* A client that reads one message for each request takes none for the answer to
\* another request, over all connections of its session, until the session ends or it
\* has met one of the answers that are sent twice.
InStep == heard.got = heard.asked \/ twice \/ st = "ended"
=============================================================================
