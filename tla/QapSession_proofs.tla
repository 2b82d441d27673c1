-------------------------- MODULE QapSession_proofs --------------------------
(***************************************************************************)
(* A QAP1 session, for any configurations and commands and any number of   *)
(* requests, connections and descriptors: what it executes was permitted;  *)
(* and, unless evaluations open descriptors while it is detached, what it  *)
(* sends reaches its client, who stays in step with it.                    *)
(***************************************************************************)
EXTENDS QapSession, TLAPS, WellFoundedInduction, SequenceTheorems

Kinds == {"OCcall", "shutdown", "control", "file", "eval"}

\* What OnlyAsPermitted asks of something that is executed now.
May(kind) ==
    /\ cfg.authReq => proved # {} \/ kind = "OCcall"
    /\ kind = "control" => "admin" \in proved \/ (~cfg.authReq /\ cfg.auth # "file")
    /\ kind = "file" => cfg.io

\* The flags of the session say no more than the passwords that were given.
Earned ==
    /\ authed => proved # {}
    /\ canControl => "admin" \in proved \/ (~cfg.authReq /\ cfg.auth # "file")

\* An evaluation that goes on without a connection was begun with the right to.
DetachedByRight == st = "detached" => Passes

Inv == Earned /\ DetachedByRight /\ OnlyAsPermitted

Rights == <<cfg, authed, canControl, proved>>

Logs == log' = log \/ \E k \in Kinds : May(k) /\ Executes(k)

\* A step that changes no right keeps the invariant if what it executes is permitted
\* and a session is detached by right.
LEMMA LogKeeps ==
    ASSUME Inv, UNCHANGED Rights, Logs, st' = "detached" => st = "detached" \/ Passes
    PROVE  Inv'
<1>1. Earned'
  BY DEF Inv, Earned, Rights
<1>2. DetachedByRight'
  BY DEF Inv, DetachedByRight, Passes, Rights
<1>3. OnlyAsPermitted'
  <2>1. CASE log' = log
    BY <2>1 DEF Inv, OnlyAsPermitted, Rights
  <2>2. CASE \E k \in Kinds : May(k) /\ Executes(k)
    <3>1. PICK k \in Kinds : May(k) /\ Executes(k)
      BY <2>2
    <3>2. log' = log \cup {[kind |-> k, proved |-> proved]}
      BY <3>1 DEF Executes
    <3>3. SUFFICES ASSUME NEW e \in log'
                   PROVE /\ cfg.authReq => e.proved # {} \/ e.kind = "OCcall"
                         /\ e.kind = "control" =>
                                "admin" \in e.proved \/ (~cfg.authReq /\ cfg.auth # "file")
                         /\ e.kind = "file" => cfg.io
      BY DEF OnlyAsPermitted, Rights
    <3>4. CASE e \in log
      BY <3>4 DEF Inv, OnlyAsPermitted
    <3>5. CASE e = [kind |-> k, proved |-> proved]
      BY <3>1, <3>5 DEF May
    <3> QED BY <3>2, <3>3, <3>4, <3>5
  <2> QED BY <2>1, <2>2 DEF Logs
<1> QED BY <1>1, <1>2, <1>3 DEF Inv

\* Where a login is required, a client that is let pass has given a password.
LEMMA PassesProved ==
    ASSUME Inv, Passes
    PROVE  May("shutdown") /\ May("eval")
  BY DEF Inv, Earned, Passes, May

\* auth_user grants nothing that the password does not prove.
LEMMA LoginEarns ==
    ASSUME Inv, NEW who, AuthUser(who), Proves(who), UNCHANGED cfg
    PROVE  Earned'
<1>1. CASE cfg.auth = "file"
  BY <1>1 DEF Inv, Earned, AuthUser, Proves
<1>2. CASE cfg.auth = "none"
  BY <1>2 DEF Inv, Earned, AuthUser, Proves
<1>3. CASE cfg.auth \notin {"file", "none"}
  BY <1>3 DEF Inv, Earned, AuthUser, Proves
<1> QED BY <1>1, <1>2, <1>3

LEMMA LoginKeeps == ASSUME Inv, Login PROVE Inv'
<1>1. UNCHANGED cfg /\ log' = log
  BY DEF Login, workVars
<1>2. st' # "detached"
  BY DEF Login, Conclude, Reply, ReplyAndEnd, Received, Looping
<1>3. CASE UNCHANGED <<authed, canControl, proved>>
  BY <1>1, <1>2, <1>3, LogKeeps DEF Rights, Logs
<1>4. CASE AuthUser(Message.par) /\ Proves(Message.par)
  <2>1. Earned'
    BY <1>1, <1>4, LoginEarns
  <2> QED BY <1>1, <1>2, <2>1 DEF Inv, DetachedByRight, OnlyAsPermitted
<1> QED BY <1>3, <1>4 DEF Login

LEMMA ControlKeeps == ASSUME Inv, NEW fails, Control(fails) PROVE Inv'
<1>1. UNCHANGED Rights /\ st' # "detached"
  BY DEF Control, Keeps, rightVars, Rights, Reply, Granted, Received, Looping
<1>2. Passes
  BY DEF Control, Granted
<1>3. canControl => May("control")
  BY <1>2 DEF Inv, Earned, Passes, May
<1>4. Logs
  BY <1>3 DEF Control, Logs, Kinds
<1> QED BY <1>1, <1>4, LogKeeps

LEMMA FilesKeeps == ASSUME Inv, NEW io, Files(io) PROVE Inv'
<1>1. UNCHANGED Rights /\ st' # "detached"
  BY DEF Files, Keeps, rightVars, Rights, Granted, Received, Looping
<1>2. Passes
  BY DEF Files, Granted
<1>3. cfg.io => May("file")
  BY <1>2 DEF Inv, Earned, Passes, May
<1>4. log' = log \/ (cfg.io /\ Executes("file"))
  BY DEF Files
<1> QED BY <1>1, <1>3, <1>4, LogKeeps DEF Logs, Kinds

\* Commands that need a login and touch neither rights nor files nor the server.
LEMMA WorkKeeps ==
    ASSUME Inv, Passes, UNCHANGED Rights, st' # "detached",
           log' = log \/ Executes("eval") \/ Executes("shutdown")
    PROVE  Inv'
<1>1. Logs
  BY PassesProved DEF Logs, Kinds
<1> QED BY <1>1, LogKeeps

LEMMA GrantedKeeps ==
    ASSUME Inv,
           \/ Shutdown \/ Assign
           \/ \E out \in Outcome : Eval(out)
           \/ \E bad, err \in BOOLEAN : SerEval(bad, err)
    PROVE  Inv'
<1>1. CASE Shutdown
  BY <1>1, WorkKeeps DEF Shutdown, Keeps, rightVars, Rights, ReplyAndEnd, Granted
<1>2. CASE Assign
  BY <1>2, WorkKeeps DEF Assign, Keeps, rightVars, Rights, Reply, Granted, Received, Looping
<1>3. CASE \E out \in Outcome : Eval(out)
  BY <1>3, WorkKeeps DEF Eval, Keeps, rightVars, workVars, Rights, Reply, Granted, Received, Looping
<1>4. CASE \E bad, err \in BOOLEAN : SerEval(bad, err)
  BY <1>4, WorkKeeps DEF SerEval, Keeps, rightVars, Rights, Reply, Granted, Received, Looping
<1> QED BY <1>1, <1>2, <1>3, <1>4

\* OCcall needs no login, only a reference.
LEMMA OCcallKeeps == ASSUME Inv, NEW err, OCcall(err) PROVE Inv'
<1>1. UNCHANGED Rights /\ st' # "detached"
  BY DEF OCcall, Keeps, rightVars, Rights, Reply, ReplyAndEnd, Looping
<1>2. Logs
  BY DEF OCcall, Logs, Kinds, May
<1> QED BY <1>1, <1>2, LogKeeps

LEMMA DetachedKeeps ==
    ASSUME Inv, Detach \/ \E out \in Outcome : DetachedEval(out)
    PROVE  Inv'
<1>1. CASE Detach
  <2>1. UNCHANGED Rights /\ log' = log /\ Passes
    BY <1>1 DEF Detach, Detaches, Granted, Keeps, rightVars, workVars, Rights
  <2> QED BY <2>1, LogKeeps DEF Logs
<1>2. CASE \E out \in Outcome : DetachedEval(out)
  BY <1>2, WorkKeeps DEF DetachedEval, rightVars, Rights, Inv, DetachedByRight
<1> QED BY <1>1, <1>2

\* The start gives control only where neither a login nor a password file is there.
LEMMA StartKeeps == ASSUME Inv, Start PROVE Inv'
<1>1. Earned'
  BY DEF Start, ControlByDefault, Inv, Earned
<1>2. DetachedByRight'
  BY DEF Start, DetachedByRight
<1>3. OnlyAsPermitted'
  BY DEF Start, Inv, OnlyAsPermitted
<1> QED BY <1>1, <1>2, <1>3 DEF Inv

\* Steps that execute nothing.
LEMMA IdleKeeps ==
    ASSUME Inv, UNCHANGED Rights, log' = log, st' = "detached" => st = "detached"
    PROVE  Inv'
  BY LogKeeps DEF Logs

\* Steps of the session that only answer, or end it.
LEMMA AnswerKeeps ==
    ASSUME Inv, \/ StartFails \/ OcOnly \/ Switch \/ KeyReq \/ Overflow \/ Refuse
                \/ Settings \/ DetachFails \/ DetachedSyntax \/ Broken \/ End
    PROVE  Inv'
<1> USE DEF Keeps, rightVars, workVars, Rights, Reply, ReplyAndEnd, Granted, Received, Looping
<1>1. CASE StartFails
  BY <1>1, IdleKeeps DEF StartFails
<1>2. CASE OcOnly
  BY <1>2, IdleKeeps DEF OcOnly
<1>3. CASE Switch
  BY <1>3, IdleKeeps DEF Switch
<1>4. CASE KeyReq
  BY <1>4, IdleKeeps DEF KeyReq
<1>5. CASE Overflow
  BY <1>5, IdleKeeps DEF Overflow
<1>6. CASE Refuse
  BY <1>6, IdleKeeps DEF Refuse
<1>7. CASE Settings
  BY <1>7, IdleKeeps DEF Settings
<1>8. CASE DetachFails
  BY <1>8, IdleKeeps DEF DetachFails, Detaches
<1>9. CASE DetachedSyntax
  BY <1>9, IdleKeeps DEF DetachedSyntax
<1>10. CASE Broken
  BY <1>10, IdleKeeps DEF Broken
<1>11. CASE End
  BY <1>11, IdleKeeps DEF End
<1> QED BY <1>1, <1>2, <1>3, <1>4, <1>5, <1>6, <1>7, <1>8, <1>9, <1>10, <1>11

\* resume_session.
LEMMA ResumeKeeps ==
    ASSUME Inv, Resume \/ WrongKey \/ AcceptFails \/ \E c \in Conn : Accept(c)
    PROVE  Inv'
<1> USE DEF rightVars, workVars, Rights
<1>1. CASE Resume
  BY <1>1, IdleKeeps DEF Resume
<1>2. CASE WrongKey
  BY <1>2, IdleKeeps DEF WrongKey
<1>3. CASE AcceptFails
  BY <1>3, IdleKeeps DEF AcceptFails
<1>4. CASE \E c \in Conn : Accept(c)
  BY <1>4, IdleKeeps DEF Accept
<1> QED BY <1>1, <1>2, <1>3, <1>4

\* The client's own steps touch nothing that the session decides on.
LEMMA ClientKeeps == ASSUME Inv, Client PROVE Inv'
<1> USE DEF rightVars, workVars, Rights
<1>1. CASE ReadMessage
  BY <1>1, IdleKeeps DEF ReadMessage
<1>2. CASE ReadFails
  BY <1>2, IdleKeeps DEF ReadFails
<1>3. CASE \E m \in Commands : Request(m)
  BY <1>3, IdleKeeps DEF Request
<1>4. CASE \E cmd \in {"eval", "serEval"}, cut \in {"no", "head", "body"} : Leave(cmd, cut)
  BY <1>4, IdleKeeps DEF Leave
<1>5. CASE \E c \in Conn : Reconnect(c)
  BY <1>5, IdleKeeps DEF Reconnect
<1>6. CASE \E c \in Conn : Stranger(c, "local") \/ Stranger(c, "elsewhere")
  BY <1>6, IdleKeeps DEF Stranger
<1> QED BY <1>1, <1>2, <1>3, <1>4, <1>5, <1>6 DEF Client

LEMMA StepKeeps == ASSUME Inv, [Next]_vars PROVE Inv'
<1>1. CASE Session
  BY <1>1, StartKeeps, AnswerKeeps, ResumeKeeps, LoginKeeps, GrantedKeeps, DetachedKeeps,
     OCcallKeeps, FilesKeeps, ControlKeeps DEF Session
<1>2. CASE Client
  BY <1>2, ClientKeeps
<1>3. CASE UNCHANGED vars
  BY <1>3, IdleKeeps DEF vars, netVars, rightVars, workVars, Rights
<1> QED BY <1>1, <1>2, <1>3 DEF Next

\* Rserve_QAP1_connected executes nothing that its client may not do: whatever the
\* order of logins, commands, detached evaluations and reconnections, under every
\* configuration.
THEOREM PermissionsHold == Spec => []OnlyAsPermitted
<1>1. Init => Inv
  BY DEF Init, Inv, Earned, DetachedByRight, OnlyAsPermitted
<1>2. Inv /\ [Next]_vars => Inv'
  BY StepKeeps
<1>3. Inv => OnlyAsPermitted
  BY DEF Inv
<1> QED BY <1>1, <1>2, <1>3, PTL DEF Spec

-----------------------------------------------------------------------------
(* Replies reach the client, as long as evaluations open no descriptor     *)
(* while the session is detached.                                          *)

LEMMA LeastNat ==
    ASSUME NEW T \in SUBSET Nat, T # {}
    PROVE  \E x \in T : \A y \in T : x <= y
<1> DEFINE R == OpToRel(<, Nat)
<1>1. IsWellFoundedOn(R, Nat)
  BY NatLessThanWellFounded
<1> HIDE DEF R
<1>2. PICK x \in T : \A y \in T : ~(<<y, x>> \in R)
  BY <1>1, WFMin, Zenon
<1>3. \A y \in T : y < x => <<y, x>> \in R
  BY DEF R, OpToRel
<1>4. \A y \in T : ~(y < x)
  BY <1>2, <1>3, Zenon
<1>5. x \in Nat /\ \A y \in T : y \in Nat
  OBVIOUS
<1>6. \A y \in T : x <= y
  BY <1>4, <1>5, SMT
<1> QED BY <1>6, Zenon

\* A new descriptor is free, and the first one if that is free.
LEMMA LowestFree ==
    ASSUME NEW t, HasFree(t)
    PROVE  /\ Lowest(t) \in Fd /\ t[Lowest(t)] = Free
           /\ t[1] = Free => Lowest(t) = 1
<1>1. 1 \in Fd /\ Fd \subseteq Nat
  BY QapAssumption DEF Fd
<1> DEFINE T == {f \in Fd : t[f] = Free}
<1>2. T \in SUBSET Nat /\ T # {}
  BY <1>1 DEF HasFree
<1>3. \E x \in T : \A y \in T : x <= y
  BY <1>2, LeastNat
<1>4. \E f \in Fd : t[f] = Free /\ \A g \in Fd : t[g] = Free => f <= g
  BY <1>3
<1>5. /\ Lowest(t) \in Fd /\ t[Lowest(t)] = Free
      /\ \A g \in Fd : t[g] = Free => Lowest(t) <= g
  BY <1>4 DEF Lowest
<1>6. t[1] = Free => Lowest(t) = 1
  BY <1>1, <1>5 DEF Fd
<1> QED BY <1>5, <1>6

\* Connections, as far as they matter here.
Shape == /\ DOMAIN conns = Conn /\ DOMAIN fdt = Fd
         /\ \A c \in Conn : {"who", "in"} \subseteq DOMAIN conns[c]

\* Nobody but the client has the key.
KeyIsSecret ==
    /\ cur # 0 => cur \in Conn /\ conns[cur].who = "client"
    /\ \A c \in Conn : conns[c].who \notin {"none", "client"} => conns[c].in[1].par # "key"

\* Descriptor 1, where a->s is, is the client's connection, or free for it.
Place ==
    /\ as = 1 /\ cf # 1
    /\ st \in {"start", "loop"} => fdt[1] \in Conn /\ conns[fdt[1]].who = "client"
    /\ st \in {"detached", "resume"} => fdt[1] = Free
    /\ st = "key" => s = 1 /\ fdt[1] \in Conn /\ conns[fdt[1]].who # "none"

NetInv == Shape /\ KeyIsSecret /\ Place /\ RepliesToClient

\* No connection changes hands, and what strangers have sent stays.
SameConns ==
    /\ DOMAIN conns' = Conn
    /\ \A c \in Conn : /\ {"who", "in"} \subseteq DOMAIN conns'[c]
                       /\ conns'[c].who = conns[c].who
                       /\ conns[c].who # "client" => conns'[c].in = conns[c].in

\* A step that sends to a->s only in the loop, or when the key was shown.
LEMMA NetKeeps ==
    ASSUME NetInv, SameConns, DOMAIN fdt' = Fd, Place',
           cur' \in {0, cur},
           \A c \in sentTo' : c \in sentTo \/ (c \in Conn /\ conns[c].who = "client")
    PROVE  NetInv'
<1>1. Shape'
  BY DEF Shape, SameConns
<1>2. KeyIsSecret'
  BY DEF NetInv, KeyIsSecret, SameConns
<1>3. RepliesToClient'
  BY DEF NetInv, RepliesToClient, SameConns
<1> QED BY <1>1, <1>2, <1>3 DEF NetInv

\* What Reply and ReplyAndEnd do in the loop.
LEMMA ReplyKeeps ==
    ASSUME NetInv, st \in {"start", "loop"}, cf' = cf, cur' = cur, NEW codes,
           Reply(codes) \/ ReplyAndEnd(codes)
    PROVE  NetInv'
<1>1. Here \in Conn /\ conns[Here].who = "client"
  BY DEF NetInv, Place, Here
<1>2. SameConns
  <2>1. DOMAIN conns = Conn /\ \A c \in Conn : {"who", "in"} \subseteq DOMAIN conns[c]
    BY DEF NetInv, Shape
  <2>2. CASE Reply(codes)
    BY <1>1, <2>1, <2>2 DEF SameConns, Reply
  <2>3. CASE ReplyAndEnd(codes)
    BY <1>1, <2>1, <2>3 DEF SameConns, ReplyAndEnd
  <2> QED BY <2>2, <2>3
<1>3. DOMAIN fdt' = Fd
  BY DEF NetInv, Shape, Reply, ReplyAndEnd
<1>4. Place'
  <2>1. CASE Reply(codes)
    BY <2>1, <1>1, <1>2 DEF NetInv, Place, Reply, SameConns, Here
  <2>2. CASE ReplyAndEnd(codes)
    BY <2>2 DEF NetInv, Place, ReplyAndEnd
  <2> QED BY <2>1, <2>2
<1>5. \A c \in sentTo' : c \in sentTo \/ (c \in Conn /\ conns[c].who = "client")
  BY <1>1 DEF Reply, ReplyAndEnd
<1> QED BY <1>2, <1>3, <1>4, <1>5, NetKeeps

\* Commands that are answered and leave descriptors alone.
LEMMA CommandKeeps ==
    ASSUME NetInv,
           \/ OcOnly \/ Switch \/ KeyReq \/ Login \/ Overflow \/ Refuse \/ Shutdown \/ Settings
           \/ Assign \/ DetachFails \/ DetachedSyntax \/ Broken
           \/ \E err \in BOOLEAN : OCcall(err)
           \/ \E fails \in {"no", "command", "data"} : Control(fails)
           \/ \E bad, err \in BOOLEAN : SerEval(bad, err)
    PROVE  NetInv'
<1> USE DEF Keeps, clientVars, workVars, Granted, Received, Looping
<1>1. CASE OcOnly
  BY <1>1, ReplyKeeps DEF OcOnly
<1>2. CASE Switch
  BY <1>2, ReplyKeeps DEF Switch
<1>3. CASE KeyReq
  BY <1>3, ReplyKeeps DEF KeyReq
<1>4. CASE Login
  BY <1>4, ReplyKeeps DEF Login, Conclude
<1>5. CASE Overflow
  BY <1>5, ReplyKeeps DEF Overflow
<1>6. CASE Refuse
  BY <1>6, ReplyKeeps DEF Refuse
<1>7. CASE Shutdown
  BY <1>7, ReplyKeeps DEF Shutdown
<1>8. CASE Settings
  BY <1>8, ReplyKeeps DEF Settings
<1>9. CASE Assign
  BY <1>9, ReplyKeeps DEF Assign
<1>10. CASE DetachFails
  BY <1>10, ReplyKeeps DEF DetachFails, Detaches
<1>11. CASE DetachedSyntax
  BY <1>11, ReplyKeeps DEF DetachedSyntax
<1>12. CASE Broken
  BY <1>12, ReplyKeeps DEF Broken
<1>13. CASE \E err \in BOOLEAN : OCcall(err)
  BY <1>13, ReplyKeeps DEF OCcall
<1>14. CASE \E fails \in {"no", "command", "data"} : Control(fails)
  BY <1>14, ReplyKeeps DEF Control
<1>15. CASE \E bad, err \in BOOLEAN : SerEval(bad, err)
  BY <1>15, ReplyKeeps DEF SerEval
<1> QED BY <1>1, <1>2, <1>3, <1>4, <1>5, <1>6, <1>7, <1>8, <1>9, <1>10, <1>11, <1>12, <1>13,
           <1>14, <1>15

\* A file that is opened in the loop does not take the place of the connection.
LEMMA OpensElsewhere ==
    ASSUME NetInv, Looping, NEW t, t[1] = fdt[1], HasFree(t)
    PROVE  Lowest(t) \in Fd \ {1}
<1>1. t[1] # Free
  BY QapAssumption DEF NetInv, Place, Looping, Conn, Free
<1> QED BY <1>1, LowestFree

LEMMA FilesKeepPlace == ASSUME NetInv, NEW io, Files(io) PROVE NetInv'
<1>1. Looping /\ Here \in Conn /\ conns[Here].who = "client"
  BY DEF NetInv, Place, Here, Files, Granted, Received, Looping
<1>2. SameConns
  BY <1>1 DEF NetInv, Shape, SameConns, Files
<1> DEFINE t == IF cf = 0 THEN fdt ELSE [fdt EXCEPT ![cf] = Free]
<1>3. 1 \in Fd /\ t[1] = fdt[1] /\ DOMAIN t = Fd
  BY QapAssumption DEF Fd, NetInv, Place, Shape
<1>4. \/ UNCHANGED <<fdt, cf>>
      \/ fdt' = t /\ cf' = 0
      \/ HasFree(t) /\ fdt' = [t EXCEPT ![Lowest(t)] = File] /\ cf' = Lowest(t)
  BY DEF Files
<1> HIDE DEF t
<1>5. HasFree(t) => Lowest(t) # 1
  BY <1>1, <1>3, OpensElsewhere
<1>6. fdt'[1] = fdt[1] /\ cf' # 1 /\ DOMAIN fdt' = Fd
  BY <1>3, <1>4, <1>5 DEF NetInv, Shape, Place
<1>7. Place'
  BY <1>1, <1>2, <1>6 DEF NetInv, Place, Files, SameConns, Here, Looping
<1>8. \A c \in sentTo' : c \in sentTo \/ (c \in Conn /\ conns[c].who = "client")
  BY <1>1 DEF Files
<1>9. cur' = cur
  BY DEF Files, Keeps, clientVars
<1> QED BY <1>2, <1>6, <1>7, <1>8, <1>9, NetKeeps

LEMMA EvalKeepsPlace == ASSUME NetInv, NEW out, Eval(out) PROVE NetInv'
<1>1. Looping /\ Here \in Conn /\ conns[Here].who = "client"
  BY DEF NetInv, Place, Here, Eval, Granted, Received, Looping
<1>2. cur' = cur /\ cf' = cf
  BY DEF Eval, Keeps, clientVars, workVars
<1>3. CASE \E codes : Reply(codes)
  BY <1>1, <1>2, <1>3, ReplyKeeps DEF Looping
<1>4. CASE /\ SameConns /\ sentTo' = sentTo \cup {Here}
           /\ fdt' = IF out = "opens" /\ HasFree(fdt) THEN [fdt EXCEPT ![Lowest(fdt)] = File] ELSE fdt
           /\ UNCHANGED <<st, s, as>>
  <2>1. HasFree(fdt) => Lowest(fdt) # 1
    BY <1>1, OpensElsewhere
  <2>2. fdt'[1] = fdt[1] /\ DOMAIN fdt' = Fd
    BY <1>4, <2>1, QapAssumption DEF NetInv, Shape, Fd
  <2>3. Place'
    BY <1>1, <1>2, <1>4, <2>2 DEF NetInv, Place, SameConns, Here, Looping
  <2> QED BY <1>1, <1>2, <1>4, <2>2, <2>3, NetKeeps
<1>5. conns' = [conns EXCEPT ![Here].in = Tail(@),
                ![Here].out = @ \o Tagged(<<IF out = "error" THEN "error" ELSE "result">>)]
        => SameConns
  BY <1>1 DEF NetInv, Shape, SameConns
<1>6. (\E codes : Reply(codes)) \/ ~(Message.par \in {"bad", "syntax"})
  BY DEF Eval
<1> QED BY <1>3, <1>4, <1>5, <1>6 DEF Eval

\* detach_session sets descriptor 1 free, and its own takes another number.
LEMMA DetachKeepsPlace == ASSUME NetInv, Detach PROVE NetInv'
<1>1. Looping /\ Here \in Conn /\ conns[Here].who = "client" /\ as = 1
  BY DEF NetInv, Place, Here, Detach, Detaches, Granted, Received, Looping
<1>2. SameConns
  BY <1>1 DEF NetInv, Shape, SameConns, Detach
<1>3. 1 \in Fd /\ DOMAIN fdt = Fd
  BY QapAssumption DEF Fd, NetInv, Shape
<1>4. fdt'[1] = Free /\ DOMAIN fdt' = Fd
  BY <1>1, <1>3 DEF Detach
<1>5. st' \in {"resume", "detached"} /\ UNCHANGED <<as, cf, cur>>
  BY DEF Detach, Keeps, clientVars, workVars
<1>6. Place'
  BY <1>4, <1>5 DEF NetInv, Place
<1>7. \A c \in sentTo' : c \in sentTo \/ (c \in Conn /\ conns[c].who = "client")
  BY <1>1 DEF Detach
<1> QED BY <1>2, <1>4, <1>5, <1>6, <1>7, NetKeeps

LEMMA DetachedEvalKeepsPlace ==
    ASSUME NetInv, ~DetachedOpens, NEW out, DetachedEval(out) PROVE NetInv'
<1>1. fdt' = fdt /\ st = "detached" /\ st' = "resume" /\ UNCHANGED <<s, as, conns, sentTo, cf, cur>>
  BY DEF DetachedEval, clientVars
<1>2. SameConns /\ DOMAIN fdt' = Fd
  BY <1>1 DEF NetInv, Shape, SameConns
<1>3. Place'
  BY <1>1 DEF NetInv, Place
<1> QED BY <1>1, <1>2, <1>3, NetKeeps

\* accept returns the number that detach_session or a refused connection has set free.
LEMMA AcceptKeepsPlace == ASSUME NetInv, NEW c \in Conn, Accept(c) PROVE NetInv'
<1>1. /\ st = "resume" /\ HasFree(fdt) /\ conns[c].who # "none"
      /\ UNCHANGED <<as, sentTo, cf, cur>>
  BY DEF Accept, clientVars, workVars
<1>2. 1 \in Fd /\ Lowest(fdt) = 1
  BY <1>1, QapAssumption, LowestFree DEF NetInv, Place, Fd
<1>3. SameConns
  BY DEF NetInv, Shape, SameConns, Accept
<1>4. DOMAIN fdt' = Fd
  BY DEF Accept, NetInv, Shape
<1>5. Place'
  <2>1. CASE UNCHANGED <<st, fdt, s>>
    BY <1>1, <2>1 DEF NetInv, Place
  <2>2. CASE s' = Lowest(fdt) /\ fdt' = [fdt EXCEPT ![Lowest(fdt)] = c] /\ st' = "key" /\ UNCHANGED conns
    BY <1>1, <1>2, <2>2 DEF NetInv, Shape, Place
  <2> QED BY <2>1, <2>2 DEF Accept
<1> QED BY <1>1, <1>3, <1>4, <1>5, NetKeeps

LEMMA ResumeKeepsPlace == ASSUME NetInv, Resume PROVE NetInv'
<1>1. /\ st = "key" /\ st' = "loop" /\ s = 1 /\ as = 1 /\ fdt[s] = Here
      /\ UNCHANGED <<fdt, as, cf, cur>>
  BY DEF NetInv, Place, Here, Resume, clientVars, workVars
<1>2. Here \in Conn /\ conns[Here].who = "client"
  BY <1>1 DEF NetInv, Place, KeyIsSecret, Resume
<1>3. SameConns
  BY <1>1, <1>2 DEF NetInv, Shape, SameConns, Resume
<1>4. DOMAIN fdt' = Fd
  BY <1>1 DEF NetInv, Shape
<1>5. Place'
  BY <1>1, <1>2, <1>3 DEF NetInv, Place, SameConns, Here
<1>6. \A c \in sentTo' : c \in sentTo \/ (c \in Conn /\ conns[c].who = "client")
  BY <1>2 DEF Resume
<1> QED BY <1>1, <1>3, <1>4, <1>5, <1>6, NetKeeps

LEMMA WrongKeyKeepsPlace == ASSUME NetInv, WrongKey PROVE NetInv'
<1>1. /\ s = 1 /\ fdt[1] \in Conn /\ st' = "resume"
      /\ UNCHANGED <<as, sentTo, cf, cur>>
  BY DEF NetInv, Place, WrongKey, clientVars, workVars
<1>2. SameConns
  BY <1>1 DEF NetInv, Shape, SameConns, WrongKey
<1>3. fdt'[1] = Free /\ DOMAIN fdt' = Fd
  BY <1>1, QapAssumption DEF NetInv, Shape, WrongKey, Fd
<1>4. Place'
  BY <1>1, <1>3 DEF NetInv, Place
<1> QED BY <1>1, <1>2, <1>3, <1>4, NetKeeps

\* Steps after which the session is over, and its start.
LEMMA EndsKeepPlace ==
    ASSUME NetInv, Start \/ StartFails \/ End \/ AcceptFails PROVE NetInv'
<1>1. CASE Start
  <2>1. /\ Here \in Conn /\ conns[Here].who = "client"
        /\ st' = "loop" /\ UNCHANGED <<fdt, s, as, conns, cf, cur>>
    BY <1>1 DEF NetInv, Place, Here, Start, clientVars
  <2>2. SameConns /\ DOMAIN fdt' = Fd
    BY <2>1 DEF NetInv, Shape, SameConns
  <2>3. Place'
    BY <2>1 DEF NetInv, Place, Here
  <2>4. \A c \in sentTo' : c \in sentTo \/ (c \in Conn /\ conns[c].who = "client")
    BY <1>1, <2>1 DEF Start
  <2> QED BY <2>1, <2>2, <2>3, <2>4, NetKeeps
<1>2. CASE StartFails \/ End \/ AcceptFails
  <2>1. st' = "ended" /\ UNCHANGED <<as, cf, cur>> /\ DOMAIN fdt' = Fd
    BY <1>2 DEF StartFails, End, AcceptFails, Keeps, clientVars, workVars
  <2>2. SameConns
    <3>1. CASE StartFails
      <4>1. Here \in Conn
        BY <3>1 DEF NetInv, Place, Here, StartFails
      <4> QED BY <3>1, <4>1 DEF NetInv, Shape, SameConns, StartFails
    <3>2. CASE End
      <4>1. DOMAIN conns' = Conn
        BY <3>2 DEF End
      <4>2. ASSUME NEW c \in Conn
            PROVE  conns'[c] = [conns[c] EXCEPT !.up = conns[c].up /\ c # Here]
        BY <3>2 DEF End
      <4> QED BY <4>1, <4>2 DEF NetInv, Shape, SameConns
    <3>3. CASE AcceptFails
      BY <3>3 DEF NetInv, Shape, SameConns, AcceptFails
    <3> QED BY <1>2, <3>1, <3>2, <3>3
  <2>3. sentTo' = sentTo
    BY <1>2 DEF NetInv, Place, Here, StartFails, End, AcceptFails, Keeps
  <2>4. Place'
    BY <2>1 DEF NetInv, Place
  <2> QED BY <2>1, <2>2, <2>3, <2>4, NetKeeps
<1> QED BY <1>1, <1>2

\* Steps of the client on connections that it has.
LEMMA ClientKeepsPlace ==
    ASSUME NetInv,
           \/ ReadMessage \/ ReadFails
           \/ \E m \in Commands : Request(m)
           \/ \E cmd \in {"eval", "serEval"}, cut \in {"no", "head", "body"} : Leave(cmd, cut)
    PROVE  NetInv'
<1>1. UNCHANGED <<st, fdt, s, as, sentTo, cf>> /\ cur' \in {0, cur}
  BY DEF ReadMessage, ReadFails, Request, Leave, workVars
<1>2. SameConns
  <2>1. CASE ReadMessage
    BY <2>1 DEF NetInv, Shape, KeyIsSecret, SameConns, ReadMessage
  <2>2. CASE ReadFails
    BY <2>2 DEF NetInv, Shape, KeyIsSecret, SameConns, ReadFails
  <2>3. CASE \E m \in Commands : Request(m)
    BY <2>3 DEF NetInv, Shape, KeyIsSecret, SameConns, Request
  <2>4. CASE \E cmd \in {"eval", "serEval"}, cut \in {"no", "head", "body"} : Leave(cmd, cut)
    BY <2>4 DEF NetInv, Shape, KeyIsSecret, SameConns, Leave
  <2> QED BY <2>1, <2>2, <2>3, <2>4
<1>3. Place'
  BY <1>1, <1>2 DEF NetInv, Place, SameConns
<1>4. DOMAIN fdt' = Fd
  BY <1>1 DEF NetInv, Shape
<1> QED BY <1>1, <1>2, <1>3, <1>4, NetKeeps

\* New connections, of the client with the key or of somebody without.
LEMMA ConnectKeepsPlace ==
    ASSUME NetInv, NEW c \in Conn,
           Reconnect(c) \/ Stranger(c, "local") \/ Stranger(c, "elsewhere")
    PROVE  NetInv'
<1> DEFINE m(who, par, id) ==
       [who |-> who, out |-> <<>>, up |-> TRUE, peer |-> TRUE,
        in |-> <<[id |-> id, cmd |-> "resume", par |-> par, cut |-> "no"]>>]
<1>a. /\ conns[c].who = "none" /\ UNCHANGED <<st, fdt, s, as, sentTo, cf>>
      /\ \/ conns' = [conns EXCEPT ![c] = m("client", "key", NextId)] /\ cur' = c
         \/ /\ cur' = cur
            /\ \E who \in {"local", "elsewhere"} : conns' = [conns EXCEPT ![c] = m(who, "wrong", 0)]
  BY DEF Reconnect, Stranger, NewConn, clientVars, workVars
<1>b. \A who, par, id : /\ {"who", "in"} \subseteq DOMAIN m(who, par, id)
                        /\ m(who, par, id).who = who /\ m(who, par, id).in[1].par = par
  OBVIOUS
<1> HIDE DEF m
<1>c. \A r : /\ DOMAIN [conns EXCEPT ![c] = r] = Conn /\ [conns EXCEPT ![c] = r][c] = r
             /\ \A d \in Conn \ {c} : [conns EXCEPT ![c] = r][d] = conns[d]
  BY DEF NetInv, Shape
<1>1. /\ conns[c].who = "none" /\ UNCHANGED <<st, fdt, s, as, sentTo, cf>>
      /\ \A d \in Conn \ {c} : conns'[d] = conns[d]
      /\ DOMAIN conns' = Conn /\ {"who", "in"} \subseteq DOMAIN conns'[c]
      /\ \/ conns'[c].who = "client" /\ cur' \in {cur, c}
         \/ conns'[c].who \in {"local", "elsewhere"} /\ conns'[c].in[1].par # "key" /\ cur' = cur
  <2>1. CASE conns' = [conns EXCEPT ![c] = m("client", "key", NextId)] /\ cur' = c
    BY <1>a, <1>b, <1>c, <2>1
  <2>2. ASSUME NEW who \in {"local", "elsewhere"}, cur' = cur,
               conns' = [conns EXCEPT ![c] = m(who, "wrong", 0)]
        PROVE  /\ \A d \in Conn \ {c} : conns'[d] = conns[d]
               /\ DOMAIN conns' = Conn /\ {"who", "in"} \subseteq DOMAIN conns'[c]
               /\ conns'[c].who \in {"local", "elsewhere"} /\ conns'[c].in[1].par # "key"
    BY <1>b, <1>c, <2>2
  <2> QED BY <1>a, <2>1, <2>2
<1>2. Shape'
  BY <1>1 DEF NetInv, Shape
<1>3. KeyIsSecret'
  BY <1>1 DEF NetInv, KeyIsSecret
<1>4. Place'
  BY <1>1 DEF NetInv, Place
<1>5. RepliesToClient'
  BY <1>1 DEF NetInv, RepliesToClient
<1> QED BY <1>2, <1>3, <1>4, <1>5 DEF NetInv

LEMMA NetStepKeeps == ASSUME NetInv, ~DetachedOpens, [Next]_vars PROVE NetInv'
<1>1. CASE Session
  BY <1>1, CommandKeeps, FilesKeepPlace, EvalKeepsPlace, DetachKeepsPlace, DetachedEvalKeepsPlace,
     AcceptKeepsPlace, ResumeKeepsPlace, WrongKeyKeepsPlace, EndsKeepPlace DEF Session
<1>2. CASE Client
  BY <1>2, ClientKeepsPlace, ConnectKeepsPlace DEF Client
<1>3. CASE UNCHANGED vars
  BY <1>3 DEF vars, netVars, workVars, clientVars, NetInv, Shape, KeyIsSecret, Place, RepliesToClient
<1> QED BY <1>1, <1>2, <1>3 DEF Next

LEMMA NetInit == Init => NetInv
<1>1. 1 \in Fd /\ 1 \in Conn /\ 0 \notin Conn
  BY QapAssumption DEF Fd, Conn
<1> SUFFICES ASSUME Init PROVE NetInv
  OBVIOUS
<1>2. DOMAIN conns = Conn /\ DOMAIN fdt = Fd /\ fdt[1] = 1
  BY <1>1 DEF Init
<1>3. conns[1] = [who |-> "client", in |-> <<>>, out |-> <<>>, up |-> TRUE, peer |-> TRUE]
  BY <1>1 DEF Init, Unused
<1>4. \A c \in Conn : c # 1 => conns[c] = Unused
  BY DEF Init
<1>5. \A c \in Conn : /\ {"who", "in"} \subseteq DOMAIN conns[c]
                       /\ conns[c].who = IF c = 1 THEN "client" ELSE "none"
  BY <1>3, <1>4 DEF Unused
<1>6. Shape /\ KeyIsSecret
  BY <1>1, <1>2, <1>5 DEF Init, Shape, KeyIsSecret
<1>7. Place /\ RepliesToClient
  BY <1>1, <1>2, <1>5 DEF Init, Place, RepliesToClient
<1> QED BY <1>6, <1>7 DEF NetInv

\* detach_session and resume_session: unless an evaluation opens a descriptor while
\* its session is detached, everything that the session sends through the stale a->s
\* goes to its client, for any number of connections and descriptors.
THEOREM RepliesReachClient == ~DetachedOpens => (Spec => []RepliesToClient)
<1> SUFFICES ASSUME ~DetachedOpens PROVE Spec => []RepliesToClient
  OBVIOUS
<1>1. Init => NetInv
  BY NetInit
<1>2. NetInv /\ [Next]_vars => NetInv'
  BY NetStepKeeps
<1>3. NetInv => RepliesToClient
  BY DEF NetInv
<1> QED BY <1>1, <1>2, <1>3, PTL DEF Spec

-----------------------------------------------------------------------------
(* The client and the session stay in step.                                *)

\* The client's connection: nothing under way; a request that is to be read; one that
\* will not be answered; or its answer, alone or followed by another one of the kind
\* that is sent twice.
One(q) == Len(q) = 1 /\ q = <<q[1]>>
Two(q) == Len(q) = 2 /\ q = <<q[1], q[2]>>

TalkOn(in, out) ==
    \/ in = <<>> /\ out = <<>>
    \/ asked # 0 /\ One(in) /\ in[1].id = asked /\ out = <<>>
    \/ asked # 0 /\ in = <<>> /\ One(out) /\ out[1].to = asked
    \/ asked # 0 /\ in = <<>> /\ Two(out) /\ out[1].to = asked /\ AnsweredTwice(out[1])

Talk ==
    /\ heard.got = heard.asked
    /\ cur = 0 => asked = 0
    /\ cur # 0 => TalkOn(conns[cur].in, conns[cur].out)

Fields == \A c \in Conn : DOMAIN conns[c] = {"who", "in", "out", "up", "peer"}

TalkInv == /\ asks \in Nat
           /\ Fields
           /\ twice \/ st = "ended" \/ Talk

\* An answer, if it is none, one, or two of a kind that is known to be sent twice.
TagOf(x) == [to |-> Message.id, cmd |-> Message.cmd, code |-> x]

Counted(codes) ==
    \/ codes = <<>>
    \/ \E x : codes = <<x>>
    \/ \E x, y : codes = <<x, y>> /\ AnsweredTwice(TagOf(x))

\* A step of the session that takes a message and answers it, or ends the session.
Answers(codes) ==
    /\ Looping /\ Inbox # <<>>
    /\ \/ conns' = [conns EXCEPT ![Here].in = Tail(@), ![Here].out = @ \o Tagged(codes)]
       \/ conns' = [conns EXCEPT ![Here].in = Tail(@), ![Here].out = @ \o Tagged(codes), ![Here].up = FALSE]
    /\ st' = "ended" \/ Counted(codes)
    /\ UNCHANGED clientVars

LEMMA TaggedAnswers ==
    /\ Tagged(<<>>) = <<>>
    /\ \A x : Tagged(<<x>>) = <<TagOf(x)>>
    /\ \A x, y : Tagged(<<x, y>>) = <<TagOf(x), TagOf(y)>>
<1>1. Tagged(<<>>) = <<>>
  BY DEF Tagged
<1>2. ASSUME NEW x PROVE Tagged(<<x>>) = <<TagOf(x)>>
  BY DEF Tagged, TagOf
<1>3. ASSUME NEW x, NEW y PROVE Tagged(<<x, y>>) = <<TagOf(x), TagOf(y)>>
  BY DEF Tagged, TagOf
<1> QED BY <1>1, <1>2, <1>3

\* The answers of a request that was alone on its connection are alone there.
LEMMA AnswersAlone ==
    ASSUME NEW codes, Counted(codes), asked # 0, Message.id = asked
    PROVE  \/ Tagged(codes) = <<>>
           \/ One(Tagged(codes)) /\ Tagged(codes)[1].to = asked
           \/ /\ Two(Tagged(codes)) /\ Tagged(codes)[1].to = asked
              /\ AnsweredTwice(Tagged(codes)[1])
<1>1. CASE codes = <<>>
  BY <1>1, TaggedAnswers
<1>2. CASE \E x : codes = <<x>>
  <2>1. PICK x : Tagged(codes) = <<TagOf(x)>>
    BY <1>2, TaggedAnswers
  <2>2. TagOf(x).to = asked
    BY DEF TagOf
  <2> QED BY <2>1, <2>2 DEF One
<1>3. CASE \E x, y : codes = <<x, y>> /\ AnsweredTwice(TagOf(x))
  <2>1. PICK x, y : Tagged(codes) = <<TagOf(x), TagOf(y)>> /\ AnsweredTwice(TagOf(x))
    BY <1>3, TaggedAnswers
  <2>2. TagOf(x).to = asked
    BY DEF TagOf
  <2> DEFINE a == TagOf(x)
             b == TagOf(y)
             q == Tagged(codes)
  <2>3. q = <<a, b>> /\ a.to = asked /\ AnsweredTwice(a)
    BY <2>1, <2>2
  <2> HIDE DEF a, b, q
  <2>4. q[1] = a /\ q[2] = b /\ Len(q) = 2
    BY <2>3
  <2>5. Two(q) /\ q[1].to = asked /\ AnsweredTwice(q[1])
    BY <2>3, <2>4 DEF Two
  <2> QED BY <2>5 DEF q
<1> QED BY <1>1, <1>2, <1>3 DEF Counted

\* What a step of the session changes on its connection.
LEMMA AnswersOn ==
    ASSUME NetInv, TalkInv, NEW codes, Answers(codes)
    PROVE  /\ Here \in Conn /\ Fields'
           /\ \A c \in Conn : c # Here => conns'[c] = conns[c]
           /\ conns'[Here].in = Tail(Inbox)
           /\ conns'[Here].out = conns[Here].out \o Tagged(codes)
<1>1. Here \in Conn /\ DOMAIN conns = Conn
  BY DEF NetInv, Place, Shape, Here, Answers, Looping
<1> DEFINE r  == conns[Here]
           i  == Tail(r.in)
           o  == r.out \o Tagged(codes)
           r2 == [[r EXCEPT !.in = i] EXCEPT !.out = o]
           r3 == [r2 EXCEPT !.up = FALSE]
<1>2. conns' = [conns EXCEPT ![Here] = r2] \/ conns' = [conns EXCEPT ![Here] = r3]
  BY <1>1 DEF Answers
<1>3. DOMAIN r = {"who", "in", "out", "up", "peer"}
  BY <1>1 DEF TalkInv, Fields
<1> HIDE DEF r, i, o
<1>4. /\ DOMAIN r2 = {"who", "in", "out", "up", "peer"} /\ r2.in = i /\ r2.out = o
      /\ DOMAIN r3 = {"who", "in", "out", "up", "peer"} /\ r3.in = i /\ r3.out = o
  BY <1>3
<1> HIDE DEF r2, r3
<1>5. /\ conns'[Here] = r2 \/ conns'[Here] = r3
      /\ \A c \in Conn : c # Here => conns'[c] = conns[c]
  BY <1>1, <1>2
<1>6. Fields'
  BY <1>4, <1>5 DEF TalkInv, Fields
<1> QED BY <1>1, <1>4, <1>5, <1>6 DEF i, o, r, Inbox

LEMMA TailOfOne == ASSUME NEW q, One(q) PROVE Tail(q) = <<>>
<1>1. ASSUME NEW x PROVE Tail(<<x>>) = <<>>
  OBVIOUS
<1>2. PICK x : q = <<x>>
  BY DEF One
<1> QED BY <1>1, <1>2, Zenon

\* The session answers what it reads on the connection of the client, once or as the
\* client knows; what it reads elsewhere does not reach the client.
LEMMA AnswersKeepTalk ==
    ASSUME NetInv, TalkInv, NEW codes, Answers(codes)
    PROVE  TalkInv'
<1>1. UNCHANGED <<cur, asked, hasKey, asks, heard, twice>>
  BY DEF Answers, clientVars
<1>2. asks' \in Nat /\ Fields'
  BY <1>1, AnswersOn DEF TalkInv
<1>3. SUFFICES ASSUME Talk, Counted(codes) PROVE Talk'
  BY <1>1, <1>2 DEF TalkInv, Answers, Looping
<1>4. CASE cur = 0
  BY <1>1, <1>3, <1>4 DEF Talk
<1>5. CASE cur # 0 /\ cur # Here
  <2>1. cur \in Conn
    BY <1>5 DEF NetInv, KeyIsSecret
  <2>2. conns'[cur] = conns[cur]
    BY <2>1, <1>5, AnswersOn
  <2> QED BY <1>1, <1>3, <1>5, <2>2 DEF Talk, TalkOn
<1>6. CASE cur # 0 /\ cur = Here
  <2> DEFINE q == Tagged(codes)
  <2>1. Inbox # <<>> /\ TalkOn(Inbox, conns[Here].out)
    BY <1>3, <1>6 DEF Talk, Inbox, Answers
  <2>2. asked # 0 /\ One(Inbox) /\ Message.id = asked /\ conns[Here].out = <<>>
    BY <2>1 DEF TalkOn, Message
  <2>3. \/ q = <<>>
        \/ One(q) /\ q[1].to = asked
        \/ Two(q) /\ q[1].to = asked /\ AnsweredTwice(q[1])
    BY <1>3, <2>2, AnswersAlone
  <2>4. conns'[Here].in = <<>> /\ conns'[Here].out = <<>> \o q
    BY <2>2, AnswersOn, TailOfOne
  <2> HIDE DEF q
  <2>5. <<>> \o q = q
    BY <2>3 DEF One, Two
  <2>6. TalkOn(<<>>, q)
    BY <2>2, <2>3 DEF TalkOn
  <2>8. TalkOn(conns[cur].in, conns[cur].out)'
    BY <1>1, <1>6, <2>4, <2>5, <2>6 DEF TalkOn
  <2> QED BY <1>1, <1>3, <2>8, <1>6 DEF Talk
<1> QED BY <1>4, <1>5, <1>6

LEMMA ReplyTalks ==
    ASSUME NetInv, TalkInv, Looping, Inbox # <<>>, UNCHANGED clientVars, NEW codes,
           (Reply(codes) /\ Counted(codes)) \/ ReplyAndEnd(codes)
    PROVE  TalkInv'
<1>1. Answers(codes)
  BY DEF Answers, Reply, ReplyAndEnd
<1> QED BY <1>1, AnswersKeepTalk

\* A failed login is answered once more by what follows the login.
LEMMA LoginTalks == ASSUME NetInv, TalkInv, Login PROVE TalkInv'
<1>1. Looping /\ Inbox # <<>> /\ UNCHANGED clientVars /\ Message.cmd \in {"login", "secLogin"}
  BY DEF Login, Received
<1>2. \A x : Counted(<<x>>)
  BY DEF Counted
<1>3. ASSUME NEW x, AnsweredTwice(TagOf(x)), NEW now, Conclude(<<x>>, now)
      PROVE  TalkInv'
  <2>1. ASSUME NEW y PROVE <<x>> \o <<y>> = <<x, y>>
    <3> DEFINE a == <<x>>
               b == <<y>>
               ab == <<x, y>>
    <3>1. a \in Seq({x, y}) /\ Len(a) = 1 /\ a[1] = x
      OBVIOUS
    <3>2. b \in Seq({x, y}) /\ Len(b) = 1 /\ b[1] = y
      OBVIOUS
    <3>3. ab \in Seq({x, y}) /\ Len(ab) = 2 /\ ab[1] = x /\ ab[2] = y
      OBVIOUS
    <3> HIDE DEF a, b, ab
    <3> DEFINE c == a \o b
    <3>4. /\ c \in Seq({x, y}) /\ Len(c) = Len(a) + Len(b)
          /\ \A i \in 1..(Len(a) + Len(b)) : c[i] = IF i <= Len(a) THEN a[i] ELSE b[i - Len(a)]
      BY <3>1, <3>2, ConcatProperties
    <3> HIDE DEF c
    <3>5. Len(c) = 2 /\ c[1] = x /\ c[2] = y
      BY <3>1, <3>2, <3>4
    <3>6. c = ab
      BY <3>3, <3>4, <3>5, SeqEqual
    <3>7. a \o b = ab
      BY <3>6 DEF c
    <3> QED BY <3>7 DEF a, b, ab
  <2>2. \A y : Counted(<<x>> \o <<y>>)
    BY <1>3, <2>1 DEF Counted
  <2> QED BY <1>1, <1>3, <2>2, ReplyTalks DEF Conclude
<1>4. ASSUME Conclude(<<>>, FALSE) PROVE TalkInv'
  <2>1. \A y : <<>> \o <<y>> = <<y>>
    OBVIOUS
  <2>2. \A y : Counted(<<>> \o <<y>>)
    BY <1>2, <2>1
  <2> QED BY <1>1, <1>4, <2>2, ReplyTalks DEF Conclude
<1>5. AnsweredTwice(TagOf("ERR_inv_par"))
  BY <1>1 DEF AnsweredTwice, TagOf
<1>6. Message.cmd = "secLogin" => AnsweredTwice(TagOf("ERR_auth_failed"))
  BY DEF AnsweredTwice, TagOf
<1>7. \/ Conclude(<<"ERR_inv_par">>, authed)
      \/ Message.cmd = "secLogin" /\ Conclude(<<"ERR_auth_failed">>, authed)
      \/ Reply(<<"OK">>)
      \/ Conclude(<<>>, FALSE)
  BY DEF Login
<1> QED BY <1>1, <1>2, <1>3, <1>4, <1>5, <1>6, <1>7, ReplyTalks

\* CMD_serAssign that fails is answered twice.
LEMMA SerEvalTalks == ASSUME NetInv, TalkInv, NEW bad, NEW err, SerEval(bad, err) PROVE TalkInv'
<1>1. Looping /\ Inbox # <<>> /\ UNCHANGED clientVars
  BY DEF SerEval, Granted, Received, Keeps
<1>2. \/ Reply(<<>>) \/ \E x : Reply(<<x>>)
      \/ Message.cmd = "serAssign" /\ Reply(<<"error", "error">>)
  BY DEF SerEval
<1>3. Message.cmd = "serAssign" => Counted(<<"error", "error">>)
  BY DEF Counted, AnsweredTwice, TagOf
<1>4. Counted(<<>>) /\ \A x : Counted(<<x>>)
  BY DEF Counted
<1> QED BY <1>1, <1>2, <1>3, <1>4, ReplyTalks

\* So is CMD_detachedVoidEval that finds no port.
LEMMA DetachFailsTalks == ASSUME NetInv, TalkInv, DetachFails PROVE TalkInv'
<1>1. /\ Looping /\ Inbox # <<>> /\ UNCHANGED clientVars
      /\ Message.cmd \in {"detachSession", "detachedVoidEval"}
  BY DEF DetachFails, Detaches, Granted, Received, Keeps
<1>2. \/ Reply(<<"ERR_detach_failed">>)
      \/ Message.cmd = "detachedVoidEval" /\ Reply(<<"ERR_detach_failed", "ERR_detach_failed">>)
  BY <1>1 DEF DetachFails
<1>3. Message.cmd = "detachedVoidEval" => Counted(<<"ERR_detach_failed", "ERR_detach_failed">>)
  BY DEF Counted, AnsweredTwice, TagOf
<1>4. \A x : Counted(<<x>>)
  BY DEF Counted
<1> QED BY <1>1, <1>2, <1>3, <1>4, ReplyTalks

\* Commands with one answer, or with one after which the session ends.
LEMMA CommandTalks ==
    ASSUME NetInv, TalkInv,
           \/ OcOnly \/ Switch \/ KeyReq \/ Overflow \/ Refuse \/ Shutdown \/ Settings
           \/ Assign \/ DetachedSyntax \/ Broken
           \/ \E err \in BOOLEAN : OCcall(err)
           \/ \E fails \in {"no", "command", "data"} : Control(fails)
    PROVE  TalkInv'
<1> USE DEF Keeps, Granted, Received
<1>1. /\ Looping /\ Inbox # <<>> /\ UNCHANGED clientVars
      /\ (\E x : Reply(<<x>>)) \/ (\E codes : ReplyAndEnd(codes))
  <2>1. CASE OcOnly
    BY <2>1 DEF OcOnly
  <2>2. CASE Switch
    BY <2>2 DEF Switch
  <2>3. CASE KeyReq
    BY <2>3 DEF KeyReq
  <2>4. CASE Overflow
    BY <2>4 DEF Overflow
  <2>5. CASE Refuse
    BY <2>5 DEF Refuse
  <2>6. CASE Shutdown
    BY <2>6 DEF Shutdown
  <2>7. CASE Settings
    BY <2>7 DEF Settings
  <2>8. CASE Assign
    BY <2>8 DEF Assign
  <2>9. CASE DetachedSyntax
    BY <2>9 DEF DetachedSyntax
  <2>10. CASE Broken
    BY <2>10 DEF Broken
  <2>11. CASE \E err \in BOOLEAN : OCcall(err)
    BY <2>11 DEF OCcall
  <2>12. CASE \E fails \in {"no", "command", "data"} : Control(fails)
    BY <2>12 DEF Control
  <2> QED BY <2>1, <2>2, <2>3, <2>4, <2>5, <2>6, <2>7, <2>8, <2>9, <2>10, <2>11, <2>12
<1>2. \A x : Counted(<<x>>)
  BY DEF Counted
<1> QED BY <1>1, <1>2, ReplyTalks

\* Commands that open and close files or detach the session, with one answer.
LEMMA WorkTalks ==
    ASSUME NetInv, TalkInv,
           \/ Detach
           \/ \E io \in BOOLEAN : Files(io)
           \/ \E out \in Outcome : Eval(out)
    PROVE  TalkInv'
<1>1. Looping /\ Inbox # <<>> /\ UNCHANGED clientVars
  BY DEF Detach, Detaches, Files, Eval, Granted, Received, Keeps
<1>2. \E x : Answers(<<x>>)
  <2>1. \A x : Counted(<<x>>)
    BY DEF Counted
  <2>2. CASE Detach
    BY <1>1, <2>1, <2>2 DEF Detach, Answers
  <2>3. CASE \E io \in BOOLEAN : Files(io)
    BY <1>1, <2>1, <2>3 DEF Files, Answers
  <2>4. CASE \E out \in Outcome : Eval(out)
    BY <1>1, <2>1, <2>4 DEF Eval, Reply, Answers
  <2> QED BY <2>2, <2>3, <2>4
<1> QED BY <1>2, AnswersKeepTalk

\* Steps of the session that read and send nothing.
LEMMA QuietTalks ==
    ASSUME NetInv, TalkInv, Fields', UNCHANGED clientVars, st # "ended",
           \A c \in Conn : conns'[c].in = conns[c].in /\ conns'[c].out = conns[c].out
    PROVE  TalkInv'
<1>1. UNCHANGED <<cur, asked, asks, heard, twice>>
  BY DEF clientVars
<1>2. SUFFICES ASSUME Talk PROVE Talk'
  BY <1>1 DEF TalkInv
<1>3. CASE cur = 0
  BY <1>1, <1>2, <1>3 DEF Talk
<1>4. CASE cur # 0
  <2>1. conns'[cur].in = conns[cur].in /\ conns'[cur].out = conns[cur].out
    BY <1>4 DEF NetInv, KeyIsSecret
  <2>2. TalkOn(conns[cur].in, conns[cur].out)
    BY <1>2, <1>4 DEF Talk
  <2>3. TalkOn(conns[cur].in, conns[cur].out)'
    BY <1>1, <2>1, <2>2 DEF TalkOn
  <2> QED BY <1>1, <1>2, <2>3 DEF Talk
<1> QED BY <1>3, <1>4

LEMMA UpTalks ==
    ASSUME NetInv, TalkInv, UNCHANGED clientVars, st # "ended", NEW c, NEW b,
           conns' = [conns EXCEPT ![c].up = b]
    PROVE  TalkInv'
<1>1. DOMAIN conns = Conn /\ Fields
  BY DEF NetInv, Shape, TalkInv
<1>2. ASSUME NEW d \in Conn
      PROVE  /\ DOMAIN conns'[d] = DOMAIN conns[d]
             /\ conns'[d].in = conns[d].in /\ conns'[d].out = conns[d].out
  BY <1>1
<1>3. Fields'
  BY <1>1, <1>2 DEF Fields
<1> QED BY <1>2, <1>3, QuietTalks

LEMMA SilentTalks ==
    ASSUME NetInv, TalkInv,
           \/ Start \/ StartFails \/ WrongKey \/ AcceptFails \/ End
           \/ \E out \in Outcome : DetachedEval(out)
           \/ \E c \in Conn : Accept(c)
    PROVE  TalkInv'
<1>1. UNCHANGED clientVars /\ st # "ended"
  BY DEF Start, StartFails, WrongKey, AcceptFails, End, DetachedEval, Accept, Keeps, Looping
<1>2. CASE conns' = conns
  <2>1. Fields'
    BY <1>2 DEF TalkInv, Fields
  <2> QED BY <1>1, <1>2, <2>1, QuietTalks
<1>3. CASE \E c, b : conns' = [conns EXCEPT ![c].up = b]
  BY <1>1, <1>3, UpTalks
<1>4. CASE End
  <2>1. ASSUME NEW c \in Conn
        PROVE  conns'[c] = [conns[c] EXCEPT !.up = conns[c].up /\ c # Here]
    BY <1>4 DEF End
  <2>2. ASSUME NEW c \in Conn
        PROVE  /\ DOMAIN conns'[c] = {"who", "in", "out", "up", "peer"}
               /\ conns'[c].in = conns[c].in /\ conns'[c].out = conns[c].out
    BY <2>1 DEF TalkInv, Fields
  <2>3. Fields'
    BY <2>2 DEF Fields
  <2> QED BY <1>1, <2>2, <2>3, QuietTalks
<1>5. \/ conns' = conns \/ End
      \/ \E c, b : conns' = [conns EXCEPT ![c].up = b]
  BY DEF Start, StartFails, WrongKey, AcceptFails, DetachedEval, Accept
<1> QED BY <1>2, <1>3, <1>4, <1>5

\* The connection that has shown the key is the one that is answered.
LEMMA ResumeTalks == ASSUME NetInv, TalkInv, Resume PROVE TalkInv'
<1>1. /\ fdt[s] = Here /\ Here \in Conn /\ Inbox # <<>>
      /\ UNCHANGED clientVars /\ st # "ended"
  BY DEF NetInv, Place, Here, Inbox, Resume
<1>2. UNCHANGED <<cur, asked, asks, heard, twice>>
  BY <1>1 DEF clientVars
<1> DEFINE a == [to |-> Message.id, cmd |-> "resume", code |-> "OK"]
<1>3. ASSUME NEW c \in Conn
      PROVE  conns'[c] = [conns[c] EXCEPT !.in  = IF c = Here THEN Tail(conns[c].in) ELSE conns[c].in,
                                          !.out = IF c = Here THEN Append(conns[c].out, a) ELSE conns[c].out]
  BY <1>1 DEF Resume, Message, Inbox
<1>4. a.to = Message.id
  OBVIOUS
<1> HIDE DEF a
<1>5. ASSUME NEW c \in Conn
      PROVE  /\ DOMAIN conns'[c] = {"who", "in", "out", "up", "peer"}
             /\ c # Here => conns'[c].in = conns[c].in /\ conns'[c].out = conns[c].out
             /\ c = Here => conns'[c].in = Tail(conns[c].in) /\ conns'[c].out = Append(conns[c].out, a)
  BY <1>3 DEF TalkInv, Fields
<1>6. Fields'
  BY <1>5 DEF Fields
<1>7. SUFFICES ASSUME Talk PROVE Talk'
  BY <1>1, <1>2, <1>6 DEF TalkInv
<1>8. CASE cur = 0
  BY <1>2, <1>7, <1>8 DEF Talk
<1>9. CASE cur # 0 /\ cur # Here
  <2>1. conns'[cur].in = conns[cur].in /\ conns'[cur].out = conns[cur].out
    BY <1>5, <1>9 DEF NetInv, KeyIsSecret
  <2>2. TalkOn(conns[cur].in, conns[cur].out)
    BY <1>7, <1>9 DEF Talk
  <2>3. TalkOn(conns[cur].in, conns[cur].out)'
    BY <1>2, <2>1, <2>2 DEF TalkOn
  <2> QED BY <1>2, <1>7, <1>9, <2>3 DEF Talk
<1>10. CASE cur # 0 /\ cur = Here
  <2>1. Inbox # <<>> /\ TalkOn(Inbox, conns[Here].out)
    BY <1>1, <1>7, <1>10 DEF Talk, Inbox
  <2>2. asked # 0 /\ One(Inbox) /\ Message.id = asked /\ conns[Here].out = <<>>
    BY <2>1 DEF TalkOn, Message
  <2>3. conns'[cur].in = <<>> /\ conns'[cur].out = Append(<<>>, a)
    BY <1>1, <1>5, <1>10, <2>2, TailOfOne DEF Inbox
  <2>4. Append(<<>>, a) = <<a>>
    OBVIOUS
  <2>5. conns'[cur].out = <<a>> /\ One(<<a>>) /\ a.to = asked
    BY <2>2, <2>3, <2>4, <1>4 DEF One
  <2>6. TalkOn(conns[cur].in, conns[cur].out)'
    BY <1>2, <2>2, <2>3, <2>5 DEF TalkOn
  <2> QED BY <1>2, <1>7, <1>10, <2>6 DEF Talk
<1> QED BY <1>8, <1>9, <1>10

\* A change of one connection keeps the shape of all of them.
LEMMA FieldsKeep ==
    ASSUME NetInv, Fields, NEW c, NEW r, conns' = [conns EXCEPT ![c] = r],
           c \in Conn => DOMAIN r = {"who", "in", "out", "up", "peer"}
    PROVE  Fields'
<1>1. DOMAIN conns = Conn
  BY DEF NetInv, Shape
<1>2. ASSUME NEW d \in Conn PROVE conns'[d] = IF d = c THEN r ELSE conns[d]
  BY <1>1
<1> QED BY <1>2 DEF Fields

\* The client reads the answer to what it has asked, and either nothing is left or it
\* knows that there is more.
LEMMA ReadTalks == ASSUME NetInv, TalkInv, ReadMessage PROVE TalkInv'
<1> DEFINE r   == conns[cur]
           got == r.out[1]
           r2  == [[r EXCEPT !.out = Tail(r.out)] EXCEPT !.peer = got.code # "key"]
<1>1. /\ asked # 0 /\ r.out # <<>> /\ asked' = 0 /\ UNCHANGED <<st, asks>>
      /\ heard' = [asked |-> asked, got |-> got.to]
      /\ twice' = (twice \/ AnsweredTwice(got))
      /\ cur' \in {0, cur}
  BY DEF ReadMessage
<1>2. conns' = [conns EXCEPT ![cur] = r2]
  BY DEF ReadMessage
<1>3. cur # 0 => cur \in Conn
  BY DEF NetInv, KeyIsSecret
<1>4. cur \in Conn => DOMAIN r = {"who", "in", "out", "up", "peer"}
  BY DEF TalkInv, Fields
<1> HIDE DEF r, got
<1>5. cur \in Conn => /\ DOMAIN r2 = {"who", "in", "out", "up", "peer"}
                      /\ r2.in = r.in /\ r2.out = Tail(r.out)
  BY <1>4
<1> HIDE DEF r2
<1>6. Fields'
  BY <1>2, <1>5, FieldsKeep DEF TalkInv
<1>7. SUFFICES ASSUME Talk, ~AnsweredTwice(got) PROVE Talk'
  BY <1>1, <1>6 DEF TalkInv
<1>8. cur # 0 /\ cur \in Conn /\ TalkOn(r.in, r.out)
  BY <1>1, <1>3, <1>7 DEF Talk, r
<1>9. r.in = <<>> /\ One(r.out) /\ got.to = asked
  BY <1>1, <1>7, <1>8 DEF TalkOn, got
<1>10. conns'[cur].in = <<>> /\ conns'[cur].out = <<>>
  <2>1. conns'[cur] = r2
    BY <1>2, <1>8 DEF NetInv, Shape
  <2> QED BY <1>5, <1>8, <1>9, <2>1, TailOfOne
<1>11. heard'.got = heard'.asked
  BY <1>1, <1>9
<1>12. cur' # 0 => TalkOn(conns[cur].in, conns[cur].out)'
  BY <1>1, <1>10 DEF TalkOn
<1> QED BY <1>1, <1>11, <1>12 DEF Talk

\* A client without a connection waits for nothing.
LEMMA LeaveTalks ==
    ASSUME NetInv, TalkInv,
           \/ ReadFails
           \/ \E cmd \in {"eval", "serEval"}, cut \in {"no", "head", "body"} : Leave(cmd, cut)
    PROVE  TalkInv'
<1>1. cur' = 0 /\ asked' = 0 /\ UNCHANGED <<st, asks, heard, twice>>
  BY DEF ReadFails, Leave
<1>2. cur \in Conn => DOMAIN conns[cur] = {"who", "in", "out", "up", "peer"}
  BY DEF TalkInv, Fields
<1> DEFINE r == conns[cur]
           A(q) == [[r EXCEPT !.peer = FALSE] EXCEPT !.in = q]
           B == [r EXCEPT !.peer = FALSE]
<1>3. conns' = [conns EXCEPT ![cur] = B] \/ \E q : conns' = [conns EXCEPT ![cur] = A(q)]
  <2>1. CASE ReadFails
    BY <2>1 DEF ReadFails
  <2>2. ASSUME NEW cmd, NEW cut, Leave(cmd, cut)
        PROVE  \E q : conns' = [conns EXCEPT ![cur] = A(q)]
    <3> DEFINE q == IF cut = "no" \/ asked # 0 THEN r.in
                    ELSE Append(r.in, [id |-> 0, cmd |-> cmd, par |-> "ok", cut |-> cut])
    <3>0. (r.in = [r EXCEPT !.peer = FALSE].in)
      BY <2>2, <1>2 DEF Leave, NetInv, KeyIsSecret
    <3>1. conns' = [conns EXCEPT ![cur] = A(q)]
      BY <2>2, <3>0 DEF Leave
    <3> QED BY <3>1
  <2> QED BY <2>1, <2>2
<1>4. cur \in Conn => /\ DOMAIN B = {"who", "in", "out", "up", "peer"}
                      /\ \A q : DOMAIN A(q) = {"who", "in", "out", "up", "peer"}
  BY <1>2
<1> HIDE DEF A, B
<1>5. Fields'
  BY <1>3, <1>4, FieldsKeep DEF TalkInv
<1> QED BY <1>1, <1>5 DEF TalkInv, Talk

\* A request goes to a connection on which nothing is under way.
LEMMA RequestTalks == ASSUME NetInv, TalkInv, NEW m, Request(m) PROVE TalkInv'
<1> DEFINE r == conns[cur]
           a == [id |-> NextId, cmd |-> m.cmd, par |-> m.par, cut |-> "no"]
           r2 == [r EXCEPT !.in = Append(r.in, a)]
<1>1. /\ cur # 0 /\ asked = 0 /\ asks' = NextId /\ asked' = NextId
      /\ UNCHANGED <<st, cur, heard, twice>>
      /\ conns' = [conns EXCEPT ![cur] = r2]
  BY DEF Request
<1>2. cur \in Conn /\ NextId \in Nat /\ NextId # 0
  BY <1>1 DEF NetInv, KeyIsSecret, TalkInv, NextId
<1>3. DOMAIN r = {"who", "in", "out", "up", "peer"}
  BY <1>2 DEF TalkInv, Fields
<1>4. a.id = NextId
  OBVIOUS
<1> HIDE DEF r, a
<1>5. DOMAIN r2 = {"who", "in", "out", "up", "peer"} /\ r2.in = Append(r.in, a) /\ r2.out = r.out
  BY <1>3
<1> HIDE DEF r2
<1>6. Fields'
  BY <1>1, <1>5, FieldsKeep DEF TalkInv
<1>7. SUFFICES ASSUME Talk PROVE Talk'
  BY <1>1, <1>2, <1>6 DEF TalkInv
<1>8. r.in = <<>> /\ r.out = <<>>
  BY <1>1, <1>7 DEF Talk, TalkOn, r
<1>9. Append(<<>>, a) = <<a>> /\ One(<<a>>)
  BY DEF One
<1>10. conns'[cur] = r2
  BY <1>1, <1>2 DEF NetInv, Shape
<1>11. TalkOn(conns[cur].in, conns[cur].out)'
  BY <1>1, <1>2, <1>4, <1>5, <1>8, <1>9, <1>10 DEF TalkOn
<1> QED BY <1>1, <1>2, <1>7, <1>11 DEF Talk

\* A client that comes back sends the key and waits for one message.
LEMMA ReconnectTalks == ASSUME NetInv, TalkInv, NEW c \in Conn, Reconnect(c) PROVE TalkInv'
<1> DEFINE a == [id |-> NextId, cmd |-> "resume", par |-> "key", cut |-> "no"]
           r == [who |-> "client", out |-> <<>>, up |-> TRUE, peer |-> TRUE, in |-> <<a>>]
<1>1. /\ asks' = NextId /\ asked' = NextId /\ cur' = c
      /\ UNCHANGED <<st, heard, twice>> /\ conns' = [conns EXCEPT ![c] = r]
  BY DEF Reconnect
<1>2. NextId \in Nat /\ NextId # 0
  BY DEF TalkInv, NextId
<1>3. a.id = NextId
  OBVIOUS
<1> HIDE DEF a
<1>4. DOMAIN r = {"who", "in", "out", "up", "peer"} /\ r.in = <<a>> /\ r.out = <<>>
  OBVIOUS
<1> HIDE DEF r
<1>5. Fields'
  BY <1>1, <1>4, FieldsKeep DEF TalkInv
<1>6. SUFFICES ASSUME Talk PROVE Talk'
  BY <1>1, <1>2, <1>5 DEF TalkInv
<1>7. conns'[c] = r
  BY <1>1 DEF NetInv, Shape
<1>8. c # 0
  BY QapAssumption DEF Conn
<1>9. One(<<a>>)
  BY DEF One
<1>10. TalkOn(conns[cur].in, conns[cur].out)'
  BY <1>1, <1>2, <1>3, <1>4, <1>7, <1>9 DEF TalkOn
<1> QED BY <1>1, <1>6, <1>8, <1>10 DEF Talk

LEMMA StrangerTalks == ASSUME NetInv, TalkInv, NEW c \in Conn, NEW who, Stranger(c, who) PROVE TalkInv'
<1> DEFINE r == [who |-> who, out |-> <<>>, up |-> TRUE, peer |-> TRUE,
                 in |-> <<[id |-> 0, cmd |-> "resume", par |-> "wrong", cut |-> "no"]>>]
<1>1. /\ UNCHANGED <<st, cur, asked, asks, heard, twice>> /\ conns' = [conns EXCEPT ![c] = r]
      /\ conns[c].who = "none"
  BY DEF Stranger, NewConn, clientVars
<1>2. DOMAIN r = {"who", "in", "out", "up", "peer"}
  OBVIOUS
<1> HIDE DEF r
<1>3. Fields'
  BY <1>1, <1>2, FieldsKeep DEF TalkInv
<1>4. SUFFICES ASSUME Talk PROVE Talk'
  BY <1>1, <1>3 DEF TalkInv
<1>5. cur # 0 => conns'[cur] = conns[cur]
  BY <1>1 DEF NetInv, Shape, KeyIsSecret
<1> QED BY <1>1, <1>4, <1>5 DEF Talk, TalkOn

LEMMA TalkStepKeeps == ASSUME NetInv, TalkInv, [Next]_vars PROVE TalkInv'
<1>1. CASE Session
  BY <1>1, CommandTalks, LoginTalks, SerEvalTalks, DetachFailsTalks, WorkTalks, SilentTalks,
     ResumeTalks DEF Session
<1>2. CASE Client
  BY <1>2, ReadTalks, LeaveTalks, RequestTalks, ReconnectTalks, StrangerTalks DEF Client
<1>3. CASE UNCHANGED vars
  BY <1>3 DEF vars, netVars, clientVars, TalkInv, Fields, Talk, TalkOn
<1> QED BY <1>1, <1>2, <1>3 DEF Next

\* Rconnection::request and Rmessage::read: a client that reads one message for each
\* request takes it for the answer to that request, whatever the session does and over
\* however many connections it is resumed, until it has met an answer that
\* Rserve_QAP1_connected sends twice; again, unless an evaluation opens a descriptor
\* while the session is detached.
THEOREM ClientInStep == ~DetachedOpens => (Spec => []InStep)
<1> SUFFICES ASSUME ~DetachedOpens PROVE Spec => []InStep
  OBVIOUS
<1>1. Init => NetInv /\ TalkInv
  <2> SUFFICES ASSUME Init PROVE NetInv /\ TalkInv
    OBVIOUS
  <2>1. NetInv /\ 1 \in Conn
    BY NetInit, QapAssumption DEF Conn
  <2>2. conns[1] = [who |-> "client", in |-> <<>>, out |-> <<>>, up |-> TRUE, peer |-> TRUE]
    BY <2>1 DEF Init, Unused
  <2>3. \A c \in Conn : c # 1 => conns[c] = Unused
    BY DEF Init
  <2>4. Fields
    BY <2>2, <2>3 DEF Fields, Unused
  <2>5. conns[1].in = <<>> /\ conns[1].out = <<>>
    BY <2>2
  <2>6. asks \in Nat /\ Talk
    BY <2>5 DEF Init, Talk, TalkOn
  <2> QED BY <2>1, <2>4, <2>6 DEF TalkInv
<1>2. (NetInv /\ TalkInv) /\ [Next]_vars => (NetInv /\ TalkInv)'
  BY NetStepKeeps, TalkStepKeeps
<1>3. NetInv /\ TalkInv => InStep
  BY DEF TalkInv, Talk, InStep
<1> QED BY <1>1, <1>2, <1>3, PTL DEF Spec
=============================================================================
