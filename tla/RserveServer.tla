---------------------------- MODULE RserveServer ----------------------------
(***************************************************************************)
(* The Rserve server process: start-up of its servers, the select loop     *)
(* that accepts connections and forks a child for each, the pipes on which *)
(* the children of QAP1 servers send control commands, and the shutdown by *)
(* signal or by command.                                                   *)
(*                                                                         *)
(* A pipe is a sequence of units of the size of a control header.  A write *)
(* of at most PipeBuf units is atomic; the reader may see a part of a      *)
(* longer one.  A body unit that is read where a header is expected is     *)
(* garbage: no name of a command, no length in range.                      *)
(***************************************************************************)
EXTENDS Naturals, Sequences, FiniteSets, SequencesExt

CONSTANTS Sockets,      \* the listening sockets, in the order the servers are created
          QapSocket,    \* those of QAP1 servers; the others are HTTP and WebSockets
          MaxServers,   \* MAX_SERVERS
          MaxSrvs,      \* MAX_SRVS, the size of active_srv_sockets
          Pid,          \* the processes that the server can fork
          Control,      \* child_control || self_control
          BodyLen,      \* the lengths of control data that clients send, in units
          MaxCtrlData,  \* MAX_CTRL_DATA
          PipeBuf,      \* bound of an atomic write
          PipeCap,      \* capacity of a pipe
          Embedded,     \* run_Rserve inside of R, or the main of the stand-alone server
          MaxCmds       \* bound: control commands of all children

Socket == Range(Sockets)

ASSUME ServerAssumption ==
    /\ Sockets \in Seq(Nat \ {0})  \* 0 is a free slot: stdin must be open
    /\ \A i, j \in DOMAIN Sockets : Sockets[i] = Sockets[j] => i = j
    /\ QapSocket \subseteq Socket
    /\ MaxServers \in Nat /\ MaxSrvs \in Nat
    /\ Len(Sockets) <= MaxServers /\ MaxServers <= MaxSrvs
    /\ Control \in BOOLEAN /\ Embedded \in BOOLEAN /\ BodyLen \subseteq Nat \ {0}
    /\ MaxCtrlData \in Nat /\ PipeBuf \in Nat /\ PipeCap \in Nat
    /\ 0 < PipeBuf /\ PipeBuf < PipeCap
    /\ MaxCmds \in Nat /\ IsFiniteSet(Pid)
    /\ Pid \cap Socket = {}        \* the pipe of a child is no listening socket

VARIABLES phase,       \* start, entering, loop, stopping, stopped or killed
          active,      \* the flag of the server loop
          asked,       \* history: a signal handler has run, or a shutdown command
          handlers,    \* whether the signal handlers of the server are set
          server,      \* server[]: the servers that the loop polls
          srvSockets,  \* active_srv_sockets
          open,        \* the listening sockets this process has open
          backlog,     \* [Socket -> connections not accepted yet]
          conns,       \* connections so far, at most one per Pid
          pc,          \* where the loop is: top, select, round or data
          readfds,     \* what select found readable and the round has not handled yet
          reading,     \* the control header whose data is to be read
          children     \* the registered children, newest first

VARIABLES proc,        \* [Pid -> none, forked, running, exited, reaped or failed]
          inherited,   \* [Pid -> the listening sockets the child has open]
          slots,       \* [Pid -> the sockets in its copy of active_srv_sockets]
          readEnds,    \* [Pid -> the children whose read ends it has open]
          parentPID,   \* [Pid -> whom the child takes for its parent]
          parentPipe,  \* [Pid -> what the child writes control commands to]
          inp,         \* [Pid -> whether the server has the read end open]
          pipe,        \* [Pid -> the units in the pipe]
          writing,     \* [Pid -> units of a body still to be written]
          lens,        \* [Pid -> the data lengths of its control commands so far]
          acked,       \* history: [Pid -> commands the client was told OK for]
          executed     \* history: [Pid -> commands the server performed, in order]

loopVars == <<phase, active, asked, handlers, server, srvSockets, open, pc,
              readfds, reading, children>>
netVars  == <<backlog, conns>>
histVars == <<acked, executed>>
pipeVars == <<parentPipe, inp, pipe, writing, lens, histVars>>
procVars == <<proc, inherited, slots, readEnds, parentPID>>
vars     == <<loopVars, netVars, pipeVars, procVars>>

Slot     == 1..MaxSrvs
BodyUnit == [type |-> "body"]
NoHeader == [type |-> "none"]

\* The processes that have not been forked yet, and those that run.
Unused == {p \in Pid : proc[p] = "none"}
Alive  == phase \notin {"stopped", "killed"}

Init ==
    /\ phase = "start" /\ active = TRUE /\ asked = FALSE /\ handlers = FALSE
    /\ server = <<>> /\ open = {}
    /\ srvSockets = [i \in Slot |-> 0]
    /\ backlog = [s \in Socket |-> 0] /\ conns = 0
    /\ pc = "top" /\ readfds = {} /\ reading = NoHeader
    /\ children = <<>>
    /\ proc = [p \in Pid |-> "none"]
    /\ inherited = [p \in Pid |-> {}]
    /\ slots = [p \in Pid |-> {}]
    /\ readEnds = [p \in Pid |-> {}]
    /\ parentPID = [p \in Pid |-> "unknown"]
    /\ parentPipe = [p \in Pid |-> "none"]
    /\ inp = [p \in Pid |-> FALSE]
    /\ pipe = [p \in Pid |-> <<>>]
    /\ writing = [p \in Pid |-> 0]
    /\ lens = [p \in Pid |-> <<>>]
    /\ acked = [p \in Pid |-> {}]
    /\ executed = [p \in Pid |-> <<>>]

-----------------------------------------------------------------------------
(* Start-up and end of the server.                                         *)

\* Mutant: a slot is taken only if no socket has been recorded yet.
TrackFirstSocket(s) ==
    IF \E i \in Slot : srvSockets[i] # 0 THEN UNCHANGED srvSockets
    ELSE srvSockets' = [srvSockets EXCEPT ![1] = s]

\* add_active_srv_socket: the first free slot, unless the socket has one before it.
TrackSocket(s) ==
    LET first == {i \in Slot : /\ srvSockets[i] = 0
                              /\ \A j \in 1..(i - 1) : srvSockets[j] \notin {0, s}}
    IN  srvSockets' = [i \in Slot |-> IF i \in first THEN s ELSE srvSockets[i]]

MoreServers == phase = "start" /\ Cardinality(open) < Len(Sockets)

\* The next server of the configuration: create_server binds and listens,
\* create_Rserve_QAP1 and its like add the server to server[].
CreateServer ==
    /\ MoreServers
    /\ LET s == Sockets[Cardinality(open) + 1]
       IN  /\ open' = open \cup {s}
           /\ TrackSocket(s)
           /\ server' = IF Len(server) < MaxServers THEN Append(server, s) ELSE server
    /\ UNCHANGED <<phase, active, asked, handlers, pc, readfds, reading,
                   children, netVars, pipeVars, procVars>>

\* create_server returns 0 and the start is given up (FCF exits at once): the
\* sockets go, with the process or by release_server_stack.
CreateFails ==
    /\ MoreServers
    /\ phase' = "stopped"
    /\ server' = <<>> /\ open' = {}
    /\ srvSockets' = [i \in Slot |-> 0]
    /\ UNCHANGED <<active, asked, handlers, pc, readfds, reading, children,
                   netVars, pipeVars, procVars>>

SetupSignalHandlers ==
    /\ phase = "start" /\ ~MoreServers
    /\ phase' = "entering"
    /\ handlers' = TRUE
    /\ UNCHANGED <<active, asked, server, srvSockets, open, pc, readfds,
                   reading, children, netVars, pipeVars, procVars>>

\* run_Rserve sets the flag after the handlers, main never does.
EnterLoop ==
    /\ phase = "entering"
    /\ phase' = "loop"
    /\ active' = (Embedded \/ active)
    /\ UNCHANGED <<asked, handlers, server, srvSockets, open, pc, readfds,
                   reading, children, netVars, pipeVars, procVars>>

RestoreSignalHandlers ==
    /\ phase = "stopping" /\ handlers
    /\ handlers' = FALSE
    /\ UNCHANGED <<phase, active, asked, server, srvSockets, open, pc,
                   readfds, reading, children, netVars, pipeVars, procVars>>

\* run_Rserve: release_server_stack closes and forgets each socket (rm_server,
\* server_fin); the pipes of the children stay open in R.  main: the process ends.
ReleaseServers ==
    /\ phase = "stopping" /\ ~handlers
    /\ phase' = "stopped"
    /\ server' = <<>> /\ open' = {}
    /\ srvSockets' = [i \in Slot |-> IF srvSockets[i] \in Range(server)
                                      THEN 0 ELSE srvSockets[i]]
    /\ inp' = [p \in Pid |-> Embedded /\ inp[p]]
    /\ UNCHANGED <<active, asked, handlers, pc, readfds, reading, children,
                   netVars, parentPipe, pipe, writing, lens, histVars, procVars>>

\* What SIGTERM, SIGHUP or SIGINT does to the server process: sigHandler and
\* brkHandler clear the flag; without them the process dies.
SignalServer ==
    IF handlers THEN /\ active' = FALSE /\ asked' = TRUE
                     /\ UNCHANGED <<phase, open, inp>>
    ELSE /\ phase' = "killed" /\ open' = {}
         /\ inp' = [p \in Pid |-> FALSE]
         /\ UNCHANGED <<active, asked>>

\* An operator ends the server.
Signal ==
    /\ Alive
    /\ SignalServer
    /\ UNCHANGED <<handlers, server, srvSockets, pc, readfds, reading,
                   children, netVars, parentPipe, pipe, writing, lens,
                   histVars, procVars>>

-----------------------------------------------------------------------------
(* serverLoop.                                                             *)

InLoop(where) == phase = "loop" /\ pc = where

\* Mutant: the loop goes on as long as there are children.
LoopEndsWithoutChildren ==
    /\ InLoop("top") /\ ~active /\ children = <<>>
    /\ phase' = "stopping"
    /\ UNCHANGED <<active, asked, handlers, server, srvSockets, open, pc,
                   readfds, reading, children, netVars, pipeVars, procVars>>

LoopEnds ==
    /\ InLoop("top") /\ (~active \/ (server = <<>> /\ children = <<>>))
    /\ phase' = "stopping"
    /\ UNCHANGED <<active, asked, handlers, server, srvSockets, open, pc,
                   readfds, reading, children, netVars, pipeVars, procVars>>

\* Mutant: the loop does not wait for its children.
NoReap ==
    /\ InLoop("top") /\ active
    /\ pc' = "select"
    /\ UNCHANGED <<phase, active, asked, handlers, server, srvSockets, open,
                   readfds, reading, children, netVars, pipeVars, procVars>>

\* while (waitpid(-1, 0, WNOHANG) > 0).
Reap ==
    /\ InLoop("top") /\ active
    /\ pc' = "select"
    /\ proc' = [p \in Pid |-> IF proc[p] = "exited" THEN "reaped" ELSE proc[p]]
    /\ UNCHANGED <<phase, active, asked, handlers, server, srvSockets, open,
                   readfds, reading, children, netVars, pipeVars, inherited, slots,
                   readEnds, parentPID>>

\* Somebody can still write to the pipe of p, or still read from it.
HasWriter(p) == parentPipe[p] = "pipe" /\ proc[p] \in {"forked", "running"}
HasReader(p) == \/ inp[p]
                \/ \E q \in Pid : proc[q] \in {"forked", "running"} /\ p \in readEnds[q]

Readable == {s \in Range(server) : backlog[s] > 0}
            \cup {p \in Range(children) : pipe[p] # <<>> \/ ~HasWriter(p)}

Select ==
    /\ InLoop("select") /\ Readable # {}
    /\ readfds' = Readable
    /\ pc' = "round"
    /\ UNCHANGED <<phase, active, asked, handlers, server, srvSockets, open,
                   reading, children, netVars, pipeVars, procVars>>

\* The 500ms are over, or a signal has interrupted select.
SelectTimeout ==
    /\ InLoop("select") /\ (Readable = {} \/ ~active)
    /\ pc' = "top"
    /\ UNCHANGED <<phase, active, asked, handlers, server, srvSockets, open,
                   readfds, reading, children, netVars, pipeVars, procVars>>

\* The round handles the readable servers in the order of server[], then the
\* readable children in the order of the list, each once.
FirstReadable(x, list) ==
    \E i \in DOMAIN list : /\ list[i] = x /\ x \in readfds
                           /\ \A j \in 1..(i - 1) : list[j] \notin readfds

AtServer(s) ==
    /\ InLoop("round")
    /\ FirstReadable(s, server)

AtChild(p) ==
    /\ InLoop("round")
    /\ Range(server) \cap readfds = {}
    /\ FirstReadable(p, children)

\* Mutant: a descriptor that was handled stays in the set.
HandledKept(x) ==
    /\ readfds' = readfds
    /\ pc' = "round"

Handled(x) ==
    /\ readfds' = readfds \ {x}
    /\ pc' = IF readfds = {x} THEN "top" ELSE "round"

Accept(s) ==
    /\ AtServer(s)
    /\ backlog' = [backlog EXCEPT ![s] = @ - 1]
    /\ Handled(s)
    /\ UNCHANGED <<phase, active, asked, handlers, server, srvSockets, open,
                   reading, conns, executed, acked, pipe, writing, lens>>

\* The peer is not in allowed_ips.
Refuse(s) ==
    /\ Accept(s)
    /\ UNCHANGED <<children, parentPipe, inp, procVars>>

\* connected() forks; the child has all open descriptors of the server.  Only a
\* QAP1 server makes a pipe, if control is enabled; pipe() may fail.
Fork(s, p) ==
    /\ Accept(s)
    /\ p \in Unused
    /\ proc' = [proc EXCEPT ![p] = "forked"]
    /\ inherited' = [inherited EXCEPT ![p] = open]
    /\ slots' = [slots EXCEPT ![p] = Range(srvSockets) \ {0}]
    /\ readEnds' = [readEnds EXCEPT ![p] = {q \in Pid : inp[q]}]
    /\ \/ /\ Control /\ s \in QapSocket
          /\ children' = <<p>> \o children
          /\ inp' = [inp EXCEPT ![p] = TRUE]
          /\ parentPipe' = [parentPipe EXCEPT ![p] = "pipe"]
       \/ UNCHANGED <<children, inp, parentPipe>>
    /\ UNCHANGED parentPID

\* fork() fails: the parent's part is executed nevertheless.
ForkFails(s, p) ==
    /\ Accept(s)
    /\ p \in Unused
    /\ proc' = [proc EXCEPT ![p] = "failed"]
    /\ IF Control /\ s \in QapSocket
       THEN /\ children' = <<p>> \o children
            /\ inp' = [inp EXCEPT ![p] = TRUE]
       ELSE UNCHANGED <<children, inp>>
    /\ UNCHANGED <<inherited, slots, readEnds, parentPID, parentPipe>>

\* Mutant: the list is cut at the removed child.
CutList(p) ==
    /\ inp' = [inp EXCEPT ![p] = FALSE]
    /\ children' = SelectSeq(children, LAMBDA q : q \notin readfds)

\* The pipe is closed and the child's entry unlinked.
RemoveChild(p) ==
    /\ inp' = [inp EXCEPT ![p] = FALSE]
    /\ \E i \in DOMAIN children : /\ children[i] = p
                                 /\ children' = RemoveAt(children, i)

\* read returns less than a header: the end of the pipe, or the rest of a body.
ReadShort(p) ==
    /\ AtChild(p)
    /\ pipe[p] \in {<<>>, <<BodyUnit>>}
    /\ pipe' = [pipe EXCEPT ![p] = <<>>]
    /\ RemoveChild(p)
    /\ Handled(p)
    /\ UNCHANGED <<phase, active, asked, handlers, server, srvSockets, open,
                   reading, netVars, parentPipe, writing, lens, histVars, procVars>>

\* What was left of a body is taken for a header, and ignored; if it is not a
\* multiple of the size of a header, what follows is read out of step, too.
ReadGarbage(p) ==
    /\ AtChild(p)
    /\ pipe[p] # <<>> /\ Head(pipe[p]) = BodyUnit
    /\ \/ pipe' = [pipe EXCEPT ![p] = Tail(@)]
       \/ /\ Len(pipe[p]) > 1
          /\ pipe' = [pipe EXCEPT ![p] = <<BodyUnit>> \o SubSeq(@, 3, Len(@))]
    /\ Handled(p)
    /\ UNCHANGED <<phase, active, asked, handlers, server, srvSockets, open,
                   reading, children, netVars, parentPipe, inp, writing, lens, histVars,
                   procVars>>

\* CCTL_EVAL and CCTL_SOURCE run in the R of the server.
Perform(p, h) ==
    /\ executed' = [executed EXCEPT ![p] = Append(@, h.id)]
    /\ IF h.cmd = "SHUTDOWN" THEN active' = FALSE /\ asked' = TRUE
                             ELSE UNCHANGED <<active, asked>>

\* Mutant: only commands without data are taken.
ReadHeaderOnly(p) ==
    /\ AtChild(p)
    /\ pipe[p] # <<>> /\ Head(pipe[p]) # BodyUnit
    /\ pipe' = [pipe EXCEPT ![p] = Tail(@)]
    /\ IF Head(pipe[p]).len = 0 THEN Perform(p, Head(pipe[p]))
       ELSE UNCHANGED <<executed, active, asked>>
    /\ Handled(p)
    /\ UNCHANGED <<phase, handlers, server, srvSockets, open, reading, children,
                   netVars, parentPipe, inp, writing, lens, acked, procVars>>

\* A command without data is performed, one with too much data is ignored and
\* its data stays in the pipe; else the data is read next.
ReadHeader(p) ==
    /\ AtChild(p)
    /\ pipe[p] # <<>> /\ Head(pipe[p]) # BodyUnit
    /\ pipe' = [pipe EXCEPT ![p] = Tail(@)]
    /\ LET h == Head(pipe[p])
       IN  \/ /\ h.len = 0
              /\ Perform(p, h)
              /\ Handled(p)
              /\ UNCHANGED reading
           \/ /\ h.len >= MaxCtrlData
              /\ Handled(p)
              /\ UNCHANGED <<executed, active, asked, reading>>
           \/ /\ h.len > 0 /\ h.len < MaxCtrlData
              /\ pc' = "data" /\ reading' = h
              /\ UNCHANGED <<executed, active, asked, readfds>>
    /\ UNCHANGED <<phase, handlers, server, srvSockets, open, children,
                   netVars, parentPipe, inp, writing, lens, acked, procVars>>

\* Mutant: a command is performed with as much data as there is.
PerformPartly(p, n) == Perform(p, reading)

\* The command is performed only with all of its data.
PerformComplete(p, n) ==
    IF n = reading.len THEN Perform(p, reading) ELSE UNCHANGED <<executed, active, asked>>

\* read blocks until there is something, and returns what there is.
ReadData(p) ==
    /\ InLoop("data")
    /\ FirstReadable(p, children)
    /\ pipe[p] # <<>> \/ ~HasWriter(p)
    /\ LET n == IF reading.len < Len(pipe[p]) THEN reading.len ELSE Len(pipe[p])
       IN  /\ pipe' = [pipe EXCEPT ![p] = SubSeq(@, n + 1, Len(@))]
           /\ PerformComplete(p, n)
    /\ Handled(p) /\ reading' = NoHeader
    /\ UNCHANGED <<phase, handlers, server, srvSockets, open, children,
                   netVars, parentPipe, inp, writing, lens, acked, procVars>>

-----------------------------------------------------------------------------
(* Clients and children.                                                   *)

Connect(s) ==
    /\ s \in open /\ conns < Cardinality(Pid)
    /\ conns' = conns + 1
    /\ backlog' = [backlog EXCEPT ![s] = @ + 1]
    /\ UNCHANGED <<loopVars, pipeVars, procVars>>

\* The child's part of Rserve_prepare_child and Rserve_QAP1_connected: it closes
\* its read end and all sockets of its active_srv_sockets.
PrepareChild(p) ==
    /\ proc[p] = "forked"
    /\ proc' = [proc EXCEPT ![p] = "running"]
    /\ inherited' = [inherited EXCEPT ![p] = @ \ slots[p]]
    /\ readEnds' = [readEnds EXCEPT ![p] = @ \ {p}]
    /\ parentPID' = [parentPID EXCEPT ![p] = IF Alive \/ Embedded THEN "server" ELSE "init"]
    /\ UNCHANGED <<slots, loopVars, netVars, pipeVars>>

\* The connection is over, a signal or an error has ended the child, or set_user
\* has failed in fork_http, fork_https or fork_ws.
ExitChild(p) ==
    /\ proc[p] \in {"forked", "running"}
    /\ proc' = [proc EXCEPT ![p] = "exited"]
    /\ UNCHANGED <<inherited, slots, readEnds, parentPID, loopVars, netVars, pipeVars>>

\* CMD_shutdown: the child signals its parent and exits.
ShutdownCommand(p) ==
    /\ proc[p] = "running"
    /\ proc' = [proc EXCEPT ![p] = "exited"]
    /\ IF Alive /\ parentPID[p] = "server" THEN SignalServer
                                           ELSE UNCHANGED <<phase, active, asked, open, inp>>
    /\ UNCHANGED <<handlers, server, srvSockets, pc, readfds, reading,
                   children, netVars, inherited, slots, readEnds, parentPID, parentPipe,
                   pipe, writing, lens, histVars>>

\* The next control command of child p: CMD_ctrlEval, CMD_ctrlSource and
\* CMD_ctrlShutdown of its client, or Rserve_ctrlCMD of its R code.
NextCommand(p, len) ==
    /\ proc[p] = "running" /\ writing[p] = 0
    /\ FoldFunction(LAMBDA l, n : Len(l) + n, 0, lens) < MaxCmds
    /\ parentPipe[p] # "none"
    /\ lens' = [lens EXCEPT ![p] = Append(@, len)]

Acknowledge(p, id) == acked' = [acked EXCEPT ![p] = @ \cup {id}]

\* The header is written; write fails when nobody can read.  Once parentPipe is
\* 01, header and data go to the standard output.
WriteHeader(p, cmd, len) ==
    /\ NextCommand(p, len)
    /\ LET id == Len(lens[p]) + 1
       IN  \/ /\ parentPipe[p] = "pipe" /\ HasReader(p) /\ Len(pipe[p]) < PipeCap
              /\ pipe' = [pipe EXCEPT ![p] =
                            Append(@, [type |-> "header", cmd |-> cmd, len |-> len, id |-> id])]
              /\ writing' = [writing EXCEPT ![p] = len]
              /\ IF len = 0 THEN Acknowledge(p, id) ELSE UNCHANGED acked
              /\ UNCHANGED parentPipe
           \/ /\ parentPipe[p] = "pipe" /\ ~HasReader(p)
              /\ parentPipe' = [parentPipe EXCEPT ![p] = "none"]
              /\ UNCHANGED <<pipe, writing, acked>>
           \/ /\ parentPipe[p] = "stdout"
              /\ Acknowledge(p, id)
              /\ UNCHANGED <<pipe, writing, parentPipe>>
    /\ UNCHANGED <<inp, executed, loopVars, netVars, procVars>>

\* The data, in one piece or, if it is longer than PipeBuf, as there is room.
WriteBody(p) ==
    /\ proc[p] = "running" /\ writing[p] > 0 /\ HasReader(p)
    /\ \E n \in IF Last(lens[p]) <= PipeBuf THEN {writing[p]} ELSE {1} :
          /\ Len(pipe[p]) + n <= PipeCap
          /\ pipe' = [pipe EXCEPT ![p] = @ \o [i \in 1..n |-> BodyUnit]]
          /\ writing' = [writing EXCEPT ![p] = @ - n]
          /\ IF writing[p] = n THEN Acknowledge(p, Len(lens[p])) ELSE UNCHANGED acked
    /\ UNCHANGED <<parentPipe, inp, lens, executed, loopVars, netVars, procVars>>

\* Nobody reads any more: Rserve_ctrlCMD sets parent_pipe to -1, the control
\* commands of QAP1 set it to 01.
WriteBodyFails(p) ==
    /\ proc[p] = "running" /\ writing[p] > 0 /\ ~HasReader(p)
    /\ writing' = [writing EXCEPT ![p] = 0]
    /\ \E target \in {"none", "stdout"} :
          parentPipe' = [parentPipe EXCEPT ![p] = target]
    /\ UNCHANGED <<inp, pipe, lens, acked, executed, loopVars, netVars, procVars>>

-----------------------------------------------------------------------------
Start == CreateServer \/ CreateFails \/ SetupSignalHandlers \/ EnterLoop

ServerLoop == \/ LoopEnds \/ Reap \/ Select \/ SelectTimeout
              \/ \E s \in Socket : \/ Refuse(s)
                                   \/ \E p \in Pid : Fork(s, p) \/ ForkFails(s, p)
              \/ \E p \in Pid : \/ ReadShort(p) \/ ReadGarbage(p)
                                \/ ReadHeader(p) \/ ReadData(p)

Stop == RestoreSignalHandlers \/ ReleaseServers

ControlCommand(p) ==
    \/ \E len \in BodyLen : WriteHeader(p, "EVAL", len)  \* or "SOURCE"
    \/ WriteHeader(p, "SHUTDOWN", 0)

Child(p) == \/ PrepareChild(p) \/ ExitChild(p) \/ ShutdownCommand(p)
            \/ ControlCommand(p) \/ WriteBody(p) \/ WriteBodyFails(p)

Next == \/ Start \/ ServerLoop \/ Stop \/ Signal
        \/ \E s \in Socket : Connect(s)
        \/ \E p \in Pid : Child(p)

Spec == Init /\ [][Next]_vars

\* The server process runs, and so does a child inside a write.
FairSpec == /\ Spec
            /\ WF_vars(Start) /\ WF_vars(ServerLoop) /\ WF_vars(Stop)
            /\ \A p \in Pid : WF_vars(WriteBody(p)) /\ WF_vars(WriteBodyFails(p))

-----------------------------------------------------------------------------
(* Properties.                                                             *)

TypeOK ==
    /\ active \in BOOLEAN /\ asked \in BOOLEAN
    /\ handlers \in BOOLEAN
    /\ phase \in {"start", "entering", "loop", "stopping", "stopped", "killed"}
    /\ server \in Seq(Socket) /\ open \subseteq Socket
    /\ srvSockets \in [Slot -> Socket \cup {0}]
    /\ backlog \in [Socket -> Nat] /\ conns \in Nat
    /\ pc \in {"top", "select", "round", "data"}
    /\ children \in Seq(Pid) /\ readfds \subseteq Socket \cup Pid
    /\ proc \in [Pid -> {"none", "forked", "running", "exited", "reaped", "failed"}]
    /\ inherited \in [Pid -> SUBSET Socket] /\ slots \in [Pid -> SUBSET Socket]
    /\ readEnds \in [Pid -> SUBSET Pid]
    /\ parentPID \in [Pid -> {"unknown", "server", "init"}]
    /\ parentPipe \in [Pid -> {"none", "pipe", "stdout"}]
    /\ inp \in [Pid -> BOOLEAN]
    /\ writing \in [Pid -> Nat]
    /\ lens \in [Pid -> Seq(Nat)]

\* RSserver.c: no child that serves a client can accept connections in place of
\* the server, whichever servers there are and whenever it was forked.
NoInheritedListener ==
    \A p \in Pid : proc[p] = "running" => inherited[p] = {}

\* serverLoop keeps the list of children and the open pipes in step: no pipe is
\* leaked, closed twice or polled after it was closed, while entries are added at
\* the head and removed in the middle.
ChildListMatchesPipes ==
    phase = "loop" => /\ Range(children) = {p \in Pid : inp[p]}
                      /\ IsInjective(children)

\* "perform commands only if we got all the data": what the server performs for a
\* child is what the child sent completely, each command once and in order, also
\* after data that was ignored.
PerformedAsSent ==
    \A p \in Pid : \A i \in DOMAIN executed[p] :
        /\ executed[p][i] \in acked[p] \/ (writing[p] = 0 /\ executed[p][i] <= Len(lens[p]))
        /\ i > 1 => executed[p][i - 1] < executed[p][i]

\* A control command that was acknowledged is performed before long, unless the
\* server stops.  (Of children whose data always fits into one atomic write; each
\* command is performed once, so infinitely often none is left.)
CommandPerformed ==
    []<>(phase = "loop" =>
           \A p \in Pid : (\A i \in DOMAIN lens[p] : lens[p][i] <= PipeBuf)
                              => acked[p] \subseteq Range(executed[p]))

\* A stand-alone server that was asked to stop stops, whatever its children do.
StopsWhenAsked == []<>(asked /\ ~Embedded => phase \in {"stopped", "killed"})

\* No child that has exited stays a zombie while the server runs.
ZombiesReaped == []<>(phase = "loop" => \A p \in Pid : proc[p] # "exited")
=============================================================================
