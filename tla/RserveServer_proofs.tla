------------------------- MODULE RserveServer_proofs -------------------------
(***************************************************************************)
(* The Rserve server for every number of servers, children and control     *)
(* commands, any bodies and any pipes: no child that serves a client holds *)
(* a listening socket; the list of children is that of the pipes; and      *)
(* control commands are performed whole, once and in the order in which    *)
(* each child has sent them.                                               *)
(*                                                                         *)
(* Listening sockets: add_active_srv_socket fills the slots of             *)
(* active_srv_sockets in the order of the servers and has room for all of  *)
(* them, so every open socket is recorded (Recorded); hence what a child   *)
(* inherits at fork is in its copy of the slots, which it closes before it *)
(* serves the client.                                                      *)
(***************************************************************************)
EXTENDS RserveServer, FiniteSetTheorems, SequenceTheorems, TLAPS

\* While servers are created: the first ones are open, one slot each.
Created ==
    phase = "start" =>
        /\ IsFiniteSet(open)
        /\ Cardinality(open) <= Len(Sockets)
        /\ open = {Sockets[j] : j \in 1..Cardinality(open)}
        /\ \A i \in Slot : srvSockets[i] = IF i <= Cardinality(open) THEN Sockets[i] ELSE 0

\* Every listening socket has a slot.
Recorded == \A x \in open : x # 0 /\ \E i \in Slot : srvSockets[i] = x

\* What a child has inherited it finds in its slots, and closes.
ChildrenClose ==
    /\ \A p \in Pid : proc[p] = "forked" => inherited[p] \subseteq slots[p]
    /\ \A p \in Pid : proc[p] = "running" => inherited[p] = {}

Shapes ==
    /\ DOMAIN srvSockets = Slot
    /\ DOMAIN proc = Pid /\ DOMAIN inherited = Pid /\ DOMAIN slots = Pid
    /\ phase \in {"start", "entering", "loop", "stopping", "stopped", "killed"}

Inv == Shapes /\ Created /\ Recorded /\ ChildrenClose

procAndSockets == <<phase, open, srvSockets, proc, inherited, slots>>

\* A set of different sockets grows by one with the next socket.
LEMMA NextSocket ==
    ASSUME Inv, MoreServers
    PROVE  LET k == Cardinality(open)
               x == Sockets[k + 1]
           IN  /\ k \in Nat /\ k + 1 \in 1..Len(Sockets) /\ k + 1 \in Slot
               /\ x # 0 /\ x \notin open
               /\ IsFiniteSet(open \cup {x}) /\ Cardinality(open \cup {x}) = k + 1
<1> DEFINE k == Cardinality(open)
           x == Sockets[k + 1]
<1>1. phase = "start" /\ k < Len(Sockets)
  BY DEF MoreServers
<1>2. IsFiniteSet(open) /\ open = {Sockets[j] : j \in 1..k}
  BY <1>1 DEF Inv, Created
<1>3. k \in Nat
  BY <1>2, FS_CardinalityType
<1>4. Len(Sockets) \in Nat /\ Len(Sockets) <= MaxSrvs /\ MaxSrvs \in Nat
  BY ServerAssumption
<1>5. k + 1 \in 1..Len(Sockets) /\ k + 1 \in Slot
  BY <1>1, <1>3, <1>4 DEF Slot
<1>6. x # 0
  BY <1>5, ServerAssumption
<1>7. x \notin open
  <2> SUFFICES ASSUME NEW j \in 1..k, Sockets[j] = x  PROVE FALSE
    BY <1>2
  <2>1. j \in DOMAIN Sockets /\ k + 1 \in DOMAIN Sockets
    BY <1>1, <1>3, <1>4, <1>5, ServerAssumption
  <2>2. j = k + 1
    BY <2>1, ServerAssumption
  <2> QED BY <2>2, <1>3
<1>8. IsFiniteSet(open \cup {x}) /\ Cardinality(open \cup {x}) = k + 1
  BY <1>2, <1>7, FS_AddElement
<1> QED BY <1>3, <1>5, <1>6, <1>7, <1>8

\* TrackSocket takes the slot of the next socket.
LEMMA NextSlot ==
    ASSUME Inv, MoreServers, TrackSocket(Sockets[Cardinality(open) + 1])
    PROVE  /\ DOMAIN srvSockets' = Slot
           /\ \A i \in Slot : srvSockets'[i] = IF i <= Cardinality(open) + 1 THEN Sockets[i] ELSE 0
<1> DEFINE k == Cardinality(open)
           x == Sockets[k + 1]
           free == {i \in Slot : /\ srvSockets[i] = 0
                                 /\ \A j \in 1..(i - 1) : srvSockets[j] \notin {0, x}}
<1>1. /\ k \in Nat /\ k + 1 \in 1..Len(Sockets) /\ k + 1 \in Slot
      /\ x # 0 /\ x \notin open
  BY NextSocket
<1>2. phase = "start"
  BY DEF MoreServers
<1>3. \A i \in Slot : srvSockets[i] = IF i <= k THEN Sockets[i] ELSE 0
  BY <1>2 DEF Inv, Created
<1>4. open = {Sockets[j] : j \in 1..k}
  BY <1>2 DEF Inv, Created
<1>5. \A i \in Slot : i <= k => srvSockets[i] # 0
  <2> SUFFICES ASSUME NEW i \in Slot, i <= k  PROVE srvSockets[i] # 0
    OBVIOUS
  <2>1. i \in 1..Len(Sockets)
    BY <1>1, ServerAssumption DEF Slot
  <2> QED BY <2>1, <1>3, ServerAssumption
<1>6. free = {k + 1}
  <2>1. k + 1 \in free
    <3>1. srvSockets[k + 1] = 0
      BY <1>1, <1>3
    <3>2. ASSUME NEW j \in 1..((k + 1) - 1)  PROVE srvSockets[j] \notin {0, x}
      <4>1. (k + 1) - 1 = k /\ MaxSrvs \in Nat /\ k <= MaxSrvs
        BY <1>1, ServerAssumption DEF Slot
      <4>2. j \in 1..k /\ j \in Slot
        BY <4>1, <1>1, <3>2 DEF Slot
      <4>3. srvSockets[j] = Sockets[j] /\ srvSockets[j] # 0
        BY <4>2, <1>3, <1>5
      <4>4. Sockets[j] \in open
        BY <4>2, <1>4
      <4> QED BY <4>3, <4>4, <1>1
    <3> QED BY <3>1, <3>2, <1>1
  <2>2. ASSUME NEW i \in free  PROVE i = k + 1
    <3>1. i \in Slot /\ srvSockets[i] = 0 /\ \A j \in 1..(i - 1) : srvSockets[j] # 0
      OBVIOUS
    <3>2. ~(i <= k)
      BY <3>1, <1>5
    <3>3. CASE i > k + 1
      <4>1. k + 1 \in 1..(i - 1)
        BY <3>3, <1>1, <3>1 DEF Slot
      <4>2. srvSockets[k + 1] = 0
        BY <1>1, <1>3
      <4> QED BY <4>1, <4>2, <3>1
    <3> QED BY <3>1, <3>2, <3>3, <1>1 DEF Slot
  <2> QED BY <2>1, <2>2
<1>7. srvSockets' = [i \in Slot |-> IF i \in free THEN x ELSE srvSockets[i]]
  BY DEF TrackSocket
<1> QED BY <1>1, <1>3, <1>6, <1>7 DEF Slot

\* Creating a server keeps the invariant: the socket is recorded.
LEMMA CreateKeeps ==
    ASSUME Inv, CreateServer
    PROVE  Inv'
<1> DEFINE k == Cardinality(open)
           x == Sockets[k + 1]
<1>1. /\ MoreServers /\ open' = open \cup {x} /\ TrackSocket(x)
      /\ UNCHANGED <<phase, proc, inherited, slots>>
  BY DEF CreateServer, procVars
<1>2. /\ k \in Nat /\ k + 1 \in 1..Len(Sockets) /\ k + 1 \in Slot
      /\ x # 0 /\ x \notin open
      /\ IsFiniteSet(open') /\ Cardinality(open') = k + 1
  BY <1>1, NextSocket
<1>3. /\ DOMAIN srvSockets' = Slot
      /\ \A i \in Slot : srvSockets'[i] = IF i <= k + 1 THEN Sockets[i] ELSE 0
  BY <1>1, NextSlot
<1>4. phase = "start" /\ phase' = "start" /\ open = {Sockets[j] : j \in 1..k}
  BY <1>1 DEF MoreServers, Inv, Created
<1>5. open' = {Sockets[j] : j \in 1..(k + 1)}
  <2>1. 1..(k + 1) = (1..k) \cup {k + 1}
    BY <1>2
  <2> QED BY <2>1, <1>1, <1>4
<1>6. k + 1 <= Len(Sockets)
  BY <1>2, ServerAssumption
<1>7. Created'
  BY <1>2, <1>3, <1>4, <1>5, <1>6 DEF Created
<1>8. Recorded'
  <2> SUFFICES ASSUME NEW y \in open'  PROVE y # 0 /\ \E i \in Slot : srvSockets'[i] = y
    BY DEF Recorded
  <2>1. PICK j \in 1..(k + 1) : y = Sockets[j]
    BY <1>5
  <2>2. j \in Slot /\ j <= k + 1 /\ j \in 1..Len(Sockets)
    BY <2>1, <1>2, <1>6, ServerAssumption DEF Slot
  <2>3. y # 0
    BY <2>1, <2>2, ServerAssumption
  <2> QED BY <2>1, <2>2, <2>3, <1>3
<1>9. Shapes' /\ ChildrenClose'
  BY <1>1, <1>3 DEF Inv, Shapes, ChildrenClose
<1> QED BY <1>7, <1>8, <1>9 DEF Inv

\* When the sockets go, or the process dies, nothing is left to inherit.
LEMMA ClosedKeeps ==
    ASSUME Inv, open' = {}, phase' \in {"stopped", "killed"},
           DOMAIN srvSockets' = Slot, UNCHANGED <<proc, inherited, slots>>
    PROVE  Inv'
BY DEF Inv, Shapes, Created, Recorded, ChildrenClose

\* A later phase asks for less than the start.
LEMMA PhaseKeeps ==
    ASSUME Inv, phase' \in {"entering", "loop", "stopping"},
           UNCHANGED <<open, srvSockets, proc, inherited, slots>>
    PROVE  Inv'
BY DEF Inv, Shapes, Created, Recorded, ChildrenClose

LEMMA StutterKeeps ==
    ASSUME Inv, UNCHANGED procAndSockets
    PROVE  Inv'
BY DEF Inv, Shapes, Created, Recorded, ChildrenClose, procAndSockets

\* What a child does with its sockets: all it inherited is recorded in its slots.
LEMMA ForkKeeps ==
    ASSUME Inv, NEW x \in Socket, NEW p \in Pid, Fork(x, p)
    PROVE  Inv'
<1>1. /\ proc' = [proc EXCEPT ![p] = "forked"]
      /\ inherited' = [inherited EXCEPT ![p] = open]
      /\ slots' = [slots EXCEPT ![p] = Range(srvSockets) \ {0}]
      /\ UNCHANGED <<phase, open, srvSockets>>
  BY DEF Fork, Accept
<1>2. open \subseteq Range(srvSockets) \ {0}
  BY DEF Inv, Recorded, Shapes, Range
<1>3. Shapes' /\ Created' /\ Recorded'
  BY <1>1 DEF Inv, Shapes, Created, Recorded
<1>4. ChildrenClose'
  BY <1>1, <1>2 DEF Inv, Shapes, ChildrenClose
<1> QED BY <1>3, <1>4 DEF Inv

LEMMA PrepareKeeps ==
    ASSUME Inv, NEW p \in Pid, PrepareChild(p)
    PROVE  Inv'
<1>1. /\ proc[p] = "forked" /\ proc' = [proc EXCEPT ![p] = "running"]
      /\ inherited' = [inherited EXCEPT ![p] = @ \ slots[p]]
      /\ UNCHANGED <<slots, phase, open, srvSockets>>
  BY DEF PrepareChild, loopVars
<1>2. Shapes' /\ Created' /\ Recorded'
  BY <1>1 DEF Inv, Shapes, Created, Recorded
<1>3. ChildrenClose'
  BY <1>1 DEF Inv, Shapes, ChildrenClose
<1> QED BY <1>2, <1>3 DEF Inv

\* A process that ends, is waited for or could not be forked has no sockets to close.
LEMMA ProcKeeps ==
    ASSUME Inv, DOMAIN proc' = Pid,
           \A p \in Pid : proc'[p] \in {proc[p], "exited", "reaped", "failed"},
           UNCHANGED <<inherited, slots, phase, open, srvSockets>>
    PROVE  Inv'
BY DEF Inv, Shapes, Created, Recorded, ChildrenClose

\* A child that ends may take the server with it.
LEMMA ShutdownKeeps ==
    ASSUME Inv, NEW p \in Pid, ShutdownCommand(p)
    PROVE  Inv'
<1>1. /\ proc' = [proc EXCEPT ![p] = "exited"]
      /\ UNCHANGED <<inherited, slots, srvSockets>>
  BY DEF ShutdownCommand
<1>2. \/ UNCHANGED <<phase, open>>
      \/ phase' = "killed" /\ open' = {}
  BY DEF ShutdownCommand, SignalServer
<1>3. ChildrenClose'
  BY <1>1 DEF Inv, Shapes, ChildrenClose
<1>4. Shapes' /\ Created' /\ Recorded'
  BY <1>1, <1>2 DEF Inv, Shapes, Created, Recorded
<1> QED BY <1>3, <1>4 DEF Inv

\* Every step keeps the invariant.
LEMMA StepKeeps ==
    ASSUME Inv, [Next]_vars
    PROVE  Inv'
<1>1. CASE CreateServer
  BY <1>1, CreateKeeps
<1>2. CASE CreateFails \/ ReleaseServers
  <2>1. /\ phase' = "stopped" /\ open' = {} /\ DOMAIN srvSockets' = Slot
        /\ UNCHANGED <<proc, inherited, slots>>
    BY <1>2 DEF CreateFails, ReleaseServers, procVars
  <2> QED BY <2>1, ClosedKeeps
<1>3. CASE SetupSignalHandlers \/ EnterLoop \/ LoopEnds
  <2>1. /\ phase' \in {"entering", "loop", "stopping"}
        /\ UNCHANGED <<open, srvSockets, proc, inherited, slots>>
    BY <1>3 DEF SetupSignalHandlers, EnterLoop, LoopEnds, procVars
  <2> QED BY <2>1, PhaseKeeps
<1>4. CASE Signal
  <2>1. UNCHANGED <<srvSockets, proc, inherited, slots>>
    BY <1>4 DEF Signal, procVars
  <2>2. CASE handlers
    BY <1>4, <2>1, <2>2, StutterKeeps DEF Signal, SignalServer, procAndSockets
  <2>3. CASE ~handlers
    <3>1. phase' = "killed" /\ open' = {}
      BY <1>4, <2>3 DEF Signal, SignalServer
    <3>2. DOMAIN srvSockets' = Slot
      BY <2>1 DEF Inv, Shapes
    <3> QED BY <2>1, <3>1, <3>2, ClosedKeeps
  <2> QED BY <2>2, <2>3
<1>5. CASE \/ Select \/ SelectTimeout \/ RestoreSignalHandlers
           \/ \E s \in Socket : Refuse(s) \/ Connect(s)
           \/ \E p \in Pid : ReadShort(p) \/ ReadGarbage(p) \/ ReadHeader(p) \/ ReadData(p)
           \/ \E p \in Pid : ControlCommand(p) \/ WriteBody(p) \/ WriteBodyFails(p)
  <2>1. UNCHANGED procAndSockets
    BY <1>5 DEF Select, SelectTimeout, RestoreSignalHandlers, Refuse, Accept, Connect,
                ReadShort, ReadGarbage, ReadHeader, ReadData, ControlCommand, WriteHeader,
                WriteBody, WriteBodyFails, procAndSockets, procVars, loopVars
  <2> QED BY <2>1, StutterKeeps
<1>6. CASE Reap
  <2>1. /\ DOMAIN proc' = Pid
        /\ \A p \in Pid : proc'[p] \in {proc[p], "exited", "reaped", "failed"}
        /\ UNCHANGED <<inherited, slots, phase, open, srvSockets>>
    BY <1>6 DEF Reap
  <2> QED BY <2>1, ProcKeeps
<1>7. ASSUME NEW s \in Socket, NEW p \in Pid, Fork(s, p)  PROVE Inv'
  BY <1>7, ForkKeeps
<1>8. ASSUME NEW s \in Socket, NEW p \in Pid, ForkFails(s, p)  PROVE Inv'
  <2>1. /\ proc' = [proc EXCEPT ![p] = "failed"]
        /\ UNCHANGED <<inherited, slots, phase, open, srvSockets>>
    BY <1>8 DEF ForkFails, Accept
  <2>2. /\ DOMAIN proc' = Pid
        /\ \A q \in Pid : proc'[q] \in {proc[q], "exited", "reaped", "failed"}
    BY <2>1 DEF Inv, Shapes
  <2> QED BY <2>1, <2>2, ProcKeeps
<1>9. ASSUME NEW p \in Pid, PrepareChild(p)  PROVE Inv'
  BY <1>9, PrepareKeeps
<1>10. ASSUME NEW p \in Pid, ExitChild(p)  PROVE Inv'
  <2>1. /\ proc' = [proc EXCEPT ![p] = "exited"]
        /\ UNCHANGED <<inherited, slots, phase, open, srvSockets>>
    BY <1>10 DEF ExitChild, loopVars
  <2>2. /\ DOMAIN proc' = Pid
        /\ \A q \in Pid : proc'[q] \in {proc[q], "exited", "reaped", "failed"}
    BY <2>1 DEF Inv, Shapes
  <2> QED BY <2>1, <2>2, ProcKeeps
<1>11. ASSUME NEW p \in Pid, ShutdownCommand(p)  PROVE Inv'
  BY <1>11, ShutdownKeeps
<1>12. CASE UNCHANGED vars
  BY <1>12, StutterKeeps DEF vars, loopVars, procVars, procAndSockets
<1> QED
  BY <1>1, <1>2, <1>3, <1>4, <1>5, <1>6, <1>7, <1>8, <1>9, <1>10, <1>11, <1>12
  DEF Next, Start, ServerLoop, Stop, Child

LEMMA InvInit == Init => Inv
<1> SUFFICES ASSUME Init  PROVE Inv
  OBVIOUS
<1>1. IsFiniteSet(open) /\ Cardinality(open) = 0
  BY FS_EmptySet DEF Init
<1>2. Len(Sockets) \in Nat
  BY ServerAssumption
<1>3. Created
  BY <1>1, <1>2 DEF Init, Created, Slot
<1> QED BY <1>3 DEF Init, Inv, Shapes, Recorded, ChildrenClose

\* RSserver.c, Rserv.c: for every set of servers and of children, a child that serves
\* a client has closed every listening socket of the server.
THEOREM NoInheritedListenerHolds == Spec => []NoInheritedListener
<1>1. Init => Inv
  BY InvInit
<1>2. Inv /\ [Next]_vars => Inv'
  BY StepKeeps
<1>3. Inv => NoInheritedListener
  BY DEF Inv, ChildrenClose, NoInheritedListener
<1> QED BY <1>1, <1>2, <1>3, PTL DEF Spec

-----------------------------------------------------------------------------
(* Type correctness.                                                       *)

Header == [type : {"header"}, cmd : {"EVAL", "SHUTDOWN"}, len : Nat, id : Nat]
Unit   == Header \cup {BodyUnit}

\* A socket that the round has still to handle has a connection to accept.
Pending == \A s \in Socket : s \in readfds => backlog[s] > 0

TypeInv ==
    /\ TypeOK
    /\ Pending
    /\ pipe \in [Pid -> Seq(Unit)]
    /\ acked \in [Pid -> SUBSET Nat] /\ executed \in [Pid -> Seq(Nat)]
    /\ pc = "data" => reading \in Header

LEMMA TypeInit == Init => TypeInv
<1> SUFFICES ASSUME Init  PROVE TypeInv
  OBVIOUS
<1>1. /\ server \in Seq(Socket) /\ children \in Seq(Pid)
      /\ pipe \in [Pid -> Seq(Unit)] /\ executed \in [Pid -> Seq(Nat)]
      /\ lens \in [Pid -> Seq(Nat)]
  BY DEF Init
<1>2. srvSockets \in [Slot -> Socket \cup {0}] /\ backlog \in [Socket -> Nat]
  BY DEF Init
<1>3. /\ active \in BOOLEAN /\ asked \in BOOLEAN /\ handlers \in BOOLEAN
      /\ inp \in [Pid -> BOOLEAN]
  BY Zenon DEF Init
<1> QED BY <1>1, <1>2, <1>3 DEF Init, TypeInv, TypeOK, Pending

\* Start-up: the sockets of the configuration.
LEMMA TypeStart ==
    ASSUME Inv, TypeInv, Start
    PROVE  TypeInv'
<1>1. CASE CreateServer
  <2> DEFINE x == Sockets[Cardinality(open) + 1]
  <2>1. /\ MoreServers /\ open' = open \cup {x} /\ TrackSocket(x)
        /\ server' = IF Len(server) < MaxServers THEN Append(server, x) ELSE server
        /\ UNCHANGED <<phase, active, asked, handlers, pc, readfds, reading,
                       children, netVars, pipeVars, procVars>>
    BY <1>1 DEF CreateServer
  <2>2. x \in Socket
    BY <2>1, NextSocket, ServerAssumption DEF Socket, Range
  <2>3. srvSockets' \in [Slot -> Socket \cup {0}]
    BY <2>1, <2>2 DEF TrackSocket, TypeInv, TypeOK
  <2>4. server' \in Seq(Socket) /\ open' \subseteq Socket
    BY <2>1, <2>2 DEF TypeInv, TypeOK
  <2> QED
    BY <2>1, <2>3, <2>4 DEF TypeInv, TypeOK, Pending, netVars, pipeVars, procVars, histVars
<1>2. CASE CreateFails
  BY <1>2 DEF CreateFails, TypeInv, TypeOK, Pending, netVars, pipeVars, procVars, histVars
<1>3. CASE SetupSignalHandlers
  BY <1>3 DEF SetupSignalHandlers, TypeInv, TypeOK, Pending, netVars, pipeVars, procVars, histVars
<1>4. CASE EnterLoop
  BY <1>4, ServerAssumption
  DEF EnterLoop, TypeInv, TypeOK, Pending, netVars, pipeVars, procVars, histVars
<1> QED BY <1>1, <1>2, <1>3, <1>4 DEF Start

LEMMA TypeStop ==
    ASSUME TypeInv, Stop \/ Signal
    PROVE  TypeInv'
<1>1. CASE RestoreSignalHandlers
  BY <1>1 DEF RestoreSignalHandlers, TypeInv, TypeOK, Pending, netVars, pipeVars, procVars, histVars
<1>2. CASE ReleaseServers
  BY <1>2, ServerAssumption
  DEF ReleaseServers, TypeInv, TypeOK, Pending, netVars, pipeVars, procVars, histVars
<1>3. CASE Signal
  BY <1>3 DEF Signal, SignalServer, TypeInv, TypeOK, Pending, netVars, procVars, histVars
<1> QED BY <1>1, <1>2, <1>3 DEF Stop

\* The head of the loop, and the connections.
LEMMA TypeLoop ==
    ASSUME TypeInv, LoopEnds \/ Reap \/ Select \/ SelectTimeout
    PROVE  TypeInv'
<1>1. CASE LoopEnds
  BY <1>1 DEF LoopEnds, TypeInv, TypeOK, Pending, netVars, pipeVars, procVars, histVars
<1>2. CASE Reap
  BY <1>2 DEF Reap, TypeInv, TypeOK, Pending, netVars, pipeVars, histVars
<1>3. CASE Select
  <2>1. /\ readfds' = Readable /\ pc' = "round"
        /\ UNCHANGED <<phase, active, asked, handlers, server, srvSockets, open,
                       reading, children, netVars, pipeVars, procVars>>
    BY <1>3 DEF Select
  <2>2. Range(server) \subseteq Socket /\ Range(children) \subseteq Pid
    BY DEF TypeInv, TypeOK, Range
  <2>3. Readable \subseteq Socket \cup Pid
    BY <2>2 DEF Readable
  <2>4. \A s \in Socket : s \in Readable => backlog[s] > 0
    BY <2>2, ServerAssumption DEF Readable
  <2> HIDE DEF Readable
  <2> QED BY <2>1, <2>3, <2>4
          DEF TypeInv, TypeOK, Pending, netVars, pipeVars, procVars, histVars
<1>4. CASE SelectTimeout
  BY <1>4 DEF SelectTimeout, TypeInv, TypeOK, Pending, netVars, pipeVars, procVars, histVars
<1> QED BY <1>1, <1>2, <1>3, <1>4

\* Accepting a connection takes one that is there.
LEMMA TypeAccept ==
    ASSUME TypeInv, NEW s \in Socket, Accept(s)
    PROVE  /\ backlog' \in [Socket -> Nat] /\ Pending'
           /\ readfds' \subseteq Socket \cup Pid /\ pc' \in {"top", "round"}
<1>1. /\ s \in readfds
      /\ backlog' = [backlog EXCEPT ![s] = @ - 1]
      /\ readfds' = readfds \ {s}
      /\ pc' \in {"top", "round"}
  BY DEF Accept, AtServer, FirstReadable, Handled
<1>2. backlog \in [Socket -> Nat] /\ backlog[s] > 0 /\ readfds \subseteq Socket \cup Pid
  BY <1>1 DEF TypeInv, TypeOK, Pending
<1>3. backlog' \in [Socket -> Nat]
  BY <1>1, <1>2
<1>4. Pending'
  BY <1>1, <1>2 DEF TypeInv, Pending
<1> QED BY <1>1, <1>2, <1>3, <1>4

LEMMA TypeRefuse ==
    ASSUME TypeInv, NEW s \in Socket, Refuse(s)
    PROVE  TypeInv'
BY TypeAccept DEF Refuse, Accept, TypeInv, TypeOK, procVars

\* A child joins the list at its head.
LEMMA Joined ==
    ASSUME NEW p \in Pid, children \in Seq(Pid), children' = <<p>> \o children
    PROVE  /\ children' \in Seq(Pid) /\ Len(children') = Len(children) + 1
           /\ children'[1] = p
           /\ \A i \in 1..Len(children) : children'[i + 1] = children[i]
OBVIOUS

LEMMA TypeServe ==
    ASSUME TypeInv, NEW s \in Socket, NEW p \in Pid, Fork(s, p) \/ ForkFails(s, p)
    PROVE  TypeInv'
<1>1. Accept(s)
  BY DEF Fork, ForkFails
<1>2. /\ UNCHANGED <<phase, active, asked, handlers, server, srvSockets, open,
                     reading, conns, executed, acked, pipe, writing, lens>>
  BY <1>1 DEF Accept
<1>3. /\ backlog' \in [Socket -> Nat] /\ Pending'
      /\ readfds' \subseteq Socket \cup Pid /\ pc' \in {"top", "round"}
  BY <1>1, TypeAccept
<1>4. children' \in Seq(Pid) /\ inp' \in [Pid -> BOOLEAN]
      /\ parentPipe' \in [Pid -> {"none", "pipe", "stdout"}]
  <2>1. /\ children \in Seq(Pid) /\ inp \in [Pid -> BOOLEAN]
        /\ parentPipe \in [Pid -> {"none", "pipe", "stdout"}]
    BY DEF TypeInv, TypeOK
  <2>2. /\ children' = children \/ children' = <<p>> \o children
        /\ inp' = inp \/ inp' = [inp EXCEPT ![p] = TRUE]
        /\ parentPipe' = parentPipe \/ parentPipe' = [parentPipe EXCEPT ![p] = "pipe"]
    BY DEF Fork, ForkFails
  <2>3. children' \in Seq(Pid)
    BY <2>1, <2>2, Joined
  <2> QED BY <2>1, <2>2, <2>3
<1>5. /\ proc' \in [Pid -> {"none", "forked", "running", "exited", "reaped", "failed"}]
      /\ inherited' \in [Pid -> SUBSET Socket] /\ slots' \in [Pid -> SUBSET Socket]
      /\ readEnds' \in [Pid -> SUBSET Pid]
      /\ parentPID' = parentPID
  <2>1. Range(srvSockets) \ {0} \subseteq Socket
    BY DEF TypeInv, TypeOK, Range
  <2> HIDE DEF Range
  <2>2. CASE Fork(s, p)
    BY <2>1, <2>2 DEF Fork, TypeInv, TypeOK
  <2>3. CASE ForkFails(s, p)
    BY <2>3 DEF ForkFails, TypeInv, TypeOK
  <2> QED BY <2>2, <2>3
<1> QED BY <1>2, <1>3, <1>4, <1>5 DEF TypeInv, TypeOK

\* Unlinking an entry.
LEMMA Unlinked ==
    ASSUME NEW S, NEW list \in Seq(S), NEW i \in DOMAIN list, NEW cut, cut = RemoveAt(list, i)
    PROVE  /\ cut \in Seq(S) /\ Len(cut) = Len(list) - 1
           /\ \A j \in 1..(Len(list) - 1) : cut[j] = IF j < i THEN list[j] ELSE list[j + 1]
<1> DEFINE front == SubSeq(list, 1, i - 1)
           back  == SubSeq(list, i + 1, Len(list))
<1>1. i \in 1..Len(list) /\ Len(list) \in Nat
  OBVIOUS
<1>2. front \in Seq(S) /\ Len(front) = i - 1 /\ \A j \in 1..(i - 1) : front[j] = list[j]
  BY <1>1
<1>3. /\ back \in Seq(S) /\ Len(back) = Len(list) - i
      /\ \A j \in 1..(Len(list) - i) : back[j] = list[i + j]
  BY <1>1
<1>4. cut = front \o back
  BY DEF RemoveAt
<1> HIDE DEF front, back
<1>5. cut \in Seq(S) /\ Len(cut) = Len(list) - 1
  BY <1>1, <1>2, <1>3, <1>4
<1>6. ASSUME NEW j \in 1..(Len(list) - 1), j < i  PROVE cut[j] = list[j]
  BY <1>1, <1>2, <1>3, <1>4, <1>6
<1>7. ASSUME NEW j \in 1..(Len(list) - 1), ~(j < i)  PROVE cut[j] = list[j + 1]
  <2>0. j \in Nat /\ i \in Nat /\ j - (i - 1) \in 1..(Len(list) - i) /\ ~(j <= Len(front))
    BY <1>1, <1>2, <1>7
  <2>1. cut[j] = back[j - (i - 1)] /\ j - (i - 1) \in 1..(Len(list) - i)
    <3>1. j \in 1..(Len(front) + Len(back))
      BY <1>1, <1>2, <1>3
    <3>2. cut[j] = IF j <= Len(front) THEN front[j] ELSE back[j - Len(front)]
      <4>1. \A x \in 1..(Len(front) + Len(back)) :
               (front \o back)[x] = IF x <= Len(front) THEN front[x] ELSE back[x - Len(front)]
        BY <1>2, <1>3, ConcatProperties, Zenon
      <4> QED BY <1>4, <3>1, <4>1, Zenon
    <3> QED BY <2>0, <3>2, <1>2, Zenon
  <2>2. i + (j - (i - 1)) = j + 1
    BY <1>1, <1>7
  <2> QED BY <2>1, <2>2, <1>3
<1> QED BY <1>5, <1>6, <1>7

LEMMA TypeHandled ==
    ASSUME TypeInv, NEW x, Handled(x), UNCHANGED backlog
    PROVE  readfds' \subseteq Socket \cup Pid /\ pc' \in {"top", "round"} /\ Pending'
BY DEF Handled, TypeInv, TypeOK, Pending

\* An entry of a table replaced by a value of the same type.
LEMMA Replaced ==
    ASSUME NEW D, NEW S, NEW f \in [D -> S], NEW p \in D, NEW e \in S, NEW g,
           g = f \/ g = [f EXCEPT ![p] = e]
    PROVE  g \in [D -> S]
OBVIOUS

\* A command that is performed is recorded.
LEMMA TypePerform ==
    ASSUME TypeInv, NEW p \in Pid, NEW h, h.id \in Nat,
           Perform(p, h) \/ UNCHANGED <<executed, active, asked>>
    PROVE  executed' \in [Pid -> Seq(Nat)] /\ active' \in BOOLEAN /\ asked' \in BOOLEAN
<1>1. executed \in [Pid -> Seq(Nat)] /\ active \in BOOLEAN /\ asked \in BOOLEAN
  BY DEF TypeInv, TypeOK
<1>2. Append(executed[p], h.id) \in Seq(Nat)
  BY <1>1
<1>3. executed' = executed \/ executed' = [executed EXCEPT ![p] = Append(executed[p], h.id)]
  BY DEF Perform
<1>4. executed' \in [Pid -> Seq(Nat)]
  <2> DEFINE e == Append(executed[p], h.id)
  <2>1. e \in Seq(Nat) /\ (executed' = executed \/ executed' = [executed EXCEPT ![p] = e])
    BY <1>2, <1>3
  <2> HIDE DEF e
  <2> QED BY <1>1, <2>1
<1>5. (active' = FALSE /\ asked' = TRUE) \/ (active' = active /\ asked' = asked)
  BY Zenon DEF Perform
<1> QED BY <1>1, <1>4, <1>5

\* What the server reads from a pipe.
LEMMA TypeRead ==
    ASSUME TypeInv, NEW p \in Pid, ReadShort(p) \/ ReadGarbage(p)
    PROVE  TypeInv'
<1>1. Handled(p) /\ UNCHANGED <<phase, active, asked, handlers, server, srvSockets, open,
                                reading, netVars, parentPipe, writing, lens, histVars, procVars>>
  BY DEF ReadShort, ReadGarbage
<1>2. readfds' \subseteq Socket \cup Pid /\ pc' \in {"top", "round"} /\ Pending'
  BY <1>1, TypeHandled DEF netVars
<1>3. children' \in Seq(Pid) /\ inp' \in [Pid -> BOOLEAN]
  <2>1. CASE ReadShort(p)
    <3>1. PICK i \in DOMAIN children : children' = RemoveAt(children, i)
      BY <2>1 DEF ReadShort, RemoveChild
    <3>2. children' \in Seq(Pid)
      BY <3>1, Unlinked DEF TypeInv, TypeOK
    <3> QED BY <2>1, <3>2 DEF ReadShort, RemoveChild, TypeInv, TypeOK
  <2>2. CASE ReadGarbage(p)
    BY <2>2 DEF ReadGarbage, TypeInv, TypeOK
  <2> QED BY <2>1, <2>2
<1>4. pipe' \in [Pid -> Seq(Unit)]
  <2>1. pipe \in [Pid -> Seq(Unit)] /\ BodyUnit \in Unit
    BY DEF TypeInv, Unit
  <2> HIDE DEF Unit, BodyUnit
  <2>2. \/ pipe' = [pipe EXCEPT ![p] = <<>>]
        \/ pipe[p] # <<>> /\ pipe' = [pipe EXCEPT ![p] = Tail(@)]
        \/ /\ Len(pipe[p]) > 1
           /\ pipe' = [pipe EXCEPT ![p] = <<BodyUnit>> \o SubSeq(@, 3, Len(@))]
    BY DEF ReadShort, ReadGarbage
  <2>3. CASE pipe' = [pipe EXCEPT ![p] = <<>>]
    BY <2>1, <2>3
  <2>4. CASE pipe[p] # <<>> /\ pipe' = [pipe EXCEPT ![p] = Tail(@)]
    BY <2>1, <2>4
  <2>5. CASE /\ Len(pipe[p]) > 1
             /\ pipe' = [pipe EXCEPT ![p] = <<BodyUnit>> \o SubSeq(@, 3, Len(@))]
    <3>1. <<BodyUnit>> \o SubSeq(pipe[p], 3, Len(pipe[p])) \in Seq(Unit)
      BY <2>1, <2>5
    <3> QED BY <3>1, <2>1, <2>5
  <2> QED BY <2>2, <2>3, <2>4, <2>5
<1> QED BY <1>1, <1>2, <1>3, <1>4 DEF TypeInv, TypeOK, netVars, histVars, procVars

\* A header, with or without its data.
LEMMA TypeReadHeader ==
    ASSUME TypeInv, NEW p \in Pid, ReadHeader(p)
    PROVE  TypeInv'
<1> DEFINE h == Head(pipe[p])
<1>1. /\ pipe[p] # <<>> /\ h # BodyUnit /\ pipe' = [pipe EXCEPT ![p] = Tail(@)]
      /\ UNCHANGED <<phase, handlers, server, srvSockets, open, children,
                     netVars, parentPipe, inp, writing, lens, acked, procVars>>
  BY DEF ReadHeader
<1>2. pipe \in [Pid -> Seq(Unit)] /\ h \in Header
  <2>1. pipe \in [Pid -> Seq(Unit)]
    BY DEF TypeInv
  <2>2. h \in Unit
    BY <2>1, <1>1
  <2> QED BY <2>1, <2>2, <1>1 DEF Unit
<1>3. pipe' \in [Pid -> Seq(Unit)]
  BY <1>1, <1>2
<1>4. /\ readfds' \subseteq Socket \cup Pid /\ Pending'
      /\ pc' \in {"top", "round"} \/ (pc' = "data" /\ reading' = h)
  <2>1. UNCHANGED backlog
    BY <1>1 DEF netVars
  <2>2. CASE Handled(p)
    BY <2>1, <2>2, TypeHandled
  <2>3. CASE pc' = "data" /\ reading' = h /\ UNCHANGED readfds
    BY <2>1, <2>3 DEF TypeInv, TypeOK, Pending
  <2> QED BY <2>2, <2>3 DEF ReadHeader
<1>5. /\ executed' \in [Pid -> Seq(Nat)] /\ active' \in BOOLEAN /\ asked' \in BOOLEAN
  <2>1. h.id \in Nat
    BY <1>2 DEF Header
  <2>2. Perform(p, h) \/ UNCHANGED <<executed, active, asked>>
    BY DEF ReadHeader
  <2> HIDE DEF h
  <2> QED BY <2>1, <2>2, TypePerform
<1> HIDE DEF h
<1> QED BY <1>1, <1>2, <1>3, <1>4, <1>5 DEF TypeInv, TypeOK, netVars, procVars

\* The sequence without its first n elements.
LEMMA Dropped ==
    ASSUME NEW S, NEW q \in Seq(S), NEW n \in 0..Len(q), NEW rest, rest = SubSeq(q, n + 1, Len(q))
    PROVE  /\ rest \in Seq(S) /\ Len(rest) = Len(q) - n
           /\ \A i \in 1..Len(rest) : rest[i] = q[n + i]
OBVIOUS

LEMMA TypeReadData ==
    ASSUME TypeInv, NEW p \in Pid, ReadData(p)
    PROVE  TypeInv'
<1> DEFINE n == IF reading.len < Len(pipe[p]) THEN reading.len ELSE Len(pipe[p])
<1>1. /\ pc = "data"
      /\ pipe' = [pipe EXCEPT ![p] = SubSeq(@, n + 1, Len(@))]
      /\ Handled(p)
      /\ Perform(p, reading) \/ UNCHANGED <<executed, active, asked>>
      /\ UNCHANGED <<phase, handlers, server, srvSockets, open, children,
                     netVars, parentPipe, inp, writing, lens, acked, procVars>>
  BY DEF ReadData, InLoop, PerformComplete
<1>2. reading \in Header /\ pipe \in [Pid -> Seq(Unit)]
  BY <1>1 DEF TypeInv
<1>3. reading.len \in Nat /\ reading.id \in Nat
  BY <1>2 DEF Header
<1>4. n \in 0..Len(pipe[p])
  BY <1>2, <1>3
<1>5. pipe' \in [Pid -> Seq(Unit)]
  <2>1. SubSeq(pipe[p], n + 1, Len(pipe[p])) \in Seq(Unit)
    <3> HIDE DEF n
    <3> QED BY <1>2, <1>4, Dropped
  <2> QED BY <1>1, <1>2, <2>1
<1>6. readfds' \subseteq Socket \cup Pid /\ pc' \in {"top", "round"} /\ Pending'
  BY <1>1, TypeHandled DEF netVars
<1>7. executed' \in [Pid -> Seq(Nat)] /\ active' \in BOOLEAN /\ asked' \in BOOLEAN
  BY <1>1, <1>3, TypePerform
<1> HIDE DEF n
<1> QED BY <1>1, <1>5, <1>6, <1>7 DEF TypeInv, TypeOK, netVars, procVars

LEMMA TypeChild ==
    ASSUME TypeInv, NEW p \in Pid,
           PrepareChild(p) \/ ExitChild(p) \/ ShutdownCommand(p)
    PROVE  TypeInv'
<1>1. CASE PrepareChild(p)
  BY <1>1 DEF PrepareChild, TypeInv, TypeOK, Pending, loopVars, netVars, pipeVars, histVars
<1>2. CASE ExitChild(p)
  BY <1>2 DEF ExitChild, TypeInv, TypeOK, Pending, loopVars, netVars, pipeVars, histVars
<1>3. CASE ShutdownCommand(p)
  <2>1. proc \in [Pid -> {"none", "forked", "running", "exited", "reaped", "failed"}]
    BY DEF TypeInv, TypeOK
  <2>2. /\ phase \in {"start", "entering", "loop", "stopping", "stopped", "killed"}
        /\ open \subseteq Socket /\ inp \in [Pid -> BOOLEAN]
        /\ active \in BOOLEAN /\ asked \in BOOLEAN
    BY DEF TypeInv, TypeOK
  <2>3. proc' \in [Pid -> {"none", "forked", "running", "exited", "reaped", "failed"}]
    BY <1>3, <2>1 DEF ShutdownCommand
  <2>4. SignalServer \/ UNCHANGED <<phase, active, asked, open, inp>>
    BY <1>3 DEF ShutdownCommand
  <2>5. /\ phase' \in {"start", "entering", "loop", "stopping", "stopped", "killed"}
        /\ open' \subseteq Socket /\ inp' \in [Pid -> BOOLEAN]
        /\ active' \in BOOLEAN /\ asked' \in BOOLEAN
    BY <2>2, <2>4 DEF SignalServer
  <2>6. UNCHANGED <<handlers, server, srvSockets, pc, readfds, reading, children, netVars,
                    inherited, slots, readEnds, parentPID, parentPipe, pipe, writing, lens,
                    histVars>>
    BY <1>3 DEF ShutdownCommand
  <2> QED BY <2>3, <2>5, <2>6 DEF TypeInv, TypeOK, Pending, netVars, histVars
<1> QED BY <1>1, <1>2, <1>3

\* The control commands of a child.
LEMMA TypeCommand ==
    ASSUME TypeInv, NEW p \in Pid, ControlCommand(p)
    PROVE  TypeInv'
<1>1. PICK cmd \in {"EVAL", "SHUTDOWN"}, len \in Nat : WriteHeader(p, cmd, len)
  BY ServerAssumption DEF ControlCommand
<1> DEFINE id == Len(lens[p]) + 1
           h  == [type |-> "header", cmd |-> cmd, len |-> len, id |-> id]
<1>2. UNCHANGED <<inp, executed, loopVars, netVars, procVars>>
  BY <1>1 DEF WriteHeader
<1>3. lens \in [Pid -> Seq(Nat)] /\ Append(lens[p], len) \in Seq(Nat) /\ id \in Nat
  BY DEF TypeInv, TypeOK
<1>4. lens' \in [Pid -> Seq(Nat)]
  <2>1. lens' = [lens EXCEPT ![p] = Append(lens[p], len)]
    BY <1>1 DEF WriteHeader, NextCommand
  <2> QED BY <1>3, <2>1, Replaced
<1>5. acked' \in [Pid -> SUBSET Nat]
  <2>1. acked \in [Pid -> SUBSET Nat] /\ acked[p] \cup {id} \in SUBSET Nat
    BY <1>3 DEF TypeInv
  <2>2. acked' = acked \/ acked' = [acked EXCEPT ![p] = acked[p] \cup {id}]
    BY <1>1 DEF WriteHeader, Acknowledge
  <2> QED BY <2>1, <2>2, Replaced
<1>6. writing' \in [Pid -> Nat] /\ parentPipe' \in [Pid -> {"none", "pipe", "stdout"}]
  <2>1. writing \in [Pid -> Nat] /\ parentPipe \in [Pid -> {"none", "pipe", "stdout"}]
    BY DEF TypeInv, TypeOK
  <2>2. writing' = writing \/ writing' = [writing EXCEPT ![p] = len]
    BY <1>1 DEF WriteHeader
  <2>3. parentPipe' = parentPipe \/ parentPipe' = [parentPipe EXCEPT ![p] = "none"]
    BY <1>1 DEF WriteHeader
  <2> QED BY <2>1, <2>2, <2>3
<1>7. pipe' \in [Pid -> Seq(Unit)]
  <2>1. pipe \in [Pid -> Seq(Unit)] /\ h \in Unit
    BY <1>3 DEF TypeInv, Unit, Header
  <2>2. pipe' = pipe \/ pipe' = [pipe EXCEPT ![p] = Append(pipe[p], h)]
    BY <1>1 DEF WriteHeader
  <2> HIDE DEF h
  <2>3. Append(pipe[p], h) \in Seq(Unit)
    BY <2>1
  <2> QED BY <2>1, <2>2, <2>3, Replaced
<1> QED BY <1>2, <1>4, <1>5, <1>6, <1>7 DEF TypeInv, TypeOK, Pending, loopVars, netVars, procVars

LEMMA TypeBody ==
    ASSUME TypeInv, NEW p \in Pid, WriteBody(p) \/ WriteBodyFails(p)
    PROVE  TypeInv'
<1>1. CASE WriteBody(p)
  <2>1. PICK n \in {writing[p], 1} :
          /\ pipe' = [pipe EXCEPT ![p] = @ \o [i \in 1..n |-> BodyUnit]]
          /\ writing' = [writing EXCEPT ![p] = @ - n]
          /\ IF writing[p] = n THEN Acknowledge(p, Len(lens[p])) ELSE UNCHANGED acked
    BY <1>1 DEF WriteBody
  <2>2. /\ lens \in [Pid -> Seq(Nat)] /\ acked \in [Pid -> SUBSET Nat]
        /\ writing \in [Pid -> Nat] /\ pipe \in [Pid -> Seq(Unit)] /\ BodyUnit \in Unit
    BY DEF TypeInv, TypeOK, Unit
  <2>3. writing[p] > 0 /\ UNCHANGED <<parentPipe, inp, lens, executed, loopVars, netVars, procVars>>
    BY <1>1 DEF WriteBody
  <2>4. n \in Nat /\ n > 0 /\ n <= writing[p]
    BY <2>1, <2>2, <2>3
  <2>5. writing' \in [Pid -> Nat] /\ acked' \in [Pid -> SUBSET Nat]
    <3>1. writing[p] - n \in Nat /\ acked[p] \cup {Len(lens[p])} \in SUBSET Nat
      <4>1. acked[p] \in SUBSET Nat /\ Len(lens[p]) \in Nat /\ writing[p] \in Nat
        BY <2>2
      <4> QED BY <4>1, <2>4
    <3>2. writing' = [writing EXCEPT ![p] = writing[p] - n]
      BY <2>1
    <3>3. acked' = acked \/ acked' = [acked EXCEPT ![p] = acked[p] \cup {Len(lens[p])}]
      BY <2>1 DEF Acknowledge
    <3>4. writing' \in [Pid -> Nat]
      BY <2>2, <3>1, <3>2, Replaced
    <3>5. acked' \in [Pid -> SUBSET Nat]
      <4> DEFINE e == acked[p] \cup {Len(lens[p])}
      <4>1. e \in SUBSET Nat /\ (acked' = acked \/ acked' = [acked EXCEPT ![p] = e])
        BY <3>1, <3>3
      <4> HIDE DEF e
      <4> QED BY <2>2, <4>1
    <3> QED BY <3>4, <3>5
  <2>6. pipe' \in [Pid -> Seq(Unit)]
    <3> HIDE DEF BodyUnit
    <3>1. [i \in 1..n |-> BodyUnit] \in Seq(Unit)
      BY <2>2, <2>4
    <3>2. pipe[p] \o [i \in 1..n |-> BodyUnit] \in Seq(Unit)
      BY <2>2, <3>1
    <3> QED BY <2>1, <2>2, <3>2
  <2> QED BY <2>3, <2>5, <2>6 DEF TypeInv, TypeOK, Pending, loopVars, netVars, procVars
<1>2. CASE WriteBodyFails(p)
  <2>1. /\ UNCHANGED <<inp, pipe, lens, acked, executed, loopVars, netVars, procVars>>
        /\ writing' = [writing EXCEPT ![p] = 0]
        /\ \E target \in {"none", "stdout"} : parentPipe' = [parentPipe EXCEPT ![p] = target]
    BY <1>2 DEF WriteBodyFails
  <2>2. writing \in [Pid -> Nat] => writing' \in [Pid -> Nat]
    BY <2>1
  <2>3. parentPipe \in [Pid -> {"none", "pipe", "stdout"}]
        => parentPipe' \in [Pid -> {"none", "pipe", "stdout"}]
    BY <2>1
  <2> QED BY <2>1, <2>2, <2>3 DEF TypeInv, TypeOK, Pending, loopVars, netVars, procVars
<1> QED BY <1>1, <1>2

LEMMA TypeConnect ==
    ASSUME TypeInv, NEW s \in Socket, Connect(s)
    PROVE  TypeInv'
BY DEF Connect, TypeInv, TypeOK, Pending, loopVars, procVars, pipeVars, histVars

LEMMA TypeStep ==
    ASSUME Inv, TypeInv, [Next]_vars
    PROVE  TypeInv'
<1>1. CASE UNCHANGED vars
  BY <1>1 DEF vars, TypeInv, TypeOK, Pending, loopVars, netVars, procVars, pipeVars, histVars
<1>2. CASE Start
  BY <1>2, TypeStart
<1>3. CASE Stop \/ Signal
  BY <1>3, TypeStop
<1>4. CASE LoopEnds \/ Reap \/ Select \/ SelectTimeout
  BY <1>4, TypeLoop
<1>5. CASE \E s \in Socket : Refuse(s) \/ \E p \in Pid : Fork(s, p) \/ ForkFails(s, p)
  <2>1. PICK s \in Socket : Refuse(s) \/ \E p \in Pid : Fork(s, p) \/ ForkFails(s, p)
    BY <1>5
  <2>2. CASE Refuse(s)
    BY <2>2, TypeRefuse
  <2>3. CASE \E p \in Pid : Fork(s, p) \/ ForkFails(s, p)
    BY <2>3, TypeServe
  <2> QED BY <2>1, <2>2, <2>3
<1>6. CASE \E p \in Pid : ReadShort(p) \/ ReadGarbage(p) \/ ReadHeader(p) \/ ReadData(p)
  BY <1>6, TypeRead, TypeReadHeader, TypeReadData
<1>7. CASE \E s \in Socket : Connect(s)
  BY <1>7, TypeConnect
<1>8. CASE \E p \in Pid : Child(p)
  BY <1>8, TypeChild, TypeCommand, TypeBody DEF Child
<1> QED BY <1>1, <1>2, <1>3, <1>4, <1>5, <1>6, <1>7, <1>8 DEF Next, ServerLoop

\* Rserv.c, RSserver.c: every step of the server, its clients and its children keeps
\* the state well-formed; in particular no accept() without a connection.
THEOREM TypeCorrect == Spec => []TypeOK
<1>1. Init => Inv /\ TypeInv
  BY InvInit, TypeInit
<1>2. Inv /\ TypeInv /\ [Next]_vars => (Inv /\ TypeInv)'
  BY StepKeeps, TypeStep
<1>3. TypeInv => TypeOK
  BY DEF TypeInv
<1> QED BY <1>1, <1>2, <1>3, PTL DEF Spec

-----------------------------------------------------------------------------
(* The list of children and the pipes.                                     *)

\* Each entry is a process that was forked, once; it has the pipe open, and nobody
\* else has.  A server that has ended leaves its list behind.
Listed ==
    /\ \A i, j \in 1..Len(children) : children[i] = children[j] => i = j
    /\ \A i \in 1..Len(children) : proc[children[i]] # "none"
    /\ Alive => /\ \A i \in 1..Len(children) : inp[children[i]]
                /\ \A p \in Pid : inp[p] => \E i \in 1..Len(children) : children[i] = p


\* The server accepts, and a child with a pipe joins the list.
LEMMA ListFork ==
    ASSUME TypeInv, Listed, NEW s \in Socket, NEW p \in Pid, Fork(s, p) \/ ForkFails(s, p)
    PROVE  Listed'
<1>1. /\ phase' = phase /\ p \in Unused
      /\ proc' = [proc EXCEPT ![p] = "forked"] \/ proc' = [proc EXCEPT ![p] = "failed"]
      /\ \/ children' = <<p>> \o children /\ inp' = [inp EXCEPT ![p] = TRUE]
         \/ children' = children /\ inp' = inp
  BY DEF Fork, ForkFails, Accept
<1>2. /\ children \in Seq(Pid) /\ inp \in [Pid -> BOOLEAN] /\ DOMAIN proc = Pid
      /\ Len(children) \in Nat
  BY DEF TypeInv, TypeOK
<1>3. \A i \in 1..Len(children) : children[i] \in Pid /\ proc[children[i]] # "none"
  BY <1>2 DEF Listed
<1>4. \A i \in 1..Len(children) : children[i] # p
  BY <1>1, <1>3 DEF Unused
<1>5. \A q \in Pid : proc[q] # "none" => proc'[q] # "none"
  BY <1>1, <1>2
<1>6. proc'[p] # "none"
  BY <1>1, <1>2
<1>7. CASE children' = children /\ inp' = inp
  BY <1>1, <1>3, <1>5, <1>7 DEF Listed, Alive
<1>8. CASE children' = <<p>> \o children /\ inp' = [inp EXCEPT ![p] = TRUE]
  <2>1. /\ children' \in Seq(Pid) /\ Len(children') = Len(children) + 1
        /\ children'[1] = p
        /\ \A i \in 1..Len(children) : children'[i + 1] = children[i]
    BY <1>2, <1>8, Joined
  <2>2. \A i \in 1..Len(children') : i = 1 \/ (i - 1 \in 1..Len(children) /\ children'[i] = children[i - 1])
    <3> SUFFICES ASSUME NEW i \in 1..Len(children'), i # 1
                 PROVE  i - 1 \in 1..Len(children) /\ children'[i] = children[i - 1]
      OBVIOUS
    <3>1. i - 1 \in 1..Len(children) /\ (i - 1) + 1 = i
      BY <1>2, <2>1
    <3> QED BY <3>1, <2>1
  <2>3. ASSUME NEW i \in 1..Len(children'), NEW j \in 1..Len(children'), children'[i] = children'[j]
        PROVE  i = j
    <3>1. CASE i = 1 /\ j = 1
      BY <3>1
    <3>2. CASE i = 1 /\ j # 1
      BY <3>2, <2>1, <2>2, <2>3, <1>4
    <3>3. CASE i # 1 /\ j = 1
      BY <3>3, <2>1, <2>2, <2>3, <1>4
    <3>4. CASE i # 1 /\ j # 1
      <4>1. i - 1 \in 1..Len(children) /\ j - 1 \in 1..Len(children)
            /\ children[i - 1] = children[j - 1]
        BY <3>4, <2>2, <2>3
      <4>2. i - 1 = j - 1
        BY <4>1 DEF Listed
      <4> QED BY <4>2, <2>1, <1>2
    <3> QED BY <3>1, <3>2, <3>3, <3>4
  <2>4. ASSUME NEW i \in 1..Len(children')  PROVE proc'[children'[i]] # "none"
    BY <2>1, <2>2, <1>3, <1>5, <1>6
  <2>5. ASSUME Alive'  PROVE /\ \A i \in 1..Len(children') : inp'[children'[i]]
                             /\ \A q \in Pid : inp'[q] => \E i \in 1..Len(children') : children'[i] = q
    <3>1. Alive
      BY <2>5, <1>1 DEF Alive
    <3>2. ASSUME NEW i \in 1..Len(children')  PROVE inp'[children'[i]]
      <4>1. CASE i = 1
        BY <4>1, <2>1, <1>8, <1>2
      <4>2. CASE i # 1
        <5>1. i - 1 \in 1..Len(children) /\ children'[i] = children[i - 1]
          BY <4>2, <2>2
        <5>2. inp[children[i - 1]] /\ children[i - 1] \in Pid
          BY <5>1, <3>1, <1>3 DEF Listed
        <5> QED BY <5>1, <5>2, <1>2, <1>8
      <4> QED BY <4>1, <4>2
    <3>3. ASSUME NEW q \in Pid, inp'[q]  PROVE \E i \in 1..Len(children') : children'[i] = q
      <4>1. CASE q = p
        <5>1. 1 \in 1..Len(children')
          BY <2>1, <1>2
        <5> QED BY <4>1, <5>1, <2>1
      <4>2. CASE q # p
        <5>1. inp[q]
          BY <4>2, <3>3, <1>8, <1>2
        <5>2. PICK i \in 1..Len(children) : children[i] = q
          BY <5>1, <3>1 DEF Listed
        <5>3. i + 1 \in 1..Len(children')
          BY <2>1, <1>2
        <5> QED BY <5>2, <5>3, <2>1
      <4> QED BY <4>1, <4>2
    <3> QED BY <3>2, <3>3
  <2> QED BY <2>3, <2>4, <2>5 DEF Listed
<1> QED BY <1>1, <1>7, <1>8

\* A child whose pipe is closed leaves the list, wherever it is in it.
LEMMA ListRemove ==
    ASSUME TypeInv, Listed, NEW p \in Pid, ReadShort(p)
    PROVE  Listed'
<1>1. inp' = [inp EXCEPT ![p] = FALSE] /\ UNCHANGED <<phase, proc>>
  BY DEF ReadShort, RemoveChild, procVars
<1>2. PICK e \in DOMAIN children : children[e] = p /\ children' = RemoveAt(children, e)
  BY DEF ReadShort, RemoveChild
<1>3. /\ children \in Seq(Pid) /\ inp \in [Pid -> BOOLEAN] /\ Len(children) \in Nat
      /\ e \in 1..Len(children)
  <2>1. children \in Seq(Pid) /\ inp \in [Pid -> BOOLEAN]
    BY DEF TypeInv, TypeOK
  <2>2. Len(children) \in Nat /\ DOMAIN children = 1..Len(children)
    BY <2>1
  <2> QED BY <1>2, <2>1, <2>2
<1>4. /\ children' \in Seq(Pid) /\ Len(children') = Len(children) - 1
      /\ \A j \in 1..(Len(children) - 1) :
            children'[j] = IF j < e THEN children[j] ELSE children[j + 1]
  BY <1>2, <1>3, Unlinked
<1> DEFINE old(j) == IF j < e THEN j ELSE j + 1
<1>5. \A j \in 1..Len(children') : /\ old(j) \in 1..Len(children) /\ old(j) # e
                                   /\ children'[j] = children[old(j)]
  BY <1>3, <1>4
<1>6. \A i, j \in 1..Len(children') : old(i) = old(j) => i = j
  BY <1>3, <1>4
<1>7. \A k \in 1..Len(children) : k # e => \E j \in 1..Len(children') : old(j) = k
  <2> SUFFICES ASSUME NEW k \in 1..Len(children), k # e
               PROVE  \E j \in 1..Len(children') : old(j) = k
    OBVIOUS
  <2>1. CASE k < e
    <3>1. k \in 1..Len(children') /\ old(k) = k
      BY <2>1, <1>3, <1>4
    <3> QED BY <3>1
  <2>2. CASE k > e
    <3>1. k - 1 \in 1..Len(children') /\ old(k - 1) = k
      BY <2>2, <1>3, <1>4
    <3> QED BY <3>1
  <2> QED BY <2>1, <2>2, <1>3
<1> HIDE DEF old
<1>8. ASSUME NEW i \in 1..Len(children'), NEW j \in 1..Len(children'), children'[i] = children'[j]
      PROVE  i = j
  <2>1. old(i) = old(j)
    BY <1>5, <1>8 DEF Listed
  <2> QED BY <2>1, <1>6
<1>9. ASSUME NEW i \in 1..Len(children')  PROVE proc'[children'[i]] # "none"
  BY <1>1, <1>5 DEF Listed
<1>10. ASSUME Alive'  PROVE /\ \A i \in 1..Len(children') : inp'[children'[i]]
                            /\ \A q \in Pid : inp'[q] => \E i \in 1..Len(children') : children'[i] = q
  <2>1. Alive
    BY <1>10, <1>1 DEF Alive
  <2>2. ASSUME NEW i \in 1..Len(children')  PROVE inp'[children'[i]]
    <3>1. /\ old(i) \in 1..Len(children) /\ old(i) # e
          /\ children'[i] = children[old(i)]
      BY <1>5
    <3>2. inp[children[old(i)]] /\ children[old(i)] # p /\ children[old(i)] \in Pid
      BY <3>1, <2>1, <1>2, <1>3 DEF Listed
    <3> QED BY <3>1, <3>2, <1>1, <1>3
  <2>3. ASSUME NEW q \in Pid, inp'[q]  PROVE \E i \in 1..Len(children') : children'[i] = q
    <3>1. inp[q] /\ q # p
      BY <2>3, <1>1, <1>3
    <3>2. PICK k \in 1..Len(children) : children[k] = q
      BY <3>1, <2>1 DEF Listed
    <3>3. PICK j \in 1..Len(children') : old(j) = k
      BY <3>1, <3>2, <1>2, <1>7
    <3> QED BY <3>2, <3>3, <1>5
  <2> QED BY <2>2, <2>3
<1> QED BY <1>8, <1>9, <1>10 DEF Listed

\* Every other step leaves the list alone, and the pipes of a server that lives.
LEMMA ListKept ==
    ASSUME TypeInv, Listed, children' = children,
           \A p \in Pid : proc[p] # "none" => proc'[p] # "none",
           Alive' => Alive /\ inp' = inp
    PROVE  Listed'
<1>1. \A i \in 1..Len(children) : children[i] \in Pid
  BY DEF TypeInv, TypeOK
<1> QED BY <1>1 DEF Listed

LEMMA ListStep ==
    ASSUME TypeInv, Listed, [Next]_vars
    PROVE  Listed'
<1> USE DEF netVars, pipeVars, histVars, procVars, loopVars
<1>1. CASE \/ UNCHANGED vars
           \/ CreateServer \/ SetupSignalHandlers \/ EnterLoop \/ RestoreSignalHandlers
           \/ LoopEnds \/ Select \/ SelectTimeout
  <2>1. children' = children /\ proc' = proc /\ inp' = inp /\ (Alive' => Alive)
    BY <1>1 DEF vars, CreateServer, MoreServers, SetupSignalHandlers, EnterLoop, LoopEnds,
                RestoreSignalHandlers, InLoop, Select, SelectTimeout, Alive
  <2> QED BY <2>1, ListKept
<1>2. CASE CreateFails \/ ReleaseServers
  <2>1. children' = children /\ proc' = proc /\ ~Alive'
    BY <1>2 DEF CreateFails, ReleaseServers, Alive
  <2> QED BY <2>1, ListKept
<1>3. CASE Signal
  <2>1. children' = children /\ proc' = proc /\ (Alive' => Alive /\ inp' = inp)
    BY <1>3 DEF Signal, SignalServer, Alive
  <2> QED BY <2>1, ListKept
<1>4. CASE Reap
  <2>1. /\ children' = children /\ (Alive' => Alive /\ inp' = inp)
        /\ \A p \in Pid : proc[p] # "none" => proc'[p] # "none"
    BY <1>4 DEF Reap, InLoop, Alive
  <2> QED BY <2>1, ListKept
<1>5. CASE \E s \in Socket : Refuse(s) \/ Connect(s)
  <2>1. children' = children /\ proc' = proc /\ (Alive' => Alive /\ inp' = inp)
    BY <1>5 DEF Refuse, Accept, Connect, Alive
  <2> QED BY <2>1, ListKept
<1>6. ASSUME NEW s \in Socket, NEW p \in Pid, Fork(s, p) \/ ForkFails(s, p)  PROVE Listed'
  BY <1>6, ListFork
<1>7. ASSUME NEW p \in Pid, ReadShort(p)  PROVE Listed'
  BY <1>7, ListRemove
<1>8. CASE \E p \in Pid : \/ ReadGarbage(p) \/ ReadHeader(p) \/ ReadData(p)
                          \/ ControlCommand(p) \/ WriteBody(p) \/ WriteBodyFails(p)
  <2>1. children' = children /\ proc' = proc /\ (Alive' => Alive /\ inp' = inp)
    BY <1>8 DEF ReadGarbage, ReadHeader, ReadData, ControlCommand, WriteHeader, WriteBody,
                WriteBodyFails, Alive
  <2> QED BY <2>1, ListKept
<1>9. ASSUME NEW p \in Pid, PrepareChild(p) \/ ExitChild(p) \/ ShutdownCommand(p)  PROVE Listed'
  <2>1. /\ children' = children /\ (Alive' => Alive /\ inp' = inp)
        /\ proc' = [proc EXCEPT ![p] = "running"] \/ proc' = [proc EXCEPT ![p] = "exited"]
    BY <1>9 DEF PrepareChild, ExitChild, ShutdownCommand, SignalServer, Alive
  <2>2. \A q \in Pid : proc[q] # "none" => proc'[q] # "none"
    BY <2>1 DEF TypeInv, TypeOK
  <2> QED BY <2>1, <2>2, ListKept
<1> QED
  BY <1>1, <1>2, <1>3, <1>4, <1>5, <1>6, <1>7, <1>8, <1>9
  DEF Next, Start, ServerLoop, Stop, Child

\* Rserv.c, serverLoop: for every number of children, as they join at the head of the
\* list and are unlinked anywhere in it, the list is the set of the open pipes, each
\* once: none is leaked, closed twice or polled after it was closed.
THEOREM ChildListIsExact == Spec => []ChildListMatchesPipes
<1>1. Init => Inv /\ TypeInv /\ Listed
  <2>1. Init => Listed
    BY DEF Init, Listed
  <2> QED BY <2>1, InvInit, TypeInit
<1>2. Inv /\ TypeInv /\ Listed /\ [Next]_vars => (Inv /\ TypeInv /\ Listed)'
  BY StepKeeps, TypeStep, ListStep
<1>3. TypeInv /\ Listed => ChildListMatchesPipes
  <2> SUFFICES ASSUME TypeInv, Listed, phase = "loop"
               PROVE  Range(children) = {p \in Pid : inp[p]} /\ IsInjective(children)
    BY DEF ChildListMatchesPipes
  <2>1. children \in Seq(Pid) /\ DOMAIN children = 1..Len(children) /\ Alive
    BY DEF TypeInv, TypeOK, Alive
  <2>2. IsInjective(children)
    BY <2>1 DEF Listed, IsInjective
  <2>3. Range(children) = {p \in Pid : inp[p]}
    BY <2>1 DEF Listed, Range
  <2> QED BY <2>2, <2>3
<1> QED BY <1>1, <1>2, <1>3, PTL DEF Spec

-----------------------------------------------------------------------------
(* The control commands.                                                   *)

\* Of a child that has sent commands 1 to n and has w units of the last one still to
\* write: what was performed is in order, and complete.
DoneIn(done, n, w) ==
    /\ \A i \in 1..Len(done) : done[i] \in 1..n /\ (done[i] = n => w = 0)
    /\ \A i \in 1..Len(done) : i > 1 => done[i - 1] < done[i]

\* The headers in pipe q are in order and come after what was performed; behind the
\* last one there is no more than what was written of its data.
HeadersIn(q, done, n, w) ==
    \A i \in 1..Len(q) : q[i] # BodyUnit =>
        /\ q[i].id \in 1..n
        /\ \A k \in 1..Len(done) : done[k] < q[i].id
        /\ \A j \in 1..(i - 1) : q[j] # BodyUnit => q[j].id < q[i].id
        /\ q[i].id = n => Len(q) - i + w <= q[i].len

\* The same for header h, which was taken from the pipe and whose data is to be read.
ReadingIn(h, q, done, n, w) ==
    /\ h.id \in 1..n
    /\ \A k \in 1..Len(done) : done[k] < h.id
    /\ \A i \in 1..Len(q) : q[i] # BodyUnit => h.id < q[i].id
    /\ h.id = n => Len(q) + w <= h.len

\* A command is acknowledged unless it is being written, or the pipe is given up.
AckedIn(oks, n, w, target) ==
    \A id \in 1..n : \/ id \in oks
                     \/ id = n /\ w > 0
                     \/ w = 0 /\ target # "pipe"

CommandsOf(p) ==
    /\ proc[p] = "none" => lens[p] = <<>>
    /\ DoneIn(executed[p], Len(lens[p]), writing[p])
    /\ HeadersIn(pipe[p], executed[p], Len(lens[p]), writing[p])
    /\ AckedIn(acked[p], Len(lens[p]), writing[p], parentPipe[p])

ReadingOf(p) ==
    pc = "data" /\ FirstReadable(p, children)
        => ReadingIn(reading, pipe[p], executed[p], Len(lens[p]), writing[p])

CommandInv == \A p \in Pid : CommandsOf(p) /\ ReadingOf(p)

\* What is left of a pipe when its first d units are gone; a unit read out of step is
\* garbage.
LEMMA HeadersLeft ==
    ASSUME NEW q \in Seq(Unit), NEW r \in Seq(Unit), NEW d \in Nat,
           Len(r) = Len(q) - d,
           \A i \in 1..Len(r) : r[i] = BodyUnit \/ r[i] = q[i + d],
           NEW done \in Seq(Nat), NEW n \in Nat, NEW w \in Nat, HeadersIn(q, done, n, w)
    PROVE  HeadersIn(r, done, n, w)
<1> SUFFICES ASSUME NEW i \in 1..Len(r), r[i] # BodyUnit
             PROVE  /\ r[i].id \in 1..n
                    /\ \A k \in 1..Len(done) : done[k] < r[i].id
                    /\ \A j \in 1..(i - 1) : r[j] # BodyUnit => r[j].id < r[i].id
                    /\ r[i].id = n => Len(r) - i + w <= r[i].len
  BY DEF HeadersIn
<1> DEFINE m == i + d
<1>1. Len(q) \in Nat /\ Len(r) \in Nat
  OBVIOUS
<1>2. m \in 1..Len(q) /\ r[i] = q[m] /\ q[m] # BodyUnit
  BY <1>1
<1>3. /\ q[m].id \in 1..n
      /\ \A k \in 1..Len(done) : done[k] < q[m].id
      /\ \A j \in 1..(m - 1) : q[j] # BodyUnit => q[j].id < q[m].id
      /\ q[m].id = n => Len(q) - m + w <= q[m].len
  BY <1>2 DEF HeadersIn
<1>4. ASSUME NEW j \in 1..(i - 1), r[j] # BodyUnit  PROVE r[j].id < r[i].id
  <2>1. j \in 1..Len(r) /\ j + d \in 1..(m - 1)
    BY <1>1
  <2>2. r[j] = q[j + d]
    BY <2>1, <1>4
  <2> QED BY <2>1, <2>2, <1>2, <1>3, <1>4
<1>5. Len(r) - i = Len(q) - m
  BY <1>1
<1> QED BY <1>2, <1>3, <1>4, <1>5

\* The same for the header whose data is to be read.
LEMMA ReadingLeft ==
    ASSUME NEW h \in Header, NEW q \in Seq(Unit), NEW done \in Seq(Nat), NEW n \in Nat, NEW w \in Nat,
           q # <<>>, h = Head(q), h # BodyUnit, HeadersIn(q, done, n, w)
    PROVE  ReadingIn(h, Tail(q), done, n, w)
<1> DEFINE r == Tail(q)
<1>1. /\ Len(q) \in Nat /\ 1 \in 1..Len(q) /\ h = q[1]
      /\ Len(r) = Len(q) - 1 /\ \A i \in 1..Len(r) : r[i] = q[i + 1]
  OBVIOUS
<1>2. /\ h.id \in 1..n /\ \A k \in 1..Len(done) : done[k] < h.id
      /\ h.id = n => Len(q) - 1 + w <= h.len
  BY <1>1 DEF HeadersIn
<1> HIDE DEF r
<1>3. ASSUME NEW i \in 1..Len(r), r[i] # BodyUnit  PROVE h.id < r[i].id
  <2>1. i + 1 \in 1..Len(q) /\ 1 \in 1..((i + 1) - 1) /\ r[i] = q[i + 1]
    BY <1>1
  <2> QED BY <2>1, <1>1, <1>3 DEF HeadersIn
<1>4. ReadingIn(h, r, done, n, w)
  BY <1>1, <1>2, <1>3 DEF ReadingIn
<1> QED BY <1>4 DEF r

\* Performing a header that comes before all of the pipe, with all of its data.
LEMMA Performed ==
    ASSUME NEW h \in Header, NEW q \in Seq(Unit), NEW done \in Seq(Nat), NEW n \in Nat, NEW w \in Nat,
           DoneIn(done, n, w), HeadersIn(q, done, n, w),
           h.id \in 1..n, \A k \in 1..Len(done) : done[k] < h.id,
           \A i \in 1..Len(q) : q[i] # BodyUnit => h.id < q[i].id,
           h.id = n => w = 0
    PROVE  DoneIn(Append(done, h.id), n, w) /\ HeadersIn(q, Append(done, h.id), n, w)
<1> DEFINE more == Append(done, h.id)
<1>1. /\ h.id \in Nat /\ Len(done) \in Nat
      /\ Len(more) = Len(done) + 1 /\ more[Len(done) + 1] = h.id
      /\ \A i \in 1..Len(done) : more[i] = done[i]
  BY DEF Header
<1> HIDE DEF more
<1>2. ASSUME NEW i \in 1..Len(more)
      PROVE  /\ more[i] \in 1..n /\ (more[i] = n => w = 0)
             /\ i > 1 => more[i - 1] < more[i]
  <2>1. CASE i \in 1..Len(done)
    <3>1. more[i] = done[i]
      BY <2>1, <1>1
    <3>2. ASSUME i > 1  PROVE i - 1 \in 1..Len(done) /\ more[i - 1] = done[i - 1]
      <4>1. i - 1 \in 1..Len(done)
        BY <2>1, <1>1, <3>2
      <4> QED BY <4>1, <1>1
    <3>3. /\ done[i] \in 1..n /\ (done[i] = n => w = 0)
          /\ i > 1 => done[i - 1] < done[i]
      BY <2>1 DEF DoneIn
    <3> QED BY <3>1, <3>2, <3>3
  <2>2. CASE i = Len(done) + 1
    <3>1. more[i] = h.id
      BY <2>2, <1>1
    <3>2. ASSUME i > 1  PROVE more[i - 1] < h.id
      <4>1. i - 1 \in 1..Len(done)
        BY <2>2, <3>2, <1>1
      <4> QED BY <4>1, <1>1
    <3> QED BY <3>1, <3>2
  <2> QED BY <2>1, <2>2, <1>1
<1>3. ASSUME NEW k \in 1..Len(more), NEW i \in 1..Len(q), q[i] # BodyUnit
      PROVE  more[k] < q[i].id
  <2>1. CASE k \in 1..Len(done)
    BY <2>1, <1>1, <1>3 DEF HeadersIn
  <2>2. CASE k = Len(done) + 1
    BY <2>2, <1>1, <1>3
  <2> QED BY <2>1, <2>2, <1>1
<1>4. DoneIn(more, n, w)
  BY <1>2 DEF DoneIn
<1>5. HeadersIn(q, more, n, w)
  BY <1>3 DEF HeadersIn
<1> QED BY <1>4, <1>5 DEF more

\* The next header is written, and all of its data remains to be written.
LEMMA HeaderWritten ==
    ASSUME NEW q \in Seq(Unit), NEW done \in Seq(Nat), NEW n \in Nat, NEW cmd, NEW len \in Nat,
           HeadersIn(q, done, n, 0), DoneIn(done, n, 0)
    PROVE  HeadersIn(Append(q, [type |-> "header", cmd |-> cmd, len |-> len, id |-> n + 1]),
                     done, n + 1, len)
<1> DEFINE h == [type |-> "header", cmd |-> cmd, len |-> len, id |-> n + 1]
           r == Append(q, h)
<1>1. h.id = n + 1 /\ h.len = len
  OBVIOUS
<1> HIDE DEF h
<1>2. /\ Len(q) \in Nat /\ Len(r) = Len(q) + 1 /\ r[Len(q) + 1] = h
      /\ \A i \in 1..Len(q) : r[i] = q[i]
  OBVIOUS
<1> HIDE DEF r
<1>3. ASSUME NEW i \in 1..Len(r), r[i] # BodyUnit
      PROVE  /\ r[i].id \in 1..(n + 1)
             /\ \A k \in 1..Len(done) : done[k] < r[i].id
             /\ \A j \in 1..(i - 1) : r[j] # BodyUnit => r[j].id < r[i].id
             /\ r[i].id = n + 1 => Len(r) - i + len <= r[i].len
  <2>1. CASE i \in 1..Len(q)
    <3>0. \A j \in 1..(i - 1) : j \in 1..Len(q)
      BY <2>1, <1>2
    <3>1. r[i] = q[i] /\ \A j \in 1..(i - 1) : r[j] = q[j]
      BY <2>1, <3>0, <1>2, Zenon
    <3>2. /\ q[i].id \in 1..n
          /\ \A k \in 1..Len(done) : done[k] < q[i].id
          /\ \A j \in 1..(i - 1) : q[j] # BodyUnit => q[j].id < q[i].id
      BY <2>1, <3>1, <1>3, Zenon DEF HeadersIn
    <3>3. \A x \in 1..n : x \in 1..(n + 1) /\ x # n + 1
      OBVIOUS
    <3>4. r[i].id \in 1..(n + 1) /\ r[i].id # n + 1
      BY <3>1, <3>2, <3>3, Zenon
    <3>5. /\ \A k \in 1..Len(done) : done[k] < r[i].id
          /\ \A j \in 1..(i - 1) : r[j] # BodyUnit => r[j].id < r[i].id
      BY <3>1, <3>2, Zenon
    <3> QED BY <3>4, <3>5, Zenon
  <2>2. CASE i = Len(q) + 1
    <3>1. r[i].id = n + 1 /\ r[i].len = len /\ Len(r) - i = 0
      BY <2>2, <1>1, <1>2
    <3>2. \A k \in 1..Len(done) : done[k] < n + 1
      BY DEF DoneIn
    <3>3. ASSUME NEW j \in 1..(i - 1), r[j] # BodyUnit  PROVE r[j].id < n + 1
      <4>1. j \in 1..Len(q) /\ r[j] = q[j]
        BY <2>2, <1>2
      <4>2. q[j].id \in 1..n
        BY <4>1, <3>3 DEF HeadersIn
      <4> QED BY <4>1, <4>2
    <3> QED BY <3>1, <3>2, <3>3
  <2> QED BY <2>1, <2>2, <1>2
<1>4. HeadersIn(r, done, n + 1, len)
  BY <1>3 DEF HeadersIn
<1> QED BY <1>4 DEF r, h

\* More of the data is written.
LEMMA BodyWritten ==
    ASSUME NEW q \in Seq(Unit), NEW done \in Seq(Nat), NEW n \in Nat, NEW w \in Nat,
           NEW c \in Nat, c <= w, NEW r, r = q \o [i \in 1..c |-> BodyUnit]
    PROVE  /\ HeadersIn(q, done, n, w) => HeadersIn(r, done, n, w - c)
           /\ \A h : ReadingIn(h, q, done, n, w) => ReadingIn(h, r, done, n, w - c)
<1> HIDE DEF BodyUnit
<1>1. /\ Len(q) \in Nat /\ Len(r) = Len(q) + c
      /\ \A i \in 1..Len(q) : r[i] = q[i]
      /\ \A i \in 1..Len(r) : i \in 1..Len(q) \/ r[i] = BodyUnit
  <2>1. [i \in 1..c |-> BodyUnit] \in Seq({BodyUnit}) /\ Len([i \in 1..c |-> BodyUnit]) = c
    OBVIOUS
  <2> QED BY <2>1
<1>2. ASSUME HeadersIn(q, done, n, w), NEW i \in 1..Len(r), r[i] # BodyUnit
      PROVE  /\ r[i].id \in 1..n
             /\ \A k \in 1..Len(done) : done[k] < r[i].id
             /\ \A j \in 1..(i - 1) : r[j] # BodyUnit => r[j].id < r[i].id
             /\ r[i].id = n => Len(r) - i + (w - c) <= r[i].len
  <2>1. i \in 1..Len(q) /\ r[i] = q[i] /\ \A j \in 1..(i - 1) : j \in 1..Len(q) /\ r[j] = q[j]
    BY <1>1, <1>2
  <2>2. Len(r) - i + (w - c) = Len(q) - i + w
    BY <1>1, <2>1
  <2> QED BY <2>1, <2>2, <1>2 DEF HeadersIn
<1>3. ASSUME NEW h, ReadingIn(h, q, done, n, w)  PROVE ReadingIn(h, r, done, n, w - c)
  <2>1. Len(r) + (w - c) = Len(q) + w
    BY <1>1
  <2>2. \A i \in 1..Len(r) : r[i] # BodyUnit => i \in 1..Len(q) /\ r[i] = q[i]
    BY <1>1
  <2> QED BY <2>1, <2>2, <1>3 DEF ReadingIn
<1> QED BY <1>2, <1>3 DEF HeadersIn

commandVars == <<lens, executed, writing, pipe, acked>>

\* Every step that touches no command.
LEMMA CommandKept ==
    ASSUME CommandInv, UNCHANGED <<commandVars, parentPipe>>,
           \A p \in Pid : proc'[p] = "none" => proc[p] = "none",
           pc' = "data" => pc = "data" /\ UNCHANGED <<readfds, children, reading>>
    PROVE  CommandInv'
BY DEF CommandInv, CommandsOf, ReadingOf, FirstReadable, commandVars

\* A new child has sent nothing.
LEMMA CommandFork ==
    ASSUME TypeInv, CommandInv, NEW s \in Socket, NEW p \in Pid, Fork(s, p)
    PROVE  CommandInv'
<1>1. /\ proc[p] = "none" /\ proc' = [proc EXCEPT ![p] = "forked"]
      /\ UNCHANGED commandVars
      /\ parentPipe' = parentPipe \/ parentPipe' = [parentPipe EXCEPT ![p] = "pipe"]
      /\ pc' # "data"
  BY DEF Fork, Unused, Accept, Handled, commandVars
<1>2. DOMAIN proc = Pid /\ DOMAIN parentPipe = Pid
  BY DEF TypeInv, TypeOK
<1> SUFFICES ASSUME NEW q \in Pid  PROVE CommandsOf(q)' /\ ReadingOf(q)'
  BY DEF CommandInv
<1>3. CommandsOf(q)
  BY DEF CommandInv
<1>4. CASE q # p
  BY <1>1, <1>2, <1>3, <1>4 DEF CommandsOf, ReadingOf, commandVars
<1>5. CASE q = p
  <2>1. Len(lens[p]) = 0 /\ lens'[p] = lens[p] /\ proc'[p] = "forked"
    BY <1>1, <1>2, <1>3, <1>5 DEF CommandsOf, commandVars
  <2>2. AckedIn(acked'[p], Len(lens'[p]), writing'[p], parentPipe'[p])
    BY <2>1 DEF AckedIn
  <2> QED BY <1>1, <1>3, <1>5, <2>1, <2>2 DEF CommandsOf, ReadingOf, commandVars
<1> QED BY <1>4, <1>5

\* Some of the pipe is gone, and nothing is performed.
LEMMA CommandShorter ==
    ASSUME TypeInv, TypeInv', CommandInv, NEW p \in Pid, NEW d \in Nat,
           NEW r, pipe' = [pipe EXCEPT ![p] = r], Len(r) = Len(pipe[p]) - d,
           \A i \in 1..Len(r) : r[i] = BodyUnit \/ r[i] = pipe[p][i + d],
           UNCHANGED <<lens, executed, writing, acked, parentPipe, proc>>
    PROVE  \A q \in Pid : CommandsOf(q)'
<1> SUFFICES ASSUME NEW q \in Pid  PROVE CommandsOf(q)'
  OBVIOUS
<1>1. /\ pipe \in [Pid -> Seq(Unit)] /\ pipe' \in [Pid -> Seq(Unit)] /\ pipe'[p] = r
      /\ executed[p] \in Seq(Nat) /\ Len(lens[p]) \in Nat /\ writing[p] \in Nat
  BY DEF TypeInv, TypeOK
<1>2. CommandsOf(q)
  BY DEF CommandInv
<1>3. CASE q # p
  BY <1>1, <1>2, <1>3 DEF CommandsOf
<1>4. CASE q = p
  <2>1. r \in Seq(Unit) /\ pipe[p] \in Seq(Unit)
    BY <1>1
  <2>2. HeadersIn(r, executed[p], Len(lens[p]), writing[p])
    BY <1>1, <1>2, <1>4, <2>1, HeadersLeft DEF CommandsOf
  <2> QED BY <1>1, <1>2, <1>4, <2>2 DEF CommandsOf
<1> QED BY <1>3, <1>4

LEMMA CommandRead ==
    ASSUME TypeInv, TypeInv', CommandInv, NEW p \in Pid, ReadShort(p) \/ ReadGarbage(p)
    PROVE  CommandInv'
<1>1. /\ UNCHANGED <<lens, executed, writing, acked, parentPipe, proc>>
      /\ pc' # "data"
  BY DEF ReadShort, ReadGarbage, Handled, histVars, procVars
<1>2. /\ pipe \in [Pid -> Seq(Unit)] /\ pipe[p] \in Seq(Unit) /\ Len(pipe[p]) \in Nat
      /\ BodyUnit \in Unit
  BY DEF TypeInv, Unit
<1> HIDE DEF BodyUnit
<1>3. \A q \in Pid : CommandsOf(q)'
  <2>1. CASE pipe' = [pipe EXCEPT ![p] = <<>>]
    <3>1. Len(<<>>) = Len(pipe[p]) - Len(pipe[p]) /\ 1..Len(<<>>) = {}
      BY <1>2
    <3> QED BY <1>1, <1>2, <2>1, <3>1, CommandShorter
  <2>2. CASE pipe[p] # <<>> /\ pipe' = [pipe EXCEPT ![p] = Tail(@)]
    <3> DEFINE r == Tail(pipe[p])
    <3>1. Len(r) = Len(pipe[p]) - 1 /\ \A i \in 1..Len(r) : r[i] = pipe[p][i + 1]
      BY <1>2, <2>2
    <3>2. pipe' = [pipe EXCEPT ![p] = r]
      BY <2>2
    <3> HIDE DEF r
    <3> QED BY <1>1, <1>2, <3>1, <3>2, CommandShorter
  <2>3. CASE /\ Len(pipe[p]) > 1
             /\ pipe' = [pipe EXCEPT ![p] = <<BodyUnit>> \o SubSeq(@, 3, Len(@))]
    <3> DEFINE t == SubSeq(pipe[p], 3, Len(pipe[p]))
               r == <<BodyUnit>> \o t
    <3>1. /\ t \in Seq(Unit) /\ Len(t) = Len(pipe[p]) - 2
          /\ \A i \in 1..Len(t) : t[i] = pipe[p][2 + i]
      <4> DEFINE two == 2
      <4>1. two \in 0..Len(pipe[p]) /\ two + 1 = 3
        BY <1>2, <2>3
      <4> HIDE DEF two
      <4>2. t = SubSeq(pipe[p], two + 1, Len(pipe[p]))
        BY <4>1
      <4> HIDE DEF t
      <4>3. /\ t \in Seq(Unit) /\ Len(t) = Len(pipe[p]) - two
            /\ \A i \in 1..Len(t) : t[i] = pipe[p][two + i]
        BY <1>2, <4>1, <4>2, Dropped
      <4> QED BY <4>3 DEF two
    <3>2. pipe' = [pipe EXCEPT ![p] = r]
      BY <2>3
    <3> HIDE DEF t
    <3>3. Len(r) = Len(t) + 1 /\ r[1] = BodyUnit /\ \A i \in 1..Len(t) : r[i + 1] = t[i]
      BY <1>2, <3>1
    <3> HIDE DEF r
    <3>4. ASSUME NEW i \in 1..Len(r)  PROVE r[i] = BodyUnit \/ r[i] = pipe[p][i + 1]
      <4>1. CASE i = 1
        BY <4>1, <3>3
      <4>2. CASE i # 1
        <5>1. i - 1 \in 1..Len(t) /\ (i - 1) + 1 = i /\ 2 + (i - 1) = i + 1
          BY <4>2, <3>1, <3>3, <1>2
        <5>2. t[i - 1] = pipe[p][2 + (i - 1)]
          BY <5>1, <3>1, Zenon
        <5>3. r[(i - 1) + 1] = t[i - 1]
          BY <5>1, <3>3, Zenon
        <5> QED BY <5>1, <5>2, <5>3, Zenon
      <4> QED BY <4>1, <4>2
    <3>5. Len(r) = Len(pipe[p]) - 1
      BY <3>1, <3>3, <1>2
    <3> QED BY <1>1, <1>2, <3>2, <3>4, <3>5, CommandShorter
  <2> QED BY <2>1, <2>2, <2>3 DEF ReadShort, ReadGarbage
<1> QED BY <1>1, <1>3 DEF CommandInv, ReadingOf

\* The round looks at one child at a time.
LEMMA OneFirst ==
    ASSUME TypeInv, NEW p, NEW q, FirstReadable(p, children), FirstReadable(q, children)
    PROVE  p = q
<1>1. PICK i \in DOMAIN children : /\ children[i] = p /\ p \in readfds
                                   /\ \A k \in 1..(i - 1) : children[k] \notin readfds
  BY DEF FirstReadable
<1>2. PICK j \in DOMAIN children : /\ children[j] = q /\ q \in readfds
                                   /\ \A k \in 1..(j - 1) : children[k] \notin readfds
  BY DEF FirstReadable
<1>3. i \in Nat /\ j \in Nat /\ i > 0 /\ j > 0
  <2>1. children \in Seq(Pid)
    BY DEF TypeInv, TypeOK
  <2> QED BY <1>1, <1>2, <2>1
<1>4. ~(i < j)
  <2> SUFFICES ASSUME i < j  PROVE FALSE
    OBVIOUS
  <2>1. i \in 1..(j - 1)
    BY <1>3
  <2> QED BY <2>1, <1>1, <1>2
<1>5. ~(j < i)
  <2> SUFFICES ASSUME j < i  PROVE FALSE
    OBVIOUS
  <2>1. j \in 1..(i - 1)
    BY <1>3
  <2> QED BY <2>1, <1>1, <1>2
<1> QED BY <1>1, <1>2, <1>3, <1>4, <1>5

\* A header is taken from the pipe; without data, it is performed.
LEMMA CommandReadHeader ==
    ASSUME TypeInv, TypeInv', CommandInv, NEW p \in Pid, ReadHeader(p)
    PROVE  CommandInv'
<1> DEFINE h == Head(pipe[p])
           r == Tail(pipe[p])
<1>1. /\ pipe[p] # <<>> /\ h # BodyUnit /\ pipe' = [pipe EXCEPT ![p] = r]
      /\ FirstReadable(p, children)
      /\ UNCHANGED <<lens, writing, acked, parentPipe, proc, children>>
  BY DEF ReadHeader, AtChild, procVars
<1>2. /\ pipe \in [Pid -> Seq(Unit)] /\ pipe[p] \in Seq(Unit) /\ executed \in [Pid -> Seq(Nat)]
      /\ executed[p] \in Seq(Nat)
      /\ Len(lens[p]) \in Nat /\ writing[p] \in Nat
  BY DEF TypeInv, TypeOK
<1>3. h \in Header
  <2>1. h \in Unit
    BY <1>1, <1>2
  <2> QED BY <2>1, <1>1 DEF Unit
<1>4. /\ r \in Seq(Unit) /\ Len(r) = Len(pipe[p]) - 1
      /\ \A i \in 1..Len(r) : r[i] = pipe[p][i + 1]
  BY <1>1, <1>2
<1>5. CommandsOf(p)
  BY DEF CommandInv
<1>6. ReadingIn(h, r, executed[p], Len(lens[p]), writing[p])
  BY <1>1, <1>2, <1>3, <1>5, ReadingLeft DEF CommandsOf
<1>7. HeadersIn(r, executed[p], Len(lens[p]), writing[p])
  <2> HIDE DEF r
  <2> QED BY <1>2, <1>4, <1>5, HeadersLeft DEF CommandsOf
<1>8. h.len = 0 \/ (h.len # 0 /\ executed' = executed)
  BY DEF ReadHeader
<1>9. h.len = 0 => executed' = [executed EXCEPT ![p] = Append(executed[p], h.id)] \/ executed' = executed
  BY DEF ReadHeader, Perform
<1>10. pc' = "data" => reading' = h /\ readfds' = readfds /\ executed' = executed
  BY DEF ReadHeader, Handled
<1> HIDE DEF h, r
<1>11. CASE executed' = executed
  <2>1. \A q \in Pid : CommandsOf(q)'
    BY <1>1, <1>4, <1>11, CommandShorter
  <2>2. ASSUME NEW q \in Pid, pc' = "data", FirstReadable(q, children)'
        PROVE  ReadingIn(reading', pipe'[q], executed'[q], Len(lens'[q]), writing'[q])
    <3>1. FirstReadable(q, children)
      BY <1>1, <1>10, <2>2 DEF FirstReadable
    <3>2. q = p
      BY <1>1, <3>1, OneFirst
    <3>3. pipe'[p] = r /\ reading' = h
      BY <1>1, <1>2, <1>10, <2>2
    <3> QED BY <1>1, <1>6, <1>11, <3>2, <3>3
  <2> QED BY <2>1, <2>2 DEF CommandInv, ReadingOf
<1>12. CASE h.len = 0 /\ executed' = [executed EXCEPT ![p] = Append(executed[p], h.id)] /\ pc' # "data"
  <2>1. h.id = Len(lens[p]) => writing[p] = 0
    <3>1. Len(r) \in Nat
      BY <1>4
    <3> QED BY <1>2, <1>6, <1>12, <3>1 DEF ReadingIn
  <2>2. /\ DoneIn(Append(executed[p], h.id), Len(lens[p]), writing[p])
        /\ HeadersIn(r, Append(executed[p], h.id), Len(lens[p]), writing[p])
    <3>1. /\ h.id \in 1..Len(lens[p])
          /\ \A k \in 1..Len(executed[p]) : executed[p][k] < h.id
          /\ \A i \in 1..Len(r) : r[i] # BodyUnit => h.id < r[i].id
      BY <1>6 DEF ReadingIn
    <3>2. DoneIn(executed[p], Len(lens[p]), writing[p])
      BY <1>5 DEF CommandsOf
    <3> QED BY <1>2, <1>3, <1>4, <1>7, <2>1, <3>1, <3>2, Performed
  <2>3. pipe'[p] = r /\ executed'[p] = Append(executed[p], h.id)
    BY <1>1, <1>2, <1>12
  <2>4. CommandsOf(p)'
    BY <1>1, <1>5, <2>2, <2>3 DEF CommandsOf
  <2>5. ASSUME NEW q \in Pid, q # p  PROVE CommandsOf(q)'
    <3>1. pipe'[q] = pipe[q] /\ executed'[q] = executed[q] /\ CommandsOf(q)
      BY <1>1, <1>2, <1>12, <2>5 DEF CommandInv
    <3> QED BY <1>1, <3>1 DEF CommandsOf
  <2> QED BY <1>12, <2>4, <2>5 DEF CommandInv, ReadingOf
<1>13. executed' # executed => pc' # "data"
  BY <1>10
<1> QED BY <1>8, <1>9, <1>11, <1>12, <1>13

\* The data is read; a command is performed only with all of it.
LEMMA CommandReadData ==
    ASSUME TypeInv, TypeInv', CommandInv, NEW p \in Pid, ReadData(p)
    PROVE  CommandInv'
<1> DEFINE n == IF reading.len < Len(pipe[p]) THEN reading.len ELSE Len(pipe[p])
           r == SubSeq(pipe[p], n + 1, Len(pipe[p]))
<1>1. /\ pc = "data" /\ pipe' = [pipe EXCEPT ![p] = r]
      /\ FirstReadable(p, children)
      /\ UNCHANGED <<lens, writing, acked, parentPipe, proc, children>>
      /\ pc' # "data"
  BY DEF ReadData, InLoop, Handled, procVars
<1>2. /\ pipe \in [Pid -> Seq(Unit)] /\ pipe[p] \in Seq(Unit) /\ executed \in [Pid -> Seq(Nat)]
      /\ executed[p] \in Seq(Nat) /\ reading \in Header
      /\ Len(lens[p]) \in Nat /\ writing[p] \in Nat /\ Len(pipe[p]) \in Nat
  BY <1>1 DEF TypeInv, TypeOK
<1>3. reading.len \in Nat /\ n \in 0..Len(pipe[p])
  BY <1>2 DEF Header
<1>4. \/ executed' = executed
      \/ n = reading.len /\ executed' = [executed EXCEPT ![p] = Append(executed[p], reading.id)]
  BY DEF ReadData, PerformComplete, Perform
<1>5. n = reading.len => reading.len <= Len(pipe[p])
  BY <1>2, <1>3
<1> HIDE DEF n
<1>6. /\ r \in Seq(Unit) /\ Len(r) = Len(pipe[p]) - n
      /\ \A i \in 1..Len(r) : r[i] = pipe[p][n + i]
  BY <1>2, <1>3, Dropped
<1> HIDE DEF r
<1>7. /\ Len(r) = Len(pipe[p]) - n /\ n \in Nat
      /\ \A i \in 1..Len(r) : i + n \in 1..Len(pipe[p]) /\ r[i] = pipe[p][i + n]
  <2>1. ASSUME NEW i \in 1..Len(r)  PROVE i + n \in 1..Len(pipe[p]) /\ n + i = i + n
    BY <1>2, <1>3, <1>6
  <2> QED BY <1>3, <1>6, <2>1
<1>8. CommandsOf(p) /\ ReadingIn(reading, pipe[p], executed[p], Len(lens[p]), writing[p])
  BY <1>1 DEF CommandInv, ReadingOf
<1>9. HeadersIn(r, executed[p], Len(lens[p]), writing[p])
  <2>1. HeadersIn(pipe[p], executed[p], Len(lens[p]), writing[p])
    BY <1>8 DEF CommandsOf
  <2>2. \A i \in 1..Len(r) : r[i] = BodyUnit \/ r[i] = pipe[p][i + n]
    BY <1>7, Zenon
  <2> QED BY <1>2, <1>6, <1>7, <2>1, <2>2, HeadersLeft, Zenon
<1>10. CASE executed' = executed
  <2>1. \A q \in Pid : CommandsOf(q)'
    BY <1>1, <1>7, <1>10, CommandShorter
  <2> QED BY <1>1, <2>1 DEF CommandInv, ReadingOf
<1>11. CASE n = reading.len /\ executed' = [executed EXCEPT ![p] = Append(executed[p], reading.id)]
  <2>1. reading.id = Len(lens[p]) => writing[p] = 0
    BY <1>2, <1>3, <1>5, <1>8, <1>11 DEF ReadingIn
  <2>2. /\ DoneIn(Append(executed[p], reading.id), Len(lens[p]), writing[p])
        /\ HeadersIn(r, Append(executed[p], reading.id), Len(lens[p]), writing[p])
    <3>1. /\ reading.id \in 1..Len(lens[p])
          /\ \A k \in 1..Len(executed[p]) : executed[p][k] < reading.id
          /\ \A i \in 1..Len(r) : r[i] # BodyUnit => reading.id < r[i].id
      BY <1>7, <1>8 DEF ReadingIn
    <3>2. DoneIn(executed[p], Len(lens[p]), writing[p])
      BY <1>8 DEF CommandsOf
    <3> QED BY <1>2, <1>6, <1>9, <2>1, <3>1, <3>2, Performed
  <2>3. pipe'[p] = r /\ executed'[p] = Append(executed[p], reading.id)
    BY <1>1, <1>2, <1>11
  <2>4. CommandsOf(p)'
    BY <1>1, <1>8, <2>2, <2>3 DEF CommandsOf
  <2>5. ASSUME NEW q \in Pid, q # p  PROVE CommandsOf(q)'
    <3>1. pipe'[q] = pipe[q] /\ executed'[q] = executed[q] /\ CommandsOf(q)
      BY <1>1, <1>2, <1>11, <2>5 DEF CommandInv
    <3> QED BY <1>1, <3>1 DEF CommandsOf
  <2> QED BY <1>1, <2>4, <2>5 DEF CommandInv, ReadingOf
<1> QED BY <1>4, <1>10, <1>11

\* A command of child p: numbered after all that it has sent.
LEMMA CommandWrite ==
    ASSUME TypeInv, TypeInv', CommandInv, NEW p \in Pid, ControlCommand(p)
    PROVE  CommandInv'
<1>1. PICK cmd \in {"EVAL", "SHUTDOWN"}, len \in Nat : WriteHeader(p, cmd, len)
  BY ServerAssumption DEF ControlCommand
<1> DEFINE n == Len(lens[p])
           h == [type |-> "header", cmd |-> cmd, len |-> len, id |-> n + 1]
<1>2. /\ lens' = [lens EXCEPT ![p] = Append(lens[p], len)]
      /\ writing[p] = 0 /\ proc[p] = "running"
      /\ UNCHANGED <<executed, proc, pc, readfds, reading, children>>
  BY <1>1 DEF WriteHeader, NextCommand, loopVars, procVars
<1>3. \/ /\ pipe' = [pipe EXCEPT ![p] = Append(pipe[p], h)]
         /\ writing' = [writing EXCEPT ![p] = len]
         /\ parentPipe[p] = "pipe" /\ parentPipe' = parentPipe
         /\ IF len = 0 THEN acked' = [acked EXCEPT ![p] = acked[p] \cup {n + 1}] ELSE acked' = acked
      \/ /\ parentPipe' = [parentPipe EXCEPT ![p] = "none"]
         /\ UNCHANGED <<pipe, writing, acked>>
      \/ /\ parentPipe[p] = "stdout" /\ acked' = [acked EXCEPT ![p] = acked[p] \cup {n + 1}]
         /\ UNCHANGED <<pipe, writing, parentPipe>>
  BY <1>1 DEF WriteHeader, Acknowledge
<1>4. /\ lens \in [Pid -> Seq(Nat)] /\ acked \in [Pid -> SUBSET Nat] /\ writing \in [Pid -> Nat]
      /\ pipe \in [Pid -> Seq(Unit)] /\ executed[p] \in Seq(Nat) /\ n \in Nat
      /\ pipe[p] \in Seq(Unit) /\ DOMAIN parentPipe = Pid
  BY DEF TypeInv, TypeOK
<1>5. Len(lens'[p]) = n + 1 /\ proc'[p] # "none"
  BY <1>2, <1>4
<1> HIDE DEF n
<1>6. /\ DoneIn(executed[p], n, 0) /\ HeadersIn(pipe[p], executed[p], n, 0)
      /\ AckedIn(acked[p], n, 0, parentPipe[p])
  BY <1>2 DEF CommandInv, CommandsOf, n
<1>7. \A w \in Nat : DoneIn(executed[p], n + 1, w)
  <2>1. \A i \in 1..Len(executed[p]) : executed[p][i] \in 1..n
    BY <1>6 DEF DoneIn
  <2>2. \A i \in 1..Len(executed[p]) : executed[p][i] \in 1..(n + 1) /\ executed[p][i] # n + 1
    BY <1>4, <2>1
  <2>3. \A i \in 1..Len(executed[p]) : i > 1 => executed[p][i - 1] < executed[p][i]
    BY <1>6 DEF DoneIn
  <2> QED BY <2>2, <2>3 DEF DoneIn
<1>8. HeadersIn(pipe[p], executed[p], n + 1, 0)
  <2>1. \A i \in 1..Len(pipe[p]) : pipe[p][i] # BodyUnit =>
          pipe[p][i].id \in 1..(n + 1) /\ pipe[p][i].id # n + 1
    BY <1>4, <1>6 DEF HeadersIn
  <2> QED BY <1>6, <2>1 DEF HeadersIn
<1>9. HeadersIn(Append(pipe[p], h), executed[p], n + 1, len)
  BY <1>4, <1>6, HeaderWritten
<1>10. HeadersIn(pipe'[p], executed[p], n + 1, writing'[p])
  <2> HIDE DEF h
  <2>1. CASE UNCHANGED <<pipe, writing>>
    BY <2>1, <1>2, <1>8
  <2>2. CASE /\ pipe' = [pipe EXCEPT ![p] = Append(pipe[p], h)]
             /\ writing' = [writing EXCEPT ![p] = len]
    <3>1. pipe'[p] = Append(pipe[p], h) /\ writing'[p] = len
      BY <2>2, <1>4
    <3> QED BY <3>1, <1>9
  <2> QED BY <1>3, <2>1, <2>2
<1>11. AckedIn(acked'[p], n + 1, writing'[p], parentPipe'[p])
  <2>1. \A id \in 1..(n + 1) : id = n + 1 \/ id \in 1..n
    BY <1>4
  <2>2. \A id \in 1..n : id \in acked[p] \/ parentPipe[p] # "pipe"
    BY <1>6 DEF AckedIn
  <2>3. CASE /\ writing' = [writing EXCEPT ![p] = len]
             /\ parentPipe[p] = "pipe"
             /\ IF len = 0 THEN acked' = [acked EXCEPT ![p] = acked[p] \cup {n + 1}] ELSE acked' = acked
    <3>1. writing'[p] = len /\ acked[p] \subseteq acked'[p] /\ (len = 0 => n + 1 \in acked'[p])
      BY <1>4, <2>3
    <3> QED BY <2>1, <2>2, <2>3, <3>1 DEF AckedIn
  <2>4. CASE parentPipe' = [parentPipe EXCEPT ![p] = "none"] /\ UNCHANGED <<writing, acked>>
    <3>1. parentPipe'[p] = "none" /\ writing'[p] = 0
      BY <1>2, <1>4, <2>4
    <3> QED BY <3>1 DEF AckedIn
  <2>5. CASE parentPipe[p] = "stdout" /\ UNCHANGED <<writing, parentPipe>>
    <3>1. parentPipe'[p] = "stdout" /\ writing'[p] = 0
      BY <1>2, <2>5
    <3> QED BY <3>1 DEF AckedIn
  <2> QED BY <1>3, <2>3, <2>4, <2>5
<1>12. writing'[p] \in Nat
  BY DEF TypeInv, TypeOK
<1>13. CommandsOf(p)'
  BY <1>2, <1>5, <1>7, <1>10, <1>11, <1>12 DEF CommandsOf
<1>14. ASSUME pc' = "data", FirstReadable(p, children)'
       PROVE  ReadingIn(reading', pipe'[p], executed'[p], Len(lens'[p]), writing'[p])
  <2>1. FirstReadable(p, children) /\ pc = "data"
    BY <1>2, <1>14 DEF FirstReadable
  <2>2. ReadingIn(reading, pipe[p], executed[p], n, 0)
    BY <1>2, <2>1 DEF CommandInv, ReadingOf, n
  <2>3. reading.id \in 1..(n + 1) /\ reading.id # n + 1 /\ reading.id < n + 1
    BY <1>4, <2>2 DEF ReadingIn
  <2>4. \A i \in 1..Len(pipe'[p]) : pipe'[p][i] # BodyUnit => reading.id < pipe'[p][i].id
    <3>1. CASE pipe' = pipe
      BY <2>2, <3>1 DEF ReadingIn
    <3>2. CASE pipe' = [pipe EXCEPT ![p] = Append(pipe[p], h)]
      <4>1. h.id = n + 1
        OBVIOUS
      <4> HIDE DEF h
      <4>2. pipe'[p] = Append(pipe[p], h)
        BY <3>2, <1>4
      <4>3. \A i \in 1..Len(pipe'[p]) : (i \in 1..Len(pipe[p]) /\ pipe'[p][i] = pipe[p][i])
                                           \/ pipe'[p][i] = h
        BY <4>2, <1>4
      <4> QED BY <4>1, <4>3, <2>2, <2>3 DEF ReadingIn
    <3> QED BY <1>3, <3>1, <3>2
  <2> QED BY <1>2, <1>5, <2>2, <2>3, <2>4 DEF ReadingIn
<1>15. ASSUME NEW q \in Pid, q # p  PROVE CommandsOf(q)' /\ ReadingOf(q)'
  <2>1. /\ lens'[q] = lens[q] /\ pipe'[q] = pipe[q] /\ writing'[q] = writing[q]
        /\ acked'[q] = acked[q] /\ parentPipe'[q] = parentPipe[q]
    BY <1>2, <1>3, <1>4, <1>15
  <2>2. CommandsOf(q) /\ ReadingOf(q)
    BY DEF CommandInv
  <2> QED BY <1>2, <2>1, <2>2 DEF CommandsOf, ReadingOf, FirstReadable
<1>16. ReadingOf(p)'
  BY <1>14 DEF ReadingOf
<1> QED BY <1>13, <1>15, <1>16 DEF CommandInv

\* The data follows its header.
LEMMA CommandBody ==
    ASSUME TypeInv, TypeInv', CommandInv, NEW p \in Pid, WriteBody(p)
    PROVE  CommandInv'
<1>1. PICK c \in {writing[p], 1} :
        /\ pipe' = [pipe EXCEPT ![p] = pipe[p] \o [i \in 1..c |-> BodyUnit]]
        /\ writing' = [writing EXCEPT ![p] = writing[p] - c]
        /\ IF writing[p] = c THEN acked' = [acked EXCEPT ![p] = acked[p] \cup {Len(lens[p])}]
                             ELSE acked' = acked
  BY DEF WriteBody, Acknowledge
<1>2. /\ proc[p] = "running" /\ writing[p] > 0
      /\ UNCHANGED <<parentPipe, lens, executed, proc, pc, readfds, reading, children>>
  BY DEF WriteBody, loopVars, procVars
<1>3. /\ lens \in [Pid -> Seq(Nat)] /\ acked \in [Pid -> SUBSET Nat] /\ writing \in [Pid -> Nat]
      /\ pipe \in [Pid -> Seq(Unit)] /\ executed[p] \in Seq(Nat) /\ Len(lens[p]) \in Nat
      /\ pipe[p] \in Seq(Unit) /\ writing[p] \in Nat
  <2>1. /\ lens \in [Pid -> Seq(Nat)] /\ acked \in [Pid -> SUBSET Nat] /\ writing \in [Pid -> Nat]
        /\ pipe \in [Pid -> Seq(Unit)] /\ executed \in [Pid -> Seq(Nat)]
    BY DEF TypeInv, TypeOK
  <2> QED BY <2>1
<1>4. c \in Nat /\ c > 0 /\ c <= writing[p]
  BY <1>1, <1>2, <1>3
<1> DEFINE r == pipe[p] \o [i \in 1..c |-> BodyUnit]
<1>5. pipe'[p] = r /\ writing'[p] = writing[p] - c
  BY <1>1, <1>3
<1>6. CommandsOf(p) /\ ReadingOf(p)
  BY DEF CommandInv
<1>7. /\ HeadersIn(r, executed[p], Len(lens[p]), writing[p] - c)
      /\ \A h : ReadingIn(h, pipe[p], executed[p], Len(lens[p]), writing[p])
                  => ReadingIn(h, r, executed[p], Len(lens[p]), writing[p] - c)
  <2>1. HeadersIn(pipe[p], executed[p], Len(lens[p]), writing[p])
    BY <1>6 DEF CommandsOf
  <2> QED BY <1>3, <1>4, <2>1, BodyWritten
<1> HIDE DEF r
<1>8. DoneIn(executed[p], Len(lens[p]), writing[p] - c)
  BY <1>2, <1>3, <1>6 DEF CommandsOf, DoneIn
<1>9. AckedIn(acked'[p], Len(lens[p]), writing[p] - c, parentPipe[p])
  <2>1. \A id \in 1..Len(lens[p]) : id \in acked[p] \/ id = Len(lens[p])
    BY <1>2, <1>3, <1>6 DEF CommandsOf, AckedIn
  <2>2. CASE writing[p] = c
    <3>1. acked'[p] = acked[p] \cup {Len(lens[p])}
      BY <1>1, <1>3, <2>2
    <3> QED BY <2>1, <3>1 DEF AckedIn
  <2>3. CASE writing[p] # c
    <3>1. acked'[p] = acked[p] /\ writing[p] - c > 0
      BY <1>1, <1>3, <1>4, <2>3
    <3> QED BY <2>1, <3>1 DEF AckedIn
  <2> QED BY <2>2, <2>3
<1>10. CommandsOf(p)'
  BY <1>2, <1>5, <1>7, <1>8, <1>9 DEF CommandsOf
<1>11. ReadingOf(p)'
  BY <1>2, <1>5, <1>6, <1>7 DEF ReadingOf, FirstReadable
<1>12. ASSUME NEW q \in Pid, q # p  PROVE CommandsOf(q)' /\ ReadingOf(q)'
  <2>1. /\ pipe'[q] = pipe[q] /\ writing'[q] = writing[q] /\ acked'[q] = acked[q]
    BY <1>1, <1>3, <1>12
  <2>2. CommandsOf(q) /\ ReadingOf(q)
    BY DEF CommandInv
  <2> QED BY <1>2, <2>1, <2>2 DEF CommandsOf, ReadingOf, FirstReadable
<1> QED BY <1>10, <1>11, <1>12 DEF CommandInv

\* Data that nobody reads is given up, and the pipe with it.
LEMMA CommandGivenUp ==
    ASSUME TypeInv, CommandInv, NEW p \in Pid, WriteBodyFails(p)
    PROVE  CommandInv'
<1>1. /\ writing' = [writing EXCEPT ![p] = 0]
      /\ UNCHANGED <<pipe, acked, lens, executed, proc, pc, readfds, reading, children>>
  BY DEF WriteBodyFails, loopVars, procVars
<1>2. PICK target \in {"none", "stdout"} : parentPipe' = [parentPipe EXCEPT ![p] = target]
  BY DEF WriteBodyFails
<1>3. /\ writing \in [Pid -> Nat] /\ DOMAIN parentPipe = Pid /\ writing[p] \in Nat
      /\ pipe[p] \in Seq(Unit) /\ Len(pipe[p]) \in Nat
  BY DEF TypeInv, TypeOK
<1>4. writing'[p] = 0 /\ parentPipe'[p] # "pipe"
  BY <1>1, <1>2, <1>3
<1>5. CommandsOf(p) /\ ReadingOf(p)
  BY DEF CommandInv
<1> DEFINE q == pipe[p]
           w == writing[p]
<1>6. \A i \in 1..Len(q) : \A l \in Nat : Len(q) - i + w <= l => Len(q) - i + 0 <= l
  BY <1>3
<1>7. \A i \in 1..Len(q) : q[i] # BodyUnit => q[i].len \in Nat
  <2>1. \A i \in 1..Len(q) : q[i] \in Unit
    BY <1>3
  <2> QED BY <2>1 DEF Unit, Header
<1>8. HeadersIn(q, executed[p], Len(lens[p]), 0)
  <2>1. HeadersIn(q, executed[p], Len(lens[p]), w)
    BY <1>5 DEF CommandsOf
  <2> HIDE DEF q, w
  <2> QED BY <1>6, <1>7, <2>1 DEF HeadersIn
<1>9. DoneIn(executed[p], Len(lens[p]), 0)
  BY <1>5 DEF CommandsOf, DoneIn
<1>10. AckedIn(acked[p], Len(lens[p]), 0, parentPipe'[p])
  BY <1>4 DEF AckedIn
<1>11. CommandsOf(p)'
  BY <1>1, <1>4, <1>5, <1>8, <1>9, <1>10 DEF CommandsOf
<1>12. ReadingOf(p)'
  <2> SUFFICES ASSUME pc' = "data", FirstReadable(p, children)'
               PROVE  ReadingIn(reading', pipe'[p], executed'[p], Len(lens'[p]), writing'[p])
    BY DEF ReadingOf
  <2>1. pc = "data" /\ ReadingIn(reading, q, executed[p], Len(lens[p]), w)
    BY <1>1, <1>5 DEF ReadingOf, FirstReadable
  <2>2. reading.len \in Nat
    BY <2>1 DEF TypeInv, Header
  <2>3. Len(q) + w <= reading.len => Len(q) + 0 <= reading.len
    BY <1>3, <2>2
  <2>4. ReadingIn(reading, q, executed[p], Len(lens[p]), 0)
    BY <2>1, <2>3 DEF ReadingIn
  <2> QED BY <1>1, <1>4, <2>4
<1>13. ASSUME NEW z \in Pid, z # p  PROVE CommandsOf(z)' /\ ReadingOf(z)'
  <2>1. writing'[z] = writing[z] /\ parentPipe'[z] = parentPipe[z]
    BY <1>1, <1>2, <1>3, <1>13
  <2>2. CommandsOf(z) /\ ReadingOf(z)
    BY DEF CommandInv
  <2> QED BY <1>1, <2>1, <2>2 DEF CommandsOf, ReadingOf, FirstReadable
<1> QED BY <1>11, <1>12, <1>13 DEF CommandInv

LEMMA CommandStep ==
    ASSUME TypeInv, TypeInv', CommandInv, [Next]_vars
    PROVE  CommandInv'
<1> USE DEF netVars, pipeVars, histVars, procVars, loopVars
<1>1. CASE \/ UNCHANGED vars
           \/ CreateServer \/ CreateFails \/ SetupSignalHandlers \/ EnterLoop
           \/ RestoreSignalHandlers \/ ReleaseServers \/ Signal \/ \E s \in Socket : Connect(s)
  <2>1. UNCHANGED <<commandVars, parentPipe, proc, pc, readfds, children, reading>>
    BY <1>1 DEF vars, CreateServer, CreateFails, SetupSignalHandlers, EnterLoop,
                RestoreSignalHandlers, ReleaseServers, Signal, Connect, commandVars
  <2> QED BY <2>1, CommandKept
<1>2. CASE \/ LoopEnds \/ Reap \/ Select \/ SelectTimeout
           \/ \E s \in Socket : Refuse(s)
           \/ \E s \in Socket, p \in Pid : ForkFails(s, p)
  <2>1. UNCHANGED <<commandVars, parentPipe>> /\ pc' # "data"
    BY <1>2 DEF LoopEnds, InLoop, Reap, Select, SelectTimeout, Refuse, ForkFails, Accept,
                Handled, commandVars
  <2>2. ASSUME NEW p \in Pid  PROVE proc'[p] = "none" => proc[p] = "none"
    <3>1. DOMAIN proc = Pid
      BY DEF TypeInv, TypeOK
    <3> QED BY <1>2, <3>1 DEF LoopEnds, Reap, Select, SelectTimeout, Refuse, ForkFails
  <2> QED BY <2>1, <2>2, CommandKept
<1>3. ASSUME NEW s \in Socket, NEW p \in Pid, Fork(s, p)  PROVE CommandInv'
  BY <1>3, CommandFork
<1>4. ASSUME NEW p \in Pid, ReadShort(p) \/ ReadGarbage(p)  PROVE CommandInv'
  BY <1>4, CommandRead
<1>5. ASSUME NEW p \in Pid, ReadHeader(p)  PROVE CommandInv'
  BY <1>5, CommandReadHeader
<1>6. ASSUME NEW p \in Pid, ReadData(p)  PROVE CommandInv'
  BY <1>6, CommandReadData
<1>7. ASSUME NEW p \in Pid, PrepareChild(p) \/ ExitChild(p) \/ ShutdownCommand(p)
      PROVE  CommandInv'
  <2>1. /\ UNCHANGED <<commandVars, parentPipe, pc, readfds, children, reading>>
        /\ proc' = [proc EXCEPT ![p] = "running"] \/ proc' = [proc EXCEPT ![p] = "exited"]
    BY <1>7 DEF PrepareChild, ExitChild, ShutdownCommand, commandVars
  <2>2. \A q \in Pid : proc'[q] = "none" => proc[q] = "none"
    BY <2>1 DEF TypeInv, TypeOK
  <2> QED BY <2>1, <2>2, CommandKept
<1>8. ASSUME NEW p \in Pid, ControlCommand(p)  PROVE CommandInv'
  BY <1>8, CommandWrite
<1>9. ASSUME NEW p \in Pid, WriteBody(p)  PROVE CommandInv'
  BY <1>9, CommandBody
<1>10. ASSUME NEW p \in Pid, WriteBodyFails(p)  PROVE CommandInv'
  BY <1>10, CommandGivenUp
<1> QED
  BY <1>1, <1>2, <1>3, <1>4, <1>5, <1>6, <1>7, <1>8, <1>9, <1>10
  DEF Next, Start, ServerLoop, Stop, Child

\* Rserv.c, serverLoop: whatever the children write and however much of it a read
\* finds, also after data that was too long or was ignored, the server performs only
\* commands that were sent completely, each once and in the order of the child.
THEOREM CommandsPerformedAsSent == Spec => []PerformedAsSent
<1>1. Init => Inv /\ TypeInv /\ CommandInv
  <2>1. Init => CommandInv
    BY DEF Init, CommandInv, CommandsOf, ReadingOf, DoneIn, HeadersIn, AckedIn
  <2> QED BY <2>1, InvInit, TypeInit
<1>2. Inv /\ TypeInv /\ CommandInv /\ [Next]_vars => (Inv /\ TypeInv /\ CommandInv)'
  BY StepKeeps, TypeStep, CommandStep
<1>3. TypeInv /\ CommandInv => PerformedAsSent
  <2> SUFFICES ASSUME TypeInv, CommandInv, NEW p \in Pid, NEW i \in DOMAIN executed[p]
               PROVE  /\ \/ executed[p][i] \in acked[p]
                         \/ writing[p] = 0 /\ executed[p][i] <= Len(lens[p])
                      /\ i > 1 => executed[p][i - 1] < executed[p][i]
    BY DEF PerformedAsSent
  <2>1. executed[p] \in Seq(Nat) /\ i \in 1..Len(executed[p]) /\ Len(lens[p]) \in Nat
    BY DEF TypeInv, TypeOK
  <2>2. /\ DoneIn(executed[p], Len(lens[p]), writing[p])
        /\ AckedIn(acked[p], Len(lens[p]), writing[p], parentPipe[p])
    BY DEF CommandInv, CommandsOf
  <2>3. /\ executed[p][i] \in 1..Len(lens[p])
        /\ executed[p][i] = Len(lens[p]) => writing[p] = 0
        /\ i > 1 => executed[p][i - 1] < executed[p][i]
    BY <2>1, <2>2 DEF DoneIn
  <2>4. executed[p][i] \in acked[p] \/ writing[p] = 0
    BY <2>2, <2>3 DEF AckedIn
  <2> QED BY <2>1, <2>3, <2>4
<1> QED BY <1>1, <1>2, <1>3, PTL DEF Spec
=============================================================================
