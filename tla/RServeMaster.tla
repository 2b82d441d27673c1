---------------------------- MODULE RServeMaster ----------------------------
(***************************************************************************)
(* RServeMaster routes the messages of the remote clients to R workers and *)
(* keeps the sessions sticky.  Its handlers run one at a time on the actor *)
(* thread; the session timers run on java.util.Timer threads of their own  *)
(* and read and write the very same rWorkerSessionMap, unsynchronised.     *)
(*                                                                         *)
(* A session map is a total function; None stands for an absent key.       *)
(* rServeRouter = {} is scala's None: the router has been stopped.         *)
(***************************************************************************)
EXTENDS Mailboxes

CONSTANTS Client,      \* the remote ActorRefs that send to the master
          NumRoutees,  \* akka.rServe.numActors
          MaxTimeouts, \* bound: session timers that run out
          Races        \* what of the actor thread a timer's remove may overlap

ASSUME MasterAssumption == /\ NumRoutees \in Nat \ {0}
                           /\ MaxTimeouts \in Nat
                           /\ Races \subseteq {"lookup", "write"}
                           /\ None \notin Client
                           /\ IsFiniteSet(Supervisor)

VARIABLES masterUp,               \* FALSE while Akka restarts the master
          rServeRouter,           \* the ActorRefs of the current router
          rWorkerSessionMap,      \* [UUID -> Supervisor \cup {None}]
          remoteClientSessionMap, \* [UUID -> Client \cup {None}]
          watched,                \* the remote actors under death watch
          timers,                 \* the java.util.Timers whose task has not ended
          timeouts,               \* how many of them have run out so far
          bindEpoch               \* history: [UUID -> the message that last bound it]

masterVars == <<masterUp, rServeRouter, rWorkerSessionMap, remoteClientSessionMap,
                watched, timers, timeouts, bindEpoch>>
sharedVars == <<supBox, created, stopAsked, handled, answers>>

\* One Timer per binding.  `sleeping': its task has sent FinishRSession and is
\* inside Thread.sleep(5000), before the remove.
Timer == [uuid : UUID, epoch : MsgId, sleeping : BOOLEAN]

Bound(u)     == rWorkerSessionMap[u] # None
BoundUUIDs   == {u \in UUID : Bound(u)}
BoundWorkers == {rWorkerSessionMap[u] : u \in BoundUUIDs}

\* Mutant: the workers in use are not subtracted.
allActors == rServeRouter

availableActors == rServeRouter \ BoundWorkers

\* Mutant: the sessions are counted in the other map.
FreeRWorkerCountByClient ==
    NumRoutees - Cardinality({u \in UUID : remoteClientSessionMap[u] # None})

\* The number the master answers to GetFreeRWorkerCount with.
FreeRWorkerCount == NumRoutees - Cardinality(BoundUUIDs)

\* The refs that createRServeRouter may be handed: actorOf never reuses one.
FreshRouters ==
    {ws \in SUBSET (Supervisor \ created) : Cardinality(ws) = NumRoutees}

\* The next client message is the handled'-th one.
ReceiveFromClient == /\ masterUp
                     /\ handled < MaxMsgs
                     /\ handled' = handled + 1

thisMsg == handled + 1
-----------------------------------------------------------------------------
(* The unsynchronised session map.  A write of the actor thread happens     *)
(* alone, or (Races) while a sleeping timer wakes up and removes its        *)
(* UUID from the same bucket of the scala.collection.mutable.HashMap: then  *)
(* both writes land, or the timer's is lost, or one entry that the actor    *)
(* thread wrote is lost.                                                    *)

RaceOutcomes(new, u) ==
    {new} \cup {[new EXCEPT ![u] = None, ![x] = rWorkerSessionMap[x]] : x \in UUID \ {u}}
          \cup {[new EXCEPT ![u] = None]}

WakingTimers(race) == {t \in timers : race \in Races /\ t.sleeping}

\* The actor thread makes the map `new' and starts the timers in `added'.
WriteSessionMap(new, added) ==
    \/ /\ rWorkerSessionMap' = new
       /\ timers' = timers \cup added
    \/ \E t \in WakingTimers("write") :
          /\ new # rWorkerSessionMap
          /\ rWorkerSessionMap' \in RaceOutcomes(new, t.uuid)
          /\ timers' = (timers \ {t}) \cup added
-----------------------------------------------------------------------------
\* resolveActor finds the worker of a bound session: nothing changes.
ResolveBound(u, w) ==
    /\ rWorkerSessionMap[u] = w
    /\ w # None
    /\ UNCHANGED masterVars

\* Mutant: the remote actor is not watched.
ResolveUnwatched(u, c, w) ==
    /\ ~Bound(u)
    /\ w \in availableActors
    /\ WriteSessionMap([rWorkerSessionMap EXCEPT ![u] = w],
                       {[uuid |-> u, epoch |-> thisMsg, sleeping |-> FALSE]})
    /\ remoteClientSessionMap' = [remoteClientSessionMap EXCEPT ![u] = c]
    /\ bindEpoch' = [bindEpoch EXCEPT ![u] = thisMsg]
    /\ UNCHANGED <<masterUp, rServeRouter, watched, timeouts>>

\* resolveActor binds a session without a worker to any available one.
ResolveUnused(u, c, w) ==
    /\ ~Bound(u)
    /\ w \in availableActors
    /\ WriteSessionMap([rWorkerSessionMap EXCEPT ![u] = w],
                       {[uuid |-> u, epoch |-> thisMsg, sleeping |-> FALSE]})
    /\ remoteClientSessionMap' = [remoteClientSessionMap EXCEPT ![u] = c]
    /\ watched' = watched \cup {c}
    /\ bindEpoch' = [bindEpoch EXCEPT ![u] = thisMsg]
    /\ UNCHANGED <<masterUp, rServeRouter, timeouts>>

\* resolveActor(u, c) = Some(w)
ResolveActor(u, c, w) == ResolveBound(u, w) \/ ResolveUnused(u, c, w)

\* resolveActor(u, c) = None
NoActorFor(u) == ~Bound(u) /\ availableActors = {}

(* The handlers of receive, one action for each message.                    *)

\* Mutant: the workers are watched in place of the client.
RegisterWorkers(c) ==
    /\ ReceiveFromClient
    /\ watched' = watched \cup rServeRouter
    /\ Answer(thisMsg)
    /\ UNCHANGED <<masterUp, rServeRouter, rWorkerSessionMap, remoteClientSessionMap,
                   timers, timeouts, bindEpoch, supBox, created, stopAsked>>

RegisterRemoteActor(c) ==
    /\ ReceiveFromClient
    /\ watched' = watched \cup {c}
    /\ Answer(thisMsg)
    /\ UNCHANGED <<masterUp, rServeRouter, rWorkerSessionMap, remoteClientSessionMap,
                   timers, timeouts, bindEpoch, supBox, created, stopAsked>>

\* Asking for an available worker binds one.
IsRActorAvailable(c, u) ==
    /\ ReceiveFromClient
    /\ \/ \E w \in Supervisor : ResolveActor(u, c, w)
       \/ NoActorFor(u) /\ UNCHANGED masterVars
    /\ Answer(thisMsg)
    /\ UNCHANGED <<supBox, created, stopAsked>>

\* RRequest and RAssign are routed alike; the worker answers, not the master.
RouteRequest(c, u, kind) ==
    /\ ReceiveFromClient
    /\ \/ /\ \E w \in Supervisor :
                /\ ResolveActor(u, c, w)
                /\ supBox' = Tell(supBox, w,
                                  RRequest(kind, u, thisMsg,
                                           IF Bound(u) THEN bindEpoch[u] ELSE thisMsg))
          /\ UNCHANGED answers
       \/ /\ NoActorFor(u)
          /\ Answer(thisMsg)
          /\ UNCHANGED <<masterVars, supBox>>
    /\ UNCHANGED <<created, stopAsked>>

\* Mutant: the session is unbound, its worker not told.
UnbindOnly(u) ==
    /\ ReceiveFromClient
    /\ WriteSessionMap([rWorkerSessionMap EXCEPT ![u] = None], {})
    /\ UNCHANGED <<masterUp, rServeRouter, remoteClientSessionMap, watched, timeouts,
                   bindEpoch, supBox, created, stopAsked, answers>>

FinishRSessionReceived(u) ==
    /\ ReceiveFromClient
    /\ supBox' = IF Bound(u)
                 THEN Tell(supBox, rWorkerSessionMap[u], FinishRSession(u))
                 ELSE supBox
    /\ WriteSessionMap([rWorkerSessionMap EXCEPT ![u] = None], {})
    /\ UNCHANGED <<masterUp, rServeRouter, remoteClientSessionMap, watched, timeouts,
                   bindEpoch, created, stopAsked, answers>>

RStart ==
    /\ ReceiveFromClient
    /\ \/ /\ rServeRouter = {}
          /\ \E ws \in FreshRouters :
                /\ rServeRouter' = ws
                /\ created' = created \cup ws
       \/ /\ rServeRouter # {}
          /\ UNCHANGED <<rServeRouter, created>>
    /\ Answer(thisMsg)
    /\ UNCHANGED <<masterUp, rWorkerSessionMap, remoteClientSessionMap, watched,
                   timers, timeouts, bindEpoch, supBox, stopAsked>>

\* Mutant: rWorkerSessionMap is not cleared.
RStopKeepsSessions ==
    /\ ReceiveFromClient
    /\ supBox' = [w \in Supervisor |->
                    IF w \in rServeRouter THEN Append(supBox[w], PoisonPill)
                                          ELSE supBox[w]]
    /\ rServeRouter' = {}
    /\ Answer(thisMsg)
    /\ UNCHANGED <<masterUp, rWorkerSessionMap, remoteClientSessionMap, watched, timers,
                   timeouts, bindEpoch, created, stopAsked>>

\* remoteClientSessionMap is left as it is.
RStop ==
    /\ ReceiveFromClient
    /\ supBox' = [w \in Supervisor |->
                    IF w \in rServeRouter THEN Append(supBox[w], PoisonPill)
                                          ELSE supBox[w]]
    /\ rServeRouter' = {}
    /\ WriteSessionMap([u \in UUID |-> None], {})
    /\ Answer(thisMsg)
    /\ UNCHANGED <<masterUp, remoteClientSessionMap, watched, timeouts, bindEpoch,
                   created, stopAsked>>

\* Death watch reports that c is gone: every session of every client ends.
Terminated(c) ==
    LET ended == {u \in UUID : remoteClientSessionMap[u] # None}
    IN  /\ masterUp
        /\ c \in watched
        /\ watched' = watched \ {c}
        /\ supBox' = [w \in Supervisor |->
                        IF \E u \in ended : rWorkerSessionMap[u] = w
                        THEN Append(supBox[w], Kill) ELSE supBox[w]]
        /\ WriteSessionMap([u \in UUID |-> IF u \in ended THEN None
                                           ELSE rWorkerSessionMap[u]], {})
        /\ remoteClientSessionMap' = [u \in UUID |-> None]
        /\ UNCHANGED <<masterUp, rServeRouter, timeouts, bindEpoch, created, stopAsked,
                       handled, answers>>
-----------------------------------------------------------------------------
(* resolveActor asks contains(uuid) and then applies the map to uuid.  If a  *)
(* timer removes the key in between, the handler throws a                    *)
(* NoSuchElementException and Akka restarts the master: every worker is      *)
(* stopped and, once all of them have ended, a new instance with empty maps  *)
(* and a new router takes over.  The timers keep the map of the old          *)
(* instance, so that they are without effect from then on.                   *)

LookupFails(u) ==
    /\ ReceiveFromClient
    /\ Bound(u)
    /\ \E t \in WakingTimers("lookup") : t.uuid = u
    /\ masterUp' = FALSE
    /\ stopAsked' = created
    /\ rServeRouter' = {}
    /\ rWorkerSessionMap' = [v \in UUID |-> None]
    /\ remoteClientSessionMap' = [v \in UUID |-> None]
    /\ timers' = {}
    /\ UNCHANGED <<watched, timeouts, bindEpoch, supBox, created, answers>>

MasterRestarted ==
    /\ ~masterUp
    /\ masterUp' = TRUE
    /\ \E ws \in FreshRouters :
          /\ rServeRouter' = ws
          /\ created' = created \cup ws
    /\ UNCHANGED <<rWorkerSessionMap, remoteClientSessionMap, watched, timers, timeouts,
                   bindEpoch, supBox, stopAsked, handled, answers>>
-----------------------------------------------------------------------------
(* The timer thread of one binding.  The Timer is never cancelled.          *)

\* The session is too old: whoever holds its UUID now is told to finish it.
TimerRunsOut(t) ==
    /\ ~t.sleeping
    /\ timeouts < MaxTimeouts
    /\ timeouts' = timeouts + 1
    /\ timers' = (timers \ {t}) \cup {[t EXCEPT !.sleeping = TRUE]}
    /\ supBox' = IF Bound(t.uuid)
                 THEN Tell(supBox, rWorkerSessionMap[t.uuid], FinishRSession(t.uuid))
                 ELSE supBox
    /\ UNCHANGED <<masterUp, rServeRouter, rWorkerSessionMap, remoteClientSessionMap,
                   watched, bindEpoch, created, stopAsked, handled, answers>>

\* Mutant: the timer's task ends with its message.
TimerForgets(t) ==
    /\ t.sleeping
    /\ timers' = timers \ {t}
    /\ UNCHANGED <<masterUp, rServeRouter, rWorkerSessionMap, remoteClientSessionMap,
                   watched, timeouts, bindEpoch, sharedVars>>

\* ... and five seconds later its binding is removed.
TimerUnbinds(t) ==
    /\ t.sleeping
    /\ timers' = timers \ {t}
    /\ rWorkerSessionMap' = [rWorkerSessionMap EXCEPT ![t.uuid] = None]
    /\ UNCHANGED <<masterUp, rServeRouter, remoteClientSessionMap, watched, timeouts,
                   bindEpoch, sharedVars>>
-----------------------------------------------------------------------------
MasterInit ==
    /\ masterUp = TRUE
    /\ stopAsked = {}
    /\ rServeRouter \in {ws \in SUBSET Supervisor : Cardinality(ws) = NumRoutees}
    /\ created = rServeRouter
    /\ rWorkerSessionMap = [u \in UUID |-> None]
    /\ remoteClientSessionMap = [u \in UUID |-> None]
    /\ watched = {}
    /\ timers = {}
    /\ timeouts = 0
    /\ bindEpoch = [u \in UUID |-> 0]
    /\ supBox = [w \in Supervisor |-> <<>>]
    /\ handled = 0
    /\ answers = [id \in MsgId |-> 0]

TimerStep == \E t \in timers : TimerRunsOut(t) \/ TimerUnbinds(t)

MasterNext ==
    \/ \E c \in Client : RegisterRemoteActor(c)
    \/ \E c \in Client : Terminated(c)
    \/ \E c \in Client, u \in UUID : IsRActorAvailable(c, u)
    \/ \E c \in Client, u \in UUID, kind \in ClientKinds : RouteRequest(c, u, kind)
    \/ \E u \in UUID : FinishRSessionReceived(u)
    \/ RStart
    \/ RStop
    \/ \E u \in UUID : LookupFails(u)
    \/ MasterRestarted
    \/ TimerStep

mvars == <<masterVars, sharedVars>>

MasterSpec == MasterInit /\ [][MasterNext]_mvars

\* The thread of a java.util.Timer waits for its time, sleeps and ends.
TimerThread(u, e) ==
    \E t \in timers : /\ t.uuid = u /\ t.epoch = e
                      /\ TimerRunsOut(t) \/ TimerUnbinds(t)

FairMasterSpec ==
    MasterSpec /\ \A u \in UUID, e \in MsgId : WF_mvars(TimerThread(u, e))
-----------------------------------------------------------------------------
MasterTypeOK ==
    /\ masterUp \in BOOLEAN
    /\ rServeRouter \subseteq created
    /\ created \subseteq Supervisor
    /\ stopAsked \subseteq created
    /\ rWorkerSessionMap \in [UUID -> Supervisor \cup {None}]
    /\ remoteClientSessionMap \in [UUID -> Client \cup {None}]
    /\ watched \subseteq Client
    /\ timers \subseteq Timer
    /\ timeouts \in 0..MaxTimeouts
    /\ bindEpoch \in [UUID -> MsgId \cup {0}]
    /\ handled \in 0..MaxMsgs
    /\ answers \in [MsgId -> Nat]

\* No two sessions are ever bound to one worker, whatever the timers do: the
\* load balancing of resolveActor never shares an R process.
OneSessionPerWorker ==
    \A u, v \in BoundUUIDs : rWorkerSessionMap[u] = rWorkerSessionMap[v] => u = v

\* A bound session is bound to a worker of the current router, never to one
\* that an earlier RStop or restart has stopped: its messages have a reader.
BoundToRouter == BoundWorkers \subseteq rServeRouter

\* The client that opened a bound session is under death watch, so that its
\* death ends the session.
WatchedWhileBound == \A u \in BoundUUIDs : remoteClientSessionMap[u] \in watched

\* A bound session has the timer that its own binding started: no session can
\* hold a worker for ever.
TimedWhileBound ==
    \A u \in BoundUUIDs :
        \E t \in timers : t.uuid = u /\ t.epoch = bindEpoch[u]

\* While there is a router, the number that GetFreeRWorkerCount is answered
\* with is the number of workers that resolveActor can still hand out.
FreeCountExact ==
    rServeRouter # {} => FreeRWorkerCount = Cardinality(availableActors)

EndsSession(m) == m.type \in {"FinishRSession", "Kill", "PoisonPill"}

\* As long as no timer has run out, the requests of two sessions in the mailbox
\* of one worker are separated by a message that ends the first session's R.
\* (A timer leaves the session bound for five seconds after its message: what
\* is sent in that time follows the FinishRSession.)
CleanHandover ==
    timeouts = 0 =>
      \A w \in Supervisor : \A i, j \in DOMAIN supBox[w] :
          /\ i < j
          /\ supBox[w][i].type \in RequestKind
          /\ supBox[w][j].type \in RequestKind
          /\ supBox[w][i].epoch # supBox[w][j].epoch
          => \E k \in i..j : EndsSession(supBox[w][k])

\* Every binding ends, whether or not anybody sends FinishRSession: a client
\* that forgets its session blocks a worker for a bounded time only.
SessionReleased ==
    \A u \in UUID, e \in MsgId :
        (Bound(u) /\ bindEpoch[u] = e) ~> ~(Bound(u) /\ bindEpoch[u] = e)

\* The master is a pool of workers lent to sessions.
Pool == INSTANCE SessionPool WITH Session <- UUID, Worker <- Supervisor,
                                  NoWorker <- None, lent <- rWorkerSessionMap,
                                  pool <- rServeRouter

\* Every step of a handler or of a timer lends a free worker to one session,
\* ends sessions, or closes or opens the pool: no step takes a worker away
\* from a session to give it to another, or moves a session to another worker.
ImplementsPool == Pool!PoolSpec
=============================================================================
