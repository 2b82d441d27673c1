----------------------------- MODULE RConnector -----------------------------
(***************************************************************************)
(* The R server: RServeMaster with its timers, its workers, and the R      *)
(* processes.  All of them run concurrently; they meet in the mailboxes.   *)
(* When the JVM dies nothing moves any more.                               *)
(***************************************************************************)
EXTENDS RServeMaster, RServeWorker

vars == <<masterVars, supBox, workerVars, clientVars>>

Init == MasterInit /\ WorkerInit

\* A restarting master waits until every child it ever made has terminated.
MasterStep ==
    /\ jvmUp
    /\ MasterNext
    /\ ~masterUp /\ masterUp' => \A w \in created : supState[w] = "stopped"
    /\ UNCHANGED workerVars

Next == MasterStep \/ \E w \in Supervisor : WorkerStep(w) /\ UNCHANGED masterVars

Spec == Init /\ [][Next]_vars

\* Akka runs every actor that has something to do; an HTTP transfer, a script
\* and a connection attempt end some day, well or badly.  Nothing is assumed
\* of the clients, of faults, of the timers or of the retry windows.
Moves(w, step) == jvmUp /\ w \in created /\ step /\ UNCHANGED masterVars

FairSpec ==
    /\ Spec
    /\ \A w \in Supervisor :
          /\ WF_vars(Moves(w, SupervisorStep(w)))
          /\ WF_vars(Moves(w, ActorStep(w)))
          /\ WF_vars(Moves(w, RStep(w)))
          /\ WF_vars(Moves(w, ConnectStep(w)))
-----------------------------------------------------------------------------
TypeOK ==
    /\ MasterTypeOK
    /\ supBox \in [Supervisor -> Seq(SupMessage)]
    /\ supState \in [Supervisor -> {"up", "restarting", "stopping", "stopped"}]
    /\ supPid \in [Supervisor -> Pid \cup {NoPid}]
    /\ supRetries \in [Supervisor -> 0..MaxSupRetries]
    /\ actState \in [Supervisor -> ActState]
    /\ actPid \in [Supervisor -> Pid \cup {NoPid}]
    /\ actRetries \in [Supervisor -> 0..MaxChildRetries]
    /\ actBox \in [Supervisor -> Seq(ActMessage)]
    /\ currentMessage \in [Supervisor -> ActMessage \cup {None}]
    /\ alive \subseteq Pid
    /\ workspace \in [Pid -> SUBSET MsgId]
    /\ tempFiles \subseteq UUID \X {"download", "upload"}
    /\ trusting \subseteq MsgId
    /\ jvmUp \in BOOLEAN

\* No R process ever holds data of two sessions, so that one client's script
\* cannot see what another client assigned: the reason why RServeActorSupervisor
\* kills R and the child on FinishRSession, and the master kills the worker
\* on Terminated.
Isolation == \A p \in alive : Cardinality(workspace[p]) <= 1

\* Every R process that runs belongs to the actor that will kill it: preRestart
\* and postStop forget no process.
NoOrphanR == \A p \in alive : \E w \in created : actPid[w] = p

\* What the supervisor will believe to be the pid of R, after all the PId
\* messages in its mailbox.
LastPid(w) ==
    LET said == {i \in DOMAIN supBox[w] : supBox[w][i].type = "PId"}
    IN  IF said = {} THEN supPid[w]
        ELSE supBox[w][CHOOSE i \in said : \A j \in said : j <= i].pid

\* The supervisor's copy of the pid lags behind the child's but never loses it,
\* over any restarts of either: a kill on FinishRSession then hits the right R.
PidTracked == \A w \in created : actPid[w] # NoPid => LastPid(w) = actPid[w]

\* A client whose requests were all acknowledged, and who was not told of an
\* exception since, finds its data in R: R is never replaced behind its back.
NoSilentLoss ==
    \A w \in created :
        /\ actState[w] = "inR"
        /\ actPid[w] \in alive
        /\ currentMessage[w].epoch \in trusting
        => currentMessage[w].epoch \in workspace[actPid[w]]

\* The requests that worker w holds, in a mailbox or in its hands.
Held(w) == RequestIds(supBox[w]) \cup RequestIds(actBox[w]) \cup CurrentIds(w)
InFlight == UNION {Held(w) : w \in Supervisor}

\* No request is answered twice, and none is answered while a worker still
\* has it: an RException from preRestart is the only answer to a request that
\* made the child fail.
AnsweredOnce ==
    \A id \in MsgId : answers[id] <= 1 /\ (id \in InFlight => answers[id] = 0)

\* A request leaves its worker by being answered in that very step, or because
\* the child has been stopped for good: restarts of the child lose no request,
\* neither the one that failed nor those that wait.
NoRequestLost ==
    [][\A w \in Supervisor : \A id \in Held(w) \ Held(w)' :
          answers'[id] = 1 \/ actState'[w] = "stopped"]_vars

\* Every routed request leaves its worker: no order of failures, restarts and
\* kills leaves it in a mailbox that nobody reads.
RequestServed ==
    \A id \in MsgId : id \in InFlight ~> id \notin InFlight \/ ~jvmUp

\* With autoDeleteTempFiles, an upload file exists only while its worker is
\* uploading it.
UploadsDeleted ==
    autoDeleteTempFiles =>
        \A u \in UUID : <<u, "upload">> \in tempFiles =>
            \E w \in created : actState[w] = "upload" /\ currentMessage[w].uuid = u
-----------------------------------------------------------------------------
(* What comments of the code say, and the code does not do.                *)

\* "Received request to finish R session. Killing R process": when the
\* supervisor has handled FinishRSession, the session's R does not run.
FinishKillsR ==
    [][\A w \in Supervisor :
          SupReceives(w, "FinishRSession") /\ jvmUp' => actPid[w] \notin alive']_vars
=============================================================================
