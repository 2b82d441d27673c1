---------------------------- MODULE RServeWorker ----------------------------
(***************************************************************************)
(* An R worker: a RServeActorSupervisor, its child RServeActor, and the R  *)
(* process that Rserve forks for the child's connection.  Supervisor and   *)
(* child are actors with FIFO mailboxes of their own; the child is blocked *)
(* for as long as R evaluates or data are transferred.                     *)
(*                                                                         *)
(* Akka (external) is modelled from how the actors use it: a failed child  *)
(* keeps its mailbox, is suspended until its supervisor decides, and is    *)
(* restarted with preRestart on the old instance and postRestart on the    *)
(* new one; a supervisor that restarts first stops its child; Kill and     *)
(* PoisonPill are ordinary mailbox entries, stopping is not: it overtakes  *)
(* the mailbox, whose entries become dead letters.                         *)
(***************************************************************************)
EXTENDS Mailboxes

CONSTANTS Pid,                  \* the process ids the operating system hands out
          NoPid,                \* 0, what an Int field holds before it is assigned
          MaxChildRetries,      \* maxNrOfRetries of RServeActorSupervisor (60 a minute)
          MaxSupRetries,        \* maxNrOfRetries of RServeMaster (10 a minute)
          autoDeleteTempFiles,  \* akka.rServe.autoDeleteTempFiles
          Faults                \* what may go wrong outside of the actors

FaultKind == {"RserveDown", "RCrash", "CheckedException"}

ASSUME WorkerAssumption == /\ NoPid \notin Pid
                           /\ MaxChildRetries \in Nat
                           /\ MaxSupRetries \in Nat
                           /\ autoDeleteTempFiles \in BOOLEAN
                           /\ Faults \subseteq FaultKind

VARIABLES supState,       \* [Supervisor -> {"up", "restarting", "stopping", "stopped"}]
          supPid,         \* [Supervisor -> Pid \cup {NoPid}]: RServeActorSupervisor.pid
          supRetries,     \* [Supervisor -> Nat]: its restarts in this minute
          actState,       \* [Supervisor -> ActState]: what its RServeActor is doing
          actPid,         \* [Supervisor -> Pid \cup {NoPid}]: RServeActor.pid
          actRetries,     \* [Supervisor -> Nat]: the child's restarts in this minute
          actBox,         \* [Supervisor -> Seq(ActMessage)]: mailbox of the child
          currentMessage, \* [Supervisor -> ActMessage \cup {None}]: in the child's hands
          alive,          \* the R processes that run
          workspace,      \* [Pid -> SUBSET MsgId]: history, epochs whose data R holds
          tempFiles,      \* the files <<uuid, extension>> in localTempDir
          trusting,       \* history: epochs acknowledged, with no RException since
          jvmUp           \* the JVM that runs the actor system is alive

routeVars  == <<created, stopAsked, handled>>
clientVars == <<routeVars, answers>>
supVars    == <<supState, supPid, supRetries>>
actVars    == <<actState, actPid, actRetries, actBox, currentMessage>>
procVars   == <<alive, jvmUp>>
workerVars == <<supVars, actVars, procVars, workspace, tempFiles, trusting>>

ActMessage == RRequestMessage \cup {Kill}
SupMessage == MasterMessage \cup [type : {"PId"}, pid : Pid] \cup {RException}

\* creating, recreating: in the RConnection of preStart, of postRestart;
\* idle: waiting for a message; download, inR, upload: blocked in a handler;
\* failed, failedIO: suspended after an exception the supervisor restarts
\* from, escalates; initFailed, restartFailed: the connection failed before
\* an instance existed, in postRestart; stopped: terminated for good.
ActState == {"creating", "recreating", "idle", "download", "inR", "upload",
             "failed", "failedIO", "initFailed", "restartFailed", "stopped"}

IsRequest(m)   == m.type \in RequestKind
RequestIds(s)  == {s[i].id : i \in {j \in DOMAIN s : IsRequest(s[j])}}
CurrentIds(w)  == {m.id : m \in {m \in {currentMessage[w]} : m # None /\ IsRequest(m)}}
TempFilesOf(u) == {u} \X {"download", "upload"}

\* `kill -9 pid', run by the JVM: pid 0 is the process group of the JVM itself.
KillProcess(pid) == /\ alive' = alive \ {pid}
                    /\ jvmUp' = (jvmUp /\ pid # NoPid)

\* A message to a child that has been stopped is a dead letter.
TellChild(w, m) ==
    IF actState[w] # "stopped"
    THEN actBox' = Tell(actBox, w, m)
    ELSE UNCHANGED actBox
-----------------------------------------------------------------------------
(* RServeActorSupervisor.receive                                           *)

SupReceives(w, type) ==
    /\ supState[w] = "up"
    /\ supBox[w] # <<>>
    /\ Head(supBox[w]).type = type
    /\ supBox' = [supBox EXCEPT ![w] = Tail(@)]

PIdReceived(w) ==
    /\ SupReceives(w, "PId")
    /\ supPid' = [supPid EXCEPT ![w] = Head(supBox[w]).pid]
    /\ UNCHANGED <<clientVars, supState, supRetries, actVars, procVars, workspace,
                   tempFiles, trusting>>

\* Mutant: FinishRSession is acknowledged in the log only.
FinishIgnored(w) ==
    /\ SupReceives(w, "FinishRSession")
    /\ UNCHANGED <<clientVars, workerVars>>

\* The session's R process is killed, then the child is asked to die.
FinishReceived(w) ==
    /\ SupReceives(w, "FinishRSession")
    /\ KillProcess(supPid[w])
    /\ TellChild(w, Kill)
    /\ UNCHANGED <<clientVars, supVars, actState, actPid, actRetries, currentMessage,
                   workspace, tempFiles, trusting>>

\* The child's farewell to the supervisor that killed it is ignored.
RExceptionReceived(w) ==
    /\ SupReceives(w, "RException")
    /\ UNCHANGED <<clientVars, workerVars>>

RequestReceived(w) ==
    \E kind \in RequestKind :
        /\ SupReceives(w, kind)
        /\ TellChild(w, Head(supBox[w]))
        /\ UNCHANGED <<clientVars, supVars, actState, actPid, actRetries,
                       currentMessage, procVars, workspace, tempFiles, trusting>>

\* Mutant: a restart without a limit.
SupFailsUnlimited(w) ==
    /\ supState' = [supState EXCEPT ![w] = "restarting"]
    /\ supRetries' = [supRetries EXCEPT ![w] = @ + 1]

\* The supervisor fails; the strategy of RServeMaster restarts it, but only
\* maxNrOfRetries times a minute.
SupFails(w) ==
    IF supRetries[w] < MaxSupRetries
    THEN /\ supState' = [supState EXCEPT ![w] = "restarting"]
         /\ supRetries' = [supRetries EXCEPT ![w] = @ + 1]
    ELSE /\ supState' = [supState EXCEPT ![w] = "stopping"]
         /\ UNCHANGED supRetries

KillReceived(w) ==
    /\ SupReceives(w, "Kill")
    /\ SupFails(w)
    /\ UNCHANGED <<clientVars, supPid, actVars, procVars, workspace, tempFiles,
                   trusting>>

PoisonPillReceived(w) ==
    /\ SupReceives(w, "PoisonPill")
    /\ supState' = [supState EXCEPT ![w] = "stopping"]
    /\ UNCHANGED <<clientVars, supPid, supRetries, actVars, procVars, workspace,
                   tempFiles, trusting>>

\* context.stop of a restarting master does not wait for the mailbox.
StopReceived(w) ==
    /\ w \in stopAsked
    /\ supState[w] \in {"up", "restarting"}
    /\ supState' = [supState EXCEPT ![w] = "stopping"]
    /\ UNCHANGED <<supBox, clientVars, supPid, supRetries, actVars, procVars, workspace,
                   tempFiles, trusting>>
-----------------------------------------------------------------------------
(* Supervision of the child                                                *)

\* Mutant: no postStop.
StopChildOnly(w) ==
    /\ UNCHANGED procVars
    /\ actState' = [actState EXCEPT ![w] = "stopped"]
    /\ actBox' = [actBox EXCEPT ![w] = <<>>]
    /\ currentMessage' = [currentMessage EXCEPT ![w] = None]
    /\ actPid' = [actPid EXCEPT ![w] = NoPid]

\* postStop, when an instance exists; its mailbox goes to the dead letters.
StopChild(w) ==
    /\ IF actState[w] = "initFailed" THEN UNCHANGED procVars
                                     ELSE KillProcess(actPid[w])
    /\ actState' = [actState EXCEPT ![w] = "stopped"]
    /\ actBox' = [actBox EXCEPT ![w] = <<>>]
    /\ currentMessage' = [currentMessage EXCEPT ![w] = None]
    /\ actPid' = [actPid EXCEPT ![w] = NoPid]

\* A supervisor that restarts or stops stops its child first, and a child
\* blocked in a handler or in a connection attempt finishes that first.
ChildStops(w) ==
    /\ supState[w] \in {"restarting", "stopping"}
    /\ actState[w] \in {"idle", "failed", "failedIO", "initFailed", "restartFailed"}
    /\ StopChild(w)
    /\ UNCHANGED <<supBox, clientVars, supVars, actRetries, workspace, tempFiles,
                   trusting>>

\* The new RServeActorSupervisor instance: new fields, new child, old mailbox.
SupRestarted(w) ==
    /\ supState[w] = "restarting"
    /\ actState[w] = "stopped"
    /\ supState' = [supState EXCEPT ![w] = "up"]
    /\ supPid' = [supPid EXCEPT ![w] = NoPid]
    /\ actState' = [actState EXCEPT ![w] = "creating"]
    /\ actRetries' = [actRetries EXCEPT ![w] = 0]
    /\ UNCHANGED <<supBox, clientVars, supRetries, actPid, actBox, currentMessage,
                   procVars, workspace, tempFiles, trusting>>

\* Its mailbox, and whatever is sent to it from now on, is dead letters.
SupStopped(w) ==
    /\ \/ supState[w] = "stopping" /\ actState[w] = "stopped"
       \/ supState[w] = "stopped" /\ supBox[w] # <<>>
    /\ supState' = [supState EXCEPT ![w] = "stopped"]
    /\ supBox' = [supBox EXCEPT ![w] = <<>>]
    /\ UNCHANGED <<clientVars, supPid, supRetries, actVars, procVars, workspace,
                   tempFiles, trusting>>

\* Mutant: preRestart sends no RException.
TellNobody(w) == UNCHANGED <<supBox, answers, trusting>>

\* preRestart: the sender of the message that failed gets an RException; that
\* is the client, or the supervisor if the message was its Kill.
TellSenderOfFailure(w) ==
    LET m == currentMessage[w]
    IN  IF IsRequest(m)
        THEN /\ Answer(m.id)
             /\ trusting' = trusting \ {m.epoch}
             /\ UNCHANGED supBox
        ELSE /\ supBox' = Tell(supBox, w, RException)
             /\ UNCHANGED <<answers, trusting>>

\* The supervisor restarts the child: preRestart kills its R process, once
\* itself and once more through super.preRestart and postStop.
ChildRestarts(w) ==
    /\ supState[w] = "up"
    /\ actState[w] = "failed"
    /\ actRetries[w] < MaxChildRetries
    /\ TellSenderOfFailure(w)
    /\ KillProcess(actPid[w])
    /\ actState' = [actState EXCEPT ![w] = "recreating"]
    /\ actPid' = [actPid EXCEPT ![w] = NoPid]
    /\ currentMessage' = [currentMessage EXCEPT ![w] = None]
    /\ actRetries' = [actRetries EXCEPT ![w] = @ + 1]
    /\ UNCHANGED <<routeVars, supVars, actBox, workspace, tempFiles>>

\* A failed connection is tried again, without preRestart.
ChildReconnects(w) ==
    /\ supState[w] = "up"
    /\ actState[w] \in {"initFailed", "restartFailed"}
    /\ actRetries[w] < MaxChildRetries
    /\ actState' = [actState EXCEPT
                      ![w] = IF @ = "initFailed" THEN "creating" ELSE "recreating"]
    /\ actRetries' = [actRetries EXCEPT ![w] = @ + 1]
    /\ UNCHANGED <<supBox, clientVars, supVars, actPid, actBox, currentMessage,
                   procVars, workspace, tempFiles, trusting>>

\* Too many restarts within a minute: the child is stopped, the supervisor is not.
ChildGivenUp(w) ==
    /\ supState[w] = "up"
    /\ actState[w] \in {"failed", "initFailed", "restartFailed"}
    /\ actRetries[w] >= MaxChildRetries
    /\ StopChild(w)
    /\ UNCHANGED <<supBox, clientVars, supVars, actRetries, workspace, tempFiles,
                   trusting>>

\* `case _ => Escalate': the failure becomes the supervisor's own.
ChildEscalates(w) ==
    /\ supState[w] = "up"
    /\ actState[w] = "failedIO"
    /\ SupFails(w)
    /\ UNCHANGED <<supBox, clientVars, supPid, actVars, procVars, workspace, tempFiles,
                   trusting>>

\* withinTimeRange = 1 minute: restarts of an earlier minute are forgotten.
RetryWindowEnds(w) ==
    /\ \/ /\ actRetries[w] > 0
          /\ actRetries' = [actRetries EXCEPT ![w] = 0]
          /\ UNCHANGED supRetries
       \/ /\ supRetries[w] > 0
          /\ supRetries' = [supRetries EXCEPT ![w] = 0]
          /\ UNCHANGED actRetries
    /\ UNCHANGED <<supBox, clientVars, supState, supPid, actState, actPid, actBox,
                   currentMessage, procVars, workspace, tempFiles, trusting>>
-----------------------------------------------------------------------------
(* RServeActor: updateConnAndPid                                           *)

\* Process ids some field or message still mentions.
KnownPids ==
    {supPid[w] : w \in Supervisor} \cup {actPid[w] : w \in Supervisor}
      \cup UNION {{supBox[w][i].pid : i \in {j \in DOMAIN supBox[w] :
                                                supBox[w][j].type = "PId"}}
                  : w \in Supervisor}

\* The operating system does not hand out an id again while a stale copy of
\* it is around.
FreshPid == Pid \ (alive \cup KnownPids)

\* Mutant: the pid is kept to the child.
ConnectedSilently(w) ==
    /\ actState[w] \in {"creating", "recreating"}
    /\ \E p \in FreshPid :
          /\ alive' = alive \cup {p}
          /\ workspace' = [workspace EXCEPT ![p] = {}]
          /\ actPid' = [actPid EXCEPT ![w] = p]
    /\ actState' = [actState EXCEPT ![w] = "idle"]
    /\ UNCHANGED <<supBox, clientVars, supVars, actRetries, actBox, currentMessage,
                   tempFiles, trusting, jvmUp>>

\* Rserve forks an R process with an empty workspace for the new RConnection.
Connected(w) ==
    /\ actState[w] \in {"creating", "recreating"}
    /\ \E p \in FreshPid :
          /\ alive' = alive \cup {p}
          /\ workspace' = [workspace EXCEPT ![p] = {}]
          /\ actPid' = [actPid EXCEPT ![w] = p]
          /\ supBox' = Tell(supBox, w, PId(p))
    /\ actState' = [actState EXCEPT ![w] = "idle"]
    /\ UNCHANGED <<clientVars, supVars, actRetries, actBox, currentMessage, tempFiles,
                   trusting, jvmUp>>

ConnectFails(w) ==
    /\ "RserveDown" \in Faults
    /\ actState[w] \in {"creating", "recreating"}
    /\ actState' = [actState EXCEPT
                      ![w] = IF @ = "creating" THEN "initFailed" ELSE "restartFailed"]
    /\ UNCHANGED <<supBox, clientVars, supVars, actPid, actRetries, actBox,
                   currentMessage, procVars, workspace, tempFiles, trusting>>

\* R dies by itself: the script quits R or crashes it, the kernel kills it.
RCrashes(w) ==
    /\ "RCrash" \in Faults
    /\ actPid[w] \in alive
    /\ alive' = alive \ {actPid[w]}
    /\ UNCHANGED <<supBox, clientVars, supVars, actVars, workspace, tempFiles, trusting,
                   jvmUp>>
-----------------------------------------------------------------------------
(* RServeActor.receive                                                     *)

\* What the handler of message m does first: block, or fail at once.
FirstState(m) ==
    CASE m.type = "RAssign"                                  -> {"download", "inR"}
      [] m.type \in {"SyntaxCheckRequest", "ExecuteRRequest"} -> {"inR"}
      [] m.type \in {"OtherRRequest", "Kill"}                 -> {"failed"}

\* restDownload opens the local file before it asks for the data.
ActorReceives(w) ==
    /\ actState[w] = "idle"
    /\ actBox[w] # <<>>
    /\ LET m == Head(actBox[w])
       IN  /\ currentMessage' = [currentMessage EXCEPT ![w] = m]
           /\ \E s \in FirstState(m) :
                /\ actState' = [actState EXCEPT ![w] = s]
                /\ tempFiles' = IF s = "download"
                                THEN tempFiles \cup {<<m.uuid, "download">>}
                                ELSE tempFiles
    /\ actBox' = [actBox EXCEPT ![w] = Tail(@)]
    /\ UNCHANGED <<supBox, clientVars, supVars, actPid, actRetries, procVars, workspace,
                   trusting>>

Downloaded(w) ==
    /\ actState[w] = "download"
    /\ actState' = [actState EXCEPT ![w] = "inR"]
    /\ UNCHANGED <<supBox, clientVars, supVars, actPid, actRetries, actBox,
                   currentMessage, procVars, workspace, tempFiles, trusting>>

\* The catch blocks rethrow a RuntimeException; a close() in the finally
\* block may replace it by a checked exception.
DownloadFails(w) ==
    /\ actState[w] = "download"
    /\ \/ actState' = [actState EXCEPT ![w] = "failed"]
       \/ /\ "CheckedException" \in Faults
          /\ actState' = [actState EXCEPT ![w] = "failedIO"]
    /\ tempFiles' = IF autoDeleteTempFiles
                    THEN tempFiles \ {<<currentMessage[w].uuid, "download">>}
                    ELSE tempFiles
    /\ UNCHANGED <<supBox, clientVars, supVars, actPid, actRetries, actBox,
                   currentMessage, procVars, workspace, trusting>>

\* R holds data of the session from now on.
Taint(w) ==
    workspace' = [workspace EXCEPT ![actPid[w]] = @ \cup {currentMessage[w].epoch}]

\* The handler ends with an answer to the client.
AnswerAndIdle(w) ==
    /\ Answer(currentMessage[w].id)
    /\ actState' = [actState EXCEPT ![w] = "idle"]
    /\ currentMessage' = [currentMessage EXCEPT ![w] = None]

\* AssignAck, SyntaxCheckOK
REvalOk(w) ==
    /\ actState[w] = "inR"
    /\ actPid[w] \in alive
    /\ currentMessage[w].type \in {"RAssign", "SyntaxCheckRequest"}
    /\ Taint(w)
    /\ AnswerAndIdle(w)
    /\ trusting' = trusting \cup {currentMessage[w].epoch}
    /\ UNCHANGED <<supBox, routeVars, supVars, actPid, actRetries, actBox,
                   procVars, tempFiles>>

\* An RAssign without objects is acknowledged without a word to R.
NothingToAssign(w) ==
    /\ actState[w] = "inR"
    /\ currentMessage[w].type = "RAssign"
    /\ AnswerAndIdle(w)
    /\ UNCHANGED <<supBox, routeVars, supVars, actPid, actRetries,
                   actBox, procVars, workspace, tempFiles, trusting>>

\* processRequest returned: the script ran and wrote its output file, if it
\* has an output; what is left is the upload.
ScriptRan(w) ==
    /\ actState[w] = "inR"
    /\ actPid[w] \in alive
    /\ currentMessage[w].type = "ExecuteRRequest"
    /\ Taint(w)
    /\ actState' = [actState EXCEPT ![w] = "upload"]
    /\ \/ tempFiles' = tempFiles \cup {<<currentMessage[w].uuid, "upload">>}
       \/ UNCHANGED tempFiles
    /\ UNCHANGED <<supBox, clientVars, supVars, actPid, actRetries, actBox,
                   currentMessage, procVars, trusting>>

\* R reports an error, or is dead: RAssign and SyntaxCheckRequest throw.  The
\* assignment of rawScript is outside of the try that deletes the files.
REvalFails(w) ==
    /\ actState[w] = "inR"
    /\ currentMessage[w].type \in {"RAssign", "SyntaxCheckRequest"}
    /\ IF actPid[w] \in alive THEN Taint(w) ELSE UNCHANGED workspace
    /\ actState' = [actState EXCEPT ![w] = "failed"]
    /\ \/ /\ currentMessage[w].type = "SyntaxCheckRequest"
          /\ tempFiles' = tempFiles \ TempFilesOf(currentMessage[w].uuid)
       \/ /\ currentMessage[w].type = "RAssign" \/ actPid[w] \notin alive
          /\ UNCHANGED tempFiles
    /\ UNCHANGED <<supBox, clientVars, supVars, actPid, actRetries, actBox,
                   currentMessage, procVars, trusting>>

\* Mutant: the failure is answered and thrown.
ScriptThrows(w) ==
    /\ actState[w] = "inR"
    /\ currentMessage[w].type = "ExecuteRRequest"
    /\ Answer(currentMessage[w].id)
    /\ actState' = [actState EXCEPT ![w] = "failed"]
    /\ UNCHANGED <<supBox, routeVars, supVars, actPid, actRetries, actBox,
                   currentMessage, procVars, workspace, tempFiles, trusting>>

\* Mutant: the death of R goes unnoticed.
ScriptFailsInR(w) ==
    /\ actState[w] = "inR"
    /\ actPid[w] \in alive
    /\ currentMessage[w].type = "ExecuteRRequest"
    /\ AnswerAndIdle(w)
    /\ UNCHANGED <<supBox, routeVars, supVars, actPid, actRetries, actBox, procVars,
                   workspace, tempFiles, trusting>>

\* Mutant: no clean-up after a failure.
ScriptFailsUncleaned(w) ==
    /\ actState[w] = "inR"
    /\ currentMessage[w].type = "ExecuteRRequest"
    /\ AnswerAndIdle(w)
    /\ tempFiles' \in {tempFiles, tempFiles \cup {<<currentMessage[w].uuid, "upload">>}}
    /\ UNCHANGED <<supBox, routeVars, supVars, actPid, actRetries, actBox, procVars,
                   workspace, trusting>>

\* The Try around an ExecuteRRequest turns every failure into an RException
\* answer; the actor is not restarted, not even when its R process is dead.
ScriptFails(w) ==
    /\ actState[w] = "inR"
    /\ currentMessage[w].type = "ExecuteRRequest"
    /\ IF actPid[w] \in alive THEN Taint(w) ELSE UNCHANGED workspace
    /\ AnswerAndIdle(w)
    /\ trusting' = trusting \ {currentMessage[w].epoch}
    /\ tempFiles' \in IF autoDeleteTempFiles
                      THEN {tempFiles \ TempFilesOf(currentMessage[w].uuid)}
                      ELSE {tempFiles,
                            tempFiles \cup {<<currentMessage[w].uuid, "upload">>}}
    /\ UNCHANGED <<supBox, routeVars, supVars, actPid, actRetries, actBox,
                   procVars>>

\* RResponse after an upload or without one; RException if the upload failed.
\* A connect timeout of hadoopRestUpload deletes the upload file even if
\* autoDeleteTempFiles is off.
UploadEnds(w) ==
    /\ actState[w] = "upload"
    /\ AnswerAndIdle(w)
    /\ LET m == currentMessage[w]
       IN  \/ /\ trusting' = trusting \cup {m.epoch}
              /\ tempFiles' = IF autoDeleteTempFiles THEN tempFiles \ TempFilesOf(m.uuid)
                                                     ELSE tempFiles
           \/ /\ trusting' = trusting \ {m.epoch}
              /\ tempFiles' \in IF autoDeleteTempFiles
                                THEN {tempFiles \ TempFilesOf(m.uuid)}
                                ELSE {tempFiles, tempFiles \ {<<m.uuid, "upload">>}}
    /\ UNCHANGED <<supBox, routeVars, supVars, actPid, actRetries, actBox,
                   procVars, workspace>>
-----------------------------------------------------------------------------
WorkerInit ==
    /\ supState = [w \in Supervisor |-> "up"]
    /\ supPid = [w \in Supervisor |-> NoPid]
    /\ supRetries = [w \in Supervisor |-> 0]
    /\ actState = [w \in Supervisor |-> "creating"]
    /\ actPid = [w \in Supervisor |-> NoPid]
    /\ actRetries = [w \in Supervisor |-> 0]
    /\ actBox = [w \in Supervisor |-> <<>>]
    /\ currentMessage = [w \in Supervisor |-> None]
    /\ alive = {}
    /\ workspace = [p \in Pid |-> {}]
    /\ tempFiles = {}
    /\ trusting = {}
    /\ jvmUp = TRUE

SupervisorStep(w) ==
    \/ PIdReceived(w) \/ FinishReceived(w) \/ RExceptionReceived(w)
    \/ RequestReceived(w) \/ KillReceived(w) \/ PoisonPillReceived(w)
    \/ StopReceived(w)
    \/ ChildStops(w) \/ SupRestarted(w) \/ SupStopped(w)
    \/ ChildRestarts(w) \/ ChildReconnects(w) \/ ChildGivenUp(w) \/ ChildEscalates(w)

\* The steps of the child that depend on nothing outside the actor.
ActorStep(w) ==
    \/ ActorReceives(w)
    \/ Downloaded(w) \/ DownloadFails(w)
    \/ UploadEnds(w)

\* The steps in which the child hears from R, or from Rserve.
RStep(w) == \/ REvalOk(w) \/ NothingToAssign(w) \/ ScriptRan(w)
            \/ REvalFails(w) \/ ScriptFails(w)

ConnectStep(w) == Connected(w) \/ ConnectFails(w)

EnvironmentStep(w) == RCrashes(w) \/ RetryWindowEnds(w)

WorkerStep(w) ==
    /\ jvmUp
    /\ w \in created
    /\ \/ SupervisorStep(w) \/ ActorStep(w) \/ RStep(w)
       \/ ConnectStep(w) \/ EnvironmentStep(w)
=============================================================================
