-------------------------- MODULE RConnector_proofs --------------------------
(***************************************************************************)
(* What holds of the whole R server for any number of sessions, workers,   *)
(* processes, messages and restarts, data races with the timers included.  *)
(***************************************************************************)
EXTENDS RConnector, RServeMaster_proofs

\* The states in which the child has no message in its hands, and those in which
\* it has no R process.
AtRest      == {"creating", "recreating", "idle", "initFailed", "restartFailed", "stopped"}
Unconnected == {"creating", "recreating", "initFailed", "restartFailed", "stopped"}

WorkerTypeOK ==
    /\ supBox \in [Supervisor -> Seq(SupMessage)]
    /\ supState \in [Supervisor -> {"up", "restarting", "stopping", "stopped"}]
    /\ supPid \in [Supervisor -> Pid \cup {NoPid}]
    /\ supRetries \in [Supervisor -> 0..MaxSupRetries]
    /\ actState \in [Supervisor -> ActState]
    /\ actPid \in [Supervisor -> Pid \cup {NoPid}]
    /\ actRetries \in [Supervisor -> 0..MaxChildRetries]
    /\ actBox \in [Supervisor -> Seq(ActMessage)]
    /\ currentMessage \in [Supervisor -> ActMessage \cup {None}]
    /\ alive \subseteq Pid
    /\ workspace \in [Pid -> SUBSET MsgId]
    /\ tempFiles \subseteq UUID \X {"download", "upload"}
    /\ trusting \subseteq MsgId
    /\ jvmUp \in BOOLEAN

\* What the child of w holds, by what it is doing.
ChildSound(w) ==
    /\ actState[w] \in AtRest => currentMessage[w] = None
    /\ actState[w] \in {"download", "inR", "upload", "failedIO"}
         => currentMessage[w] \in RRequestMessage
    /\ actState[w] = "failed" => currentMessage[w] \in ActMessage
    /\ actState[w] \in Unconnected <=> actPid[w] = NoPid
    /\ supState[w] = "stopped" => actState[w] = "stopped"

SoundInv == MasterTypeOK /\ BoundHasEpoch /\ WorkerTypeOK /\ \A w \in Supervisor : ChildSound(w)

\* The parts of the state that belong to one worker.
Frame(v) ==
    /\ supBox'[v] = supBox[v]
    /\ supState'[v] = supState[v]
    /\ supPid'[v] = supPid[v]
    /\ actState'[v] = actState[v]
    /\ actPid'[v] = actPid[v]
    /\ actBox'[v] = actBox[v]
    /\ currentMessage'[v] = currentMessage[v]

\* A worker's step is its own affair.
LEMMA WorkerFrame ==
    ASSUME WorkerTypeOK, NEW w \in Supervisor, WorkerStep(w), NEW v \in Supervisor, v # w
    PROVE  Frame(v)
<1> USE DEF WorkerTypeOK, Frame, clientVars, routeVars, supVars, actVars, procVars, workerVars
<1>1. ASSUME SupervisorStep(w) PROVE Frame(v)
    BY <1>1 DEF SupervisorStep, PIdReceived, FinishReceived, RExceptionReceived,
        RequestReceived, KillReceived, PoisonPillReceived, StopReceived, ChildStops,
        SupRestarted, SupStopped, ChildRestarts, ChildReconnects, ChildGivenUp,
        ChildEscalates, SupReceives, TellChild, Tell, SupFails, StopChild,
        TellSenderOfFailure, KillProcess
<1>2. ASSUME ActorStep(w) PROVE Frame(v)
    BY <1>2 DEF ActorStep, ActorReceives, Downloaded, DownloadFails, UploadEnds, AnswerAndIdle
<1>3. ASSUME RStep(w) PROVE Frame(v)
    BY <1>3 DEF RStep, REvalOk, NothingToAssign, ScriptRan, REvalFails, ScriptFails,
        AnswerAndIdle
<1>4. ASSUME ConnectStep(w) PROVE Frame(v)
    BY <1>4 DEF ConnectStep, Connected, ConnectFails, Tell
<1>5. ASSUME EnvironmentStep(w) PROVE Frame(v)
    BY <1>5 DEF EnvironmentStep, RCrashes, RetryWindowEnds
<1> QED BY <1>1, <1>2, <1>3, <1>4, <1>5 DEF WorkerStep

\* Which messages there are
LEMMA SupMessages ==
    /\ \A m \in SupMessage : m.type \in RequestKind => m \in RRequestMessage
    /\ \A m \in SupMessage : m.type = "PId" => m.pid \in Pid
    /\ RException \in SupMessage
    /\ \A p \in Pid : PId(p) \in SupMessage /\ PId(p).type = "PId" /\ PId(p).pid = p
    /\ MasterMessage \subseteq SupMessage
<1>1. \A m \in SupMessage : \/ m \in RRequestMessage \/ m \in FinishMessage
                            \/ m \in [type : {"PId"}, pid : Pid]
                            \/ m \in {Kill, PoisonPill, RException}
    BY DEF SupMessage, MasterMessage
<1>2. \A m \in SupMessage : m.type \in RequestKind => m \in RRequestMessage
    BY <1>1 DEF RequestKind, FinishMessage, Kill, PoisonPill, RException
<1>3. \A m \in SupMessage : m.type = "PId" => m.pid \in Pid
    BY <1>1 DEF RRequestMessage, RequestKind, FinishMessage, Kill, PoisonPill, RException
<1>4. \A p \in Pid : PId(p) \in [type : {"PId"}, pid : Pid]
    BY DEF PId
<1>5. \A p \in Pid : PId(p).type = "PId" /\ PId(p).pid = p
    BY DEF PId
<1> QED BY <1>2, <1>3, <1>4, <1>5 DEF SupMessage

LEMMA ActMessages ==
    /\ \A m \in RRequestMessage : /\ m \in ActMessage /\ m # None /\ IsRequest(m)
                                  /\ m.id \in MsgId /\ m.epoch \in MsgId /\ m.uuid \in UUID
    /\ \A m \in ActMessage : IsRequest(m) => m \in RRequestMessage
    /\ Kill \in ActMessage /\ ~IsRequest(Kill) /\ None \notin ActMessage
<1>1. \A m \in RRequestMessage : m.type \in RequestKind
    BY DEF RRequestMessage
<1>2. \A m \in RRequestMessage : m.id \in MsgId /\ m.epoch \in MsgId /\ m.uuid \in UUID
    BY DEF RRequestMessage
<1>3. ~IsRequest(Kill)
    BY DEF IsRequest, Kill, RequestKind
<1>4. \A m \in ActMessage : IsRequest(m) => m \in RRequestMessage
    BY <1>3 DEF ActMessage
<1>5. Kill \in ActMessage /\ None \notin ActMessage /\ RRequestMessage \subseteq ActMessage
    BY NoneIsNoMessage DEF ActMessage, MasterMessage
<1> QED BY <1>1, <1>2, <1>3, <1>4, <1>5 DEF IsRequest

\* The mailbox of a supervisor that receives a message
LEMMA Received ==
    ASSUME WorkerTypeOK, NEW w \in Supervisor, NEW type, SupReceives(w, type)
    PROVE  /\ supBox' \in [Supervisor -> Seq(SupMessage)]
           /\ Head(supBox[w]) \in SupMessage
           /\ Head(supBox[w]).type = type
           /\ supBox[w] \in Seq(SupMessage) /\ supBox[w] # <<>>
           /\ supBox'[w] = Tail(supBox[w])
<1>1. supBox[w] \in Seq(SupMessage) /\ supBox[w] # <<>>
    BY DEF WorkerTypeOK, SupReceives
<1>2. Head(supBox[w]) \in SupMessage /\ Tail(supBox[w]) \in Seq(SupMessage)
    BY <1>1, HeadTailProperties
<1> QED BY <1>1, <1>2 DEF WorkerTypeOK, SupReceives

LEMMA TellType ==
    ASSUME NEW S, NEW box \in [Supervisor -> Seq(S)], NEW w \in Supervisor, NEW m \in S
    PROVE  /\ Tell(box, w, m) \in [Supervisor -> Seq(S)]
           /\ Tell(box, w, m)[w] = Append(box[w], m)
<1>1. Append(box[w], m) \in Seq(S)
    BY AppendProperties
<1> QED BY <1>1 DEF Tell

LEMMA TellChildType ==
    ASSUME WorkerTypeOK, NEW w \in Supervisor, NEW m \in ActMessage, TellChild(w, m)
    PROVE  /\ actBox' \in [Supervisor -> Seq(ActMessage)]
           /\ \/ actState[w] # "stopped" /\ actBox'[w] = Append(actBox[w], m)
              \/ actState[w] = "stopped" /\ actBox'[w] = actBox[w]
<1>1. actBox \in [Supervisor -> Seq(ActMessage)]
    BY DEF WorkerTypeOK
<1>2. CASE actState[w] # "stopped"
    BY <1>1, <1>2, TellType DEF TellChild
<1>3. CASE actState[w] = "stopped"
    BY <1>1, <1>3 DEF TellChild
<1> QED BY <1>2, <1>3

LEMMA KillType ==
    ASSUME NEW pid, KillProcess(pid)
    PROVE  alive' = alive \ {pid} /\ jvmUp' \in BOOLEAN
BY DEF KillProcess

LEMMA StopChildType ==
    ASSUME WorkerTypeOK, NEW w \in Supervisor, StopChild(w)
    PROVE  /\ actState' \in [Supervisor -> ActState] /\ actState'[w] = "stopped"
           /\ actBox' \in [Supervisor -> Seq(ActMessage)] /\ actBox'[w] = <<>>
           /\ currentMessage' \in [Supervisor -> ActMessage \cup {None}]
           /\ currentMessage'[w] = None
           /\ actPid' \in [Supervisor -> Pid \cup {NoPid}] /\ actPid'[w] = NoPid
           /\ alive' \subseteq alive /\ jvmUp' \in BOOLEAN
<1>1. alive' \subseteq alive /\ jvmUp' \in BOOLEAN
    <2>1. CASE actState[w] = "initFailed"
        BY <2>1 DEF StopChild, procVars, WorkerTypeOK
    <2>2. CASE actState[w] # "initFailed"
        BY <2>2, KillType DEF StopChild
    <2> QED BY <2>1, <2>2
<1> QED BY <1>1 DEF StopChild, WorkerTypeOK, ActState

LEMMA SupFailsType ==
    ASSUME WorkerTypeOK, NEW w \in Supervisor, SupFails(w)
    PROVE  /\ supState' \in [Supervisor -> {"up", "restarting", "stopping", "stopped"}]
           /\ supState'[w] \in {"restarting", "stopping"}
           /\ supRetries' \in [Supervisor -> 0..MaxSupRetries]
<1>1. CASE supRetries[w] < MaxSupRetries
    <2>1. supRetries[w] + 1 \in 0..MaxSupRetries
        BY <1>1, WorkerAssumption DEF WorkerTypeOK
    <2> QED BY <1>1, <2>1 DEF SupFails, WorkerTypeOK
<1>2. CASE ~(supRetries[w] < MaxSupRetries)
    BY <1>2 DEF SupFails, WorkerTypeOK
<1> QED BY <1>1, <1>2

\* A step of worker w may change these types.
LEMMA SupervisorType ==
    ASSUME SoundInv, NEW w \in Supervisor, SupervisorStep(w)
    PROVE  WorkerTypeOK' /\ answers' \in [MsgId -> Nat] /\ UNCHANGED routeVars
<1> DEFINE Goal == WorkerTypeOK' /\ answers' \in [MsgId -> Nat] /\ UNCHANGED routeVars
<1> USE WorkerAssumption DEF clientVars, routeVars, supVars, actVars, procVars, workerVars
<1>0. WorkerTypeOK /\ ChildSound(w) /\ answers \in [MsgId -> Nat]
    BY DEF SoundInv, MasterTypeOK
<1>1. ASSUME PIdReceived(w) PROVE Goal
    BY <1>0, <1>1, Received, SupMessages DEF PIdReceived, WorkerTypeOK
<1>2. ASSUME FinishReceived(w) PROVE Goal
    <2>1. supBox' \in [Supervisor -> Seq(SupMessage)]
        BY <1>0, <1>2, Received DEF FinishReceived
    <2>2. actBox' \in [Supervisor -> Seq(ActMessage)]
        BY <1>0, <1>2, TellChildType, ActMessages DEF FinishReceived
    <2> QED BY <1>0, <1>2, <2>1, <2>2 DEF FinishReceived, KillProcess, WorkerTypeOK
<1>3. ASSUME RExceptionReceived(w) PROVE Goal
    BY <1>0, <1>3, Received DEF RExceptionReceived, WorkerTypeOK
<1>4. ASSUME RequestReceived(w) PROVE Goal
    <2>1. PICK kind \in RequestKind : SupReceives(w, kind) /\ TellChild(w, Head(supBox[w]))
        BY <1>4 DEF RequestReceived
    <2>2. supBox' \in [Supervisor -> Seq(SupMessage)] /\ Head(supBox[w]) \in RRequestMessage
        BY <1>0, <2>1, Received, SupMessages
    <2>3. actBox' \in [Supervisor -> Seq(ActMessage)]
        BY <1>0, <2>1, <2>2, TellChildType, ActMessages
    <2> QED BY <1>0, <1>4, <2>2, <2>3 DEF RequestReceived, WorkerTypeOK
<1>5. ASSUME KillReceived(w) PROVE Goal
    <2>1. supBox' \in [Supervisor -> Seq(SupMessage)]
        BY <1>0, <1>5, Received DEF KillReceived
    <2>2. /\ supState' \in [Supervisor -> {"up", "restarting", "stopping", "stopped"}]
          /\ supRetries' \in [Supervisor -> 0..MaxSupRetries]
        BY <1>0, <1>5, SupFailsType DEF KillReceived
    <2> QED BY <1>0, <1>5, <2>1, <2>2 DEF KillReceived, WorkerTypeOK
<1>6. ASSUME PoisonPillReceived(w) PROVE Goal
    BY <1>0, <1>6, Received DEF PoisonPillReceived, WorkerTypeOK
<1>7. ASSUME StopReceived(w) PROVE Goal
    BY <1>0, <1>7 DEF StopReceived, WorkerTypeOK
<1>8. ASSUME ChildStops(w) \/ ChildGivenUp(w) PROVE Goal
    <2>1. /\ StopChild(w)
          /\ UNCHANGED <<supBox, clientVars, supVars, actRetries, workspace, tempFiles,
                         trusting>>
        BY <1>8 DEF ChildStops, ChildGivenUp
    <2>2. /\ actState' \in [Supervisor -> ActState]
          /\ actBox' \in [Supervisor -> Seq(ActMessage)]
          /\ currentMessage' \in [Supervisor -> ActMessage \cup {None}]
          /\ actPid' \in [Supervisor -> Pid \cup {NoPid}]
          /\ alive' \subseteq alive /\ jvmUp' \in BOOLEAN
        BY <1>0, <2>1, StopChildType
    <2> QED BY <1>0, <2>1, <2>2 DEF WorkerTypeOK
<1>9. ASSUME SupRestarted(w) PROVE Goal
    BY <1>0, <1>9 DEF SupRestarted, WorkerTypeOK, ActState
<1>10. ASSUME SupStopped(w) PROVE Goal
    BY <1>0, <1>10 DEF SupStopped, WorkerTypeOK
<1>11. ASSUME ChildRestarts(w) PROVE Goal
    <2> DEFINE m == currentMessage[w]
    <2>1. m \in ActMessage
        BY <1>0, <1>11 DEF ChildRestarts, ChildSound
    <2>2. /\ supBox' \in [Supervisor -> Seq(SupMessage)]
          /\ answers' \in [MsgId -> Nat]
          /\ trusting' \subseteq MsgId
        <3>1. CASE IsRequest(m)
            <4>1. m.id \in MsgId
                BY <2>1, <3>1, ActMessages
            <4>2. Answer(m.id) /\ trusting' = trusting \ {m.epoch} /\ UNCHANGED supBox
                BY <1>11, <3>1 DEF ChildRestarts, TellSenderOfFailure
            <4> HIDE DEF m
            <4> QED BY <1>0, <4>1, <4>2 DEF Answer, WorkerTypeOK
        <3>2. CASE ~IsRequest(m)
            <4>1. supBox' = Tell(supBox, w, RException) /\ UNCHANGED <<answers, trusting>>
                BY <1>11, <3>2 DEF ChildRestarts, TellSenderOfFailure
            <4> HIDE DEF m
            <4> QED BY <1>0, <4>1, TellType, SupMessages DEF WorkerTypeOK
        <3> QED BY <3>1, <3>2
    <2>3. alive' = alive \ {actPid[w]} /\ jvmUp' \in BOOLEAN
        BY <1>11, KillType DEF ChildRestarts
    <2>4. actRetries' \in [Supervisor -> 0..MaxChildRetries]
        BY <1>0, <1>11 DEF ChildRestarts, WorkerTypeOK
    <2> HIDE DEF m
    <2> QED BY <1>0, <1>11, <2>2, <2>3, <2>4 DEF ChildRestarts, WorkerTypeOK, ActState
<1>12. ASSUME ChildReconnects(w) PROVE Goal
    BY <1>0, <1>12 DEF ChildReconnects, WorkerTypeOK, ActState
<1>13. ASSUME ChildEscalates(w) PROVE Goal
    <2>1. /\ supState' \in [Supervisor -> {"up", "restarting", "stopping", "stopped"}]
          /\ supRetries' \in [Supervisor -> 0..MaxSupRetries]
        BY <1>0, <1>13, SupFailsType DEF ChildEscalates
    <2> QED BY <1>0, <1>13, <2>1 DEF ChildEscalates, WorkerTypeOK
<1> QED BY <1>1, <1>2, <1>3, <1>4, <1>5, <1>6, <1>7, <1>8, <1>9, <1>10, <1>11, <1>12,
           <1>13 DEF SupervisorStep

LEMMA ChildType ==
    ASSUME SoundInv, NEW w \in Supervisor,
           ActorStep(w) \/ RStep(w) \/ ConnectStep(w) \/ EnvironmentStep(w)
    PROVE  WorkerTypeOK' /\ answers' \in [MsgId -> Nat] /\ UNCHANGED routeVars
<1> DEFINE Goal == WorkerTypeOK' /\ answers' \in [MsgId -> Nat] /\ UNCHANGED routeVars
<1> USE WorkerAssumption DEF clientVars, routeVars, supVars, actVars, procVars, workerVars
<1>0. WorkerTypeOK /\ ChildSound(w) /\ answers \in [MsgId -> Nat]
    BY DEF SoundInv, MasterTypeOK
<1> DEFINE m == currentMessage[w]
\* In a handler, the message is a request.
<1>1. actState[w] \in {"download", "inR", "upload"} =>
          m.id \in MsgId /\ m.epoch \in MsgId /\ m.uuid \in UUID
    BY <1>0, ActMessages DEF ChildSound
<1>2. ASSUME AnswerAndIdle(w), m.id \in MsgId
      PROVE  /\ answers' \in [MsgId -> Nat]
             /\ actState' \in [Supervisor -> ActState]
             /\ currentMessage' \in [Supervisor -> ActMessage \cup {None}]
    BY <1>0, <1>2 DEF AnswerAndIdle, Answer, WorkerTypeOK, ActState
<1>3. ASSUME Taint(w), m.epoch \in MsgId PROVE workspace' \in [Pid -> SUBSET MsgId]
    BY <1>0, <1>3 DEF Taint, WorkerTypeOK
<1>4. ASSUME ActorReceives(w) PROVE Goal
    <2>1. actBox[w] \in Seq(ActMessage) /\ actBox[w] # <<>>
        BY <1>0, <1>4 DEF WorkerTypeOK, ActorReceives
    <2>2. Head(actBox[w]) \in ActMessage /\ Tail(actBox[w]) \in Seq(ActMessage)
        BY <2>1, HeadTailProperties
    <2> DEFINE h == Head(actBox[w])
    <2>3. PICK s \in FirstState(h) :
              /\ actState' = [actState EXCEPT ![w] = s]
              /\ tempFiles' = IF s = "download" THEN tempFiles \cup {<<h.uuid, "download">>}
                              ELSE tempFiles
        BY <1>4 DEF ActorReceives
    <2>4. h \in RRequestMessage \/ h = Kill
        BY <2>2 DEF ActMessage
    <2>5. s \in {"download", "inR", "failed"} /\ (s = "download" => h \in RRequestMessage)
        BY <2>3, <2>4 DEF FirstState, RRequestMessage, RequestKind, Kill
    <2>6. tempFiles' \subseteq UUID \X {"download", "upload"}
        BY <1>0, <2>3, <2>5, ActMessages DEF WorkerTypeOK
    <2>7. actState' \in [Supervisor -> ActState]
        BY <1>0, <2>3, <2>5 DEF WorkerTypeOK, ActState
    <2> QED BY <1>0, <1>4, <2>2, <2>6, <2>7 DEF ActorReceives, WorkerTypeOK
<1>5. ASSUME Downloaded(w) PROVE Goal
    BY <1>0, <1>5 DEF Downloaded, WorkerTypeOK, ActState
<1>6. ASSUME DownloadFails(w) PROVE Goal
    BY <1>0, <1>6 DEF DownloadFails, WorkerTypeOK, ActState
<1>7. ASSUME UploadEnds(w) PROVE Goal
    BY <1>0, <1>1, <1>2, <1>7 DEF UploadEnds, WorkerTypeOK
<1>8. ASSUME REvalOk(w) PROVE Goal
    BY <1>0, <1>1, <1>2, <1>3, <1>8 DEF REvalOk, WorkerTypeOK
<1>9. ASSUME NothingToAssign(w) PROVE Goal
    BY <1>0, <1>1, <1>2, <1>9 DEF NothingToAssign, WorkerTypeOK
<1>10. ASSUME ScriptRan(w) PROVE Goal
    BY <1>0, <1>1, <1>3, <1>10 DEF ScriptRan, WorkerTypeOK, ActState
<1>11. ASSUME REvalFails(w) PROVE Goal
    BY <1>0, <1>1, <1>3, <1>11 DEF REvalFails, WorkerTypeOK, ActState
<1>12. ASSUME ScriptFails(w) PROVE Goal
    <2>1. m.id \in MsgId /\ m.epoch \in MsgId /\ m.uuid \in UUID /\ AnswerAndIdle(w)
        BY <1>1, <1>12 DEF ScriptFails
    <2>2. workspace' \in [Pid -> SUBSET MsgId]
        BY <1>0, <1>3, <1>12, <2>1 DEF ScriptFails, WorkerTypeOK
    <2>3. tempFiles' \subseteq UUID \X {"download", "upload"}
        BY <1>0, <1>12, <2>1 DEF ScriptFails, WorkerTypeOK
    <2>4. trusting' = trusting \ {m.epoch}
          /\ UNCHANGED <<supBox, routeVars, supVars, actPid, actRetries, actBox, procVars>>
        BY <1>12 DEF ScriptFails
    <2> HIDE DEF m
    <2> QED BY <1>0, <1>2, <2>1, <2>2, <2>3, <2>4 DEF WorkerTypeOK
<1>13. ASSUME Connected(w) PROVE Goal
    <2>1. PICK p \in FreshPid :
              /\ alive' = alive \cup {p}
              /\ workspace' = [workspace EXCEPT ![p] = {}]
              /\ actPid' = [actPid EXCEPT ![w] = p]
              /\ supBox' = Tell(supBox, w, PId(p))
        BY <1>13 DEF Connected
    <2>2. p \in Pid
        BY DEF FreshPid
    <2>3. supBox' \in [Supervisor -> Seq(SupMessage)]
        BY <1>0, <2>1, <2>2, TellType, SupMessages DEF WorkerTypeOK
    <2>4. /\ alive' \subseteq Pid
          /\ workspace' \in [Pid -> SUBSET MsgId]
          /\ actPid' \in [Supervisor -> Pid \cup {NoPid}]
        BY <1>0, <2>1, <2>2 DEF WorkerTypeOK
    <2>5. /\ actState' = [actState EXCEPT ![w] = "idle"]
          /\ UNCHANGED <<clientVars, supVars, actRetries, actBox, currentMessage, tempFiles,
                         trusting, jvmUp>>
        BY <1>13 DEF Connected
    <2> QED BY <1>0, <2>3, <2>4, <2>5 DEF WorkerTypeOK, ActState
<1>14. ASSUME ConnectFails(w) PROVE Goal
    BY <1>0, <1>14 DEF ConnectFails, WorkerTypeOK, ActState
<1>15. ASSUME EnvironmentStep(w) PROVE Goal
    <2>1. CASE RCrashes(w)
        BY <1>0, <2>1 DEF RCrashes, WorkerTypeOK
    <2>2. CASE RetryWindowEnds(w)
        <3>0. 0 \in 0..MaxChildRetries /\ 0 \in 0..MaxSupRetries
            OBVIOUS
        <3>1. \/ actRetries' = [actRetries EXCEPT ![w] = 0] /\ UNCHANGED supRetries
              \/ supRetries' = [supRetries EXCEPT ![w] = 0] /\ UNCHANGED actRetries
            BY <2>2 DEF RetryWindowEnds
        <3>2. actRetries' \in [Supervisor -> 0..MaxChildRetries]
            BY <1>0, <3>0, <3>1 DEF WorkerTypeOK
        <3>3. supRetries' \in [Supervisor -> 0..MaxSupRetries]
            BY <1>0, <3>0, <3>1 DEF WorkerTypeOK
        <3> QED BY <1>0, <2>2, <3>2, <3>3 DEF RetryWindowEnds, WorkerTypeOK
    <2> QED BY <1>15, <2>1, <2>2 DEF EnvironmentStep
<1> QED BY <1>4, <1>5, <1>6, <1>7, <1>8, <1>9, <1>10, <1>11, <1>12, <1>13, <1>14, <1>15
        DEF ActorStep, RStep, ConnectStep

\* The child of w stays sound through the steps of its worker.
LEMMA ChildSoundStep ==
    ASSUME SoundInv, NEW w \in Supervisor, WorkerStep(w), WorkerTypeOK'
    PROVE  ChildSound(w)'
<1> USE DEF clientVars, routeVars, supVars, actVars, procVars, workerVars
<1>0. WorkerTypeOK /\ ChildSound(w)
    BY DEF SoundInv
\* What ChildSound speaks of
<1> DEFINE Same == /\ actState'[w] = actState[w]
                   /\ currentMessage'[w] = currentMessage[w]
                   /\ actPid'[w] = actPid[w]
<1>1. ASSUME Same, supState'[w] # "stopped" \/ supState'[w] = supState[w] PROVE ChildSound(w)'
    BY <1>0, <1>1 DEF ChildSound
<1>2. ASSUME PIdReceived(w) \/ FinishReceived(w) \/ RExceptionReceived(w)
             \/ RequestReceived(w) \/ RCrashes(w) \/ RetryWindowEnds(w)
      PROVE  ChildSound(w)'
    BY <1>1, <1>2 DEF PIdReceived, FinishReceived, RExceptionReceived, RequestReceived,
                      RCrashes, RetryWindowEnds
<1>3. ASSUME KillReceived(w) \/ PoisonPillReceived(w) \/ StopReceived(w) \/ ChildEscalates(w)
      PROVE  ChildSound(w)'
    <2>1. supState'[w] # "stopped"
        BY <1>0, <1>3, SupFailsType
           DEF KillReceived, PoisonPillReceived, StopReceived, ChildEscalates, WorkerTypeOK
    <2> QED BY <1>1, <1>3, <2>1
            DEF KillReceived, PoisonPillReceived, StopReceived, ChildEscalates
<1>4. ASSUME ChildStops(w) \/ ChildGivenUp(w) PROVE ChildSound(w)'
    <2>1. StopChild(w)
        BY <1>4 DEF ChildStops, ChildGivenUp
    <2> QED BY <1>0, <2>1, StopChildType DEF ChildSound, AtRest, Unconnected
<1>5. ASSUME SupRestarted(w) PROVE ChildSound(w)'
    BY <1>0, <1>5 DEF SupRestarted, ChildSound, WorkerTypeOK, AtRest, Unconnected
<1>6. ASSUME SupStopped(w) PROVE ChildSound(w)'
    BY <1>0, <1>6 DEF SupStopped, ChildSound, WorkerTypeOK
<1>7. ASSUME ChildRestarts(w) PROVE ChildSound(w)'
    <2>1. /\ actState'[w] = "recreating" /\ actPid'[w] = NoPid
          /\ currentMessage'[w] = None /\ supState'[w] = "up"
        BY <1>0, <1>7 DEF ChildRestarts, WorkerTypeOK
    <2> QED BY <2>1 DEF ChildSound, AtRest, Unconnected
<1>8. ASSUME ChildReconnects(w) PROVE ChildSound(w)'
    BY <1>0, <1>8 DEF ChildReconnects, ChildSound, WorkerTypeOK, AtRest, Unconnected
<1>9. ASSUME ActorReceives(w) PROVE ChildSound(w)'
    <2> DEFINE h == Head(actBox[w])
    <2>1. /\ currentMessage'[w] = h /\ actState'[w] \in FirstState(h)
          /\ actPid'[w] = actPid[w] /\ supState'[w] = supState[w] /\ actState[w] = "idle"
        BY <1>0, <1>9 DEF ActorReceives, WorkerTypeOK
    <2>2. actBox[w] \in Seq(ActMessage) /\ actBox[w] # <<>>
        BY <1>0, <1>9 DEF WorkerTypeOK, ActorReceives
    <2>3. h \in ActMessage
        BY <2>2, HeadTailProperties
    <2> HIDE DEF h
    <2>4. h \in RRequestMessage \/ h = Kill
        BY <2>3 DEF ActMessage
    <2>5. \/ actState'[w] \in {"download", "inR"} /\ h \in RRequestMessage
          \/ actState'[w] = "failed"
        BY <2>1, <2>4 DEF FirstState, RRequestMessage, RequestKind, Kill
    <2> QED BY <1>0, <2>1, <2>3, <2>5 DEF ChildSound, AtRest, Unconnected
<1>10. ASSUME Downloaded(w) \/ DownloadFails(w) PROVE ChildSound(w)'
    <2>1. /\ actState[w] = "download" /\ actState'[w] \in {"inR", "failed", "failedIO"}
          /\ currentMessage'[w] = currentMessage[w] /\ actPid'[w] = actPid[w]
          /\ supState'[w] = supState[w]
        BY <1>0, <1>10 DEF Downloaded, DownloadFails, WorkerTypeOK
    <2> QED BY <1>0, <2>1, ActMessages DEF ChildSound, AtRest, Unconnected
<1>11. ASSUME ScriptRan(w) \/ REvalFails(w) PROVE ChildSound(w)'
    <2>1. /\ actState[w] = "inR" /\ actState'[w] \in {"upload", "failed"}
          /\ currentMessage'[w] = currentMessage[w] /\ actPid'[w] = actPid[w]
          /\ supState'[w] = supState[w]
        BY <1>0, <1>11 DEF ScriptRan, REvalFails, WorkerTypeOK
    <2> QED BY <1>0, <2>1, ActMessages DEF ChildSound, AtRest, Unconnected
<1>12. ASSUME UploadEnds(w) \/ REvalOk(w) \/ NothingToAssign(w) \/ ScriptFails(w)
       PROVE  ChildSound(w)'
    <2>1. /\ actState[w] \in {"inR", "upload"} /\ actState'[w] = "idle"
          /\ currentMessage'[w] = None /\ actPid'[w] = actPid[w]
          /\ supState'[w] = supState[w]
        BY <1>0, <1>12 DEF UploadEnds, REvalOk, NothingToAssign, ScriptFails, AnswerAndIdle,
                           WorkerTypeOK
    <2> QED BY <1>0, <2>1 DEF ChildSound, AtRest, Unconnected
<1>13. ASSUME Connected(w) PROVE ChildSound(w)'
    <2>1. /\ actState[w] \in {"creating", "recreating"} /\ actState'[w] = "idle"
          /\ currentMessage'[w] = currentMessage[w] /\ actPid'[w] \in Pid
          /\ supState'[w] = supState[w]
        BY <1>0, <1>13 DEF Connected, FreshPid, WorkerTypeOK
    <2> QED BY <1>0, <2>1, WorkerAssumption DEF ChildSound, AtRest, Unconnected
<1>14. ASSUME ConnectFails(w) PROVE ChildSound(w)'
    BY <1>0, <1>14 DEF ConnectFails, ChildSound, WorkerTypeOK, AtRest, Unconnected
<1> QED BY <1>2, <1>3, <1>4, <1>5, <1>6, <1>7, <1>8, <1>9, <1>10, <1>11, <1>12, <1>13,
           <1>14 DEF WorkerStep, SupervisorStep, ActorStep, RStep, ConnectStep,
                     EnvironmentStep

LEMMA SoundInvWorker ==
    ASSUME SoundInv, NEW w \in Supervisor, WorkerStep(w), UNCHANGED masterVars
    PROVE  SoundInv'
<1>1. WorkerTypeOK' /\ answers' \in [MsgId -> Nat] /\ UNCHANGED routeVars
    BY SupervisorType, ChildType DEF WorkerStep
<1>2. MasterTypeOK' /\ BoundHasEpoch'
    BY <1>1 DEF SoundInv, MasterTypeOK, BoundHasEpoch, BoundUUIDs, Bound, masterVars, routeVars
<1>3. ChildSound(w)'
    BY <1>1, ChildSoundStep
<1>4. ASSUME NEW v \in Supervisor, v # w PROVE ChildSound(v)'
    <2>1. Frame(v)
        BY <1>4, WorkerFrame DEF SoundInv
    <2> QED BY <1>4, <2>1 DEF SoundInv, Frame, ChildSound
<1> QED BY <1>1, <1>2, <1>3, <1>4 DEF SoundInv

LEMMA SoundInvMaster == ASSUME SoundInv, MasterStep PROVE SoundInv'
<1>1. MasterTypeOK' /\ BoundHasEpoch'
    BY TypeStep, EpochStep DEF SoundInv, MasterStep
<1>2. supBox' \in [Supervisor -> Seq(SupMessage)]
    <2>1. supBox \in [Supervisor -> Seq(SupMessage)]
        BY DEF SoundInv, WorkerTypeOK
    <2> QED BY <2>1, MailboxesStep, SupMessages DEF SoundInv, MasterStep
<1>3. UNCHANGED workerVars
    BY DEF MasterStep
<1>4. WorkerTypeOK'
    BY <1>2, <1>3 DEF SoundInv, WorkerTypeOK, workerVars, supVars, actVars, procVars
<1>5. \A w \in Supervisor : ChildSound(w)'
    BY <1>3 DEF SoundInv, ChildSound, workerVars, supVars, actVars
<1> QED BY <1>1, <1>4, <1>5 DEF SoundInv

LEMMA SoundInvInit == Init => SoundInv
<1> SUFFICES ASSUME Init PROVE SoundInv
    OBVIOUS
<1> USE DEF Init
<1>1. MasterTypeOK
    BY TypeInit
<1>2. BoundHasEpoch
    BY DEF MasterInit, BoundHasEpoch, BoundUUIDs, Bound
<1>3. WorkerTypeOK
    BY WorkerAssumption DEF MasterInit, WorkerInit, WorkerTypeOK, ActState
<1>4. \A w \in Supervisor : ChildSound(w)
    BY DEF WorkerInit, ChildSound, AtRest, Unconnected
<1> QED BY <1>1, <1>2, <1>3, <1>4 DEF SoundInv

LEMMA SoundInvStutter == SoundInv /\ UNCHANGED vars => SoundInv'
<1> SUFFICES ASSUME SoundInv, UNCHANGED vars PROVE SoundInv'
    OBVIOUS
<1> USE DEF vars, masterVars, clientVars, routeVars, workerVars, supVars, actVars, procVars
<1>1. MasterTypeOK' /\ BoundHasEpoch'
    BY DEF SoundInv, MasterTypeOK, BoundHasEpoch, BoundUUIDs, Bound
<1>2. WorkerTypeOK'
    BY DEF SoundInv, WorkerTypeOK
<1>3. \A w \in Supervisor : ChildSound(w)'
    BY DEF SoundInv, ChildSound
<1> QED BY <1>1, <1>2, <1>3 DEF SoundInv

LEMMA SoundInvAlways == Spec => []SoundInv
<1>1. SoundInv /\ [Next]_vars => SoundInv'
    BY SoundInvWorker, SoundInvMaster, SoundInvStutter DEF Next
<1> QED BY <1>1, SoundInvInit, PTL DEF Spec

\* Every variable of the server keeps its type, over all restarts, kills and
\* failures: in particular the mailbox of a child only ever holds requests and
\* Kill, the retry counters stay within the limits of the supervision strategies,
\* and every answer goes to a message that a client has sent.
THEOREM TypeCorrect == Spec => []TypeOK
<1>1. SoundInv => TypeOK
    BY DEF SoundInv, WorkerTypeOK, TypeOK
<1> QED BY <1>1, SoundInvAlways, PTL
-----------------------------------------------------------------------------
(* The R processes                                                         *)

\* A worker's step lets its child keep its pid, or drop it when the process is
\* dead, or take the pid of a new process when it had none.
KeepsPid(w) == actPid'[w] = actPid[w] /\ alive' \subseteq alive
DropsPid(w) == actPid'[w] = NoPid /\ alive' \subseteq alive /\ actPid[w] \notin alive'
TakesPid(w) == actPid[w] = NoPid /\ alive' = alive \cup {actPid'[w]}

LEMMA PidEffects ==
    ASSUME SoundInv, NEW w \in Supervisor, WorkerStep(w)
    PROVE  KeepsPid(w) \/ DropsPid(w) \/ TakesPid(w)
<1> USE DEF clientVars, routeVars, supVars, actVars, procVars, workerVars
<1>0. WorkerTypeOK /\ ChildSound(w)
    BY DEF SoundInv
<1>1. ASSUME UNCHANGED <<actPid, alive>> PROVE KeepsPid(w)
    BY <1>1 DEF KeepsPid
<1>2. ASSUME ChildStops(w) \/ ChildGivenUp(w) PROVE DropsPid(w)
    <2>1. StopChild(w)
        BY <1>2 DEF ChildStops, ChildGivenUp
    <2>2. actPid'[w] = NoPid /\ alive' \subseteq alive
        BY <1>0, <2>1, StopChildType
    <2>3. CASE actState[w] = "initFailed"
        BY <1>0, <2>2, <2>3, WorkerAssumption
           DEF ChildSound, Unconnected, DropsPid, WorkerTypeOK
    <2>4. CASE actState[w] # "initFailed"
        BY <2>1, <2>2, <2>4, KillType DEF StopChild, DropsPid
    <2> QED BY <2>3, <2>4
<1>3. ASSUME ChildRestarts(w) PROVE DropsPid(w)
    BY <1>0, <1>3, KillType DEF ChildRestarts, DropsPid, WorkerTypeOK
<1>4. ASSUME FinishReceived(w) \/ RCrashes(w) PROVE KeepsPid(w)
    BY <1>4, KillType DEF FinishReceived, RCrashes, KeepsPid
<1>5. ASSUME Connected(w) PROVE TakesPid(w)
    BY <1>0, <1>5 DEF Connected, TakesPid, ChildSound, Unconnected, WorkerTypeOK
<1>6. ASSUME PIdReceived(w) \/ RExceptionReceived(w) \/ RequestReceived(w)
             \/ KillReceived(w) \/ PoisonPillReceived(w) \/ StopReceived(w)
             \/ SupRestarted(w) \/ SupStopped(w) \/ ChildReconnects(w) \/ ChildEscalates(w)
             \/ ActorStep(w) \/ RStep(w) \/ ConnectFails(w) \/ RetryWindowEnds(w)
      PROVE  KeepsPid(w)
    BY <1>1, <1>6 DEF PIdReceived, RExceptionReceived, RequestReceived, KillReceived,
        PoisonPillReceived, StopReceived, SupRestarted, SupStopped, ChildReconnects,
        ChildEscalates, ActorStep, ActorReceives, Downloaded, DownloadFails, UploadEnds,
        RStep, REvalOk, NothingToAssign, ScriptRan, REvalFails, ScriptFails, ConnectFails,
        RetryWindowEnds
<1> QED BY <1>2, <1>3, <1>4, <1>5, <1>6 DEF WorkerStep, SupervisorStep, ConnectStep,
           EnvironmentStep

\* No R process outlives the actor that knows its pid: preRestart and postStop
\* kill it before the pid is forgotten, and a child that never got an instance has
\* no process to kill.
THEOREM NoOrphans == Spec => []NoOrphanR
<1>1. Init => NoOrphanR
    BY DEF Init, WorkerInit, NoOrphanR
<1>2. ASSUME SoundInv, NoOrphanR, NEW w \in Supervisor, WorkerStep(w) PROVE NoOrphanR'
    <2>1. /\ created' = created /\ w \in created
          /\ \A v \in created : v # w => actPid'[v] = actPid[v]
        <3>1. UNCHANGED routeVars
            BY <1>2, SupervisorType, ChildType DEF WorkerStep
        <3>2. \A v \in Supervisor : v # w => actPid'[v] = actPid[v]
            BY <1>2, WorkerFrame DEF SoundInv, Frame
        <3> QED BY <1>2, <3>1, <3>2 DEF routeVars, WorkerStep, SoundInv, MasterTypeOK
    <2>2. KeepsPid(w) \/ DropsPid(w) \/ TakesPid(w)
        BY <1>2, PidEffects
    <2>3. NoPid \notin alive
        BY <1>2, WorkerAssumption DEF SoundInv, WorkerTypeOK
    <2> QED BY <1>2, <2>1, <2>2, <2>3 DEF KeepsPid, DropsPid, TakesPid, NoOrphanR
<1>3. ASSUME SoundInv, NoOrphanR, MasterStep PROVE NoOrphanR'
    <2>1. created \subseteq created'
        BY <1>3, MasterCounts DEF MasterStep
    <2> QED BY <1>3, <2>1 DEF MasterStep, workerVars, actVars, procVars, NoOrphanR
<1>4. NoOrphanR /\ UNCHANGED vars => NoOrphanR'
    BY DEF vars, clientVars, routeVars, workerVars, actVars, procVars, NoOrphanR
<1>5. SoundInv /\ NoOrphanR /\ [Next]_vars => NoOrphanR'
    BY <1>2, <1>3, <1>4 DEF Next
<1> QED BY <1>1, <1>5, SoundInvAlways, PTL DEF Spec

\* p is the last pid that a supervisor whose field holds `old' learns from mailbox s.
LastSays(s, old, p) ==
    \/ old = p /\ \A i \in DOMAIN s : s[i].type # "PId"
    \/ \E i \in DOMAIN s : /\ s[i].type = "PId" /\ s[i].pid = p
                           /\ \A j \in DOMAIN s : j > i => s[j].type # "PId"

LEMMA TailShape ==
    ASSUME NEW S, NEW s \in Seq(S), s # <<>>
    PROVE  /\ Len(s) \in Nat /\ Len(s) > 0 /\ Head(s) = s[1] /\ DOMAIN s = 1..Len(s)
           /\ Len(Tail(s)) = Len(s) - 1 /\ DOMAIN Tail(s) = 1..(Len(s) - 1)
           /\ \A i \in 1..(Len(s) - 1) : Tail(s)[i] = s[i + 1]
OBVIOUS

LEMMA SaysAppend ==
    ASSUME NEW S, NEW s \in Seq(S), NEW m, NEW old, NEW p,
           \/ m.type # "PId" /\ LastSays(s, old, p)
           \/ m.type = "PId" /\ m.pid = p
    PROVE  LastSays(Append(s, m), old, p)
<1> DEFINE t == Append(s, m)
           n == Len(s)
<1>1. /\ n \in Nat /\ DOMAIN s = 1..n /\ DOMAIN t = 1..(n + 1) /\ t[n + 1] = m
      /\ \A i \in 1..n : t[i] = s[i]
    BY AppendShape
<1> HIDE DEF t, n
<1>2. LastSays(t, old, p)
    <2>1. CASE m.type = "PId" /\ m.pid = p
        BY <1>1, <2>1 DEF LastSays
    <2>2. CASE m.type # "PId" /\ old = p /\ \A i \in DOMAIN s : s[i].type # "PId"
        BY <1>1, <2>2 DEF LastSays
    <2>3. CASE m.type # "PId" /\ \E i \in DOMAIN s : /\ s[i].type = "PId" /\ s[i].pid = p
                               /\ \A j \in DOMAIN s : j > i => s[j].type # "PId"
        <3>1. PICK i \in 1..n : /\ s[i].type = "PId" /\ s[i].pid = p
                                /\ \A j \in 1..n : j > i => s[j].type # "PId"
            BY <1>1, <2>3
        <3>2. /\ i \in DOMAIN t /\ t[i].type = "PId" /\ t[i].pid = p
              /\ \A j \in DOMAIN t : j > i => t[j].type # "PId"
            BY <1>1, <2>3, <3>1
        <3> QED BY <3>2 DEF LastSays
    <2> QED BY <2>1, <2>2, <2>3 DEF LastSays
<1> QED BY <1>2 DEF t

LEMMA SaysTail ==
    ASSUME NEW S, NEW s \in Seq(S), s # <<>>, NEW old, NEW p, LastSays(s, old, p)
    PROVE  LastSays(Tail(s), IF Head(s).type = "PId" THEN Head(s).pid ELSE old, p)
<1> DEFINE t == Tail(s)
           n == Len(s)
           new == IF s[1].type = "PId" THEN s[1].pid ELSE old
<1>1. /\ n \in Nat /\ n > 0 /\ DOMAIN s = 1..n /\ DOMAIN t = 1..(n - 1) /\ Head(s) = s[1]
      /\ \A i \in 1..(n - 1) : t[i] = s[i + 1]
    BY TailShape
<1> HIDE DEF t, n
<1>2. LastSays(t, new, p)
    <2>1. CASE old = p /\ \A i \in DOMAIN s : s[i].type # "PId"
        BY <1>1, <2>1 DEF LastSays
    <2>2. CASE \E i \in DOMAIN s : /\ s[i].type = "PId" /\ s[i].pid = p
                                   /\ \A j \in DOMAIN s : j > i => s[j].type # "PId"
        <3>1. PICK i \in 1..n : /\ s[i].type = "PId" /\ s[i].pid = p
                                /\ \A j \in 1..n : j > i => s[j].type # "PId"
            BY <1>1, <2>2
        <3>2. CASE i = 1
            BY <1>1, <3>1, <3>2 DEF LastSays
        <3>3. CASE i # 1
            <4>1. /\ i - 1 \in DOMAIN t /\ t[i - 1].type = "PId" /\ t[i - 1].pid = p
                  /\ \A j \in DOMAIN t : j > i - 1 => t[j].type # "PId"
                BY <1>1, <3>1, <3>3
            <4> QED BY <4>1 DEF LastSays
        <3> QED BY <3>2, <3>3
    <2> QED BY <2>1, <2>2 DEF LastSays
<1> QED BY <1>1, <1>2 DEF t

Tracked(w) == actPid[w] # NoPid => LastSays(supBox[w], supPid[w], actPid[w])

\* The supervisor's mailbox after the master's step
LEMMA TrackedMaster ==
    ASSUME SoundInv, MasterStep, NEW w \in Supervisor, Tracked(w)
    PROVE  Tracked(w)'
<1>1. supBox \in [Supervisor -> Seq(SupMessage)]
    BY DEF SoundInv, WorkerTypeOK
<1>2. \/ supBox'[w] = supBox[w]
      \/ \E m \in MasterMessage : supBox'[w] = Append(supBox[w], m)
    BY <1>1, MasterTells, MessageTypes
       DEF SoundInv, MasterStep, ToldNothing, ToldToEnd, ToldToWork
<1>3. \A m \in MasterMessage : m.type # "PId"
    BY DEF MasterMessage, RRequestMessage, RequestKind, FinishMessage, Kill, PoisonPill
<1>4. UNCHANGED <<supPid, actPid>>
    BY DEF MasterStep, workerVars, supVars, actVars
<1>5. supBox[w] \in Seq(SupMessage)
    BY <1>1
<1> QED BY <1>2, <1>3, <1>4, <1>5, SaysAppend DEF Tracked

LEMMA TrackedWorker ==
    ASSUME SoundInv, NEW w \in Supervisor, WorkerStep(w), Tracked(w)
    PROVE  Tracked(w)'
<1> USE DEF clientVars, routeVars, supVars, actVars, procVars, workerVars
<1>0. WorkerTypeOK /\ ChildSound(w) /\ supBox[w] \in Seq(SupMessage)
    BY DEF SoundInv, WorkerTypeOK
\* A message received
<1>1. ASSUME NEW type, SupReceives(w, type), actPid' = actPid,
             supPid'[w] = IF Head(supBox[w]).type = "PId" THEN Head(supBox[w]).pid
                                                          ELSE supPid[w]
      PROVE  Tracked(w)'
    <2>1. supBox'[w] = Tail(supBox[w]) /\ supBox[w] # <<>>
        BY <1>0, <1>1, Received
    <2> QED BY <1>0, <1>1, <2>1, SaysTail DEF Tracked
<1>2. ASSUME PIdReceived(w) PROVE Tracked(w)'
    <2>1. SupReceives(w, "PId") /\ supPid'[w] = Head(supBox[w]).pid /\ actPid' = actPid
        BY <1>0, <1>2 DEF PIdReceived, WorkerTypeOK
    <2>2. Head(supBox[w]).type = "PId"
        BY <2>1 DEF SupReceives
    <2> QED BY <1>1, <2>1, <2>2
<1>3. ASSUME NEW type, SupReceives(w, type), type # "PId", UNCHANGED <<actPid, supPid>>
      PROVE  Tracked(w)'
    <2>1. Head(supBox[w]).type # "PId"
        BY <1>3 DEF SupReceives
    <2> QED BY <1>1, <1>3, <2>1
<1>4. ASSUME RequestReceived(w) PROVE Tracked(w)'
    <2>1. PICK kind \in RequestKind : SupReceives(w, kind)
        BY <1>4 DEF RequestReceived
    <2> QED BY <1>3, <1>4, <2>1 DEF RequestReceived, RequestKind
<1>5. ASSUME FinishReceived(w) \/ RExceptionReceived(w) \/ KillReceived(w)
             \/ PoisonPillReceived(w)
      PROVE  Tracked(w)'
    <2>1. CASE FinishReceived(w)
        BY <1>3, <2>1 DEF FinishReceived
    <2>2. CASE RExceptionReceived(w)
        BY <1>3, <2>2 DEF RExceptionReceived
    <2>3. CASE KillReceived(w)
        BY <1>3, <2>3 DEF KillReceived
    <2>4. CASE PoisonPillReceived(w)
        BY <1>3, <2>4 DEF PoisonPillReceived
    <2> QED BY <1>5, <2>1, <2>2, <2>3, <2>4
\* No pid, nothing to know
<1>6. ASSUME actPid'[w] = NoPid PROVE Tracked(w)'
    BY <1>6 DEF Tracked
<1>7. ASSUME SupRestarted(w) \/ SupStopped(w) PROVE Tracked(w)'
    <2>1. actState[w] = "stopped"
        BY <1>0, <1>7 DEF SupRestarted, SupStopped, ChildSound
    <2>2. actPid'[w] = NoPid
        BY <1>0, <1>7, <2>1 DEF SupRestarted, SupStopped, ChildSound, Unconnected
    <2> QED BY <1>6, <2>2
<1>8. ASSUME ChildStops(w) \/ ChildGivenUp(w) \/ ChildRestarts(w) PROVE Tracked(w)'
    <2>1. actPid'[w] = NoPid
        BY <1>0, <1>8, StopChildType DEF ChildStops, ChildGivenUp, ChildRestarts, WorkerTypeOK
    <2> QED BY <1>6, <2>1
<1>9. ASSUME Connected(w) PROVE Tracked(w)'
    <2>1. PICK p \in Pid : actPid'[w] = p /\ supBox'[w] = Append(supBox[w], PId(p))
                           /\ supPid' = supPid
        BY <1>0, <1>9 DEF Connected, FreshPid, Tell, WorkerTypeOK
    <2>2. PId(p).type = "PId" /\ PId(p).pid = p
        BY SupMessages
    <2> QED BY <1>0, <2>1, <2>2, SaysAppend DEF Tracked
<1>10. ASSUME UNCHANGED <<supBox, supPid, actPid>> PROVE Tracked(w)'
    BY <1>10 DEF Tracked
<1>11. ASSUME StopReceived(w) \/ ChildReconnects(w) \/ ChildEscalates(w)
              \/ ActorStep(w) \/ RStep(w) \/ ConnectFails(w) \/ EnvironmentStep(w)
       PROVE  Tracked(w)'
    BY <1>10, <1>11 DEF StopReceived, ChildReconnects, ChildEscalates, ActorStep,
        ActorReceives, Downloaded, DownloadFails, UploadEnds, RStep, REvalOk,
        NothingToAssign, ScriptRan, REvalFails, ScriptFails, ConnectFails, EnvironmentStep,
        RCrashes, RetryWindowEnds
<1> QED BY <1>2, <1>4, <1>5, <1>7, <1>8, <1>9, <1>11 DEF WorkerStep, SupervisorStep,
           ConnectStep

\* The supervisor's copy of the pid of R lags behind the child's, but when it has
\* read its mailbox it is the same, over any number of restarts of child and
\* supervisor: no PId message is lost, overtaken or undone.
THEOREM PidIsTracked == Spec => []PidTracked
<1> DEFINE Inv == \A w \in Supervisor : Tracked(w)
<1>1. Init => Inv
    BY DEF Init, WorkerInit, Tracked
<1>2. ASSUME SoundInv, Inv, NEW w \in Supervisor, WorkerStep(w) PROVE Inv'
    <2>1. Tracked(w)'
        BY <1>2, TrackedWorker
    <2>2. ASSUME NEW v \in Supervisor, v # w PROVE Tracked(v)'
        <3>1. Frame(v)
            BY <1>2, <2>2, WorkerFrame DEF SoundInv
        <3> QED BY <1>2, <2>2, <3>1 DEF Frame, Tracked
    <2> QED BY <2>1, <2>2
<1>3. ASSUME SoundInv, Inv, MasterStep PROVE Inv'
    BY <1>3, TrackedMaster
<1>4. Inv /\ UNCHANGED vars => Inv'
    BY DEF vars, workerVars, supVars, actVars, Tracked
<1>5. SoundInv /\ Inv /\ [Next]_vars => Inv'
    BY <1>2, <1>3, <1>4 DEF Next
<1>6. SoundInv /\ Inv => PidTracked
    <2> SUFFICES ASSUME SoundInv, Inv, NEW w \in created, actPid[w] # NoPid
                 PROVE  LastPid(w) = actPid[w]
        BY DEF PidTracked
    <2> DEFINE s == supBox[w]
               said == {i \in DOMAIN s : s[i].type = "PId"}
    <2>1. s \in Seq(SupMessage) /\ LastSays(s, supPid[w], actPid[w])
        BY DEF SoundInv, MasterTypeOK, WorkerTypeOK, Tracked
    <2>2. LastPid(w) = IF said = {} THEN supPid[w]
                       ELSE s[CHOOSE i \in said : \A j \in said : j <= i].pid
        BY DEF LastPid
    <2>3. DOMAIN s \subseteq Nat
        BY <2>1, LenProperties
    <2> HIDE DEF s
    <2>4. CASE \A i \in DOMAIN s : s[i].type # "PId"
        BY <2>1, <2>2, <2>4 DEF LastSays
    <2>5. CASE \E i \in DOMAIN s : s[i].type = "PId"
        <3>1. PICK i \in said : s[i].pid = actPid[w] /\ \A j \in DOMAIN s : j > i => j \notin said
            BY <2>1, <2>5 DEF LastSays
        <3>2. \A j \in said : j <= i
            BY <2>3, <3>1
        <3>3. \A k \in said : (\A j \in said : j <= k) => k = i
            BY <2>3, <3>1, <3>2
        <3>4. (CHOOSE k \in said : \A j \in said : j <= k) = i
            <4> HIDE DEF said
            <4> QED BY <3>1, <3>2, <3>3
        <3> QED BY <2>2, <3>1, <3>4
    <2> QED BY <2>4, <2>5
<1> HIDE DEF Inv
<1> QED BY <1>1, <1>5, <1>6, SoundInvAlways, PTL DEF Spec
-----------------------------------------------------------------------------
(* The files                                                               *)

Uploading(w, u) == actState[w] = "upload" /\ currentMessage[w].uuid = u

\* An upload file that exists after a step of w was there before, and w has not
\* just ended its upload, or it is what w uploads now.
LEMMA UploadEffects ==
    ASSUME SoundInv, autoDeleteTempFiles, NEW w \in Supervisor, WorkerStep(w),
           NEW u \in UUID, <<u, "upload">> \in tempFiles'
    PROVE  \/ <<u, "upload">> \in tempFiles /\ (Uploading(w, u) => Uploading(w, u)')
           \/ Uploading(w, u)'
<1> DEFINE Effect == \/ <<u, "upload">> \in tempFiles /\ (Uploading(w, u) => Uploading(w, u)')
                     \/ Uploading(w, u)'
<1> USE DEF clientVars, routeVars, supVars, actVars, procVars, workerVars
<1>0. WorkerTypeOK /\ ChildSound(w)
    BY DEF SoundInv
<1>1. ASSUME <<u, "upload">> \in tempFiles, UNCHANGED <<actState, currentMessage>>
      PROVE  Effect
    BY <1>1 DEF Uploading
<1>2. ASSUME <<u, "upload">> \in tempFiles, actState[w] # "upload" PROVE Effect
    BY <1>2 DEF Uploading
<1>3. ASSUME PIdReceived(w) \/ FinishReceived(w) \/ RExceptionReceived(w)
             \/ RequestReceived(w) \/ KillReceived(w) \/ PoisonPillReceived(w)
             \/ StopReceived(w) \/ SupStopped(w) \/ ChildEscalates(w) \/ EnvironmentStep(w)
      PROVE  Effect
    BY <1>1, <1>3 DEF PIdReceived, FinishReceived, RExceptionReceived, RequestReceived,
        KillReceived, PoisonPillReceived, StopReceived, SupStopped, ChildEscalates,
        EnvironmentStep, RCrashes, RetryWindowEnds
<1>4. ASSUME ChildStops(w) \/ SupRestarted(w) \/ ChildRestarts(w) \/ ChildReconnects(w)
             \/ ChildGivenUp(w) \/ ConnectStep(w) \/ Downloaded(w) \/ NothingToAssign(w)
             \/ REvalOk(w)
      PROVE  Effect
    BY <1>2, <1>4 DEF ChildStops, SupRestarted, ChildRestarts, ChildReconnects,
        ChildGivenUp, ConnectStep, Connected, ConnectFails, Downloaded, NothingToAssign,
        REvalOk
<1>5. ASSUME ActorReceives(w) \/ DownloadFails(w) \/ REvalFails(w) PROVE Effect
    <2>1. actState[w] # "upload"
        BY <1>5 DEF ActorReceives, DownloadFails, REvalFails
    <2>2. <<u, "upload">> \in tempFiles
        BY <1>5 DEF ActorReceives, DownloadFails, REvalFails
    <2> QED BY <1>2, <2>1, <2>2
<1>6. ASSUME ScriptFails(w) PROVE Effect
    BY <1>2, <1>6 DEF ScriptFails
<1>7. ASSUME ScriptRan(w) PROVE Effect
    <2>1. actState'[w] = "upload" /\ actState[w] # "upload"
          /\ currentMessage'[w] = currentMessage[w]
        BY <1>0, <1>7 DEF ScriptRan, WorkerTypeOK
    <2>2. <<u, "upload">> \in tempFiles \/ u = currentMessage[w].uuid
        BY <1>7 DEF ScriptRan
    <2> QED BY <2>1, <2>2 DEF Uploading
<1>8. ASSUME UploadEnds(w) PROVE Effect
    <2>1. /\ <<u, "upload">> \in tempFiles
          /\ <<u, "upload">> \notin TempFilesOf(currentMessage[w].uuid)
        BY <1>8 DEF UploadEnds
    <2>2. u # currentMessage[w].uuid
        BY <2>1 DEF TempFilesOf
    <2> QED BY <2>1, <2>2 DEF Uploading
<1> QED BY <1>3, <1>4, <1>5, <1>6, <1>7, <1>8 DEF WorkerStep, SupervisorStep, ActorStep,
           RStep

\* With autoDeleteTempFiles no upload file is left behind: when no worker uploads
\* for a UUID, its file is gone, although workers share the directory and a
\* finished session's worker may still be busy for the same UUID.
THEOREM UploadFilesDeleted == Spec => []UploadsDeleted
<1>1. Init => UploadsDeleted
    BY DEF Init, WorkerInit, UploadsDeleted
<1>2. ASSUME SoundInv, UploadsDeleted, NEW w \in Supervisor, WorkerStep(w)
      PROVE  UploadsDeleted'
    <2> SUFFICES ASSUME autoDeleteTempFiles, NEW u \in UUID, <<u, "upload">> \in tempFiles'
                 PROVE  \E v \in created' : Uploading(v, u)'
        BY DEF UploadsDeleted, Uploading
    <2>1. created' = created /\ w \in created /\ created \subseteq Supervisor
        BY <1>2, SupervisorType, ChildType
           DEF WorkerStep, routeVars, SoundInv, MasterTypeOK
    <2>2. \A v \in created : v # w => (Uploading(v, u) => Uploading(v, u)')
        <3> SUFFICES ASSUME NEW v \in created, v # w PROVE Uploading(v, u) => Uploading(v, u)'
            OBVIOUS
        <3>1. Frame(v)
            BY <1>2, <2>1, WorkerFrame DEF SoundInv
        <3> QED BY <3>1 DEF Frame, Uploading
    <2>3. \/ <<u, "upload">> \in tempFiles /\ (Uploading(w, u) => Uploading(w, u)')
          \/ Uploading(w, u)'
        BY <1>2, UploadEffects
    <2>4. <<u, "upload">> \in tempFiles => \E v \in created : Uploading(v, u)
        BY <1>2 DEF UploadsDeleted, Uploading
    <2> QED BY <2>1, <2>2, <2>3, <2>4
<1>3. ASSUME SoundInv, UploadsDeleted, MasterStep PROVE UploadsDeleted'
    <2>1. created \subseteq created'
        BY <1>3, MasterCounts DEF MasterStep
    <2>2. UNCHANGED <<tempFiles, actState, currentMessage>>
        BY <1>3 DEF MasterStep, workerVars, actVars
    <2> QED BY <1>3, <2>1, <2>2 DEF UploadsDeleted
<1>4. UploadsDeleted /\ UNCHANGED vars => UploadsDeleted'
    BY DEF vars, clientVars, routeVars, workerVars, actVars, UploadsDeleted
<1>5. SoundInv /\ UploadsDeleted /\ [Next]_vars => UploadsDeleted'
    BY <1>2, <1>3, <1>4 DEF Next
<1> QED BY <1>1, <1>5, SoundInvAlways, PTL DEF Spec
-----------------------------------------------------------------------------
(* The requests                                                            *)

\* No two requests in mailbox s have the same number.
NoDup(s) ==
    \A i, j \in DOMAIN s : IsRequest(s[i]) /\ IsRequest(s[j]) /\ s[i].id = s[j].id => i = j

IdOf(m) == IF IsRequest(m) THEN {m.id} ELSE {}

LEMMA IdsAppend ==
    ASSUME NEW S, NEW s \in Seq(S), NEW m
    PROVE  /\ RequestIds(Append(s, m)) = RequestIds(s) \cup IdOf(m)
           /\ NoDup(s) /\ RequestIds(s) \cap IdOf(m) = {} => NoDup(Append(s, m))
<1> DEFINE t == Append(s, m)
           n == Len(s)
<1>1. /\ n \in Nat /\ DOMAIN s = 1..n /\ DOMAIN t = 1..(n + 1) /\ t[n + 1] = m
      /\ \A i \in 1..n : t[i] = s[i]
    BY AppendShape
<1> HIDE DEF t, n
<1>2. RequestIds(t) = RequestIds(s) \cup IdOf(m)
    <2>1. \A i \in 1..(n + 1) : i \in 1..n \/ i = n + 1
        BY <1>1
    <2>2. RequestIds(t) \subseteq RequestIds(s) \cup IdOf(m)
        BY <1>1, <2>1 DEF RequestIds, IdOf
    <2>3. RequestIds(s) \subseteq RequestIds(t)
        <3> SUFFICES ASSUME NEW i \in 1..n, IsRequest(s[i]) PROVE s[i].id \in RequestIds(t)
            BY <1>1 DEF RequestIds
        <3>1. i \in DOMAIN t /\ t[i] = s[i]
            BY <1>1
        <3> QED BY <3>1 DEF RequestIds
    <2>4. IdOf(m) \subseteq RequestIds(t)
        <3>1. n + 1 \in DOMAIN t
            BY <1>1
        <3> QED BY <1>1, <3>1 DEF RequestIds, IdOf
    <2> QED BY <2>2, <2>3, <2>4
<1>3. NoDup(s) /\ RequestIds(s) \cap IdOf(m) = {} => NoDup(t)
    <2> SUFFICES ASSUME NoDup(s), RequestIds(s) \cap IdOf(m) = {},
                        NEW i \in 1..(n + 1), NEW j \in 1..(n + 1),
                        IsRequest(t[i]), IsRequest(t[j]), t[i].id = t[j].id
                 PROVE  i = j
        BY <1>1 DEF NoDup
    <2>1. \A k \in 1..n : IsRequest(s[k]) => s[k].id \in RequestIds(s)
        BY <1>1 DEF RequestIds
    <2>2. \A k \in 1..n : IsRequest(s[k]) /\ IsRequest(m) => s[k].id # m.id
        BY <2>1 DEF IdOf
    <2>3. CASE i \in 1..n /\ j \in 1..n
        BY <1>1, <2>3 DEF NoDup
    <2>4. CASE ~(i \in 1..n /\ j \in 1..n)
        BY <1>1, <2>2, <2>4
    <2> QED BY <2>3, <2>4
<1> QED BY <1>2, <1>3 DEF t

LEMMA IdsTail ==
    ASSUME NEW S, NEW s \in Seq(S), s # <<>>
    PROVE  /\ RequestIds(s) = RequestIds(Tail(s)) \cup IdOf(Head(s))
           /\ NoDup(s) => NoDup(Tail(s)) /\ RequestIds(Tail(s)) \cap IdOf(Head(s)) = {}
<1> DEFINE t == Tail(s)
           n == Len(s)
<1>1. /\ n \in Nat /\ n > 0 /\ DOMAIN s = 1..n /\ DOMAIN t = 1..(n - 1) /\ Head(s) = s[1]
      /\ \A i \in 1..(n - 1) : t[i] = s[i + 1]
    BY TailShape
<1> HIDE DEF t, n
<1>2. \A id : id \in RequestIds(t) <=> \E i \in 2..n : IsRequest(s[i]) /\ s[i].id = id
    <2>1. ASSUME NEW id \in RequestIds(t)
          PROVE  \E i \in 2..n : IsRequest(s[i]) /\ s[i].id = id
        <3>1. PICK j \in 1..(n - 1) : IsRequest(t[j]) /\ t[j].id = id
            BY <1>1, <2>1 DEF RequestIds
        <3> QED BY <1>1, <3>1
    <2>2. ASSUME NEW i \in 2..n, IsRequest(s[i]) PROVE s[i].id \in RequestIds(t)
        <3>1. i - 1 \in DOMAIN t /\ t[i - 1] = s[i]
            BY <1>1
        <3> QED BY <2>2, <3>1 DEF RequestIds
    <2> QED BY <2>1, <2>2
<1>3. \A id : id \in RequestIds(s) <=> \E i \in 1..n : IsRequest(s[i]) /\ s[i].id = id
    BY <1>1 DEF RequestIds
<1>4. \A id : id \in IdOf(s[1]) <=> IsRequest(s[1]) /\ id = s[1].id
    BY DEF IdOf
<1>5. \A i : i \in 1..n <=> i = 1 \/ i \in 2..n
    BY <1>1
<1>6. RequestIds(s) = RequestIds(t) \cup IdOf(s[1])
    BY <1>2, <1>3, <1>4, <1>5
<1>7. NoDup(s) => NoDup(t)
    <2> SUFFICES ASSUME NoDup(s), NEW i \in 1..(n - 1), NEW j \in 1..(n - 1),
                        IsRequest(t[i]), IsRequest(t[j]), t[i].id = t[j].id
                 PROVE  i = j
        BY <1>1 DEF NoDup
    <2>1. i + 1 \in 1..n /\ j + 1 \in 1..n /\ t[i] = s[i + 1] /\ t[j] = s[j + 1]
        BY <1>1
    <2>2. i + 1 = j + 1
        BY <1>1, <2>1 DEF NoDup
    <2> QED BY <2>2
<1>8. NoDup(s) => RequestIds(t) \cap IdOf(s[1]) = {}
    BY <1>1, <1>2, <1>4, <1>5 DEF NoDup
<1> QED BY <1>1, <1>6, <1>7, <1>8 DEF t

LEMMA IdsEmpty == RequestIds(<<>>) = {} /\ NoDup(<<>>)
BY DEF RequestIds, NoDup

SupIds(w) == RequestIds(supBox[w])
ActIds(w) == RequestIds(actBox[w])

\* Worker w holds no request twice.
OwnIds(w) ==
    /\ NoDup(supBox[w]) /\ NoDup(actBox[w])
    /\ SupIds(w) \cap ActIds(w) = {}
    /\ SupIds(w) \cap CurrentIds(w) = {}
    /\ ActIds(w) \cap CurrentIds(w) = {}

LEMMA CurrentIdsOf ==
    ASSUME NEW w \in Supervisor
    PROVE  /\ currentMessage[w] = None => CurrentIds(w) = {}
           /\ currentMessage[w] \in ActMessage => CurrentIds(w) = IdOf(currentMessage[w])
           /\ currentMessage[w] \in RRequestMessage => CurrentIds(w) = {currentMessage[w].id}
<1>1. currentMessage[w] = None => CurrentIds(w) = {}
    BY DEF CurrentIds
<1>2. currentMessage[w] \in ActMessage => CurrentIds(w) = IdOf(currentMessage[w])
    BY ActMessages DEF CurrentIds, IdOf
<1>3. currentMessage[w] \in RRequestMessage => IdOf(currentMessage[w]) = {currentMessage[w].id}
    BY ActMessages DEF IdOf
<1> QED BY <1>1, <1>2, <1>3, ActMessages

\* A step of worker w keeps what w holds, or loses it with the child, or answers
\* one request and lets go of it.
Kept(w)        == answers' = answers /\ Held(w)' = Held(w)
LostChild(w)   == answers' = answers /\ Held(w)' \subseteq Held(w) /\ actState'[w] = "stopped"
AnsweredOne(w) == \E id \in Held(w) : Answer(id) /\ Held(w)' = Held(w) \ {id}

LEMMA RequestEffects ==
    ASSUME SoundInv, NEW w \in Supervisor, WorkerStep(w), OwnIds(w)
    PROVE  OwnIds(w)' /\ (Kept(w) \/ LostChild(w) \/ AnsweredOne(w))
<1> DEFINE Effect == OwnIds(w)' /\ (Kept(w) \/ LostChild(w) \/ AnsweredOne(w))
<1> USE DEF clientVars, routeVars, supVars, actVars, procVars, workerVars
<1>0. /\ WorkerTypeOK /\ ChildSound(w)
      /\ supBox[w] \in Seq(SupMessage) /\ actBox[w] \in Seq(ActMessage)
    BY DEF SoundInv, WorkerTypeOK
\* It is enough to know the three parts of what w holds.
<1>1. ASSUME answers' = answers, NoDup(supBox'[w]), NoDup(actBox'[w]),
             SupIds(w)' = SupIds(w), ActIds(w)' = ActIds(w), CurrentIds(w)' = CurrentIds(w)
      PROVE  Effect
    BY <1>1 DEF OwnIds, Kept, Held, SupIds, ActIds
\* A message that is no request leaves the mailbox of the supervisor.
<1>2. ASSUME NEW type, SupReceives(w, type), type \notin RequestKind, answers' = answers,
             UNCHANGED currentMessage, NoDup(actBox'[w]), ActIds(w)' = ActIds(w)
      PROVE  Effect
    <2>1. supBox'[w] = Tail(supBox[w]) /\ supBox[w] # <<>> /\ Head(supBox[w]).type = type
        BY <1>0, <1>2, Received
    <2>2. IdOf(Head(supBox[w])) = {}
        BY <1>2, <2>1 DEF IdOf, IsRequest
    <2>3. SupIds(w)' = SupIds(w) /\ NoDup(supBox'[w])
        BY <1>0, <2>1, <2>2, IdsTail DEF SupIds, OwnIds
    <2>4. CurrentIds(w)' = CurrentIds(w)
        BY <1>2 DEF CurrentIds
    <2> QED BY <1>1, <1>2, <2>3, <2>4
<1>3. ASSUME UNCHANGED actBox PROVE NoDup(actBox'[w]) /\ ActIds(w)' = ActIds(w)
    BY <1>3 DEF OwnIds, ActIds
<1>4. ASSUME PIdReceived(w) \/ RExceptionReceived(w) \/ KillReceived(w)
             \/ PoisonPillReceived(w)
      PROVE  Effect
    <2>0. {"PId", "RException", "Kill", "PoisonPill"} \cap RequestKind = {}
        BY DEF RequestKind
    <2>1. CASE PIdReceived(w)
        BY <1>2, <1>3, <2>0, <2>1 DEF PIdReceived
    <2>2. CASE RExceptionReceived(w)
        BY <1>2, <1>3, <2>0, <2>2 DEF RExceptionReceived
    <2>3. CASE KillReceived(w)
        BY <1>2, <1>3, <2>0, <2>3 DEF KillReceived
    <2>4. CASE PoisonPillReceived(w)
        BY <1>2, <1>3, <2>0, <2>4 DEF PoisonPillReceived
    <2> QED BY <1>4, <2>1, <2>2, <2>3, <2>4
<1>5. ASSUME FinishReceived(w) PROVE Effect
    <2>1. actBox'[w] = Append(actBox[w], Kill) \/ actBox'[w] = actBox[w]
        BY <1>0, <1>5, TellChildType, ActMessages DEF FinishReceived
    <2>2. IdOf(Kill) = {}
        BY ActMessages DEF IdOf
    <2>3. NoDup(actBox'[w]) /\ ActIds(w)' = ActIds(w)
        <3>1. NoDup(actBox[w])
            BY DEF OwnIds
        <3>2. CASE actBox'[w] = Append(actBox[w], Kill)
            <4>1. /\ RequestIds(Append(actBox[w], Kill)) = RequestIds(actBox[w])
                  /\ NoDup(Append(actBox[w], Kill))
                BY <1>0, <2>2, <3>1, IdsAppend
            <4> QED BY <3>2, <4>1, Zenon DEF ActIds
        <3>3. CASE actBox'[w] = actBox[w]
            BY <3>1, <3>3, Zenon DEF ActIds
        <3> QED BY <2>1, <3>2, <3>3
    <2> QED BY <1>2, <1>5, <2>3 DEF FinishReceived, RequestKind
\* A request moves on to the child, or is lost if the child is.
<1>6. ASSUME RequestReceived(w) PROVE Effect
    <2> DEFINE h == Head(supBox[w])
    <2>1. PICK kind \in RequestKind : SupReceives(w, kind) /\ TellChild(w, h)
        BY <1>6 DEF RequestReceived
    <2>2. /\ supBox'[w] = Tail(supBox[w]) /\ supBox[w] # <<>> /\ h \in RRequestMessage
          /\ h \in ActMessage /\ IdOf(h) = {h.id}
        BY <1>0, <2>1, Received, SupMessages, ActMessages DEF IdOf
    <2>3. /\ SupIds(w) = SupIds(w)' \cup {h.id} /\ h.id \notin SupIds(w)'
          /\ NoDup(supBox'[w])
        BY <1>0, <2>2, IdsTail DEF SupIds, OwnIds
    <2>4. CurrentIds(w)' = CurrentIds(w) /\ answers' = answers /\ actState' = actState
        BY <1>6 DEF RequestReceived, CurrentIds
    <2> HIDE DEF h
    <2>5. CASE actBox'[w] = Append(actBox[w], h)
        <3>1. RequestIds(actBox[w]) \cap IdOf(h) = {}
            BY <2>2, <2>3 DEF OwnIds, ActIds
        <3>2. ActIds(w)' = ActIds(w) \cup {h.id} /\ NoDup(actBox'[w])
            BY <1>0, <2>2, <2>5, <3>1, IdsAppend DEF ActIds, OwnIds
        <3>3. OwnIds(w)'
            BY <2>3, <2>4, <3>2 DEF OwnIds
        <3>4. Held(w)' = Held(w)
            BY <2>3, <2>4, <3>2 DEF Held, SupIds, ActIds
        <3> QED BY <2>4, <3>3, <3>4 DEF Kept
    <2>6. CASE actState[w] = "stopped" /\ actBox'[w] = actBox[w]
        <3>1. ActIds(w)' = ActIds(w) /\ NoDup(actBox'[w])
            BY <2>6 DEF ActIds, OwnIds
        <3>2. OwnIds(w)'
            BY <2>3, <2>4, <3>1 DEF OwnIds
        <3>3. Held(w)' \subseteq Held(w)
            BY <2>3, <2>4, <3>1 DEF Held, SupIds, ActIds
        <3> QED BY <2>4, <2>6, <3>2, <3>3 DEF LostChild
    <2> QED BY <1>0, <2>1, <2>2, <2>5, <2>6, TellChildType
\* The child is stopped: its mailbox and its message are lost.
<1>7. ASSUME ChildStops(w) \/ ChildGivenUp(w) PROVE Effect
    <2>1. StopChild(w) /\ UNCHANGED <<supBox, answers>>
        BY <1>7 DEF ChildStops, ChildGivenUp
    <2>2. actBox'[w] = <<>> /\ currentMessage'[w] = None /\ actState'[w] = "stopped"
        BY <1>0, <2>1, StopChildType
    <2>3. ActIds(w)' = {} /\ NoDup(actBox'[w]) /\ CurrentIds(w)' = {}
        BY <2>2, IdsEmpty DEF ActIds, CurrentIds
    <2>4. SupIds(w)' = SupIds(w) /\ NoDup(supBox'[w])
        BY <2>1 DEF SupIds, OwnIds
    <2>5. OwnIds(w)' /\ Held(w)' \subseteq Held(w)
        BY <2>3, <2>4 DEF OwnIds, Held, SupIds, ActIds
    <2> QED BY <2>1, <2>2, <2>5 DEF LostChild
<1>8. ASSUME SupStopped(w) PROVE Effect
    <2>1. /\ supBox'[w] = <<>> /\ UNCHANGED <<actBox, currentMessage, answers>>
          /\ actState'[w] = "stopped"
        BY <1>0, <1>8 DEF SupStopped, WorkerTypeOK, ChildSound
    <2>2. SupIds(w)' = {} /\ NoDup(supBox'[w])
        BY <2>1, IdsEmpty DEF SupIds
    <2>3. /\ ActIds(w)' = ActIds(w) /\ NoDup(actBox'[w])
          /\ CurrentIds(w)' = CurrentIds(w)
        BY <2>1 DEF ActIds, CurrentIds, OwnIds
    <2>4. OwnIds(w)' /\ Held(w)' \subseteq Held(w)
        BY <2>2, <2>3 DEF OwnIds, Held, SupIds, ActIds
    <2> QED BY <2>1, <2>4 DEF LostChild
\* The handler ends with an answer.
<1>9. ASSUME NEW id, CurrentIds(w) = {id}, Answer(id), CurrentIds(w)' = {},
             UNCHANGED <<supBox, actBox>>
      PROVE  Effect
    <2>1. /\ SupIds(w)' = SupIds(w) /\ NoDup(supBox'[w])
          /\ ActIds(w)' = ActIds(w) /\ NoDup(actBox'[w])
        BY <1>9 DEF SupIds, ActIds, OwnIds
    <2>2. OwnIds(w)'
        BY <1>9, <2>1 DEF OwnIds
    <2>3. id \in Held(w) /\ Held(w)' = Held(w) \ {id}
        BY <1>9, <2>1 DEF OwnIds, Held, SupIds, ActIds
    <2> QED BY <1>9, <2>2, <2>3 DEF AnsweredOne
<1>10. ASSUME UploadEnds(w) \/ REvalOk(w) \/ NothingToAssign(w) \/ ScriptFails(w)
       PROVE  Effect
    <2>1. /\ actState[w] \in {"inR", "upload"} /\ AnswerAndIdle(w)
          /\ UNCHANGED <<supBox, actBox>>
        BY <1>10 DEF UploadEnds, REvalOk, NothingToAssign, ScriptFails
    <2>2. CurrentIds(w) = {currentMessage[w].id}
        BY <1>0, <2>1, CurrentIdsOf DEF ChildSound
    <2>3. Answer(currentMessage[w].id) /\ currentMessage'[w] = None
        BY <1>0, <2>1 DEF AnswerAndIdle, WorkerTypeOK
    <2>4. CurrentIds(w)' = {}
        BY <2>3 DEF CurrentIds
    <2> QED BY <1>9, <2>1, <2>2, <2>3, <2>4
<1>11. ASSUME ChildRestarts(w) PROVE Effect
    <2> DEFINE m == currentMessage[w]
    <2>1. /\ m \in ActMessage /\ currentMessage'[w] = None /\ UNCHANGED actBox
          /\ TellSenderOfFailure(w)
        BY <1>0, <1>11 DEF ChildRestarts, ChildSound, WorkerTypeOK
    <2>2. CurrentIds(w) = IdOf(m) /\ CurrentIds(w)' = {}
        <3>1. CurrentIds(w)' = {}
            BY <2>1 DEF CurrentIds
        <3> QED BY <2>1, <3>1, CurrentIdsOf
    <2>3. CASE IsRequest(m)
        BY <1>9, <2>1, <2>2, <2>3 DEF TellSenderOfFailure, IdOf
    <2>4. CASE ~IsRequest(m)
        <3>1. supBox'[w] = Append(supBox[w], RException) /\ answers' = answers
            BY <1>0, <2>1, <2>4 DEF TellSenderOfFailure, Tell, WorkerTypeOK
        <3>2. IdOf(RException) = {} /\ CurrentIds(w) = {}
            BY <2>2, <2>4 DEF IdOf, IsRequest, RException, RequestKind
        <3>3. SupIds(w)' = SupIds(w) /\ NoDup(supBox'[w])
            BY <1>0, <3>1, <3>2, IdsAppend DEF SupIds, OwnIds
        <3> QED BY <1>1, <1>3, <2>1, <2>2, <3>1, <3>2, <3>3
    <2> QED BY <2>3, <2>4
<1>12. ASSUME ActorReceives(w) PROVE Effect
    <2> DEFINE h == Head(actBox[w])
    <2>1. /\ actBox[w] # <<>> /\ actBox'[w] = Tail(actBox[w]) /\ currentMessage'[w] = h
          /\ UNCHANGED <<supBox, answers>> /\ actState[w] = "idle"
        BY <1>0, <1>12 DEF ActorReceives, WorkerTypeOK
    <2>2. h \in ActMessage
        BY <1>0, <2>1, HeadTailProperties
    <2>3. CurrentIds(w) = {}
        BY <1>0, <2>1, CurrentIdsOf DEF ChildSound, AtRest
    <2>4. CurrentIds(w)' = IdOf(h)
        BY <2>1, <2>2, ActMessages DEF CurrentIds, IdOf
    <2>5. /\ ActIds(w) = ActIds(w)' \cup IdOf(h) /\ ActIds(w)' \cap IdOf(h) = {}
          /\ NoDup(actBox'[w])
        BY <1>0, <2>1, IdsTail DEF ActIds, OwnIds
    <2>6. SupIds(w)' = SupIds(w) /\ NoDup(supBox'[w])
        BY <2>1 DEF SupIds, OwnIds
    <2> HIDE DEF h
    <2>7. OwnIds(w)'
        BY <2>4, <2>5, <2>6 DEF OwnIds
    <2>8. Held(w)' = Held(w)
        BY <2>3, <2>4, <2>5, <2>6 DEF Held, SupIds, ActIds
    <2> QED BY <2>1, <2>7, <2>8 DEF Kept
<1>13. ASSUME Connected(w) PROVE Effect
    <2>1. PICK p \in Pid : supBox'[w] = Append(supBox[w], PId(p))
        BY <1>0, <1>13 DEF Connected, FreshPid, Tell, WorkerTypeOK
    <2>2. IdOf(PId(p)) = {}
        BY SupMessages DEF IdOf, IsRequest, RequestKind
    <2>3. SupIds(w)' = SupIds(w) /\ NoDup(supBox'[w])
        BY <1>0, <2>1, <2>2, IdsAppend DEF SupIds, OwnIds
    <2>4. UNCHANGED <<actBox, currentMessage, answers>>
        BY <1>13 DEF Connected
    <2>5. CurrentIds(w)' = CurrentIds(w)
        BY <2>4 DEF CurrentIds
    <2> QED BY <1>1, <1>3, <2>3, <2>4, <2>5
<1>14. ASSUME UNCHANGED <<supBox, actBox, currentMessage, answers>> PROVE Effect
    <2>1. /\ SupIds(w)' = SupIds(w) /\ NoDup(supBox'[w]) /\ CurrentIds(w)' = CurrentIds(w)
        BY <1>14 DEF SupIds, OwnIds, CurrentIds
    <2> QED BY <1>1, <1>3, <1>14, <2>1
<1>15. ASSUME StopReceived(w) \/ SupRestarted(w) \/ ChildReconnects(w) \/ ChildEscalates(w)
              \/ Downloaded(w) \/ DownloadFails(w) \/ ScriptRan(w) \/ REvalFails(w)
              \/ ConnectFails(w) \/ EnvironmentStep(w)
       PROVE  Effect
    BY <1>14, <1>15 DEF StopReceived, SupRestarted, ChildReconnects, ChildEscalates,
        Downloaded, DownloadFails, ScriptRan, REvalFails, ConnectFails, EnvironmentStep,
        RCrashes, RetryWindowEnds
<1> HIDE DEF Effect
<1>16. Effect
    BY <1>4, <1>5, <1>6, <1>7, <1>8, <1>10, <1>11, <1>12, <1>13, <1>15
       DEF WorkerStep, SupervisorStep, ActorStep, RStep, ConnectStep
<1> QED BY <1>16 DEF Effect

\* The requests of all workers: no two have the same one, and what they hold has
\* been numbered and not been answered.
IdsInv ==
    /\ \A w \in Supervisor : OwnIds(w)
    /\ \A v, w \in Supervisor : v # w => Held(v) \cap Held(w) = {}
    /\ \A w \in Supervisor : \A id \in Held(w) : id \in MsgId /\ id <= handled /\ answers[id] = 0
    /\ \A id \in MsgId : answers[id] <= 1 /\ (id > handled => answers[id] = 0)

LEMMA IdsInvWorker ==
    ASSUME SoundInv, IdsInv, NEW w \in Supervisor, WorkerStep(w), UNCHANGED masterVars
    PROVE  IdsInv'
<1>1. OwnIds(w)' /\ (Kept(w) \/ LostChild(w) \/ AnsweredOne(w))
    BY RequestEffects DEF IdsInv
<1>2. ASSUME NEW v \in Supervisor, v # w PROVE Held(v)' = Held(v) /\ OwnIds(v)'
    <2>1. Frame(v)
        BY <1>2, WorkerFrame DEF SoundInv
    <2>2. SupIds(v)' = SupIds(v) /\ ActIds(v)' = ActIds(v) /\ CurrentIds(v)' = CurrentIds(v)
        BY <2>1 DEF Frame, SupIds, ActIds, CurrentIds
    <2>3. Held(v)' = Held(v)
        BY <2>2 DEF Held, SupIds, ActIds
    <2>4. NoDup(supBox'[v]) /\ NoDup(actBox'[v])
        BY <2>1 DEF Frame, IdsInv, OwnIds
    <2> QED BY <2>2, <2>3, <2>4 DEF IdsInv, OwnIds
<1>3. Held(w)' \subseteq Held(w)
    BY <1>1 DEF Kept, LostChild, AnsweredOne
<1>4. handled' = handled /\ answers \in [MsgId -> Nat]
    <2>1. UNCHANGED routeVars
        BY SupervisorType, ChildType DEF WorkerStep, SoundInv
    <2> QED BY <2>1 DEF routeVars, SoundInv, MasterTypeOK
<1>5. \A v \in Supervisor : OwnIds(v)'
    BY <1>1, <1>2
<1>6. \A v, x \in Supervisor : v # x => Held(v)' \cap Held(x)' = {}
    BY <1>2, <1>3 DEF IdsInv
<1>7. CASE answers' = answers
    BY <1>2, <1>3, <1>4, <1>5, <1>6, <1>7 DEF IdsInv
<1>8. CASE AnsweredOne(w)
    <2>1. PICK id \in Held(w) : Answer(id) /\ Held(w)' = Held(w) \ {id}
        BY <1>8 DEF AnsweredOne
    <2>2. /\ id \in MsgId /\ id <= handled /\ answers[id] = 0
          /\ \A v \in Supervisor : v # w => id \notin Held(v)
        BY <2>1 DEF IdsInv
    <2>3. answers'[id] = 1 /\ \A x \in MsgId \ {id} : answers'[x] = answers[x]
        BY <1>4, <2>1, <2>2 DEF Answer
    <2>4. \A v \in Supervisor : id \notin Held(v)' /\ Held(v)' \subseteq Held(v)
        BY <1>2, <1>3, <2>1, <2>2
    <2>5. \A v \in Supervisor : \A x \in Held(v)' :
             x \in MsgId /\ x <= handled' /\ answers'[x] = 0
        BY <1>4, <2>3, <2>4 DEF IdsInv
    <2>6. \A x \in MsgId : answers'[x] <= 1 /\ (x > handled' => answers'[x] = 0)
        BY <1>4, <2>2, <2>3 DEF IdsInv, MsgId, SoundInv, MasterTypeOK
    <2> QED BY <1>5, <1>6, <2>5, <2>6 DEF IdsInv
<1> QED BY <1>1, <1>7, <1>8 DEF Kept, LostChild

\* The master gives at most one worker at most one more request, the one that it
\* handles; it takes none away.
GivenTo(v) == /\ Held(v)' = Held(v) \cup {thisMsg}
              /\ \A x \in Supervisor \ {v} : Held(x)' = Held(x)
              /\ ReceiveFromClient /\ UNCHANGED answers

LEMMA MasterGives ==
    ASSUME SoundInv, IdsInv, MasterStep
    PROVE  /\ \A v \in Supervisor : OwnIds(v)'
           /\ \/ \A v \in Supervisor : Held(v)' = Held(v)
              \/ \E v \in Supervisor : GivenTo(v)
<1>0. /\ supBox \in [Supervisor -> Seq(SupMessage)] /\ MasterNext /\ MasterTypeOK
      /\ BoundHasEpoch /\ UNCHANGED <<actBox, currentMessage>>
    BY DEF SoundInv, WorkerTypeOK, MasterStep, workerVars, actVars
<1>1. \A v \in Supervisor : ToldNothing(v) \/ ToldToEnd(v) \/ ToldToWork(v)
    BY <1>0, MasterTells
<1>2. \A v \in Supervisor : ActIds(v)' = ActIds(v) /\ CurrentIds(v)' = CurrentIds(v)
                            /\ NoDup(actBox'[v])
    BY <1>0 DEF ActIds, CurrentIds, IdsInv, OwnIds
<1>3. ASSUME NEW v \in Supervisor, ToldNothing(v) \/ ToldToEnd(v)
      PROVE  OwnIds(v)' /\ Held(v)' = Held(v)
    <2>1. SupIds(v)' = SupIds(v) /\ NoDup(supBox'[v])
        <3>1. CASE ToldNothing(v)
            BY <3>1 DEF ToldNothing, SupIds, IdsInv, OwnIds
        <3>2. CASE ToldToEnd(v)
            <4>1. PICK m \in EndMessage : supBox'[v] = Append(supBox[v], m)
                BY <3>2 DEF ToldToEnd
            <4>2. m \in SupMessage /\ IdOf(m) = {}
                BY MessageTypes, SupMessages DEF IdOf, IsRequest
            <4>3. supBox[v] \in Seq(SupMessage) /\ NoDup(supBox[v])
                BY <1>0 DEF IdsInv, OwnIds
            <4>4. /\ RequestIds(supBox'[v]) = RequestIds(supBox[v]) /\ NoDup(supBox'[v])
                BY <4>1, <4>2, <4>3, IdsAppend
            <4> QED BY <4>4 DEF SupIds
        <3> QED BY <1>3, <3>1, <3>2
    <2>2. OwnIds(v)'
        BY <1>2, <2>1 DEF IdsInv, OwnIds
    <2>3. Held(v)' = Held(v)
        BY <1>2, <2>1 DEF Held, SupIds, ActIds
    <2> QED BY <2>2, <2>3
<1>4. ASSUME NEW v \in Supervisor, ToldToWork(v) PROVE OwnIds(v)' /\ GivenTo(v)
    <2>1. PICK m \in RRequestMessage : supBox'[v] = Append(supBox[v], m) /\ m.id = thisMsg
        BY <1>4 DEF ToldToWork
    <2>2. /\ ReceiveFromClient /\ UNCHANGED answers
          /\ \A x \in Supervisor \ {v} : ToldNothing(x)
        BY <1>4 DEF ToldToWork
    <2>3. m \in SupMessage /\ IdOf(m) = {thisMsg}
        BY <2>1, MessageTypes, SupMessages DEF IdOf, IsRequest
    <2>4. thisMsg \notin Held(v)
        BY <1>0 DEF IdsInv, thisMsg, MsgId, MasterTypeOK
    <2>5. RequestIds(supBox[v]) \cap IdOf(m) = {}
        BY <2>3, <2>4 DEF Held
    <2>6. SupIds(v)' = SupIds(v) \cup {thisMsg} /\ NoDup(supBox'[v])
        BY <1>0, <2>1, <2>3, <2>5, IdsAppend DEF SupIds, IdsInv, OwnIds
    <2>7. OwnIds(v)'
        BY <1>2, <2>4, <2>6 DEF IdsInv, OwnIds, Held, SupIds, ActIds
    <2>8. Held(v)' = Held(v) \cup {thisMsg}
        BY <1>2, <2>6 DEF Held, SupIds, ActIds
    <2> QED BY <1>3, <2>2, <2>7, <2>8 DEF GivenTo
<1> QED BY <1>1, <1>3, <1>4

LEMMA IdsInvMaster == ASSUME SoundInv, IdsInv, MasterStep PROVE IdsInv'
<1>1. /\ \A v \in Supervisor : OwnIds(v)'
      /\ (\A v \in Supervisor : Held(v)' = Held(v)) \/ \E v \in Supervisor : GivenTo(v)
    BY MasterGives
<1>2. \/ UNCHANGED <<handled, answers>>
      \/ ReceiveFromClient /\ (UNCHANGED answers \/ Answer(thisMsg))
    BY MasterCounts DEF MasterStep
<1>3. /\ handled \in 0..MaxMsgs /\ MaxMsgs \in Nat /\ answers \in [MsgId -> Nat]
      /\ ReceiveFromClient => thisMsg \in MsgId /\ handled' = thisMsg
    BY NumberOfMessage, MailboxAssumption DEF SoundInv, MasterTypeOK, ReceiveFromClient, thisMsg
<1>4. \A id \in MsgId : id \in Nat
    BY DEF MsgId
<1>5. CASE \A v \in Supervisor : Held(v)' = Held(v)
    <2>1. \A v, x \in Supervisor : v # x => Held(v)' \cap Held(x)' = {}
        BY <1>5 DEF IdsInv
    <2>2. ASSUME UNCHANGED <<handled, answers>> PROVE IdsInv'
        BY <1>1, <1>5, <2>1, <2>2 DEF IdsInv
    <2>3. ASSUME ReceiveFromClient, UNCHANGED answers \/ Answer(thisMsg)
          PROVE  IdsInv'
        <3>1. \A id \in MsgId : id # thisMsg => answers'[id] = answers[id]
            BY <1>3, <2>3 DEF Answer
        <3>2. answers'[thisMsg] <= 1
            BY <1>3, <2>3 DEF Answer, IdsInv, thisMsg
        <3>3. \A v \in Supervisor : \A id \in Held(v)' :
                 id \in MsgId /\ id <= handled' /\ answers'[id] = 0
            BY <1>3, <1>4, <1>5, <2>3, <3>1 DEF IdsInv, thisMsg
        <3>4. \A id \in MsgId : answers'[id] <= 1 /\ (id > handled' => answers'[id] = 0)
            BY <1>3, <1>4, <2>3, <3>1, <3>2 DEF IdsInv, thisMsg
        <3> QED BY <1>1, <2>1, <3>3, <3>4 DEF IdsInv
    <2> QED BY <1>2, <2>2, <2>3
<1>6. ASSUME NEW v \in Supervisor, GivenTo(v) PROVE IdsInv'
    <2>1. /\ Held(v)' = Held(v) \cup {thisMsg} /\ ReceiveFromClient /\ UNCHANGED answers
          /\ \A x \in Supervisor \ {v} : Held(x)' = Held(x)
        BY <1>6 DEF GivenTo
    <2>2. \A x \in Supervisor : thisMsg \notin Held(x)
        BY <1>3, <1>4 DEF IdsInv, thisMsg
    <2>3. \A x, y \in Supervisor : x # y => Held(x)' \cap Held(y)' = {}
        BY <2>1, <2>2 DEF IdsInv
    <2>4. answers[thisMsg] = 0
        BY <1>3, <1>4, <2>1 DEF IdsInv, thisMsg
    <2>5. \A x \in Supervisor : \A id \in Held(x)' :
             id \in MsgId /\ id <= handled' /\ answers'[id] = 0
        BY <1>3, <1>4, <2>1, <2>4 DEF IdsInv, thisMsg
    <2>6. \A id \in MsgId : answers'[id] <= 1 /\ (id > handled' => answers'[id] = 0)
        BY <1>3, <1>4, <2>1 DEF IdsInv, thisMsg
    <2> QED BY <1>1, <2>3, <2>5, <2>6 DEF IdsInv
<1> QED BY <1>1, <1>5, <1>6

LEMMA IdsInvInit == Init => IdsInv
<1> SUFFICES ASSUME Init PROVE IdsInv
    OBVIOUS
<1>1. \A w \in Supervisor : SupIds(w) = {} /\ ActIds(w) = {} /\ CurrentIds(w) = {}
                            /\ NoDup(supBox[w]) /\ NoDup(actBox[w])
    BY IdsEmpty DEF Init, MasterInit, WorkerInit, SupIds, ActIds, CurrentIds
<1>2. \A w \in Supervisor : Held(w) = {} /\ OwnIds(w)
    BY <1>1 DEF Held, SupIds, ActIds, OwnIds
<1>3. \A id \in MsgId : answers[id] = 0
    BY DEF Init, MasterInit
<1> QED BY <1>2, <1>3 DEF IdsInv

LEMMA HeldStutter == UNCHANGED vars => \A w \in Supervisor : Held(w)' = Held(w) /\ OwnIds(w)' = OwnIds(w)
<1> USE DEF vars, workerVars, actVars
<1>1. UNCHANGED vars => \A w \in Supervisor : /\ SupIds(w)' = SupIds(w) /\ ActIds(w)' = ActIds(w)
                                              /\ CurrentIds(w)' = CurrentIds(w)
                                              /\ NoDup(supBox[w])' = NoDup(supBox[w])
                                              /\ NoDup(actBox[w])' = NoDup(actBox[w])
    BY DEF SupIds, ActIds, CurrentIds, NoDup
<1> QED BY <1>1 DEF Held, OwnIds, SupIds, ActIds

LEMMA IdsInvAlways == Spec => []IdsInv
<1>1. SoundInv /\ IdsInv /\ UNCHANGED vars => IdsInv'
    BY HeldStutter DEF IdsInv, vars, clientVars, routeVars
<1>2. SoundInv /\ IdsInv /\ [Next]_vars => IdsInv'
    BY <1>1, IdsInvWorker, IdsInvMaster DEF Next
<1> QED BY <1>2, IdsInvInit, SoundInvAlways, PTL DEF Spec

\* However workers fail, restart or are stopped, and whatever the timers race
\* with, no request gets a second answer, and none is answered while it is still
\* in a mailbox or in the hands of a child.
THEOREM RequestsAnsweredOnce == Spec => []AnsweredOnce
<1>1. IdsInv => AnsweredOnce
    BY DEF IdsInv, AnsweredOnce, InFlight
<1> QED BY <1>1, IdsInvAlways, PTL

\* A request leaves the mailboxes and the hands of its worker in the step that
\* answers it, or because the child has been stopped for good: the mailbox that
\* Akka keeps over the restarts of a child loses nothing.
THEOREM NoRequestIsLost == Spec => NoRequestLost
<1> DEFINE Safe == \A w \in Supervisor : \A id \in Held(w) \ Held(w)' :
                      answers'[id] = 1 \/ actState'[w] = "stopped"
<1>1. ASSUME SoundInv, IdsInv, NEW w \in Supervisor, WorkerStep(w) PROVE Safe
    <2>1. \A v \in Supervisor : v # w => Held(v)' = Held(v)
        <3> SUFFICES ASSUME NEW v \in Supervisor, v # w PROVE Held(v)' = Held(v)
            OBVIOUS
        <3>1. Frame(v)
            BY <1>1, WorkerFrame DEF SoundInv
        <3> QED BY <3>1 DEF Frame, Held, CurrentIds
    <2>2. Kept(w) \/ LostChild(w) \/ AnsweredOne(w)
        BY <1>1, RequestEffects DEF IdsInv
    <2>3. \A id \in Held(w) : Answer(id) => answers'[id] = 1
        BY <1>1 DEF IdsInv, Answer, SoundInv, MasterTypeOK
    <2> QED BY <2>1, <2>2, <2>3 DEF Kept, LostChild, AnsweredOne
<1>2. ASSUME SoundInv, IdsInv, MasterStep PROVE Safe
    BY <1>2, MasterGives DEF GivenTo
<1>3. UNCHANGED vars => Safe
    BY HeldStutter
<1> HIDE DEF Safe
<1>4. SoundInv /\ IdsInv /\ [Next]_vars => [Safe]_vars
    BY <1>1, <1>2, <1>3 DEF Next
<1> QED BY <1>4, SoundInvAlways, IdsInvAlways, PTL DEF Spec, NoRequestLost, Safe
=============================================================================
