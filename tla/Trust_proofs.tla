----------------------------- MODULE Trust_proofs -----------------------------
(***************************************************************************)
(* Why a client that has been told of no exception finds its data in R.    *)
(*                                                                         *)
(* An R process that a session has used is replaced only when the session  *)
(* is told of an exception, or when the session has ended.  The second     *)
(* case is harmless if no request of the session is left behind its own    *)
(* end: the invariant says that the pipeline of a worker never returns to  *)
(* a session, and that what is behind an end has never been acknowledged.  *)
(*                                                                         *)
(* A checked exception of the file transfer breaks this (the supervisor    *)
(* restarts with its session open, and nobody is told), and so does a      *)
(* session timer: both are excluded below.                                 *)
(***************************************************************************)
EXTENDS Sessions_proofs

\* No session comes again behind an end.
Once(s) ==
    \A i, j \in DOMAIN s :
        i < j /\ IsRequest(s[i]) /\ IsRequest(s[j]) /\ (\E k \in i..j : EndsSession(s[k]))
          => s[i].epoch # s[j].epoch

ChildEpochs(w)  == Data(w) \cup Epochs(actBox[w])
WorkerEpochs(w) == ChildEpochs(w) \cup Epochs(supBox[w])
AllEpochs(w)    == WorkerEpochs(w) \cup BoundEpochs(w)

\* A mailbox s has of the sessions `had' by its readers only the open one, and that
\* before its first end.
NoReturn(had, open, s) == had \cap Epochs(s) \subseteq open \cap FrontOf(s)

ForwardOnly(w) ==
    /\ Once(actBox[w]) /\ Once(supBox[w])
    /\ NoReturn(Data(w), OpenData(w), actBox[w])
    /\ NoReturn(ChildEpochs(w), Handed(w), supBox[w])
    /\ WorkerEpochs(w) \cap BoundEpochs(w) \subseteq WorkerOpen(w)

\* The sessions that an end separates from the child.
Late(w) == IF supState[w] = "up"
           THEN (Epochs(supBox[w]) \ FrontOf(supBox[w]))
                  \cup IF Ends(supBox[w]) THEN BoundEpochs(w) ELSE {}
           ELSE Epochs(supBox[w]) \cup BoundEpochs(w)

Pending(w) == InHand(w) \cup Epochs(actBox[w]) \cup FrontOf(supBox[w]) \cup BoundEpochs(w)

\* The trust of the sessions of w is deserved.
Deserved(w) ==
    /\ Late(w) \cap trusting = {}
    /\ actState[w] # "stopped" => Pending(w) \cap trusting \subseteq Memory(w)
    /\ actState[w] = "upload" => InHand(w) \subseteq Memory(w)

\* No worker has a session of another one, and nobody trusts a session that has
\* not begun.
Trustworthy ==
    /\ stopAsked = {}
    /\ \A w \in Supervisor : ForwardOnly(w) /\ Deserved(w) /\ actState[w] # "failedIO"
    /\ \A v, w \in Supervisor : v # w => AllEpochs(v) \cap AllEpochs(w) = {}
    /\ trusting \subseteq 1..handled
    /\ \A w \in Supervisor : AllEpochs(w) \subseteq 1..handled

TrustInv == timeouts = 0 => Trustworthy
-----------------------------------------------------------------------------
(* Mailboxes that do not return to a session                               *)

LEMMA OnceAppend ==
    ASSUME NEW S, NEW s \in Seq(S), NEW m, Once(s), Epochs(s) \cap EpochOf(m) \subseteq BackOf(s)
    PROVE  Once(Append(s, m))
<1> DEFINE t == Append(s, m)
           n == Len(s)
<1>0. /\ n \in Nat /\ DOMAIN s = 1..n /\ DOMAIN t = 1..(n + 1)
      /\ \A i \in 1..n : t[i] = s[i]
      /\ t[n + 1] = m
    BY AppendShape
<1>s. Len(s) = n
    OBVIOUS
<1> HIDE DEF t, n
<1> SUFFICES ASSUME NEW i \in 1..(n + 1), NEW j \in 1..(n + 1), i < j, IsRequest(t[i]),
                    IsRequest(t[j]), NEW k \in i..j, EndsSession(t[k]), t[i].epoch = t[j].epoch
             PROVE  FALSE
    BY <1>0 DEF Once, t
<1>1. i \in 1..n /\ t[i] = s[i]
    BY <1>0
<1>2. CASE j \in 1..n
    <2>1. t[j] = s[j] /\ t[k] = s[k]
        BY <1>0, <1>1, <1>2
    <2> QED BY <1>0, <1>1, <1>2, <2>1 DEF Once
<1>3. CASE j = n + 1
    <2>1. k \in i..n /\ EndsSession(s[k])
        BY <1>0, <1>1, <1>3, RequestsDoNotEnd
    <2>2. s[i].epoch \in Epochs(s) /\ s[i].epoch \in EpochOf(m)
        BY <1>0, <1>1, <1>3, InEpochs DEF EpochOf
    <2>z. s[i].epoch \in BackOf(s)
        BY <2>2
    <2>3. PICK x \in 1..n : /\ IsRequest(s[x]) /\ s[x].epoch = s[i].epoch
                            /\ \A y \in x..n : ~EndsSession(s[y])
        <3>1. \E x \in DOMAIN s : /\ IsRequest(s[x]) /\ s[x].epoch = s[i].epoch
                                  /\ \A y \in x..Len(s) : ~EndsSession(s[y])
            BY <2>z, InEpochs, Zenon
        <3> QED BY <1>0, <1>s, <3>1, Zenon
    <2>4. k \in i..x /\ i < x
        BY <1>0, <1>1, <2>1, <2>3
    <2> QED BY <1>0, <1>1, <2>1, <2>3, <2>4 DEF Once
<1> QED BY <1>0, <1>2, <1>3

LEMMA OnceTail ==
    ASSUME NEW S, NEW s \in Seq(S), s # <<>>, Once(s)
    PROVE  /\ Once(Tail(s))
           /\ Epochs(Tail(s)) \cap EpochOf(Head(s)) \subseteq FrontOf(Tail(s))
<1> DEFINE t == Tail(s)
           n == Len(s)
<1>0. /\ n \in Nat /\ n > 0 /\ DOMAIN s = 1..n /\ DOMAIN t = 1..(n - 1) /\ Head(s) = s[1]
      /\ \A i \in 1..(n - 1) : t[i] = s[i + 1]
    BY TailShape
<1> HIDE DEF t, n
<1>1. Once(t)
    <2> SUFFICES ASSUME NEW i \in 1..(n - 1), NEW j \in 1..(n - 1), i < j, IsRequest(t[i]),
                        IsRequest(t[j]), NEW k \in i..j, EndsSession(t[k])
                 PROVE  t[i].epoch # t[j].epoch
        BY <1>0 DEF Once
    <2>1. /\ i + 1 \in 1..n /\ j + 1 \in 1..n /\ i + 1 < j + 1 /\ k + 1 \in (i + 1)..(j + 1)
          /\ t[i] = s[i + 1] /\ t[j] = s[j + 1] /\ t[k] = s[k + 1]
        BY <1>0
    <2>2. IsRequest(s[i + 1]) /\ IsRequest(s[j + 1]) /\ EndsSession(s[k + 1])
        BY <2>1, Zenon
    <2>3. s[i + 1].epoch # s[j + 1].epoch
        BY <1>0, <2>1, <2>2, Zenon DEF Once
    <2> QED BY <2>1, <2>3, Zenon
<1>2. ASSUME NEW e \in Epochs(t), e \in EpochOf(s[1]) PROVE e \in FrontOf(t)
    <2>1. PICK j \in 1..(n - 1) : IsRequest(t[j]) /\ t[j].epoch = e
        BY <1>0, InEpochs
    <2>2. IsRequest(s[1]) /\ s[1].epoch = e
        BY <1>2 DEF EpochOf
    <2>3. /\ j + 1 \in 1..n /\ 1 < j + 1 /\ t[j] = s[j + 1]
          /\ \A k \in 1..j : k + 1 \in 1..(j + 1) /\ t[k] = s[k + 1]
        BY <1>0
    <2>4. \A k \in 1..j : ~EndsSession(t[k])
        <3> SUFFICES ASSUME NEW k \in 1..j, EndsSession(t[k]) PROVE FALSE
            OBVIOUS
        <3>1. k + 1 \in 1..(j + 1) /\ EndsSession(s[k + 1]) /\ 1 \in 1..n
            BY <1>0, <2>3
        <3>2. s[1].epoch # s[j + 1].epoch
            BY <1>0, <2>1, <2>2, <2>3, <3>1 DEF Once
        <3> QED BY <2>1, <2>2, <2>3, <3>2
    <2> QED BY <1>0, <2>1, <2>4, InEpochs
<1> QED BY <1>0, <1>1, <1>2 DEF t

LEMMA OnceApart ==
    ASSUME NEW S, NEW s \in Seq(S), Once(s), Ends(s)
    PROVE  FrontOf(s) \cap BackOf(s) = {}
<1> DEFINE n == Len(s)
<1>0. n \in Nat /\ DOMAIN s = 1..n /\ Len(s) = n
    OBVIOUS
<1> HIDE DEF n
<1> SUFFICES ASSUME NEW e \in FrontOf(s), e \in BackOf(s) PROVE FALSE
    OBVIOUS
<1>1. PICK i \in 1..n : /\ IsRequest(s[i]) /\ s[i].epoch = e
                        /\ \A k \in 1..i : ~EndsSession(s[k])
    BY <1>0, InEpochs
<1>2. PICK j \in 1..n : /\ IsRequest(s[j]) /\ s[j].epoch = e
                        /\ \A k \in j..n : ~EndsSession(s[k])
    BY <1>0, InEpochs
<1>3. PICK k \in 1..n : EndsSession(s[k])
    BY <1>0 DEF Ends
<1>4. i < k /\ k < j
    BY <1>0, <1>1, <1>2, <1>3
<1>5. k \in i..j /\ i < j
    BY <1>0, <1>4
<1> QED BY <1>0, <1>1, <1>2, <1>3, <1>5 DEF Once

LEMMA EmptyOnce == Once(<<>>)
BY DEF Once

LEMMA NeutralOnce ==
    ASSUME NEW S, NEW s \in Seq(S), Once(s)
    PROVE  /\ \A m : ~IsRequest(m) => Once(Append(s, m))
           /\ s # <<>> => Once(Tail(s))
<1>1. ASSUME NEW m, ~IsRequest(m) PROVE Once(Append(s, m))
    <2>1. EpochOf(m) = {}
        BY <1>1 DEF EpochOf
    <2>2. Epochs(s) \cap EpochOf(m) \subseteq BackOf(s)
        BY <2>1
    <2> QED BY <2>2, OnceAppend
<1> QED BY <1>1, OnceTail
-----------------------------------------------------------------------------
(* A worker never returns to a session.                                    *)

\* What of ForwardOnly concerns the child alone.
ChildForward(w) == Once(actBox[w]) /\ NoReturn(Data(w), OpenData(w), actBox[w])

LEMMA ForwardSame ==
    ASSUME NEW w \in Supervisor, ForwardOnly(w), supBox[w] \in Seq(SupMessage),
           ChildForward(w)', ChildEpochs(w)' \subseteq ChildEpochs(w),
           ChildEpochs(w)' \cap Handed(w) \subseteq Handed(w)',
           SameBox(supBox[w], supBox'[w]), Once(supBox'[w]), BoundEpochs(w)' = BoundEpochs(w)
    PROVE  ForwardOnly(w)' /\ AllEpochs(w)' \subseteq AllEpochs(w)
<1>1. NoReturn(ChildEpochs(w), Handed(w), supBox[w])'
    BY DEF ForwardOnly, NoReturn, SameBox
<1>2. WorkerEpochs(w)' \subseteq WorkerEpochs(w)
    BY DEF WorkerEpochs, SameBox
<1>3. ~Ends(supBox[w]) => BackOf(supBox[w]) = Epochs(supBox[w])
    BY FrontAndBack
<1>4. (WorkerEpochs(w) \cap BoundEpochs(w))' \subseteq WorkerOpen(w)'
    <2> SUFFICES ASSUME NEW e \in WorkerEpochs(w)', e \in BoundEpochs(w)
                 PROVE  e \in WorkerOpen(w)'
        OBVIOUS
    <2>1. e \in WorkerOpen(w)
        BY <1>2 DEF ForwardOnly
    <2>2. CASE e \in BackOf(supBox[w])
        BY <2>2 DEF WorkerOpen, SameBox
    <2>3. CASE ~Ends(supBox[w]) /\ e \in Handed(w)
        <3>1. e \in ChildEpochs(w)' \/ e \in Epochs(supBox[w])
            BY DEF WorkerEpochs, SameBox
        <3> QED BY <1>3, <2>3, <3>1 DEF WorkerOpen, SameBox
    <2> QED BY <2>1, <2>2, <2>3 DEF WorkerOpen
<1>5. ForwardOnly(w)'
    BY <1>1, <1>4 DEF ForwardOnly, ChildForward, NoReturn
<1> QED BY <1>2, <1>5 DEF AllEpochs

\* A child that has less, and has none of it ended.
LEMMA ForwardLess ==
    ASSUME NEW w \in Supervisor, ForwardOnly(w), actBox[w] \in Seq(ActMessage),
           actBox'[w] = actBox[w], supState'[w] = supState[w],
           Data(w)' \subseteq Data(w), Data(w)' \cap OpenData(w) \subseteq OpenData(w)'
    PROVE  /\ ChildForward(w)' /\ ChildEpochs(w)' \subseteq ChildEpochs(w)
           /\ ChildEpochs(w)' \cap Handed(w) \subseteq Handed(w)'
<1>1. ChildForward(w)'
    BY DEF ForwardOnly, ChildForward, NoReturn
<1>2. ChildEpochs(w)' \subseteq ChildEpochs(w)
    BY DEF ChildEpochs
<1>3. ~Ends(actBox[w]) => BackOf(actBox[w]) = Epochs(actBox[w])
    BY FrontAndBack
<1>4. ChildEpochs(w)' \cap ChildOpen(w) \subseteq ChildOpen(w)'
    <2> SUFFICES ASSUME NEW e \in ChildEpochs(w)', e \in ChildOpen(w)
                 PROVE  e \in ChildOpen(w)'
        OBVIOUS
    <2>1. CASE e \in BackOf(actBox[w])
        BY <2>1 DEF ChildOpen
    <2>2. CASE ~Ends(actBox[w]) /\ e \in OpenData(w)
        <3>1. e \in Data(w)' \/ e \in BackOf(actBox[w])
            BY <1>3, <2>2 DEF ChildEpochs
        <3> QED BY <2>1, <2>2, <3>1 DEF ChildOpen
    <2> QED BY <2>1, <2>2 DEF ChildOpen
<1> QED BY <1>1, <1>2, <1>4 DEF Handed

\* The supervisor reads the end of a session.
LEMMA ForwardEnd ==
    ASSUME NEW w \in Supervisor, ForwardOnly(w), supBox[w] \in Seq(SupMessage),
           supBox[w] # <<>>, supBox'[w] = Tail(supBox[w]), EndsSession(Head(supBox[w])),
           ~IsRequest(Head(supBox[w])), ChildForward(w)',
           ChildEpochs(w)' \subseteq ChildEpochs(w), BoundEpochs(w)' = BoundEpochs(w)
    PROVE  ForwardOnly(w)' /\ AllEpochs(w)' \subseteq AllEpochs(w)
<1> DEFINE s == supBox[w]
           t == Tail(s)
<1>0. \A X : X \cup EpochOf(Head(s)) = X
    BY DEF EpochOf
<1>1. Epochs(s) = Epochs(t) /\ FrontOf(s) = {} /\ Ends(s)
    BY <1>0, BoxTail
<1>2. BackOf(s) = BackOf(t) /\ Once(t)
    BY <1>0, BoxTail, OnceTail DEF ForwardOnly
<1> HIDE DEF s, t
<1>3. ChildEpochs(w) \cap Epochs(t) = {}
    BY <1>1 DEF ForwardOnly, NoReturn, s
<1>4. NoReturn(ChildEpochs(w), Handed(w), supBox[w])'
    BY <1>3 DEF NoReturn, s, t
<1>5. WorkerEpochs(w)' \subseteq WorkerEpochs(w)
    BY <1>1 DEF WorkerEpochs, s, t
<1>6. WorkerOpen(w) = BackOf(t)
    BY <1>1, <1>2 DEF WorkerOpen, s
<1>7. (WorkerEpochs(w) \cap BoundEpochs(w))' \subseteq WorkerOpen(w)'
    BY <1>5, <1>6 DEF ForwardOnly, WorkerOpen, s, t
<1>8. ForwardOnly(w)'
    BY <1>2, <1>4, <1>7 DEF ForwardOnly, ChildForward, NoReturn, s, t
<1> QED BY <1>5, <1>8 DEF AllEpochs

\* What a step of worker w must not be in order to keep the sessions moving on.
Orderly(w) == stopAsked = {} /\ actState[w] # "failedIO"

LEMMA HeadEnds ==
    ASSUME WorkerTypeOK, NEW w \in Supervisor,
           NEW type \in {"FinishRSession", "Kill", "PoisonPill"}, SupReceives(w, type)
    PROVE  /\ supBox'[w] = Tail(supBox[w]) /\ supBox[w] # <<>>
           /\ EndsSession(Head(supBox[w])) /\ ~IsRequest(Head(supBox[w]))
BY Received DEF EndsSession, IsRequest, RequestKind

LEMMA StoppedIsEmpty ==
    ASSUME NEW w \in Supervisor, ChildSound(w), ChildApart(w), actState[w] = "stopped"
    PROVE  /\ actBox[w] = <<>> /\ actPid[w] = NoPid /\ currentMessage[w] = None
           /\ ChildEpochs(w) = {} /\ Data(w) = {} /\ Memory(w) = {} /\ InHand(w) = {}
<1>1. actBox[w] = <<>> /\ actPid[w] = NoPid /\ currentMessage[w] = None
    BY DEF ChildApart, ChildSound, AtRest, Unconnected
<1>2. Memory(w) = {} /\ InHand(w) = {}
    BY <1>1 DEF Memory, InHand
<1> QED BY <1>1, <1>2, EmptyBox DEF Data, ChildEpochs

LEMMA ForwardWorker ==
    ASSUME SoundInv, NEW w \in Supervisor, WorkerStep(w), UNCHANGED masterVars,
           Pipeline(w), ForwardOnly(w), Orderly(w)
    PROVE  ForwardOnly(w)' /\ AllEpochs(w)' \subseteq AllEpochs(w)
<1> USE DEF clientVars, routeVars, supVars, actVars, procVars, workerVars
<1> DEFINE P == ForwardOnly(w)' /\ AllEpochs(w)' \subseteq AllEpochs(w)
<1>0. /\ WorkerTypeOK /\ ChildSound(w) /\ ChildApart(w)
      /\ supBox[w] \in Seq(SupMessage) /\ actBox[w] \in Seq(ActMessage)
    BY DEF SoundInv, WorkerTypeOK, Pipeline
<1>1. BoundEpochs(w)' = BoundEpochs(w)
    BY DEF BoundEpochs, masterVars
<1>2. SameBox(supBox[w], supBox[w]) /\ Once(supBox[w]) /\ Once(actBox[w]) /\ ChildForward(w)
    BY <1>0, NeutralMessages DEF ForwardOnly, ChildForward
\* The child has less, and the mailbox of the supervisor says the same.
<1>3. ASSUME Data(w)' \subseteq Data(w), Data(w)' \cap OpenData(w) \subseteq OpenData(w)',
             UNCHANGED <<actBox, supState>>, SameBox(supBox[w], supBox'[w]), Once(supBox'[w])
      PROVE  P
    <2>1. /\ ChildForward(w)' /\ ChildEpochs(w)' \subseteq ChildEpochs(w)
          /\ ChildEpochs(w)' \cap Handed(w) \subseteq Handed(w)'
        BY <1>0, <1>3, ForwardLess
    <2> QED BY <1>0, <1>1, <1>3, <2>1, ForwardSame
\* The child has nothing.
<1>4. ASSUME actBox'[w] = <<>>, actPid'[w] = NoPid, currentMessage'[w] = None
      PROVE  ChildEpochs(w)' = {} /\ ChildForward(w)'
    <2>1. Data(w)' = {}
        BY <1>4, DataGone
    <2> QED BY <1>4, <2>1, EmptyBox, EmptyOnce DEF ChildEpochs, ChildForward, NoReturn
<1>5. ASSUME actBox'[w] = <<>>, actPid'[w] = NoPid, currentMessage'[w] = None,
             UNCHANGED supBox
      PROVE  P
    <2>1. ChildEpochs(w)' = {} /\ ChildForward(w)'
        BY <1>4, <1>5
    <2> QED BY <1>0, <1>1, <1>2, <1>5, <2>1, ForwardSame
<1>6. ASSUME PIdReceived(w) \/ RExceptionReceived(w) PROVE P
    <2>1. /\ UNCHANGED <<actPid, workspace, currentMessage, actBox, actState, supState>>
          /\ SupReceives(w, "PId") \/ SupReceives(w, "RException")
        BY <1>6 DEF PIdReceived, RExceptionReceived
    <2>2. /\ supBox'[w] = Tail(supBox[w]) /\ supBox[w] # <<>>
          /\ Head(supBox[w]).type \in {"PId", "RException"}
        BY <1>0, <2>1, Received
    <2>3. ~IsRequest(Head(supBox[w])) /\ ~EndsSession(Head(supBox[w]))
        BY <2>2 DEF IsRequest, EndsSession, RequestKind
    <2>4. SameBox(supBox[w], supBox'[w]) /\ Once(supBox'[w])
        BY <1>0, <1>2, <2>2, <2>3, NeutralMessages, NeutralOnce
    <2> QED BY <1>3, <2>1, <2>4, DataStays
\* Nobody has asked the supervisor to stop, and its child does not escalate.
<1>7. ~StopReceived(w) /\ ~ChildEscalates(w)
    BY DEF Orderly, StopReceived, ChildEscalates
<1>8. ASSUME ChildReconnects(w) \/ RetryWindowEnds(w) \/ ConnectFails(w) \/ RCrashes(w) PROVE P
    <2>1. UNCHANGED <<actPid, workspace, currentMessage, actBox, supState, supBox>>
        BY <1>8 DEF ChildReconnects, RetryWindowEnds, ConnectFails, RCrashes
    <2> QED BY <1>2, <1>3, <2>1, DataStays
<1>9. ASSUME Downloaded(w) \/ DownloadFails(w) \/ UploadEnds(w) \/ RStep(w) PROVE P
    <2>1. /\ actState[w] \in {"download", "inR", "upload"}
          /\ UNCHANGED <<actPid, actBox, supState, supBox>>
        BY <1>9 DEF Downloaded, DownloadFails, UploadEnds, RStep, REvalOk, NothingToAssign,
                    ScriptRan, REvalFails, ScriptFails
    <2>2. Taint(w) \/ UNCHANGED workspace
        BY <1>9 DEF Downloaded, DownloadFails, UploadEnds, RStep, REvalOk, NothingToAssign,
                    ScriptRan, REvalFails, ScriptFails
    <2>3. currentMessage'[w] = None \/ currentMessage'[w] = currentMessage[w]
        BY <1>0, <1>9 DEF Downloaded, DownloadFails, UploadEnds, RStep, REvalOk,
            NothingToAssign, ScriptRan, REvalFails, ScriptFails, AnswerAndIdle, WorkerTypeOK
    <2>4. Data(w)' \subseteq Data(w)
        BY <2>1, <2>2, <2>3, DataOfHandler
    <2>5. currentMessage'[w] # Kill
        BY <1>0, <2>1, <2>3, ActMessages DEF ChildSound
    <2>6. OpenData(w)' = Data(w)'
        BY <2>5 DEF OpenData
    <2> QED BY <1>2, <1>3, <2>1, <2>4, <2>6
<1>10. ASSUME Connected(w) PROVE P
    <2>1. PICK p \in FreshPid : /\ workspace' = [workspace EXCEPT ![p] = {}]
                                /\ actPid' = [actPid EXCEPT ![w] = p]
                                /\ supBox' = Tell(supBox, w, PId(p))
        BY <1>10 DEF Connected
    <2>2. /\ UNCHANGED <<actBox, currentMessage, supState>>
          /\ currentMessage[w] = None /\ p \in Pid
        BY <1>0, <1>10 DEF Connected, ChildSound, AtRest, FreshPid
    <2>3. Memory(w)' = {}
        BY <1>0, <2>1, <2>2 DEF Memory, WorkerTypeOK
    <2>4. InHand(w)' = {}
        BY <2>2 DEF InHand
    <2>5. Data(w)' = {}
        BY <2>3, <2>4 DEF Data
    <2>6. supBox'[w] = Append(supBox[w], PId(p))
        BY <1>0, <2>1 DEF Tell, WorkerTypeOK
    <2>7. ~IsRequest(PId(p)) /\ ~EndsSession(PId(p))
        BY DEF IsRequest, EndsSession, RequestKind, PId
    <2>8. SameBox(supBox[w], supBox'[w]) /\ Once(supBox'[w])
        BY <1>0, <1>2, <2>6, <2>7, NeutralMessages, NeutralOnce
    <2> QED BY <1>3, <2>2, <2>5, <2>8
<1>11. ASSUME ChildRestarts(w) PROVE P
    <2>1. /\ actPid'[w] = NoPid /\ currentMessage'[w] = None /\ UNCHANGED <<actBox, supState>>
          /\ TellSenderOfFailure(w)
        BY <1>0, <1>11 DEF ChildRestarts, WorkerTypeOK
    <2>2. ~IsRequest(RException) /\ ~EndsSession(RException)
        BY DEF IsRequest, EndsSession, RequestKind, RException
    <2>3. supBox'[w] = supBox[w] \/ supBox'[w] = Append(supBox[w], RException)
        BY <1>0, <2>1 DEF TellSenderOfFailure, Tell, WorkerTypeOK
    <2>4. SameBox(supBox[w], supBox'[w]) /\ Once(supBox'[w])
        BY <1>0, <1>2, <2>2, <2>3, NeutralMessages, NeutralOnce
    <2>5. Data(w)' = {}
        BY <2>1, DataGone
    <2> QED BY <1>3, <2>1, <2>4, <2>5
<1>12. ASSUME ChildStops(w) \/ ChildGivenUp(w) PROVE P
    <2>1. StopChild(w) /\ UNCHANGED supBox
        BY <1>12 DEF ChildStops, ChildGivenUp
    <2> QED BY <1>0, <1>5, <2>1, StopChildType
<1>13. ASSUME SupRestarted(w) PROVE P
    <2>1. actState[w] = "stopped" /\ UNCHANGED <<supBox, actBox, actPid, currentMessage>>
        BY <1>13 DEF SupRestarted
    <2> QED BY <1>0, <1>5, <2>1, StoppedIsEmpty
<1>14. ASSUME SupStopped(w) PROVE P
    <2>1. /\ supBox'[w] = <<>> /\ actState[w] = "stopped"
          /\ UNCHANGED <<actBox, actPid, currentMessage>>
        BY <1>0, <1>14 DEF SupStopped, WorkerTypeOK, ChildSound
    <2>2. ChildEpochs(w)' = {} /\ ChildForward(w)'
        BY <1>0, <1>4, <2>1, StoppedIsEmpty
    <2>3. WorkerEpochs(w)' = {}
        BY <2>1, <2>2, EmptyBox DEF WorkerEpochs
    <2>4. ForwardOnly(w)'
        BY <2>1, <2>2, <2>3, EmptyOnce DEF ForwardOnly, ChildForward, NoReturn
    <2> QED BY <1>1, <2>3, <2>4 DEF AllEpochs
<1>15. ASSUME KillReceived(w) \/ PoisonPillReceived(w) PROVE P
    <2>1. /\ SupReceives(w, "Kill") \/ SupReceives(w, "PoisonPill")
          /\ UNCHANGED <<actBox, actPid, currentMessage, workspace>>
        BY <1>15 DEF KillReceived, PoisonPillReceived
    <2>2. /\ supBox'[w] = Tail(supBox[w]) /\ supBox[w] # <<>>
          /\ EndsSession(Head(supBox[w])) /\ ~IsRequest(Head(supBox[w]))
        BY <1>0, <2>1, HeadEnds
    <2>3. Data(w)' = Data(w) /\ OpenData(w)' = OpenData(w)
        BY <2>1, DataStays
    <2>4. ChildForward(w)' /\ ChildEpochs(w)' = ChildEpochs(w)
        BY <1>2, <2>1, <2>3 DEF ChildForward, NoReturn, ChildEpochs
    <2> QED BY <1>0, <1>1, <2>2, <2>4, ForwardEnd
<1>16. ASSUME FinishReceived(w) PROVE P
    <2>1. /\ SupReceives(w, "FinishRSession") /\ TellChild(w, Kill)
          /\ UNCHANGED <<actPid, currentMessage, workspace>>
        BY <1>16 DEF FinishReceived
    <2>2. /\ supBox'[w] = Tail(supBox[w]) /\ supBox[w] # <<>>
          /\ EndsSession(Head(supBox[w])) /\ ~IsRequest(Head(supBox[w]))
        BY <1>0, <2>1, HeadEnds
    <2>3. Data(w)' = Data(w) /\ OpenData(w)' = OpenData(w)
        BY <2>1, DataStays
    <2>4. ChildForward(w)' /\ ChildEpochs(w)' = ChildEpochs(w)
        <3>1. CASE actBox'[w] = actBox[w]
            BY <1>2, <2>3, <3>1 DEF ChildForward, NoReturn, ChildEpochs
        <3>2. CASE actBox'[w] = Append(actBox[w], Kill)
            <4>1. ~IsRequest(Kill) /\ \A X : X \cup EpochOf(Kill) = X
                BY DEF Kill, EpochOf, IsRequest, RequestKind
            <4>2. /\ Ends(actBox[w]) => FrontOf(actBox'[w]) = FrontOf(actBox[w])
                  /\ ~Ends(actBox[w])
                       => FrontOf(actBox'[w]) = FrontOf(actBox[w]) \cup EpochOf(Kill)
                  /\ Epochs(actBox'[w]) = Epochs(actBox[w]) \cup EpochOf(Kill)
                BY <1>0, <3>2, BoxAppend
            <4>3. FrontOf(actBox'[w]) = FrontOf(actBox[w]) /\ Epochs(actBox'[w]) = Epochs(actBox[w])
                BY <4>1, <4>2
            <4>4. Once(actBox'[w])
                BY <1>0, <1>2, <3>2, <4>1, NeutralOnce
            <4> QED BY <1>2, <2>3, <4>3, <4>4 DEF ChildForward, NoReturn, ChildEpochs
        <3> QED BY <1>0, <2>1, <3>1, <3>2, TellChildType, ActMessages
    <2> QED BY <1>0, <1>1, <2>2, <2>4, ForwardEnd
\* The request at the head of the supervisor's mailbox goes to the child.
<1>17. ASSUME RequestReceived(w) PROVE P
    <2> DEFINE h == Head(supBox[w])
               e == h.epoch
               s == supBox[w]
               t == Tail(s)
               a == actBox[w]
    <2>1. PICK kind \in RequestKind : SupReceives(w, kind) /\ TellChild(w, h)
        BY <1>17 DEF RequestReceived
    <2>2. /\ UNCHANGED <<actPid, currentMessage, workspace, actState, supState>>
          /\ supState[w] = "up"
        BY <1>17 DEF RequestReceived, SupReceives
    <2>3. /\ supBox'[w] = t /\ s # <<>> /\ h \in ActMessage
          /\ EpochOf(h) = {e} /\ ~EndsSession(h)
        BY <1>0, <2>1, Received, SupMessages, ActMessages, RequestsDoNotEnd DEF EpochOf
    <2>4. /\ FrontOf(s) = FrontOf(t) \cup {e} /\ (Ends(s) <=> Ends(t))
          /\ Epochs(s) = Epochs(t) \cup {e}
          /\ Ends(t) => BackOf(s) = BackOf(t)
          /\ ~Ends(t) => BackOf(s) = BackOf(t) \cup {e}
        BY <1>0, <2>3, BoxTail
    <2>5. Once(t) /\ Epochs(t) \cap {e} \subseteq FrontOf(t)
        BY <1>0, <1>2, <2>3, OnceTail
    <2>6. Data(w)' = Data(w) /\ OpenData(w)' = OpenData(w)
        BY <2>2, DataStays
    <2>7. /\ ChildEpochs(w) \cap Epochs(s) \subseteq ChildOpen(w) \cap FrontOf(s)
          /\ WorkerEpochs(w) \cap BoundEpochs(w) \subseteq WorkerOpen(w)
          /\ Data(w) \cap Epochs(a) \subseteq OpenData(w) \cap FrontOf(a)
        BY <2>2 DEF ForwardOnly, NoReturn, Handed
    <2>8. /\ ~Ends(a) => BackOf(a) = Epochs(a) /\ FrontOf(a) = Epochs(a)
          /\ ~Ends(t) => BackOf(t) = Epochs(t)
          /\ BackOf(a) \subseteq Epochs(a)
        <3>1. t \in Seq(SupMessage)
            BY <1>0, <2>3, HeadTailProperties
        <3> QED BY <1>0, <3>1, FrontAndBack
    <2> HIDE DEF h, e, s, t, a
    <2>9. CASE actState[w] = "stopped" /\ actBox'[w] = actBox[w]
        <3>1. actBox[w] = <<>> /\ actPid[w] = NoPid /\ currentMessage[w] = None /\ ChildEpochs(w) = {}
            BY <1>0, <2>9, StoppedIsEmpty
        <3>2. ChildEpochs(w)' = {} /\ ChildForward(w)'
            BY <1>4, <2>2, <2>9, <3>1
        <3>3. Data(w) = {}
            BY <3>1 DEF ChildEpochs
        <3>4. ChildOpen(w) = {}
            BY <3>1, <3>3, EmptyBox DEF ChildOpen, OpenData
        <3>5. WorkerOpen(w) = BackOf(s)
            BY <3>4 DEF WorkerOpen, Handed, s
        <3>6. WorkerEpochs(w)' = Epochs(t) /\ WorkerEpochs(w) = Epochs(t) \cup {e}
            BY <2>3, <2>4, <3>1, <3>2 DEF WorkerEpochs, s
        <3>7. (WorkerEpochs(w) \cap BoundEpochs(w))' \subseteq BackOf(t)
            BY <1>1, <2>4, <2>7, <2>8, <3>5, <3>6
        <3>8. BackOf(t) \subseteq WorkerOpen(w)'
            BY <2>3 DEF WorkerOpen
        <3>9. ForwardOnly(w)'
            BY <2>3, <2>5, <3>2, <3>7, <3>8 DEF ForwardOnly, ChildForward, NoReturn
        <3> QED BY <1>1, <3>6, <3>9 DEF AllEpochs
    <2>10. CASE actState[w] # "stopped" /\ actBox'[w] = Append(actBox[w], h)
        <3>1. /\ Ends(a) => FrontOf(actBox'[w]) = FrontOf(a)
              /\ ~Ends(a) => FrontOf(actBox'[w]) = FrontOf(a) \cup {e}
              /\ Epochs(actBox'[w]) = Epochs(a) \cup {e}
              /\ BackOf(actBox'[w]) = BackOf(a) \cup {e} /\ (Ends(actBox'[w]) <=> Ends(a))
            BY <1>0, <2>3, <2>10, BoxAppend DEF a
        <3>2. ChildOpen(w) = BackOf(a) \cup IF Ends(a) THEN {} ELSE OpenData(w)
            BY DEF ChildOpen, a
        <3>3. ChildEpochs(w) = Data(w) \cup Epochs(a)
            BY DEF ChildEpochs, a
        <3>4. e \in ChildEpochs(w) => e \in ChildOpen(w)
            BY <2>4, <2>7
        <3>5. Epochs(a) \cap {e} \subseteq BackOf(a)
            BY <2>8, <3>2, <3>3, <3>4
        <3>6. Once(actBox'[w])
            BY <1>0, <1>2, <2>3, <2>10, <3>5, OnceAppend DEF a
        <3>7. NoReturn(Data(w), OpenData(w), actBox[w])'
            BY <2>6, <2>7, <2>8, <3>1, <3>2, <3>3, <3>4 DEF NoReturn
        <3>8. Handed(w)' = ChildOpen(w) \cup {e} /\ ChildEpochs(w)' = ChildEpochs(w) \cup {e}
            BY <2>2, <2>6, <3>1, <3>2, <3>3 DEF Handed, ChildOpen, ChildEpochs
        <3>9. NoReturn(ChildEpochs(w), Handed(w), supBox[w])'
            BY <2>3, <2>4, <2>5, <2>7, <3>8 DEF NoReturn
        <3>10. WorkerEpochs(w)' = WorkerEpochs(w)
            BY <2>3, <2>4, <3>8 DEF WorkerEpochs, s
        <3>11. WorkerOpen(w) \subseteq WorkerOpen(w)'
            BY <2>2, <2>3, <2>4, <3>8 DEF WorkerOpen, Handed, s
        <3>12. ForwardOnly(w)'
            BY <1>1, <2>3, <2>5, <2>7, <3>6, <3>7, <3>9, <3>10, <3>11 DEF ForwardOnly, NoReturn
        <3> QED BY <1>1, <3>10, <3>12 DEF AllEpochs
    <2> QED BY <1>0, <2>1, <2>3, <2>9, <2>10, TellChildType DEF h
<1>18. ASSUME ActorReceives(w) PROVE P
    <2> DEFINE h == Head(actBox[w])
               a == actBox[w]
               t == Tail(a)
    <2>1. /\ a # <<>> /\ actBox'[w] = t /\ currentMessage'[w] = h /\ actState[w] = "idle"
          /\ UNCHANGED <<supBox, supState, actPid, workspace>>
        BY <1>0, <1>18 DEF ActorReceives, WorkerTypeOK
    <2>2. h \in ActMessage /\ currentMessage[w] = None
        <3>1. h \in ActMessage
            BY <1>0, <2>1, HeadTailProperties
        <3> QED BY <1>0, <2>1, <3>1 DEF ChildSound, AtRest
    <2>3. Memory(w)' = Memory(w) /\ Data(w) = Memory(w) /\ OpenData(w) = Memory(w)
        <3>1. Memory(w)' = Memory(w)
            BY <2>1 DEF Memory
        <3>2. InHand(w) = {} /\ currentMessage[w] # Kill
            BY <2>2, HandTypes, ActMessages
        <3> QED BY <3>1, <3>2 DEF Data, OpenData
    <2>4. Data(w)' = Data(w) \cup EpochOf(h)
        <3>1. InHand(w)' = EpochOf(h)
            BY <2>1, <2>2, ActMessages DEF InHand, EpochOf
        <3> QED BY <2>3, <3>1 DEF Data
    <2>5. /\ Ends(a) <=> Ends(t) \/ EndsSession(h)
          /\ EndsSession(h) => FrontOf(a) = {}
          /\ ~EndsSession(h) => FrontOf(a) = FrontOf(t) \cup EpochOf(h)
          /\ Ends(t) => BackOf(a) = BackOf(t)
          /\ ~Ends(t) => BackOf(a) = BackOf(t) \cup EpochOf(h)
          /\ Epochs(a) = Epochs(t) \cup EpochOf(h)
        BY <1>0, <2>1, BoxTail
    <2>6. Once(t) /\ Epochs(t) \cap EpochOf(h) \subseteq FrontOf(t)
        BY <1>0, <1>2, <2>1, OnceTail
    <2>7. Data(w) \cap Epochs(a) \subseteq FrontOf(a)
        BY DEF ForwardOnly, NoReturn
    <2>8. /\ ChildOpen(w) = BackOf(a) \cup IF Ends(a) THEN {} ELSE Data(w)
          /\ ChildOpen(w)' = BackOf(t) \cup IF Ends(t) THEN {} ELSE OpenData(w)'
          /\ ChildEpochs(w)' = ChildEpochs(w)
        BY <2>1, <2>3, <2>4, <2>5 DEF ChildOpen, ChildEpochs
    <2>9. ASSUME ChildOpen(w) \subseteq ChildOpen(w)', NoReturn(Data(w)', OpenData(w)', t)
          PROVE  P
        <3>1. ChildForward(w)'
            BY <2>1, <2>6, <2>9 DEF ChildForward, NoReturn
        <3>2. Handed(w) \subseteq Handed(w)'
            BY <2>1, <2>9 DEF Handed
        <3> QED BY <1>0, <1>1, <1>2, <2>1, <2>8, <3>1, <3>2, ForwardSame
    <2>10. CASE h = Kill
        <3>1. EndsSession(h) /\ \A X : X \cup EpochOf(h) = X
            BY <2>10 DEF EndsSession, Kill, EpochOf, IsRequest, RequestKind
        <3> HIDE DEF h, a, t
        <3>2. NoReturn(Data(w)', OpenData(w)', t)
            BY <2>4, <2>5, <2>7, <3>1 DEF NoReturn
        <3>3. ChildOpen(w) \subseteq ChildOpen(w)'
            BY <2>5, <2>8, <3>1
        <3> QED BY <2>9, <3>2, <3>3
    <2>11. CASE h # Kill
        <3>1. IsRequest(h) /\ ~EndsSession(h)
            BY <2>2, <2>11, ActMessages, RequestsDoNotEnd DEF ActMessage
        <3>2. OpenData(w)' = Data(w)'
            BY <2>1, <2>11 DEF OpenData
        <3> HIDE DEF h, a, t
        <3>3. NoReturn(Data(w)', OpenData(w)', t)
            BY <2>4, <2>5, <2>6, <2>7, <3>1, <3>2 DEF NoReturn
        <3>4. ChildOpen(w) \subseteq ChildOpen(w)'
            BY <2>4, <2>5, <2>8, <3>1, <3>2
        <3> QED BY <2>9, <3>3, <3>4
    <2> QED BY <2>10, <2>11
<1> HIDE DEF P
<1>19. P
    BY <1>6, <1>7, <1>8, <1>9, <1>10, <1>11, <1>12, <1>13, <1>14, <1>15, <1>16, <1>17, <1>18
       DEF WorkerStep, SupervisorStep, ActorStep, ConnectStep, EnvironmentStep
<1> QED BY <1>19 DEF P
-----------------------------------------------------------------------------
(* A step of a worker keeps the trust of its sessions deserved.            *)

\* Nothing that the child has, or waits for, is behind an end.
LEMMA NotLate ==
    ASSUME NEW w \in Supervisor, ForwardOnly(w), supBox[w] \in Seq(SupMessage)
    PROVE  Late(w) \cap ChildEpochs(w) = {}
<1> SUFFICES ASSUME NEW x \in Late(w), x \in ChildEpochs(w) PROVE FALSE
    OBVIOUS
<1> DEFINE s == supBox[w]
<1>1. x \in Epochs(s) => x \in Handed(w) /\ x \in FrontOf(s)
    BY DEF ForwardOnly, NoReturn
<1>2. x \in BoundEpochs(w) => x \in WorkerOpen(w)
    BY DEF ForwardOnly, WorkerEpochs
<1>3. BackOf(s) \subseteq Epochs(s) /\ (Ends(s) => FrontOf(s) \cap BackOf(s) = {})
    BY FrontAndBack, OnceApart DEF ForwardOnly
<1>4. CASE supState[w] = "up"
    BY <1>1, <1>2, <1>3, <1>4 DEF Late, WorkerOpen
<1>5. CASE supState[w] # "up"
    BY <1>1, <1>2, <1>3, <1>5 DEF Late, WorkerOpen, Handed
<1> QED BY <1>4, <1>5

\* No new trust, and R has lost nothing that somebody waits for.
LEMMA DeservedLess ==
    ASSUME NEW w \in Supervisor, Deserved(w), trusting' \subseteq trusting,
           Late(w)' \subseteq Late(w),
           actState'[w] # "stopped" => /\ actState[w] # "stopped"
                                       /\ Memory(w) \subseteq Memory(w)'
                                       /\ Pending(w)' \subseteq Pending(w) \cup Late(w),
           actState'[w] = "upload" => InHand(w)' \subseteq Memory(w)'
    PROVE  Deserved(w)'
BY DEF Deserved

\* A mailbox that says the same of the sessions.
LEMMA LateSame ==
    ASSUME NEW w \in Supervisor, SameBox(supBox[w], supBox'[w]),
           UNCHANGED supState, BoundEpochs(w)' = BoundEpochs(w)
    PROVE  Late(w)' = Late(w)
BY DEF Late, SameBox

\* The end of a session leaves the supervisor's mailbox.
LEMMA LateEnd ==
    ASSUME NEW w \in Supervisor, supBox[w] \in Seq(SupMessage), supState[w] = "up",
           supBox[w] # <<>>, supBox'[w] = Tail(supBox[w]), EndsSession(Head(supBox[w])),
           ~IsRequest(Head(supBox[w])), BoundEpochs(w)' = BoundEpochs(w)
    PROVE  Late(w)' \subseteq Late(w) /\ FrontOf(supBox'[w]) \subseteq Late(w)
<1> DEFINE s == supBox[w]
           t == Tail(s)
<1>0. \A X : X \cup EpochOf(Head(s)) = X
    BY DEF EpochOf
<1>1. Epochs(s) = Epochs(t) /\ FrontOf(s) = {} /\ Ends(s)
    BY <1>0, BoxTail
<1>2. FrontOf(t) \subseteq Epochs(t)
    BY HeadTailProperties, FrontAndBack
<1> HIDE DEF s, t
<1>3. Late(w) = Epochs(t) \cup BoundEpochs(w)
    BY <1>1 DEF Late, s
<1> QED BY <1>2, <1>3 DEF Late, s, t

LEMMA DeservedSupervisor ==
    ASSUME SoundInv, NEW w \in Supervisor, SupervisorStep(w), UNCHANGED masterVars,
           Pipeline(w), ForwardOnly(w), Orderly(w), Deserved(w)
    PROVE  Deserved(w)'
<1> USE DEF clientVars, routeVars, supVars, actVars, procVars, workerVars
<1> DEFINE P == Deserved(w)'
<1>0. /\ WorkerTypeOK /\ ChildSound(w) /\ ChildApart(w)
      /\ supBox[w] \in Seq(SupMessage) /\ actBox[w] \in Seq(ActMessage)
    BY DEF SoundInv, WorkerTypeOK, Pipeline
<1>1. BoundEpochs(w)' = BoundEpochs(w)
    BY DEF BoundEpochs, masterVars
<1>2. SameBox(supBox[w], supBox[w])
    BY <1>0, NeutralMessages
<1>3. ASSUME UNCHANGED <<actPid, workspace, currentMessage>>
      PROVE  /\ Memory(w)' = Memory(w) /\ InHand(w)' = InHand(w)
             /\ actState[w] = "upload" => InHand(w)' \subseteq Memory(w)'
    <2>1. Memory(w)' = Memory(w) /\ InHand(w)' = InHand(w)
        BY <1>3 DEF Memory, InHand
    <2> QED BY <2>1 DEF Deserved
<1>4. ASSUME PIdReceived(w) \/ RExceptionReceived(w) PROVE P
    <2>1. /\ UNCHANGED <<actPid, workspace, currentMessage, actBox, actState, supState, trusting>>
          /\ SupReceives(w, "PId") \/ SupReceives(w, "RException")
        BY <1>4 DEF PIdReceived, RExceptionReceived
    <2>2. /\ supBox'[w] = Tail(supBox[w]) /\ supBox[w] # <<>>
          /\ Head(supBox[w]).type \in {"PId", "RException"}
        BY <1>0, <2>1, Received
    <2>3. ~IsRequest(Head(supBox[w])) /\ ~EndsSession(Head(supBox[w]))
        BY <2>2 DEF IsRequest, EndsSession, RequestKind
    <2>4. SameBox(supBox[w], supBox'[w])
        BY <1>0, <2>2, <2>3, NeutralMessages
    <2>5. Late(w)' = Late(w)
        BY <1>1, <2>1, <2>4, LateSame
    <2>6. Pending(w)' = Pending(w)
        BY <1>1, <1>3, <2>1, <2>4 DEF Pending, SameBox
    <2> QED BY <1>3, <2>1, <2>5, <2>6, DeservedLess
<1>5. ~StopReceived(w) /\ ~ChildEscalates(w)
    BY DEF Orderly, StopReceived, ChildEscalates
<1>6. ASSUME ChildReconnects(w) PROVE P
    <2>1. /\ UNCHANGED <<actPid, workspace, currentMessage, actBox, supState, supBox, trusting>>
          /\ actState[w] # "stopped" /\ actState'[w] # "upload"
        BY <1>0, <1>6 DEF ChildReconnects, WorkerTypeOK
    <2>2. Late(w)' = Late(w) /\ Pending(w)' = Pending(w)
        BY <1>1, <1>2, <1>3, <2>1, LateSame DEF Pending
    <2> QED BY <1>3, <2>1, <2>2, DeservedLess
<1>7. ASSUME KillReceived(w) \/ PoisonPillReceived(w) PROVE P
    <2>1. /\ SupReceives(w, "Kill") \/ SupReceives(w, "PoisonPill")
          /\ UNCHANGED <<actBox, actPid, currentMessage, workspace, actState, trusting>>
        BY <1>7 DEF KillReceived, PoisonPillReceived
    <2>2. /\ supBox'[w] = Tail(supBox[w]) /\ supBox[w] # <<>> /\ supState[w] = "up"
          /\ EndsSession(Head(supBox[w])) /\ ~IsRequest(Head(supBox[w]))
        BY <1>0, <2>1, HeadEnds DEF SupReceives
    <2>3. Late(w)' \subseteq Late(w) /\ FrontOf(supBox'[w]) \subseteq Late(w)
        BY <1>0, <1>1, <2>2, LateEnd
    <2>4. Pending(w)' \subseteq Pending(w) \cup Late(w)
        BY <1>1, <1>3, <2>1, <2>3 DEF Pending
    <2> QED BY <1>3, <2>1, <2>3, <2>4, DeservedLess
<1>8. ASSUME FinishReceived(w) PROVE P
    <2>1. /\ SupReceives(w, "FinishRSession") /\ TellChild(w, Kill)
          /\ UNCHANGED <<actPid, currentMessage, workspace, actState, trusting>>
        BY <1>8 DEF FinishReceived
    <2>2. /\ supBox'[w] = Tail(supBox[w]) /\ supBox[w] # <<>> /\ supState[w] = "up"
          /\ EndsSession(Head(supBox[w])) /\ ~IsRequest(Head(supBox[w]))
        BY <1>0, <2>1, HeadEnds DEF SupReceives
    <2>3. Late(w)' \subseteq Late(w) /\ FrontOf(supBox'[w]) \subseteq Late(w)
        BY <1>0, <1>1, <2>2, LateEnd
    <2>4. \A X : X \cup EpochOf(Kill) = X
        BY DEF Kill, EpochOf, IsRequest, RequestKind
    <2>5. Epochs(actBox'[w]) = Epochs(actBox[w])
        <3>1. CASE actBox'[w] = Append(actBox[w], Kill)
            <4>1. Epochs(actBox'[w]) = Epochs(actBox[w]) \cup EpochOf(Kill)
                BY <1>0, <3>1, BoxAppend
            <4> QED BY <2>4, <4>1
        <3> QED BY <1>0, <2>1, <3>1, TellChildType, ActMessages
    <2>6. Pending(w)' \subseteq Pending(w) \cup Late(w)
        BY <1>1, <1>3, <2>1, <2>3, <2>5 DEF Pending
    <2> QED BY <1>3, <2>1, <2>3, <2>6, DeservedLess
<1>9. ASSUME RequestReceived(w) PROVE P
    <2> DEFINE h == Head(supBox[w])
               e == h.epoch
               s == supBox[w]
               t == Tail(s)
               a == actBox[w]
    <2>1. PICK kind \in RequestKind : SupReceives(w, kind) /\ TellChild(w, h)
        BY <1>9 DEF RequestReceived
    <2>2. /\ UNCHANGED <<actPid, currentMessage, workspace, actState, supState, trusting>>
          /\ supState[w] = "up"
        BY <1>9 DEF RequestReceived, SupReceives
    <2>3. /\ supBox'[w] = t /\ s # <<>> /\ h \in ActMessage
          /\ EpochOf(h) = {e} /\ ~EndsSession(h)
        BY <1>0, <2>1, Received, SupMessages, ActMessages, RequestsDoNotEnd DEF EpochOf
    <2>4. /\ FrontOf(s) = FrontOf(t) \cup {e} /\ (Ends(s) <=> Ends(t))
          /\ Epochs(s) = Epochs(t) \cup {e}
        BY <1>0, <2>3, BoxTail
    <2>5. Epochs(t) \cap {e} \subseteq FrontOf(t)
        BY <1>0, <2>3, OnceTail DEF ForwardOnly
    <2>6. Epochs(actBox'[w]) \subseteq Epochs(a) \cup {e}
        <3>1. CASE actBox'[w] = Append(a, h)
            BY <1>0, <2>3, <3>1, BoxAppend
        <3> QED BY <1>0, <2>1, <2>3, <3>1, TellChildType
    <2> HIDE DEF h, e, s, t, a
    <2>7. Late(w)' \subseteq Late(w)
        BY <1>1, <2>2, <2>3, <2>4, <2>5 DEF Late, s
    <2>8. Pending(w)' \subseteq Pending(w)
        BY <1>1, <1>3, <2>2, <2>3, <2>4, <2>6 DEF Pending, s, a
    <2> QED BY <1>3, <2>2, <2>7, <2>8, DeservedLess
<1>10. ASSUME ChildStops(w) \/ ChildGivenUp(w) PROVE P
    <2>1. StopChild(w) /\ UNCHANGED <<supBox, supState, trusting>>
        BY <1>10 DEF ChildStops, ChildGivenUp
    <2>2. actState'[w] = "stopped"
        BY <1>0, <2>1, StopChildType
    <2> QED BY <1>1, <1>2, <2>1, <2>2, LateSame, DeservedLess
\* Whatever waits for a new supervisor instance waits behind an end.
<1>11. ASSUME SupRestarted(w) PROVE P
    <2>1. /\ actState[w] = "stopped" /\ actState'[w] = "creating" /\ supState[w] # "up"
          /\ UNCHANGED <<supBox, actBox, actPid, currentMessage, workspace, trusting>>
        BY <1>0, <1>11 DEF SupRestarted, WorkerTypeOK
    <2>2. Late(w) = Epochs(supBox[w]) \cup BoundEpochs(w)
        BY <2>1 DEF Late
    <2>3. Late(w)' \subseteq Late(w)
        BY <1>1, <2>1, <2>2 DEF Late
    <2>4. actBox[w] = <<>> /\ InHand(w) = {}
        BY <1>0, <2>1, StoppedIsEmpty
    <2>5. FrontOf(supBox[w]) \subseteq Epochs(supBox[w])
        BY <1>0, FrontAndBack
    <2>6. Pending(w)' \subseteq Late(w)
        BY <1>1, <1>3, <2>1, <2>2, <2>4, <2>5, EmptyBox DEF Pending
    <2> QED BY <2>1, <2>3, <2>6 DEF Deserved
<1>12. ASSUME SupStopped(w) PROVE P
    <2>1. /\ supBox'[w] = <<>> /\ supState'[w] = "stopped" /\ supState[w] # "up"
          /\ actState'[w] = "stopped" /\ UNCHANGED trusting
        BY <1>0, <1>12 DEF SupStopped, WorkerTypeOK, ChildSound
    <2>2. Late(w)' \subseteq Late(w)
        BY <1>1, <2>1, EmptyBox DEF Late
    <2> QED BY <2>1, <2>2, DeservedLess
\* The process of the session is gone: its client is told, or has ended it.
<1>13. ASSUME ChildRestarts(w) PROVE P
    <2> DEFINE m == currentMessage[w]
    <2>1. /\ actPid'[w] = NoPid /\ currentMessage'[w] = None /\ UNCHANGED <<actBox, supState>>
          /\ supState[w] = "up" /\ actState[w] = "failed" /\ actState'[w] = "recreating"
          /\ TellSenderOfFailure(w)
        BY <1>0, <1>13 DEF ChildRestarts, WorkerTypeOK
    <2>2. m \in ActMessage /\ InHand(w) = EpochOf(m) /\ InHand(w)' = {}
        BY <1>0, <2>1, HandTypes DEF ChildSound, InHand
    <2>3. ~IsRequest(RException) /\ ~EndsSession(RException)
        BY DEF IsRequest, EndsSession, RequestKind, RException
    <2>4. supBox'[w] = supBox[w] \/ supBox'[w] = Append(supBox[w], RException)
        BY <1>0, <2>1 DEF TellSenderOfFailure, Tell, WorkerTypeOK
    <2>5. SameBox(supBox[w], supBox'[w])
        BY <1>0, <2>3, <2>4, NeutralMessages
    <2>6. Late(w)' = Late(w)
        BY <1>1, <2>1, <2>5, LateSame
    <2>7. Pending(w)' = Epochs(actBox[w]) \cup FrontOf(supBox[w]) \cup BoundEpochs(w)
        BY <1>1, <2>1, <2>2, <2>5 DEF Pending, SameBox
    <2>8. Pending(w)' \cap trusting \subseteq Memory(w) /\ Memory(w) \subseteq Data(w)
        BY <2>1, <2>7 DEF Deserved, Pending, Data
    <2>9. ASSUME trusting' \subseteq trusting, Pending(w)' \cap trusting' = {} PROVE P
        BY <2>1, <2>6, <2>9 DEF Deserved
    <2>10. CASE IsRequest(m)
        <3>1. trusting' = trusting \ {m.epoch}
            BY <2>1, <2>10 DEF TellSenderOfFailure
        <3>2. m.epoch \in Data(w)
            BY <2>2, <2>10 DEF EpochOf, Data
        <3>3. \A x \in Data(w) : x = m.epoch
            BY <1>0, <3>2 DEF ChildApart
        <3> QED BY <2>8, <2>9, <3>1, <3>3
    <2>11. CASE ~IsRequest(m)
        <3>1. trusting' = trusting
            BY <2>1, <2>11 DEF TellSenderOfFailure
        <3>2. m = Kill
            BY <2>2, <2>11, ActMessages DEF ActMessage
        <3>3. OpenData(w) = {}
            BY <3>2 DEF OpenData
        <3>4. Handed(w) = BackOf(actBox[w]) /\ BackOf(actBox[w]) \subseteq Epochs(actBox[w])
            BY <1>0, <2>1, <3>3, FrontAndBack DEF Handed, ChildOpen
        <3>5. Data(w) \cap Epochs(actBox[w]) = {}
            BY <3>3 DEF ForwardOnly, NoReturn
        <3>6. Data(w) \cap Epochs(supBox[w]) = {}
            BY <3>4, <3>5 DEF ForwardOnly, NoReturn, ChildEpochs
        <3>7. BackOf(supBox[w]) \subseteq Epochs(supBox[w]) /\ FrontOf(supBox[w]) \subseteq Epochs(supBox[w])
            BY <1>0, FrontAndBack
        <3>8. Data(w) \cap BoundEpochs(w) = {}
            BY <3>4, <3>5, <3>6, <3>7 DEF ForwardOnly, WorkerEpochs, ChildEpochs, WorkerOpen
        <3> QED BY <2>7, <2>8, <2>9, <3>1, <3>5, <3>6, <3>7, <3>8
    <2> QED BY <2>10, <2>11
<1> HIDE DEF P
<1>14. P
    BY <1>4, <1>5, <1>6, <1>7, <1>8, <1>9, <1>10, <1>11, <1>12, <1>13 DEF SupervisorStep
<1> QED BY <1>14 DEF P

LEMMA DeservedChild ==
    ASSUME SoundInv, NEW w \in Supervisor, UNCHANGED masterVars,
           ActorStep(w) \/ RStep(w) \/ ConnectStep(w) \/ EnvironmentStep(w),
           Pipeline(w), ForwardOnly(w), Deserved(w)
    PROVE  Deserved(w)'
<1> USE DEF clientVars, routeVars, supVars, actVars, procVars, workerVars
<1> DEFINE P == Deserved(w)'
<1>0. /\ WorkerTypeOK /\ ChildSound(w) /\ ChildApart(w)
      /\ supBox[w] \in Seq(SupMessage) /\ actBox[w] \in Seq(ActMessage)
    BY DEF SoundInv, WorkerTypeOK, Pipeline
<1>1. BoundEpochs(w)' = BoundEpochs(w)
    BY DEF BoundEpochs, masterVars
<1>2. SameBox(supBox[w], supBox[w])
    BY <1>0, NeutralMessages
<1>3. ASSUME RetryWindowEnds(w) \/ ConnectFails(w) \/ RCrashes(w) PROVE P
    <2>1. /\ UNCHANGED <<actPid, workspace, currentMessage, actBox, supState, supBox, trusting>>
          /\ actState'[w] # "stopped" => actState[w] # "stopped"
          /\ actState'[w] = "upload" => actState[w] = "upload"
        BY <1>0, <1>3 DEF RetryWindowEnds, ConnectFails, RCrashes, WorkerTypeOK
    <2>2. Memory(w)' = Memory(w) /\ InHand(w)' = InHand(w)
        BY <2>1 DEF Memory, InHand
    <2>3. Late(w)' = Late(w) /\ Pending(w)' = Pending(w)
        BY <1>1, <1>2, <2>1, <2>2, LateSame DEF Pending
    <2>4. actState'[w] = "upload" => InHand(w)' \subseteq Memory(w)'
        BY <2>1, <2>2 DEF Deserved
    <2> QED BY <2>1, <2>2, <2>3, <2>4, DeservedLess
<1>4. ASSUME Connected(w) PROVE P
    <2>1. PICK p \in FreshPid : supBox' = Tell(supBox, w, PId(p))
        BY <1>4 DEF Connected
    <2>2. /\ UNCHANGED <<actBox, currentMessage, supState, trusting>> /\ actState'[w] = "idle"
          /\ actState[w] # "stopped" /\ actPid[w] = NoPid
        BY <1>0, <1>4 DEF Connected, ChildSound, Unconnected, WorkerTypeOK
    <2>3. Memory(w) = {} /\ InHand(w)' = InHand(w)
        BY <2>2 DEF Memory, InHand
    <2>4. supBox'[w] = Append(supBox[w], PId(p))
        BY <1>0, <2>1 DEF Tell, WorkerTypeOK
    <2>5. ~IsRequest(PId(p)) /\ ~EndsSession(PId(p))
        BY DEF IsRequest, EndsSession, RequestKind, PId
    <2>6. SameBox(supBox[w], supBox'[w])
        BY <1>0, <2>4, <2>5, NeutralMessages
    <2>7. Late(w)' = Late(w) /\ Pending(w)' = Pending(w)
        BY <1>1, <2>2, <2>3, <2>6, LateSame DEF Pending, SameBox
    <2> QED BY <2>2, <2>3, <2>7, DeservedLess
<1>5. ASSUME ActorReceives(w) PROVE P
    <2> DEFINE h == Head(actBox[w])
               a == actBox[w]
               t == Tail(a)
    <2>1. /\ a # <<>> /\ actBox'[w] = t /\ currentMessage'[w] = h /\ actState[w] = "idle"
          /\ UNCHANGED <<supBox, supState, actPid, workspace, trusting>>
        BY <1>0, <1>5 DEF ActorReceives, WorkerTypeOK
    <2>2. h \in ActMessage /\ actState'[w] # "upload"
        <3>1. h \in ActMessage
            BY <1>0, <2>1, HeadTailProperties
        <3>2. actState'[w] \in FirstState(h)
            BY <1>0, <1>5 DEF ActorReceives, WorkerTypeOK
        <3>3. h.type \in RequestKind \cup {"Kill"}
            BY <3>1 DEF ActMessage, RRequestMessage, Kill
        <3>4. "upload" \notin FirstState(h)
            BY <3>3 DEF FirstState, RequestKind
        <3> QED BY <3>1, <3>2, <3>4
    <2>3. Memory(w)' = Memory(w) /\ InHand(w)' = EpochOf(h)
        BY <2>1, <2>2, ActMessages DEF Memory, InHand, EpochOf
    <2>4. Epochs(a) = Epochs(t) \cup EpochOf(h)
        BY <1>0, <2>1, BoxTail
    <2> HIDE DEF h, a, t
    <2>5. Late(w)' = Late(w) /\ Pending(w)' \subseteq Pending(w)
        BY <1>1, <1>2, <2>1, <2>3, <2>4, LateSame DEF Pending, a
    <2> QED BY <2>1, <2>2, <2>3, <2>5, DeservedLess
<1>6. ASSUME Downloaded(w) \/ DownloadFails(w) \/ UploadEnds(w) \/ RStep(w) PROVE P
    <2> DEFINE m == currentMessage[w]
               e == m.epoch
    <2>1. /\ actState[w] \in {"download", "inR", "upload"}
          /\ UNCHANGED <<actPid, actBox, supState, supBox>>
          /\ Taint(w) \/ UNCHANGED workspace
        BY <1>6 DEF Downloaded, DownloadFails, UploadEnds, RStep, REvalOk, NothingToAssign,
                    ScriptRan, REvalFails, ScriptFails
    <2>2. currentMessage'[w] = None \/ currentMessage'[w] = m
        BY <1>0, <1>6 DEF Downloaded, DownloadFails, UploadEnds, RStep, REvalOk,
            NothingToAssign, ScriptRan, REvalFails, ScriptFails, AnswerAndIdle, WorkerTypeOK
    <2>3. /\ m \in RRequestMessage /\ actPid[w] \in Pid /\ actPid[w] # NoPid
          /\ workspace \in [Pid -> SUBSET MsgId]
        BY <1>0, <2>1, WorkerAssumption DEF WorkerTypeOK, ChildSound, Unconnected
    <2>4. InHand(w) = {e} /\ InHand(w)' \subseteq {e}
        BY <2>2, <2>3, ActMessages DEF InHand
    <2>5. /\ Memory(w) \subseteq Memory(w)'
          /\ Taint(w) => e \in Memory(w)'
        BY <2>1, <2>3 DEF Taint, Memory
    <2>6. Late(w)' = Late(w) /\ Pending(w)' \subseteq Pending(w)
        BY <1>1, <1>2, <2>1, <2>4, LateSame DEF Pending
    <2>7. e \notin Late(w)
        BY <1>0, <2>4, NotLate DEF ChildEpochs, Data
    \* What is added to the trusting sessions is in the memory of R.
    <2>8. trusting' \subseteq trusting \/ (trusting' \subseteq trusting \cup {e} /\ e \in Memory(w)')
        <3>1. CASE UploadEnds(w)
            <4>1. e \in Memory(w)
                BY <2>4, <3>1 DEF UploadEnds, Deserved
            <4> QED BY <2>5, <3>1, <4>1 DEF UploadEnds
        <3>2. CASE REvalOk(w)
            BY <2>5, <3>2 DEF REvalOk
        <3>3. CASE ~UploadEnds(w) /\ ~REvalOk(w)
            BY <1>6, <3>3 DEF Downloaded, DownloadFails, RStep, NothingToAssign, ScriptRan,
                              REvalFails, ScriptFails
        <3> QED BY <3>1, <3>2, <3>3
    <2>9. actState'[w] = "upload" => InHand(w)' \subseteq Memory(w)'
        <3>1. CASE ScriptRan(w)
            BY <2>4, <2>5, <3>1 DEF ScriptRan
        <3>2. CASE ~ScriptRan(w)
            BY <1>0, <1>6, <3>2 DEF Downloaded, DownloadFails, UploadEnds, RStep, REvalOk,
                NothingToAssign, REvalFails, ScriptFails, AnswerAndIdle, WorkerTypeOK
        <3> QED BY <3>1, <3>2
    <2> HIDE DEF e, m
    <2> QED BY <2>1, <2>5, <2>6, <2>7, <2>8, <2>9 DEF Deserved
<1> HIDE DEF P
<1>7. P
    BY <1>3, <1>4, <1>5, <1>6 DEF ActorStep, ConnectStep, EnvironmentStep
<1> QED BY <1>7 DEF P

\* Only a session that has a request in the hands of the child comes to trust, and
\* without checked exceptions nothing escalates.
LEMMA TrustGrows ==
    ASSUME SoundInv, NEW w \in Supervisor, WorkerStep(w)
    PROVE  /\ trusting' \subseteq trusting \cup InHand(w)
           /\ "CheckedException" \notin Faults /\ actState[w] # "failedIO"
                => actState'[w] # "failedIO"
<1> USE DEF clientVars, routeVars, supVars, actVars, procVars, workerVars
<1>0. WorkerTypeOK /\ ChildSound(w) /\ actBox[w] \in Seq(ActMessage)
    BY DEF SoundInv, WorkerTypeOK
<1>1. trusting' \subseteq trusting \cup InHand(w)
    <2>1. CASE UploadEnds(w) \/ REvalOk(w)
        <3>1. trusting' \subseteq trusting \cup {currentMessage[w].epoch}
            BY <2>1 DEF UploadEnds, REvalOk
        <3>2. currentMessage[w] \in RRequestMessage
            BY <1>0, <2>1 DEF ChildSound, UploadEnds, REvalOk
        <3> QED BY <3>1, <3>2, ActMessages DEF InHand
    <2>2. CASE ~(UploadEnds(w) \/ REvalOk(w))
        BY <2>2 DEF WorkerStep, SupervisorStep, ActorStep, RStep, ConnectStep,
           EnvironmentStep, PIdReceived, FinishReceived, RExceptionReceived,
           RequestReceived, KillReceived, PoisonPillReceived, StopReceived, ChildStops,
           SupRestarted, SupStopped, ChildRestarts, TellSenderOfFailure, ChildReconnects,
           ChildGivenUp, ChildEscalates, ActorReceives, Downloaded, DownloadFails,
           NothingToAssign, ScriptRan, REvalFails, ScriptFails, Connected, ConnectFails,
           RCrashes, RetryWindowEnds
    <2> QED BY <2>1, <2>2
<1>2. ASSUME "CheckedException" \notin Faults, actState[w] # "failedIO"
      PROVE  actState'[w] # "failedIO"
    <2>1. CASE ActorReceives(w)
        <3>1. Head(actBox[w]) \in ActMessage
            BY <1>0, <2>1, HeadTailProperties DEF ActorReceives
        <3>2. Head(actBox[w]).type \in RequestKind \cup {"Kill"}
            BY <3>1 DEF ActMessage, RRequestMessage, Kill
        <3>3. "failedIO" \notin FirstState(Head(actBox[w]))
            BY <3>2 DEF FirstState, RequestKind
        <3> QED BY <1>0, <2>1, <3>3 DEF ActorReceives, WorkerTypeOK
    <2>2. CASE ChildStops(w) \/ ChildGivenUp(w)
        BY <1>0, <2>2, StopChildType DEF ChildStops, ChildGivenUp
    <2>3. CASE SupervisorStep(w) /\ ~(ChildStops(w) \/ ChildGivenUp(w))
        BY <1>0, <1>2, <2>3 DEF SupervisorStep, PIdReceived, FinishReceived,
           RExceptionReceived, RequestReceived, KillReceived, PoisonPillReceived,
           StopReceived, SupRestarted, SupStopped, ChildRestarts, ChildReconnects,
           ChildEscalates, WorkerTypeOK
    <2>4. CASE RStep(w) \/ ConnectStep(w) \/ EnvironmentStep(w) \/ Downloaded(w)
                 \/ DownloadFails(w) \/ UploadEnds(w)
        BY <1>0, <1>2, <2>4 DEF RStep, ConnectStep, EnvironmentStep, Downloaded,
           DownloadFails, UploadEnds, REvalOk, NothingToAssign, ScriptRan, REvalFails,
           ScriptFails, AnswerAndIdle, Connected, ConnectFails, RCrashes, RetryWindowEnds,
           WorkerTypeOK
    <2> QED BY <2>1, <2>2, <2>3, <2>4 DEF WorkerStep, ActorStep
<1> QED BY <1>1, <1>2
-----------------------------------------------------------------------------
(* What the master does to the sessions of a worker before the first       *)
(* timeout                                                                 *)

SessionEnds(v)  == ToldToEnd(v) /\ BoundEpochs(v)' = {}
SessionStays(v) == BoundEpochs(v)' = BoundEpochs(v)
ToldOwn(v)      == \E m \in RRequestMessage : /\ supBox'[v] = Append(supBox[v], m)
                                              /\ m.epoch \in BoundEpochs(v)'

\* Worker v gets a session, with the message that is being handled, and no other
\* worker hears of it.
SessionStarts(v) ==
    /\ ReceiveFromClient
    /\ BoundEpochs(v) = {} /\ BoundEpochs(v)' = {thisMsg}
    /\ \A x \in Supervisor : x # v => ToldNothing(x) /\ SessionStays(x)

MasterBinds(v) == \/ SessionEnds(v)
                  \/ (ToldNothing(v) \/ ToldOwn(v)) /\ (SessionStays(v) \/ SessionStarts(v))

LEMMA ResolveBinds ==
    ASSUME MasterTypeOK, BoundHasEpoch, Undisturbed, ReceiveFromClient,
           NEW u \in UUID, NEW c \in Client, NEW w \in Supervisor, ResolveActor(u, c, w),
           NEW v \in Supervisor, \A x \in Supervisor : x # w => ToldNothing(x)
    PROVE  /\ IF v = w THEN SessionStays(v) \/ SessionStarts(v) ELSE SessionStays(v)
           /\ (IF Bound(u) THEN bindEpoch[u] ELSE thisMsg) \in BoundEpochs(w)'
<1>1. CASE ResolveBound(u, w)
    <2>1. /\ UNCHANGED <<rWorkerSessionMap, bindEpoch>> /\ rWorkerSessionMap[u] = w /\ Bound(u)
        BY <1>1 DEF ResolveBound, masterVars, Bound
    <2>2. SessionStays(v) /\ bindEpoch[u] \in BoundEpochs(w)'
        BY <2>1 DEF SessionStays, BoundEpochs
    <2> QED BY <2>1, <2>2
<1>2. CASE ResolveUnused(u, c, w)
    <2>1. /\ rWorkerSessionMap' = [rWorkerSessionMap EXCEPT ![u] = w]
          /\ bindEpoch' = [bindEpoch EXCEPT ![u] = thisMsg]
          /\ ~Bound(u) /\ w \notin BoundWorkers
        BY <1>2, WriteAlone DEF ResolveUnused, availableActors
    <2>2. \A x \in UUID : rWorkerSessionMap[x] # w
        BY <2>1, MailboxAssumption DEF BoundWorkers, BoundUUIDs, Bound
    <2>3. /\ \A x \in UUID : rWorkerSessionMap'[x] = IF x = u THEN w ELSE rWorkerSessionMap[x]
          /\ \A x \in UUID : bindEpoch'[x] = IF x = u THEN thisMsg ELSE bindEpoch[x]
        BY <2>1 DEF MasterTypeOK
    <2>4. BoundEpochs(w) = {}
        BY <2>2 DEF BoundEpochs
    <2>5. BoundEpochs(w)' = {thisMsg}
        BY <2>2, <2>3 DEF BoundEpochs
    <2>6. ASSUME NEW x \in Supervisor, x # w PROVE SessionStays(x)
        <3>1. rWorkerSessionMap[u] # x /\ rWorkerSessionMap'[u] # x
            BY <2>1, <2>3, <2>6, MailboxAssumption DEF Bound
        <3>2. {y \in UUID : rWorkerSessionMap'[y] = x} = {y \in UUID : rWorkerSessionMap[y] = x}
            BY <2>3, <3>1
        <3>3. \A y \in UUID : rWorkerSessionMap[y] = x => bindEpoch'[y] = bindEpoch[y]
            BY <2>3, <3>1
        <3> QED BY <3>2, <3>3 DEF SessionStays, BoundEpochs
    <2>7. SessionStarts(w)
        BY <2>4, <2>5, <2>6 DEF SessionStarts
    <2> QED BY <2>1, <2>5, <2>6, <2>7
<1> QED BY <1>1, <1>2 DEF ResolveActor

LEMMA MasterBindings ==
    ASSUME MasterTypeOK, BoundHasEpoch, SessionsSound, OneSessionPerWorker, NEW S,
           supBox \in [Supervisor -> Seq(S)], \A t \in timers : ~t.sleeping,
           MasterNext, timeouts' = 0, NEW v \in Supervisor
    PROVE  MasterBinds(v) /\ UNCHANGED stopAsked
<1> DEFINE P == MasterBinds(v) /\ UNCHANGED stopAsked
<1>0. Undisturbed
    BY CalmWithoutSleepers
<1>1. ASSUME UNCHANGED <<supBox, rWorkerSessionMap, bindEpoch, stopAsked>> PROVE P
    BY <1>1 DEF MasterBinds, ToldNothing, SessionStays, BoundEpochs
<1>2. ASSUME NEW c \in Client, NEW u \in UUID, IsRActorAvailable(c, u) PROVE P
    <2>1. ASSUME NEW w \in Supervisor, ResolveActor(u, c, w) PROVE P
        <3>1. ReceiveFromClient /\ UNCHANGED <<supBox, stopAsked>>
            BY <1>2 DEF IsRActorAvailable
        <3>2. \A x \in Supervisor : ToldNothing(x)
            BY <3>1 DEF ToldNothing
        <3>3. SessionStays(v) \/ SessionStarts(v)
            BY <1>0, <2>1, <3>1, <3>2, ResolveBinds
        <3> QED BY <3>1, <3>2, <3>3 DEF MasterBinds
    <2> QED BY <1>1, <1>2, <2>1 DEF IsRActorAvailable, masterVars
<1>3. ASSUME NEW c \in Client, NEW u \in UUID, NEW kind \in ClientKinds,
             RouteRequest(c, u, kind)
      PROVE  P
    <2> DEFINE m == RRequest(kind, u, thisMsg, IF Bound(u) THEN bindEpoch[u] ELSE thisMsg)
    <2>1. /\ m \in RRequestMessage
          /\ m.epoch = IF Bound(u) THEN bindEpoch[u] ELSE thisMsg
        BY <1>3, RoutedRequest DEF RouteRequest
    <2>2. /\ \/ UNCHANGED <<masterVars, supBox>>
             \/ \E w \in Supervisor : ResolveActor(u, c, w) /\ supBox' = Tell(supBox, w, m)
          /\ ReceiveFromClient /\ UNCHANGED stopAsked
        BY <1>3 DEF RouteRequest
    <2> HIDE DEF m
    <2>3. ASSUME NEW w \in Supervisor, ResolveActor(u, c, w), supBox' = Tell(supBox, w, m)
          PROVE  P
        <3>1. \A x \in Supervisor : x # w => ToldNothing(x)
            BY <2>3 DEF Tell, ToldNothing
        <3>2. /\ IF v = w THEN SessionStays(v) \/ SessionStarts(v) ELSE SessionStays(v)
              /\ m.epoch \in BoundEpochs(w)'
            BY <1>0, <2>1, <2>2, <2>3, <3>1, ResolveBinds
        <3>3. supBox'[w] = Append(supBox[w], m)
            BY <2>3 DEF Tell
        <3>4. ToldOwn(w)
            BY <2>1, <3>2, <3>3 DEF ToldOwn
        <3> QED BY <2>2, <3>1, <3>2, <3>4 DEF MasterBinds
    <2> QED BY <1>1, <2>2, <2>3 DEF masterVars
<1>4. ASSUME NEW u \in UUID, FinishRSessionReceived(u) PROVE P
    <2>1. /\ rWorkerSessionMap' = [rWorkerSessionMap EXCEPT ![u] = None]
          /\ UNCHANGED <<bindEpoch, stopAsked>>
        BY <1>0, <1>4, WriteAlone DEF FinishRSessionReceived
    <2>2. \A x \in UUID : rWorkerSessionMap'[x] = IF x = u THEN None ELSE rWorkerSessionMap[x]
        BY <2>1 DEF MasterTypeOK
    <2>3. CASE rWorkerSessionMap[u] = v
        <3>1. supBox'[v] = Append(supBox[v], FinishRSession(u))
            BY <1>4, <2>3, MailboxAssumption DEF FinishRSessionReceived, Tell, Bound
        <3>2. FinishRSession(u) \in EndMessage
            BY DEF FinishRSession, EndMessage, FinishMessage
        <3>3. \A x \in UUID : rWorkerSessionMap'[x] # v
            BY <2>2, <2>3, MailboxAssumption DEF OneSessionPerWorker, BoundUUIDs, Bound
        <3>4. BoundEpochs(v)' = {}
            BY <3>3 DEF BoundEpochs
        <3> QED BY <2>1, <3>1, <3>2, <3>4 DEF MasterBinds, SessionEnds, ToldToEnd
    <2>4. CASE rWorkerSessionMap[u] # v
        <3>1. ToldNothing(v)
            BY <1>4, <2>4 DEF FinishRSessionReceived, Tell, Bound, ToldNothing
        <3>2. {x \in UUID : rWorkerSessionMap'[x] = v} = {x \in UUID : rWorkerSessionMap[x] = v}
            BY <2>2, <2>4, MailboxAssumption
        <3>3. SessionStays(v)
            BY <2>1, <3>2 DEF SessionStays, BoundEpochs
        <3> QED BY <2>1, <3>1, <3>3 DEF MasterBinds
    <2> QED BY <2>3, <2>4
\* Where all sessions end, those of v do, and it is told if it has one.
<1>5. ASSUME \A u \in UUID : rWorkerSessionMap'[u] = None, UNCHANGED stopAsked,
             ToldToEnd(v) \/ (ToldNothing(v) /\ \A u \in UUID : rWorkerSessionMap[u] # v)
      PROVE  P
    <2>1. BoundEpochs(v)' = {}
        BY <1>5, MailboxAssumption DEF BoundEpochs
    <2>2. (\A u \in UUID : rWorkerSessionMap[u] # v) => BoundEpochs(v) = {}
        BY DEF BoundEpochs
    <2> QED BY <1>5, <2>1, <2>2 DEF MasterBinds, SessionEnds, SessionStays
<1>6. ASSUME RStop PROVE P
    <2>1. \A u \in UUID : rWorkerSessionMap'[u] = None
        BY <1>0, <1>6, WriteAlone DEF RStop
    <2>2. CASE v \in rServeRouter
        BY <1>5, <1>6, <2>1, <2>2 DEF RStop, ToldToEnd, EndMessage
    <2>3. CASE v \notin rServeRouter
        <3>1. ToldNothing(v)
            BY <1>6, <2>3 DEF RStop, ToldNothing
        <3>2. \A u \in UUID : rWorkerSessionMap[u] # v
            BY <2>3, MailboxAssumption
               DEF SessionsSound, BoundToRouter, BoundWorkers, BoundUUIDs, Bound
        <3> QED BY <1>5, <1>6, <2>1, <3>1, <3>2 DEF RStop
    <2> QED BY <2>2, <2>3
<1>7. ASSUME NEW c \in Client, Terminated(c) PROVE P
    <2>1. \A u \in UUID : rWorkerSessionMap[u] # None => remoteClientSessionMap[u] # None
        BY MasterAssumption DEF SessionsSound, WatchedWhileBound, MasterTypeOK,
                                BoundUUIDs, Bound
    <2>2. \A u \in UUID : rWorkerSessionMap'[u] = None
        BY <1>0, <1>7, <2>1, WriteAlone DEF Terminated
    <2>3. UNCHANGED stopAsked
        BY <1>7 DEF Terminated
    <2>4. CASE \E u \in UUID : rWorkerSessionMap[u] = v
        <3>1. ToldToEnd(v)
            BY <1>7, <2>1, <2>4, MailboxAssumption DEF Terminated, ToldToEnd, EndMessage
        <3> QED BY <1>5, <2>2, <2>3, <3>1
    <2>5. CASE ~\E u \in UUID : rWorkerSessionMap[u] = v
        <3>1. ToldNothing(v)
            BY <1>7, <2>5 DEF Terminated, ToldNothing
        <3> QED BY <1>5, <2>2, <2>3, <2>5, <3>1
    <2> QED BY <2>4, <2>5
<1>8. ~(\E u \in UUID : LookupFails(u)) /\ ~(\E t \in timers : TimerUnbinds(t))
    BY <1>0 DEF LookupFails, TimerUnbinds, Undisturbed
<1>9. \A t \in timers : ~TimerRunsOut(t)
    BY BeforeTimeout
<1>10. ASSUME (\E c \in Client : RegisterRemoteActor(c)) \/ RStart \/ MasterRestarted
       PROVE  P
    BY <1>1, <1>10 DEF RegisterRemoteActor, RStart, MasterRestarted
<1> HIDE DEF P
<1>11. P
    BY <1>2, <1>3, <1>4, <1>6, <1>7, <1>8, <1>9, <1>10 DEF MasterNext, TimerStep
<1> QED BY <1>11 DEF P

\* What the master leaves alone in worker v.
LEMMA MasterFrame ==
    ASSUME NEW v \in Supervisor, UNCHANGED workerVars
    PROVE  /\ Memory(v)' = Memory(v) /\ InHand(v)' = InHand(v) /\ Data(v)' = Data(v)
           /\ OpenData(v)' = OpenData(v) /\ Handed(v)' = Handed(v)
           /\ ChildEpochs(v)' = ChildEpochs(v) /\ actBox'[v] = actBox[v]
           /\ supState'[v] = supState[v] /\ actState'[v] = actState[v] /\ trusting' = trusting
<1> USE DEF workerVars, supVars, actVars
<1>1. Memory(v)' = Memory(v) /\ InHand(v)' = InHand(v)
    BY DEF Memory, InHand
<1>2. Data(v)' = Data(v) /\ OpenData(v)' = OpenData(v)
    BY <1>1 DEF Data, OpenData
<1>3. Handed(v)' = Handed(v) /\ ChildEpochs(v)' = ChildEpochs(v)
    BY <1>2 DEF Handed, ChildOpen, ChildEpochs
<1> QED BY <1>1, <1>2, <1>3

LEMMA TrustAfterEnd ==
    ASSUME NEW v \in Supervisor, ForwardOnly(v), Deserved(v), UNCHANGED workerVars,
           supBox[v] \in Seq(SupMessage), SessionEnds(v)
    PROVE  ForwardOnly(v)' /\ Deserved(v)' /\ AllEpochs(v)' \subseteq AllEpochs(v)
<1> DEFINE s == supBox[v]
           t == supBox'[v]
<1>0. PICK m \in EndMessage : t = Append(s, m)
    BY DEF SessionEnds, ToldToEnd
<1>1. EndsSession(m) /\ ~IsRequest(m) /\ \A X : X \cup EpochOf(m) = X
    BY MessageTypes DEF EpochOf, IsRequest
<1>2. /\ Ends(s) => FrontOf(t) = FrontOf(s)
      /\ ~Ends(s) => FrontOf(t) = FrontOf(s) \cup EpochOf(m)
      /\ Epochs(t) = Epochs(s) \cup EpochOf(m)
    BY <1>0, BoxAppend
<1>3. FrontOf(t) = FrontOf(s) /\ Epochs(t) = Epochs(s)
    BY <1>1, <1>2
<1>4. Once(t)
    BY <1>0, <1>1, NeutralOnce DEF ForwardOnly
<1>5. BoundEpochs(v)' = {}
    BY DEF SessionEnds
<1> HIDE DEF s, t
<1>6. WorkerEpochs(v)' = WorkerEpochs(v)
    BY <1>3, MasterFrame DEF WorkerEpochs, s, t
<1>7. ForwardOnly(v)'
    BY <1>3, <1>4, <1>5, MasterFrame DEF ForwardOnly, NoReturn, s, t
<1>8. Late(v)' \subseteq Late(v)
    BY <1>3, <1>5, MasterFrame DEF Late, s, t
<1>9. Pending(v)' \subseteq Pending(v)
    BY <1>3, <1>5, MasterFrame DEF Pending, s, t
<1>10. Deserved(v)'
    BY <1>8, <1>9, MasterFrame DEF Deserved
<1> QED BY <1>5, <1>6, <1>7, <1>10 DEF AllEpochs

LEMMA TrustAfterBinding ==
    ASSUME NEW v \in Supervisor, ForwardOnly(v), Deserved(v), UNCHANGED workerVars,
           supBox[v] \in Seq(SupMessage), ToldNothing(v) \/ ToldOwn(v),
           BoundEpochs(v) \subseteq BoundEpochs(v)', \A e, f \in BoundEpochs(v)' : e = f,
           (BoundEpochs(v)' \ BoundEpochs(v)) \cap (AllEpochs(v) \cup trusting) = {}
    PROVE  /\ ForwardOnly(v)' /\ Deserved(v)'
           /\ AllEpochs(v)' \subseteq AllEpochs(v) \cup BoundEpochs(v)'
<1> DEFINE s == supBox[v]
           t == supBox'[v]
           B == BoundEpochs(v)
           new == BoundEpochs(v)' \ BoundEpochs(v)
<1>1. BoundEpochs(v)' = B \cup new
    OBVIOUS
<1>2. ASSUME Late(v)' \subseteq Late(v) \cup new, Pending(v)' \subseteq Pending(v) \cup new
      PROVE  Deserved(v)'
    BY <1>2, MasterFrame DEF Deserved
<1>3. WorkerEpochs(v) \cap BoundEpochs(v)' \subseteq WorkerOpen(v)
    BY DEF ForwardOnly, AllEpochs
<1>4. CASE ToldNothing(v)
    <2>1. t = s
        BY <1>4 DEF ToldNothing
    <2>2. WorkerEpochs(v)' = WorkerEpochs(v) /\ WorkerOpen(v)' = WorkerOpen(v)
        BY <2>1, MasterFrame DEF WorkerEpochs, WorkerOpen
    <2>3. ForwardOnly(v)'
        BY <1>3, <2>1, <2>2, MasterFrame DEF ForwardOnly, NoReturn
    <2>4. Late(v)' \subseteq Late(v) \cup new /\ Pending(v)' \subseteq Pending(v) \cup new
        BY <2>1, MasterFrame DEF Late, Pending
    <2> QED BY <1>2, <2>2, <2>3, <2>4 DEF AllEpochs
<1>5. CASE ToldOwn(v)
    <2>1. PICK m \in RRequestMessage : t = Append(s, m) /\ m.epoch \in BoundEpochs(v)'
        BY <1>5 DEF ToldOwn
    <2> DEFINE e == m.epoch
    <2>2. EpochOf(m) = {e} /\ ~EndsSession(m)
        BY MessageTypes DEF EpochOf, IsRequest
    <2>3. /\ Ends(s) => FrontOf(t) = FrontOf(s)
          /\ ~Ends(s) => FrontOf(t) = FrontOf(s) \cup {e}
          /\ Epochs(t) = Epochs(s) \cup {e}
          /\ BackOf(t) = BackOf(s) \cup {e} /\ (Ends(t) <=> Ends(s))
        BY <2>1, <2>2, BoxAppend
    <2>4. BoundEpochs(v)' = {e}
        BY <2>1
    <2>5. /\ BackOf(s) \subseteq Epochs(s)
          /\ ~Ends(s) => BackOf(s) = Epochs(s)
        BY FrontAndBack
    <2> HIDE DEF s, t, e
    <2>6. WorkerEpochs(v) = ChildEpochs(v) \cup Epochs(s)
        BY DEF WorkerEpochs, s
    <2>7. WorkerOpen(v) = BackOf(s) \cup IF Ends(s) THEN {} ELSE Handed(v)
        BY DEF WorkerOpen, s
    <2>8. ChildEpochs(v) \cap Epochs(s) \subseteq Handed(v) \cap FrontOf(s)
        BY DEF ForwardOnly, NoReturn, s
    <2>9. Epochs(s) \cap {e} \subseteq BackOf(s)
        BY <1>3, <2>4, <2>5, <2>6, <2>7
    <2>10. Once(t)
        BY <2>1, <2>2, <2>9, OnceAppend DEF ForwardOnly, s
    <2>11. NoReturn(ChildEpochs(v), Handed(v), t)
        BY <1>3, <2>3, <2>4, <2>5, <2>6, <2>7, <2>8 DEF NoReturn
    <2>12. WorkerEpochs(v)' = WorkerEpochs(v) \cup {e} /\ e \in WorkerOpen(v)'
        BY <2>3, <2>6, MasterFrame DEF WorkerEpochs, WorkerOpen, t
    <2>13. ForwardOnly(v)'
        BY <2>4, <2>10, <2>11, <2>12, MasterFrame DEF ForwardOnly, NoReturn, t
    <2>14. Late(v)' \subseteq Late(v) \cup new
        BY <1>1, <2>3, <2>4, MasterFrame DEF Late, s, t
    <2>15. Pending(v)' \subseteq Pending(v) \cup new
        BY <1>1, <2>3, <2>4, MasterFrame DEF Pending, s, t
    <2> QED BY <1>2, <2>4, <2>12, <2>13, <2>14, <2>15 DEF AllEpochs
<1> QED BY <1>4, <1>5

LEMMA TrustMaster ==
    ASSUME SoundInv, NEW v \in Supervisor, ForwardOnly(v), Deserved(v), UNCHANGED workerVars,
           MasterBinds(v), OneSessionPerWorker', trusting \subseteq 1..handled,
           AllEpochs(v) \subseteq 1..handled
    PROVE  /\ ForwardOnly(v)' /\ Deserved(v)'
           /\ \/ AllEpochs(v)' \subseteq AllEpochs(v)
              \/ SessionStarts(v) /\ AllEpochs(v)' \subseteq AllEpochs(v) \cup {thisMsg}
<1>0. supBox[v] \in Seq(SupMessage) /\ handled \in Nat
    BY MailboxAssumption DEF SoundInv, WorkerTypeOK, MasterTypeOK
<1>1. CASE SessionEnds(v)
    BY <1>0, <1>1, TrustAfterEnd
<1>2. \A e, f \in BoundEpochs(v)' : e = f
    BY MailboxAssumption DEF BoundEpochs, OneSessionPerWorker, BoundUUIDs, Bound
<1>3. thisMsg \notin 1..handled
    BY <1>0 DEF thisMsg
<1>4. CASE (ToldNothing(v) \/ ToldOwn(v)) /\ SessionStays(v)
    <2>1. BoundEpochs(v)' = BoundEpochs(v)
        BY <1>4 DEF SessionStays
    <2>2. /\ ForwardOnly(v)' /\ Deserved(v)'
          /\ AllEpochs(v)' \subseteq AllEpochs(v) \cup BoundEpochs(v)'
        BY <1>0, <1>2, <1>4, <2>1, TrustAfterBinding
    <2> QED BY <2>1, <2>2 DEF AllEpochs
<1>5. CASE (ToldNothing(v) \/ ToldOwn(v)) /\ SessionStarts(v)
    <2>1. BoundEpochs(v)' = {thisMsg} /\ BoundEpochs(v) = {}
        BY <1>5 DEF SessionStarts
    <2>2. (BoundEpochs(v)' \ BoundEpochs(v)) \cap (AllEpochs(v) \cup trusting) = {}
        BY <1>3, <2>1
    <2>3. /\ ForwardOnly(v)' /\ Deserved(v)'
          /\ AllEpochs(v)' \subseteq AllEpochs(v) \cup BoundEpochs(v)'
        BY <1>0, <1>2, <1>5, <2>1, <2>2, TrustAfterBinding
    <2> QED BY <1>5, <2>1, <2>3
<1> QED BY <1>1, <1>4, <1>5 DEF MasterBinds
-----------------------------------------------------------------------------
(* The invariant                                                           *)

LEMMA TrustFrame ==
    ASSUME NEW v \in Supervisor, Frame(v), Memory(v)' = Memory(v), UNCHANGED masterVars,
           ForwardOnly(v), Deserved(v), trusting' \cap AllEpochs(v) \subseteq trusting
    PROVE  ForwardOnly(v)' /\ Deserved(v)' /\ AllEpochs(v)' = AllEpochs(v)
<1>1. /\ InHand(v)' = InHand(v) /\ currentMessage'[v] = currentMessage[v]
      /\ BoundEpochs(v)' = BoundEpochs(v) /\ supBox'[v] = supBox[v] /\ actBox'[v] = actBox[v]
      /\ supState'[v] = supState[v] /\ actState'[v] = actState[v]
    BY DEF Frame, InHand, BoundEpochs, masterVars
<1>2. Data(v)' = Data(v) /\ OpenData(v)' = OpenData(v)
    BY <1>1 DEF Data, OpenData
<1>3. ChildEpochs(v)' = ChildEpochs(v) /\ Handed(v)' = Handed(v)
    BY <1>1, <1>2 DEF ChildEpochs, Handed, ChildOpen
<1>4. WorkerEpochs(v)' = WorkerEpochs(v) /\ WorkerOpen(v)' = WorkerOpen(v)
    BY <1>1, <1>3 DEF WorkerEpochs, WorkerOpen
<1>5. ForwardOnly(v)' /\ AllEpochs(v)' = AllEpochs(v)
    BY <1>1, <1>2, <1>3, <1>4 DEF ForwardOnly, NoReturn, AllEpochs
<1>6. Late(v)' = Late(v) /\ Pending(v)' = Pending(v)
    BY <1>1 DEF Late, Pending
<1>7. Late(v) \subseteq AllEpochs(v)
    BY DEF Late, AllEpochs, WorkerEpochs
<1>8. Pending(v) \cap trusting' \subseteq trusting
    <2>1. FrontOf(supBox[v]) \subseteq Epochs(supBox[v])
        BY InEpochs
    <2> QED BY <2>1 DEF Pending, AllEpochs, WorkerEpochs, ChildEpochs, Data
<1>9. Deserved(v)'
    BY <1>1, <1>6, <1>7, <1>8 DEF Deserved
<1> QED BY <1>5, <1>9

LEMMA TrustWorkerStep ==
    ASSUME "CheckedException" \notin Faults, SoundInv, OwnPids, Trustworthy,
           \A v \in Supervisor : Pipeline(v),
           NEW w \in Supervisor, WorkerStep(w), UNCHANGED masterVars
    PROVE  Trustworthy'
<1>1. UNCHANGED <<stopAsked, handled>>
    BY SupervisorType, ChildType DEF WorkerStep, routeVars
<1>2. ForwardOnly(w) /\ Deserved(w) /\ Orderly(w) /\ Pipeline(w)
    BY DEF Trustworthy, Orderly
<1>3. ForwardOnly(w)' /\ AllEpochs(w)' \subseteq AllEpochs(w)
    BY <1>2, ForwardWorker
<1>4. Deserved(w)'
    BY <1>2, DeservedSupervisor, DeservedChild DEF WorkerStep
<1>5. trusting' \subseteq trusting \cup InHand(w) /\ actState'[w] # "failedIO"
    BY <1>2, TrustGrows DEF Orderly
<1>6. InHand(w) \subseteq AllEpochs(w)
    BY DEF AllEpochs, WorkerEpochs, ChildEpochs, Data
<1>7. ASSUME NEW v \in Supervisor, v # w
      PROVE  /\ ForwardOnly(v)' /\ Deserved(v)' /\ AllEpochs(v)' = AllEpochs(v)
             /\ actState'[v] # "failedIO"
    <2>1. Frame(v) /\ Memory(v)' = Memory(v)
        BY <1>7, WorkerFrame, OtherWorkers DEF SoundInv
    <2>2. trusting' \cap AllEpochs(v) \subseteq trusting
        BY <1>5, <1>6, <1>7 DEF Trustworthy
    <2>3. ForwardOnly(v)' /\ Deserved(v)' /\ AllEpochs(v)' = AllEpochs(v)
        BY <2>1, <2>2, TrustFrame DEF Trustworthy
    <2>4. actState'[v] # "failedIO"
        BY <2>1 DEF Frame, Trustworthy
    <2> QED BY <2>3, <2>4
<1>8. \A v \in Supervisor : AllEpochs(v)' \subseteq AllEpochs(v)
    BY <1>3, <1>7
<1>9. \A v \in Supervisor : ForwardOnly(v)' /\ Deserved(v)' /\ actState'[v] # "failedIO"
    BY <1>3, <1>4, <1>5, <1>7
<1>10. \A u, v \in Supervisor : u # v => AllEpochs(u)' \cap AllEpochs(v)' = {}
    BY <1>8 DEF Trustworthy
<1>11. trusting' \subseteq 1..handled /\ \A v \in Supervisor : AllEpochs(v)' \subseteq 1..handled
    BY <1>5, <1>6, <1>8 DEF Trustworthy
<1> QED BY <1>1, <1>9, <1>10, <1>11 DEF Trustworthy

LEMMA TrustMasterStep ==
    ASSUME SoundInv, Trustworthy, SessionsSound, OneSessionPerWorker, OneSessionPerWorker',
           \A t \in timers : ~t.sleeping, MasterStep, timeouts' = 0
    PROVE  Trustworthy'
<1>0. /\ MasterNext /\ MasterTypeOK /\ BoundHasEpoch /\ UNCHANGED workerVars
      /\ supBox \in [Supervisor -> Seq(SupMessage)] /\ handled \in Nat
    BY MailboxAssumption DEF SoundInv, WorkerTypeOK, MasterStep, MasterTypeOK
<1>1. \A v \in Supervisor : MasterBinds(v) /\ UNCHANGED stopAsked
    BY <1>0, MasterBindings
<1>2. ASSUME NEW v \in Supervisor
      PROVE  /\ ForwardOnly(v)' /\ Deserved(v)' /\ actState'[v] # "failedIO"
             /\ \/ AllEpochs(v)' \subseteq AllEpochs(v)
                \/ SessionStarts(v) /\ AllEpochs(v)' \subseteq AllEpochs(v) \cup {thisMsg}
    BY <1>0, <1>1, TrustMaster, MasterFrame DEF Trustworthy
<1>3. handled' = handled \/ handled' = handled + 1
    BY <1>0, MasterCounts DEF ReceiveFromClient
<1>4. 1..handled \subseteq 1..handled' /\ thisMsg \notin 1..handled
    BY <1>0, <1>3 DEF thisMsg
<1>5. stopAsked' = {}
    <2>1. CASE Supervisor = {}
        BY <2>1, SoundInvMaster DEF SoundInv, MasterTypeOK
    <2>2. CASE Supervisor # {}
        BY <1>1, <2>2 DEF Trustworthy
    <2> QED BY <2>1, <2>2
<1>6. trusting' \subseteq 1..handled'
    BY <1>0, <1>4 DEF Trustworthy, workerVars
<1>7. ASSUME NEW v \in Supervisor PROVE AllEpochs(v)' \subseteq 1..handled'
    <2>1. CASE AllEpochs(v)' \subseteq AllEpochs(v)
        BY <1>4, <2>1 DEF Trustworthy
    <2>2. CASE SessionStarts(v) /\ AllEpochs(v)' \subseteq AllEpochs(v) \cup {thisMsg}
        <3>1. thisMsg \in 1..handled'
            BY <1>0, <2>2 DEF SessionStarts, ReceiveFromClient, thisMsg
        <3> QED BY <1>4, <2>2, <3>1 DEF Trustworthy
    <2> QED BY <1>2, <2>1, <2>2
\* Only one worker can have got the new session.
<1>8. ASSUME NEW v \in Supervisor, NEW w \in Supervisor, v # w, SessionStarts(v)
      PROVE  AllEpochs(w)' \subseteq AllEpochs(w)
    <2>1. supBox'[w] = supBox[w] /\ BoundEpochs(w)' = BoundEpochs(w)
        BY <1>8 DEF SessionStarts, ToldNothing, SessionStays
    <2> QED BY <1>0, <2>1, MasterFrame DEF AllEpochs, WorkerEpochs
<1>9. ASSUME NEW v \in Supervisor, NEW w \in Supervisor, v # w
      PROVE  AllEpochs(v)' \cap AllEpochs(w)' = {}
    <2>1. /\ AllEpochs(v) \cap AllEpochs(w) = {} /\ thisMsg \notin AllEpochs(v)
          /\ thisMsg \notin AllEpochs(w)
        BY <1>4, <1>9 DEF Trustworthy
    <2> QED BY <1>2, <1>8, <1>9, <2>1
<1>10. \A v \in Supervisor : ForwardOnly(v)' /\ Deserved(v)' /\ actState'[v] # "failedIO"
    BY <1>2
<1>11. \A v, w \in Supervisor : v # w => AllEpochs(v)' \cap AllEpochs(w)' = {}
    BY <1>9
<1> QED BY <1>5, <1>6, <1>7, <1>10, <1>11 DEF Trustworthy

LEMMA TrustInvStep ==
    ASSUME "CheckedException" \notin Faults, SoundInv, PipelineInv, PipelineInv', TrustInv, Next
    PROVE  TrustInv'
<1> SUFFICES ASSUME timeouts' = 0 PROVE Trustworthy'
    BY DEF TrustInv
<1>1. CASE MasterStep
    <2>1. MasterNext /\ MasterTypeOK
        BY <1>1 DEF MasterStep, SoundInv
    <2>2. timeouts = 0
        BY <2>1, BeforeTimeout
    <2>3. /\ SessionsSound /\ OneSessionPerWorker /\ OneSessionPerWorker'
          /\ \A t \in timers : ~t.sleeping
        BY <2>2 DEF PipelineInv, SoundUntilTimeout, NoSleeper
    <2> QED BY <1>1, <2>2, <2>3, TrustMasterStep DEF TrustInv
<1>2. ASSUME NEW w \in Supervisor, WorkerStep(w), UNCHANGED masterVars PROVE Trustworthy'
    <2>1. timeouts = 0
        BY <1>2 DEF masterVars
    <2> QED BY <1>2, <2>1, TrustWorkerStep DEF TrustInv, PipelineInv
<1> QED BY <1>1, <1>2 DEF Next

LEMMA TrustInvStutter == TrustInv /\ UNCHANGED vars => TrustInv'
<1> SUFFICES ASSUME timeouts = 0, Trustworthy, UNCHANGED vars PROVE Trustworthy'
    BY DEF TrustInv, vars, masterVars
<1>1. /\ UNCHANGED <<workerVars, masterVars, supBox, routeVars>>
      /\ UNCHANGED <<stopAsked, handled, trusting, actState>>
    BY DEF vars, clientVars, routeVars, workerVars, actVars
<1>2. ASSUME NEW v \in Supervisor
      PROVE  ForwardOnly(v)' /\ Deserved(v)' /\ AllEpochs(v)' = AllEpochs(v)
    <2>1. Frame(v) /\ Memory(v)' = Memory(v)
        BY <1>1 DEF Frame, Memory, workerVars, supVars, actVars
    <2> QED BY <1>1, <2>1, TrustFrame DEF Trustworthy
<1> QED BY <1>1, <1>2 DEF Trustworthy

LEMMA TrustInvInit == Init => TrustInv
<1> SUFFICES ASSUME Init PROVE Trustworthy
    BY DEF TrustInv
<1>0. stopAsked = {} /\ trusting = {}
    BY DEF Init, MasterInit, WorkerInit
<1>1. ASSUME NEW w \in Supervisor
      PROVE  AllEpochs(w) = {} /\ ForwardOnly(w) /\ Deserved(w) /\ actState[w] # "failedIO"
    <2>1. /\ supBox[w] = <<>> /\ actBox[w] = <<>> /\ actPid[w] = NoPid
          /\ currentMessage[w] = None /\ actState[w] = "creating"
          /\ \A u \in UUID : rWorkerSessionMap[u] # w
        BY MailboxAssumption DEF Init, MasterInit, WorkerInit
    <2>2. Memory(w) = {} /\ InHand(w) = {} /\ BoundEpochs(w) = {}
        BY <2>1 DEF Memory, InHand, BoundEpochs
    <2>3. ChildEpochs(w) = {} /\ Data(w) = {}
        BY <2>1, <2>2, EmptyBox DEF Data, ChildEpochs
    <2>4. WorkerEpochs(w) = {} /\ AllEpochs(w) = {}
        BY <2>1, <2>2, <2>3, EmptyBox DEF WorkerEpochs, AllEpochs
    <2>5. ForwardOnly(w)
        BY <2>1, <2>2, <2>3, EmptyOnce DEF ForwardOnly, NoReturn
    <2>6. Deserved(w)
        BY <1>0, <2>1 DEF Deserved
    <2> QED BY <2>1, <2>4, <2>5, <2>6
<1> QED BY <1>0, <1>1 DEF Trustworthy

\* Until the first session timer runs out, and unless the file transfer throws a
\* checked exception, a client whose requests were acknowledged and who was not told
\* of an exception since finds its data in the R process that takes its next
\* request: restarts of the child or of the supervisor, crashes of R and the ends of
\* earlier sessions never replace R behind the back of a session.
THEOREM LossesAreTold ==
    ASSUME "CheckedException" \notin Faults
    PROVE  Spec => [](timeouts = 0 => NoSilentLoss)
<1>1. SoundInv /\ TrustInv => (timeouts = 0 => NoSilentLoss)
    <2> SUFFICES ASSUME SoundInv, Trustworthy, NEW w \in created, actState[w] = "inR",
                        actPid[w] \in alive, currentMessage[w].epoch \in trusting
                 PROVE  currentMessage[w].epoch \in workspace[actPid[w]]
        BY DEF TrustInv, NoSilentLoss
    <2>1. w \in Supervisor /\ ChildSound(w)
        BY DEF SoundInv, MasterTypeOK
    <2>2. currentMessage[w] \in RRequestMessage /\ actPid[w] # NoPid
        BY <2>1 DEF ChildSound, Unconnected
    <2>3. currentMessage[w].epoch \in InHand(w)
        BY <2>2, ActMessages DEF InHand
    <2>4. currentMessage[w].epoch \in Memory(w)
        BY <2>1, <2>3 DEF Trustworthy, Deserved, Pending
    <2> QED BY <2>2, <2>4 DEF Memory
<1>2. SoundInv /\ PipelineInv /\ PipelineInv' /\ TrustInv /\ [Next]_vars => TrustInv'
    BY TrustInvStep, TrustInvStutter
<1> QED BY <1>1, <1>2, TrustInvInit, SoundInvAlways, PipelineInvAlways, PTL DEF Spec
=============================================================================
