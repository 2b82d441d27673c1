------------------------- MODULE RServeMaster_proofs -------------------------
(***************************************************************************)
(* What holds of RServeMaster for any number of sessions, clients, workers *)
(* and timeouts.  Lemmas about one step of the master come first, so that  *)
(* the whole server can use them as well as the master alone.              *)
(***************************************************************************)
EXTENDS RServeMaster, FiniteSetTheorems, SequenceTheorems, TLAPS

\* A handler's write, alone or overlapping a timer's remove, gives every key
\* its new value, its old one, or none; and no timer appears that was not added.
LEMMA WriteOutcome ==
    ASSUME NEW new \in [UUID -> Supervisor \cup {None}], NEW added,
           rWorkerSessionMap \in [UUID -> Supervisor \cup {None}],
           WriteSessionMap(new, added)
    PROVE  /\ rWorkerSessionMap' \in [UUID -> Supervisor \cup {None}]
           /\ \A u \in UUID : rWorkerSessionMap'[u] \in {new[u], rWorkerSessionMap[u], None}
           /\ timers' \subseteq timers \cup added
<1>1. CASE rWorkerSessionMap' = new /\ timers' = timers \cup added
    BY <1>1
<1>2. CASE \E t \in WakingTimers("write") : /\ rWorkerSessionMap' \in RaceOutcomes(new, t.uuid)
                                            /\ timers' = (timers \ {t}) \cup added
    BY <1>2 DEF RaceOutcomes
<1> QED BY <1>1, <1>2 DEF WriteSessionMap

\* No timer is about to write the session map: there are no races, or no timer
\* sleeps.
Undisturbed == \A race \in {"lookup", "write"} : WakingTimers(race) = {}

LEMMA CalmWithoutRaces == Races = {} => Undisturbed
BY DEF Undisturbed, WakingTimers

LEMMA CalmWithoutSleepers == (\A t \in timers : ~t.sleeping) => Undisturbed
BY DEF Undisturbed, WakingTimers

\* A handler's undisturbed write is just that.
LEMMA WriteAlone ==
    ASSUME Undisturbed, NEW new, NEW added, WriteSessionMap(new, added)
    PROVE  rWorkerSessionMap' = new /\ timers' = timers \cup added
BY DEF WriteSessionMap, Undisturbed

\* The client messages are numbered within the bound.
LEMMA NumberOfMessage ==
    ASSUME MasterTypeOK, ReceiveFromClient
    PROVE  thisMsg \in MsgId /\ handled' \in 0..MaxMsgs /\ thisMsg # 0
BY MailboxAssumption DEF MasterTypeOK, ReceiveFromClient, thisMsg, MsgId

LEMMA AnswerType ==
    ASSUME MasterTypeOK, NEW id \in MsgId, Answer(id)
    PROVE  answers' \in [MsgId -> Nat]
BY DEF MasterTypeOK, Answer

\* resolveActor keeps the types.
LEMMA ResolveType ==
    ASSUME MasterTypeOK, NEW u \in UUID, NEW c \in Client, NEW w \in Supervisor,
           ResolveActor(u, c, w), thisMsg \in MsgId,
           created' = created, stopAsked' = stopAsked,
           handled' \in 0..MaxMsgs, answers' \in [MsgId -> Nat]
    PROVE  MasterTypeOK'
<1>1. CASE ResolveBound(u, w)
    BY <1>1 DEF ResolveBound, masterVars, MasterTypeOK
<1>2. CASE ResolveUnused(u, c, w)
    <2> DEFINE new == [rWorkerSessionMap EXCEPT ![u] = w]
               t == [uuid |-> u, epoch |-> thisMsg, sleeping |-> FALSE]
    <2>1. new \in [UUID -> Supervisor \cup {None}] /\ t \in Timer
        BY DEF MasterTypeOK, Timer
    <2>2. WriteSessionMap(new, {t})
        BY <1>2 DEF ResolveUnused
    <2>3. rWorkerSessionMap' \in [UUID -> Supervisor \cup {None}] /\ timers' \subseteq Timer
        <3> HIDE DEF new, t
        <3> QED BY <2>1, <2>2, WriteOutcome DEF MasterTypeOK
    <2> QED BY <1>2, <2>3 DEF ResolveUnused, MasterTypeOK
<1> QED BY <1>1, <1>2 DEF ResolveActor

LEMMA TypeStep == MasterTypeOK /\ MasterNext => MasterTypeOK'
<1> SUFFICES ASSUME MasterTypeOK, MasterNext PROVE MasterTypeOK'
    OBVIOUS
<1> USE MasterAssumption, MailboxAssumption
<1>1. ASSUME NEW c \in Client, RegisterRemoteActor(c) PROVE MasterTypeOK'
    BY <1>1, NumberOfMessage, AnswerType DEF RegisterRemoteActor, MasterTypeOK
<1>2. ASSUME NEW c \in Client, Terminated(c) PROVE MasterTypeOK'
    <2> DEFINE ended == {v \in UUID : remoteClientSessionMap[v] # None}
               new == [u \in UUID |-> IF u \in ended THEN None ELSE rWorkerSessionMap[u]]
    <2>1. WriteSessionMap(new, {}) /\ new \in [UUID -> Supervisor \cup {None}]
        BY <1>2 DEF Terminated, MasterTypeOK
    <2>2. rWorkerSessionMap' \in [UUID -> Supervisor \cup {None}] /\ timers' \subseteq Timer
        <3> HIDE DEF new
        <3> QED BY <2>1, WriteOutcome DEF MasterTypeOK
    <2> QED BY <1>2, <2>2 DEF Terminated, MasterTypeOK
<1>3. ASSUME NEW c \in Client, NEW u \in UUID, IsRActorAvailable(c, u) PROVE MasterTypeOK'
    <2>1. handled' \in 0..MaxMsgs /\ thisMsg \in MsgId /\ answers' \in [MsgId -> Nat]
        BY <1>3, NumberOfMessage, AnswerType DEF IsRActorAvailable
    <2>2. CASE \E w \in Supervisor : ResolveActor(u, c, w)
        BY <1>3, <2>1, <2>2, ResolveType DEF IsRActorAvailable
    <2>3. CASE UNCHANGED masterVars
        BY <1>3, <2>1, <2>3 DEF IsRActorAvailable, masterVars, MasterTypeOK
    <2> QED BY <1>3, <2>2, <2>3 DEF IsRActorAvailable
<1>4. ASSUME NEW c \in Client, NEW u \in UUID, NEW kind \in ClientKinds,
             RouteRequest(c, u, kind)
      PROVE  MasterTypeOK'
    <2>1. handled' \in 0..MaxMsgs /\ thisMsg \in MsgId
        BY <1>4, NumberOfMessage DEF RouteRequest
    <2>2. answers' \in [MsgId -> Nat]
        BY <1>4, <2>1, AnswerType DEF RouteRequest, MasterTypeOK
    <2>3. CASE \E w \in Supervisor : ResolveActor(u, c, w)
        BY <1>4, <2>1, <2>2, <2>3, ResolveType DEF RouteRequest
    <2>4. CASE UNCHANGED masterVars
        BY <1>4, <2>1, <2>2, <2>4 DEF RouteRequest, masterVars, MasterTypeOK
    <2> QED BY <1>4, <2>3, <2>4 DEF RouteRequest
<1>5. ASSUME NEW u \in UUID, FinishRSessionReceived(u) PROVE MasterTypeOK'
    <2> DEFINE new == [rWorkerSessionMap EXCEPT ![u] = None]
    <2>1. WriteSessionMap(new, {}) /\ new \in [UUID -> Supervisor \cup {None}]
        BY <1>5 DEF FinishRSessionReceived, MasterTypeOK
    <2>2. rWorkerSessionMap' \in [UUID -> Supervisor \cup {None}] /\ timers' \subseteq Timer
        <3> HIDE DEF new
        <3> QED BY <2>1, WriteOutcome DEF MasterTypeOK
    <2> QED BY <1>5, <2>2, NumberOfMessage DEF FinishRSessionReceived, MasterTypeOK
<1>6. ASSUME RStart PROVE MasterTypeOK'
    BY <1>6, NumberOfMessage, AnswerType DEF RStart, FreshRouters, MasterTypeOK
<1>7. ASSUME RStop PROVE MasterTypeOK'
    <2> DEFINE new == [u \in UUID |-> None]
    <2>1. WriteSessionMap(new, {}) /\ new \in [UUID -> Supervisor \cup {None}]
        BY <1>7 DEF RStop
    <2>2. rWorkerSessionMap' \in [UUID -> Supervisor \cup {None}] /\ timers' \subseteq Timer
        <3> HIDE DEF new
        <3> QED BY <2>1, WriteOutcome DEF MasterTypeOK
    <2> QED BY <1>7, <2>2, NumberOfMessage, AnswerType DEF RStop, MasterTypeOK
<1>8. ASSUME NEW u \in UUID, LookupFails(u) PROVE MasterTypeOK'
    BY <1>8, NumberOfMessage DEF LookupFails, MasterTypeOK
<1>9. ASSUME MasterRestarted PROVE MasterTypeOK'
    BY <1>9 DEF MasterRestarted, FreshRouters, MasterTypeOK
<1>10. ASSUME NEW t \in timers, TimerRunsOut(t) PROVE MasterTypeOK'
    <2> DEFINE s == [t EXCEPT !.sleeping = TRUE]
    <2>1. s \in Timer
        BY DEF MasterTypeOK, Timer
    <2>2. timers' = (timers \ {t}) \cup {s}
        BY <1>10 DEF TimerRunsOut
    <2>3. timers' \subseteq Timer
        <3> HIDE DEF s
        <3> QED BY <2>1, <2>2 DEF MasterTypeOK
    <2>4. timeouts' \in 0..MaxTimeouts
        BY <1>10 DEF TimerRunsOut, MasterTypeOK
    <2> QED BY <1>10, <2>3, <2>4 DEF TimerRunsOut, MasterTypeOK
<1>11. ASSUME NEW t \in timers, TimerUnbinds(t) PROVE MasterTypeOK'
    BY <1>11 DEF TimerUnbinds, sharedVars, MasterTypeOK
<1> QED BY <1>1, <1>2, <1>3, <1>4, <1>5, <1>6, <1>7, <1>8, <1>9, <1>10, <1>11
        DEF MasterNext, TimerStep

LEMMA TypeInit == MasterInit => MasterTypeOK
BY MasterAssumption, MailboxAssumption DEF MasterInit, MasterTypeOK

\* The variables of the master and those it shares with the workers keep their
\* types, data races with the timers included.
THEOREM MasterTypeCorrect == MasterSpec => []MasterTypeOK
<1>1. MasterTypeOK /\ UNCHANGED mvars => MasterTypeOK'
    BY DEF mvars, masterVars, sharedVars, MasterTypeOK
<1> QED BY TypeInit, TypeStep, <1>1, PTL DEF MasterSpec
-----------------------------------------------------------------------------
(* What one step of the master puts into the mailboxes                      *)

\* A bound session knows the message that bound it.
BoundHasEpoch == \A u \in BoundUUIDs : bindEpoch[u] \in MsgId

LEMMA EpochStep == MasterTypeOK /\ BoundHasEpoch /\ MasterNext => BoundHasEpoch'
<1> SUFFICES ASSUME MasterTypeOK, BoundHasEpoch, MasterNext PROVE BoundHasEpoch'
    OBVIOUS
\* Where the epochs stay, it is enough that no session is bound anew.
<1>1. ASSUME \A v \in UUID : rWorkerSessionMap'[v] \in {rWorkerSessionMap[v], None},
             UNCHANGED bindEpoch
      PROVE  BoundHasEpoch'
    BY <1>1 DEF BoundHasEpoch, BoundUUIDs, Bound
<1>2. ASSUME NEW new \in [UUID -> Supervisor \cup {None}], WriteSessionMap(new, {}),
             \A v \in UUID : new[v] \in {rWorkerSessionMap[v], None}, UNCHANGED bindEpoch
      PROVE  BoundHasEpoch'
    <2>1. \A v \in UUID : rWorkerSessionMap'[v] \in {new[v], rWorkerSessionMap[v], None}
        BY <1>2, WriteOutcome DEF MasterTypeOK
    <2> QED BY <1>1, <1>2, <2>1
<1>3. ASSUME UNCHANGED <<rWorkerSessionMap, bindEpoch>> PROVE BoundHasEpoch'
    BY <1>1, <1>3
<1>4. ASSUME NEW u \in UUID, NEW c \in Client, NEW w \in Supervisor,
             ResolveActor(u, c, w), ReceiveFromClient
      PROVE  BoundHasEpoch'
    <2>1. CASE ResolveBound(u, w)
        BY <1>3, <2>1 DEF ResolveBound, masterVars
    <2>2. CASE ResolveUnused(u, c, w)
        <3> DEFINE new == [rWorkerSessionMap EXCEPT ![u] = w]
                   t == [uuid |-> u, epoch |-> thisMsg, sleeping |-> FALSE]
        <3>1. /\ new \in [UUID -> Supervisor \cup {None}]
              /\ \A v \in UUID : v # u => new[v] = rWorkerSessionMap[v]
            BY DEF MasterTypeOK
        <3>2. WriteSessionMap(new, {t})
            BY <2>2 DEF ResolveUnused
        <3> HIDE DEF new, t
        <3>3. \A v \in UUID : rWorkerSessionMap'[v] \in {new[v], rWorkerSessionMap[v], None}
            BY <3>1, <3>2, WriteOutcome DEF MasterTypeOK
        <3>4. thisMsg \in MsgId
            BY <1>4, NumberOfMessage
        <3>5. bindEpoch' = [bindEpoch EXCEPT ![u] = thisMsg]
            BY <2>2 DEF ResolveUnused
        <3> QED BY <3>1, <3>3, <3>4, <3>5 DEF MasterTypeOK, BoundHasEpoch, BoundUUIDs, Bound
    <2> QED BY <1>4, <2>1, <2>2 DEF ResolveActor
<1>5. ASSUME NEW c \in Client, RegisterRemoteActor(c) PROVE BoundHasEpoch'
    BY <1>3, <1>5 DEF RegisterRemoteActor
<1>6. ASSUME NEW c \in Client, Terminated(c) PROVE BoundHasEpoch'
    <2> DEFINE ended == {v \in UUID : remoteClientSessionMap[v] # None}
               new == [u \in UUID |-> IF u \in ended THEN None ELSE rWorkerSessionMap[u]]
    <2>1. /\ WriteSessionMap(new, {}) /\ new \in [UUID -> Supervisor \cup {None}]
          /\ \A v \in UUID : new[v] \in {rWorkerSessionMap[v], None}
          /\ UNCHANGED bindEpoch
        BY <1>6 DEF Terminated, MasterTypeOK
    <2> HIDE DEF new
    <2> QED BY <1>2, <2>1
<1>7. ASSUME NEW c \in Client, NEW u \in UUID, IsRActorAvailable(c, u) PROVE BoundHasEpoch'
    BY <1>3, <1>4, <1>7 DEF IsRActorAvailable, masterVars
<1>8. ASSUME NEW c \in Client, NEW u \in UUID, NEW kind \in ClientKinds,
             RouteRequest(c, u, kind)
      PROVE  BoundHasEpoch'
    BY <1>3, <1>4, <1>8 DEF RouteRequest, masterVars
<1>9. ASSUME NEW u \in UUID, FinishRSessionReceived(u) PROVE BoundHasEpoch'
    <2> DEFINE new == [rWorkerSessionMap EXCEPT ![u] = None]
    <2>1. /\ WriteSessionMap(new, {}) /\ new \in [UUID -> Supervisor \cup {None}]
          /\ \A v \in UUID : new[v] \in {rWorkerSessionMap[v], None}
          /\ UNCHANGED bindEpoch
        BY <1>9 DEF FinishRSessionReceived, MasterTypeOK
    <2> HIDE DEF new
    <2> QED BY <1>2, <2>1
<1>10. ASSUME RStart PROVE BoundHasEpoch'
    BY <1>3, <1>10 DEF RStart
<1>11. ASSUME RStop PROVE BoundHasEpoch'
    <2> DEFINE new == [u \in UUID |-> None]
    <2>1. /\ WriteSessionMap(new, {}) /\ new \in [UUID -> Supervisor \cup {None}]
          /\ \A v \in UUID : new[v] \in {rWorkerSessionMap[v], None}
          /\ UNCHANGED bindEpoch
        BY <1>11 DEF RStop
    <2> HIDE DEF new
    <2> QED BY <1>2, <2>1
<1>12. ASSUME NEW u \in UUID, LookupFails(u) PROVE BoundHasEpoch'
    BY <1>1, <1>12 DEF LookupFails
<1>13. ASSUME MasterRestarted PROVE BoundHasEpoch'
    BY <1>3, <1>13 DEF MasterRestarted
<1>14. ASSUME NEW t \in timers, TimerRunsOut(t) PROVE BoundHasEpoch'
    BY <1>3, <1>14 DEF TimerRunsOut
<1>15. ASSUME NEW t \in timers, TimerUnbinds(t) PROVE BoundHasEpoch'
    BY <1>1, <1>15 DEF TimerUnbinds, MasterTypeOK
<1> QED BY <1>5, <1>6, <1>7, <1>8, <1>9, <1>10, <1>11, <1>12, <1>13, <1>14, <1>15
        DEF MasterNext, TimerStep

-----------------------------------------------------------------------------
(* What a step of the master puts into the mailboxes                        *)

EndMessage == FinishMessage \cup {Kill, PoisonPill}

\* The master's messages are records that differ in their type.
LEMMA MessageTypes ==
    /\ \A m \in RRequestMessage : m.type \in RequestKind /\ ~EndsSession(m)
    /\ \A m \in EndMessage : m.type \notin RequestKind /\ EndsSession(m)
    /\ MasterMessage = RRequestMessage \cup EndMessage
    /\ RRequestMessage \cap EndMessage = {}
<1>1. \A m \in RRequestMessage : m.type \in RequestKind /\ ~EndsSession(m)
    BY DEF RRequestMessage, RequestKind, EndsSession
<1>2. \A m \in EndMessage : m.type \notin RequestKind /\ EndsSession(m)
    BY DEF EndMessage, FinishMessage, Kill, PoisonPill, RequestKind, EndsSession
<1> QED BY <1>1, <1>2 DEF MasterMessage, EndMessage

\* The request that the master routes is a message, numbered with this step.
LEMMA RoutedRequest ==
    ASSUME MasterTypeOK, BoundHasEpoch, ReceiveFromClient, NEW u \in UUID,
           NEW kind \in ClientKinds
    PROVE  LET m == RRequest(kind, u, thisMsg, IF Bound(u) THEN bindEpoch[u] ELSE thisMsg)
           IN  /\ m \in RRequestMessage /\ m.id = thisMsg /\ m.uuid = u
               /\ m.epoch = IF Bound(u) THEN bindEpoch[u] ELSE thisMsg
<1> DEFINE e == IF Bound(u) THEN bindEpoch[u] ELSE thisMsg
<1>1. thisMsg \in MsgId
    BY NumberOfMessage
<1>2. e \in MsgId
    BY <1>1 DEF BoundHasEpoch, BoundUUIDs
<1>3. kind \in RequestKind
    BY MailboxAssumption
<1> HIDE DEF e
<1>4. LET m == RRequest(kind, u, thisMsg, e)
      IN  m \in RRequestMessage /\ m.id = thisMsg /\ m.uuid = u /\ m.epoch = e
    BY <1>1, <1>2, <1>3 DEF RRequest, RRequestMessage
<1> QED BY <1>4 DEF e

\* Worker v got nothing; or a message that ends its session; or the request
\* that this step handles, which no answer and no other message goes with.
ToldNothing(v) == supBox'[v] = supBox[v]
ToldToEnd(v)   == \E m \in EndMessage : supBox'[v] = Append(supBox[v], m)
ToldToWork(v)  ==
    /\ \E m \in RRequestMessage : supBox'[v] = Append(supBox[v], m) /\ m.id = thisMsg
    /\ \A x \in Supervisor \ {v} : ToldNothing(x)
    /\ ReceiveFromClient
    /\ UNCHANGED answers

LEMMA MasterTells ==
    ASSUME MasterTypeOK, BoundHasEpoch, NEW S, supBox \in [Supervisor -> Seq(S)],
           MasterNext
    PROVE  /\ supBox' = [v \in Supervisor |-> supBox'[v]]
           /\ \A v \in Supervisor : ToldNothing(v) \/ ToldToEnd(v) \/ ToldToWork(v)
<1> DEFINE Tells == /\ supBox' = [v \in Supervisor |-> supBox'[v]]
                    /\ \A v \in Supervisor : ToldNothing(v) \/ ToldToEnd(v) \/ ToldToWork(v)
<1> SUFFICES Tells
    OBVIOUS
<1>1. ASSUME UNCHANGED supBox PROVE Tells
    BY <1>1 DEF ToldNothing
\* One message to one worker
<1>2. ASSUME NEW w \in Supervisor, NEW m \in EndMessage, supBox' = Tell(supBox, w, m)
      PROVE  Tells
    <2>1. ToldToEnd(w)
        BY <1>2 DEF ToldToEnd, Tell
    <2>2. \A v \in Supervisor \ {w} : ToldNothing(v)
        BY <1>2 DEF ToldNothing, Tell
    <2> QED BY <1>2, <2>1, <2>2 DEF Tell
\* The same message to a set of workers
<1>3. ASSUME NEW W, NEW m \in EndMessage,
             supBox' = [w \in Supervisor |-> IF w \in W THEN Append(supBox[w], m)
                                                        ELSE supBox[w]]
      PROVE  Tells
    BY <1>3 DEF ToldToEnd, ToldNothing
<1>4. ASSUME NEW c \in Client, NEW u \in UUID, NEW kind \in ClientKinds,
             RouteRequest(c, u, kind)
      PROVE  Tells
    <2> DEFINE m == RRequest(kind, u, thisMsg, IF Bound(u) THEN bindEpoch[u] ELSE thisMsg)
    <2>1. ReceiveFromClient
        BY <1>4 DEF RouteRequest
    <2>2. m \in RRequestMessage /\ m.id = thisMsg
        BY <2>1, RoutedRequest
    <2>3. \/ UNCHANGED supBox
          \/ UNCHANGED answers /\ \E w \in Supervisor : supBox' = Tell(supBox, w, m)
        BY <1>4 DEF RouteRequest
    <2> HIDE DEF m
    <2>4. ASSUME NEW w \in Supervisor, supBox' = Tell(supBox, w, m), UNCHANGED answers
          PROVE  Tells
        <3>1. \A v \in Supervisor \ {w} : ToldNothing(v)
            BY <2>4 DEF ToldNothing, Tell
        <3>2. supBox'[w] = Append(supBox[w], m)
            BY <2>4 DEF Tell
        <3>3. ToldToWork(w)
            BY <2>1, <2>2, <2>4, <3>1, <3>2 DEF ToldToWork
        <3> QED BY <2>4, <3>1, <3>3 DEF Tell
    <2> QED BY <1>1, <2>3, <2>4
<1>5. \A u \in UUID : FinishRSession(u) \in EndMessage
    BY DEF FinishRSession, EndMessage, FinishMessage
<1>6. Kill \in EndMessage /\ PoisonPill \in EndMessage
    BY DEF EndMessage
<1>7. \A u \in UUID : Bound(u) => rWorkerSessionMap[u] \in Supervisor
    BY DEF Bound, MasterTypeOK
<1>8. ASSUME NEW u \in UUID, FinishRSessionReceived(u) PROVE Tells
    <2>1. CASE Bound(u)
        BY <1>2, <1>5, <1>7, <1>8, <2>1 DEF FinishRSessionReceived
    <2>2. CASE ~Bound(u)
        BY <1>1, <1>8, <2>2 DEF FinishRSessionReceived
    <2> QED BY <2>1, <2>2
<1>9. ASSUME NEW t \in timers, TimerRunsOut(t) PROVE Tells
    <2>1. t.uuid \in UUID
        BY DEF MasterTypeOK, Timer
    <2>2. CASE Bound(t.uuid)
        BY <1>2, <1>5, <1>7, <1>9, <2>1, <2>2 DEF TimerRunsOut
    <2>3. CASE ~Bound(t.uuid)
        BY <1>1, <1>9, <2>3 DEF TimerRunsOut
    <2> QED BY <2>2, <2>3
<1>10. ASSUME RStop PROVE Tells
    BY <1>3, <1>6, <1>10 DEF RStop
<1>11. ASSUME NEW c \in Client, Terminated(c) PROVE Tells
    <2> DEFINE ended == {u \in UUID : remoteClientSessionMap[u] # None}
               W == {w \in Supervisor : \E u \in ended : rWorkerSessionMap[u] = w}
    <2>1. supBox' = [w \in Supervisor |-> IF \E u \in ended : rWorkerSessionMap[u] = w
                                          THEN Append(supBox[w], Kill) ELSE supBox[w]]
        BY <1>11 DEF Terminated
    <2>2. supBox' = [w \in Supervisor |-> IF w \in W THEN Append(supBox[w], Kill)
                                                     ELSE supBox[w]]
        BY <2>1
    <2> HIDE DEF W
    <2> QED BY <1>3, <1>6, <2>2
<1>12. ASSUME \/ \E c \in Client : RegisterRemoteActor(c)
              \/ \E c \in Client, u \in UUID : IsRActorAvailable(c, u)
              \/ RStart \/ MasterRestarted
              \/ \E u \in UUID : LookupFails(u)
              \/ \E t \in timers : TimerUnbinds(t)
       PROVE  UNCHANGED supBox
    BY <1>12 DEF RegisterRemoteActor, IsRActorAvailable, RStart, MasterRestarted,
                 LookupFails, TimerUnbinds, sharedVars
<1> HIDE DEF Tells
<1> QED BY <1>1, <1>4, <1>8, <1>9, <1>10, <1>11, <1>12 DEF MasterNext, TimerStep

\* Hence the mailboxes keep their type, and the answers and their numbers move on
\* by at most the message that is handled.
LEMMA MailboxesStep ==
    ASSUME MasterTypeOK, BoundHasEpoch, NEW S, MasterMessage \subseteq S,
           supBox \in [Supervisor -> Seq(S)], MasterNext
    PROVE  supBox' \in [Supervisor -> Seq(S)]
<1>1. \A v \in Supervisor : \/ supBox'[v] = supBox[v]
                            \/ \E m \in MasterMessage : supBox'[v] = Append(supBox[v], m)
    BY MasterTells, MessageTypes DEF ToldNothing, ToldToEnd, ToldToWork
<1>2. ASSUME NEW v \in Supervisor PROVE supBox'[v] \in Seq(S)
    <2>1. supBox[v] \in Seq(S)
        OBVIOUS
    <2>2. \A m \in MasterMessage : Append(supBox[v], m) \in Seq(S)
        BY <2>1, AppendProperties
    <2> QED BY <1>1, <2>1, <2>2
<1> QED BY <1>2, MasterTells

\* A worker that was created stays so, and only the message that is handled is
\* answered.
LEMMA MasterCounts ==
    MasterNext => /\ created \subseteq created'
                  /\ \/ UNCHANGED <<handled, answers>>
                     \/ ReceiveFromClient /\ (UNCHANGED answers \/ Answer(thisMsg))
BY DEF MasterNext, TimerStep, RegisterRemoteActor, Terminated, IsRActorAvailable,
       RouteRequest, FinishRSessionReceived, RStart, RStop, LookupFails, MasterRestarted,
       TimerRunsOut, TimerUnbinds, sharedVars

-----------------------------------------------------------------------------
(* One session for each worker                                             *)

\* Sessions that keep their worker or lose it stay exclusive.
LEMMA ExclusiveAfterRemoval ==
    ASSUME OneSessionPerWorker,
           \A v \in UUID : rWorkerSessionMap'[v] \in {rWorkerSessionMap[v], None}
    PROVE  OneSessionPerWorker'
BY DEF OneSessionPerWorker, BoundUUIDs, Bound

\* So they do when, in addition, one session gets a worker nobody has.
LEMMA ExclusiveAfterBinding ==
    ASSUME OneSessionPerWorker, NEW u \in UUID, NEW w, w \notin BoundWorkers,
           \A v \in UUID : \/ rWorkerSessionMap'[v] \in {rWorkerSessionMap[v], None}
                           \/ v = u /\ rWorkerSessionMap'[v] = w
    PROVE  OneSessionPerWorker'
BY DEF OneSessionPerWorker, BoundWorkers, BoundUUIDs, Bound

LEMMA ExclusiveAfterResolve ==
    ASSUME MasterTypeOK, OneSessionPerWorker,
           NEW u \in UUID, NEW c \in Client, NEW w \in Supervisor, ResolveActor(u, c, w)
    PROVE  OneSessionPerWorker'
<1>1. CASE ResolveBound(u, w)
    BY <1>1, ExclusiveAfterRemoval DEF ResolveBound, masterVars
<1>2. CASE ResolveUnused(u, c, w)
    <2> DEFINE new == [rWorkerSessionMap EXCEPT ![u] = w]
               t == [uuid |-> u, epoch |-> thisMsg, sleeping |-> FALSE]
    <2>1. /\ new \in [UUID -> Supervisor \cup {None}]
          /\ \A v \in UUID : new[v] = rWorkerSessionMap[v] \/ (v = u /\ new[v] = w)
        BY DEF MasterTypeOK
    <2>2. WriteSessionMap(new, {t}) /\ w \notin BoundWorkers
        BY <1>2 DEF ResolveUnused, availableActors
    <2> HIDE DEF new, t
    <2>3. \A v \in UUID : rWorkerSessionMap'[v] \in {new[v], rWorkerSessionMap[v], None}
        BY <2>1, <2>2, WriteOutcome DEF MasterTypeOK
    <2> QED BY <2>1, <2>2, <2>3, ExclusiveAfterBinding
<1> QED BY <1>1, <1>2 DEF ResolveActor

LEMMA ExclusiveStep ==
    MasterTypeOK /\ OneSessionPerWorker /\ MasterNext => OneSessionPerWorker'
<1> SUFFICES ASSUME MasterTypeOK, OneSessionPerWorker, MasterNext
             PROVE  OneSessionPerWorker'
    OBVIOUS
\* A handler that only removes keys, racing or not.
<1>1. ASSUME NEW new \in [UUID -> Supervisor \cup {None}], WriteSessionMap(new, {}),
             \A v \in UUID : new[v] \in {rWorkerSessionMap[v], None}
      PROVE  OneSessionPerWorker'
    <2>1. \A v \in UUID : rWorkerSessionMap'[v] \in {new[v], rWorkerSessionMap[v], None}
        BY <1>1, WriteOutcome DEF MasterTypeOK
    <2> QED BY <1>1, <2>1, ExclusiveAfterRemoval
<1>2. ASSUME UNCHANGED rWorkerSessionMap PROVE OneSessionPerWorker'
    BY <1>2, ExclusiveAfterRemoval
<1>3. ASSUME NEW c \in Client, RegisterRemoteActor(c) PROVE OneSessionPerWorker'
    BY <1>2, <1>3 DEF RegisterRemoteActor
<1>4. ASSUME NEW c \in Client, Terminated(c) PROVE OneSessionPerWorker'
    <2> DEFINE ended == {v \in UUID : remoteClientSessionMap[v] # None}
               new == [u \in UUID |-> IF u \in ended THEN None ELSE rWorkerSessionMap[u]]
    <2>1. /\ WriteSessionMap(new, {}) /\ new \in [UUID -> Supervisor \cup {None}]
          /\ \A v \in UUID : new[v] \in {rWorkerSessionMap[v], None}
        BY <1>4 DEF Terminated, MasterTypeOK
    <2> HIDE DEF new
    <2> QED BY <1>1, <2>1
<1>5. ASSUME NEW c \in Client, NEW u \in UUID, IsRActorAvailable(c, u)
      PROVE  OneSessionPerWorker'
    BY <1>2, <1>5, ExclusiveAfterResolve DEF IsRActorAvailable, masterVars
<1>6. ASSUME NEW c \in Client, NEW u \in UUID, NEW kind \in ClientKinds,
             RouteRequest(c, u, kind)
      PROVE  OneSessionPerWorker'
    BY <1>2, <1>6, ExclusiveAfterResolve DEF RouteRequest, masterVars
<1>7. ASSUME NEW u \in UUID, FinishRSessionReceived(u) PROVE OneSessionPerWorker'
    <2> DEFINE new == [rWorkerSessionMap EXCEPT ![u] = None]
    <2>1. /\ WriteSessionMap(new, {}) /\ new \in [UUID -> Supervisor \cup {None}]
          /\ \A v \in UUID : new[v] \in {rWorkerSessionMap[v], None}
        BY <1>7 DEF FinishRSessionReceived, MasterTypeOK
    <2> HIDE DEF new
    <2> QED BY <1>1, <2>1
<1>8. ASSUME RStart PROVE OneSessionPerWorker'
    BY <1>2, <1>8 DEF RStart
<1>9. ASSUME RStop PROVE OneSessionPerWorker'
    <2> DEFINE new == [u \in UUID |-> None]
    <2>1. /\ WriteSessionMap(new, {}) /\ new \in [UUID -> Supervisor \cup {None}]
          /\ \A v \in UUID : new[v] \in {rWorkerSessionMap[v], None}
        BY <1>9 DEF RStop
    <2> HIDE DEF new
    <2> QED BY <1>1, <2>1
<1>10. ASSUME NEW u \in UUID, LookupFails(u) PROVE OneSessionPerWorker'
    BY <1>10, ExclusiveAfterRemoval DEF LookupFails
<1>11. ASSUME MasterRestarted PROVE OneSessionPerWorker'
    BY <1>2, <1>11 DEF MasterRestarted
<1>12. ASSUME NEW t \in timers, TimerRunsOut(t) PROVE OneSessionPerWorker'
    BY <1>2, <1>12 DEF TimerRunsOut
<1>13. ASSUME NEW t \in timers, TimerUnbinds(t) PROVE OneSessionPerWorker'
    <2>1. \A v \in UUID : rWorkerSessionMap'[v] \in {rWorkerSessionMap[v], None}
        BY <1>13 DEF TimerUnbinds, MasterTypeOK
    <2> QED BY <2>1, ExclusiveAfterRemoval
<1> QED BY <1>3, <1>4, <1>5, <1>6, <1>7, <1>8, <1>9, <1>10, <1>11, <1>12, <1>13
        DEF MasterNext, TimerStep

LEMMA ExclusiveInit == MasterInit => OneSessionPerWorker
BY DEF MasterInit, OneSessionPerWorker, BoundUUIDs, Bound

\* No two sessions share a worker, whatever the clients send and however the
\* timers' writes overlap those of the handlers.
THEOREM SessionsExclusive == MasterSpec => []OneSessionPerWorker
<1>1. OneSessionPerWorker /\ UNCHANGED mvars => OneSessionPerWorker'
    BY DEF mvars, masterVars, OneSessionPerWorker, BoundUUIDs, Bound
<1> QED BY ExclusiveInit, ExclusiveStep, <1>1, MasterTypeCorrect, PTL DEF MasterSpec
-----------------------------------------------------------------------------
(* Sessions are bound to living workers, watched and timed.  This needs    *)
(* that no timer writes while a handler does.                              *)

SessionsSound == masterUp /\ BoundToRouter /\ WatchedWhileBound /\ TimedWhileBound

\* Fewer bindings with the rest of the state as it was.
LEMMA SoundAfterRemoval ==
    ASSUME SessionsSound,
           \A v \in UUID : rWorkerSessionMap'[v] \in {rWorkerSessionMap[v], None},
           \A v \in UUID : rWorkerSessionMap'[v] # None =>
              \A t \in timers :
                 t.uuid = v => \E s \in timers' : s.uuid = v /\ s.epoch = t.epoch,
           watched \subseteq watched',
           UNCHANGED <<masterUp, rServeRouter, remoteClientSessionMap, bindEpoch>>
    PROVE  SessionsSound'
<1>1. BoundToRouter'
    BY DEF SessionsSound, BoundToRouter, BoundWorkers, BoundUUIDs, Bound
<1>2. WatchedWhileBound'
    BY DEF SessionsSound, WatchedWhileBound, BoundUUIDs, Bound
<1>3. TimedWhileBound'
    <2> SUFFICES ASSUME NEW v \in UUID, rWorkerSessionMap'[v] # None
                 PROVE  \E s \in timers' : s.uuid = v /\ s.epoch = bindEpoch'[v]
        BY DEF TimedWhileBound, BoundUUIDs, Bound
    <2>1. PICK t \in timers : t.uuid = v /\ t.epoch = bindEpoch[v]
        BY DEF SessionsSound, TimedWhileBound, BoundUUIDs, Bound
    <2> QED BY <2>1
<1> QED BY <1>1, <1>2, <1>3 DEF SessionsSound

\* No bindings at all.
LEMMA SoundWhenUnbound ==
    ASSUME masterUp', \A v \in UUID : rWorkerSessionMap'[v] = None
    PROVE  SessionsSound'
BY DEF SessionsSound, BoundToRouter, WatchedWhileBound, TimedWhileBound,
       BoundWorkers, BoundUUIDs, Bound

LEMMA SoundAfterResolve ==
    ASSUME Undisturbed, MasterTypeOK, SessionsSound,
           NEW u \in UUID, NEW c \in Client, NEW w \in Supervisor, ResolveActor(u, c, w)
    PROVE  SessionsSound'
<1>1. CASE ResolveBound(u, w)
    BY <1>1, SoundAfterRemoval DEF ResolveBound, masterVars
<1>2. CASE ResolveUnused(u, c, w)
    <2> DEFINE new == [rWorkerSessionMap EXCEPT ![u] = w]
               t == [uuid |-> u, epoch |-> thisMsg, sleeping |-> FALSE]
    <2>1. rWorkerSessionMap' = new /\ timers' = timers \cup {t}
        BY <1>2, WriteAlone DEF ResolveUnused
    <2>2. BoundToRouter'
        BY <1>2, <2>1 DEF ResolveUnused, availableActors, MasterTypeOK, SessionsSound,
                          BoundToRouter, BoundWorkers, BoundUUIDs, Bound
    <2>3. WatchedWhileBound'
        BY <1>2, <2>1 DEF ResolveUnused, MasterTypeOK, SessionsSound, WatchedWhileBound,
                          BoundUUIDs, Bound
    <2>4. TimedWhileBound'
        <3> SUFFICES ASSUME NEW v \in UUID, rWorkerSessionMap'[v] # None
                     PROVE  \E s \in timers' : s.uuid = v /\ s.epoch = bindEpoch'[v]
            BY DEF TimedWhileBound, BoundUUIDs, Bound
        <3>1. CASE v = u
            <4>1. t.uuid = v /\ t.epoch = bindEpoch'[v]
                BY <1>2, <3>1 DEF ResolveUnused, MasterTypeOK
            <4>2. t \in timers'
                BY <2>1
            <4> HIDE DEF t
            <4> QED BY <4>1, <4>2
        <3>2. CASE v # u
            <4>1. rWorkerSessionMap[v] # None /\ bindEpoch'[v] = bindEpoch[v]
                BY <1>2, <2>1, <3>2 DEF ResolveUnused, MasterTypeOK
            <4>2. PICK s \in timers : s.uuid = v /\ s.epoch = bindEpoch[v]
                BY <4>1 DEF SessionsSound, TimedWhileBound, BoundUUIDs, Bound
            <4>3. s \in timers'
                BY <2>1
            <4> QED BY <4>1, <4>2, <4>3
        <3> QED BY <3>1, <3>2
    <2> QED BY <1>2, <2>2, <2>3, <2>4 DEF ResolveUnused, SessionsSound
<1> QED BY <1>1, <1>2 DEF ResolveActor

LEMMA SoundStep ==
    ASSUME Undisturbed, MasterTypeOK, SessionsSound, MasterNext
    PROVE  SessionsSound'
<1>1. ASSUME NEW c \in Client, RegisterRemoteActor(c) PROVE SessionsSound'
    BY <1>1, SoundAfterRemoval DEF RegisterRemoteActor
\* A bound session has a client, and loses its worker when any client dies.
<1>2. ASSUME NEW c \in Client, Terminated(c) PROVE SessionsSound'
    <2>1. \A v \in UUID : rWorkerSessionMap[v] # None => remoteClientSessionMap[v] # None
        BY MasterAssumption DEF SessionsSound, WatchedWhileBound, MasterTypeOK,
                                BoundUUIDs, Bound
    <2>2. \A v \in UUID : rWorkerSessionMap'[v] = None
        BY <1>2, <2>1, WriteAlone DEF Terminated
    <2> QED BY <1>2, <2>2, SoundWhenUnbound DEF Terminated
<1>3. ASSUME NEW c \in Client, NEW u \in UUID, IsRActorAvailable(c, u) PROVE SessionsSound'
    <2>1. CASE \E w \in Supervisor : ResolveActor(u, c, w)
        BY <2>1, SoundAfterResolve
    <2>2. CASE UNCHANGED masterVars
        BY <2>2, SoundAfterRemoval DEF masterVars
    <2> QED BY <1>3, <2>1, <2>2 DEF IsRActorAvailable
<1>4. ASSUME NEW c \in Client, NEW u \in UUID, NEW kind \in ClientKinds,
             RouteRequest(c, u, kind)
      PROVE  SessionsSound'
    <2>1. CASE \E w \in Supervisor : ResolveActor(u, c, w)
        BY <2>1, SoundAfterResolve
    <2>2. CASE UNCHANGED masterVars
        BY <2>2, SoundAfterRemoval DEF masterVars
    <2> QED BY <1>4, <2>1, <2>2 DEF RouteRequest
<1>5. ASSUME NEW u \in UUID, FinishRSessionReceived(u) PROVE SessionsSound'
    <2>1. rWorkerSessionMap' = [rWorkerSessionMap EXCEPT ![u] = None] /\ timers' = timers
        BY <1>5, WriteAlone DEF FinishRSessionReceived
    <2>2. \A v \in UUID : rWorkerSessionMap'[v] \in {rWorkerSessionMap[v], None}
        BY <2>1 DEF MasterTypeOK
    <2> QED BY <1>5, <2>1, <2>2, SoundAfterRemoval DEF FinishRSessionReceived
\* A router is created only when there is none, hence no binding either.
<1>6. ASSUME RStart PROVE SessionsSound'
    <2>1. CASE rServeRouter = {}
        BY <1>6, <2>1, SoundWhenUnbound DEF RStart, SessionsSound, BoundToRouter,
                 BoundWorkers, BoundUUIDs, Bound
    <2>2. CASE rServeRouter # {}
        BY <1>6, <2>2, SoundAfterRemoval DEF RStart
    <2> QED BY <2>1, <2>2
<1>7. ASSUME RStop PROVE SessionsSound'
    <2>1. \A v \in UUID : rWorkerSessionMap'[v] = None
        BY <1>7, WriteAlone DEF RStop
    <2> QED BY <1>7, <2>1, SoundWhenUnbound DEF RStop, SessionsSound
<1>8. ASSUME NEW u \in UUID, LookupFails(u) PROVE SessionsSound'
    BY <1>8 DEF LookupFails, Undisturbed
<1>9. ASSUME MasterRestarted PROVE SessionsSound'
    BY <1>9 DEF MasterRestarted, SessionsSound
<1>10. ASSUME NEW t \in timers, TimerRunsOut(t) PROVE SessionsSound'
    <2> DEFINE s == [t EXCEPT !.sleeping = TRUE]
    <2>1. s.uuid = t.uuid /\ s.epoch = t.epoch
        BY DEF MasterTypeOK, Timer
    <2>2. timers' = (timers \ {t}) \cup {s}
        BY <1>10 DEF TimerRunsOut
    <2> HIDE DEF s
    <2>3. \A v \in UUID, r \in timers : r.uuid = v =>
              \E q \in timers' : q.uuid = v /\ q.epoch = r.epoch
        BY <2>1, <2>2
    <2> QED BY <1>10, <2>3, SoundAfterRemoval DEF TimerRunsOut
\* A timer that ends takes the binding of its UUID with it.
<1>11. ASSUME NEW t \in timers, TimerUnbinds(t) PROVE SessionsSound'
    <2>1. /\ t.uuid \in UUID
          /\ timers' = timers \ {t}
          /\ rWorkerSessionMap' = [rWorkerSessionMap EXCEPT ![t.uuid] = None]
          /\ UNCHANGED <<masterUp, rServeRouter, remoteClientSessionMap, watched,
                         bindEpoch>>
        BY <1>11 DEF TimerUnbinds, MasterTypeOK, Timer
    <2>2. \A v \in UUID : rWorkerSessionMap'[v] \in {rWorkerSessionMap[v], None}
        BY <2>1 DEF MasterTypeOK
    <2>3. \A v \in UUID : rWorkerSessionMap'[v] # None => v # t.uuid
        BY <2>1 DEF MasterTypeOK
    <2> QED BY <2>1, <2>2, <2>3, SoundAfterRemoval
<1> QED BY <1>1, <1>2, <1>3, <1>4, <1>5, <1>6, <1>7, <1>8, <1>9, <1>10, <1>11
        DEF MasterNext, TimerStep

LEMMA SoundInit == MasterInit => SessionsSound
BY DEF MasterInit, SessionsSound, BoundToRouter, WatchedWhileBound, TimedWhileBound,
       BoundWorkers, BoundUUIDs, Bound

LEMMA SoundAlways ==
    ASSUME Races = {}
    PROVE  MasterSpec => []SessionsSound
<1>1. SessionsSound /\ UNCHANGED mvars => SessionsSound'
    BY DEF mvars, masterVars, SessionsSound, BoundToRouter, WatchedWhileBound,
           TimedWhileBound, BoundWorkers, BoundUUIDs, Bound
<1>2. MasterTypeOK /\ SessionsSound /\ MasterNext => SessionsSound'
    BY SoundStep, CalmWithoutRaces
<1> QED BY SoundInit, <1>1, <1>2, MasterTypeCorrect, PTL DEF MasterSpec

\* As long as no timer writes the session map under a handler's hands, every
\* session is bound to a worker of the current router: RStop and the Terminated
\* handler leave no binding to a worker that has been told to die.
THEOREM SessionsHaveWorkers ==
    ASSUME Races = {}
    PROVE  MasterSpec => []BoundToRouter
<1>1. SessionsSound => BoundToRouter
    BY DEF SessionsSound
<1> QED BY SoundAlways, <1>1, PTL

\* Under the same condition the client of a bound session is under death watch,
\* over any order of registrations, deaths and new sessions.
THEOREM SessionsWatched ==
    ASSUME Races = {}
    PROVE  MasterSpec => []WatchedWhileBound
<1>1. SessionsSound => WatchedWhileBound
    BY DEF SessionsSound
<1> QED BY SoundAlways, <1>1, PTL

\* And the timer of its own binding, not of an earlier one of the same UUID, is
\* still to come.
THEOREM SessionsTimed ==
    ASSUME Races = {}
    PROVE  MasterSpec => []TimedWhileBound
<1>1. SessionsSound => TimedWhileBound
    BY DEF SessionsSound
<1> QED BY SoundAlways, <1>1, PTL
-----------------------------------------------------------------------------
(* The master implements the pool.                                         *)

LEMMA ResolveLends ==
    ASSUME Undisturbed, NEW u \in UUID, NEW c \in Client, NEW w \in Supervisor,
           ResolveActor(u, c, w)
    PROVE  Pool!PoolNext \/ UNCHANGED Pool!poolVars
<1>1. CASE ResolveBound(u, w)
    BY <1>1 DEF ResolveBound, masterVars, Pool!poolVars
<1>2. CASE ResolveUnused(u, c, w)
    <2>1. rWorkerSessionMap' = [rWorkerSessionMap EXCEPT ![u] = w]
        BY <1>2, WriteAlone DEF ResolveUnused
    <2>2. w \in Pool!Free
        BY <1>2, MailboxAssumption DEF ResolveUnused, availableActors, BoundWorkers,
                                       BoundUUIDs, Bound, Pool!Free
    <2>3. Pool!Lend(u, w)
        BY <1>2, <2>1, <2>2 DEF ResolveUnused, Bound, Pool!Lend
    <2> QED BY <2>3 DEF Pool!PoolNext
<1> QED BY <1>1, <1>2 DEF ResolveActor

\* One step of the master is one step of the pool, or none.
LEMMA PoolStep ==
    ASSUME Undisturbed, MasterTypeOK, masterUp, MasterNext
    PROVE  Pool!PoolNext \/ UNCHANGED Pool!poolVars
<1>1. ASSUME UNCHANGED masterVars PROVE UNCHANGED Pool!poolVars
    BY <1>1 DEF masterVars, Pool!poolVars
<1>2. ASSUME NEW c \in Client, RegisterRemoteActor(c) PROVE UNCHANGED Pool!poolVars
    BY <1>2 DEF RegisterRemoteActor, Pool!poolVars
<1>3. ASSUME NEW c \in Client, Terminated(c) PROVE Pool!PoolNext
    <2> DEFINE ended == {u \in UUID : remoteClientSessionMap[u] # None}
    <2>1. Pool!Release(ended)
        BY <1>3, WriteAlone DEF Terminated, Pool!Release
    <2>2. ended \in SUBSET UUID
        OBVIOUS
    <2> HIDE DEF ended
    <2> QED BY <2>1, <2>2 DEF Pool!PoolNext
<1>4. ASSUME NEW c \in Client, NEW u \in UUID, IsRActorAvailable(c, u)
      PROVE  Pool!PoolNext \/ UNCHANGED Pool!poolVars
    BY <1>1, <1>4, ResolveLends DEF IsRActorAvailable
<1>5. ASSUME NEW c \in Client, NEW u \in UUID, NEW kind \in ClientKinds,
             RouteRequest(c, u, kind)
      PROVE  Pool!PoolNext \/ UNCHANGED Pool!poolVars
    BY <1>1, <1>5, ResolveLends DEF RouteRequest
\* Removing one key is ending one session.
<1>6. ASSUME NEW u \in UUID, rWorkerSessionMap' = [rWorkerSessionMap EXCEPT ![u] = None],
             UNCHANGED rServeRouter
      PROVE  Pool!PoolNext
    <2>1. Pool!Release({u})
        BY <1>6 DEF Pool!Release, MasterTypeOK
    <2> QED BY <2>1 DEF Pool!PoolNext
<1>7. ASSUME NEW u \in UUID, FinishRSessionReceived(u) PROVE Pool!PoolNext
    BY <1>6, <1>7, WriteAlone DEF FinishRSessionReceived
<1>8. ASSUME RStart PROVE Pool!PoolNext \/ UNCHANGED Pool!poolVars
    <2>1. CASE rServeRouter = {}
        <3>1. Pool!Open
            BY <1>8, <2>1 DEF RStart, FreshRouters, Pool!Open
        <3> QED BY <3>1 DEF Pool!PoolNext
    <2>2. CASE rServeRouter # {}
        BY <1>8, <2>2 DEF RStart, Pool!poolVars
    <2> QED BY <2>1, <2>2
<1>9. ASSUME RStop PROVE Pool!PoolNext
    <2>1. Pool!Close
        BY <1>9, WriteAlone DEF RStop, Pool!Close
    <2> QED BY <2>1 DEF Pool!PoolNext
<1>10. ASSUME NEW t \in timers, TimerRunsOut(t) PROVE UNCHANGED Pool!poolVars
    BY <1>10 DEF TimerRunsOut, Pool!poolVars
<1>11. ASSUME NEW t \in timers, TimerUnbinds(t) PROVE Pool!PoolNext
    BY <1>6, <1>11 DEF TimerUnbinds, MasterTypeOK, Timer
<1>12. ~MasterRestarted /\ \A u \in UUID : ~LookupFails(u)
    BY DEF MasterRestarted, LookupFails, Undisturbed
<1> QED BY <1>2, <1>3, <1>4, <1>5, <1>7, <1>8, <1>9, <1>10, <1>11, <1>12
        DEF MasterNext, TimerStep

\* Without data races, every behaviour of the master is one of a pool whose
\* workers are lent to one session at a time until that session is released.
THEOREM MasterImplementsPool ==
    ASSUME Races = {}
    PROVE  MasterSpec => ImplementsPool
<1>1. MasterInit => Pool!PoolInit
    BY DEF MasterInit, Pool!PoolInit
<1>2. MasterTypeOK /\ SessionsSound /\ MasterNext
        => Pool!PoolNext \/ UNCHANGED Pool!poolVars
    BY PoolStep, CalmWithoutRaces DEF SessionsSound
<1>3. UNCHANGED mvars => UNCHANGED Pool!poolVars
    BY DEF mvars, masterVars, Pool!poolVars
<1> QED BY <1>1, <1>2, <1>3, SoundAlways, MasterTypeCorrect, PTL
        DEF MasterSpec, ImplementsPool, Pool!PoolSpec
-----------------------------------------------------------------------------
(* The count of free workers                                               *)

RouterSize == rServeRouter # {} => Cardinality(rServeRouter) = NumRoutees

LEMMA RouterSizeStep == RouterSize /\ MasterNext => RouterSize'
<1> SUFFICES ASSUME RouterSize, MasterNext PROVE RouterSize'
    OBVIOUS
<1>1. rServeRouter' = rServeRouter \/ rServeRouter' = {} \/ rServeRouter' \in FreshRouters
    BY DEF MasterNext, TimerStep, RegisterRemoteActor, Terminated, IsRActorAvailable,
           RouteRequest, ResolveActor, ResolveBound, ResolveUnused, masterVars,
           FinishRSessionReceived, RStart, RStop, LookupFails, MasterRestarted,
           TimerRunsOut, TimerUnbinds
<1> QED BY <1>1 DEF RouterSize, FreshRouters

\* Sessions that are exclusive and bound within the router use up as many
\* workers as there are sessions.
LEMMA FreeCount ==
    ASSUME MasterTypeOK, OneSessionPerWorker, BoundToRouter, RouterSize
    PROVE  FreeCountExact
<1> SUFFICES ASSUME rServeRouter # {}
             PROVE  FreeRWorkerCount = Cardinality(availableActors)
    BY DEF FreeCountExact
<1> DEFINE f == [u \in BoundUUIDs |-> rWorkerSessionMap[u]]
<1>1. IsFiniteSet(rServeRouter) /\ IsFiniteSet(BoundWorkers) /\ IsFiniteSet(availableActors)
    <2>1. rServeRouter \in SUBSET Supervisor
        BY DEF MasterTypeOK
    <2>2. IsFiniteSet(rServeRouter)
        BY <2>1, MasterAssumption, FS_Subset
    <2>3. BoundWorkers \in SUBSET rServeRouter /\ availableActors \in SUBSET rServeRouter
        BY DEF BoundToRouter, availableActors
    <2> QED BY <2>2, <2>3, FS_Subset
<1>2. /\ f \in Injection(BoundUUIDs, BoundWorkers)
      /\ f \in Surjection(BoundUUIDs, BoundWorkers)
    <2>1. f \in [BoundUUIDs -> BoundWorkers]
        BY DEF BoundWorkers
    <2>2. \A u, v \in BoundUUIDs : f[u] = f[v] => u = v
        BY DEF OneSessionPerWorker
    <2>3. \A w \in BoundWorkers : \E u \in BoundUUIDs : f[u] = w
        BY DEF BoundWorkers
    <2> QED BY <2>1, <2>2, <2>3 DEF Injection, Surjection, IsInjective
<1>3. Cardinality(BoundUUIDs) = Cardinality(BoundWorkers)
    <2> HIDE DEF f
    <2> QED BY <1>1, <1>2, FS_Injection
<1>4. Cardinality(rServeRouter) = Cardinality(availableActors) + Cardinality(BoundWorkers)
    <2>1. /\ availableActors \cup BoundWorkers = rServeRouter
          /\ availableActors \cap BoundWorkers = {}
        BY DEF availableActors, BoundToRouter
    <2>2. Cardinality(availableActors) \in Nat /\ Cardinality(BoundWorkers) \in Nat
        BY <1>1, FS_CardinalityType
    <2>3. Cardinality(availableActors \cup BoundWorkers)
            = Cardinality(availableActors) + Cardinality(BoundWorkers) - Cardinality({})
        BY <1>1, <2>1, FS_Union
    <2> QED BY <2>1, <2>2, <2>3, FS_EmptySet
<1>5. Cardinality(availableActors) \in Nat /\ Cardinality(BoundWorkers) \in Nat
    BY <1>1, FS_CardinalityType
<1> QED BY <1>3, <1>4, <1>5 DEF RouterSize, FreeRWorkerCount

\* Without data races, and while there is a router, GetFreeRWorkerCount is
\* answered with the number of workers that can still be handed out.
THEOREM FreeCountCorrect ==
    ASSUME Races = {}
    PROVE  MasterSpec => []FreeCountExact
<1>1. MasterInit => RouterSize
    BY DEF MasterInit, RouterSize
<1>2. RouterSize /\ UNCHANGED mvars => RouterSize'
    BY DEF mvars, masterVars, RouterSize
<1>3. MasterSpec => []RouterSize
    BY <1>1, <1>2, RouterSizeStep, PTL DEF MasterSpec
<1>4. MasterTypeOK /\ OneSessionPerWorker /\ BoundToRouter /\ RouterSize => FreeCountExact
    BY FreeCount
<1> QED BY <1>3, <1>4, MasterTypeCorrect, SessionsExclusive, SessionsHaveWorkers, PTL
-----------------------------------------------------------------------------
(* Until the first timeout, sessions that follow each other on one worker   *)
(* are separated by a message that ends the first.                          *)

\* No timer sleeps before one has run out.
NoSleeper == timeouts = 0 => \A t \in timers : ~t.sleeping

SoundUntilTimeout == timeouts = 0 => SessionsSound

LEMMA BeforeTimeout ==
    ASSUME MasterTypeOK, MasterNext, timeouts' = 0
    PROVE  timeouts = 0 /\ \A t \in timers : ~TimerRunsOut(t)
<1>1. \A t \in timers : ~TimerRunsOut(t)
    BY DEF TimerRunsOut, MasterTypeOK
<1> QED BY <1>1 DEF MasterNext, TimerStep, RegisterRemoteActor, Terminated,
           IsRActorAvailable, RouteRequest, ResolveActor, ResolveBound, ResolveUnused,
           masterVars, FinishRSessionReceived, RStart, RStop, LookupFails,
           MasterRestarted, TimerUnbinds

LEMMA SleeperStep == MasterTypeOK /\ NoSleeper /\ MasterNext => NoSleeper'
<1> SUFFICES ASSUME MasterTypeOK, NoSleeper, MasterNext, timeouts' = 0
             PROVE  \A t \in timers' : ~t.sleeping
    BY DEF NoSleeper
<1>1. timeouts = 0 /\ \A t \in timers : ~TimerRunsOut(t)
    BY BeforeTimeout
<1>2. Undisturbed /\ \A t \in timers : ~t.sleeping
    BY <1>1, CalmWithoutSleepers DEF NoSleeper
<1>3. ASSUME NEW u \in UUID, NEW c \in Client, NEW w \in Supervisor, ResolveActor(u, c, w)
      PROVE  \A t \in timers' : ~t.sleeping
    <2> DEFINE t == [uuid |-> u, epoch |-> thisMsg, sleeping |-> FALSE]
    <2>1. timers' = timers \/ timers' = timers \cup {t}
        BY <1>2, <1>3, WriteAlone DEF ResolveActor, ResolveBound, ResolveUnused, masterVars
    <2>2. ~t.sleeping
        OBVIOUS
    <2> HIDE DEF t
    <2> QED BY <1>2, <2>1, <2>2
<1>4. ASSUME NEW new, WriteSessionMap(new, {}) PROVE timers' = timers
    BY <1>2, <1>4, WriteAlone
<1>5. ASSUME ~\E u \in UUID, c \in Client, w \in Supervisor : ResolveActor(u, c, w)
      PROVE  timers' \subseteq timers
    <2>1. \A c \in Client : Terminated(c) => timers' = timers
        BY <1>4 DEF Terminated
    <2>2. \A u \in UUID : FinishRSessionReceived(u) => timers' = timers
        BY <1>4 DEF FinishRSessionReceived
    <2>3. RStop => timers' = timers
        BY <1>4 DEF RStop
    <2> QED BY <1>1, <1>5, <2>1, <2>2, <2>3
            DEF MasterNext, TimerStep, RegisterRemoteActor, IsRActorAvailable, RouteRequest,
                masterVars, RStart, LookupFails, MasterRestarted, TimerUnbinds
<1> QED BY <1>2, <1>3, <1>5

\* The sessions of worker v keep it, under the same binding.
Keeps(v) == \A u \in UUID : rWorkerSessionMap[u] = v =>
                rWorkerSessionMap'[u] = v /\ bindEpoch'[u] = bindEpoch[u]

\* A step before the first timeout either ends whatever session worker v has, and
\* tells v, or leaves it; and the request it may tell v is that of its session.
LEMMA MasterDeals ==
    ASSUME MasterTypeOK, BoundHasEpoch, SessionsSound, NEW S,
           supBox \in [Supervisor -> Seq(S)], \A t \in timers : ~t.sleeping,
           MasterNext, timeouts' = 0, NEW v \in Supervisor
    PROVE  \/ ToldToEnd(v)
           \/ ToldNothing(v) /\ Keeps(v)
           \/ /\ Keeps(v)
              /\ \E m \in RRequestMessage, u \in UUID :
                    /\ supBox'[v] = Append(supBox[v], m)
                    /\ rWorkerSessionMap'[u] = v
                    /\ bindEpoch'[u] = m.epoch
<1> DEFINE Deal == \/ ToldToEnd(v)
                   \/ ToldNothing(v) /\ Keeps(v)
                   \/ /\ Keeps(v)
                      /\ \E m \in RRequestMessage, u \in UUID :
                            /\ supBox'[v] = Append(supBox[v], m)
                            /\ rWorkerSessionMap'[u] = v
                            /\ bindEpoch'[u] = m.epoch
<1> SUFFICES Deal
    OBVIOUS
<1>0. Undisturbed
    BY CalmWithoutSleepers
<1>1. ASSUME UNCHANGED <<supBox, rWorkerSessionMap, bindEpoch>> PROVE Deal
    BY <1>1 DEF ToldNothing, Keeps
\* resolveActor takes no worker from anybody.
<1>2. ASSUME NEW u \in UUID, NEW c \in Client, NEW w \in Supervisor, ResolveActor(u, c, w)
      PROVE  /\ Keeps(v)
             /\ rWorkerSessionMap'[u] = w
             /\ bindEpoch'[u] = IF Bound(u) THEN bindEpoch[u] ELSE thisMsg
    <2>1. CASE ResolveBound(u, w)
        BY <2>1 DEF ResolveBound, masterVars, Keeps, Bound
    <2>2. CASE ResolveUnused(u, c, w)
        <3>1. rWorkerSessionMap' = [rWorkerSessionMap EXCEPT ![u] = w]
            BY <1>0, <2>2, WriteAlone DEF ResolveUnused
        <3>2. bindEpoch' = [bindEpoch EXCEPT ![u] = thisMsg] /\ ~Bound(u)
            BY <2>2 DEF ResolveUnused
        <3> QED BY <3>1, <3>2, MailboxAssumption DEF Keeps, Bound, MasterTypeOK
    <2> QED BY <1>2, <2>1, <2>2 DEF ResolveActor
<1>3. ASSUME NEW c \in Client, NEW u \in UUID, IsRActorAvailable(c, u) PROVE Deal
    BY <1>1, <1>2, <1>3 DEF IsRActorAvailable, masterVars, ToldNothing
<1>4. ASSUME NEW c \in Client, NEW u \in UUID, NEW kind \in ClientKinds,
             RouteRequest(c, u, kind)
      PROVE  Deal
    <2> DEFINE m == RRequest(kind, u, thisMsg, IF Bound(u) THEN bindEpoch[u] ELSE thisMsg)
    <2>1. /\ m \in RRequestMessage
          /\ m.epoch = IF Bound(u) THEN bindEpoch[u] ELSE thisMsg
        BY <1>4, RoutedRequest DEF RouteRequest
    <2>2. \/ UNCHANGED <<masterVars, supBox>>
          \/ \E w \in Supervisor : ResolveActor(u, c, w) /\ supBox' = Tell(supBox, w, m)
        BY <1>4 DEF RouteRequest
    <2> HIDE DEF m
    <2>3. ASSUME NEW w \in Supervisor, ResolveActor(u, c, w), supBox' = Tell(supBox, w, m)
          PROVE  Deal
        <3>1. /\ Keeps(v) /\ rWorkerSessionMap'[u] = w
              /\ bindEpoch'[u] = m.epoch
            BY <1>2, <2>1, <2>3
        <3>2. CASE v = w
            BY <2>1, <2>3, <3>1, <3>2 DEF Tell
        <3>3. CASE v # w
            BY <2>3, <3>1, <3>3 DEF Tell, ToldNothing
        <3> QED BY <3>2, <3>3
    <2> QED BY <1>1, <2>2, <2>3 DEF masterVars
<1>5. ASSUME NEW u \in UUID, FinishRSessionReceived(u) PROVE Deal
    <2>1. rWorkerSessionMap' = [rWorkerSessionMap EXCEPT ![u] = None] /\ UNCHANGED bindEpoch
        BY <1>0, <1>5, WriteAlone DEF FinishRSessionReceived
    <2>2. CASE rWorkerSessionMap[u] = v
        <3>1. supBox'[v] = Append(supBox[v], FinishRSession(u))
            BY <1>5, <2>2, MailboxAssumption DEF FinishRSessionReceived, Tell, Bound
        <3>2. FinishRSession(u) \in EndMessage
            BY DEF FinishRSession, EndMessage, FinishMessage
        <3> QED BY <3>1, <3>2 DEF ToldToEnd
    <2>3. CASE rWorkerSessionMap[u] # v
        <3>1. ToldNothing(v)
            BY <1>5, <2>3 DEF FinishRSessionReceived, Tell, Bound, ToldNothing
        <3>2. Keeps(v)
            BY <2>1, <2>3 DEF Keeps, MasterTypeOK
        <3> QED BY <3>1, <3>2
    <2> QED BY <2>2, <2>3
\* Every binding is to a worker of the router.
<1>6. ASSUME RStop PROVE Deal
    <2>1. CASE v \in rServeRouter
        BY <1>6, <2>1 DEF RStop, ToldToEnd, EndMessage
    <2>2. CASE v \notin rServeRouter
        <3>1. ToldNothing(v)
            BY <1>6, <2>2 DEF RStop, ToldNothing
        <3>2. \A u \in UUID : rWorkerSessionMap[u] # v
            BY <2>2, MailboxAssumption
               DEF SessionsSound, BoundToRouter, BoundWorkers, BoundUUIDs, Bound
        <3> QED BY <3>1, <3>2 DEF Keeps
    <2> QED BY <2>1, <2>2
\* Every bound session has a client, so that all of them end.
<1>7. ASSUME NEW c \in Client, Terminated(c) PROVE Deal
    <2>1. \A u \in UUID : rWorkerSessionMap[u] # None => remoteClientSessionMap[u] # None
        BY MasterAssumption DEF SessionsSound, WatchedWhileBound, MasterTypeOK,
                                BoundUUIDs, Bound
    <2>2. CASE \E u \in UUID : rWorkerSessionMap[u] = v
        BY <1>7, <2>1, <2>2, MailboxAssumption DEF Terminated, ToldToEnd, EndMessage
    <2>3. CASE ~\E u \in UUID : rWorkerSessionMap[u] = v
        BY <1>7, <2>3 DEF Terminated, ToldNothing, Keeps
    <2> QED BY <2>2, <2>3
<1>8. ~(\E u \in UUID : LookupFails(u)) /\ ~(\E t \in timers : TimerUnbinds(t))
    BY <1>0 DEF LookupFails, TimerUnbinds, Undisturbed
<1>9. \A t \in timers : ~TimerRunsOut(t)
    BY DEF TimerRunsOut, MasterTypeOK
<1>10. ASSUME (\E c \in Client : RegisterRemoteActor(c)) \/ RStart \/ MasterRestarted
       PROVE  Deal
    BY <1>1, <1>10 DEF RegisterRemoteActor, RStart, MasterRestarted
<1> HIDE DEF Deal
<1> QED BY <1>3, <1>4, <1>5, <1>6, <1>7, <1>8, <1>9, <1>10 DEF MasterNext, TimerStep

\* A longer mailbox is the old one with a last message.
LEMMA AppendShape ==
    ASSUME NEW S, NEW s \in Seq(S), NEW m
    PROVE  /\ Len(Append(s, m)) = Len(s) + 1 /\ Len(s) \in Nat
           /\ DOMAIN s = 1..Len(s) /\ DOMAIN Append(s, m) = 1..(Len(s) + 1)
           /\ \A i \in 1..Len(s) : Append(s, m)[i] = s[i]
           /\ Append(s, m)[Len(s) + 1] = m
OBVIOUS

\* What CleanHandover asks of one mailbox.
CleanBox(w) ==
    \A i, j \in DOMAIN supBox[w] :
        /\ i < j
        /\ supBox[w][i].type \in RequestKind
        /\ supBox[w][j].type \in RequestKind
        /\ supBox[w][i].epoch # supBox[w][j].epoch
        => \E k \in i..j : EndsSession(supBox[w][k])

\* A request that no message to end follows belongs to a session that is still
\* bound to the worker.
LastBound(w) ==
    \A i \in DOMAIN supBox[w] :
        /\ supBox[w][i].type \in RequestKind
        /\ \A k \in i..Len(supBox[w]) : ~EndsSession(supBox[w][k])
        => \E u \in UUID : /\ rWorkerSessionMap[u] = w
                           /\ bindEpoch[u] = supBox[w][i].epoch

LEMMA HandoverStep ==
    ASSUME MasterTypeOK, BoundHasEpoch, SessionsSound, OneSessionPerWorker',
           NEW S, supBox \in [Supervisor -> Seq(S)], \A t \in timers : ~t.sleeping,
           MasterNext, timeouts' = 0, NEW w \in Supervisor, CleanBox(w), LastBound(w)
    PROVE  CleanBox(w)' /\ LastBound(w)'
<1> DEFINE s == supBox[w]
<1>0. s \in Seq(S)
    OBVIOUS
<1>1. CASE ToldToEnd(w)
    <2>1. PICK m \in EndMessage : supBox'[w] = Append(s, m)
        BY <1>1 DEF ToldToEnd
    <2>2. m.type \notin RequestKind /\ EndsSession(m)
        BY MessageTypes
    <2> DEFINE n == Len(s) + 1
    <2>3. /\ n \in Nat /\ DOMAIN supBox'[w] = 1..n /\ Len(supBox'[w]) = n
          /\ DOMAIN s = 1..(n - 1)
          /\ supBox'[w][n] = m /\ \A i \in 1..(n - 1) : supBox'[w][i] = s[i]
        BY <1>0, <2>1, AppendShape
    <2> HIDE DEF n
    <2>4. CleanBox(w)'
        <3> SUFFICES ASSUME NEW i \in 1..n, NEW j \in 1..n, i < j,
                            supBox'[w][i].type \in RequestKind,
                            supBox'[w][j].type \in RequestKind,
                            supBox'[w][i].epoch # supBox'[w][j].epoch
                     PROVE  \E k \in i..j : EndsSession(supBox'[w][k])
            BY <2>3 DEF CleanBox, EndsSession
        <3>1. i \in 1..(n - 1) /\ j \in 1..(n - 1)
            BY <2>2, <2>3
        <3>2. \E k \in i..j : EndsSession(s[k])
            BY <2>3, <3>1 DEF CleanBox
        <3> QED BY <2>3, <3>1, <3>2
    <2>5. LastBound(w)'
        <3>1. \A i \in 1..n : n \in i..n /\ EndsSession(supBox'[w][n])
            BY <2>2, <2>3
        <3> QED BY <2>3, <3>1 DEF LastBound, EndsSession
    <2> QED BY <2>4, <2>5
<1>2. CASE ToldNothing(w) /\ Keeps(w)
    <2>1. supBox'[w] = supBox[w]
        BY <1>2 DEF ToldNothing
    <2>2. CleanBox(w)'
        BY <2>1 DEF CleanBox, EndsSession
    <2>3. LastBound(w)'
        <3> SUFFICES ASSUME NEW i \in DOMAIN s, s[i].type \in RequestKind,
                            \A k \in i..Len(s) : ~EndsSession(s[k])
                     PROVE  \E u \in UUID : /\ rWorkerSessionMap'[u] = w
                                            /\ bindEpoch'[u] = s[i].epoch
            BY <2>1 DEF LastBound, EndsSession
        <3>1. PICK u \in UUID : rWorkerSessionMap[u] = w /\ bindEpoch[u] = s[i].epoch
            BY DEF LastBound
        <3> QED BY <1>2, <3>1 DEF Keeps
    <2> QED BY <2>2, <2>3
<1>3. CASE /\ Keeps(w)
           /\ \E m \in RRequestMessage, u \in UUID :
                 /\ supBox'[w] = Append(supBox[w], m)
                 /\ rWorkerSessionMap'[u] = w
                 /\ bindEpoch'[u] = m.epoch
    <2>1. PICK m \in RRequestMessage, u \in UUID :
                 /\ supBox'[w] = Append(s, m)
                 /\ rWorkerSessionMap'[u] = w
                 /\ bindEpoch'[u] = m.epoch
        BY <1>3
    <2>2. m.type \in RequestKind /\ ~EndsSession(m)
        BY MessageTypes
    <2> DEFINE n == Len(s) + 1
    <2>3. /\ n \in Nat /\ DOMAIN supBox'[w] = 1..n /\ Len(supBox'[w]) = n
          /\ Len(s) = n - 1 /\ DOMAIN s = 1..(n - 1)
          /\ supBox'[w][n] = m /\ \A i \in 1..(n - 1) : supBox'[w][i] = s[i]
        BY <1>0, <2>1, AppendShape
    <2> HIDE DEF n
    \* An unfinished session of w is the one bound to it now.
    <2>4. ASSUME NEW i \in 1..(n - 1), s[i].type \in RequestKind,
                 \A k \in i..(n - 1) : ~EndsSession(s[k])
          PROVE  s[i].epoch = m.epoch
        <3>1. PICK v \in UUID : rWorkerSessionMap[v] = w /\ bindEpoch[v] = s[i].epoch
            BY <2>3, <2>4 DEF LastBound
        <3>2. rWorkerSessionMap'[v] = w /\ bindEpoch'[v] = s[i].epoch
            BY <1>3, <3>1 DEF Keeps
        <3>3. v = u
            BY <2>1, <3>2, MailboxAssumption DEF OneSessionPerWorker, BoundUUIDs, Bound
        <3> QED BY <2>1, <3>2, <3>3
    <2>5. CleanBox(w)'
        <3> SUFFICES ASSUME NEW i \in 1..n, NEW j \in 1..n, i < j,
                            supBox'[w][i].type \in RequestKind,
                            supBox'[w][j].type \in RequestKind,
                            supBox'[w][i].epoch # supBox'[w][j].epoch
                     PROVE  \E k \in i..j : EndsSession(supBox'[w][k])
            BY <2>3 DEF CleanBox, EndsSession
        <3>1. i \in 1..(n - 1)
            BY <2>3
        <3>2. CASE j \in 1..(n - 1)
            <4>1. \E k \in i..j : EndsSession(s[k])
                BY <2>3, <3>1, <3>2 DEF CleanBox
            <4> QED BY <2>3, <3>1, <3>2, <4>1
        <3>3. CASE j = n
            <4>1. PICK k \in i..(n - 1) : EndsSession(s[k])
                BY <2>3, <2>4, <3>1, <3>3
            <4> QED BY <2>3, <3>1, <3>3, <4>1
        <3> QED BY <2>3, <3>2, <3>3
    <2>6. LastBound(w)'
        <3> SUFFICES ASSUME NEW i \in 1..n, supBox'[w][i].type \in RequestKind,
                            \A k \in i..n : ~EndsSession(supBox'[w][k])
                     PROVE  supBox'[w][i].epoch = m.epoch
            BY <2>1, <2>3 DEF LastBound, EndsSession
        <3>1. CASE i = n
            BY <2>3, <3>1
        <3>2. CASE i \in 1..(n - 1)
            <4>1. \A k \in i..(n - 1) : k \in i..n /\ ~EndsSession(s[k])
                BY <2>3, <3>2
            <4> QED BY <2>3, <2>4, <3>2, <4>1
        <3> QED BY <2>3, <3>1, <3>2
    <2> QED BY <2>5, <2>6
<1> QED BY <1>1, <1>2, <1>3, MasterDeals

\* All that is known of the mailboxes before the first timeout, as one
\* inductive invariant.
HandoverInv ==
    /\ BoundHasEpoch
    /\ NoSleeper
    /\ SoundUntilTimeout
    /\ timeouts = 0 => \A w \in Supervisor : CleanBox(w) /\ LastBound(w)

LEMMA HandoverInvStep ==
    ASSUME MasterTypeOK, OneSessionPerWorker', HandoverInv, MasterNext,
           NEW S, supBox \in [Supervisor -> Seq(S)]
    PROVE  HandoverInv'
<1>1. BoundHasEpoch' /\ NoSleeper'
    BY EpochStep, SleeperStep DEF HandoverInv
<1>2. ASSUME timeouts' = 0
      PROVE  /\ timeouts = 0 /\ SessionsSound /\ Undisturbed
             /\ \A t \in timers : ~t.sleeping
    BY <1>2, BeforeTimeout, CalmWithoutSleepers
       DEF HandoverInv, SoundUntilTimeout, NoSleeper
<1>3. SoundUntilTimeout'
    BY <1>2, SoundStep DEF SoundUntilTimeout
<1>4. ASSUME timeouts' = 0, NEW w \in Supervisor PROVE CleanBox(w)' /\ LastBound(w)'
    BY <1>2, <1>4, HandoverStep DEF HandoverInv
<1> QED BY <1>1, <1>3, <1>4 DEF HandoverInv

LEMMA HandoverInit == MasterInit => HandoverInv
<1> SUFFICES ASSUME MasterInit PROVE HandoverInv
    OBVIOUS
<1>1. BoundHasEpoch /\ NoSleeper
    BY DEF MasterInit, BoundHasEpoch, BoundUUIDs, Bound, NoSleeper
<1>2. SoundUntilTimeout
    BY SoundInit DEF SoundUntilTimeout
<1>3. \A w \in Supervisor : CleanBox(w) /\ LastBound(w)
    BY DEF MasterInit, CleanBox, LastBound
<1> QED BY <1>1, <1>2, <1>3 DEF HandoverInv

\* Until the first timeout, and whatever timers race with, two sessions never meet
\* in the mailbox of a worker without a FinishRSession, a Kill or a PoisonPill
\* between them: FinishRSession, Terminated and RStop tell every worker whose
\* session they end, before they hand it out again.
THEOREM HandoverIsClean == MasterSpec => []CleanHandover
<1> DEFINE BoxType == supBox \in [Supervisor -> Seq(MasterMessage)]
<1>1. MasterInit => BoxType
    BY DEF MasterInit
<1>2. MasterTypeOK /\ HandoverInv /\ BoxType /\ MasterNext => BoxType'
    BY MailboxesStep DEF HandoverInv
<1>3. MasterTypeOK /\ OneSessionPerWorker' /\ HandoverInv /\ BoxType /\ MasterNext
        => HandoverInv'
    BY HandoverInvStep
<1>4. HandoverInv /\ BoxType /\ UNCHANGED mvars => HandoverInv' /\ BoxType'
    BY DEF mvars, masterVars, sharedVars, HandoverInv, BoundHasEpoch, NoSleeper,
           SoundUntilTimeout, SessionsSound, BoundToRouter, WatchedWhileBound,
           TimedWhileBound, BoundWorkers, BoundUUIDs, Bound, CleanBox, LastBound
<1>5. HandoverInv => CleanHandover
    BY DEF HandoverInv, CleanBox, CleanHandover
<1> HIDE DEF BoxType
<1> QED BY <1>1, <1>2, <1>3, <1>4, <1>5, HandoverInit, MasterTypeCorrect,
           SessionsExclusive, PTL DEF MasterSpec
=============================================================================
