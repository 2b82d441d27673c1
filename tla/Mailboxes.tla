------------------------------ MODULE Mailboxes ------------------------------
(***************************************************************************)
(* What the actors of the R connector share: the messages that reach a     *)
(* worker (the case classes of Message.scala and Akka's own Kill and       *)
(* PoisonPill), the mailbox of every RServeActorSupervisor, and the        *)
(* answers given to the clients.                                           *)
(*                                                                         *)
(* A message from a client to RServeMaster is not queued: any client may   *)
(* have any message delivered at any moment, which covers delay, loss and  *)
(* every interleaving of the remote clients.  Such messages are numbered   *)
(* 1, 2, ..., MaxMsgs in the order in which the master handles them, and   *)
(* the number names the request wherever it travels.                       *)
(***************************************************************************)
EXTENDS Naturals, Sequences, FiniteSets

CONSTANTS UUID,        \* the session identifiers the clients use
          Supervisor,  \* the ActorRefs context.actorOf can ever return to the master
          None,        \* scala.None: no worker, no client
          MaxMsgs,     \* bound: client messages handled by the master
          ClientKinds  \* bound: the kinds of requests that the clients send

VARIABLES supBox,   \* [Supervisor -> Seq(SupMessage)]: mailboxes of the supervisors
          created,  \* the supervisors that exist or have existed
          stopAsked,\* the supervisors the restarting master has called context.stop on
          handled,  \* number of client messages handled by the master so far
          answers   \* [MsgId -> Nat]: answers sent to the sender of each message

MsgId == 1..MaxMsgs

\* The classes of work a client can have routed to a worker.  An
\* ExecuteRRequest is a HadoopExecuteRRequest or a DBExecuteRRequest with all
\* its options given; an OtherRRequest is any RRequest that the actor's
\* patterns do not match, for instance one whose escapeStr is None.
RequestKind == {"RAssign", "SyntaxCheckRequest", "ExecuteRRequest", "OtherRRequest"}

ASSUME MailboxAssumption == /\ None \notin Supervisor
                            /\ MaxMsgs \in Nat
                            /\ ClientKinds \subseteq RequestKind

\* `epoch' is a history component: the message that bound the session, so
\* that two sessions with one UUID are told apart.
RRequest(kind, uuid, id, epoch) ==
    [type |-> kind, uuid |-> uuid, id |-> id, epoch |-> epoch]

FinishRSession(uuid) == [type |-> "FinishRSession", uuid |-> uuid]
PId(pid)             == [type |-> "PId", pid |-> pid]
RException           == [type |-> "RException"]
Kill                 == [type |-> "Kill"]
PoisonPill           == [type |-> "PoisonPill"]

RRequestMessage == [type : RequestKind, uuid : UUID, id : MsgId, epoch : MsgId]
FinishMessage   == [type : {"FinishRSession"}, uuid : UUID]

\* What RServeMaster and its timers put into the mailbox of a supervisor.
MasterMessage == RRequestMessage \cup FinishMessage \cup {Kill, PoisonPill}

ASSUME NoneIsNoMessage == None \notin MasterMessage

\* Actor.tell: append to the mailbox of w.
Tell(box, w, m) == [box EXCEPT ![w] = Append(@, m)]

\* The sender of message id gets one more answer.
Answer(id) == answers' = [answers EXCEPT ![id] = @ + 1]
=============================================================================
