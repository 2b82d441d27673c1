---------------------------- MODULE SessionPool -----------------------------
(***************************************************************************)
(* What RServeMaster promises to its clients, without clients, messages,   *)
(* timers or threads: a pool of workers, each lent to at most one session  *)
(* at a time, from the first request of the session until its release.     *)
(* The promise is the one of the comments on resolveActor and on           *)
(* rWorkerSessionMap in RServeMaster.scala.                                *)
(***************************************************************************)
CONSTANTS Session, Worker, NoWorker

VARIABLES lent,  \* [Session -> Worker \cup {NoWorker}]
          pool   \* the workers that the pool consists of

poolVars == <<lent, pool>>

Free == pool \ {lent[s] : s \in Session}

PoolInit == /\ lent = [s \in Session |-> NoWorker]
            /\ pool \subseteq Worker

\* A session without a worker gets a free one.
Lend(s, w) == /\ lent[s] = NoWorker
              /\ w \in Free
              /\ lent' = [lent EXCEPT ![s] = w]
              /\ UNCHANGED pool

\* Some sessions end; no other session notices.
Release(S) == /\ lent' = [s \in Session |-> IF s \in S THEN NoWorker ELSE lent[s]]
              /\ UNCHANGED pool

\* The pool is closed, and all sessions with it; it opens with other workers.
Close == /\ lent' = [s \in Session |-> NoWorker]
         /\ pool' = {}

Open == /\ pool = {}
        /\ pool' \subseteq Worker
        /\ UNCHANGED lent

PoolNext == \/ \E s \in Session, w \in Worker : Lend(s, w)
            \/ \E S \in SUBSET Session : Release(S)
            \/ Close
            \/ Open

PoolSpec == PoolInit /\ [][PoolNext]_poolVars
=============================================================================
