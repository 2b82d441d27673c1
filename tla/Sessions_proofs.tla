--------------------------- MODULE Sessions_proofs ---------------------------
(***************************************************************************)
(* Why no R process ever serves two sessions, for any number of sessions,  *)
(* workers, messages, failures and restarts, until a session timer runs    *)
(* out.                                                                    *)
(*                                                                         *)
(* The way of a request through a worker is one pipeline: the mailbox of   *)
(* the supervisor, the mailbox of the child, the hands of the child, the   *)
(* workspace of R.  A message that ends a session travels through the same *)
(* pipeline, as FinishRSession or Kill, as the Kill that the supervisor    *)
(* passes on, as a restart of the supervisor, and finally as the death of  *)
(* the R process.  The invariant says that an end travels between any two  *)
(* requests of different sessions.                                         *)
(***************************************************************************)
EXTENDS RConnector_proofs

\* Of a mailbox s: the sessions of its requests; the sessions before the first end;
\* those after the last end; whether there is an end at all.
Epochs(s)  == {s[i].epoch : i \in {j \in DOMAIN s : IsRequest(s[j])}}
FrontOf(s) == {s[i].epoch : i \in {j \in DOMAIN s : /\ IsRequest(s[j])
                                                    /\ \A k \in 1..j : ~EndsSession(s[k])}}
BackOf(s)  == {s[i].epoch : i \in {j \in DOMAIN s :
                                      /\ IsRequest(s[j])
                                      /\ \A k \in j..Len(s) : ~EndsSession(s[k])}}
Ends(s)    == \E k \in DOMAIN s : EndsSession(s[k])

\* Between two requests of different sessions there is an end.
Apart(s) ==
    \A i, j \in DOMAIN s :
        i < j /\ IsRequest(s[i]) /\ IsRequest(s[j]) /\ s[i].epoch # s[j].epoch
          => \E k \in i..j : EndsSession(s[k])

\* What R and the child of w have of sessions.
Memory(w) == IF actPid[w] = NoPid THEN {} ELSE workspace[actPid[w]]
InHand(w) == {m.epoch : m \in {m \in {currentMessage[w]} : m # None /\ IsRequest(m)}}
Data(w)   == Memory(w) \cup InHand(w)

\* The sessions in the child that nothing has ended yet.
OpenData(w)  == IF currentMessage[w] = Kill THEN {} ELSE Data(w)
ChildOpen(w) == BackOf(actBox[w]) \cup IF Ends(actBox[w]) THEN {} ELSE OpenData(w)

\* A supervisor that is not up stops its child before it reads its mailbox again.
Handed(w)     == IF supState[w] = "up" THEN ChildOpen(w) ELSE {}
WorkerOpen(w) == BackOf(supBox[w]) \cup IF Ends(supBox[w]) THEN {} ELSE Handed(w)

\* A mailbox s goes on with the session that its readers have open.
Continues(open, s) == \A e \in open, f \in FrontOf(s) : e = f

BoundEpochs(w) == {bindEpoch[u] : u \in {v \in UUID : rWorkerSessionMap[v] = w}}

ChildApart(w) ==
    /\ \A e, f \in Data(w) : e = f
    /\ Apart(actBox[w])
    /\ Continues(OpenData(w), actBox[w])
    /\ actState[w] = "stopped" => actBox[w] = <<>>

Pipeline(w) ==
    /\ ChildApart(w)
    /\ Apart(supBox[w])
    /\ Continues(Handed(w), supBox[w])
    /\ WorkerOpen(w) \subseteq BoundEpochs(w)

\* No two children have the same R process.
OwnPids == \A v, w \in Supervisor : actPid[v] = actPid[w] /\ actPid[v] # NoPid => v = w

\* All that is known of the workers before the first timeout.
PipelineInv ==
    /\ NoSleeper
    /\ SoundUntilTimeout
    /\ OneSessionPerWorker
    /\ OwnPids
    /\ timeouts = 0 => \A w \in Supervisor : Pipeline(w)
-----------------------------------------------------------------------------
(* What a message more or a message less does to a mailbox                 *)

\* The session of message m, if it has one.
EpochOf(m) == IF IsRequest(m) THEN {m.epoch} ELSE {}

LEMMA RequestsDoNotEnd == \A m : IsRequest(m) => ~EndsSession(m)
BY DEF IsRequest, EndsSession, RequestKind

LEMMA InEpochs ==
    ASSUME NEW s
    PROVE  /\ \A e : e \in Epochs(s) <=> \E i \in DOMAIN s : IsRequest(s[i]) /\ s[i].epoch = e
           /\ \A e : e \in FrontOf(s) <=> \E i \in DOMAIN s :
                        /\ IsRequest(s[i]) /\ s[i].epoch = e
                        /\ \A k \in 1..i : ~EndsSession(s[k])
           /\ \A e : e \in BackOf(s) <=> \E i \in DOMAIN s :
                        /\ IsRequest(s[i]) /\ s[i].epoch = e
                        /\ \A k \in i..Len(s) : ~EndsSession(s[k])
<1>1. \A e : e \in Epochs(s) <=> \E i \in DOMAIN s : IsRequest(s[i]) /\ s[i].epoch = e
    BY DEF Epochs
<1>2. \A e : e \in FrontOf(s) <=> \E i \in DOMAIN s :
                /\ IsRequest(s[i]) /\ s[i].epoch = e
                /\ \A k \in 1..i : ~EndsSession(s[k])
    BY DEF FrontOf
<1>3. \A e : e \in BackOf(s) <=> \E i \in DOMAIN s :
                /\ IsRequest(s[i]) /\ s[i].epoch = e
                /\ \A k \in i..Len(s) : ~EndsSession(s[k])
    BY DEF BackOf
<1> QED BY <1>1, <1>2, <1>3

LEMMA FrontAndBack ==
    ASSUME NEW S, NEW s \in Seq(S)
    PROVE  /\ FrontOf(s) \subseteq Epochs(s) /\ BackOf(s) \subseteq Epochs(s)
           /\ ~Ends(s) => FrontOf(s) = Epochs(s) /\ BackOf(s) = Epochs(s)
           /\ Apart(s) => \A e, f \in FrontOf(s) : e = f
<1> DEFINE n == Len(s)
<1>0. n \in Nat /\ DOMAIN s = 1..n
    OBVIOUS
<1> HIDE DEF n
<1>1. FrontOf(s) \subseteq Epochs(s) /\ BackOf(s) \subseteq Epochs(s)
    BY InEpochs
<1>2. ASSUME ~Ends(s) PROVE Epochs(s) \subseteq FrontOf(s) /\ Epochs(s) \subseteq BackOf(s)
    <2> SUFFICES ASSUME NEW e \in Epochs(s) PROVE e \in FrontOf(s) /\ e \in BackOf(s)
        OBVIOUS
    <2>1. PICK i \in 1..n : IsRequest(s[i]) /\ s[i].epoch = e
        BY <1>0, InEpochs
    <2>2. \A k \in 1..i : ~EndsSession(s[k])
        BY <1>0, <1>2 DEF Ends
    <2>3. \A k \in i..n : ~EndsSession(s[k])
        BY <1>0, <1>2 DEF Ends
    <2>4. e \in FrontOf(s)
        BY <1>0, <2>1, <2>2, InEpochs
    <2>5. e \in BackOf(s)
        BY <1>0, <2>1, <2>3, InEpochs DEF n
    <2> QED BY <2>4, <2>5
<1>3. ASSUME Apart(s), NEW e \in FrontOf(s), NEW f \in FrontOf(s) PROVE e = f
    <2>1. PICK i \in 1..n : /\ IsRequest(s[i]) /\ s[i].epoch = e
                            /\ \A k \in 1..i : ~EndsSession(s[k])
        BY <1>0, InEpochs
    <2>2. PICK j \in 1..n : /\ IsRequest(s[j]) /\ s[j].epoch = f
                            /\ \A k \in 1..j : ~EndsSession(s[k])
        BY <1>0, InEpochs
    <2>3. CASE i = j
        BY <2>1, <2>2, <2>3
    <2>4. CASE i < j
        <3>1. \A k \in i..j : k \in 1..j
            BY <1>0
        <3> QED BY <1>0, <1>3, <2>1, <2>2, <2>4, <3>1 DEF Apart
    <2>5. CASE j < i
        <3>1. \A k \in j..i : k \in 1..i
            BY <1>0
        <3> QED BY <1>0, <1>3, <2>1, <2>2, <2>5, <3>1 DEF Apart
    <2> QED BY <1>0, <2>3, <2>4, <2>5
<1> QED BY <1>1, <1>2, <1>3

LEMMA EmptyBox ==
    /\ Epochs(<<>>) = {} /\ FrontOf(<<>>) = {} /\ BackOf(<<>>) = {}
    /\ ~Ends(<<>>) /\ Apart(<<>>)
BY DEF Epochs, FrontOf, BackOf, Ends, Apart

LEMMA BoxAppend ==
    ASSUME NEW S, NEW s \in Seq(S), NEW m
    PROVE  /\ Epochs(Append(s, m)) = Epochs(s) \cup EpochOf(m)
           /\ Ends(Append(s, m)) <=> Ends(s) \/ EndsSession(m)
           /\ Ends(s) => FrontOf(Append(s, m)) = FrontOf(s)
           /\ ~Ends(s) => FrontOf(Append(s, m)) = FrontOf(s) \cup EpochOf(m)
           /\ EndsSession(m) => BackOf(Append(s, m)) = {}
           /\ ~EndsSession(m) => BackOf(Append(s, m)) = BackOf(s) \cup EpochOf(m)
           /\ Apart(s) /\ (\A e \in BackOf(s), f \in EpochOf(m) : e = f)
                => Apart(Append(s, m))
<1> DEFINE t == Append(s, m)
           n == Len(s)
<1>0. /\ n \in Nat /\ DOMAIN s = 1..n /\ DOMAIN t = 1..(n + 1) /\ Len(t) = n + 1
      /\ \A i \in 1..n : t[i] = s[i]
      /\ t[n + 1] = m
    BY AppendShape
<1>s. Len(s) = n
    OBVIOUS
<1> HIDE DEF t, n
<1>1. \A i : i \in 1..(n + 1) <=> i \in 1..n \/ i = n + 1
    BY <1>0
<1>2. \A e : e \in EpochOf(m) <=> IsRequest(m) /\ m.epoch = e
    BY DEF EpochOf
<1>3. Epochs(t) = Epochs(s) \cup EpochOf(m)
    <2>1. \A e : e \in Epochs(t) <=> \E i \in 1..(n + 1) : IsRequest(t[i]) /\ t[i].epoch = e
        BY <1>0, InEpochs
    <2>2. \A e : e \in Epochs(s) <=> \E i \in 1..n : IsRequest(t[i]) /\ t[i].epoch = e
        BY <1>0, InEpochs
    <2> QED BY <1>0, <1>1, <1>2, <2>1, <2>2
<1>4. Ends(t) <=> Ends(s) \/ EndsSession(m)
    BY <1>0, <1>1 DEF Ends
<1>5. FrontOf(t) = IF Ends(s) THEN FrontOf(s) ELSE FrontOf(s) \cup EpochOf(m)
    <2>1. \A e : e \in FrontOf(s) <=> \E i \in 1..n :
                    /\ IsRequest(t[i]) /\ t[i].epoch = e
                    /\ \A k \in 1..i : ~EndsSession(t[k])
        <3>1. \A i \in 1..n : \A k \in 1..i : k \in 1..n
            BY <1>0
        <3> QED BY <1>0, <3>1, InEpochs
    <2>2. \A e : e \in FrontOf(t) <=> \E i \in 1..(n + 1) :
                    /\ IsRequest(t[i]) /\ t[i].epoch = e
                    /\ \A k \in 1..i : ~EndsSession(t[k])
        BY <1>0, InEpochs
    <2>3. \A e : e \in FrontOf(t) <=>
             e \in FrontOf(s) \/ (e \in EpochOf(m) /\ \A k \in 1..(n + 1) : ~EndsSession(t[k]))
        BY <1>0, <1>1, <1>2, <2>1, <2>2
    <2>4. IsRequest(m) => ((\A k \in 1..(n + 1) : ~EndsSession(t[k])) <=> ~Ends(s))
        BY <1>0, <1>1, RequestsDoNotEnd DEF Ends
    <2> QED BY <1>2, <2>3, <2>4
<1>6. BackOf(t) = IF EndsSession(m) THEN {} ELSE BackOf(s) \cup EpochOf(m)
    <2>1. \A e : e \in BackOf(s) <=> \E i \in 1..n :
                    /\ IsRequest(t[i]) /\ t[i].epoch = e
                    /\ \A k \in i..n : ~EndsSession(t[k])
        <3>1. \A i \in 1..n : \A k \in i..n : k \in 1..n
            BY <1>0
        <3> QED BY <1>0, <1>s, <3>1, InEpochs
    <2>2. \A e : e \in BackOf(t) <=> \E i \in 1..(n + 1) :
                    /\ IsRequest(t[i]) /\ t[i].epoch = e
                    /\ \A k \in i..(n + 1) : ~EndsSession(t[k])
        BY <1>0, InEpochs
    <2>3. \A i \in 1..n : (\A k \in i..(n + 1) : ~EndsSession(t[k]))
                            <=> (\A k \in i..n : ~EndsSession(t[k])) /\ ~EndsSession(m)
        <3>1. \A i \in 1..n : \A k : k \in i..(n + 1) <=> k \in i..n \/ k = n + 1
            BY <1>0
        <3> QED BY <1>0, <3>1
    <2>4. (\A k \in (n + 1)..(n + 1) : ~EndsSession(t[k])) <=> ~EndsSession(m)
        BY <1>0
    <2> QED BY <1>0, <1>1, <1>2, <2>1, <2>2, <2>3, <2>4
<1>7. ASSUME Apart(s), \A e \in BackOf(s), f \in EpochOf(m) : e = f PROVE Apart(t)
    <2> SUFFICES ASSUME NEW i \in 1..(n + 1), NEW j \in 1..(n + 1), i < j, IsRequest(t[i]),
                        IsRequest(t[j]), t[i].epoch # t[j].epoch
                 PROVE  \E k \in i..j : EndsSession(t[k])
        BY <1>0 DEF Apart
    <2>1. i \in 1..n /\ t[i] = s[i]
        BY <1>0
    <2>2. CASE j \in 1..n
        <3>1. \E k \in i..j : EndsSession(s[k])
            BY <1>0, <1>7, <2>1, <2>2 DEF Apart
        <3> QED BY <1>0, <2>1, <2>2, <3>1
    <2>3. CASE j = n + 1
        <3>1. s[i].epoch \notin BackOf(s)
            BY <1>0, <1>2, <1>7, <2>1, <2>3
        <3>2. PICK k \in i..n : EndsSession(s[k])
            BY <1>0, <1>s, <2>1, <3>1, InEpochs
        <3> QED BY <1>0, <2>1, <2>3, <3>2
    <2> QED BY <1>1, <2>2, <2>3
<1> QED BY <1>3, <1>4, <1>5, <1>6, <1>7 DEF t

LEMMA BoxTail ==
    ASSUME NEW S, NEW s \in Seq(S), s # <<>>
    PROVE  /\ Epochs(s) = Epochs(Tail(s)) \cup EpochOf(Head(s))
           /\ Ends(s) <=> Ends(Tail(s)) \/ EndsSession(Head(s))
           /\ EndsSession(Head(s)) => FrontOf(s) = {}
           /\ ~EndsSession(Head(s)) => FrontOf(s) = FrontOf(Tail(s)) \cup EpochOf(Head(s))
           /\ Ends(Tail(s)) => BackOf(s) = BackOf(Tail(s))
           /\ ~Ends(Tail(s)) => BackOf(s) = BackOf(Tail(s)) \cup EpochOf(Head(s))
           /\ Apart(s) => Apart(Tail(s))
<1> DEFINE t == Tail(s)
           h == Head(s)
           n == Len(s)
<1>0. /\ n \in Nat /\ n > 0 /\ DOMAIN s = 1..n /\ DOMAIN t = 1..(n - 1) /\ h = s[1]
      /\ \A i \in 1..(n - 1) : t[i] = s[i + 1]
    BY TailShape
<1>s. Len(s) = n /\ Len(t) = n - 1
    <2>1. Len(t) = n - 1
        BY HeadTailProperties
    <2> QED BY <2>1
<1> HIDE DEF t, h, n
<1>2. \A e : e \in EpochOf(h) <=> IsRequest(s[1]) /\ s[1].epoch = e
    BY <1>0 DEF EpochOf
\* The positions of the tail, as positions of the mailbox.
<1>3. \A i : i \in 1..n <=> i = 1 \/ i \in 2..n
    BY <1>0
<1>4. \A i \in 2..n : i - 1 \in 1..(n - 1) /\ t[i - 1] = s[i]
    BY <1>0
<1>5. \A j \in 1..(n - 1) : j + 1 \in 2..n /\ t[j] = s[j + 1]
    BY <1>0
<1>6. \A e : e \in Epochs(t) <=> \E i \in 2..n : IsRequest(s[i]) /\ s[i].epoch = e
    BY <1>0, <1>4, <1>5, InEpochs
<1>7. Epochs(s) = Epochs(t) \cup EpochOf(h)
    <2>1. \A e : e \in Epochs(s) <=> \E i \in 1..n : IsRequest(s[i]) /\ s[i].epoch = e
        BY <1>0, InEpochs
    <2> QED BY <1>2, <1>3, <1>6, <2>1
<1>8. Ends(t) <=> \E i \in 2..n : EndsSession(s[i])
    BY <1>0, <1>4, <1>5 DEF Ends
<1>9. Ends(s) <=> Ends(t) \/ EndsSession(h)
    BY <1>0, <1>3, <1>8 DEF Ends
<1>10. \A e : e \in FrontOf(t) <=> \E i \in 2..n :
                 /\ IsRequest(s[i]) /\ s[i].epoch = e
                 /\ \A k \in 2..i : ~EndsSession(s[k])
    <2>1. ASSUME NEW e, NEW j \in 1..(n - 1), IsRequest(t[j]), t[j].epoch = e,
                 \A k \in 1..j : ~EndsSession(t[k])
          PROVE  \E i \in 2..n : /\ IsRequest(s[i]) /\ s[i].epoch = e
                                 /\ \A k \in 2..i : ~EndsSession(s[k])
        <3>1. \A k \in 2..(j + 1) : k - 1 \in 1..j /\ s[k] = t[k - 1]
            BY <1>0, <1>4
        <3>2. \A k \in 2..(j + 1) : ~EndsSession(s[k])
            BY <2>1, <3>1
        <3> QED BY <1>5, <2>1, <3>2
    <2>2. ASSUME NEW e, NEW i \in 2..n, IsRequest(s[i]), s[i].epoch = e,
                 \A k \in 2..i : ~EndsSession(s[k])
          PROVE  \E j \in 1..(n - 1) : /\ IsRequest(t[j]) /\ t[j].epoch = e
                                       /\ \A k \in 1..j : ~EndsSession(t[k])
        <3>1. \A k \in 1..(i - 1) : k + 1 \in 2..i /\ t[k] = s[k + 1]
            BY <1>0, <1>5
        <3>2. \A k \in 1..(i - 1) : ~EndsSession(t[k])
            BY <2>2, <3>1
        <3> QED BY <1>4, <2>2, <3>2
    <2>3. \A e : e \in FrontOf(t) <=> \E j \in 1..(n - 1) :
                    /\ IsRequest(t[j]) /\ t[j].epoch = e
                    /\ \A k \in 1..j : ~EndsSession(t[k])
        BY <1>0, InEpochs
    <2> QED BY <2>1, <2>2, <2>3
<1>11. FrontOf(s) = IF EndsSession(h) THEN {} ELSE FrontOf(t) \cup EpochOf(h)
    <2>1. \A e : e \in FrontOf(s) <=> \E i \in 1..n :
                    /\ IsRequest(s[i]) /\ s[i].epoch = e
                    /\ \A k \in 1..i : ~EndsSession(s[k])
        <3>1. DOMAIN s = 1..n
            BY <1>0
        <3>2. \A e : e \in FrontOf(s) <=> \E i \in DOMAIN s :
                        /\ IsRequest(s[i]) /\ s[i].epoch = e
                        /\ \A k \in 1..i : ~EndsSession(s[k])
            BY InEpochs, Zenon
        <3> QED BY <3>1, <3>2, Zenon
    <2>2. \A i \in 2..n : (\A k \in 1..i : ~EndsSession(s[k]))
                            <=> ~EndsSession(h) /\ \A k \in 2..i : ~EndsSession(s[k])
        <3>1. \A i \in 2..n : \A k : k \in 1..i <=> k = 1 \/ k \in 2..i
            BY <1>0
        <3> QED BY <1>0, <3>1
    <2>3. (\A k \in 1..1 : ~EndsSession(s[k])) <=> ~EndsSession(h)
        BY <1>0
    <2> QED BY <1>0, <1>2, <1>3, <1>10, <2>1, <2>2, <2>3
<1>12. \A e : e \in BackOf(t) <=> \E i \in 2..n :
                 /\ IsRequest(s[i]) /\ s[i].epoch = e
                 /\ \A k \in i..n : ~EndsSession(s[k])
    <2>1. ASSUME NEW e, NEW j \in 1..(n - 1), IsRequest(t[j]), t[j].epoch = e,
                 \A k \in j..(n - 1) : ~EndsSession(t[k])
          PROVE  \E i \in 2..n : /\ IsRequest(s[i]) /\ s[i].epoch = e
                                 /\ \A k \in i..n : ~EndsSession(s[k])
        <3>1. \A k \in (j + 1)..n : k - 1 \in j..(n - 1) /\ s[k] = t[k - 1]
            BY <1>0, <1>4
        <3>2. \A k \in (j + 1)..n : ~EndsSession(s[k])
            BY <2>1, <3>1
        <3> QED BY <1>5, <2>1, <3>2
    <2>2. ASSUME NEW e, NEW i \in 2..n, IsRequest(s[i]), s[i].epoch = e,
                 \A k \in i..n : ~EndsSession(s[k])
          PROVE  \E j \in 1..(n - 1) : /\ IsRequest(t[j]) /\ t[j].epoch = e
                                       /\ \A k \in j..(n - 1) : ~EndsSession(t[k])
        <3>1. \A k \in (i - 1)..(n - 1) : k + 1 \in i..n /\ t[k] = s[k + 1]
            BY <1>0, <1>5
        <3>2. \A k \in (i - 1)..(n - 1) : ~EndsSession(t[k])
            BY <2>2, <3>1
        <3> QED BY <1>4, <2>2, <3>2
    <2>3. \A e : e \in BackOf(t) <=> \E j \in 1..(n - 1) :
                    /\ IsRequest(t[j]) /\ t[j].epoch = e
                    /\ \A k \in j..(n - 1) : ~EndsSession(t[k])
        <3>1. DOMAIN t = 1..(n - 1) /\ Len(t) = n - 1
            BY <1>0, <1>s
        <3>2. \A e : e \in BackOf(t) <=> \E j \in DOMAIN t :
                        /\ IsRequest(t[j]) /\ t[j].epoch = e
                        /\ \A k \in j..Len(t) : ~EndsSession(t[k])
            BY InEpochs, Zenon
        <3> QED BY <3>1, <3>2
    <2> QED BY <2>1, <2>2, <2>3
<1>13. BackOf(s) = IF Ends(t) THEN BackOf(t) ELSE BackOf(t) \cup EpochOf(h)
    <2>1. \A e : e \in BackOf(s) <=> \E i \in 1..n :
                    /\ IsRequest(s[i]) /\ s[i].epoch = e
                    /\ \A k \in i..n : ~EndsSession(s[k])
        BY <1>0, <1>s, InEpochs
    <2>2. IsRequest(s[1]) => ((\A k \in 1..n : ~EndsSession(s[k])) <=> ~Ends(t))
        BY <1>0, <1>3, <1>8, RequestsDoNotEnd
    <2>3. \A i : i \in 1..n <=> i = 1 \/ i \in 2..n
        BY <1>0
    <2>4. \A e : e \in BackOf(s) <=> \/ /\ IsRequest(s[1]) /\ s[1].epoch = e
                                        /\ ~Ends(t)
                                     \/ e \in BackOf(t)
        BY <1>12, <2>1, <2>2, <2>3, Zenon
    <2>5. \A e : e \in EpochOf(h) <=> IsRequest(s[1]) /\ s[1].epoch = e
        BY <1>0, <1>2, <1>3
    <2>6. CASE Ends(t)
        <3>1. \A e : e \in BackOf(s) <=> e \in BackOf(t)
            BY <2>4, <2>6, Zenon
        <3>2. BackOf(s) = BackOf(t)
            BY <3>1
        <3> QED BY <2>6, <3>2, Zenon
    <2>7. CASE ~Ends(t)
        <3>1. \A e : e \in BackOf(s) <=> e \in BackOf(t) \/ e \in EpochOf(h)
            BY <2>4, <2>5, <2>7, Zenon
        <3>2. BackOf(s) = BackOf(t) \cup EpochOf(h)
            BY <3>1
        <3> QED BY <2>7, <3>2, Zenon
    <2> QED BY <2>6, <2>7
<1>14. ASSUME Apart(s) PROVE Apart(t)
    <2> SUFFICES ASSUME NEW i \in 1..(n - 1), NEW j \in 1..(n - 1), i < j, IsRequest(t[i]),
                        IsRequest(t[j]), t[i].epoch # t[j].epoch
                 PROVE  \E k \in i..j : EndsSession(t[k])
        BY <1>0 DEF Apart
    <2>0. /\ i + 1 \in 1..n /\ j + 1 \in 1..n /\ i + 1 < j + 1
          /\ t[i] = s[i + 1] /\ t[j] = s[j + 1]
        BY <1>0
    <2>1. PICK k \in (i + 1)..(j + 1) : EndsSession(s[k])
        BY <1>0, <1>14, <2>0 DEF Apart
    <2>2. k - 1 \in i..j /\ t[k - 1] = s[k]
        BY <1>0, <1>4
    <2> QED BY <2>1, <2>2
<1> QED BY <1>7, <1>9, <1>11, <1>13, <1>14 DEF t, h
-----------------------------------------------------------------------------
(* A step of the worker keeps its pipeline.                                *)

LEMMA HandTypes ==
    ASSUME NEW w \in Supervisor
    PROVE  /\ currentMessage[w] = None => InHand(w) = {}
           /\ currentMessage[w] \in ActMessage => InHand(w) = EpochOf(currentMessage[w])
<1>1. currentMessage[w] = None => InHand(w) = {}
    BY DEF InHand
<1>2. currentMessage[w] \in ActMessage => InHand(w) = EpochOf(currentMessage[w])
    BY ActMessages DEF InHand, EpochOf
<1> QED BY <1>1, <1>2

\* A child that loses some of what it has, or all of its mailbox.
LEMMA ChildLess ==
    ASSUME NEW w \in Supervisor, ChildApart(w), Data(w)' \subseteq Data(w),
           OpenData(w)' \subseteq OpenData(w),
           \/ actBox'[w] = actBox[w] /\ (actState'[w] = "stopped" => actState[w] = "stopped")
           \/ actBox'[w] = <<>>
    PROVE  /\ ChildApart(w)'
           /\ actBox'[w] = actBox[w] => ChildOpen(w)' \subseteq ChildOpen(w)
           /\ Data(w)' = {} /\ actBox'[w] = <<>> => ChildOpen(w)' = {}
<1>1. \A e, f \in Data(w)' : e = f
    BY DEF ChildApart
<1>2. CASE /\ actBox'[w] = actBox[w]
           /\ (actState'[w] = "stopped" => actState[w] = "stopped")
    <2>1. ChildApart(w)'
        BY <1>1, <1>2 DEF ChildApart, Continues
    <2>2. ChildOpen(w)' \subseteq ChildOpen(w)
        BY <1>2 DEF ChildOpen
    <2>3. Data(w)' = {} /\ actBox'[w] = <<>> => ChildOpen(w)' = {}
        BY EmptyBox DEF ChildOpen, OpenData
    <2> QED BY <2>1, <2>2, <2>3
<1>3. CASE actBox'[w] = <<>>
    <2>1. ChildApart(w)'
        BY <1>1, <1>3, EmptyBox DEF ChildApart, Continues
    <2>2. actBox'[w] = actBox[w] => ChildOpen(w)' \subseteq ChildOpen(w)
        BY DEF ChildOpen
    <2>3. Data(w)' = {} /\ actBox'[w] = <<>> => ChildOpen(w)' = {}
        BY EmptyBox DEF ChildOpen, OpenData
    <2> QED BY <2>1, <2>2, <2>3
<1> QED BY <1>2, <1>3

\* A supervisor whose mailbox is the same as far as sessions go.
SameBox(s, t) == /\ FrontOf(t) = FrontOf(s) /\ BackOf(t) = BackOf(s)
                 /\ Ends(t) <=> Ends(s)
                 /\ Epochs(t) = Epochs(s)
                 /\ Apart(s) => Apart(t)

LEMMA SupSame ==
    ASSUME NEW w \in Supervisor, Pipeline(w), ChildApart(w)',
           Handed(w)' \subseteq Handed(w), SameBox(supBox[w], supBox'[w]),
           BoundEpochs(w)' = BoundEpochs(w)
    PROVE  Pipeline(w)'
<1>1. Apart(supBox'[w]) /\ Continues(Handed(w)', supBox'[w])
    BY DEF Pipeline, SameBox, Continues
<1>2. WorkerOpen(w)' \subseteq BoundEpochs(w)'
    BY DEF Pipeline, SameBox, WorkerOpen
<1> QED BY <1>1, <1>2 DEF Pipeline, Continues

LEMMA NeutralMessages ==
    ASSUME NEW S, NEW s \in Seq(S)
    PROVE  /\ SameBox(s, s)
           /\ \A m : ~IsRequest(m) /\ ~EndsSession(m) => SameBox(s, Append(s, m))
           /\ s # <<>> /\ ~IsRequest(Head(s)) /\ ~EndsSession(Head(s))
                => SameBox(s, Tail(s))
<1>1. SameBox(s, s)
    BY DEF SameBox
<1>2. ASSUME NEW m, ~IsRequest(m), ~EndsSession(m) PROVE SameBox(s, Append(s, m))
    <2>1. \A X : X \cup EpochOf(m) = X
        BY <1>2 DEF EpochOf
    <2>2. /\ Epochs(Append(s, m)) = Epochs(s) /\ BackOf(Append(s, m)) = BackOf(s)
          /\ FrontOf(Append(s, m)) = FrontOf(s)
          /\ Ends(Append(s, m)) <=> Ends(s)
          /\ Apart(s) => Apart(Append(s, m))
        BY <1>2, <2>1, BoxAppend
    <2> QED BY <2>2 DEF SameBox
<1>3. ASSUME s # <<>>, ~IsRequest(Head(s)), ~EndsSession(Head(s)) PROVE SameBox(s, Tail(s))
    <2>1. \A X : X \cup EpochOf(Head(s)) = X
        BY <1>3 DEF EpochOf
    <2>2. /\ Epochs(Tail(s)) = Epochs(s) /\ BackOf(Tail(s)) = BackOf(s)
          /\ FrontOf(Tail(s)) = FrontOf(s)
          /\ Ends(Tail(s)) <=> Ends(s)
          /\ Apart(s) => Apart(Tail(s))
        BY <1>3, <2>1, BoxTail
    <2> QED BY <2>2 DEF SameBox
<1> QED BY <1>1, <1>2, <1>3

\* A supervisor that reads the end of a session has passed it on, or is no longer up.
LEMMA SupEnds ==
    ASSUME NEW w \in Supervisor, Pipeline(w), ChildApart(w)', supBox[w] \in Seq(SupMessage),
           supBox[w] # <<>>, supBox'[w] = Tail(supBox[w]), EndsSession(Head(supBox[w])),
           Handed(w)' = {}, BoundEpochs(w)' = BoundEpochs(w)
    PROVE  Pipeline(w)'
<1>1. Apart(supBox'[w]) /\ BackOf(supBox'[w]) \subseteq BackOf(supBox[w])
    BY BoxTail DEF Pipeline
<1>2. Continues(Handed(w)', supBox'[w])
    BY DEF Continues
<1>3. WorkerOpen(w)' \subseteq BoundEpochs(w)'
    BY <1>1 DEF Pipeline, WorkerOpen
<1> QED BY <1>1, <1>2, <1>3 DEF Pipeline, Continues

LEMMA DataStays ==
    ASSUME NEW w \in Supervisor, UNCHANGED <<actPid, workspace, currentMessage>>
    PROVE  Data(w)' = Data(w) /\ OpenData(w)' = OpenData(w)
<1>1. Memory(w)' = Memory(w) /\ InHand(w)' = InHand(w)
    BY DEF Memory, InHand
<1> QED BY <1>1 DEF Data, OpenData

LEMMA DataGone ==
    ASSUME NEW w \in Supervisor, actPid'[w] = NoPid, currentMessage'[w] = None
    PROVE  Data(w)' = {} /\ OpenData(w)' = {}
<1>1. Memory(w)' = {} /\ InHand(w)' = {}
    BY DEF Memory, InHand
<1> QED BY <1>1 DEF Data, OpenData

\* A handler that hears from R leaves in R nothing but data of its own session.
LEMMA DataOfHandler ==
    ASSUME SoundInv, NEW w \in Supervisor, actState[w] \in {"download", "inR", "upload"},
           UNCHANGED actPid, Taint(w) \/ UNCHANGED workspace,
           currentMessage'[w] = None \/ currentMessage'[w] = currentMessage[w]
    PROVE  Data(w)' \subseteq Data(w) /\ OpenData(w)' \subseteq OpenData(w)
<1>1. /\ currentMessage[w] \in RRequestMessage /\ actPid[w] \in Pid
      /\ workspace \in [Pid -> SUBSET MsgId]
    BY DEF SoundInv, WorkerTypeOK, ChildSound, Unconnected
<1>2. currentMessage[w] # Kill /\ currentMessage[w].epoch \in InHand(w)
    BY <1>1, ActMessages DEF InHand
<1>3. actPid[w] # NoPid
    BY <1>1, WorkerAssumption
<1>4. Memory(w)' \subseteq Memory(w) \cup {currentMessage[w].epoch}
    BY <1>1, <1>3 DEF Taint, Memory
<1>5. InHand(w)' \subseteq InHand(w)
    BY DEF InHand
<1> QED BY <1>2, <1>4, <1>5 DEF Data, OpenData

LEMMA PipelineWorker ==
    ASSUME SoundInv, NEW w \in Supervisor, WorkerStep(w), UNCHANGED masterVars, Pipeline(w)
    PROVE  Pipeline(w)'
<1> USE DEF clientVars, routeVars, supVars, actVars, procVars, workerVars
<1> DEFINE P == Pipeline(w)'
<1>0. /\ WorkerTypeOK /\ ChildSound(w) /\ ChildApart(w)
      /\ supBox[w] \in Seq(SupMessage) /\ actBox[w] \in Seq(ActMessage)
    BY DEF SoundInv, WorkerTypeOK, Pipeline
<1>1. BoundEpochs(w)' = BoundEpochs(w)
    BY DEF BoundEpochs, masterVars
<1>2. SameBox(supBox[w], supBox[w])
    BY <1>0, NeutralMessages
\* The child has less, and the mailbox of the supervisor says the same.
<1>3. ASSUME Data(w)' \subseteq Data(w), OpenData(w)' \subseteq OpenData(w),
             UNCHANGED actBox, actState'[w] = "stopped" => actState[w] = "stopped",
             supState'[w] = "up" => supState[w] = "up", SameBox(supBox[w], supBox'[w])
      PROVE  P
    <2>1. ChildApart(w)' /\ ChildOpen(w)' \subseteq ChildOpen(w)
        BY <1>0, <1>3, ChildLess
    <2>2. Handed(w)' \subseteq Handed(w)
        BY <1>3, <2>1 DEF Handed
    <2> QED BY <1>1, <1>3, <2>1, <2>2, SupSame
<1>4. ASSUME PIdReceived(w) \/ RExceptionReceived(w) PROVE P
    <2>1. /\ UNCHANGED <<actPid, workspace, currentMessage, actBox, actState, supState>>
          /\ SupReceives(w, "PId") \/ SupReceives(w, "RException")
        BY <1>4 DEF PIdReceived, RExceptionReceived
    <2>2. /\ supBox'[w] = Tail(supBox[w]) /\ supBox[w] # <<>>
          /\ Head(supBox[w]).type \in {"PId", "RException"}
        BY <1>0, <2>1, Received
    <2>3. ~IsRequest(Head(supBox[w])) /\ ~EndsSession(Head(supBox[w]))
        BY <2>2 DEF IsRequest, EndsSession, RequestKind
    <2>4. SameBox(supBox[w], supBox'[w])
        BY <1>0, <2>2, <2>3, NeutralMessages
    <2> QED BY <1>3, <2>1, <2>4, DataStays
\* The supervisor is no longer up; nothing else has changed.
<1>5. ASSUME StopReceived(w) \/ ChildEscalates(w) PROVE P
    <2>1. supState'[w] # "up" /\ UNCHANGED <<actPid, workspace, currentMessage, actBox, actState, supBox>>
        BY <1>0, <1>5, SupFailsType DEF StopReceived, ChildEscalates, WorkerTypeOK
    <2> QED BY <1>2, <1>3, <2>1, DataStays
<1>6. ASSUME ChildReconnects(w) \/ RetryWindowEnds(w) \/ ConnectFails(w) \/ RCrashes(w) PROVE P
    <2>1. UNCHANGED <<actPid, workspace, currentMessage, actBox, supState, supBox>>
        BY <1>6 DEF ChildReconnects, RetryWindowEnds, ConnectFails, RCrashes
    <2>2. actState'[w] = "stopped" => actState[w] = "stopped"
        BY <1>0, <1>6 DEF ChildReconnects, RetryWindowEnds, ConnectFails, RCrashes, WorkerTypeOK
    <2> QED BY <1>2, <1>3, <2>1, <2>2, DataStays
<1>7. ASSUME Downloaded(w) \/ DownloadFails(w) \/ UploadEnds(w) \/ RStep(w) PROVE P
    <2>1. /\ actState[w] \in {"download", "inR", "upload"}
          /\ UNCHANGED <<actPid, actBox, supState, supBox>>
        BY <1>7 DEF Downloaded, DownloadFails, UploadEnds, RStep, REvalOk, NothingToAssign,
                    ScriptRan, REvalFails, ScriptFails
    <2>2. Taint(w) \/ UNCHANGED workspace
        BY <1>7 DEF Downloaded, DownloadFails, UploadEnds, RStep, REvalOk, NothingToAssign,
                    ScriptRan, REvalFails, ScriptFails
    <2>3. /\ currentMessage'[w] = None \/ currentMessage'[w] = currentMessage[w]
          /\ actState'[w] # "stopped"
        BY <1>0, <1>7 DEF Downloaded, DownloadFails, UploadEnds, RStep, REvalOk,
            NothingToAssign, ScriptRan, REvalFails, ScriptFails, AnswerAndIdle, WorkerTypeOK
    <2> QED BY <1>2, <1>3, <2>1, <2>2, <2>3, DataOfHandler
\* A new R process is empty, and nobody has asked it for anything.
<1>8. ASSUME Connected(w) PROVE P
    <2>1. PICK p \in FreshPid : /\ workspace' = [workspace EXCEPT ![p] = {}]
                                /\ actPid' = [actPid EXCEPT ![w] = p]
                                /\ supBox' = Tell(supBox, w, PId(p))
        BY <1>8 DEF Connected
    <2>2. /\ actState'[w] = "idle" /\ UNCHANGED <<actBox, currentMessage, supState>>
          /\ currentMessage[w] = None /\ p \in Pid
        BY <1>0, <1>8 DEF Connected, ChildSound, AtRest, WorkerTypeOK, FreshPid
    <2>3. Memory(w)' = {}
        BY <1>0, <2>1, <2>2 DEF Memory, WorkerTypeOK
    <2>4. InHand(w)' = {}
        BY <2>2 DEF InHand
    <2>5. Data(w)' = {} /\ OpenData(w)' = {}
        BY <2>3, <2>4 DEF Data, OpenData
    <2>6. supBox'[w] = Append(supBox[w], PId(p))
        BY <1>0, <2>1 DEF Tell, WorkerTypeOK
    <2>7. ~IsRequest(PId(p)) /\ ~EndsSession(PId(p))
        BY DEF IsRequest, EndsSession, RequestKind, PId
    <2>8. SameBox(supBox[w], supBox'[w])
        BY <1>0, <2>6, <2>7, NeutralMessages
    <2> QED BY <1>3, <2>2, <2>5, <2>8
<1>9. ASSUME ChildRestarts(w) PROVE P
    <2>1. /\ actPid'[w] = NoPid /\ currentMessage'[w] = None /\ UNCHANGED <<actBox, supState>>
          /\ actState'[w] = "recreating" /\ TellSenderOfFailure(w)
        BY <1>0, <1>9 DEF ChildRestarts, WorkerTypeOK
    <2>2. ~IsRequest(RException) /\ ~EndsSession(RException)
        BY DEF IsRequest, EndsSession, RequestKind, RException
    <2>3. supBox'[w] = supBox[w] \/ supBox'[w] = Append(supBox[w], RException)
        BY <1>0, <2>1 DEF TellSenderOfFailure, Tell, WorkerTypeOK
    <2>4. SameBox(supBox[w], supBox'[w])
        BY <1>0, <2>2, <2>3, NeutralMessages
    <2> QED BY <1>3, <2>1, <2>4, DataGone
<1>10. ASSUME ChildStops(w) \/ ChildGivenUp(w) PROVE P
    <2>1. StopChild(w) /\ UNCHANGED <<supBox, supState>>
        BY <1>10 DEF ChildStops, ChildGivenUp
    <2>2. /\ actBox'[w] = <<>> /\ currentMessage'[w] = None /\ actState'[w] = "stopped"
          /\ actPid'[w] = NoPid
        BY <1>0, <2>1, StopChildType
    <2>3. Data(w)' = {} /\ OpenData(w)' = {}
        BY <2>2, DataGone
    <2>4. ChildApart(w)' /\ ChildOpen(w)' = {}
        BY <1>0, <2>2, <2>3, ChildLess
    <2>5. Handed(w)' \subseteq Handed(w)
        BY <2>4 DEF Handed
    <2> QED BY <1>1, <1>2, <2>1, <2>4, <2>5, SupSame
\* When the supervisor is up again its child has nothing.
<1>11. ASSUME SupRestarted(w) PROVE P
    <2>1. /\ actState[w] = "stopped" /\ actState'[w] = "creating"
          /\ UNCHANGED <<supBox, actBox, actPid, currentMessage, workspace>>
        BY <1>0, <1>11 DEF SupRestarted, WorkerTypeOK
    <2>2. actBox[w] = <<>> /\ actPid[w] = NoPid /\ currentMessage[w] = None
        BY <1>0, <2>1 DEF ChildApart, ChildSound, AtRest, Unconnected
    <2>3. Data(w)' = {} /\ OpenData(w)' = {}
        BY <2>1, <2>2, DataGone
    <2>4. ChildApart(w)' /\ ChildOpen(w)' = {}
        BY <1>0, <2>1, <2>2, <2>3, ChildLess
    <2>5. Handed(w)' \subseteq Handed(w)
        BY <2>4 DEF Handed
    <2> QED BY <1>1, <1>2, <2>1, <2>4, <2>5, SupSame
<1>12. ASSUME SupStopped(w) PROVE P
    <2>1. /\ supBox'[w] = <<>> /\ supState'[w] = "stopped"
          /\ UNCHANGED <<actBox, actPid, currentMessage, workspace, actState>>
        BY <1>0, <1>12 DEF SupStopped, WorkerTypeOK
    <2>2. ChildApart(w)'
        BY <1>0, <2>1, DataStays, ChildLess
    <2>3. Handed(w)' = {}
        BY <2>1 DEF Handed
    <2> QED BY <2>1, <2>2, <2>3, EmptyBox DEF Pipeline, Continues, WorkerOpen
<1>13. ASSUME KillReceived(w) \/ PoisonPillReceived(w) PROVE P
    <2>1. /\ SupReceives(w, "Kill") \/ SupReceives(w, "PoisonPill")
          /\ UNCHANGED <<actBox, actPid, currentMessage, workspace, actState>>
          /\ supState'[w] # "up"
        BY <1>0, <1>13, SupFailsType DEF KillReceived, PoisonPillReceived, WorkerTypeOK
    <2>2. /\ supBox'[w] = Tail(supBox[w]) /\ supBox[w] # <<>>
          /\ Head(supBox[w]).type \in {"Kill", "PoisonPill"}
        BY <1>0, <2>1, Received
    <2>3. EndsSession(Head(supBox[w]))
        BY <2>2 DEF EndsSession
    <2>4. ChildApart(w)'
        BY <1>0, <2>1, DataStays, ChildLess
    <2>5. Handed(w)' = {}
        BY <2>1 DEF Handed
    <2> QED BY <1>0, <1>1, <2>2, <2>3, <2>4, <2>5, SupEnds
\* The end of the session is passed on to the child.
<1>14. ASSUME FinishReceived(w) PROVE P
    <2>1. /\ SupReceives(w, "FinishRSession") /\ TellChild(w, Kill)
          /\ UNCHANGED <<actPid, currentMessage, workspace, actState>>
        BY <1>14 DEF FinishReceived
    <2>2. /\ supBox'[w] = Tail(supBox[w]) /\ supBox[w] # <<>> /\ EndsSession(Head(supBox[w]))
        BY <1>0, <2>1, Received DEF EndsSession
    <2>3. CASE actState[w] = "stopped" /\ actBox'[w] = actBox[w]
        <3>1. actBox[w] = <<>> /\ actPid[w] = NoPid /\ currentMessage[w] = None
            BY <1>0, <2>3 DEF ChildApart, ChildSound, AtRest, Unconnected
        <3>2. Data(w)' = {} /\ OpenData(w)' = {}
            BY <2>1, <3>1, DataGone
        <3>3. ChildApart(w)' /\ ChildOpen(w)' = {}
            BY <1>0, <2>3, <3>1, <3>2, ChildLess
        <3>4. Handed(w)' = {}
            BY <3>3 DEF Handed
        <3> QED BY <1>0, <1>1, <2>2, <3>3, <3>4, SupEnds
    <2>4. CASE actState[w] # "stopped" /\ actBox'[w] = Append(actBox[w], Kill)
        <3>1. Data(w)' = Data(w) /\ OpenData(w)' = OpenData(w)
            BY <2>1, DataStays
        <3>2. EndsSession(Kill) /\ EpochOf(Kill) = {}
            BY DEF EndsSession, Kill, EpochOf, IsRequest, RequestKind
        <3>3. FrontOf(actBox'[w]) = FrontOf(actBox[w])
            <4>1. \A X : X \cup EpochOf(Kill) = X
                BY <3>2
            <4>2. /\ Ends(actBox[w]) => FrontOf(actBox'[w]) = FrontOf(actBox[w])
                  /\ ~Ends(actBox[w])
                       => FrontOf(actBox'[w]) = FrontOf(actBox[w]) \cup EpochOf(Kill)
                BY <1>0, <2>4, BoxAppend
            <4> QED BY <4>1, <4>2
        <3>4. Apart(actBox'[w]) /\ BackOf(actBox'[w]) = {} /\ Ends(actBox'[w])
            BY <1>0, <2>4, <3>2, BoxAppend DEF ChildApart
        <3>5. ChildApart(w)'
            BY <1>0, <2>1, <2>4, <3>1, <3>3, <3>4 DEF ChildApart, Continues
        <3>6. Handed(w)' = {}
            BY <3>4 DEF Handed, ChildOpen
        <3> QED BY <1>0, <1>1, <2>2, <3>5, <3>6, SupEnds
    <2> QED BY <1>0, <2>1, <2>3, <2>4, TellChildType, ActMessages
<1>15. ASSUME RequestReceived(w) PROVE P
    <2> DEFINE h == Head(supBox[w])
               e == h.epoch
               s == supBox[w]
               t == Tail(s)
               a == actBox[w]
    <2>1. PICK kind \in RequestKind : SupReceives(w, kind) /\ TellChild(w, h)
        BY <1>15 DEF RequestReceived
    <2>2. /\ UNCHANGED <<actPid, currentMessage, workspace, actState, supState>>
          /\ supState[w] = "up"
        BY <1>15 DEF RequestReceived, SupReceives
    <2>3. /\ supBox'[w] = t /\ s # <<>> /\ h \in RRequestMessage /\ h \in ActMessage
          /\ EpochOf(h) = {e} /\ ~EndsSession(h)
        BY <1>0, <2>1, Received, SupMessages, ActMessages, RequestsDoNotEnd DEF EpochOf
    <2>4. /\ FrontOf(s) = FrontOf(t) \cup {e} /\ (Ends(s) <=> Ends(t))
          /\ Ends(t) => BackOf(s) = BackOf(t)
          /\ ~Ends(t) => BackOf(s) = BackOf(t) \cup {e}
          /\ Apart(t)
        BY <1>0, <2>3, BoxTail DEF Pipeline
    <2>5. Data(w)' = Data(w) /\ OpenData(w)' = OpenData(w)
        BY <2>2, DataStays
    <2>6. \A f \in ChildOpen(w) : f = e
        BY <2>2, <2>4 DEF Pipeline, Handed, Continues
    <2>7. \A f \in FrontOf(s) : f = e
        <3>1. Apart(s)
            BY <1>0 DEF Pipeline
        <3>2. \A e1, e2 \in FrontOf(s) : e1 = e2
            BY <1>0, <3>1, FrontAndBack
        <3>3. e \in FrontOf(s)
            BY <2>4
        <3> QED BY <3>2, <3>3, Zenon
    <2> HIDE DEF h, e, s, t, a
    <2>8. ASSUME ChildApart(w)', ChildOpen(w)' \subseteq ChildOpen(w) \cup {e} PROVE P
        <3>1. Continues(Handed(w)', supBox'[w])
            BY <2>2, <2>3, <2>4, <2>6, <2>7, <2>8 DEF Continues, Handed
        <3>2. BackOf(s) \subseteq BoundEpochs(w) /\ (~Ends(s) => ChildOpen(w) \subseteq BoundEpochs(w))
            BY <2>2 DEF Pipeline, WorkerOpen, Handed, s
        <3>3. WorkerOpen(w)' \subseteq BoundEpochs(w)
            BY <2>2, <2>3, <2>4, <2>8, <3>2 DEF WorkerOpen, Handed
        <3> QED BY <1>1, <2>3, <2>4, <2>8, <3>1, <3>3 DEF Pipeline, Continues
    <2>9. CASE actState[w] = "stopped" /\ actBox'[w] = actBox[w]
        <3>1. ChildApart(w)' /\ ChildOpen(w)' \subseteq ChildOpen(w)
            BY <1>0, <2>2, <2>5, <2>9, ChildLess
        <3> QED BY <2>8, <3>1
    <2>10. CASE actState[w] # "stopped" /\ actBox'[w] = Append(actBox[w], h)
        <3>1. /\ Ends(a) => FrontOf(actBox'[w]) = FrontOf(a)
              /\ ~Ends(a) => FrontOf(actBox'[w]) = FrontOf(a) \cup {e}
            BY <1>0, <2>3, <2>10, BoxAppend DEF a
        <3>2. BackOf(actBox'[w]) = BackOf(a) \cup {e} /\ (Ends(actBox'[w]) <=> Ends(a))
            BY <1>0, <2>3, <2>10, BoxAppend DEF a
        <3>3. \A f \in BackOf(a) : f = e
            BY <2>6 DEF ChildOpen, a
        <3>4. Apart(actBox'[w])
            BY <1>0, <2>3, <2>10, <3>3, BoxAppend DEF ChildApart, a
        <3>5. Continues(OpenData(w)', actBox'[w])
            BY <1>0, <2>5, <2>6, <3>1 DEF ChildApart, ChildOpen, Continues, a
        <3>6. ChildApart(w)'
            BY <1>0, <2>2, <2>5, <2>10, <3>4, <3>5 DEF ChildApart, Continues
        <3>7. ChildOpen(w)' \subseteq ChildOpen(w) \cup {e}
            BY <2>5, <3>2 DEF ChildOpen, a
        <3> QED BY <2>8, <3>6, <3>7
    <2> QED BY <1>0, <2>1, <2>3, <2>9, <2>10, TellChildType
<1>16. ASSUME ActorReceives(w) PROVE P
    <2> DEFINE h == Head(actBox[w])
               a == actBox[w]
               t == Tail(a)
    <2>1. /\ a # <<>> /\ actBox'[w] = t /\ currentMessage'[w] = h /\ actState[w] = "idle"
          /\ UNCHANGED <<supBox, supState, actPid, workspace>>
        BY <1>0, <1>16 DEF ActorReceives, WorkerTypeOK
    <2>2. h \in ActMessage /\ currentMessage[w] = None /\ actState'[w] # "stopped"
        <3>1. h \in ActMessage
            BY <1>0, <2>1, HeadTailProperties
        <3>2. currentMessage[w] = None
            BY <1>0, <2>1 DEF ChildSound, AtRest
        <3>3. actState'[w] \in FirstState(h)
            BY <1>0, <1>16 DEF ActorReceives, WorkerTypeOK
        <3>4. h.type \in RequestKind \cup {"Kill"}
            BY <3>1 DEF ActMessage, RRequestMessage, Kill
        <3>5. "stopped" \notin FirstState(h)
            BY <3>4 DEF FirstState, RequestKind
        <3> QED BY <3>1, <3>2, <3>3, <3>5
    <2>3. Memory(w)' = Memory(w) /\ Data(w) = Memory(w) /\ OpenData(w) = Memory(w)
        <3>1. Memory(w)' = Memory(w)
            BY <2>1 DEF Memory
        <3>2. InHand(w) = {} /\ currentMessage[w] # Kill
            BY <2>2, HandTypes, ActMessages
        <3> QED BY <3>1, <3>2 DEF Data, OpenData
    <2>4. Data(w)' = Data(w) \cup EpochOf(h)
        <3>1. InHand(w)' = EpochOf(h)
            BY <2>1, <2>2, ActMessages DEF InHand, EpochOf
        <3> QED BY <2>3, <3>1 DEF Data
    <2>5. /\ Ends(a) <=> Ends(t) \/ EndsSession(h)
          /\ EndsSession(h) => FrontOf(a) = {}
          /\ ~EndsSession(h) => FrontOf(a) = FrontOf(t) \cup EpochOf(h)
          /\ Ends(t) => BackOf(a) = BackOf(t)
          /\ ~Ends(t) => BackOf(a) = BackOf(t) \cup EpochOf(h)
          /\ Apart(t)
        BY <1>0, <2>1, BoxTail DEF ChildApart
    <2>6. \A f, g \in FrontOf(a) : f = g
        BY <1>0, FrontAndBack DEF ChildApart
    <2>7. \A f \in Data(w), g \in FrontOf(a) : f = g
        BY <1>0, <2>3 DEF ChildApart, Continues
    <2>8. ChildOpen(w) = BackOf(a) \cup IF Ends(a) THEN {} ELSE Data(w)
        BY <2>3 DEF ChildOpen
    <2>9. ChildOpen(w)' = BackOf(t) \cup IF Ends(t) THEN {} ELSE OpenData(w)'
        BY <2>1 DEF ChildOpen
    <2>10. ASSUME Continues(OpenData(w)', t), ChildOpen(w)' \subseteq ChildOpen(w),
                  \A f, g \in Data(w)' : f = g
           PROVE  P
        <3>1. ChildApart(w)'
            BY <2>1, <2>2, <2>5, <2>10 DEF ChildApart, Continues
        <3>2. Handed(w)' \subseteq Handed(w)
            BY <2>1, <2>10 DEF Handed
        <3> QED BY <1>1, <1>2, <2>1, <3>1, <3>2, SupSame
    <2>11. CASE h = Kill
        <3>1. EndsSession(h) /\ EpochOf(h) = {}
            BY <2>11 DEF EndsSession, Kill, EpochOf, IsRequest, RequestKind
        <3>2. OpenData(w)' = {}
            BY <2>1, <2>11 DEF OpenData
        <3>3. \A f, g \in Data(w)' : f = g
            BY <1>0, <2>4, <3>1 DEF ChildApart
        <3> HIDE DEF h, a, t
        <3>4. Continues(OpenData(w)', t)
            BY <3>2 DEF Continues
        <3>5. ChildOpen(w)' \subseteq ChildOpen(w)
            BY <2>5, <2>8, <2>9, <3>1, <3>2
        <3> QED BY <2>10, <3>3, <3>4, <3>5
    <2>12. CASE h # Kill
        <3>1. h \in RRequestMessage /\ IsRequest(h) /\ ~EndsSession(h)
            BY <2>2, <2>12, ActMessages, RequestsDoNotEnd DEF ActMessage
        <3>2. EpochOf(h) = {h.epoch}
            BY <3>1 DEF EpochOf
        <3>3. OpenData(w)' = Data(w)'
            BY <2>1, <2>12 DEF OpenData
        <3> HIDE DEF h, a, t
        <3>4. h.epoch \in FrontOf(a)
            BY <2>5, <3>1, <3>2
        <3>5. \A f \in Data(w)' : f = h.epoch
            BY <2>4, <2>7, <3>2, <3>4
        <3>6. Continues(OpenData(w)', t)
            BY <2>5, <2>6, <3>1, <3>3, <3>4, <3>5 DEF Continues
        <3>7. ChildOpen(w)' \subseteq ChildOpen(w)
            BY <2>4, <2>5, <2>8, <2>9, <3>1, <3>3
        <3> QED BY <2>10, <3>5, <3>6, <3>7
    <2> QED BY <2>11, <2>12
<1> HIDE DEF P
<1>17. P
    BY <1>4, <1>5, <1>6, <1>7, <1>8, <1>9, <1>10, <1>11, <1>12, <1>13, <1>14, <1>15, <1>16
       DEF WorkerStep, SupervisorStep, ActorStep, ConnectStep, EnvironmentStep
<1> QED BY <1>17 DEF P

\* The processes of two workers are different ones, so that a step of one leaves
\* the pipeline of the other alone.
LEMMA OtherWorkers ==
    ASSUME SoundInv, OwnPids, NEW w \in Supervisor, WorkerStep(w)
    PROVE  /\ OwnPids'
           /\ \A v \in Supervisor : v # w => Memory(v)' = Memory(v)
<1> USE DEF supVars, actVars, workerVars
<1>0. WorkerTypeOK /\ \A v \in Supervisor : v # w => Frame(v)
    BY WorkerFrame DEF SoundInv
<1>1. CASE Connected(w)
    <2>1. PICK p \in FreshPid : /\ workspace' = [workspace EXCEPT ![p] = {}]
                                /\ actPid' = [actPid EXCEPT ![w] = p]
        BY <1>1 DEF Connected
    <2>2. p \in Pid /\ \A v \in Supervisor : actPid[v] # p
        BY <2>1 DEF FreshPid, KnownPids
    <2>3. actPid'[w] = p /\ \A v \in Supervisor : v # w => actPid'[v] = actPid[v]
        BY <1>0, <2>1 DEF WorkerTypeOK
    <2>4. OwnPids'
        BY <2>2, <2>3 DEF OwnPids
    <2>5. \A v \in Supervisor : v # w => Memory(v)' = Memory(v)
        BY <1>0, <2>1, <2>2, <2>3 DEF Memory, WorkerTypeOK
    <2> QED BY <2>4, <2>5
<1>2. CASE ~Connected(w)
    <2>1. actPid'[w] \in {actPid[w], NoPid}
        <3>1. CASE ChildStops(w) \/ ChildGivenUp(w) \/ ChildRestarts(w)
            BY <1>0, <3>1, StopChildType DEF ChildStops, ChildGivenUp, ChildRestarts, WorkerTypeOK
        <3>2. CASE ~(ChildStops(w) \/ ChildGivenUp(w) \/ ChildRestarts(w))
            BY <1>2, <3>2 DEF WorkerStep, SupervisorStep, ActorStep, RStep, ConnectStep,
               EnvironmentStep, PIdReceived, FinishReceived, RExceptionReceived,
               RequestReceived, KillReceived, PoisonPillReceived, StopReceived,
               SupRestarted, SupStopped, ChildReconnects, ChildEscalates, ActorReceives,
               Downloaded, DownloadFails, UploadEnds, REvalOk, NothingToAssign, ScriptRan,
               REvalFails, ScriptFails, ConnectFails, RCrashes, RetryWindowEnds
        <3> QED BY <3>1, <3>2
    <2>2. OwnPids'
        BY <1>0, <2>1 DEF OwnPids, Frame
    <2>3. \/ UNCHANGED workspace
          \/ Taint(w) /\ actPid[w] \in alive
        BY <1>2 DEF WorkerStep, SupervisorStep, ActorStep, RStep, ConnectStep,
           EnvironmentStep, PIdReceived, FinishReceived, RExceptionReceived,
           RequestReceived, KillReceived, PoisonPillReceived, StopReceived, ChildStops,
           SupRestarted, SupStopped, ChildRestarts, ChildReconnects, ChildGivenUp,
           ChildEscalates, ActorReceives, Downloaded, DownloadFails, UploadEnds,
           REvalOk, NothingToAssign, ScriptRan, REvalFails, ScriptFails, ConnectFails,
           RCrashes, RetryWindowEnds
    <2>4. ASSUME NEW v \in Supervisor, v # w PROVE Memory(v)' = Memory(v)
        <3>1. actPid'[v] = actPid[v] /\ (actPid[v] # NoPid => actPid[v] # actPid[w])
            BY <1>0, <2>4 DEF Frame, OwnPids
        <3> QED BY <1>0, <2>3, <3>1 DEF Taint, Memory, WorkerTypeOK
    <2> QED BY <2>2, <2>4
<1> QED BY <1>1, <1>2

LEMMA PipelineFrame ==
    ASSUME NEW v \in Supervisor, Pipeline(v), Frame(v), Memory(v)' = Memory(v),
           UNCHANGED masterVars
    PROVE  Pipeline(v)'
<1>1. InHand(v)' = InHand(v) /\ currentMessage'[v] = currentMessage[v]
    BY DEF Frame, InHand
<1>2. Data(v)' = Data(v) /\ OpenData(v)' = OpenData(v)
    BY <1>1 DEF Data, OpenData
<1>3. ChildOpen(v)' = ChildOpen(v)
    BY <1>2 DEF Frame, ChildOpen
<1>4. Handed(v)' = Handed(v)
    BY <1>3 DEF Frame, Handed
<1>5. WorkerOpen(v)' = WorkerOpen(v) /\ BoundEpochs(v)' = BoundEpochs(v)
    BY <1>4 DEF Frame, WorkerOpen, BoundEpochs, masterVars
<1>6. ChildApart(v)'
    BY <1>2 DEF Frame, Pipeline, ChildApart, Continues
<1> QED BY <1>4, <1>5, <1>6 DEF Frame, Pipeline, Continues
-----------------------------------------------------------------------------
(* A step of the master, before the first timeout, keeps all pipelines.     *)

LEMMA PipelineMaster ==
    ASSUME SoundInv, SessionsSound, OneSessionPerWorker', \A t \in timers : ~t.sleeping,
           MasterStep, timeouts' = 0, NEW v \in Supervisor, Pipeline(v)
    PROVE  Pipeline(v)'
<1> DEFINE s == supBox[v]
<1>0. /\ MasterNext /\ MasterTypeOK /\ BoundHasEpoch
      /\ supBox \in [Supervisor -> Seq(SupMessage)] /\ s \in Seq(SupMessage)
      /\ UNCHANGED <<actPid, workspace, currentMessage, actBox, actState, supState>>
    BY DEF SoundInv, WorkerTypeOK, MasterStep, workerVars, supVars, actVars
<1>1. Data(v)' = Data(v) /\ OpenData(v)' = OpenData(v)
    BY <1>0, DataStays
<1>2. ChildApart(v)' /\ ChildOpen(v)' = ChildOpen(v)
    BY <1>0, <1>1 DEF Pipeline, ChildApart, Continues, ChildOpen
<1>3. Handed(v)' = Handed(v)
    BY <1>0, <1>2 DEF Handed
<1>4. Apart(s) /\ Continues(Handed(v), s) /\ WorkerOpen(v) \subseteq BoundEpochs(v)
    BY DEF Pipeline
<1>5. Keeps(v) => BoundEpochs(v) \subseteq BoundEpochs(v)'
    <2> SUFFICES ASSUME Keeps(v), NEW u \in UUID, rWorkerSessionMap[u] = v
                 PROVE  bindEpoch[u] \in BoundEpochs(v)'
        BY DEF BoundEpochs
    <2>1. rWorkerSessionMap'[u] = v /\ bindEpoch'[u] = bindEpoch[u]
        BY DEF Keeps
    <2> QED BY <2>1 DEF BoundEpochs
<1>6. CASE ToldToEnd(v)
    <2>1. PICK m \in EndMessage : supBox'[v] = Append(s, m)
        BY <1>6 DEF ToldToEnd
    <2>2. EndsSession(m) /\ EpochOf(m) = {}
        BY MessageTypes DEF EpochOf, IsRequest
    <2>3. \A X : X \cup EpochOf(m) = X
        BY <2>2
    <2>4. FrontOf(supBox'[v]) = FrontOf(s)
        <3>1. /\ Ends(s) => FrontOf(supBox'[v]) = FrontOf(s)
              /\ ~Ends(s) => FrontOf(supBox'[v]) = FrontOf(s) \cup EpochOf(m)
            BY <1>0, <2>1, BoxAppend
        <3> QED BY <2>3, <3>1
    <2>5. Apart(supBox'[v]) /\ BackOf(supBox'[v]) = {} /\ Ends(supBox'[v])
        BY <1>0, <1>4, <2>1, <2>2, BoxAppend
    <2>6. WorkerOpen(v)' = {}
        BY <2>5 DEF WorkerOpen
    <2> QED BY <1>2, <1>3, <1>4, <2>4, <2>5, <2>6 DEF Pipeline, Continues
<1>7. CASE ToldNothing(v) /\ Keeps(v)
    <2>1. supBox'[v] = s
        BY <1>7 DEF ToldNothing
    <2>2. WorkerOpen(v)' = WorkerOpen(v)
        BY <1>3, <2>1 DEF WorkerOpen
    <2> QED BY <1>2, <1>3, <1>4, <1>5, <1>7, <2>1, <2>2 DEF Pipeline, Continues
\* What is open is the session that is bound to v, whose request this is.
<1>8. ASSUME Keeps(v), NEW m \in RRequestMessage, NEW u \in UUID,
             supBox'[v] = Append(s, m), rWorkerSessionMap'[u] = v, bindEpoch'[u] = m.epoch
      PROVE  Pipeline(v)'
    <2>1. EpochOf(m) = {m.epoch} /\ ~EndsSession(m)
        BY MessageTypes DEF EpochOf, IsRequest
    <2>2. BoundEpochs(v)' = {m.epoch}
        BY <1>8, MailboxAssumption DEF BoundEpochs, OneSessionPerWorker, BoundUUIDs, Bound
    <2>3. \A e \in WorkerOpen(v) : e = m.epoch
        BY <1>4, <1>5, <1>8, <2>2
    <2>4. /\ Ends(s) => FrontOf(supBox'[v]) = FrontOf(s)
          /\ ~Ends(s) => FrontOf(supBox'[v]) = FrontOf(s) \cup {m.epoch}
          /\ BackOf(supBox'[v]) = BackOf(s) \cup {m.epoch}
          /\ Ends(supBox'[v]) <=> Ends(s)
        BY <1>0, <1>8, <2>1, BoxAppend
    <2>5. \A e \in BackOf(s) : e = m.epoch
        BY <2>3 DEF WorkerOpen
    <2>6. Apart(supBox'[v])
        BY <1>0, <1>4, <1>8, <2>1, <2>5, BoxAppend
    <2>7. ~Ends(s) => \A e \in Handed(v) : e = m.epoch
        BY <2>3 DEF WorkerOpen
    <2>8. Continues(Handed(v)', supBox'[v])
        BY <1>3, <1>4, <2>4, <2>7 DEF Continues
    <2>9. WorkerOpen(v)' \subseteq BoundEpochs(v)'
        BY <1>3, <2>2, <2>4, <2>5, <2>7 DEF WorkerOpen
    <2> QED BY <1>2, <2>6, <2>8, <2>9 DEF Pipeline, Continues
<1> QED BY <1>0, <1>6, <1>7, <1>8, MasterDeals

LEMMA PipelineInvStep ==
    ASSUME SoundInv, PipelineInv, Next
    PROVE  PipelineInv'
<1>1. CASE MasterStep
    <2>1. MasterTypeOK /\ BoundHasEpoch /\ MasterNext /\ UNCHANGED actPid
        BY <1>1 DEF SoundInv, MasterStep, workerVars, actVars
    <2>2. NoSleeper' /\ OneSessionPerWorker'
        BY <2>1, SleeperStep, ExclusiveStep DEF PipelineInv
    <2>3. OwnPids'
        BY <2>1 DEF PipelineInv, OwnPids
    <2>4. ASSUME timeouts' = 0
          PROVE  /\ timeouts = 0 /\ SessionsSound /\ Undisturbed
                 /\ \A t \in timers : ~t.sleeping
        BY <2>1, <2>4, BeforeTimeout, CalmWithoutSleepers
           DEF PipelineInv, SoundUntilTimeout, NoSleeper
    <2>5. SoundUntilTimeout'
        BY <2>1, <2>4, SoundStep DEF SoundUntilTimeout
    <2>6. ASSUME timeouts' = 0, NEW v \in Supervisor PROVE Pipeline(v)'
        BY <1>1, <2>2, <2>4, <2>6, PipelineMaster DEF PipelineInv
    <2> QED BY <2>2, <2>3, <2>5, <2>6 DEF PipelineInv
<1>2. ASSUME NEW w \in Supervisor, WorkerStep(w), UNCHANGED masterVars PROVE PipelineInv'
    <2>1. /\ NoSleeper' /\ SoundUntilTimeout' /\ OneSessionPerWorker' /\ timeouts' = timeouts
        BY <1>2 DEF PipelineInv, NoSleeper, SoundUntilTimeout, OneSessionPerWorker,
            SessionsSound, BoundToRouter, WatchedWhileBound, TimedWhileBound,
            BoundWorkers, BoundUUIDs, Bound, masterVars
    <2>2. OwnPids' /\ \A v \in Supervisor : v # w => Memory(v)' = Memory(v)
        BY <1>2, OtherWorkers DEF PipelineInv
    <2>3. ASSUME timeouts = 0, NEW v \in Supervisor PROVE Pipeline(v)'
        <3>1. CASE v = w
            BY <1>2, <2>3, <3>1, PipelineWorker DEF PipelineInv
        <3>2. CASE v # w
            BY <1>2, <2>2, <2>3, <3>2, WorkerFrame, PipelineFrame DEF PipelineInv, SoundInv
        <3> QED BY <3>1, <3>2
    <2> QED BY <2>1, <2>2, <2>3 DEF PipelineInv
<1> QED BY <1>1, <1>2 DEF Next

LEMMA PipelineInvStutter == PipelineInv /\ UNCHANGED vars => PipelineInv'
<1> SUFFICES ASSUME PipelineInv, UNCHANGED vars PROVE PipelineInv'
    OBVIOUS
<1> USE DEF vars, workerVars, supVars, actVars
<1>1. NoSleeper' /\ SoundUntilTimeout' /\ OneSessionPerWorker' /\ OwnPids' /\ timeouts' = timeouts
    BY DEF PipelineInv, NoSleeper, SoundUntilTimeout, OneSessionPerWorker, SessionsSound,
        BoundToRouter, WatchedWhileBound, TimedWhileBound, BoundWorkers, BoundUUIDs, Bound,
        masterVars, OwnPids
<1>2. ASSUME NEW v \in Supervisor, Pipeline(v) PROVE Pipeline(v)'
    <2>1. Frame(v) /\ Memory(v)' = Memory(v)
        BY DEF Frame, Memory
    <2> QED BY <1>2, <2>1, PipelineFrame
<1> QED BY <1>1, <1>2 DEF PipelineInv

LEMMA PipelineInvInit == Init => PipelineInv
<1> SUFFICES ASSUME Init PROVE PipelineInv
    OBVIOUS
<1>1. NoSleeper /\ SoundUntilTimeout /\ OneSessionPerWorker
    BY SoundInit, ExclusiveInit DEF Init, MasterInit, NoSleeper, SoundUntilTimeout
<1>2. OwnPids
    BY DEF Init, WorkerInit, OwnPids
<1>3. ASSUME NEW w \in Supervisor PROVE Pipeline(w)
    <2>1. supBox[w] = <<>> /\ actBox[w] = <<>> /\ actPid[w] = NoPid /\ currentMessage[w] = None
        BY DEF Init, MasterInit, WorkerInit
    <2>2. Memory(w) = {} /\ InHand(w) = {}
        BY <2>1 DEF Memory, InHand
    <2>3. Data(w) = {} /\ OpenData(w) = {}
        BY <2>2 DEF Data, OpenData
    <2>4. ChildOpen(w) = {}
        BY <2>1, <2>3, EmptyBox DEF ChildOpen
    <2>5. Handed(w) = {} /\ WorkerOpen(w) = {}
        BY <2>1, <2>4, EmptyBox DEF Handed, WorkerOpen
    <2> QED BY <2>1, <2>3, <2>5, EmptyBox DEF Pipeline, ChildApart, Continues
<1> QED BY <1>1, <1>2, <1>3 DEF PipelineInv

LEMMA PipelineInvAlways == Spec => []PipelineInv
<1>1. SoundInv /\ PipelineInv /\ [Next]_vars => PipelineInv'
    BY PipelineInvStep, PipelineInvStutter
<1> QED BY <1>1, PipelineInvInit, SoundInvAlways, PTL DEF Spec

\* Until the first session timer runs out, no R process ever holds data of two
\* sessions, whatever the clients send, however R, Rserve, the children and the
\* supervisors fail and restart, and in whatever order they take their messages.
THEOREM SessionsIsolated == Spec => [](timeouts = 0 => Isolation)
<1>1. ASSUME NoOrphanR, SoundInv, PipelineInv, timeouts = 0, NEW p \in alive
      PROVE  Cardinality(workspace[p]) <= 1
    <2>1. PICK w \in created : actPid[w] = p
        BY <1>1 DEF NoOrphanR
    <2>2. w \in Supervisor /\ p \in Pid
        BY <1>1 DEF SoundInv, MasterTypeOK, WorkerTypeOK
    <2>3. Memory(w) = workspace[p]
        BY <2>1, <2>2, WorkerAssumption DEF Memory
    <2>4. \A e, f \in workspace[p] : e = f
        BY <1>1, <2>2, <2>3 DEF PipelineInv, Pipeline, ChildApart, Data
    <2>5. CASE workspace[p] = {}
        BY <2>5, FS_EmptySet
    <2>6. CASE workspace[p] # {}
        <3>1. PICK e \in workspace[p] : TRUE
            BY <2>6
        <3>2. workspace[p] = {e}
            BY <2>4, <3>1, Zenon
        <3>3. Cardinality({e}) = 1
            BY FS_Singleton, Zenon
        <3>4. 1 <= 1
            OBVIOUS
        <3> QED BY <3>2, <3>3, <3>4, Zenon
    <2> QED BY <2>5, <2>6
<1>2. NoOrphanR /\ SoundInv /\ PipelineInv => (timeouts = 0 => Isolation)
    BY <1>1 DEF Isolation
<1> QED BY <1>2, NoOrphans, SoundInvAlways, PipelineInvAlways, PTL
=============================================================================
