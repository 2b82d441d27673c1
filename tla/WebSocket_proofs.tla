-------------------------- MODULE WebSocket_proofs --------------------------
(***************************************************************************)
(* The sessions execute what the client sends in frames, for any messages  *)
(* and any size of the buffers, however the network cuts up what is sent.  *)
(*                                                                         *)
(* All that a client has sent to a session is one stream of units.  A unit *)
(* of it belongs to a message, to a frame of that message, and to a place  *)
(* in the frame; the functions K, B and X give these three.  The session   *)
(* has read the stream up to some unit a: what is left of it is in the     *)
(* buffer of WS_recv_data, on the network and with the client; what the    *)
(* session has taken of a message is what was unmasked of that message     *)
(* before a; and what was executed is the messages before that one.        *)
(* A session can only begin like that when nothing of the handshake or of  *)
(* the HTTP request before it is left; therefore what the handshake reads  *)
(* is part of the invariant, and the invariant of the HTTP server is used. *)
(***************************************************************************)
EXTENDS HttpRequests_proofs, FiniteSetTheorems

-----------------------------------------------------------------------------
(* Remainders.                                                             *)

LEMMA OneRemainder ==
    ASSUME NEW M \in Nat \ {0}, NEW p \in Int, NEW q \in Int,
           NEW r \in 0..(M - 1), NEW s \in 0..(M - 1), M * p + r = M * q + s
    PROVE  r = s
<1>1. M * (p - q) = s - r
  OBVIOUS
<1>2. CASE p = q
  BY <1>2
<1>3. CASE p > q
  <2>1. M * (p - q) >= M
    BY <1>3
  <2> QED BY <1>1, <2>1
<1>4. CASE p < q
  <2>1. M * (q - p) >= M
    BY <1>4
  <2>2. M * (q - p) = r - s
    OBVIOUS
  <2> QED BY <2>1, <2>2
<1> QED BY <1>2, <1>3, <1>4

LEMMA Remainder ==
    ASSUME NEW M \in Nat \ {0}, NEW x \in Nat
    PROVE  x % M \in 0..(M - 1) /\ x \div M \in Int /\ x = M * (x \div M) + (x % M)
  OBVIOUS

\* A remainder may be taken before something is added.
LEMMA RemainderFirst ==
    ASSUME NEW M \in Nat \ {0}, NEW d \in Nat, NEW i \in Nat
    PROVE  ((d % M) + i) % M = (d + i) % M
<1> DEFINE e == (d % M) + i
           f == d + i
<1>1. d % M \in 0..(M - 1) /\ d \div M \in Int /\ d = M * (d \div M) + (d % M)
  BY Remainder
<1>2. e \in Nat /\ f \in Nat
  BY <1>1
<1>3. e = M * (e \div M) + (e % M) /\ e % M \in 0..(M - 1) /\ e \div M \in Int
  BY <1>2, Remainder
<1>4. f = M * (f \div M) + (f % M) /\ f % M \in 0..(M - 1) /\ f \div M \in Int
  BY <1>2, Remainder
<1>5. f = M * (d \div M) + e
  BY <1>1
<1> HIDE DEF e, f
<1>6. M * (f \div M) + (f % M) = M * ((d \div M) + (e \div M)) + (e % M)
  <2>1. \A a, b \in Int : M * (a + b) = M * a + M * b
    OBVIOUS
  <2>2. M * ((d \div M) + (e \div M)) = M * (d \div M) + M * (e \div M)
    BY <1>1, <1>3, <2>1
  <2>3. M * (d \div M) \in Int /\ M * (e \div M) \in Int /\ e % M \in Int
    BY <1>1, <1>3
  <2>4. e = M * (e \div M) + (e % M) /\ f = M * (f \div M) + (f % M)
    BY <1>3, <1>4
  <2> QED BY <1>5, <2>2, <2>3, <2>4
<1>7. (d \div M) + (e \div M) \in Int
  BY <1>1, <1>3
<1>8. f % M = e % M
  BY <1>3, <1>4, <1>6, <1>7, OneRemainder
<1> QED BY <1>8 DEF e, f

-----------------------------------------------------------------------------
(* The frames of a message.                                                *)

Payload(md, m)   == IF md = "qap" THEN Header + m.n ELSE m.n
First(md, m)     == IF md = "qap" /\ m.cut > 0 THEN m.cut ELSE Payload(md, m)
HeadOf(m)        == IF m.masked THEN 3 ELSE 2
PartOf(md, m, b) == IF b = 0 THEN First(md, m) ELSE Payload(md, m) - b
SizeOf(md, m, b) == HeadOf(m) + PartOf(md, m, b)

\* Unit x of the frame of message k that begins after b units of the message.
FrameUnit(md, m, k, b, x) ==
    IF x = 1 THEN Unit("type", 0)
    ELSE IF x = 2 THEN Unit("len", [n |-> PartOf(md, m, b), masked |-> m.masked])
    ELSE IF x <= HeadOf(m) THEN Unit("key", 0)
    ELSE Unit("data", [msg |-> k, pos |-> b + (x - HeadOf(m)), n |-> m.n,
                       mask |-> IF m.masked THEN (x - HeadOf(m) - 1) % MaskLen ELSE MaskLen])

\* Unit p of message k when it is unmasked.
PlainUnit(m, k, p) ==
    Unit("data", [msg |-> k, pos |-> p, n |-> m.n, mask |-> IF m.masked THEN Plain ELSE MaskLen])

\* Where frames begin, in a message and in a stream.
Begins(md, m, b) == b = 0 \/ (b = First(md, m) /\ 0 < b /\ b < Payload(md, m))
Within(md, M, k, b, x) ==
    k \in 1..Len(M) /\ b \in Nat /\ Begins(md, M[k], b) /\ x \in 1..SizeOf(md, M[k], b)

\* The unit after unit x of a frame is in the frame, or the first of the next one.
Follows(md, m, k, b, x, k2, b2, x2) ==
    IF x < SizeOf(md, m, b) THEN k2 = k /\ b2 = b /\ x2 = x + 1
    ELSE /\ x2 = 1
         /\ IF b + PartOf(md, m, b) < Payload(md, m) THEN k2 = k /\ b2 = b + PartOf(md, m, b)
                                                     ELSE k2 = k + 1 /\ b2 = 0

\* U is all that was sent: the frames of the messages of M, one after the other.
Stream(md, M, U, K, B, X) ==
    /\ IsSeq(U) /\ IsSeq(M)
    /\ \A k \in 1..Len(M) : M[k] \in Messages
    /\ K[Len(U) + 1] = Len(M) + 1 /\ B[Len(U) + 1] = 0 /\ X[Len(U) + 1] = 1
    /\ \A i \in 1..Len(U) :
          /\ Within(md, M, K[i], B[i], X[i])
          /\ U[i] = FrameUnit(md, M[K[i]], K[i], B[i], X[i])
          /\ Follows(md, M[K[i]], K[i], B[i], X[i], K[i + 1], B[i + 1], X[i + 1])

-----------------------------------------------------------------------------
(* What the session has done, and what it has of a message.                *)

\* s is n units of message k after the first p.
Part(s, m, k, p, n) == IsSeq(s) /\ Len(s) = n /\ \A i \in 1..n : s[i] = PlainUnit(m, k, p + i)

Took(md, m, tk, sk, k, n) ==
    \/ n = 0 /\ tk = <<>> /\ sk = FALSE
    \/ /\ n \in 1..(Payload(md, m) - 1) /\ IsSeq(tk) /\ sk \in BOOLEAN
       /\ md = "text" => IF sk THEN Len(tk) = 0 /\ n >= TextBuf
                                ELSE n < TextBuf /\ Part(tk, m, k, 0, n)
       /\ md = "qap" => /\ n >= Header /\ Len(tk) = n
                        /\ tk[1].v.n = m.n /\ tk[1].v.msg = k
                        /\ sk = (m.n >= MaxIn)
                        /\ ~sk => Part(tk, m, k, 0, n)

Admits(md, m) == IF md = "qap" THEN m.n < MaxIn ELSE m.n <= TextBuf
AdmittedTo(md, M, k) == {j \in 1..k : Admits(md, M[j])}

\* dn is the messages up to k that the session admits.
Dealt(md, M, dn, k) ==
    /\ IsSeq(dn) /\ Cardinality(AdmittedTo(md, M, k)) = Len(dn)
    /\ \A i \in 1..Len(dn) :
          \E j \in 1..k : /\ Admits(md, M[j]) /\ Part(dn[i], M[j], j, 0, Payload(md, M[j]))
                          /\ Cardinality(AdmittedTo(md, M, j)) = i

-----------------------------------------------------------------------------
(* The inductive invariant.                                                *)

\* Only the last message may be too long for the frame buffer.
SmallFrom(M, md, k) == \A j \in 1..(Len(M) - 1) : j >= k => Payload(md, M[j]) + 3 <= FrameBuf

\* The next frame is read: it follows after unit a of the stream.
Between(md, M, f, t, w, tk, sk, U, K, B, X, a) ==
    /\ f.in = FALSE /\ X[a + 1] = 1
    /\ Remain(U, a, t, w, f.buf) /\ Len(f.buf) <= FrameBuf
    /\ Took(md, M[K[a + 1]], tk, sk, K[a + 1], B[a + 1])

\* A frame is delivered up to unit a of the stream, d units of its payload.  The next
\* u units have been received and unmasked, unless the message is being discarded.
Inside(md, M, f, t, w, tk, sk, U, K, B, X, a, d, u) ==
    /\ f.in = TRUE /\ IsSeq(f.buf) /\ a < Len(U) /\ f.left \in Nat /\ u \in Nat
    /\ X[a + 1] = HeadOf(M[K[a + 1]]) + d + 1 /\ d > 0
    /\ f.left = PartOf(md, M[K[a + 1]], B[a + 1]) - d
    /\ f.mask = M[K[a + 1]].masked
    /\ u <= Len(f.buf) /\ u <= f.left /\ (u = Len(f.buf) \/ u = f.left)
    /\ Remain(U, a + u, t, w, SubSeq(f.buf, u + 1, Len(f.buf))) /\ Len(f.buf) <= FrameBuf
    /\ u < f.left => SizeOf(md, M[K[a + 1]], B[a + 1]) > FrameBuf
    /\ ~sk => /\ f.phase = (d + u) % MaskLen
              /\ \A i \in 1..u : f.buf[i] = PlainUnit(M[K[a + 1]], K[a + 1], B[a + 1] + d + i)
    /\ Took(md, M[K[a + 1]], tk, sk, K[a + 1], B[a + 1] + d)

ReadTo(md, M, f, t, w, tk, sk, dn, U, K, B, X, a) ==
    /\ Stream(md, M, U, K, B, X) /\ a \in 0..Len(U)
    /\ SmallFrom(M, md, K[a + 1]) /\ Dealt(md, M, dn, K[a + 1] - 1)
    /\ \/ Between(md, M, f, t, w, tk, sk, U, K, B, X, a)
       \/ \E d, u \in Nat : Inside(md, M, f, t, w, tk, sk, U, K, B, X, a, d, u)
\* What the client cuts off a message fits the frame buffer, and is not all of it.
MessagesFit == \A m \in Messages : m.cut < Header + m.n /\ m.cut + 3 <= FrameBuf

-----------------------------------------------------------------------------
(* Numbers of units.                                                       *)

LEMMA Sizes ==
    /\ FrameBuf \in Nat /\ FrameBuf > 3 /\ TextBuf \in Nat /\ TextBuf > 0
    /\ Header \in Nat /\ Header > 1 /\ MaxIn \in Nat /\ MaxIn > 0 /\ Chunk \in Nat /\ Chunk > 0
    /\ MaskLen \in Nat /\ MaskLen > 0
  BY WebSocketAssumption

\* The numbers of a message.
Measured(md, m) ==
    /\ Payload(md, m) \in Nat /\ First(md, m) \in Nat /\ First(md, m) <= Payload(md, m)
    /\ HeadOf(m) \in Nat /\ HeadOf(m) \in 2..3 /\ m.masked \in BOOLEAN /\ m.n \in Nat
    /\ md = "qap" => Payload(md, m) = Header + m.n
    /\ md # "qap" => Payload(md, m) = m.n
    /\ First(md, m) < Payload(md, m) => First(md, m) + 3 <= FrameBuf /\ md = "qap" /\ First(md, m) > 0

LEMMA Measure == ASSUME MessagesFit, NEW m \in Messages, NEW md PROVE Measured(md, m)
<1>1. /\ m.n \in Nat /\ m.cut \in Nat /\ m.masked \in BOOLEAN
      /\ m.cut < Header + m.n /\ m.cut + 3 <= FrameBuf
  BY WebSocketAssumption DEF MessagesFit
<1>2. Payload(md, m) \in Nat /\ First(md, m) \in Nat /\ First(md, m) <= Payload(md, m)
  BY <1>1, Sizes DEF Payload, First
<1>3. HeadOf(m) \in Nat /\ HeadOf(m) \in 2..3
  BY DEF HeadOf
<1>4. First(md, m) < Payload(md, m) => First(md, m) + 3 <= FrameBuf /\ md = "qap" /\ First(md, m) > 0
  BY <1>1, <1>2 DEF First
<1>5. (md = "qap" => Payload(md, m) = Header + m.n) /\ (md # "qap" => Payload(md, m) = m.n)
  BY DEF Payload
<1> QED BY <1>1, <1>2, <1>3, <1>4, <1>5, Zenon DEF Measured

\* The numbers of a frame.
FrameIs(md, m, b) ==
    /\ PartOf(md, m, b) \in Nat /\ SizeOf(md, m, b) \in Nat
    /\ SizeOf(md, m, b) = HeadOf(m) + PartOf(md, m, b)
    /\ b + PartOf(md, m, b) <= Payload(md, m)

LEMMA FrameMeasure ==
    ASSUME NEW md, NEW m, Measured(md, m), NEW b \in Nat, Begins(md, m, b)
    PROVE  FrameIs(md, m, b)
<1>1. PartOf(md, m, b) \in Nat /\ b + PartOf(md, m, b) <= Payload(md, m)
  BY DEF Measured, Begins, PartOf
<1>2. SizeOf(md, m, b) = HeadOf(m) + PartOf(md, m, b) /\ SizeOf(md, m, b) \in Nat
  BY <1>1 DEF SizeOf, Measured
<1> QED BY <1>1, <1>2, Zenon DEF FrameIs

-----------------------------------------------------------------------------
(* Streams.                                                                *)

\* What unit i of the stream is.
UnitIs(md, M, U, K, B, X, i) ==
    /\ K[i] \in 1..Len(M) /\ M[K[i]] \in Messages /\ B[i] \in Nat /\ Begins(md, M[K[i]], B[i])
    /\ X[i] \in 1..SizeOf(md, M[K[i]], B[i])
    /\ U[i] = FrameUnit(md, M[K[i]], K[i], B[i], X[i])
    /\ Follows(md, M[K[i]], K[i], B[i], X[i], K[i + 1], B[i + 1], X[i + 1])
    /\ FrameIs(md, M[K[i]], B[i]) /\ Measured(md, M[K[i]])

LEMMA StreamUnit ==
    ASSUME MessagesFit, NEW md, NEW M, NEW U, NEW K, NEW B, NEW X, Stream(md, M, U, K, B, X),
           NEW i \in 1..Len(U)
    PROVE  UnitIs(md, M, U, K, B, X, i)
<1>1. /\ Within(md, M, K[i], B[i], X[i])
      /\ U[i] = FrameUnit(md, M[K[i]], K[i], B[i], X[i])
      /\ Follows(md, M[K[i]], K[i], B[i], X[i], K[i + 1], B[i + 1], X[i + 1])
  BY DEF Stream
<1>2. /\ K[i] \in 1..Len(M) /\ B[i] \in Nat /\ Begins(md, M[K[i]], B[i])
      /\ X[i] \in 1..SizeOf(md, M[K[i]], B[i])
  BY <1>1, Zenon DEF Within
<1>3. M[K[i]] \in Messages
  BY <1>2, Zenon DEF Stream
<1>4. Measured(md, M[K[i]])
  BY <1>3, Measure, Zenon
<1>5. FrameIs(md, M[K[i]], B[i])
  BY <1>2, <1>4, FrameMeasure, Zenon
<1> QED BY <1>1, <1>2, <1>3, <1>4, <1>5, Zenon DEF UnitIs

\* Unit j of the stream is n units further on in the frame of unit i.
Further(K, B, X, i, j, n) == K[j] = K[i] /\ B[j] = B[i] /\ X[j] = X[i] + n

LEMMA InTheFrame ==
    ASSUME MessagesFit, NEW md, NEW M, NEW U, NEW K, NEW B, NEW X, Stream(md, M, U, K, B, X),
           NEW i \in 1..Len(U), NEW n \in Nat, i + n <= Len(U) + 1,
           X[i] + n <= SizeOf(md, M[K[i]], B[i])
    PROVE  Further(K, B, X, i, i + n, n)
<1> DEFINE T == {k \in Nat : k <= n /\ ~Further(K, B, X, i, i + k, k)}
<1>1. SUFFICES ASSUME T # {} PROVE FALSE
  BY <1>1
<1>2. PICK k \in T : \A y \in T : k <= y
  <2>1. T \in SUBSET Nat
    OBVIOUS
  <2> QED BY <1>1, <2>1, LeastNat
<1>3. k \in Nat /\ k <= n /\ ~Further(K, B, X, i, i + k, k)
  BY <1>2
<1>4. UnitIs(md, M, U, K, B, X, i) /\ Len(U) \in Nat
  BY StreamUnit, SeqLen DEF Stream
<1>5. X[i] \in Nat /\ SizeOf(md, M[K[i]], B[i]) \in Nat
  BY <1>4 DEF UnitIs, FrameIs
<1>6. k # 0
  BY <1>3, <1>5 DEF Further
<1>7. k - 1 \in Nat /\ k - 1 \notin T /\ k - 1 <= n
  BY <1>2, <1>3, <1>6
<1>8. Further(K, B, X, i, i + (k - 1), k - 1)
  BY <1>7
<1> DEFINE j == i + (k - 1)
<1>9. j \in 1..Len(U) /\ j + 1 = i + k
  BY <1>3, <1>4, <1>6
<1>10. K[j] = K[i] /\ B[j] = B[i] /\ X[j] = X[i] + (k - 1)
  BY <1>8, Zenon DEF Further
<1> HIDE DEF j, T
<1>11. Follows(md, M[K[j]], K[j], B[j], X[j], K[j + 1], B[j + 1], X[j + 1])
  BY <1>9, StreamUnit, Zenon DEF UnitIs
<1>12. X[j] < SizeOf(md, M[K[j]], B[j])
  BY <1>3, <1>5, <1>6, <1>10
<1>13. K[j + 1] = K[j] /\ B[j + 1] = B[j] /\ X[j + 1] = X[j] + 1
  BY <1>11, <1>12 DEF Follows
<1>14. X[j] + 1 = X[i] + k
  <2>1. k \in Nat /\ X[i] \in Nat
    BY <1>3, <1>5
  <2>2. X[j] = X[i] + (k - 1)
    BY <1>10
  <2> QED BY <2>1, <2>2
<1> QED BY <1>3, <1>9, <1>10, <1>13, <1>14 DEF Further

\* The unit after the last one of the frame of unit i.
LEMMA NextFrame ==
    ASSUME MessagesFit, NEW md, NEW M, NEW U, NEW K, NEW B, NEW X, Stream(md, M, U, K, B, X),
           NEW i \in 1..Len(U), NEW n \in Nat, i + n <= Len(U),
           X[i] + n = SizeOf(md, M[K[i]], B[i])
    PROVE  Follows(md, M[K[i]], K[i], B[i], SizeOf(md, M[K[i]], B[i]),
                   K[i + n + 1], B[i + n + 1], X[i + n + 1])
<1> DEFINE j == i + n
<1>1. UnitIs(md, M, U, K, B, X, i) /\ Len(U) \in Nat
  BY StreamUnit, SeqLen DEF Stream
<1>2. X[i] \in Nat /\ SizeOf(md, M[K[i]], B[i]) \in Nat
  BY <1>1 DEF UnitIs, FrameIs
<1>3. j \in 1..Len(U) /\ i + n <= Len(U) + 1 /\ X[i] + n <= SizeOf(md, M[K[i]], B[i])
  BY <1>1, <1>2
<1>4. Further(K, B, X, i, i + n, n)
  BY <1>3, InTheFrame
<1>5. K[j] = K[i] /\ B[j] = B[i] /\ X[j] = SizeOf(md, M[K[i]], B[i])
  BY <1>4 DEF Further
<1>6. Follows(md, M[K[j]], K[j], B[j], X[j], K[j + 1], B[j + 1], X[j + 1])
  BY <1>3, StreamUnit, Zenon DEF UnitIs
<1> HIDE DEF j
<1>7. Follows(md, M[K[i]], K[i], B[i], SizeOf(md, M[K[i]], B[i]), K[j + 1], B[j + 1], X[j + 1])
  BY <1>5, <1>6, Zenon
<1> QED BY <1>7 DEF j

\* After a frame that does not fit the buffer there is nothing.
LEMMA LastFrame ==
    ASSUME MessagesFit, NEW md, NEW M, NEW U, NEW K, NEW B, NEW X, Stream(md, M, U, K, B, X),
           NEW i \in 1..Len(U), SmallFrom(M, md, K[i]),
           SizeOf(md, M[K[i]], B[i]) > FrameBuf
    PROVE  Len(U) <= i + (SizeOf(md, M[K[i]], B[i]) - X[i])
<1> DEFINE m == M[K[i]]
           s == SizeOf(md, m, B[i])
           n == s - X[i]
<1>1. UnitIs(md, M, U, K, B, X, i) /\ Len(U) \in Nat /\ Len(M) \in Nat
  BY StreamUnit, SeqLen DEF Stream
<1>2. /\ X[i] \in 1..s /\ Measured(md, m) /\ FrameIs(md, m, B[i]) /\ K[i] \in 1..Len(M)
      /\ B[i] \in Nat /\ Begins(md, m, B[i])
  BY <1>1 DEF UnitIs
<1>3. s \in Nat /\ s = HeadOf(m) + PartOf(md, m, B[i]) /\ PartOf(md, m, B[i]) \in Nat
  BY <1>2 DEF FrameIs
<1>4. n \in Nat /\ X[i] + n = s
  BY <1>2, <1>3
<1> DEFINE p == PartOf(md, m, B[i])
           h == HeadOf(m)
           y == Payload(md, m)
           f == First(md, m)
<1>5. /\ s > FrameBuf /\ s \in Nat /\ s = h + p /\ h \in 2..3 /\ p \in Nat /\ B[i] \in Nat
      /\ B[i] + p <= y /\ y \in Nat /\ f \in Nat /\ (f < y => f + 3 <= FrameBuf)
      /\ (B[i] = 0 => p = f) /\ (B[i] # 0 => p = y - B[i])
  <2>1. (B[i] = 0 => p = f) /\ (B[i] # 0 => p = y - B[i])
    BY DEF PartOf
  <2> QED BY <1>2, <1>3, <2>1, Zenon DEF FrameIs, Measured
<1>6. \A j \in 1..(Len(M) - 1) : j >= K[i] => Payload(md, M[j]) + 3 <= FrameBuf
  BY DEF SmallFrom
<1> HIDE DEF s, n, p, h, y, f
<1>7. K[i] = Len(M) /\ ~(B[i] + p < y)
  <2> DEFINE F == FrameBuf
  <2>0. F \in Nat /\ s > F /\ (f < y => f + 3 <= F)
    BY <1>5, Sizes
  <2> HIDE DEF F
  <2>1. p + 3 > F /\ y + 3 > F
    BY <1>5, <2>0
  <2>2. K[i] = Len(M)
    <3> SUFFICES ASSUME K[i] # Len(M) PROVE FALSE
      OBVIOUS
    <3>1. K[i] \in 1..(Len(M) - 1) /\ K[i] >= K[i]
      BY <1>1, <1>2
    <3>2. y + 3 <= FrameBuf
      BY <1>6, <3>1 DEF y, m
    <3> QED BY <1>5, <2>0, <2>1, <3>2 DEF F
  <2>3. CASE B[i] = 0
    BY <1>5, <2>0, <2>1, <2>2, <2>3
  <2>4. CASE B[i] # 0
    BY <1>5, <2>2, <2>4
  <2> QED BY <2>3, <2>4
<1> HIDE DEF m
<1>8. SUFFICES ASSUME i + n < Len(U) PROVE FALSE
  <2>1. i + (s - X[i]) \in Int
    BY <1>2, <1>3
  <2> QED BY <1>1, <1>4, <2>1 DEF m, s, n
<1>9. Follows(md, m, K[i], B[i], s, K[i + n + 1], B[i + n + 1], X[i + n + 1])
  <2>1. i + n <= Len(U) /\ X[i] + n = SizeOf(md, M[K[i]], B[i])
    BY <1>1, <1>4, <1>8 DEF s, m
  <2> QED BY <1>4, <2>1, NextFrame, Zenon DEF m, s
<1>10. K[i + n + 1] = Len(M) + 1
  <2>1. ~(s < SizeOf(md, m, B[i])) /\ ~(B[i] + PartOf(md, m, B[i]) < Payload(md, m))
    BY <1>3, <1>7 DEF p, y, s
  <2>2. K[i + n + 1] = K[i] + 1
    BY <1>9, <2>1, Zenon DEF Follows
  <2> QED BY <1>7, <2>2
<1>11. i + n + 1 \in 1..Len(U)
  BY <1>1, <1>4, <1>8
<1>12. K[i + n + 1] \in 1..Len(M)
  BY <1>11, StreamUnit, Zenon DEF UnitIs
<1> QED BY <1>1, <1>10, <1>12

-----------------------------------------------------------------------------
(* What the client sends.                                                  *)

\* q is the frame of message k that begins after b units of it.
FrameOf(md, m, k, b, q) ==
    /\ IsSeq(q) /\ Len(q) = SizeOf(md, m, b)
    /\ \A x \in 1..Len(q) : q[x] = FrameUnit(md, m, k, b, x)

LEMMA TwoUnits == ASSUME NEW u, NEW v PROVE IsSeq(<<u, v>>) /\ Len(<<u, v>>) = 2 /\ <<u, v>>[1] = u /\ <<u, v>>[2] = v
<1>1. <<u, v>> \in Seq({u, v})
  OBVIOUS
<1> QED BY <1>1 DEF IsSeq

LEMMA FrameShape ==
    ASSUME NEW md, NEW m, NEW k, NEW b \in Nat, NEW j, Measured(md, m),
           FrameIs(md, m, b), j = b + PartOf(md, m, b)
    PROVE  FrameOf(md, m, k, b, Frame(k, m, b + 1, j))
<1> DEFINE c == PartOf(md, m, b)
           n == j - (b + 1) + 1
           h == HeadOf(m)
           u == Unit("type", 0)
           v == Unit("len", [n |-> n, masked |-> m.masked])
           p == <<u, v>>
           q == IF m.masked THEN <<Unit("key", 0)>> ELSE <<>>
           D(x) == Unit("data", [msg |-> k, pos |-> b + 1 + x - 1, n |-> m.n,
                                 mask |-> IF m.masked THEN (x - 1) % MaskLen ELSE MaskLen])
           d == [x \in 1..n |-> D(x)]
           a == p \o q \o d
<1>1. c \in Nat /\ n = c /\ h \in 2..3 /\ SizeOf(md, m, b) = h + c
  BY DEF FrameIs, Measured
<1>2. IsSeq(p) /\ Len(p) = 2 /\ p[1] = u /\ p[2] = v
  BY TwoUnits
<1>3. IsSeq(q) /\ Len(q) = h - 2 /\ \A x \in 1..Len(q) : q[x] = Unit("key", 0)
  <2>1. CASE m.masked
    BY <2>1, OneUnit DEF HeadOf
  <2>2. CASE ~m.masked
    BY <2>2, EmptyLen DEF HeadOf
  <2> QED BY <2>1, <2>2
<1>4. IsSeq(d) /\ Len(d) = n /\ \A x \in 1..n : d[x] = D(x)
  <2>1. n \in Nat
    BY <1>1
  <2>2. IsSeq(d) /\ Len(d) = n
    <3>1. d \in [1..n -> {D(x) : x \in 1..n}]
      OBVIOUS
    <3> HIDE DEF D, d
    <3>2. d \in Seq({D(x) : x \in 1..n}) /\ Len(d) = n
      BY <2>1, <3>1
    <3> QED BY <3>2 DEF IsSeq
  <2> QED BY <2>2
<1>5. Frame(k, m, b + 1, j) = a
  BY DEF Frame
<1> HIDE DEF p, q, d
<1> DEFINE e == p \o q
<1>6. Glued(e, p, q)
  BY <1>2, <1>3, Glue, Zenon
<1>7. IsSeq(e) /\ Len(e) = h /\ e[1] = u /\ e[2] = v /\ \A x \in 3..h : e[x] = Unit("key", 0)
  <2>1. IsSeq(e) /\ Len(e) = h
    BY <1>1, <1>2, <1>3, <1>6 DEF Glued
  <2>2. e[1] = u /\ e[2] = v
    BY <1>2, <1>6 DEF Glued
  <2>3. ASSUME NEW x \in 3..h PROVE e[x] = Unit("key", 0)
    <3>1. x - 2 \in 1..Len(q) /\ Len(p) + (x - 2) = x
      BY <1>1, <1>2, <1>3
    <3>2. e[Len(p) + (x - 2)] = q[x - 2]
      BY <1>6, <3>1, Zenon DEF Glued
    <3> QED BY <1>3, <3>1, <3>2, Zenon
  <2> QED BY <2>1, <2>2, <2>3
<1> HIDE DEF e
<1>8. Glued(e \o d, e, d)
  BY <1>4, <1>7, Glue, Zenon
<1>9. a = e \o d
  BY DEF e
<1> HIDE DEF a
<1>10. IsSeq(a) /\ Len(a) = h + c
  BY <1>1, <1>4, <1>7, <1>8, <1>9 DEF Glued
<1>11. ASSUME NEW x \in 1..Len(a) PROVE a[x] = FrameUnit(md, m, k, b, x)
  <2>1. CASE x = 1
    <3>0. 1 \in 1..Len(e)
      <4>1. Len(e) = h /\ h \in 2..3
        BY <1>1, <1>7, Zenon
      <4> HIDE DEF h
      <4> QED BY <4>1
    <3>1. a[1] = u
      BY <1>7, <1>8, <1>9, <3>0, Zenon DEF Glued
    <3> QED BY <2>1, <3>1 DEF FrameUnit
  <2>2. CASE x = 2
    <3>0. 2 \in 1..Len(e)
      <4>1. Len(e) = h /\ h \in 2..3
        BY <1>1, <1>7, Zenon
      <4> HIDE DEF h
      <4> QED BY <4>1
    <3>1. a[2] = v
      BY <1>7, <1>8, <1>9, <3>0, Zenon DEF Glued
    <3>2. v = Unit("len", [n |-> c, masked |-> m.masked])
      BY <1>1
    <3> QED BY <2>2, <3>1, <3>2 DEF FrameUnit
  <2>3. CASE x \in 3..h
    <3>1. x \in 1..Len(e)
      BY <1>1, <1>7, <2>3
    <3>2. a[x] = e[x] /\ e[x] = Unit("key", 0)
      BY <1>7, <1>8, <1>9, <2>3, <3>1, Zenon DEF Glued
    <3>3. x # 1 /\ x # 2 /\ x <= HeadOf(m)
      BY <1>1, <2>3
    <3> QED BY <3>2, <3>3, Zenon DEF FrameUnit
  <2>4. CASE x > h
    <3>1. x - h \in 1..Len(d) /\ x - h \in 1..n /\ Len(e) + (x - h) = x
      <4>1. x \in Nat /\ x > h /\ x <= h + c /\ Len(e) = h /\ Len(d) = c
        BY <1>1, <1>4, <1>7, <1>10, <2>4
      <4> HIDE DEF n, h, c
      <4> QED BY <1>1, <4>1
    <3>2. a[Len(e) + (x - h)] = d[x - h]
      BY <1>8, <1>9, <3>1, Zenon DEF Glued
    <3>3. a[x] = D(x - h)
      BY <1>4, <3>1, <3>2, Zenon
    <3>4. b + 1 + (x - h) - 1 = b + (x - h)
      BY <1>1, <3>1
    <3>5. a[x] = Unit("data", [msg |-> k, pos |-> b + (x - h), n |-> m.n,
                               mask |-> IF m.masked THEN (x - h - 1) % MaskLen ELSE MaskLen])
      BY <3>3, <3>4, Zenon
    <3>6. x # 1 /\ x # 2 /\ ~(x <= HeadOf(m))
      BY <1>1, <2>4
    <3> QED BY <3>5, <3>6, Zenon DEF FrameUnit
  <2> QED BY <1>1, <1>10, <2>1, <2>2, <2>3, <2>4
<1>12. FrameOf(md, m, k, b, a)
  BY <1>1, <1>10, <1>11 DEF FrameOf
<1> QED BY <1>5, <1>12 DEF a, e

\* F is the frames of message k, of which there may be two.
Halves(md, m) == First(md, m) < Payload(md, m)
SecondSize(md, m) == IF Halves(md, m) THEN SizeOf(md, m, First(md, m)) ELSE 0

SentAs(md, m, k, F) ==
    /\ IsSeq(F) /\ Len(F) = SizeOf(md, m, 0) + SecondSize(md, m)
    /\ \A x \in 1..SizeOf(md, m, 0) : F[x] = FrameUnit(md, m, k, 0, x)
    /\ \A x \in 1..SecondSize(md, m) : F[SizeOf(md, m, 0) + x] = FrameUnit(md, m, k, First(md, m), x)

LEMMA FramesShape ==
    ASSUME MessagesFit, NEW m \in Messages, NEW k
    PROVE  SentAs(mode, m, k, Frames(k, m))
<1> DEFINE y == Payload(mode, m)
           f == First(mode, m)
           s == SizeOf(mode, m, 0)
           p == Frame(k, m, 1, f)
           q == Frame(k, m, f + 1, y)
<1>1. Measured(mode, m) /\ y = PayloadLen(m)
  BY Measure DEF Payload, PayloadLen
<1>2. y \in Nat /\ f \in Nat /\ f <= y
  BY <1>1 DEF Measured
<1>3. Begins(mode, m, 0) /\ FrameIs(mode, m, 0)
  BY <1>1, FrameMeasure DEF Begins
<1>4. FrameOf(mode, m, k, 0, p)
  <2>1. 0 + 1 = 1 /\ f = 0 + PartOf(mode, m, 0)
    BY <1>2 DEF PartOf
  <2> HIDE DEF f
  <2>2. FrameOf(mode, m, k, 0, Frame(k, m, 0 + 1, f))
    BY <1>1, <1>3, <2>1, FrameShape
  <2> QED BY <2>1, <2>2
<1>5. IsSeq(p) /\ Len(p) = s /\ s \in Nat /\ \A x \in 1..s : p[x] = FrameUnit(mode, m, k, 0, x)
  BY <1>3, <1>4 DEF FrameOf, FrameIs
<1>6. CASE f < y
  <2>1. mode = "qap" /\ m.cut > 0 /\ f = m.cut
    <3>1. f # y
      BY <1>2, <1>6
    <3>2. mode = "qap" /\ m.cut > 0
      BY <3>1, Zenon DEF First
    <3> QED BY <3>2 DEF First
  <2>2. Frames(k, m) = p \o q
    BY <1>1, <2>1 DEF Frames
  <2> DEFINE t == SizeOf(mode, m, f)
  <2>3. FrameOf(mode, m, k, f, q)
    <3>1. Begins(mode, m, f)
      BY <1>2, <1>6, WebSocketAssumption, <2>1 DEF Begins
    <3>2. FrameIs(mode, m, f)
      BY <1>1, <1>2, <3>1, FrameMeasure, Zenon
    <3>3. y = f + PartOf(mode, m, f)
      BY <1>2, <1>6, <2>1, WebSocketAssumption DEF PartOf
    <3> HIDE DEF f, y
    <3> QED BY <1>1, <1>2, <3>2, <3>3, FrameShape
  <2>4. IsSeq(q) /\ Len(q) = t /\ \A x \in 1..t : q[x] = FrameUnit(mode, m, k, f, x)
    BY <2>3, Zenon DEF FrameOf
  <2>5. t = SecondSize(mode, m)
    BY <1>6 DEF SecondSize, Halves
  <2> HIDE DEF p, q
  <2>6. Glued(p \o q, p, q)
    BY <1>5, <2>4, Glue, Zenon
  <2> DEFINE a == p \o q
  <2>7. a = p \o q
    OBVIOUS
  <2> HIDE DEF a
  <2>8. /\ IsSeq(a) /\ Len(a) = s + t
        /\ \A x \in 1..s : a[x] = p[x]
        /\ \A x \in 1..t : a[s + x] = q[x]
    BY <1>5, <2>4, <2>6, <2>7 DEF Glued
  <2>9. SentAs(mode, m, k, a)
    <3> HIDE DEF s, t, f
    <3>1. \A x \in 1..s : a[x] = FrameUnit(mode, m, k, 0, x)
      BY <1>5, <2>8, Zenon
    <3>2. \A x \in 1..t : a[s + x] = FrameUnit(mode, m, k, f, x)
      BY <2>4, <2>8, Zenon
    <3> QED BY <2>5, <2>8, <3>1, <3>2, Zenon DEF SentAs, s, f
  <2> QED BY <2>2, <2>7, <2>9, Zenon
<1>7. CASE ~(f < y)
  <2>1. f = y
    BY <1>2, <1>7
  <2>2. ~(mode = "qap" /\ m.cut > 0)
    BY <1>7 DEF First, MessagesFit, Payload
  <2>3. Frames(k, m) = p
    BY <1>1, <2>1, <2>2 DEF Frames
  <2>4. SecondSize(mode, m) = 0
    BY <1>7 DEF SecondSize, Halves
  <2>5. SentAs(mode, m, k, p)
    <3> HIDE DEF p
    <3>1. s + 0 = s /\ 1..0 = {}
      BY <1>5
    <3> HIDE DEF s
    <3>2. Len(p) = s + SecondSize(mode, m) /\ \A x \in 1..SecondSize(mode, m) : p[s + x] = FrameUnit(mode, m, k, f, x)
      BY <1>5, <2>4, <3>1
    <3> QED BY <1>5, <3>2, Zenon DEF SentAs, s
  <2> QED BY <2>3, <2>5, Zenon
<1> QED BY <1>6, <1>7

\* One more message is sent.
LEMMA StreamGrows ==
    ASSUME MessagesFit, NEW md, NEW M, NEW U, NEW K, NEW B, NEW X, Stream(md, M, U, K, B, X),
           NEW m \in Messages, NEW F, SentAs(md, m, Len(M) + 1, F)
    PROVE  \E K2, B2, X2 :
              /\ Stream(md, Append(M, m), U \o F, K2, B2, X2)
              /\ \A i \in 1..(Len(U) + 1) : K2[i] = K[i] /\ B2[i] = B[i] /\ X2[i] = X[i]
<1> DEFINE l  == Len(U)
           k  == Len(M) + 1
           f  == First(md, m)
           s  == SizeOf(md, m, 0)
           t  == SecondSize(md, m)
           K2 == [i \in 1..(l + s + t + 1) |-> IF i <= l THEN K[i] ELSE IF i <= l + s + t THEN k ELSE k + 1]
           B2 == [i \in 1..(l + s + t + 1) |-> IF i <= l THEN B[i] ELSE IF i <= l + s THEN 0
                                               ELSE IF i <= l + s + t THEN f ELSE 0]
           X2 == [i \in 1..(l + s + t + 1) |-> IF i <= l THEN X[i] ELSE IF i <= l + s THEN i - l
                                               ELSE IF i <= l + s + t THEN i - l - s ELSE 1]
           V  == U \o F
           N  == Append(M, m)
<1>1. /\ IsSeq(U) /\ IsSeq(M) /\ l \in Nat /\ Len(M) \in Nat
      /\ K[l + 1] = k /\ B[l + 1] = 0 /\ X[l + 1] = 1
  BY SeqLen DEF Stream
<1>2. Measured(md, m) /\ Begins(md, m, 0) /\ FrameIs(md, m, 0)
  BY Measure, FrameMeasure DEF Begins
<1>3. f \in Nat /\ s \in Nat /\ s > 1 /\ (Halves(md, m) => f > 0 /\ Begins(md, m, f))
  BY <1>2 DEF Measured, FrameIs, Halves, Begins
<1>4. Halves(md, m) => FrameIs(md, m, f)
  BY <1>2, <1>3, FrameMeasure
<1>5. t \in Nat /\ (Halves(md, m) => t = SizeOf(md, m, f) /\ t > 1) /\ (~Halves(md, m) => t = 0)
  BY <1>2, <1>4 DEF SecondSize, FrameIs, Measured
<1>6. Longer(N, M, m)
  BY <1>1, AppendSeq, Zenon
<1>7. IsSeq(N) /\ Len(N) = k /\ N[k] = m /\ \A i \in 1..Len(M) : N[i] = M[i]
  BY <1>6 DEF Longer
<1>8. Glued(V, U, F)
  BY <1>1, Glue, Zenon DEF SentAs
<1>9. /\ IsSeq(V) /\ Len(V) = l + s + t
      /\ \A i \in 1..l : V[i] = U[i]
      /\ \A i \in 1..(s + t) : V[l + i] = F[i]
  <2>1. Len(F) = s + t
    BY DEF SentAs
  <2> QED BY <1>1, <1>3, <1>5, <1>8, <2>1 DEF Glued
<1> HIDE DEF N, V
<1>10. \A i \in 1..l : K2[i] = K[i] /\ B2[i] = B[i] /\ X2[i] = X[i]
  BY <1>1, <1>3, <1>5
<1>11. \A x \in 1..s : K2[l + x] = k /\ B2[l + x] = 0 /\ X2[l + x] = x
  BY <1>1, <1>3, <1>5
<1>12. \A x \in 1..t : K2[l + s + x] = k /\ B2[l + s + x] = f /\ X2[l + s + x] = x
  BY <1>1, <1>3, <1>5
<1>13. K2[l + s + t + 1] = k + 1 /\ B2[l + s + t + 1] = 0 /\ X2[l + s + t + 1] = 1
  BY <1>1, <1>3, <1>5
<1> HIDE DEF K2, B2, X2
<1>14. \A i \in 1..(l + 1) : K2[i] = K[i] /\ B2[i] = B[i] /\ X2[i] = X[i]
  <2>1. K2[l + 1] = k /\ B2[l + 1] = 0 /\ X2[l + 1] = 1
    BY <1>3, <1>11
  <2>2. \A i \in 1..(l + 1) : i \in 1..l \/ i = l + 1
    BY <1>1
  <2> QED BY <1>1, <1>10, <2>1, <2>2, Zenon
<1> DEFINE Good(i) ==
      /\ Within(md, N, K2[i], B2[i], X2[i])
      /\ V[i] = FrameUnit(md, N[K2[i]], K2[i], B2[i], X2[i])
      /\ Follows(md, N[K2[i]], K2[i], B2[i], X2[i], K2[i + 1], B2[i + 1], X2[i + 1])
<1>15. ASSUME NEW i \in 1..l PROVE Good(i)
  <2>1. /\ Within(md, M, K[i], B[i], X[i])
        /\ U[i] = FrameUnit(md, M[K[i]], K[i], B[i], X[i])
        /\ Follows(md, M[K[i]], K[i], B[i], X[i], K[i + 1], B[i + 1], X[i + 1])
    BY DEF Stream
  <2>2. K2[i] = K[i] /\ B2[i] = B[i] /\ X2[i] = X[i] /\ V[i] = U[i]
    BY <1>9, <1>10
  <2>3. K2[i + 1] = K[i + 1] /\ B2[i + 1] = B[i + 1] /\ X2[i + 1] = X[i + 1]
    <3>1. i + 1 \in 1..(l + 1)
      BY <1>1
    <3> QED BY <1>14, <3>1, Zenon
  <2>4. N[K[i]] = M[K[i]] /\ K[i] \in 1..Len(N)
    BY <1>1, <1>7, <2>1 DEF Within
  <2>5. Within(md, N, K[i], B[i], X[i])
    BY <2>1, <2>4, Zenon DEF Within
  <2> QED BY <2>1, <2>2, <2>3, <2>4, <2>5, Zenon
<1>16. ASSUME NEW x \in 1..s PROVE Good(l + x)
  <2>1. K2[l + x] = k /\ B2[l + x] = 0 /\ X2[l + x] = x /\ N[k] = m /\ k \in 1..Len(N)
    BY <1>1, <1>7, <1>11
  <2>2. V[l + x] = FrameUnit(md, m, k, 0, x)
    <3>1. x \in 1..(s + t)
      BY <1>3, <1>5
    <3>2. F[x] = FrameUnit(md, m, k, 0, x)
      BY Zenon DEF SentAs
    <3> QED BY <1>9, <3>1, <3>2, Zenon
  <2>3. Follows(md, m, k, 0, x, K2[l + x + 1], B2[l + x + 1], X2[l + x + 1])
    <3>1. CASE x < s
      <4>1. x + 1 \in 1..s /\ l + (x + 1) = l + x + 1
        BY <1>1, <1>3, <3>1
      <4>2. K2[l + (x + 1)] = k /\ B2[l + (x + 1)] = 0 /\ X2[l + (x + 1)] = x + 1
        BY <1>11, <4>1, Zenon
      <4> QED BY <3>1, <4>1, <4>2, Zenon DEF Follows
    <3>2. CASE ~(x < s)
      <4>1. x = s /\ PartOf(md, m, 0) = f /\ 0 + f = f
        BY <1>3, <3>2 DEF PartOf
      <4>2. CASE Halves(md, m)
        <5>1. 1 \in 1..t /\ l + s + 1 = l + x + 1
          BY <1>1, <1>3, <1>5, <4>1, <4>2
        <5>2. K2[l + s + 1] = k /\ B2[l + s + 1] = f /\ X2[l + s + 1] = 1
          BY <1>12, <5>1, Zenon
        <5> QED BY <3>2, <4>1, <4>2, <5>1, <5>2, Zenon DEF Follows, Halves
      <4>3. CASE ~Halves(md, m)
        <5>1. l + s + t + 1 = l + x + 1
          BY <1>1, <1>3, <1>5, <4>1, <4>3
        <5> QED BY <1>13, <3>2, <4>1, <4>3, <5>1, Zenon DEF Follows, Halves
      <4> QED BY <4>2, <4>3
    <3> QED BY <3>1, <3>2
  <2>4. Within(md, N, k, 0, x)
    BY <1>2, <2>1, Zenon DEF Within, Begins, FrameIs
  <2> QED BY <2>1, <2>2, <2>3, <2>4, Zenon
<1>17. ASSUME NEW x \in 1..t PROVE Good(l + s + x)
  <2>0. Halves(md, m) /\ t = SizeOf(md, m, f) /\ f \in Nat /\ Begins(md, m, f) /\ FrameIs(md, m, f)
    BY <1>3, <1>4, <1>5
  <2>1. K2[l + s + x] = k /\ B2[l + s + x] = f /\ X2[l + s + x] = x /\ N[k] = m /\ k \in 1..Len(N)
    BY <1>1, <1>7, <1>12
  <2>2. V[l + s + x] = FrameUnit(md, m, k, f, x)
    <3>1. s + x \in 1..(s + t) /\ l + (s + x) = l + s + x
      BY <1>1, <1>3, <1>5
    <3>2. F[s + x] = FrameUnit(md, m, k, f, x)
      BY Zenon DEF SentAs
    <3>3. V[l + (s + x)] = F[s + x]
      BY <1>9, <3>1, Zenon
    <3> QED BY <3>1, <3>2, <3>3, Zenon
  <2>3. Follows(md, m, k, f, x, K2[l + s + x + 1], B2[l + s + x + 1], X2[l + s + x + 1])
    <3>1. CASE x < t
      <4>1. x + 1 \in 1..t /\ l + s + (x + 1) = l + s + x + 1
        BY <1>1, <1>3, <1>5, <3>1
      <4>2. K2[l + s + (x + 1)] = k /\ B2[l + s + (x + 1)] = f /\ X2[l + s + (x + 1)] = x + 1
        BY <1>12, <4>1, Zenon
      <4> QED BY <2>0, <3>1, <4>1, <4>2, Zenon DEF Follows
    <3>2. CASE ~(x < t)
      <4>1. x = t /\ l + s + t + 1 = l + s + x + 1
        BY <1>5, <3>2
      <4>2. ~(f + PartOf(md, m, f) < Payload(md, m))
        BY <1>2, <1>3, <2>0 DEF PartOf, Measured
      <4> QED BY <1>13, <2>0, <3>2, <4>1, <4>2, Zenon DEF Follows
    <3> QED BY <3>1, <3>2
  <2>4. Within(md, N, k, f, x)
    BY <2>0, <2>1, Zenon DEF Within
  <2> QED BY <2>1, <2>2, <2>3, <2>4, Zenon
<1>18. \A i \in 1..Len(V) : Good(i)
  <2> SUFFICES ASSUME NEW i \in 1..Len(V) PROVE Good(i)
    OBVIOUS
  <2>1. \/ i \in 1..l
        \/ i - l \in 1..s /\ i = l + (i - l)
        \/ i - l - s \in 1..t /\ i = l + s + (i - l - s)
    <3>1. i \in Nat /\ i > 0 /\ i <= l + s + t
      BY <1>1, <1>3, <1>5, <1>9
    <3> HIDE DEF l, s, t
    <3> QED BY <1>1, <1>3, <1>5, <3>1
  <2> HIDE DEF Good
  <2> QED BY <1>15, <1>16, <1>17, <2>1
<1>19. \A i \in 1..Len(N) : N[i] \in Messages
  <2>1. \A i \in 1..Len(N) : i \in 1..Len(M) \/ i = k
    BY <1>1, <1>7
  <2>2. \A i \in 1..Len(M) : M[i] \in Messages
    BY DEF Stream
  <2> QED BY <1>7, <2>1, <2>2, Zenon
<1>20. Stream(md, N, V, K2, B2, X2)
  <2>1. K2[Len(V) + 1] = Len(N) + 1 /\ B2[Len(V) + 1] = 0 /\ X2[Len(V) + 1] = 1
    BY <1>7, <1>9, <1>13
  <2> QED BY <1>7, <1>9, <1>18, <1>19, <2>1, Zenon DEF Stream
<1>21. Stream(md, Append(M, m), U \o F, K2, B2, X2)
  BY <1>20 DEF N, V
<1> HIDE DEF k, f, s, t
<1> HIDE DEF l, Good
<1>22. \A i \in 1..(Len(U) + 1) : K2[i] = K[i] /\ B2[i] = B[i] /\ X2[i] = X[i]
  BY <1>14 DEF l
<1> WITNESS K2, B2, X2
<1> QED BY <1>21, <1>22

-----------------------------------------------------------------------------
(* What the session does with what is delivered.                           *)

LEMMA PartsJoin ==
    ASSUME NEW m, NEW k, NEW n \in Nat, NEW g \in Nat, NEW p, Part(p, m, k, 0, n),
           NEW q, Part(q, m, k, n, g)
    PROVE  Part(p \o q, m, k, 0, n + g)
<1> DEFINE a == p \o q
<1>1. IsSeq(p) /\ Len(p) = n /\ IsSeq(q) /\ Len(q) = g
  BY DEF Part
<1>2. Glued(a, p, q)
  BY <1>1, Glue, Zenon
<1> HIDE DEF a
<1>3. IsSeq(a) /\ Len(a) = n + g
  BY <1>1, <1>2, Zenon DEF Glued
<1>4. ASSUME NEW i \in 1..(n + g) PROVE a[i] = PlainUnit(m, k, 0 + i)
  <2>1. CASE i \in 1..n
    BY <1>1, <1>2, <2>1, Zenon DEF Glued, Part
  <2>2. CASE i \notin 1..n
    <3>1. i - n \in 1..g /\ n + (i - n) = i /\ 0 + i = i
      BY <2>2
    <3>2. a[n + (i - n)] = q[i - n] /\ q[i - n] = PlainUnit(m, k, n + (i - n))
      BY <1>1, <1>2, <3>1, Zenon DEF Glued, Part
    <3> QED BY <3>1, <3>2, Zenon
  <2> QED BY <2>1, <2>2
<1>5. Part(a, m, k, 0, n + g)
  BY <1>3, <1>4, Zenon DEF Part
<1> QED BY <1>5 DEF a

\* One more message has been dealt with.
Counts(md, M, k) ==
    Cardinality(AdmittedTo(md, M, k)) = Cardinality(AdmittedTo(md, M, k - 1)) + (IF Admits(md, M[k]) THEN 1 ELSE 0)

LEMMA AdmittedCount == ASSUME NEW md, NEW M, NEW k \in Nat \ {0} PROVE Counts(md, M, k)
<1> DEFINE S == AdmittedTo(md, M, k - 1)
           T == AdmittedTo(md, M, k)
<1>1. S \subseteq 1..(k - 1)
  BY DEF AdmittedTo
<1>2. IsFiniteSet(S)
  <2>1. IsFiniteSet(1..(k - 1))
    BY FS_Interval
  <2> QED BY <1>1, <2>1, FS_Subset
<1>3. k \notin S
  BY <1>1
<1>4. T = IF Admits(md, M[k]) THEN S \cup {k} ELSE S
  <2>1. \A j \in 1..k : j \in 1..(k - 1) \/ j = k
    OBVIOUS
  <2>2. 1..(k - 1) \subseteq 1..k /\ k \in 1..k
    OBVIOUS
  <2>3. CASE Admits(md, M[k])
    BY <2>1, <2>2, <2>3, Zenon DEF AdmittedTo
  <2>4. CASE ~Admits(md, M[k])
    BY <2>1, <2>2, <2>4, Zenon DEF AdmittedTo
  <2> QED BY <2>3, <2>4
<1>5. Cardinality(S) \in Nat /\ Cardinality(S \cup {k}) = Cardinality(S) + 1
  BY <1>2, <1>3, FS_AddElement, FS_CardinalityType
<1> HIDE DEF S, T
<1>6. Cardinality(T) = Cardinality(S) + (IF Admits(md, M[k]) THEN 1 ELSE 0)
  <2>1. CASE Admits(md, M[k])
    BY <1>4, <1>5, <2>1
  <2>2. CASE ~Admits(md, M[k])
    <3>1. T = S
      BY <1>4, <2>2, Zenon
    <3> QED BY <1>5, <2>2, <3>1
  <2> QED BY <2>1, <2>2
<1> QED BY <1>6, Zenon DEF S, T, Counts

LEMMA DealtWithout ==
    ASSUME NEW md, NEW M, NEW dn, NEW k \in Nat \ {0}, Dealt(md, M, dn, k - 1), ~Admits(md, M[k])
    PROVE  Dealt(md, M, dn, k)
<1>1. Counts(md, M, k)
  BY AdmittedCount
<1>2. IsSeq(dn) /\ Cardinality(AdmittedTo(md, M, k - 1)) = Len(dn) /\ Len(dn) \in Nat
  BY SeqLen DEF Dealt
<1>3. Cardinality(AdmittedTo(md, M, k)) = Len(dn)
  BY <1>1, <1>2 DEF Counts
<1>4. 1..(k - 1) \subseteq 1..k
  OBVIOUS
<1> QED BY <1>2, <1>3, <1>4, Zenon DEF Dealt

LEMMA DealtWith ==
    ASSUME NEW md, NEW M, NEW dn, NEW k \in Nat \ {0}, Dealt(md, M, dn, k - 1), Admits(md, M[k]),
           NEW s, Part(s, M[k], k, 0, Payload(md, M[k]))
    PROVE  Dealt(md, M, Append(dn, s), k)
<1> DEFINE e == Append(dn, s)
<1>1. Counts(md, M, k)
  BY AdmittedCount
<1>2. IsSeq(dn) /\ Cardinality(AdmittedTo(md, M, k - 1)) = Len(dn) /\ Len(dn) \in Nat
  BY SeqLen DEF Dealt
<1>3. Longer(e, dn, s)
  BY <1>2, AppendSeq, Zenon
<1> HIDE DEF e
<1>4. /\ IsSeq(e) /\ Len(e) = Len(dn) + 1 /\ e[Len(dn) + 1] = s
      /\ \A i \in 1..Len(dn) : e[i] = dn[i]
  BY <1>3 DEF Longer
<1>5. Cardinality(AdmittedTo(md, M, k)) = Len(e)
  BY <1>1, <1>2, <1>4 DEF Counts
<1>6. 1..(k - 1) \subseteq 1..k /\ k \in 1..k
  OBVIOUS
<1>7. ASSUME NEW i \in 1..Len(e)
      PROVE  \E j \in 1..k : /\ Admits(md, M[j]) /\ Part(e[i], M[j], j, 0, Payload(md, M[j]))
                             /\ Cardinality(AdmittedTo(md, M, j)) = i
  <2>1. CASE i = Len(dn) + 1
    BY <1>4, <1>5, <1>6, <2>1, Zenon
  <2>2. CASE i # Len(dn) + 1
    <3>1. i \in 1..Len(dn)
      BY <1>2, <1>4, <2>2
    <3>2. e[i] = dn[i]
      BY <1>4, <3>1
    <3> QED BY <1>6, <3>1, <3>2, Zenon DEF Dealt
  <2> QED BY <2>1, <2>2
<1>8. Dealt(md, M, e, k)
  BY <1>4, <1>5, <1>7, Zenon DEF Dealt
<1> QED BY <1>8 DEF e

-----------------------------------------------------------------------------
(* What the sessions do with what they are given.                          *)

LEMMA TextSkips == ASSUME NEW s, NEW in, TakeText(s, in), skip PROVE ReadsOn(<<>>, in)
  BY DEF TakeText

LEMMA TextTooLong ==
    ASSUME NEW s, NEW in, TakeText(s, in), ~skip, in, Len(s) >= TextBuf, ~(Len(s) < TextBuf)
    PROVE  ReadsOn(<<>>, in)
  BY DEF TakeText

LEMMA TextKeeps ==
    ASSUME NEW s, NEW in, TakeText(s, in), ~skip, in, ~(Len(s) >= TextBuf), Len(s) < TextBuf
    PROVE  ReadsOn(s, FALSE)
  BY DEF TakeText

LEMMA TextExecutes ==
    ASSUME NEW s, NEW in, TakeText(s, in), ~skip, ~in
    PROVE  taken' = <<>> /\ skip' = skip /\ open' = open /\ done' = Append(done, s)
<1>1. /\ done' = Append(done, s) /\ taken' = <<>>
      /\ Answer(s, "result") \/ Answer(s, "lost")
      /\ UNCHANGED <<open, skip>>
  BY DEF TakeText
<1> QED BY <1>1

LEMMA QapBreaks ==
    ASSUME NEW s, TakeQap(s), Len(s) < Header, ~(Len(s) >= Header), ~(Len(s) >= Header + s[1].v.n)
    PROVE  SessionEnds
  BY DEF TakeQap

LEMMA QapKeeps ==
    ASSUME NEW s, TakeQap(s), ~(Len(s) < Header), Len(s) >= Header,
           Len(s) < Header + s[1].v.n, ~(Len(s) >= Header + s[1].v.n)
    PROVE  ReadsOn(s, s[1].v.n >= MaxIn)
  BY DEF TakeQap

LEMMA QapDeals ==
    ASSUME NEW s, TakeQap(s), ~(Len(s) < Header), Len(s) >= Header + s[1].v.n,
           ~(Len(s) < Header + s[1].v.n)
    PROVE  /\ taken' = <<>> /\ skip' = FALSE /\ open' = open
           /\ IF skip THEN done' = done ELSE done' = Append(done, s)
<1>1. /\ taken' = <<>> /\ skip' = FALSE
      /\ IF skip THEN Answer(s, "ERR_data_overflow") /\ UNCHANGED done
                 ELSE Answer(s, "result") /\ done' = Append(done, s)
      /\ UNCHANGED open
  BY DEF TakeQap
<1> QED BY <1>1
\* Units n+1 to n+g of message k, or as many of any kind if it is discarded.
Gives(d, m, k, n, g, sk) == IsSeq(d) /\ Len(d) = g /\ (~sk => Part(d, m, k, n, g))

\* The session after n units of message k: it has ended, reads on, or is done with it.
Delivered(k, n) ==
    \/ ~open' /\ done' = done
    \/ /\ open' = open /\ n < Payload(mode, msgs[k]) /\ Took(mode, msgs[k], taken', skip', k, n)
       /\ done' = done /\ (skip => skip')
    \/ /\ open' = open /\ n = Payload(mode, msgs[k]) /\ taken' = <<>> /\ skip' = FALSE
       /\ Dealt(mode, msgs, done', k)

\* What the session has of a message before it is given more.
Holds(md, m, tk, sk, k, n) ==
    /\ IsSeq(tk) /\ sk \in BOOLEAN
    /\ md = "text" => IF sk THEN n >= TextBuf ELSE n < TextBuf /\ Part(tk, m, k, 0, n)
    /\ md = "qap" => /\ Len(tk) = n /\ (~sk => Part(tk, m, k, 0, n))
                     /\ IF n = 0 THEN tk = <<>> /\ ~sk
                        ELSE n >= Header /\ tk[1].v.n = m.n /\ tk[1].v.msg = k /\ sk = (m.n >= MaxIn)

LEMMA TookHolds ==
    ASSUME NEW md, NEW m, NEW tk, NEW sk, NEW k, NEW n, Took(md, m, tk, sk, k, n)
    PROVE  Holds(md, m, tk, sk, k, n)
<1>1. CASE n = 0 /\ tk = <<>> /\ sk = FALSE
  <2>1. Part(<<>>, m, k, 0, 0)
    <3>1. 1..0 = {}
      OBVIOUS
    <3> QED BY <3>1, EmptyLen, Zenon DEF Part
  <2>2. 0 < TextBuf /\ IsSeq(<<>>) /\ Len(<<>>) = 0
    BY Sizes, EmptyLen
  <2> QED BY <1>1, <2>1, <2>2, Zenon DEF Holds
<1>2. CASE ~(n = 0 /\ tk = <<>> /\ sk = FALSE)
  <2>1. n \in 1..(Payload(md, m) - 1)
    BY <1>2, Zenon DEF Took
  <2>2. n # 0
    BY <2>1
  <2> QED BY <1>2, <2>2, Zenon DEF Took, Holds
<1> QED BY <1>1, <1>2

\* The text session.
LEMMA TextDelivered ==
    ASSUME MessagesFit, mode = "text", open, NEW k \in 1..Len(msgs), msgs[k] \in Messages,
           NEW n \in Nat, NEW g \in Nat, g > 0, n + g <= Payload(mode, msgs[k]),
           Took(mode, msgs[k], taken, skip, k, n), Dealt(mode, msgs, done, k - 1), Len(msgs) \in Nat,
           NEW d, Gives(d, msgs[k], k, n, g, skip), g <= Wanted,
           NEW in \in BOOLEAN, in <=> n + g < Payload(mode, msgs[k]),
           TakeText(taken \o d, in)
    PROVE  Delivered(k, n + g)
<1> DEFINE m == msgs[k]
           y == Payload(mode, m)
           s == taken \o d
<1>1. Holds(mode, m, taken, skip, k, n)
  BY TookHolds, Zenon
<1>2. /\ IsSeq(taken) /\ skip \in BOOLEAN
      /\ IF skip THEN n >= TextBuf ELSE n < TextBuf /\ Part(taken, m, k, 0, n)
  BY <1>1, Zenon DEF Holds
<1>3. y \in Nat /\ y = m.n /\ TextBuf \in Nat /\ TextBuf > 0
  BY Measure, Sizes DEF Measured
<1>4. k \in Nat \ {0}
  OBVIOUS
<1> HIDE DEF y
<1>5. CASE skip
  <2>1. taken' = <<>> /\ skip' = in /\ open' = open /\ done' = done
    BY <1>5, TextSkips, Zenon DEF ReadsOn
  <2>2. n >= TextBuf
    BY <1>2, <1>5
  <2>3. CASE in
    <3>1. n + g \in 1..(y - 1) /\ n + g >= TextBuf
      BY <1>3, <2>2, <2>3 DEF y
    <3>2. Took(mode, m, taken', skip', k, n + g)
      BY <2>1, <2>3, <3>1, EmptyLen, Zenon DEF Took, y
    <3> QED BY <2>1, <2>3, <3>1, <3>2, Zenon DEF Delivered, y
  <2>4. CASE ~in
    <3>1. n + g = y
      BY <1>3, <2>4 DEF y
    <3>2. ~Admits(mode, m)
      BY <1>3, <2>2, <3>1 DEF Admits
    <3>3. Dealt(mode, msgs, done', k)
      BY <1>4, <2>1, <3>2, DealtWithout, Zenon
    <3> QED BY <2>1, <2>4, <3>1, <3>3 DEF Delivered, y
  <2> QED BY <2>3, <2>4
<1>6. CASE ~skip
  <2>1. n < TextBuf /\ Part(taken, m, k, 0, n)
    BY <1>2, <1>6, Zenon
  <2>2. Part(s, m, k, 0, n + g)
    BY <1>6, <2>1, PartsJoin, Zenon DEF Gives
  <2>3. IsSeq(s) /\ Len(s) = n + g
    BY <2>2, Zenon DEF Part
  <2>4. n + g <= TextBuf
    <3>1. Wanted = TextBuf - Len(taken)
      BY <1>6 DEF Wanted
    <3>2. Len(taken) = n
      BY <2>1, Zenon DEF Part
    <3> QED BY <1>3, <3>1, <3>2
  <2> HIDE DEF s
  <2>5. CASE in /\ n + g >= TextBuf
    <3>1. taken' = <<>> /\ skip' = TRUE /\ open' = open /\ done' = done
      <4>1. Len(s) >= TextBuf /\ ~(Len(s) < TextBuf)
        BY <1>3, <2>3, <2>5
      <4>2. ReadsOn(<<>>, in)
        BY <1>6, <2>5, <4>1, TextTooLong, Zenon DEF s
      <4> QED BY <2>5, <4>2 DEF ReadsOn
    <3>2. n + g \in 1..(y - 1)
      BY <1>3, <2>5 DEF y
    <3>3. Took(mode, m, taken', skip', k, n + g)
      BY <2>5, <3>1, <3>2, EmptyLen, Zenon DEF Took, y
    <3> QED BY <2>5, <3>1, <3>3, Zenon DEF Delivered, y
  <2>6. CASE in /\ n + g < TextBuf
    <3>1. taken' = s /\ skip' = FALSE /\ open' = open /\ done' = done
      <4>1. Len(s) < TextBuf /\ ~(Len(s) >= TextBuf)
        BY <1>3, <2>3, <2>6
      <4>2. ReadsOn(s, FALSE)
        BY <1>6, <2>6, <4>1, TextKeeps, Zenon DEF s
      <4> QED BY <4>2 DEF ReadsOn
    <3>2. n + g \in 1..(y - 1)
      BY <1>3, <2>6 DEF y
    <3>3. Took(mode, m, taken', skip', k, n + g)
      BY <2>2, <2>3, <2>6, <3>1, <3>2, Zenon DEF Took, y
    <3> QED BY <1>6, <2>6, <3>1, <3>2, <3>3, Zenon DEF Delivered, y
  <2>7. CASE ~in
    <3>1. taken' = <<>> /\ skip' = FALSE /\ open' = open /\ done' = Append(done, s)
      BY <1>2, <1>6, <2>7, TextExecutes DEF s
    <3>2. n + g = y
      BY <1>3, <2>7 DEF y
    <3>3. Admits(mode, m)
      BY <1>3, <2>4, <3>2 DEF Admits
    <3>4. Dealt(mode, msgs, done', k)
      <4>1. Part(s, m, k, 0, Payload(mode, m))
        BY <2>2, <3>2, Zenon DEF y
      <4> QED BY <1>4, <3>1, <3>3, <4>1, DealtWith, Zenon
    <3> QED BY <3>1, <3>2, <3>4, Zenon DEF Delivered, y
  <2> QED BY <1>3, <2>5, <2>6, <2>7
<1> QED BY <1>2, <1>5, <1>6

\* The loop of Rserve_QAP1_connected.
LEMMA QapDelivered ==
    ASSUME MessagesFit, mode = "qap", open, NEW k \in 1..Len(msgs), msgs[k] \in Messages,
           NEW n \in Nat, NEW g \in Nat, g > 0, n + g <= Payload(mode, msgs[k]),
           Took(mode, msgs[k], taken, skip, k, n), Dealt(mode, msgs, done, k - 1), Len(msgs) \in Nat,
           NEW d, Gives(d, msgs[k], k, n, g, skip), g <= Wanted,
           TakeQap(taken \o d)
    PROVE  Delivered(k, n + g)
<1> DEFINE m == msgs[k]
           y == Payload(mode, m)
           s == taken \o d
<1>1. Holds(mode, m, taken, skip, k, n)
  BY TookHolds, Zenon
<1>2. /\ IsSeq(taken) /\ skip \in BOOLEAN /\ Len(taken) = n
      /\ ~skip => Part(taken, m, k, 0, n)
      /\ IF n = 0 THEN taken = <<>> /\ ~skip
         ELSE taken[1].v.n = m.n /\ taken[1].v.msg = k /\ skip = (m.n >= MaxIn)
  BY <1>1, Zenon DEF Holds
<1>3. y \in Nat /\ y = Header + m.n /\ m.n \in Nat /\ Header \in Nat /\ Header > 1 /\ MaxIn \in Nat /\ MaxIn > 0
  BY Measure, Sizes DEF Measured
<1>4. k \in Nat \ {0}
  OBVIOUS
<1> HIDE DEF y
<1>5. IsSeq(d) /\ Len(d) = g /\ (~skip => Part(d, m, k, n, g))
  BY Zenon DEF Gives
<1>6. Glued(s, taken, d)
  BY <1>2, <1>5, Glue, Zenon
<1>7. IsSeq(s) /\ Len(s) = n + g
  BY <1>2, <1>5, <1>6, Zenon DEF Glued
<1>8. ~skip => Part(s, m, k, 0, n + g)
  BY <1>2, <1>5, PartsJoin, Zenon
<1> HIDE DEF s
<1>9. s[1].v.n = m.n /\ s[1].v.msg = k
  <2>1. CASE n = 0
    <3>1. 1 \in 1..(n + g) /\ 0 + 1 = 1
      BY <2>1
    <3>2. s[1] = PlainUnit(m, k, 1)
      BY <1>2, <1>8, <2>1, <3>1 DEF Part
    <3> QED BY <3>2 DEF PlainUnit, Unit
  <2>2. CASE n # 0
    <3>1. 1 \in 1..Len(taken)
      BY <1>2, <2>2
    <3>2. s[1] = taken[1]
      BY <1>6, <3>1, Zenon DEF Glued
    <3> QED BY <1>2, <2>2, <3>2, Zenon
  <2> QED BY <2>1, <2>2
<1>10. ~skip /\ n + g >= y => m.n < MaxIn
  <2>1. CASE n = 0
    <3>1. Wanted = Header
      BY <1>2, <2>1 DEF Wanted
    <3> QED BY <1>3, <2>1, <3>1
  <2>2. CASE n # 0
    <3>1. ~skip => ~(m.n >= MaxIn)
      BY <1>2, <2>2, Zenon
    <3>2. ~(m.n >= MaxIn) => m.n < MaxIn
      BY <1>3
    <3> QED BY <3>1, <3>2
  <2> QED BY <2>1, <2>2
<1>11. skip => m.n >= MaxIn
  BY <1>2, Zenon
<1>12. CASE n + g < Header
  <2>1. ~open' /\ done' = done
    <3>1. Len(s) < Header /\ ~(Len(s) >= Header) /\ ~(Len(s) >= Header + s[1].v.n)
      BY <1>3, <1>7, <1>9, <1>12
    <3>2. SessionEnds
      BY <3>1, QapBreaks, Zenon DEF s
    <3> QED BY <3>2 DEF SessionEnds
  <2> QED BY <2>1, Zenon DEF Delivered
<1>13. CASE n + g >= Header /\ n + g < Header + m.n
  <2>1. taken' = s /\ skip' = (m.n >= MaxIn) /\ open' = open /\ done' = done
    <3>1. ReadsOn(s, s[1].v.n >= MaxIn)
      <4>1. /\ ~(Len(s) < Header) /\ Len(s) >= Header /\ Len(s) < Header + s[1].v.n
            /\ ~(Len(s) >= Header + s[1].v.n)
        BY <1>3, <1>7, <1>9, <1>13
      <4> QED BY <4>1, QapKeeps, Zenon DEF s
    <3> QED BY <1>9, <3>1, Zenon DEF ReadsOn
  <2>2. n + g \in 1..(y - 1) /\ n + g < y /\ n + g >= Header
    BY <1>3, <1>13
  <2>3. skip' \in BOOLEAN /\ (~skip' => Part(s, m, k, 0, n + g))
    <3>1. skip' \in BOOLEAN
      <4>1. (m.n >= MaxIn) \in BOOLEAN
        BY <1>3
      <4> QED BY <2>1, <4>1, Zenon
    <3>2. ~skip' => ~skip
      BY <1>11, <2>1, Zenon
    <3> QED BY <1>8, <3>1, <3>2, Zenon
  <2>4. mode # "text"
    OBVIOUS
  <2>5. Took(mode, m, taken', skip', k, n + g)
    BY <1>7, <1>9, <2>1, <2>2, <2>3, <2>4, Zenon DEF Took, y
  <2>6. skip => skip'
    BY <1>11, <2>1, Zenon
  <2> QED BY <2>1, <2>2, <2>5, <2>6, Zenon DEF Delivered, y
<1>14. CASE n + g >= Header + m.n
  <2>1. /\ taken' = <<>> /\ skip' = FALSE /\ open' = open
        /\ IF skip THEN done' = done ELSE done' = Append(done, s)
    <3>1. ~(Len(s) < Header) /\ Len(s) >= Header + s[1].v.n /\ ~(Len(s) < Header + s[1].v.n)
      BY <1>3, <1>7, <1>9, <1>14
    <3> QED BY <3>1, QapDeals, Zenon DEF s
  <2>2. n + g = y /\ n + g >= y
    BY <1>3, <1>14 DEF y
  <2>3. Dealt(mode, msgs, done', k)
    <3>1. CASE skip
      <4>1. ~Admits(mode, m)
        BY <1>3, <1>11, <3>1 DEF Admits
      <4>2. done' = done
        BY <2>1, <3>1, Zenon
      <4> QED BY <1>4, <4>1, <4>2, DealtWithout, Zenon
    <3>2. CASE ~skip
      <4>1. Admits(mode, m)
        BY <1>10, <2>2, <3>2 DEF Admits
      <4>2. Part(s, m, k, 0, Payload(mode, m))
        BY <1>8, <2>2, <3>2, Zenon DEF y
      <4>3. done' = Append(done, s)
        BY <2>1, <3>2, Zenon
      <4> QED BY <1>4, <4>1, <4>2, <4>3, DealtWith, Zenon
    <3> QED BY <3>1, <3>2
  <2> QED BY <2>1, <2>2, <2>3, Zenon DEF Delivered, y
<1> QED BY <1>3, <1>12, <1>13, <1>14

LEMMA DeliverStep ==
    ASSUME MessagesFit, Speaking, NEW k \in 1..Len(msgs), msgs[k] \in Messages,
           NEW n \in Nat, NEW g \in Nat, g > 0, n + g <= Payload(mode, msgs[k]),
           Took(mode, msgs[k], taken, skip, k, n), Dealt(mode, msgs, done, k - 1), Len(msgs) \in Nat,
           NEW d, Gives(d, msgs[k], k, n, g, skip), g <= Wanted,
           NEW in \in BOOLEAN, mode = "text" => (in <=> n + g < Payload(mode, msgs[k])),
           Deliver(d, in)
    PROVE  Delivered(k, n + g)
<1>1. d # <<>>
  BY EmptyLen DEF Gives
<1>2. IF mode = "text" THEN TakeText(taken \o d, in) ELSE TakeQap(taken \o d)
  BY <1>1, Zenon DEF Deliver
<1>3. open /\ (mode = "text" \/ mode = "qap")
  BY DEF Speaking
<1>4. CASE mode = "text"
  BY <1>2, <1>3, <1>4, TextDelivered, Zenon
<1>5. CASE mode = "qap"
  <2>1. TakeQap(taken \o d)
    BY <1>2, <1>5
  <2> QED BY <1>3, <1>5, <2>1, QapDelivered, Zenon
<1> QED BY <1>3, <1>4, <1>5

-----------------------------------------------------------------------------
(* Where the stream is read, and what comes next.                          *)

\* All units of the frame of unit i have been sent.
LEMMA FrameComplete ==
    ASSUME MessagesFit, NEW md, NEW M, NEW U, NEW K, NEW B, NEW X, Stream(md, M, U, K, B, X),
           NEW i \in 1..Len(U)
    PROVE  i + (SizeOf(md, M[K[i]], B[i]) - X[i]) <= Len(U)
<1> DEFINE s == SizeOf(md, M[K[i]], B[i])
           n == Len(U) + 1 - i
<1>1. UnitIs(md, M, U, K, B, X, i) /\ Len(U) \in Nat /\ X[Len(U) + 1] = 1
  BY StreamUnit, SeqLen DEF Stream
<1>2. X[i] \in Nat /\ X[i] > 0 /\ X[i] <= s /\ s \in Nat
  BY <1>1 DEF UnitIs, FrameIs
<1>3. n \in Nat /\ n > 0 /\ i + n = Len(U) + 1
  BY <1>1
<1> HIDE DEF s, n
<1>4. SUFFICES ASSUME X[i] + n <= s PROVE FALSE
  <2>1. X[i] + n > s => i + (s - X[i]) <= Len(U)
    BY <1>1, <1>2, <1>3
  <2>2. X[i] + n > s
    BY <1>2, <1>3, <1>4
  <2> QED BY <2>1, <2>2 DEF s
<1>5. Further(K, B, X, i, i + n, n)
  <2>1. i + n <= Len(U) + 1
    BY <1>1, <1>3
  <2> QED BY <1>3, <1>4, <2>1, InTheFrame, Zenon DEF s
<1>6. X[Len(U) + 1] = X[i] + n
  BY <1>3, <1>5 DEF Further
<1> QED BY <1>1, <1>2, <1>3, <1>6

LEMMA NothingTaken == ASSUME NEW md, NEW m, NEW k PROVE Took(md, m, <<>>, FALSE, k, 0)
  BY DEF Took

\* The session's state after the step.
Onward(U, K, B, X, a) == ReadTo(mode, msgs, fb', todo', wire', taken', skip', done', U, K, B, X, a)

\* A frame has been delivered.
LEMMA AfterFrame ==
    ASSUME MessagesFit, NEW U, NEW K, NEW B, NEW X, Stream(mode, msgs, U, K, B, X),
           NEW i \in 1..Len(U), NEW n \in Nat, X[i] + n = SizeOf(mode, msgs[K[i]], B[i]),
           SmallFrom(msgs, mode, K[i]), Dealt(mode, msgs, done, K[i] - 1),
           Delivered(K[i], B[i] + PartOf(mode, msgs[K[i]], B[i])), open',
           fb'.in = FALSE, Remain(U, i + n, todo', wire', fb'.buf), Len(fb'.buf) <= FrameBuf
    PROVE  Onward(U, K, B, X, i + n)
<1> DEFINE m == msgs[K[i]]
           k == K[i]
           b == B[i]
           s == SizeOf(mode, m, b)
           p == PartOf(mode, m, b)
           y == Payload(mode, m)
           a == i + n
<1>1. UnitIs(mode, msgs, U, K, B, X, i) /\ Len(U) \in Nat
  BY StreamUnit, SeqLen DEF Stream
<1>2. /\ X[i] \in 1..s /\ s \in Nat /\ p \in Nat /\ y \in Nat /\ b \in Nat /\ b + p <= y
      /\ k \in 1..Len(msgs)
  BY <1>1 DEF UnitIs, FrameIs, Measured
<1>3. n = s - X[i] /\ X[i] \in Nat
  BY <1>2
<1>4. a <= Len(U) /\ a \in 0..Len(U)
  <2>1. i + (s - X[i]) <= Len(U)
    BY FrameComplete, Zenon
  <2>2. a <= Len(U)
    BY <1>3, <2>1
  <2> QED BY <1>1, <2>2
<1>5. Follows(mode, m, k, b, s, K[a + 1], B[a + 1], X[a + 1])
  BY <1>4, NextFrame, Zenon
<1>6. ~(s < s)
  BY <1>2
<1>7. X[a + 1] = 1 /\ IF b + p < y THEN K[a + 1] = k /\ B[a + 1] = b + p ELSE K[a + 1] = k + 1 /\ B[a + 1] = 0
  BY <1>5, <1>6, Zenon DEF Follows
<1> HIDE DEF a, s
<1>8. /\ SmallFrom(msgs, mode, K[a + 1]) /\ Dealt(mode, msgs, done', K[a + 1] - 1)
      /\ Took(mode, msgs[K[a + 1]], taken', skip', K[a + 1], B[a + 1])
  <2>1. CASE b + p < y
    <3>1. K[a + 1] = k /\ B[a + 1] = b + p
      BY <1>7, <2>1
    <3>2. b + p # y
      BY <1>2, <2>1
    <3>3. Took(mode, m, taken', skip', k, b + p) /\ done' = done
      BY <3>2, Zenon DEF Delivered
    <3> QED BY <3>1, <3>3, Zenon
  <2>2. CASE ~(b + p < y)
    <3>1. K[a + 1] = k + 1 /\ B[a + 1] = 0 /\ k + 1 - 1 = k
      BY <1>2, <1>7, <2>2
    <3>2. taken' = <<>> /\ skip' = FALSE /\ Dealt(mode, msgs, done', k)
      BY <2>2, Zenon DEF Delivered
    <3>3. SmallFrom(msgs, mode, k + 1)
      <4>1. Len(msgs) \in Nat
        BY SeqLen DEF Stream
      <4> QED BY <1>2, <4>1 DEF SmallFrom
    <3>4. Took(mode, msgs[K[a + 1]], <<>>, FALSE, K[a + 1], 0)
      BY NothingTaken
    <3>5. Took(mode, msgs[K[a + 1]], taken', skip', K[a + 1], B[a + 1])
      BY <3>1, <3>2, <3>4, Zenon
    <3>6. K[a + 1] - 1 = k
      BY <1>2, <3>1
    <3> QED BY <3>1, <3>2, <3>3, <3>5, <3>6, Zenon
  <2> QED BY <2>1, <2>2
<1>9. Between(mode, msgs, fb', todo', wire', taken', skip', U, K, B, X, a)
  BY <1>7, <1>8, Zenon DEF Between, a
<1>10. Onward(U, K, B, X, a)
  BY <1>4, <1>8, <1>9, Zenon DEF ReadTo, Onward
<1> QED BY <1>10 DEF a

\* Some of a frame has been delivered, but not all.
LEMMA MidFrame ==
    ASSUME MessagesFit, NEW U, NEW K, NEW B, NEW X, Stream(mode, msgs, U, K, B, X),
           NEW a \in Nat, a < Len(U), NEW d \in Nat, NEW u \in Nat, d > 0,
           X[a + 1] = HeadOf(msgs[K[a + 1]]) + d + 1,
           SmallFrom(msgs, mode, K[a + 1]), Dealt(mode, msgs, done, K[a + 1] - 1),
           Delivered(K[a + 1], B[a + 1] + d), open', d < PartOf(mode, msgs[K[a + 1]], B[a + 1]),
           fb'.in = TRUE, IsSeq(fb'.buf), fb'.left = PartOf(mode, msgs[K[a + 1]], B[a + 1]) - d,
           fb'.mask = msgs[K[a + 1]].masked,
           u <= Len(fb'.buf), u <= fb'.left, u = Len(fb'.buf) \/ u = fb'.left,
           Remain(U, a + u, todo', wire', SubSeq(fb'.buf, u + 1, Len(fb'.buf))),
           Len(fb'.buf) <= FrameBuf,
           u < fb'.left => SizeOf(mode, msgs[K[a + 1]], B[a + 1]) > FrameBuf,
           ~skip' => /\ fb'.phase = (d + u) % MaskLen
                     /\ \A j \in 1..u : fb'.buf[j] = PlainUnit(msgs[K[a + 1]], K[a + 1], B[a + 1] + d + j)
    PROVE  Onward(U, K, B, X, a)
<1> DEFINE m == msgs[K[a + 1]]
           k == K[a + 1]
           b == B[a + 1]
           p == PartOf(mode, m, b)
           y == Payload(mode, m)
<1>1. Len(U) \in Nat /\ a + 1 \in 1..Len(U) /\ a \in 0..Len(U)
  <2>1. Len(U) \in Nat
    BY SeqLen DEF Stream
  <2> QED BY <2>1
<1>2. UnitIs(mode, msgs, U, K, B, X, a + 1)
  BY <1>1, StreamUnit, Zenon
<1>3. p \in Nat /\ y \in Nat /\ b \in Nat /\ b + p <= y
  BY <1>2 DEF UnitIs, FrameIs, Measured
<1>4. b + d # y /\ fb'.left \in Nat
  <2>1. d < p /\ fb'.left = p - d
    OBVIOUS
  <2> HIDE DEF p, b, y
  <2> QED BY <1>3, <2>1
<1>5. Took(mode, m, taken', skip', k, b + d) /\ done' = done
  BY <1>4, Zenon DEF Delivered
<1>6. Inside(mode, msgs, fb', todo', wire', taken', skip', U, K, B, X, a, d, u)
  BY <1>4, <1>5, Zenon DEF Inside
<1> QED BY <1>1, <1>5, <1>6, Zenon DEF ReadTo, Onward

-----------------------------------------------------------------------------
(* What WS_recv_data is asked for, and do_mask.                            *)

\* n units of m have been taken.
AsksSome(m, n) ==
    /\ Wanted \in Nat /\ Wanted > 0
    /\ mode = "text" /\ ~skip => Wanted = TextBuf - n
    /\ mode = "qap" /\ ~skip /\ n > 0 => Wanted = Payload(mode, m) - n

LEMMA WantedOf ==
    ASSUME MessagesFit, mode = "text" \/ mode = "qap", NEW m, Measured(mode, m), NEW k, NEW n \in Nat,
           Took(mode, m, taken, skip, k, n)
    PROVE  AsksSome(m, n)
<1>1. Holds(mode, m, taken, skip, k, n)
  BY TookHolds
<1>2. n # 0 => n \in 1..(Payload(mode, m) - 1)
  BY Zenon DEF Took
<1>3. Payload(mode, m) \in Nat /\ skip \in BOOLEAN
  BY <1>1 DEF Measured, Holds
<1>4. CASE mode = "text"
  <2>1. CASE skip
    <3>1. Wanted = TextBuf
      BY <1>4, <2>1 DEF Wanted
    <3> QED BY <1>4, <2>1, <3>1, Sizes DEF AsksSome
  <2>2. CASE ~skip
    <3>1. n < TextBuf /\ Len(taken) = n
      BY <1>1, <1>4, <2>2 DEF Holds, Part
    <3>2. Wanted = TextBuf - n
      BY <1>4, <2>2, <3>1 DEF Wanted
    <3> QED BY <1>4, <2>2, <3>1, <3>2, Sizes DEF AsksSome
  <2> QED BY <2>1, <2>2
<1>5. CASE mode = "qap"
  <2>1. CASE n = 0
    <3>1. taken = <<>>
      BY <1>1, <1>5, <2>1 DEF Holds
    <3>2. Wanted = Header
      BY <1>5, <3>1 DEF Wanted
    <3> QED BY <1>5, <2>1, <3>2, Sizes DEF AsksSome
  <2>2. CASE n # 0
    <3>1. Len(taken) = n /\ taken[1].v.n = m.n
      BY <1>1, <1>5, <2>2, Zenon DEF Holds
    <3>2. taken # <<>>
      BY <2>2, <3>1, EmptyLen
    <3>3. Payload(mode, m) = Header + m.n /\ m.n \in Nat
      BY <1>5 DEF Measured
    <3> DEFINE rest == Header + taken[1].v.n - Len(taken)
    <3>4. Wanted = IF skip THEN Smaller(rest, Chunk) ELSE rest
      BY <1>5, <3>2 DEF Wanted
    <3>5. rest = Payload(mode, m) - n
      BY <3>1, <3>3, Sizes
    <3> HIDE DEF rest
    <3>6. rest \in Nat /\ rest > 0
      BY <1>2, <1>3, <2>2, <3>5
    <3>7. Smaller(rest, Chunk) \in Nat /\ Smaller(rest, Chunk) > 0
      BY <3>6, Sizes DEF Smaller
    <3> QED BY <1>5, <3>4, <3>5, <3>6, <3>7 DEF AsksSome
  <2> QED BY <2>1, <2>2
<1> QED BY <1>4, <1>5

\* q is the payload of a frame of message k from unit n on, with the phase of the mask.
Masked(q, m, k, n, ph) ==
    \A i \in 1..Len(q) :
        q[i] = Unit("data", [msg |-> k, pos |-> n + i, n |-> m.n,
                             mask |-> IF m.masked THEN (ph + i - 1) % MaskLen ELSE MaskLen])

LEMMA Unmasked ==
    ASSUME NEW q, IsSeq(q), NEW m, m.masked \in BOOLEAN, NEW k, NEW n \in Nat, NEW ph \in Nat,
           Masked(q, m, k, n, ph)
    PROVE  Part(Unmask(q, ph, m.masked), m, k, n, Len(q))
<1> DEFINE t == Unmask(q, ph, m.masked)
           P(x) == PlainUnit(m, k, n + x)
<1>1. Len(q) \in Nat /\ DOMAIN q = 1..Len(q)
  BY SeqLen
<1>2. CASE ~m.masked
  <2>1. t = q
    BY <1>2 DEF Unmask
  <2>2. ASSUME NEW i \in 1..Len(q) PROVE q[i] = PlainUnit(m, k, n + i)
    BY <1>2 DEF Masked, PlainUnit
  <2> QED BY <2>1, <2>2, Zenon DEF Part
<1>3. CASE m.masked
  <2>1. t = [i \in 1..Len(q) |-> DoMask(q[i], (ph + i - 1) % MaskLen)]
    BY <1>1, <1>3 DEF Unmask
  <2>2. ASSUME NEW i \in 1..Len(q) PROVE DoMask(q[i], (ph + i - 1) % MaskLen) = PlainUnit(m, k, n + i)
    <3> DEFINE x == (ph + i - 1) % MaskLen
    <3>1. q[i] = Unit("data", [msg |-> k, pos |-> n + i, n |-> m.n, mask |-> x])
      BY <1>3 DEF Masked
    <3> HIDE DEF x
    <3>2. DoMask(q[i], x) = Unit("data", [msg |-> k, pos |-> n + i, n |-> m.n, mask |-> Plain])
      BY <3>1 DEF DoMask, Unit
    <3> QED BY <1>3, <3>2 DEF PlainUnit, x
  <2>3. t = [i \in 1..Len(q) |-> P(i)]
    BY <2>1, <2>2
  <2> HIDE DEF P
  <2>4. t \in Seq({P(i) : i \in 1..Len(q)}) /\ Len(t) = Len(q) /\ \A i \in 1..Len(q) : t[i] = P(i)
    BY <1>1, <2>3
  <2>5. IsSeq(t)
    BY <2>4 DEF IsSeq
  <2> QED BY <2>4, <2>5 DEF Part, P
<1> QED BY <1>2, <1>3
-----------------------------------------------------------------------------
(* The steps of WS_recv_data.                                              *)

\* Where the step leaves the session.
After(U, K, B, X) ==
    IF open' THEN \E a : Onward(U, K, B, X, a)
    ELSE \E n \in Nat : n <= Len(msgs) /\ Dealt(mode, msgs, done', n)

\* The message that is read next.
LEMMA MessageNumber ==
    ASSUME MessagesFit, NEW md, NEW M, NEW U, NEW K, NEW B, NEW X, Stream(md, M, U, K, B, X),
           NEW a \in 0..Len(U)
    PROVE  K[a + 1] \in 1..(Len(M) + 1)
<1>1. Len(U) \in Nat /\ Len(M) \in Nat /\ K[Len(U) + 1] = Len(M) + 1
  BY SeqLen DEF Stream
<1>2. CASE a = Len(U)
  BY <1>1, <1>2
<1>3. CASE a # Len(U)
  <2>1. a + 1 \in 1..Len(U)
    BY <1>1, <1>3
  <2>2. K[a + 1] \in 1..Len(M)
    BY <2>1, StreamUnit, Zenon DEF UnitIs
  <2> QED BY <1>1, <2>2
<1> QED BY <1>2, <1>3

LEMMA Broken ==
    ASSUME MessagesFit, NEW U, NEW K, NEW B, NEW X, Stream(mode, msgs, U, K, B, X), NEW a \in 0..Len(U),
           Dealt(mode, msgs, done, K[a + 1] - 1), ~open', done' = done
    PROVE  After(U, K, B, X)
<1>1. K[a + 1] \in 1..(Len(msgs) + 1) /\ Len(msgs) \in Nat
  BY MessageNumber, SeqLen DEF Stream
<1>2. K[a + 1] - 1 \in Nat /\ K[a + 1] - 1 <= Len(msgs)
  BY <1>1
<1> QED BY <1>2, Zenon DEF After

\* Unit n after unit i of the stream, if it is of the same frame.
LEMMA UnitInFrame ==
    ASSUME MessagesFit, NEW md, NEW M, NEW U, NEW K, NEW B, NEW X, Stream(md, M, U, K, B, X),
           NEW i \in 1..Len(U), NEW n \in Nat, i + n <= Len(U), X[i] + n <= SizeOf(md, M[K[i]], B[i])
    PROVE  U[i + n] = FrameUnit(md, M[K[i]], K[i], B[i], X[i] + n)
<1>1. Len(U) \in Nat
  BY SeqLen DEF Stream
<1>2. i + n <= Len(U) + 1 /\ i + n \in 1..Len(U)
  BY <1>1
<1>3. Further(K, B, X, i, i + n, n)
  BY <1>2, InTheFrame, Zenon
<1>4. U[i + n] = FrameUnit(md, M[K[i + n]], K[i + n], B[i + n], X[i + n])
  <2>1. UnitIs(md, M, U, K, B, X, i + n)
    BY <1>2, StreamUnit, Zenon
  <2> QED BY <2>1, Zenon DEF UnitIs
<1> QED BY <1>3, <1>4, Zenon DEF Further

\* The header of the frame that follows after unit a.
HeaderIs(m, b) == FrameLen = PartOf(mode, m, b) /\ FrameMask = m.masked /\ Need = HeadOf(m)

LEMMA HeaderRead ==
    ASSUME MessagesFit, NEW U, NEW K, NEW B, NEW X, Stream(mode, msgs, U, K, B, X), NEW a \in 0..Len(U),
           X[a + 1] = 1, Slice(fb.buf, U, a), Len(fb.buf) >= 2
    PROVE  a + 1 \in 1..Len(U) /\ HeaderIs(msgs[K[a + 1]], B[a + 1])
<1>1. Len(U) \in Nat /\ Len(fb.buf) \in Nat /\ a + Len(fb.buf) <= Len(U) /\ fb.buf[2] = U[a + 2]
  <2>1. Len(U) \in Nat /\ Len(fb.buf) \in Nat /\ a + Len(fb.buf) <= Len(U)
    BY SeqLen DEF Stream, Slice
  <2>2. 2 \in 1..Len(fb.buf)
    BY <2>1
  <2> QED BY <2>1, <2>2 DEF Slice
<1>2. a + 1 \in 1..Len(U) /\ a + 1 + 1 <= Len(U) /\ a + 1 + 1 = a + 2
  BY <1>1
<1> DEFINE m == msgs[K[a + 1]]
           b == B[a + 1]
<1>3. UnitIs(mode, msgs, U, K, B, X, a + 1)
  BY <1>2, StreamUnit, Zenon
<1>4. 1 + 1 <= SizeOf(mode, m, b) /\ 1 + 1 = 2
  BY <1>3 DEF UnitIs, FrameIs, Measured
<1>5. U[a + 1 + 1] = FrameUnit(mode, m, K[a + 1], b, 1 + 1)
  BY <1>2, <1>4, UnitInFrame
<1>6. fb.buf[2] = Unit("len", [n |-> PartOf(mode, m, b), masked |-> m.masked])
  BY <1>1, <1>2, <1>4, <1>5 DEF FrameUnit
<1>7. FrameLen = PartOf(mode, m, b) /\ FrameMask = m.masked
  BY <1>6 DEF FrameLen, FrameMask, Unit
<1>8. Need = HeadOf(m)
  BY <1>7, Zenon DEF Need, HeadOf
<1> QED BY <1>2, <1>7, <1>8, Zenon DEF HeaderIs

\* Units of the payload of a frame, e units after its start.
LEMMA MaskedUnits ==
    ASSUME MessagesFit, NEW md, NEW M, NEW U, NEW K, NEW B, NEW X, Stream(md, M, U, K, B, X),
           NEW i \in 1..Len(U), NEW o \in Nat, NEW e \in Nat, NEW q, IsSeq(q),
           X[i] + o = HeadOf(M[K[i]]) + e + 1,
           HeadOf(M[K[i]]) + e + Len(q) <= SizeOf(md, M[K[i]], B[i]),
           Slice(q, U, i + o - 1)
    PROVE  Masked(q, M[K[i]], K[i], B[i] + e, e)
<1>0. ASSUME NEW c \in Nat, i + c <= Len(U), X[i] + c <= SizeOf(md, M[K[i]], B[i])
      PROVE  U[i + c] = FrameUnit(md, M[K[i]], K[i], B[i], X[i] + c)
  BY <1>0, UnitInFrame
<1> DEFINE m == M[K[i]]
           h == HeadOf(m)
           s == SizeOf(md, m, B[i])
<1>1. UnitIs(md, M, U, K, B, X, i) /\ Len(U) \in Nat /\ Len(q) \in Nat
  BY StreamUnit, SeqLen DEF Stream
<1>2. h \in Nat /\ h \in 2..3 /\ s \in Nat /\ X[i] \in Nat /\ X[i] > 0 /\ B[i] \in Nat
  <2>1. h \in Nat /\ h \in 2..3 /\ s \in Nat /\ X[i] \in 1..s /\ B[i] \in Nat
    BY <1>1, Zenon DEF UnitIs, FrameIs, Measured
  <2> HIDE DEF h, s
  <2> QED BY <2>1
<1>3. i + o - 1 + Len(q) <= Len(U) /\ \A j \in 1..Len(q) : q[j] = U[i + o - 1 + j]
  BY DEF Slice
<1> SUFFICES ASSUME NEW j \in 1..Len(q)
             PROVE  q[j] = Unit("data", [msg |-> K[i], pos |-> B[i] + e + j, n |-> m.n,
                                         mask |-> IF m.masked THEN (e + j - 1) % MaskLen ELSE MaskLen])
  BY DEF Masked
<1> DEFINE n == o + j - 1
           x == h + e + j
<1>4. n \in Nat /\ i + n <= Len(U) /\ X[i] + n <= s /\ X[i] + n = x /\ i + o - 1 + j = i + n
  <2>1. X[i] + o = h + e + 1 /\ h + e + Len(q) <= s
    OBVIOUS
  <2> DEFINE c == X[i]
  <2>2. c + o = h + e + 1 /\ h + e + Len(q) <= s /\ c \in Nat /\ c > 0 /\ h \in Nat /\ s \in Nat
    BY <1>2, <2>1
  <2> HIDE DEF h, s, m, c
  <2>3. n \in Nat
    <3>1. o + j - 1 \in Nat
      BY <1>1
    <3> QED BY <3>1
  <2>4. i + n <= Len(U) /\ i + o - 1 + j = i + n
    BY <1>1, <1>3
  <2>5. c + n <= s /\ c + n = x
    BY <1>1, <2>2
  <2> QED BY <2>3, <2>4, <2>5 DEF c
<1>5. q[j] = FrameUnit(md, m, K[i], B[i], x)
  <2>1. U[i + n] = FrameUnit(md, m, K[i], B[i], X[i] + n)
    <3> HIDE DEF n
    <3>1. n \in Nat /\ i + n <= Len(U) /\ X[i] + n <= SizeOf(md, M[K[i]], B[i])
      BY <1>4, Zenon
    <3> QED BY <1>0, <3>1, Zenon
  <2> QED BY <1>3, <1>4, <2>1
<1>6. x # 1 /\ x # 2 /\ ~(x <= h) /\ x - h = e + j
  <2>1. j \in Nat /\ j > 0 /\ h \in 2..3 /\ e \in Nat
    BY <1>1, <1>2
  <2>2. PICK c \in 2..3 : c = h
    BY <2>1
  <2>3. c + e + j # 1 /\ c + e + j # 2 /\ ~(c + e + j <= c) /\ (c + e + j) - c = e + j
    BY <2>1
  <2> HIDE DEF h
  <2> QED BY <2>2, <2>3
<1>7. B[i] + (e + j) = B[i] + e + j
  BY <1>1, <1>2
<1> HIDE DEF x, m, h
<1> QED BY <1>5, <1>6, <1>7 DEF FrameUnit, h
\* Where the session is.
Now(U, K, B, X, a) == ReadTo(mode, msgs, fb, todo, wire, taken, skip, done, U, K, B, X, a)

\* fb is a record.
IsFrame(f) == f = [buf |-> f.buf, in |-> f.in, left |-> f.left, mask |-> f.mask, phase |-> f.phase]

LEMMA NowIs ==
    ASSUME NEW U, NEW K, NEW B, NEW X, NEW a, Now(U, K, B, X, a)
    PROVE  /\ Stream(mode, msgs, U, K, B, X) /\ IsSeq(U) /\ Len(U) \in Nat
           /\ a \in Nat /\ a <= Len(U) /\ a \in 0..Len(U)
           /\ SmallFrom(msgs, mode, K[a + 1]) /\ Dealt(mode, msgs, done, K[a + 1] - 1)
           /\ Len(msgs) \in Nat
<1>1. /\ Stream(mode, msgs, U, K, B, X) /\ a \in 0..Len(U)
      /\ SmallFrom(msgs, mode, K[a + 1]) /\ Dealt(mode, msgs, done, K[a + 1] - 1)
  BY Zenon DEF Now, ReadTo
<1>2. IsSeq(U) /\ Len(U) \in Nat /\ Len(msgs) \in Nat
  BY <1>1, SeqLen DEF Stream
<1> QED BY <1>1, <1>2

LEMMA NowBetween ==
    ASSUME NEW U, NEW K, NEW B, NEW X, NEW a, Now(U, K, B, X, a), ~fb.in
    PROVE  Between(mode, msgs, fb, todo, wire, taken, skip, U, K, B, X, a)
<1>1. ASSUME NEW d, NEW u, Inside(mode, msgs, fb, todo, wire, taken, skip, U, K, B, X, a, d, u) PROVE FALSE
  BY <1>1 DEF Inside
<1> QED BY <1>1, Zenon DEF Now, ReadTo

LEMMA NowInside ==
    ASSUME NEW U, NEW K, NEW B, NEW X, NEW a, Now(U, K, B, X, a), fb.in
    PROVE  \E d, u \in Nat : Inside(mode, msgs, fb, todo, wire, taken, skip, U, K, B, X, a, d, u)
<1>1. ~Between(mode, msgs, fb, todo, wire, taken, skip, U, K, B, X, a)
  BY DEF Between
<1> QED BY <1>1, Zenon DEF Now, ReadTo

LEMMA FrameAtStart ==
    ASSUME MessagesFit, NEW U, NEW K, NEW B, NEW X, NEW a, Now(U, K, B, X, a), ~fb.in, HasHeader
    PROVE  /\ a + 1 \in 1..Len(U) /\ HeaderIs(msgs[K[a + 1]], B[a + 1])
           /\ UnitIs(mode, msgs, U, K, B, X, a + 1) /\ X[a + 1] = 1
<1>1. Stream(mode, msgs, U, K, B, X) /\ a \in 0..Len(U)
  BY NowIs
<1>2. X[a + 1] = 1 /\ Slice(fb.buf, U, a)
  <2>1. Between(mode, msgs, fb, todo, wire, taken, skip, U, K, B, X, a)
    BY NowBetween, Zenon
  <2> QED BY <2>1, Zenon DEF Between, Remain
<1>3. Len(fb.buf) >= 2
  BY DEF HasHeader
<1>4. a + 1 \in 1..Len(U) /\ HeaderIs(msgs[K[a + 1]], B[a + 1])
  BY <1>1, <1>2, <1>3, HeaderRead
<1>5. UnitIs(mode, msgs, U, K, B, X, a + 1)
  BY <1>1, <1>4, StreamUnit, Zenon
<1> QED BY <1>2, <1>4, <1>5

LEMMA RecvContinues ==
    ASSUME MessagesFit, Speaking, IsFrame(fb), NEW U, NEW K, NEW B, NEW X, NEW a, Now(U, K, B, X, a), WsRecv
    PROVE  After(U, K, B, X) /\ IsFrame(fb')
<1> DEFINE q == IF HasHeader THEN AtLeast ELSE FrameBuf
           n == Smaller(q - Len(fb.buf), Len(wire))
           l == fb.buf \o SubSeq(wire, 1, n)
<1>1. /\ ~fb.in /\ ~HasPayload /\ wire # <<>>
      /\ fb' = [fb EXCEPT !.buf = l] /\ wire' = SubSeq(wire, n + 1, Len(wire))
      /\ UNCHANGED <<mode, open, todo, msgs, taken, skip, done>>
  BY DEF WsRecv, From
<1>2. Between(mode, msgs, fb, todo, wire, taken, skip, U, K, B, X, a)
  BY <1>1, NowBetween, Zenon
<1>3. /\ X[a + 1] = 1 /\ Remain(U, a, todo, wire, fb.buf) /\ Len(fb.buf) <= FrameBuf
      /\ Took(mode, msgs[K[a + 1]], taken, skip, K[a + 1], B[a + 1])
  BY <1>2, Zenon DEF Between
<1>4. Len(fb.buf) \in Nat /\ Len(wire) \in Nat
  BY <1>3, RemainLens
<1>5. q \in Nat /\ q <= FrameBuf /\ Len(fb.buf) <= q
  <2>1. CASE HasHeader
    <3>1. HeaderIs(msgs[K[a + 1]], B[a + 1]) /\ UnitIs(mode, msgs, U, K, B, X, a + 1)
      BY <1>1, <2>1, FrameAtStart, Zenon
    <3>2. Need \in Nat /\ FrameLen \in Nat
      BY <3>1 DEF HeaderIs, UnitIs, FrameIs, Measured
    <3>3. AtLeast \in Nat /\ AtLeast <= FrameBuf
      BY <3>2, Sizes DEF AtLeast, Smaller
    <3>4. ~(Len(fb.buf) >= AtLeast)
      BY <1>1, <2>1 DEF HasPayload
    <3> QED BY <1>4, <2>1, <3>3, <3>4
  <2>2. CASE ~HasHeader
    BY <1>3, <2>2, Sizes
  <2> QED BY <2>1, <2>2
<1> HIDE DEF q
<1>6. n \in 0..Len(wire) /\ Len(fb.buf) + n <= FrameBuf
  <2>1. \A c, l1, w, f \in Nat : l1 <= c /\ c <= f => Smaller(c - l1, w) \in 0..w /\ l1 + Smaller(c - l1, w) <= f
    BY DEF Smaller
  <2> QED BY <1>4, <1>5, <2>1, Sizes, Zenon
<1>7. Received(U, a, todo, wire, fb.buf, SubSeq(wire, n + 1, Len(wire)), l, n)
  <2> HIDE DEF n
  <2> QED BY <1>3, <1>6, NowIs, RemainReceived, Zenon
<1>8. Remain(U, a, todo, wire', l) /\ Len(l) = Len(fb.buf) + n
  BY <1>1, <1>7, Zenon DEF Received
<1> HIDE DEF l
<1>9. fb'.buf = l /\ fb'.in = FALSE /\ IsFrame(fb')
  <2>1. fb.in = FALSE
    BY <1>2, Zenon DEF Between
  <2> QED BY <1>1, <2>1 DEF IsFrame
<1>10. Between(mode, msgs, fb', todo', wire', taken', skip', U, K, B, X, a)
  <2>1. Len(l) <= FrameBuf
    BY <1>4, <1>6, <1>8
  <2>2. todo' = todo /\ taken' = taken /\ skip' = skip
    BY <1>1
  <2> QED BY <1>3, <1>8, <1>9, <2>1, <2>2, Zenon DEF Between
<1>11. Onward(U, K, B, X, a)
  <2>1. done' = done
    BY <1>1
  <2> QED BY <1>10, <2>1, NowIs, Zenon DEF Onward, ReadTo
<1>12. open'
  BY <1>1 DEF Speaking
<1> QED BY <1>9, <1>11, <1>12, Zenon DEF After
-----------------------------------------------------------------------------
(* Sequences again.                                                        *)

LEMMA SameSeq ==
    ASSUME NEW p, IsSeq(p), NEW q, IsSeq(q), Len(p) = Len(q), \A i \in 1..Len(p) : p[i] = q[i]
    PROVE  p = q
<1>1. PICK S : p \in Seq(S)
  BY DEF IsSeq
<1>2. PICK T : q \in Seq(T)
  BY DEF IsSeq
<1>3. p \in Seq(S \cup T) /\ q \in Seq(S \cup T)
  BY <1>1, <1>2
<1> QED BY <1>3

LEMMA EmptyIs == ASSUME NEW q, IsSeq(q), Len(q) = 0 PROVE q = <<>>
<1>1. 1..0 = {}
  OBVIOUS
<1> QED BY <1>1, EmptyLen, SameSeq

\* The first n of q, and the others.
LEMMA Foremost == ASSUME NEW q, IsSeq(q), NEW n \in 0..Len(q) PROVE Piece(SubSeq(q, 1, n), q, 0, n)
<1>1. Len(q) \in Nat
  BY SeqLen
<1>2. 0 \in 0..n /\ 0 + 1 = 1
  BY <1>1
<1>3. Piece(SubSeq(q, 0 + 1, n), q, 0, n)
  BY <1>1, <1>2, PieceOf, Zenon
<1> QED BY <1>2, <1>3

LEMMA Hindmost == ASSUME NEW q, IsSeq(q), NEW n \in 0..Len(q) PROVE Piece(From(q, n), q, n, Len(q))
<1>1. Len(q) \in 0..Len(q) /\ Len(q) \in Nat
  BY SeqLen
<1>2. Piece(SubSeq(q, n + 1, Len(q)), q, n, Len(q))
  BY <1>1, PieceOf, Zenon
<1> QED BY <1>2, Zenon DEF From

LEMMA BackOfGlued == ASSUME NEW p, IsSeq(p), NEW q, IsSeq(q) PROVE From(p \o q, Len(p)) = q
<1> DEFINE a == p \o q
           t == From(a, Len(p))
<1>1. Glued(a, p, q)
  BY Glue, Zenon
<1>2. Len(p) \in Nat /\ Len(q) \in Nat
  BY SeqLen
<1> HIDE DEF a
<1>3. IsSeq(a) /\ Len(a) = Len(p) + Len(q) /\ \A i \in 1..Len(q) : a[Len(p) + i] = q[i]
  BY <1>1 DEF Glued
<1>4. Len(p) \in 0..Len(a)
  BY <1>2, <1>3
<1>5. Piece(t, a, Len(p), Len(a))
  BY <1>3, <1>4, Hindmost, Zenon
<1> HIDE DEF t
<1>6. IsSeq(t) /\ Len(t) = Len(q) /\ \A i \in 1..Len(q) : t[i] = a[Len(p) + i]
  <2>1. Len(a) - Len(p) = Len(q)
    BY <1>2, <1>3
  <2> QED BY <1>5, <2>1, Zenon DEF Piece
<1>7. t = q
  BY <1>3, <1>6, SameSeq
<1> QED BY <1>7 DEF t, a

LEMMA EmptyFront == ASSUME NEW q, IsSeq(q) PROVE <<>> \o q = q
<1>1. From(<<>> \o q, 0) = q
  BY BackOfGlued, EmptyLen
<1> DEFINE a == <<>> \o q
<1>2. IsSeq(a)
  BY Glue, EmptyLen DEF Glued
<1> HIDE DEF a
<1>3. SubSeq(a, 1, Len(a)) = a
  <2>1. Len(a) \in Nat /\ Len(a) \in 0..Len(a)
    BY <1>2, SeqLen
  <2>2. Piece(SubSeq(a, 1, Len(a)), a, 0, Len(a))
    BY <1>2, <2>1, Foremost, Zenon
  <2> DEFINE t == SubSeq(a, 1, Len(a))
  <2> HIDE DEF t
  <2>3. IsSeq(t) /\ Len(t) = Len(a) /\ \A i \in 1..Len(t) : t[i] = a[i]
    BY <2>1, <2>2 DEF t, Piece
  <2>4. t = a
    BY <1>2, <2>3, SameSeq
  <2> QED BY <2>4 DEF t
<1>4. From(a, 0) = a
  <2>1. 0 + 1 = 1
    OBVIOUS
  <2> QED BY <1>3, <2>1, Zenon DEF From
<1> QED BY <1>1, <1>4 DEF a

\* What follows after units of a frame that are dropped in two steps.
LEMMA BackTwice ==
    ASSUME NEW q, IsSeq(q), NEW g \in Nat, NEW u \in Nat, g + u <= Len(q)
    PROVE  From(From(q, g), u) = From(q, g + u)
<1> DEFINE t == From(q, g)
           v == From(t, u)
           w == From(q, g + u)
<1>1. Len(q) \in Nat
  BY SeqLen
<1>2. g \in 0..Len(q) /\ g + u \in 0..Len(q)
  BY <1>1
<1>3. Piece(t, q, g, Len(q)) /\ Piece(w, q, g + u, Len(q))
  BY <1>2, Hindmost, Zenon
<1> HIDE DEF t, w
<1>4. IsSeq(t) /\ Len(t) = Len(q) - g /\ u \in 0..Len(t)
  BY <1>1, <1>3 DEF Piece
<1>5. Piece(v, t, u, Len(t))
  BY <1>4, Hindmost, Zenon
<1> HIDE DEF v
<1>6. IsSeq(v) /\ IsSeq(w) /\ Len(v) = Len(q) - (g + u) /\ Len(w) = Len(q) - (g + u)
  BY <1>1, <1>3, <1>4, <1>5 DEF Piece
<1>7. ASSUME NEW i \in 1..Len(v) PROVE v[i] = w[i]
  <2>1. /\ i \in 1..(Len(t) - u) /\ u + i \in 1..(Len(q) - g) /\ i \in 1..(Len(q) - (g + u))
        /\ g + (u + i) = g + u + i
    BY <1>1, <1>4, <1>6
  <2>2. v[i] = t[u + i] /\ t[u + i] = q[g + (u + i)] /\ w[i] = q[g + u + i]
    BY <1>3, <1>5, <2>1, Zenon DEF Piece
  <2> QED BY <2>1, <2>2
<1>8. v = w
  BY <1>6, <1>7, SameSeq
<1> QED BY <1>8 DEF v, w, t
-----------------------------------------------------------------------------
(* A new frame.                                                            *)

\* The part q of the payload of a frame that the buffer has, of a frame of p units that
\* begins after b units of m and of which the buffer has y units after l units.
PayloadIs(m, k, b, h, p, y, q) ==
    /\ h = HeadOf(m) /\ h \in 2..3 /\ p = PartOf(mode, m, b) /\ p \in Nat /\ b \in Nat
    /\ b + p <= Payload(mode, m) /\ Payload(mode, m) \in Nat /\ y \in Nat /\ y <= p
    /\ SizeOf(mode, m, b) = h + p /\ AtLeast = h + y /\ h + y <= Len(fb.buf)
    /\ y < p => h + y = FrameBuf
    /\ FrameLen = p /\ FrameMask = m.masked /\ Need = h
    /\ q = Unmask(SubSeq(fb.buf, Need + 1, AtLeast), 0, FrameMask) /\ Part(q, m, k, b, y)

LEMMA FramePayload ==
    ASSUME MessagesFit, NEW U, NEW K, NEW B, NEW X, NEW a, Now(U, K, B, X, a), ~fb.in, HasPayload
    PROVE  \E y : PayloadIs(msgs[K[a + 1]], K[a + 1], B[a + 1], HeadOf(msgs[K[a + 1]]),
                         PartOf(mode, msgs[K[a + 1]], B[a + 1]), y,
                         Unmask(SubSeq(fb.buf, Need + 1, AtLeast), 0, FrameMask))
<1> DEFINE m == msgs[K[a + 1]]
           k == K[a + 1]
           b == B[a + 1]
           h == HeadOf(m)
           p == PartOf(mode, m, b)
           A == AtLeast
           y == A - h
           q == SubSeq(fb.buf, h + 1, A)
<1>1. HasHeader /\ Len(fb.buf) >= A
  BY DEF HasPayload
<1>2. /\ a + 1 \in 1..Len(U) /\ HeaderIs(m, b)
      /\ UnitIs(mode, msgs, U, K, B, X, a + 1) /\ X[a + 1] = 1
  BY <1>1, FrameAtStart
<1>3. FrameLen = p /\ FrameMask = m.masked /\ Need = h
  BY <1>2 DEF HeaderIs
<1>4. /\ h \in 2..3 /\ h \in Nat /\ p \in Nat /\ b \in Nat /\ b + p <= Payload(mode, m) /\ m.masked \in BOOLEAN
      /\ Payload(mode, m) \in Nat /\ SizeOf(mode, m, b) = h + p
  BY <1>2, Zenon DEF UnitIs, FrameIs, Measured
<1>5. Stream(mode, msgs, U, K, B, X) /\ a \in Nat /\ Len(U) \in Nat /\ IsSeq(U)
  BY NowIs
<1>6. Slice(fb.buf, U, a) /\ Len(fb.buf) \in Nat /\ IsSeq(fb.buf)
  <2>1. Between(mode, msgs, fb, todo, wire, taken, skip, U, K, B, X, a)
    BY NowBetween, Zenon
  <2>2. Slice(fb.buf, U, a)
    BY <2>1, Zenon DEF Between, Remain
  <2> QED BY <2>2, SeqLen DEF Slice
<1>7. A = Smaller(h + p, FrameBuf)
  BY <1>3 DEF AtLeast
<1> HIDE DEF h, p, A
<1>8. /\ A \in Nat /\ A <= h + p /\ h <= A /\ A <= Len(fb.buf) /\ (A < h + p => A = FrameBuf)
      /\ A >= 2
  BY <1>1, <1>4, <1>6, <1>7, Sizes DEF Smaller
<1>9. y \in Nat /\ y <= p /\ A = h + y /\ (y < p => h + y = FrameBuf)
  BY <1>4, <1>8
<1>10. Piece(q, fb.buf, h, A)
  <2>1. A \in 0..Len(fb.buf) /\ h \in 0..A
    BY <1>4, <1>6, <1>8
  <2> QED BY <1>6, <2>1, PieceOf, Zenon
<1> HIDE DEF q, y
<1>11. IsSeq(q) /\ Len(q) = y /\ \A j \in 1..y : q[j] = fb.buf[h + j]
  <2>1. A - h = y
    BY DEF y
  <2> QED BY <1>10, <2>1, Zenon DEF Piece
<1>12. Slice(q, U, a + 1 + h - 1)
  <2>1. a + 1 + h - 1 = a + h /\ a + h + Len(q) <= Len(U)
    BY <1>4, <1>5, <1>6, <1>8, <1>9, <1>11 DEF Slice
  <2>2. ASSUME NEW j \in 1..Len(q) PROVE q[j] = U[a + h + j]
    <3>1. h + j \in 1..Len(fb.buf) /\ a + (h + j) = a + h + j
      <4>1. j \in 1..y /\ h \in Nat
        BY <1>4, <1>11
      <4>2. h + y <= Len(fb.buf) /\ y \in Nat
        BY <1>8, <1>9
      <4> QED BY <1>5, <1>6, <4>1, <4>2
    <3>2. fb.buf[h + j] = U[a + (h + j)]
      BY <1>6, <3>1 DEF Slice
    <3> QED BY <1>11, <3>1, <3>2
  <2> QED BY <1>11, <2>1, <2>2, Zenon DEF Slice
<1>13. Masked(q, m, k, b + 0, 0)
  <2>1. X[a + 1] + h = HeadOf(m) + 0 + 1 /\ HeadOf(m) + 0 + Len(q) <= SizeOf(mode, m, b)
    BY <1>2, <1>4, <1>9, <1>11 DEF h
  <2>2. h \in Nat /\ 0 \in Nat /\ IsSeq(q) /\ a + 1 \in 1..Len(U)
    BY <1>2, <1>4, <1>11
  <2> QED BY <1>5, <1>12, <2>1, <2>2, MaskedUnits, Zenon
<1>14. b + 0 = b
  BY <1>4
<1>15. Part(Unmask(q, 0, m.masked), m, k, b, y)
  <2>1. Masked(q, m, k, b, 0) /\ 0 \in Nat
    BY <1>13, <1>14
  <2>2. Part(Unmask(q, 0, m.masked), m, k, b, Len(q))
    <3>1. m.masked \in BOOLEAN /\ b \in Nat /\ IsSeq(q)
      BY <1>4, <1>11
    <3> HIDE DEF m, b
    <3> QED BY <2>1, <3>1, Unmasked
  <2> QED BY <1>11, <2>2
<1>16. Unmask(q, 0, m.masked) = Unmask(SubSeq(fb.buf, Need + 1, AtLeast), 0, FrameMask)
  BY <1>3, Zenon DEF q, A
<1>17. AtLeast = h + y /\ h + y <= Len(fb.buf)
  <2>1. A = h + y /\ A <= Len(fb.buf)
    BY <1>8, <1>9
  <2> QED BY <2>1 DEF A
<1>18. PayloadIs(m, k, b, HeadOf(m), PartOf(mode, m, b), y,
              Unmask(SubSeq(fb.buf, Need + 1, AtLeast), 0, FrameMask))
  BY <1>3, <1>4, <1>9, <1>15, <1>16, <1>17, Zenon DEF PayloadIs, h, p
<1> HIDE DEF m, k, b
<1> QED BY <1>18 DEF m, k, b
\* The session takes g units, or its connection breaks.
LEMMA Given ==
    ASSUME MessagesFit, Speaking, NEW U, NEW K, NEW B, NEW X, NEW a, Now(U, K, B, X, a), a + 1 \in 1..Len(U),
           NEW e \in Nat, NEW g \in Nat, g > 0,
           Took(mode, msgs[K[a + 1]], taken, skip, K[a + 1], B[a + 1] + e),
           e + g <= PartOf(mode, msgs[K[a + 1]], B[a + 1]),
           NEW d, Gives(d, msgs[K[a + 1]], K[a + 1], B[a + 1] + e, g, skip), g <= Wanted,
           NEW in \in BOOLEAN, in <=> e + g < PartOf(mode, msgs[K[a + 1]], B[a + 1]),
           Deliver(d, in)
    PROVE  Delivered(K[a + 1], B[a + 1] + e + g)
<1> DEFINE m == msgs[K[a + 1]]
           k == K[a + 1]
           b == B[a + 1]
           p == PartOf(mode, m, b)
           y == Payload(mode, m)
<1>1. /\ Stream(mode, msgs, U, K, B, X) /\ Dealt(mode, msgs, done, k - 1)
      /\ Len(msgs) \in Nat
  BY NowIs
<1>2. UnitIs(mode, msgs, U, K, B, X, a + 1)
  BY <1>1, StreamUnit
<1>3. /\ k \in 1..Len(msgs) /\ m \in Messages /\ Begins(mode, m, b) /\ b \in Nat
      /\ p \in Nat /\ b + p <= y /\ y \in Nat
  BY <1>2, Zenon DEF UnitIs, FrameIs, Measured
<1>4. mode = "text" => b = 0 /\ p = y
  BY <1>3 DEF Begins, PartOf, First
<1>5. mode = "text" => (in <=> b + e + g < y)
  <2>1. in <=> e + g < p
    OBVIOUS
  <2>2. mode = "text" => 0 + e + g = e + g
    OBVIOUS
  <2> HIDE DEF b, p, y
  <2>3. CASE mode = "text"
    <3>1. b + e + g = e + g
      BY <1>4, <2>2, <2>3
    <3> QED BY <1>4, <2>1, <2>3, <3>1
  <2> QED BY <2>3
<1>6. b + e \in Nat /\ b + e + g <= y
  <2>1. e + g <= p
    OBVIOUS
  <2> HIDE DEF b, p, y
  <2> QED BY <1>3, <2>1
<1> DEFINE n == b + e
<1>7. n \in Nat /\ n + g <= y /\ (mode = "text" => (in <=> n + g < y)) /\ Took(mode, m, taken, skip, k, n) /\ Gives(d, m, k, n, g, skip)
  BY <1>5, <1>6
<1> HIDE DEF n
<1>8. Delivered(k, n + g)
  <2> HIDE DEF k
  <2>1. m = msgs[k]
    BY DEF k
  <2> HIDE DEF m
  <2> QED BY <1>1, <1>3, <1>7, <2>1, DeliverStep, Zenon DEF y
<1> QED BY <1>8 DEF n

LEMMA FrameDelivered ==
    ASSUME MessagesFit, Speaking, NEW U, NEW K, NEW B, NEW X, NEW a, Now(U, K, B, X, a), WsFrame
    PROVE  After(U, K, B, X) /\ IsFrame(fb')
<1> DEFINE m == msgs[K[a + 1]]
           k == K[a + 1]
           b == B[a + 1]
           h == HeadOf(m)
           p == PartOf(mode, m, b)
           s == SizeOf(mode, m, b)
           q == Unmask(SubSeq(fb.buf, Need + 1, AtLeast), 0, FrameMask)
           A == AtLeast
           Y == A - Need
           g == Smaller(Wanted, Y)
           whole == Y = FrameLen /\ g = Y
           rest == From(fb.buf, A)
           kept == From(q, g)
           d == SubSeq(q, 1, g)
<1>1. ~fb.in /\ HasPayload
  BY DEF WsFrame
<1>2. /\ fb' = [buf |-> kept \o rest, in |-> ~whole, left |-> FrameLen - g, mask |-> FrameMask, phase |-> Y % MaskLen]
      /\ Deliver(d, ~whole) /\ wire' = wire
  BY DEF WsFrame
<1>3. IsFrame(fb') /\ fb'.buf = kept \o rest /\ fb'.in = ~whole /\ fb'.left = FrameLen - g
      /\ fb'.mask = FrameMask /\ fb'.phase = Y % MaskLen
  BY <1>2 DEF IsFrame
<1>4. UNCHANGED <<mode, todo, msgs>> /\ wire' = wire
  BY <1>2, Zenon DEF Deliver
<1>5. PICK y : PayloadIs(m, k, b, h, p, y, q)
  BY <1>1, FramePayload, Zenon
<1>6. /\ h \in 2..3 /\ h \in Nat /\ p \in Nat /\ b \in Nat /\ b + p <= Payload(mode, m) /\ Payload(mode, m) \in Nat
      /\ y \in Nat /\ y <= p /\ s = h + p /\ A = h + y /\ h + y <= Len(fb.buf)
      /\ (y < p => h + y = FrameBuf) /\ FrameLen = p /\ FrameMask = m.masked /\ Need = h
      /\ Part(q, m, k, b, y)
  BY <1>5 DEF PayloadIs
<1>7. /\ Stream(mode, msgs, U, K, B, X) /\ a \in Nat /\ Len(U) \in Nat /\ IsSeq(U) /\ a \in 0..Len(U)
      /\ SmallFrom(msgs, mode, k) /\ Dealt(mode, msgs, done, k - 1)
  BY NowIs
<1>8. /\ Remain(U, a, todo, wire, fb.buf) /\ Len(fb.buf) <= FrameBuf
      /\ Took(mode, m, taken, skip, k, b) /\ X[a + 1] = 1
  <2>1. Between(mode, msgs, fb, todo, wire, taken, skip, U, K, B, X, a)
    BY <1>1, NowBetween, Zenon
  <2> QED BY <2>1, Zenon DEF Between
<1>9. a + 1 \in 1..Len(U) /\ UnitIs(mode, msgs, U, K, B, X, a + 1)
  BY <1>1, FrameAtStart DEF HasPayload
<1>10. Wanted \in Nat /\ Wanted > 0
  <2>1. Measured(mode, m) /\ (mode = "text" \/ mode = "qap")
    BY <1>9 DEF UnitIs, Speaking
  <2>2. AsksSome(m, b)
    BY <1>6, <1>8, <2>1, WantedOf
  <2> QED BY <2>2, Zenon DEF AsksSome
<1>11. IsSeq(fb.buf) /\ Len(fb.buf) \in Nat /\ IsSeq(q) /\ Len(q) = y
  BY <1>6, <1>8, RemainLens DEF Part
<1> HIDE DEF q, s, h, p
<1>12. Y = y
  BY <1>6
<1> HIDE DEF A, Y
<1>13. g \in 0..y /\ g \in Nat /\ g <= Wanted /\ (y > 0 => g > 0)
  BY <1>6, <1>10, <1>12 DEF Smaller
<1> HIDE DEF g
<1>14. Piece(d, q, 0, g) /\ Piece(kept, q, g, y)
  BY <1>11, <1>13, Foremost, Hindmost
<1>15. Piece(rest, fb.buf, A, Len(fb.buf))
  <2>1. A \in 0..Len(fb.buf)
    BY <1>6, <1>11
  <2> QED BY <1>11, <2>1, Hindmost
<1> HIDE DEF d, kept, rest
<1>16. /\ IsSeq(d) /\ Len(d) = g /\ IsSeq(kept) /\ Len(kept) = y - g
       /\ IsSeq(rest) /\ Len(rest) = Len(fb.buf) - (h + y)
  BY <1>6, <1>13, <1>14, <1>15 DEF Piece
<1>17. whole <=> g = p
  BY <1>6, <1>12, <1>13
<1> HIDE DEF whole
<1>18. whole \in BOOLEAN
  BY DEF whole
<1>19. CASE y = 0
  <2>1. d = <<>>
    BY <1>13, <1>16, <1>19, EmptyIs
  <2>2. ~open' /\ done' = done
    BY <1>2, <2>1 DEF Deliver, SessionEnds
  <2>3. After(U, K, B, X)
    BY <1>7, <2>2, Broken, Zenon
  <2> QED BY <1>3, <2>3
<1>20. CASE y # 0
  <2>1. g > 0 /\ 0 + g = g /\ b + 0 = b /\ 0 + g <= p /\ (~whole <=> 0 + g < p)
    <3>1. g > 0 /\ 0 + g = g /\ 0 + g <= p
      BY <1>6, <1>13, <1>20
    <3>2. b + 0 = b
      BY <1>6
    <3>3. 0 + g < p <=> ~(g = p)
      BY <1>6, <1>13
    <3> QED BY <1>17, <3>1, <3>2, <3>3, Zenon
  <2>2. Part(d, m, k, b, g)
    <3>1. \A i \in 1..g : i \in 1..y /\ i \in 1..(g - 0) /\ 0 + i = i
      BY <1>6, <1>13
    <3>2. \A i \in 1..g : d[i] = PlainUnit(m, k, b + i)
      BY <1>6, <1>14, <3>1, Zenon DEF Part, Piece
    <3> QED BY <1>16, <3>2, Zenon DEF Part
  <2>3. Delivered(k, b + 0 + g)
    <3>1. Gives(d, m, k, b + 0, g, skip) /\ Took(mode, m, taken, skip, k, b + 0)
      BY <1>8, <1>16, <2>1, <2>2 DEF Gives
    <3>2. (~whole) \in BOOLEAN
      BY Zenon
    <3>3. 0 + g <= PartOf(mode, m, b) /\ (~whole <=> 0 + g < PartOf(mode, m, b))
      BY <2>1 DEF p
    <3> QED BY <1>2, <1>9, <1>13, <2>1, <3>1, <3>2, <3>3, Given
  <2>4. Delivered(k, b + g)
    BY <2>1, <2>3
  <2>5. CASE ~open'
    <3>1. done' = done
      BY <2>4, <2>5 DEF Delivered, Speaking
    <3>2. After(U, K, B, X)
      BY <1>7, <2>5, <3>1, Broken, Zenon
    <3> QED BY <1>3, <3>2
  <2>6. CASE open' /\ whole
    <3>1. g = p /\ y = p /\ A = s
      BY <1>6, <1>13, <1>17, <2>6
    <3>2. fb'.buf = rest
      <4>1. kept = <<>>
        BY <1>6, <1>16, <3>1, EmptyIs
      <4> QED BY <1>3, <1>16, <4>1, EmptyFront
    <3>3. Consumed(U, a, todo, wire, fb.buf, rest, s)
      <4>1. s \in 0..Len(fb.buf)
        BY <1>6, <1>11, <3>1
      <4>2. Consumed(U, a, todo, wire, fb.buf, SubSeq(fb.buf, s + 1, Len(fb.buf)), s)
        BY <1>7, <1>8, <4>1, RemainTaken, Zenon
      <4> QED BY <3>1, <4>2 DEF rest, From
    <3> DEFINE n == s - 1
    <3>4. n \in Nat /\ X[a + 1] + n = s /\ a + 1 + n = a + s
      BY <1>6, <1>7, <1>8
    <3>5. Remain(U, a + 1 + n, todo', wire', fb'.buf) /\ Len(fb'.buf) <= FrameBuf
      <4>1. Remain(U, a + s, todo, wire, rest)
        BY <3>3 DEF Consumed
      <4>2. Len(rest) <= FrameBuf
        BY <1>6, <1>8, <1>11, <1>16, Sizes
      <4> QED BY <1>4, <3>2, <3>4, <4>1, <4>2
    <3>6. fb'.in = FALSE
      BY <1>3, <2>6
    <3> HIDE DEF n
    <3>7. Onward(U, K, B, X, a + 1 + n)
      <4>1. Delivered(k, b + PartOf(mode, m, b)) /\ X[a + 1] + n = SizeOf(mode, m, b)
        BY <2>4, <3>1, <3>4 DEF p, s
      <4> QED BY <1>7, <1>9, <2>6, <3>4, <3>5, <3>6, <4>1, AfterFrame
    <3>8. After(U, K, B, X)
      BY <2>6, <3>7, Zenon DEF After
    <3> QED BY <1>3, <3>8
  <2>7. CASE open' /\ ~whole
    <3> DEFINE c == a + h + g
               u == y - g
    <3>1. g < p /\ u \in Nat /\ c \in Nat
      BY <1>6, <1>7, <1>13, <1>17, <2>7
    <3>2. c < Len(U) /\ c + 1 = a + 1 + (h + g) /\ X[a + 1] + (h + g) <= s /\ c + u = a + A
      <4>1. a + 1 + (SizeOf(mode, m, b) - X[a + 1]) <= Len(U)
        BY <1>7, <1>9, FrameComplete
      <4>2. a + s <= Len(U)
        BY <1>6, <1>7, <1>8, <4>1 DEF s
      <4> QED BY <1>6, <1>7, <1>8, <1>13, <3>1, <4>2
    <3>3. K[c + 1] = k /\ B[c + 1] = b /\ X[c + 1] = h + g + 1
      <4>1. h + g \in Nat /\ a + 1 + (h + g) <= Len(U) + 1 /\ X[a + 1] + (h + g) <= SizeOf(mode, m, b)
        BY <1>6, <1>7, <1>13, <3>1, <3>2 DEF s
      <4>2. Further(K, B, X, a + 1, a + 1 + (h + g), h + g)
        BY <1>7, <1>9, <4>1, InTheFrame
      <4>3. K[c + 1] = k /\ B[c + 1] = b /\ X[c + 1] = 1 + (h + g)
        BY <1>8, <3>2, <4>2 DEF Further
      <4> QED BY <1>6, <1>13, <4>3
    <3> DEFINE w == kept \o rest
    <3>4. Glued(w, kept, rest) /\ fb'.buf = w
      BY <1>3, <1>16, Glue
    <3>5. From(w, u) = rest
      BY <1>16, BackOfGlued
    <3> HIDE DEF w
    <3>6. IsSeq(w) /\ Len(w) = u + Len(rest) /\ Len(w) <= FrameBuf /\ u <= Len(w)
      <4>1. IsSeq(w) /\ Len(w) = u + Len(rest)
        BY <1>16, <3>4 DEF Glued
      <4>2. /\ h \in Nat /\ y \in Nat /\ h + y <= Len(fb.buf)
            /\ Len(fb.buf) \in Nat /\ Len(fb.buf) <= FrameBuf
            /\ g \in 0..y /\ Len(rest) = Len(fb.buf) - (h + y)
        BY <1>6, <1>8, <1>11, <1>13, <1>16, Zenon
      <4>3. FrameBuf \in Nat
        BY Sizes
      <4>4. u \in Nat /\ u <= y /\ Len(rest) \in Nat
        BY <4>2
      <4> HIDE DEF u
      <4>5. u + Len(rest) <= FrameBuf /\ u <= u + Len(rest)
        BY <4>2, <4>3, <4>4
      <4> QED BY <4>1, <4>5, Zenon
    <3>7. u <= p - g /\ (u = Len(w) \/ u = p - g) /\ (u < p - g => s > FrameBuf)
      <4>1. CASE y = p
        BY <1>6, <1>13, <4>1
      <4>2. CASE y # p
        <5>1. h + y = FrameBuf /\ h + p > FrameBuf
          BY <1>6, <4>2, Sizes
        <5>2. Len(rest) = 0
          <6>1. /\ h \in Nat /\ y \in Nat /\ h + y <= Len(fb.buf) /\ Len(fb.buf) <= FrameBuf
                /\ Len(fb.buf) \in Nat /\ Len(rest) = Len(fb.buf) - (h + y)
            BY <1>6, <1>8, <1>11, <1>16, Zenon
          <6> QED BY <5>1, <6>1
        <5>3. y \in Nat /\ y <= p /\ p \in Nat /\ g \in 0..y /\ s = h + p
          BY <1>6, <1>13, Zenon
        <5>4. u <= p - g
          BY <5>3
        <5>5. u \in Nat /\ Len(w) = u + Len(rest)
          BY <3>1, <3>6, Zenon
        <5> HIDE DEF u
        <5>6. u = Len(w)
          BY <5>2, <5>5
        <5> QED BY <5>1, <5>3, <5>4, <5>6
      <4> QED BY <4>1, <4>2
    <3>8. Remain(U, c + u, todo', wire', SubSeq(w, u + 1, Len(w)))
      <4>1. A \in 0..Len(fb.buf)
        BY <1>6, <1>11
      <4>2. Consumed(U, a, todo, wire, fb.buf, SubSeq(fb.buf, A + 1, Len(fb.buf)), A)
        BY <1>7, <1>8, <4>1, RemainTaken, Zenon
      <4>3. Remain(U, a + A, todo, wire, rest)
        BY <4>2 DEF rest, From, Consumed
      <4> QED BY <1>4, <3>2, <3>5, <4>3 DEF From
    <3>9. \A j \in 1..u : w[j] = PlainUnit(m, k, b + g + j)
      <4> SUFFICES ASSUME NEW j \in 1..u PROVE w[j] = PlainUnit(m, k, b + g + j)
        OBVIOUS
      <4>1. j \in 1..Len(kept) /\ g + j \in 1..y /\ j \in 1..(y - g) /\ b + (g + j) = b + g + j
        BY <1>6, <1>13, <1>16, <3>1
      <4>2. w[j] = kept[j] /\ kept[j] = q[g + j] /\ q[g + j] = PlainUnit(m, k, b + (g + j))
        BY <1>6, <1>14, <3>4, <4>1, Zenon DEF Glued, Piece, Part
      <4> QED BY <4>1, <4>2
    <3>10. fb'.phase = (g + u) % MaskLen
      <4>1. g + u = y
        BY <1>6, <1>13
      <4> QED BY <1>3, <1>12, <4>1
    <3> HIDE DEF c, u
    <3>11. Onward(U, K, B, X, c)
      <4>1. fb'.in = TRUE /\ fb'.left = p - g /\ fb'.mask = m.masked
        BY <1>3, <1>6, <1>18, <2>7
      <4>2. X[c + 1] = HeadOf(msgs[K[c + 1]]) + g + 1 /\ g < PartOf(mode, msgs[K[c + 1]], B[c + 1])
        BY <3>1, <3>3 DEF h, p
      <4>3. fb'.left = PartOf(mode, msgs[K[c + 1]], B[c + 1]) - g /\ fb'.mask = msgs[K[c + 1]].masked
        BY <3>3, <4>1 DEF p
      <4>4. /\ SmallFrom(msgs, mode, K[c + 1]) /\ Dealt(mode, msgs, done, K[c + 1] - 1)
            /\ Delivered(K[c + 1], B[c + 1] + g)
        BY <1>7, <2>4, <3>3
      <4>5. \A j \in 1..u : fb'.buf[j] = PlainUnit(msgs[K[c + 1]], K[c + 1], B[c + 1] + g + j)
        BY <3>3, <3>4, <3>9
      <4>6. /\ u <= Len(fb'.buf) /\ u <= fb'.left /\ (u = Len(fb'.buf) \/ u = fb'.left)
            /\ IsSeq(fb'.buf) /\ Len(fb'.buf) <= FrameBuf
            /\ Remain(U, c + u, todo', wire', SubSeq(fb'.buf, u + 1, Len(fb'.buf)))
            /\ u < fb'.left => SizeOf(mode, msgs[K[c + 1]], B[c + 1]) > FrameBuf
        BY <3>3, <3>4, <3>6, <3>7, <3>8, <4>1 DEF s
      <4> HIDE DEF m, k, b
      <4> QED BY <1>7, <1>13, <2>1, <2>7, <3>1, <3>2, <3>10, <4>1, <4>2, <4>3, <4>4, <4>5, <4>6, MidFrame
    <3>12. After(U, K, B, X)
      BY <2>7, <3>11, Zenon DEF After
    <3> QED BY <1>3, <3>12
  <2> QED BY <2>5, <2>6, <2>7
<1> QED BY <1>19, <1>20
-----------------------------------------------------------------------------
(* More of a frame.                                                        *)

\* Inside a frame, d units of it delivered and u more in the buffer.
InsideIs(U, K, B, X, a, d, u) ==
    LET m == msgs[K[a + 1]]
        k == K[a + 1]
        b == B[a + 1]
        h == HeadOf(m)
        p == PartOf(mode, m, b)
    IN  /\ h \in 2..3 /\ p \in Nat /\ b \in Nat /\ b + p <= Payload(mode, m) /\ Payload(mode, m) \in Nat
        /\ SizeOf(mode, m, b) = h + p /\ m.masked \in BOOLEAN
        /\ d < p /\ fb.left = p - d /\ fb.mask = m.masked
        /\ X[a + 1] = h + d + 1
        /\ AsksSome(m, b + d)

LEMMA InsideNow ==
    ASSUME MessagesFit, Speaking, NEW U, NEW K, NEW B, NEW X, NEW a, Now(U, K, B, X, a), NEW d \in Nat, NEW u,
           Inside(mode, msgs, fb, todo, wire, taken, skip, U, K, B, X, a, d, u)
    PROVE  InsideIs(U, K, B, X, a, d, u) /\ a + 1 \in 1..Len(U)
<1> DEFINE m == msgs[K[a + 1]]
           k == K[a + 1]
           b == B[a + 1]
           h == HeadOf(m)
           p == PartOf(mode, m, b)
<1>1. Stream(mode, msgs, U, K, B, X) /\ a \in Nat /\ Len(U) \in Nat
  BY NowIs
<1>2. /\ a < Len(U) /\ X[a + 1] = h + d + 1 /\ fb.left = p - d /\ fb.mask = m.masked
      /\ Took(mode, m, taken, skip, k, b + d)
  BY Zenon DEF Inside
<1>3. a + 1 \in 1..Len(U)
  BY <1>1, <1>2
<1>4. UnitIs(mode, msgs, U, K, B, X, a + 1)
  BY <1>1, <1>3, StreamUnit, Zenon
<1>5. /\ h \in 2..3 /\ p \in Nat /\ b \in Nat /\ b + p <= Payload(mode, m) /\ Payload(mode, m) \in Nat
      /\ SizeOf(mode, m, b) = h + p /\ m.masked \in BOOLEAN /\ X[a + 1] \in 1..SizeOf(mode, m, b)
      /\ Measured(mode, m)
  BY <1>4, Zenon DEF UnitIs, FrameIs, Measured
<1>6. b + d \in Nat
  BY <1>5
<1>7. AsksSome(m, b + d)
  <2>1. mode = "text" \/ mode = "qap"
    BY DEF Speaking
  <2> HIDE DEF m, b, k
  <2> QED BY <1>2, <1>5, <1>6, <2>1, WantedOf, Zenon
<1>8. d < p
  <2> HIDE DEF h, p
  <2> QED BY <1>2, <1>5
<1> QED BY <1>2, <1>3, <1>5, <1>7, <1>8, Zenon DEF InsideIs

LEMMA BufferDelivered ==
    ASSUME MessagesFit, Speaking, IsFrame(fb), NEW U, NEW K, NEW B, NEW X, NEW a, Now(U, K, B, X, a), WsBuffered
    PROVE  After(U, K, B, X) /\ IsFrame(fb')
<1>1. fb.in
  BY DEF WsBuffered
<1>2. PICK e \in Nat, u \in Nat : Inside(mode, msgs, fb, todo, wire, taken, skip, U, K, B, X, a, e, u)
  BY <1>1, NowInside, Zenon
<1> DEFINE m == msgs[K[a + 1]]
           k == K[a + 1]
           b == B[a + 1]
           h == HeadOf(m)
           p == PartOf(mode, m, b)
           s == SizeOf(mode, m, b)
           g == Smaller(Wanted, Smaller(Len(fb.buf), fb.left))
           rest == From(fb.buf, g)
           d == SubSeq(fb.buf, 1, g)
<1>3. /\ fb.buf # <<>>
      /\ fb' = [fb EXCEPT !.buf = rest, !.left = fb.left - g, !.in = fb.left > g]
      /\ Deliver(d, fb.left > g) /\ wire' = wire
  BY DEF WsBuffered
<1>4. /\ IsFrame(fb') /\ fb'.buf = rest /\ fb'.in = (fb.left > g) /\ fb'.left = fb.left - g
      /\ fb'.mask = fb.mask /\ fb'.phase = fb.phase
  BY <1>3 DEF IsFrame
<1>5. UNCHANGED <<mode, todo, msgs>> /\ wire' = wire
  BY <1>3, Zenon DEF Deliver
<1>6. InsideIs(U, K, B, X, a, e, u) /\ a + 1 \in 1..Len(U)
  BY <1>2, InsideNow, Zenon
<1>7. /\ h \in 2..3 /\ p \in Nat /\ b \in Nat /\ b + p <= Payload(mode, m) /\ Payload(mode, m) \in Nat
      /\ s = h + p /\ e < p /\ fb.left = p - e /\ fb.mask = m.masked
      /\ X[a + 1] = h + e + 1 /\ AsksSome(m, b + e)
  BY <1>6 DEF InsideIs
<1>8. /\ IsSeq(fb.buf) /\ e > 0
      /\ u <= Len(fb.buf) /\ u <= fb.left /\ (u = Len(fb.buf) \/ u = fb.left)
      /\ Remain(U, a + u, todo, wire, SubSeq(fb.buf, u + 1, Len(fb.buf))) /\ Len(fb.buf) <= FrameBuf
      /\ u < fb.left => s > FrameBuf
      /\ ~skip => /\ fb.phase = (e + u) % MaskLen
                  /\ \A i \in 1..u : fb.buf[i] = PlainUnit(m, k, b + e + i)
      /\ Took(mode, m, taken, skip, k, b + e)
  BY <1>2 DEF Inside
<1>9. /\ Stream(mode, msgs, U, K, B, X) /\ a \in Nat /\ Len(U) \in Nat /\ IsSeq(U) /\ a \in 0..Len(U)
      /\ SmallFrom(msgs, mode, k) /\ Dealt(mode, msgs, done, k - 1)
  BY NowIs
<1>10. Wanted \in Nat /\ Wanted > 0
  BY <1>7 DEF AsksSome
<1>11. Len(fb.buf) \in Nat /\ Len(fb.buf) > 0
  <2>1. Len(fb.buf) \in Nat
    BY <1>8, SeqLen
  <2>2. Len(fb.buf) # 0
    BY <1>3, <1>8, EmptyIs
  <2> QED BY <2>1, <2>2
<1> HIDE DEF s, h, p
<1>12. u > 0 /\ Smaller(Len(fb.buf), fb.left) = u
  BY <1>7, <1>8, <1>11 DEF Smaller
<1>13. g \in 0..u /\ g \in Nat /\ g <= Wanted /\ g > 0
  <2>1. \A w \in Nat : w > 0 => Smaller(w, u) \in 0..u /\ Smaller(w, u) \in Nat /\ Smaller(w, u) <= w /\ Smaller(w, u) > 0
    BY <1>12 DEF Smaller
  <2> QED BY <1>10, <1>12, <2>1
<1> HIDE DEF g
<1>14. /\ g <= p - e /\ (fb.left > g <=> e + g < p) /\ e + g <= p /\ e + g \in Nat
       /\ g <= Len(fb.buf) /\ g \in 0..Len(fb.buf)
  BY <1>7, <1>8, <1>11, <1>13
<1>15. Piece(d, fb.buf, 0, g) /\ Piece(rest, fb.buf, g, Len(fb.buf))
  BY <1>8, <1>14, Foremost, Hindmost
<1> HIDE DEF d
<1>16. /\ IsSeq(d) /\ Len(d) = g /\ IsSeq(rest) /\ Len(rest) = Len(fb.buf) - g
       /\ \A i \in 1..g : d[i] = fb.buf[i]
       /\ \A i \in 1..(Len(fb.buf) - g) : rest[i] = fb.buf[g + i]
  <2>1. \A i \in 1..g : i \in 1..(g - 0) /\ 0 + i = i
    BY <1>13
  <2>2. IsSeq(d) /\ Len(d) = g - 0 /\ \A i \in 1..(g - 0) : d[i] = fb.buf[0 + i]
    BY <1>15, Zenon DEF Piece
  <2>3. \A i \in 1..g : d[i] = fb.buf[i]
    BY <2>1, <2>2
  <2> QED BY <1>13, <1>15, <2>2, <2>3 DEF Piece
<1>17. Delivered(k, b + e + g)
  <2>1. Gives(d, m, k, b + e, g, skip)
    <3>1. ASSUME ~skip PROVE Part(d, m, k, b + e, g)
      <4>1. \A i \in 1..g : i \in 1..u
        BY <1>13
      <4> QED BY <1>8, <1>16, <3>1, <4>1, Zenon DEF Part
    <3> QED BY <1>16, <3>1, Zenon DEF Gives
  <2>2. (fb.left > g) \in BOOLEAN
    BY <1>7, <1>13
  <2>3. e + g <= PartOf(mode, m, b) /\ ((fb.left > g) <=> e + g < PartOf(mode, m, b))
    BY <1>14 DEF p
  <2> QED BY <1>3, <1>6, <1>8, <1>13, <2>1, <2>2, <2>3, Given
<1>18. CASE ~open'
  <2>1. done' = done
    BY <1>17, <1>18 DEF Delivered, Speaking
  <2>2. After(U, K, B, X)
    BY <1>9, <1>18, <2>1, Broken, Zenon
  <2> QED BY <1>4, <2>2
<1> DEFINE v == u - g
<1>19. v \in Nat /\ g + v = u /\ v <= Len(rest)
  BY <1>8, <1>13, <1>16
<1>20. From(rest, v) = From(fb.buf, u)
  BY <1>8, <1>13, <1>19, BackTwice
<1> HIDE DEF rest
<1>21. Remain(U, a + u, todo', wire', From(rest, v))
  BY <1>5, <1>8, <1>20 DEF From
<1>22. CASE open' /\ ~(e + g < p)
  <2>1. g = u /\ v = 0 /\ e + g = p
    BY <1>7, <1>8, <1>13, <1>14, <1>22
  <2>2. From(rest, 0) = rest
    BY <1>16, BackOfGlued, EmptyLen, EmptyFront
  <2>3. Remain(U, a + 1 + (g - 1), todo', wire', fb'.buf) /\ Len(fb'.buf) <= FrameBuf
    <3>1. a + 1 + (g - 1) = a + u
      BY <1>9, <1>13, <2>1
    <3>2. Len(rest) <= FrameBuf
      BY <1>8, <1>11, <1>13, <1>16, Sizes
    <3> QED BY <1>4, <1>21, <2>1, <2>2, <3>1, <3>2
  <2>4. fb'.in = FALSE
    <3>1. (fb.left > g) = FALSE
      BY <1>7, <1>13, <1>14, <1>22
    <3> QED BY <1>4, <3>1, Zenon
  <2>5. Delivered(k, b + p)
    <3>1. b + e + g = b + p
      BY <1>7, <1>13, <2>1
    <3> QED BY <1>17, <3>1
  <2> DEFINE n == g - 1
  <2>6. n \in Nat /\ X[a + 1] + n = s
    BY <1>7, <1>13, <2>1
  <2>7. Remain(U, a + 1 + n, todo', wire', fb'.buf) /\ Len(fb'.buf) <= FrameBuf
    BY <2>3
  <2> HIDE DEF n
  <2>8. Onward(U, K, B, X, a + 1 + n)
    <3>1. Delivered(k, b + PartOf(mode, m, b)) /\ X[a + 1] + n = SizeOf(mode, m, b)
      BY <2>5, <2>6 DEF p, s
    <3> QED BY <1>6, <1>9, <1>22, <2>4, <2>6, <2>7, <3>1, AfterFrame
  <2>9. After(U, K, B, X)
    BY <1>22, <2>8, Zenon DEF After
  <2> QED BY <1>4, <2>9
<1>23. CASE open' /\ e + g < p
  <2> DEFINE c == a + g
             f == e + g
  <2>1. c \in Nat /\ f \in Nat /\ f > 0 /\ f < p /\ c + v = a + u
    BY <1>9, <1>13, <1>14, <1>19, <1>23
  <2>2. c < Len(U) /\ c + 1 = a + 1 + g /\ X[a + 1] + g <= s
    <3>1. a + 1 + (SizeOf(mode, m, b) - X[a + 1]) <= Len(U)
      BY <1>6, <1>9, FrameComplete
    <3>2. X[a + 1] + g <= s /\ a + 1 + (s - X[a + 1]) <= Len(U)
      BY <1>7, <1>13, <1>23, <3>1 DEF s
    <3>3. s - X[a + 1] = p - e - 1
      BY <1>7
    <3>4. a + p - e <= Len(U) /\ e + g < p /\ p \in Nat
      BY <1>7, <1>9, <1>23, <3>2, <3>3
    <3> HIDE DEF m, b
    <3>5. a + g < Len(U) /\ a + g + 1 = a + 1 + g
      BY <1>9, <1>13, <3>4
    <3> QED BY <3>2, <3>5
  <2>3. K[c + 1] = k /\ B[c + 1] = b /\ X[c + 1] = h + f + 1
    <3>1. a + 1 + g <= Len(U) + 1 /\ X[a + 1] + g <= SizeOf(mode, m, b)
      BY <1>9, <2>1, <2>2 DEF s
    <3>2. Further(K, B, X, a + 1, a + 1 + g, g)
      BY <1>6, <1>9, <1>13, <3>1, InTheFrame
    <3>3. K[c + 1] = k /\ B[c + 1] = b /\ X[c + 1] = X[a + 1] + g
      BY <2>2, <3>2 DEF Further
    <3> QED BY <1>7, <1>13, <3>3
  <2>4. ~skip' => /\ fb'.phase = (f + v) % MaskLen
                  /\ \A j \in 1..v : rest[j] = PlainUnit(m, k, b + f + j)
    <3> SUFFICES ASSUME ~skip' PROVE fb'.phase = (f + v) % MaskLen /\ \A j \in 1..v : rest[j] = PlainUnit(m, k, b + f + j)
      OBVIOUS
    <3>1. b + e + g # Payload(mode, m)
      BY <1>7, <1>13, <1>23
    <3>2. ~skip
      BY <1>17, <1>23, <3>1, Zenon DEF Delivered
    <3>3. f + v = e + u
      BY <1>13, <1>19
    <3>4. ASSUME NEW j \in 1..v PROVE rest[j] = PlainUnit(m, k, b + f + j)
      <4>1. j \in 1..(Len(fb.buf) - g) /\ g + j \in 1..u /\ b + e + (g + j) = b + f + j
        <5>1. j \in Nat /\ j > 0 /\ g + j <= u
          BY <1>13, <1>19
        <5>2. u <= Len(fb.buf) /\ b \in Nat
          BY <1>7, <1>8
        <5> HIDE DEF m, b
        <5> QED BY <1>11, <1>13, <5>1, <5>2
      <4>2. fb.buf[g + j] = PlainUnit(m, k, b + e + (g + j))
        BY <1>8, <3>2, <4>1, Zenon
      <4> QED BY <1>16, <4>1, <4>2
    <3> QED BY <1>4, <1>8, <3>2, <3>3, <3>4
  <2>5. v <= fb'.left /\ (v = Len(rest) \/ v = fb'.left) /\ (v < fb'.left => s > FrameBuf) /\ fb'.left = p - f
    BY <1>4, <1>7, <1>8, <1>11, <1>13, <1>16
  <2>6. Len(rest) <= FrameBuf
    BY <1>8, <1>11, <1>13, <1>16, Sizes
  <2>7. Delivered(k, b + f)
    <3>1. b + e + g = b + f
      BY <1>7, <1>13
    <3> QED BY <1>17, <3>1
  <2>8. Remain(U, c + v, todo', wire', SubSeq(rest, v + 1, Len(rest)))
    BY <1>21, <2>1 DEF From
  <2> HIDE DEF c, f
  <2>9. Onward(U, K, B, X, c)
    <3>1. fb'.in = TRUE
      BY <1>4, <1>14, <1>23
    <3>2. X[c + 1] = HeadOf(msgs[K[c + 1]]) + f + 1 /\ f < PartOf(mode, msgs[K[c + 1]], B[c + 1])
      BY <2>1, <2>3 DEF h, p
    <3>3. fb'.left = PartOf(mode, msgs[K[c + 1]], B[c + 1]) - f /\ fb'.mask = msgs[K[c + 1]].masked
      BY <1>4, <1>7, <2>3, <2>5 DEF p
    <3>4. /\ SmallFrom(msgs, mode, K[c + 1]) /\ Dealt(mode, msgs, done, K[c + 1] - 1)
          /\ Delivered(K[c + 1], B[c + 1] + f)
      BY <1>9, <2>3, <2>7
    <3>5. ~skip' => /\ fb'.phase = (f + v) % MaskLen
                    /\ \A j \in 1..v : fb'.buf[j] = PlainUnit(msgs[K[c + 1]], K[c + 1], B[c + 1] + f + j)
      BY <1>4, <2>3, <2>4
    <3>6. /\ v <= Len(fb'.buf) /\ v <= fb'.left /\ (v = Len(fb'.buf) \/ v = fb'.left)
          /\ IsSeq(fb'.buf) /\ Len(fb'.buf) <= FrameBuf
          /\ Remain(U, c + v, todo', wire', SubSeq(fb'.buf, v + 1, Len(fb'.buf)))
          /\ v < fb'.left => SizeOf(mode, msgs[K[c + 1]], B[c + 1]) > FrameBuf
      BY <1>4, <1>16, <1>19, <2>3, <2>5, <2>6, <2>8 DEF s
    <3> HIDE DEF m, k, b, v
    <3> QED BY <1>9, <1>19, <1>23, <2>1, <2>2, <3>1, <3>2, <3>3, <3>4, <3>5, <3>6, MidFrame DEF v
  <2>10. After(U, K, B, X)
    BY <1>23, <2>9, Zenon DEF After
  <2> QED BY <1>4, <2>10
<1> QED BY <1>18, <1>22, <1>23
LEMMA UnmaskLen ==
    ASSUME NEW q, IsSeq(q), NEW ph, NEW x \in BOOLEAN
    PROVE  IsSeq(Unmask(q, ph, x)) /\ Len(Unmask(q, ph, x)) = Len(q)
<1> DEFINE P(i) == DoMask(q[i], (ph + i - 1) % MaskLen)
           t == [i \in 1..Len(q) |-> P(i)]
<1>1. Len(q) \in Nat /\ DOMAIN q = 1..Len(q)
  BY SeqLen
<1>2. CASE ~x
  BY <1>2 DEF Unmask
<1>3. CASE x
  <2>1. Unmask(q, ph, x) = t
    BY <1>1, <1>3 DEF Unmask
  <2> HIDE DEF P
  <2>2. t \in Seq({P(i) : i \in 1..Len(q)}) /\ Len(t) = Len(q)
    BY <1>1
  <2>3. IsSeq(t)
    BY <2>2 DEF IsSeq
  <2> QED BY <2>1, <2>2, <2>3
<1> QED BY <1>2, <1>3

\* The phase is a remainder.
LEMMA PhaseOf ==
    ASSUME NEW q, IsSeq(q), NEW m, NEW k, NEW n, NEW e \in Nat, Masked(q, m, k, n, e)
    PROVE  Masked(q, m, k, n, e % MaskLen)
<1>1. Len(q) \in Nat /\ MaskLen \in Nat \ {0}
  BY SeqLen, Sizes
<1>2. ASSUME NEW j \in 1..Len(q) PROVE ((e % MaskLen) + j - 1) % MaskLen = (e + j - 1) % MaskLen
  <2>1. j - 1 \in Nat /\ e % MaskLen \in Nat
    BY <1>1, Remainder
  <2>2. ((e % MaskLen) + (j - 1)) % MaskLen = (e + (j - 1)) % MaskLen
    BY <1>1, <2>1, RemainderFirst
  <2>3. (e % MaskLen) + j - 1 = (e % MaskLen) + (j - 1) /\ e + j - 1 = e + (j - 1)
    <3> DEFINE c == e % MaskLen
    <3>1. c \in Nat
      BY <2>1
    <3> HIDE DEF c
    <3>2. c + j - 1 = c + (j - 1) /\ e + j - 1 = e + (j - 1)
      BY <1>1, <3>1
    <3> QED BY <3>2 DEF c
  <2> QED BY <2>2, <2>3
<1> QED BY <1>2, Zenon DEF Masked

LEMMA NetworkDelivered ==
    ASSUME MessagesFit, Speaking, IsFrame(fb), NEW U, NEW K, NEW B, NEW X, NEW a, Now(U, K, B, X, a), WsContinued
    PROVE  After(U, K, B, X) /\ IsFrame(fb')
<1>1. fb.in
  BY DEF WsContinued
<1>2. PICK e \in Nat, u \in Nat : Inside(mode, msgs, fb, todo, wire, taken, skip, U, K, B, X, a, e, u)
  BY <1>1, NowInside, Zenon
<1> DEFINE m == msgs[K[a + 1]]
           k == K[a + 1]
           b == B[a + 1]
           h == HeadOf(m)
           p == PartOf(mode, m, b)
           s == SizeOf(mode, m, b)
           W == Smaller(FrameBuf, Len(wire))
           r == SubSeq(wire, 1, W)
           g == Smaller(Wanted, Smaller(Len(r), fb.left))
           q == SubSeq(r, 1, g)
           d == Unmask(q, fb.phase, fb.mask)
           x == SubSeq(r, 1, Len(r) - g)
<1>3. /\ fb.buf = <<>> /\ wire # <<>>
      /\ fb' = [fb EXCEPT !.buf = x, !.left = fb.left - g, !.in = fb.left > g, !.phase = (fb.phase + g) % MaskLen]
      /\ Deliver(d, fb.left > g) /\ wire' = From(wire, Len(r))
  BY DEF WsContinued
<1>4. /\ IsFrame(fb') /\ fb'.buf = x /\ fb'.in = (fb.left > g) /\ fb'.left = fb.left - g
      /\ fb'.mask = fb.mask /\ fb'.phase = (fb.phase + g) % MaskLen
  <2> HIDE DEF g, x
  <2> QED BY <1>3 DEF IsFrame
<1>5. UNCHANGED <<mode, todo, msgs>>
  BY <1>3, Zenon DEF Deliver
<1>6. InsideIs(U, K, B, X, a, e, u) /\ a + 1 \in 1..Len(U)
  BY <1>2, InsideNow, Zenon
<1>7. /\ h \in 2..3 /\ p \in Nat /\ b \in Nat /\ b + p <= Payload(mode, m) /\ Payload(mode, m) \in Nat
      /\ s = h + p /\ e < p /\ fb.left = p - e /\ fb.mask = m.masked /\ m.masked \in BOOLEAN
      /\ X[a + 1] = h + e + 1 /\ AsksSome(m, b + e)
  BY <1>6 DEF InsideIs
<1>8. /\ e > 0 /\ u <= Len(fb.buf)
      /\ Remain(U, a + u, todo, wire, SubSeq(fb.buf, u + 1, Len(fb.buf)))
      /\ u < fb.left => s > FrameBuf
      /\ ~skip => fb.phase = (e + u) % MaskLen
      /\ Took(mode, m, taken, skip, k, b + e)
  BY <1>2, Zenon DEF Inside
<1>9. /\ Stream(mode, msgs, U, K, B, X) /\ a \in Nat /\ Len(U) \in Nat /\ IsSeq(U) /\ a \in 0..Len(U)
      /\ SmallFrom(msgs, mode, k) /\ Dealt(mode, msgs, done, k - 1)
  BY NowIs
<1>10. Wanted \in Nat /\ Wanted > 0
  BY <1>7, Zenon DEF AsksSome
<1>11. u = 0 /\ s > FrameBuf /\ Remain(U, a, todo, wire, <<>>) /\ (~skip => fb.phase = e % MaskLen)
  <2>1. u = 0
    BY <1>3, <1>8, EmptyLen
  <2>2. a + u = a /\ e + u = e /\ u < fb.left
    BY <1>7, <1>9, <2>1
  <2>3. SubSeq(fb.buf, u + 1, Len(fb.buf)) = <<>>
    <3>1. 0 \in 0..Len(<<>>) /\ u \in 0..Len(fb.buf)
      BY <1>3, <2>1, EmptyLen
    <3>2. Piece(From(fb.buf, u), fb.buf, u, Len(fb.buf))
      BY <1>3, <3>1, EmptyLen, Hindmost
    <3>3. IsSeq(From(fb.buf, u)) /\ Len(From(fb.buf, u)) = 0
      BY <1>3, <2>1, <3>2, EmptyLen DEF Piece
    <3> QED BY <3>3, EmptyIs DEF From
  <2> QED BY <1>8, <2>1, <2>2, <2>3
<1>12. IsSeq(wire) /\ Len(wire) \in Nat /\ Len(wire) > 0 /\ a + Len(wire) <= Len(U)
  <2>1. /\ IsSeq(wire) /\ Len(wire) \in Nat /\ Len(todo) \in Nat
        /\ a + Len(<<>>) + Len(wire) + Len(todo) = Len(U)
    BY <1>11, RemainLens
  <2>2. Len(wire) # 0
    BY <1>3, <2>1, EmptyIs
  <2> QED BY <1>9, <2>1, <2>2, EmptyLen
<1>13. Len(wire) <= fb.left
  <2>1. Len(U) <= a + 1 + (SizeOf(mode, m, b) - X[a + 1])
    BY <1>6, <1>9, <1>11, LastFrame
  <2>2. SizeOf(mode, m, b) - X[a + 1] = p - e - 1
    <3>1. s - X[a + 1] = p - e - 1
      <4> HIDE DEF s, h, p
      <4> QED BY <1>7
    <3> QED BY <3>1
  <2> HIDE DEF p, m, b
  <2> QED BY <1>7, <1>9, <1>12, <2>1, <2>2
<1> HIDE DEF s, h, p
<1>14. W \in 0..Len(wire) /\ W \in Nat /\ W > 0 /\ W <= FrameBuf /\ W <= fb.left
  BY <1>7, <1>12, <1>13, Sizes DEF Smaller
<1> HIDE DEF W
<1>15. IsSeq(r) /\ Len(r) = W /\ \A i \in 1..W : r[i] = wire[i]
  <2>1. Piece(r, wire, 0, W)
    BY <1>12, <1>14, Foremost
  <2>2. \A i \in 1..W : i \in 1..(W - 0) /\ 0 + i = i
    BY <1>14
  <2> HIDE DEF r
  <2>3. IsSeq(r) /\ Len(r) = W - 0 /\ \A i \in 1..(W - 0) : r[i] = wire[0 + i]
    BY <2>1, Zenon DEF Piece
  <2> QED BY <1>14, <2>2, <2>3
<1> HIDE DEF r
<1>16. Smaller(Len(r), fb.left) = W
  BY <1>7, <1>14, <1>15 DEF Smaller
<1>17. g \in 0..W /\ g \in Nat /\ g <= Wanted /\ g > 0 /\ (g < W => g = Wanted)
  <2>1. \A w \in Nat : w > 0 => /\ Smaller(w, W) \in 0..W /\ Smaller(w, W) \in Nat /\ Smaller(w, W) <= w
                                /\ Smaller(w, W) > 0 /\ (Smaller(w, W) < W => Smaller(w, W) = w)
    BY <1>14 DEF Smaller
  <2> QED BY <1>10, <1>16, <2>1
<1> HIDE DEF g
<1>18. (fb.left > g <=> e + g < p) /\ e + g <= p /\ e + g \in Nat
  BY <1>7, <1>14, <1>17
<1>19. IsSeq(q) /\ Len(q) = g /\ Slice(q, U, a)
  <2>1. g \in 0..Len(r)
    BY <1>15, <1>17
  <2>2. Piece(q, r, 0, g)
    BY <1>15, <2>1, Foremost
  <2> HIDE DEF q
  <2>3. IsSeq(q) /\ Len(q) = g - 0 /\ \A i \in 1..(g - 0) : q[i] = r[0 + i]
    BY <2>2, Zenon DEF Piece
  <2>4. IsSeq(q) /\ Len(q) = g
    BY <1>17, <2>3
  <2>5. a + Len(q) <= Len(U)
    BY <1>9, <1>12, <1>14, <1>17, <2>4
  <2>6. ASSUME NEW i \in 1..Len(q) PROVE q[i] = U[a + i]
    <3>1. i \in 1..(g - 0) /\ 0 + i = i /\ i \in 1..W /\ i \in 1..Len(wire)
      BY <1>12, <1>14, <1>17, <2>4
    <3>2. Slice(wire, U, a + Len(<<>>)) /\ a + Len(<<>>) = a
      BY <1>9, <1>11, EmptyLen DEF Remain
    <3>3. wire[i] = U[a + i]
      BY <3>1, <3>2, Zenon DEF Slice
    <3> QED BY <1>15, <2>3, <3>1, <3>3
  <2> QED BY <2>4, <2>5, <2>6, Zenon DEF Slice
<1>20. Masked(q, m, k, b + e, e)
  <2>1. a + 1 + 0 - 1 = a /\ X[a + 1] + 0 = h + e + 1 /\ h + e + Len(q) <= s
    <3>1. Len(q) = g
      BY <1>19, Zenon
    <3> DEFINE l == Len(q)
               y == X[a + 1]
    <3>2. l = g /\ y = h + e + 1
      BY <1>7, <3>1
    <3> HIDE DEF q, l, y, m, b, k
    <3>3. a + 1 + 0 - 1 = a
      BY <1>9
    <3>4. y + 0 = h + e + 1
      BY <1>7, <3>2
    <3>5. h + e + l <= s
      BY <1>7, <1>17, <1>18, <3>2
    <3> QED BY <3>3, <3>4, <3>5 DEF l, y
  <2>2. Slice(q, U, a + 1 + 0 - 1) /\ X[a + 1] + 0 = HeadOf(m) + e + 1 /\ HeadOf(m) + e + Len(q) <= SizeOf(mode, m, b)
    BY <1>19, <2>1 DEF h, s
  <2>3. 0 \in Nat
    OBVIOUS
  <2> HIDE DEF q
  <2> QED BY <1>6, <1>9, <1>19, <2>2, <2>3, MaskedUnits, Zenon
<1> HIDE DEF q
<1>21. Gives(d, m, k, b + e, g, skip)
  <2>1. IsSeq(d) /\ Len(d) = g
    BY <1>7, <1>19, UnmaskLen
  <2>2. ASSUME ~skip PROVE Part(d, m, k, b + e, g)
    <3>1. Masked(q, m, k, b + e, fb.phase)
      <4>1. fb.phase = e % MaskLen
        BY <1>11, <2>2
      <4>2. Masked(q, m, k, b + e, e % MaskLen)
        BY <1>19, <1>20, PhaseOf
      <4> QED BY <4>1, <4>2
    <3>2. fb.phase \in Nat /\ b + e \in Nat
      <4>1. fb.phase = e % MaskLen /\ MaskLen \in Nat \ {0}
        BY <1>11, <2>2, Sizes
      <4>2. e % MaskLen \in 0..(MaskLen - 1)
        BY <4>1, Remainder
      <4>3. fb.phase \in Nat
        BY <4>1, <4>2
      <4> QED BY <1>7, <4>3
    <3>3. Part(Unmask(q, fb.phase, m.masked), m, k, b + e, Len(q))
      <4> DEFINE n == b + e
      <4>1. n \in Nat /\ Masked(q, m, k, n, fb.phase) /\ m.masked \in BOOLEAN /\ IsSeq(q) /\ fb.phase \in Nat
        BY <1>7, <1>19, <3>1, <3>2
      <4> HIDE DEF n, m, b
      <4>2. Part(Unmask(q, fb.phase, m.masked), m, k, n, Len(q))
        BY <4>1, Unmasked
      <4> QED BY <4>2 DEF n
    <3> QED BY <1>7, <1>19, <3>3
  <2> HIDE DEF d
  <2> QED BY <2>1, <2>2, Zenon DEF Gives
<1> HIDE DEF d
<1>22. Delivered(k, b + e + g)
  <2>1. (fb.left > g) \in BOOLEAN
    BY <1>7, <1>17
  <2>2. e + g <= PartOf(mode, m, b) /\ ((fb.left > g) <=> e + g < PartOf(mode, m, b))
    BY <1>18 DEF p
  <2> QED BY <1>3, <1>6, <1>8, <1>17, <1>21, <2>1, <2>2, Given
<1>23. CASE ~open'
  <2>1. done' = done
    BY <1>22, <1>23 DEF Delivered, Speaking
  <2>2. After(U, K, B, X)
    BY <1>9, <1>23, <2>1, Broken, Zenon
  <2> QED BY <1>4, <2>2
<1>24. Remain(U, a + W, todo', wire', <<>>)
  <2>1. Remain(U, a + W, todo, SubSeq(wire, W + 1, Len(wire)), <<>>)
    BY <1>9, <1>11, <1>14, EmptyLen, RemainBody
  <2> QED BY <1>3, <1>5, <1>15, <2>1 DEF From
<1> DEFINE v == W - g
<1>25. IsSeq(x) /\ Len(x) = v /\ v \in Nat /\ v <= FrameBuf /\ From(x, v) = <<>>
  <2>1. v \in 0..Len(r) /\ v \in Nat /\ v = Len(r) - g /\ v <= FrameBuf
    BY <1>14, <1>15, <1>17, Sizes
  <2>2. Piece(x, r, 0, v)
    BY <1>15, <2>1, Foremost
  <2> HIDE DEF x, v
  <2>3. IsSeq(x) /\ Len(x) = v
    BY <2>1, <2>2 DEF Piece
  <2>4. v \in 0..Len(x)
    BY <2>1, <2>3
  <2>5. Piece(From(x, v), x, v, Len(x))
    BY <2>3, <2>4, Hindmost
  <2>6. IsSeq(From(x, v)) /\ Len(From(x, v)) = 0
    BY <2>1, <2>3, <2>5 DEF Piece
  <2> QED BY <2>1, <2>3, <2>6, EmptyIs
<1> HIDE DEF x
<1>26. CASE open' /\ ~(e + g < p)
  <2>1. g = W /\ v = 0 /\ e + g = p
    BY <1>7, <1>14, <1>17, <1>18, <1>26
  <2>2. x = <<>>
    BY <1>25, <2>1, EmptyIs
  <2> DEFINE n == g - 1
  <2>3. n \in Nat /\ X[a + 1] + n = s /\ a + 1 + n = a + W
    BY <1>7, <1>9, <1>17, <2>1
  <2>4. Remain(U, a + 1 + n, todo', wire', fb'.buf) /\ Len(fb'.buf) <= FrameBuf
    BY <1>4, <1>24, <1>25, <2>2, <2>3
  <2>5. fb'.in = FALSE
    <3>1. (fb.left > g) = FALSE
      BY <1>7, <1>17, <1>18, <1>26
    <3> QED BY <1>4, <3>1, Zenon
  <2>6. Delivered(k, b + p)
    <3>1. b + e + g = b + p
      BY <1>7, <1>17, <2>1
    <3> QED BY <1>22, <3>1
  <2> HIDE DEF n
  <2>7. Onward(U, K, B, X, a + 1 + n)
    <3>1. Delivered(k, b + PartOf(mode, m, b)) /\ X[a + 1] + n = SizeOf(mode, m, b)
      BY <2>3, <2>6 DEF p, s
    <3> QED BY <1>6, <1>9, <1>26, <2>3, <2>4, <2>5, <3>1, AfterFrame
  <2>8. After(U, K, B, X)
    BY <1>26, <2>7, Zenon DEF After
  <2> QED BY <1>4, <2>8
<1>27. CASE open' /\ e + g < p
  <2> DEFINE c == a + g
             f == e + g
  <2>1. c \in Nat /\ f \in Nat /\ f > 0 /\ f < p /\ c + v = a + W
    BY <1>9, <1>14, <1>17, <1>18, <1>27
  <2>2. c < Len(U) /\ c + 1 = a + 1 + g /\ X[a + 1] + g <= s
    <3>1. a + 1 + (SizeOf(mode, m, b) - X[a + 1]) <= Len(U)
      BY <1>6, <1>9, FrameComplete
    <3>2. X[a + 1] + g <= s /\ a + 1 + (s - X[a + 1]) <= Len(U)
      BY <1>7, <1>17, <1>27, <3>1 DEF s
    <3>3. s - X[a + 1] = p - e - 1
      BY <1>7
    <3>4. a + p - e <= Len(U) /\ e + g < p /\ p \in Nat
      BY <1>7, <1>9, <1>27, <3>2, <3>3
    <3> HIDE DEF m, b
    <3>5. a + g < Len(U) /\ a + g + 1 = a + 1 + g
      BY <1>9, <1>17, <3>4
    <3> QED BY <3>2, <3>5
  <2>3. K[c + 1] = k /\ B[c + 1] = b /\ X[c + 1] = h + f + 1
    <3>1. a + 1 + g <= Len(U) + 1 /\ X[a + 1] + g <= SizeOf(mode, m, b)
      BY <1>9, <2>1, <2>2 DEF s
    <3>2. Further(K, B, X, a + 1, a + 1 + g, g)
      BY <1>6, <1>9, <1>17, <3>1, InTheFrame
    <3>3. K[c + 1] = k /\ B[c + 1] = b /\ X[c + 1] = X[a + 1] + g
      BY <2>2, <3>2 DEF Further
    <3> QED BY <1>7, <1>17, <3>3
  <2>4. Delivered(k, b + f)
    <3>1. b + e + g = b + f
      BY <1>7, <1>17
    <3> QED BY <1>22, <3>1
  <2>5. ~skip' => v = 0 /\ fb'.phase = (f + v) % MaskLen
    <3> SUFFICES ASSUME ~skip' PROVE v = 0 /\ fb'.phase = (f + v) % MaskLen
      OBVIOUS
    <3>1. b + f # Payload(mode, m) /\ b + f \in Nat /\ b + f > 0
      BY <1>7, <2>1
    <3>2. ~skip /\ Took(mode, m, taken', skip', k, b + f)
      BY <1>27, <2>4, <3>1, Zenon DEF Delivered
    <3>3. g = W
      <4>1. CASE mode = "text"
        <5>1. b + f < TextBuf
          BY <3>1, <3>2, <4>1 DEF Took
        <5>2. Wanted = TextBuf - (b + e)
          BY <1>7, <3>2, <4>1, Zenon DEF AsksSome
        <5>3. b + f = b + e + g
          BY <1>7, <1>17
        <5> QED BY <1>7, <1>14, <1>17, <5>1, <5>2, <5>3, Sizes
      <4>2. CASE mode = "qap"
        <5>1. b + e > 0
          BY <1>7, <1>8
        <5>2. Wanted = Payload(mode, m) - (b + e)
          BY <1>7, <3>2, <4>2, <5>1, Zenon DEF AsksSome
        <5>3. Wanted >= p - e
          BY <1>7, <5>2
        <5> QED BY <1>7, <1>14, <1>17, <5>3
      <4> QED BY <4>1, <4>2 DEF Speaking
    <3>4. v = 0
      BY <1>17, <3>3
    <3>5. fb'.phase = ((e % MaskLen) + g) % MaskLen
      BY <1>4, <1>11, <3>2
    <3>6. ((e % MaskLen) + g) % MaskLen = (e + g) % MaskLen
      <4>1. MaskLen \in Nat \ {0}
        BY Sizes
      <4> QED BY <1>17, <4>1, RemainderFirst, Zenon
    <3>7. f + v = e + g
      BY <1>17, <3>4
    <3> QED BY <3>4, <3>5, <3>6, <3>7
  <2>6. v <= fb'.left /\ s > FrameBuf /\ fb'.left = p - f
    BY <1>4, <1>7, <1>11, <1>14, <1>17
  <2>7. Remain(U, c + v, todo', wire', SubSeq(x, v + 1, Len(x)))
    BY <1>24, <1>25, <2>1 DEF From
  <2>8. ~skip' => \A j \in 1..v : x[j] = PlainUnit(m, k, b + f + j)
    <3>1. 1..0 = {}
      OBVIOUS
    <3> QED BY <2>5, <3>1
  <2> HIDE DEF c, f, v
  <2>9. Onward(U, K, B, X, c)
    <3>1. fb'.in = TRUE
      BY <1>4, <1>18, <1>27
    <3>2. X[c + 1] = HeadOf(msgs[K[c + 1]]) + f + 1 /\ f < PartOf(mode, msgs[K[c + 1]], B[c + 1])
      BY <2>1, <2>3 DEF h, p
    <3>3. fb'.left = PartOf(mode, msgs[K[c + 1]], B[c + 1]) - f /\ fb'.mask = msgs[K[c + 1]].masked
      BY <1>4, <1>7, <2>3, <2>6 DEF p
    <3>4. /\ SmallFrom(msgs, mode, K[c + 1]) /\ Dealt(mode, msgs, done, K[c + 1] - 1)
          /\ Delivered(K[c + 1], B[c + 1] + f)
      BY <1>9, <2>3, <2>4
    <3>5. ~skip' => /\ fb'.phase = (f + v) % MaskLen
                    /\ \A j \in 1..v : fb'.buf[j] = PlainUnit(msgs[K[c + 1]], K[c + 1], B[c + 1] + f + j)
      BY <1>4, <2>3, <2>5, <2>8
    <3>6. /\ v <= Len(fb'.buf) /\ v <= fb'.left /\ (v = Len(fb'.buf) \/ v = fb'.left)
          /\ IsSeq(fb'.buf) /\ Len(fb'.buf) <= FrameBuf
          /\ Remain(U, c + v, todo', wire', SubSeq(fb'.buf, v + 1, Len(fb'.buf)))
          /\ v < fb'.left => SizeOf(mode, msgs[K[c + 1]], B[c + 1]) > FrameBuf
      BY <1>4, <1>25, <2>3, <2>6, <2>7 DEF s
    <3> HIDE DEF m, k, b
    <3> QED BY <1>9, <1>25, <1>27, <2>1, <2>2, <3>1, <3>2, <3>3, <3>4, <3>5, <3>6, MidFrame
  <2>10. After(U, K, B, X)
    BY <1>27, <2>9, Zenon DEF After
  <2> QED BY <1>4, <2>10
<1> QED BY <1>23, <1>26, <1>27

-----------------------------------------------------------------------------
(* The network, the client and the end of the connection.                  *)

LEMMA EndContinues ==
    ASSUME MessagesFit, NEW U, NEW K, NEW B, NEW X, NEW a, Now(U, K, B, X, a), WsEnd
    PROVE  After(U, K, B, X)
<1>1. ~open' /\ done' = done
  BY Zenon DEF WsEnd, SessionEnds
<1> QED BY <1>1, NowIs, Broken

\* A stream has no ends of lines.
LEMMA NoCr ==
    ASSUME NEW md, NEW M, NEW U, NEW K, NEW B, NEW X, Stream(md, M, U, K, B, X), NEW b
    PROVE  Whole(U, b)
<1> SUFFICES ASSUME b \in 1..Len(U) PROVE U[b].k # "CR"
  BY DEF Whole
<1>1. U[b] = FrameUnit(md, M[K[b]], K[b], B[b], X[b])
  BY Zenon DEF Stream
<1>2. U[b].k \in {"type", "len", "key", "data"}
  BY <1>1 DEF FrameUnit, Unit
<1> QED BY <1>2

\* Units of a stream arrive one by one.
LEMMA UnitArrives ==
    ASSUME NEW U, NEW K, NEW B, NEW X, Stream(mode, msgs, U, K, B, X), Arrives,
           NEW c \in Nat, NEW l, Remain(U, c, todo, wire, l)
    PROVE  Remain(U, c, todo', wire', l)
<1> DEFINE n == IF todo[1].k = "CR" /\ ~SplitEol THEN 2 ELSE 1
           p == c + Len(l) + Len(wire)
<1>1. todo # <<>> /\ wire' = wire \o SubSeq(todo, 1, n) /\ todo' = SubSeq(todo, n + 1, Len(todo))
  BY DEF Arrives
<1>2. /\ IsSeq(todo) /\ Len(todo) \in Nat /\ Len(wire) \in Nat /\ Len(l) \in Nat
      /\ c + Len(l) + Len(wire) + Len(todo) = Len(U)
  BY RemainLens
<1>3. IsSeq(U) /\ Slice(todo, U, p)
  BY Zenon DEF Remain, Stream
<1>4. Len(todo) # 0
  BY <1>1, <1>2, EmptyIs
<1>5. 1 \in 1..Len(todo) /\ p + 1 \in 1..Len(U)
  BY <1>2, <1>4
<1>6. todo[1] = U[p + 1] /\ U[p + 1].k # "CR"
  <2>1. todo[1] = U[p + 1]
    BY <1>3, <1>5, Zenon DEF Slice
  <2>2. Whole(U, p + 1)
    BY NoCr, Zenon
  <2> QED BY <1>5, <2>1, <2>2, Zenon DEF Whole
<1>7. n = 1
  BY <1>6
<1> HIDE DEF n
<1>8. n \in 0..Len(todo)
  BY <1>2, <1>4, <1>7
<1>9. Whole(U, c + Len(l) + Len(wire) + n)
  BY NoCr, Zenon
<1>10. Remain(U, c, SubSeq(todo, n + 1, Len(todo)), wire \o SubSeq(todo, 1, n), l)
  BY <1>3, <1>8, <1>9, RemainArrives, Zenon
<1> QED BY <1>1, <1>10

LEMMA ArrivalContinues ==
    ASSUME NEW U, NEW K, NEW B, NEW X, NEW a, Now(U, K, B, X, a), Arrives, UNCHANGED wsVars
    PROVE  Onward(U, K, B, X, a)
<1>1. fb' = fb /\ taken' = taken /\ skip' = skip /\ done' = done
  BY DEF wsVars
<1>2. Stream(mode, msgs, U, K, B, X) /\ a \in Nat
  BY NowIs
<1>3. CASE ~fb.in
  <2>1. Between(mode, msgs, fb, todo, wire, taken, skip, U, K, B, X, a)
    BY <1>3, NowBetween, Zenon
  <2>2. Remain(U, a, todo', wire', fb.buf)
    <3>1. Remain(U, a, todo, wire, fb.buf)
      BY <2>1, Zenon DEF Between
    <3> QED BY <1>2, <3>1, UnitArrives, Zenon
  <2>3. Between(mode, msgs, fb', todo', wire', taken', skip', U, K, B, X, a)
    BY <1>1, <2>1, <2>2, Zenon DEF Between
  <2> QED BY <1>1, <2>3, Zenon DEF Now, Onward, ReadTo
<1>4. CASE fb.in
  <2>1. PICK d \in Nat, u \in Nat : Inside(mode, msgs, fb, todo, wire, taken, skip, U, K, B, X, a, d, u)
    BY <1>4, NowInside, Zenon
  <2> DEFINE l == SubSeq(fb.buf, u + 1, Len(fb.buf))
  <2>2. Remain(U, a + u, todo', wire', l)
    <3>1. Remain(U, a + u, todo, wire, l)
      BY <2>1, Zenon DEF Inside
    <3>2. a + u \in Nat
      BY <1>2
    <3> QED BY <1>2, <3>1, <3>2, UnitArrives, Zenon
  <2>3. Inside(mode, msgs, fb', todo', wire', taken', skip', U, K, B, X, a, d, u)
    BY <1>1, <2>1, <2>2, Zenon DEF Inside
  <2> QED BY <1>1, <2>3, Zenon DEF Now, Onward, ReadTo
<1> QED BY <1>3, <1>4

\* More is sent.
LEMMA RemainGrows ==
    ASSUME NEW U, IsSeq(U), NEW a \in Nat, NEW w, NEW l, Remain(U, a, <<>>, w, l), NEW F, IsSeq(F)
    PROVE  Remain(U \o F, a, F, w, l)
<1> DEFINE V == U \o F
           c == a + Len(l)
           e == a + Len(l) + Len(w)
<1>1. Glued(V, U, F)
  BY Glue, Zenon
<1> HIDE DEF V
<1>2. /\ IsSeq(V) /\ Len(V) = Len(U) + Len(F) /\ Len(U) \in Nat /\ Len(F) \in Nat
      /\ \A i \in 1..Len(U) : V[i] = U[i]
      /\ \A i \in 1..Len(F) : V[Len(U) + i] = F[i]
  BY <1>1, SeqLen DEF Glued
<1>3. /\ IsSeq(w) /\ IsSeq(l) /\ Len(w) \in Nat /\ Len(l) \in Nat /\ e = Len(U)
  <2>1. /\ IsSeq(w) /\ IsSeq(l) /\ Len(w) \in Nat /\ Len(l) \in Nat
        /\ a + Len(l) + Len(w) + Len(<<>>) = Len(U)
    BY RemainLens
  <2> QED BY <2>1, EmptyLen
<1>4. Slice(l, U, a) /\ Slice(w, U, c) /\ Whole(U, e)
  BY Zenon DEF Remain
<1>5. ASSUME NEW q, NEW b \in Nat, Slice(q, U, b) PROVE Slice(q, V, b)
  <2>1. IsSeq(q) /\ b + Len(q) <= Len(U) /\ Len(q) \in Nat /\ \A i \in 1..Len(q) : q[i] = U[b + i]
    BY <1>5, SeqLen DEF Slice
  <2>2. b + Len(q) <= Len(V) /\ \A i \in 1..Len(q) : b + i \in 1..Len(U)
    BY <1>2, <2>1
  <2>3. \A i \in 1..Len(q) : q[i] = V[b + i]
    BY <1>2, <2>1, <2>2, Zenon
  <2> QED BY <2>1, <2>2, <2>3, Zenon DEF Slice
<1>6. Slice(l, V, a) /\ Slice(w, V, c)
  <2>1. c \in Nat
    BY <1>3
  <2> QED BY <1>4, <1>5, <2>1, Zenon
<1>7. Slice(F, V, e)
  <2>1. e + Len(F) <= Len(V)
    BY <1>2, <1>3
  <2>2. \A i \in 1..Len(F) : F[i] = V[e + i]
    BY <1>2, <1>3, Zenon
  <2> QED BY <2>1, <2>2, Zenon DEF Slice
<1>8. Whole(V, e)
  <2> SUFFICES ASSUME e \in 1..Len(V) PROVE V[e].k # "CR"
    BY DEF Whole
  <2>1. e \in 1..Len(U)
    BY <1>2, <1>3
  <2> QED BY <1>2, <1>4, <2>1, Zenon DEF Whole
<1>9. e + Len(F) = Len(V)
  BY <1>2, <1>3
<1>10. Remain(V, a, F, w, l)
  BY <1>6, <1>7, <1>8, <1>9, Zenon DEF Remain
<1> QED BY <1>10 DEF V

\* What was dealt with is not changed by another message.
LEMMA DealtStays ==
    ASSUME NEW md, NEW M, IsSeq(M), NEW m, NEW dn, NEW k \in Nat, k <= Len(M), Dealt(md, M, dn, k)
    PROVE  Dealt(md, Append(M, m), dn, k)
<1> DEFINE N == Append(M, m)
<1>1. Longer(N, M, m)
  BY AppendSeq, Zenon
<1> HIDE DEF N
<1>2. Len(M) \in Nat /\ \A i \in 1..Len(M) : N[i] = M[i]
  BY <1>1, SeqLen DEF Longer
<1>3. ASSUME NEW j \in 0..k PROVE AdmittedTo(md, N, j) = AdmittedTo(md, M, j)
  <2>1. \A i \in 1..j : N[i] = M[i]
    BY <1>2
  <2> QED BY <2>1 DEF AdmittedTo, Admits
<1>4. k \in 0..k /\ \A j \in 1..k : j \in 0..k /\ N[j] = M[j]
  BY <1>2
<1>5. IsSeq(dn) /\ Cardinality(AdmittedTo(md, N, k)) = Len(dn)
  BY <1>3, <1>4, Zenon DEF Dealt
<1>6. ASSUME NEW i \in 1..Len(dn)
      PROVE  \E j \in 1..k : /\ Admits(md, N[j]) /\ Part(dn[i], N[j], j, 0, Payload(md, N[j]))
                             /\ Cardinality(AdmittedTo(md, N, j)) = i
  <2>1. PICK j \in 1..k : /\ Admits(md, M[j]) /\ Part(dn[i], M[j], j, 0, Payload(md, M[j]))
                          /\ Cardinality(AdmittedTo(md, M, j)) = i
    BY Zenon DEF Dealt
  <2>2. N[j] = M[j] /\ AdmittedTo(md, N, j) = AdmittedTo(md, M, j)
    BY <1>3, <1>4, Zenon
  <2> QED BY <2>1, <2>2, Zenon
<1>7. Dealt(md, N, dn, k)
  BY <1>5, <1>6, Zenon DEF Dealt
<1> QED BY <1>7 DEF N

\* Only the last message may be too long for the frame buffer, also when there is one more.
LEMMA SmallStays ==
    ASSUME MessagesFit, Speaking, NEW U, NEW K, NEW B, NEW X, NEW a, Now(U, K, B, X, a),
           NEW m \in Messages, ClientMessage(m)
    PROVE  SmallFrom(Append(msgs, m), mode, K[a + 1])
<1> DEFINE N == Append(msgs, m)
<1>1. IsSeq(msgs) /\ Stream(mode, msgs, U, K, B, X) /\ Len(msgs) \in Nat /\ a \in Nat /\ Len(U) \in Nat
  BY NowIs DEF Stream
<1>2. Longer(N, msgs, m)
  BY <1>1, AppendSeq, Zenon
<1> HIDE DEF N
<1>3. Len(N) - 1 = Len(msgs) /\ \A j \in 1..(Len(N) - 1) : j \in 1..Len(msgs) /\ N[j] = msgs[j]
  BY <1>1, <1>2 DEF Longer
<1>4. todo = <<>> /\ (\/ \A i \in DOMAIN msgs : FitsBuffer(msgs[i])
                      \/ wire = <<>> /\ fb.buf = <<>> /\ ~fb.in)
  BY Zenon DEF ClientMessage
<1>5. CASE \A i \in DOMAIN msgs : FitsBuffer(msgs[i])
  <2>1. \A j \in 1..(Len(N) - 1) : Payload(mode, N[j]) + 3 <= FrameBuf
    <3>1. DOMAIN msgs = 1..Len(msgs)
      BY <1>1, SeqLen
    <3> QED BY <1>3, <1>5, <3>1, Zenon DEF FitsBuffer, PayloadLen, Payload
  <2>2. SmallFrom(N, mode, K[a + 1])
    BY <2>1, Zenon DEF SmallFrom
  <2> QED BY <2>2 DEF N
<1>6. CASE wire = <<>> /\ fb.buf = <<>> /\ ~fb.in
  <2>1. Remain(U, a, <<>>, <<>>, <<>>)
    <3>1. Between(mode, msgs, fb, todo, wire, taken, skip, U, K, B, X, a)
      BY <1>6, NowBetween, Zenon
    <3> QED BY <1>4, <1>6, <3>1, Zenon DEF Between
  <2>2. a = Len(U)
    <3>1. a + Len(<<>>) + Len(<<>>) + Len(<<>>) = Len(U)
      BY <2>1, RemainLens
    <3> QED BY <1>1, <3>1, EmptyLen
  <2>3. K[a + 1] = Len(msgs) + 1
    BY <1>1, <2>2 DEF Stream
  <2>4. SmallFrom(N, mode, K[a + 1])
    <3>1. \A j \in 1..(Len(N) - 1) : ~(j >= K[a + 1])
      BY <1>1, <1>3, <2>3
    <3> QED BY <3>1, Zenon DEF SmallFrom
  <2> QED BY <2>4 DEF N
<1> QED BY <1>4, <1>5, <1>6

\* The session reads on, and there is more to read.
LEMMA MessageSent ==
    ASSUME MessagesFit, Speaking, NEW U, NEW K, NEW B, NEW X, NEW a, Now(U, K, B, X, a),
           NEW m \in Messages, ClientMessage(m)
    PROVE  \E V, K2, B2, X2 :
              ReadTo(mode, msgs', fb', todo', wire', taken', skip', done', V, K2, B2, X2, a)
<1> DEFINE N == Append(msgs, m)
           F == Frames(Len(msgs) + 1, m)
           V == U \o F
<1>1. /\ msgs' = N /\ todo' = F /\ todo = <<>>
      /\ UNCHANGED <<mode, wire, fb, taken, skip, done>>
  BY DEF ClientMessage
<1>2. /\ Stream(mode, msgs, U, K, B, X) /\ a \in Nat /\ a <= Len(U) /\ Len(U) \in Nat
      /\ Len(msgs) \in Nat /\ Dealt(mode, msgs, done, K[a + 1] - 1)
      /\ IsSeq(U) /\ IsSeq(msgs)
  BY NowIs DEF Stream
<1>3. SentAs(mode, m, Len(msgs) + 1, F) /\ IsSeq(F)
  <2>1. SentAs(mode, m, Len(msgs) + 1, F)
    BY FramesShape
  <2> QED BY <2>1 DEF SentAs
<1>4. SmallFrom(N, mode, K[a + 1])
  BY SmallStays
<1>5. Longer(N, msgs, m)
  BY <1>2, AppendSeq, Zenon
<1> HIDE DEF F
<1>6. PICK K2, B2, X2 : /\ Stream(mode, N, V, K2, B2, X2)
                        /\ \A i \in 1..(Len(U) + 1) : K2[i] = K[i] /\ B2[i] = B[i] /\ X2[i] = X[i]
  BY <1>2, <1>3, StreamGrows
<1>7. K2[a + 1] = K[a + 1] /\ B2[a + 1] = B[a + 1] /\ X2[a + 1] = X[a + 1]
  <2>1. a + 1 \in 1..(Len(U) + 1)
    BY <1>2
  <2> QED BY <1>6, <2>1, Zenon
<1>8. K[a + 1] \in 1..(Len(msgs) + 1)
  BY <1>2, MessageNumber
<1>9. a \in 0..Len(V) /\ Len(U) <= Len(V)
  <2>1. Glued(V, U, F)
    BY <1>2, <1>3, Glue, Zenon
  <2>2. Len(V) = Len(U) + Len(F) /\ Len(F) \in Nat
    BY <1>3, <2>1, SeqLen DEF Glued
  <2> HIDE DEF V
  <2> QED BY <1>2, <2>2
<1>10. SmallFrom(N, mode, K2[a + 1]) /\ Dealt(mode, N, done, K2[a + 1] - 1)
  <2>1. K[a + 1] - 1 \in Nat /\ K[a + 1] - 1 <= Len(msgs)
    BY <1>2, <1>8
  <2>2. Dealt(mode, N, done, K[a + 1] - 1)
    BY <1>2, <2>1, DealtStays, Zenon
  <2> QED BY <1>4, <1>7, <2>2
\* A message that was begun is one of those before.
<1>11. CASE a < Len(U)
  <2>1. N[K[a + 1]] = msgs[K[a + 1]]
    <3>1. a + 1 \in 1..Len(U)
      BY <1>2, <1>11
    <3>2. K[a + 1] \in 1..Len(msgs)
      BY <1>2, <3>1, Zenon DEF Stream, Within
    <3> QED BY <1>5, <3>2, Zenon DEF Longer
  <2>2. CASE ~fb.in
    <3>1. Between(mode, msgs, fb, todo, wire, taken, skip, U, K, B, X, a)
      BY <2>2, NowBetween, Zenon
    <3>2. Remain(V, a, F, wire, fb.buf)
      <4>1. Remain(U, a, <<>>, wire, fb.buf)
        BY <1>1, <3>1, Zenon DEF Between
      <4> QED BY <1>2, <1>3, <4>1, RemainGrows, Zenon
    <3>3. Between(mode, N, fb, F, wire, taken, skip, V, K2, B2, X2, a)
      BY <1>7, <2>1, <3>1, <3>2, Zenon DEF Between
    <3>4. ReadTo(mode, N, fb, F, wire, taken, skip, done, V, K2, B2, X2, a)
      BY <1>6, <1>9, <1>10, <3>3, Zenon DEF ReadTo
    <3> QED BY <1>1, <3>4, Zenon
  <2>3. CASE fb.in
    <3>1. PICK d \in Nat, u \in Nat : Inside(mode, msgs, fb, todo, wire, taken, skip, U, K, B, X, a, d, u)
      BY <2>3, NowInside, Zenon
    <3> DEFINE l == SubSeq(fb.buf, u + 1, Len(fb.buf))
    <3>2. Remain(V, a + u, F, wire, l)
      <4>1. Remain(U, a + u, <<>>, wire, l)
        BY <1>1, <3>1, Zenon DEF Inside
      <4>2. a + u \in Nat
        BY <1>2
      <4> HIDE DEF l
      <4> QED BY <1>2, <1>3, <4>1, <4>2, RemainGrows, Zenon
    <3>3. a < Len(V)
      BY <1>2, <1>9, <1>11
    <3>4. Inside(mode, N, fb, F, wire, taken, skip, V, K2, B2, X2, a, d, u)
      BY <1>7, <2>1, <3>1, <3>2, <3>3, Zenon DEF Inside
    <3>5. ReadTo(mode, N, fb, F, wire, taken, skip, done, V, K2, B2, X2, a)
      BY <1>6, <1>9, <1>10, <3>4, Zenon DEF ReadTo
    <3> QED BY <1>1, <3>5, Zenon
  <2> QED BY <2>2, <2>3
\* Otherwise everything is read, and nothing of a message.
<1>12. CASE ~(a < Len(U))
  <2>1. a = Len(U)
    BY <1>2, <1>12
  <2>2. K[a + 1] = Len(msgs) + 1 /\ B[a + 1] = 0 /\ X[a + 1] = 1
    BY <1>2, <2>1 DEF Stream
  <2>3. ~fb.in
    <3>1. ASSUME NEW d, NEW u, Inside(mode, msgs, fb, todo, wire, taken, skip, U, K, B, X, a, d, u) PROVE FALSE
      BY <1>12, <3>1, Zenon DEF Inside
    <3> QED BY <3>1, NowInside, Zenon
  <2>4. Between(mode, msgs, fb, todo, wire, taken, skip, U, K, B, X, a)
    BY <2>3, NowBetween, Zenon
  <2>5. Remain(V, a, F, wire, fb.buf)
    <3>1. Remain(U, a, <<>>, wire, fb.buf)
      BY <1>1, <2>4, Zenon DEF Between
    <3> QED BY <1>2, <1>3, <3>1, RemainGrows, Zenon
  <2>6. Took(mode, N[K2[a + 1]], taken, skip, K2[a + 1], B2[a + 1])
    <3>1. Took(mode, msgs[K[a + 1]], taken, skip, K[a + 1], 0)
      BY <2>2, <2>4, Zenon DEF Between
    <3>2. taken = <<>> /\ skip = FALSE
      <4>1. \A y : ~(0 \in 1..y)
        OBVIOUS
      <4> QED BY <3>1, <4>1, Zenon DEF Took
    <3> QED BY <1>7, <2>2, <3>2, NothingTaken, Zenon
  <2>7. Between(mode, N, fb, F, wire, taken, skip, V, K2, B2, X2, a)
    BY <1>7, <2>2, <2>4, <2>5, <2>6, Zenon DEF Between
  <2>8. ReadTo(mode, N, fb, F, wire, taken, skip, done, V, K2, B2, X2, a)
    BY <1>6, <1>9, <1>10, <2>7, Zenon DEF ReadTo
  <2> QED BY <1>1, <2>8, Zenon
<1> QED BY <1>11, <1>12

-----------------------------------------------------------------------------
(* The session.                                                            *)

Sessions == {"text", "qap"}

\* Nothing was sent to a session yet.
Fresh == msgs = <<>> /\ fb = NewSession /\ taken = <<>> /\ skip = FALSE /\ done = <<>>

\* A session whose client closed the connection before anything arrived.
Dumb == eof /\ wire = <<>> /\ Fresh

Talking == \E U, K, B, X, a : Now(U, K, B, X, a)

AreMessages(M) == IsSeq(M) /\ \A k \in 1..Len(M) : M[k] \in Messages

InSession ==
    IF open THEN IsFrame(fb) /\ (Dumb \/ Talking)
    ELSE AreMessages(msgs) /\ \E n \in Nat : n <= Len(msgs) /\ Dealt(mode, msgs, done, n)

LEMMA NewFrame == IsFrame(NewSession) /\ NewSession.buf = <<>> /\ NewSession.in = FALSE
  BY DEF IsFrame, NewSession

\* After a step of a session that has something to read.
LEMMA SessionGoesOn ==
    ASSUME NEW U, NEW K, NEW B, NEW X, UNCHANGED <<mode, msgs>>, AreMessages(msgs),
           After(U, K, B, X), IsFrame(fb')
    PROVE  InSession'
<1>1. CASE open'
  <2>1. PICK a : Onward(U, K, B, X, a)
    BY <1>1, Zenon DEF After
  <2>2. ReadTo(mode', msgs', fb', todo', wire', taken', skip', done', U, K, B, X, a)
    BY <2>1 DEF Onward
  <2>3. Talking'
    BY <2>2, Zenon DEF Talking, Now
  <2> QED BY <1>1, <2>3, Zenon DEF InSession
<1>2. CASE ~open'
  <2>1. PICK n \in Nat : n <= Len(msgs) /\ Dealt(mode, msgs, done', n)
    BY <1>2, Zenon DEF After
  <2>2. n <= Len(msgs') /\ Dealt(mode', msgs', done', n) /\ AreMessages(msgs')
    BY <2>1
  <2> QED BY <1>2, <2>2, Zenon DEF InSession
<1> QED BY <1>1, <1>2

\* Nothing of a session that is not read from is given out.
LEMMA NothingDealt == ASSUME NEW md, NEW M PROVE Dealt(md, M, <<>>, 0)
<1>1. 1..0 = {} /\ AdmittedTo(md, M, 0) = {}
  BY DEF AdmittedTo
<1>2. Cardinality({}) = 0
  BY FS_EmptySet
<1> QED BY <1>1, <1>2, EmptyLen DEF Dealt

LEMMA SessionIs ==
    ASSUME InSession, Speaking
    PROVE  IsFrame(fb) /\ (Dumb \/ Talking)
  BY Zenon DEF InSession, Speaking

LEMMA ServerTalks ==
    ASSUME MessagesFit, InSession, WsRecv \/ WsFrame \/ WsBuffered \/ WsContinued \/ WsEnd
    PROVE  InSession' /\ mode' = mode
<1>1. Speaking
  BY Zenon DEF WsRecv, WsFrame, WsBuffered, WsContinued, WsEnd
<1>2. UNCHANGED <<mode, msgs>>
  BY DEF WsRecv, WsFrame, WsBuffered, WsContinued, WsEnd, Deliver
<1>3. CASE Dumb
  <2>1. /\ wire = <<>> /\ fb.buf = <<>> /\ fb.in = FALSE
        /\ msgs = <<>> /\ done = <<>>
    BY <1>3, NewFrame, Zenon DEF Dumb, Fresh
  <2>2. ~HasPayload
    BY <2>1, EmptyLen DEF HasPayload, HasHeader
  <2>3. WsEnd
    BY <2>1, <2>2, Zenon DEF WsRecv, WsFrame, WsBuffered, WsContinued
  <2>4. ~open' /\ done' = <<>> /\ msgs' = <<>>
    BY <1>2, <2>1, <2>3, Zenon DEF WsEnd, SessionEnds
  <2>5. 0 \in Nat /\ 0 <= Len(msgs') /\ Dealt(mode', msgs', done', 0) /\ AreMessages(msgs')
    BY <2>4, EmptyLen, NothingDealt DEF AreMessages
  <2>6. InSession'
    BY <2>4, <2>5, Zenon DEF InSession
  <2> QED BY <1>2, <2>6
<1>4. CASE Talking
  <2>1. PICK U, K, B, X, a : Now(U, K, B, X, a)
    BY <1>4, Zenon DEF Talking
  <2>2. AreMessages(msgs) /\ IsFrame(fb)
    BY <1>1, <2>1, NowIs, SessionIs DEF Stream, AreMessages
  <2>3. After(U, K, B, X) /\ IsFrame(fb')
    <3>1. CASE WsRecv
      BY <1>1, <2>1, <2>2, <3>1, RecvContinues
    <3>2. CASE WsFrame
      BY <1>1, <2>1, <2>2, <3>2, FrameDelivered
    <3>3. CASE WsBuffered
      BY <1>1, <2>1, <2>2, <3>3, BufferDelivered
    <3>4. CASE WsContinued
      BY <1>1, <2>1, <2>2, <3>4, NetworkDelivered
    <3>5. CASE WsEnd
      <4>1. fb' = fb
        BY <3>5 DEF WsEnd
      <4> QED BY <2>1, <2>2, <3>5, <4>1, EndContinues
    <3> QED BY <3>1, <3>2, <3>3, <3>4, <3>5
  <2>4. InSession'
    BY <1>2, <2>2, <2>3, SessionGoesOn, Zenon
  <2> QED BY <1>2, <2>4
<1> QED BY <1>1, <1>3, <1>4, SessionIs

\* What happens around the session.
LEMMA ClientTalks ==
    ASSUME MessagesFit, InSession, mode \in Sessions, Client
    PROVE  InSession' /\ mode' = mode
<1>1. CASE Arrives /\ UNCHANGED wsVars
  <2>1. UNCHANGED <<mode, open, msgs, fb, done, eof>> /\ todo # <<>> /\ ~eof
    BY <1>1 DEF Arrives, wsVars
  <2>2. CASE open
    <3>1. Talking /\ IsFrame(fb)
      BY <2>1, <2>2, Zenon DEF InSession, Dumb
    <3>2. PICK U, K, B, X, a : Now(U, K, B, X, a)
      BY <3>1, Zenon DEF Talking
    <3>3. After(U, K, B, X)
      <4>1. Onward(U, K, B, X, a)
        BY <1>1, <3>2, ArrivalContinues
      <4> QED BY <2>1, <2>2, <4>1, Zenon DEF After
    <3>4. AreMessages(msgs) /\ IsFrame(fb')
      BY <2>1, <3>1, <3>2, NowIs DEF Stream, AreMessages
    <3> QED BY <2>1, <3>3, <3>4, SessionGoesOn
  <2>3. CASE ~open
    <3>1. InSession'
      BY <2>1, <2>3 DEF InSession
    <3> QED BY <2>1, <3>1
  <2> QED BY <2>2, <2>3
<1>2. CASE ClientCloses /\ UNCHANGED wsVars
  <2>1. UNCHANGED <<mode, open, msgs, fb, done, wire, todo, taken, skip>> /\ ~eof
    BY <1>2 DEF ClientCloses, wsVars
  <2>2. CASE open
    <3>1. Talking /\ IsFrame(fb)
      BY <2>1, <2>2, Zenon DEF InSession, Dumb
    <3>2. Talking'
      BY <2>1, <3>1 DEF Talking, Now
    <3>3. open' /\ IsFrame(fb')
      BY <2>1, <2>2, <3>1
    <3>4. InSession'
      BY <3>2, <3>3, Zenon DEF InSession
    <3> QED BY <2>1, <3>4
  <2>3. CASE ~open
    <3>1. InSession'
      BY <2>1, <2>3 DEF InSession
    <3> QED BY <2>1, <3>1
  <2> QED BY <2>2, <2>3
<1>3. ASSUME NEW m \in Messages, ClientMessage(m) PROVE InSession' /\ mode' = mode
  <2>1. Speaking /\ open /\ ~eof /\ mode' = mode /\ open' = open /\ fb' = fb
    BY <1>3 DEF ClientMessage, Speaking
  <2>2. Talking /\ IsFrame(fb)
    BY <2>1, Zenon DEF InSession, Dumb
  <2>3. PICK U, K, B, X, a : Now(U, K, B, X, a)
    BY <2>2, Zenon DEF Talking
  <2>4. \E V, K2, B2, X2 :
           ReadTo(mode, msgs', fb', todo', wire', taken', skip', done', V, K2, B2, X2, a)
    BY <1>3, <2>1, <2>3, MessageSent
  <2>5. Talking'
    BY <2>1, <2>4 DEF Talking, Now
  <2>6. InSession'
    BY <2>1, <2>2, <2>5 DEF InSession
  <2> QED BY <2>1, <2>6
<1>4. ~(\E r \in Requests : ClientRequest(r)) /\ ~(\E r \in Handshakes : ClientHandshake(r))
  BY DEF ClientRequest, ClientHandshake, Handshaking, Sessions
<1> QED BY <1>1, <1>2, <1>3, <1>4, Zenon DEF Client, HttpClient

-----------------------------------------------------------------------------
(* How a session begins.                                                   *)

LEMMA NewTalk ==
    ASSUME NEW md
    PROVE  \E K, B, X : ReadTo(md, <<>>, NewSession, <<>>, <<>>, <<>>, FALSE, <<>>, <<>>, K, B, X, 0)
<1> DEFINE K == [i \in {1} |-> 1]
           B == [i \in {1} |-> 0]
           X == [i \in {1} |-> 1]
<1>1. K[1] = 1 /\ B[1] = 0 /\ X[1] = 1
  OBVIOUS
<1> HIDE DEF K, B, X
<1>2. Len(<<>>) = 0 /\ Len(<<>>) + 1 = 1 /\ 0 + 1 = 1 /\ 1 - 1 = 0 /\ 1..0 = {} /\ 0 \in 0..0 /\ 0 \in Nat
  BY EmptyLen
<1>3. Stream(md, <<>>, <<>>, K, B, X)
  BY <1>1, <1>2, EmptyLen DEF Stream
<1>4. Remain(<<>>, 0, <<>>, <<>>, <<>>)
  BY EmptyLen DEF Remain, Slice, Whole
<1>5. Between(md, <<>>, NewSession, <<>>, <<>>, <<>>, FALSE, <<>>, K, B, X, 0)
  <2>1. Took(md, <<>>[K[0 + 1]], <<>>, FALSE, K[0 + 1], B[0 + 1])
    BY <1>1, <1>2, NothingTaken, Zenon
  <2>2. Len(<<>>) <= FrameBuf
    BY EmptyLen, Sizes
  <2> QED BY <1>1, <1>2, <1>4, <2>1, <2>2, NewFrame, Zenon DEF Between
<1>6. SmallFrom(<<>>, md, K[0 + 1])
  BY EmptyLen DEF SmallFrom
<1>7. Dealt(md, <<>>, <<>>, K[0 + 1] - 1)
  BY <1>1, <1>2, NothingDealt, Zenon
<1>8. 0 \in 0..Len(<<>>)
  BY EmptyLen
<1>9. ReadTo(md, <<>>, NewSession, <<>>, <<>>, <<>>, FALSE, <<>>, <<>>, K, B, X, 0)
  BY <1>3, <1>5, <1>6, <1>7, <1>8, Zenon DEF ReadTo
<1> QED BY <1>9, Zenon

LEMMA SessionBegins ==
    ASSUME Fresh, UNCHANGED wsVars, wire' = <<>> /\ (todo' = <<>> \/ eof'), open'
    PROVE  InSession'
<1>1. /\ msgs' = <<>> /\ fb' = NewSession /\ taken' = <<>> /\ skip' = FALSE /\ done' = <<>>
      /\ IsFrame(fb')
  BY NewFrame DEF wsVars, Fresh
<1>2. CASE eof' /\ wire' = <<>>
  <2>1. Dumb'
    BY <1>1, <1>2 DEF Dumb, Fresh
  <2> QED BY <1>1, <2>1 DEF InSession
<1>3. CASE todo' = <<>> /\ wire' = <<>>
  <2>1. PICK K, B, X :
           ReadTo(mode', <<>>, NewSession, <<>>, <<>>, <<>>, FALSE, <<>>, <<>>, K, B, X, 0)
    BY NewTalk
  <2>2. ReadTo(mode', msgs', fb', todo', wire', taken', skip', done', <<>>, K, B, X, 0)
    BY <1>1, <1>3, <2>1
  <2>3. Talking'
    BY <2>2, Zenon DEF Talking, Now
  <2> QED BY <1>1, <2>3 DEF InSession
<1> QED BY <1>2, <1>3

\* The session, and before it there was none.
Talks == IF mode \in Sessions THEN InSession ELSE Fresh

LEMMA Switched ==
    ASSUME Fresh, mode \notin Sessions, open, NEW attr, Switch(attr),
           wire' = <<>> /\ (todo' = <<>> \/ eof')
    PROVE  Talks'
<1>1. UNCHANGED wsVars /\ (open' \/ mode' = "crashed")
  BY DEF Switch
<1>2. CASE open'
  <2>1. InSession'
    BY <1>1, <1>2, SessionBegins
  <2>2. Fresh'
    BY <1>1 DEF wsVars, Fresh
  <2> QED BY <2>1, <2>2 DEF Talks
<1>3. CASE mode' = "crashed"
  <2>1. Fresh'
    BY <1>1 DEF wsVars, Fresh
  <2> QED BY <1>3, <2>1 DEF Talks, Sessions
<1> QED BY <1>1, <1>2, <1>3

\* Everything of a request is read when it asks for an upgrade, or its client is gone.
LEMMA UpgradeTalks ==
    ASSUME RequestInv, AllFit, Fresh, HttpUpgrade PROVE Talks'
<1> DEFINE r == Current
           n == Len(r.headers)
<1>1. /\ Serving /\ req.url /\ Switch(req.attr) /\ UNCHANGED <<eof, sent, todo, wire>>
      /\ \/ AtEmptyLine /\ BadEnd = 0 /\ req.length = 0
         \/ req.part = "body" /\ req.bodyPos = req.length
         \/ ~parsing /\ wire = <<>> /\ eof
         \/ ~parsing /\ req.part # "body" /\ Room = 0
  BY DEF HttpUpgrade
<1>2. ~Idle
  BY <1>1, NothingThere, Parts
<1>3. /\ Len(sent) = Len(processed) + 1 /\ Current \in Requests /\ Reads(Current) /\ Fits(Current)
      /\ Len(Current.headers) \in Nat /\ Current.body \in Nat /\ Busy
  BY <1>1, <1>2, Reading, Zenon
<1>4. ASSUME NEW a \in Nat, a = 4 * n + 5 + r.body, NEW l, Remain(Units(r), a, todo, wire, l)
      PROVE  todo = <<>> /\ wire = <<>>
  <2>1. Nothing(todo, wire, l)
    BY <1>3, <1>4, AllRead, Zenon
  <2> QED BY <2>1, EmptyIs DEF Nothing
<1>5. wire = <<>> /\ (todo = <<>> \/ eof)
  <2>1. CASE AtEmptyLine /\ BadEnd = 0 /\ req.length = 0
    <3>1. HeadRead(Current)
      BY <2>1, AtEndOfHead, Zenon
    <3>2. /\ req = Known(r, "header", n, 0) /\ LengthOf(r, n) = r.body
          /\ Remain(Units(r), 4 * n + 5, todo, wire, AfterLine)
      BY <3>1, Zenon DEF HeadRead
    <3>3. r.body = 0
      BY <2>1, <3>2 DEF Known
    <3>4. 4 * n + 5 \in Nat /\ 4 * n + 5 = 4 * n + 5 + r.body
      BY <1>3, <3>3
    <3> HIDE DEF r, n
    <3> QED BY <1>4, <3>2, <3>4, Zenon
  <2>2. CASE req.part = "body" /\ req.bodyPos = req.length
    <3>1. PICK b \in 0..r.body : InBody(r, b)
      BY <1>3, <2>2, InBodyNow, Zenon
    <3>2. /\ req = Known(r, "body", n, b)
          /\ Remain(Units(r), 4 * n + 5 + b, todo, wire, lineBuf)
      BY <3>1, Zenon DEF InBody
    <3>3. b = r.body
      <4>1. LengthOf(r, n) = r.body
        BY <1>3, WholeLength, Zenon
      <4> QED BY <2>2, <3>2, <4>1 DEF Known
    <3>4. 4 * n + 5 + b \in Nat /\ 4 * n + 5 + b = 4 * n + 5 + r.body
      BY <1>3, <3>3
    <3> HIDE DEF r, n
    <3> QED BY <1>4, <3>2, <3>4, Zenon
  <2>3. CASE ~parsing /\ wire = <<>> /\ eof
    BY <2>3
  <2>4. CASE ~parsing /\ req.part # "body" /\ Room = 0
    <3>1. PICK k \in 0..Len(Current.headers) : InHead(Current, k)
      <4>1. ~Unread(Current)
        BY <1>1, Parts DEF Unread
      <4>2. ~\E b \in 0..Current.body : InBody(Current, b)
        BY <2>4, Parts DEF InBody
      <4> QED BY <1>3, <4>1, <4>2, Zenon DEF Reads
    <3>2. LineIs(IF k < Len(Current.headers) THEN 2 ELSE 0)
      BY <1>3, <3>1, AtHeaderLine, Zenon DEF InHead
    <3>3. NoEnd(lineBuf)
      BY <1>3, <2>4, Zenon DEF Busy
    <3>4. Len(lineBuf) <= IF k < Len(Current.headers) THEN 2 ELSE 0
      BY <3>2, <3>3, Zenon DEF LineIs
    <3>5. Len(lineBuf) \in Nat
      BY <3>1, RemainLens DEF InHead, Lines
    <3>6. FALSE
      BY <2>4, <3>4, <3>5, HttpAssumption DEF Room
    <3> QED BY <3>6
  <2> QED BY <1>1, <2>1, <2>2, <2>3, <2>4
<1>6. wire' = <<>> /\ (todo' = <<>> \/ eof')
  BY <1>1, <1>5
<1>7. open /\ mode \notin Sessions
  BY <1>1 DEF Serving, Sessions
<1> QED BY <1>1, <1>6, <1>7, Switched, Zenon

-----------------------------------------------------------------------------
(* The handshake.                                                          *)

\* r says which version of the protocol it speaks: 4 or later.
NamesVersion(r) == \E i \in 1..Len(r.headers) : r.headers[i].name = "version"

\* Clients of these versions wait for the answer before they go on.
HandshakesFit == \A r \in Handshakes : NamesVersion(r) => r.body = 0 /\ ShortLines(r)

Versioned(q) == \E i \in 1..Len(q) : q[i].k = "header" /\ q[i].v.name = "version"

\* The client sends no CR without the LF that belongs to it.
Queued ==
    /\ IsSeq(todo) /\ IsSeq(wire) /\ IsSeq(lineBuf)
    /\ Len(todo) > 0 => todo[Len(todo)].k # "CR"

\* A handshake of version 00 waits for its third key.
WaitsForKey == req.part = "key3" /\ ~parsing

\* One whose header has come in two parts goes nowhere.
CutHeader == Queued /\ Len(lineBuf) > 0 /\ lineBuf[1].k = "NUL"

\* Others have no version, and will get none.
NoVersion ==
    Queued /\ "version" \notin req.attr /\ ~Versioned(todo) /\ ~Versioned(wire) /\ ~Versioned(lineBuf)

\* Lines are read of a whole handshake r, from unit a on.
OfHandshake(r, a) ==
    /\ sent # <<>>
    /\ r.body = 0 /\ ShortLines(r) /\ a \in Nat
    /\ Remain(Units(r), a, todo, wire, lineBuf)
    /\ a > 0 => a <= Len(Units(r)) /\ Units(r)[a].k = "LF"

Shaking ==
    /\ DOMAIN req = Fields
    /\ WaitsForKey \/ CutHeader \/ NoVersion \/ \E r, a : OfHandshake(r, a)

\* The units that a handshake is made of.
UnitSet(r) ==
    {Unit("request", [method |-> r.method, http |-> r.http]), Unit("CR", 0), Unit("LF", 0), Unit("text", 0)}
    \cup {Unit("header", r.headers[i]) : i \in 1..Len(r.headers)}
    \cup {Unit("body", i) : i \in 1..r.body}

LEMMA JoinSeqs == ASSUME NEW S, NEW p \in Seq(S), NEW q \in Seq(S) PROVE p \o q \in Seq(S)
  OBVIOUS

LEMMA FlattenSeqs ==
    ASSUME NEW S, NEW seqs, IsSeq(seqs), \A i \in 1..Len(seqs) : seqs[i] \in Seq(S)
    PROVE  FlattenSeq(seqs) \in Seq(S)
<1>1. Len(seqs) \in Nat
  BY SeqLen
<1>2. CASE Len(seqs) = 0
  <2>1. FlattenSeq(seqs) = <<>>
    BY <1>2 DEF FlattenSeq
  <2> QED BY <2>1
<1>3. CASE Len(seqs) > 0
  <2> DEFINE F(g) == [i \in 1..Len(seqs) |-> IF i = 1 THEN seqs[i] ELSE g[i - 1] \o seqs[i]]
             f == CHOOSE g : g = F(g)
  <2>1. FlattenSeq(seqs) = f[Len(seqs)]
    BY <1>3 DEF FlattenSeq
  <2>2. \E g : g = F(g)
    BY <1>1, FlattenExists
  <2>3. f = F(f)
    BY <2>2
  <2> HIDE DEF f
  <2>4. \A i \in 1..Len(seqs) : f[i] = IF i = 1 THEN seqs[i] ELSE f[i - 1] \o seqs[i]
    BY <2>3
  <2> HIDE DEF F
  <2> DEFINE T == {k \in Nat : k \in 1..Len(seqs) /\ f[k] \notin Seq(S)}
  <2>5. ASSUME T # {} PROVE FALSE
    <3>1. PICK x \in T : \A y \in T : x <= y
      BY <2>5, LeastNat
    <3>2. x \in Nat /\ x \in 1..Len(seqs) /\ f[x] \notin Seq(S)
      OBVIOUS
    <3>3. x # 1
      <4>1. x = 1 => f[x] = seqs[x]
        BY <2>4, <3>2
      <4> QED BY <3>2, <4>1
    <3>4. x - 1 \in Nat /\ x - 1 \in 1..Len(seqs) /\ ~(x <= x - 1)
      BY <1>1, <3>2, <3>3
    <3>5. f[x - 1] \in Seq(S)
      BY <3>1, <3>4
    <3>6. f[x] = f[x - 1] \o seqs[x]
      BY <2>4, <3>2, <3>3
    <3> QED BY <3>2, <3>5, <3>6, JoinSeqs
  <2>6. Len(seqs) \in Nat /\ Len(seqs) \in 1..Len(seqs)
    BY <1>1, <1>3
  <2> QED BY <2>1, <2>5, <2>6
<1> QED BY <1>1, <1>2, <1>3

BodyUnits(r) == [i \in 1..r.body |-> Unit("body", i)]

LEMMA HeadIn ==
    ASSUME NEW r, Len(r.headers) \in Nat, r.body \in Nat
    PROVE  \E q \in Seq(UnitSet(r)) : Units(r) = q \o Eol \o BodyUnits(r)
<1> DEFINE S == UnitSet(r)
           u == Unit("request", [method |-> r.method, http |-> r.http])
           n == Len(r.headers)
           hs == [i \in 1..n |-> HeaderUnits(r.headers[i])]
           f == FlattenSeq(hs)
<1>1. /\ u \in S /\ Unit("CR", 0) \in S /\ Unit("LF", 0) \in S /\ Unit("text", 0) \in S
      /\ \A i \in 1..n : Unit("header", r.headers[i]) \in S
  BY DEF UnitSet
<1> HIDE DEF S, u
<1>2. <<u>> \in Seq(S) /\ Eol \in Seq(S)
  BY <1>1 DEF Eol
<1>3. ASSUME NEW i \in 1..n PROVE HeaderUnits(r.headers[i]) \in Seq(S)
  <2> DEFINE h == r.headers[i]
             l == IF h.name = "long" THEN LineBuf ELSE 1
             t == Filler(l)
             v == Unit("header", h)
  <2>1. v \in S
    BY <1>1
  <2>2. l \in Nat
    BY HttpAssumption
  <2> HIDE DEF l, v
  <2>3. t \in Seq(S)
    BY <1>1, <2>2 DEF Filler
  <2>4. <<v>> \in Seq(S)
    BY <2>1
  <2> DEFINE p == <<v>>
  <2> HIDE DEF t, p
  <2>5. p \o t \in Seq(S)
    BY <2>3, <2>4, JoinSeqs DEF p
  <2>6. p \o t \o Eol \in Seq(S)
    BY <1>2, <2>5, JoinSeqs
  <2>7. HeaderUnits(h) = p \o t \o Eol
    BY DEF HeaderUnits, p, t, l, v
  <2> QED BY <2>6, <2>7
<1>4. IsSeq(hs) /\ Len(hs) = n /\ \A i \in 1..n : hs[i] = HeaderUnits(r.headers[i])
  <2>1. hs \in Seq({HeaderUnits(r.headers[i]) : i \in 1..n}) /\ Len(hs) = n
    OBVIOUS
  <2> QED BY <2>1 DEF IsSeq
<1> HIDE DEF hs
<1>5. f \in Seq(S)
  BY <1>3, <1>4, FlattenSeqs
<1> DEFINE p == <<u>>
<1>6. p \in Seq(S)
  BY <1>2
<1> HIDE DEF f, p
<1>7. p \o Eol \in Seq(S)
  BY <1>2, <1>6, JoinSeqs
<1> DEFINE q == p \o Eol \o f
<1>8. q \in Seq(S)
  BY <1>5, <1>7, JoinSeqs
<1>9. Units(r) = q \o Eol \o BodyUnits(r)
  BY DEF Units, BodyUnits, q, p, f, hs, u, n
<1> HIDE DEF q
<1> QED BY <1>8, <1>9 DEF S

\* What a handshake ends with, and what it has no header for.
Handshake(r) ==
    /\ IsSeq(Units(r)) /\ Len(Units(r)) > 0
    /\ Units(r)[Len(Units(r))].k # "CR"
    /\ ~NamesVersion(r) => ~Versioned(Units(r))

LEMMA HandshakeUnits ==
    ASSUME NEW r, Len(r.headers) \in Nat, r.body \in Nat
    PROVE  Handshake(r)
<1> DEFINE S == UnitSet(r)
           b == BodyUnits(r)
           U == Units(r)
<1>1. PICK q \in Seq(S) : U = q \o Eol \o b
  BY HeadIn
<1>2. b \in Seq(S) /\ Len(b) = r.body /\ \A i \in 1..r.body : b[i].k = "body"
  <2>1. \A i \in 1..r.body : Unit("body", i) \in S /\ Unit("body", i).k = "body"
    BY DEF UnitSet, Unit
  <2> HIDE DEF S
  <2> QED BY <2>1 DEF BodyUnits
<1>3. Eol \in Seq(S)
  <2>1. Unit("CR", 0) \in S /\ Unit("LF", 0) \in S
    BY DEF UnitSet
  <2> HIDE DEF S
  <2> QED BY <2>1 DEF Eol
<1>4. \A x \in S : x.k = "header" => \E i \in 1..Len(r.headers) : x.v = r.headers[i]
  BY DEF UnitSet, Unit
<1> HIDE DEF S, U, b
<1> DEFINE c == q \o Eol
<1>5. c \in Seq(S)
  BY <1>3, JoinSeqs
<1>6. U = c \o b /\ U \in Seq(S)
  <2>1. U = c \o b
    BY <1>1
  <2> HIDE DEF c
  <2> QED BY <1>2, <1>5, <2>1, JoinSeqs
<1>7. Glued(c, q, Eol)
  <2>1. IsSeq(q)
    BY DEF IsSeq
  <2> QED BY <2>1, EolShape, Glue, Zenon
<1> HIDE DEF c
<1>8. IsSeq(c) /\ IsSeq(b) /\ IsSeq(q) /\ IsSeq(U)
  BY <1>2, <1>5, <1>6 DEF IsSeq
<1>9. Glued(U, c, b)
  BY <1>6, <1>8, Glue, Zenon
<1>10. /\ Len(q) \in Nat /\ Len(c) = Len(q) + 2 /\ c[Len(q) + 2].k = "LF"
       /\ Len(U) = Len(c) + r.body
       /\ \A i \in 1..Len(c) : U[i] = c[i]
       /\ \A i \in 1..r.body : U[Len(c) + i] = b[i]
  BY <1>2, <1>7, <1>8, <1>9, EolShape, SeqLen DEF Glued
<1>11. Len(U) > 0 /\ U[Len(U)].k # "CR"
  <2>1. CASE r.body = 0
    <3>1. Len(U) = Len(q) + 2 /\ Len(U) \in 1..Len(c)
      BY <1>10, <2>1
    <3>2. U[Len(U)] = c[Len(q) + 2]
      BY <1>10, <3>1
    <3> QED BY <1>10, <3>1, <3>2
  <2>2. CASE r.body # 0
    <3>1. r.body \in 1..r.body
      BY <2>2
    <3>2. U[Len(U)] = b[r.body]
      BY <1>10, <3>1
    <3> QED BY <1>2, <1>10, <3>1, <3>2
  <2> QED BY <2>1, <2>2
<1>12. ~NamesVersion(r) => ~Versioned(U)
  <2> SUFFICES ASSUME NEW i \in 1..Len(U), U[i].k = "header", U[i].v.name = "version" PROVE NamesVersion(r)
    BY DEF Versioned
  <2>1. U[i] \in S
    BY <1>6
  <2>2. PICK j \in 1..Len(r.headers) : U[i].v = r.headers[j]
    BY <1>4, <2>1
  <2>3. r.headers[j].name = "version"
    BY <2>2
  <2> QED BY <2>3, Zenon DEF NamesVersion
<1>13. IsSeq(U)
  BY <1>8
<1> QED BY <1>11, <1>12, <1>13 DEF Handshake, U

\* What is moved and dropped of units without a version.
Moves(a, t, p, q) ==
    /\ IsSeq(a) /\ IsSeq(t)
    /\ ~Versioned(p) /\ ~Versioned(q) => ~Versioned(a)
    /\ ~Versioned(q) => ~Versioned(t)
    /\ Len(p) > 0 => Len(a) > 0 /\ a[1] = p[1]
    /\ Len(q) > 0 /\ Len(t) > 0 => t[Len(t)] = q[Len(q)]

LEMMA MovesOn ==
    ASSUME NEW p, IsSeq(p), NEW q, IsSeq(q), NEW n \in 0..Len(q)
    PROVE  Moves(p \o SubSeq(q, 1, n), SubSeq(q, n + 1, Len(q)), p, q)
<1> DEFINE f == SubSeq(q, 1, n)
           t == SubSeq(q, n + 1, Len(q))
           a == p \o f
<1>1. Len(q) \in Nat /\ n \in Nat /\ n <= Len(q) /\ Len(p) \in Nat
  BY SeqLen
<1>2. Piece(f, q, 0, n)
  BY Foremost, Zenon
<1>3. Piece(t, q, n, Len(q))
  BY Hindmost, Zenon DEF From
<1> HIDE DEF f, t
<1>4. IsSeq(f) /\ Len(f) = n /\ \A i \in 1..n : f[i] = q[i]
  <2>1. n - 0 = n /\ \A i \in 1..n : 0 + i = i
    BY <1>1
  <2> QED BY <1>2, <2>1 DEF Piece
<1>5. IsSeq(t) /\ Len(t) = Len(q) - n /\ \A i \in 1..(Len(q) - n) : t[i] = q[n + i]
  BY <1>3, Zenon DEF Piece
<1>6. Glued(a, p, f)
  BY <1>4, Glue, Zenon
<1> HIDE DEF a
<1>7. /\ IsSeq(a) /\ Len(a) = Len(p) + n
      /\ \A i \in 1..Len(p) : a[i] = p[i]
      /\ \A i \in 1..n : a[Len(p) + i] = q[i]
  BY <1>4, <1>6 DEF Glued
<1>8. ASSUME ~Versioned(p), ~Versioned(q) PROVE ~Versioned(a)
  <2> SUFFICES ASSUME NEW i \in 1..Len(a), a[i].k = "header", a[i].v.name = "version" PROVE FALSE
    BY Zenon DEF Versioned
  <2>1. CASE i \in 1..Len(p)
    BY <1>7, <1>8, <2>1, Zenon DEF Versioned
  <2>2. CASE i \notin 1..Len(p)
    <3>1. i - Len(p) \in 1..n /\ Len(p) + (i - Len(p)) = i /\ i - Len(p) \in 1..Len(q)
      BY <1>1, <1>7, <2>2
    <3>2. a[i] = q[i - Len(p)]
      BY <1>7, <3>1, Zenon
    <3> QED BY <1>8, <3>1, <3>2, Zenon DEF Versioned
  <2> QED BY <2>1, <2>2
<1>9. ASSUME ~Versioned(q) PROVE ~Versioned(t)
  <2> SUFFICES ASSUME NEW i \in 1..Len(t), t[i].k = "header", t[i].v.name = "version" PROVE FALSE
    BY Zenon DEF Versioned
  <2>1. i \in 1..(Len(q) - n) /\ n + i \in 1..Len(q)
    BY <1>1, <1>5
  <2>2. t[i] = q[n + i]
    BY <1>5, <2>1, Zenon
  <2> QED BY <1>9, <2>1, <2>2, Zenon DEF Versioned
<1>10. Len(p) > 0 => Len(a) > 0 /\ a[1] = p[1]
  <2> SUFFICES ASSUME Len(p) > 0 PROVE Len(a) > 0 /\ a[1] = p[1]
    OBVIOUS
  <2>1. 1 \in 1..Len(p) /\ Len(a) > 0
    BY <1>1, <1>7
  <2> QED BY <1>7, <2>1, Zenon
<1>11. Len(q) > 0 /\ Len(t) > 0 => t[Len(t)] = q[Len(q)]
  <2> SUFFICES ASSUME Len(t) > 0 PROVE t[Len(t)] = q[Len(q)]
    OBVIOUS
  <2>1. Len(t) \in 1..(Len(q) - n) /\ n + Len(t) = Len(q)
    BY <1>1, <1>5
  <2> QED BY <1>5, <2>1, Zenon
<1>12. Moves(a, t, p, q)
  BY <1>5, <1>7, <1>8, <1>9, <1>10, <1>11, Zenon DEF Moves
<1> QED BY <1>12 DEF a, f, t

\* x is where the first LF or NUL of q is, 0 if it has none.
StopsAt(x, q) ==
    \/ x = 0 /\ \A i \in 1..Len(q) : ~IsLfOrNul(q[i])
    \/ x \in 1..Len(q) /\ IsLfOrNul(q[x]) /\ \A y \in 1..Len(q) : IsLfOrNul(q[y]) => x <= y

LEMMA FirstStop == ASSUME IsSeq(lineBuf) PROVE StopsAt(LfPos, lineBuf)
<1> DEFINE q == lineBuf
           I == {i \in 1..Len(q) : IsLfOrNul(q[i])}
           x == LfPos
<1>1. Len(q) \in Nat
  BY SeqLen
<1>2. x = IF I # {} THEN Min(I) ELSE 0
  BY DEF SelectInSeq, LfPos
<1>3. CASE I = {}
  <2>1. x = 0
    BY <1>2, <1>3
  <2>2. \A i \in 1..Len(q) : ~IsLfOrNul(q[i])
    BY <1>3
  <2> QED BY <2>1, <2>2, Zenon DEF StopsAt
<1>4. CASE I # {}
  <2>1. x = CHOOSE y \in I : \A z \in I : y <= z
    BY <1>2, <1>4 DEF Min
  <2>2. I \in SUBSET Nat
    BY <1>1
  <2>3. \E y \in I : \A z \in I : y <= z
    BY <1>4, <2>2, LeastNat
  <2>4. x \in I /\ \A z \in I : x <= z
    BY <2>1, <2>3
  <2>5. x \in 1..Len(q) /\ IsLfOrNul(q[x]) /\ \A y \in 1..Len(q) : IsLfOrNul(q[y]) => x <= y
    BY <2>4
  <2> QED BY <2>5, Zenon DEF StopsAt
<1> QED BY <1>3, <1>4

\* What unit p of a handshake without a body is.
Placed(U, n, p) ==
    \/ p = 1 /\ U[p].k = "request"
    \/ p = 4 * n + 4 /\ U[p].k = "CR"
    \/ p = 4 * n + 5 /\ U[p].k = "LF"
    \/ \E k \in 1..n : \/ p = 4 * k /\ U[p].k = "header"
                       \/ p = 4 * k + 1 /\ U[p].k = "text"
    \/ \E k \in 0..n : \/ p = 4 * k + 2 /\ U[p].k = "CR"
                       \/ p = 4 * k + 3 /\ U[p].k = "LF"

LEMMA Places ==
    ASSUME NEW r, ShortLines(r), r.body = 0, NEW U, Shape(U, r), NEW p \in 1..Len(U)
    PROVE  Placed(U, Len(r.headers), p)
<1> DEFINE n == Len(r.headers)
<1>1. n \in Nat
  BY DEF ShortLines
<1>2. /\ Len(U) = 4 * n + 5 /\ U[1].k = "request"
      /\ U[4 * n + 4].k = "CR" /\ U[4 * n + 5].k = "LF"
  <2>1. /\ Len(U) = 4 * n + 5 + r.body /\ U[1].k = "request"
        /\ U[4 * n + 4].k = "CR" /\ U[4 * n + 5].k = "LF"
    BY DEF Shape
  <2> HIDE DEF n
  <2>2. 4 * n + 5 + r.body = 4 * n + 5
    BY <1>1
  <2> QED BY <2>1, <2>2
<1>3. \A k \in 1..n : U[4 * k].k = "header" /\ U[4 * k + 1].k = "text"
  BY DEF Shape
<1>4. \A k \in 0..n : U[4 * k + 2].k = "CR" /\ U[4 * k + 3].k = "LF"
  BY DEF Shape
<1> HIDE DEF n
<1>5. CASE p = 1 \/ p = 4 * n + 4 \/ p = 4 * n + 5
  <2>1. Placed(U, n, p)
    BY <1>2, <1>5, Zenon DEF Placed
  <2> QED BY <2>1 DEF n
<1>6. CASE p # 1 /\ p < 4 * n + 4
  <2>1. PICK k \in Nat, o \in 0..3 : p = 4 * k + o
    <3>1. p \div 4 \in Nat /\ p % 4 \in 0..3 /\ p = 4 * (p \div 4) + (p % 4)
      BY <1>2
    <3> QED BY <3>1
  <2>2. k \in 0..n
    BY <1>1, <1>6, <2>1
  <2>3. Placed(U, n, p)
    <3>1. CASE o = 0 \/ o = 1
      <4>1. k \in 1..n
        BY <1>1, <1>2, <1>6, <2>1, <2>2, <3>1
      <4>2. p = 4 * k \/ p = 4 * k + 1
        BY <2>1, <3>1
      <4> QED BY <1>3, <4>1, <4>2, Zenon DEF Placed
    <3>2. CASE o = 2 \/ o = 3
      <4>1. p = 4 * k + 2 \/ p = 4 * k + 3
        BY <2>1, <3>2
      <4> QED BY <1>4, <2>2, <4>1, Zenon DEF Placed
    <3> QED BY <2>1, <3>1, <3>2
  <2> QED BY <2>3 DEF n
<1> QED BY <1>1, <1>2, <1>5, <1>6

\* A line ends before each header, and after the last of them there is an empty line.
AroundLf(U, p) ==
    /\ U[p].k \in {"request", "header", "text", "CR", "LF"}
    /\ U[p].k = "header" => p > 1 /\ U[p - 1].k = "LF"
    /\ U[p].k = "LF" /\ p < Len(U) =>
          U[p + 1].k = "header" \/ (U[p + 1].k = "CR" /\ p + 2 = Len(U))

LEMMA AroundLines ==
    ASSUME NEW r, ShortLines(r), r.body = 0, NEW U, Shape(U, r), NEW p \in 1..Len(U)
    PROVE  AroundLf(U, p)
<1> DEFINE n == Len(r.headers)
<1>1. n \in Nat
  BY DEF ShortLines
<1>2. Len(U) = 4 * n + 5 /\ U[4 * n + 4].k = "CR"
  <2>1. Len(U) = 4 * n + 5 + r.body /\ U[4 * n + 4].k = "CR"
    BY DEF Shape
  <2> HIDE DEF n
  <2>2. 4 * n + 5 + r.body = 4 * n + 5
    BY <1>1
  <2> QED BY <2>1, <2>2
<1>3. \A k \in 1..n : U[4 * k].k = "header"
  BY DEF Shape
<1>4. \A k \in 0..n : U[4 * k + 3].k = "LF"
  BY DEF Shape
<1>5. Placed(U, n, p)
  BY Places
<1> HIDE DEF n
<1>6. U[p].k \in {"request", "header", "text", "CR", "LF"}
  BY <1>5 DEF Placed
<1>7. ASSUME U[p].k = "header" PROVE p > 1 /\ U[p - 1].k = "LF"
  <2>1. PICK k \in 1..n : p = 4 * k
    BY <1>5, <1>7 DEF Placed
  <2>2. k - 1 \in 0..n /\ p - 1 = 4 * (k - 1) + 3 /\ p > 1
    BY <1>1, <2>1
  <2> QED BY <1>4, <2>2
<1>8. ASSUME U[p].k = "LF", p < Len(U) PROVE U[p + 1].k = "header" \/ (U[p + 1].k = "CR" /\ p + 2 = Len(U))
  <2>1. PICK k \in 0..n : p = 4 * k + 3
    <3>1. p # 4 * n + 5
      BY <1>2, <1>8
    <3> QED BY <1>5, <1>8, <3>1 DEF Placed
  <2>2. CASE k = n
    <3>1. p + 1 = 4 * n + 4 /\ p + 2 = 4 * n + 5
      BY <1>1, <2>1, <2>2
    <3> QED BY <1>2, <3>1
  <2>3. CASE k # n
    <3>1. k + 1 \in 1..n /\ p + 1 = 4 * (k + 1)
      BY <1>1, <2>1, <2>3
    <3> QED BY <1>3, <3>1
  <2> QED BY <2>2, <2>3
<1> QED BY <1>6, <1>7, <1>8, Zenon DEF AroundLf

\* What is in the buffer then, and what is not.
HandshakeBuffer(r, a) ==
    LET U == Units(r)
        l == Len(lineBuf)
    IN  /\ IsSeq(U) /\ Len(U) \in Nat /\ l \in Nat /\ a + l <= Len(U)
        /\ \A i \in 1..l : a + i \in 1..Len(U) /\ lineBuf[i] = U[a + i]
        /\ \A p \in 1..Len(U) : AroundLf(U, p)
        /\ Len(U) > 0 /\ U[1].k = "request" /\ U[Len(U)].k = "LF"
        /\ Len(wire) \in Nat /\ Len(todo) \in Nat
        /\ a + l + Len(wire) + Len(todo) = Len(U)
        /\ Queued

LEMMA HandshakeRead == ASSUME NEW r, NEW a, OfHandshake(r, a) PROVE HandshakeBuffer(r, a)
<1> DEFINE U == Units(r)
<1>1. r.body = 0 /\ ShortLines(r) /\ a \in Nat /\ Remain(U, a, todo, wire, lineBuf)
  BY Zenon DEF OfHandshake
<1>2. Shape(U, r)
  BY <1>1, ShapeOf
<1>3. \A p \in 1..Len(U) : AroundLf(U, p)
  BY <1>1, <1>2, AroundLines
<1>4. Len(r.headers) \in Nat
  BY <1>1 DEF ShortLines
<1>5. IsSeq(U) /\ Len(U) = 4 * Len(r.headers) + 5 + r.body /\ U[1].k = "request" /\ U[4 * Len(r.headers) + 5].k = "LF"
  BY <1>2 DEF Shape
<1> HIDE DEF U
<1>6. Len(U) \in Nat /\ Len(U) > 0 /\ U[Len(U)].k = "LF"
  <2>1. Len(U) = 4 * Len(r.headers) + 5
    BY <1>1, <1>4, <1>5
  <2> QED BY <1>4, <1>5, <2>1
<1>7. /\ IsSeq(todo) /\ IsSeq(wire) /\ IsSeq(lineBuf)
      /\ Len(todo) \in Nat /\ Len(wire) \in Nat /\ Len(lineBuf) \in Nat
      /\ a + Len(lineBuf) + Len(wire) + Len(todo) = Len(U)
  BY <1>1, RemainLens
<1>8. a + Len(lineBuf) <= Len(U)
  BY <1>1, <1>7
<1>9. \A i \in 1..Len(lineBuf) : a + i \in 1..Len(U)
  BY <1>1, <1>7
<1>10. \A i \in 1..Len(lineBuf) : lineBuf[i] = U[a + i]
  BY <1>1, Zenon DEF Remain, Slice
<1>11. Len(todo) > 0 => todo[Len(todo)].k # "CR"
  <2> SUFFICES ASSUME Len(todo) > 0 PROVE todo[Len(todo)].k # "CR"
    OBVIOUS
  <2>1. Len(todo) \in 1..Len(todo) /\ a + Len(lineBuf) + Len(wire) + Len(todo) = Len(U)
    BY <1>7
  <2>2. todo[Len(todo)] = U[a + Len(lineBuf) + Len(wire) + Len(todo)]
    BY <1>1, <2>1, Zenon DEF Remain, Slice
  <2> QED BY <1>6, <2>1, <2>2
<1> QED BY <1>3, <1>5, <1>6, <1>7, <1>8, <1>9, <1>10, <1>11, Zenon DEF HandshakeBuffer, Queued, U

-----------------------------------------------------------------------------
(* The steps of a handshake.                                               *)

LEMMA HandshakeBegins ==
    ASSUME WebInv, HandshakesFit, Shaking, NEW r \in Handshakes, ClientHandshake(r)
    PROVE  Shaking'
<1>1. /\ Handshaking /\ sent = <<>> /\ sent' = <<r>> /\ todo' = Units(r)
      /\ UNCHANGED <<wire, lineBuf, parsing, req>>
  BY DEF ClientHandshake
<1>2. lineBuf = <<>> /\ wire = <<>>
  BY <1>1, Zenon DEF WebInv, InHandshake, Handshaking
<1>3. Len(r.headers) \in Nat /\ r.body \in Nat
  BY WebSocketAssumption
<1>4. Handshake(r)
  BY <1>3, HandshakeUnits
<1>5. IsSeq(Units(r)) /\ Units(r)[Len(Units(r))].k # "CR" /\ Len(Units(r)) \in Nat
  BY <1>4, SeqLen DEF Handshake
<1>6. DOMAIN req = Fields
  BY DEF Shaking
<1>7. CASE NamesVersion(r)
  <2>1. r.body = 0 /\ ShortLines(r)
    BY <1>7, Zenon DEF HandshakesFit
  <2>2. Remain(Units(r), 0, Units(r), <<>>, <<>>)
    <3> DEFINE U == Units(r)
    <3>1. IsSeq(U) /\ Len(U) \in Nat
      BY <1>5
    <3> HIDE DEF U
    <3>2. /\ 0 + 0 = 0 /\ 0 + 0 + 0 = 0 /\ 0 + 0 + 0 + Len(U) = Len(U) /\ 0 <= Len(U)
          /\ 0 + Len(U) <= Len(U) /\ \A i \in 1..Len(U) : 0 + i = i
          /\ 0 \notin 1..Len(U) /\ 1..0 = {}
      BY <3>1
    <3>3. Slice(<<>>, U, 0) /\ Slice(U, U, 0) /\ Whole(U, 0)
      BY <3>1, <3>2, EmptyLen DEF Slice, Whole
    <3>4. Remain(U, 0, U, <<>>, <<>>)
      BY <3>2, <3>3, EmptyLen DEF Remain
    <3> QED BY <3>4 DEF U
  <2>3. sent' # <<>>
    BY <1>1
  <2>4. 0 \in Nat /\ ~(0 > 0)
    OBVIOUS
  <2>5. OfHandshake(r, 0)'
    BY <1>1, <1>2, <2>1, <2>2, <2>3, <2>4 DEF OfHandshake
  <2> QED BY <1>1, <1>6, <2>5 DEF Shaking
<1>8. CASE ~NamesVersion(r)
  <2>1. CASE WaitsForKey
    <3>1. WaitsForKey'
      BY <1>1, <2>1 DEF WaitsForKey
    <3> QED BY <1>1, <1>6, <3>1 DEF Shaking
  <2>2. CASE NoVersion
    <3>1. ~Versioned(Units(r))
      BY <1>4, <1>8 DEF Handshake
    <3>2. NoVersion'
      BY <1>1, <1>5, <2>2, <3>1 DEF NoVersion, Queued
    <3> QED BY <1>1, <1>6, <3>2 DEF Shaking
  <2>3. ~CutHeader
    BY <1>2, EmptyLen DEF CutHeader
  <2>4. ~\E q, a : OfHandshake(q, a)
    BY <1>1 DEF OfHandshake
  <2> QED BY <2>1, <2>2, <2>3, <2>4 DEF Shaking
<1> QED BY <1>7, <1>8

LEMMA HandshakeWaits ==
    ASSUME Shaking, UNCHANGED <<sent, todo, wire, lineBuf, parsing, req>>
    PROVE  Shaking'
  BY DEF Shaking, WaitsForKey, CutHeader, NoVersion, Queued, OfHandshake

LEMMA HandshakeArrives ==
    ASSUME ~SplitEol, Shaking, Arrives
    PROVE  Shaking'
<1> DEFINE w == wire \o SubSeq(todo, 1, Arriving)
           t == SubSeq(todo, Arriving + 1, Len(todo))
<1>1. todo # <<>> /\ wire' = w /\ todo' = t /\ UNCHANGED <<sent, lineBuf, parsing, req>>
  BY DEF Arrives, Arriving
<1> HIDE DEF w, t
<1>2. DOMAIN req' = Fields
  BY <1>1 DEF Shaking
<1>3. CASE WaitsForKey
  <2>1. WaitsForKey'
    BY <1>1, <1>3 DEF WaitsForKey
  <2> QED BY <1>2, <2>1 DEF Shaking
<1>4. ASSUME Queued PROVE Moves(w, t, wire, todo) /\ Queued'
  <2>1. IsSeq(todo) /\ IsSeq(wire) /\ IsSeq(lineBuf) /\ Len(todo) \in Nat
        /\ (Len(todo) > 0 => todo[Len(todo)].k # "CR")
    BY <1>4, SeqLen DEF Queued
  <2>2. Len(todo) # 0
    BY <1>1, <2>1, EmptyIs
  <2>3. Arriving \in 0..Len(todo)
    <3>1. Arriving = 1 \/ (Arriving = 2 /\ todo[1].k = "CR")
      BY DEF Arriving
    <3>2. Arriving = 2 => Len(todo) # 1
      BY <2>1, <3>1
    <3> QED BY <2>1, <2>2, <3>1, <3>2
  <2>4. Moves(w, t, wire, todo)
    BY <2>1, <2>3, MovesOn, Zenon DEF w, t
  <2>5. IsSeq(w) /\ IsSeq(t) /\ (Len(t) > 0 => t[Len(t)].k # "CR")
    BY <2>1, <2>2, <2>4 DEF Moves
  <2>6. Queued'
    BY <1>1, <2>1, <2>5 DEF Queued
  <2> QED BY <2>4, <2>6
<1>5. CASE CutHeader
  <2>1. CutHeader'
    BY <1>1, <1>4, <1>5 DEF CutHeader
  <2> QED BY <1>2, <2>1 DEF Shaking
<1>6. CASE NoVersion
  <2>1. Queued' /\ ~Versioned(w) /\ ~Versioned(t)
    BY <1>4, <1>6, Zenon DEF NoVersion, Moves
  <2>2. NoVersion'
    BY <1>1, <1>6, <2>1 DEF NoVersion
  <2> QED BY <1>2, <2>2 DEF Shaking
<1>7. ASSUME NEW r, NEW a, OfHandshake(r, a) PROVE Shaking'
  <2>1. ShortLines(r) /\ a \in Nat /\ Remain(Units(r), a, todo, wire, lineBuf)
    BY <1>7, Zenon DEF OfHandshake
  <2>2. Remain(Units(r), a, t, w, lineBuf)
    BY <1>1, <2>1, UnitsArrive, Zenon DEF w, t
  <2>3. OfHandshake(r, a)'
    BY <1>1, <1>7, <2>2 DEF OfHandshake
  <2> QED BY <1>2, <2>3, Zenon DEF Shaking
<1> QED BY <1>3, <1>5, <1>6, <1>7 DEF Shaking

LEMMA HandshakeReceives ==
    ASSUME Shaking, HsRecv
    PROVE  Shaking'
<1> DEFINE n == Smaller(Room, Len(wire))
           w == SubSeq(wire, n + 1, Len(wire))
           l == lineBuf \o SubSeq(wire, 1, n)
<1>1. /\ ~WaitsForKey /\ Room > 0
      /\ wire' = w /\ lineBuf' = l /\ UNCHANGED <<sent, todo, req>>
  BY DEF HsRecv, WaitsForKey
<1>2. DOMAIN req' = Fields
  BY <1>1 DEF Shaking
<1>3. ASSUME IsSeq(wire), IsSeq(lineBuf) PROVE n \in 0..Len(wire)
  <2>1. Len(wire) \in Nat /\ Len(lineBuf) \in Nat /\ Room \in Int
    BY <1>3, SeqLen, HttpAssumption DEF Room
  <2> QED BY <1>1, <2>1 DEF Smaller
<1>4. ASSUME Queued PROVE Moves(l, w, lineBuf, wire) /\ Queued'
  <2>1. IsSeq(todo) /\ IsSeq(wire) /\ IsSeq(lineBuf)
    BY <1>4 DEF Queued
  <2>2. n \in 0..Len(wire)
    BY <1>3, <2>1
  <2> HIDE DEF n
  <2>3. Moves(l, w, lineBuf, wire)
    BY <2>1, <2>2, MovesOn, Zenon
  <2> HIDE DEF l, w
  <2>4. IsSeq(l) /\ IsSeq(w)
    BY <2>3, Zenon DEF Moves
  <2>5. Queued'
    BY <1>1, <1>4, <2>4 DEF Queued
  <2> QED BY <2>3, <2>5
<1>5. CASE CutHeader
  <2>1. Queued' /\ Moves(l, w, lineBuf, wire)
    BY <1>4, <1>5 DEF CutHeader
  <2> HIDE DEF l, w
  <2>2. Len(l) > 0 /\ l[1] = lineBuf[1]
    BY <1>5, <2>1 DEF CutHeader, Moves
  <2>3. CutHeader'
    BY <1>1, <1>5, <2>1, <2>2 DEF CutHeader
  <2> QED BY <1>2, <2>3 DEF Shaking
<1>6. CASE NoVersion
  <2>1. Queued' /\ Moves(l, w, lineBuf, wire)
    BY <1>4, <1>6 DEF NoVersion
  <2> HIDE DEF l, w
  <2>2. ~Versioned(l) /\ ~Versioned(w)
    BY <1>6, <2>1, Zenon DEF NoVersion, Moves
  <2>3. NoVersion'
    BY <1>1, <1>6, <2>1, <2>2 DEF NoVersion
  <2> QED BY <1>2, <2>3 DEF Shaking
<1>7. ASSUME NEW r, NEW a, OfHandshake(r, a) PROVE Shaking'
  <2>1. a \in Nat /\ Remain(Units(r), a, todo, wire, lineBuf)
    BY <1>7, Zenon DEF OfHandshake
  <2>2. IsSeq(Units(r)) /\ IsSeq(wire) /\ IsSeq(lineBuf)
    BY <1>7, HandshakeRead DEF HandshakeBuffer, Queued
  <2>3. n \in 0..Len(wire)
    BY <1>3, <2>2
  <2> HIDE DEF n
  <2>4. Received(Units(r), a, todo, wire, lineBuf, w, l, n)
    BY <2>1, <2>2, <2>3, RemainReceived, Zenon
  <2> HIDE DEF w, l
  <2>5. Remain(Units(r), a, todo, w, l)
    BY <2>4, Zenon DEF Received
  <2>6. OfHandshake(r, a)'
    BY <1>1, <1>7, <2>5 DEF OfHandshake
  <2> QED BY <1>2, <2>6, Zenon DEF Shaking
<1> QED BY <1>1, <1>5, <1>6, <1>7 DEF Shaking

\* What the end of a line in the buffer is, in a handshake that is read.
LEMMA LineInHandshake ==
    ASSUME NEW r, NEW a, OfHandshake(r, a), HsHasLine
    PROVE  /\ LfPos \in 1..Len(lineBuf) /\ a + LfPos \in 1..Len(Units(r))
           /\ Units(r)[a + LfPos].k = "LF"
<1>1. HandshakeBuffer(r, a)
  BY HandshakeRead
<1>2. IsSeq(lineBuf)
  BY <1>1 DEF HandshakeBuffer, Queued
<1>3. StopsAt(LfPos, lineBuf)
  BY <1>2, FirstStop, Zenon
<1>4. LfPos # 0 /\ lineBuf[LfPos].k = "LF"
  BY DEF HsHasLine
<1>5. LfPos \in 1..Len(lineBuf)
  BY <1>3, <1>4, Zenon DEF StopsAt
<1>6. a + LfPos \in 1..Len(Units(r)) /\ lineBuf[LfPos] = Units(r)[a + LfPos]
  BY <1>1, <1>5, Zenon DEF HandshakeBuffer
<1> QED BY <1>4, <1>5, <1>6

\* No line is read of a header that has come in two parts.
LEMMA CutHasNone == ASSUME CutHeader PROVE ~HsHasLine
<1>1. IsSeq(lineBuf) /\ Len(lineBuf) \in Nat /\ Len(lineBuf) > 0 /\ lineBuf[1].k = "NUL"
  BY SeqLen DEF CutHeader, Queued
<1>2. StopsAt(LfPos, lineBuf)
  BY <1>1, FirstStop, Zenon
<1>3. 1 \in 1..Len(lineBuf) /\ IsLfOrNul(lineBuf[1])
  BY <1>1 DEF IsLfOrNul
<1>4. LfPos \in 1..Len(lineBuf) /\ LfPos <= 1
  BY <1>2, <1>3, Zenon DEF StopsAt
<1>5. LfPos = 1
  BY <1>1, <1>4
<1> QED BY <1>1, <1>5 DEF HsHasLine

LEMMA HandshakeLine == ASSUME Shaking, HsLine PROVE Shaking'
<1> DEFINE t == SubSeq(lineBuf, LfPos + 1, Len(lineBuf))
<1>1. /\ parsing /\ HsHasLine /\ lineBuf' = t /\ UNCHANGED <<sent, todo, wire, parsing>>
      /\ req' = IF req.part = "request" THEN [req EXCEPT !.part = "header"]
                ELSE IF lineBuf[1].k = "header" THEN [req EXCEPT !.attr = @ \cup {lineBuf[1].v.name}]
                ELSE req
  BY DEF HsLine, Rest
<1>2. DOMAIN req = Fields
  BY DEF Shaking
<1>3. DOMAIN req' = Fields
  BY <1>1, <1>2
<1>4. CASE NoVersion
  <2>1. IsSeq(lineBuf) /\ Len(lineBuf) \in Nat
    BY <1>4, SeqLen DEF NoVersion, Queued
  <2>2. StopsAt(LfPos, lineBuf) /\ LfPos # 0
    BY <1>1, <2>1, FirstStop, Zenon DEF HsHasLine
  <2>3. LfPos \in 1..Len(lineBuf)
    BY <2>2, Zenon DEF StopsAt
  <2>4. LfPos \in 0..Len(lineBuf) /\ 1 \in 1..Len(lineBuf)
    BY <2>1, <2>3
  <2>5. Moves(<<>> \o SubSeq(lineBuf, 1, LfPos), t, <<>>, lineBuf)
    BY <2>1, <2>4, EmptyLen, MovesOn, Zenon
  <2>6. IsSeq(t) /\ ~Versioned(t)
    BY <1>4, <2>5, Zenon DEF Moves, NoVersion
  <2> HIDE DEF t
  <2>7. "version" \notin req'.attr
    <3>1. lineBuf[1].k = "header" => lineBuf[1].v.name # "version"
      BY <1>4, <2>4, Zenon DEF NoVersion, Versioned
    <3>2. "version" \notin req.attr
      BY <1>4 DEF NoVersion
    <3> QED BY <1>1, <1>2, <3>1, <3>2 DEF Fields
  <2>8. Queued'
    BY <1>1, <1>4, <2>6 DEF NoVersion, Queued
  <2>9. NoVersion'
    BY <1>1, <1>4, <2>6, <2>7, <2>8 DEF NoVersion
  <2> QED BY <1>3, <2>9 DEF Shaking
<1>5. ASSUME NEW r, NEW a, OfHandshake(r, a) PROVE Shaking'
  <2>1. a \in Nat /\ Remain(Units(r), a, todo, wire, lineBuf)
    BY <1>5, Zenon DEF OfHandshake
  <2>2. IsSeq(Units(r)) /\ Len(Units(r)) \in Nat /\ Len(lineBuf) \in Nat
    BY <1>5, HandshakeRead DEF HandshakeBuffer
  <2>3. LfPos \in 1..Len(lineBuf) /\ a + LfPos \in 1..Len(Units(r)) /\ Units(r)[a + LfPos].k = "LF"
    BY <1>1, <1>5, LineInHandshake
  <2>4. LfPos \in 0..Len(lineBuf) /\ a + LfPos \in Nat /\ a + LfPos <= Len(Units(r))
    BY <2>1, <2>2, <2>3
  <2>5. Consumed(Units(r), a, todo, wire, lineBuf, t, LfPos)
    BY <2>1, <2>2, <2>4, RemainTaken, Zenon
  <2> HIDE DEF t
  <2>6. Remain(Units(r), a + LfPos, todo, wire, t)
    BY <2>5, Zenon DEF Consumed
  <2>7. PICK b \in Nat : b = a + LfPos
    BY <2>4
  <2>8. OfHandshake(r, b)'
    BY <1>1, <1>5, <2>3, <2>4, <2>6, <2>7 DEF OfHandshake
  <2> QED BY <1>3, <2>8, Zenon DEF Shaking
<1>6. ~WaitsForKey /\ ~CutHeader
  BY <1>1, CutHasNone DEF WaitsForKey
<1> QED BY <1>4, <1>5, <1>6 DEF Shaking

\* The colon of a header is overwritten.
Overwritten(q) == [i \in DOMAIN q |-> IF q[i].k = "header" THEN Unit("NUL", 0) ELSE q[i]]

LEMMA OverwrittenIs ==
    ASSUME NEW q, IsSeq(q)
    PROVE  /\ IsSeq(Overwritten(q)) /\ Len(Overwritten(q)) = Len(q)
           /\ \A i \in 1..Len(q) :
                 Overwritten(q)[i] = IF q[i].k = "header" THEN Unit("NUL", 0) ELSE q[i]
<1>1. PICK S : q \in Seq(S)
  BY DEF IsSeq
<1>2. Overwritten(q) \in Seq(S \cup {Unit("NUL", 0)}) /\ Len(Overwritten(q)) = Len(q)
  BY <1>1 DEF Overwritten
<1>3. \A i \in 1..Len(q) : Overwritten(q)[i] = IF q[i].k = "header" THEN Unit("NUL", 0) ELSE q[i]
  BY <1>1 DEF Overwritten
<1> QED BY <1>2, <1>3 DEF IsSeq

LEMMA HandshakePart ==
    ASSUME Shaking, HsPartial, open'
    PROVE  Shaking'
<1> DEFINE l == Overwritten(lineBuf)
<1>1. /\ parsing /\ ~HsHasLine /\ lineBuf' = l /\ UNCHANGED <<sent, todo, wire, req>>
  BY DEF HsPartial, HsReject, HttpClose, Overwritten
<1>2. DOMAIN req' = Fields
  BY <1>1 DEF Shaking
<1>3. ASSUME Queued
      PROVE  /\ IsSeq(lineBuf) /\ Len(lineBuf) \in Nat /\ IsSeq(l) /\ Len(l) = Len(lineBuf)
             /\ \A i \in 1..Len(lineBuf) :
                   l[i] = IF lineBuf[i].k = "header" THEN Unit("NUL", 0) ELSE lineBuf[i]
             /\ Queued'
  <2>1. IsSeq(lineBuf) /\ Len(lineBuf) \in Nat
    BY <1>3, SeqLen DEF Queued
  <2>2. /\ IsSeq(l) /\ Len(l) = Len(lineBuf)
        /\ \A i \in 1..Len(lineBuf) :
              l[i] = IF lineBuf[i].k = "header" THEN Unit("NUL", 0) ELSE lineBuf[i]
    BY <2>1, OverwrittenIs
  <2> HIDE DEF l
  <2>3. Queued'
    BY <1>1, <1>3, <2>2 DEF Queued
  <2> QED BY <2>1, <2>2, <2>3
<1> HIDE DEF l
<1>4. CASE CutHeader
  <2>1. 1 \in 1..Len(lineBuf) /\ lineBuf[1].k = "NUL"
    BY <1>3, <1>4 DEF CutHeader
  <2>2. l[1] = lineBuf[1] /\ Len(l) > 0
    BY <1>3, <1>4, <2>1 DEF CutHeader
  <2>3. CutHeader'
    BY <1>1, <1>3, <1>4, <2>1, <2>2 DEF CutHeader
  <2> QED BY <1>2, <2>3 DEF Shaking
<1>5. CASE NoVersion
  <2>1. Queued
    BY <1>5 DEF NoVersion
  <2>2. ~Versioned(l)
    <3> SUFFICES ASSUME NEW i \in 1..Len(l), l[i].k = "header", l[i].v.name = "version" PROVE FALSE
      BY Zenon DEF Versioned
    <3>1. i \in 1..Len(lineBuf) /\ (l[i] = Unit("NUL", 0) \/ l[i] = lineBuf[i])
      BY <1>3, <2>1
    <3>2. Unit("NUL", 0).k # "header"
      BY DEF Unit
    <3> QED BY <1>5, <3>1, <3>2, Zenon DEF NoVersion, Versioned
  <2>3. NoVersion'
    BY <1>1, <1>3, <1>5, <2>1, <2>2 DEF NoVersion
  <2> QED BY <1>2, <2>3 DEF Shaking
<1>6. ASSUME NEW r, NEW a, OfHandshake(r, a) PROVE Shaking'
  <2>1. HandshakeBuffer(r, a)
    BY <1>6, HandshakeRead
  <2>2. Queued /\ a \in Nat
    BY <1>6, <2>1, Zenon DEF HandshakeBuffer, OfHandshake
  <2>3. /\ \A i \in 1..Len(lineBuf) : a + i \in 1..Len(Units(r)) /\ lineBuf[i] = Units(r)[a + i]
        /\ \A p \in 1..Len(Units(r)) : AroundLf(Units(r), p)
    BY <2>1, Zenon DEF HandshakeBuffer
\* Only what is in front of a header may end a line, and here nothing does.
  <2>4. ASSUME NEW i \in 1..Len(lineBuf), lineBuf[i].k = "header" PROVE i = 1
    <3>1. a + i \in 1..Len(Units(r)) /\ lineBuf[i] = Units(r)[a + i]
      BY <2>3
    <3>2. Units(r)[(a + i) - 1].k = "LF"
      <4>1. AroundLf(Units(r), a + i)
        BY <2>3, <3>1, Zenon
      <4>2. Units(r)[a + i].k = "header"
        BY <2>4, <3>1
      <4> QED BY <4>1, <4>2, Zenon DEF AroundLf
    <3>3. ASSUME i # 1 PROVE FALSE
      <4>1. i - 1 \in 1..Len(lineBuf) /\ a + (i - 1) = (a + i) - 1 /\ Len(lineBuf) \in Nat
        BY <1>3, <2>2, <3>3
      <4>2. lineBuf[i - 1].k = "LF"
        <5>1. lineBuf[i - 1] = Units(r)[a + (i - 1)]
          BY <2>3, <4>1, Zenon
        <5> QED BY <3>2, <4>1, <5>1
      <4>3. StopsAt(LfPos, lineBuf)
        BY <1>3, <2>2, FirstStop, Zenon
      <4>4. LfPos \in 1..Len(lineBuf) /\ IsLfOrNul(lineBuf[LfPos])
        BY <4>1, <4>2, <4>3 DEF StopsAt, IsLfOrNul
      <4>5. lineBuf[LfPos].k \in {"request", "header", "text", "CR", "LF"}
        <5>1. a + LfPos \in 1..Len(Units(r)) /\ lineBuf[LfPos] = Units(r)[a + LfPos]
          BY <2>3, <4>4, Zenon
        <5>2. AroundLf(Units(r), a + LfPos)
          BY <2>3, <5>1, Zenon
        <5> QED BY <5>1, <5>2 DEF AroundLf
      <4>6. lineBuf[LfPos].k = "LF" /\ LfPos # 0
        BY <4>4, <4>5, <4>1 DEF IsLfOrNul
      <4> QED BY <1>1, <4>6 DEF HsHasLine
    <3> QED BY <3>3
  <2>5. CASE 1 \in 1..Len(lineBuf) /\ lineBuf[1].k = "header"
    <3>1. l[1] = Unit("NUL", 0) /\ Unit("NUL", 0).k = "NUL" /\ Len(l) > 0
      BY <1>3, <2>2, <2>5 DEF Unit
    <3>2. CutHeader'
      BY <1>1, <1>3, <2>2, <3>1 DEF CutHeader
    <3> QED BY <1>2, <3>2 DEF Shaking
  <2>6. CASE ~(1 \in 1..Len(lineBuf) /\ lineBuf[1].k = "header")
    <3>1. \A i \in 1..Len(lineBuf) : l[i] = lineBuf[i]
      BY <1>3, <2>2, <2>4, <2>6
    <3>2. l = lineBuf
      BY <1>3, <2>2, <3>1, SameSeq
    <3>3. OfHandshake(r, a)'
      BY <1>1, <1>6, <3>2 DEF OfHandshake
    <3> QED BY <1>2, <3>3, Zenon DEF Shaking
  <2> QED BY <2>5, <2>6
<1>7. ~WaitsForKey
  BY <1>1 DEF WaitsForKey
<1> QED BY <1>4, <1>5, <1>6, <1>7 DEF Shaking

LEMMA HandshakeOld == ASSUME Shaking, HsOld PROVE Shaking'
<1>1. req' = [req EXCEPT !.part = "key3"] /\ parsing' = FALSE /\ DOMAIN req = Fields
  BY DEF HsOld, Shaking
<1>2. DOMAIN req' = Fields /\ req'.part = "key3"
  BY <1>1 DEF Fields
<1>3. WaitsForKey'
  BY <1>1, <1>2 DEF WaitsForKey
<1> QED BY <1>2, <1>3 DEF Shaking

\* A handshake is answered when all of it has been read.
LEMMA HandshakeTalks == ASSUME Fresh, Shaking, HsSwitch PROVE Talks'
<1>1. /\ parsing /\ HsHasLine /\ lineBuf[1].k \in {"CR", "LF"} /\ "version" \in req.attr
      /\ Switch(req.attr) /\ UNCHANGED <<todo, wire>> /\ mode = "handshake" /\ open
  BY DEF HsSwitch, HsEmpty, Handshaking
<1>2. ~WaitsForKey /\ ~CutHeader /\ ~NoVersion
  BY <1>1, CutHasNone DEF WaitsForKey, NoVersion
<1>3. PICK r, a : OfHandshake(r, a)
  BY <1>2, Zenon DEF Shaking
<1> DEFINE U == Units(r)
<1>4. HandshakeBuffer(r, a)
  BY <1>3, HandshakeRead
<1>5. LfPos \in 1..Len(lineBuf) /\ lineBuf[LfPos].k = "LF"
  BY <1>1, <1>3, LineInHandshake DEF HsHasLine
<1>6. a \in Nat /\ (a > 0 => a <= Len(U) /\ U[a].k = "LF")
  BY <1>3, Zenon DEF OfHandshake
<1>7. /\ Len(U) \in Nat /\ Len(lineBuf) \in Nat /\ Len(wire) \in Nat /\ Len(todo) \in Nat
      /\ a + Len(lineBuf) + Len(wire) + Len(todo) = Len(U)
      /\ U[1].k = "request"
      /\ \A i \in 1..Len(lineBuf) : a + i \in 1..Len(U) /\ lineBuf[i] = U[a + i]
      /\ \A p \in 1..Len(U) : AroundLf(U, p)
  BY <1>4, Zenon DEF HandshakeBuffer
<1>8. IsSeq(todo) /\ IsSeq(wire)
  BY <1>4, Zenon DEF HandshakeBuffer, Queued
<1> HIDE DEF U
<1>9. 1 \in 1..Len(lineBuf) /\ a + 1 \in 1..Len(U) /\ U[a + 1].k \in {"CR", "LF"}
  <2>1. 1 \in 1..Len(lineBuf)
    BY <1>5, <1>7
  <2> QED BY <1>1, <1>7, <2>1
<1>10. a > 0 /\ a \in 1..Len(U) /\ U[a].k = "LF" /\ a < Len(U)
  <2>1. a # 0
    <3>1. a = 0 => a + 1 = 1
      OBVIOUS
    <3> QED BY <1>7, <1>9, <3>1
  <2> QED BY <1>6, <1>7, <1>9, <2>1
<1>11. U[a + 1].k = "CR" /\ a + 2 = Len(U)
  <2>1. AroundLf(U, a)
    BY <1>7, <1>10, Zenon
  <2> QED BY <1>9, <1>10, <2>1 DEF AroundLf
<1>12. LfPos # 1
  BY <1>5, <1>7, <1>9, <1>11
<1>13. Len(wire) = 0 /\ Len(todo) = 0
  BY <1>5, <1>6, <1>7, <1>11, <1>12
<1>14. wire' = <<>> /\ todo' = <<>>
  BY <1>1, <1>8, <1>13, EmptyIs
<1>15. mode \notin Sessions
  BY <1>1 DEF Sessions
<1> QED BY <1>1, <1>14, <1>15, Switched, Zenon

-----------------------------------------------------------------------------
(* The inductive invariant, and what it implies.                           *)

TalkInv == Talks /\ (Handshaking => Shaking)

LEMMA TalkBegins == Init => TalkInv
<1> SUFFICES ASSUME Init PROVE TalkInv
  OBVIOUS
<1>1. /\ mode \in {"http", "handshake"} /\ todo = <<>> /\ wire = <<>> /\ lineBuf = <<>> /\ req = NoRequest
      /\ msgs = <<>> /\ fb = NewSession /\ taken = <<>> /\ skip = FALSE /\ done = <<>>
  BY DEF Init, HttpInit
<1>2. Talks
  BY <1>1 DEF Talks, Sessions, Fresh
<1>3. DOMAIN NoRequest = Fields /\ "version" \notin NoRequest.attr
  BY DEF NoRequest, Fields
<1>4. ~Versioned(<<>>)
  BY EmptyLen DEF Versioned
<1>5. Queued
  BY <1>1, EmptyLen DEF Queued
<1>6. Shaking
  BY <1>1, <1>3, <1>4, <1>5, Zenon DEF Shaking, NoVersion
<1> QED BY <1>2, <1>6 DEF TalkInv

\* Nothing of a session is touched before there is one.
LEMMA StaysFresh ==
    ASSUME Talks, mode \notin Sessions, UNCHANGED wsVars, mode' \notin Sessions
    PROVE  Talks'
<1>1. Fresh
  BY DEF Talks
<1>2. Fresh'
  BY <1>1 DEF Fresh, wsVars
<1> QED BY <1>2 DEF Talks

LEMMA SessionStays ==
    ASSUME InSession', mode' = mode, mode \in Sessions
    PROVE  TalkInv'
<1>1. Talks'
  BY DEF Talks
<1>2. ~Handshaking'
  BY DEF Handshaking, Sessions
<1> QED BY <1>1, <1>2 DEF TalkInv

LEMMA NetworkKeepsTalk ==
    ASSUME ~SplitEol, MessagesFit, TalkInv, HttpClient, UNCHANGED wsVars
    PROVE  TalkInv'
<1>1. mode' = mode /\ open' = open
  BY DEF HttpClient, Arrives, ClientCloses, ClientRequest
<1>2. CASE mode \in Sessions
  <2>1. InSession /\ Client
    BY <1>2, Zenon DEF TalkInv, Talks, Client
  <2>2. InSession' /\ mode' = mode
    BY <1>2, <2>1, ClientTalks
  <2> QED BY <1>2, <2>2, SessionStays
<1>3. CASE mode \notin Sessions
  <2>1. Talks'
    BY <1>1, <1>3, StaysFresh DEF TalkInv
  <2>2. Handshaking => Shaking'
    <3> SUFFICES ASSUME Handshaking PROVE Shaking'
      OBVIOUS
    <3>1. Shaking
      BY Zenon DEF TalkInv
    <3>2. CASE Arrives
      BY <3>1, <3>2, HandshakeArrives
    <3>3. CASE ClientCloses
      <4>1. UNCHANGED <<sent, todo, wire, lineBuf, parsing, req>>
        BY <3>3 DEF ClientCloses
      <4> QED BY <3>1, <4>1, HandshakeWaits
    <3>4. ~\E r \in Requests : ClientRequest(r)
      BY DEF ClientRequest, Handshaking
    <3> QED BY <3>2, <3>3, <3>4, Zenon DEF HttpClient
  <2>3. Handshaking' => Handshaking
    BY <1>1 DEF Handshaking
  <2> QED BY <2>1, <2>2, <2>3, Zenon DEF TalkInv
<1> QED BY <1>2, <1>3

LEMMA ClientKeepsTalk ==
    ASSUME ~SplitEol, MessagesFit, HandshakesFit, WebInv, TalkInv, Client
    PROVE  TalkInv'
<1>1. ASSUME NEW r \in Handshakes, ClientHandshake(r) PROVE TalkInv'
  <2>1. Handshaking /\ mode' = mode /\ open' = open /\ UNCHANGED wsVars
    BY <1>1 DEF ClientHandshake
  <2>2. Talks /\ Shaking
    BY <2>1, Zenon DEF TalkInv
  <2>3. mode \notin Sessions
    BY <2>1 DEF Handshaking, Sessions
  <2>4. Talks'
    BY <2>1, <2>2, <2>3, StaysFresh
  <2>5. Shaking'
    BY <1>1, <2>2, HandshakeBegins
  <2> QED BY <2>4, <2>5 DEF TalkInv
<1>2. ASSUME NEW m \in Messages, ClientMessage(m) PROVE TalkInv'
  <2>1. mode \in Sessions
    BY <1>2 DEF ClientMessage, Speaking, Sessions
  <2>2. InSession /\ Client
    BY <1>2, <2>1, Zenon DEF TalkInv, Talks, Client
  <2>3. InSession' /\ mode' = mode
    BY <2>1, <2>2, ClientTalks
  <2> QED BY <2>1, <2>3, SessionStays
<1> QED BY <1>1, <1>2, NetworkKeepsTalk, Zenon DEF Client

LEMMA HandshakeKeepsTalk ==
    ASSUME TalkInv, HsRecv \/ HsLine \/ HsPartial \/ HsEnd \/ HsSwitch \/ HsOld \/ HsKey3
    PROVE  TalkInv'
<1>1. Handshaking /\ mode = "handshake" /\ mode \notin Sessions
  BY DEF HsRecv, HsLine, HsPartial, HsEnd, HsSwitch, HsOld, HsKey3, Handshaking, Sessions
<1>2. Talks /\ Shaking /\ Fresh
  BY <1>1, Zenon DEF TalkInv, Talks
<1>3. CASE HsSwitch
  <2>1. Talks'
    BY <1>2, <1>3, HandshakeTalks
  <2>2. mode' \in {"text", "qap", "crashed"}
    BY <1>3 DEF HsSwitch, Switch, Session
  <2>3. ~Handshaking'
    BY <2>2 DEF Handshaking
  <2> QED BY <2>1, <2>3 DEF TalkInv
<1>4. CASE HsRecv \/ HsLine \/ HsPartial \/ HsEnd \/ HsOld \/ HsKey3
  <2>1. UNCHANGED wsVars /\ mode' \in {"handshake", "v00"}
    BY <1>1, <1>4 DEF HsRecv, HsLine, HsPartial, HsEnd, HsOld, HsKey3, HsReject, HttpClose
  <2>2. mode' \notin Sessions
    BY <2>1 DEF Sessions
  <2>3. Talks'
    BY <1>1, <1>2, <2>1, <2>2, StaysFresh
  <2>4. ASSUME Handshaking' PROVE Shaking'
    <3>1. open' /\ mode' = "handshake"
      BY <2>4 DEF Handshaking
    <3>2. ~HsEnd /\ ~HsKey3
      BY <3>1 DEF HsEnd, HsKey3, HsReject, HttpClose
    <3> QED BY <1>2, <1>4, <3>1, <3>2, HandshakeReceives, HandshakeLine, HandshakePart, HandshakeOld
  <2> QED BY <2>3, <2>4 DEF TalkInv
<1> QED BY <1>3, <1>4

LEMMA HttpKeepsTalk ==
    ASSUME TalkInv, HttpServer, UNCHANGED wsVars
    PROVE  TalkInv'
<1>1. mode = "http" /\ mode' = mode
  BY Zenon DEF HttpServer, RecvLine, IncompleteLine, RequestLine, HeaderLine, RejectRequest,
     EndBeforeBody, RecvBody, RecvEnd, EndWithoutBody, BodyComplete, AtEmptyLine, Serving,
     Finish, Reject, HttpClose
<1>2. mode \notin Sessions /\ mode' \notin Sessions /\ ~Handshaking'
  BY <1>1 DEF Sessions, Handshaking
<1>3. Talks'
  BY <1>2, StaysFresh DEF TalkInv
<1> QED BY <1>2, <1>3 DEF TalkInv

LEMMA UpgradeKeepsTalk ==
    ASSUME RequestInv, AllFit, TalkInv, HttpUpgrade
    PROVE  TalkInv'
<1>1. mode = "http" /\ Switch(req.attr)
  BY DEF HttpUpgrade, Serving
<1>2. Fresh
  BY <1>1 DEF TalkInv, Talks, Sessions
<1>3. Talks'
  BY <1>2, UpgradeTalks
<1>4. mode' \in {"text", "qap", "crashed"}
  BY <1>1 DEF Switch, Session
<1>5. ~Handshaking'
  BY <1>4 DEF Handshaking
<1> QED BY <1>3, <1>5 DEF TalkInv

LEMMA SessionKeepsTalk ==
    ASSUME MessagesFit, TalkInv, WsRecv \/ WsFrame \/ WsBuffered \/ WsContinued \/ WsEnd
    PROVE  TalkInv'
<1>1. mode \in Sessions
  BY DEF WsRecv, WsFrame, WsBuffered, WsContinued, WsEnd, Speaking, Sessions
<1>2. InSession
  BY <1>1, Zenon DEF TalkInv, Talks
<1>3. InSession' /\ mode' = mode
  BY <1>2, ServerTalks
<1> QED BY <1>1, <1>3, SessionStays

LEMMA TalkStutters == ASSUME TalkInv, UNCHANGED vars PROVE TalkInv'
<1>1. UNCHANGED <<mode, open, eof, sent, todo, wire, lineBuf, parsing, req>>
  BY DEF vars, httpVars
<1>2. UNCHANGED <<msgs, fb, taken, skip, done>>
  BY DEF vars, wsVars
<1>3. Handshaking' => Shaking'
  <2>1. Handshaking' => Handshaking
    BY <1>1 DEF Handshaking
  <2>2. Handshaking => Shaking
    BY Zenon DEF TalkInv
  <2>3. Shaking => Shaking'
    BY <1>1, HandshakeWaits
  <2> QED BY <2>1, <2>2, <2>3
<1>4. Fresh => Fresh'
  BY <1>2 DEF Fresh
<1>5. InSession => InSession'
  <2>1. Dumb => Dumb'
    BY <1>1, <1>4 DEF Dumb
  <2>2. Talking => Talking'
    BY <1>1, <1>2 DEF Talking, Now
  <2> QED BY <1>1, <1>2, <2>1, <2>2 DEF InSession
<1>6. Talks'
  BY <1>1, <1>4, <1>5 DEF TalkInv, Talks
<1> QED BY <1>3, <1>6 DEF TalkInv

LEMMA TalkKept ==
    ASSUME ~SplitEol, MessagesFit, HandshakesFit, WebInv, RequestInv, AllFit, TalkInv, Next
    PROVE  TalkInv'
<1>1. ASSUME Server PROVE TalkInv'
  BY <1>1, HttpKeepsTalk, HandshakeKeepsTalk, UpgradeKeepsTalk, SessionKeepsTalk, Zenon DEF Server
<1> QED BY <1>1, ClientKeepsTalk, Zenon DEF Next

\* The messages that are dealt with.
LEMMA SessionDealt ==
    ASSUME MessagesFit, InSession
    PROVE  AreMessages(msgs) /\ \E n \in Nat : n <= Len(msgs) /\ Dealt(mode, msgs, done, n)
<1>1. CASE ~open
  BY <1>1, Zenon DEF InSession
<1>2. CASE open /\ Dumb
  <2>1. msgs = <<>> /\ done = <<>>
    BY <1>2 DEF Dumb, Fresh
  <2>2. AreMessages(msgs) /\ 0 \in Nat /\ 0 <= Len(msgs) /\ Dealt(mode, msgs, done, 0)
    BY <2>1, EmptyLen, NothingDealt DEF AreMessages
  <2> QED BY <2>2
<1>3. CASE open /\ Talking
  <2>1. PICK U, K, B, X, a : Now(U, K, B, X, a)
    BY <1>3, Zenon DEF Talking
  <2>2. Stream(mode, msgs, U, K, B, X) /\ Dealt(mode, msgs, done, K[a + 1] - 1) /\ a \in 0..Len(U)
    BY <2>1, Zenon DEF Now, ReadTo
  <2>3. AreMessages(msgs) /\ Len(msgs) \in Nat
    BY <2>2, SeqLen DEF Stream, AreMessages
  <2>4. K[a + 1] \in 1..(Len(msgs) + 1)
    BY <2>2, MessageNumber
  <2>5. K[a + 1] - 1 \in Nat /\ K[a + 1] - 1 <= Len(msgs)
    BY <2>3, <2>4
  <2> QED BY <2>2, <2>3, <2>5
<1> QED BY <1>1, <1>2, <1>3, Zenon DEF InSession

LEMMA InvExecuted == ASSUME MessagesFit, TalkInv PROVE MessagesExecuted
<1>1. CASE mode \notin Sessions
  <2>1. done = <<>>
    BY <1>1 DEF TalkInv, Talks, Fresh
  <2>2. DOMAIN done = {}
    BY <2>1
  <2> QED BY <2>2 DEF MessagesExecuted
<1>2. CASE mode \in Sessions
  <2>1. PICK n \in Nat : n <= Len(msgs) /\ Dealt(mode, msgs, done, n) /\ AreMessages(msgs)
    BY <1>2, SessionDealt, Zenon DEF TalkInv, Talks
  <2>2. IsSeq(msgs) /\ Len(msgs) \in Nat /\ DOMAIN msgs = 1..Len(msgs)
    BY <2>1, SeqLen DEF AreMessages
  <2>3. IsSeq(done) /\ DOMAIN done = 1..Len(done)
    BY <2>1, SeqLen DEF Dealt
  <2>4. ASSUME NEW j \in 1..Len(msgs)
        PROVE  Accepted(msgs[j]) = Admits(mode, msgs[j]) /\ PayloadLen(msgs[j]) = Payload(mode, msgs[j])
    <3>1. msgs[j].n \in Nat
      BY <2>1, <2>4, WebSocketAssumption DEF AreMessages
    <3>2. MaxIn \in Nat /\ TextBuf \in Nat
      BY WebSocketAssumption
    <3>3. Accepted(msgs[j]) = Admits(mode, msgs[j])
      BY <3>1, <3>2 DEF Accepted, TooLong, Admits
    <3> QED BY <3>3 DEF PayloadLen, Payload
  <2>5. ASSUME NEW i \in DOMAIN done
        PROVE  \E k \in DOMAIN msgs :
                  /\ Accepted(msgs[k]) /\ IsMessage(done[i], k)
                  /\ Cardinality({j \in 1..k : Accepted(msgs[j])}) = i
    <3>1. PICK k \in 1..n : /\ Admits(mode, msgs[k])
                            /\ Part(done[i], msgs[k], k, 0, Payload(mode, msgs[k]))
                            /\ Cardinality(AdmittedTo(mode, msgs, k)) = i
      <4>1. i \in 1..Len(done)
        BY <2>3, <2>5
      <4> QED BY <2>1, <4>1, Zenon DEF Dealt
    <3>2. k \in 1..Len(msgs) /\ \A j \in 1..k : j \in 1..Len(msgs)
      BY <2>1, <2>2, <3>1
    <3>3. Accepted(msgs[k]) /\ PayloadLen(msgs[k]) = Payload(mode, msgs[k])
      BY <2>4, <3>1, <3>2
    <3>4. {j \in 1..k : Accepted(msgs[j])} = AdmittedTo(mode, msgs, k)
      BY <2>4, <3>2 DEF AdmittedTo
    <3> DEFINE d == done[i]
               N == Payload(mode, msgs[k])
    <3>5. IsSeq(d) /\ Len(d) = N /\ \A x \in 1..N : d[x] = PlainUnit(msgs[k], k, 0 + x)
      BY <3>1, Zenon DEF Part
    <3>6. DOMAIN d = 1..N /\ N \in Nat
      BY <3>5, SeqLen
    <3>7. IsMessage(d, k)
      <4>1. ASSUME NEW x \in DOMAIN d
            PROVE  /\ d[x].v.msg = k /\ d[x].v.pos = x
                   /\ d[x].v.mask = IF msgs[k].masked THEN Plain ELSE MaskLen
        <5>1. d[x] = PlainUnit(msgs[k], k, 0 + x) /\ 0 + x = x
          BY <3>5, <3>6, <4>1
        <5>2. d[x] = PlainUnit(msgs[k], k, x)
          BY <5>1
        <5> QED BY <5>2 DEF PlainUnit, Unit
      <4>2. Len(d) = PayloadLen(msgs[k])
        BY <3>3, <3>5
      <4> HIDE DEF d
      <4> QED BY <4>1, <4>2, Zenon DEF IsMessage
    <3> QED BY <2>2, <3>1, <3>2, <3>3, <3>4, <3>7
  <2> QED BY <2>5, Zenon DEF MessagesExecuted
<1> QED BY <1>1, <1>2

\* WebSockets (WS_connected, WS13_upgrade, WS_recv_data, Rserve_text_connected,
\* Rserve_QAP1_connected), for any messages, however frames are cut up by the network and
\* by the client and run together, masked or not, and longer than the buffers: what the
\* session executes is the messages of the client, whole, unmasked and in order, all up to
\* the last of them but those that are too long for it.
THEOREM MessagesExecutedWhole ==
    ASSUME ~SplitEol, MessagesFit, HandshakesFit PROVE Spec => [](AllFit => MessagesExecuted)
<1>1. Init => (AllFit => TalkInv)
  BY TalkBegins, Zenon
<1>2. WebInv /\ (AllFit => RequestInv) /\ (AllFit => TalkInv) /\ [Next]_vars => (AllFit => TalkInv)'
  <2> SUFFICES ASSUME WebInv, AllFit => RequestInv, AllFit => TalkInv, [Next]_vars, AllFit' PROVE TalkInv'
    BY Zenon
  <2>1. CASE Next
    <3>1. AllFit
      BY <2>1, SentBefore, Zenon DEF WebInv
    <3> QED BY <2>1, <3>1, TalkKept, Zenon
  <2>2. CASE UNCHANGED vars
    <3>1. sent' = sent
      BY <2>2 DEF vars, httpVars
    <3>2. AllFit
      BY <3>1, Zenon DEF AllFit
    <3> QED BY <2>2, <3>2, TalkStutters, Zenon
  <2> QED BY <2>1, <2>2, Zenon
<1>3. (AllFit => TalkInv) => (AllFit => MessagesExecuted)
  BY InvExecuted, Zenon
<1> QED BY <1>1, <1>2, <1>3, Invariant, RequestsInvariant, PTL DEF Spec

\* The same for a client whose requests all have heads that fit the buffer.
THEOREM FittingMessagesExecuted ==
    ASSUME ~SplitEol, MessagesFit, HandshakesFit, \A r \in Requests : Fits(r)
    PROVE  Spec => []MessagesExecuted
<1>1. AllFit
  BY Zenon DEF AllFit
<1>2. (AllFit => MessagesExecuted) => MessagesExecuted
  BY <1>1, Zenon
<1> QED BY <1>2, MessagesExecutedWhole, PTL
=============================================================================
