------------------------ MODULE HttpRequests_proofs ------------------------
(***************************************************************************)
(* What the HTTP server makes of what arrives, for any requests,           *)
(* handshakes and messages and any size of the buffers, however the        *)
(* network cuts up what is sent.                                           *)
(*                                                                         *)
(* First the responses.  A request is answered when its request line has   *)
(* been parsed.  So it has to be shown that a request line is parsed once  *)
(* for each request that was sent: of what was sent and not parsed,        *)
(* whether it is still to be sent, has arrived, or is in line_buf, at most *)
(* one unit is a request line, and none while a request is being read.     *)
(*                                                                         *)
(* Then what R is handed: what the client sent, for any requests whose     *)
(* head fits the line buffer, with bodies of any length.  What is left of  *)
(* a request, in line_buf, on the network and with the client, is what its *)
(* units are from some position on; what is known of the request is what   *)
(* the units before that position say.  Therefore the positions of the     *)
(* units of a request have to be known, and where process_request finds    *)
(* the end of a line.                                                      *)
(***************************************************************************)
EXTENDS WebSocket, TLAPS, WellFoundedInduction, SequenceTheorems

IsSeq(q) == \E S : q \in Seq(S)

\* A request line in q; no more than one; and no CR without the LF that belongs to it.
HasAsk(q) == \E i \in 1..Len(q) : q[i].k = "request"
OneAsk(q) == \A i, j \in 1..Len(q) : q[i].k = "request" /\ q[j].k = "request" => i = j
EolWhole(q) == \A i \in 1..Len(q) : q[i].k = "CR" => i < Len(q)

\* What headers say of lengths are numbers.
Numbers(q) == \A i \in 1..Len(q) : q[i].k = "header" => q[i].v.n \in Nat

LEMMA LeastNat ==
    ASSUME NEW T \in SUBSET Nat, T # {}
    PROVE  \E x \in T : \A y \in T : x <= y
<1> DEFINE R == OpToRel(<, Nat)
<1>1. IsWellFoundedOn(R, Nat)
  BY NatLessThanWellFounded
<1> HIDE DEF R
<1>2. PICK x \in T : \A y \in T : ~(<<y, x>> \in R)
  BY <1>1, WFMin, Zenon
<1>3. \A y \in T : y < x => <<y, x>> \in R
  BY DEF R, OpToRel
<1>4. \A y \in T : ~(y < x)
  BY <1>2, <1>3, Zenon
<1>5. x \in Nat /\ \A y \in T : y \in Nat
  OBVIOUS
<1>6. \A y \in T : x <= y
  BY <1>4, <1>5, SMT
<1> QED BY <1>6, Zenon

LEMMA SeqLen == ASSUME NEW q, IsSeq(q) PROVE Len(q) \in Nat /\ DOMAIN q = 1..Len(q)
  BY DEF IsSeq

\* t is what is left of q after its first n units.
Leaves(t, q, n) ==
    /\ IsSeq(t)
    /\ HasAsk(t) => HasAsk(q)
    /\ OneAsk(q) => OneAsk(t)
    /\ EolWhole(q) => EolWhole(t)
    /\ Numbers(q) => Numbers(t)
    /\ n > 0 /\ OneAsk(q) /\ q[1].k = "request" => ~HasAsk(t)

LEMMA SuffixOf ==
    ASSUME NEW q, IsSeq(q), NEW n \in Nat
    PROVE  Leaves(SubSeq(q, n + 1, Len(q)), q, n)
<1> DEFINE t == SubSeq(q, n + 1, Len(q))
<1>1. PICK S : q \in Seq(S)
  BY DEF IsSeq
<1>2. /\ t \in Seq(S)
      /\ Len(t) = IF n + 1 <= Len(q) THEN Len(q) - n ELSE 0
      /\ \A i \in 1..(Len(q) - n) : t[i] = q[n + i]
  <2>1. n + 1 \in Int /\ Len(q) \in Int /\ \A i \in (n + 1)..Len(q) : q[i] \in S
    BY <1>1
  <2>2. /\ t \in Seq(S)
        /\ Len(t) = IF n + 1 <= Len(q) THEN Len(q) - (n + 1) + 1 ELSE 0
        /\ \A i \in 1..(Len(q) - (n + 1) + 1) : t[i] = q[n + 1 + i - 1]
    BY <2>1, SubSeqProperties
  <2> QED BY <2>1, <2>2
<1> HIDE DEF t
<1>3. \A i \in 1..Len(t) : n + i \in 1..Len(q) /\ t[i] = q[n + i]
  BY <1>1, <1>2
<1>4. IsSeq(t)
  BY <1>2 DEF IsSeq
<1>5. HasAsk(t) => HasAsk(q)
  BY <1>3 DEF HasAsk
<1>6. ASSUME OneAsk(q) PROVE OneAsk(t)
  <2>1. ASSUME NEW i \in 1..Len(t), NEW j \in 1..Len(t), t[i].k = "request", t[j].k = "request"
        PROVE  i = j
    <3>1. n + i = n + j
      BY <1>3, <1>6, <2>1 DEF OneAsk
    <3> QED BY <1>2, <3>1
  <2> QED BY <2>1 DEF OneAsk
<1>7. ASSUME EolWhole(q) PROVE EolWhole(t)
  <2>1. ASSUME NEW i \in 1..Len(t), t[i].k = "CR" PROVE i < Len(t)
    <3>1. n + i < Len(q)
      BY <1>3, <1>7, <2>1 DEF EolWhole
    <3> QED BY <1>1, <1>2, <3>1
  <2> QED BY <2>1 DEF EolWhole
<1>8. ASSUME n > 0, OneAsk(q), q[1].k = "request", HasAsk(t) PROVE FALSE
  <2>1. PICK i \in 1..Len(t) : q[n + i].k = "request" /\ n + i \in 1..Len(q)
    BY <1>3, <1>8 DEF HasAsk
  <2>2. 1 \in 1..Len(q)
    BY <1>1, <2>1
  <2>3. n + i = 1
    BY <1>8, <2>1, <2>2 DEF OneAsk
  <2> QED BY <1>8, <1>2, <2>3
<1>9. Numbers(q) => Numbers(t)
  BY <1>3 DEF Numbers
<1>10. Leaves(t, q, n)
  BY <1>4, <1>5, <1>6, <1>7, <1>8, <1>9 DEF Leaves
<1> QED BY <1>10 DEF t

\* a is p followed by q.
Joins(a, p, q) ==
    /\ IsSeq(a) /\ Len(a) = Len(p) + Len(q)
    /\ \A i \in 1..Len(a) : \/ i \in 1..Len(p) /\ a[i] = p[i]
                            \/ i - Len(p) \in 1..Len(q) /\ a[i] = q[i - Len(p)]

LEMMA ConcatSeq ==
    ASSUME NEW p, IsSeq(p), NEW q, IsSeq(q)
    PROVE  Joins(p \o q, p, q)
<1> DEFINE a == p \o q
<1>1. PICK S, T : p \in Seq(S) /\ q \in Seq(T)
  BY DEF IsSeq
<1> DEFINE U == S \cup T
<1>2. p \in Seq(U) /\ q \in Seq(U)
  BY <1>1
<1> HIDE DEF U
<1>3. /\ a \in Seq(U) /\ Len(a) = Len(p) + Len(q)
      /\ \A i \in 1..(Len(p) + Len(q)) : a[i] = IF i <= Len(p) THEN p[i] ELSE q[i - Len(p)]
  BY <1>2, ConcatProperties
<1> HIDE DEF a
<1>4. Len(p) \in Nat /\ Len(q) \in Nat
  BY <1>2
<1>5. IsSeq(a)
  BY <1>3 DEF IsSeq
<1>6. ASSUME NEW i \in 1..Len(a)
      PROVE  (i \in 1..Len(p) /\ a[i] = p[i]) \/ (i - Len(p) \in 1..Len(q) /\ a[i] = q[i - Len(p)])
  BY <1>3, <1>4
<1>7. Joins(a, p, q)
  BY <1>3, <1>5, <1>6 DEF Joins
<1> QED BY <1>7 DEF a

\* a and b are what p and q become when units are moved from q to p.
Shift(a, b, p, q) ==
    /\ IsSeq(a) /\ IsSeq(b) /\ OneAsk(a) /\ OneAsk(b) /\ ~(HasAsk(a) /\ HasAsk(b))
    /\ HasAsk(a) => HasAsk(p) \/ HasAsk(q)
    /\ HasAsk(b) => HasAsk(q)
    /\ Numbers(p) /\ Numbers(q) => Numbers(a) /\ Numbers(b)

LEMMA Moved ==
    ASSUME NEW p, IsSeq(p), NEW q, IsSeq(q), NEW n \in 0..Len(q),
           OneAsk(p), OneAsk(q), ~(HasAsk(p) /\ HasAsk(q))
    PROVE  Shift(p \o SubSeq(q, 1, n), SubSeq(q, n + 1, Len(q)), p, q)
<1> DEFINE f == SubSeq(q, 1, n)
           a == p \o SubSeq(q, 1, n)
           b == SubSeq(q, n + 1, Len(q))
<1>1. PICK S : q \in Seq(S)
  BY DEF IsSeq
<1>2. /\ f \in Seq(S) /\ Len(f) = n
      /\ \A i \in 1..n : f[i] = q[i]
  <2>1. 1 \in Int /\ n \in Int /\ \A i \in 1..n : q[i] \in S
    BY <1>1
  <2>2. /\ f \in Seq(S)
        /\ Len(f) = IF 1 <= n THEN n - 1 + 1 ELSE 0
        /\ \A i \in 1..(n - 1 + 1) : f[i] = q[1 + i - 1]
    BY <2>1, SubSeqProperties
  <2>3. n \in Nat
    BY <1>1
  <2> QED BY <2>2, <2>3
<1>3. n \in Nat /\ n <= Len(q) /\ Len(q) \in Nat /\ Len(p) \in Nat
  BY <1>1, SeqLen
<1> HIDE DEF f
<1>4. a = p \o f /\ IsSeq(f)
  BY <1>2 DEF f, IsSeq
<1>5. Joins(a, p, f)
  <2>1. Joins(p \o f, p, f)
    BY <1>4, ConcatSeq, Zenon
  <2> QED BY <1>4, <2>1, Zenon
<1>6. Leaves(b, q, n)
  <2>1. n \in Nat
    BY <1>3
  <2> QED BY <2>1, SuffixOf, Zenon
<1>7. /\ Len(b) = Len(q) - n
      /\ \A i \in 1..Len(b) : b[i] = q[n + i]
  <2>1. n + 1 \in Int /\ Len(q) \in Int /\ \A i \in (n + 1)..Len(q) : q[i] \in S
    BY <1>1, <1>3
  <2>2. /\ Len(b) = IF n + 1 <= Len(q) THEN Len(q) - (n + 1) + 1 ELSE 0
        /\ \A i \in 1..(Len(q) - (n + 1) + 1) : b[i] = q[n + 1 + i - 1]
    BY <2>1, SubSeqProperties
  <2> QED BY <1>3, <2>1, <2>2
<1> HIDE DEF a, b
<1>8. \A i \in 1..Len(a) : \/ i \in 1..Len(p) /\ a[i] = p[i]
                           \/ i - Len(p) \in 1..n /\ a[i] = q[i - Len(p)]
  BY <1>2, <1>5 DEF Joins
<1>9. HasAsk(a) => HasAsk(p) \/ HasAsk(q)
  BY <1>3, <1>8 DEF HasAsk
<1>10. OneAsk(a)
  <2> SUFFICES ASSUME NEW i \in 1..Len(a), NEW j \in 1..Len(a),
                      a[i].k = "request", a[j].k = "request"
               PROVE  i = j
    BY DEF OneAsk
  <2>1. CASE HasAsk(p)
    <3>1. \A x \in 1..n : q[x].k # "request"
      BY <1>3, <2>1 DEF HasAsk
    <3>2. i \in 1..Len(p) /\ j \in 1..Len(p) /\ a[i] = p[i] /\ a[j] = p[j]
      BY <1>8, <3>1
    <3> QED BY <3>2 DEF OneAsk
  <2>2. CASE ~HasAsk(p)
    <3>1. /\ i - Len(p) \in 1..n /\ a[i] = q[i - Len(p)]
          /\ j - Len(p) \in 1..n /\ a[j] = q[j - Len(p)]
      BY <1>8, <2>2 DEF HasAsk
    <3>2. i - Len(p) = j - Len(p)
      <4>1. i - Len(p) \in 1..Len(q) /\ j - Len(p) \in 1..Len(q)
        BY <1>3, <3>1
      <4>2. q[i - Len(p)].k = "request" /\ q[j - Len(p)].k = "request"
        BY <3>1
      <4> QED BY <4>1, <4>2, Zenon DEF OneAsk
    <3>3. i \in Int /\ j \in Int /\ Len(p) \in Int
      BY <1>3
    <3> QED BY <3>2, <3>3
  <2> QED BY <2>1, <2>2
<1>11. ASSUME HasAsk(a), HasAsk(b) PROVE FALSE
  <2>1. PICK j \in 1..Len(b) : q[n + j].k = "request"
    BY <1>7, <1>11 DEF HasAsk
  <2>2. n + j \in 1..Len(q)
    BY <1>3, <1>7
  <2>3. ~HasAsk(p)
    BY <2>1, <2>2 DEF HasAsk
  <2>4. PICK i \in 1..Len(a) : a[i].k = "request"
    BY <1>11 DEF HasAsk
  <2>5. i - Len(p) \in 1..n /\ q[i - Len(p)].k = "request"
    BY <1>8, <2>3, <2>4 DEF HasAsk
  <2>6. i - Len(p) = n + j
    BY <1>3, <2>1, <2>2, <2>5 DEF OneAsk
  <2> QED BY <1>3, <2>5, <2>6
<1>12. ASSUME Numbers(p), Numbers(q) PROVE Numbers(a)
  <2> SUFFICES ASSUME NEW i \in 1..Len(a), a[i].k = "header" PROVE a[i].v.n \in Nat
    BY DEF Numbers
  <2>1. CASE i \in 1..Len(p) /\ a[i] = p[i]
    BY <1>12, <2>1 DEF Numbers
  <2>2. CASE i - Len(p) \in 1..n /\ a[i] = q[i - Len(p)]
    <3>1. i - Len(p) \in 1..Len(q)
      BY <1>3, <2>2
    <3> QED BY <1>12, <2>2, <3>1 DEF Numbers
  <2> QED BY <1>8, <2>1, <2>2
<1>13. Shift(a, b, p, q)
  BY <1>5, <1>6, <1>9, <1>10, <1>11, <1>12 DEF Shift, Joins, Leaves
<1> QED BY <1>13 DEF a, b

\* Units that follow a request line.
Harmless(q) == IsSeq(q) /\ ~HasAsk(q) /\ EolWhole(q) /\ Numbers(q)

LEMMA JoinHarmless == ASSUME NEW p, Harmless(p), NEW q, Harmless(q) PROVE Harmless(p \o q)
<1> DEFINE a == p \o q
<1>1. Joins(a, p, q) /\ Len(p) \in Nat /\ Len(q) \in Nat
  BY ConcatSeq, SeqLen, Zenon DEF Harmless
<1> HIDE DEF a
<1>2. IsSeq(a) /\ ~HasAsk(a)
  BY <1>1 DEF Harmless, Joins, HasAsk
<1>3. EolWhole(a)
  <2> SUFFICES ASSUME NEW i \in 1..Len(a), a[i].k = "CR" PROVE i < Len(a)
    BY DEF EolWhole
  <2>1. CASE i \in 1..Len(p) /\ a[i] = p[i]
    BY <1>1, <2>1 DEF Harmless, Joins, EolWhole
  <2>2. CASE i - Len(p) \in 1..Len(q) /\ a[i] = q[i - Len(p)]
    <3>1. i - Len(p) < Len(q)
      BY <2>2 DEF Harmless, EolWhole
    <3> QED BY <1>1, <3>1 DEF Joins
  <2> QED BY <1>1, <2>1, <2>2 DEF Joins
<1>4. Numbers(a)
  BY <1>1 DEF Harmless, Joins, Numbers
<1>5. Harmless(a)
  BY <1>2, <1>3, <1>4 DEF Harmless
<1> QED BY <1>5 DEF a

\* The recursive function of FlattenSeq exists, by induction: there is no least n for
\* which it does not.
LEMMA FlattenExists ==
    ASSUME NEW seqs, NEW n \in Nat
    PROVE  \E g : g = [i \in 1..n |-> IF i = 1 THEN seqs[i] ELSE g[i - 1] \o seqs[i]]
<1> DEFINE Good(g, k) == g = [i \in 1..k |-> IF i = 1 THEN seqs[i] ELSE g[i - 1] \o seqs[i]]
           T == {k \in Nat : ~\E g : Good(g, k)}
<1>1. SUFFICES ASSUME T # {} PROVE FALSE
  OBVIOUS
<1>2. PICK x \in T : \A y \in T : x <= y
  BY <1>1, LeastNat
<1>3. x \in Nat /\ ~\E g : Good(g, x)
  OBVIOUS
<1>4. CASE x = 0
  <2>1. Good([i \in 1..0 |-> 0], 0)
    OBVIOUS
  <2> QED BY <1>3, <1>4, <2>1
<1>5. CASE x > 0
  <2>1. x - 1 \in Nat /\ ~(x <= x - 1)
    BY <1>3, <1>5
  <2>2. x - 1 \notin T
    BY <1>2, <2>1
  <2>3. PICK g : Good(g, x - 1)
    BY <2>1, <2>2
  <2> DEFINE v == IF x = 1 THEN seqs[x] ELSE g[x - 1] \o seqs[x]
             h == [i \in 1..x |-> IF i = x THEN v ELSE g[i]]
  <2>4. ASSUME NEW i \in 1..x
        PROVE  h[i] = IF i = 1 THEN seqs[i] ELSE h[i - 1] \o seqs[i]
    <3>1. CASE i = x
      <4>1. x # 1 => x - 1 \in 1..x /\ x - 1 # x
        BY <1>3, <1>5
      <4>2. x # 1 => h[x - 1] = g[x - 1]
        BY <4>1
      <4> QED BY <3>1, <4>2
    <3>2. CASE i # x
      <4>1. i \in 1..(x - 1) /\ (i # 1 => i - 1 \in 1..x /\ i - 1 # x)
        BY <1>3, <3>2
      <4>2. h[i] = g[i] /\ (i # 1 => h[i - 1] = g[i - 1])
        BY <3>2, <4>1
      <4>3. g[i] = IF i = 1 THEN seqs[i] ELSE g[i - 1] \o seqs[i]
        BY <2>3, <4>1
      <4> QED BY <4>2, <4>3
    <3> QED BY <3>1, <3>2
  <2>5. Good(h, x)
    <3>1. h = [i \in 1..x |-> h[i]]
      OBVIOUS
    <3> HIDE DEF h
    <3> QED BY <2>4, <3>1
  <2> QED BY <1>3, <2>5
<1> QED BY <1>3, <1>4, <1>5

LEMMA FlattenHarmless ==
    ASSUME NEW seqs, IsSeq(seqs), \A i \in 1..Len(seqs) : Harmless(seqs[i])
    PROVE  Harmless(FlattenSeq(seqs))
<1>1. Len(seqs) \in Nat
  BY SeqLen
<1>2. CASE Len(seqs) = 0
  BY <1>2 DEF FlattenSeq, Harmless, HasAsk, EolWhole, Numbers
<1>3. CASE Len(seqs) > 0
  <2> DEFINE F(g) == [i \in 1..Len(seqs) |-> IF i = 1 THEN seqs[i] ELSE g[i - 1] \o seqs[i]]
             f == CHOOSE g : g = F(g)
  <2>1. FlattenSeq(seqs) = f[Len(seqs)]
    BY <1>3 DEF FlattenSeq
  <2>2. \E g : g = F(g)
    BY <1>1, FlattenExists
  <2>3. f = F(f)
    BY <2>2
  <2> HIDE DEF f
  <2>4. \A i \in 1..Len(seqs) : f[i] = IF i = 1 THEN seqs[i] ELSE f[i - 1] \o seqs[i]
    BY <2>3
  <2> HIDE DEF F
  <2> DEFINE T == {k \in Nat : k \in 1..Len(seqs) /\ ~Harmless(f[k])}
  <2>5. ASSUME T # {} PROVE FALSE
    <3>1. PICK x \in T : \A y \in T : x <= y
      BY <2>5, LeastNat
    <3>2. x \in Nat /\ x \in 1..Len(seqs) /\ ~Harmless(f[x])
      OBVIOUS
    <3>3. x # 1
      BY <2>4, <3>2
    <3>4. x - 1 \in Nat /\ x - 1 \in 1..Len(seqs) /\ ~(x <= x - 1)
      BY <1>1, <3>2, <3>3
    <3>5. Harmless(f[x - 1])
      BY <3>1, <3>4
    <3>6. f[x] = f[x - 1] \o seqs[x]
      BY <2>4, <3>2, <3>3
    <3> QED BY <3>2, <3>5, <3>6, JoinHarmless
  <2>6. Len(seqs) \in 1..Len(seqs)
    BY <1>1, <1>3
  <2> QED BY <1>1, <2>1, <2>5, <2>6
<1> QED BY <1>1, <1>2, <1>3

\* A whole request, or what is left of one.
Opening(q) == IsSeq(q) /\ OneAsk(q) /\ EolWhole(q) /\ Numbers(q)

LEMMA JoinOpening == ASSUME NEW p, Opening(p), NEW q, Harmless(q) PROVE Opening(p \o q)
<1> DEFINE a == p \o q
<1>1. Joins(a, p, q) /\ Len(p) \in Nat /\ Len(q) \in Nat
  BY ConcatSeq, SeqLen, Zenon DEF Opening, Harmless
<1> HIDE DEF a
<1>2. ASSUME NEW i \in 1..Len(a), a[i].k = "request" PROVE i \in 1..Len(p) /\ a[i] = p[i]
  BY <1>1, <1>2 DEF Harmless, Joins, HasAsk
<1>3. OneAsk(a)
  BY <1>2 DEF Opening, OneAsk
<1>4. EolWhole(a)
  <2> SUFFICES ASSUME NEW i \in 1..Len(a), a[i].k = "CR" PROVE i < Len(a)
    BY DEF EolWhole
  <2>1. CASE i \in 1..Len(p) /\ a[i] = p[i]
    BY <1>1, <2>1 DEF Opening, Joins, EolWhole
  <2>2. CASE i - Len(p) \in 1..Len(q) /\ a[i] = q[i - Len(p)]
    <3>1. i - Len(p) < Len(q)
      BY <2>2 DEF Harmless, EolWhole
    <3> QED BY <1>1, <3>1 DEF Joins
  <2> QED BY <1>1, <2>1, <2>2 DEF Joins
<1>5. Numbers(a)
  BY <1>1 DEF Opening, Harmless, Joins, Numbers
<1>6. Opening(a)
  BY <1>1, <1>3, <1>4, <1>5 DEF Opening, Joins
<1> QED BY <1>6 DEF a

LEMMA EolHarmless == Harmless(Eol)
<1>1. Eol \in Seq({Unit("CR", 0), Unit("LF", 0)}) /\ Len(Eol) = 2
  BY DEF Eol
<1>2. Eol[1].k = "CR" /\ Eol[2].k = "LF"
  BY DEF Eol, Unit
<1>3. IsSeq(Eol)
  BY <1>1 DEF IsSeq
<1> QED BY <1>1, <1>2, <1>3 DEF Harmless, HasAsk, EolWhole, Numbers

\* Text and bodies.
LEMMA RunHarmless ==
    ASSUME NEW n \in Nat, NEW q, NEW S, q \in [1..n -> S],
           \A i \in 1..n : /\ q[i].k \notin {"request", "CR"}
                           /\ (q[i].k = "header" => q[i].v.n \in Nat)
    PROVE  Harmless(q)
<1>1. q \in Seq(S) /\ Len(q) = n
  OBVIOUS
<1>2. IsSeq(q)
  BY <1>1 DEF IsSeq
<1>3. \A i \in 1..Len(q) : /\ q[i].k # "request" /\ q[i].k # "CR"
                           /\ q[i].k = "header" => q[i].v.n \in Nat
  BY <1>1
<1>4. ~HasAsk(q) /\ EolWhole(q) /\ Numbers(q)
  BY <1>3, Zenon DEF HasAsk, EolWhole, Numbers
<1> QED BY <1>2, <1>4 DEF Harmless

LEMMA HeaderHarmless == ASSUME NEW h, h.n \in Nat PROVE Harmless(HeaderUnits(h))
<1> DEFINE n == IF h.name = "long" THEN LineBuf ELSE 1
           p == <<Unit("header", h)>>
<1>1. n \in Nat
  BY HttpAssumption
<1>2. Harmless(p)
  <2>1. p \in [1..1 -> {Unit("header", h)}] /\ p[1] = Unit("header", h)
    OBVIOUS
  <2>2. Unit("header", h).k = "header" /\ Unit("header", h).v.n \in Nat
    BY DEF Unit
  <2> HIDE DEF p
  <2>3. \A i \in 1..1 : p[i].k \notin {"request", "CR"} /\ (p[i].k = "header" => p[i].v.n \in Nat)
    BY <2>1, <2>2
  <2> QED BY <2>1, <2>3, RunHarmless
<1> HIDE DEF n
<1>3. Harmless(Filler(n))
  <2>1. Filler(n) \in [1..n -> {Unit("text", 0)}] /\ \A i \in 1..n : Filler(n)[i] = Unit("text", 0)
    BY DEF Filler
  <2>2. Unit("text", 0).k = "text"
    BY DEF Unit
  <2>3. \A i \in 1..n : /\ Filler(n)[i].k \notin {"request", "CR"}
                        /\ (Filler(n)[i].k = "header" => Filler(n)[i].v.n \in Nat)
    BY <2>1, <2>2
  <2> QED BY <1>1, <2>1, <2>3, RunHarmless
<1> HIDE DEF p
<1>4. Harmless(p \o Filler(n) \o Eol)
  BY <1>2, <1>3, EolHarmless, JoinHarmless
<1> QED BY <1>4 DEF HeaderUnits, n, p

\* A request has one request line.
LEMMA UnitsOpening == ASSUME NEW r \in Requests PROVE Opening(Units(r))
<1> DEFINE first == Unit("request", [method |-> r.method, http |-> r.http])
           p == <<first>>
           n == Len(r.headers)
           hs == [i \in 1..n |-> HeaderUnits(r.headers[i])]
           b == [i \in 1..r.body |-> Unit("body", i)]
<1>1. n \in Nat /\ r.body \in Nat
  BY HttpAssumption
<1>2. Opening(p)
  <2>1. first.k = "request"
    BY DEF Unit
  <2> HIDE DEF first
  <2>2. p \in Seq({first}) /\ Len(p) = 1 /\ p[1] = first
    OBVIOUS
  <2> HIDE DEF p
  <2>3. IsSeq(p)
    BY <2>2 DEF IsSeq
  <2> QED BY <2>1, <2>2, <2>3 DEF Opening, OneAsk, EolWhole, Numbers
<1>3. Harmless(FlattenSeq(hs))
  <2>1. Len(hs) = n /\ hs \in Seq({HeaderUnits(r.headers[i]) : i \in 1..n})
    BY <1>1
  <2>2. \A i \in 1..Len(hs) : Harmless(hs[i])
    BY <2>1, HttpAssumption, HeaderHarmless
  <2>3. IsSeq(hs)
    BY <2>1 DEF IsSeq
  <2> HIDE DEF hs
  <2> QED BY <2>2, <2>3, FlattenHarmless
<1>4. Harmless(b)
  <2>1. b \in [1..r.body -> {Unit("body", i) : i \in 1..r.body}]
    OBVIOUS
  <2>2. \A i \in 1..r.body : b[i].k = "body"
    BY DEF Unit
  <2> HIDE DEF b
  <2>3. \A i \in 1..r.body : /\ b[i].k \notin {"request", "CR"}
                             /\ (b[i].k = "header" => b[i].v.n \in Nat)
    BY <2>2
  <2> QED BY <1>1, <2>1, <2>3, RunHarmless
<1> DEFINE hf == FlattenSeq(hs)
<1> HIDE DEF p, b, hf
<1>5. Harmless(hf)
  BY <1>3 DEF hf
<1>6. Opening(p \o Eol \o hf \o Eol \o b)
  BY <1>2, <1>4, <1>5, EolHarmless, JoinOpening
<1> QED BY <1>6 DEF Units, p, b, hf

-----------------------------------------------------------------------------
(* The inductive invariant.                                                *)

Fields == {"part", "url", "method", "attr", "length", "bodyPos"}

IsRequest(r) == DOMAIN r = Fields /\ r.length \in Nat /\ r.bodyPos \in Nat

Buffer(q) == IsSeq(q) /\ OneAsk(q) /\ Numbers(q)

\* Of what is still to be sent, has arrived and is in line_buf at most one part holds
\* a request line.
Queues(t, w, l) ==
    /\ Opening(t) /\ Buffer(w) /\ Buffer(l)
    /\ ~(HasAsk(l) /\ HasAsk(w)) /\ ~(HasAsk(l) /\ HasAsk(t)) /\ ~(HasAsk(w) /\ HasAsk(t))

Asks(t, w, l) == HasAsk(t) \/ HasAsk(w) \/ HasAsk(l)

\* There is a request to answer when one is read, and when its first line is not yet.
InHttp ==
    /\ IsRequest(req)
    /\ Queues(todo, wire, lineBuf)
    /\ Asks(todo, wire, lineBuf) => ~req.url /\ Len(responses) < Len(sent)
    /\ req.url => Len(responses) < Len(sent)

\* Nothing is answered during a handshake, and nothing arrives before it is sent.
InHandshake ==
    /\ responses = <<>>
    /\ sent = <<>> => lineBuf = <<>> /\ wire = <<>> /\ todo = <<>> /\ ~parsing

Framed ==
    \A i \in 1..Len(responses) :
        i < Len(responses) \/ open => responses[i].framed /\ responses[i].whole

WebInv ==
    /\ IsSeq(sent) /\ IsSeq(responses)
    /\ Framed
    /\ open => Len(responses) <= Len(sent)
    /\ open /\ mode = "http" => InHttp
    /\ open /\ mode = "handshake" => InHandshake

-----------------------------------------------------------------------------
(* What a step does to the three parts.                                    *)

StepTo(t, w, l, t2, w2, l2) == Queues(t2, w2, l2) /\ (Asks(t2, w2, l2) => Asks(t, w, l))

LEMMA QueuesArrive ==
    ASSUME NEW t, NEW w, NEW l, Queues(t, w, l), NEW n \in 0..Len(t)
    PROVE  StepTo(t, w, l, SubSeq(t, n + 1, Len(t)), w \o SubSeq(t, 1, n), l)
<1> DEFINE a == w \o SubSeq(t, 1, n)
           b == SubSeq(t, n + 1, Len(t))
<1>1. IsSeq(w) /\ IsSeq(t) /\ OneAsk(w) /\ OneAsk(t) /\ ~(HasAsk(w) /\ HasAsk(t))
  BY DEF Queues, Opening, Buffer
<1>2. Len(t) \in Nat /\ n \in Nat
  BY <1>1, SeqLen
<1>3. Shift(a, b, w, t)
  BY <1>1, Moved, Zenon
<1>4. Leaves(b, t, n)
  BY <1>1, <1>2, SuffixOf, Zenon
<1> HIDE DEF a, b
<1>5. StepTo(t, w, l, b, a, l)
  BY <1>3, <1>4, Zenon DEF StepTo, Queues, Opening, Buffer, Asks, Leaves, Shift
<1> QED BY <1>5 DEF a, b

LEMMA QueuesRecv ==
    ASSUME NEW t, NEW w, NEW l, Queues(t, w, l), NEW n \in 0..Len(w)
    PROVE  StepTo(t, w, l, t, SubSeq(w, n + 1, Len(w)), l \o SubSeq(w, 1, n))
<1> DEFINE a == l \o SubSeq(w, 1, n)
           b == SubSeq(w, n + 1, Len(w))
<1>1. IsSeq(w) /\ IsSeq(l) /\ OneAsk(w) /\ OneAsk(l) /\ ~(HasAsk(l) /\ HasAsk(w))
  BY DEF Queues, Buffer
<1>2. Shift(a, b, l, w)
  BY <1>1, Moved, Zenon
<1> HIDE DEF a, b
<1>3. StepTo(t, w, l, t, b, a)
  BY <1>2, Zenon DEF StepTo, Queues, Buffer, Asks, Shift
<1> QED BY <1>3 DEF a, b

LEMMA QueuesDrop ==
    ASSUME NEW t, NEW w, NEW l, Queues(t, w, l), NEW w2, NEW l2, NEW m, NEW n,
           w2 = w \/ Leaves(w2, w, m), l2 = l \/ Leaves(l2, l, n)
    PROVE  StepTo(t, w, l, t, w2, l2)
<1>1. Buffer(w2) /\ (HasAsk(w2) => HasAsk(w))
  BY Zenon DEF Queues, Buffer, Leaves
<1>2. Buffer(l2) /\ (HasAsk(l2) => HasAsk(l))
  BY Zenon DEF Queues, Buffer, Leaves
<1> QED BY <1>1, <1>2, Zenon DEF StepTo, Queues, Asks

LEMMA NothingLeft == ASSUME NEW q PROVE Leaves(<<>>, q, 1)
  BY DEF Leaves, IsSeq, HasAsk, OneAsk, EolWhole, Numbers

LEMMA LeavesLess ==
    ASSUME NEW q, NEW a, Leaves(a, q, 1), NEW b, NEW n, Leaves(b, a, n)
    PROVE  Leaves(b, q, 0)
  BY DEF Leaves

\* A line of the buffer that is done with takes at least its first unit with it.
LEMMA LineOut ==
    ASSUME IsSeq(lineBuf), HasLine
    PROVE  Leaves(AfterLine, lineBuf, 1) /\ 1 \in 1..Len(lineBuf)
<1> DEFINE I == {i \in 1..Len(lineBuf) : IsEnd(lineBuf[i])}
           x == SelectInSeq(lineBuf, IsEnd)
<1>1. Len(lineBuf) \in Nat
  BY SeqLen
<1>2. x # 0 /\ x = IF I # {} THEN Min(I) ELSE 0
  BY DEF HasLine, SelectInSeq
<1>3. I # {} /\ x = CHOOSE y \in I : \A z \in I : y <= z
  BY <1>2 DEF Min
<1>4. I \in SUBSET Nat
  BY <1>1
<1>5. \E y \in I : \A z \in I : y <= z
  BY <1>3, <1>4, LeastNat
<1>6. x \in I
  BY <1>3, <1>5
<1>7. x \in 1..Len(lineBuf)
  BY <1>6
<1> HIDE DEF x
<1>8. PICK n \in Nat : n > 0 /\ AfterLine = SubSeq(lineBuf, n + 1, Len(lineBuf))
  <2>1. LineLen = x - 1
    BY DEF LineLen, x
  <2>2. EolLen(LineLen + 1) \in {1, 2}
    BY DEF EolLen
  <2>3. LineLen + EolLen(LineLen + 1) \in Nat /\ LineLen + EolLen(LineLen + 1) > 0
    BY <1>1, <1>7, <2>1, <2>2
  <2> QED BY <2>3 DEF AfterLine, Rest
<1>9. Leaves(AfterLine, lineBuf, n)
  BY <1>8, SuffixOf
<1> QED BY <1>1, <1>7, <1>8, <1>9 DEF Leaves

-----------------------------------------------------------------------------
(* The invariant: what is common to several actions.                       *)

\* s with e at its end.
Longer(t, s, e) ==
    /\ IsSeq(t) /\ Len(t) = Len(s) + 1
    /\ t[Len(s) + 1] = e /\ \A i \in 1..Len(s) : t[i] = s[i]

LEMMA AppendSeq == ASSUME NEW s, IsSeq(s), NEW e PROVE Longer(Append(s, e), s, e)
<1>1. PICK S : s \in Seq(S)
  BY DEF IsSeq
<1> DEFINE U == S \cup {e}
<1>2. s \in Seq(U) /\ e \in U
  BY <1>1
<1> HIDE DEF U
<1>3. Append(s, e) \in Seq(U)
  BY <1>2
<1> QED BY <1>2, <1>3, AppendProperties DEF IsSeq, Longer

\* A response that closes the connection may be any; one that does not is good.
Answers(r) ==
    /\ responses' = Append(responses, r)
    /\ open' => r.framed /\ r.whole

LEMMA StaysFramed ==
    ASSUME WebInv, open, \/ responses' = responses
                         \/ \E r : Answers(r)
    PROVE  IsSeq(responses)' /\ Framed'
<1>1. IsSeq(responses) /\ Len(responses) \in Nat
  BY SeqLen, Zenon DEF WebInv
<1>2. \A i \in 1..Len(responses) : responses[i].framed /\ responses[i].whole
  BY Zenon DEF WebInv, Framed
<1>3. CASE responses' = responses
  BY <1>1, <1>2, <1>3, Zenon DEF Framed
<1>4. ASSUME NEW r, Answers(r)
      PROVE  IsSeq(responses)' /\ Framed'
  <2>0. Longer(responses', responses, r)
    <3>1. responses' = Append(responses, r)
      BY <1>4 DEF Answers
    <3>2. Longer(Append(responses, r), responses, r)
      BY <1>1, AppendSeq, Zenon
    <3> QED BY <3>1, <3>2, Zenon
  <2>1. /\ IsSeq(responses') /\ Len(responses') = Len(responses) + 1
        /\ responses'[Len(responses) + 1] = r
        /\ \A i \in 1..Len(responses) : responses'[i] = responses[i]
    BY <2>0 DEF Longer
  <2>2. ASSUME NEW i \in 1..Len(responses'), i < Len(responses') \/ open'
        PROVE  responses'[i].framed /\ responses'[i].whole
    <3>1. CASE i = Len(responses) + 1
      <4>1. ~(i < Len(responses'))
        BY <1>1, <2>1, <3>1
      <4>2. r.framed /\ r.whole
        BY <1>4, <2>2, <4>1, Zenon DEF Answers
      <4> QED BY <2>1, <3>1, <4>2, Zenon
    <3>2. CASE i # Len(responses) + 1
      <4>1. i \in 1..Len(responses)
        BY <1>1, <2>1, <3>2
      <4> QED BY <1>2, <2>1, <4>1, Zenon
    <3> QED BY <3>1, <3>2
  <2>3. Framed'
    BY <2>2, Zenon DEF Framed
  <2> QED BY <2>1, <2>3, Zenon
<1> QED BY <1>3, <1>4

LEMMA Closes ==
    ASSUME WebInv, open, sent' = sent, ~open', \/ responses' = responses
                                               \/ \E r : responses' = Append(responses, r)
    PROVE  WebInv'
<1>1. responses' = responses \/ \E r : Answers(r)
  BY Zenon DEF Answers
<1>2. IsSeq(responses)' /\ Framed'
  BY <1>1, StaysFramed, Zenon
<1> QED BY <1>2, Zenon DEF WebInv

\* The connection of an HTTP request or a handshake becomes one of a session.
LEMMA Switches ==
    ASSUME WebInv, open, sent' = sent, Len(responses) < Len(sent),
           mode' \notin {"http", "handshake"}, NEW r, Answers(r)
    PROVE  WebInv'
<1>1. IsSeq(responses)' /\ Framed'
  BY StaysFramed, Zenon
<1>2. Len(responses) \in Nat /\ Len(sent) \in Nat /\ Len(responses') = Len(responses) + 1
  <2>1. IsSeq(responses) /\ IsSeq(sent) /\ responses' = Append(responses, r)
    BY Zenon DEF WebInv, Answers
  <2>2. Longer(Append(responses, r), responses, r)
    BY <2>1, AppendSeq, Zenon
  <2> QED BY <2>1, <2>2, SeqLen DEF Longer
<1>3. Len(responses') <= Len(sent')
  BY <1>2
<1>4. mode' # "http" /\ mode' # "handshake"
  BY Zenon
<1> QED BY <1>1, <1>3, <1>4, Zenon DEF WebInv

LEMMA Stays ==
    ASSUME WebInv, open, UNCHANGED <<sent, responses>>,
           mode' = "http" => InHttp', mode' = "handshake" => InHandshake'
    PROVE  WebInv'
<1>1. IsSeq(responses)' /\ Framed'
  BY StaysFramed, Zenon
<1> QED BY <1>1, Zenon DEF WebInv

\* A step of a session.
LEMMA Speaks ==
    ASSUME WebInv, Speaking, UNCHANGED <<mode, sent, responses>>
    PROVE  WebInv'
<1>1. open /\ mode' # "http" /\ mode' # "handshake"
  BY DEF Speaking
<1> QED BY <1>1, Stays, Zenon

\* A step with the request, before or after its first line.
LEMMA HttpStays ==
    ASSUME WebInv, Serving, UNCHANGED <<mode, sent, responses>>,
           IsRequest(req'), req'.url = req.url,
           StepTo(todo, wire, lineBuf, todo', wire', lineBuf')
    PROVE  WebInv'
<1>1. open /\ mode = "http" /\ InHttp
  BY Zenon DEF WebInv, Serving
<1>2. InHttp'
  BY <1>1, Zenon DEF InHttp, StepTo
<1>3. mode' # "handshake"
  BY <1>1
<1> QED BY <1>1, <1>2, <1>3, Stays, Zenon

LEMMA SendingHandshake ==
    ASSUME WebInv, Handshaking, lineBuf # <<>> \/ wire # <<>> \/ todo # <<>> \/ parsing
    PROVE  Len(responses) < Len(sent) /\ sent # <<>> /\ responses = <<>>
<1>1. IsSeq(sent) /\ InHandshake
  BY Zenon DEF WebInv, Handshaking
<1>2. sent # <<>> /\ responses = <<>>
  BY <1>1, Zenon DEF InHandshake
<1>3. Len(sent) \in Nat /\ Len(sent) # 0
  BY <1>1, <1>2, EmptySeq DEF IsSeq
<1> QED BY <1>2, <1>3

LEMMA HandshakeStays ==
    ASSUME WebInv, Handshaking, UNCHANGED <<mode, sent, responses>>,
           lineBuf # <<>> \/ wire # <<>> \/ todo # <<>> \/ parsing
    PROVE  WebInv'
<1>1. open /\ mode' # "http" /\ sent # <<>> /\ responses = <<>>
  BY SendingHandshake DEF Handshaking
<1>2. InHandshake'
  BY <1>1, Zenon DEF InHandshake
<1> QED BY <1>1, <1>2, Stays, Zenon

-----------------------------------------------------------------------------
(* The steps of the client and of the network.                             *)

LEMMA InitStep == Init => WebInv
<1> SUFFICES ASSUME Init PROVE WebInv
  OBVIOUS
<1>1. /\ open /\ ~parsing /\ sent = <<>> /\ todo = <<>> /\ wire = <<>> /\ lineBuf = <<>>
      /\ req = NoRequest /\ responses = <<>>
  BY DEF Init, HttpInit
<1>2. IsSeq(<<>>) /\ ~HasAsk(<<>>) /\ Opening(<<>>) /\ Buffer(<<>>) /\ Len(<<>>) = 0
  BY DEF IsSeq, HasAsk, Opening, Buffer, OneAsk, EolWhole, Numbers
<1>3. IsRequest(NoRequest) /\ ~NoRequest.url
  BY DEF NoRequest, IsRequest, Fields
<1>4. InHttp
  BY <1>1, <1>2, <1>3, Zenon DEF InHttp, Queues, Asks
<1>5. InHandshake
  BY <1>1, Zenon DEF InHandshake
<1>6. Framed /\ Len(responses) <= Len(sent)
  BY <1>1, <1>2 DEF Framed
<1> QED BY <1>1, <1>2, <1>4, <1>5, <1>6, Zenon DEF WebInv

\* A closed connection, or a variable that the invariant does not speak of.
LEMMA Idles ==
    ASSUME WebInv, UNCHANGED <<open, sent, responses, mode>>,
           \/ ~open
           \/ mode \notin {"http", "handshake"}
           \/ UNCHANGED <<todo, wire, lineBuf, parsing, req>>
    PROVE  WebInv'
<1>1. CASE ~open
  BY <1>1, Zenon DEF WebInv, Framed
<1>2. CASE mode \notin {"http", "handshake"}
  <2>1. mode # "http" /\ mode # "handshake"
    BY <1>2
  <2> QED BY <2>1, Zenon DEF WebInv, Framed
<1>3. CASE UNCHANGED <<todo, wire, lineBuf, parsing, req>>
  BY <1>3, Zenon DEF WebInv, Framed, InHttp, InHandshake
<1> QED BY <1>1, <1>2, <1>3

LEMMA ClientRequestStep == ASSUME WebInv, NEW r \in Requests, ClientRequest(r) PROVE WebInv'
<1>1. /\ open /\ mode = "http" /\ open' = open /\ mode' = mode
      /\ Len(responses) = Len(sent) /\ sent' = Append(sent, r) /\ responses' = responses
      /\ todo' = Units(r) /\ wire' = wire /\ lineBuf' = lineBuf /\ req' = req
  BY DEF ClientRequest
<1>2. IsSeq(sent) /\ IsSeq(responses) /\ InHttp
  BY <1>1, Zenon DEF WebInv
<1>3. Len(sent) \in Nat /\ Len(responses) \in Nat
  BY <1>2, SeqLen
<1>4. IsSeq(sent') /\ Len(sent') = Len(sent) + 1
  <2>1. Longer(Append(sent, r), sent, r)
    BY <1>2, AppendSeq, Zenon
  <2> QED BY <1>1, <2>1 DEF Longer
<1>5. Len(responses') < Len(sent') /\ Len(responses') <= Len(sent') /\ ~(Len(responses) < Len(sent))
  BY <1>1, <1>3, <1>4
<1>6. ~req.url /\ ~Asks(todo, wire, lineBuf) /\ Queues(todo, wire, lineBuf) /\ IsRequest(req)
  BY <1>2, <1>5, Zenon DEF InHttp
<1>7. Opening(Units(r))
  BY UnitsOpening
<1>8. Queues(todo', wire', lineBuf')
  BY <1>1, <1>6, <1>7, Zenon DEF Queues, Asks
<1>9. InHttp'
  BY <1>1, <1>5, <1>6, <1>8, Zenon DEF InHttp
<1>10. IsSeq(responses)' /\ Framed'
  BY <1>1, StaysFramed, Zenon
<1>11. mode' # "handshake"
  BY <1>1
<1> QED BY <1>4, <1>5, <1>9, <1>10, <1>11, Zenon DEF WebInv

LEMMA ArrivesStep == ASSUME WebInv, Arrives PROVE WebInv'
<1> DEFINE n == IF todo[1].k = "CR" /\ ~SplitEol THEN 2 ELSE 1
<1>1. /\ todo # <<>> /\ UNCHANGED <<open, sent, responses, mode, parsing, lineBuf, req>>
      /\ wire' = wire \o SubSeq(todo, 1, n) /\ todo' = SubSeq(todo, n + 1, Len(todo))
  BY DEF Arrives
<1>2. CASE open /\ mode = "http"
  <2>1. InHttp
    BY <1>2, Zenon DEF WebInv
  <2>2. Opening(todo) /\ Queues(todo, wire, lineBuf) /\ IsRequest(req)
    BY <2>1 DEF InHttp, Queues
  <2>3. Len(todo) \in Nat /\ Len(todo) # 0
    BY <1>1, <2>2, EmptySeq DEF Opening, IsSeq
  <2>4. todo[1].k = "CR" => 1 < Len(todo)
    BY <2>2, <2>3 DEF Opening, EolWhole
  <2>5. n \in 0..Len(todo)
    BY <2>3, <2>4
  <2> HIDE DEF n
  <2>6. StepTo(todo, wire, lineBuf, todo', wire', lineBuf')
    BY <1>1, <2>2, <2>5, QueuesArrive, Zenon
  <2>7. Serving /\ IsRequest(req') /\ req'.url = req.url
    BY <1>1, <1>2, <2>2 DEF Serving
  <2> QED BY <1>1, <2>6, <2>7, HttpStays, Zenon
<1>3. CASE open /\ mode = "handshake"
  BY <1>1, <1>3, HandshakeStays, Zenon DEF Handshaking
<1>4. CASE ~open \/ mode \notin {"http", "handshake"}
  BY <1>1, <1>4, Idles, Zenon
<1> QED BY <1>2, <1>3, <1>4

LEMMA ClientHandshakeStep == ASSUME WebInv, NEW r, ClientHandshake(r) PROVE WebInv'
<1>1. /\ open /\ mode = "handshake" /\ open' = open /\ mode' = mode
      /\ sent' = <<r>> /\ responses' = responses
  BY DEF ClientHandshake, Handshaking
<1>2. responses = <<>>
  BY <1>1, Zenon DEF WebInv, InHandshake
<1>3. sent' # <<>> /\ IsSeq(sent') /\ Len(responses') <= Len(sent')
  <2>1. <<r>> \in Seq({r}) /\ Len(<<r>>) = 1
    OBVIOUS
  <2>2. IsSeq(<<r>>)
    BY <2>1 DEF IsSeq
  <2> QED BY <1>1, <1>2, <2>1, <2>2
<1>4. InHandshake'
  BY <1>1, <1>2, <1>3, Zenon DEF InHandshake
<1>5. IsSeq(responses)' /\ Framed'
  BY <1>1, StaysFramed, Zenon
<1>6. mode' # "http"
  BY <1>1
<1> QED BY <1>3, <1>4, <1>5, <1>6, Zenon DEF WebInv

LEMMA ClientStep == ASSUME WebInv, Client PROVE WebInv'
<1>1. ASSUME Arrives PROVE WebInv'
  BY <1>1, ArrivesStep
<1>2. ASSUME ClientCloses PROVE WebInv'
  <2>1. UNCHANGED <<open, sent, responses, mode, todo, wire, lineBuf, parsing, req>>
    BY <1>2 DEF ClientCloses
  <2> QED BY <2>1, Idles, Zenon
<1>3. ASSUME NEW r \in Requests, ClientRequest(r) PROVE WebInv'
  BY <1>3, ClientRequestStep
<1>4. ASSUME NEW r \in Handshakes, ClientHandshake(r) PROVE WebInv'
  BY <1>4, ClientHandshakeStep, Zenon
<1>5. ASSUME NEW m \in Messages, ClientMessage(m) PROVE WebInv'
  <2>1. Speaking /\ UNCHANGED <<mode, sent, responses>>
    BY <1>5 DEF ClientMessage
  <2> QED BY <2>1, Speaks, Zenon
<1> QED BY <1>1, <1>2, <1>3, <1>4, <1>5, Zenon DEF Client, HttpClient

-----------------------------------------------------------------------------
(* The steps of the HTTP server.                                           *)

LEMMA ServingHttp ==
    ASSUME WebInv, Serving
    PROVE  /\ open /\ mode = "http" /\ InHttp /\ Queues(todo, wire, lineBuf) /\ IsRequest(req)
           /\ IsSeq(wire) /\ IsSeq(lineBuf) /\ Len(wire) \in Nat /\ Len(lineBuf) \in Nat
<1>1. open /\ mode = "http" /\ InHttp
  BY Zenon DEF WebInv, Serving
<1>2. Queues(todo, wire, lineBuf) /\ IsRequest(req) /\ IsSeq(wire) /\ IsSeq(lineBuf)
  BY <1>1, Zenon DEF InHttp, Queues, Buffer
<1> QED BY <1>1, <1>2, SeqLen

LEMMA RecvLineStep == ASSUME WebInv, RecvLine PROVE WebInv'
<1> DEFINE n == Smaller(Room, Len(wire))
<1>1. /\ Serving /\ Room > 0 /\ UNCHANGED <<open, mode, sent, todo, req, responses>>
      /\ lineBuf' = lineBuf \o SubSeq(wire, 1, n) /\ wire' = SubSeq(wire, n + 1, Len(wire))
  BY DEF RecvLine
<1>2. Queues(todo, wire, lineBuf) /\ IsRequest(req) /\ Len(wire) \in Nat /\ Len(lineBuf) \in Nat
  BY <1>1, ServingHttp, Zenon
<1>3. n \in 0..Len(wire)
  BY <1>1, <1>2, HttpAssumption DEF Smaller, Room
<1> HIDE DEF n
<1>4. StepTo(todo, wire, lineBuf, todo', wire', lineBuf')
  BY <1>1, <1>2, <1>3, QueuesRecv, Zenon
<1> QED BY <1>1, <1>2, <1>4, HttpStays, Zenon

LEMMA IncompleteLineStep == ASSUME WebInv, IncompleteLine PROVE WebInv'
<1>1. Serving /\ UNCHANGED <<open, mode, sent, todo, wire, lineBuf, req, responses>>
  BY DEF IncompleteLine
<1>2. Queues(todo, wire, lineBuf) /\ IsRequest(req)
  BY <1>1, ServingHttp, Zenon
<1>3. StepTo(todo, wire, lineBuf, todo', wire', lineBuf')
  BY <1>1, <1>2, QueuesDrop, Zenon
<1> QED BY <1>1, <1>2, <1>3, HttpStays, Zenon

LEMMA RejectStep == ASSUME WebInv, open, NEW status, Reject(status), sent' = sent PROVE WebInv'
<1>1. responses' = Append(responses, Refusal(status)) /\ ~open'
  BY DEF Reject, HttpClose
<1> QED BY <1>1, Closes, Zenon

\* The only step that takes a request line out of the buffer and keeps the connection.
LEMMA RequestLineStep == ASSUME WebInv, RequestLine PROVE WebInv'
<1>1. Serving /\ HasLine /\ sent' = sent /\ todo' = todo /\ wire' = wire /\ lineBuf' = AfterLine
  BY DEF RequestLine
<1>2. /\ open /\ mode = "http" /\ InHttp /\ Queues(todo, wire, lineBuf) /\ IsRequest(req)
      /\ IsSeq(lineBuf)
  BY <1>1, ServingHttp, Zenon
<1>3. Leaves(lineBuf', lineBuf, 1) /\ 1 \in 1..Len(lineBuf)
  BY <1>1, <1>2, LineOut
<1>4. CASE lineBuf[1].k = "request"
  <2>1. /\ req' = [req EXCEPT !.part = "header", !.url = TRUE,
                              !.method = lineBuf[1].v.method,
                              !.attr = @ \cup ({"1.0"} \cap {lineBuf[1].v.http})]
        /\ mode' = mode /\ open' = open /\ responses' = responses
    BY <1>4 DEF RequestLine
  <2>2. IsRequest(req')
    BY <1>2, <2>1 DEF IsRequest, Fields
  <2>3. HasAsk(lineBuf)
    BY <1>3, <1>4 DEF HasAsk
  <2>4. ~HasAsk(wire) /\ ~HasAsk(todo) /\ OneAsk(lineBuf)
    BY <1>2, <2>3, Zenon DEF Queues, Buffer
  <2>5. ~HasAsk(lineBuf')
    BY <1>3, <1>4, <2>4 DEF Leaves
  <2>6. Len(responses) < Len(sent)
    BY <1>2, <2>3, Zenon DEF InHttp, Asks
  <2>7. StepTo(todo, wire, lineBuf, todo', wire', lineBuf')
    BY <1>1, <1>2, <1>3, QueuesDrop, Zenon
  <2>8. InHttp'
    BY <1>1, <2>1, <2>2, <2>4, <2>5, <2>6, <2>7, Zenon DEF InHttp, StepTo, Asks
  <2>9. mode' # "handshake"
    BY <1>2, <2>1
  <2> QED BY <1>1, <1>2, <2>1, <2>8, <2>9, Stays, Zenon
<1>5. CASE lineBuf[1].k # "request"
  <2>1. Reject(400)
    BY <1>5 DEF RequestLine
  <2> QED BY <1>1, <1>2, <2>1, RejectStep, Zenon
<1> QED BY <1>4, <1>5

LEMMA HeaderLineStep == ASSUME WebInv, HeaderLine PROVE WebInv'
<1>1. /\ Serving /\ HasLine /\ UNCHANGED <<open, mode, sent, todo, wire, responses>>
      /\ lineBuf' = AfterLine
  BY DEF HeaderLine
<1>2. InHttp /\ Queues(todo, wire, lineBuf) /\ IsRequest(req) /\ IsSeq(lineBuf) /\ Numbers(lineBuf)
  BY <1>1, ServingHttp, Zenon DEF Queues, Buffer
<1>3. Leaves(lineBuf', lineBuf, 1) /\ 1 \in 1..Len(lineBuf)
  BY <1>1, <1>2, LineOut
<1>4. IsRequest(req') /\ req'.url = req.url
  <2> DEFINE h == lineBuf[1].v
  <2>1. CASE lineBuf[1].k # "header"
    BY <1>2, <2>1 DEF HeaderLine
  <2>2. CASE lineBuf[1].k = "header"
    <3>1. h.n \in Nat
      BY <1>2, <1>3, <2>2 DEF Numbers
    <3>2. req' = [req EXCEPT !.attr = @ \cup {h.name},
                             !.length = IF h.name = "length" THEN h.n ELSE @]
      BY <2>2 DEF HeaderLine
    <3> HIDE DEF h
    <3> QED BY <1>2, <3>1, <3>2 DEF IsRequest, Fields
  <2> QED BY <2>1, <2>2
<1>5. StepTo(todo, wire, lineBuf, todo', wire', lineBuf')
  BY <1>1, <1>2, <1>3, QueuesDrop, Zenon
<1> QED BY <1>1, <1>4, <1>5, HttpStays, Zenon

LEMMA EndBeforeBodyStep == ASSUME WebInv, EndBeforeBody PROVE WebInv'
<1> DEFINE n == Smaller(req.length, Len(AfterLine))
<1>1. /\ Serving /\ HasLine /\ UNCHANGED <<open, mode, sent, todo, wire, responses>>
      /\ req' = [req EXCEPT !.part = "body", !.bodyPos = n]
      /\ lineBuf' = SubSeq(AfterLine, n + 1, Len(AfterLine))
  BY DEF EndBeforeBody, AtEmptyLine, EmptyLine
<1>2. Queues(todo, wire, lineBuf) /\ IsRequest(req) /\ IsSeq(lineBuf)
  BY <1>1, ServingHttp, Zenon
<1>3. Leaves(AfterLine, lineBuf, 1)
  BY <1>1, <1>2, LineOut
<1>4. IsSeq(AfterLine)
  BY <1>3 DEF Leaves
<1>5. n \in Nat
  BY <1>2, <1>4, SeqLen DEF Smaller, IsRequest
<1> HIDE DEF n
<1>6. Leaves(lineBuf', AfterLine, n)
  BY <1>1, <1>4, <1>5, SuffixOf, Zenon
<1>7. Leaves(lineBuf', lineBuf, 0)
  BY <1>3, <1>6, LeavesLess, Zenon
<1>8. StepTo(todo, wire, lineBuf, todo', wire', lineBuf')
  BY <1>1, <1>2, <1>7, QueuesDrop, Zenon
<1>9. IsRequest(req') /\ req'.url = req.url
  BY <1>1, <1>2, <1>5 DEF IsRequest, Fields
<1> QED BY <1>1, <1>8, <1>9, HttpStays, Zenon

LEMMA RecvBodyStep == ASSUME WebInv, RecvBody PROVE WebInv'
<1> DEFINE n == Smaller(req.length - req.bodyPos, Len(wire))
<1>1. /\ Serving /\ req.bodyPos < req.length /\ UNCHANGED <<open, mode, sent, todo, responses>>
      /\ req' = [req EXCEPT !.bodyPos = @ + n]
      /\ wire' = SubSeq(wire, n + 1, Len(wire)) /\ lineBuf' = <<>>
  BY DEF RecvBody
<1>2. Queues(todo, wire, lineBuf) /\ IsRequest(req) /\ IsSeq(wire) /\ Len(wire) \in Nat
  BY <1>1, ServingHttp, Zenon
<1>3. n \in Nat
  BY <1>1, <1>2 DEF Smaller, IsRequest
<1> HIDE DEF n
<1>4. Leaves(wire', wire, n) /\ Leaves(lineBuf', lineBuf, 1)
  BY <1>1, <1>2, <1>3, SuffixOf, NothingLeft, Zenon
<1>5. StepTo(todo, wire, lineBuf, todo', wire', lineBuf')
  BY <1>1, <1>2, <1>4, QueuesDrop, Zenon
<1>6. IsRequest(req') /\ req'.url = req.url
  BY <1>1, <1>2, <1>3 DEF IsRequest, Fields
<1> QED BY <1>1, <1>5, <1>6, HttpStays, Zenon

LEMMA RecvEndStep == ASSUME WebInv, NEW out, RecvEnd(out) PROVE WebInv'
<1>1. open /\ sent' = sent /\ ~open'
  BY DEF RecvEnd, Serving, HttpClose
<1>2. responses' = responses \/ \E r : responses' = Append(responses, r)
  BY DEF RecvEnd, ProcessRequest
<1> QED BY <1>1, <1>2, Closes, Zenon

\* A response after which the connection is kept is framed and whole, and the next
\* request can only be the one that was not sent yet.
LEMMA FinishStep ==
    ASSUME WebInv, Serving, NEW out, NEW close, Finish(out, close), sent' = sent,
           StepTo(todo, wire, lineBuf, todo', wire', lineBuf')
    PROVE  WebInv'
<1>1. ProcessRequest(out, FALSE)
  BY DEF Finish
<1>2. open /\ mode = "http" /\ InHttp
  BY ServingHttp, Zenon
<1>3. CASE close \/ ClosesAfter(out)
  <2>1. ~open'
    BY <1>3 DEF Finish, HttpClose
  <2>2. responses' = responses \/ \E r : responses' = Append(responses, r)
    BY <1>1 DEF ProcessRequest
  <2> QED BY <1>2, <2>1, <2>2, Closes, Zenon
<1>4. CASE ~(close \/ ClosesAfter(out))
  <2>1. req' = NoRequest /\ mode' = mode /\ open' = open
    BY <1>4 DEF Finish
  <2>2. IsRequest(req') /\ ~req'.url
    BY <2>1 DEF NoRequest, IsRequest, Fields
  <2>3. Response(out).framed /\ Response(out).whole
    BY <1>4 DEF ClosesAfter, Response
  <2>4. mode' # "handshake"
    BY <1>2, <2>1
  <2>5. CASE req.url
    <3>1. Answers(Response(out))
      BY <1>1, <2>3, <2>5, Zenon DEF ProcessRequest, Answers
    <3>2. IsSeq(responses)' /\ Framed'
      BY <1>2, <3>1, StaysFramed, Zenon
    <3>3. Len(responses) < Len(sent) /\ ~Asks(todo, wire, lineBuf)
      BY <1>2, <2>5, Zenon DEF InHttp
    <3>4. Len(responses') <= Len(sent')
      <4>1. IsSeq(responses) /\ IsSeq(sent) /\ responses' = Append(responses, Response(out))
        BY <3>1, Zenon DEF WebInv, Answers
      <4>2. Longer(Append(responses, Response(out)), responses, Response(out))
        BY <4>1, AppendSeq, Zenon
      <4> QED BY <3>3, <4>1, <4>2, SeqLen DEF Longer
    <3>5. InHttp'
      BY <2>2, <3>3, Zenon DEF InHttp, StepTo
    <3> QED BY <2>4, <3>2, <3>4, <3>5, Zenon DEF WebInv
  <2>6. CASE ~req.url
    <3>1. responses' = responses
      BY <1>1, <2>6, Zenon DEF ProcessRequest
    <3>2. InHttp'
      BY <1>2, <2>2, <3>1, Zenon DEF InHttp, StepTo
    <3> QED BY <1>2, <2>4, <3>1, <3>2, Stays, Zenon
  <2> QED BY <2>5, <2>6
<1> QED BY <1>3, <1>4

LEMMA EndWithoutBodyStep == ASSUME WebInv, NEW out, EndWithoutBody(out) PROVE WebInv'
<1>1. /\ Serving /\ HasLine /\ Finish(out, FALSE) /\ UNCHANGED <<sent, todo, wire>>
      /\ lineBuf' = AfterLine
  BY DEF EndWithoutBody, AtEmptyLine, EmptyLine
<1>2. Queues(todo, wire, lineBuf) /\ IsSeq(lineBuf)
  BY <1>1, ServingHttp, Zenon
<1>3. Leaves(lineBuf', lineBuf, 1)
  BY <1>1, <1>2, LineOut
<1>4. StepTo(todo, wire, lineBuf, todo', wire', lineBuf')
  BY <1>1, <1>2, <1>3, QueuesDrop, Zenon
<1> QED BY <1>1, <1>4, FinishStep, Zenon

LEMMA BodyCompleteStep == ASSUME WebInv, NEW out, BodyComplete(out) PROVE WebInv'
<1>1. /\ Serving /\ Finish(out, lineBuf # <<>>) /\ UNCHANGED <<sent, todo, wire>>
      /\ lineBuf' = <<>>
  BY DEF BodyComplete
<1>2. Queues(todo, wire, lineBuf)
  BY <1>1, ServingHttp, Zenon
<1>3. Leaves(lineBuf', lineBuf, 1)
  BY <1>1, NothingLeft, Zenon
<1>4. StepTo(todo, wire, lineBuf, todo', wire', lineBuf')
  BY <1>1, <1>2, <1>3, QueuesDrop, Zenon
<1> QED BY <1>1, <1>4, FinishStep, Zenon

LEMMA HttpServerStep == ASSUME WebInv, HttpServer PROVE WebInv'
<1>1. ASSUME RejectRequest PROVE WebInv'
  <2>1. open /\ Reject(BadEnd) /\ sent' = sent
    BY <1>1 DEF RejectRequest, AtEmptyLine, Serving
  <2> QED BY <2>1, RejectStep, Zenon
<1>2. ASSUME NEW out \in Outcome, RecvEnd(out) \/ EndWithoutBody(out) \/ BodyComplete(out)
      PROVE  WebInv'
  BY <1>2, RecvEndStep, EndWithoutBodyStep, BodyCompleteStep, Zenon
<1> QED BY <1>1, <1>2, RecvLineStep, IncompleteLineStep, RequestLineStep, HeaderLineStep,
           EndBeforeBodyStep, RecvBodyStep, Zenon DEF HttpServer

-----------------------------------------------------------------------------
(* The steps of the handshake, of the upgrade and of the sessions.         *)

\* What Switch and HsKey3 answer with.
Switching == [status |-> 101, framed |-> TRUE, whole |-> TRUE]

LEMMA SwitchStep ==
    ASSUME WebInv, open, sent' = sent, Len(responses) < Len(sent), NEW attr, Switch(attr)
    PROVE  WebInv'
<1>1. CASE "key" \in attr
  <2>1. mode' = Session(attr) /\ responses' = Append(responses, Switching)
    BY <1>1 DEF Switch, Switching
  <2>2. mode' \notin {"http", "handshake"}
    BY <2>1 DEF Session
  <2>3. Answers(Switching)
    BY <2>1 DEF Answers, Switching
  <2> QED BY <2>2, <2>3, Switches, Zenon
<1>2. CASE "key" \notin attr
  <2>1. ~open' /\ responses' = responses
    BY <1>2 DEF Switch
  <2> QED BY <2>1, Closes, Zenon
<1> QED BY <1>1, <1>2

LEMMA HttpUpgradeStep == ASSUME WebInv, HttpUpgrade PROVE WebInv'
<1>1. Serving /\ req.url /\ Switch(req.attr) /\ sent' = sent
  BY DEF HttpUpgrade
<1>2. open /\ Len(responses) < Len(sent)
  BY <1>1, ServingHttp, Zenon DEF InHttp
<1> QED BY <1>1, <1>2, SwitchStep, Zenon

LEMMA HsRejectStep == ASSUME WebInv, open, HsReject, sent' = sent PROVE WebInv'
<1>1. ~open' /\ responses' = Append(responses, Refusal(400))
  BY DEF HsReject, HttpClose
<1> QED BY <1>1, Closes, Zenon

LEMMA HsKey3Step == ASSUME WebInv, HsKey3 PROVE WebInv'
<1>1. /\ Handshaking /\ open /\ sent' = sent /\ (Len(lineBuf) >= Key3 \/ wire # <<>>)
  BY DEF HsKey3, Handshaking
<1>2. lineBuf # <<>> \/ wire # <<>>
  <2>1. Len(<<>>) = 0 /\ ~(0 >= Key3)
    BY WebSocketAssumption
  <2> QED BY <1>1, <2>1
<1>3. Len(responses) < Len(sent)
  BY <1>1, <1>2, SendingHandshake, Zenon
<1>4. CASE HsReject
  BY <1>1, <1>4, HsRejectStep, Zenon
<1>5. CASE ~HsReject
  <2>1. mode' = "v00" /\ responses' = Append(responses, Switching)
    BY <1>5 DEF HsKey3, Switching
  <2>2. mode' \notin {"http", "handshake"}
    BY <2>1
  <2>3. Answers(Switching)
    BY <2>1 DEF Answers, Switching
  <2> QED BY <1>1, <1>3, <2>2, <2>3, Switches, Zenon
<1> QED BY <1>4, <1>5

LEMMA HandshakeStep ==
    ASSUME WebInv, HsRecv \/ HsLine \/ HsPartial \/ HsEnd \/ HsSwitch \/ HsOld \/ HsKey3
    PROVE  WebInv'
<1>1. ASSUME HsRecv PROVE WebInv'
  <2>1. Handshaking /\ wire # <<>> /\ UNCHANGED <<mode, sent, responses>>
    BY <1>1 DEF HsRecv
  <2> QED BY <2>1, HandshakeStays, Zenon
<1>2. ASSUME HsLine PROVE WebInv'
  <2>1. Handshaking /\ parsing /\ UNCHANGED <<mode, sent, responses>>
    BY <1>2 DEF HsLine
  <2> QED BY <2>1, HandshakeStays, Zenon
<1>3. ASSUME HsPartial PROVE WebInv'
  <2>1. Handshaking /\ open /\ parsing /\ sent' = sent
    BY <1>3 DEF HsPartial, Handshaking
  <2>2. CASE Room = 0
    BY <1>3, <2>1, <2>2, HsRejectStep, Zenon DEF HsPartial
  <2>3. CASE Room # 0
    <3>1. UNCHANGED <<mode, responses>>
      BY <1>3, <2>3 DEF HsPartial
    <3> QED BY <2>1, <3>1, HandshakeStays, Zenon
  <2> QED BY <2>2, <2>3
<1>4. ASSUME HsEnd PROVE WebInv'
  <2>1. open /\ HsReject /\ sent' = sent
    BY <1>4 DEF HsEnd, Handshaking
  <2> QED BY <2>1, HsRejectStep, Zenon
<1>5. ASSUME HsSwitch PROVE WebInv'
  <2>1. Handshaking /\ open /\ parsing /\ Switch(req.attr) /\ sent' = sent
    BY <1>5 DEF HsSwitch, Handshaking
  <2>2. Len(responses) < Len(sent)
    BY <2>1, SendingHandshake, Zenon
  <2> QED BY <2>1, <2>2, SwitchStep, Zenon
<1>6. ASSUME HsOld PROVE WebInv'
  <2>1. Handshaking /\ parsing /\ UNCHANGED <<mode, sent, responses>>
    BY <1>6 DEF HsOld
  <2> QED BY <2>1, HandshakeStays, Zenon
<1> QED BY <1>1, <1>2, <1>3, <1>4, <1>5, <1>6, HsKey3Step, Zenon

LEMMA SessionStep ==
    ASSUME WebInv, WsRecv \/ WsFrame \/ WsBuffered \/ WsContinued \/ WsEnd
    PROVE  WebInv'
<1>1. Speaking
  BY Zenon DEF WsRecv, WsFrame, WsBuffered, WsContinued, WsEnd
<1>2. UNCHANGED <<mode, sent, responses>>
  <2>1. ASSUME NEW d, NEW in, Deliver(d, in) PROVE UNCHANGED <<mode, sent, responses>>
    BY <2>1 DEF Deliver
  <2>2. ASSUME WsRecv \/ WsEnd PROVE UNCHANGED <<mode, sent, responses>>
    BY <2>2 DEF WsRecv, WsEnd
  <2>3. ASSUME WsFrame \/ WsBuffered \/ WsContinued PROVE \E d, in : Deliver(d, in)
    BY <2>3, Zenon DEF WsFrame, WsBuffered, WsContinued
  <2> QED BY <2>1, <2>2, <2>3, Zenon
<1> QED BY <1>1, <1>2, Speaks, Zenon

LEMMA Invariant == Spec => []WebInv
<1>1. Init => WebInv
  BY InitStep
<1>2. WebInv /\ [Next]_vars => WebInv'
  <2> SUFFICES ASSUME WebInv, [Next]_vars PROVE WebInv'
    OBVIOUS
  <2>1. CASE Client
    BY <2>1, ClientStep
  <2>2. CASE Server
    BY <2>2, HttpServerStep, HandshakeStep, HttpUpgradeStep, SessionStep, Zenon DEF Server
  <2>3. CASE UNCHANGED vars
    <3>1. UNCHANGED <<open, sent, responses, mode, todo, wire, lineBuf, parsing, req>>
      BY <2>3 DEF vars, httpVars
    <3> QED BY <3>1, Idles, Zenon
  <2> QED BY <2>1, <2>2, <2>3, Zenon DEF Next
<1> QED BY <1>1, <1>2, PTL DEF Spec

-----------------------------------------------------------------------------
\* HTTP server (http_input_iteration, process_request, fin_request), for any requests
\* and however they arrive: of the responses of a connection that is kept each is framed
\* and whole, and none is ahead of its request.
THEOREM ResponsesStayFramed == Spec => []ResponsesFramed
<1>1. WebInv => ResponsesFramed
  <2> SUFFICES ASSUME WebInv PROVE ResponsesFramed
    OBVIOUS
  <2>1. DOMAIN responses = 1..Len(responses)
    BY SeqLen, Zenon DEF WebInv
  <2> QED BY <2>1, Zenon DEF WebInv, Framed, ResponsesFramed
<1> QED BY <1>1, Invariant, PTL

-----------------------------------------------------------------------------
(* Sequences.                                                              *)

\* t is q without its first m units and those after n.
Piece(t, q, m, n) == IsSeq(t) /\ Len(t) = n - m /\ \A i \in 1..(n - m) : t[i] = q[m + i]

LEMMA PieceOf ==
    ASSUME NEW q, IsSeq(q), NEW n \in 0..Len(q), NEW m \in 0..n
    PROVE  Piece(SubSeq(q, m + 1, n), q, m, n)
<1> DEFINE t == SubSeq(q, m + 1, n)
<1>1. PICK S : q \in Seq(S)
  BY DEF IsSeq
<1>2. Len(q) \in Nat /\ n \in Nat /\ m \in Nat /\ m <= n /\ n <= Len(q)
  BY <1>1
<1>3. m + 1 \in Int /\ n \in Int /\ \A i \in (m + 1)..n : q[i] \in S
  <2>1. ASSUME NEW i \in (m + 1)..n PROVE q[i] \in S
    <3>1. i \in 1..Len(q)
      BY <1>2
    <3> QED BY <1>1, <3>1
  <2> QED BY <1>2, <2>1
<1>4. /\ t \in Seq(S)
      /\ Len(t) = IF m + 1 <= n THEN n - (m + 1) + 1 ELSE 0
      /\ \A i \in 1..(n - (m + 1) + 1) : t[i] = q[m + 1 + i - 1]
  BY <1>3, SubSeqProperties
<1> HIDE DEF t
<1>5. Len(t) = n - m
  BY <1>2, <1>4
<1>6. ASSUME NEW i \in 1..(n - m) PROVE t[i] = q[m + i]
  <2>1. i \in 1..(n - (m + 1) + 1) /\ m + 1 + i - 1 = m + i
    BY <1>2
  <2> QED BY <1>4, <2>1
<1>7. IsSeq(t)
  BY <1>4 DEF IsSeq
<1>8. Piece(t, q, m, n)
  BY <1>5, <1>6, <1>7, Zenon DEF Piece
<1> QED BY <1>8 DEF t

\* a is p and what it becomes when q is added.
Glued(a, p, q) ==
    /\ IsSeq(a) /\ Len(a) = Len(p) + Len(q)
    /\ \A i \in 1..Len(p) : a[i] = p[i]
    /\ \A i \in 1..Len(q) : a[Len(p) + i] = q[i]

LEMMA Glue ==
    ASSUME NEW p, IsSeq(p), NEW q, IsSeq(q)
    PROVE  Glued(p \o q, p, q)
<1> DEFINE a == p \o q
<1>1. Joins(a, p, q) /\ Len(p) \in Nat /\ Len(q) \in Nat
  BY ConcatSeq, SeqLen, Zenon
<1> HIDE DEF a
<1>2. IsSeq(a) /\ Len(a) = Len(p) + Len(q)
  BY <1>1 DEF Joins
<1>3. ASSUME NEW i \in 1..Len(p) PROVE a[i] = p[i]
  <2>1. i \in 1..Len(a) /\ ~(i - Len(p) \in 1..Len(q))
    BY <1>1, <1>2
  <2> QED BY <1>1, <2>1 DEF Joins
<1>4. ASSUME NEW i \in 1..Len(q) PROVE a[Len(p) + i] = q[i]
  <2>1. Len(p) + i \in 1..Len(a) /\ ~(Len(p) + i \in 1..Len(p)) /\ Len(p) + i - Len(p) = i
    BY <1>1, <1>2
  <2> QED BY <1>1, <2>1 DEF Joins
<1>5. Glued(a, p, q)
  BY <1>2, <1>3, <1>4, Zenon DEF Glued
<1> QED BY <1>5 DEF a

-----------------------------------------------------------------------------
(* The inductive invariant.                                                *)

\* The head of the request fits the line buffer, and its length is what it says.
Fits(r) ==
    /\ 4 * Len(r.headers) + 5 < LineBuf
    /\ \A i \in 1..Len(r.headers) : /\ r.headers[i].name # "long"
                                    /\ r.headers[i].name = "length" => r.headers[i].n = r.body
    /\ r.body > 0 => \E i \in 1..Len(r.headers) : r.headers[i].name = "length"

AllFit == \A i \in 1..Len(sent) : sent[i] \in Requests => Fits(sent[i])

\* q is what U has after position a.
Slice(q, U, a) == IsSeq(q) /\ a + Len(q) <= Len(U) /\ \A i \in 1..Len(q) : q[i] = U[a + i]

\* What is sent does not end with a CR at position b.
Whole(U, b) == b \in 1..Len(U) => U[b].k # "CR"

\* What line_buf, the network and the client have is U from position a on.
Remain(U, a, t, w, l) ==
    /\ Slice(l, U, a) /\ Slice(w, U, a + Len(l)) /\ Slice(t, U, a + Len(l) + Len(w))
    /\ a + Len(l) + Len(w) + Len(t) = Len(U)
    /\ Whole(U, a + Len(l) + Len(w))

NoEnd(q) == \A i \in 1..Len(q) : ~IsEnd(q[i])

\* The same while lines are read: the buffer ends with none half parsed.
Lines(U, a, t, w, l) ==
    /\ Remain(U, a, t, w, l)
    /\ Whole(U, a + Len(l))

\* What is known of r after k headers, and after b units of its body.
Names(r, k)  == {r.headers[i].name : i \in 1..k} \cup ({"1.0"} \cap {r.http})
LengthOf(r, k) == IF \E i \in 1..k : r.headers[i].name = "length" THEN r.body ELSE 0

Known(r, part, k, b) ==
    [part |-> part, url |-> TRUE, method |-> r.method, attr |-> Names(r, k),
     length |-> LengthOf(r, k), bodyPos |-> b]

\* Nothing of the request, k headers, or the head and b units of the body are read.
Unread(r)    == req = NoRequest /\ Lines(Units(r), 0, todo, wire, lineBuf)
InHead(r, k) == /\ req = Known(r, "header", k, 0)
                /\ Lines(Units(r), 4 * k + 3, todo, wire, lineBuf)
InBody(r, b) == /\ r.body > 0 /\ req = Known(r, "body", Len(r.headers), b)
                /\ Len(lineBuf) = 0
                /\ Remain(Units(r), 4 * Len(r.headers) + 5 + b, todo, wire, lineBuf)

Nothing(t, w, l) == IsSeq(t) /\ IsSeq(w) /\ IsSeq(l) /\ Len(t) = 0 /\ Len(w) = 0 /\ Len(l) = 0

Idle == Len(sent) = Len(processed) /\ req = NoRequest /\ Nothing(todo, wire, lineBuf)

Busy ==
    /\ Len(sent) = Len(processed) + 1
    /\ sent[Len(sent)] \in Requests
    /\ req.part # "body" /\ ~parsing => NoEnd(lineBuf)
    /\ \/ Unread(sent[Len(sent)])
       \/ \E k \in 0..Len(sent[Len(sent)].headers) : InHead(sent[Len(sent)], k)
       \/ \E b \in 0..sent[Len(sent)].body : InBody(sent[Len(sent)], b)

HandedOver ==
    \A i \in 1..Len(processed) :
        /\ i <= Len(sent)
        /\ IF processed[i].cut THEN eof ELSE processed[i].request = RequestOf(sent[i])

RequestInv ==
    /\ IsSeq(sent) /\ IsSeq(responses) /\ IsSeq(processed)
    /\ HandedOver
    /\ open /\ mode = "http" => Len(responses) = Len(processed) /\ (Idle \/ Busy)
-----------------------------------------------------------------------------
(* The units of a request.                                                 *)

\* g is the first x of seqs, each of which has four elements.
Flat(g, seqs, x) ==
    /\ IsSeq(g) /\ Len(g) = 4 * x
    /\ \A j \in 1..x, o \in 1..4 : g[4 * (j - 1) + o] = seqs[j][o]

LEMMA FlatNext ==
    ASSUME NEW seqs, NEW x \in Nat, x > 1, IsSeq(seqs[x]), Len(seqs[x]) = 4,
           NEW g, Flat(g, seqs, x - 1)
    PROVE  Flat(g \o seqs[x], seqs, x)
<1> DEFINE a == g \o seqs[x]
<1>1. IsSeq(g) /\ Len(g) = 4 * (x - 1)
  BY DEF Flat
<1>2. Glued(a, g, seqs[x])
  BY <1>1, Glue, Zenon
<1> HIDE DEF a
<1>3. IsSeq(a) /\ Len(a) = 4 * x
  BY <1>1, <1>2 DEF Glued
<1>4. ASSUME NEW j \in 1..x, NEW o \in 1..4 PROVE a[4 * (j - 1) + o] = seqs[j][o]
  <2>1. CASE j = x
    BY <1>1, <1>2, <2>1 DEF Glued
  <2>2. CASE j # x
    <3>1. j \in 1..(x - 1) /\ 4 * (j - 1) + o \in 1..Len(g)
      BY <1>1, <2>2
    <3>2. g[4 * (j - 1) + o] = seqs[j][o]
      BY <3>1 DEF Flat
    <3> QED BY <1>2, <3>1, <3>2 DEF Glued
  <2> QED BY <2>1, <2>2
<1>5. Flat(a, seqs, x)
  BY <1>3, <1>4, Zenon DEF Flat
<1> QED BY <1>5 DEF a

LEMMA FlattenFours ==
    ASSUME NEW seqs, IsSeq(seqs), \A i \in 1..Len(seqs) : IsSeq(seqs[i]) /\ Len(seqs[i]) = 4
    PROVE  Flat(FlattenSeq(seqs), seqs, Len(seqs))
<1>1. Len(seqs) \in Nat
  BY SeqLen
<1>2. CASE Len(seqs) = 0
  <2>1. FlattenSeq(seqs) = <<>>
    BY <1>2 DEF FlattenSeq
  <2>2. Flat(<<>>, seqs, Len(seqs))
    BY <1>2 DEF Flat, IsSeq
  <2> QED BY <2>1, <2>2
<1>3. CASE Len(seqs) > 0
  <2> DEFINE F(g) == [i \in 1..Len(seqs) |-> IF i = 1 THEN seqs[i] ELSE g[i - 1] \o seqs[i]]
             f == CHOOSE g : g = F(g)
  <2>1. FlattenSeq(seqs) = f[Len(seqs)]
    BY <1>3 DEF FlattenSeq
  <2>2. \E g : g = F(g)
    BY <1>1, FlattenExists
  <2>3. f = F(f)
    BY <2>2
  <2> HIDE DEF f
  <2>4. \A i \in 1..Len(seqs) : f[i] = IF i = 1 THEN seqs[i] ELSE f[i - 1] \o seqs[i]
    BY <2>3
  <2> HIDE DEF F
  <2> DEFINE T == {k \in Nat : k \in 1..Len(seqs) /\ ~Flat(f[k], seqs, k)}
  <2>5. ASSUME T # {} PROVE FALSE
    <3>1. PICK x \in T : \A y \in T : x <= y
      BY <2>5, LeastNat
    <3>2. x \in Nat /\ x \in 1..Len(seqs) /\ ~Flat(f[x], seqs, x)
      OBVIOUS
    <3>3. IsSeq(seqs[x]) /\ Len(seqs[x]) = 4
      BY <3>2
    <3>4. x # 1
      <4>1. ASSUME x = 1 PROVE f[x] = seqs[1]
        BY <2>4, <3>2, <4>1
      <4>2. x = 1 => Flat(seqs[1], seqs, 1)
        BY <3>3 DEF Flat
      <4> QED BY <3>2, <4>1, <4>2
    <3>5. x > 1 /\ x - 1 \in Nat /\ x - 1 \in 1..Len(seqs) /\ ~(x <= x - 1)
      BY <1>1, <3>2, <3>4
    <3>6. Flat(f[x - 1], seqs, x - 1)
      BY <3>1, <3>5
    <3>7. f[x] = f[x - 1] \o seqs[x]
      BY <2>4, <3>2, <3>4
    <3>8. Flat(f[x], seqs, x)
      BY <3>2, <3>3, <3>5, <3>6, <3>7, FlatNext, Zenon
    <3> QED BY <3>2, <3>8
  <2>6. Len(seqs) \in Nat /\ Len(seqs) \in 1..Len(seqs)
    BY <1>1, <1>3
  <2> QED BY <2>1, <2>5, <2>6
<1> QED BY <1>1, <1>2, <1>3

\* Where the units of a request are.
Shape(U, r) ==
    LET n == Len(r.headers)
    IN  /\ IsSeq(U) /\ Len(U) = 4 * n + 5 + r.body
        /\ U[1].k = "request" /\ U[1].v.method = r.method /\ U[1].v.http = r.http
        /\ \A k \in 1..n : /\ U[4 * k].k = "header" /\ U[4 * k].v = r.headers[k]
                           /\ U[4 * k + 1].k = "text"
        /\ \A k \in 0..n : U[4 * k + 2].k = "CR" /\ U[4 * k + 3].k = "LF"
        /\ U[4 * n + 4].k = "CR" /\ U[4 * n + 5].k = "LF"
        /\ \A b \in 1..r.body : U[4 * n + 5 + b].k = "body"

LEMMA EolShape == IsSeq(Eol) /\ Len(Eol) = 2 /\ Eol[1].k = "CR" /\ Eol[2].k = "LF"
<1>1. Eol \in Seq({Unit("CR", 0), Unit("LF", 0)}) /\ Len(Eol) = 2
  BY DEF Eol
<1>2. Eol[1].k = "CR" /\ Eol[2].k = "LF"
  BY DEF Eol, Unit
<1>3. IsSeq(Eol)
  BY <1>1 DEF IsSeq
<1> QED BY <1>1, <1>2, <1>3

LEMMA OneUnit == ASSUME NEW u PROVE IsSeq(<<u>>) /\ Len(<<u>>) = 1 /\ <<u>>[1] = u
<1>1. <<u>> \in Seq({u}) /\ Len(<<u>>) = 1 /\ <<u>>[1] = u
  OBVIOUS
<1> QED BY <1>1 DEF IsSeq

\* q is the line of header h.
LineOf(q, h) ==
    /\ IsSeq(q) /\ Len(q) = 4 /\ q[1].k = "header" /\ q[1].v = h
    /\ q[2].k = "text" /\ q[3].k = "CR" /\ q[4].k = "LF"

LEMMA HeaderShape == ASSUME NEW h, h.name # "long" PROVE LineOf(HeaderUnits(h), h)
<1> DEFINE u == Unit("header", h)
           p == <<u>>
           f == Filler(1)
           a == p \o f
           b == a \o Eol
<1>1. u.k = "header" /\ u.v = h
  BY DEF Unit
<1> HIDE DEF u
<1>2. IsSeq(p) /\ Len(p) = 1 /\ p[1] = u
  BY OneUnit
<1>3. IsSeq(f) /\ Len(f) = 1 /\ f[1].k = "text"
  <2>1. f \in Seq({Unit("text", 0)}) /\ Len(f) = 1 /\ f[1] = Unit("text", 0)
    BY DEF Filler
  <2>2. Unit("text", 0).k = "text"
    BY DEF Unit
  <2> QED BY <2>1, <2>2 DEF IsSeq
<1> HIDE DEF p, f
<1>4. Glued(a, p, f)
  BY <1>2, <1>3, Glue, Zenon
<1> HIDE DEF a
<1>5. IsSeq(a) /\ Len(a) = 2 /\ a[1] = u /\ a[2].k = "text"
  BY <1>2, <1>3, <1>4 DEF Glued
<1>6. Glued(b, a, Eol)
  BY <1>5, EolShape, Glue, Zenon
<1>7. b = HeaderUnits(h)
  BY DEF b, a, p, f, u, HeaderUnits
<1> HIDE DEF b
<1>8. /\ IsSeq(b) /\ Len(b) = 4 /\ b[1] = a[1] /\ b[2] = a[2]
      /\ b[3] = Eol[1] /\ b[4] = Eol[2]
  <2>1. IsSeq(b) /\ Len(b) = 4
    BY <1>5, <1>6, EolShape DEF Glued
  <2>2. b[1] = a[1] /\ b[2] = a[2]
    BY <1>5, <1>6 DEF Glued
  <2>3. b[2 + 1] = Eol[1] /\ b[2 + 2] = Eol[2]
    BY <1>5, <1>6, EolShape DEF Glued
  <2> QED BY <2>1, <2>2, <2>3
<1>9. LineOf(b, h)
  BY <1>1, <1>5, <1>8, EolShape, Zenon DEF LineOf
<1> QED BY <1>7, <1>9, Zenon

\* r has no line that is longer than the buffer.
ShortLines(r) ==
    /\ Len(r.headers) \in Nat /\ r.body \in Nat
    /\ \A i \in 1..Len(r.headers) : r.headers[i].name # "long"

LEMMA ShapeOf == ASSUME NEW r, ShortLines(r) PROVE Shape(Units(r), r)
<1> DEFINE n == Len(r.headers)
           u == Unit("request", [method |-> r.method, http |-> r.http])
           p == <<u>>
           hs == [i \in 1..n |-> HeaderUnits(r.headers[i])]
           f == FlattenSeq(hs)
           b == [i \in 1..r.body |-> Unit("body", i)]
           A == p \o Eol
           B == A \o f
           C == B \o Eol
           U == C \o b
<1>1. n \in Nat /\ r.body \in Nat
  BY DEF ShortLines
<1>2. u.k = "request" /\ u.v.method = r.method /\ u.v.http = r.http
  BY DEF Unit
<1> HIDE DEF u
<1>3. IsSeq(p) /\ Len(p) = 1 /\ p[1] = u
  BY OneUnit
<1>4. IsSeq(hs) /\ Len(hs) = n /\ \A i \in 1..n : hs[i] = HeaderUnits(r.headers[i])
  <2>1. hs \in Seq({HeaderUnits(r.headers[i]) : i \in 1..n}) /\ Len(hs) = n
    BY <1>1
  <2> QED BY <2>1 DEF IsSeq
<1> HIDE DEF hs
<1>5. ASSUME NEW i \in 1..n PROVE LineOf(hs[i], r.headers[i])
  <2>1. r.headers[i].name # "long"
    BY DEF ShortLines
  <2>2. hs[i] = HeaderUnits(r.headers[i])
    BY <1>4
  <2>3. LineOf(HeaderUnits(r.headers[i]), r.headers[i])
    BY <2>1, HeaderShape, Zenon
  <2> QED BY <2>2, <2>3, Zenon
<1>6. Flat(f, hs, n)
  <2>1. \A i \in 1..Len(hs) : IsSeq(hs[i]) /\ Len(hs[i]) = 4
    BY <1>4, <1>5 DEF LineOf
  <2> HIDE DEF n
  <2>2. Flat(f, hs, Len(hs))
    BY <1>4, <2>1, FlattenFours, Zenon
  <2> QED BY <1>4, <2>2, Zenon
<1>7. IsSeq(b) /\ Len(b) = r.body /\ \A i \in 1..r.body : b[i].k = "body"
  <2>1. b \in Seq({Unit("body", i) : i \in 1..r.body}) /\ Len(b) = r.body
    BY <1>1
  <2>2. \A i \in 1..r.body : b[i].k = "body"
    BY DEF Unit
  <2> QED BY <2>1, <2>2 DEF IsSeq
<1>8. U = Units(r)
  BY DEF U, C, B, A, p, u, f, hs, b, Units
<1> HIDE DEF n, p, f, b
<1>9. IsSeq(f) /\ Len(f) = 4 * n
  BY <1>6 DEF Flat
<1>10. Glued(A, p, Eol)
  BY <1>3, EolShape, Glue, Zenon
<1> HIDE DEF A
<1>11. IsSeq(A) /\ Len(A) = 3 /\ A[1] = u /\ A[2].k = "CR" /\ A[3].k = "LF"
  <2>1. IsSeq(A) /\ Len(A) = 3 /\ A[1] = p[1]
    BY <1>3, <1>10, EolShape DEF Glued
  <2>2. A[1 + 1] = Eol[1] /\ A[1 + 2] = Eol[2]
    BY <1>3, <1>10, EolShape DEF Glued
  <2> QED BY <1>3, <2>1, <2>2, EolShape
<1>12. Glued(B, A, f)
  BY <1>9, <1>11, Glue, Zenon
<1> HIDE DEF B
<1>13. IsSeq(B) /\ Len(B) = 4 * n + 3
  BY <1>9, <1>11, <1>12 DEF Glued
<1>14. Glued(C, B, Eol)
  BY <1>13, EolShape, Glue, Zenon
<1> HIDE DEF C
<1>15. IsSeq(C) /\ Len(C) = 4 * n + 5
  <2>1. IsSeq(C) /\ Len(C) = Len(B) + 2
    BY <1>14, EolShape DEF Glued
  <2> QED BY <1>1, <1>13, <2>1
<1>16. Glued(U, C, b)
  BY <1>7, <1>15, Glue, Zenon
<1> HIDE DEF U
<1>17. IsSeq(U) /\ Len(U) = 4 * n + 5 + r.body
  BY <1>7, <1>15, <1>16 DEF Glued
<1>18. ASSUME NEW i \in 1..(4 * n + 3) PROVE U[i] = B[i]
  <2>1. i \in 1..Len(B) /\ i \in 1..Len(C)
    BY <1>1, <1>13, <1>15
  <2>2. U[i] = C[i] /\ C[i] = B[i]
    BY <1>14, <1>16, <2>1 DEF Glued
  <2> QED BY <2>2
<1>19. U[1] = u /\ U[2].k = "CR" /\ U[3].k = "LF"
  <2>1. B[1] = A[1] /\ B[2] = A[2] /\ B[3] = A[3]
    BY <1>11, <1>12 DEF Glued
  <2>2. U[1] = B[1] /\ U[2] = B[2] /\ U[3] = B[3]
    BY <1>1, <1>18
  <2> QED BY <1>11, <2>1, <2>2
<1>20. ASSUME NEW k \in 1..n, NEW o \in 1..4 PROVE U[4 * k + (o - 1)] = hs[k][o]
  <2> DEFINE x == 4 * (k - 1) + o
  <2>1. x \in 1..Len(f) /\ 3 + x = 4 * k + (o - 1) /\ 3 + x \in 1..(4 * n + 3)
    BY <1>1, <1>9
  <2>2. f[x] = hs[k][o]
    BY <1>6 DEF Flat
  <2> HIDE DEF x
  <2>3. B[3 + x] = f[x]
    BY <1>11, <1>12, <2>1 DEF Glued
  <2>4. U[3 + x] = B[3 + x]
    BY <1>18, <2>1
  <2> QED BY <2>1, <2>2, <2>3, <2>4
<1>21. ASSUME NEW k \in 1..n
       PROVE  /\ U[4 * k].k = "header" /\ U[4 * k].v = r.headers[k] /\ U[4 * k + 1].k = "text"
              /\ U[4 * k + 2].k = "CR" /\ U[4 * k + 3].k = "LF"
  <2>1. /\ U[4 * k + (1 - 1)] = hs[k][1] /\ U[4 * k + (2 - 1)] = hs[k][2]
        /\ U[4 * k + (3 - 1)] = hs[k][3] /\ U[4 * k + (4 - 1)] = hs[k][4]
    BY <1>20
  <2>2. k \in Nat
    BY <1>1
  <2>3. /\ 4 * k + (1 - 1) = 4 * k /\ 4 * k + (2 - 1) = 4 * k + 1
        /\ 4 * k + (3 - 1) = 4 * k + 2 /\ 4 * k + (4 - 1) = 4 * k + 3
    BY <2>2
  <2>4. U[4 * k] = hs[k][1] /\ U[4 * k + 1] = hs[k][2] /\ U[4 * k + 2] = hs[k][3]
        /\ U[4 * k + 3] = hs[k][4]
    BY <2>1, <2>3, Zenon
  <2>5. /\ hs[k][1].k = "header" /\ hs[k][1].v = r.headers[k]
        /\ hs[k][2].k = "text" /\ hs[k][3].k = "CR" /\ hs[k][4].k = "LF"
    BY <1>5 DEF LineOf
  <2> QED BY <2>4, <2>5
<1>22. ASSUME NEW k \in 0..n PROVE U[4 * k + 2].k = "CR" /\ U[4 * k + 3].k = "LF"
  <2>1. CASE k = 0
    BY <1>19, <2>1
  <2>2. CASE k # 0
    <3>1. k \in 1..n
      BY <1>1, <2>2
    <3> QED BY <1>21, <3>1, Zenon
  <2> QED BY <2>1, <2>2
<1>23. U[4 * n + 4].k = "CR" /\ U[4 * n + 5].k = "LF"
  <2>1. C[Len(B) + 1] = Eol[1] /\ C[Len(B) + 2] = Eol[2]
    BY <1>14, EolShape DEF Glued
  <2>2. /\ Len(B) + 1 = 4 * n + 4 /\ Len(B) + 2 = 4 * n + 5
        /\ Len(B) + 1 \in 1..Len(C) /\ Len(B) + 2 \in 1..Len(C)
    BY <1>1, <1>13, <1>15
  <2>3. U[Len(B) + 1] = C[Len(B) + 1] /\ U[Len(B) + 2] = C[Len(B) + 2]
    BY <1>16, <2>2 DEF Glued
  <2> QED BY <2>1, <2>2, <2>3, EolShape, Zenon
<1>24. ASSUME NEW i \in 1..r.body PROVE U[4 * n + 5 + i].k = "body"
  <2>1. U[Len(C) + i] = b[i]
    BY <1>7, <1>16 DEF Glued
  <2> QED BY <1>7, <1>15, <2>1
<1>25. U[1].k = "request" /\ U[1].v.method = r.method /\ U[1].v.http = r.http
  BY <1>2, <1>19, Zenon
<1>26. Shape(U, r)
  BY <1>17, <1>21, <1>22, <1>23, <1>24, <1>25, Zenon DEF Shape, n
<1> QED BY <1>8, <1>26, Zenon

LEMMA FitsShort == ASSUME NEW r \in Requests, Fits(r) PROVE ShortLines(r)
  BY HttpAssumption DEF Fits, ShortLines

LEMMA UnitsShape == ASSUME NEW r \in Requests, Fits(r) PROVE Shape(Units(r), r)
  BY FitsShort, ShapeOf, Zenon

-----------------------------------------------------------------------------
(* What is left of a request moves from the client to the line buffer.     *)

\* t is what is left of the slice q at a after n units.
Dropped(t, q, U, a, n) == Slice(t, U, a + n) /\ Len(t) = Len(q) - n

LEMMA SliceRest ==
    ASSUME NEW U, IsSeq(U), NEW a \in Nat, NEW q, Slice(q, U, a), NEW n \in 0..Len(q)
    PROVE  Dropped(SubSeq(q, n + 1, Len(q)), q, U, a, n)
<1> DEFINE t == SubSeq(q, n + 1, Len(q))
<1>1. IsSeq(q) /\ Len(q) \in Nat /\ Len(U) \in Nat /\ n \in Nat /\ n <= Len(q)
  BY SeqLen DEF Slice
<1>2. Piece(t, q, n, Len(q))
  <2>1. Len(q) \in 0..Len(q) /\ n \in 0..Len(q)
    BY <1>1
  <2> QED BY <1>1, <2>1, PieceOf, Zenon
<1> HIDE DEF t
<1>3. IsSeq(t) /\ Len(t) = Len(q) - n /\ a + n + Len(t) <= Len(U)
  BY <1>1, <1>2 DEF Piece, Slice
<1>4. ASSUME NEW i \in 1..Len(t) PROVE t[i] = U[a + n + i]
  <2>1. n + i \in 1..Len(q) /\ i \in 1..(Len(q) - n) /\ a + (n + i) = a + n + i
    BY <1>1, <1>3
  <2>2. q[n + i] = U[a + (n + i)]
    BY <2>1 DEF Slice
  <2> QED BY <1>2, <2>1, <2>2 DEF Piece
<1>5. Dropped(t, q, U, a, n)
  BY <1>3, <1>4, Zenon DEF Dropped, Slice
<1> QED BY <1>5 DEF t

\* t is the slice p at a with n more units.
Gained(t, p, U, a, n) == Slice(t, U, a) /\ Len(t) = Len(p) + n

LEMMA SliceMore ==
    ASSUME NEW U, IsSeq(U), NEW a \in Nat, NEW p, Slice(p, U, a), NEW q, Slice(q, U, a + Len(p)),
           NEW n \in 0..Len(q)
    PROVE  Gained(p \o SubSeq(q, 1, n), p, U, a, n)
<1> DEFINE f == SubSeq(q, 1, n)
           t == p \o f
<1>1. /\ IsSeq(q) /\ IsSeq(p) /\ Len(q) \in Nat /\ Len(p) \in Nat /\ Len(U) \in Nat
      /\ n \in Nat /\ n <= Len(q)
  BY SeqLen DEF Slice
<1>2. Piece(f, q, 0, n)
  <2>1. 0 \in 0..n /\ 0 + 1 = 1
    BY <1>1
  <2>2. Piece(SubSeq(q, 0 + 1, n), q, 0, n)
    BY <1>1, <2>1, PieceOf, Zenon
  <2> QED BY <2>1, <2>2
<1> HIDE DEF f
<1>3. IsSeq(f) /\ Len(f) = n
  BY <1>1, <1>2 DEF Piece
<1>4. Glued(t, p, f)
  BY <1>1, <1>3, Glue, Zenon
<1> HIDE DEF t
<1>5. IsSeq(t) /\ Len(t) = Len(p) + n /\ a + Len(t) <= Len(U)
  BY <1>1, <1>3, <1>4 DEF Glued, Slice
<1>6. ASSUME NEW i \in 1..Len(t) PROVE t[i] = U[a + i]
  <2>1. CASE i \in 1..Len(p)
    BY <1>4, <2>1 DEF Glued, Slice
  <2>2. CASE i \notin 1..Len(p)
    <3> DEFINE j == i - Len(p)
    <3>1. j \in 1..Len(f) /\ j \in 1..Len(q) /\ j \in 1..(n - 0) /\ i = Len(p) + j
      BY <1>1, <1>3, <1>5, <2>2
    <3> HIDE DEF j
    <3>2. t[Len(p) + j] = f[j] /\ f[j] = q[0 + j] /\ q[j] = U[a + Len(p) + j]
      BY <1>2, <1>4, <3>1 DEF Glued, Piece, Slice
    <3>3. 0 + j = j /\ a + Len(p) + j = a + i
      BY <1>1, <3>1
    <3> QED BY <3>1, <3>2, <3>3
  <2> QED BY <2>1, <2>2
<1>7. Gained(t, p, U, a, n)
  BY <1>5, <1>6, Zenon DEF Gained, Slice
<1> QED BY <1>7 DEF t, f

LEMMA RemainLens ==
    ASSUME NEW U, NEW a, NEW t, NEW w, NEW l, Remain(U, a, t, w, l)
    PROVE  /\ IsSeq(t) /\ IsSeq(w) /\ IsSeq(l)
           /\ Len(t) \in Nat /\ Len(w) \in Nat /\ Len(l) \in Nat
           /\ a + Len(l) + Len(w) + Len(t) = Len(U)
  BY SeqLen DEF Remain, Slice

LEMMA RemainArrives ==
    ASSUME NEW U, IsSeq(U), NEW a \in Nat, NEW t, NEW w, NEW l, Remain(U, a, t, w, l),
           NEW n \in 0..Len(t), Whole(U, a + Len(l) + Len(w) + n)
    PROVE  Remain(U, a, SubSeq(t, n + 1, Len(t)), w \o SubSeq(t, 1, n), l)
<1> DEFINE t2 == SubSeq(t, n + 1, Len(t))
           w2 == w \o SubSeq(t, 1, n)
           b  == a + Len(l)
           c  == a + Len(l) + Len(w)
<1>1. Len(t) \in Nat /\ Len(w) \in Nat /\ Len(l) \in Nat /\ n \in Nat /\ a + Len(l) + Len(w) + Len(t) = Len(U)
  BY RemainLens
<1>2. b \in Nat /\ c \in Nat /\ c = b + Len(w)
  BY <1>1
<1>3. Slice(l, U, a) /\ Slice(w, U, b) /\ Slice(t, U, c)
  BY DEF Remain
<1> HIDE DEF b, c
<1>4. Gained(w2, w, U, b, n)
  BY <1>2, <1>3, SliceMore
<1>5. Dropped(t2, t, U, c, n)
  BY <1>2, <1>3, SliceRest, Zenon
<1> HIDE DEF t2, w2
<1>6. /\ Slice(w2, U, b) /\ Len(w2) = Len(w) + n
      /\ Slice(t2, U, c + n) /\ Len(t2) = Len(t) - n
  BY <1>4, <1>5 DEF Gained, Dropped
<1>7. /\ c + n = a + Len(l) + Len(w2) /\ a + Len(l) + Len(w) + n = a + Len(l) + Len(w2)
      /\ a + Len(l) + Len(w2) + Len(t2) = Len(U)
  BY <1>1, <1>6 DEF c
<1>8. Slice(w2, U, a + Len(l)) /\ Slice(t2, U, a + Len(l) + Len(w2)) /\ Whole(U, a + Len(l) + Len(w2))
  BY <1>6, <1>7, Zenon DEF b
<1>9. Remain(U, a, t2, w2, l)
  BY <1>3, <1>7, <1>8, Zenon DEF Remain
<1> QED BY <1>9 DEF t2, w2

\* Units that are received, and the length of the buffer then.
Received(U, a, t, w, l, w2, l2, n) == Remain(U, a, t, w2, l2) /\ Len(l2) = Len(l) + n

LEMMA RemainReceived ==
    ASSUME NEW U, IsSeq(U), NEW a \in Nat, NEW t, NEW w, NEW l, Remain(U, a, t, w, l),
           NEW n \in 0..Len(w)
    PROVE  Received(U, a, t, w, l, SubSeq(w, n + 1, Len(w)), l \o SubSeq(w, 1, n), n)
<1> DEFINE w2 == SubSeq(w, n + 1, Len(w))
           l2 == l \o SubSeq(w, 1, n)
           b  == a + Len(l)
           c  == a + Len(l) + Len(w)
<1>1. /\ Len(t) \in Nat /\ Len(w) \in Nat /\ Len(l) \in Nat /\ n \in Nat
      /\ a + Len(l) + Len(w) + Len(t) = Len(U)
  BY RemainLens
<1>2. b \in Nat
  BY <1>1
<1>3. Slice(l, U, a) /\ Slice(w, U, b) /\ Slice(t, U, c) /\ Whole(U, c)
  BY DEF Remain
<1> HIDE DEF b, c
<1>4. Gained(l2, l, U, a, n)
  <2>1. Slice(w, U, a + Len(l))
    BY <1>3 DEF b
  <2> QED BY <1>3, <2>1, SliceMore, Zenon
<1>5. Dropped(w2, w, U, b, n)
  BY <1>2, <1>3, SliceRest, Zenon
<1> HIDE DEF w2, l2
<1>6. /\ Slice(l2, U, a) /\ Len(l2) = Len(l) + n
      /\ Slice(w2, U, b + n) /\ Len(w2) = Len(w) - n
  BY <1>4, <1>5 DEF Gained, Dropped
<1>7. /\ b + n = a + Len(l2) /\ c = a + Len(l2) + Len(w2)
      /\ a + Len(l2) + Len(w2) + Len(t) = Len(U)
  BY <1>1, <1>6 DEF b, c
<1>8. Slice(w2, U, a + Len(l2)) /\ Slice(t, U, a + Len(l2) + Len(w2)) /\ Whole(U, a + Len(l2) + Len(w2))
  BY <1>3, <1>6, <1>7, Zenon
<1>9. Received(U, a, t, w, l, w2, l2, n)
  BY <1>6, <1>7, <1>8, Zenon DEF Remain, Received
<1> QED BY <1>9 DEF w2, l2

\* Units of the buffer that are done with, and the length of the buffer then.
Consumed(U, a, t, w, l, l2, n) == Remain(U, a + n, t, w, l2) /\ Len(l2) = Len(l) - n

LEMMA RemainTaken ==
    ASSUME NEW U, IsSeq(U), NEW a \in Nat, NEW t, NEW w, NEW l, Remain(U, a, t, w, l),
           NEW n \in 0..Len(l)
    PROVE  Consumed(U, a, t, w, l, SubSeq(l, n + 1, Len(l)), n)
<1> DEFINE l2 == SubSeq(l, n + 1, Len(l))
           b  == a + Len(l)
<1>1. /\ Len(t) \in Nat /\ Len(w) \in Nat /\ Len(l) \in Nat /\ n \in Nat
      /\ a + Len(l) + Len(w) + Len(t) = Len(U)
  BY RemainLens
<1>2. Slice(l, U, a) /\ Slice(w, U, b) /\ Slice(t, U, b + Len(w)) /\ Whole(U, b + Len(w))
  BY DEF Remain
<1> HIDE DEF b
<1>3. Dropped(l2, l, U, a, n)
  BY <1>2, SliceRest, Zenon
<1> HIDE DEF l2
<1>4. Slice(l2, U, a + n) /\ Len(l2) = Len(l) - n
  BY <1>3 DEF Dropped
<1>5. b = a + n + Len(l2) /\ a + n + Len(l2) + Len(w) + Len(t) = Len(U)
  BY <1>1, <1>4 DEF b
<1>6. Consumed(U, a, t, w, l, l2, n)
  BY <1>2, <1>4, <1>5, Zenon DEF Remain, Consumed
<1> QED BY <1>6 DEF l2

LEMMA LinesTaken ==
    ASSUME NEW U, IsSeq(U), NEW a \in Nat, NEW t, NEW w, NEW l, Lines(U, a, t, w, l),
           NEW n \in 0..Len(l)
    PROVE  Lines(U, a + n, t, w, SubSeq(l, n + 1, Len(l)))
<1> DEFINE l2 == SubSeq(l, n + 1, Len(l))
<1>1. Remain(U, a, t, w, l) /\ Whole(U, a + Len(l))
  BY DEF Lines
<1>2. Consumed(U, a, t, w, l, l2, n)
  BY <1>1, RemainTaken, Zenon
<1> HIDE DEF l2
<1>3. a + n + Len(l2) = a + Len(l)
  <2>1. Len(l) \in Nat /\ n \in Nat /\ Len(l2) = Len(l) - n
    BY <1>1, <1>2, RemainLens DEF Consumed
  <2> QED BY <2>1
<1>4. Lines(U, a + n, t, w, l2)
  BY <1>1, <1>2, <1>3, Zenon DEF Lines, Consumed
<1> QED BY <1>4 DEF l2

LEMMA EmptyLen == IsSeq(<<>>) /\ Len(<<>>) = 0
  BY DEF IsSeq

\* Units of a body that are received.
LEMMA RemainBody ==
    ASSUME NEW U, IsSeq(U), NEW a \in Nat, NEW t, NEW w, NEW l, Remain(U, a, t, w, l),
           Len(l) = 0, NEW n \in 0..Len(w)
    PROVE  Remain(U, a + n, t, SubSeq(w, n + 1, Len(w)), <<>>)
<1> DEFINE w2 == SubSeq(w, n + 1, Len(w))
<1>1. /\ Len(t) \in Nat /\ Len(w) \in Nat /\ n \in Nat /\ n <= Len(w)
      /\ a + Len(w) + Len(t) = Len(U) /\ a + Len(l) = a
  BY RemainLens
<1>2. Slice(w, U, a) /\ Slice(t, U, a + Len(w)) /\ Whole(U, a + Len(w))
  BY <1>1, Zenon DEF Remain
<1>3. Dropped(w2, w, U, a, n)
  BY <1>2, SliceRest, Zenon
<1> HIDE DEF w2
<1>4. Slice(w2, U, a + n) /\ Len(w2) = Len(w) - n
  BY <1>3 DEF Dropped
<1>5. /\ a + n + Len(<<>>) = a + n /\ a + n + Len(<<>>) + Len(w2) = a + Len(w)
      /\ a + n + Len(<<>>) + Len(w2) + Len(t) = Len(U)
  BY <1>1, <1>4, EmptyLen
<1>6. Slice(<<>>, U, a + n)
  BY <1>1, SeqLen, EmptyLen DEF Slice
<1>7. Remain(U, a + n, t, w2, <<>>)
  BY <1>2, <1>4, <1>5, <1>6, Zenon DEF Remain
<1> QED BY <1>7 DEF w2

-----------------------------------------------------------------------------
(* The end of a line.                                                      *)

\* x is where the first line of q ends, 0 if it has none.
EndsAt(x, q) ==
    \/ x = 0 /\ NoEnd(q)
    \/ /\ x \in 1..Len(q) /\ IsEnd(q[x])
       /\ \A y \in 1..Len(q) : IsEnd(q[y]) => x <= y

LEMMA FirstEnd == ASSUME NEW q, IsSeq(q) PROVE EndsAt(SelectInSeq(q, IsEnd), q)
<1> DEFINE I == {i \in 1..Len(q) : IsEnd(q[i])}
           x == SelectInSeq(q, IsEnd)
<1>1. Len(q) \in Nat
  BY SeqLen
<1>2. x = IF I # {} THEN Min(I) ELSE 0
  BY DEF SelectInSeq
<1>3. CASE I = {}
  <2>1. x = 0
    BY <1>2, <1>3
  <2>2. NoEnd(q)
    BY <1>3 DEF NoEnd
  <2> QED BY <2>1, <2>2, Zenon DEF EndsAt
<1>4. CASE I # {}
  <2>1. x = CHOOSE y \in I : \A z \in I : y <= z
    BY <1>2, <1>4 DEF Min
  <2>2. I \in SUBSET Nat
    BY <1>1
  <2>3. \E y \in I : \A z \in I : y <= z
    BY <1>4, <2>2, LeastNat
  <2>4. x \in I /\ \A z \in I : x <= z
    BY <2>1, <2>3
  <2>5. x \in 1..Len(q) /\ IsEnd(q[x]) /\ \A y \in 1..Len(q) : IsEnd(q[y]) => x <= y
    BY <2>4
  <2> QED BY <2>5, Zenon DEF EndsAt
<1> QED BY <1>3, <1>4

\* The line of the buffer is m units long and ends with CR and LF.
LineIs(m) ==
    /\ HasLine => /\ m + 2 <= Len(lineBuf)
                  /\ AfterLine = SubSeq(lineBuf, m + 2 + 1, Len(lineBuf))
                  /\ EmptyLine <=> m = 0
    /\ ~HasLine => NoEnd(lineBuf)
    /\ NoEnd(lineBuf) => Len(lineBuf) <= m

LEMMA NextLine ==
    ASSUME NEW U, IsSeq(U), NEW a \in Nat, NEW m \in Nat, a + m + 2 <= Len(U),
           Slice(lineBuf, U, a), Whole(U, a + Len(lineBuf)),
           \A i \in 1..m : ~IsEnd(U[a + i]),
           U[a + m + 1].k = "CR", U[a + m + 2].k = "LF"
    PROVE  LineIs(m)
<1> DEFINE x == SelectInSeq(lineBuf, IsEnd)
           n == Len(lineBuf)
<1>1. /\ IsSeq(lineBuf) /\ n \in Nat /\ Len(U) \in Nat
      /\ \A i \in 1..n : lineBuf[i] = U[a + i]
  BY SeqLen DEF Slice
<1>2. EndsAt(x, lineBuf)
  BY <1>1, FirstEnd, Zenon
<1>3. HasLine <=> x # 0
  BY DEF HasLine
<1>4. LineLen = x - 1
  BY DEF LineLen
<1> HIDE DEF x, n
<1>5. \A i \in 1..n : i <= m => ~IsEnd(lineBuf[i])
  BY <1>1
<1>6. m + 1 \in 1..n => lineBuf[m + 1].k = "CR" /\ IsEnd(lineBuf[m + 1]) /\ m + 2 \in 1..n
  <2> SUFFICES ASSUME m + 1 \in 1..n
               PROVE  lineBuf[m + 1].k = "CR" /\ IsEnd(lineBuf[m + 1]) /\ m + 2 \in 1..n
    OBVIOUS
  <2>1. lineBuf[m + 1] = U[a + (m + 1)] /\ a + (m + 1) = a + m + 1
    BY <1>1
  <2>2. lineBuf[m + 1].k = "CR"
    BY <2>1
  <2>3. IsEnd(lineBuf[m + 1])
    BY <2>2 DEF IsEnd
  <2>4. n # m + 1
    <3> SUFFICES ASSUME n = m + 1 PROVE FALSE
      OBVIOUS
    <3>1. a + n \in 1..Len(U) /\ a + n = a + m + 1
      BY <1>1
    <3>2. U[a + n].k # "CR"
      BY <3>1, Zenon DEF Whole, n
    <3> QED BY <3>1, <3>2
  <2> QED BY <1>1, <2>2, <2>3, <2>4
<1>7. ASSUME x # 0 PROVE x = m + 1 /\ m + 2 \in 1..n
  <2>1. x \in 1..n /\ IsEnd(lineBuf[x]) /\ \A y \in 1..n : IsEnd(lineBuf[y]) => x <= y
    BY <1>2, <1>7 DEF EndsAt, n
  <2>2. ~(x <= m)
    BY <1>5, <2>1, Zenon
  <2>3. m + 1 \in 1..n
    BY <1>1, <2>1, <2>2
  <2>4. x <= m + 1
    BY <1>6, <2>1, <2>3
  <2> QED BY <1>1, <1>6, <2>1, <2>2, <2>3, <2>4
<1>8. ASSUME HasLine
      PROVE  /\ m + 2 <= n /\ AfterLine = SubSeq(lineBuf, m + 2 + 1, n)
             /\ EmptyLine <=> m = 0
  <2>1. x = m + 1 /\ m + 2 \in 1..n /\ LineLen = m
    BY <1>3, <1>4, <1>7, <1>8
  <2>2. lineBuf[m + 1].k = "CR" /\ lineBuf[m + 1 + 1].k = "LF" /\ m + 1 < n /\ m + 1 \in 1..n
    <3>1. m + 1 \in 1..n /\ m + 1 < n
      BY <1>1, <2>1
    <3>2. lineBuf[m + 2] = U[a + (m + 2)] /\ a + (m + 2) = a + m + 2 /\ m + 1 + 1 = m + 2
      BY <1>1, <2>1
    <3> QED BY <1>6, <3>1, <3>2
  <2>3. EolLen(m + 1) = 2
    BY <2>2 DEF EolLen, n
  <2>4. LineLen + EolLen(LineLen + 1) = m + 2
    BY <2>1, <2>3
  <2>5. AfterLine = SubSeq(lineBuf, m + 2 + 1, n)
    BY <2>4 DEF AfterLine, Rest, n
  <2>6. EmptyLine <=> m = 0
    <3>1. CASE m = 0
      <4>1. EolLen(1) = 2
        BY <2>3, <3>1
      <4> QED BY <1>8, <2>1, <3>1, <4>1 DEF EmptyLine
    <3>2. CASE m # 0
      BY <2>1, <3>2 DEF EmptyLine
    <3> QED BY <3>1, <3>2
  <2>7. m + 2 <= n
    BY <2>1
  <2> QED BY <2>5, <2>6, <2>7
<1>9. ~HasLine => NoEnd(lineBuf)
  <2>1. x = 0 => NoEnd(lineBuf)
    <3>1. ~(0 \in 1..Len(lineBuf))
      OBVIOUS
    <3> QED BY <1>2, <3>1, Zenon DEF EndsAt
  <2> QED BY <1>3, <2>1
<1>10. ASSUME NoEnd(lineBuf) PROVE n <= m
  <2>1. ~(m + 1 \in 1..n)
    BY <1>6, <1>10, Zenon DEF NoEnd, n
  <2> QED BY <1>1, <2>1
<1>11. LineIs(m)
  BY <1>8, <1>9, <1>10, Zenon DEF LineIs, n
<1> QED BY <1>11, Zenon

-----------------------------------------------------------------------------
(* The invariant: what is common to several actions.                       *)

\* The request that is being read.
Current == sent[Len(sent)]

\* What is known of the current request and of the parts of it.
LEMMA Being ==
    ASSUME RequestInv, AllFit, Len(sent) = Len(processed) + 1, Current \in Requests
    PROVE  /\ Fits(Current) /\ Shape(Units(Current), Current) /\ IsSeq(Units(Current))
           /\ Len(Current.headers) \in Nat /\ Current.body \in Nat
           /\ DOMAIN Current.headers = 1..Len(Current.headers)
           /\ Len(Units(Current)) = 4 * Len(Current.headers) + 5 + Current.body
           /\ Len(processed) \in Nat /\ Len(sent) \in 1..Len(sent)
<1>1. Len(processed) \in Nat /\ Len(sent) \in 1..Len(sent)
  <2>1. Len(processed) \in Nat /\ Len(sent) \in Nat
    BY SeqLen DEF RequestInv
  <2> QED BY <2>1
<1>2. Fits(Current)
  BY <1>1 DEF AllFit, Current
<1>3. Shape(Units(Current), Current)
  BY <1>2, UnitsShape, Zenon
<1>4. /\ Len(Current.headers) \in Nat /\ Current.body \in Nat
      /\ DOMAIN Current.headers = 1..Len(Current.headers)
  BY HttpAssumption
<1>5. IsSeq(Units(Current)) /\ Len(Units(Current)) = 4 * Len(Current.headers) + 5 + Current.body
  BY <1>3 DEF Shape
<1> QED BY <1>1, <1>2, <1>3, <1>4, <1>5

\* The three states of a request; the invariant's disjuncts by name.
Reads(r) ==
    \/ Unread(r)
    \/ \E k \in 0..Len(r.headers) : InHead(r, k)
    \/ \E b \in 0..r.body : InBody(r, b)

LEMMA BusyBy ==
    ASSUME Busy
    PROVE  Len(sent) = Len(processed) + 1 /\ Current \in Requests /\ Reads(Current)
  BY Zenon DEF Busy, Reads, Current

LEMMA BusyFrom ==
    ASSUME Len(sent) = Len(processed) + 1, Current \in Requests, Reads(Current),
           req.part # "body" /\ ~parsing => NoEnd(lineBuf)
    PROVE  Busy
  BY Zenon DEF Busy, Reads, Current

\* Requests are not lost or changed: HandedOver after a step that hands over none.
LEMMA SameHanded ==
    ASSUME RequestInv, UNCHANGED <<sent, processed>>, eof => eof'
    PROVE  HandedOver' /\ IsSeq(sent)' /\ IsSeq(processed)'
<1>1. IsSeq(sent)' /\ IsSeq(processed)'
  BY Zenon DEF RequestInv
<1>2. HandedOver
  BY DEF RequestInv
<1>3. ASSUME NEW i \in 1..Len(processed)
      PROVE  /\ i <= Len(sent)
             /\ IF processed[i].cut THEN eof' ELSE processed[i].request = RequestOf(sent[i])
  <2>1. /\ i <= Len(sent)
        /\ IF processed[i].cut THEN eof ELSE processed[i].request = RequestOf(sent[i])
    BY <1>2 DEF HandedOver
  <2> QED BY <2>1, Zenon
<1>4. HandedOver'
  BY <1>3, Zenon DEF HandedOver
<1> QED BY <1>1, <1>4

\* A step that hands over nothing.
LEMMA KeepsRequest ==
    ASSUME RequestInv, UNCHANGED <<sent, processed, responses>>, eof => eof',
           open' /\ mode' = "http" => open /\ mode = "http" /\ (Idle' \/ Busy')
    PROVE  RequestInv'
<1>1. HandedOver' /\ IsSeq(sent)' /\ IsSeq(processed)'
  BY SameHanded, Zenon
<1>2. IsSeq(responses)'
  BY Zenon DEF RequestInv
<1>3. open' /\ mode' = "http" => Len(responses') = Len(processed')
  BY Zenon DEF RequestInv
<1> QED BY <1>1, <1>2, <1>3, Zenon DEF RequestInv

\* The end of the connection, or another protocol.
LEMMA LeavesHttp ==
    ASSUME RequestInv, UNCHANGED <<sent, processed>>, eof => eof',
           \/ responses' = responses
           \/ \E r : responses' = Append(responses, r),
           ~open' \/ mode' # "http"
    PROVE  RequestInv'
<1>1. HandedOver' /\ IsSeq(sent)' /\ IsSeq(processed)'
  BY SameHanded, Zenon
<1>2. IsSeq(responses)'
  <2>1. IsSeq(responses)
    BY DEF RequestInv
  <2>2. ASSUME NEW r PROVE IsSeq(Append(responses, r))
    BY <2>1, AppendSeq, Zenon DEF Longer
  <2> QED BY <2>1, <2>2, Zenon
<1> QED BY <1>1, <1>2, Zenon DEF RequestInv

\* A request is handed over: the next one, as it was sent or cut off by its client.
LEMMA HandsOver ==
    ASSUME RequestInv, sent' = sent, eof' = eof, Len(processed) < Len(sent),
           NEW p, processed' = Append(processed, p), NEW x, responses' = Append(responses, x),
           IF p.cut THEN eof ELSE p.request = RequestOf(sent[Len(processed) + 1]),
           open' /\ mode' = "http" => open /\ mode = "http" /\ (Idle' \/ Busy')
    PROVE  RequestInv'
<1>1. /\ IsSeq(sent) /\ IsSeq(processed) /\ IsSeq(responses) /\ HandedOver
      /\ Len(processed) \in Nat /\ Len(sent) \in Nat
  BY SeqLen DEF RequestInv
<1>2. Longer(processed', processed, p)
  <2>1. Longer(Append(processed, p), processed, p)
    BY <1>1, AppendSeq, Zenon
  <2> QED BY <2>1, Zenon
<1>3. Longer(responses', responses, x)
  <2>1. Longer(Append(responses, x), responses, x)
    BY <1>1, AppendSeq, Zenon
  <2> QED BY <2>1, Zenon
<1>4. /\ IsSeq(processed') /\ Len(processed') = Len(processed) + 1
      /\ processed'[Len(processed) + 1] = p
      /\ \A i \in 1..Len(processed) : processed'[i] = processed[i]
  BY <1>2 DEF Longer
<1>5. ASSUME NEW i \in 1..Len(processed')
      PROVE  /\ i <= Len(sent')
             /\ IF processed'[i].cut THEN eof' ELSE processed'[i].request = RequestOf(sent'[i])
  <2>1. CASE i = Len(processed) + 1
    <3>1. i <= Len(sent')
      BY <1>1, <2>1
    <3>2. processed'[i] = p /\ sent'[i] = sent[Len(processed) + 1]
      BY <1>4, <2>1, Zenon
    <3> QED BY <3>1, <3>2, Zenon
  <2>2. CASE i # Len(processed) + 1
    <3>1. i \in 1..Len(processed)
      BY <1>1, <1>4, <2>2
    <3>2. /\ i <= Len(sent)
          /\ IF processed[i].cut THEN eof ELSE processed[i].request = RequestOf(sent[i])
      BY <1>1, <3>1 DEF HandedOver
    <3>3. processed'[i] = processed[i]
      BY <1>4, <3>1
    <3> QED BY <3>2, <3>3, Zenon
  <2> QED BY <2>1, <2>2
<1>6. HandedOver'
  BY <1>5, Zenon DEF HandedOver
<1>7. IsSeq(responses') /\ Len(responses') = Len(responses) + 1
  BY <1>3 DEF Longer
<1>8. ASSUME open', mode' = "http" PROVE Len(responses') = Len(processed') /\ (Idle' \/ Busy')
  <2>1. open /\ mode = "http" /\ (Idle' \/ Busy')
    BY <1>8, Zenon
  <2>2. Len(responses) = Len(processed)
    BY <2>1, Zenon DEF RequestInv
  <2> QED BY <1>4, <1>7, <2>1, <2>2, Zenon
<1>9. IsSeq(sent')
  BY <1>1
<1> QED BY <1>4, <1>6, <1>7, <1>8, <1>9, Zenon DEF RequestInv

\* The line of the buffer is the request line, that of a header, or empty.
LEMMA AtRequestLine ==
    ASSUME NEW r \in Requests, Fits(r), Lines(Units(r), 0, todo, wire, lineBuf)
    PROVE  LineIs(1)
<1> DEFINE U == Units(r)
           n == Len(r.headers)
<1>1. Shape(U, r) /\ n \in Nat /\ r.body \in Nat
  BY UnitsShape, HttpAssumption
<1> HIDE DEF U
<1>2. /\ IsSeq(U) /\ Len(U) = 4 * n + 5 + r.body
      /\ U[1].k = "request" /\ U[4 * 0 + 2].k = "CR" /\ U[4 * 0 + 3].k = "LF"
  BY <1>1 DEF Shape
<1>3. Slice(lineBuf, U, 0) /\ Whole(U, 0 + Len(lineBuf))
  BY DEF Lines, Remain, U
<1>4. \A i \in 1..1 : ~IsEnd(U[0 + i])
  BY <1>2 DEF IsEnd
<1>5. U[0 + 1 + 1].k = "CR" /\ U[0 + 1 + 2].k = "LF" /\ 0 + 1 + 2 <= Len(U)
  BY <1>1, <1>2
<1>6. 0 \in Nat /\ 1 \in Nat
  OBVIOUS
<1> QED BY <1>2, <1>3, <1>4, <1>5, <1>6, NextLine, Zenon

LEMMA AtHeaderLine ==
    ASSUME NEW r \in Requests, Fits(r), NEW k \in 0..Len(r.headers),
           Lines(Units(r), 4 * k + 3, todo, wire, lineBuf)
    PROVE  LineIs(IF k < Len(r.headers) THEN 2 ELSE 0)
<1> DEFINE U == Units(r)
           n == Len(r.headers)
           a == 4 * k + 3
<1>1. Shape(U, r) /\ n \in Nat /\ r.body \in Nat
  BY UnitsShape, HttpAssumption
<1>2. Slice(lineBuf, U, a) /\ Whole(U, a + Len(lineBuf))
  BY DEF Lines, Remain
<1> HIDE DEF U
<1>3. IsSeq(U) /\ Len(U) = 4 * n + 5 + r.body /\ a \in Nat
  BY <1>1 DEF Shape
<1>4. CASE k < n
  <2>1. k + 1 \in 1..n /\ k + 1 \in 0..n
    BY <1>1, <1>4
  <2>2. /\ U[4 * (k + 1)].k = "header" /\ U[4 * (k + 1) + 1].k = "text"
        /\ U[4 * (k + 1) + 2].k = "CR" /\ U[4 * (k + 1) + 3].k = "LF"
    BY <1>1, <2>1 DEF Shape
  <2>3. /\ 4 * (k + 1) = a + 1 /\ 4 * (k + 1) + 1 = a + 2
        /\ 4 * (k + 1) + 2 = a + 2 + 1 /\ 4 * (k + 1) + 3 = a + 2 + 2
    BY <1>1
  <2>4. /\ U[a + 1].k = "header" /\ U[a + 2].k = "text"
        /\ U[a + 2 + 1].k = "CR" /\ U[a + 2 + 2].k = "LF"
    BY <2>2, <2>3, Zenon
  <2>5. a + 2 + 2 <= Len(U)
    BY <1>1, <1>3, <1>4
  <2> HIDE DEF a
  <2>6. \A i \in 1..2 : ~IsEnd(U[a + i])
    BY <2>4 DEF IsEnd
  <2>7. 2 \in Nat
    OBVIOUS
  <2>8. LineIs(2)
    BY <1>2, <1>3, <2>4, <2>5, <2>6, <2>7, NextLine, Zenon
  <2> QED BY <1>4, <2>8, Zenon
<1>5. CASE ~(k < n)
  <2>1. k = n
    BY <1>1, <1>5
  <2>2. U[4 * n + 4].k = "CR" /\ U[4 * n + 5].k = "LF"
    BY <1>1 DEF Shape
  <2>3. 4 * n + 4 = a + 0 + 1 /\ 4 * n + 5 = a + 0 + 2 /\ a + 0 + 2 <= Len(U)
    BY <1>1, <1>3, <2>1
  <2>4. U[a + 0 + 1].k = "CR" /\ U[a + 0 + 2].k = "LF"
    BY <2>2, <2>3, Zenon
  <2> HIDE DEF a
  <2>5. 0 \in Nat /\ \A i \in 1..0 : ~IsEnd(U[a + i])
    OBVIOUS
  <2>6. LineIs(0)
    BY <1>2, <1>3, <2>3, <2>4, <2>5, NextLine, Zenon
  <2> QED BY <1>5, <2>6, Zenon
<1> QED BY <1>4, <1>5

-----------------------------------------------------------------------------
(* The client and the network.                                             *)

LEMMA InitialRequest == Init => RequestInv
<1> SUFFICES ASSUME Init PROVE RequestInv
  OBVIOUS
<1>1. /\ sent = <<>> /\ todo = <<>> /\ wire = <<>> /\ lineBuf = <<>>
      /\ req = NoRequest /\ responses = <<>> /\ processed = <<>>
  BY DEF Init, HttpInit
<1>2. IsSeq(<<>>) /\ Len(<<>>) = 0
  BY EmptyLen
<1>3. Idle
  BY <1>1, <1>2, Zenon DEF Idle, Nothing
<1>4. HandedOver
  BY <1>1, <1>2 DEF HandedOver
<1> QED BY <1>1, <1>2, <1>3, <1>4, Zenon DEF RequestInv

\* In a request LF follows each CR.
LEMMA CrThenLf ==
    ASSUME NEW r, ShortLines(r), NEW U, Shape(U, r), NEW p \in 1..Len(U), U[p].k = "CR"
    PROVE  p + 1 \in 1..Len(U) /\ U[p + 1].k = "LF"
<1> DEFINE n == Len(r.headers)
<1>1. n \in Nat /\ r.body \in Nat
  BY DEF ShortLines
<1>2. /\ IsSeq(U) /\ Len(U) = 4 * n + 5 + r.body
      /\ U[1].k = "request"
      /\ U[4 * n + 4].k = "CR" /\ U[4 * n + 5].k = "LF"
  BY DEF Shape
<1>3. \A k \in 1..n : U[4 * k].k = "header" /\ U[4 * k + 1].k = "text"
  BY DEF Shape
<1>4. \A k \in 0..n : U[4 * k + 2].k = "CR" /\ U[4 * k + 3].k = "LF"
  BY DEF Shape
<1>5. \A b \in 1..r.body : U[4 * n + 5 + b].k = "body"
  BY DEF Shape
<1> HIDE DEF n
<1>6. p \in Nat /\ p >= 1 /\ p <= 4 * n + 5 + r.body
  BY <1>1, <1>2
<1>7. p # 1
  BY <1>2
<1>8. p <= 4 * n + 5
  <2> SUFFICES ASSUME p > 4 * n + 5 PROVE FALSE
    BY <1>1, <1>6
  <2> DEFINE b == p - (4 * n + 5)
  <2>1. b \in 1..r.body /\ 4 * n + 5 + b = p
    BY <1>1, <1>6
  <2> HIDE DEF b
  <2>2. U[4 * n + 5 + b].k = "body"
    BY <1>5, <2>1
  <2> QED BY <2>1, <2>2
<1>9. CASE p = 4 * n + 4
  <2>1. p + 1 = 4 * n + 5 /\ p + 1 \in 1..Len(U)
    BY <1>1, <1>2, <1>9
  <2> QED BY <1>2, <2>1
<1>10. CASE p = 4 * n + 5
  BY <1>2, <1>10
<1>11. CASE p < 4 * n + 4
  <2>1. PICK k \in Nat, o \in 0..3 : p = 4 * k + o
    <3>1. p \div 4 \in Nat /\ p % 4 \in 0..3 /\ p = 4 * (p \div 4) + (p % 4)
      BY <1>6
    <3> QED BY <3>1
  <2>2. k <= n
    BY <1>1, <1>11, <2>1
  <2>3. o = 0 \/ o = 1 => FALSE
    <3> SUFFICES ASSUME o = 0 \/ o = 1 PROVE FALSE
      OBVIOUS
    <3>1. k \in 1..n
      BY <1>1, <1>6, <1>7, <2>1, <2>2
    <3>2. U[4 * k].k = "header" /\ U[4 * k + 1].k = "text"
      BY <1>3, <3>1
    <3>3. p = 4 * k \/ p = 4 * k + 1
      BY <2>1
    <3> QED BY <3>2, <3>3
  <2>4. k \in 0..n
    BY <1>1, <2>2
  <2>5. U[4 * k + 2].k = "CR" /\ U[4 * k + 3].k = "LF"
    BY <1>4, <2>4
  <2>6. o = 3 => FALSE
    <3>1. o = 3 => p = 4 * k + 3
      BY <2>1
    <3> QED BY <2>5, <3>1
  <2>7. p = 4 * k + 2 /\ p + 1 = 4 * k + 3
    BY <2>1, <2>3, <2>6
  <2>8. p + 1 \in 1..Len(U)
    BY <1>1, <1>2, <1>6, <1>11
  <2> QED BY <2>5, <2>7, <2>8
<1> QED BY <1>1, <1>6, <1>8, <1>9, <1>10, <1>11

\* How much arrives at once.
Arriving == IF todo[1].k = "CR" /\ ~SplitEol THEN 2 ELSE 1

LEMMA UnitsArrive ==
    ASSUME ~SplitEol, NEW r, ShortLines(r), NEW a \in Nat, todo # <<>>,
           Remain(Units(r), a, todo, wire, lineBuf)
    PROVE  Remain(Units(r), a, SubSeq(todo, Arriving + 1, Len(todo)),
                  wire \o SubSeq(todo, 1, Arriving), lineBuf)
<1> DEFINE U == Units(r)
           c == a + Len(lineBuf) + Len(wire)
<1>1. Shape(U, r)
  BY ShapeOf, Zenon
<1>2. IsSeq(U)
  BY <1>1 DEF Shape
<1> HIDE DEF U
<1>3. /\ IsSeq(todo) /\ Len(todo) \in Nat /\ Len(wire) \in Nat /\ Len(lineBuf) \in Nat
      /\ a + Len(lineBuf) + Len(wire) + Len(todo) = Len(U)
  BY RemainLens DEF U
<1>4. Slice(todo, U, c)
  BY DEF Remain, U
<1>5. Len(todo) # 0
  BY <1>3, EmptySeq DEF IsSeq
<1>6. c + 1 \in 1..Len(U) /\ todo[1] = U[c + 1] /\ c \in Nat
  <2>1. 1 \in 1..Len(todo) /\ c \in Nat /\ c + 1 \in 1..Len(U)
    BY <1>3, <1>5
  <2>2. todo[1] = U[c + 1]
    BY <1>4, <2>1 DEF Slice
  <2> QED BY <2>1, <2>2
<1>7. Arriving \in 0..Len(todo) /\ Whole(U, c + Arriving)
  <2>1. CASE todo[1].k = "CR"
    <3>1. Arriving = 2
      BY <2>1 DEF Arriving
    <3>2. c + 1 + 1 \in 1..Len(U) /\ U[c + 1 + 1].k = "LF"
      BY <1>1, <1>6, <2>1, CrThenLf
    <3>3. c + 2 = c + 1 + 1 /\ 2 <= Len(todo)
      BY <1>3, <1>6, <3>2
    <3>4. U[c + 2].k = "LF"
      BY <3>2, <3>3
    <3> QED BY <1>3, <3>1, <3>3, <3>4 DEF Whole
  <2>2. CASE todo[1].k # "CR"
    <3>1. Arriving = 1
      BY <2>2 DEF Arriving
    <3>2. U[c + 1].k # "CR"
      BY <1>6, <2>2
    <3> QED BY <1>3, <1>5, <3>1, <3>2 DEF Whole
  <2> QED BY <2>1, <2>2
<1>8. Remain(U, a, todo, wire, lineBuf)
  BY DEF U
<1>9. Remain(U, a, SubSeq(todo, Arriving + 1, Len(todo)), wire \o SubSeq(todo, 1, Arriving), lineBuf)
  BY <1>2, <1>7, <1>8, RemainArrives, Zenon
<1> QED BY <1>9 DEF U

LEMMA RequestArrives ==
    ASSUME ~SplitEol, NEW r \in Requests, Fits(r), NEW a \in Nat, todo # <<>>,
           Remain(Units(r), a, todo, wire, lineBuf)
    PROVE  Remain(Units(r), a, SubSeq(todo, Arriving + 1, Len(todo)),
                  wire \o SubSeq(todo, 1, Arriving), lineBuf)
  BY FitsShort, UnitsArrive, Zenon

LEMMA NothingThere ==
    ASSUME Idle
    PROVE  /\ todo = <<>> /\ wire = <<>> /\ lineBuf = <<>> /\ ~HasLine
           /\ IsSeq(lineBuf) /\ Len(lineBuf) = 0 /\ req = NoRequest
<1>1. /\ IsSeq(todo) /\ IsSeq(wire) /\ IsSeq(lineBuf) /\ req = NoRequest
      /\ Len(todo) = 0 /\ Len(wire) = 0 /\ Len(lineBuf) = 0
  BY DEF Idle, Nothing
<1>2. todo = <<>> /\ wire = <<>> /\ lineBuf = <<>>
  BY <1>1, EmptySeq DEF IsSeq
<1>3. EndsAt(SelectInSeq(lineBuf, IsEnd), lineBuf)
  BY <1>1, FirstEnd, Zenon
<1>4. ~HasLine
  BY <1>1, <1>3 DEF EndsAt, HasLine
<1> QED BY <1>1, <1>2, <1>4

LEMMA InvServing ==
    ASSUME RequestInv, open, mode = "http"
    PROVE  Len(responses) = Len(processed) /\ (Idle \/ Busy)
  BY Zenon DEF RequestInv

LEMMA RequestArrivesStep == ASSUME ~SplitEol, RequestInv, AllFit, Arrives PROVE RequestInv'
<1>1. /\ todo # <<>> /\ UNCHANGED <<mode, open, eof, sent, lineBuf, parsing, req, responses, processed>>
      /\ wire' = wire \o SubSeq(todo, 1, Arriving) /\ todo' = SubSeq(todo, Arriving + 1, Len(todo))
  BY DEF Arrives, Arriving
<1>2. CASE ~(open /\ mode = "http")
  <2>1. ~(open' /\ mode' = "http")
    BY <1>1, <1>2, Zenon
  <2> QED BY <1>1, <2>1, KeepsRequest, Zenon
<1>3. CASE open /\ mode = "http"
  <2>1. Busy
    BY <1>1, <1>3, InvServing, NothingThere
  <2>2. /\ Len(sent) = Len(processed) + 1 /\ Current \in Requests /\ Reads(Current)
        /\ req.part # "body" /\ ~parsing => NoEnd(lineBuf)
    BY <2>1, BusyBy, Zenon DEF Busy
  <2>3. Fits(Current) /\ Len(Current.headers) \in Nat /\ Current.body \in Nat
    BY <2>2, Being
  <2>4. ASSUME NEW a \in Nat, Remain(Units(Current), a, todo, wire, lineBuf)
        PROVE  Remain(Units(Current), a, todo', wire', lineBuf')
    <3>1. Remain(Units(Current), a, SubSeq(todo, Arriving + 1, Len(todo)),
                 wire \o SubSeq(todo, 1, Arriving), lineBuf)
      BY <1>1, <2>2, <2>3, <2>4, RequestArrives, Zenon
    <3> QED BY <1>1, <3>1, Zenon
  <2>5. Current' = Current /\ Len(sent') = Len(processed') + 1
    BY <1>1, <2>2, Zenon DEF Current
  <2>6. ASSUME Unread(Current) PROVE Reads(Current)'
    <3>1. Lines(Units(Current), 0, todo', wire', lineBuf') /\ req' = NoRequest
      BY <1>1, <2>4, <2>6 DEF Unread, Lines
    <3> QED BY <2>5, <3>1, Zenon DEF Unread, Reads
  <2>7. ASSUME NEW k \in 0..Len(Current.headers), InHead(Current, k)
        PROVE  Reads(Current)'
    <3>1. 4 * k + 3 \in Nat
      BY <2>3
    <3>2. Lines(Units(Current), 4 * k + 3, todo', wire', lineBuf') /\ req' = Known(Current, "header", k, 0)
      BY <1>1, <2>4, <2>7, <3>1, Zenon DEF InHead, Lines
    <3> QED BY <2>5, <3>2, Zenon DEF InHead, Reads
  <2>8. ASSUME NEW b \in 0..Current.body, InBody(Current, b)
        PROVE  Reads(Current)'
    <3>1. 4 * Len(Current.headers) + 5 + b \in Nat
      BY <2>3
    <3>2. Remain(Units(Current), 4 * Len(Current.headers) + 5 + b, todo', wire', lineBuf')
      BY <2>4, <2>8, <3>1, Zenon DEF InBody
    <3>3. Current.body > 0 /\ req' = Known(Current, "body", Len(Current.headers), b) /\ Len(lineBuf') = 0
      BY <1>1, <2>8, Zenon DEF InBody
    <3> QED BY <2>5, <3>2, <3>3, Zenon DEF InBody, Reads
  <2>9. Reads(Current)'
    BY <2>2, <2>6, <2>7, <2>8, Zenon DEF Reads
  <2>10. (req.part # "body" /\ ~parsing => NoEnd(lineBuf))'
    BY <1>1, <2>2, Zenon
  <2>11. Busy'
    BY <2>2, <2>5, <2>9, <2>10, Zenon DEF Busy, Reads, Current
  <2> QED BY <1>1, <1>3, <2>11, KeepsRequest, Zenon
<1> QED BY <1>2, <1>3

\* One more request is sent; those that were handed over stay as they are.
LEMMA SentMore ==
    ASSUME RequestInv, NEW r, sent' = Append(sent, r), UNCHANGED <<eof, processed>>
    PROVE  HandedOver' /\ Longer(sent', sent, r)
<1>1. /\ IsSeq(sent) /\ IsSeq(processed) /\ HandedOver /\ Len(sent) \in Nat /\ Len(processed) \in Nat
  BY SeqLen DEF RequestInv
<1>2. Longer(sent', sent, r)
  <2>1. Longer(Append(sent, r), sent, r)
    BY <1>1, AppendSeq, Zenon
  <2> QED BY <2>1, Zenon
<1>3. Len(sent') = Len(sent) + 1 /\ \A i \in 1..Len(sent) : sent'[i] = sent[i]
  BY <1>2 DEF Longer
<1>4. ASSUME NEW i \in 1..Len(processed)
      PROVE  /\ i <= Len(sent')
             /\ IF processed[i].cut THEN eof ELSE processed[i].request = RequestOf(sent'[i])
  <2>1. /\ i <= Len(sent)
        /\ IF processed[i].cut THEN eof ELSE processed[i].request = RequestOf(sent[i])
    BY <1>1 DEF HandedOver
  <2>2. i <= Len(sent') /\ sent'[i] = sent[i]
    BY <1>1, <1>3, <2>1
  <2> QED BY <2>1, <2>2, Zenon
<1>5. HandedOver'
  BY <1>4, Zenon DEF HandedOver
<1> QED BY <1>2, <1>5

LEMMA ClientRequestSent ==
    ASSUME RequestInv, NEW r \in Requests, ClientRequest(r) PROVE RequestInv'
<1>1. /\ open /\ mode = "http" /\ Len(responses) = Len(sent)
      /\ sent' = Append(sent, r) /\ todo' = Units(r)
      /\ UNCHANGED <<mode, open, eof, wire, lineBuf, parsing, req, responses, processed>>
  BY DEF ClientRequest
<1>2. IsSeq(sent) /\ IsSeq(processed) /\ IsSeq(responses) /\ Len(sent) \in Nat /\ Len(processed) \in Nat
  BY SeqLen DEF RequestInv
<1>3. Len(responses) = Len(processed) /\ (Idle \/ Busy)
  BY <1>1, InvServing, Zenon
<1>4. Idle
  BY <1>1, <1>2, <1>3 DEF Busy
<1>5. HandedOver' /\ Longer(sent', sent, r)
  BY <1>1, SentMore, Zenon
<1>6. Len(sent') = Len(sent) + 1 /\ IsSeq(sent') /\ sent'[Len(sent')] = r
  BY <1>5 DEF Longer
<1>7. IsSeq(Units(r)) /\ Len(Units(r)) \in Nat
  BY UnitsOpening, SeqLen DEF Opening
<1>8. Lines(Units(r), 0, todo', wire', lineBuf')
  <2> DEFINE U == Units(r)
  <2>1. IsSeq(U) /\ Len(U) \in Nat
    BY <1>7
  <2>2. IsSeq(wire) /\ IsSeq(lineBuf) /\ Len(wire) = 0 /\ Len(lineBuf) = 0
    BY <1>4 DEF Idle, Nothing
  <2> HIDE DEF U
  <2>3. Slice(lineBuf, U, 0) /\ Slice(wire, U, 0)
    BY <2>1, <2>2 DEF Slice
  <2>4. Slice(U, U, 0)
    BY <2>1 DEF Slice
  <2>5. Whole(U, 0)
    BY DEF Whole
  <2>6. 0 + Len(lineBuf) = 0 /\ 0 + Len(lineBuf) + Len(wire) = 0 /\ 0 + Len(U) = Len(U)
    BY <2>1, <2>2
  <2>7. Remain(U, 0, U, wire, lineBuf)
    BY <2>3, <2>4, <2>5, <2>6, Zenon DEF Remain
  <2>8. Lines(U, 0, U, wire, lineBuf)
    BY <2>5, <2>6, <2>7, Zenon DEF Lines
  <2>9. todo' = U
    BY <1>1 DEF U
  <2>10. Lines(U, 0, todo', wire', lineBuf')
    BY <1>1, <2>8, <2>9, Zenon
  <2> QED BY <2>10 DEF U
<1>9. Unread(r)'
  <2>1. req' = NoRequest
    BY <1>1, <1>4 DEF Idle
  <2> QED BY <1>8, <2>1, Zenon DEF Unread
<1>10. NoEnd(lineBuf')
  BY <1>1, <1>4 DEF NoEnd, Idle, Nothing
<1>11. Len(sent') = Len(processed') + 1
  BY <1>1, <1>4, <1>6, Zenon DEF Idle
<1>12. Busy'
  BY <1>6, <1>9, <1>10, <1>11, Zenon DEF Busy
<1>13. IsSeq(processed') /\ IsSeq(responses') /\ Len(responses') = Len(processed')
  BY <1>1, <1>2, <1>3, Zenon
<1> QED BY <1>5, <1>6, <1>12, <1>13, Zenon DEF RequestInv

LEMMA HandshakeSent == ASSUME RequestInv, NEW r, ClientHandshake(r) PROVE RequestInv'
<1>1. /\ mode' # "http" /\ sent = <<>> /\ sent' = <<r>>
      /\ UNCHANGED <<eof, responses, processed>>
  BY DEF ClientHandshake, Handshaking
<1>2. IsSeq(processed) /\ IsSeq(responses) /\ HandedOver /\ Len(processed) \in Nat
  BY SeqLen DEF RequestInv
<1>3. Len(sent) = 0
  BY <1>1, EmptyLen
<1>4. ~\E i \in 1..Len(processed) : TRUE
  <2> SUFFICES ASSUME NEW i \in 1..Len(processed) PROVE FALSE
    OBVIOUS
  <2>1. i <= Len(sent)
    BY <1>2 DEF HandedOver
  <2> QED BY <1>2, <1>3, <2>1
<1>5. HandedOver'
  BY <1>1, <1>4, Zenon DEF HandedOver
<1>6. IsSeq(sent')
  BY <1>1, OneUnit
<1> QED BY <1>1, <1>2, <1>5, <1>6, Zenon DEF RequestInv

\* A step that leaves everything of the requests alone.
LEMMA RequestIdles ==
    ASSUME RequestInv, UNCHANGED <<sent, processed, responses, mode, open>>, eof => eof',
           \/ ~(open /\ mode = "http")
           \/ UNCHANGED <<todo, wire, lineBuf, parsing, req>>
    PROVE  RequestInv'
<1>1. CASE ~(open /\ mode = "http")
  <2>1. ~(open' /\ mode' = "http")
    BY <1>1, Zenon
  <2> QED BY <2>1, KeepsRequest, Zenon
<1>2. CASE UNCHANGED <<todo, wire, lineBuf, parsing, req>>
  <2>1. ASSUME open, mode = "http" PROVE Idle' \/ Busy'
    <3>1. Idle \/ Busy
      BY <2>1, InvServing, Zenon
    <3>2. Idle => Idle'
      BY <1>2, Zenon DEF Idle
    <3>3. Busy => Busy'
      BY <1>2, Zenon DEF Busy, Unread, InHead, InBody
    <3> QED BY <3>1, <3>2, <3>3, Zenon
  <2> QED BY <2>1, KeepsRequest, Zenon
<1> QED BY <1>1, <1>2

-----------------------------------------------------------------------------
(* The HTTP server reads a request.                                        *)

LEMMA LinesReceived ==
    ASSUME NEW r \in Requests, Fits(r), NEW a \in Nat, Lines(Units(r), a, todo, wire, lineBuf),
           Room > 0, NEW n, n = Smaller(Room, Len(wire))
    PROVE  Lines(Units(r), a, todo, SubSeq(wire, n + 1, Len(wire)), lineBuf \o SubSeq(wire, 1, n))
<1> DEFINE U  == Units(r)
           h  == 4 * Len(r.headers) + 5
           w2 == SubSeq(wire, n + 1, Len(wire))
           l2 == lineBuf \o SubSeq(wire, 1, n)
<1>1. Shape(U, r) /\ Len(r.headers) \in Nat /\ r.body \in Nat /\ LineBuf \in Nat
  BY UnitsShape, HttpAssumption
<1>2. /\ IsSeq(U) /\ Len(U) = h + r.body /\ U[h].k = "LF"
      /\ \A b \in 1..r.body : U[h + b].k = "body"
  BY <1>1 DEF Shape
<1>3. Remain(U, a, todo, wire, lineBuf)
  BY DEF Lines
<1>4. h < LineBuf /\ h \in Nat
  BY <1>1 DEF Fits
<1> HIDE DEF U, h
<1>5. /\ Len(wire) \in Nat /\ Len(lineBuf) \in Nat
      /\ Whole(U, a + Len(lineBuf) + Len(wire))
  BY <1>3, RemainLens DEF Remain
<1>6. n \in 0..Len(wire) /\ (n = Len(wire) \/ Len(lineBuf) + n = LineBuf - 1)
  BY <1>1, <1>5 DEF Smaller, Room
<1>7. Received(U, a, todo, wire, lineBuf, w2, l2, n)
  BY <1>2, <1>3, <1>6, RemainReceived, Zenon
<1> HIDE DEF w2, l2
<1>8. Remain(U, a, todo, w2, l2) /\ Len(l2) = Len(lineBuf) + n
  BY <1>7 DEF Received
<1>9. Whole(U, a + Len(l2))
  <2>1. CASE n = Len(wire)
    <3>1. a + Len(l2) = a + Len(lineBuf) + Len(wire)
      BY <1>5, <1>8, <2>1
    <3> QED BY <1>5, <3>1, Zenon
  <2>2. CASE Len(lineBuf) + n = LineBuf - 1
    <3> SUFFICES ASSUME a + Len(l2) \in 1..Len(U) PROVE U[a + Len(l2)].k # "CR"
      BY Zenon DEF Whole
    <3> DEFINE b == a + Len(l2) - h
    <3>0. Len(l2) = LineBuf - 1
      BY <1>8, <2>2
    <3>1. b \in 0..r.body /\ a + Len(l2) = h + b
      <4>1. Len(l2) \in Nat /\ Len(l2) >= h /\ a + Len(l2) <= h + r.body
        BY <1>1, <1>2, <1>4, <3>0
      <4> QED BY <1>1, <1>4, <4>1
    <3> HIDE DEF b
    <3>2. CASE b = 0
      <4>1. h + b = h
        BY <1>4, <3>2
      <4> QED BY <1>2, <3>1, <4>1
    <3>3. CASE b # 0
      <4>1. b \in 1..r.body
        BY <1>1, <3>1, <3>3
      <4>2. U[h + b].k = "body"
        BY <1>2, <4>1
      <4> QED BY <3>1, <4>2
    <3> QED BY <3>2, <3>3
  <2> QED BY <1>6, <2>1, <2>2
<1>10. Lines(U, a, todo, w2, l2)
  BY <1>8, <1>9, Zenon DEF Lines
<1> QED BY <1>10 DEF U, w2, l2

\* What a step of the server starts from when there is something to be read.
LEMMA Reading ==
    ASSUME RequestInv, AllFit, Serving, ~Idle
    PROVE  /\ open /\ mode = "http" /\ Busy
           /\ Len(sent) = Len(processed) + 1 /\ Current \in Requests /\ Reads(Current)
           /\ Fits(Current) /\ Shape(Units(Current), Current)
           /\ Len(Current.headers) \in Nat /\ Current.body \in Nat
<1>1. open /\ mode = "http" /\ Busy
  BY InvServing, Zenon DEF Serving
<1>2. Len(sent) = Len(processed) + 1 /\ Current \in Requests /\ Reads(Current)
  BY <1>1, BusyBy, Zenon
<1> QED BY <1>1, <1>2, Being, Zenon

\* Still the same request, in another state.
LEMMA ReadsOnward ==
    ASSUME RequestInv, Serving, Len(sent) = Len(processed) + 1, Current \in Requests,
           UNCHANGED <<mode, open, eof, sent, responses, processed>>,
           \/ Unread(Current)'
           \/ \E k \in 0..Len(Current.headers) : InHead(Current, k)'
           \/ \E b \in 0..Current.body : InBody(Current, b)',
           req'.part # "body" /\ ~parsing' => NoEnd(lineBuf')
    PROVE  RequestInv'
<1>1. Current' = Current
  BY DEF Current
<1>2. Busy'
  BY <1>1, Zenon DEF Busy, Current
<1>3. open /\ mode = "http"
  BY DEF Serving
<1> QED BY <1>2, <1>3, KeepsRequest, Zenon

LEMMA Parts ==
    /\ NoRequest.part = "request" /\ NoRequest.url = FALSE
    /\ \A r, part, k, b : /\ Known(r, part, k, b).part = part /\ Known(r, part, k, b).url = TRUE
                          /\ Known(r, part, k, b).attr = Names(r, k)
                          /\ Known(r, part, k, b).method = r.method
                          /\ Known(r, part, k, b).length = LengthOf(r, k)
                          /\ Known(r, part, k, b).bodyPos = b
  BY DEF NoRequest, Known

LEMMA RecvLineReads == ASSUME RequestInv, AllFit, RecvLine PROVE RequestInv'
<1> DEFINE n == Smaller(Room, Len(wire))
<1>1. /\ Serving /\ req.part # "body" /\ Room > 0 /\ wire # <<>> /\ parsing' = TRUE
      /\ lineBuf' = lineBuf \o SubSeq(wire, 1, n) /\ wire' = SubSeq(wire, n + 1, Len(wire))
      /\ UNCHANGED <<mode, open, eof, sent, todo, req, responses, processed>>
  BY DEF RecvLine
<1>2. ~Idle
  BY <1>1, NothingThere
<1>3. /\ Len(sent) = Len(processed) + 1 /\ Current \in Requests /\ Reads(Current)
      /\ Fits(Current) /\ Len(Current.headers) \in Nat
  BY <1>1, <1>2, Reading, Zenon
<1> HIDE DEF n
<1>4. ASSUME NEW a \in Nat, Lines(Units(Current), a, todo, wire, lineBuf)
      PROVE  Lines(Units(Current), a, todo', wire', lineBuf')
  <2>1. n = Smaller(Room, Len(wire))
    BY DEF n
  <2>2. Lines(Units(Current), a, todo, SubSeq(wire, n + 1, Len(wire)), lineBuf \o SubSeq(wire, 1, n))
    BY <1>1, <1>3, <1>4, <2>1, LinesReceived, Zenon
  <2> QED BY <1>1, <2>2, Zenon
<1>5. Current' = Current
  BY <1>1 DEF Current
<1>6. ASSUME Unread(Current) PROVE Unread(Current)'
  <2>1. Lines(Units(Current), 0, todo', wire', lineBuf')
    BY <1>4, <1>6 DEF Unread
  <2> QED BY <1>1, <1>5, <1>6, <2>1, Zenon DEF Unread
<1>7. ASSUME NEW k \in 0..Len(Current.headers), InHead(Current, k) PROVE InHead(Current, k)'
  <2>1. 4 * k + 3 \in Nat
    BY <1>3
  <2>2. Lines(Units(Current), 4 * k + 3, todo', wire', lineBuf')
    BY <1>4, <1>7, <2>1, Zenon DEF InHead
  <2> QED BY <1>1, <1>5, <1>7, <2>2, Zenon DEF InHead
<1>8. ~\E b \in 0..Current.body : InBody(Current, b)
  BY <1>1, Parts DEF InBody
<1> QED BY <1>1, <1>3, <1>6, <1>7, <1>8, ReadsOnward, Zenon DEF Reads

LEMMA IncompleteLineReads == ASSUME RequestInv, AllFit, IncompleteLine PROVE RequestInv'
<1>1. /\ Serving /\ ~HasLine
      /\ UNCHANGED <<mode, open, eof, sent, todo, wire, lineBuf, req, responses, processed>>
  BY DEF IncompleteLine
<1>2. CASE Idle
  <2>1. Idle'
    BY <1>1, <1>2, Zenon DEF Idle
  <2> QED BY <1>1, <2>1, KeepsRequest, Zenon DEF Serving
<1>3. CASE ~Idle
  <2>1. /\ Len(sent) = Len(processed) + 1 /\ Current \in Requests /\ Reads(Current)
        /\ Len(Current.headers) \in Nat
    BY <1>1, <1>3, Reading, Zenon
  <2>2. Current' = Current
    BY <1>1 DEF Current
  <2>3. IsSeq(lineBuf)
    BY <2>1, Zenon DEF Reads, Unread, InHead, InBody, Lines, Remain, Slice
  <2>4. EndsAt(SelectInSeq(lineBuf, IsEnd), lineBuf)
    BY <2>3, FirstEnd, Zenon
  <2>5. NoEnd(lineBuf)
    BY <1>1, <2>4 DEF HasLine, EndsAt
  <2>6. NoEnd(lineBuf')
    BY <1>1, <2>5, Zenon
  <2>7. Unread(Current) => Unread(Current)'
    BY <1>1, <2>2, Zenon DEF Unread
  <2>8. ASSUME NEW k, InHead(Current, k) PROVE InHead(Current, k)'
    BY <1>1, <2>2, <2>8, Zenon DEF InHead
  <2>9. ASSUME NEW b, InBody(Current, b) PROVE InBody(Current, b)'
    BY <1>1, <2>2, <2>9, Zenon DEF InBody
  <2> QED BY <1>1, <2>1, <2>6, <2>7, <2>8, <2>9, ReadsOnward, Zenon DEF Reads
<1> QED BY <1>2, <1>3

LEMMA RequestLineReads == ASSUME RequestInv, AllFit, RequestLine PROVE RequestInv'
<1>1. /\ Serving /\ parsing /\ HasLine /\ req.part = "request" /\ lineBuf' = AfterLine
      /\ UNCHANGED <<eof, sent, todo, wire>>
  BY DEF RequestLine
<1>2. ~Idle
  BY <1>1, NothingThere
<1>3. /\ Len(sent) = Len(processed) + 1 /\ Current \in Requests /\ Reads(Current)
      /\ Fits(Current) /\ Shape(Units(Current), Current) /\ Len(Current.headers) \in Nat
  BY <1>1, <1>2, Reading, Zenon
<1>4. Unread(Current)
  <2>1. ~\E k \in 0..Len(Current.headers) : InHead(Current, k)
    BY <1>1, Parts DEF InHead
  <2>2. ~\E b \in 0..Current.body : InBody(Current, b)
    BY <1>1, Parts DEF InBody
  <2> QED BY <1>3, <2>1, <2>2, Zenon DEF Reads
<1> DEFINE U == Units(Current)
           r == Current
<1>5. Lines(U, 0, todo, wire, lineBuf) /\ req = NoRequest
  BY <1>4, Zenon DEF Unread
<1>6. LineIs(1)
  BY <1>3, <1>5, AtRequestLine, Zenon
<1>7. 3 <= Len(lineBuf) /\ AfterLine = SubSeq(lineBuf, 3 + 1, Len(lineBuf))
  BY <1>1, <1>6 DEF LineIs
<1>8. /\ IsSeq(U) /\ U[1].k = "request" /\ U[1].v.method = r.method /\ U[1].v.http = r.http
  BY <1>3 DEF Shape
<1> HIDE DEF U
<1>9. Slice(lineBuf, U, 0) /\ Len(lineBuf) \in Nat
  BY <1>5, SeqLen DEF Lines, Remain, Slice
<1>10. lineBuf[1] = U[1]
  <2>1. 1 \in 1..Len(lineBuf) /\ 0 + 1 = 1
    BY <1>7, <1>9
  <2>2. lineBuf[1] = U[0 + 1]
    BY <1>9, <2>1, Zenon DEF Slice
  <2> QED BY <2>1, <2>2
<1>11. Lines(U, 4 * 0 + 3, todo', wire', lineBuf')
  <2>1. 3 \in 0..Len(lineBuf) /\ 0 \in Nat /\ 0 + 3 = 4 * 0 + 3
    BY <1>7, <1>9
  <2>2. Lines(U, 0 + 3, todo, wire, SubSeq(lineBuf, 3 + 1, Len(lineBuf)))
    BY <1>5, <1>8, <2>1, LinesTaken, Zenon
  <2> QED BY <1>1, <1>7, <2>1, <2>2, Zenon
<1>12. lineBuf[1].k = "request" /\ lineBuf[1].v.method = r.method /\ lineBuf[1].v.http = r.http
  BY <1>8, <1>10, Zenon
<1>13. /\ req' = [req EXCEPT !.part = "header", !.url = TRUE, !.method = lineBuf[1].v.method,
                             !.attr = @ \cup ({"1.0"} \cap {lineBuf[1].v.http})]
       /\ UNCHANGED <<mode, open, parsing, responses, processed>>
  BY <1>12 DEF RequestLine
<1>14. req' = Known(r, "header", 0, 0)
  <2>1. Names(r, 0) = {} \cup ({"1.0"} \cap {r.http})
    BY DEF Names
  <2>2. LengthOf(r, 0) = 0
    BY DEF LengthOf
  <2>3. req' = [NoRequest EXCEPT !.part = "header", !.url = TRUE, !.method = r.method,
                                 !.attr = @ \cup ({"1.0"} \cap {r.http})]
    BY <1>5, <1>12, <1>13, Zenon
  <2> HIDE DEF r
  <2>4. req' = [part |-> "header", url |-> TRUE, method |-> r.method,
                attr |-> {} \cup ({"1.0"} \cap {r.http}), length |-> 0, bodyPos |-> 0]
    BY <2>3 DEF NoRequest
  <2> QED BY <2>1, <2>2, <2>4, Zenon DEF Known
<1>15. Current' = Current
  BY <1>1 DEF Current
<1>16. InHead(Current, 0)'
  BY <1>11, <1>14, <1>15, Zenon DEF InHead, U
<1>17. 0 \in 0..Len(Current.headers)
  BY <1>3
<1> QED BY <1>1, <1>3, <1>13, <1>16, <1>17, ReadsOnward, Zenon

LEMMA HeaderLineReads == ASSUME RequestInv, AllFit, HeaderLine PROVE RequestInv'
<1>1. /\ Serving /\ parsing /\ HasLine /\ ~EmptyLine /\ req.part = "header" /\ lineBuf' = AfterLine
      /\ UNCHANGED <<mode, open, eof, sent, todo, wire, parsing, responses, processed>>
  BY DEF HeaderLine
<1>2. ~Idle
  BY <1>1, NothingThere
<1>3. /\ Len(sent) = Len(processed) + 1 /\ Current \in Requests /\ Reads(Current)
      /\ Fits(Current) /\ Shape(Units(Current), Current) /\ Len(Current.headers) \in Nat
      /\ Current.body \in Nat
  BY <1>1, <1>2, Reading, Zenon
<1>4. PICK k \in 0..Len(Current.headers) : InHead(Current, k)
  <2>1. ~Unread(Current)
    BY <1>1, Parts DEF Unread
  <2>2. ~\E b \in 0..Current.body : InBody(Current, b)
    BY <1>1, Parts DEF InBody
  <2> QED BY <1>3, <2>1, <2>2, Zenon DEF Reads
<1> DEFINE U == Units(Current)
           r == Current
           n == Len(r.headers)
           a == 4 * k + 3
<1>5. Lines(U, a, todo, wire, lineBuf) /\ req = Known(r, "header", k, 0)
  BY <1>4, Zenon DEF InHead
<1>6. LineIs(IF k < n THEN 2 ELSE 0)
  BY <1>3, <1>5, AtHeaderLine, Zenon
<1>7. k < n
  BY <1>1, <1>6 DEF LineIs
<1>8. 4 <= Len(lineBuf) /\ AfterLine = SubSeq(lineBuf, 4 + 1, Len(lineBuf))
  BY <1>1, <1>6, <1>7 DEF LineIs
<1>9. k + 1 \in 1..n /\ k + 1 \in 0..n /\ a \in Nat /\ k \in Nat
  BY <1>3, <1>7
<1>10. IsSeq(U) /\ U[4 * (k + 1)].k = "header" /\ U[4 * (k + 1)].v = r.headers[k + 1]
  BY <1>3, <1>9 DEF Shape
<1> HIDE DEF U
<1>11. Slice(lineBuf, U, a) /\ Len(lineBuf) \in Nat
  BY <1>5, SeqLen DEF Lines, Remain, Slice
<1>12. lineBuf[1] = U[4 * (k + 1)]
  <2>1. 1 \in 1..Len(lineBuf) /\ a + 1 = 4 * (k + 1)
    BY <1>8, <1>9, <1>11
  <2>2. lineBuf[1] = U[a + 1]
    BY <1>11, <2>1, Zenon DEF Slice
  <2> QED BY <2>1, <2>2, Zenon
<1>13. Lines(U, 4 * (k + 1) + 3, todo', wire', lineBuf')
  <2>1. 4 \in 0..Len(lineBuf) /\ a + 4 = 4 * (k + 1) + 3
    BY <1>8, <1>9, <1>11
  <2>2. Lines(U, a + 4, todo, wire, SubSeq(lineBuf, 4 + 1, Len(lineBuf)))
    BY <1>5, <1>9, <1>10, <2>1, LinesTaken, Zenon
  <2> QED BY <1>1, <1>8, <2>1, <2>2, Zenon
<1>14. lineBuf[1].k = "header" /\ lineBuf[1].v = r.headers[k + 1]
  BY <1>10, <1>12, Zenon
<1> DEFINE h == r.headers[k + 1]
<1>15. req' = [req EXCEPT !.attr = @ \cup {h.name}, !.length = IF h.name = "length" THEN h.n ELSE @]
  BY <1>14 DEF HeaderLine
<1>16. req' = Known(r, "header", k + 1, 0)
  <2>1. Names(r, k + 1) = Names(r, k) \cup {h.name}
    <3>1. \A i : i \in 1..(k + 1) <=> i \in 1..k \/ i = k + 1
      BY <1>9
    <3>2. \A x : x \in {r.headers[i].name : i \in 1..(k + 1)}
                 <=> x \in {r.headers[i].name : i \in 1..k} \/ x = h.name
      BY <3>1
    <3> QED BY <3>2 DEF Names
  <2>2. LengthOf(r, k + 1) = IF h.name = "length" THEN h.n ELSE LengthOf(r, k)
    <3>1. \A i : i \in 1..(k + 1) <=> i \in 1..k \/ i = k + 1
      BY <1>9
    <3>2. h.name = "length" => h.n = r.body
      BY <1>3, <1>9 DEF Fits
    <3>3. CASE h.name = "length"
      <4>1. \E i \in 1..(k + 1) : r.headers[i].name = "length"
        BY <1>9, <3>3
      <4> QED BY <3>2, <3>3, <4>1 DEF LengthOf
    <3>4. CASE h.name # "length"
      <4>1. (\E i \in 1..(k + 1) : r.headers[i].name = "length")
            <=> \E i \in 1..k : r.headers[i].name = "length"
        BY <3>1, <3>4
      <4> QED BY <3>4, <4>1, Zenon DEF LengthOf
    <3> QED BY <3>3, <3>4
  <2> HIDE DEF r, h
  <2>3. req' = [part |-> "header", url |-> TRUE, method |-> r.method,
                attr |-> Names(r, k) \cup {h.name},
                length |-> IF h.name = "length" THEN h.n ELSE LengthOf(r, k), bodyPos |-> 0]
    BY <1>5, <1>15 DEF Known
  <2> QED BY <2>1, <2>2, <2>3, Zenon DEF Known
<1>17. Current' = Current
  BY <1>1 DEF Current
<1>18. InHead(Current, k + 1)'
  BY <1>13, <1>16, <1>17, Zenon DEF InHead, U
<1> QED BY <1>1, <1>3, <1>9, <1>18, ReadsOnward, Zenon

-----------------------------------------------------------------------------
(* The end of the head, the body, and the request handed to R.             *)

LEMMA InBodyNow ==
    ASSUME Reads(Current), req.part = "body"
    PROVE  \E b \in 0..Current.body : InBody(Current, b)
<1>1. ~Unread(Current)
  BY Parts DEF Unread
<1>2. ~\E k \in 0..Len(Current.headers) : InHead(Current, k)
  BY Parts DEF InHead
<1> QED BY <1>1, <1>2, Zenon DEF Reads

LEMMA WholeLength ==
    ASSUME NEW r, Fits(r), r.body \in Nat
    PROVE  LengthOf(r, Len(r.headers)) = r.body
  BY DEF LengthOf, Fits

\* The whole head of r is read; what is left of the buffer are units of its body.
HeadRead(r) ==
    /\ req = Known(r, "header", Len(r.headers), 0) /\ LengthOf(r, Len(r.headers)) = r.body
    /\ Remain(Units(r), 4 * Len(r.headers) + 5, todo, wire, AfterLine)

LEMMA AtEndOfHead ==
    ASSUME RequestInv, AllFit, AtEmptyLine
    PROVE  /\ Serving /\ ~Idle /\ HeadRead(Current)
<1>1. Serving /\ HasLine /\ EmptyLine
  BY DEF AtEmptyLine, EmptyLine
<1>2. ~Idle
  BY <1>1, NothingThere
<1>3. /\ Len(sent) = Len(processed) + 1 /\ Current \in Requests /\ Reads(Current)
      /\ Fits(Current) /\ Shape(Units(Current), Current) /\ Len(Current.headers) \in Nat
      /\ Current.body \in Nat
  BY <1>1, <1>2, Reading, Zenon
<1>4. ~Unread(Current)
  <2> SUFFICES ASSUME Unread(Current) PROVE FALSE
    OBVIOUS
  <2>1. LineIs(1)
    BY <1>3, AtRequestLine, Zenon DEF Unread
  <2> QED BY <1>1, <2>1 DEF LineIs
<1>5. ~\E b \in 0..Current.body : InBody(Current, b)
  <2> SUFFICES ASSUME NEW b \in 0..Current.body, InBody(Current, b) PROVE FALSE
    BY Zenon
  <2>1. IsSeq(lineBuf) /\ Len(lineBuf) = 0
    BY DEF InBody, Remain, Slice
  <2>2. EndsAt(SelectInSeq(lineBuf, IsEnd), lineBuf)
    BY <2>1, FirstEnd, Zenon
  <2> QED BY <1>1, <2>1, <2>2 DEF EndsAt, HasLine
<1>6. PICK k \in 0..Len(Current.headers) : InHead(Current, k)
  BY <1>3, <1>4, <1>5, Zenon DEF Reads
<1> DEFINE U == Units(Current)
           r == Current
           n == Len(r.headers)
           a == 4 * k + 3
<1>7. Lines(U, a, todo, wire, lineBuf) /\ req = Known(r, "header", k, 0)
  BY <1>6, Zenon DEF InHead
<1>8. LineIs(IF k < n THEN 2 ELSE 0)
  BY <1>3, <1>7, AtHeaderLine, Zenon
<1>9. ~(k < n)
  BY <1>1, <1>8 DEF LineIs
<1>10. k = n
  BY <1>3, <1>9
<1>11. 2 <= Len(lineBuf) /\ AfterLine = SubSeq(lineBuf, 2 + 1, Len(lineBuf))
  BY <1>1, <1>8, <1>9 DEF LineIs
<1>12. IsSeq(U) /\ Remain(U, a, todo, wire, lineBuf)
  BY <1>3, <1>7 DEF Shape, Lines
<1> HIDE DEF U
<1>13. Len(lineBuf) \in Nat /\ a \in Nat
  BY <1>3, <1>12, RemainLens
<1>14. Remain(U, 4 * n + 5, todo, wire, AfterLine)
  <2>1. 2 \in 0..Len(lineBuf) /\ a + 2 = 4 * n + 5
    BY <1>3, <1>10, <1>11, <1>13
  <2>2. Consumed(U, a, todo, wire, lineBuf, SubSeq(lineBuf, 2 + 1, Len(lineBuf)), 2)
    BY <1>12, <1>13, <2>1, RemainTaken, Zenon
  <2>3. Remain(U, a + 2, todo, wire, AfterLine)
    BY <1>11, <2>2, Zenon DEF Consumed
  <2> QED BY <2>1, <2>3, Zenon
<1>15. LengthOf(r, n) = r.body
  BY <1>3, WholeLength, Zenon
<1>16. HeadRead(Current)
  BY <1>7, <1>10, <1>14, <1>15, Zenon DEF HeadRead, U
<1> QED BY <1>1, <1>2, <1>16

LEMMA EndBeforeBodyReads == ASSUME RequestInv, AllFit, EndBeforeBody PROVE RequestInv'
<1>0. PICK n : n = Smaller(req.length, Len(AfterLine))
  OBVIOUS
<1> DEFINE r == Current
           U == Units(Current)
           a == 4 * Len(r.headers) + 5
<1>1. /\ AtEmptyLine /\ req.length > 0 /\ req' = [req EXCEPT !.part = "body", !.bodyPos = n]
      /\ lineBuf' = SubSeq(AfterLine, n + 1, Len(AfterLine))
      /\ UNCHANGED <<mode, open, eof, sent, todo, wire, responses, processed>>
  BY <1>0 DEF EndBeforeBody
<1>2. Serving /\ ~Idle /\ HeadRead(Current)
  BY <1>1, AtEndOfHead, Zenon
<1>3. /\ Len(sent) = Len(processed) + 1 /\ Current \in Requests
      /\ Shape(Units(Current), Current) /\ Len(Current.headers) \in Nat
      /\ Current.body \in Nat
  BY <1>2, Reading, Zenon
<1>4. /\ req = Known(r, "header", Len(r.headers), 0) /\ LengthOf(r, Len(r.headers)) = r.body
      /\ Remain(U, a, todo, wire, AfterLine)
  BY <1>2, Zenon DEF HeadRead
<1>5. IsSeq(U) /\ Len(U) = a + r.body /\ a \in Nat
  BY <1>3 DEF Shape
<1> HIDE DEF U, a
<1>6. /\ Len(AfterLine) \in Nat /\ Len(AfterLine) <= r.body
  <2>1. /\ Len(AfterLine) \in Nat /\ Len(wire) \in Nat /\ Len(todo) \in Nat
        /\ a + Len(AfterLine) + Len(wire) + Len(todo) = Len(U)
    BY <1>4, RemainLens
  <2> QED BY <1>3, <1>5, <2>1
<1>7. req.length = r.body
  BY <1>4 DEF Known
<1>8. n = Len(AfterLine)
  BY <1>0, <1>3, <1>6, <1>7 DEF Smaller
<1>9. r.body > 0 /\ n \in 0..r.body /\ n \in 0..Len(AfterLine) /\ n \in Nat
  BY <1>1, <1>6, <1>7, <1>8
<1>10. Consumed(U, a, todo, wire, AfterLine, lineBuf', n)
  <2>1. Consumed(U, a, todo, wire, AfterLine, SubSeq(AfterLine, n + 1, Len(AfterLine)), n)
    BY <1>4, <1>5, <1>9, RemainTaken, Zenon
  <2> QED BY <1>1, <2>1, Zenon
<1>11. Remain(U, a + n, todo', wire', lineBuf') /\ Len(lineBuf') = 0
  <2>1. Remain(U, a + n, todo, wire, lineBuf') /\ Len(lineBuf') = Len(AfterLine) - n
    BY <1>10 DEF Consumed
  <2>2. Len(lineBuf') = 0
    BY <1>6, <1>8, <2>1
  <2> QED BY <1>1, <2>1, <2>2, Zenon
<1>12. req' = Known(r, "body", Len(r.headers), n)
  <2> HIDE DEF r
  <2> QED BY <1>1, <1>4 DEF Known
<1>13. Current' = Current
  BY <1>1 DEF Current
<1>14. InBody(Current, n)'
  BY <1>9, <1>11, <1>12, <1>13, Zenon DEF InBody, U, a
<1>15. req'.part = "body"
  BY <1>12 DEF Known
<1> QED BY <1>1, <1>2, <1>3, <1>9, <1>14, <1>15, ReadsOnward, Zenon

LEMMA RecvBodyReads == ASSUME RequestInv, AllFit, RecvBody PROVE RequestInv'
<1>0. PICK n : n = Smaller(req.length - req.bodyPos, Len(wire))
  OBVIOUS
<1> DEFINE r == Current
           U == Units(Current)
<1>1. /\ Serving /\ req.part = "body" /\ req.bodyPos < req.length /\ wire # <<>>
      /\ req' = [req EXCEPT !.bodyPos = @ + n]
      /\ wire' = SubSeq(wire, n + 1, Len(wire)) /\ lineBuf' = <<>>
      /\ UNCHANGED <<mode, open, eof, sent, todo, responses, processed>>
  BY <1>0 DEF RecvBody
<1>2. ~Idle
  BY <1>1, NothingThere
<1>3. /\ Len(sent) = Len(processed) + 1 /\ Current \in Requests /\ Reads(Current) /\ Fits(Current)
      /\ Shape(Units(Current), Current) /\ Len(Current.headers) \in Nat
      /\ Current.body \in Nat
  BY <1>1, <1>2, Reading, Zenon
<1>4. PICK b \in 0..r.body : InBody(r, b)
  BY <1>1, <1>3, InBodyNow, Zenon
<1> DEFINE a == 4 * Len(r.headers) + 5 + b
<1>5. /\ r.body > 0 /\ req = Known(r, "body", Len(r.headers), b) /\ Len(lineBuf) = 0
      /\ Remain(U, a, todo, wire, lineBuf)
  BY <1>4, Zenon DEF InBody
<1>6. IsSeq(U) /\ a \in Nat /\ b \in Nat
  BY <1>3 DEF Shape
<1>7. req.length = r.body /\ req.bodyPos = b
  <2>1. LengthOf(r, Len(r.headers)) = r.body
    BY <1>3, WholeLength, Zenon
  <2> QED BY <1>5, <2>1 DEF Known
<1>8. Len(wire) \in Nat
  BY <1>5, RemainLens
<1>9. n \in 0..Len(wire) /\ b + n \in 0..r.body /\ n \in Nat
  BY <1>0, <1>1, <1>3, <1>7, <1>8 DEF Smaller
<1> HIDE DEF U, a
<1>10. Remain(U, a + n, todo', wire', lineBuf')
  <2>1. Remain(U, a + n, todo, SubSeq(wire, n + 1, Len(wire)), <<>>)
    BY <1>5, <1>6, <1>9, RemainBody, Zenon
  <2> QED BY <1>1, <2>1, Zenon
<1>11. req' = Known(r, "body", Len(r.headers), b + n)
  <2> HIDE DEF r
  <2> QED BY <1>1, <1>5 DEF Known
<1>12. Current' = Current
  BY <1>1 DEF Current
<1>13. Len(lineBuf') = 0
  BY <1>1, EmptyLen
<1>14. a + n = 4 * Len(r.headers) + 5 + (b + n)
  <2> DEFINE h == Len(r.headers)
  <2>1. h \in Nat /\ b \in Nat /\ n \in Nat
    BY <1>3, <1>6, <1>9
  <2>2. a = 4 * h + 5 + b
    BY DEF a
  <2> HIDE DEF h
  <2>3. a + n = 4 * h + 5 + (b + n)
    BY <2>1, <2>2
  <2> QED BY <2>3 DEF h
<1>15. InBody(Current, b + n)'
  BY <1>5, <1>10, <1>11, <1>12, <1>13, <1>14, Zenon DEF InBody, U
<1>16. req'.part = "body"
  BY <1>11 DEF Known
<1> QED BY <1>1, <1>3, <1>9, <1>15, <1>16, ReadsOnward, Zenon

\* The parts that are left when all of a request is read.
LEMMA AllRead ==
    ASSUME NEW r \in Requests, Fits(r), NEW a \in Nat, a = 4 * Len(r.headers) + 5 + r.body,
           NEW l, Remain(Units(r), a, todo, wire, l)
    PROVE  Nothing(todo, wire, l)
<1>1. Shape(Units(r), r)
  BY UnitsShape, Zenon
<1>2. Len(Units(r)) = a
  BY <1>1 DEF Shape
<1>3. /\ IsSeq(todo) /\ IsSeq(wire) /\ IsSeq(l)
      /\ Len(todo) \in Nat /\ Len(wire) \in Nat /\ Len(l) \in Nat
      /\ a + Len(l) + Len(wire) + Len(todo) = Len(Units(r))
  BY RemainLens
<1>4. Len(todo) = 0 /\ Len(wire) = 0 /\ Len(l) = 0
  BY <1>2, <1>3
<1> QED BY <1>3, <1>4, Zenon DEF Nothing

\* Finish hands over what the client sent, and gets ready for the next request.
LEMMA FinishReads ==
    ASSUME RequestInv, Serving, Current \in Requests, Len(sent) = Len(processed) + 1,
           NEW part, NEW b, b = Current.body,
           req = Known(Current, part, Len(Current.headers), b),
           NEW out, NEW close, Finish(out, close), UNCHANGED <<eof, sent, todo, wire>>,
           Nothing(todo, wire, lineBuf')
    PROVE  RequestInv'
<1> DEFINE p == [request |-> Digest, cut |-> FALSE]
           r == Current
<1>1. IsSeq(processed) /\ Len(processed) \in Nat
  BY SeqLen DEF RequestInv
<1>2. req.url /\ req.method = r.method /\ req.attr = Names(r, Len(r.headers)) /\ req.bodyPos = r.body
  BY DEF Known
<1>3. DOMAIN r.headers = 1..Len(r.headers)
  BY HttpAssumption
<1>4. Digest = RequestOf(r)
  <2>1. Names(r, Len(r.headers)) = {r.headers[i].name : i \in DOMAIN r.headers} \cup ({"1.0"} \cap {r.http})
    BY <1>3 DEF Names
  <2> QED BY <1>2, <2>1, Zenon DEF Digest, RequestOf
<1>5. processed' = Append(processed, p) /\ responses' = Append(responses, Response(out))
  BY <1>2 DEF Finish, ProcessRequest
<1>6. p.cut = FALSE /\ p.request = Digest
  OBVIOUS
<1> HIDE DEF p
<1>7. Current = sent[Len(processed) + 1] /\ Len(processed) < Len(sent)
  BY <1>1 DEF Current
<1>8. IF p.cut THEN eof ELSE p.request = RequestOf(sent[Len(processed) + 1])
  BY <1>4, <1>6, <1>7, Zenon
<1>9. ASSUME open', mode' = "http" PROVE open /\ mode = "http" /\ (Idle' \/ Busy')
  <2>1. open /\ mode = "http"
    BY DEF Serving
  <2>2. req' = NoRequest
    BY <1>9, Zenon DEF Finish, HttpClose
  <2>3. Len(sent') = Len(processed')
    <3>1. Longer(Append(processed, p), processed, p)
      BY <1>1, AppendSeq, Zenon
    <3>2. Len(processed') = Len(processed) + 1
      BY <1>5, <3>1 DEF Longer
    <3> QED BY <3>2
  <2>4. Idle'
    BY <2>2, <2>3, Zenon DEF Idle
  <2> QED BY <2>1, <2>4, Zenon
<1>10. sent' = sent /\ eof' = eof
  OBVIOUS
<1> QED BY <1>5, <1>7, <1>8, <1>9, <1>10, HandsOver, Zenon

LEMMA EndWithoutBodyReads ==
    ASSUME RequestInv, AllFit, NEW out, EndWithoutBody(out) PROVE RequestInv'
<1> DEFINE r == Current
           a == 4 * Len(r.headers) + 5
<1>1. /\ AtEmptyLine /\ req.length = 0 /\ Finish(out, FALSE) /\ lineBuf' = AfterLine
      /\ UNCHANGED <<eof, sent, todo, wire>>
  BY DEF EndWithoutBody
<1>2. Serving /\ ~Idle /\ HeadRead(Current)
  BY <1>1, AtEndOfHead, Zenon
<1>3. /\ Len(sent) = Len(processed) + 1 /\ Current \in Requests /\ Fits(Current)
      /\ Len(Current.headers) \in Nat /\ Current.body \in Nat
  BY <1>2, Reading, Zenon
<1>4. /\ req = Known(r, "header", Len(r.headers), 0) /\ LengthOf(r, Len(r.headers)) = r.body
      /\ Remain(Units(r), a, todo, wire, AfterLine)
  BY <1>2, Zenon DEF HeadRead
<1>5. r.body = 0
  BY <1>1, <1>4 DEF Known
<1>6. a \in Nat /\ a = 4 * Len(r.headers) + 5 + r.body
  BY <1>3, <1>5
<1> HIDE DEF a
<1>7. Nothing(todo, wire, lineBuf')
  <2>1. Nothing(todo, wire, AfterLine)
    BY <1>3, <1>4, <1>6, AllRead, Zenon
  <2> QED BY <1>1, <2>1, Zenon
<1> HIDE DEF r
<1>8. 0 = Current.body /\ req = Known(Current, "header", Len(Current.headers), 0)
  BY <1>4, <1>5, Zenon DEF r
<1> QED BY <1>1, <1>2, <1>3, <1>7, <1>8, FinishReads, Zenon

LEMMA BodyCompleteReads ==
    ASSUME RequestInv, AllFit, NEW out, BodyComplete(out) PROVE RequestInv'
<1> DEFINE r == Current
           a == 4 * Len(r.headers) + 5 + r.body
<1>1. /\ Serving /\ req.part = "body" /\ req.bodyPos = req.length
      /\ Finish(out, lineBuf # <<>>) /\ lineBuf' = <<>>
      /\ UNCHANGED <<eof, sent, todo, wire>>
  BY DEF BodyComplete
<1>2. ~Idle
  BY <1>1, NothingThere, Parts
<1>3. /\ Len(sent) = Len(processed) + 1 /\ Current \in Requests /\ Reads(Current) /\ Fits(Current)
      /\ Len(Current.headers) \in Nat /\ Current.body \in Nat
  BY <1>1, <1>2, Reading, Zenon
<1>4. PICK b \in 0..r.body : InBody(r, b)
  BY <1>1, <1>3, InBodyNow, Zenon
<1>5. /\ req = Known(r, "body", Len(r.headers), b)
      /\ Remain(Units(r), 4 * Len(r.headers) + 5 + b, todo, wire, lineBuf)
  BY <1>4, Zenon DEF InBody
<1>6. b = r.body
  <2>1. LengthOf(r, Len(r.headers)) = r.body
    BY <1>3, WholeLength, Zenon
  <2> QED BY <1>1, <1>5, <2>1 DEF Known
<1>7. a \in Nat /\ Remain(Units(r), a, todo, wire, lineBuf)
  <2>1. Remain(Units(r), a, todo, wire, lineBuf)
    BY <1>5, <1>6, Zenon
  <2>2. a \in Nat
    BY <1>3
  <2> QED BY <2>1, <2>2
<1>8. Nothing(todo, wire, lineBuf)
  BY <1>3, <1>7, AllRead, Zenon
<1>9. Nothing(todo, wire, lineBuf')
  BY <1>1, <1>8, EmptyLen, Zenon DEF Nothing
<1> HIDE DEF r
<1>10. b = Current.body /\ req = Known(Current, "body", Len(Current.headers), b)
  BY <1>5, <1>6, Zenon DEF r
<1> QED BY <1>1, <1>3, <1>9, <1>10, FinishReads, Zenon

\* What there is of a request is handed over when its client has closed, only: the
\* line buffer is never full without a line in it.
LEMMA RecvEndReads ==
    ASSUME RequestInv, AllFit, NEW out, RecvEnd(out) PROVE RequestInv'
<1>1. /\ Serving /\ ~parsing /\ ProcessRequest(out, TRUE) /\ ~open'
      /\ (wire = <<>> /\ eof) \/ (req.part # "body" /\ Room = 0)
      /\ UNCHANGED <<eof, sent, todo, wire, lineBuf>>
  BY DEF RecvEnd, HttpClose
<1>2. CASE ~req.url
  <2>1. UNCHANGED <<processed, responses>>
    BY <1>1, <1>2 DEF ProcessRequest
  <2> QED BY <1>1, <2>1, LeavesHttp, Zenon
<1>3. CASE req.url
  <2>1. ~Idle
    BY <1>3, NothingThere, Parts
  <2>2. /\ Len(sent) = Len(processed) + 1 /\ Current \in Requests /\ Reads(Current) /\ Fits(Current)
        /\ Len(Current.headers) \in Nat /\ Busy
    BY <1>1, <2>1, Reading, Zenon
  <2>3. eof
    <3> SUFFICES ASSUME req.part # "body", Room = 0 PROVE FALSE
      BY <1>1, Zenon
    <3>1. PICK k \in 0..Len(Current.headers) : InHead(Current, k)
      <4>1. ~Unread(Current)
        BY <1>3, Parts DEF Unread
      <4>2. ~\E b \in 0..Current.body : InBody(Current, b)
        BY Parts DEF InBody
      <4> QED BY <2>2, <4>1, <4>2, Zenon DEF Reads
    <3>2. LineIs(IF k < Len(Current.headers) THEN 2 ELSE 0)
      BY <2>2, <3>1, AtHeaderLine, Zenon DEF InHead
    <3>3. NoEnd(lineBuf)
      BY <1>1, <2>2, Zenon DEF Busy
    <3>4. Len(lineBuf) <= IF k < Len(Current.headers) THEN 2 ELSE 0
      BY <3>2, <3>3, Zenon DEF LineIs
    <3>5. Len(lineBuf) \in Nat
      BY <3>1, RemainLens DEF InHead, Lines
    <3> QED BY <3>4, <3>5, HttpAssumption DEF Room
  <2> DEFINE p == [request |-> Digest, cut |-> TRUE]
  <2>4. processed' = Append(processed, p) /\ responses' = Append(responses, Response(out))
    BY <1>1, <1>3 DEF ProcessRequest
  <2>5. p.cut = TRUE
    OBVIOUS
  <2> HIDE DEF p
  <2>6. Len(processed) < Len(sent)
    BY <2>2, SeqLen DEF RequestInv
  <2>7. IF p.cut THEN eof ELSE p.request = RequestOf(sent[Len(processed) + 1])
    BY <2>3, <2>5, Zenon
  <2>8. sent' = sent /\ eof' = eof
    BY <1>1
  <2> QED BY <1>1, <2>4, <2>6, <2>7, <2>8, HandsOver, Zenon
<1> QED BY <1>2, <1>3

LEMMA HttpServerReads == ASSUME RequestInv, AllFit, HttpServer PROVE RequestInv'
<1>1. ASSUME RejectRequest PROVE RequestInv'
  <2>1. /\ UNCHANGED <<eof, sent, processed>> /\ ~open'
        /\ responses' = Append(responses, Refusal(BadEnd))
    BY <1>1 DEF RejectRequest, Reject, HttpClose
  <2> QED BY <2>1, LeavesHttp, Zenon
<1>2. ASSUME NEW out \in Outcome, RecvEnd(out) \/ EndWithoutBody(out) \/ BodyComplete(out)
      PROVE  RequestInv'
  BY <1>2, RecvEndReads, EndWithoutBodyReads, BodyCompleteReads, Zenon
<1> QED BY <1>1, <1>2, RecvLineReads, IncompleteLineReads, RequestLineReads, HeaderLineReads,
           EndBeforeBodyReads, RecvBodyReads, Zenon DEF HttpServer

-----------------------------------------------------------------------------
(* The handshake, the upgrade and the sessions.                            *)

LEMMA HandshakeReads ==
    ASSUME RequestInv, HsRecv \/ HsLine \/ HsPartial \/ HsEnd \/ HsSwitch \/ HsOld \/ HsKey3
    PROVE  RequestInv'
<1>1. Handshaking /\ UNCHANGED <<eof, sent, processed>>
  BY DEF HsRecv, HsLine, HsPartial, HsEnd, HsSwitch, HsOld, HsKey3, HsReject, Switch
<1>2. mode' = mode \/ mode' \in {"text", "qap", "crashed", "v00"}
  BY DEF HsRecv, HsLine, HsPartial, HsEnd, HsSwitch, HsOld, HsKey3, HsReject, Switch, HttpClose, Session
<1>3. mode' # "http"
  BY <1>1, <1>2 DEF Handshaking
<1>4. responses' = responses \/ \E r : responses' = Append(responses, r)
  BY DEF HsRecv, HsLine, HsPartial, HsEnd, HsSwitch, HsOld, HsKey3, HsReject, Switch
<1> QED BY <1>1, <1>3, <1>4, LeavesHttp, Zenon

LEMMA UpgradeReads == ASSUME RequestInv, HttpUpgrade PROVE RequestInv'
<1>1. UNCHANGED <<eof, sent, processed>> /\ Switch(req.attr)
  BY DEF HttpUpgrade, Switch
<1>2. mode' \in {"text", "qap", "crashed"}
  BY <1>1 DEF Switch, Session
<1>3. responses' = responses \/ \E r : responses' = Append(responses, r)
  BY <1>1 DEF Switch
<1>4. mode' # "http"
  BY <1>2
<1> QED BY <1>1, <1>3, <1>4, LeavesHttp, Zenon

LEMMA SessionReads ==
    ASSUME RequestInv, WsRecv \/ WsFrame \/ WsBuffered \/ WsContinued \/ WsEnd
    PROVE  RequestInv'
<1>1. Speaking /\ UNCHANGED <<mode, eof, sent, processed, responses>>
  BY DEF WsRecv, WsFrame, WsBuffered, WsContinued, WsEnd, Deliver
<1>2. mode' # "http"
  BY <1>1 DEF Speaking
<1> QED BY <1>1, <1>2, LeavesHttp, Zenon

LEMMA ClientReads == ASSUME ~SplitEol, RequestInv, AllFit, Client PROVE RequestInv'
<1>1. ASSUME ClientCloses PROVE RequestInv'
  <2>1. UNCHANGED <<open, sent, processed, responses, mode, todo, wire, lineBuf, parsing, req>>
    BY <1>1 DEF ClientCloses
  <2>2. eof => eof'
    BY <1>1 DEF ClientCloses
  <2> QED BY <2>1, <2>2, RequestIdles, Zenon
<1>2. ASSUME NEW m \in Messages, ClientMessage(m) PROVE RequestInv'
  <2>1. Speaking /\ UNCHANGED <<open, mode, eof, sent, processed, responses>>
    BY <1>2 DEF ClientMessage
  <2>2. ~(open /\ mode = "http")
    BY <2>1 DEF Speaking
  <2> QED BY <2>1, <2>2, RequestIdles, Zenon
<1> QED BY <1>1, <1>2, RequestArrivesStep, ClientRequestSent, HandshakeSent, Zenon
       DEF Client, HttpClient

\* Requests that were sent stay sent, so that what holds of all held before.
LEMMA SentBefore == ASSUME IsSeq(sent), Next, AllFit' PROVE AllFit
<1>1. CASE sent' = sent
  BY <1>1, Zenon DEF AllFit
<1>2. ASSUME NEW r, sent' = Append(sent, r) PROVE AllFit
  <2>1. Len(sent) \in Nat
    BY SeqLen
  <2>2. Longer(sent', sent, r)
    <3>1. Longer(Append(sent, r), sent, r)
      BY <2>1, AppendSeq, Zenon
    <3> QED BY <1>2, <3>1, Zenon
  <2>3. Len(sent') = Len(sent) + 1 /\ \A i \in 1..Len(sent) : sent'[i] = sent[i]
    BY <2>2 DEF Longer
  <2>4. ASSUME NEW i \in 1..Len(sent) PROVE sent[i] \in Requests => Fits(sent[i])
    <3>1. i \in 1..Len(sent') /\ sent'[i] = sent[i]
      BY <2>1, <2>3
    <3>2. sent'[i] \in Requests => Fits(sent'[i])
      BY <3>1, Zenon DEF AllFit
    <3> QED BY <3>1, <3>2, Zenon
  <2> QED BY <2>4, Zenon DEF AllFit
<1>3. CASE sent = <<>>
  BY <1>3, EmptyLen DEF AllFit
<1>4. \/ sent' = sent \/ sent = <<>>
      \/ \E r : sent' = Append(sent, r)
  <2>1. CASE Client
    BY <2>1, Zenon DEF Client, HttpClient, Arrives, ClientCloses, ClientRequest, ClientHandshake, ClientMessage
  <2>2. CASE HttpServer
    BY <2>2, Zenon DEF HttpServer, RecvLine, IncompleteLine, RequestLine, HeaderLine,
       RejectRequest, EndBeforeBody, RecvBody, RecvEnd, EndWithoutBody, BodyComplete
  <2>3. CASE HsRecv \/ HsLine \/ HsPartial \/ HsEnd \/ HsSwitch \/ HsOld \/ HsKey3 \/ HttpUpgrade
    BY <2>3 DEF HsRecv, HsLine, HsPartial, HsEnd, HsSwitch, HsOld, HsKey3, HttpUpgrade
  <2>4. CASE WsRecv \/ WsFrame \/ WsBuffered \/ WsContinued \/ WsEnd
    BY <2>4 DEF WsRecv, WsFrame, WsBuffered, WsContinued, WsEnd, Deliver
  <2> QED BY <2>1, <2>2, <2>3, <2>4, Zenon DEF Next, Server
<1> QED BY <1>1, <1>2, <1>3, <1>4

LEMMA NextReads == ASSUME ~SplitEol, RequestInv, AllFit, Next PROVE RequestInv'
<1>1. ASSUME Server PROVE RequestInv'
  BY <1>1, HttpServerReads, HandshakeReads, UpgradeReads, SessionReads, Zenon DEF Server
<1> QED BY <1>1, ClientReads, Zenon DEF Next

LEMMA InvHandedOver == ASSUME RequestInv PROVE ProcessedAsSent
<1>1. HandedOver /\ DOMAIN processed = 1..Len(processed)
  BY SeqLen DEF RequestInv
<1> QED BY <1>1, Zenon DEF HandedOver, ProcessedAsSent


-----------------------------------------------------------------------------
(* The theorems.  A client may also send what does not fit, so that the    *)
(* invariant is an implication; WebInv says that sent is a sequence.       *)

LEMMA RequestsInvariant == ASSUME ~SplitEol PROVE Spec => [](AllFit => RequestInv)
<1>1. Init => (AllFit => RequestInv)
  BY InitialRequest, Zenon
<1>2. WebInv /\ (AllFit => RequestInv) /\ [Next]_vars => (AllFit => RequestInv)'
  <2> SUFFICES ASSUME WebInv, AllFit => RequestInv, [Next]_vars, AllFit' PROVE RequestInv'
    BY Zenon
  <2>1. CASE Next
    <3>1. AllFit
      BY <2>1, SentBefore, Zenon DEF WebInv
    <3> QED BY <2>1, <3>1, NextReads, Zenon
  <2>2. CASE UNCHANGED vars
    <3>1. UNCHANGED <<open, eof, sent, processed, responses, mode, todo, wire, lineBuf, parsing, req>>
      BY <2>2 DEF vars, httpVars
    <3>2. AllFit
      BY <3>1, Zenon DEF AllFit
    <3> QED BY <3>1, <3>2, RequestIdles, Zenon
  <2> QED BY <2>1, <2>2, Zenon
<1> QED BY <1>1, <1>2, Invariant, PTL DEF Spec

\* HTTP server (http_input_iteration, process_request): as long as no request of the
\* connection has a head that fills line_buf or a Content-length that is not that of its
\* body, R is handed the method, all headers and the whole body of each request that
\* was sent, in order; a request is handed over in part only when the client has closed.
THEOREM RequestsHandedOver == ASSUME ~SplitEol PROVE Spec => [](AllFit => ProcessedAsSent)
<1>1. (AllFit => RequestInv) => (AllFit => ProcessedAsSent)
  BY InvHandedOver, Zenon
<1> QED BY <1>1, RequestsInvariant, PTL

\* The same for a client that knows no other requests.
THEOREM FittingClientsServed ==
    ASSUME ~SplitEol, \A r \in Requests : Fits(r) PROVE Spec => []ProcessedAsSent
<1>1. AllFit
  BY Zenon DEF AllFit
<1>2. (AllFit => ProcessedAsSent) => ProcessedAsSent
  BY <1>1, Zenon
<1> QED BY <1>2, RequestsHandedOver, PTL
=============================================================================
