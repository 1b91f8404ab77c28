-------------------------- MODULE TcpServerProofs --------------------------
(***************************************************************************)
(* Proofs about TcpServer, for any connections, users and bounds.          *)
(***************************************************************************)
EXTENDS TcpServer, SeqLemmas, SequenceTheorems, TLAPS

-----------------------------------------------------------------------------
(* The inductive invariant.                                                 *)

\* A queue of functors holds one, holds no two alike, or has connectDestroyed() of c
\* behind every raw one of c.
Holding(q, op, c) == \E i \in 1..Len(q) : q[i].op = op /\ q[i].conn = c

Single(q, op) ==
    \A i, j \in 1..Len(q) : (q[i].op = op /\ q[j].op = op /\ q[i].conn = q[j].conn) => i = j

Covered(q, c) ==
    \A i \in 1..Len(q) : (q[i].op \in RawOps /\ q[i].conn = c) =>
       \E j \in 1..Len(q) : i < j /\ q[j].op = "destroyed" /\ q[j].conn = c

\* What loop l has still to run: the batch first, then the functors queued since.
Queue(l) == batch[l] \o pending[l]
Queued(l, op, c) == Holding(Queue(l), op, c)
ConnOps == StrongOps \cup RawOps

\* The rounds of a loop, and which loop gets which functors and channels.
RoundInv ==
    /\ \A l \in Loops : phase[l] # "functors" => batch[l] = <<>>
    /\ \A l \in Loops : phase[l] # "dispatch" => active[l] = {}
    /\ \A l \in Loops, c \in Conns : Listed(l, c) => l = connLoop
    /\ \A l \in Loops, c \in Conns : Queued(l, "remove", c) => l = "base" /\ connLoop = "io"
    /\ \A l \in Loops, c \in Conns : Queued(l, "established", c) => l = "io"
    /\ \A l \in Loops, c \in Conns, op \in ConnOps \ {"remove"} :
          Queued(l, op, c) => l = connLoop
    /\ ~poolStarted => acceptor # "listening" /\ \A c \in Conns : state[c] = None

Young(c) == state[c] \in {None, "Connecting"}

\* Before a connection is accepted nothing refers to it; until it is established
\* only the map and its connectEstablished() do.
YoungInv ==
    /\ \A c \in Conns : state[c] = None =>
          /\ c \notin connections /\ destroyedRuns[c] = 0
          /\ \A l \in Loops, op \in ConnOps : ~Queued(l, op, c)
    /\ \A c \in Conns : Young(c) =>
          /\ c \notin registered /\ c \notin taken
          /\ \A l \in Loops : ~Listed(l, c)
          /\ \A l \in Loops, op \in RawOps \cup {"remove"} : ~Queued(l, op, c)
    /\ \A c \in Conns, l \in Loops : Queued(l, "established", c) => state[c] = "Connecting"
    /\ \A l \in Loops : Single(Queue(l), "established")

\* The map still owes connectDestroyed(), or it is queued, or it has been called:
\* exactly one of them.
TokenInv ==
    /\ \A c \in Conns : c \in connections =>
          destroyedRuns[c] = 0 /\ \A l \in Loops : ~Queued(l, "destroyed", c)
    /\ \A c \in Conns, l \in Loops : Queued(l, "destroyed", c) => destroyedRuns[c] = 0
    /\ \A c \in Conns :
          (state[c] # None /\ c \notin connections /\ ~Queued(connLoop, "destroyed", c))
             => destroyedRuns[c] = 1
    /\ \A c \in Conns : state[c] = "Connecting" => c \in connections
    /\ \A l \in Loops : Single(Queue(l), "destroyed")

\* The kqueue knows only connections of the map, and the stop functor goes only
\* through them; a channel may stay in activeChannels_ after its connection has left
\* the map, but not after connectDestroyed(); one whose removal is queued is not
\* registered.
ChannelInv ==
    /\ ended = "no" => registered \subseteq connections /\ stopping \subseteq connections
    /\ \A l \in Loops, c \in Conns : Listed(l, c) => destroyedRuns[c] = 0
    /\ \A c \in Conns : Queued("base", "remove", c) => c \notin registered
    /\ (ended = "no" /\ stopChecked # None) => stopChecked \in connections /\ ~Young(stopChecked)

\* Behind a functor with the raw "this" of a connection nobody took there is its
\* connectDestroyed(), unless the map has the connection; and state_ is not
\* written after connectDestroyed().
RawInv ==
    /\ \A u \in Users : /\ holds[u] # None => holds[u] \in taken
                        /\ checked[u] # None => holds[u] # None
    /\ \A c \in Conns \ taken : c \in connections \/ \A l \in Loops : Covered(Queue(l), c)
    /\ \A c \in Conns \ taken : destroyedRuns[c] = 1 => state[c] = "Disconnected"
    /\ connLoop = "base" =>
          \A c \in Conns \ taken, l \in Loops, op \in RawOps : ~Queued(l, op, c)

ServerInv == TypeOK /\ RoundInv /\ YoungInv /\ TokenInv /\ ChannelInv /\ RawInv

-----------------------------------------------------------------------------
(* Queues of functors.                                                      *)

\* Taking the first functor.
LEMMA Popped ==
  ASSUME NEW S, NEW q \in Seq(S), q # <<>>, NEW r, r = Tail(q)
  PROVE  /\ r \in Seq(S) /\ Head(q) = q[1] /\ Head(q) \in S
         /\ \A op, c : Holding(r, op, c) => Holding(q, op, c)
         /\ \A op, c : Holding(q, op, c) =>
               Holding(r, op, c) \/ (Head(q).op = op /\ Head(q).conn = c)
         /\ Holding(q, Head(q).op, Head(q).conn)
         /\ \A op : Single(q, op) => Single(r, op)
         /\ Single(q, Head(q).op) => ~Holding(r, Head(q).op, Head(q).conn)
         /\ \A c : Covered(q, c) => Covered(r, c)
<1>0. /\ Len(q) \in Nat /\ Len(q) # 0 /\ r \in Seq(S) /\ Len(r) = Len(q) - 1
      /\ Head(q) = q[1] /\ Head(q) \in S
      /\ \A i \in 1..Len(r) : r[i] = q[i + 1]
  BY EmptySeq, LenProperties, HeadTailProperties
<1>1. \A i \in 1..Len(r) : i + 1 \in 1..Len(q) /\ r[i] = q[i + 1]
  BY <1>0
<1>2. \A i \in 1..Len(q) : i = 1 \/ (i - 1 \in 1..Len(r) /\ r[i - 1] = q[i])
  BY <1>0
<1>3. \A op, c : Holding(r, op, c) => Holding(q, op, c)
  BY <1>1 DEF Holding
<1>4. ASSUME NEW op, NEW c, Holding(q, op, c)
      PROVE  Holding(r, op, c) \/ (Head(q).op = op /\ Head(q).conn = c)
  <2>1. PICK i \in 1..Len(q) : q[i].op = op /\ q[i].conn = c
    BY <1>4 DEF Holding
  <2>2. CASE i = 1
    BY <2>1, <2>2, <1>0
  <2>3. CASE i - 1 \in 1..Len(r) /\ r[i - 1] = q[i]
    BY <2>1, <2>3 DEF Holding
  <2> QED
    BY <2>2, <2>3, <1>2
<1>5. Holding(q, Head(q).op, Head(q).conn)
  BY <1>0 DEF Holding
<1>6. ASSUME NEW op, Single(q, op) PROVE Single(r, op)
  <2> SUFFICES ASSUME NEW i \in 1..Len(r), NEW j \in 1..Len(r),
                      r[i].op = op, r[j].op = op, r[i].conn = r[j].conn
               PROVE  i = j
    BY DEF Single
  <2>1. i + 1 \in 1..Len(q) /\ j + 1 \in 1..Len(q) /\ r[i] = q[i + 1] /\ r[j] = q[j + 1]
    BY <1>1
  <2>2. i + 1 = j + 1
    BY <1>6, <2>1 DEF Single
  <2> QED
    BY <2>2
<1>7. ASSUME Single(q, Head(q).op), Holding(r, Head(q).op, Head(q).conn) PROVE FALSE
  <2>1. PICK i \in 1..Len(r) : r[i].op = Head(q).op /\ r[i].conn = Head(q).conn
    BY <1>7 DEF Holding
  <2>2. i + 1 \in 1..Len(q) /\ 1 \in 1..Len(q) /\ r[i] = q[i + 1]
    BY <1>0, <1>1
  <2>3. i + 1 = 1
    BY <1>0, <1>7, <2>1, <2>2 DEF Single
  <2> QED
    BY <2>3
<1>8. ASSUME NEW c, Covered(q, c) PROVE Covered(r, c)
  <2> SUFFICES ASSUME NEW i \in 1..Len(r), r[i].op \in RawOps, r[i].conn = c
               PROVE  \E j \in 1..Len(r) : i < j /\ r[j].op = "destroyed" /\ r[j].conn = c
    BY DEF Covered
  <2>1. i + 1 \in 1..Len(q) /\ q[i + 1].op \in RawOps /\ q[i + 1].conn = c
    BY <1>1
  <2>2. PICK j \in 1..Len(q) : i + 1 < j /\ q[j].op = "destroyed" /\ q[j].conn = c
    BY <1>8, <2>1 DEF Covered
  <2>3. j - 1 \in 1..Len(r) /\ i < j - 1 /\ r[j - 1] = q[j]
    BY <2>2, <1>0, <1>2
  <2> QED
    BY <2>2, <2>3
<1> QED
  BY <1>0, <1>3, <1>4, <1>5, <1>6, <1>7, <1>8

\* Adding a functor behind the others.
LEMMA Pushed ==
  ASSUME NEW S, NEW q \in Seq(S), NEW f \in S, NEW r, r = Append(q, f)
  PROVE  /\ r \in Seq(S)
         /\ \A op, c : Holding(q, op, c) => Holding(r, op, c)
         /\ \A op, c : Holding(r, op, c) => Holding(q, op, c) \/ (f.op = op /\ f.conn = c)
         /\ Holding(r, f.op, f.conn)
         /\ \A op : (Single(q, op) /\ (f.op = op => ~Holding(q, op, f.conn))) => Single(r, op)
         /\ \A c : (Covered(q, c) /\ ~(f.op \in RawOps /\ f.conn = c)) => Covered(r, c)
         /\ \A c : (f.op = "destroyed" /\ f.conn = c) => Covered(r, c)
<1>0. /\ Len(q) \in Nat /\ r \in Seq(S) /\ Len(r) = Len(q) + 1
      /\ \A i \in 1..Len(q) : r[i] = q[i]
      /\ r[Len(q) + 1] = f
  BY LenProperties, AppendProperties
<1>1. \A i \in 1..Len(q) : i \in 1..Len(r) /\ r[i] = q[i]
  BY <1>0
<1>2. \A i \in 1..Len(r) : (i \in 1..Len(q) /\ r[i] = q[i]) \/ (i = Len(q) + 1 /\ r[i] = f)
  BY <1>0
<1>3. \A op, c : Holding(q, op, c) => Holding(r, op, c)
  BY <1>1 DEF Holding
<1>4. ASSUME NEW op, NEW c, Holding(r, op, c)
      PROVE  Holding(q, op, c) \/ (f.op = op /\ f.conn = c)
  <2>1. PICK i \in 1..Len(r) : r[i].op = op /\ r[i].conn = c
    BY <1>4 DEF Holding
  <2> QED
    BY <2>1, <1>2 DEF Holding
<1>5. Len(q) + 1 \in 1..Len(r) /\ r[Len(q) + 1] = f
  BY <1>0
<1>6. Holding(r, f.op, f.conn)
  BY <1>5 DEF Holding
<1>7. ASSUME NEW op, Single(q, op), f.op = op => ~Holding(q, op, f.conn) PROVE Single(r, op)
  <2> SUFFICES ASSUME NEW i \in 1..Len(r), NEW j \in 1..Len(r),
                      r[i].op = op, r[j].op = op, r[i].conn = r[j].conn
               PROVE  i = j
    BY DEF Single
  <2>1. CASE i \in 1..Len(q) /\ r[i] = q[i] /\ j \in 1..Len(q) /\ r[j] = q[j]
    BY <2>1, <1>7 DEF Single
  <2>2. CASE i \in 1..Len(q) /\ r[i] = q[i] /\ j = Len(q) + 1 /\ r[j] = f
    BY <2>2, <1>7 DEF Holding
  <2>3. CASE j \in 1..Len(q) /\ r[j] = q[j] /\ i = Len(q) + 1 /\ r[i] = f
    BY <2>3, <1>7 DEF Holding
  <2> QED
    BY <2>1, <2>2, <2>3, <1>2
<1>8. ASSUME NEW c, Covered(q, c), ~(f.op \in RawOps /\ f.conn = c) PROVE Covered(r, c)
  <2> SUFFICES ASSUME NEW i \in 1..Len(r), r[i].op \in RawOps, r[i].conn = c
               PROVE  \E j \in 1..Len(r) : i < j /\ r[j].op = "destroyed" /\ r[j].conn = c
    BY DEF Covered
  <2>1. i \in 1..Len(q) /\ r[i] = q[i]
    BY <1>2, <1>8
  <2>2. PICK j \in 1..Len(q) : i < j /\ q[j].op = "destroyed" /\ q[j].conn = c
    BY <1>8, <2>1 DEF Covered
  <2> QED
    BY <2>2, <1>1
<1>9. ASSUME NEW c, f.op = "destroyed", f.conn = c PROVE Covered(r, c)
  <2> SUFFICES ASSUME NEW i \in 1..Len(r), r[i].op \in RawOps, r[i].conn = c
               PROVE  \E j \in 1..Len(r) : i < j /\ r[j].op = "destroyed" /\ r[j].conn = c
    BY DEF Covered
  <2>1. i \in 1..Len(q)
    BY <1>2, <1>9 DEF RawOps
  <2>2. i < Len(q) + 1
    BY <2>1, <1>0
  <2> QED
    BY <2>2, <1>5, <1>9
<1> QED
  BY <1>0, <1>3, <1>4, <1>6, <1>7, <1>8, <1>9

\* The same functor n times.
Rep(f, n) == [i \in 1..n |-> f]

\* Zero, one and two of them behind a queue.
LEMMA RepForms ==
  ASSUME NEW S, NEW q \in Seq(S), NEW f \in S
  PROVE  /\ q \o Rep(f, 0) = q
         /\ q \o Rep(f, 1) = Append(q, f)
         /\ q \o Rep(f, 2) = Append(Append(q, f), f)
<1>1. Rep(f, 0) = <<>>
  BY DEF Rep
<1>2. Rep(f, 1) = <<f>> /\ <<f>> \in Seq(S)
  <2>1. [i \in 1..1 |-> f] = <<f>>
    OBVIOUS
  <2> QED
    BY <2>1 DEF Rep
<1>3. Rep(f, 2) = Append(<<f>>, f)
  <2> DEFINE s == Append(<<f>>, f)
             t == Rep(f, 2)
  <2>1. <<f>> \in Seq(S) /\ Len(<<f>>) = 1 /\ <<f>>[1] = f
    BY <1>2
  <2>2. s \in Seq(S) /\ Len(s) = 2 /\ s[1] = f /\ s[2] = f
    BY <2>1, AppendProperties
  <2>3. t \in [1..2 -> S]
    BY DEF Rep
  <2>4. t \in Seq(S) /\ Len(t) = 2 /\ t[1] = f /\ t[2] = f
    BY <2>3, SeqDef, LenProperties DEF Rep
  <2> HIDE DEF s, t
  <2>5. \A i \in 1..2 : t[i] = s[i]
    BY <2>2, <2>4
  <2>6. t = s
    BY <2>2, <2>4, <2>5, SeqEqual
  <2> QED
    BY <2>6 DEF s, t
<1>4. q \o Rep(f, 0) = q
  BY <1>1, ConcatEmptySeq
<1>5. q \o <<f>> = Append(q, f)
  BY AppendIsConcat
<1>6. q \o Append(<<f>>, f) = Append(q \o <<f>>, f)
  BY <1>2, ConcatAppend
<1> QED
  BY <1>2, <1>3, <1>4, <1>5, <1>6

\* Adding a functor up to twice.
AddedTo(q, f, n, r) ==
  /\ \A op, c : Holding(q, op, c) => Holding(r, op, c)
  /\ \A op, c : Holding(r, op, c) => Holding(q, op, c) \/ (n > 0 /\ f.op = op /\ f.conn = c)
  /\ n > 0 => Holding(r, f.op, f.conn)
  /\ \A op : (Single(q, op) /\ f.op # op) => Single(r, op)
  /\ \A op : (n < 2 /\ Single(q, op) /\ ~Holding(q, op, f.conn)) => Single(r, op)
  /\ \A c : (Covered(q, c) /\ ~(f.op \in RawOps /\ f.conn = c)) => Covered(r, c)
  /\ \A c : (n > 0 /\ f.op = "destroyed" /\ f.conn = c) => Covered(r, c)

\* What is added is at the end, and behind what was queued.
LEMMA PushedRep ==
  ASSUME NEW S, NEW q \in Seq(S), NEW f \in S, NEW n \in 0..2, NEW r, r = q \o Rep(f, n)
  PROVE  r \in Seq(S) /\ AddedTo(q, f, n, r)
<1>1. CASE n = 0
  <2>1. r = q
    BY <1>1, RepForms
  <2>2. ~(n > 0)
    BY <1>1
  <2> QED
    BY <2>1, <2>2, Zenon DEF AddedTo
<1>2. CASE n = 1
  <2>1. r = Append(q, f)
    BY <1>2, RepForms
  <2>2. /\ r \in Seq(S)
        /\ \A op, c : Holding(q, op, c) => Holding(r, op, c)
        /\ \A op, c : Holding(r, op, c) => Holding(q, op, c) \/ (f.op = op /\ f.conn = c)
        /\ Holding(r, f.op, f.conn)
        /\ \A op : (Single(q, op) /\ (f.op = op => ~Holding(q, op, f.conn))) => Single(r, op)
        /\ \A c : (Covered(q, c) /\ ~(f.op \in RawOps /\ f.conn = c)) => Covered(r, c)
        /\ \A c : (f.op = "destroyed" /\ f.conn = c) => Covered(r, c)
    BY <2>1, Pushed
  <2> QED
    BY <1>2, <2>2 DEF AddedTo
<1>3. CASE n = 2
  <2> DEFINE m == Append(q, f)
  <2>1. r = Append(m, f)
    BY <1>3, RepForms
  <2>2. /\ m \in Seq(S)
        /\ \A op, c : Holding(q, op, c) => Holding(m, op, c)
        /\ \A op, c : Holding(m, op, c) => Holding(q, op, c) \/ (f.op = op /\ f.conn = c)
        /\ \A op : (Single(q, op) /\ (f.op = op => ~Holding(q, op, f.conn))) => Single(m, op)
        /\ \A c : (Covered(q, c) /\ ~(f.op \in RawOps /\ f.conn = c)) => Covered(m, c)
    BY Pushed
  <2> HIDE DEF m
  <2>3. /\ r \in Seq(S)
        /\ \A op, c : Holding(m, op, c) => Holding(r, op, c)
        /\ \A op, c : Holding(r, op, c) => Holding(m, op, c) \/ (f.op = op /\ f.conn = c)
        /\ Holding(r, f.op, f.conn)
        /\ \A op : (Single(m, op) /\ (f.op = op => ~Holding(m, op, f.conn))) => Single(r, op)
        /\ \A c : (Covered(m, c) /\ ~(f.op \in RawOps /\ f.conn = c)) => Covered(r, c)
        /\ \A c : (f.op = "destroyed" /\ f.conn = c) => Covered(r, c)
    BY <2>1, <2>2, Pushed
  <2> QED
    BY <1>3, <2>2, <2>3 DEF AddedTo
<1> QED
  BY <1>1, <1>2, <1>3

-----------------------------------------------------------------------------
(* What the steps do to the queues of the loops.                            *)

Rest(l) == batch'[l] \o pending[l]

\* Functors added behind what is left of the batch.
LEMMA QueuePushed ==
  ASSUME TypeOK, batch' \in [Loops -> Seq(Functors)],
         NEW l \in Loops, NEW f \in Functors, NEW n \in 0..2,
         pending' = [pending EXCEPT ![l] = @ \o Rep(f, n)]
  PROVE  /\ pending' \in [Loops -> Seq(Functors)]
         /\ Queue(l)' = Rest(l) \o Rep(f, n)
         /\ \A m \in Loops : m # l => Queue(m)' = Rest(m)
<1>1. /\ pending \in [Loops -> Seq(Functors)] /\ pending[l] \in Seq(Functors)
      /\ batch'[l] \in Seq(Functors)
  BY DEF TypeOK
<1>2. Rep(f, n) \in Seq(Functors)
  <2>1. Rep(f, n) \in [1..n -> Functors] /\ n \in Nat
    BY DEF Rep
  <2> QED
    BY <2>1, SeqDef
<1>3. pending[l] \o Rep(f, n) \in Seq(Functors)
  BY <1>1, <1>2, ConcatProperties
<1>4. pending' \in [Loops -> Seq(Functors)]
  BY <1>1, <1>3
<1>5. pending'[l] = pending[l] \o Rep(f, n) /\ \A m \in Loops : m # l => pending'[m] = pending[m]
  BY <1>1
<1>6. batch'[l] \o (pending[l] \o Rep(f, n)) = (batch'[l] \o pending[l]) \o Rep(f, n)
  <2> DEFINE b == batch'[l]
             p == pending[l]
             r == Rep(f, n)
  <2>1. b \in Seq(Functors) /\ p \in Seq(Functors) /\ r \in Seq(Functors)
    BY <1>1, <1>2
  <2> HIDE DEF b, p, r
  <2>2. (b \o p) \o r = b \o (p \o r)
    BY <2>1, ConcatAssociative
  <2> QED
    BY <2>2 DEF b, p, r
<1> QED
  BY <1>4, <1>5, <1>6 DEF Queue, Rest

\* The queue of a loop is a sequence of functors.
LEMMA QueueType ==
  ASSUME TypeOK, NEW l \in Loops
  PROVE  Queue(l) \in Seq(Functors)
<1>1. batch[l] \in Seq(Functors) /\ pending[l] \in Seq(Functors)
  BY DEF TypeOK
<1> QED
  BY <1>1, ConcatProperties DEF Queue

\* The functor at the head of the batch is the head of the queue.
LEMMA RestPopped ==
  ASSUME TypeOK, NEW l \in Loops, batch[l] # <<>>, PopFunctor(l)
  PROVE  /\ batch' \in [Loops -> Seq(Functors)]
         /\ Rest(l) = Tail(Queue(l)) /\ Queue(l) # <<>>
         /\ Head(Queue(l)) = Head(batch[l]) /\ Head(batch[l]) \in Functors
         /\ \A m \in Loops : m # l => Rest(m) = Queue(m)
<1>1. /\ batch \in [Loops -> Seq(Functors)]
      /\ batch[l] \in Seq(Functors) /\ pending[l] \in Seq(Functors)
  BY DEF TypeOK
<1>2. Tail(batch[l]) \in Seq(Functors) /\ Head(batch[l]) \in Functors
  BY <1>1, HeadTailProperties
<1>3. batch' = [batch EXCEPT ![l] = Tail(batch[l])]
  BY DEF PopFunctor
<1>4. batch' \in [Loops -> Seq(Functors)]
  BY <1>1, <1>2, <1>3
<1>5. batch'[l] = Tail(batch[l]) /\ \A m \in Loops : m # l => batch'[m] = batch[m]
  BY <1>1, <1>3
<1>6. /\ batch[l] \o pending[l] # <<>>
      /\ Head(batch[l] \o pending[l]) = Head(batch[l])
      /\ Tail(batch[l] \o pending[l]) = Tail(batch[l]) \o pending[l]
  BY <1>1, HeadTailConcat
<1> QED
  BY <1>2, <1>4, <1>5, <1>6 DEF Queue, Rest

\* Steps that leave the queues alone.
SameQueues ==
  /\ \A l \in Loops, op \in ConnOps, c \in Conns : Queued(l, op, c)' => Queued(l, op, c)
  /\ \A l \in Loops, op \in ConnOps, c \in Conns : Queued(l, op, c) => Queued(l, op, c)'
  /\ \A l \in Loops, op \in ConnOps : Single(Queue(l), op) => Single(Queue(l), op)'
  /\ \A l \in Loops, c \in Conns : Covered(Queue(l), c) => Covered(Queue(l), c)'

\* The queues are what the invariants see of batch and pending.
LEMMA QueuesKept ==
  ASSUME \A l \in Loops : Queue(l)' = Queue(l)
  PROVE  SameQueues
BY DEF SameQueues, Queued

\* The functor at the head of the queue of loop l is taken.
PoppedQueue(l, f) ==
  /\ \A m \in Loops, op \in ConnOps, c \in Conns : Queued(m, op, c)' => Queued(m, op, c)
  /\ \A m \in Loops, op \in ConnOps, c \in Conns :
        Queued(m, op, c) => Queued(m, op, c)' \/ (m = l /\ f.op = op /\ f.conn = c)
  /\ Queued(l, f.op, f.conn)
  /\ \A m \in Loops, op \in ConnOps : Single(Queue(m), op) => Single(Queue(m), op)'
  /\ \A m \in Loops, op \in ConnOps, c \in Conns :
        (m = l /\ f.op = op /\ f.conn = c /\ Single(Queue(m), op)) => ~Queued(m, op, c)'
  /\ \A m \in Loops, c \in Conns : Covered(Queue(m), c) => Covered(Queue(m), c)'

\* Running a functor that queues nothing does that.
LEMMA QueuePopped ==
  ASSUME TypeOK, NEW l \in Loops, batch[l] # <<>>, PopFunctor(l), UNCHANGED pending
  PROVE  PoppedQueue(l, Head(batch[l])) /\ batch' \in [Loops -> Seq(Functors)]
<1>1. /\ batch' \in [Loops -> Seq(Functors)]
      /\ Queue(l)' = Tail(Queue(l)) /\ Queue(l) # <<>>
      /\ Head(Queue(l)) = Head(batch[l]) /\ Head(batch[l]) \in Functors
      /\ \A m \in Loops : m # l => Queue(m)' = Queue(m)
  BY RestPopped DEF Rest, Queue
<1> DEFINE f == Head(batch[l])
<1>2. Queue(l) \in Seq(Functors)
  BY QueueType
<1>3. /\ \A op, c : Holding(Queue(l)', op, c) => Holding(Queue(l), op, c)
      /\ \A op, c : Holding(Queue(l), op, c) =>
            Holding(Queue(l)', op, c) \/ (f.op = op /\ f.conn = c)
      /\ Holding(Queue(l), f.op, f.conn)
      /\ \A op : Single(Queue(l), op) => Single(Queue(l)', op)
      /\ Single(Queue(l), f.op) => ~Holding(Queue(l)', f.op, f.conn)
      /\ \A c : Covered(Queue(l), c) => Covered(Queue(l)', c)
  <2> DEFINE q == Queue(l)
             r == Queue(l)'
  <2>1. q \in Seq(Functors) /\ q # <<>> /\ r = Tail(q) /\ Head(q) = f
    BY <1>1, <1>2
  <2> HIDE DEF q, r, f
  <2>2. /\ \A op, c : Holding(r, op, c) => Holding(q, op, c)
        /\ \A op, c : Holding(q, op, c) =>
              Holding(r, op, c) \/ (Head(q).op = op /\ Head(q).conn = c)
        /\ Holding(q, Head(q).op, Head(q).conn)
        /\ \A op : Single(q, op) => Single(r, op)
        /\ Single(q, Head(q).op) => ~Holding(r, Head(q).op, Head(q).conn)
        /\ \A c : Covered(q, c) => Covered(r, c)
    BY <2>1, Popped
  <2>3. /\ \A op, c : Holding(r, op, c) => Holding(q, op, c)
        /\ \A op, c : Holding(q, op, c) => Holding(r, op, c) \/ (f.op = op /\ f.conn = c)
        /\ Holding(q, f.op, f.conn)
        /\ \A op : Single(q, op) => Single(r, op)
        /\ Single(q, f.op) => ~Holding(r, f.op, f.conn)
        /\ \A c : Covered(q, c) => Covered(r, c)
    BY <2>1, <2>2
  <2> QED
    BY <2>3 DEF q, r
<1> HIDE DEF f
<1>4. ASSUME NEW m \in Loops
      PROVE  /\ \A op, c : Queued(m, op, c)' => Queued(m, op, c)
             /\ \A op, c : Queued(m, op, c) =>
                   Queued(m, op, c)' \/ (m = l /\ f.op = op /\ f.conn = c)
             /\ \A op : Single(Queue(m), op) => Single(Queue(m), op)'
             /\ \A c : Covered(Queue(m), c) => Covered(Queue(m), c)'
  <2>1. CASE m = l
    BY <2>1, <1>3 DEF Queued
  <2>2. CASE m # l
    <3>1. Queue(m)' = Queue(m)
      BY <2>2, <1>1
    <3> QED
      BY <3>1 DEF Queued
  <2> QED
    BY <2>1, <2>2
<1>5. /\ Queued(l, f.op, f.conn)
      /\ \A m \in Loops, op \in ConnOps, c \in Conns :
            (m = l /\ f.op = op /\ f.conn = c /\ Single(Queue(m), op)) => ~Queued(m, op, c)'
  BY <1>3 DEF Queued
<1>6. PoppedQueue(l, f)
  BY <1>4, <1>5 DEF PoppedQueue
<1> QED
  BY <1>1, <1>6 DEF f

\* The queues before anything is added: as they were, or (g is the functor, pl the
\* loop) without the functor that has just run.
RestOf(pl, g) ==
  \A m \in Loops :
     /\ Rest(m) \in Seq(Functors)
     /\ \A op, c : Holding(Rest(m), op, c) => Queued(m, op, c)
     /\ \A op, c : Queued(m, op, c) =>
           Holding(Rest(m), op, c) \/ (m = pl /\ g.op = op /\ g.conn = c)
     /\ \A op : Single(Queue(m), op) => Single(Rest(m), op)
     /\ \A c : Covered(Queue(m), c) => Covered(Rest(m), c)

\* No functor has run.
LEMMA RestUnpopped ==
  ASSUME TypeOK, UNCHANGED batch, NEW g
  PROVE  RestOf(None, g) /\ batch' \in [Loops -> Seq(Functors)]
<1>1. ASSUME NEW m \in Loops PROVE Rest(m) = Queue(m) /\ Queue(m) \in Seq(Functors)
  BY QueueType DEF Rest, Queue
<1>2. RestOf(None, g)
  BY <1>1 DEF RestOf, Queued
<1> QED
  BY <1>2 DEF TypeOK

\* The functor at the head of the batch of loop l has run.
LEMMA RestAfterPop ==
  ASSUME TypeOK, NEW l \in Loops, batch[l] # <<>>, PopFunctor(l)
  PROVE  RestOf(l, Head(batch[l])) /\ batch' \in [Loops -> Seq(Functors)]
<1>1. /\ batch' \in [Loops -> Seq(Functors)]
      /\ Rest(l) = Tail(Queue(l)) /\ Queue(l) # <<>>
      /\ Head(Queue(l)) = Head(batch[l]) /\ Head(batch[l]) \in Functors
      /\ \A m \in Loops : m # l => Rest(m) = Queue(m)
  BY RestPopped
<1> DEFINE f == Head(batch[l])
<1> HIDE DEF f
<1>2. ASSUME NEW m \in Loops
      PROVE  /\ Rest(m) \in Seq(Functors)
             /\ \A op, c : Holding(Rest(m), op, c) => Queued(m, op, c)
             /\ \A op, c : Queued(m, op, c) =>
                   Holding(Rest(m), op, c) \/ (m = l /\ f.op = op /\ f.conn = c)
             /\ \A op : Single(Queue(m), op) => Single(Rest(m), op)
             /\ \A c : Covered(Queue(m), c) => Covered(Rest(m), c)
  <2>0. Queue(m) \in Seq(Functors)
    BY QueueType
  <2>1. CASE m = l
    <3> DEFINE q == Queue(m)
               r == Rest(m)
    <3>1. q \in Seq(Functors) /\ q # <<>> /\ r = Tail(q) /\ Head(q) = f
      BY <1>1, <2>0, <2>1 DEF f
    <3> HIDE DEF q, r
    <3>2. /\ r \in Seq(Functors)
          /\ \A op, c : Holding(r, op, c) => Holding(q, op, c)
          /\ \A op, c : Holding(q, op, c) =>
                Holding(r, op, c) \/ (Head(q).op = op /\ Head(q).conn = c)
          /\ \A op : Single(q, op) => Single(r, op)
          /\ \A c : Covered(q, c) => Covered(r, c)
      BY <3>1, Popped
    <3>3. /\ r \in Seq(Functors)
          /\ \A op, c : Holding(r, op, c) => Holding(q, op, c)
          /\ \A op, c : Holding(q, op, c) => Holding(r, op, c) \/ (f.op = op /\ f.conn = c)
          /\ \A op : Single(q, op) => Single(r, op)
          /\ \A c : Covered(q, c) => Covered(r, c)
      BY <3>1, <3>2
    <3> QED
      BY <2>1, <3>3 DEF q, r, Queued
  <2>2. CASE m # l
    <3>1. Rest(m) = Queue(m)
      BY <2>2, <1>1
    <3> QED
      BY <3>1, <2>0 DEF Queued
  <2> QED
    BY <2>1, <2>2
<1>3. RestOf(l, f)
  BY <1>2 DEF RestOf
<1> QED
  BY <1>1, <1>3 DEF f

\* A functor f is added n times to the queue of loop l.
Added(pl, g, l, f, n) ==
  /\ \A m \in Loops, op \in ConnOps, c \in Conns :
        Queued(m, op, c) => Queued(m, op, c)' \/ (m = pl /\ g.op = op /\ g.conn = c)
  /\ \A m \in Loops, op \in ConnOps, c \in Conns :
        Queued(m, op, c)' => Queued(m, op, c) \/ (m = l /\ n > 0 /\ f.op = op /\ f.conn = c)
  /\ \A m \in Loops, op \in ConnOps, c \in Conns :
        (m = l /\ n > 0 /\ f.op = op /\ f.conn = c) => Queued(m, op, c)'
  /\ \A m \in Loops, op \in ConnOps :
        (/\ Single(Queue(m), op)
         /\ (m = l /\ f.op = op) => n < 2 /\ ~Queued(m, op, f.conn)) => Single(Queue(m), op)'
  /\ \A m \in Loops, c \in Conns :
        (Covered(Queue(m), c) /\ ~(m = l /\ f.op \in RawOps /\ f.conn = c)) => Covered(Queue(m), c)'
  /\ \A m \in Loops, c \in Conns :
        (m = l /\ n > 0 /\ f.op = "destroyed" /\ f.conn = c) => Covered(Queue(m), c)'

\* queueInLoop(), n times, does that.
LEMMA QueueAdded ==
  ASSUME TypeOK, NEW pl, NEW g, RestOf(pl, g), batch' \in [Loops -> Seq(Functors)],
         NEW l \in Loops, NEW f \in Functors, NEW n \in 0..2,
         pending' = [pending EXCEPT ![l] = @ \o Rep(f, n)]
  PROVE  Added(pl, g, l, f, n) /\ pending' \in [Loops -> Seq(Functors)]
<1>1. /\ pending' \in [Loops -> Seq(Functors)]
      /\ Queue(l)' = Rest(l) \o Rep(f, n)
      /\ \A m \in Loops : m # l => Queue(m)' = Rest(m)
  BY QueuePushed
<1>2. ASSUME NEW m \in Loops
      PROVE  /\ \A op, c : Queued(m, op, c) =>
                   Queued(m, op, c)' \/ (m = pl /\ g.op = op /\ g.conn = c)
             /\ \A op, c : Queued(m, op, c)' =>
                   Queued(m, op, c) \/ (m = l /\ n > 0 /\ f.op = op /\ f.conn = c)
             /\ \A op, c : (m = l /\ n > 0 /\ f.op = op /\ f.conn = c) => Queued(m, op, c)'
             /\ \A op : (/\ Single(Queue(m), op)
                         /\ (m = l /\ f.op = op) => n < 2 /\ ~Queued(m, op, f.conn))
                        => Single(Queue(m), op)'
             /\ \A c : (Covered(Queue(m), c) /\ ~(m = l /\ f.op \in RawOps /\ f.conn = c))
                          => Covered(Queue(m), c)'
             /\ \A c : (m = l /\ n > 0 /\ f.op = "destroyed" /\ f.conn = c)
                          => Covered(Queue(m), c)'
  <2> DEFINE q == Rest(m)
             r == Queue(m)'
  <2>0. /\ q \in Seq(Functors)
        /\ \A op, c : Holding(q, op, c) => Queued(m, op, c)
        /\ \A op, c : Queued(m, op, c) =>
              Holding(q, op, c) \/ (m = pl /\ g.op = op /\ g.conn = c)
        /\ \A op : Single(Queue(m), op) => Single(q, op)
        /\ \A c : Covered(Queue(m), c) => Covered(q, c)
    BY DEF RestOf
  <2>1. CASE m = l
    <3>1. r = q \o Rep(f, n)
      BY <1>1, <2>1
    <3>0. q \in Seq(Functors)
      BY <2>0
    <3> HIDE DEF q, r
    <3>2. AddedTo(q, f, n, r)
      BY <3>0, <3>1, PushedRep, Zenon
    <3>3. /\ \A op, c : Queued(m, op, c)' = Holding(r, op, c)
          /\ \A op : Single(Queue(m), op)' = Single(r, op)
          /\ \A c : Covered(Queue(m), c)' = Covered(r, c)
      BY DEF Queued, r
    <3> QED
      BY <2>0, <2>1, <3>2, <3>3 DEF AddedTo
  <2>2. CASE m # l
    <3>1. r = q
      BY <1>1, <2>2
    <3> HIDE DEF q
    <3> QED
      BY <2>0, <2>2, <3>1 DEF Queued
  <2> QED
    BY <2>1, <2>2
<1>3. Added(pl, g, l, f, n)
  BY <1>2 DEF Added
<1> QED
  BY <1>1, <1>3

\* The same, said of the operation and the connection: the functor gop of gc has
\* left the queue of pl, if pl is a loop, and nothing was added ...
Pops(pl, gop, gc) ==
  /\ \A m \in Loops, op \in ConnOps, c \in Conns : Queued(m, op, c)' => Queued(m, op, c)
  /\ \A m \in Loops, op \in ConnOps, c \in Conns :
        Queued(m, op, c) => Queued(m, op, c)' \/ (m = pl /\ gop = op /\ gc = c)
  /\ \A m \in Loops, op \in ConnOps : Single(Queue(m), op) => Single(Queue(m), op)'
  /\ \A m \in Loops, c \in Conns : Covered(Queue(m), c) => Covered(Queue(m), c)'

\* ... or fop of fc was added to the queue of l (once, unless it is "remove").
Adds(pl, gop, gc, l, fop, fc) ==
  /\ \A m \in Loops, op \in ConnOps, c \in Conns :
        Queued(m, op, c) => Queued(m, op, c)' \/ (m = pl /\ gop = op /\ gc = c)
  /\ \A m \in Loops, op \in ConnOps, c \in Conns :
        Queued(m, op, c)' => Queued(m, op, c) \/ (m = l /\ fop = op /\ fc = c)
  /\ \A m \in Loops, op \in ConnOps, c \in Conns :
        (m = l /\ fop = op /\ fc = c) => Queued(m, op, c)'
  /\ \A m \in Loops, op \in ConnOps :
        (/\ Single(Queue(m), op) /\ op # "remove"
         /\ (m = l /\ fop = op) => ~Queued(m, op, fc)) => Single(Queue(m), op)'
  /\ \A m \in Loops, c \in Conns :
        (Covered(Queue(m), c) /\ ~(m = l /\ fop \in RawOps /\ fc = c)) => Covered(Queue(m), c)'
  /\ \A m \in Loops, c \in Conns :
        (m = l /\ fop = "destroyed" /\ fc = c) => Covered(Queue(m), c)'

\* One functor more, or two for "remove".
LEMMA AddsOf ==
  ASSUME NEW pl, NEW g, NEW l \in Loops, NEW fop \in ConnOps, NEW fc \in Conns, NEW n \in 1..2,
         n = 2 => fop = "remove", Added(pl, g, l, F(fop, fc), n)
  PROVE  Adds(pl, g.op, g.conn, l, fop, fc)
<1>1. F(fop, fc).op = fop /\ F(fop, fc).conn = fc /\ n > 0 /\ (fop # "remove" => n < 2)
  BY DEF F
<1> DEFINE f == F(fop, fc)
<1>2. f.op = fop /\ f.conn = fc /\ n > 0 /\ (fop # "remove" => n < 2) /\ Added(pl, g, l, f, n)
  BY <1>1
<1> HIDE DEF f
<1> QED
  BY <1>2 DEF Added, Adds

\* No functor more.
LEMMA PopsOf ==
  ASSUME NEW pl, NEW g, RestOf(pl, g), UNCHANGED pending
  PROVE  Pops(pl, g.op, g.conn)
<1>1. \A m \in Loops : Queue(m)' = Rest(m)
  BY DEF Queue, Rest
<1>2. ASSUME NEW m \in Loops
      PROVE  /\ \A op, c : Queued(m, op, c)' = Holding(Rest(m), op, c)
             /\ \A op : Single(Queue(m), op)' = Single(Rest(m), op)
             /\ \A c : Covered(Queue(m), c)' = Covered(Rest(m), c)
  BY <1>1 DEF Queued
<1> QED
  BY <1>2 DEF RestOf, Pops

\* queueInLoop() of a functor of a connection.
LEMMA EnqueueEffect ==
  ASSUME TypeOK, UNCHANGED batch, NEW l \in Loops, NEW op \in ConnOps, NEW c \in Conns,
         Enqueue(l, F(op, c))
  PROVE  Adds(None, None, None, l, op, c) /\ pending' \in [Loops -> Seq(Functors)]
<1> DEFINE f == F(op, c)
<1>1. f \in Functors
  BY DEF Functors, F, ConnOps
<1>2. pending[l] \in Seq(Functors)
  BY DEF TypeOK
<1>3. pending' = [pending EXCEPT ![l] = Append(pending[l], f)]
  BY DEF Enqueue
<1> HIDE DEF f
<1>4. Append(pending[l], f) = pending[l] \o Rep(f, 1)
  BY <1>1, <1>2, RepForms
<1>5. pending' = [pending EXCEPT ![l] = @ \o Rep(f, 1)]
  BY <1>3, <1>4
<1> DEFINE g == F(None, None)
<1>6. g.op = None /\ g.conn = None
  BY DEF F
<1> HIDE DEF g
<1>7. RestOf(None, g) /\ batch' \in [Loops -> Seq(Functors)]
  BY RestUnpopped
<1>8. Added(None, g, l, f, 1) /\ pending' \in [Loops -> Seq(Functors)]
  <2>1. 1 \in 0..2
    OBVIOUS
  <2> QED
    BY <2>1, <1>1, <1>5, <1>7, QueueAdded, Zenon
<1>9. Adds(None, g.op, g.conn, l, op, c)
  BY <1>8, AddsOf DEF f
<1> QED
  BY <1>6, <1>8, <1>9

\* What Functors holds.
LEMMA FunctorFacts ==
  /\ \A f \in Functors : f.op \in ConnOps => f.conn \in Conns
  /\ \A op \in ConnOps, c \in Conns : F(op, c) \in Functors
  /\ F("stop", None) \in Functors
BY DEF Functors, F, ConnOps, StrongOps, RawOps

\* queueInLoop() of the functor of stop(): nothing changes for the connections.
LEMMA StopQueued ==
  ASSUME TypeOK, UNCHANGED batch, Enqueue("base", F("stop", None))
  PROVE  SameQueues /\ pending' \in [Loops -> Seq(Functors)]
<1> DEFINE f == F("stop", None)
           g == F(None, None)
<1>1. f \in Functors /\ f.op \notin ConnOps /\ "base" \in Loops
  BY FunctorFacts DEF F, ConnOps, StrongOps, RawOps, Loops
<1>2. pending["base"] \in Seq(Functors)
  BY DEF TypeOK, Loops
<1>3. pending' = [pending EXCEPT !["base"] = Append(pending["base"], f)]
  BY DEF Enqueue
<1> HIDE DEF f, g
<1>4. Append(pending["base"], f) = pending["base"] \o Rep(f, 1)
  BY <1>1, <1>2, RepForms
<1>5. pending' = [pending EXCEPT !["base"] = @ \o Rep(f, 1)]
  BY <1>3, <1>4
<1>7. RestOf(None, g) /\ batch' \in [Loops -> Seq(Functors)]
  BY RestUnpopped
<1>8. Added(None, g, "base", f, 1) /\ pending' \in [Loops -> Seq(Functors)]
  <2>1. 1 \in 0..2
    OBVIOUS
  <2> QED
    BY <2>1, <1>1, <1>5, <1>7, QueueAdded, Zenon
<1>9. None \notin Loops /\ f.op \notin RawOps /\ f.op # "destroyed"
  BY <1>1 DEF None, Loops, ConnOps, StrongOps
<1> QED
  BY <1>1, <1>8, <1>9 DEF Added, SameQueues

\* A functor of the batch has run and nothing was queued.
LEMMA PopEffect ==
  ASSUME TypeOK, NEW l \in Loops, batch[l] # <<>>, PopFunctor(l), UNCHANGED pending
  PROVE  /\ batch' \in [Loops -> Seq(Functors)]
         /\ \A op \in ConnOps, c \in Conns :
               (Head(batch[l]).op = op /\ Head(batch[l]).conn = c) =>
                  /\ Pops(l, op, c) /\ Queued(l, op, c)
                  /\ Single(Queue(l), op) => ~Queued(l, op, c)'
         /\ Head(batch[l]).op = "stop" => SameQueues
<1> DEFINE f == Head(batch[l])
<1>1. PoppedQueue(l, f) /\ batch' \in [Loops -> Seq(Functors)]
  BY QueuePopped
<1> HIDE DEF f
<1>2. ASSUME NEW op \in ConnOps, NEW c \in Conns, f.op = op, f.conn = c
      PROVE  /\ Pops(l, op, c) /\ Queued(l, op, c)
             /\ Single(Queue(l), op) => ~Queued(l, op, c)'
  BY <1>1, <1>2 DEF PoppedQueue, Pops
<1>3. ASSUME f.op = "stop" PROVE SameQueues
  BY <1>1, <1>3 DEF PoppedQueue, SameQueues, ConnOps, StrongOps, RawOps
<1> QED
  BY <1>1, <1>2, <1>3 DEF f

\* handleClose() asks for the removal, or removes and queues connectDestroyed().
CloseQueues(pl, gop, gc, c) ==
  /\ connLoop = "io" => connections' = connections /\ Adds(pl, gop, gc, "base", "remove", c)
  /\ connLoop = "base" =>
        /\ connections' = connections \ {c}
        /\ c \in connections => Adds(pl, gop, gc, "base", "destroyed", c)
        /\ c \notin connections => Pops(pl, gop, gc)

\* removeConnectionInLoop(): connectDestroyed() is queued once.
LEMMA RemoveEffect ==
  ASSUME TypeOK, NEW pl, NEW g, RestOf(pl, g), batch' \in [Loops -> Seq(Functors)],
         NEW c \in Conns, NEW n, RemoveConnectionInLoop(c, n), NEW l, l = connLoop
  PROVE  /\ pending' \in [Loops -> Seq(Functors)] /\ connections' = connections \ {c}
         /\ c \in connections => Adds(pl, g.op, g.conn, l, "destroyed", c)
         /\ c \notin connections => Pops(pl, g.op, g.conn)
<1> DEFINE f == F("destroyed", c)
<1>1. f \in Functors /\ "destroyed" \in ConnOps
  BY FunctorFacts DEF ConnOps, StrongOps
<1>2. /\ pending \in [Loops -> Seq(Functors)] /\ l \in Loops
      /\ pending[l] \in Seq(Functors)
  BY DEF TypeOK
<1>3. pending' = [pending EXCEPT ![l] = pending[l] \o Rep(f, DestroyCount(c, n))]
  BY DEF RemoveConnectionInLoop, DestroyLater, Rep
<1>4. connections' = connections \ {c}
  BY DEF RemoveConnectionInLoop, Erase
<1>5. CASE c \in connections
  <2>1. DestroyCount(c, n) = 1 /\ 1 \in 0..2 /\ 1 \in 1..2 /\ 1 # 2
    BY <1>5 DEF DestroyCount
  <2> HIDE DEF f
  <2>2. pending' = [pending EXCEPT ![l] = @ \o Rep(f, 1)]
    BY <2>1, <1>3
  <2>3. Added(pl, g, l, f, 1) /\ pending' \in [Loops -> Seq(Functors)]
    BY <2>1, <2>2, <1>1, <1>2, QueueAdded, Zenon
  <2>4. Adds(pl, g.op, g.conn, l, "destroyed", c)
    BY <2>1, <2>3, <1>1, <1>2, AddsOf, Zenon DEF f
  <2> QED
    BY <2>3, <2>4, <1>4, <1>5
<1>6. CASE c \notin connections
  <2>1. DestroyCount(c, n) = 0
    BY <1>6 DEF DestroyCount
  <2> HIDE DEF f
  <2>2. pending[l] \o Rep(f, 0) = pending[l]
    BY <1>1, <1>2, RepForms
  <2>3. pending' = pending
    BY <2>1, <2>2, <1>2, <1>3
  <2>4. Pops(pl, g.op, g.conn)
    BY <2>3, PopsOf
  <2> QED
    BY <2>3, <2>4, <1>2, <1>4, <1>6
<1> QED
  BY <1>5, <1>6

\* handleClose(), called n times.
LEMMA CloseEffect ==
  ASSUME TypeOK, NEW pl, NEW g, RestOf(pl, g), batch' \in [Loops -> Seq(Functors)],
         NEW c \in Conns, NEW n \in 1..2, HandleClose(c, n)
  PROVE  /\ pending' \in [Loops -> Seq(Functors)]
         /\ CloseQueues(pl, g.op, g.conn, c)
         /\ state' = [state EXCEPT ![c] = "Disconnected"]
         /\ registered' = registered \ {c}
<1>1. state' = [state EXCEPT ![c] = "Disconnected"] /\ registered' = registered \ {c}
  BY DEF HandleClose, DisableAll
<1>2. CASE connLoop = "base"
  <2>1. RemoveConnectionInLoop(c, n)
    BY <1>2 DEF HandleClose
  <2>2. /\ pending' \in [Loops -> Seq(Functors)] /\ connections' = connections \ {c}
        /\ c \in connections => Adds(pl, g.op, g.conn, "base", "destroyed", c)
        /\ c \notin connections => Pops(pl, g.op, g.conn)
    BY <2>1, <1>2, RemoveEffect, Zenon
  <2> QED
    BY <1>1, <1>2, <2>2 DEF CloseQueues
<1>3. CASE connLoop = "io"
  <2> DEFINE f == F("remove", c)
  <2>1. f \in Functors /\ "remove" \in ConnOps /\ "base" \in Loops
    BY FunctorFacts DEF ConnOps, StrongOps, Loops
  <2>2. pending' = [pending EXCEPT !["base"] = @ \o Rep(f, n)] /\ connections' = connections
    BY <1>3 DEF HandleClose, Rep
  <2>3. n \in 0..2
    OBVIOUS
  <2> HIDE DEF f
  <2>4. Added(pl, g, "base", f, n) /\ pending' \in [Loops -> Seq(Functors)]
    BY <2>1, <2>2, <2>3, QueueAdded, Zenon
  <2>5. Adds(pl, g.op, g.conn, "base", "remove", c)
    BY <2>1, <2>4, AddsOf, Zenon DEF f
  <2> QED
    BY <1>1, <1>3, <2>2, <2>4, <2>5 DEF CloseQueues
<1> QED
  BY <1>2, <1>3 DEF TypeOK, Loops

\* Init establishes the type of the state.
LEMMA TypeInit ==
  Init => TypeOK
<1> SUFFICES ASSUME Init PROVE TypeOK
  OBVIOUS
<1>1. 0 \in 0..MaxStarts /\ 0 \in 0..MaxCalls
  BY ModeAssumption DEF ModeAssumption
<1>2. <<>> \in Seq(Functors)
  OBVIOUS
<1> QED
  BY <1>1, <1>2 DEF Init, TypeOK, Loops, States, None, Ends

\* A batch that shrinks: what RunX steps share.
LEMMA PopType ==
  ASSUME TypeOK, NEW l \in Loops, batch[l] # <<>>, PopFunctor(l)
  PROVE  /\ batch' \in [Loops -> Seq(Functors)] /\ ran' \in [Loops -> SUBSET Conns]
         /\ UNCHANGED <<phase, active>>
         /\ Head(batch[l]) \in Functors
<1>1. batch' \in [Loops -> Seq(Functors)] /\ Head(batch[l]) \in Functors
  BY RestPopped
<1> DEFINE f == Head(batch[l])
<1>2. f \in Functors
  BY <1>1
<1>3. ran' = [ran EXCEPT ![l] = @ \cup (IF f.op \in StrongOps THEN {f.conn} ELSE {})]
  BY DEF PopFunctor
<1> HIDE DEF f
<1>4. f.op \in StrongOps => f.conn \in Conns
  BY <1>2, FunctorFacts DEF ConnOps
<1>5. ran' \in [Loops -> SUBSET Conns]
  BY <1>3, <1>4 DEF TypeOK
<1> QED
  BY <1>1, <1>5 DEF PopFunctor

\* Every step keeps the type of the state.
LEMMA TypeStep ==
  TypeOK /\ RawInv /\ [Next]_vars => TypeOK'
<1> SUFFICES ASSUME TypeOK, RawInv, [Next]_vars PROVE TypeOK'
  OBVIOUS
<1> USE DEF TypeOK, serverVars, connVars, loopVars, stopVars, userVars
<1>1. CASE SetIoLoopNum
  BY <1>1 DEF SetIoLoopNum, Loops, Ends
<1>2. ASSUME NEW t \in Callers, Start(t) PROVE TypeOK'
  <2>1. started' \in BOOLEAN /\ poolStarted' \in BOOLEAN
    BY <1>2, Zenon DEF Start
  <2>2. starts' \in 0..MaxStarts
    BY <1>2, ModeAssumption DEF Start, ModeAssumption
  <2>3. /\ acceptor' \in {"bound", "listening", "gone"}
        /\ ended' \in Ends
    BY <1>2 DEF Start, Ends
  <2>4. UNCHANGED <<connections, connVars, loopVars, pending, stopVars, userVars, calls>>
    BY <1>2 DEF Start
  <2> QED
    BY <2>1, <2>2, <2>3, <2>4
<1>3. CASE Stop
  <2>1. pending' \in [Loops -> Seq(Functors)]
    BY <1>3, StopQueued DEF Stop
  <2>2. started' \in BOOLEAN
    BY <1>3, Zenon DEF Stop
  <2>3. calls' \in 0..MaxCalls
    BY <1>3, ModeAssumption DEF Stop, Count, ModeAssumption
  <2> QED
    BY <1>3, <2>1, <2>2, <2>3 DEF Stop
<1>4. CASE StopOnBase
  <2>2. started' \in BOOLEAN
    BY <1>4, Zenon DEF StopOnBase
  <2>3. calls' \in 0..MaxCalls
    BY <1>4, ModeAssumption DEF StopOnBase, Count, ModeAssumption
  <2> QED
    BY <1>4, <2>2, <2>3 DEF StopOnBase, StopInLoop
<1>5. ASSUME NEW l \in Loops, NEW S \in SUBSET Events, Poll(l, S) PROVE TypeOK'
  BY <1>5 DEF Poll
<1>6. ASSUME NEW l \in Loops, NEW c \in Conns, NEW f \in Filters, DispatchEof(l, c, f)
      PROVE  TypeOK'
  <2>1. PICK n \in 1..2 : HandleClose(c, n)
    BY <1>6 DEF DispatchEof
  <2>2. UNCHANGED batch
    BY <1>6 DEF DispatchEof
  <2>3. RestOf(None, F(None, None)) /\ batch' \in [Loops -> Seq(Functors)]
    BY <2>2, RestUnpopped
  <2>4. /\ pending' \in [Loops -> Seq(Functors)]
        /\ CloseQueues(None, F(None, None).op, F(None, None).conn, c)
        /\ state' = [state EXCEPT ![c] = "Disconnected"]
        /\ registered' = registered \ {c}
    BY <2>1, <2>3, CloseEffect
  <2>5. connections' \in SUBSET Conns
    BY <2>4 DEF CloseQueues, Loops
  <2> QED
    BY <1>6, <2>4, <2>5 DEF DispatchEof, TakeActive, States
<1>7. ASSUME NEW l \in Loops, NEW c \in Conns, NEW f \in Filters, DispatchData(l, c, f)
      PROVE  TypeOK'
  BY <1>7 DEF DispatchData, TakeActive, States
<1>8. ASSUME NEW l \in Loops, NEW e \in Conns, NEW f \in Filters, DispatchForceClose(l, e, f)
      PROVE  TypeOK'
  <2>1. PICK c \in Conns, n \in 1..2 : HandleClose(c, n)
    BY <1>8, 1 \in 1..2 DEF DispatchForceClose, Reach
  <2>2. UNCHANGED batch
    BY <1>8 DEF DispatchForceClose
  <2>3. RestOf(None, F(None, None)) /\ batch' \in [Loops -> Seq(Functors)]
    BY <2>2, RestUnpopped
  <2>4. /\ pending' \in [Loops -> Seq(Functors)]
        /\ CloseQueues(None, F(None, None).op, F(None, None).conn, c)
        /\ state' = [state EXCEPT ![c] = "Disconnected"]
        /\ registered' = registered \ {c}
    BY <2>1, <2>3, CloseEffect
  <2>5. connections' \in SUBSET Conns
    BY <2>4 DEF CloseQueues, Loops
  <2> QED
    BY <1>8, <2>4, <2>5 DEF DispatchForceClose, TakeActive, States
<1>9. ASSUME NEW l \in Loops, Swap(l) PROVE TypeOK'
  <2>1. pending' \in [Loops -> Seq(Functors)] /\ batch' \in [Loops -> Seq(Functors)]
    BY <1>9 DEF Swap
  <2> QED
    BY <1>9, <2>1 DEF Swap
<1>10. ASSUME NEW l \in Loops, EndBatch(l) PROVE TypeOK'
  BY <1>10 DEF EndBatch
<1>11. ASSUME NEW c \in Conns, Accept(c) PROVE TypeOK'
  <2>1. pending' \in [Loops -> Seq(Functors)]
    BY <1>11, EnqueueEffect DEF Accept, ConnOps, StrongOps, Loops
  <2> QED
    BY <1>11, <2>1 DEF Accept, TakeActive, States, Loops
<1>12. ASSUME NEW c \in Conns, NEW f \in Filters, DispatchStop(c, f) PROVE TypeOK'
  <2>2. started' \in BOOLEAN
    BY <1>12, Zenon DEF DispatchStop
  <2>3. calls' \in 0..MaxCalls
    BY <1>12, ModeAssumption DEF DispatchStop, Count, ModeAssumption
  <2> QED
    BY <1>12, <2>2, <2>3 DEF DispatchStop, TakeActive, StopInLoop
<1>13. CASE DispatchDangling
  BY <1>13 DEF DispatchDangling, TakeActive, Ends
<1>14. CASE RunStop
  <2>1. batch["base"] # <<>> /\ PopFunctor("base") /\ "base" \in Loops
    BY <1>14 DEF RunStop, NextFunctor, Loops
  <2>2. /\ batch' \in [Loops -> Seq(Functors)] /\ ran' \in [Loops -> SUBSET Conns]
        /\ UNCHANGED <<phase, active>>
        /\ Head(batch["base"]) \in Functors
    BY <2>1, PopType
  <2> QED
    BY <1>14, <2>2 DEF RunStop, StopInLoop
<1>15. CASE RunRemove
  <2>1. batch["base"] # <<>> /\ PopFunctor("base") /\ "base" \in Loops
    BY <1>15 DEF RunRemove, NextFunctor, Loops
  <2>2. /\ batch' \in [Loops -> Seq(Functors)] /\ ran' \in [Loops -> SUBSET Conns]
        /\ UNCHANGED <<phase, active>>
        /\ Head(batch["base"]) \in Functors
    BY <2>1, PopType
  <2>3. Head(batch["base"]).conn \in Conns
    BY <1>15, <2>2, FunctorFacts DEF RunRemove, NextFunctor, ConnOps, StrongOps
  <2>4. RestOf("base", Head(batch["base"]))
    BY <2>1, RestAfterPop
  <2>5. PICK c \in Conns : c = Head(batch["base"]).conn
    BY <2>3
  <2>6. RemoveConnectionInLoop(c, 1)
    BY <1>15, <2>5 DEF RunRemove
  <2>7. pending' \in [Loops -> Seq(Functors)] /\ connections' = connections \ {c}
    BY <2>2, <2>4, <2>6, RemoveEffect
  <2> QED
    BY <1>15, <2>2, <2>7 DEF RunRemove
<1>16. ASSUME NEW c \in Conns, StopCheck(c) PROVE TypeOK'
  BY <1>16 DEF StopCheck
<1>17. CASE StopAct
  <2>1. PICK c \in Conns : c = stopChecked
    BY <1>17 DEF StopAct
  <2>2. pending' \in [Loops -> Seq(Functors)]
    BY <1>17, <2>1, EnqueueEffect DEF StopAct, ConnOps, RawOps, Loops
  <2> QED
    BY <1>17, <2>1, <2>2 DEF StopAct, States
<1>18. CASE RunEstablished
  <2>1. batch["io"] # <<>> /\ PopFunctor("io") /\ "io" \in Loops
    BY <1>18 DEF RunEstablished, NextFunctor, Loops
  <2>2. /\ batch' \in [Loops -> Seq(Functors)] /\ ran' \in [Loops -> SUBSET Conns]
        /\ UNCHANGED <<phase, active>>
        /\ Head(batch["io"]) \in Functors
    BY <2>1, PopType
  <2>3. Head(batch["io"]).conn \in Conns
    BY <1>18, <2>2, FunctorFacts DEF RunEstablished, NextFunctor, ConnOps, StrongOps
  <2> QED
    BY <1>18, <2>2, <2>3 DEF RunEstablished, States
<1>19. CASE RunDestroyed
  <2>1. batch[connLoop] # <<>> /\ PopFunctor(connLoop) /\ connLoop \in Loops
    BY <1>19 DEF RunDestroyed, NextFunctor, Loops
  <2>2. /\ batch' \in [Loops -> Seq(Functors)] /\ ran' \in [Loops -> SUBSET Conns]
        /\ UNCHANGED <<phase, active>>
        /\ Head(batch[connLoop]) \in Functors
    BY <2>1, PopType
  <2>3. Head(batch[connLoop]).conn \in Conns
    BY <1>19, <2>2, FunctorFacts DEF RunDestroyed, NextFunctor, ConnOps, StrongOps
  <2> QED
    BY <1>19, <2>2, <2>3 DEF RunDestroyed, States
<1>20. CASE RunRaw
  <2>1. batch[connLoop] # <<>> /\ PopFunctor(connLoop) /\ connLoop \in Loops
    BY <1>20 DEF RunRaw, NextFunctor, Loops
  <2>2. /\ batch' \in [Loops -> Seq(Functors)] /\ ran' \in [Loops -> SUBSET Conns]
        /\ UNCHANGED <<phase, active>>
        /\ Head(batch[connLoop]) \in Functors
    BY <2>1, PopType
  <2>3. Head(batch[connLoop]).conn \in Conns
    BY <1>20, <2>2, FunctorFacts DEF RunRaw, NextFunctor, ConnOps
  <2>4. RestOf(connLoop, Head(batch[connLoop]))
    BY <2>1, RestAfterPop
  <2>5. PICK c \in Conns : c = Head(batch[connLoop]).conn
    BY <2>3
  <2>6. /\ pending' \in [Loops -> Seq(Functors)] /\ connections' \in SUBSET Conns
        /\ state' \in [Conns -> States] /\ registered' \in SUBSET Conns
    <3>1. CASE HandleClose(c, 1)
      <4>1. PICK l, g : l = connLoop /\ g = Head(batch[connLoop])
        OBVIOUS
      <4>2. /\ pending' \in [Loops -> Seq(Functors)]
            /\ CloseQueues(l, g.op, g.conn, c)
            /\ state' = [state EXCEPT ![c] = "Disconnected"]
            /\ registered' = registered \ {c}
        BY <2>2, <2>4, <3>1, <4>1, 1 \in 1..2, CloseEffect
      <4> QED
        BY <4>2 DEF CloseQueues, Loops, States
    <3>2. CASE UNCHANGED <<state, registered, connections, pending>>
      BY <3>2
    <3> QED
      BY <1>20, <2>5, <3>1, <3>2 DEF RunRaw
  <2> QED
    BY <1>20, <2>2, <2>6 DEF RunRaw, Ends
<1>21. ASSUME NEW c \in Conns, PeerCloses(c) PROVE TypeOK'
  BY <1>21 DEF PeerCloses
<1>22. ASSUME NEW u \in Users, NEW c \in Conns, UserTakes(u, c) PROVE TypeOK'
  BY <1>22 DEF UserTakes
<1>23. ASSUME NEW u \in Users, NEW op \in RawOps, UserChecks(u, op) PROVE TypeOK'
  BY <1>23, ModeAssumption DEF UserChecks, Count, ModeAssumption
<1>24. ASSUME NEW u \in Users, UserActs(u) PROVE TypeOK'
  <2>1. PICK c \in Conns, op \in RawOps : c = holds[u] /\ op = checked[u]
    BY <1>24 DEF UserActs, RawInv
  <2>2. PICK l \in Loops : l = connLoop
    OBVIOUS
  <2>3. pending' \in [Loops -> Seq(Functors)]
    BY <1>24, <2>1, <2>2, EnqueueEffect DEF UserActs, ConnOps
  <2> QED
    BY <1>24, <2>1, <2>3 DEF UserActs, States
<1>25. ASSUME NEW u \in Users, UserDrops(u) PROVE TypeOK'
  BY <1>25 DEF UserDrops
<1>26. ASSUME NEW t \in Callers, Destroy(t) PROVE TypeOK'
  <2>1. CASE connections # {} /\ t # connLoop
    BY <1>26, <2>1 DEF Destroy, Ends
  <2>2. CASE ~(connections # {} /\ t # connLoop)
    <3>1. state' \in [Conns -> States] /\ destroyedRuns' \in [Conns -> Nat]
      <4>1. "Disconnected" \in States
        BY DEF States
      <4>2. /\ state' = [c \in Conns |->
                          IF c \in DestructorVisits THEN "Disconnected" ELSE state[c]]
            /\ destroyedRuns' = [c \in Conns |->
                          destroyedRuns[c] + IF c \in DestructorVisits THEN 1 ELSE 0]
        BY <1>26, <2>2 DEF Destroy
      <4>3. \A c \in Conns :
               destroyedRuns[c] + (IF c \in DestructorVisits THEN 1 ELSE 0) \in Nat
        OBVIOUS
      <4>4. state' \in [Conns -> States]
        BY <4>1, <4>2
      <4>5. destroyedRuns' \in [Conns -> Nat]
        BY <4>2, <4>3
      <4> QED
        BY <4>4, <4>5
    <3>2. /\ connections' \in SUBSET Conns /\ registered' \in SUBSET Conns
          /\ ended' \in Ends
      BY <1>26, <2>2 DEF Destroy, Ends
    <3> QED
      BY <1>26, <3>1, <3>2 DEF Destroy
  <2> QED
    BY <2>1, <2>2
<1>27. CASE UNCHANGED vars
  BY <1>27 DEF vars
<1> QED
  BY <1>1, <1>2, <1>3, <1>4, <1>5, <1>6, <1>7, <1>8, <1>9, <1>10, <1>11, <1>12,
     <1>13, <1>14, <1>15, <1>16, <1>17, <1>18, <1>19, <1>20, <1>21, <1>22, <1>23,
     <1>24, <1>25, <1>26, <1>27
     DEF Next, LoopStep, PollStep

-----------------------------------------------------------------------------
(* The steps and the invariants.                                            *)

\* A queue without raw functors of a connection has nothing to cover.
LEMMA NoRawCovered ==
  ASSUME NEW m, NEW c, \A op \in RawOps : ~Queued(m, op, c)
  PROVE  Covered(Queue(m), c)
BY DEF Queued, Holding, Covered

\* The same in the next state.
LEMMA NoRawCoveredNext ==
  ASSUME NEW m, NEW c, \A op \in RawOps : ~Queued(m, op, c)'
  PROVE  Covered(Queue(m), c)'
BY DEF Queued, Holding, Covered

\* The list of active channels stays ...
LEMMA ListKept ==
  ASSUME UNCHANGED active
  PROVE  \A m \in Loops, d \in Conns : Listed(m, d)' <=> Listed(m, d)
BY DEF Listed

\* ... or loses the entry the loop has got to.
LEMMA ListTaken ==
  ASSUME TypeOK, NEW l \in Loops, NEW c, NEW f, TakeActive(l, c, f)
  PROVE  /\ \A m \in Loops, d \in Conns : Listed(m, d)' => Listed(m, d)
         /\ \A m \in Loops : phase[m] # "dispatch" => active'[m] = active[m]
         /\ (c \in Conns /\ f \in Filters) => Listed(l, c)
<1>1. active \in [Loops -> SUBSET Events]
  BY DEF TypeOK
<1>2. phase[l] = "dispatch" /\ <<c, f>> \in active[l] /\ active' = [active EXCEPT ![l] = @ \ {<<c, f>>}]
  BY DEF TakeActive
<1>3. \A m \in Loops : active'[m] \subseteq active[m] /\ (m # l => active'[m] = active[m])
  BY <1>1, <1>2
<1> QED
  BY <1>2, <1>3 DEF Listed

\* handleClose() on c, by a dispatch or in a functor gop of c that has just run.
Closes(pl, gop, c) ==
  /\ CloseQueues(pl, gop, c, c)
  /\ state' = [state EXCEPT ![c] = "Disconnected"]
  /\ registered' = registered \ {c}
  /\ \A m \in Loops, d \in Conns : Listed(m, d)' => Listed(m, d)
  /\ \A m \in Loops : phase[m] # "dispatch" => active'[m] = {}
  /\ \A m \in Loops : phase[m] # "functors" => batch'[m] = <<>>
  /\ UNCHANGED <<started, poolStarted, acceptor, phase, destroyedRuns, connLoop, stopVars,
                 userVars, ended>>

\* handleClose() keeps the invariants.
LEMMA CloseKeeps ==
  ASSUME ServerInv, NEW c \in Conns, NEW pl \in Loops \cup {None}, NEW gop \in RawOps,
         Closes(pl, gop, c), ~Young(c),
         connLoop = "base" => stopping = {} /\ stopChecked = None
  PROVE  RoundInv' /\ YoungInv' /\ TokenInv' /\ ChannelInv' /\ RawInv'
<1>1. /\ TypeOK /\ RoundInv /\ YoungInv /\ TokenInv /\ ChannelInv /\ RawInv
      /\ connections \subseteq Conns /\ (connLoop = "base" \/ connLoop = "io")
  BY DEF ServerInv, TypeOK, Loops
<1>2. /\ \A d \in Conns : state'[d] = IF d = c THEN "Disconnected" ELSE state[d]
      /\ registered' = registered \ {c}
      /\ \A m \in Loops, d \in Conns : Listed(m, d)' => Listed(m, d)
      /\ \A m \in Loops : phase[m] # "dispatch" => active'[m] = {}
      /\ \A m \in Loops : phase[m] # "functors" => batch'[m] = <<>>
      /\ UNCHANGED <<poolStarted, acceptor, phase, destroyedRuns, connLoop, stopping,
                     stopChecked, holds, taken, checked, ended>>
  BY <1>1 DEF Closes, TypeOK, stopVars, userVars
<1>3. CloseQueues(pl, gop, c, c)
  BY DEF Closes
<1>4. state[c] # None /\ state[c] # "Connecting" /\ c \in Conns
  BY DEF Young
<1>5. /\ "remove" \in ConnOps /\ "destroyed" \in ConnOps /\ "established" \in ConnOps
      /\ "remove" \notin RawOps /\ "destroyed" \notin RawOps /\ "established" \notin RawOps
      /\ RawOps \subseteq ConnOps /\ "base" \in Loops /\ "io" \in Loops
  BY DEF ConnOps, StrongOps, RawOps, Loops
<1>6. CASE connLoop = "io"
  <2>1. connections' = connections /\ Adds(pl, gop, c, "base", "remove", c)
    BY <1>3, <1>6 DEF CloseQueues
  <2>2. RoundInv'
    BY <1>1, <1>2, <1>4, <1>5, <1>6, <2>1 DEF RoundInv, Adds, None
  <2>3. YoungInv'
    BY <1>1, <1>2, <1>4, <1>5, <1>6, <2>1 DEF YoungInv, Adds, Young, None
  <2>4. TokenInv'
    BY <1>1, <1>2, <1>4, <1>5, <1>6, <2>1 DEF TokenInv, Adds, None
  <2>5. ChannelInv'
    BY <1>1, <1>2, <1>4, <1>5, <1>6, <2>1 DEF ChannelInv, Adds, Young, None
  <2>6. RawInv'
    BY <1>1, <1>2, <1>4, <1>5, <1>6, <2>1 DEF RawInv, Adds, None
  <2> QED
    BY <2>2, <2>3, <2>4, <2>5, <2>6
<1>7. CASE connLoop = "base" /\ c \in connections
  <2>1. connections' = connections \ {c} /\ Adds(pl, gop, c, "base", "destroyed", c)
    BY <1>3, <1>7 DEF CloseQueues
  <2>2. RoundInv'
    BY <1>1, <1>2, <1>4, <1>5, <1>7, <2>1 DEF RoundInv, Adds, None
  <2>3. YoungInv'
    BY <1>1, <1>2, <1>4, <1>5, <1>7, <2>1 DEF YoungInv, Adds, Young, None
  <2>4. TokenInv'
    BY <1>1, <1>2, <1>4, <1>5, <1>7, <2>1 DEF TokenInv, Adds, None
  <2>5. ChannelInv'
    BY <1>1, <1>2, <1>4, <1>5, <1>7, <2>1 DEF ChannelInv, Adds, Young, None
  <2>6. RawInv'
    <3>1. \A d \in Conns \ taken, m \in Loops, op \in RawOps : ~Queued(m, op, d)'
      BY <1>1, <1>5, <1>7, <2>1 DEF RawInv, Adds
    <3>2. \A d \in Conns \ taken, m \in Loops : Covered(Queue(m), d)'
      BY <3>1, NoRawCoveredNext
    <3> QED
      BY <1>1, <1>2, <1>4, <1>5, <1>7, <3>1, <3>2 DEF RawInv, None
  <2> QED
    BY <2>2, <2>3, <2>4, <2>5, <2>6
<1>8. CASE connLoop = "base" /\ c \notin connections
  <2>1. connections' = connections /\ Pops(pl, gop, c)
    BY <1>3, <1>8 DEF CloseQueues
  <2>2. RoundInv'
    BY <1>1, <1>2, <1>4, <1>5, <1>8, <2>1 DEF RoundInv, Pops, None
  <2>3. YoungInv'
    BY <1>1, <1>2, <1>4, <1>5, <1>8, <2>1 DEF YoungInv, Pops, Young, None
  <2>4. TokenInv'
    BY <1>1, <1>2, <1>4, <1>5, <1>8, <2>1 DEF TokenInv, Pops, None
  <2>5. ChannelInv'
    BY <1>1, <1>2, <1>4, <1>5, <1>8, <2>1 DEF ChannelInv, Pops, Young, None
  <2>6. RawInv'
    BY <1>1, <1>2, <1>4, <1>5, <1>8, <2>1 DEF RawInv, Pops, None
  <2> QED
    BY <2>2, <2>3, <2>4, <2>5, <2>6
<1> QED
  BY <1>1, <1>6, <1>7, <1>8

\* Steps that queue, remove and register nothing: they may take or drop references,
\* shut down connections of the map, and take channels that are registered.
Quiet ==
  /\ SameQueues
  /\ UNCHANGED <<connections, registered, destroyedRuns, connLoop>>
  /\ \A d \in Conns : \/ state'[d] = state[d]
                      \/ (state'[d] = "Disconnecting" /\ destroyedRuns[d] = 0 /\ ~Young(d))
  /\ taken \subseteq taken' /\ \A d \in taken' \ taken : d \in Conns /\ ~Young(d)
  /\ \A m \in Loops : /\ phase'[m] # "functors" => batch'[m] = <<>>
                      /\ phase'[m] # "dispatch" => active'[m] = {}
  /\ \A m \in Loops, d \in Conns : Listed(m, d)' =>
        Listed(m, d) \/ (ended = "no" /\ m = connLoop /\ d \in registered)
  /\ ~poolStarted' => ~poolStarted /\ acceptor' # "listening"
  /\ ended' = "no" => ended = "no" /\ stopping' \subseteq connections
  /\ (ended' = "no" /\ stopChecked' # None) =>
        /\ stopChecked' \in connections
        /\ state[stopChecked'] \notin {None, "Connecting"}
  /\ \A u \in Users : /\ holds'[u] # None => holds'[u] \in taken'
                      /\ checked'[u] # None => holds'[u] # None

\* Such steps keep the invariants.
LEMMA QuietKeeps ==
  ASSUME ServerInv, Quiet
  PROVE  RoundInv' /\ YoungInv' /\ TokenInv' /\ ChannelInv' /\ RawInv'
<1>1. /\ TypeOK /\ RoundInv /\ YoungInv /\ TokenInv /\ ChannelInv /\ RawInv
      /\ connections \subseteq Conns /\ registered \subseteq Conns /\ taken \subseteq Conns
      /\ connLoop \in Loops /\ Listener \notin Conns /\ None \notin Conns
  BY ModeAssumption DEF ServerInv, TypeOK, ModeAssumption, Listener, None
<1>2. /\ "remove" \in ConnOps /\ "destroyed" \in ConnOps /\ "established" \in ConnOps
      /\ RawOps \subseteq ConnOps /\ "base" \in Loops /\ "io" \in Loops
  BY DEF ConnOps, StrongOps, RawOps, Loops
<1>3. /\ \A d \in Conns : (state'[d] = None <=> state[d] = None)
      /\ \A d \in Conns : (state'[d] = "Connecting" <=> state[d] = "Connecting")
      /\ \A d \in Conns : Young(d)' => Young(d)
  BY DEF Quiet, Young, None
<1>4. RoundInv'
  <2>1. \A m \in Loops, d \in Conns : Listed(m, d)' => m = connLoop
    BY <1>1 DEF RoundInv, Quiet
  <2> QED
    BY <1>1, <1>2, <1>3, <2>1 DEF RoundInv, Quiet, SameQueues
<1>5. YoungInv'
  <2>1. \A d \in Conns, m \in Loops : Young(d) => ~Listed(m, d)' /\ d \notin taken'
    BY <1>1 DEF YoungInv, Quiet
  <2> QED
    BY <1>1, <1>2, <1>3, <2>1 DEF YoungInv, Quiet, SameQueues
<1>6. TokenInv'
  BY <1>1, <1>2, <1>3 DEF TokenInv, Quiet, SameQueues
<1>7. ChannelInv'
  <2>1. \A m \in Loops, d \in Conns : Listed(m, d)' => destroyedRuns[d] = 0
    BY <1>1 DEF ChannelInv, TokenInv, Quiet
  <2>2. \A d \in Conns : Queued("base", "remove", d) => d \notin registered
    BY <1>1 DEF ChannelInv
  <2>3. (ended' = "no" /\ stopChecked' # None) => ~Young(stopChecked)'
    BY <1>1, <1>3 DEF Quiet, Young
  <2> QED
    BY <1>1, <1>2, <2>1, <2>2, <2>3 DEF ChannelInv, Quiet, SameQueues
<1>8. RawInv'
  <2>1. \A d \in Conns \ taken' : destroyedRuns'[d] = 1 => state'[d] = "Disconnected"
    BY <1>1 DEF RawInv, TokenInv, Quiet
  <2> QED
    BY <1>1, <1>2, <2>1 DEF RawInv, Quiet, SameQueues
<1> QED
  BY <1>4, <1>5, <1>6, <1>7, <1>8

\* The queue of every loop is the same.
LEMMA SwapQueues ==
  ASSUME TypeOK, NEW l \in Loops, batch[l] = <<>>,
         batch' = [batch EXCEPT ![l] = pending[l]], pending' = [pending EXCEPT ![l] = <<>>]
  PROVE  SameQueues
<1>1. ASSUME NEW m \in Loops PROVE Queue(m)' = Queue(m)
  <2>1. CASE m = l
    <3>1. batch'[m] = pending[m] /\ pending'[m] = <<>> /\ batch[m] = <<>>
          /\ pending[m] \in Seq(Functors)
      BY <2>1 DEF TypeOK
    <3>2. pending[m] \o <<>> = pending[m] /\ <<>> \o pending[m] = pending[m]
      BY <3>1, ConcatEmptySeq
    <3> QED
      BY <3>1, <3>2 DEF Queue
  <2>2. CASE m # l
    BY <2>2 DEF TypeOK, Queue
  <2> QED
    BY <2>1, <2>2
<1> QED
  BY <1>1, QueuesKept

\* Neither batch nor pending changes.
LEMMA IdleQueues ==
  ASSUME UNCHANGED <<batch, pending>>
  PROVE  SameQueues
<1>1. \A m \in Loops : Queue(m)' = Queue(m)
  BY DEF Queue
<1> QED
  BY <1>1, QueuesKept

\* What the invariants say of the parts that those steps change.
LEMMA StateFacts ==
  ASSUME ServerInv
  PROVE  /\ TypeOK /\ connections \subseteq Conns /\ registered \subseteq Conns
         /\ Listener \notin Conns /\ None \notin Conns /\ connLoop \in Loops
         /\ \A m \in Loops : /\ phase[m] # "functors" => batch[m] = <<>>
                             /\ phase[m] # "dispatch" => active[m] = {}
         /\ \A d \in Conns, m \in Loops :
               Listed(m, d) => ~Young(d) /\ m = connLoop /\ destroyedRuns[d] = 0
         /\ \A d \in registered : ~Young(d)
         /\ \A d \in connections : destroyedRuns[d] = 0
         /\ ~poolStarted => acceptor # "listening"
         /\ ended = "no" => registered \subseteq connections /\ stopping \subseteq connections
         /\ (ended = "no" /\ stopChecked # None) =>
               stopChecked \in connections /\ ~Young(stopChecked)
         /\ \A u \in Users : /\ holds[u] # None => holds[u] \in taken
                             /\ checked[u] # None => holds[u] # None
<1>1. /\ TypeOK /\ connections \subseteq Conns /\ registered \subseteq Conns
      /\ Listener \notin Conns /\ None \notin Conns /\ connLoop \in Loops
  BY ModeAssumption DEF ServerInv, TypeOK, ModeAssumption, Listener, None
<1>2. /\ \A m \in Loops : /\ phase[m] # "functors" => batch[m] = <<>>
                          /\ phase[m] # "dispatch" => active[m] = {}
      /\ ~poolStarted => acceptor # "listening"
  BY DEF ServerInv, RoundInv
<1>3. /\ \A d \in Conns, m \in Loops :
               Listed(m, d) => ~Young(d) /\ m = connLoop /\ destroyedRuns[d] = 0
      /\ \A d \in registered : ~Young(d)
      /\ \A d \in connections : destroyedRuns[d] = 0
  BY <1>1 DEF ServerInv, YoungInv, RoundInv, ChannelInv, TokenInv
<1>4. /\ ended = "no" => registered \subseteq connections /\ stopping \subseteq connections
      /\ (ended = "no" /\ stopChecked # None) =>
            stopChecked \in connections /\ ~Young(stopChecked)
  BY DEF ServerInv, ChannelInv
<1>5. \A u \in Users : /\ holds[u] # None => holds[u] \in taken
                       /\ checked[u] # None => holds[u] # None
  BY DEF ServerInv, RawInv
<1> QED
  BY <1>1, <1>2, <1>3, <1>4, <1>5

\* The steps that are quiet.
QuietNext ==
  \/ \E t \in Callers : Start(t)
  \/ SetIoLoopNum /\ poolStarted
  \/ Stop
  \/ StopOnBase
  \/ \E l \in Loops, S \in SUBSET Events : Poll(l, S)
  \/ \E l \in Loops, c \in Conns, f \in Filters : DispatchData(l, c, f)
  \/ \E c \in Conns, f \in Filters : DispatchStop(c, f)
  \/ DispatchDangling
  \/ \E l \in Loops : Swap(l)
  \/ \E l \in Loops : EndBatch(l)
  \/ RunStop
  \/ \E c \in Conns : StopCheck(c)
  \/ StopAct /\ connLoop = "base"
  \/ \E c \in Conns : PeerCloses(c)
  \/ \E u \in Users, c \in Conns : UserTakes(u, c)
  \/ \E u \in Users, op \in RawOps : UserChecks(u, op)
  \/ \E u \in Users : UserDrops(u)
  \/ UNCHANGED vars

\* They are.
LEMMA QuietSteps ==
  ASSUME ServerInv, QuietNext
  PROVE  Quiet
<1>0. /\ TypeOK /\ connections \subseteq Conns /\ registered \subseteq Conns
      /\ Listener \notin Conns /\ None \notin Conns /\ connLoop \in Loops
      /\ \A m \in Loops : /\ phase[m] # "functors" => batch[m] = <<>>
                          /\ phase[m] # "dispatch" => active[m] = {}
      /\ \A d \in Conns, m \in Loops :
               Listed(m, d) => ~Young(d) /\ m = connLoop /\ destroyedRuns[d] = 0
      /\ \A d \in registered : ~Young(d)
      /\ \A d \in connections : destroyedRuns[d] = 0
      /\ ~poolStarted => acceptor # "listening"
      /\ ended = "no" => registered \subseteq connections /\ stopping \subseteq connections
      /\ (ended = "no" /\ stopChecked # None) =>
            stopChecked \in connections /\ ~Young(stopChecked)
      /\ \A u \in Users : /\ holds[u] # None => holds[u] \in taken
                          /\ checked[u] # None => holds[u] # None
  BY StateFacts
<1>18. /\ phase \in [Loops -> {"poll", "dispatch", "functors"}]
       /\ active \in [Loops -> SUBSET Events]
       /\ batch \in [Loops -> Seq(Functors)] /\ state \in [Conns -> States]
       /\ holds \in [Users -> Conns \cup {None}] /\ checked \in [Users -> RawOps \cup {None}]
       /\ stopping \subseteq Conns /\ taken \subseteq Conns /\ "base" \in Loops
  BY <1>0 DEF TypeOK, Loops
<1>19. UNCHANGED active =>
          \A m \in Loops, d \in Conns : Listed(m, d)' => Listed(m, d)
  BY ListKept
<1>1. ASSUME NEW t \in Callers, Start(t) PROVE Quiet
  <2>1. SameQueues
    BY <1>1, IdleQueues DEF Start, vars, serverVars, connVars, loopVars, stopVars, userVars
  <2> QED
    BY <1>1, <1>0, <1>18, <1>19, <2>1 DEF Quiet, Young, Start,
           vars, serverVars, connVars, loopVars, stopVars, userVars
<1>2. ASSUME Stop PROVE Quiet
  <2>1. SameQueues
    BY <1>2, <1>0, StopQueued DEF Stop, loopVars
  <2> QED
    BY <1>2, <1>0, <1>18, <1>19, <2>1 DEF Quiet, Young, Stop,
           vars, serverVars, connVars, loopVars, stopVars, userVars
<1>3. ASSUME StopOnBase PROVE Quiet
  <2>1. SameQueues
    BY <1>3, IdleQueues DEF StopOnBase, vars, serverVars, connVars, loopVars, stopVars, userVars
  <2> QED
    BY <1>3, <1>0, <1>18, <1>19, <2>1 DEF Quiet, Young, StopOnBase, StopInLoop, Free, None,
           vars, serverVars, connVars, loopVars, stopVars, userVars
<1>4. ASSUME NEW l \in Loops, NEW S \in SUBSET Events, Poll(l, S) PROVE Quiet
  <2>1. SameQueues
    BY <1>4, IdleQueues DEF Poll, vars, serverVars, connVars, loopVars, stopVars, userVars
  <2>2. \A m \in Loops, d \in Conns : Listed(m, d)' =>
           Listed(m, d) \/ (ended = "no" /\ m = connLoop /\ d \in registered)
    BY <1>4, <1>18 DEF Poll, Listed, Free
  <2> QED
    BY <1>4, <1>0, <1>18, <2>1, <2>2 DEF Quiet, Young, Poll, Free,
           vars, serverVars, connVars, loopVars, stopVars, userVars
<1>5. ASSUME NEW l \in Loops, NEW c \in Conns, NEW f \in Filters, DispatchData(l, c, f)
      PROVE  Quiet
  <2>1. SameQueues
    BY <1>5, IdleQueues DEF DispatchData, vars, serverVars, connVars, loopVars, stopVars, userVars
  <2>2. /\ \A m \in Loops, d \in Conns : Listed(m, d)' => Listed(m, d)
        /\ \A m \in Loops : phase[m] # "dispatch" => active'[m] = active[m]
        /\ Listed(l, c) /\ ended = "no"
    BY <1>5, <1>0, ListTaken DEF DispatchData, TakeActive, Free
  <2>3. \A d \in Conns : \/ state'[d] = state[d]
                         \/ (state'[d] = "Disconnecting" /\ destroyedRuns[d] = 0 /\ ~Young(d))
    BY <1>5, <1>0, <1>18, <2>2 DEF DispatchData, Reach
  <2> QED
    BY <1>5, <1>0, <1>18, <2>1, <2>2, <2>3 DEF Quiet, Young, DispatchData,
           vars, serverVars, connVars, loopVars, stopVars, userVars
<1>6. ASSUME NEW c \in Conns, NEW f \in Filters, DispatchStop(c, f) PROVE Quiet
  <2>1. SameQueues
    BY <1>6, IdleQueues DEF DispatchStop, vars, serverVars, connVars, loopVars, stopVars, userVars
  <2>2. /\ \A m \in Loops, d \in Conns : Listed(m, d)' => Listed(m, d)
        /\ \A m \in Loops : phase[m] # "dispatch" => active'[m] = active[m]
    BY <1>6, <1>0, <1>18, ListTaken DEF DispatchStop
  <2> QED
    BY <1>6, <1>0, <1>18, <2>1, <2>2 DEF Quiet, Young, DispatchStop, TakeActive, Free, StopInLoop,
           vars, serverVars, connVars, loopVars, stopVars, userVars
<1>7. ASSUME DispatchDangling PROVE Quiet
  <2>1. SameQueues
    BY <1>7, IdleQueues
       DEF DispatchDangling, vars, serverVars, connVars, loopVars, stopVars, userVars
  <2>2. /\ \A m \in Loops, d \in Conns : Listed(m, d)' => Listed(m, d)
        /\ \A m \in Loops : phase[m] # "dispatch" => active'[m] = active[m]
    BY <1>7, <1>0, <1>18, ListTaken DEF DispatchDangling
  <2> QED
    BY <1>7, <1>0, <1>18, <2>1, <2>2 DEF Quiet, Young, DispatchDangling, TakeActive, Free,
           vars, serverVars, connVars, loopVars, stopVars, userVars
<1>8. ASSUME NEW l \in Loops, Swap(l) PROVE Quiet
  <2>1. SameQueues
    BY <1>8, <1>0, SwapQueues DEF Swap
  <2> QED
    BY <1>8, <1>0, <1>18, <1>19, <2>1 DEF Quiet, Young, Swap, Free,
           vars, serverVars, connVars, loopVars, stopVars, userVars
<1>9. ASSUME NEW l \in Loops, EndBatch(l) PROVE Quiet
  <2>1. SameQueues
    BY <1>9, IdleQueues DEF EndBatch, vars, serverVars, connVars, loopVars, stopVars, userVars
  <2> QED
    BY <1>9, <1>0, <1>18, <1>19, <2>1 DEF Quiet, Young, EndBatch, Free,
           vars, serverVars, connVars, loopVars, stopVars, userVars
<1>10. ASSUME RunStop PROVE Quiet
  <2>1. SameQueues
    BY <1>10, <1>0, <1>18, PopEffect DEF RunStop, NextFunctor
  <2> QED
    BY <1>10, <1>0, <1>18, <1>19, <2>1 DEF Quiet, Young, RunStop, NextFunctor, PopFunctor,
           StopInLoop, Free, vars, serverVars, connVars, loopVars, stopVars, userVars
<1>11. ASSUME NEW c \in Conns, StopCheck(c) PROVE Quiet
  <2>1. SameQueues
    BY <1>11, IdleQueues DEF StopCheck, vars, serverVars, connVars, loopVars, stopVars, userVars
  <2> QED
    BY <1>11, <1>0, <1>18, <1>19, <2>1 DEF Quiet, Young, None, StopCheck,
           vars, serverVars, connVars, loopVars, stopVars, userVars
<1>12. ASSUME StopAct, connLoop = "base" PROVE Quiet
  <2>1. SameQueues
    BY <1>12, IdleQueues DEF StopAct, vars, serverVars, connVars, loopVars, stopVars, userVars
  <2> QED
    BY <1>12, <1>0, <1>18, <1>19, <2>1 DEF Quiet, Young, StopAct,
           vars, serverVars, connVars, loopVars, stopVars, userVars
<1>13. ASSUME NEW c \in Conns, PeerCloses(c) PROVE Quiet
  <2>1. SameQueues
    BY <1>13, IdleQueues DEF PeerCloses, vars, serverVars, connVars, loopVars, stopVars, userVars
  <2> QED
    BY <1>13, <1>0, <1>18, <1>19, <2>1 DEF Quiet, Young, PeerCloses,
           vars, serverVars, connVars, loopVars, stopVars, userVars
<1>14. ASSUME NEW u \in Users, NEW c \in Conns, UserTakes(u, c) PROVE Quiet
  <2>1. SameQueues
    BY <1>14, IdleQueues DEF UserTakes, vars, serverVars, connVars, loopVars, stopVars, userVars
  <2> QED
    BY <1>14, <1>0, <1>18, <1>19, <2>1 DEF Quiet, Young, None, UserTakes,
           vars, serverVars, connVars, loopVars, stopVars, userVars
<1>15. ASSUME NEW u \in Users, NEW op \in RawOps, UserChecks(u, op) PROVE Quiet
  <2>1. SameQueues
    BY <1>15, IdleQueues DEF UserChecks, vars, serverVars, connVars, loopVars, stopVars, userVars
  <2> QED
    BY <1>15, <1>0, <1>18, <1>19, <2>1 DEF Quiet, Young, UserChecks,
           vars, serverVars, connVars, loopVars, stopVars, userVars
<1>16. ASSUME NEW u \in Users, UserDrops(u) PROVE Quiet
  <2>1. SameQueues
    BY <1>16, IdleQueues DEF UserDrops, vars, serverVars, connVars, loopVars, stopVars, userVars
  <2> QED
    BY <1>16, <1>0, <1>18, <1>19, <2>1 DEF Quiet, Young, UserDrops,
           vars, serverVars, connVars, loopVars, stopVars, userVars
<1>17. ASSUME UNCHANGED vars PROVE Quiet
  <2>1. SameQueues
    BY <1>17, IdleQueues DEF vars, vars, serverVars, connVars, loopVars, stopVars, userVars
  <2> QED
    BY <1>17, <1>0, <1>18, <1>19, <2>1 DEF Quiet, Young, vars,
           vars, serverVars, connVars, loopVars, stopVars, userVars
<1>20. ASSUME SetIoLoopNum, poolStarted PROVE Quiet
  <2>1. SameQueues
    BY <1>20, IdleQueues DEF SetIoLoopNum, loopVars
  <2> QED
    BY <1>20, <1>0, <1>18, <1>19, <2>1 DEF Quiet, SetIoLoopNum,
           vars, serverVars, connVars, loopVars, stopVars, userVars
<1> QED
  BY <1>1, <1>2, <1>3, <1>4, <1>5, <1>6, <1>7, <1>8, <1>9, <1>10,
     <1>11, <1>12, <1>13, <1>14, <1>15, <1>16, <1>17, <1>20 DEF QuietNext

\* Names of functors and loops.
LEMMA Names ==
  /\ "remove" \in ConnOps /\ "destroyed" \in ConnOps /\ "established" \in ConnOps
  /\ "remove" \notin RawOps /\ "destroyed" \notin RawOps /\ "established" \notin RawOps
  /\ RawOps \subseteq ConnOps /\ "base" \in Loops /\ "io" \in Loops /\ None \notin Loops
  /\ \A l \in Loops : l = "base" \/ l = "io"
BY DEF ConnOps, StrongOps, RawOps, Loops, None

\* handleClose() in a dispatch: on the connection of the entry or on another one.
LEMMA DispatchCloseKeeps ==
  ASSUME ServerInv, NEW l \in Loops, NEW e \in Conns, NEW f \in Filters,
         DispatchEof(l, e, f) \/ DispatchForceClose(l, e, f)
  PROVE  RoundInv' /\ YoungInv' /\ TokenInv' /\ ChannelInv' /\ RawInv'
<1>1. /\ \E c \in {e} \cup registered, n \in 1..2 : HandleClose(c, n)
      /\ TakeActive(l, e, f)
      /\ UNCHANGED <<started, poolStarted, acceptor, destroyedRuns, connLoop, phase, batch,
                     stopVars, userVars, ended>>
  BY 1 \in 1..2 DEF DispatchEof, DispatchForceClose, Reach
<1>2. /\ TypeOK /\ registered \subseteq Conns
      /\ \A m \in Loops : phase[m] # "functors" => batch[m] = <<>>
      /\ \A m \in Loops : phase[m] # "dispatch" => active[m] = {}
      /\ \A d \in Conns, m \in Loops : Listed(m, d) => ~Young(d) /\ m = connLoop
      /\ \A d \in registered : ~Young(d)
  BY StateFacts
<1>3. PICK c \in {e} \cup registered, n \in 1..2 : HandleClose(c, n)
  BY <1>1
<1>4. /\ \A m \in Loops, d \in Conns : Listed(m, d)' => Listed(m, d)
      /\ \A m \in Loops : phase[m] # "dispatch" => active'[m] = active[m]
      /\ Listed(l, e)
  BY <1>1, <1>2, ListTaken
<1>5. c \in Conns /\ ~Young(c) /\ l = connLoop
  BY <1>2, <1>4
<1> DEFINE g == F("send", c)
<1>6. g.op = "send" /\ g.conn = c /\ "send" \in RawOps
  BY DEF F, RawOps
<1> HIDE DEF g
<1>7. RestOf(None, g) /\ batch' \in [Loops -> Seq(Functors)]
  BY <1>1, <1>2, RestUnpopped
<1>8. /\ CloseQueues(None, g.op, g.conn, c)
      /\ state' = [state EXCEPT ![c] = "Disconnected"]
      /\ registered' = registered \ {c}
  BY <1>2, <1>3, <1>5, <1>7, CloseEffect
<1>9. CloseQueues(None, "send", c, c)
  BY <1>6, <1>8
<1>10. Closes(None, "send", c)
  BY <1>1, <1>2, <1>4, <1>8, <1>9 DEF Closes
<1>11. connLoop = "base" => stopping = {} /\ stopChecked = None
  BY <1>1, <1>5 DEF TakeActive, Free
<1> QED
  BY <1>5, <1>6, <1>10, <1>11, CloseKeeps

\* connectEstablished() in a functor.
LEMMA EstablishedKeeps ==
  ASSUME ServerInv, RunEstablished
  PROVE  RoundInv' /\ YoungInv' /\ TokenInv' /\ ChannelInv' /\ RawInv'
<1>1. /\ TypeOK /\ RoundInv /\ YoungInv /\ TokenInv /\ ChannelInv /\ RawInv
      /\ connections \subseteq Conns /\ connLoop \in Loops
      /\ state \in [Conns -> States] /\ registered \subseteq Conns
      /\ batch \in [Loops -> Seq(Functors)]
  BY DEF ServerInv, TypeOK
<1>2. /\ NextFunctor("io", "established") /\ PopFunctor("io") /\ batch["io"] # <<>>
      /\ ended = "no" /\ phase["io"] = "functors" /\ Head(batch["io"]).op = "established"
      /\ UNCHANGED <<pending, poolStarted, acceptor, connections, destroyedRuns, connLoop,
                     phase, active, stopping, stopChecked, holds, taken, checked, ended>>
  BY DEF RunEstablished, NextFunctor, Free, PopFunctor, serverVars, stopVars, userVars
<1>3. PICK c \in Conns : c = Head(batch["io"]).conn
  <2>1. Head(batch["io"]) \in Functors
    BY <1>1, <1>2, PopType, Names
  <2> QED
    BY <2>1, <1>2, FunctorFacts, Names
<1>4. /\ Pops("io", "established", c) /\ Queued("io", "established", c)
      /\ Single(Queue("io"), "established") => ~Queued("io", "established", c)'
  BY <1>1, <1>2, <1>3, PopEffect, Names
<1>5. /\ registered' = registered \cup {c}
      /\ \A d \in Conns : state'[d] = IF d = c THEN "Connected" ELSE state[d]
  BY <1>1, <1>3 DEF RunEstablished
<1>6. /\ state[c] = "Connecting" /\ connLoop = "io" /\ c \in connections
      /\ ~Queued("io", "established", c)' /\ destroyedRuns[c] = 0
      /\ ~Queued("base", "remove", c)
  BY <1>1, <1>4, Names DEF YoungInv, RoundInv, TokenInv, Young
<1>7. \A m \in Loops : phase[m] # "functors" => batch'[m] = batch[m]
  BY <1>1, <1>2 DEF PopFunctor
<1>13. \A m \in Loops, d \in Conns : Listed(m, d)' => Listed(m, d)
  BY <1>2, ListKept
<1>8. RoundInv'
  BY <1>13, <1>1, <1>2, <1>4, <1>5, <1>6, <1>7, Names DEF RoundInv, Pops, None
<1>9. YoungInv'
  BY <1>13, <1>1, <1>2, <1>4, <1>5, <1>6, Names DEF YoungInv, RoundInv, Pops, Young, None
<1>10. TokenInv'
  BY <1>1, <1>2, <1>4, <1>5, <1>6, Names DEF TokenInv, Pops, None
<1>11. ChannelInv'
  BY <1>13, <1>1, <1>2, <1>4, <1>5, <1>6, Names DEF ChannelInv, Pops, Young, None
<1>12. RawInv'
  BY <1>1, <1>2, <1>4, <1>5, <1>6, Names DEF RawInv, Pops
<1> QED
  BY <1>8, <1>9, <1>10, <1>11, <1>12

\* connectDestroyed() in a functor.
LEMMA DestroyedKeeps ==
  ASSUME ServerInv, RunDestroyed
  PROVE  RoundInv' /\ YoungInv' /\ TokenInv' /\ ChannelInv' /\ RawInv'
<1>1. /\ TypeOK /\ RoundInv /\ YoungInv /\ TokenInv /\ ChannelInv /\ RawInv
      /\ connections \subseteq Conns /\ connLoop \in Loops
      /\ state \in [Conns -> States] /\ registered \subseteq Conns
      /\ batch \in [Loops -> Seq(Functors)] /\ destroyedRuns \in [Conns -> Nat]
  BY DEF ServerInv, TypeOK
<1>2. PICK l \in Loops : l = connLoop
  BY <1>1
<1>3. /\ NextFunctor(l, "destroyed") /\ PopFunctor(l) /\ batch[l] # <<>>
      /\ ended = "no" /\ phase[l] = "functors" /\ Head(batch[l]).op = "destroyed"
      /\ UNCHANGED <<pending, poolStarted, acceptor, connections, connLoop,
                     phase, active, stopping, stopChecked, holds, taken, checked, ended>>
  BY <1>2 DEF RunDestroyed, NextFunctor, Free, PopFunctor, serverVars, stopVars, userVars
<1>4. PICK c \in Conns : c = Head(batch[l]).conn
  <2>1. Head(batch[l]) \in Functors
    BY <1>1, <1>3, PopType
  <2> QED
    BY <2>1, <1>3, FunctorFacts, Names
<1>5. /\ Pops(l, "destroyed", c) /\ Queued(l, "destroyed", c)
      /\ Single(Queue(l), "destroyed") => ~Queued(l, "destroyed", c)'
  BY <1>1, <1>3, <1>4, PopEffect, Names
<1>6. /\ registered' \subseteq registered
      /\ \A d \in Conns : state'[d] = IF d = c THEN "Disconnected" ELSE state[d]
      /\ \A d \in Conns : destroyedRuns'[d] = IF d = c THEN destroyedRuns[d] + 1
                                                       ELSE destroyedRuns[d]
  BY <1>1, <1>2, <1>4 DEF RunDestroyed
<1>7. /\ destroyedRuns[c] = 0 /\ c \notin connections
      /\ \A m \in Loops : ~Queued(m, "destroyed", c)'
      /\ state[c] # None /\ state[c] # "Connecting"
  BY <1>1, <1>2, <1>5, Names DEF TokenInv, YoungInv, RoundInv, Pops
<1>8. \A m \in Loops : phase[m] # "functors" => batch'[m] = batch[m]
  BY <1>1, <1>3 DEF PopFunctor
<1>15. /\ \A m \in Loops, d \in Conns : Listed(m, d)' => Listed(m, d)
       /\ \A m \in Loops : ~Listed(m, c)
  <2>1. active[l] = {} /\ \A m \in Loops : Listed(m, c) => m = l
    BY <1>1, <1>2, <1>3 DEF RoundInv
  <2>2. \A m \in Loops : ~Listed(m, c)
    BY <2>1 DEF Listed
  <2> QED
    BY <2>2, <1>3, ListKept
<1>9. RoundInv'
  BY <1>15, <1>1, <1>3, <1>5, <1>6, <1>7, <1>8, Names DEF RoundInv, Pops
<1>10. YoungInv'
  <2>1. /\ \A d \in Conns : d # c => destroyedRuns'[d] = destroyedRuns[d]
        /\ \A d \in Conns : d # c => state'[d] = state[d]
        /\ state'[c] = "Disconnected" /\ registered' \subseteq registered
    BY <1>6
  <2>2. \A d \in Conns : Young(d)' => Young(d) /\ d # c
    BY <2>1 DEF Young, None
  <2> QED
    <3>1. \A d \in Conns : state'[d] = None =>
             /\ d \notin connections' /\ destroyedRuns'[d] = 0
             /\ \A m \in Loops, op \in ConnOps : ~Queued(m, op, d)'
      BY <1>1, <1>3, <1>5, <2>1, Names DEF YoungInv, Pops, None
    <3>2. \A d \in Conns : Young(d)' =>
             /\ d \notin registered' /\ d \notin taken'
             /\ \A m \in Loops : ~Listed(m, d)'
             /\ \A m \in Loops, op \in RawOps \cup {"remove"} : ~Queued(m, op, d)'
      BY <1>15, <1>1, <1>3, <1>5, <2>1, <2>2, Names DEF YoungInv, Pops
    <3>3. /\ \A d \in Conns, m \in Loops :
                Queued(m, "established", d)' => state'[d] = "Connecting"
          /\ \A m \in Loops : Single(Queue(m), "established")'
      BY <1>1, <1>3, <1>5, <1>7, <2>1, Names DEF YoungInv, Pops
    <3> QED
      BY <3>1, <3>2, <3>3 DEF YoungInv
<1>11. destroyedRuns'[c] = 1
  BY <1>6, <1>7
<1>12. TokenInv'
  BY <1>1, <1>2, <1>3, <1>5, <1>6, <1>7, <1>11, Names DEF TokenInv, Pops
<1>13. ChannelInv'
  BY <1>15, <1>1, <1>3, <1>5, <1>6, <1>7, Names DEF ChannelInv, Pops, Young, None
<1>14. RawInv'
  BY <1>1, <1>3, <1>5, <1>6, <1>7, Names DEF RawInv, Pops
<1> QED
  BY <1>9, <1>10, <1>12, <1>13, <1>14

\* A shutdown, send or forceClose functor has run without closing anything; that its
\* "this" was freed is an end of the run, not an assumption.
LEMMA RawRunKeeps ==
  ASSUME ServerInv, NEW l \in Loops, l = connLoop, NEW op \in RawOps, NEW c \in Conns,
         Pops(l, op, c), ended = "no", PopFunctor(l), phase[l] = "functors",
         UNCHANGED <<state, registered, connections, poolStarted, acceptor, destroyedRuns,
                     connLoop, stopping, stopChecked, holds, taken, checked>>
  PROVE  RoundInv' /\ YoungInv' /\ TokenInv' /\ ChannelInv' /\ RawInv'
<1>1. /\ TypeOK /\ RoundInv /\ YoungInv /\ TokenInv /\ ChannelInv /\ RawInv
      /\ connections \subseteq Conns /\ batch \in [Loops -> Seq(Functors)]
  BY DEF ServerInv, TypeOK
<1>2. /\ \A m \in Loops : phase[m] # "functors" => batch'[m] = batch[m]
      /\ UNCHANGED <<phase, active>>
      /\ \A m \in Loops, d \in Conns : Listed(m, d)' => Listed(m, d)
  BY <1>1, ListKept DEF PopFunctor
<1>3. RoundInv'
  BY <1>1, <1>2, Names DEF RoundInv, Pops
<1>4. YoungInv'
  BY <1>1, <1>2, Names DEF YoungInv, Pops, Young
<1>5. TokenInv'
  BY <1>1, <1>2, Names DEF TokenInv, Pops
<1>6. ChannelInv'
  BY <1>1, <1>2, Names DEF ChannelInv, Pops, Young
<1>7. RawInv'
  BY <1>1, <1>2, Names DEF RawInv, Pops
<1> QED
  BY <1>3, <1>4, <1>5, <1>6, <1>7

\* A functor with a raw "this".
LEMMA RawKeeps ==
  ASSUME ServerInv, RunRaw
  PROVE  RoundInv' /\ YoungInv' /\ TokenInv' /\ ChannelInv' /\ RawInv'
<1>1. /\ TypeOK /\ connLoop \in Loops /\ batch \in [Loops -> Seq(Functors)]
  BY DEF ServerInv, TypeOK
<1>2. PICK l \in Loops : l = connLoop
  BY <1>1
<1>3. PICK op \in RawOps : NextFunctor(l, op)
  BY <1>2 DEF RunRaw
<1>4. /\ PopFunctor(l) /\ batch[l] # <<>>
      /\ ended = "no" /\ phase[l] = "functors" /\ Head(batch[l]).op = op
      /\ (l = "base" => stopping = {} /\ stopChecked = None)
      /\ UNCHANGED <<started, poolStarted, acceptor, destroyedRuns, connLoop, phase, active,
                     stopVars, userVars>>
  BY <1>2, <1>3 DEF RunRaw, NextFunctor, Free, PopFunctor
<1>5. PICK c \in Conns : c = Head(batch[l]).conn
  <2>1. Head(batch[l]) \in Functors
    BY <1>1, <1>4, PopType
  <2> QED
    BY <2>1, <1>4, FunctorFacts, Names
<1>6. \/ HandleClose(c, 1) /\ ended' = ended
      \/ UNCHANGED <<state, registered, connections, pending>>
  BY <1>2, <1>5 DEF RunRaw
<1>7. CASE UNCHANGED <<state, registered, connections, pending>>
  <2>1. Pops(l, op, c)
    BY <1>1, <1>4, <1>5, <1>7, PopEffect, Names
  <2> QED
    BY <1>2, <1>4, <1>7, <2>1, RawRunKeeps DEF stopVars, userVars
<1>8. CASE HandleClose(c, 1) /\ ended' = ended
  <2>1. PICK g : g = Head(batch[l])
    OBVIOUS
  <2>2. RestOf(l, g) /\ batch' \in [Loops -> Seq(Functors)]
    BY <1>1, <1>4, <2>1, RestAfterPop
  <2>3. /\ CloseQueues(l, g.op, g.conn, c)
        /\ state' = [state EXCEPT ![c] = "Disconnected"]
        /\ registered' = registered \ {c}
    BY <1>1, <1>8, <2>2, 1 \in 1..2, CloseEffect
  <2>4. CloseQueues(l, op, c, c)
    BY <1>4, <1>5, <2>1, <2>3
  <2>5. /\ \A m \in Loops, d \in Conns : Listed(m, d)' => Listed(m, d)
        /\ \A m \in Loops : phase[m] # "dispatch" => active'[m] = {}
    BY <1>4, ListKept, StateFacts
  <2>6. \A m \in Loops : phase[m] # "functors" => batch'[m] = <<>>
    <3>1. \A m \in Loops : phase[m] # "functors" => batch[m] = <<>>
      BY StateFacts
    <3>2. \A m \in Loops : m # l => batch'[m] = batch[m]
      BY <1>1, <1>4 DEF PopFunctor
    <3> QED
      BY <3>1, <3>2, <1>4
  <2>7. Closes(l, op, c)
    BY <1>4, <1>8, <2>3, <2>4, <2>5, <2>6 DEF Closes
  <2>8. ~Young(c)
    <3>1. Queued(l, op, c)
      <4>1. Queue(l) \in Seq(Functors) /\ Queue(l) # <<>> /\ Head(Queue(l)) = Head(batch[l])
        BY <1>1, <1>4, RestPopped, QueueType
      <4>2. PICK q : q = Queue(l)
        OBVIOUS
      <4>3. Holding(q, Head(q).op, Head(q).conn)
        BY <4>1, <4>2, Popped
      <4>4. Head(q).op = op /\ Head(q).conn = c
        BY <4>1, <4>2, <1>4, <1>5
      <4> QED
        BY <4>2, <4>3, <4>4 DEF Queued
    <3> QED
      BY <3>1 DEF ServerInv, YoungInv
  <2> QED
    BY <1>2, <1>4, <2>7, <2>8, CloseKeeps
<1> QED
  BY <1>6, <1>7, <1>8

\* newConnection().
LEMMA AcceptKeeps ==
  ASSUME ServerInv, NEW c \in Conns, Accept(c)
  PROVE  RoundInv' /\ YoungInv' /\ TokenInv' /\ ChannelInv' /\ RawInv'
<1>1. /\ TypeOK /\ RoundInv /\ YoungInv /\ TokenInv /\ ChannelInv /\ RawInv
      /\ connections \subseteq Conns /\ connLoop \in Loops
      /\ state \in [Conns -> States] /\ registered \subseteq Conns
      /\ active \in [Loops -> SUBSET Events]
      /\ Listener \notin Conns /\ None \notin Conns
  BY StateFacts DEF ServerInv, TypeOK
<1>2. /\ ended = "no" /\ phase["base"] = "dispatch" /\ acceptor = "listening" /\ state[c] = None
      /\ connections' = connections \cup {c}
      /\ TakeActive("base", Listener, "read")
      /\ UNCHANGED <<poolStarted, acceptor, destroyedRuns, connLoop, phase, batch,
                     stopping, stopChecked, holds, taken, checked, ended>>
  BY DEF Accept, TakeActive, Free, stopVars, userVars
<1>3. /\ \A m \in Loops, d \in Conns : Listed(m, d)' => Listed(m, d)
      /\ \A m \in Loops : phase[m] # "dispatch" => active'[m] = active[m]
  BY <1>1, <1>2, ListTaken, Names
<1>4. /\ poolStarted /\ c \notin connections /\ destroyedRuns[c] = 0
      /\ c \notin registered /\ c \notin taken /\ \A m \in Loops : ~Listed(m, c)
      /\ \A m \in Loops, op \in ConnOps : ~Queued(m, op, c)
  BY <1>1, <1>2 DEF RoundInv, YoungInv, Young
<1>5. CASE connLoop = "base"
  <2>1. /\ \A d \in Conns : state'[d] = IF d = c THEN "Connected" ELSE state[d]
        /\ registered' = registered \cup {c}
        /\ SameQueues
    BY <1>1, <1>2, <1>5, IdleQueues DEF Accept
  <2>2. RoundInv'
    BY <1>1, <1>2, <1>3, <1>4, <2>1, Names DEF RoundInv, SameQueues
  <2>3. YoungInv'
    BY <1>1, <1>2, <1>3, <1>4, <2>1, Names DEF YoungInv, SameQueues, Young, None
  <2>4. TokenInv'
    BY <1>1, <1>2, <1>3, <1>4, <2>1, Names DEF TokenInv, SameQueues
  <2>5. ChannelInv'
    BY <1>1, <1>2, <1>3, <1>4, <2>1, Names DEF ChannelInv, SameQueues, Young, None
  <2>6. RawInv'
    BY <1>1, <1>2, <1>3, <1>4, <2>1, Names DEF RawInv, SameQueues
  <2> QED
    BY <2>2, <2>3, <2>4, <2>5, <2>6
<1>6. CASE connLoop = "io"
  <2>0. connLoop # "base"
    BY <1>6
  <2>1. /\ \A d \in Conns : state'[d] = IF d = c THEN "Connecting" ELSE state[d]
        /\ registered' = registered
        /\ Adds(None, None, None, "io", "established", c)
    BY <1>1, <1>2, <2>0, EnqueueEffect, Names DEF Accept
  <2>2. RoundInv'
    BY <1>1, <1>2, <1>3, <1>4, <1>6, <2>1, Names DEF RoundInv, Adds
  <2>3. YoungInv'
    BY <1>1, <1>2, <1>3, <1>4, <2>1, Names DEF YoungInv, Adds, Young, None
  <2>4. TokenInv'
    BY <1>1, <1>2, <1>3, <1>4, <2>1, Names DEF TokenInv, Adds
  <2>5. ChannelInv'
    BY <1>1, <1>2, <1>3, <1>4, <2>1, Names DEF ChannelInv, Adds, Young, None
  <2>6. RawInv'
    BY <1>1, <1>2, <1>3, <1>4, <1>6, <2>1, Names DEF RawInv, Adds
  <2> QED
    BY <2>2, <2>3, <2>4, <2>5, <2>6
<1> QED
  BY <1>1, <1>5, <1>6, Names

\* removeConnectionInLoop() in a functor: the connection is on the I/O loop.
LEMMA RemoveKeeps ==
  ASSUME ServerInv, RunRemove
  PROVE  RoundInv' /\ YoungInv' /\ TokenInv' /\ ChannelInv' /\ RawInv'
<1>1. /\ TypeOK /\ RoundInv /\ YoungInv /\ TokenInv /\ ChannelInv /\ RawInv
      /\ connections \subseteq Conns /\ batch \in [Loops -> Seq(Functors)]
  BY DEF ServerInv, TypeOK
<1>2. /\ PopFunctor("base") /\ batch["base"] # <<>>
      /\ ended = "no" /\ phase["base"] = "functors" /\ Head(batch["base"]).op = "remove"
      /\ stopping = {} /\ stopChecked = None
      /\ UNCHANGED <<poolStarted, acceptor, state, registered, destroyedRuns, connLoop,
                     phase, active, stopping, stopChecked, holds, taken, checked, ended>>
  BY DEF RunRemove, NextFunctor, Free, PopFunctor, connVars, stopVars, userVars
<1>3. PICK g : g = Head(batch["base"])
  OBVIOUS
<1>4. /\ RestOf("base", g) /\ batch' \in [Loops -> Seq(Functors)]
      /\ g \in Functors /\ g.op = "remove"
  BY <1>1, <1>2, <1>3, RestAfterPop, RestPopped, Names
<1>5. PICK c \in Conns : c = g.conn
  BY <1>4, FunctorFacts, Names
<1>6. Queued("base", "remove", c)
  <2>1. Queue("base") \in Seq(Functors) /\ Queue("base") # <<>> /\ Head(Queue("base")) = g
    BY <1>1, <1>2, <1>3, RestPopped, QueueType, Names
  <2>2. PICK q : q = Queue("base")
    OBVIOUS
  <2>3. Holding(q, Head(q).op, Head(q).conn)
    BY <2>1, <2>2, Popped
  <2>4. Head(q).op = "remove" /\ Head(q).conn = c
    BY <2>1, <2>2, <1>4, <1>5
  <2> QED
    BY <2>2, <2>3, <2>4 DEF Queued
<1>7. /\ connLoop = "io" /\ ~Young(c) /\ c \notin registered
      /\ \A m \in Loops, d \in Conns : Listed(m, d)' => Listed(m, d)
  BY <1>1, <1>2, <1>6, ListKept, Names DEF RoundInv, YoungInv, ChannelInv
<1>8. \A m \in Loops : phase[m] # "functors" => batch'[m] = batch[m]
  BY <1>1, <1>2 DEF PopFunctor
<1>9. RemoveConnectionInLoop(c, 1)
  BY <1>3, <1>5 DEF RunRemove
<1>10. /\ connections' = connections \ {c}
       /\ c \in connections => Adds("base", g.op, g.conn, "io", "destroyed", c)
       /\ c \notin connections => Pops("base", g.op, g.conn)
  BY <1>1, <1>4, <1>7, <1>9, RemoveEffect
<1>11. /\ c \in connections => Adds("base", "remove", c, "io", "destroyed", c)
       /\ c \notin connections => Pops("base", "remove", c)
  BY <1>4, <1>5, <1>10
<1>12. CASE c \in connections
  <2>1. Adds("base", "remove", c, "io", "destroyed", c)
    BY <1>11, <1>12
  <2>2. RoundInv'
    BY <1>1, <1>2, <1>7, <1>8, <1>10, <2>1, Names DEF RoundInv, Adds
  <2>3. YoungInv'
    BY <1>1, <1>2, <1>7, <1>10, <2>1, Names DEF YoungInv, Adds, Young
  <2>4. TokenInv'
    BY <1>1, <1>2, <1>7, <1>10, <1>12, <2>1, Names DEF TokenInv, Adds, Young
  <2>5. ChannelInv'
    BY <1>1, <1>2, <1>7, <1>10, <2>1, Names DEF ChannelInv, Adds, Young
  <2>6. RawInv'
    <3>1. \A op \in RawOps : ~Queued("base", op, c)'
      BY <1>1, <1>7, <2>1, Names DEF RoundInv, Adds
    <3>2. Covered(Queue("base"), c)' /\ Covered(Queue("io"), c)'
      BY <3>1, <2>1, NoRawCoveredNext, Names DEF Adds
    <3>3. \A m \in Loops : Covered(Queue(m), c)'
      BY <3>2, Names
    <3>4. \A d \in Conns \ taken : d \in connections' \/ \A m \in Loops : Covered(Queue(m), d)'
      BY <1>1, <1>10, <2>1, <3>3, Names DEF RawInv, Adds
    <3> QED
      BY <1>1, <1>2, <1>7, <3>4 DEF RawInv
  <2> QED
    BY <2>2, <2>3, <2>4, <2>5, <2>6
<1>13. CASE c \notin connections
  <2>1. Pops("base", "remove", c) /\ connections' = connections
    BY <1>10, <1>11, <1>13
  <2>2. RoundInv'
    BY <1>1, <1>2, <1>7, <1>8, <2>1, Names DEF RoundInv, Pops
  <2>3. YoungInv'
    BY <1>1, <1>2, <1>7, <2>1, Names DEF YoungInv, Pops, Young
  <2>4. TokenInv'
    BY <1>1, <1>2, <1>7, <2>1, Names DEF TokenInv, Pops
  <2>5. ChannelInv'
    BY <1>1, <1>2, <1>7, <2>1, Names DEF ChannelInv, Pops, Young
  <2>6. RawInv'
    BY <1>1, <1>2, <1>7, <2>1, Names DEF RawInv, Pops
  <2> QED
    BY <2>2, <2>3, <2>4, <2>5, <2>6
<1> QED
  BY <1>12, <1>13

\* A raw functor is queued: of a connection of the map, by the stop functor, or of
\* one that a thread has taken.
LEMMA QueueRawKeeps ==
  ASSUME ServerInv, NEW l \in Loops, l = connLoop, NEW op \in RawOps, NEW c \in Conns,
         Adds(None, None, None, l, op, c), ended = "no", ~Young(c),
         (c \in connections /\ connLoop = "io") \/ c \in taken,
         \A d \in Conns : state'[d] = state[d] \/ (d = c /\ state'[d] = "Disconnecting"),
         stopChecked' = stopChecked \/ stopChecked' = None,
         \A u \in Users : checked'[u] = checked[u] \/ checked'[u] = None,
         UNCHANGED <<registered, connections, poolStarted, acceptor, destroyedRuns, phase,
                     active, batch, connLoop, stopping, holds, taken, ended>>
  PROVE  RoundInv' /\ YoungInv' /\ TokenInv' /\ ChannelInv' /\ RawInv'
<1>1. /\ TypeOK /\ RoundInv /\ YoungInv /\ TokenInv /\ ChannelInv /\ RawInv
      /\ connections \subseteq Conns /\ state[c] # None /\ state[c] # "Connecting"
      /\ state'[c] # None /\ state'[c] # "Connecting"
      /\ \A m \in Loops, d \in Conns : Listed(m, d)' => Listed(m, d)
  BY ListKept DEF ServerInv, TypeOK, Young, None
<1>2. RoundInv'
  BY <1>1, Names DEF RoundInv, Adds
<1>3. YoungInv'
  BY <1>1, Names DEF YoungInv, Adds, Young, None
<1>4. TokenInv'
  BY <1>1, Names DEF TokenInv, Adds, None
<1>5. ChannelInv'
  BY <1>1, Names DEF ChannelInv, Adds, Young, None
<1>6. RawInv'
  BY <1>1, Names DEF RawInv, TokenInv, Adds
<1> QED
  BY <1>2, <1>3, <1>4, <1>5, <1>6

\* shutdown() by the stop functor.
LEMMA StopActKeeps ==
  ASSUME ServerInv, StopAct, connLoop = "io"
  PROVE  RoundInv' /\ YoungInv' /\ TokenInv' /\ ChannelInv' /\ RawInv'
<1>1. /\ TypeOK /\ state \in [Conns -> States]
      /\ stopChecked \in connections /\ ~Young(stopChecked) /\ connections \subseteq Conns
  BY StateFacts DEF StopAct, TypeOK
<1>2. PICK c \in Conns : c = stopChecked
  BY <1>1
<1>3. /\ Enqueue("io", F("shutdown", c)) /\ ended = "no" /\ stopChecked' = None
      /\ \A d \in Conns : state'[d] = state[d] \/ (d = c /\ state'[d] = "Disconnecting")
      /\ UNCHANGED <<registered, connections, poolStarted, acceptor, destroyedRuns, phase,
                     active, batch, connLoop, stopping, holds, taken, checked, ended>>
  BY <1>1, <1>2 DEF StopAct, serverVars, loopVars, userVars
<1>4. "shutdown" \in RawOps
  BY DEF RawOps
<1>5. Adds(None, None, None, "io", "shutdown", c)
  BY <1>1, <1>3, <1>4, EnqueueEffect, Names
<1>6. c \in connections /\ ~Young(c)
  BY <1>1, <1>2
<1> QED
  BY <1>3, <1>4, <1>5, <1>6, QueueRawKeeps, Names

\* send(), shutdown() or forceClose() by a thread.
LEMMA UserActsKeeps ==
  ASSUME ServerInv, NEW u \in Users, UserActs(u)
  PROVE  RoundInv' /\ YoungInv' /\ TokenInv' /\ ChannelInv' /\ RawInv'
<1>1. /\ TypeOK /\ state \in [Conns -> States] /\ taken \subseteq Conns /\ connLoop \in Loops
      /\ checked \in [Users -> RawOps \cup {None}]
      /\ holds[u] # None => holds[u] \in taken
      /\ checked[u] # None => holds[u] # None
  BY StateFacts DEF TypeOK
<1>2. checked[u] # None /\ holds[u] \in taken /\ checked[u] \in RawOps
  BY <1>1 DEF UserActs
<1>3. PICK c \in Conns, op \in RawOps, l \in Loops :
         c = holds[u] /\ op = checked[u] /\ l = connLoop
  BY <1>1, <1>2
<1>4. /\ Enqueue(l, F(op, c)) /\ ended = "no"
      /\ \A d \in Conns : state'[d] = state[d] \/ (d = c /\ state'[d] = "Disconnecting")
      /\ \A v \in Users : checked'[v] = checked[v] \/ checked'[v] = None
      /\ UNCHANGED <<registered, connections, poolStarted, acceptor, destroyedRuns, phase,
                     active, batch, connLoop, stopping, stopChecked, holds, taken, ended>>
  BY <1>1, <1>3 DEF UserActs, serverVars, loopVars, stopVars
<1>5. Adds(None, None, None, l, op, c)
  BY <1>1, <1>4, EnqueueEffect, Names
<1>6. c \in taken /\ ~Young(c)
  BY <1>2, <1>3 DEF ServerInv, YoungInv
<1> QED
  BY <1>3, <1>4, <1>5, <1>6, QueueRawKeeps

\* setIoLoopNum() before start(): there is no connection yet.
LEMMA SetIoLoopNumKeeps ==
  ASSUME ServerInv, SetIoLoopNum, ~poolStarted
  PROVE  RoundInv' /\ YoungInv' /\ TokenInv' /\ ChannelInv' /\ RawInv'
<1>1. /\ TypeOK /\ RoundInv /\ YoungInv /\ TokenInv /\ ChannelInv /\ RawInv
      /\ active \in [Loops -> SUBSET Events]
      /\ connections \subseteq Conns
  BY DEF ServerInv, TypeOK
<1>2. /\ ~poolStarted /\ connLoop' = "io"
      /\ UNCHANGED <<poolStarted, acceptor, connections, state, registered, destroyedRuns,
                     phase, active, batch, ran, pending, stopping, stopChecked, holds, taken,
                     checked, ended>>
  BY DEF SetIoLoopNum, serverVars, loopVars, stopVars, userVars
<1>3. /\ \A c \in Conns : state[c] = None /\ Young(c) /\ c \notin connections
      /\ \A c \in Conns, m \in Loops, op \in ConnOps : ~Queued(m, op, c)
      /\ \A c \in Conns, m \in Loops : ~Listed(m, c)'
  BY ListKept, <1>1, <1>2 DEF RoundInv, YoungInv, Young
<1>4. SameQueues
  BY <1>2, IdleQueues
<1>5. RoundInv'
  BY <1>1, <1>2, <1>3, <1>4, Names DEF RoundInv, SameQueues
<1>6. YoungInv'
  BY <1>1, <1>2, <1>3, <1>4, Names DEF YoungInv, SameQueues, Young
<1>7. TokenInv'
  BY <1>1, <1>2, <1>3, <1>4, Names DEF TokenInv, SameQueues
<1>8. ChannelInv'
  BY <1>1, <1>2, <1>3, <1>4, Names DEF ChannelInv, SameQueues, Young
<1>9. RawInv'
  BY <1>1, <1>2, <1>3, <1>4, Names DEF RawInv, SameQueues
<1> QED
  BY <1>5, <1>6, <1>7, <1>8, <1>9

\* ~TcpServer().
LEMMA DestroyKeeps ==
  ASSUME ServerInv, NEW t \in Callers, Destroy(t)
  PROVE  RoundInv' /\ YoungInv' /\ TokenInv' /\ ChannelInv' /\ RawInv'
<1>1. /\ TypeOK /\ RoundInv /\ YoungInv /\ TokenInv /\ ChannelInv /\ RawInv
      /\ connections \subseteq Conns /\ connLoop \in Loops
      /\ state \in [Conns -> States] /\ registered \subseteq Conns
  BY StateFacts DEF ServerInv, TypeOK
<1>2. /\ ended = "no" /\ (t = "base" => phase["base"] = "poll")
      /\ UNCHANGED <<poolStarted, acceptor, connLoop, phase, active, batch, ran, pending,
                     stopping, stopChecked, holds, taken, checked>>
  BY DEF Destroy, Free, loopVars, stopVars, userVars
<1>3. SameQueues /\ \A m \in Loops, d \in Conns : Listed(m, d)' => Listed(m, d)
  BY <1>2, IdleQueues, ListKept
<1>4. CASE connections # {} /\ t # connLoop
  <2>1. /\ ended' = "destructor"
        /\ UNCHANGED <<connections, state, registered, destroyedRuns>>
    BY <1>4 DEF Destroy
  <2>2. Quiet
    <3>1. /\ \A m \in Loops : /\ phase[m] # "functors" => batch[m] = <<>>
                              /\ phase[m] # "dispatch" => active[m] = {}
          /\ ~poolStarted => acceptor # "listening"
          /\ \A u \in Users : /\ holds[u] # None => holds[u] \in taken
                              /\ checked[u] # None => holds[u] # None
      BY StateFacts
    <3> QED
      BY <1>2, <1>3, <2>1, <3>1 DEF Quiet
  <2> QED
    BY <2>2, QuietKeeps
<1>5. CASE ~(connections # {} /\ t # connLoop)
  <2>0. connections = {} \/ (connLoop = "base" /\ phase["base"] = "poll")
    BY <1>1, <1>2, <1>5, ModeAssumption DEF ModeAssumption, Loops
  <2>1. /\ ended' = "destroyed" /\ connections' = {} /\ registered' \subseteq registered
        /\ \A c \in Conns : state'[c] = IF c \in connections THEN "Disconnected" ELSE state[c]
        /\ \A c \in Conns : c \in connections => destroyedRuns'[c] = destroyedRuns[c] + 1
        /\ \A c \in Conns : c \notin connections => destroyedRuns'[c] = destroyedRuns[c] + 0
    BY <1>1, <1>5 DEF Destroy, DestructorVisits
  <2>2. /\ \A c \in Conns : c \in connections => destroyedRuns'[c] = 1
        /\ \A c \in Conns : c \notin connections => destroyedRuns'[c] = destroyedRuns[c]
    BY <1>1, <2>1 DEF TypeOK, TokenInv
  <2>3. /\ \A c \in Conns, m \in Loops : Listed(m, c) => c \notin connections
        /\ \A c \in Conns, m \in Loops : ~Queued(m, "established", c)
    <3>1. CASE connections = {}
      BY <1>1, <3>1 DEF YoungInv, TokenInv
    <3>2. CASE connLoop = "base" /\ phase["base"] = "poll"
      <4>1. \A c \in Conns, m \in Loops : ~Listed(m, c)
        BY <1>1, <3>2, Names DEF RoundInv, Listed
      <4> QED
        BY <1>1, <3>2, <4>1, Names DEF RoundInv
    <3> QED
      BY <2>0, <3>1, <3>2
  <2>4. /\ \A c \in Conns : state'[c] = None => state[c] = None /\ c \notin connections
        /\ \A c \in Conns : state'[c] # "Connecting"
        /\ \A c \in Conns : Young(c)' => Young(c)
    BY <1>1, <2>1 DEF Young, None, TokenInv
  <2>5. \A c \in Conns : state[c] = None => c \notin connections
    BY <1>1 DEF YoungInv
  <2>6. RoundInv'
    BY <1>1, <1>2, <1>3, <2>1, <2>5, Names DEF RoundInv, SameQueues
  <2>7. YoungInv'
    BY <1>1, <1>2, <1>3, <2>1, <2>2, <2>3, <2>4, Names DEF YoungInv, SameQueues
  <2>8. TokenInv'
    BY <1>1, <1>2, <1>3, <2>1, <2>2, <2>4, <2>5, Names DEF TokenInv, SameQueues
  <2>9. ChannelInv'
    BY <1>1, <1>2, <1>3, <2>1, <2>2, <2>3, Names DEF ChannelInv, SameQueues
  <2>10. RawInv'
    <3>1. \A c \in Conns \ taken, m \in Loops : Covered(Queue(m), c)
      <4>1. CASE connections = {}
        BY <1>1, <4>1 DEF RawInv
      <4>2. CASE connLoop = "base"
        BY <1>1, <4>2, NoRawCovered DEF RawInv
      <4> QED
        BY <2>0, <4>1, <4>2
    <3>2. \A c \in Conns \ taken : destroyedRuns'[c] = 1 => state'[c] = "Disconnected"
      BY <1>1, <2>1, <2>2 DEF RawInv
    <3> QED
      BY <1>1, <1>2, <1>3, <3>1, <3>2, Names DEF RawInv, SameQueues
  <2> QED
    BY <2>6, <2>7, <2>8, <2>9, <2>10
<1> QED
  BY <1>4, <1>5

\* Init establishes the invariant.
LEMMA ServerInit ==
  Init => ServerInv
<1> SUFFICES ASSUME Init PROVE ServerInv
  OBVIOUS
<1>1. TypeOK
  BY TypeInit
<1>2. \A l \in Loops : Queue(l) = <<>>
  BY DEF Init, Queue
<1>3. /\ \A l \in Loops : \A op, c : ~Queued(l, op, c)
      /\ \A l \in Loops : \A op : Single(Queue(l), op)
      /\ \A l \in Loops : \A c : Covered(Queue(l), c)
      /\ \A l \in Loops : \A c : ~Listed(l, c)
  BY <1>2 DEF Queued, Holding, Single, Covered, Listed, Init
<1>4. RoundInv
  BY <1>3, Names DEF Init, RoundInv
<1>5. YoungInv
  BY <1>3 DEF Init, YoungInv, None
<1>6. TokenInv
  BY <1>3 DEF Init, TokenInv, None
<1>7. ChannelInv
  BY <1>3, Names DEF Init, ChannelInv
<1>8. RawInv
  BY <1>3, Names DEF Init, RawInv
<1> QED
  BY <1>1, <1>4, <1>5, <1>6, <1>7, <1>8 DEF ServerInv

\* Every step keeps the invariant.
LEMMA ServerStep ==
  ServerInv /\ [Next]_vars => ServerInv'
<1> SUFFICES ASSUME ServerInv, [Next]_vars PROVE ServerInv'
  OBVIOUS
<1>1. TypeOK'
  BY TypeStep DEF ServerInv
<1>2. RoundInv' /\ YoungInv' /\ TokenInv' /\ ChannelInv' /\ RawInv'
  <2> DEFINE Kept == RoundInv' /\ YoungInv' /\ TokenInv' /\ ChannelInv' /\ RawInv'
  <2> SUFFICES Kept
    OBVIOUS
  <2>1. CASE QuietNext
    BY <2>1, QuietSteps, QuietKeeps
  <2>2. CASE SetIoLoopNum /\ ~poolStarted
    BY <2>2, SetIoLoopNumKeeps
  <2>3. ASSUME NEW l \in Loops, NEW c \in Conns, NEW f \in Filters, DispatchEof(l, c, f)
        PROVE  Kept
    BY <2>3, DispatchCloseKeeps
  <2>4. ASSUME NEW l \in Loops, NEW c \in Conns, NEW f \in Filters, DispatchForceClose(l, c, f)
        PROVE  Kept
    BY <2>4, DispatchCloseKeeps
  <2>5. ASSUME NEW c \in Conns, Accept(c) PROVE Kept
    BY <2>5, AcceptKeeps
  <2>6. CASE RunRemove
    BY <2>6, RemoveKeeps
  <2>7. CASE RunEstablished
    BY <2>7, EstablishedKeeps
  <2>8. CASE RunDestroyed
    BY <2>8, DestroyedKeeps
  <2>9. CASE RunRaw
    BY <2>9, RawKeeps
  <2>10. ASSUME NEW u \in Users, UserActs(u) PROVE Kept
    BY <2>10, UserActsKeeps
  <2>11. ASSUME NEW t \in Callers, Destroy(t) PROVE Kept
    BY <2>11, DestroyKeeps
  <2>12. CASE StopAct /\ connLoop = "io"
    BY <2>12, StopActKeeps
  <2>13. connLoop = "base" \/ connLoop = "io"
    BY Names DEF ServerInv, TypeOK
  <2> HIDE DEF Kept
  <2> QED
    BY <2>1, <2>2, <2>3, <2>4, <2>5, <2>6, <2>7,
       <2>8, <2>9, <2>10, <2>11, <2>12, <2>13
       DEF Next, LoopStep, PollStep, QuietNext
<1> QED
  BY <1>1, <1>2 DEF ServerInv

\* The invariant of the server.
THEOREM ServerInvHolds ==
  Spec => []ServerInv
<1>1. Init => ServerInv
  BY ServerInit
<1>2. ServerInv /\ [Next]_vars => ServerInv'
  BY ServerStep
<1> QED
  BY <1>1, <1>2, PTL DEF Spec

-----------------------------------------------------------------------------
(* The properties.                                                          *)

\* A functor of the queue is in the batch or among the functors queued since, and a
\* strong one keeps its connection alive.
LEMMA QueuedOwned ==
  ASSUME TypeOK, NEW l \in Loops, NEW op \in StrongOps, NEW c \in Conns, Queued(l, op, c)
  PROVE  Owned(c)
<1> DEFINE b == batch[l]
           p == pending[l]
<1>1. b \in Seq(Functors) /\ p \in Seq(Functors) /\ Queue(l) = b \o p
  BY DEF TypeOK, Queue
<1>2. Owned(c) \/ ~(Captures(b, c) \/ Captures(p, c))
  BY DEF Owned
<1> HIDE DEF b, p
<1>3. PICK i \in 1..Len(b \o p) : (b \o p)[i].op = op /\ (b \o p)[i].conn = c
  BY <1>1 DEF Queued, Holding
<1>4. /\ Len(b) \in Nat /\ Len(p) \in Nat /\ Len(b \o p) = Len(b) + Len(p)
      /\ (b \o p)[i] = IF i <= Len(b) THEN b[i] ELSE p[i - Len(b)]
  BY <1>1, ConcatProperties, LenProperties
<1>5. CASE i <= Len(b)
  <2>1. i \in 1..Len(b) /\ b[i].op = op /\ b[i].conn = c
    BY <1>3, <1>4, <1>5
  <2> QED
    BY <1>2, <2>1 DEF Captures
<1>6. CASE ~(i <= Len(b))
  <2>1. i - Len(b) \in 1..Len(p) /\ p[i - Len(b)].op = op /\ p[i - Len(b)].conn = c
    BY <1>3, <1>4, <1>6
  <2> QED
    BY <1>2, <2>1 DEF Captures
<1> QED
  BY <1>5, <1>6

\* A raw functor in the batch or in pending is in the queue.
LEMMA RawQueued ==
  ASSUME TypeOK, NEW c \in Conns, RawFunctor(c)
  PROVE  \E l \in Loops, i \in Nat :
            i \in 1..Len(Queue(l)) /\ Queue(l)[i].op \in RawOps /\ Queue(l)[i].conn = c
<1>0. PICK l \in Loops : \E q \in {pending[l], batch[l]} : \E i \in 1..Len(q) :
         q[i].op \in RawOps /\ q[i].conn = c
  BY DEF RawFunctor
<1>b. PICK q \in {pending[l], batch[l]} : \E i \in 1..Len(q) :
         q[i].op \in RawOps /\ q[i].conn = c
  BY <1>0
<1>1. PICK i \in 1..Len(q) : q[i].op \in RawOps /\ q[i].conn = c
  BY <1>b
<1> DEFINE b == batch[l]
           p == pending[l]
<1>2. b \in Seq(Functors) /\ p \in Seq(Functors) /\ Queue(l) = b \o p /\ (q = b \/ q = p)
  BY <1>b DEF TypeOK, Queue
<1> HIDE DEF b, p
<1>3. /\ Len(b) \in Nat /\ Len(p) \in Nat /\ Len(b \o p) = Len(b) + Len(p)
      /\ \A j \in 1..Len(b) + Len(p) :
            (b \o p)[j] = IF j <= Len(b) THEN b[j] ELSE p[j - Len(b)]
  BY <1>2, ConcatProperties, LenProperties
<1>4. \E j \in Nat : j \in 1..Len(b \o p) /\ (b \o p)[j].op \in RawOps /\ (b \o p)[j].conn = c
  <2>1. CASE q = b
    <3>1. i \in Nat /\ i \in 1..Len(b) + Len(p) /\ i <= Len(b)
      BY <1>1, <1>3, <2>1
    <3>2. (b \o p)[i] = b[i]
      BY <1>3, <3>1
    <3> QED
      BY <1>1, <1>3, <2>1, <3>1, <3>2
  <2>2. CASE q = p
    <3> DEFINE j == Len(b) + i
    <3>1. j \in Nat /\ j \in 1..Len(b) + Len(p) /\ ~(j <= Len(b)) /\ j - Len(b) = i
      BY <1>1, <1>3, <2>2
    <3>2. (b \o p)[j] = p[i]
      BY <1>3, <3>1
    <3> QED
      BY <1>1, <1>3, <2>2, <3>1, <3>2
  <2> QED
    BY <1>2, <2>1, <2>2
<1> QED
  BY <1>2, <1>4

\* connectDestroyed() is called at most once per connection, whatever closes it, asks
\* for its removal, or destroys the server (removeConnectionInLoop(), ~TcpServer()).
THEOREM AlwaysDestroyedOnce ==
  Spec => []DestroyedOnce
<1>1. ServerInv => DestroyedOnce
  <2> SUFFICES ASSUME ServerInv PROVE DestroyedOnce
    OBVIOUS
  <2>1. TypeOK /\ destroyedRuns \in [Conns -> Nat] /\ connLoop \in Loops
    BY DEF ServerInv, TypeOK
  <2>2. \A c \in Conns : destroyedRuns[c] = 0 \/ destroyedRuns[c] = 1
    BY <2>1 DEF ServerInv, YoungInv, TokenInv
  <2> QED
    BY <2>1, <2>2 DEF DestroyedOnce
<1> QED
  BY <1>1, ServerInvHolds, PTL

\* A channel still in activeChannels_ belongs to a connection that is alive, whatever
\* the handlers before it in the list have closed: the connection is in the map, or its
\* connectDestroyed() is queued and runs after the last entry (removeConnectionInLoop()).
THEOREM ChannelsNeverDangle ==
  Spec => []NoDanglingChannel
<1>1. ServerInv => NoDanglingChannel
  <2> SUFFICES ASSUME ServerInv, NEW l \in Loops, NEW c \in Conns, Listed(l, c)
               PROVE  Owned(c)
    BY DEF NoDanglingChannel, Freed
  <2>1. TypeOK /\ connLoop \in Loops /\ state[c] # None /\ destroyedRuns[c] = 0
    BY DEF ServerInv, TypeOK, YoungInv, Young, ChannelInv
  <2>2. c \in connections \/ Queued(connLoop, "destroyed", c)
    BY <2>1 DEF ServerInv, TokenInv
  <2>3. PICK m \in Loops : m = connLoop
    BY <2>1
  <2>4. CASE Queued(m, "destroyed", c)
    BY <2>1, <2>4, QueuedOwned DEF StrongOps
  <2>5. CASE c \in connections
    BY <2>5 DEF Owned
  <2> QED
    BY <2>2, <2>3, <2>4, <2>5
<1> QED
  BY <1>1, ServerInvHolds, PTL

\* A functor with the raw "this" of a connection that no thread took runs before the
\* connection is freed: connectDestroyed() is behind it in the same queue.
THEOREM RawFunctorsAlwaysSafe ==
  Spec => []RawFunctorsSafe
<1>1. ServerInv => RawFunctorsSafe
  <2> SUFFICES ASSUME ServerInv, NEW c \in Conns \ taken, RawFunctor(c) PROVE Owned(c)
    BY DEF RawFunctorsSafe, Freed
  <2>1. TypeOK
    BY DEF ServerInv
  <2>2. CASE c \in connections
    BY <2>2 DEF Owned
  <2>3. CASE \A l \in Loops : Covered(Queue(l), c)
    <3>1. PICK l \in Loops, i \in Nat :
             i \in 1..Len(Queue(l)) /\ Queue(l)[i].op \in RawOps /\ Queue(l)[i].conn = c
      BY <2>1, RawQueued
    <3>2. Queued(l, "destroyed", c)
      BY <2>3, <3>1 DEF Covered, Queued, Holding
    <3> QED
      BY <2>1, <3>2, QueuedOwned DEF StrongOps
  <2> QED
    BY <2>2, <2>3 DEF ServerInv, RawInv
<1> QED
  BY <1>1, ServerInvHolds, PTL

\* The assertion of ~TcpConnection() holds for every connection that no thread took:
\* state_ is Disconnected when the last reference goes.
THEOREM FreedAlwaysDisconnected ==
  Spec => []FreedIsDisconnected
<1>1. ServerInv => FreedIsDisconnected
  <2> SUFFICES ASSUME ServerInv, NEW c \in Conns \ taken, Freed(c)
               PROVE  state[c] = "Disconnected"
    BY DEF FreedIsDisconnected
  <2>1. TypeOK /\ connLoop \in Loops
    BY DEF ServerInv, TypeOK
  <2>2. state[c] # None /\ c \notin connections
    BY DEF Freed, Owned
  <2>3. ~Queued(connLoop, "destroyed", c)
    BY <2>1, QueuedOwned DEF Freed, StrongOps
  <2>4. destroyedRuns[c] = 1
    BY <2>2, <2>3 DEF ServerInv, TokenInv
  <2> QED
    BY <2>4 DEF ServerInv, RawInv
<1> QED
  BY <1>1, ServerInvHolds, PTL

=============================================================================
