---------------------------- MODULE BufferProofs ----------------------------
(***************************************************************************)
(* Proofs about Buffer, for any sizes of the prepend, of the first vector  *)
(* and of extrabuf.                                                        *)
(***************************************************************************)
EXTENDS Buffer, SeqLemmas, SequenceTheorems, TLAPS

-----------------------------------------------------------------------------
(* The inductive invariant.                                                 *)

\* A vector of z cells with indexes r and w has the layout of Buffer.h, its readable
\* bytes are s, and without any the reader index is at the prepend: only
\* retrieveAll() empties a buffer.
Holds(z, r, w, c, s) ==
    /\ z \in 0..MaxSize /\ r \in Nat /\ w \in Nat
    /\ c \in [0..(MaxSize - 1) -> 0..MaxBytes]
    /\ CheapPrepend <= r /\ r <= w /\ w <= z
    /\ w = r => r = CheapPrepend
    /\ s \in Seq(1..MaxBytes)
    /\ w - r = Len(s)
    /\ \A i \in 1..Len(s) : c[r + i - 1] = s[i]

\* The strengthening that makes ContentIntact and LayoutKept inductive: layout and
\* content have to be kept together, since makeSpace() copies what the indexes
\* delimit.  The copy that overruns is not carried out, so both also hold then.
BufferInv ==
    /\ Holds(size, readerIndex, writerIndex, cells, expected)
    /\ put \in 0..MaxBytes
    /\ overrun \in BOOLEAN

-----------------------------------------------------------------------------
\* The bytes put in, as a sequence of the bytes there are.
LEMMA Numbered ==
  ASSUME NEW a \in Nat, NEW n \in Nat, a + n <= MaxBytes
  PROVE  /\ Bytes(a, n) \in Seq(1..MaxBytes)
         /\ Len(Bytes(a, n)) = n
         /\ \A i \in 1..n : Bytes(a, n)[i] = a + i
<1>1. Bytes(a, n) \in [1..n -> 1..MaxBytes]
  BY SizesAssumption DEF SizesAssumption, Bytes
<1>2. Bytes(a, n) \in Seq(1..MaxBytes)
  BY <1>1, SeqDef
<1> QED
  BY <1>2, NumberedRun

\* The vector and its indexes, as the record the operations work on.
Vector(z, r, w, c) == [size |-> z, r |-> r, w |-> w, cells |-> c]

\* makeSpace() keeps the content, whether it grows the vector or moves the
\* readable bytes to the front.
LEMMA EnsureKeeps ==
  ASSUME NEW z, NEW r, NEW w, NEW d, NEW s, Holds(z, r, w, d, s),
         NEW len \in Nat, EnsureWritable(Vector(z, r, w, d), len).size <= MaxSize
  PROVE  \E z2, r2, w2, d2 : /\ EnsureWritable(Vector(z, r, w, d), len) = Vector(z2, r2, w2, d2)
                             /\ Holds(z2, r2, w2, d2, s)
<1> USE SizesAssumption DEF SizesAssumption
<1> DEFINE b == Vector(z, r, w, d)
<1>0. /\ z \in 0..MaxSize /\ r \in Nat /\ w \in Nat
      /\ d \in [0..(MaxSize - 1) -> 0..MaxBytes]
      /\ CheapPrepend <= r /\ r <= w /\ w <= z /\ (w = r => r = CheapPrepend)
      /\ s \in Seq(1..MaxBytes) /\ Len(s) \in Nat /\ w - r = Len(s)
      /\ \A i \in 1..Len(s) : d[r + i - 1] = s[i]
  BY LenProperties DEF Holds
<1>f. b.size = z /\ b.r = r /\ b.w = w /\ b.cells = d
  BY DEF Vector
<1>z. (z - r) + r = z
  BY <1>0
<1>1. CASE ~NeedsSpace(b, len)
  BY <1>1 DEF EnsureWritable
<1>2. CASE NeedsSpace(b, len) /\ z < len + CheapPrepend
  <2>1. EnsureWritable(b, len) = [b EXCEPT !.size = w + len]
    BY <1>f, <1>2, <1>z DEF EnsureWritable, MakeSpace
  <2>2. EnsureWritable(b, len) = Vector(w + len, r, w, d)
    BY <2>1 DEF Vector
  <2>3. w + len \in 0..MaxSize /\ w <= w + len
    BY <2>2, <1>0 DEF Vector
  <2>4. Holds(w + len, r, w, d, s)
    BY <2>3, <1>0 DEF Holds
  <2> QED
    BY <2>2, <2>4
<1>3. CASE NeedsSpace(b, len) /\ ~(z < len + CheapPrepend)
  <2> DEFINE n == w - r
             c == [i \in 0..(MaxSize - 1) |->
                     IF CheapPrepend <= i /\ i < CheapPrepend + n
                       THEN d[r + (i - CheapPrepend)] ELSE d[i]]
  <2>1. c = MoveToFront(b)
    BY <1>0, <1>f DEF MoveToFront
  <2>2. c \in [0..(MaxSize - 1) -> 0..MaxBytes]
    <3>1. ASSUME NEW i \in 0..(MaxSize - 1), CheapPrepend <= i, i < CheapPrepend + n
          PROVE  r + (i - CheapPrepend) \in 0..(MaxSize - 1)
      BY <3>1, <1>0
    <3>2. d \in [0..(MaxSize - 1) -> 0..MaxBytes]
      BY <1>0
    <3> HIDE DEF n
    <3> QED
      BY ONLY <3>1, <3>2
  <2>3. ASSUME NEW i \in 1..Len(s) PROVE c[CheapPrepend + i - 1] = s[i]
    <3>1. /\ CheapPrepend + i - 1 \in 0..(MaxSize - 1)
          /\ CheapPrepend <= CheapPrepend + i - 1
          /\ CheapPrepend + i - 1 < CheapPrepend + n
          /\ r + ((CheapPrepend + i - 1) - CheapPrepend) = r + i - 1
      BY <1>0
    <3>2. c[CheapPrepend + i - 1] = d[r + ((CheapPrepend + i - 1) - CheapPrepend)]
      BY <3>1
    <3> QED
      BY <3>1, <3>2, <1>0
  <2> HIDE DEF c
  <2>4. EnsureWritable(b, len) = [b EXCEPT !.cells = c, !.r = CheapPrepend,
                                           !.w = CheapPrepend + n]
    BY <2>1, <1>f, <1>3, <1>z DEF EnsureWritable, MakeSpace
  <2>5. EnsureWritable(b, len) = Vector(z, CheapPrepend, CheapPrepend + n, c)
    BY <2>4 DEF Vector
  <2>6. /\ CheapPrepend + n \in Nat /\ CheapPrepend <= CheapPrepend + n
        /\ CheapPrepend + n <= z /\ (CheapPrepend + n) - CheapPrepend = Len(s)
    BY <1>0
  <2>7. Holds(z, CheapPrepend, CheapPrepend + n, c, s)
    <3> DEFINE v == CheapPrepend + n
    <3>1. /\ v \in Nat /\ CheapPrepend <= v /\ v <= z /\ v - CheapPrepend = Len(s)
          /\ z \in 0..MaxSize /\ s \in Seq(1..MaxBytes)
      BY <2>6, <1>0
    <3> HIDE DEF v
    <3>2. Holds(z, CheapPrepend, v, c, s)
      BY <2>2, <2>3, <3>1 DEF Holds
    <3> QED
      BY <3>2 DEF v
  <2> QED
    BY <2>5, <2>7
<1> QED
  BY <1>1, <1>2, <1>3

\* A copy behind the readable bytes that stays inside the vector appends.
LEMMA CopyKeeps ==
  ASSUME NEW z, NEW r, NEW w, NEW d, NEW s, Holds(z, r, w, d, s),
         NEW len \in Nat, NEW a \in Nat, a + len <= MaxBytes, w + len <= z
  PROVE  Holds(z, r, w + len, CopyIn(d, w, a + 1, len), s \o Bytes(a, len))
<1> USE SizesAssumption DEF SizesAssumption
<1> DEFINE c == CopyIn(d, w, a + 1, len)
           t == Bytes(a, len)
<1>0. /\ z \in 0..MaxSize /\ r \in Nat /\ w \in Nat
      /\ d \in [0..(MaxSize - 1) -> 0..MaxBytes]
      /\ CheapPrepend <= r /\ r <= w /\ w <= z /\ (w = r => r = CheapPrepend)
      /\ s \in Seq(1..MaxBytes) /\ Len(s) \in Nat /\ w - r = Len(s)
      /\ \A i \in 1..Len(s) : d[r + i - 1] = s[i]
  BY LenProperties DEF Holds
<1>1. c = [i \in 0..(MaxSize - 1) |-> IF w <= i /\ i < w + len THEN a + 1 + (i - w) ELSE d[i]]
  BY <1>0 DEF CopyIn
<1> HIDE DEF c
<1>2. c \in [0..(MaxSize - 1) -> 0..MaxBytes]
  BY <1>0, <1>1
<1>3. /\ t \in Seq(1..MaxBytes) /\ Len(t) = len
      /\ \A i \in 1..len : t[i] = a + i
  BY Numbered
<1> HIDE DEF t
<1>4. /\ s \o t \in Seq(1..MaxBytes) /\ Len(s \o t) = Len(s) + len
      /\ \A i \in 1..(Len(s) + len) :
            (s \o t)[i] = IF i <= Len(s) THEN s[i] ELSE t[i - Len(s)]
  BY <1>0, <1>3, ConcatProperties
<1>5. ASSUME NEW i \in 1..(Len(s) + len) PROVE c[r + i - 1] = (s \o t)[i]
  <2>1. CASE i <= Len(s)
    <3>1. r + i - 1 \in 0..(MaxSize - 1) /\ r + i - 1 < w /\ i \in 1..Len(s)
      BY <1>0, <2>1
    <3>2. c[r + i - 1] = d[r + i - 1]
      BY <3>1, <1>0, <1>1
    <3> QED
      BY <3>1, <3>2, <1>0, <1>4, <2>1
  <2>2. CASE ~(i <= Len(s))
    <3>1. /\ r + i - 1 \in 0..(MaxSize - 1)
          /\ w <= r + i - 1 /\ r + i - 1 < w + len
          /\ a + 1 + ((r + i - 1) - w) = a + (i - Len(s))
          /\ i - Len(s) \in 1..len
      BY <1>0, <2>2
    <3>2. c[r + i - 1] = a + (i - Len(s))
      BY <3>1, <1>1
    <3>3. (s \o t)[i] = a + (i - Len(s))
      BY <3>1, <1>0, <1>3, <1>4, <2>2
    <3> QED
      BY <3>2, <3>3
  <2> QED
    BY <2>1, <2>2
<1>7. \A i \in 1..Len(s \o t) : c[r + i - 1] = (s \o t)[i]
  BY <1>4, <1>5
<1>8. /\ w + len \in Nat /\ r <= w + len /\ (w + len) - r = Len(s \o t)
      /\ w + len = r => r = CheapPrepend
  BY <1>0, <1>4
<1>9. Holds(z, r, w + len, c, s \o t)
  BY <1>0, <1>2, <1>4, <1>7, <1>8 DEF Holds
<1> QED
  BY <1>9 DEF c, t

\* append() whose copy fits.
LEMMA AppendKeeps ==
  ASSUME NEW z, NEW r, NEW w, NEW d, NEW s, Holds(z, r, w, d, s),
         NEW len \in Nat, NEW a \in Nat, a + len <= MaxBytes,
         EnsureWritable(Vector(z, r, w, d), len).size <= MaxSize,
         AppendFits(Vector(z, r, w, d), len)
  PROVE  \E z2, r2, w2, d2 :
            /\ AppendTo(Vector(z, r, w, d), a + 1, len) = Vector(z2, r2, w2, d2)
            /\ Holds(z2, r2, w2, d2, s \o Bytes(a, len))
<1>1. PICK z1, r1, w1, d1 : /\ EnsureWritable(Vector(z, r, w, d), len) = Vector(z1, r1, w1, d1)
                            /\ Holds(z1, r1, w1, d1, s)
  BY EnsureKeeps
<1> DEFINE e == Vector(z1, r1, w1, d1)
<1>2. e.size = z1 /\ e.w = w1 /\ e.cells = d1
  BY DEF Vector
<1>3. w1 + len <= z1
  BY <1>1, <1>2 DEF AppendFits
<1>4. Holds(z1, r1, w1 + len, CopyIn(d1, w1, a + 1, len), s \o Bytes(a, len))
  BY <1>1, <1>3, CopyKeeps
<1>5. AppendTo(Vector(z, r, w, d), a + 1, len) =
        [e EXCEPT !.cells = CopyIn(d1, w1, a + 1, len), !.w = w1 + len]
  BY <1>1, <1>2 DEF AppendTo
<1>6. AppendTo(Vector(z, r, w, d), a + 1, len) =
        Vector(z1, r1, w1 + len, CopyIn(d1, w1, a + 1, len))
  BY <1>5 DEF Vector
<1> QED
  BY <1>4, <1>6

\* Bytes put in in two parts are the bytes put in at once.
LEMMA TwoParts ==
  ASSUME NEW a \in Nat, NEW n \in Nat, NEW m \in Nat, a + n + m <= MaxBytes,
         NEW s \in Seq(1..MaxBytes)
  PROVE  (s \o Bytes(a, n)) \o Bytes(a + n, m)
           = s \o Bytes(a, n + m)
<1> USE SizesAssumption DEF SizesAssumption
<1>0. a + n \in Nat /\ a + n <= MaxBytes
  OBVIOUS
<1>1. Bytes(a, n) \in Seq(1..MaxBytes) /\ Bytes(a + n, m) \in Seq(1..MaxBytes)
  BY <1>0, Numbered
<1>2. (s \o Bytes(a, n)) \o Bytes(a + n, m) = s \o (Bytes(a, n) \o Bytes(a + n, m))
  <2> DEFINE t == Bytes(a, n)
             u == Bytes(a + n, m)
  <2> HIDE DEF t, u
  <2>1. t \in Seq(1..MaxBytes) /\ u \in Seq(1..MaxBytes)
    BY <1>1 DEF t, u
  <2>2. (s \o t) \o u = s \o (t \o u)
    BY <2>1, ConcatAssociative
  <2> QED
    BY <2>2 DEF t, u
<1> QED
  BY <1>2, RunExtended

\* The state after an operation that replaces the vector.
LEMMA BecomeVector ==
  ASSUME NEW z, NEW r, NEW w, NEW d, Become(Vector(z, r, w, d))
  PROVE  size' = z /\ readerIndex' = r /\ writerIndex' = w /\ cells' = d
BY DEF Become, Vector

\* retrieve() moves the reader index, or resets both when everything is taken.
LEMMA RetrieveKeeps ==
  ASSUME NEW z, NEW r, NEW w, NEW d, NEW s, Holds(z, r, w, d, s),
         NEW len \in Nat, len < w - r
  PROVE  Holds(z, r + len, w, d, SubSeq(s, len + 1, Len(s)))
<1> USE SizesAssumption DEF SizesAssumption
<1> DEFINE t == SubSeq(s, len + 1, Len(s))
<1>0. /\ z \in 0..MaxSize /\ r \in Nat /\ w \in Nat
      /\ d \in [0..(MaxSize - 1) -> 0..MaxBytes]
      /\ CheapPrepend <= r /\ r <= w /\ w <= z /\ (w = r => r = CheapPrepend)
      /\ s \in Seq(1..MaxBytes) /\ Len(s) \in Nat /\ w - r = Len(s)
      /\ \A i \in 1..Len(s) : d[r + i - 1] = s[i]
  BY LenProperties DEF Holds
<1>a. s \in Seq(1..MaxBytes) /\ Len(s) \in Nat /\ len < Len(s)
  BY <1>0
<1>1. t \in Seq(1..MaxBytes) /\ Len(t) = Len(s) - len
  BY <1>a, SubSeqProperties
<1>2. \A i \in 1..(Len(s) - len) : t[i] = s[len + i]
  BY <1>a, SubSeqProperties
<1> HIDE DEF t
<1>3. ASSUME NEW i \in 1..Len(t) PROVE d[(r + len) + i - 1] = t[i]
  <2>1. len + i \in 1..Len(s) /\ (r + len) + i - 1 = r + (len + i) - 1
    BY <1>0, <1>1
  <2> QED
    BY <2>1, <1>0, <1>1, <1>2
<1>4. /\ r + len \in Nat /\ CheapPrepend <= r + len /\ r + len <= w
      /\ w - (r + len) = Len(t) /\ w # r + len
  <2>1. r \in Nat /\ w \in Nat /\ CheapPrepend <= r /\ Len(t) = (w - r) - len
    BY <1>0, <1>1
  <2> QED
    BY <2>1
<1>5. Holds(z, r + len, w, d, t)
  BY <1>0, <1>1, <1>3, <1>4 DEF Holds
<1> QED
  BY <1>5 DEF t


\* With no readable byte, ensureWritableBytes() does make the space asked for:
\* the error in writableBytes() is the number of readable bytes.
LEMMA EmptyFits ==
  ASSUME NEW z \in Nat, NEW r \in Nat, NEW d, NEW len \in Nat,
         CheapPrepend <= r, r <= z
  PROVE  \E z2, r2, d2 :
            /\ z2 \in Nat /\ r2 \in Nat
            /\ EnsureWritable(Vector(z, r, r, d), len) = Vector(z2, r2, r2, d2)
            /\ r2 + len <= z2
            /\ r = CheapPrepend => r2 = CheapPrepend
<1> USE SizesAssumption DEF SizesAssumption
<1> DEFINE b == Vector(z, r, r, d)
<1>f. b.size = z /\ b.r = r /\ b.w = r /\ b.cells = d
  BY DEF Vector
<1>z. (z - r) + r = z
  OBVIOUS
<1>1. CASE ~NeedsSpace(b, len)
  <2>1. EnsureWritable(b, len) = b
    BY <1>1 DEF EnsureWritable
  <2>2. r + len <= z
    BY <1>1, <1>f DEF NeedsSpace
  <2> QED
    BY <2>1, <2>2
<1>2. CASE NeedsSpace(b, len) /\ z < len + CheapPrepend
  <2>1. EnsureWritable(b, len) = [b EXCEPT !.size = r + len]
    BY <1>f, <1>2, <1>z DEF EnsureWritable, MakeSpace
  <2>2. EnsureWritable(b, len) = Vector(r + len, r, r, d)
    BY <2>1 DEF Vector
  <2>3. r + len \in Nat /\ r + len <= r + len
    OBVIOUS
  <2> QED
    BY <2>2, <2>3
<1>3. CASE NeedsSpace(b, len) /\ ~(z < len + CheapPrepend)
  <2>0. CheapPrepend + (r - r) = CheapPrepend
    OBVIOUS
  <2>1. EnsureWritable(b, len) = [b EXCEPT !.cells = MoveToFront(b), !.r = CheapPrepend,
                                           !.w = CheapPrepend]
    BY <1>f, <1>3, <1>z, <2>0 DEF EnsureWritable, MakeSpace
  <2>2. EnsureWritable(b, len) = Vector(z, CheapPrepend, CheapPrepend, MoveToFront(b))
    BY <2>1 DEF Vector
  <2>3. CheapPrepend + len <= z
    BY <1>3
  <2> QED
    BY <2>2, <2>3
<1> QED
  BY <1>1, <1>2, <1>3

\* The cells of the fresh vector of shrink().
FreshCells(d, r, n) ==
  [i \in 0..(MaxSize - 1) |->
     IF CheapPrepend <= i /\ i < CheapPrepend + n THEN d[r + (i - CheapPrepend)] ELSE 0]

\* shrink() hands the readable bytes to the fresh vector unchanged.
LEMMA ShrinkKeeps ==
  ASSUME NEW z, NEW r, NEW w, NEW d, NEW s, Holds(z, r, w, d, s),
         NEW z2 \in Nat, z2 <= MaxSize, CheapPrepend + (w - r) <= z2
  PROVE  Holds(z2, CheapPrepend, CheapPrepend + (w - r),
               FreshCells(d, r, w - r), s)
<1> USE SizesAssumption DEF SizesAssumption
<1> DEFINE n == w - r
           c == [i \in 0..(MaxSize - 1) |->
                   IF CheapPrepend <= i /\ i < CheapPrepend + n
                     THEN d[r + (i - CheapPrepend)] ELSE 0]
<1>0. /\ z \in 0..MaxSize /\ r \in Nat /\ w \in Nat
      /\ d \in [0..(MaxSize - 1) -> 0..MaxBytes]
      /\ CheapPrepend <= r /\ r <= w /\ w <= z /\ (w = r => r = CheapPrepend)
      /\ s \in Seq(1..MaxBytes) /\ Len(s) \in Nat /\ w - r = Len(s)
      /\ \A i \in 1..Len(s) : d[r + i - 1] = s[i]
  BY LenProperties DEF Holds
<1>1. c \in [0..(MaxSize - 1) -> 0..MaxBytes]
  BY <1>0
<1>2. ASSUME NEW i \in 1..Len(s) PROVE c[CheapPrepend + i - 1] = s[i]
  <2>1. /\ CheapPrepend + i - 1 \in 0..(MaxSize - 1)
        /\ CheapPrepend <= CheapPrepend + i - 1
        /\ CheapPrepend + i - 1 < CheapPrepend + n
        /\ r + ((CheapPrepend + i - 1) - CheapPrepend) = r + i - 1
    BY <1>0
  <2>2. c[CheapPrepend + i - 1] = d[r + ((CheapPrepend + i - 1) - CheapPrepend)]
    BY <2>1
  <2> QED
    BY <2>1, <2>2, <1>0
<1> HIDE DEF c
<1>3. /\ CheapPrepend + n \in Nat /\ CheapPrepend <= CheapPrepend + n
      /\ CheapPrepend + n <= z2 /\ (CheapPrepend + n) - CheapPrepend = Len(s)
  BY <1>0
<1>4. Holds(z2, CheapPrepend, CheapPrepend + n, c, s)
  BY <1>0, <1>1, <1>2, <1>3 DEF Holds
<1> QED
  BY <1>4 DEF c, FreshCells


\* What the operations have in common: the state as a vector, and the overrun.
LEMMA CurrentVector == Current = Vector(size, readerIndex, writerIndex, cells)
BY DEF Current, Vector

\* A copy that would overrun is not carried out, and changes nothing else.
LEMMA OverrunKeeps == BufferInv /\ Overrun => BufferInv'
BY DEF BufferInv, Overrun, Holds

\* append() keeps the invariant.
LEMMA AppendStep ==
  ASSUME BufferInv, NEW n \in 0..MaxBytes, AppendBytes(n)
  PROVE  BufferInv'
<1> USE SizesAssumption DEF SizesAssumption
<1>1. CASE ~AppendFits(Current, n)
  BY <1>1, OverrunKeeps DEF AppendBytes
<1>2. CASE AppendFits(Current, n)
  <2>1. /\ Holds(size, readerIndex, writerIndex, cells, expected)
        /\ put \in Nat /\ n \in Nat /\ put + n <= MaxBytes /\ put + n \in 0..MaxBytes
        /\ overrun \in BOOLEAN
    BY DEF BufferInv, AppendBytes
  <2>2. PICK z2, r2, w2, d2 :
          /\ AppendTo(Current, put + 1, n) = Vector(z2, r2, w2, d2)
          /\ Holds(z2, r2, w2, d2, expected \o Bytes(put, n))
    BY <1>2, <2>1, CurrentVector, AppendKeeps DEF AppendBytes
  <2>3. /\ Become(Vector(z2, r2, w2, d2))
        /\ put' = put + n /\ expected' = expected \o Bytes(put, n)
        /\ overrun' = overrun
    BY <1>2, <2>2 DEF AppendBytes, PutBytes, Bytes
  <2>4. Holds(size', readerIndex', writerIndex', cells', expected')
    BY <2>2, <2>3, BecomeVector
  <2> QED
    BY <2>1, <2>3, <2>4 DEF BufferInv, Holds
<1> QED
  BY <1>1, <1>2

\* readFd(): the copy into the writable space is an append of its own, and the
\* second part, from extrabuf, is appended to its outcome.
LEMMA ReadFdStep ==
  ASSUME BufferInv, NEW n \in 0..MaxBytes, ReadFd(n)
  PROVE  BufferInv'
<1> DEFINE k == writableBytes
           rest == n - k
           c1 == CopyIn(cells, writerIndex, put + 1, k)
           first == [Current EXCEPT !.cells = c1, !.w = size]
<1>0. /\ Holds(size, readerIndex, writerIndex, cells, expected)
      /\ put \in Nat /\ n \in Nat /\ put + n <= MaxBytes /\ put + n \in 0..MaxBytes
      /\ overrun \in BOOLEAN
  BY SizesAssumption DEF SizesAssumption, BufferInv, ReadFd
<1>t. /\ size \in Nat /\ readerIndex \in Nat /\ writerIndex \in Nat /\ k \in Nat
      /\ k = size - readerIndex
      /\ readerIndex <= writerIndex /\ writerIndex <= size
      /\ expected \in Seq(1..MaxBytes)
  BY <1>0, SizesAssumption DEF SizesAssumption, Holds, writableBytes
<1>1. CASE Overrun
  BY <1>1, OverrunKeeps
<1>2. CASE /\ writerIndex + n <= size
           /\ Become([Current EXCEPT !.cells = CopyIn(cells, writerIndex, put + 1, n),
                                     !.w = writerIndex + n])
           /\ PutBytes(n)
           /\ UNCHANGED overrun
  <2>1. Become(Vector(size, readerIndex, writerIndex + n, CopyIn(cells, writerIndex, put + 1, n)))
    <3> DEFINE c == CopyIn(cells, writerIndex, put + 1, n)
               v == writerIndex + n
               b == [Current EXCEPT !.cells = c, !.w = v]
    <3>1. b = [Vector(size, readerIndex, writerIndex, cells) EXCEPT !.cells = c, !.w = v]
      BY CurrentVector
    <3>2. Become(b)
      BY <1>2
    <3> HIDE DEF b, c, v
    <3>3. b = Vector(size, readerIndex, v, c)
      BY <3>1 DEF Vector
    <3> QED
      BY <3>2, <3>3 DEF c, v
  <2>2. Holds(size, readerIndex, writerIndex + n, CopyIn(cells, writerIndex, put + 1, n),
              expected \o Bytes(put, n))
    BY <1>0, <1>2, CopyKeeps
  <2>3. put' = put + n /\ expected' = expected \o Bytes(put, n) /\ overrun' = overrun
    BY <1>2 DEF PutBytes, Bytes
  <2>4. Holds(size', readerIndex', writerIndex', cells', expected')
    BY <2>1, <2>2, <2>3, BecomeVector
  <2> QED
    BY <1>0, <2>3, <2>4 DEF BufferInv, Holds
<1>3. CASE /\ ~(n <= k)
           /\ writerIndex + k <= size /\ AppendFits(first, rest)
           /\ EnsureWritable(first, rest).size <= MaxSize
           /\ Become(AppendTo(first, put + 1 + k, rest))
           /\ PutBytes(n)
           /\ UNCHANGED overrun
  <2>0. first = Vector(size, readerIndex, size, c1)
    <3>1. first = [Vector(size, readerIndex, writerIndex, cells) EXCEPT !.cells = c1, !.w = size]
      BY CurrentVector
    <3> HIDE DEF c1, first
    <3> QED
      BY <3>1 DEF Vector
  <2> HIDE DEF k
  <2>1. rest \in Nat /\ k + rest = n /\ put + k <= MaxBytes /\ put + k \in Nat
    <3>1. /\ put \in Nat /\ n \in Nat /\ put + n <= MaxBytes /\ k \in Nat /\ ~(n <= k)
          /\ MaxBytes \in Nat
      BY <1>0, <1>t, <1>3, SizesAssumption DEF SizesAssumption
    <3> QED
      BY <3>1
  <2> HIDE DEF rest
  <2>2. /\ (put + k) + rest <= MaxBytes /\ writerIndex + k = size
        /\ put + 1 + k = (put + k) + 1
    <3>1. /\ put \in Nat /\ n \in Nat /\ put + n <= MaxBytes /\ k \in Nat /\ MaxBytes \in Nat
          /\ size \in Nat /\ readerIndex \in Nat /\ writerIndex \in Nat
          /\ k = size - readerIndex /\ readerIndex <= writerIndex /\ writerIndex + k <= size
      BY <1>0, <1>t, <1>3, SizesAssumption DEF SizesAssumption
    <3> QED
      BY <2>1, <3>1
  <2>3. Holds(size, readerIndex, writerIndex + k, CopyIn(cells, writerIndex, put + 1, k),
              expected \o Bytes(put, k))
    <3>1. /\ Holds(size, readerIndex, writerIndex, cells, expected)
          /\ k \in Nat /\ put \in Nat /\ put + k <= MaxBytes /\ writerIndex + k <= size
      BY <1>0, <1>t, <1>3, <2>1
    <3> QED
      BY <3>1, CopyKeeps
  <2>4. Holds(size, readerIndex, size, c1, expected \o Bytes(put, k))
    BY <2>2, <2>3
  <2> HIDE DEF c1, first
  <2>5. PICK z2, r2, w2, d2 :
          /\ AppendTo(first, (put + k) + 1, rest) = Vector(z2, r2, w2, d2)
          /\ Holds(z2, r2, w2, d2, (expected \o Bytes(put, k))
                                     \o Bytes(put + k, rest))
    <3>1. /\ AppendFits(Vector(size, readerIndex, size, c1), rest)
          /\ EnsureWritable(Vector(size, readerIndex, size, c1), rest).size <= MaxSize
      BY <1>3, <2>0
    <3>2. rest \in Nat /\ put + k \in Nat /\ (put + k) + rest <= MaxBytes
      BY <2>1, <2>2
    <3> QED
      <4> DEFINE a == put + k
                 q == expected \o Bytes(put, k)
      <4>1. /\ a \in Nat /\ a + rest <= MaxBytes /\ rest \in Nat
            /\ Holds(size, readerIndex, size, c1, q)
        BY <2>4, <3>2
      <4> HIDE DEF a, q
      <4>2. \E z2, r2, w2, d2 :
               /\ AppendTo(Vector(size, readerIndex, size, c1), a + 1, rest) = Vector(z2, r2, w2, d2)
               /\ Holds(z2, r2, w2, d2, q \o Bytes(a, rest))
        BY <3>1, <4>1, AppendKeeps, SizesAssumption DEF SizesAssumption
      <4> QED
        BY <2>0, <4>2 DEF a, q
  <2>6. (expected \o Bytes(put, k)) \o Bytes(put + k, rest)
          = expected \o Bytes(put, n)
    <3>1. /\ put \in Nat /\ k \in Nat /\ rest \in Nat /\ put + k + rest <= MaxBytes
          /\ expected \in Seq(1..MaxBytes)
      BY <1>0, <1>t, <2>1, <2>2
    <3>2. (expected \o Bytes(put, k)) \o Bytes(put + k, rest)
            = expected \o Bytes(put, k + rest)
      BY <3>1, TwoParts
    <3> QED
      BY <2>1, <3>2
  <2>7. put' = put + n /\ expected' = expected \o Bytes(put, n) /\ overrun' = overrun
    BY <1>3 DEF PutBytes, Bytes
  <2>8. Become(Vector(z2, r2, w2, d2))
    BY <1>3, <2>2, <2>5
  <2>9. Holds(size', readerIndex', writerIndex', cells', expected')
    BY <2>5, <2>6, <2>7, <2>8, BecomeVector
  <2> QED
    BY <1>0, <2>7, <2>9 DEF BufferInv, Holds
<1> QED
  BY <1>1, <1>2, <1>3 DEF ReadFd


\* retrieve() keeps the invariant, for part of the bytes and for all of them.
LEMMA RetrieveStep ==
  ASSUME BufferInv, NEW n \in 0..MaxBytes, Retrieve(n)
  PROVE  BufferInv'
<1> USE SizesAssumption DEF SizesAssumption
<1>0. /\ Holds(size, readerIndex, writerIndex, cells, expected)
      /\ n \in Nat /\ put \in 0..MaxBytes /\ overrun \in BOOLEAN
  BY DEF BufferInv
<1>t. /\ size \in 0..MaxSize /\ readerIndex \in Nat /\ writerIndex \in Nat
      /\ cells \in [0..(MaxSize - 1) -> 0..MaxBytes]
      /\ CheapPrepend <= readerIndex /\ readerIndex <= writerIndex /\ writerIndex <= size
      /\ expected \in Seq(1..MaxBytes) /\ Len(expected) \in Nat
      /\ writerIndex - readerIndex = Len(expected)
  BY <1>0, LenProperties DEF Holds
<1>u. /\ size' = size /\ cells' = cells /\ put' = put /\ overrun' = overrun
      /\ expected' = SubSeq(expected, n + 1, Len(expected))
  BY DEF Retrieve
<1>1. CASE n < readableBytes
  <2>1. readerIndex' = readerIndex + n /\ writerIndex' = writerIndex
    BY <1>1 DEF Retrieve
  <2>2. Holds(size, readerIndex + n, writerIndex, cells, SubSeq(expected, n + 1, Len(expected)))
    BY <1>0, <1>1, RetrieveKeeps DEF readableBytes
  <2>3. Holds(size', readerIndex', writerIndex', cells', expected')
    BY <1>u, <2>1, <2>2
  <2> QED
    BY <1>0, <1>u, <2>3 DEF BufferInv, Holds
<1>2. CASE ~(n < readableBytes)
  <2>1. readerIndex' = CheapPrepend /\ writerIndex' = CheapPrepend /\ n = Len(expected)
    BY <1>2, <1>t DEF Retrieve, RetrieveAll, readableBytes
  <2>2. SubSeq(expected, n + 1, Len(expected)) = <<>>
    BY <2>1, <1>t, SubSeqEmpty
  <2>3. <<>> \in Seq(1..MaxBytes) /\ Len(<<>>) = 0
    BY EmptySeq
  <2>4. Holds(size, CheapPrepend, CheapPrepend, cells, <<>>)
    BY <2>3, <1>t DEF Holds
  <2>5. Holds(size', readerIndex', writerIndex', cells', expected')
    BY <1>u, <2>1, <2>2, <2>4
  <2> QED
    BY <1>0, <1>u, <2>5 DEF BufferInv, Holds
<1> QED
  BY <1>1, <1>2

\* ensureWritableBytes() called by the user keeps the invariant.
LEMMA ReserveStep ==
  ASSUME BufferInv, NEW n \in 0..MaxBytes, Reserve(n)
  PROVE  BufferInv'
<1>0. /\ Holds(size, readerIndex, writerIndex, cells, expected)
      /\ n \in Nat /\ put \in 0..MaxBytes /\ overrun \in BOOLEAN
  BY DEF BufferInv
<1>1. PICK z2, r2, w2, d2 : /\ EnsureWritable(Current, n) = Vector(z2, r2, w2, d2)
                            /\ Holds(z2, r2, w2, d2, expected)
  BY <1>0, CurrentVector, EnsureKeeps DEF Reserve
<1>2. /\ Become(Vector(z2, r2, w2, d2))
      /\ expected' = expected /\ put' = put /\ overrun' = overrun
  BY <1>1 DEF Reserve
<1>3. Holds(size', readerIndex', writerIndex', cells', expected')
  BY <1>1, <1>2, BecomeVector
<1> QED
  BY <1>0, <1>2, <1>3 DEF BufferInv, Holds

\* shrink() keeps the invariant: what ensureWritableBytes() makes of the fresh
\* vector has room for the readable bytes.
LEMMA ShrinkStep ==
  ASSUME BufferInv, NEW n \in 0..MaxBytes, Shrink(n)
  PROVE  BufferInv'
<1> USE SizesAssumption DEF SizesAssumption
<1> DEFINE zeros == [i \in DOMAIN cells |-> 0]
           fresh == [size |-> CheapPrepend + InitialSize, r |-> CheapPrepend,
                     w |-> CheapPrepend, cells |-> zeros]
           m     == readableBytes
           grown == EnsureWritable(fresh, m + n)
           moved == [i \in DOMAIN cells |->
                       IF CheapPrepend <= i /\ i < CheapPrepend + m
                         THEN cells[readerIndex + (i - CheapPrepend)] ELSE 0]
           b     == [grown EXCEPT !.cells = moved, !.w = CheapPrepend + m]
<1>0. /\ Holds(size, readerIndex, writerIndex, cells, expected)
      /\ n \in Nat /\ put \in 0..MaxBytes /\ overrun \in BOOLEAN
  BY DEF BufferInv
<1>t. /\ m \in Nat /\ m + n \in Nat /\ m = writerIndex - readerIndex
      /\ DOMAIN cells = 0..(MaxSize - 1)
  BY <1>0 DEF Holds, readableBytes
<1>u. /\ Become(b) /\ grown.size <= MaxSize
      /\ expected' = expected /\ put' = put /\ overrun' = overrun
  BY DEF Shrink
<1>1. fresh = Vector(CheapPrepend + InitialSize, CheapPrepend, CheapPrepend, zeros)
  BY DEF Vector
<1>m. moved = FreshCells(cells, readerIndex, writerIndex - readerIndex)
  BY <1>t DEF FreshCells
<1> HIDE DEF m, zeros, moved, fresh
<1>2. PICK z2, r2, d2 :
        /\ z2 \in Nat /\ r2 \in Nat
        /\ grown = Vector(z2, r2, r2, d2) /\ r2 + (m + n) <= z2 /\ r2 = CheapPrepend
  <2>1. /\ CheapPrepend + InitialSize \in Nat /\ CheapPrepend \in Nat
        /\ CheapPrepend <= CheapPrepend /\ CheapPrepend <= CheapPrepend + InitialSize
    OBVIOUS
  <2> QED
    BY <1>1, <1>t, <2>1, EmptyFits
<1>3. z2 <= MaxSize
  BY <1>u, <1>2 DEF Vector
<1>4. CheapPrepend + (writerIndex - readerIndex) <= z2
  BY <1>2, <1>t
<1>5. Holds(z2, CheapPrepend, CheapPrepend + m, moved, expected)
  <2>1. Holds(z2, CheapPrepend, CheapPrepend + (writerIndex - readerIndex),
              FreshCells(cells, readerIndex, writerIndex - readerIndex), expected)
    BY <1>0, <1>2, <1>3, <1>4, ShrinkKeeps
  <2> QED
    BY <2>1, <1>t, <1>m
<1>6. b = [Vector(z2, CheapPrepend, CheapPrepend, d2) EXCEPT !.cells = moved,
                                                            !.w = CheapPrepend + m]
  BY <1>2
<1> HIDE DEF b, grown
<1>7. b = Vector(z2, CheapPrepend, CheapPrepend + m, moved)
  BY <1>6 DEF Vector
<1>8. Holds(size', readerIndex', writerIndex', cells', expected')
  BY <1>5, <1>7, <1>u, BecomeVector
<1> QED
  BY <1>0, <1>u, <1>8 DEF BufferInv, Holds

\* The constructor establishes the invariant.
LEMMA BufferInit == Init => BufferInv
<1> USE SizesAssumption DEF SizesAssumption
<1> SUFFICES ASSUME Init PROVE BufferInv
  OBVIOUS
<1>1. <<>> \in Seq(1..MaxBytes) /\ Len(<<>>) = 0
  BY EmptySeq
<1>2. Holds(size, readerIndex, writerIndex, cells, expected)
  BY <1>1 DEF Init, Holds
<1>3. put \in 0..MaxBytes
  BY DEF Init
<1>4. overrun \in BOOLEAN
  BY Zenon DEF Init
<1> QED
  BY <1>2, <1>3, <1>4 DEF BufferInv

\* Layout and content are kept together by every operation.
LEMMA BufferInvariant == Spec => []BufferInv
<1>1. BufferInv /\ [Next]_vars => BufferInv'
  <2> SUFFICES ASSUME BufferInv, [Next]_vars PROVE BufferInv'
    OBVIOUS
  <2>1. CASE UNCHANGED vars
    BY <2>1 DEF vars, BufferInv, Holds
  <2> QED
    BY <2>1, AppendStep, ReadFdStep, RetrieveStep, ReserveStep, ShrinkStep DEF Next
<1> QED
  BY BufferInit, <1>1, PTL DEF Spec

\* For any sizes of the prepend, the first vector and extrabuf: as long as no copy
\* ran past the end of the vector, the buffer is a FIFO of bytes.
THEOREM AlwaysFifo == Spec => []ContentIntact
<1>1. BufferInv => ContentIntact
  BY DEF BufferInv, Holds, ContentIntact, readableBytes
<1> QED
  BY BufferInvariant, <1>1, PTL

\* The indexes stay in the order of the diagram of Buffer.h.
THEOREM LayoutAlwaysKept == Spec => []LayoutKept
<1>1. BufferInv => LayoutKept
  BY DEF BufferInv, Holds, LayoutKept, TypeOK
<1> QED
  BY BufferInvariant, <1>1, PTL

\* A vector that is full from the prepend on takes an append() just when it is
\* longer than the whole content: then the vector grows, else nothing is done.
LEMMA FullVectorFits ==
  ASSUME NEW z \in Nat, NEW c, NEW len \in Nat, CheapPrepend <= z, len > 0
  PROVE  AppendFits(Vector(z, CheapPrepend, z, c), len) <=> len > z - CheapPrepend
<1> USE SizesAssumption DEF SizesAssumption
<1> DEFINE b == Vector(z, CheapPrepend, z, c)
<1>f. b.size = z /\ b.r = CheapPrepend /\ b.w = z
  BY DEF Vector
<1>1. CASE len > z - CheapPrepend
  <2>1. EnsureWritable(b, len) = [b EXCEPT !.size = z + len]
    BY <1>f, <1>1 DEF EnsureWritable, NeedsSpace, MakeSpace
  <2>2. EnsureWritable(b, len).w + len <= EnsureWritable(b, len).size
    BY <2>1, <1>f DEF Vector
  <2> QED
    BY <1>1, <2>2 DEF AppendFits
<1>2. CASE ~(len > z - CheapPrepend)
  <2>1. EnsureWritable(b, len) = b
    BY <1>f, <1>2 DEF EnsureWritable, NeedsSpace
  <2> QED
    BY <1>2, <2>1, <1>f DEF AppendFits
<1> QED
  BY <1>1, <1>2

\* An empty buffer takes any append(), and readFd() overruns it exactly between one
\* and two times its writable bytes, for any sizes of the prepend, the first vector
\* and extrabuf.
THEOREM EmptyBoundary == Spec => EmptyBufferBoundary
<1> DEFINE Exact == readableBytes = 0 =>
             \A n \in 0..MaxBytes :
                /\ AppendBytes(n) => ~overrun'
                /\ ReadFd(n) => (overrun' <=> n \in (writableBytes + 1)..(2 * writableBytes))
<1>1. BufferInv /\ [Next]_vars => [Exact]_vars
  <2> SUFFICES ASSUME BufferInv, readableBytes = 0, NEW n \in 0..MaxBytes
               PROVE  /\ AppendBytes(n) => ~overrun'
                      /\ ReadFd(n) =>
                            (overrun' <=> n \in (writableBytes + 1)..(2 * writableBytes))
    OBVIOUS
  <2> USE SizesAssumption DEF SizesAssumption
  <2>0. /\ size \in Nat /\ readerIndex = CheapPrepend /\ writerIndex = CheapPrepend
        /\ CheapPrepend <= size /\ n \in Nat
    BY DEF BufferInv, Holds, readableBytes
  <2>1. ASSUME AppendBytes(n) PROVE ~overrun'
    <3>1. Current = Vector(size, CheapPrepend, CheapPrepend, cells)
      BY <2>0, CurrentVector
    <3>2. PICK z2, r2, d2 :
            EnsureWritable(Current, n) = Vector(z2, r2, r2, d2) /\ r2 + n <= z2
      BY <2>0, <3>1, EmptyFits
    <3>3. AppendFits(Current, n)
      BY <3>2 DEF AppendFits, Vector
    <3> QED
      BY <2>1, <3>3 DEF AppendBytes
  <2>2. ASSUME ReadFd(n), n <= writableBytes
        PROVE  overrun' <=> n \in (writableBytes + 1)..(2 * writableBytes)
    <3>1. writerIndex + n <= size /\ n \notin (writableBytes + 1)..(2 * writableBytes)
      BY <2>0, <2>2 DEF writableBytes
    <3> QED
      BY <2>2, <3>1 DEF ReadFd
  <2>3. ASSUME ReadFd(n), ~(n <= writableBytes)
        PROVE  overrun' <=> n \in (writableBytes + 1)..(2 * writableBytes)
    <3> DEFINE k == writableBytes
               c == CopyIn(cells, writerIndex, put + 1, k)
               first == [Current EXCEPT !.cells = c, !.w = size]
               rest == n - k
    <3>1. k \in Nat /\ k = size - CheapPrepend /\ writerIndex + k <= size /\ rest \in Nat
      BY <2>0, <2>3 DEF writableBytes
    <3>2. first = Vector(size, CheapPrepend, size, c)
      <4>1. first = [Vector(size, CheapPrepend, CheapPrepend, cells) EXCEPT !.cells = c,
                                                                             !.w = size]
        BY <2>0, CurrentVector
      <4> HIDE DEF c, first
      <4> QED
        BY <4>1 DEF Vector
    <3>3. /\ AppendFits(first, rest) => ~overrun'
          /\ ~AppendFits(first, rest) => overrun'
      BY <2>3, <3>1 DEF ReadFd, Overrun
    <3>4. AppendFits(first, rest) <=> rest > k
      BY <2>0, <2>3, <3>1, <3>2, FullVectorFits
    <3>5. rest > k <=> n \notin (k + 1)..(2 * k)
      BY <2>0, <2>3, <3>1
    <3> QED
      BY <3>3, <3>4, <3>5
  <2> QED
    BY <2>1, <2>2, <2>3
<1> QED
  BY BufferInvariant, <1>1, PTL DEF Spec, EmptyBufferBoundary

=============================================================================
