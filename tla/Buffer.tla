------------------------------- MODULE Buffer -------------------------------
(***************************************************************************)
(* Buffer (src/include/hayai/utils/Buffer.h, src/src/utils/Buffer.cc): one *)
(* vector of cells with a reader and a writer index.  Bytes are numbered   *)
(* in the order they are put in; "expected" is the sequence a FIFO byte    *)
(* buffer would hold.  A copy that runs past the end of the vector is      *)
(* undefined behaviour: it sets "overrun", and nothing is said of what     *)
(* comes after it.                                                         *)
(***************************************************************************)
EXTENDS Naturals, Sequences

CONSTANTS
    CheapPrepend,   \* kCheapPrepend (8)
    InitialSize,    \* kInitialSize (1024), also the argument of the constructor
    ExtraSize,      \* sizeof(extrabuf) in readFd() (65536)
    MaxSize,        \* bound: cells of the vector
    MaxBytes        \* bound: bytes ever put in

ASSUME SizesAssumption ==
    /\ CheapPrepend \in Nat
    /\ InitialSize \in Nat
    /\ ExtraSize \in Nat
    /\ MaxSize \in Nat /\ CheapPrepend + InitialSize <= MaxSize
    /\ MaxBytes \in Nat

VARIABLES
    size,           \* buffer_.size()
    readerIndex,    \* readerIndex_
    writerIndex,    \* writerIndex_
    cells,          \* the vector: cells[i] is the byte at index i, 0 before it is written
    expected,       \* history: the readable bytes as a FIFO sequence
    put,            \* history: number of bytes put in
    overrun         \* history: a copy went past the end of the vector

vars == <<size, readerIndex, writerIndex, cells, expected, put, overrun>>

TypeOK ==
    /\ size \in 0..MaxSize
    /\ readerIndex \in Nat
    /\ writerIndex \in Nat
    /\ cells \in [0..(MaxSize - 1) -> 0..MaxBytes]
    /\ expected \in Seq(1..MaxBytes)
    /\ put \in 0..MaxBytes
    /\ overrun \in BOOLEAN

\* Buffer(initialSize)
Init ==
    /\ size = CheapPrepend + InitialSize
    /\ readerIndex = CheapPrepend
    /\ writerIndex = CheapPrepend
    /\ cells = [i \in 0..(MaxSize - 1) |-> 0]
    /\ expected = <<>>
    /\ put = 0
    /\ overrun = FALSE

readableBytes == writerIndex - readerIndex
writableBytes == size - readerIndex

-----------------------------------------------------------------------------
(* The vector and its indexes as a record, so that append() can be applied  *)
(* to the outcome of readFd() and of ensureWritableBytes().                 *)

Current == [size |-> size, r |-> readerIndex, w |-> writerIndex, cells |-> cells]

Become(b) ==
    /\ size' = b.size
    /\ readerIndex' = b.r
    /\ writerIndex' = b.w
    /\ cells' = b.cells

\* The bytes numbered first, first + 1, ... copied to the cells from index at.
CopyIn(c, at, first, len) ==
    [i \in DOMAIN c |-> IF at <= i /\ i < at + len THEN first + (i - at) ELSE c[i]]

MoveToFront_Forgotten(b) == b.cells

\* The std::copy of makeSpace(): the readable bytes to the cheap prepend.
MoveToFront(b) ==
    [i \in DOMAIN b.cells |->
        IF CheapPrepend <= i /\ i < CheapPrepend + (b.w - b.r)
          THEN b.cells[b.r + (i - CheapPrepend)] ELSE b.cells[i]]

MakeSpace(b, len) ==
    IF (b.size - b.r) + b.r < len + CheapPrepend
      THEN [b EXCEPT !.size = b.w + len]
      ELSE [b EXCEPT !.cells = MoveToFront(b),
                     !.r = CheapPrepend,
                     !.w = CheapPrepend + (b.w - b.r)]

NeedsSpace_Never(b, len) == FALSE

\* ensureWritableBytes() compares with writableBytes().
NeedsSpace(b, len) == b.size - b.r < len

EnsureWritable(b, len) == IF NeedsSpace(b, len) THEN MakeSpace(b, len) ELSE b

\* append() of len bytes numbered from first; the second operator tells whether
\* its copy stays inside the vector.
AppendTo(b, first, len) ==
    LET e == EnsureWritable(b, len)
    IN  [e EXCEPT !.cells = CopyIn(e.cells, e.w, first, len), !.w = e.w + len]

AppendFits(b, len) ==
    LET e == EnsureWritable(b, len) IN e.w + len <= e.size

PutBytes(n) ==
    /\ put' = put + n
    /\ expected' = expected \o [i \in 1..n |-> put + i]

Overrun ==
    /\ overrun' = TRUE
    /\ UNCHANGED <<size, readerIndex, writerIndex, cells, expected, put>>

-----------------------------------------------------------------------------
(* Operations.                                                              *)

AppendBytes(len) ==
    /\ ~overrun
    /\ put + len <= MaxBytes
    /\ EnsureWritable(Current, len).size <= MaxSize
    /\ IF AppendFits(Current, len)
         THEN Become(AppendTo(Current, put + 1, len)) /\ PutBytes(len) /\ UNCHANGED overrun
         ELSE Overrun

\* readFd() when readv() returns n: the bytes go to the writable space, what is
\* left to extrabuf, which is then appended.
ReadFd(n) ==
    LET whole == n <= writableBytes
        first == [Current EXCEPT !.cells = CopyIn(cells, writerIndex, put + 1, writableBytes),
                                 !.w = size]
        rest  == n - writableBytes
    IN  /\ ~overrun
        /\ put + n <= MaxBytes
        /\ n <= writableBytes + (IF writableBytes < ExtraSize THEN ExtraSize ELSE 0)
        /\ ~whole => EnsureWritable(first, rest).size <= MaxSize
        /\ \/ /\ whole
              /\ IF writerIndex + n <= size
                   THEN /\ Become([Current EXCEPT !.cells = CopyIn(cells, writerIndex, put + 1, n),
                                                  !.w = writerIndex + n])
                        /\ PutBytes(n)
                        /\ UNCHANGED overrun
                   ELSE Overrun
           \/ /\ ~whole
              /\ IF writerIndex + writableBytes <= size /\ AppendFits(first, rest)
                   THEN /\ Become(AppendTo(first, put + 1 + writableBytes, rest))
                        /\ PutBytes(n)
                        /\ UNCHANGED overrun
                   ELSE Overrun

RetrieveAll_ToZero == readerIndex' = 0 /\ writerIndex' = 0
RetrieveAll == readerIndex' = CheapPrepend /\ writerIndex' = CheapPrepend

\* retrieve(), retrieveAsString() (it copies the bytes first) and, with the
\* whole length, retrieveAll() and retrieveAllAsString().
Retrieve(len) ==
    /\ ~overrun
    /\ len <= readableBytes
    /\ IF len < readableBytes
         THEN readerIndex' = readerIndex + len /\ UNCHANGED writerIndex
         ELSE RetrieveAll
    /\ expected' = SubSeq(expected, len + 1, Len(expected))
    /\ UNCHANGED <<size, cells, put, overrun>>

\* ensureWritableBytes() called by the user.
Reserve(len) ==
    /\ ~overrun
    /\ EnsureWritable(Current, len).size <= MaxSize
    /\ Become(EnsureWritable(Current, len))
    /\ UNCHANGED <<expected, put, overrun>>

\* shrink(): a fresh buffer with room for the readable bytes and the reserve
\* takes them over.
Shrink(reserve) ==
    LET fresh == [size |-> CheapPrepend + InitialSize, r |-> CheapPrepend,
                  w |-> CheapPrepend, cells |-> [i \in DOMAIN cells |-> 0]]
        grown == EnsureWritable(fresh, readableBytes + reserve)
        n     == readableBytes
    IN  /\ ~overrun
        /\ grown.size <= MaxSize
        /\ Become([grown EXCEPT
              !.cells = [i \in DOMAIN cells |->
                           IF CheapPrepend <= i /\ i < CheapPrepend + n
                             THEN cells[readerIndex + (i - CheapPrepend)] ELSE 0],
              !.w = CheapPrepend + n])
        /\ UNCHANGED <<expected, put, overrun>>

Next ==
    \E n \in 0..MaxBytes :
        \/ AppendBytes(n)
        \/ ReadFd(n)
        \/ Retrieve(n)
        \/ Reserve(n)
        \/ Shrink(n)

Spec == Init /\ [][Next]_vars

-----------------------------------------------------------------------------
(* Properties.                                                              *)

\* As long as no copy ran past the end, the buffer is a FIFO of bytes: whatever
\* mix of appends, socket reads, partial retrievals, compactions, growth and
\* shrinking, the readable cells hold the bytes put in and not yet taken out.
ContentIntact ==
    ~overrun => /\ readableBytes = Len(expected)
                /\ \A i \in 1..Len(expected) : cells[readerIndex + i - 1] = expected[i]

\* The state is well typed, and as long as no copy ran past the end, the indexes
\* are in the order of the diagram in Buffer.h and the cheap prepend is kept.
LayoutKept ==
    /\ TypeOK
    /\ ~overrun => /\ CheapPrepend <= readerIndex
                   /\ readerIndex <= writerIndex
                   /\ writerIndex <= size

\* What happens to an empty buffer, the state inputBuffer_ is in before handleRead
\* when the message callback takes everything.  append() stays inside the vector
\* whatever its length.  readFd() overruns it exactly when the socket gives more
\* than the writable bytes and no more than twice as many: what is in extrabuf is
\* appended behind a full vector for which ensureWritableBytes() still counts all
\* its content as writable; only a rest beyond that count makes the vector grow.
EmptyBufferBoundary ==
    [][ readableBytes = 0 =>
        \A n \in 0..MaxBytes :
            /\ AppendBytes(n) => ~overrun'
            /\ ReadFd(n) => (overrun' <=> n \in (writableBytes + 1)..(2 * writableBytes))
      ]_vars

\* The diagram in Buffer.h: no operation writes past the end of the vector.
NeverOverruns == ~overrun
=============================================================================
