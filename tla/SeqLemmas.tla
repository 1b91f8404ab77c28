----------------------------- MODULE SeqLemmas -----------------------------
(* Facts about queues kept in two sequences, shared by the proof modules.   *)
EXTENDS Naturals, Sequences, SequenceTheorems, TLAPS

\* Appending to the second part of a queue appends to the whole.
LEMMA ConcatAppend ==
  ASSUME NEW S, NEW s \in Seq(S), NEW t \in Seq(S), NEW e \in S
  PROVE  s \o Append(t, e) = Append(s \o t, e)
<1>1. Append(t, e) = t \o <<e>> /\ <<e>> \in Seq(S)
  BY AppendIsConcat
<1>2. s \o t \in Seq(S)
  BY ConcatProperties
<1>3. Append(s \o t, e) = (s \o t) \o <<e>>
  BY <1>2, AppendIsConcat
<1> QED
  BY <1>1, <1>3, ConcatAssociative

\* Taking from a non-empty first part takes from the whole.
LEMMA HeadTailConcat ==
  ASSUME NEW S, NEW s \in Seq(S), NEW t \in Seq(S), s # <<>>
  PROVE  /\ s \o t # <<>>
         /\ Head(s \o t) = Head(s)
         /\ Tail(s \o t) = Tail(s) \o t
<1>1. /\ s \o t \in Seq(S) /\ Len(s \o t) = Len(s) + Len(t) /\ Len(s) > 0
      /\ Tail(s) \in Seq(S) /\ Len(Tail(s)) = Len(s) - 1
      /\ Len(s) \in Nat /\ Len(t) \in Nat
  BY ConcatProperties, HeadTailProperties, EmptySeq, LenProperties
<1>2. s \o t # <<>>
  BY <1>1, EmptySeq
<1>3. Head(s \o t) = Head(s)
  BY <1>1, <1>2, ConcatProperties
<1>4. /\ Tail(s \o t) \in Seq(S) /\ Tail(s) \o t \in Seq(S)
      /\ Len(Tail(s \o t)) = Len(Tail(s) \o t)
      /\ Len(Tail(s \o t)) = Len(s) + Len(t) - 1
  BY <1>1, <1>2, ConcatProperties, HeadTailProperties
<1>5. ASSUME NEW i \in 1..Len(Tail(s \o t)) PROVE Tail(s \o t)[i] = (Tail(s) \o t)[i]
  <2>1. Tail(s \o t)[i] = (s \o t)[i + 1]
    BY <1>1, <1>2, HeadTailProperties
  <2>2. (s \o t)[i + 1] = IF i + 1 <= Len(s) THEN s[i + 1] ELSE t[i + 1 - Len(s)]
    BY <1>1, <1>4, ConcatProperties
  <2>3. (Tail(s) \o t)[i] = IF i <= Len(s) - 1 THEN Tail(s)[i] ELSE t[i - (Len(s) - 1)]
    BY <1>1, <1>4, ConcatProperties
  <2>4. i <= Len(s) - 1 => Tail(s)[i] = s[i + 1]
    BY <1>1, HeadTailProperties
  <2> QED
    BY <1>1, <1>4, <2>1, <2>2, <2>3, <2>4
<1> QED
  BY <1>2, <1>3, <1>4, <1>5, SeqEqual

\* The bytes numbered from a + 1 to a + n, as a sequence.
Bytes(a, n) == [i \in 1..n |-> a + i]

\* A sequence of bytes may be cut anywhere.
LEMMA Cut ==
  ASSUME NEW s \in Seq(Nat), NEW n \in 0..Len(s)
  PROVE  /\ SubSeq(s, 1, n) \in Seq(Nat) /\ Len(SubSeq(s, 1, n)) = n
         /\ SubSeq(s, n + 1, Len(s)) \in Seq(Nat)
         /\ Len(SubSeq(s, n + 1, Len(s))) = Len(s) - n
         /\ SubSeq(s, 1, n) \o SubSeq(s, n + 1, Len(s)) = s
<1> DEFINE t == SubSeq(s, 1, n)
           u == SubSeq(s, n + 1, Len(s))
<1>0. Len(s) \in Nat /\ \A i \in 1..Len(s) : s[i] \in Nat
  BY LenProperties, ElementOfSeq
<1>1. t \in Seq(Nat) /\ Len(t) = n /\ \A i \in 1..n : t[i] = s[i]
  <2>1. /\ t \in Seq(Nat) /\ Len(t) = IF 1 <= n THEN n - 1 + 1 ELSE 0
        /\ \A i \in 1..(n - 1 + 1) : t[i] = s[1 + i - 1]
    BY <1>0, SubSeqProperties
  <2> QED
    BY <1>0, <2>1
<1>2. u \in Seq(Nat) /\ Len(u) = Len(s) - n /\ \A i \in 1..(Len(s) - n) : u[i] = s[n + i]
  <2>1. /\ u \in Seq(Nat)
        /\ Len(u) = IF n + 1 <= Len(s) THEN Len(s) - (n + 1) + 1 ELSE 0
        /\ \A i \in 1..(Len(s) - (n + 1) + 1) : u[i] = s[(n + 1) + i - 1]
    BY <1>0, SubSeqProperties
  <2> QED
    BY <1>0, <2>1
<1> HIDE DEF t, u
<1>3. /\ t \o u \in Seq(Nat) /\ Len(t \o u) = Len(s)
      /\ \A i \in 1..Len(s) : (t \o u)[i] = IF i <= n THEN t[i] ELSE u[i - n]
  <2>1. /\ t \o u \in Seq(Nat) /\ Len(t \o u) = Len(t) + Len(u)
        /\ \A i \in 1..(Len(t) + Len(u)) :
              (t \o u)[i] = IF i <= Len(t) THEN t[i] ELSE u[i - Len(t)]
    BY <1>1, <1>2, ConcatProperties
  <2>2. Len(t) + Len(u) = Len(s)
    BY <1>0, <1>1, <1>2
  <2> QED
    BY <1>1, <2>1, <2>2
<1>4. ASSUME NEW i \in 1..Len(t \o u) PROVE (t \o u)[i] = s[i]
  <2>1. CASE i <= n
    BY <2>1, <1>0, <1>1, <1>3
  <2>2. CASE ~(i <= n)
    <3>1. i - n \in 1..(Len(s) - n) /\ n + (i - n) = i /\ i \in 1..Len(s)
      BY <2>2, <1>0, <1>3
    <3> QED
      BY <2>2, <3>1, <1>2, <1>3
  <2> QED
    BY <2>1, <2>2
<1>5. t \o u = s
  BY <1>3, <1>4, SeqEqual
<1> QED
  BY <1>1, <1>2, <1>5 DEF t, u

\* A run of numbered bytes is a sequence.
LEMMA NumberedRun ==
  ASSUME NEW a \in Nat, NEW n \in Nat
  PROVE  /\ Bytes(a, n) \in Seq(Nat) /\ Len(Bytes(a, n)) = n
         /\ \A i \in 1..n : Bytes(a, n)[i] = a + i
<1>1. Bytes(a, n) \in [1..n -> Nat]
  BY DEF Bytes
<1>2. Bytes(a, n) \in Seq(Nat)
  BY <1>1, SeqDef
<1>3. Len(Bytes(a, n)) = n
  BY <1>1, <1>2, LenProperties DEF Bytes
<1> QED
  BY <1>2, <1>3 DEF Bytes

\* Two adjacent runs are one.
LEMMA RunExtended ==
  ASSUME NEW a \in Nat, NEW n \in Nat, NEW m \in Nat
  PROVE  Bytes(a, n) \o Bytes(a + n, m) = Bytes(a, n + m)
<1> DEFINE t == Bytes(a, n)
           u == Bytes(a + n, m)
           v == Bytes(a, n + m)
<1>1. t \in Seq(Nat) /\ Len(t) = n /\ \A i \in 1..n : t[i] = a + i
  BY NumberedRun
<1>2. u \in Seq(Nat) /\ Len(u) = m /\ \A i \in 1..m : u[i] = a + n + i
  <2>1. a + n \in Nat
    OBVIOUS
  <2> QED
    BY <2>1, NumberedRun
<1>3. v \in Seq(Nat) /\ Len(v) = n + m /\ \A i \in 1..(n + m) : v[i] = a + i
  BY NumberedRun
<1> HIDE DEF t, u, v
<1>4. /\ t \o u \in Seq(Nat) /\ Len(t \o u) = n + m
      /\ \A i \in 1..(n + m) : (t \o u)[i] = IF i <= n THEN t[i] ELSE u[i - n]
  BY <1>1, <1>2, ConcatProperties
<1>5. ASSUME NEW i \in 1..Len(t \o u) PROVE (t \o u)[i] = v[i]
  <2>1. CASE i <= n
    BY <2>1, <1>1, <1>3, <1>4
  <2>2. CASE ~(i <= n)
    <3>1. i - n \in 1..m /\ i \in 1..(n + m) /\ a + n + (i - n) = a + i
      BY <2>2, <1>4
    <3> QED
      BY <2>2, <3>1, <1>2, <1>3, <1>4
  <2> QED
    BY <2>1, <2>2
<1>6. t \o u = v
  BY <1>3, <1>4, <1>5, SeqEqual
<1> QED
  BY <1>6 DEF t, u, v

=============================================================================
