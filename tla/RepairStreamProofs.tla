--------------------------- MODULE RepairStreamProofs ---------------------------
(***************************************************************************)
(* One repair connection with frames, requests, buffers and sockets of any  *)
(* size: whatever is cut where and however often the connection is          *)
(* replaced, both sides keep reading at the start of what they parse.       *)
(***************************************************************************)
EXTENDS RepairStream, SequenceTheorems, Numbers, TLAPS

Sent == buffer \o toClient \o response

(* A connection that is not open has no thread and nothing on its way to    *)
(* the server; one that is gone has left nothing behind.                    *)
LinkInv ==
  /\ server = "writing" <=> response # <<>>
  /\ link # "open" => server = "idle" /\ got = 0 /\ toServer = 0
  /\ link = "none" => toClient = <<>> /\ buffer = <<>>
  /\ client # "write" => unwritten = 0

(* While the connection is open the last frame on its way is whole.         *)
FrameInv == Framed(Sent) /\ (link = "open" => Complete(Sent))

RepairInv == TypeOK /\ LinkInv /\ FrameInv /\ RequestsAreFramed /\ RoomIsRegained

-----------------------------------------------------------------------------
(* Numbers.                                                                 *)

LEMMA Sizes ==
  /\ HeaderSize \in Nat \ {0} /\ MessageSize \in Nat \ {0} /\ RequestSize \in Nat \ {0}
  /\ OddSize \in Nat \ {0} /\ NumBuckets \in Nat \ {0}
  /\ BufferCap \in Nat /\ SocketCap \in Nat /\ MaxBreaks \in Nat
BY StreamAssumption

LEMMA FrameSizes ==
  ASSUME NEW k \in DOMAIN Body
  PROVE  /\ Body[k] \in Nat /\ FrameSize(k) = HeaderSize + Body[k]
         /\ FrameSize(k) \in Nat \ {0} /\ HeaderSize <= FrameSize(k)
         /\ FrameSize(k) <= BufferCap
<1>1. Body[k] \in Nat
  BY Sizes DEF Body
<1>2. FrameSize(k) <= BufferCap
  BY StreamAssumption
<1> QED
  BY <1>1, <1>2, Sizes DEF FrameSize

LEMMA BytePlace ==
  ASSUME NEW q \in Seq(Byte), NEW i \in DOMAIN q
  PROVE  /\ q[i].kind \in DOMAIN Body /\ q[i].at \in Nat \ {0}
         /\ FrameSize(q[i].kind) \in Nat \ {0} /\ i \in Nat \ {0} /\ i <= Len(q)
<1>1. q[i] \in Byte /\ i \in 1..Len(q)
  OBVIOUS
<1> QED
  BY <1>1, FrameSizes, Sizes DEF Byte

LEMMA ByteOfFrame ==
  ASSUME NEW k \in DOMAIN Body, NEW j \in 1..FrameSize(k)
  PROVE  /\ Bytes(k)[j] = [kind |-> k, at |-> j]
         /\ Bytes(k)[j].kind = k /\ Bytes(k)[j].at = j
BY DEF Bytes

-----------------------------------------------------------------------------
(* Sequences of frames.                                                     *)

(* The front of the stream.                                                 *)
LEMMA FirstFrame ==
  ASSUME NEW q \in Seq(Byte), Framed(q), q # <<>>
  PROVE  /\ q[1].at = 1 /\ q[1].kind \in DOMAIN Body
         /\ \A k \in 1..FrameSize(q[1].kind) : k <= Len(q) => q[k] = Bytes(q[1].kind)[k]
<1>1. 1 \in DOMAIN q
  OBVIOUS
<1>2. InFrame(q, 1) /\ q[1].at \in Nat \ {0} /\ q[1].kind \in DOMAIN Body
      /\ FrameSize(q[1].kind) \in Nat
  BY <1>1, BytePlace DEF Framed
<1>3. 1 - q[1].at >= 0
  BY <1>2 DEF InFrame
<1>4. q[1].at = 1
  BY <1>2, <1>3
<1>5. \A k \in 1..FrameSize(q[1].kind) : 0 + k <= Len(q) => q[0 + k] = Bytes(q[1].kind)[k]
  BY <1>2, <1>4 DEF InFrame
<1> QED
  BY <1>2, <1>4, <1>5

(* The end of the stream may be missing.                                    *)
LEMMA CutFrames ==
  ASSUME NEW q \in Seq(Byte), NEW p \in Seq(Byte), Len(p) <= Len(q),
         \A i \in 1..Len(p) : p[i] = q[i], Framed(q)
  PROVE  Framed(p)
<1> SUFFICES ASSUME NEW i \in DOMAIN p PROVE InFrame(p, i)
  BY DEF Framed
<1>1. i \in 1..Len(p) /\ i \in DOMAIN q /\ p[i] = q[i] /\ InFrame(q, i)
  BY DEF Framed
<1> DEFINE front == i - p[i].at
<1>2. front \in Nat /\ FrameSize(p[i].kind) \in Nat
  BY <1>1, BytePlace DEF InFrame
<1>3. \A k \in 1..FrameSize(p[i].kind) :
        front + k <= Len(p) => p[front + k] = Bytes(p[i].kind)[k]
  BY <1>1, <1>2 DEF InFrame
<1> QED
  BY <1>1, <1>2, <1>3 DEF InFrame

(* More frames behind whole ones.                                           *)
LEMMA JoinFrames ==
  ASSUME NEW q \in Seq(Byte), NEW a \in Seq(Byte),
         Framed(q), Complete(q), Framed(a), Complete(a)
  PROVE  Framed(q \o a) /\ Complete(q \o a)
<1> DEFINE r == q \o a
           n == Len(q)
<1>1. /\ r \in Seq(Byte) /\ Len(r) = n + Len(a) /\ n \in Nat /\ Len(a) \in Nat
      /\ \A i \in 1..n : r[i] = q[i]
      /\ \A i \in 1..Len(a) : r[n + i] = a[i]
  BY ConcatProperties
<1> HIDE DEF r
<1> SUFFICES ASSUME NEW i \in DOMAIN r
             PROVE  InFrame(r, i) /\ i - r[i].at + FrameSize(r[i].kind) <= Len(r)
  BY DEF Framed, Complete, r
<1>2. CASE i \in 1..n
  <2>1. /\ r[i] = q[i] /\ i \in DOMAIN q /\ InFrame(q, i)
        /\ i - q[i].at + FrameSize(q[i].kind) <= n
    BY <1>1, <1>2 DEF Framed, Complete
  <2>2. i \in Nat /\ q[i].at \in Nat /\ FrameSize(q[i].kind) \in Nat /\ i - q[i].at >= 0
        /\ q[i].at <= FrameSize(q[i].kind)
    BY <2>1, BytePlace DEF InFrame
  <2>3. \A k \in 1..FrameSize(q[i].kind) : r[i - q[i].at + k] = Bytes(q[i].kind)[k]
    <3> SUFFICES ASSUME NEW k \in 1..FrameSize(q[i].kind)
                 PROVE  r[i - q[i].at + k] = Bytes(q[i].kind)[k]
      OBVIOUS
    <3>1. i - q[i].at + k \in 1..n
      BY <2>1, <2>2, <1>1
    <3> QED
      BY <1>1, <2>1, <3>1 DEF InFrame
  <2> QED
    BY <1>1, <2>1, <2>2, <2>3 DEF InFrame
<1>3. CASE i \notin 1..n
  <2> DEFINE j == i - n
  <2>1. j \in DOMAIN a /\ i = n + j /\ r[i] = a[j] /\ j \in Nat
    BY <1>1, <1>3
  <2> HIDE DEF j
  <2>2. InFrame(a, j) /\ j - a[j].at + FrameSize(a[j].kind) <= Len(a)
    BY <2>1 DEF Framed, Complete
  <2>3. a[j].at \in Nat /\ FrameSize(a[j].kind) \in Nat /\ j - a[j].at >= 0
        /\ a[j].at <= FrameSize(a[j].kind)
    BY <2>1, <2>2, BytePlace DEF InFrame
  <2>4. \A k \in 1..FrameSize(a[j].kind) : r[i - a[j].at + k] = Bytes(a[j].kind)[k]
    <3> SUFFICES ASSUME NEW k \in 1..FrameSize(a[j].kind)
                 PROVE  r[i - a[j].at + k] = Bytes(a[j].kind)[k]
      OBVIOUS
    <3>1. j - a[j].at + k \in 1..Len(a)
      BY <1>1, <2>1, <2>2, <2>3
    <3>2. a[j - a[j].at + k] = Bytes(a[j].kind)[k]
      BY <2>2, <3>1 DEF InFrame
    <3>3. i - a[j].at + k = n + (j - a[j].at + k)
      BY <1>1, <2>1, <2>3
    <3> QED
      BY <1>1, <3>1, <3>2, <3>3
  <2>5. i - a[j].at >= 0 /\ i - a[j].at + FrameSize(a[j].kind) <= Len(r)
    <3> DEFINE at == a[j].at
               size == FrameSize(a[j].kind)
    <3>1. at \in Nat /\ size \in Nat /\ j - at >= 0 /\ j - at + size <= Len(a)
          /\ i = n + j /\ j \in Nat /\ n \in Nat /\ Len(a) \in Nat /\ Len(r) = n + Len(a)
      BY <1>1, <2>1, <2>2, <2>3
    <3> HIDE DEF at, size, n
    <3>2. i - at >= 0 /\ i - at + size <= Len(r)
      BY <3>1
    <3> QED
      BY <3>2 DEF at, size
  <2>6. InFrame(r, i)
    BY <2>1, <2>3, <2>4, <2>5 DEF InFrame
  <2> QED
    BY <2>1, <2>5, <2>6
<1> QED
  BY <1>2, <1>3

(* The first frame is taken off.                                            *)
LEMMA DropFrame ==
  ASSUME NEW q \in Seq(Byte), NEW p \in Seq(Byte), q # <<>>, Framed(q),
         NEW n, n = FrameSize(q[1].kind), n <= Len(q), Len(p) = Len(q) - n,
         \A i \in 1..Len(p) : p[i] = q[i + n]
  PROVE  Framed(p) /\ (Complete(q) => Complete(p))
<1> DEFINE first == q[1].kind
<1>1. /\ first \in DOMAIN Body /\ n = FrameSize(first) /\ n \in Nat \ {0} /\ Len(q) \in Nat
      /\ q[n] = Bytes(first)[n]
  <2>1. /\ first \in DOMAIN Body /\ n = FrameSize(first) /\ Len(q) \in Nat
        /\ \A k \in 1..n : k <= Len(q) => q[k] = Bytes(first)[k]
    BY FirstFrame
  <2>2. n \in Nat \ {0}
    BY <2>1, FrameSizes
  <2> QED
    BY <2>1, <2>2
<1> HIDE DEF first
<1>2. q[n].kind = first /\ q[n].at = n
  <2>1. n \in 1..FrameSize(first)
    BY <1>1
  <2> QED
    BY <1>1, <2>1 DEF Bytes
<1>3. \A i \in DOMAIN p :
        InFrame(p, i) /\ (Complete(q) => i - p[i].at + FrameSize(p[i].kind) <= Len(p))
  <2> SUFFICES ASSUME NEW i \in DOMAIN p
               PROVE  InFrame(p, i) /\ (Complete(q) => i - p[i].at + FrameSize(p[i].kind) <= Len(p))
    OBVIOUS
  <2> DEFINE m == i + n
             front == m - q[m].at
             kind == q[m].kind
  <2>1. i \in 1..Len(p) /\ m \in DOMAIN q /\ p[i] = q[m] /\ m \in Nat /\ m > n
    BY <1>1
  <2> HIDE DEF m
  <2>2. /\ InFrame(q, m) /\ front \in Nat /\ FrameSize(kind) \in Nat /\ kind \in DOMAIN Body
        /\ q[m].at \in Nat \ {0} /\ q[m].at <= FrameSize(kind) /\ m = front + q[m].at
    <3>1. InFrame(q, m)
      BY <2>1 DEF Framed
    <3>2. q[m].at \in Nat \ {0} /\ FrameSize(kind) \in Nat /\ kind \in DOMAIN Body
      BY <2>1, BytePlace
    <3> QED
      BY <2>1, <3>1, <3>2 DEF InFrame
  <2>3. \A k \in 1..FrameSize(kind) : front + k <= Len(q) => q[front + k] = Bytes(kind)[k]
    BY <2>2 DEF InFrame
  <2> HIDE DEF front, kind
  <2>4. front >= n
    <3> SUFFICES ASSUME front < n PROVE FALSE
      BY <1>1, <2>2
    <3> DEFINE k == n - front
    <3>1. k \in 1..FrameSize(kind) /\ front + k = n
      BY <1>1, <2>1, <2>2
    <3>2. q[n] = Bytes(kind)[k]
      BY <2>3, <3>1
    <3>3. q[n].kind = kind /\ q[n].at = k
      BY <3>1, <3>2 DEF Bytes
    <3>4. front = 0 /\ FrameSize(kind) = n
      BY <1>1, <1>2, <2>2, <3>3
    <3> QED
      BY <1>1, <2>1, <2>2, <3>4
  <2>5. i - p[i].at = front - n /\ kind = p[i].kind /\ p[i].at = q[m].at
    <3>1. kind = p[i].kind /\ p[i].at = q[m].at
      BY <2>1 DEF kind
    <3>2. m = i + n /\ i \in Nat
      BY <2>1 DEF m
    <3>3. i - q[m].at = front - n
      <4> DEFINE at == q[m].at
      <4>1. m = front + at /\ m = i + n /\ i \in Nat /\ n \in Nat /\ front \in Nat /\ at \in Nat
        BY <1>1, <2>2, <3>2
      <4> HIDE DEF at
      <4>2. i - at = front - n
        BY <4>1
      <4> QED
        BY <4>2 DEF at
    <3> QED
      BY <3>1, <3>3
  <2>6. \A k \in 1..FrameSize(kind) : (front - n) + k <= Len(p) => p[(front - n) + k] = Bytes(kind)[k]
    <3> SUFFICES ASSUME NEW k \in 1..FrameSize(kind), (front - n) + k <= Len(p)
                 PROVE  p[(front - n) + k] = Bytes(kind)[k]
      OBVIOUS
    <3>1. (front - n) + k \in 1..Len(p) /\ ((front - n) + k) + n = front + k
      <4> DEFINE size == FrameSize(kind)
      <4>1. n \in Nat /\ front \in Nat /\ front >= n /\ size \in Nat /\ k \in 1..size
            /\ Len(p) \in Nat
        BY <1>1, <2>2, <2>4
      <4> HIDE DEF size
      <4> QED
        BY <4>1
    <3>2. front + k <= Len(q)
      BY <1>1, <2>2, <3>1
    <3> QED
      BY <2>3, <3>1, <3>2
  <2>7. InFrame(p, i)
    <3> DEFINE place == i - p[i].at
    <3>1. place = front - n /\ place >= 0 /\ p[i].at <= FrameSize(p[i].kind)
      BY <1>1, <2>2, <2>4, <2>5
    <3>2. \A k \in 1..FrameSize(p[i].kind) : place + k <= Len(p) => p[place + k] = Bytes(p[i].kind)[k]
      <4> HIDE DEF place
      <4> QED
        BY <2>5, <2>6, <3>1
    <3> QED
      BY <3>1, <3>2 DEF InFrame
  <2>8. Complete(q) => front + FrameSize(kind) <= Len(q)
    BY <2>1 DEF Complete, front, kind
  <2> QED
    BY <1>1, <2>2, <2>5, <2>7, <2>8
<1> QED
  BY <1>3 DEF Framed, Complete

-----------------------------------------------------------------------------
(* What is on its way, in three parts.                                      *)

LEMMA Parts ==
  ASSUME NEW a \in Seq(Byte), NEW b \in Seq(Byte), NEW c \in Seq(Byte)
  PROVE  /\ a \o b \o c \in Seq(Byte) /\ Len(a \o b \o c) = Len(a) + Len(b) + Len(c)
         /\ \A i \in 1..Len(a) : (a \o b \o c)[i] = a[i]
         /\ \A i \in 1..Len(b) : (a \o b \o c)[Len(a) + i] = b[i]
         /\ \A i \in 1..Len(c) : (a \o b \o c)[Len(a) + Len(b) + i] = c[i]
         /\ Len(a) \in Nat /\ Len(b) \in Nat /\ Len(c) \in Nat
<1>1. a \o b \in Seq(Byte) /\ Len(a \o b) = Len(a) + Len(b)
      /\ \A i \in 1..Len(a) + Len(b) : (a \o b)[i] = IF i <= Len(a) THEN a[i] ELSE b[i - Len(a)]
  BY ConcatProperties
<1> DEFINE d == a \o b
<1> HIDE DEF d
<1>2. d \o c \in Seq(Byte) /\ Len(d \o c) = Len(d) + Len(c)
      /\ \A i \in 1..Len(d) + Len(c) : (d \o c)[i] = IF i <= Len(d) THEN d[i] ELSE c[i - Len(d)]
  BY <1>1, ConcatProperties DEF d
<1>3. Len(a) \in Nat /\ Len(b) \in Nat /\ Len(c) \in Nat /\ Len(d) = Len(a) + Len(b)
  BY <1>1 DEF d
<1>4. \A i \in 1..Len(a) : (d \o c)[i] = a[i]
  BY <1>1, <1>2, <1>3 DEF d
<1>5. \A i \in 1..Len(b) : (d \o c)[Len(a) + i] = b[i]
  <2> SUFFICES ASSUME NEW i \in 1..Len(b) PROVE (d \o c)[Len(a) + i] = b[i]
    OBVIOUS
  <2>1. (d \o c)[Len(a) + i] = d[Len(a) + i]
    BY <1>2, <1>3
  <2>2. d[Len(a) + i] = b[(Len(a) + i) - Len(a)]
    BY <1>1, <1>3 DEF d
  <2> QED
    BY <1>3, <2>1, <2>2
<1>6. \A i \in 1..Len(c) : (d \o c)[Len(a) + Len(b) + i] = c[i]
  <2> SUFFICES ASSUME NEW i \in 1..Len(c) PROVE (d \o c)[Len(a) + Len(b) + i] = c[i]
    OBVIOUS
  <2>1. (d \o c)[Len(d) + i] = c[(Len(d) + i) - Len(d)]
    BY <1>2, <1>3
  <2> QED
    BY <1>3, <2>1
<1> QED
  BY <1>2, <1>3, <1>4, <1>5, <1>6 DEF d

(* Bytes that move from one part to the one before stay in their order.     *)
LEMMA TwoParts ==
  ASSUME NEW a \in Seq(Byte), NEW b \in Seq(Byte)
  PROVE  /\ a \o b \in Seq(Byte) /\ Len(a \o b) = Len(a) + Len(b)
         /\ \A i \in 1..Len(a) : (a \o b)[i] = a[i]
         /\ \A i \in 1..Len(b) : (a \o b)[Len(a) + i] = b[i]
BY ConcatProperties

LEMMA Regroup ==
  ASSUME NEW a \in Seq(Byte), NEW b \in Seq(Byte), NEW c \in Seq(Byte)
  PROVE  a \o b \o c = a \o (b \o c)
BY ConcatAssociative

LEMMA Moved ==
  ASSUME NEW a \in Seq(Byte), NEW b \in Seq(Byte), NEW n \in 0..Len(b)
  PROVE  /\ (a \o SubSeq(b, 1, n)) \o From(b, n) = a \o b
         /\ SubSeq(b, 1, n) \in Seq(Byte) /\ Len(SubSeq(b, 1, n)) = n
         /\ From(b, n) \in Seq(Byte) /\ Len(From(b, n)) = Len(b) - n
         /\ a \o SubSeq(b, 1, n) \in Seq(Byte) /\ Len(a \o SubSeq(b, 1, n)) = Len(a) + n
<1>1. Len(b) \in Nat
  OBVIOUS
<1>2. SubSeq(b, 1, n) \in Seq(Byte) /\ Len(SubSeq(b, 1, n)) = n
  BY <1>1
<1>3. From(b, n) \in Seq(Byte) /\ Len(From(b, n)) = Len(b) - n
  BY <1>1 DEF From
<1>4. SubSeq(b, 1, n) \o From(b, n) = SubSeq(b, 1, Len(b))
  <2>1. 1 \in 1..Len(b) + 1 /\ n \in (1 - 1)..Len(b) /\ Len(b) \in n..Len(b)
    BY <1>1
  <2>2. SubSeq(b, 1, n) \o SubSeq(b, n + 1, Len(b)) = SubSeq(b, 1, Len(b))
    BY <2>1, ConcatAdjacentSubSeq
  <2> QED
    BY <2>2 DEF From
<1>5. SubSeq(b, 1, Len(b)) = b
  BY SubSeqFull
<1>6. (a \o SubSeq(b, 1, n)) \o From(b, n) = a \o (SubSeq(b, 1, n) \o From(b, n))
  <2> DEFINE front == SubSeq(b, 1, n)
             rest == From(b, n)
  <2>1. front \in Seq(Byte) /\ rest \in Seq(Byte)
    BY <1>2, <1>3
  <2> HIDE DEF front, rest
  <2>2. (a \o front) \o rest = a \o (front \o rest)
    BY <2>1, ConcatAssociative
  <2> QED
    BY <2>2 DEF front, rest
<1>7. a \o SubSeq(b, 1, n) \in Seq(Byte) /\ Len(a \o SubSeq(b, 1, n)) = Len(a) + n
  BY <1>2, ConcatProperties
<1> QED
  BY <1>2, <1>3, <1>4, <1>5, <1>6, <1>7

LEMMA FromType ==
  ASSUME NEW b \in Seq(Byte), NEW n \in 0..Len(b)
  PROVE  /\ From(b, n) \in Seq(Byte) /\ Len(From(b, n)) = Len(b) - n
         /\ \A i \in 1..(Len(b) - n) : From(b, n)[i] = b[i + n]
<1>1. Len(b) \in Nat /\ n + 1 \in Int /\ n \in Nat
  OBVIOUS
<1>2. \A i \in (n + 1)..Len(b) : b[i] \in Byte
  BY <1>1
<1>3. Len(From(b, n)) = Len(b) - n /\ From(b, n) \in Seq(Byte)
  BY <1>1 DEF From
<1>4. \A i \in 1..(Len(b) - n) : From(b, n)[i] = b[i + n]
  BY <1>1 DEF From
<1> QED
  BY <1>3, <1>4

LEMMA EmptyStream ==
  LET none == <<>> \o <<>> \o <<>> IN Framed(none) /\ Complete(none)
<1>1. <<>> \o <<>> \o <<>> = <<>>
  OBVIOUS
<1>2. DOMAIN <<>> = {}
  OBVIOUS
<1> QED
  BY <1>1, <1>2 DEF Framed, Complete

-----------------------------------------------------------------------------
(* The steps.                                                               *)

LEMMA RepairInit == Init => RepairInv
<1> SUFFICES ASSUME Init PROVE RepairInv
  OBVIOUS
<1> USE DEF Init
<1>1. TypeOK
  <2>1. 1 \in Bucket /\ 0 \in 0..(RequestSize - 1) /\ 0 \in 0..SocketCap /\ 0 \in 0..MaxBreaks
        /\ 0 \in 0..RequestSize
    BY Sizes DEF Bucket
  <2>2. <<>> \in Seq(Byte) /\ Len(<<>>) = 0 /\ 0 <= SocketCap /\ 0 <= BufferCap
    BY Sizes
  <2> QED
    BY <2>1, <2>2 DEF TypeOK
<1>2. FrameInv
  BY EmptyStream DEF FrameInv, Sent
<1>3. RoomIsRegained
  <2>1. BufferCap > 0
    BY FrameSizes, Sizes DEF Body
  <2> QED
    BY <2>1 DEF RoomIsRegained
<1> QED
  BY <1>1, <1>2, <1>3 DEF RepairInv, LinkInv, RequestsAreFramed

LEMMA SmallBuffer ==
  ASSUME NEW q \in Seq(Byte), NEW k \in DOMAIN Body, Len(q) < FrameSize(k)
  PROVE  Len(q) < BufferCap
<1>1. Len(q) \in Nat /\ FrameSize(k) \in Nat /\ FrameSize(k) <= BufferCap
  BY FrameSizes
<1> QED
  BY <1>1, Sizes

(* Bytes under way stay where they are.                                     *)
LEMMA FrameStutter ==
  ASSUME FrameInv, buffer' = buffer, toClient' = toClient, response' = response,
         link' = "open" => link = "open"
  PROVE  FrameInv'
BY DEF FrameInv, Sent

(* The connection is given up by the client.                                *)
LEMMA HangupStep ==
  ASSUME Hangup
  PROVE  FrameInv' /\ server' = "idle" /\ got' = 0 /\ response' = <<>> /\ toServer' = 0
         /\ link' = "none" /\ buffer' = <<>> /\ toClient' = <<>>
<1>1. /\ server' = "idle" /\ got' = 0 /\ response' = <<>> /\ toServer' = 0
      /\ link' = "none" /\ buffer' = <<>> /\ toClient' = <<>>
  BY DEF Hangup, ResetRepair, ThreadEnds
<1> QED
  BY <1>1, EmptyStream DEF FrameInv, Sent

(* Steps that touch neither bytes nor counts.                               *)
LEMMA QuietStep ==
  ASSUME RepairInv, Listen \/ Wake \/ Drained \/ Parsed \/ Quiet \/ Refused \/ RetryTime
  PROVE  RepairInv'
<1> USE DEF RepairInv
<1>1. /\ buffer' = buffer /\ toClient' = toClient /\ response' = response
      /\ server' = server /\ got' = got /\ toServer' = toServer /\ unwritten' = unwritten
      /\ breaks' = breaks
      /\ link' = link \/ (link = "reset" /\ link' = "closed")
  BY DEF Listen, Wake, Drained, Parsed, Quiet, Refused, RetryTime, serverVars, networkVars,
         clientVars
<1>2. FrameInv'
  BY <1>1, FrameStutter
<1>3. client' = "write" <=> client = "write"
  BY DEF Listen, Wake, Drained, Parsed, Quiet, Refused, RetryTime, NextBucket, networkVars,
         clientVars
<1>4. LinkInv' /\ RequestsAreFramed'
  BY <1>1, <1>3 DEF LinkInv, RequestsAreFramed
<1>5. RoomIsRegained'
  <2>1. CASE Parsed
    <3>1. HalfFrame /\ buffer \in Seq(Byte) /\ Len(buffer) \in Nat
      BY <2>1 DEF Parsed, TypeOK
    <3>2. CASE Len(buffer) < HeaderSize
      <4>1. "gone" \in DOMAIN Body
        BY DEF Body
      <4>2. Len(buffer) < FrameSize("gone")
        BY <3>1, <3>2, <4>1, FrameSizes, Sizes
      <4> QED
        BY <1>1, <3>1, <4>1, <4>2, SmallBuffer DEF RoomIsRegained
    <3>3. CASE ~(Len(buffer) < HeaderSize)
      <4>1. PICK n \in LengthRead : ~Whole(n)
        BY <3>1, <3>3 DEF HalfFrame
      <4>2. buffer # <<>> /\ 1 \in DOMAIN buffer
        BY <3>1, <3>3, Sizes
      <4>3. buffer[1].kind \in DOMAIN Body
        BY <3>1, <4>2, BytePlace
      <4>4. PICK k \in DOMAIN Body : n = Body[k]
        BY <4>1, <4>3 DEF LengthRead
      <4>5. Len(buffer) < FrameSize(k)
        BY <3>1, <4>1, <4>4, FrameSizes, Sizes DEF Whole
      <4> QED
        BY <1>1, <3>1, <4>5, SmallBuffer DEF RoomIsRegained
    <3> QED
      BY <3>2, <3>3
  <2>2. CASE Listen \/ Wake \/ Drained \/ Quiet \/ Refused \/ RetryTime
    <3>1. client' \notin {"recv", "parse"} => client \notin {"recv", "parse"}
      BY <2>2 DEF Listen, Wake, Drained, Quiet, Refused, RetryTime, NextBucket, clientVars
    <3> QED
      BY <1>1, <3>1 DEF RoomIsRegained
  <2> QED
    BY <2>1, <2>2
<1>6. TypeOK'
  <2>1. up' \in BOOLEAN /\ listening' \in BOOLEAN /\ blocked' \in BOOLEAN
    BY DEF TypeOK, Listen, Wake, Drained, Parsed, Quiet, Refused, RetryTime, serverVars,
           clientVars
  <2>2. turn' \in Bucket /\ client' \in {"poll", "recv", "parse", "ask", "write"}
    BY Sizes DEF TypeOK, Listen, Wake, Drained, Parsed, Quiet, Refused, RetryTime, NextBucket,
           Bucket, clientVars
  <2>3. due' \subseteq Bucket
    BY DEF TypeOK, Listen, Wake, Drained, Parsed, Quiet, Refused, RetryTime, clientVars
  <2> QED
    BY <1>1, <2>1, <2>2, <2>3 DEF TypeOK
<1> QED
  BY <1>2, <1>4, <1>5, <1>6

LEMMA HangupSteps ==
  ASSUME RepairInv, PeerClosed \/ BadFrame \/ GiveUpWrite
  PROVE  RepairInv'
<1>1. Hangup /\ UNCHANGED <<up, listening, breaks>>
  BY DEF PeerClosed, BadFrame, GiveUpWrite
<1>2. /\ FrameInv' /\ server' = "idle" /\ got' = 0 /\ response' = <<>> /\ toServer' = 0
      /\ link' = "none" /\ buffer' = <<>> /\ toClient' = <<>>
  BY <1>1, HangupStep
<1>3. /\ unwritten' = 0 \/ (unwritten' = unwritten /\ client # "write")
      /\ client' \in {"ask", "poll"} /\ turn' \in Bucket /\ due' \subseteq Bucket
      /\ blocked' \in BOOLEAN
  <2>1. turn \in Bucket /\ due \subseteq Bucket /\ blocked \in BOOLEAN
    BY DEF RepairInv, TypeOK
  <2>2. CASE PeerClosed \/ BadFrame
    BY <2>1, <2>2 DEF PeerClosed, BadFrame
  <2>3. CASE GiveUpWrite
    <3>1. unwritten' = 0 /\ blocked' = TRUE /\ due' = due /\ NextBucket
      BY <2>3 DEF GiveUpWrite
    <3>2. turn' \in Bucket /\ client' \in {"ask", "poll"}
      BY <2>1, <3>1, Sizes DEF NextBucket, Bucket
    <3>3. due' \subseteq Bucket /\ blocked' \in BOOLEAN
      BY <2>1, <3>1
    <3> QED
      BY <3>1, <3>2, <3>3
  <2> QED
    BY <2>2, <2>3
<1>4. LinkInv' /\ RequestsAreFramed'
  BY <1>2, <1>3 DEF RepairInv, LinkInv, RequestsAreFramed
<1>5. <<>> \in Seq(Byte) /\ Len(<<>>) = 0 /\ 0 < BufferCap /\ 0 <= SocketCap
      /\ 0 \in 0..(RequestSize - 1) /\ 0 \in 0..SocketCap /\ 0 \in 0..RequestSize
  <2>1. 0 < BufferCap
    BY Sizes, FrameSizes DEF Body
  <2> QED
    BY <2>1, Sizes
<1>6. TypeOK'
  <2>1. up' \in BOOLEAN /\ listening' \in BOOLEAN /\ breaks' \in 0..MaxBreaks
        /\ unwritten' \in 0..RequestSize
    BY <1>1, <1>3, <1>5 DEF RepairInv, TypeOK
  <2>2. server' \in {"idle", "reading", "writing"} /\ link' \in {"none", "open", "reset", "closed"}
        /\ client' \in {"poll", "recv", "parse", "ask", "write"}
    BY <1>2, <1>3
  <2>3. /\ response' \in Seq(Byte) /\ buffer' \in Seq(Byte) /\ Len(buffer') <= BufferCap
        /\ toClient' \in Seq(Byte) /\ Len(toClient') <= SocketCap
    BY <1>2, <1>5, Sizes
  <2> QED
    BY <1>2, <1>3, <1>5, <2>1, <2>2, <2>3 DEF TypeOK
<1> QED
  BY <1>2, <1>4, <1>5, <1>6 DEF RepairInv, RoomIsRegained

(* The connection is lost, what was under way to the client in part.        *)
LEMMA LoseStep ==
  ASSUME RepairInv, NEW how \in {"closed", "reset"}, LoseConnection(how),
         UNCHANGED clientVars, up' \in BOOLEAN, listening' \in BOOLEAN,
         breaks' \in 0..MaxBreaks
  PROVE  RepairInv'
<1> USE DEF RepairInv
<1>1. /\ server' = "idle" /\ got' = 0 /\ response' = <<>> /\ toServer' = 0
      /\ client' = client /\ turn' = turn /\ due' = due /\ buffer' = buffer
      /\ unwritten' = unwritten /\ blocked' = blocked
  BY DEF LoseConnection, ThreadEnds, clientVars
<1>2. buffer \in Seq(Byte) /\ toClient \in Seq(Byte) /\ response \in Seq(Byte)
      /\ Len(toClient) \in Nat
  BY DEF TypeOK
<1>3. /\ link' # "open" /\ (link' = "none" => link = "none")
      /\ (link = "none" => toClient' = toClient)
      /\ toClient' \in Seq(Byte) /\ Len(toClient') <= Len(toClient)
      /\ \A i \in 1..Len(toClient') : toClient'[i] = toClient[i]
  <2>1. CASE link = "open"
    <3>1. PICK n \in 0..Len(toClient) : toClient' = SubSeq(toClient, 1, n)
      BY <2>1 DEF LoseConnection
    <3>2. link' = how
      BY <2>1 DEF LoseConnection
    <3>3. SubSeq(toClient, 1, n) \in Seq(Byte) /\ Len(SubSeq(toClient, 1, n)) = n
          /\ \A i \in 1..n : SubSeq(toClient, 1, n)[i] = toClient[i]
      BY <1>2, <3>1
    <3> QED
      BY <2>1, <1>2, <3>1, <3>2, <3>3
  <2>2. CASE link # "open"
    BY <1>2, <2>2 DEF LoseConnection
  <2> QED
    BY <2>1, <2>2
<1>4. FrameInv'
  <2> DEFINE r == buffer \o toClient \o response
             t == buffer \o toClient' \o <<>>
  <2>1. <<>> \in Seq(Byte) /\ Len(<<>>) = 0
    OBVIOUS
  <2>2. /\ r \in Seq(Byte) /\ Len(r) = Len(buffer) + Len(toClient) + Len(response)
        /\ \A i \in 1..Len(buffer) : r[i] = buffer[i]
        /\ \A i \in 1..Len(toClient) : r[Len(buffer) + i] = toClient[i]
        /\ Len(buffer) \in Nat /\ Len(response) \in Nat
    BY <1>2, Parts
  <2>3. /\ t \in Seq(Byte) /\ Len(t) = Len(buffer) + Len(toClient') + 0
        /\ \A i \in 1..Len(buffer) : t[i] = buffer[i]
        /\ \A i \in 1..Len(toClient') : t[Len(buffer) + i] = toClient'[i]
        /\ Len(toClient') \in Nat
    BY <1>2, <1>3, <2>1, Parts
  <2>4. Sent' = t /\ Framed(r)
    BY <1>1 DEF FrameInv, Sent
  <2> HIDE DEF r, t
  <2>5. Len(t) <= Len(r)
    BY <1>2, <1>3, <2>2, <2>3
  <2>6. \A i \in 1..Len(t) : t[i] = r[i]
    <3> SUFFICES ASSUME NEW i \in 1..Len(t) PROVE t[i] = r[i]
      OBVIOUS
    <3>1. CASE i \in 1..Len(buffer)
      BY <2>2, <2>3, <3>1
    <3>2. CASE i \notin 1..Len(buffer)
      <4> DEFINE j == i - Len(buffer)
      <4>1. j \in 1..Len(toClient') /\ j \in 1..Len(toClient) /\ i = Len(buffer) + j
        BY <1>2, <1>3, <2>2, <2>3, <3>2
      <4> HIDE DEF j
      <4> QED
        BY <1>3, <2>2, <2>3, <4>1
    <3> QED
      BY <3>1, <3>2
  <2>7. Framed(t)
    BY <2>2, <2>3, <2>4, <2>5, <2>6, CutFrames
  <2> QED
    BY <1>3, <2>4, <2>7 DEF FrameInv
<1>5. LinkInv' /\ RequestsAreFramed' /\ RoomIsRegained'
  BY <1>1, <1>3 DEF LinkInv, RequestsAreFramed, RoomIsRegained
<1>6. TypeOK'
  <2>1. Len(toClient') <= SocketCap
    <3>1. Len(toClient') \in Nat /\ Len(toClient) <= SocketCap
      BY <1>3 DEF TypeOK
    <3> QED
      BY <1>2, <1>3, <3>1, Sizes
  <2>2. link' \in {"none", "open", "reset", "closed"}
    BY DEF LoseConnection, TypeOK
  <2>3. <<>> \in Seq(Byte) /\ 0 \in 0..(RequestSize - 1) /\ 0 \in 0..SocketCap
    BY Sizes
  <2> QED
    BY <1>1, <1>3, <2>1, <2>2, <2>3 DEF TypeOK
<1> QED
  BY <1>4, <1>5, <1>6

LEMMA LoseSteps ==
  ASSUME RepairInv, Exit \/ Break
  PROVE  RepairInv'
<1>1. CASE Exit
  <2>1. PICK how \in {"closed", "reset"} : LoseConnection(how)
    BY <1>1 DEF Exit
  <2>2. UNCHANGED clientVars /\ up' \in BOOLEAN /\ listening' \in BOOLEAN /\ breaks' = breaks
    BY <1>1 DEF Exit
  <2> QED
    BY <2>1, <2>2, LoseStep DEF RepairInv, TypeOK
<1>2. CASE Break
  <2>1. LoseConnection("reset") /\ UNCHANGED clientVars /\ up' = up /\ listening' = listening
    BY <1>2 DEF Break
  <2>2. breaks' \in 0..MaxBreaks
    BY <1>2, Sizes DEF Break, RepairInv, TypeOK
  <2> QED
    BY <2>1, <2>2, LoseStep DEF RepairInv, TypeOK
<1> QED
  BY <1>1, <1>2

LEMMA LeastType ==
  ASSUME NEW m \in Nat, NEW n \in Nat
  PROVE  Least(m, n) \in 0..m /\ Least(m, n) \in 0..n /\ (m > 0 /\ n > 0 => Least(m, n) > 0)
BY DEF Least

LEMMA RequestStep ==
  ASSUME RepairInv, ReadRequest
  PROVE  RepairInv'
<1> USE DEF RepairInv
<1> DEFINE n == Least(RequestSize - got, toServer)
<1>1. /\ server = "reading" /\ link = "open" /\ response = <<>> /\ toServer' = toServer - n
      /\ link' = link /\ toClient' = toClient /\ breaks' = breaks /\ UNCHANGED clientVars
      /\ up' = up /\ listening' = listening
  BY DEF ReadRequest, LinkInv
<1>2. \/ got + n < RequestSize /\ got' = got + n /\ server' = server /\ response' = response
      \/ got + n >= RequestSize /\ got' = 0 /\ server' = "writing" /\ response' \in Answer
  <2>1. IF got + n < RequestSize
        THEN got' = got + n /\ UNCHANGED <<server, response>>
        ELSE got' = 0 /\ server' = "writing" /\ response' \in Answer
    BY DEF ReadRequest
  <2>2. got + n \in Int
    <3>1. got \in Nat /\ RequestSize - got \in Nat /\ toServer \in Nat
      BY Sizes DEF TypeOK
    <3> QED
      BY <3>1, LeastType
  <2> HIDE DEF n
  <2> QED
    BY <2>1, <2>2, Sizes
<1>3. /\ got \in Nat /\ got < RequestSize /\ toServer \in Nat /\ toServer <= SocketCap
      /\ unwritten \in Nat /\ n \in Nat /\ n <= RequestSize - got /\ n <= toServer
  <2>1. got \in Nat /\ got < RequestSize /\ toServer \in Nat /\ toServer <= SocketCap
        /\ RequestSize - got \in Nat /\ unwritten \in Nat
    BY Sizes DEF TypeOK
  <2> QED
    BY <2>1, LeastType
<1> HIDE DEF n
<1>4. /\ client' = client /\ turn' = turn /\ due' = due /\ buffer' = buffer
      /\ unwritten' = unwritten /\ blocked' = blocked
  BY <1>1 DEF clientVars
<1>5. RequestsAreFramed'
  <2>1. (got + toServer + unwritten) % RequestSize = 0
    BY <1>1 DEF RequestsAreFramed
  <2>2. CASE got + n < RequestSize
    <3>1. got' + toServer' + unwritten' = got + toServer + unwritten
      BY <1>1, <1>2, <1>3, <1>4, <2>2, Sizes
    <3> QED
      BY <2>1, <3>1 DEF RequestsAreFramed
  <2>3. CASE got + n >= RequestSize
    <3> DEFINE a == (toServer - n) + unwritten
    <3>1. a \in Nat /\ a + RequestSize = got + toServer + unwritten
          /\ got' + toServer' + unwritten' = a
      BY <1>1, <1>2, <1>3, <1>4, <2>3, Sizes
    <3> HIDE DEF a
    <3>2. (a + RequestSize) % RequestSize = a % RequestSize
      BY <3>1, Sizes, ModShift
    <3> QED
      BY <2>1, <3>1, <3>2 DEF RequestsAreFramed
  <2> QED
    BY <1>3, <2>2, <2>3, Sizes
<1>6. FrameInv'
  <2>1. CASE response' = response
    BY <1>1, <1>4, <2>1, FrameStutter
  <2>2. CASE response' \in Answer
    <3> DEFINE q == buffer \o toClient
    <3>1. /\ response' \in Seq(Byte) /\ Framed(response') /\ Complete(response')
      BY <2>2, StreamAssumption
    <3>2. q \in Seq(Byte) /\ Sent = q /\ Sent' = q \o response'
      <4>1. q \in Seq(Byte)
        BY ConcatProperties DEF TypeOK
      <4> HIDE DEF q
      <4>2. q \o <<>> = q
        BY <4>1, ConcatEmptySeq
      <4> QED
        BY <1>1, <1>4, <4>1, <4>2 DEF q, Sent
    <3>3. Framed(q) /\ Complete(q)
      BY <1>1, <3>2 DEF FrameInv
    <3> HIDE DEF q
    <3> QED
      BY <3>1, <3>2, <3>3, JoinFrames DEF FrameInv
  <2> QED
    BY <1>2, <2>1, <2>2
<1>7. LinkInv'
  <2>1. server' = "writing" <=> response' # <<>>
    BY <1>1, <1>2, StreamAssumption
  <2> QED
    BY <1>1, <1>4, <2>1 DEF LinkInv
<1>8. RoomIsRegained'
  BY <1>4 DEF RoomIsRegained
<1>9. TypeOK'
  <2>1. got' \in 0..(RequestSize - 1) /\ toServer' \in 0..SocketCap
    BY <1>1, <1>2, <1>3, Sizes
  <2>2. response' \in Seq(Byte) /\ server' \in {"idle", "reading", "writing"}
    BY <1>1, <1>2, StreamAssumption DEF TypeOK
  <2> QED
    BY <1>1, <1>4, <2>1, <2>2 DEF TypeOK
<1> QED
  BY <1>5, <1>6, <1>7, <1>8, <1>9

LEMMA ResponseStep ==
  ASSUME RepairInv, WriteResponse
  PROVE  RepairInv'
<1> USE DEF RepairInv
<1> DEFINE n == Least(Len(response), SocketCap - Len(toClient))
<1>1. /\ server = "writing" /\ link = "open" /\ toClient' = toClient \o SubSeq(response, 1, n)
      /\ response' = From(response, n)
      /\ server' = IF n = Len(response) THEN "reading" ELSE "writing"
      /\ link' = link /\ got' = got /\ toServer' = toServer /\ breaks' = breaks
      /\ UNCHANGED clientVars /\ up' = up /\ listening' = listening
  BY DEF WriteResponse, LinkInv
<1>2. /\ buffer \in Seq(Byte) /\ toClient \in Seq(Byte) /\ response \in Seq(Byte)
      /\ Len(toClient) \in Nat /\ Len(response) \in Nat /\ Len(toClient) <= SocketCap
      /\ SocketCap - Len(toClient) \in Nat
  <2>1. buffer \in Seq(Byte) /\ toClient \in Seq(Byte) /\ response \in Seq(Byte)
        /\ Len(toClient) <= SocketCap
    BY DEF TypeOK
  <2> QED
    BY <2>1, Sizes
<1>3. n \in 0..Len(response) /\ n <= SocketCap - Len(toClient)
  BY <1>2, LeastType
<1> HIDE DEF n
<1>4. /\ client' = client /\ turn' = turn /\ due' = due /\ buffer' = buffer
      /\ unwritten' = unwritten /\ blocked' = blocked
  BY <1>1 DEF clientVars
<1>5. /\ toClient' \o response' = toClient \o response
      /\ toClient' \in Seq(Byte) /\ Len(toClient') = Len(toClient) + n
      /\ response' \in Seq(Byte) /\ Len(response') = Len(response) - n
  BY <1>1, <1>2, <1>3, Moved
<1>6. FrameInv'
  <2>1. Sent = buffer \o (toClient \o response)
    BY <1>2, ConcatAssociative DEF Sent
  <2>2. Sent' = buffer' \o (toClient' \o response')
    <3>1. buffer' \in Seq(Byte) /\ toClient' \in Seq(Byte) /\ response' \in Seq(Byte)
      BY <1>2, <1>4, <1>5
    <3>2. (buffer' \o toClient') \o response' = buffer' \o (toClient' \o response')
      BY <3>1, ConcatAssociative
    <3> QED
      BY <3>2 DEF Sent
  <2> QED
    BY <1>1, <1>4, <1>5, <2>1, <2>2 DEF FrameInv
<1>7. LinkInv'
  <2>1. n = Len(response) <=> response' = <<>>
    BY <1>2, <1>3, <1>5
  <2> QED
    BY <1>1, <1>4, <2>1 DEF LinkInv
<1>8. RoomIsRegained' /\ RequestsAreFramed'
  BY <1>1, <1>4 DEF RoomIsRegained, RequestsAreFramed
<1>9. TypeOK'
  <2>1. Len(toClient') <= SocketCap
    BY <1>2, <1>3, <1>5, Sizes
  <2> QED
    BY <1>1, <1>4, <1>5, <2>1 DEF TypeOK
<1> QED
  BY <1>6, <1>7, <1>8, <1>9

LEMMA ReceiveStep ==
  ASSUME RepairInv, Receive
  PROVE  RepairInv'
<1> USE DEF RepairInv
<1> DEFINE n == Least(Room, Len(toClient))
<1>1. /\ client = "recv" /\ toClient # <<>> /\ Len(buffer) # BufferCap
      /\ buffer' = buffer \o SubSeq(toClient, 1, n) /\ toClient' = From(toClient, n)
      /\ client' = client /\ turn' = turn /\ due' = due /\ unwritten' = unwritten
      /\ blocked' = blocked /\ UNCHANGED serverVars /\ link' = link /\ toServer' = toServer
      /\ breaks' = breaks
  BY DEF Receive, Full
<1>2. /\ buffer \in Seq(Byte) /\ toClient \in Seq(Byte) /\ response \in Seq(Byte)
      /\ Len(toClient) \in Nat /\ Len(toClient) <= SocketCap
      /\ Len(buffer) \in Nat /\ Room \in Nat /\ Room = BufferCap - Len(buffer)
  <2>1. buffer \in Seq(Byte) /\ toClient \in Seq(Byte) /\ response \in Seq(Byte)
        /\ Len(toClient) <= SocketCap /\ Len(buffer) <= BufferCap
    BY DEF TypeOK
  <2> QED
    BY <2>1, Sizes DEF Room
<1>3. n \in 0..Len(toClient) /\ n <= Room
  BY <1>2, LeastType
<1> HIDE DEF n
<1>4. up' = up /\ listening' = listening /\ server' = server /\ got' = got /\ response' = response
  BY <1>1 DEF serverVars
<1>5. /\ buffer' \o toClient' = buffer \o toClient
      /\ buffer' \in Seq(Byte) /\ Len(buffer') = Len(buffer) + n
      /\ toClient' \in Seq(Byte) /\ Len(toClient') = Len(toClient) - n
  BY <1>1, <1>2, <1>3, Moved
<1>6. FrameInv'
  BY <1>1, <1>4, <1>5 DEF FrameInv, Sent
<1>7. LinkInv'
  <2>1. link # "none"
    BY <1>1 DEF LinkInv
  <2> QED
    BY <1>1, <1>4, <2>1 DEF LinkInv
<1>8. RoomIsRegained' /\ RequestsAreFramed'
  BY <1>1, <1>4 DEF RoomIsRegained, RequestsAreFramed
<1>9. TypeOK'
  <2>1. Len(buffer') <= BufferCap /\ Len(toClient') <= SocketCap
    BY <1>2, <1>3, <1>5, Sizes
  <2> QED
    BY <1>1, <1>4, <1>5, <2>1 DEF TypeOK
<1> QED
  BY <1>6, <1>7, <1>8, <1>9

(* The parser stands at a header.                                           *)
LEMMA HeaderOfBuffer ==
  ASSUME NEW b \in Seq(Byte), NEW c \in Seq(Byte), NEW d \in Seq(Byte),
         Len(b) >= HeaderSize, Framed(b \o c \o d),
         NEW kind, kind = b[1].kind
  PROVE  kind \in DOMAIN Body /\ IsPrefix(SubSeq(Bytes(kind), 1, HeaderSize), b)
<1> DEFINE r == b \o c \o d
           size == FrameSize(kind)
           header == SubSeq(Bytes(kind), 1, HeaderSize)
           front == SubSeq(b, 1, HeaderSize)
<1>1. /\ r \in Seq(Byte) /\ Len(r) = Len(b) + Len(c) + Len(d)
      /\ \A i \in 1..Len(b) : r[i] = b[i]
      /\ Len(b) \in Nat /\ Len(c) \in Nat /\ Len(d) \in Nat
  BY Parts
<1>2. Framed(r)
  OBVIOUS
<1> HIDE DEF r
<1>3. r # <<>> /\ r[1] = b[1] /\ 1 <= HeaderSize
  BY <1>1, Sizes
<1>4. /\ kind \in DOMAIN Body
      /\ \A k \in 1..FrameSize(kind) : k <= Len(r) => r[k] = Bytes(kind)[k]
  BY <1>1, <1>2, <1>3, FirstFrame
<1>5. size \in Nat \ {0} /\ HeaderSize <= size /\ size <= BufferCap
  BY <1>4, FrameSizes
<1>6. Bytes(kind) \in Seq(Byte) /\ Len(Bytes(kind)) = size
  <2>1. Bytes(kind) \in [1..size -> Byte]
    <3>1. \A k \in 1..size : k \in 1..BufferCap
      BY <1>5, Sizes
    <3> QED
      BY <1>4, <3>1 DEF Bytes, Byte
  <2> DEFINE w == Bytes(kind)
  <2>2. w \in [1..size -> Byte] /\ size \in Nat
    BY <1>5, <2>1
  <2> HIDE DEF w, size
  <2>3. w \in Seq(Byte) /\ Len(w) = size
    BY <2>2
  <2> QED
    BY <2>3 DEF w
<1>7. \A k \in 1..HeaderSize : b[k] = Bytes(kind)[k]
  <2> SUFFICES ASSUME NEW k \in 1..HeaderSize PROVE b[k] = Bytes(kind)[k]
    OBVIOUS
  <2>1. k \in 1..size /\ k \in 1..Len(b) /\ k <= Len(r)
    BY <1>1, <1>5, Sizes
  <2> QED
    BY <1>1, <1>4, <2>1
<1> HIDE DEF size
<1>8. /\ header \in Seq(Byte) /\ Len(header) = HeaderSize
      /\ \A k \in 1..HeaderSize : header[k] = Bytes(kind)[k]
  BY <1>5, <1>6, Sizes
<1>9. /\ front \in Seq(Byte) /\ Len(front) = HeaderSize
      /\ \A k \in 1..HeaderSize : front[k] = b[k]
  BY <1>1, Sizes
<1>10. header = front
  <2>1. \A k \in 1..HeaderSize : header[k] = front[k]
    BY <1>7, <1>8, <1>9
  <2> HIDE DEF header, front
  <2> QED
    BY <1>8, <1>9, <2>1
<1> QED
  BY <1>4, <1>8, <1>10 DEF IsPrefix

(* The first frame leaves the buffer.                                       *)
LEMMA DropFront ==
  ASSUME NEW b \in Seq(Byte), NEW e \in Seq(Byte), NEW s \in Seq(Byte), NEW n \in Nat,
         NEW r, r = b \o s, NEW t, t = e \o s,
         Framed(r), b # <<>>, n = FrameSize(b[1].kind), Len(b) = Len(e) + n,
         \A i \in 1..Len(e) : e[i] = b[i + n]
  PROVE  Framed(t) /\ (Complete(r) => Complete(t))
<1>1. /\ r \in Seq(Byte) /\ Len(r) = Len(b) + Len(s)
      /\ \A i \in 1..Len(b) : r[i] = b[i]
      /\ \A i \in 1..Len(s) : r[Len(b) + i] = s[i]
  BY TwoParts
<1>2. /\ t \in Seq(Byte) /\ Len(t) = Len(e) + Len(s)
      /\ \A i \in 1..Len(e) : t[i] = e[i]
      /\ \A i \in 1..Len(s) : t[Len(e) + i] = s[i]
  BY TwoParts
<1>3. Len(b) \in Nat \ {0} /\ Len(e) \in Nat /\ Len(s) \in Nat
  OBVIOUS
<1>4. \A i \in 1..Len(t) : t[i] = r[i + n]
  <2> SUFFICES ASSUME NEW i \in 1..Len(t) PROVE t[i] = r[i + n]
    OBVIOUS
  <2>1. CASE i \in 1..Len(e)
    <3>1. i + n \in 1..Len(b)
      BY <1>3, <2>1
    <3> QED
      BY <1>1, <1>2, <2>1, <3>1
  <2>2. CASE i \notin 1..Len(e)
    <3> DEFINE j == i - Len(e)
    <3>1. j \in 1..Len(s) /\ Len(e) + j = i /\ Len(b) + j = i + n
      BY <1>2, <1>3, <2>2
    <3> HIDE DEF j
    <3>2. t[Len(e) + j] = s[j] /\ r[Len(b) + j] = s[j]
      BY <1>1, <1>2, <3>1
    <3> QED
      BY <3>1, <3>2
  <2> QED
    BY <2>1, <2>2
<1>5. r # <<>> /\ n <= Len(r) /\ Len(t) = Len(r) - n /\ r[1] = b[1]
  BY <1>1, <1>2, <1>3
<1> QED
  BY <1>1, <1>2, <1>4, <1>5, DropFrame

LEMMA DropFromBuffer ==
  ASSUME NEW b \in Seq(Byte), NEW c \in Seq(Byte), NEW d \in Seq(Byte), NEW e \in Seq(Byte),
         NEW n \in Nat, Framed(b \o c \o d), b # <<>>, n = FrameSize(b[1].kind), n <= Len(b),
         Len(e) = Len(b) - n, \A i \in 1..(Len(b) - n) : e[i] = b[i + n]
  PROVE  Framed(e \o c \o d) /\ (Complete(b \o c \o d) => Complete(e \o c \o d))
<1> DEFINE s == c \o d
           r == b \o c \o d
           t == e \o c \o d
<1>1. s \in Seq(Byte)
  BY ConcatProperties
<1>2. r = b \o s /\ t = e \o s /\ Framed(r)
  <2>1. b \o c \o d = b \o (c \o d)
    BY Regroup
  <2>2. e \o c \o d = e \o (c \o d)
    BY Regroup
  <2> QED
    BY <2>1, <2>2, Zenon
<1> HIDE DEF s, r, t
<1>3. Len(b) = Len(e) + n /\ \A i \in 1..Len(e) : e[i] = b[i + n]
  OBVIOUS
<1>4. n = FrameSize(b[1].kind)
  OBVIOUS
<1>5. Framed(t) /\ (Complete(r) => Complete(t))
  BY <1>1, <1>2, <1>3, <1>4, DropFront
<1> QED
  BY <1>5 DEF r, t

(* A frame is taken off the buffer: it is the one its header announces.     *)
LEMMA ParseStep ==
  ASSUME RepairInv, ParseFrame
  PROVE  RepairInv'
<1> USE DEF RepairInv
<1> DEFINE kind == buffer[1].kind
           size == FrameSize(kind)
<1>1. /\ client = "parse" /\ Len(buffer) >= HeaderSize
      /\ client' = client /\ turn' = turn /\ due' = due /\ unwritten' = unwritten
      /\ blocked' = blocked /\ UNCHANGED serverVars /\ UNCHANGED networkVars
  BY DEF ParseFrame
<1>2. /\ up' = up /\ listening' = listening /\ server' = server /\ got' = got
      /\ response' = response /\ link' = link /\ toServer' = toServer /\ toClient' = toClient
      /\ breaks' = breaks
  BY <1>1 DEF serverVars, networkVars
<1>3. /\ buffer \in Seq(Byte) /\ toClient \in Seq(Byte) /\ response \in Seq(Byte)
      /\ Len(buffer) \in Nat /\ Len(buffer) <= BufferCap /\ buffer # <<>>
  <2>1. buffer \in Seq(Byte) /\ toClient \in Seq(Byte) /\ response \in Seq(Byte)
        /\ Len(buffer) <= BufferCap
    BY DEF TypeOK
  <2> QED
    BY <1>1, <2>1, Sizes
<1>4. /\ Framed(buffer \o toClient \o response)
      /\ link = "open" => Complete(buffer \o toClient \o response)
  BY DEF FrameInv, Sent
<1>5. kind \in DOMAIN Body /\ IsPrefix(SubSeq(Bytes(kind), 1, HeaderSize), buffer)
  BY <1>1, <1>3, <1>4, HeaderOfBuffer
<1>6. LengthRead = {Body[kind]}
  BY <1>5 DEF LengthRead
<1>7. size \in Nat /\ size = HeaderSize + Body[kind]
  BY <1>5, FrameSizes
<1>8. size <= Len(buffer) /\ buffer' = From(buffer, size)
  <2>1. PICK n \in LengthRead : Whole(n) /\ buffer' = From(buffer, HeaderSize + n)
    BY DEF ParseFrame
  <2>2. n = Body[kind]
    BY <1>6, <2>1
  <2> QED
    BY <1>7, <2>1, <2>2 DEF Whole
<1> HIDE DEF size
<1>9. buffer' \in Seq(Byte) /\ Len(buffer') = Len(buffer) - size
      /\ \A i \in 1..(Len(buffer) - size) : buffer'[i] = buffer[i + size]
  <2>1. size \in 0..Len(buffer)
    BY <1>3, <1>7, <1>8
  <2> QED
    BY <1>3, <1>8, <2>1, FromType
<1>10. FrameInv'
  <2>1. size = FrameSize(buffer[1].kind) /\ size \in Nat /\ size <= Len(buffer)
    BY <1>7, <1>8 DEF size
  <2>2. /\ Framed(buffer' \o toClient \o response)
        /\ Complete(buffer \o toClient \o response) => Complete(buffer' \o toClient \o response)
    BY <1>3, <1>4, <1>9, <2>1, DropFromBuffer
  <2> QED
    BY <1>2, <1>4, <2>2 DEF FrameInv, Sent
<1>11. LinkInv'
  <2>1. link # "none"
    BY <1>3 DEF LinkInv
  <2> QED
    BY <1>1, <1>2, <2>1 DEF LinkInv
<1>12. RoomIsRegained' /\ RequestsAreFramed'
  BY <1>1, <1>2 DEF RoomIsRegained, RequestsAreFramed
<1>13. TypeOK'
  <2>1. Len(buffer') <= BufferCap
    BY <1>3, <1>7, <1>9, Sizes
  <2> QED
    BY <1>1, <1>2, <1>9, <2>1 DEF TypeOK
<1> QED
  BY <1>10, <1>11, <1>12, <1>13

-----------------------------------------------------------------------------
(* Requests are written.                                                    *)

LEMMA OneMore ==
  ASSUME NEW a \in Nat, a % RequestSize = 0
  PROVE  (a + RequestSize) % RequestSize = 0
BY Sizes, ModShift

LEMMA ZeroResidue == 0 % RequestSize = 0
<1> DEFINE r == RequestSize
           p == 0 \div r
<1>1. r \in Nat \ {0}
  BY Sizes
<1>2. 0 = r * p + (0 % r) /\ p \in Nat /\ 0 % r \in 0..(r - 1)
  BY <1>1, DivMod
<1> HIDE DEF r, p
<1>3. r * p \in Nat
  BY <1>1, <1>2
<1>4. 0 % r = 0
  <2> DEFINE x == r * p
             y == 0 % r
  <2>1. x \in Nat /\ y \in Nat /\ 0 = x + y
    BY <1>1, <1>2, <1>3
  <2> HIDE DEF x, y
  <2>2. y = 0
    BY <2>1
  <2> QED
    BY <2>2 DEF y
<1> QED
  BY <1>4 DEF r

LEMMA ConnectStep ==
  ASSUME RepairInv, Connect
  PROVE  RepairInv'
<1> USE DEF RepairInv
<1>1. /\ client = "ask" /\ link = "none" /\ link' = "open" /\ server' = "reading"
      /\ client' = "write" /\ unwritten' = RequestSize /\ up' = up /\ listening' = listening
      /\ got' = got /\ response' = response /\ toServer' = toServer /\ toClient' = toClient
      /\ breaks' = breaks /\ turn' = turn /\ due' = due /\ buffer' = buffer
      /\ blocked' = blocked
  BY DEF Connect
<1>2. server = "idle" /\ got = 0 /\ toServer = 0 /\ toClient = <<>> /\ buffer = <<>>
      /\ response = <<>>
  BY <1>1 DEF LinkInv
<1>3. FrameInv'
  BY <1>1, <1>2, EmptyStream DEF FrameInv, Sent
<1>4. LinkInv'
  BY <1>1, <1>2 DEF LinkInv
<1>5. RequestsAreFramed'
  <2>1. (0 + RequestSize) % RequestSize = 0
    BY ZeroResidue, OneMore
  <2>2. got' + toServer' + unwritten' = 0 + RequestSize
    BY <1>1, <1>2, Sizes
  <2> QED
    BY <2>1, <2>2 DEF RequestsAreFramed
<1>6. RoomIsRegained'
  BY <1>1 DEF RoomIsRegained
<1>7. TypeOK'
  <2>1. unwritten' \in 0..RequestSize
    BY <1>1, Sizes
  <2> QED
    BY <1>1, <2>1 DEF TypeOK
<1> QED
  BY <1>3, <1>4, <1>5, <1>6, <1>7

LEMMA AskStep ==
  ASSUME RepairInv, Ask
  PROVE  RepairInv'
<1> USE DEF RepairInv
<1>1. /\ client = "ask" /\ link # "none" /\ client' = "write" /\ unwritten' = RequestSize
      /\ turn' = turn /\ due' = due /\ buffer' = buffer /\ blocked' = blocked
      /\ UNCHANGED serverVars /\ UNCHANGED networkVars
  BY DEF Ask
<1>2. /\ up' = up /\ listening' = listening /\ server' = server /\ got' = got
      /\ response' = response /\ link' = link /\ toServer' = toServer /\ toClient' = toClient
      /\ breaks' = breaks
  BY <1>1 DEF serverVars, networkVars
<1>3. FrameInv'
  BY <1>1, <1>2, FrameStutter
<1>4. LinkInv'
  BY <1>1, <1>2 DEF LinkInv
<1>5. RequestsAreFramed'
  <2> SUFFICES ASSUME link' = "open" PROVE (got' + toServer' + unwritten') % RequestSize = 0
    BY DEF RequestsAreFramed
  <2> DEFINE a == got + toServer
  <2>1. got \in Nat /\ toServer \in Nat /\ unwritten = 0
    BY <1>1, Sizes DEF TypeOK, LinkInv
  <2>2. a \in Nat /\ got + toServer + unwritten = a /\ got' + toServer' + unwritten' = a + RequestSize
    BY <1>1, <1>2, <2>1
  <2> HIDE DEF a
  <2>3. a % RequestSize = 0
    BY <1>2, <2>2 DEF RequestsAreFramed
  <2> QED
    BY <2>2, <2>3, OneMore
<1>6. RoomIsRegained'
  BY <1>1 DEF RoomIsRegained
<1>7. TypeOK'
  <2>1. unwritten' \in 0..RequestSize
    BY <1>1, Sizes
  <2> QED
    BY <1>1, <1>2, <2>1 DEF TypeOK
<1> QED
  BY <1>3, <1>4, <1>5, <1>6, <1>7

LEMMA WriteStep ==
  ASSUME RepairInv, Write
  PROVE  RepairInv'
<1> USE DEF RepairInv
<1> DEFINE n == Least(unwritten, SocketCap - toServer)
<1>1. /\ client = "write" /\ link' = link /\ buffer' = buffer /\ blocked' = blocked
      /\ toClient' = toClient /\ breaks' = breaks /\ up' = up /\ listening' = listening
      /\ server' = server /\ got' = got /\ response' = response
  BY DEF Write, serverVars
<1>2. /\ got \in Nat /\ toServer \in Nat /\ toServer <= SocketCap /\ unwritten \in Nat
      /\ unwritten <= RequestSize /\ n \in Nat /\ n <= unwritten /\ n <= SocketCap - toServer
  <2>1. got \in Nat /\ toServer \in Nat /\ toServer <= SocketCap /\ unwritten \in Nat
        /\ unwritten <= RequestSize /\ SocketCap - toServer \in Nat
    BY Sizes DEF TypeOK
  <2> QED
    BY <2>1, LeastType
<1>3. \/ link = "open" /\ toServer' = toServer + n /\ unwritten' = unwritten - n
         /\ (\/ n = unwritten /\ Asked
             \/ client' = client /\ turn' = turn /\ due' = due)
      \/ link = "closed" /\ unwritten' = 0 /\ Asked /\ toServer' = toServer
  BY DEF Write
<1> HIDE DEF n
<1>4. FrameInv'
  BY <1>1, FrameStutter
<1>5. client' \in {"write", "ask", "poll"} /\ (client' # "write" => unwritten' = 0)
  <2>1. CASE client' = client
    BY <1>1, <2>1
  <2>2. CASE unwritten' = 0 /\ Asked
    BY <2>2 DEF Asked, NextBucket
  <2> QED
    BY <1>2, <1>3, <2>1, <2>2
<1>6. LinkInv'
  BY <1>1, <1>3, <1>5 DEF LinkInv
<1>7. RequestsAreFramed'
  <2> SUFFICES ASSUME link' = "open" PROVE (got' + toServer' + unwritten') % RequestSize = 0
    BY DEF RequestsAreFramed
  <2>1. got' + toServer' + unwritten' = got + toServer + unwritten
    BY <1>1, <1>2, <1>3
  <2>2. (got + toServer + unwritten) % RequestSize = 0
    BY <1>1 DEF RequestsAreFramed
  <2> QED
    BY <2>1, <2>2
<1>8. RoomIsRegained'
  BY <1>1 DEF RoomIsRegained
<1>9. TypeOK'
  <2>1. toServer' \in 0..SocketCap /\ unwritten' \in 0..RequestSize
    BY <1>2, <1>3, Sizes
  <2>2. turn' \in Bucket /\ due' \subseteq Bucket
    <3>1. turn \in Bucket /\ due \subseteq Bucket
      BY DEF TypeOK
    <3>2. CASE Asked
      <4>1. turn' \in Bucket
        BY <3>1, <3>2, Sizes DEF Asked, NextBucket, Bucket
      <4>2. due' \subseteq Bucket
        BY <3>1, <3>2 DEF Asked
      <4> QED
        BY <4>1, <4>2
    <3>3. CASE turn' = turn /\ due' = due
      BY <3>1, <3>3
    <3> QED
      BY <1>3, <3>2, <3>3
  <2> QED
    BY <1>1, <1>5, <2>1, <2>2 DEF TypeOK
<1> QED
  BY <1>4, <1>6, <1>7, <1>8, <1>9

-----------------------------------------------------------------------------
LEMMA RepairNext ==
  ASSUME RepairInv, [Next]_streamVars
  PROVE  RepairInv'
<1>1. CASE Listen \/ Wake \/ Drained \/ Parsed \/ Quiet \/ Refused \/ RetryTime
  BY <1>1, QuietStep
<1>2. CASE PeerClosed \/ BadFrame \/ GiveUpWrite
  BY <1>2, HangupSteps
<1>3. CASE Exit \/ Break
  BY <1>3, LoseSteps
<1>4. CASE ReadRequest
  BY <1>4, RequestStep
<1>5. CASE WriteResponse
  BY <1>5, ResponseStep
<1>6. CASE Receive
  BY <1>6, ReceiveStep
<1>7. CASE ParseFrame
  BY <1>7, ParseStep
<1>8. CASE Connect
  BY <1>8, ConnectStep
<1>9. CASE Ask
  BY <1>9, AskStep
<1>10. CASE Write
  BY <1>10, WriteStep
<1>11. CASE UNCHANGED streamVars
  BY <1>11 DEF streamVars, serverVars, networkVars, clientVars, RepairInv, TypeOK, LinkInv,
               FrameInv, Sent, RequestsAreFramed, RoomIsRegained
<1> QED
  BY <1>1, <1>2, <1>3, <1>4, <1>5, <1>6, <1>7, <1>8, <1>9, <1>10, <1>11
     DEF Next, ServerStep, ClientStep

LEMMA RepairAlways == Spec => []RepairInv
<1>1. Init => RepairInv
  BY RepairInit
<1>2. RepairInv /\ [Next]_streamVars => RepairInv'
  BY RepairNext
<1> QED
  BY <1>1, <1>2, PTL DEF Spec

-----------------------------------------------------------------------------
(* Whatever the sizes: neither the reassembly buffer nor a socket ever holds *)
(* more than it can, and all positions and counts keep their ranges.        *)
THEOREM RepairTypeCorrect == Spec => []TypeOK
<1>1. RepairInv => TypeOK
  BY DEF RepairInv
<1> QED
  BY <1>1, RepairAlways, PTL

(* drain_tcp() always stands at the first byte of a frame, wherever sockets *)
(* and buffer cut the answers and however often connections are lost and    *)
(* replaced: no header is read out of the middle of another frame.          *)
THEOREM StreamIsFramedAlways == Spec => []StreamIsFramed
<1>1. RepairInv => StreamIsFramed
  BY DEF RepairInv, FrameInv, Sent, StreamIsFramed
<1> QED
  BY <1>1, RepairAlways, PTL

(* serve_one_client() always stands at the first byte of a request when it  *)
(* starts one: half a request that nak() could not write never stays in a   *)
(* connection that is used again.                                           *)
THEOREM RequestsFramedAlways == Spec => []RequestsAreFramed
<1>1. RepairInv => RequestsAreFramed
  BY DEF RepairInv
<1> QED
  BY <1>1, RepairAlways, PTL

(* When drain_tcp() returns there is room in the buffer for the next call:  *)
(* it can never be full of a frame that is not whole.                       *)
THEOREM RoomRegainedAlways == Spec => []RoomIsRegained
<1>1. RepairInv => RoomIsRegained
  BY DEF RepairInv
<1> QED
  BY <1>1, RepairAlways, PTL
=============================================================================
