------------------------ MODULE NetworkObjectProofs ------------------------
(* Proofs about the objects of a connection, each with an inductive invariant *)
(* of its own: the buffer for every size and every set of bytes, the TLS      *)
(* layer for every size of record and every mark, the channel for every set   *)
(* of loops, the resolver for every number of resolutions.                    *)
EXTENDS NetworkObjects, SequenceTheorems, FiniteSetTheorems, TLAPS

(***************************************************************************)
(* Buffer                                                                  *)
(***************************************************************************)
\* The bytes an array may hold.
Cell == Byte \cup {Junk_byte}

\* The arrays new char[n] makes.
Arrays == UNION {[0 .. n - 1 -> Cell] : n \in Nat}

\* The fields of a buffer, with the indexes in order.
Fields(c, r, w, v, a) ==
    [capacity_ |-> c, read_index_ |-> r, write_index_ |-> w, reserved_prepend_size_ |-> v, buffer_ |-> a]
Bufs == [capacity_ : Nat, read_index_ : Nat, write_index_ : Nat, reserved_prepend_size_ : Nat, buffer_ : Arrays]
InOrder(c, r, w, v, a) ==
    /\ c \in Nat /\ r \in Nat /\ w \in Nat /\ v \in Nat /\ r <= w /\ w <= c /\ v <= c
    /\ a \in [0 .. c - 1 -> Cell]
Sound(g) == g \in Bufs /\ InOrder(g.capacity_, g.read_index_, g.write_index_, g.reserved_prepend_size_, g.buffer_)

\* s is what is to be read from g, and u what can be unread.
Reads(g, s) ==
    /\ s \in Seq(Cell) /\ Len(s) = g.write_index_ - g.read_index_
    /\ \A i \in 1 .. Len(s) : g.buffer_[g.read_index_ + i - 1] = s[i]
Unreads(g, u) ==
    /\ u \in Seq(Cell) /\ Len(u) <= g.read_index_
    /\ \A i \in 1 .. Len(u) : g.buffer_[g.read_index_ - Len(u) + i - 1] = u[i]

\* A buffer made of fields in order is sound.
LEMMA SoundFields ==
    ASSUME NEW c, NEW r, NEW w, NEW v, NEW a, InOrder(c, r, w, v, a), NEW g, g = Fields(c, r, w, v, a)
    PROVE  Sound(g)
<1>1. a \in Arrays
  BY DEF InOrder, Arrays
<1> QED BY <1>1 DEF Sound, Bufs, InOrder, Fields

\* Moving the write index and changing the array,
Written(g, w, a) == [g EXCEPT !.write_index_ = w, !.buffer_ = a]
LEMMA WrittenFields ==
    ASSUME NEW g, Sound(g), NEW w, NEW a, InOrder(g.capacity_, g.read_index_, w, g.reserved_prepend_size_, a)
    PROVE  LET h == Written(g, w, a) IN
           /\ Sound(h) /\ h.capacity_ = g.capacity_ /\ h.read_index_ = g.read_index_ /\ h.write_index_ = w
           /\ h.reserved_prepend_size_ = g.reserved_prepend_size_ /\ h.buffer_ = a
<1> DEFINE h == Written(g, w, a)
<1>1. a \in Arrays /\ w \in Nat
  BY DEF InOrder, Arrays, Sound
<1>2. g \in Bufs
  BY DEF Sound
<1>3. /\ h \in Bufs /\ h.capacity_ = g.capacity_ /\ h.read_index_ = g.read_index_ /\ h.write_index_ = w
      /\ h.reserved_prepend_size_ = g.reserved_prepend_size_ /\ h.buffer_ = a
  BY <1>1, <1>2 DEF Bufs, Written
<1> QED BY <1>3 DEF Sound

\* or the read index and the array, leaves the other fields.
ReadFrom(g, r, a) == [g EXCEPT !.read_index_ = r, !.buffer_ = a]
LEMMA ReadFields ==
    ASSUME NEW g, Sound(g), NEW r, NEW a, InOrder(g.capacity_, r, g.write_index_, g.reserved_prepend_size_, a)
    PROVE  LET h == ReadFrom(g, r, a) IN
           /\ Sound(h) /\ h.capacity_ = g.capacity_ /\ h.read_index_ = r /\ h.write_index_ = g.write_index_
           /\ h.reserved_prepend_size_ = g.reserved_prepend_size_ /\ h.buffer_ = a
<1> DEFINE h == ReadFrom(g, r, a)
<1>1. a \in Arrays /\ r \in Nat
  BY DEF InOrder, Arrays, Sound
<1>2. g \in Bufs
  BY DEF Sound
<1>3. /\ h \in Bufs /\ h.capacity_ = g.capacity_ /\ h.write_index_ = g.write_index_ /\ h.read_index_ = r
      /\ h.reserved_prepend_size_ = g.reserved_prepend_size_ /\ h.buffer_ = a
  BY <1>1, <1>2 DEF Bufs, ReadFrom
<1> QED BY <1>3 DEF Sound

\* Nothing can be unread after most operations.
LEMMA NothingToUnread ==
    ASSUME NEW g, Sound(g)
    PROVE  Unreads(g, <<>>)
<1>1. g.read_index_ \in Nat
  BY DEF Sound, InOrder
<1> QED BY <1>1 DEF Unreads

\* A new array has nothing to read.
LEMMA NewIsSound ==
    ASSUME NEW n \in Nat, NEW v \in Nat
    PROVE  /\ Sound(NewBuffer(n, v)) /\ Reads(NewBuffer(n, v), <<>>)
           /\ WritableBytes(NewBuffer(n, v)) = n
<1> DEFINE a == NewArray(v + n)
<1>1. NewBuffer(n, v) = Fields(v + n, v, v, v, a)
  BY DEF NewBuffer, Fields
<1>2. a \in [0 .. (v + n) - 1 -> Cell]
  BY DEF Cell, NewArray
<1> HIDE DEF a
<1>3. InOrder(v + n, v, v, v, a)
  BY <1>2 DEF InOrder
<1>4. Sound(NewBuffer(n, v))
  BY <1>1, <1>3, SoundFields
<1>5. Reads(Fields(v + n, v, v, v, a), <<>>)
  BY DEF Reads, Fields
<1>6. WritableBytes(Fields(v + n, v, v, v, a)) = n
  BY DEF WritableBytes, Fields
<1> QED BY <1>1, <1>4, <1>5, <1>6

\* The data at the front of an array with room for it.
LEMMA PlacedIsSound ==
    ASSUME NEW g, Sound(g), NEW s, Reads(g, s), NEW n \in Nat, NEW rest \in [0 .. n - 1 -> Cell],
           g.reserved_prepend_size_ + Length(g) <= n
    PROVE  /\ Sound(Placed(g, n, rest)) /\ Reads(Placed(g, n, rest), s)
           /\ WritableBytes(Placed(g, n, rest)) = n - (g.reserved_prepend_size_ + Length(g))
<1> DEFINE v == g.reserved_prepend_size_
           r == g.read_index_
           l == Length(g)
           a == [i \in 0 .. n - 1 |-> IF v <= i /\ i < v + l THEN g.buffer_[r + (i - v)] ELSE rest[i]]
<1>1. /\ g.capacity_ \in Nat /\ r \in Nat /\ g.write_index_ \in Nat /\ v \in Nat /\ r <= g.write_index_
      /\ g.write_index_ <= g.capacity_ /\ v <= g.capacity_ /\ g.buffer_ \in [0 .. g.capacity_ - 1 -> Cell]
  BY DEF Sound, InOrder
<1>2. l \in Nat /\ l = g.write_index_ - r /\ v + l <= n
  BY <1>1 DEF Length
<1>3. Placed(g, n, rest) = Fields(n, v, v + l, v, a)
  BY DEF Placed, Fields
<1>4. a \in [0 .. n - 1 -> Cell]
  <2>1. ASSUME NEW i \in 0 .. n - 1, v <= i, i < v + l PROVE g.buffer_[r + (i - v)] \in Cell
    <3>1. r + (i - v) \in 0 .. g.capacity_ - 1
      <4> HIDE DEF v, r, l
      <4>1. /\ g.capacity_ \in Nat /\ r \in Nat /\ g.write_index_ \in Nat /\ v \in Nat /\ r <= g.write_index_
            /\ g.write_index_ <= g.capacity_ /\ l = g.write_index_ - r /\ l \in Nat
        BY <1>1, <1>2
      <4> QED BY ONLY <2>1, <4>1
    <3> QED BY <1>1, <3>1
  <2> QED BY <2>1
<1>5. \A i \in 0 .. n - 1 : v <= i /\ i < v + l => a[i] = g.buffer_[r + (i - v)]
  OBVIOUS
<1> HIDE DEF a
<1>6. InOrder(n, v, v + l, v, a)
  BY <1>1, <1>2, <1>4 DEF InOrder
<1>7. Sound(Placed(g, n, rest))
  BY <1>3, <1>6, SoundFields
<1>8. Reads(Fields(n, v, v + l, v, a), s)
  <2>1. s \in Seq(Cell) /\ Len(s) = l
    BY <1>2 DEF Reads
  <2>2. ASSUME NEW i \in 1 .. Len(s) PROVE a[v + i - 1] = s[i]
    <3>1. v + i - 1 \in 0 .. n - 1 /\ v <= v + i - 1 /\ v + i - 1 < v + l /\ r + ((v + i - 1) - v) = r + i - 1
      <4> HIDE DEF v, r, l
      <4>1. v \in Nat /\ r \in Nat /\ l \in Nat /\ v + l <= n /\ i \in 1 .. l
        BY <1>1, <1>2, <2>1
      <4> QED BY ONLY <4>1
    <3>2. a[v + i - 1] = g.buffer_[r + i - 1]
      BY <1>5, <3>1
    <3> QED BY <3>2 DEF Reads
  <2>3. (v + l) - v = l
    BY <1>1, <1>2
  <2> QED BY <2>1, <2>2, <2>3 DEF Reads, Fields
<1>9. WritableBytes(Fields(n, v, v + l, v, a)) = n - (v + l)
  BY DEF WritableBytes, Fields
<1> QED BY <1>3, <1>7, <1>8, <1>9

\* Growing makes room for len bytes and keeps what is to be read.
LEMMA GrowIsSound ==
    ASSUME NEW g, Sound(g), NEW s, Reads(g, s), NEW len \in Nat
    PROVE  Sound(Grow(g, len)) /\ Reads(Grow(g, len), s) /\ WritableBytes(Grow(g, len)) >= len
<1>1. /\ g.capacity_ \in Nat /\ g.read_index_ \in Nat /\ g.write_index_ \in Nat /\ g.reserved_prepend_size_ \in Nat
      /\ g.read_index_ <= g.write_index_ /\ g.write_index_ <= g.capacity_ /\ g.reserved_prepend_size_ <= g.capacity_
      /\ g.buffer_ \in [0 .. g.capacity_ - 1 -> Cell]
  BY DEF Sound, InOrder
<1>2. Length(g) = g.write_index_ - g.read_index_
  BY DEF Length
<1>3. CASE WritableBytes(g) + PrependableBytes(g) < len + g.reserved_prepend_size_
  <2> DEFINE n == 2 * g.capacity_ + len
             rest == NewArray(n)
  <2>1. Grow(g, len) = Placed(g, n, rest)
    BY <1>3 DEF Grow
  <2>2. rest \in [0 .. n - 1 -> Cell]
    BY DEF Cell, NewArray
  <2>3. n \in Nat /\ g.reserved_prepend_size_ + Length(g) <= n /\ n - (g.reserved_prepend_size_ + Length(g)) >= len
    <3>1. ASSUME NEW c \in Nat, NEW r \in Nat, NEW w \in Nat, NEW v \in Nat, r <= w, w <= c, v <= c
          PROVE  /\ 2 * c + len \in Nat /\ v + (w - r) <= 2 * c + len
                 /\ (2 * c + len) - (v + (w - r)) >= len
      BY <3>1
    <3> QED BY <1>1, <1>2, <3>1
  <2> HIDE DEF n, rest
  <2> QED BY <2>1, <2>2, <2>3, PlacedIsSound
<1>4. CASE ~(WritableBytes(g) + PrependableBytes(g) < len + g.reserved_prepend_size_)
  <2>1. Grow(g, len) = Placed(g, g.capacity_, g.buffer_)
    BY <1>4 DEF Grow
  <2>2. g.reserved_prepend_size_ + Length(g) <= g.capacity_ /\ g.capacity_ - (g.reserved_prepend_size_ + Length(g)) >= len
    BY <1>1, <1>2, <1>4 DEF WritableBytes, PrependableBytes
  <2> QED BY <1>1, <2>1, <2>2, PlacedIsSound
<1> QED BY <1>3, <1>4

\* So does ensureWritableBytes().
LEMMA EnsureIsSound ==
    ASSUME NEW g, Sound(g), NEW s, Reads(g, s), NEW len \in Nat
    PROVE  Sound(EnsureWritable(g, len)) /\ Reads(EnsureWritable(g, len), s) /\ WritableBytes(EnsureWritable(g, len)) >= len
<1>1. WritableBytes(g) \in Int
  BY DEF Sound, InOrder, WritableBytes
<1>2. CASE WritableBytes(g) < len
  BY <1>2, GrowIsSound DEF EnsureWritable
<1>3. CASE ~(WritableBytes(g) < len)
  BY <1>1, <1>3 DEF EnsureWritable
<1> QED BY <1>2, <1>3

\* What is copied to the end is read after the rest.
LEMMA CopiedIsSound ==
    ASSUME NEW g, Sound(g), NEW s, Reads(g, s), NEW d \in Seq(Cell), Len(d) <= WritableBytes(g)
    PROVE  Sound(Copied(g, d)) /\ Reads(Copied(g, d), s \o d)
<1> DEFINE c == g.capacity_
           r == g.read_index_
           w == g.write_index_
           v == g.reserved_prepend_size_
           a == [i \in 0 .. c - 1 |-> IF w <= i /\ i < w + Len(d) THEN d[i - w + 1] ELSE g.buffer_[i]]
<1>1. /\ c \in Nat /\ r \in Nat /\ w \in Nat /\ v \in Nat /\ r <= w /\ w <= c /\ v <= c /\ g.buffer_ \in [0 .. c - 1 -> Cell]
  BY DEF Sound, InOrder
<1>2. Len(d) \in Nat /\ w + Len(d) <= c
  BY <1>1 DEF WritableBytes
<1>3. Copied(g, d) = Written(g, w + Len(d), a)
  BY Zenon DEF Copied, Written
<1>4. a \in [0 .. c - 1 -> Cell]
  <2>1. ASSUME NEW i \in 0 .. c - 1, w <= i, i < w + Len(d) PROVE d[i - w + 1] \in Cell
    <3>1. i - w + 1 \in 1 .. Len(d)
      BY <1>1, <1>2, <2>1
    <3> QED BY <3>1
  <2> QED BY <1>1, <2>1
<1>5. \A i \in 0 .. c - 1 : a[i] = IF w <= i /\ i < w + Len(d) THEN d[i - w + 1] ELSE g.buffer_[i]
  OBVIOUS
<1> HIDE DEF a
<1>6. InOrder(c, r, w + Len(d), v, a)
  BY <1>1, <1>2, <1>4 DEF InOrder
<1> DEFINE h == Written(g, w + Len(d), a)
<1>7. /\ Sound(h) /\ h.read_index_ = r /\ h.write_index_ = w + Len(d) /\ h.buffer_ = a
  BY <1>6, WrittenFields
<1> HIDE DEF h
<1>8. Reads(h, s \o d)
  <2>1. s \in Seq(Cell) /\ Len(s) = w - r /\ \A i \in 1 .. Len(s) : g.buffer_[r + i - 1] = s[i]
    BY DEF Reads
  <2>2. s \o d \in Seq(Cell) /\ Len(s \o d) = Len(s) + Len(d)
        /\ \A i \in 1 .. Len(s) + Len(d) : (s \o d)[i] = IF i <= Len(s) THEN s[i] ELSE d[i - Len(s)]
    BY <2>1, ConcatProperties
  <2> DEFINE q == s \o d
  <2> HIDE DEF q
  <2>3. q \in Seq(Cell) /\ Len(q) = Len(s) + Len(d) /\ \A i \in 1 .. Len(q) : q[i] = IF i <= Len(s) THEN s[i] ELSE d[i - Len(s)]
    BY <2>2 DEF q
  <2>4. ASSUME NEW i \in 1 .. Len(q) PROVE a[r + i - 1] = q[i]
    <3>0. Len(s) = w - r /\ i \in 1 .. Len(s) + Len(d)
      BY <2>1, <2>3
    <3>1. r + i - 1 \in 0 .. c - 1
      <4> HIDE DEF c, r, w, v
      <4> QED BY ONLY <1>1, <1>2, <3>0
    <3>2. CASE i <= Len(s)
      <4>1. ~(w <= r + i - 1) /\ i \in 1 .. Len(s)
        BY <1>1, <2>1, <2>3, <3>2
      <4>2. a[r + i - 1] = g.buffer_[r + i - 1]
        BY <1>5, <3>1, <4>1
      <4>3. g.buffer_[r + i - 1] = s[i]
        BY <2>1, <4>1
      <4> QED BY <2>3, <3>2, <4>2, <4>3
    <3>3. CASE ~(i <= Len(s))
      <4>1. w <= r + i - 1 /\ r + i - 1 < w + Len(d) /\ (r + i - 1) - w + 1 = i - Len(s)
        <5> HIDE DEF c, r, w, v
        <5>1. r \in Nat /\ w \in Nat /\ r <= w
          BY <1>1
        <5> QED BY ONLY <1>2, <3>0, <3>3, <5>1
      <4>2. a[r + i - 1] = d[i - Len(s)]
        BY <1>5, <3>1, <4>1
      <4> QED BY <2>3, <3>3, <4>2
    <3> QED BY <3>2, <3>3
  <2>5. Len(q) = (w + Len(d)) - r
    BY <1>1, <1>2, <2>1, <2>3
  <2>6. Reads(h, q)
    <3> HIDE DEF c, r, w, v
    <3> QED BY <1>7, <2>3, <2>4, <2>5 DEF Reads
  <2> QED BY <2>6 DEF q
<1> QED BY <1>3, <1>7, <1>8 DEF h

\* The part of s from m to n.
LEMMA Piece ==
    ASSUME NEW s \in Seq(Cell), NEW m \in Nat \ {0}, NEW n \in Nat, m <= n + 1, n <= Len(s)
    PROVE  /\ SubSeq(s, m, n) \in Seq(Cell) /\ Len(SubSeq(s, m, n)) = n - m + 1
           /\ \A i \in 1 .. n - m + 1 : SubSeq(s, m, n)[i] = s[m + i - 1]
<1>1. \A i \in m .. n : s[i] \in Cell
  OBVIOUS
<1>2. m \in Int /\ n \in Int
  OBVIOUS
<1>3. /\ SubSeq(s, m, n) \in Seq(Cell) /\ Len(SubSeq(s, m, n)) = (IF m <= n THEN n - m + 1 ELSE 0)
      /\ \A i \in 1 .. n - m + 1 : SubSeq(s, m, n)[i] = s[m + i - 1]
  BY ONLY <1>1, <1>2, SubSeqProperties
<1>4. (IF m <= n THEN n - m + 1 ELSE 0) = n - m + 1
  OBVIOUS
<1> QED BY <1>3, <1>4

\* A sequence written in two pieces.
Joined(s, d) == s \o d
LEMMA JoinedIs ==
    ASSUME NEW s \in Seq(Cell), NEW d \in Seq(Cell)
    PROVE  /\ Joined(s, d) \in Seq(Cell) /\ Len(Joined(s, d)) = Len(s) + Len(d)
           /\ \A i \in 1 .. Len(s) + Len(d) : Joined(s, d)[i] = IF i <= Len(s) THEN s[i] ELSE d[i - Len(s)]
  BY ConcatProperties DEF Joined

\* joins to the same.
LEMMA InPieces ==
    ASSUME NEW s \in Seq(Cell), NEW d1 \in Seq(Cell), NEW d2 \in Seq(Cell)
    PROVE  Joined(Joined(s, d1), d2) = Joined(s, Joined(d1, d2))
<1> DEFINE d == Joined(d1, d2)
           p == Joined(s, d1)
           q == Joined(p, d2)
           e == Joined(s, d)
<1>1. p \in Seq(Cell) /\ Len(p) = Len(s) + Len(d1) /\ \A i \in 1 .. Len(s) + Len(d1) : p[i] = IF i <= Len(s) THEN s[i] ELSE d1[i - Len(s)]
  BY JoinedIs
<1>2. d \in Seq(Cell) /\ Len(d) = Len(d1) + Len(d2) /\ \A i \in 1 .. Len(d1) + Len(d2) : d[i] = IF i <= Len(d1) THEN d1[i] ELSE d2[i - Len(d1)]
  BY JoinedIs
<1> HIDE DEF d, p
<1>3. q \in Seq(Cell) /\ Len(q) = Len(p) + Len(d2) /\ \A i \in 1 .. Len(p) + Len(d2) : q[i] = IF i <= Len(p) THEN p[i] ELSE d2[i - Len(p)]
  BY <1>1, JoinedIs
<1>4. e \in Seq(Cell) /\ Len(e) = Len(s) + Len(d) /\ \A i \in 1 .. Len(s) + Len(d) : e[i] = IF i <= Len(s) THEN s[i] ELSE d[i - Len(s)]
  BY <1>2, JoinedIs
<1> HIDE DEF q, e
<1>5. Len(s) \in Nat /\ Len(d1) \in Nat /\ Len(d2) \in Nat
  OBVIOUS
<1>6. Len(q) = Len(e)
  BY ONLY <1>1, <1>2, <1>3, <1>4, <1>5
<1>7. ASSUME NEW i \in 1 .. Len(q) PROVE q[i] = e[i]
  <2>1. i \in 1 .. Len(p) + Len(d2) /\ i \in 1 .. Len(s) + Len(d)
    BY <1>3, <1>4, <1>6
  <2>2. CASE i <= Len(s)
    <3>1. i <= Len(p) /\ i \in 1 .. Len(s) + Len(d1)
      BY <1>1, <1>5, <2>1, <2>2
    <3>2. q[i] = p[i]
      BY <1>3, <2>1, <3>1
    <3>3. p[i] = s[i]
      BY <1>1, <2>2, <3>1
    <3>4. e[i] = s[i]
      BY <1>4, <2>1, <2>2
    <3> QED BY <3>2, <3>3, <3>4
  <2>3. CASE ~(i <= Len(s)) /\ i <= Len(p)
    <3> DEFINE j == i - Len(s)
    <3>1. i \in 1 .. Len(s) + Len(d1) /\ j \in 1 .. Len(d1) + Len(d2) /\ j <= Len(d1)
      BY <1>1, <1>5, <2>1, <2>3
    <3>2. q[i] = p[i]
      BY <1>3, <2>1, <2>3
    <3>3. p[i] = d1[j]
      BY <1>1, <2>3, <3>1
    <3>4. e[i] = d[j]
      BY <1>4, <2>1, <2>3
    <3> HIDE DEF j
    <3>5. d[j] = d1[j]
      BY <1>2, <3>1
    <3> QED BY <3>2, <3>3, <3>4, <3>5
  <2>4. CASE ~(i <= Len(p))
    <3> DEFINE j == i - Len(s)
    <3>1. ~(i <= Len(s)) /\ j \in 1 .. Len(d1) + Len(d2) /\ ~(j <= Len(d1)) /\ i - Len(p) = j - Len(d1)
      BY <1>1, <1>2, <1>5, <2>1, <2>4
    <3>2. q[i] = d2[j - Len(d1)]
      BY <1>3, <2>1, <2>4, <3>1
    <3>4. e[i] = d[j]
      BY <1>4, <2>1, <3>1
    <3> HIDE DEF j
    <3>5. d[j] = d2[j - Len(d1)]
      BY <1>2, <3>1
    <3> QED BY <3>2, <3>4, <3>5
  <2> QED BY <2>2, <2>3, <2>4
<1>8. q = e
  BY <1>3, <1>4, <1>6, <1>7, SeqEqual
<1> QED BY <1>8, Zenon DEF d, p, q, e

\* Moving the read index,
ReadAt(g, r) == [g EXCEPT !.read_index_ = r]
LEMMA ReadAtFields ==
    ASSUME NEW g, Sound(g), NEW r \in Nat, r <= g.write_index_
    PROVE  LET h == ReadAt(g, r) IN
           Sound(h) /\ h.read_index_ = r /\ h.write_index_ = g.write_index_ /\ h.buffer_ = g.buffer_
<1> DEFINE h == ReadAt(g, r)
<1>1. g \in Bufs
  BY DEF Sound
<1>2. /\ h \in Bufs /\ h.capacity_ = g.capacity_ /\ h.write_index_ = g.write_index_ /\ h.read_index_ = r
      /\ h.reserved_prepend_size_ = g.reserved_prepend_size_ /\ h.buffer_ = g.buffer_
  BY <1>1 DEF Bufs, ReadAt
<1> HIDE DEF h
<1>3. Sound(h)
  BY <1>2 DEF Sound, InOrder
<1> QED BY <1>2, <1>3 DEF h

\* the write index,
WriteAt(g, w) == [g EXCEPT !.write_index_ = w]
LEMMA WriteAtFields ==
    ASSUME NEW g, Sound(g), NEW w \in Nat, g.read_index_ <= w, w <= g.capacity_
    PROVE  LET h == WriteAt(g, w) IN
           Sound(h) /\ h.read_index_ = g.read_index_ /\ h.write_index_ = w /\ h.buffer_ = g.buffer_
<1> DEFINE h == WriteAt(g, w)
<1>1. g \in Bufs
  BY DEF Sound
<1>2. /\ h \in Bufs /\ h.capacity_ = g.capacity_ /\ h.write_index_ = w /\ h.read_index_ = g.read_index_
      /\ h.reserved_prepend_size_ = g.reserved_prepend_size_ /\ h.buffer_ = g.buffer_
  BY <1>1 DEF Bufs, WriteAt
<1> HIDE DEF h
<1>3. Sound(h)
  BY <1>2 DEF Sound, InOrder
<1> QED BY <1>2, <1>3 DEF h

\* and both to the reserved index.
LEMMA ResetIsSound ==
    ASSUME NEW g, Sound(g)
    PROVE  Sound(Reset(g)) /\ Reads(Reset(g), <<>>)
<1> DEFINE h == Reset(g)
<1>1. g \in Bufs
  BY DEF Sound
<1>2. /\ h \in Bufs /\ h.capacity_ = g.capacity_ /\ h.write_index_ = g.reserved_prepend_size_
      /\ h.read_index_ = g.reserved_prepend_size_
      /\ h.reserved_prepend_size_ = g.reserved_prepend_size_ /\ h.buffer_ = g.buffer_
  BY <1>1 DEF Bufs, Reset
<1> HIDE DEF h
<1>3. Sound(h)
  BY <1>2 DEF Sound, InOrder
<1>4. h.write_index_ - h.read_index_ = 0
  BY <1>2 DEF Sound, InOrder
<1>5. Reads(h, <<>>)
  BY <1>4 DEF Reads
<1> QED BY <1>3, <1>5 DEF h

\* Reading n bytes that are not all: they can be unread.
LEMMA ReadsOn ==
    ASSUME NEW g, Sound(g), NEW s, Reads(g, s), NEW n \in Nat, n <= Len(s)
    PROVE  LET h == ReadAt(g, g.read_index_ + n) IN
           Sound(h) /\ Reads(h, SubSeq(s, n + 1, Len(s))) /\ Unreads(h, SubSeq(s, 1, n))
<1> DEFINE r == g.read_index_
           w == g.write_index_
           h == ReadAt(g, r + n)
           p == SubSeq(s, n + 1, Len(s))
           u == SubSeq(s, 1, n)
<1>1. r \in Nat /\ w \in Nat /\ s \in Seq(Cell) /\ Len(s) = w - r /\ Len(s) \in Nat
  BY DEF Sound, InOrder, Reads
<1>2. r + n \in Nat /\ r + n <= w
  BY <1>1
<1>3. Sound(h) /\ h.read_index_ = r + n /\ h.write_index_ = w /\ h.buffer_ = g.buffer_
  BY <1>2, ReadAtFields
<1>4. p \in Seq(Cell) /\ Len(p) = Len(s) - (n + 1) + 1 /\ \A i \in 1 .. Len(s) - (n + 1) + 1 : p[i] = s[(n + 1) + i - 1]
  <2> DEFINE m == n + 1
             e == Len(s)
  <2>1. m \in Nat \ {0} /\ m <= e + 1 /\ e \in Nat /\ s \in Seq(Cell) /\ e <= Len(s)
    BY <1>1
  <2>2. p = SubSeq(s, m, e)
    OBVIOUS
  <2> HIDE DEF m, e, p
  <2>3. p \in Seq(Cell) /\ Len(p) = e - m + 1 /\ \A i \in 1 .. e - m + 1 : p[i] = s[m + i - 1]
    BY ONLY <2>1, <2>2, Piece
  <2> QED BY ONLY <2>3 DEF m, e
<1>5. u \in Seq(Cell) /\ Len(u) = n - 1 + 1 /\ \A i \in 1 .. n - 1 + 1 : u[i] = s[1 + i - 1]
  <2>1. 1 \in Nat \ {0} /\ 1 <= n + 1
    OBVIOUS
  <2> QED BY <1>1, <2>1, Piece
<1> HIDE DEF h, p, u, r, w
<1>6. \A i \in 1 .. Len(s) : g.buffer_[r + i - 1] = s[i]
  BY DEF Reads, r
<1>7. Reads(h, p)
  <2>1. ASSUME NEW i \in 1 .. Len(p) PROVE h.buffer_[h.read_index_ + i - 1] = p[i]
    <3>1. /\ i \in 1 .. Len(s) - (n + 1) + 1 /\ n + i \in 1 .. Len(s)
          /\ (n + 1) + i - 1 = n + i /\ (r + n) + i - 1 = r + (n + i) - 1
      <4>1. r \in Nat /\ Len(s) \in Nat /\ i \in 1 .. Len(s) - (n + 1) + 1
        BY <1>1, <1>4
      <4> QED BY ONLY <4>1, n \in Nat
    <3>2. p[i] = s[n + i]
      BY <1>4, <3>1
    <3>3. g.buffer_[r + (n + i) - 1] = s[n + i]
      BY <1>6, <3>1
    <3> QED BY <1>3, <3>1, <3>2, <3>3
  <2>2. Len(p) = h.write_index_ - h.read_index_
    BY <1>1, <1>3, <1>4
  <2> QED BY <1>4, <2>1, <2>2 DEF Reads
<1>8. Unreads(h, u)
  <2>1. ASSUME NEW i \in 1 .. Len(u) PROVE h.buffer_[h.read_index_ - Len(u) + i - 1] = u[i]
    <3>1. Len(u) = n /\ i \in 1 .. n - 1 + 1 /\ i \in 1 .. Len(s) /\ 1 + i - 1 = i /\ (r + n) - n + i - 1 = r + i - 1
      BY <1>1, <1>5
    <3>2. u[i] = s[i]
      BY <1>5, <3>1
    <3>3. g.buffer_[r + i - 1] = s[i]
      BY <1>6, <3>1
    <3> QED BY <1>3, <3>1, <3>2, <3>3
  <2>2. Len(u) <= h.read_index_
    BY <1>1, <1>3, <1>5
  <2> QED BY <1>5, <2>1, <2>2 DEF Unreads
<1> QED BY <1>3, <1>7, <1>8 DEF h, p, u, r

\* Cutting the end off.
LEMMA CutOff ==
    ASSUME NEW g, Sound(g), NEW s, Reads(g, s), NEW n \in Nat, n <= Len(s)
    PROVE  LET h == WriteAt(g, g.read_index_ + n) IN Sound(h) /\ Reads(h, SubSeq(s, 1, n))
<1> DEFINE r == g.read_index_
           h == WriteAt(g, r + n)
           u == SubSeq(s, 1, n)
<1>1. r \in Nat /\ g.write_index_ \in Nat /\ s \in Seq(Cell) /\ Len(s) = g.write_index_ - r /\ Len(s) \in Nat
      /\ g.capacity_ \in Nat /\ g.write_index_ <= g.capacity_
  BY DEF Sound, InOrder, Reads
<1>2. r + n \in Nat /\ r + n <= g.capacity_ /\ r <= r + n
  BY <1>1
<1>3. Sound(h) /\ h.read_index_ = r /\ h.write_index_ = r + n /\ h.buffer_ = g.buffer_
  BY <1>2, WriteAtFields
<1>5. u \in Seq(Cell) /\ Len(u) = n - 1 + 1 /\ \A i \in 1 .. n - 1 + 1 : u[i] = s[1 + i - 1]
  <2>1. 1 \in Nat \ {0} /\ 1 <= n + 1
    OBVIOUS
  <2> QED BY <1>1, <2>1, Piece
<1> HIDE DEF h, u, r
<1>6. \A i \in 1 .. Len(s) : g.buffer_[r + i - 1] = s[i]
  BY DEF Reads, r
<1>7. Reads(h, u)
  <2>1. ASSUME NEW i \in 1 .. Len(u) PROVE h.buffer_[h.read_index_ + i - 1] = u[i]
    <3>1. Len(u) = n /\ i \in 1 .. n - 1 + 1 /\ i \in 1 .. Len(s) /\ 1 + i - 1 = i
      BY <1>1, <1>5
    <3>2. u[i] = s[i]
      BY <1>5, <3>1
    <3>3. g.buffer_[r + i - 1] = s[i]
      BY <1>6, <3>1
    <3> QED BY <1>3, <3>1, <3>2, <3>3
  <2>2. Len(u) = h.write_index_ - h.read_index_
    BY <1>1, <1>3, <1>5
  <2> QED BY <1>5, <2>1, <2>2 DEF Reads
<1> QED BY <1>3, <1>7 DEF h, u, r

\* Bytes put before what is to be read, where they were or where they are copied to, are
\* read first.
LEMMA ReadsBefore ==
    ASSUME NEW g, Sound(g), NEW s, Reads(g, s), NEW d \in Seq(Cell), NEW h, Sound(h),
           Len(d) <= g.read_index_, h.read_index_ = g.read_index_ - Len(d), h.write_index_ = g.write_index_,
           \A i \in 1 .. Len(d) : h.buffer_[h.read_index_ + i - 1] = d[i],
           \A i \in g.read_index_ .. g.write_index_ - 1 : h.buffer_[i] = g.buffer_[i]
    PROVE  Reads(h, d \o s)
<1> DEFINE r == g.read_index_
           w == g.write_index_
           q == d \o s
<1>1. r \in Nat /\ w \in Nat /\ s \in Seq(Cell) /\ Len(s) = w - r /\ Len(s) \in Nat /\ Len(d) \in Nat /\ Len(d) <= r
  BY DEF Sound, InOrder, Reads
<1>2. q \in Seq(Cell) /\ Len(q) = Len(d) + Len(s) /\ \A i \in 1 .. Len(d) + Len(s) : q[i] = IF i <= Len(d) THEN d[i] ELSE s[i - Len(d)]
  BY <1>1, ConcatProperties
<1>3. h.read_index_ = r - Len(d) /\ h.write_index_ = w
  OBVIOUS
<1>4. \A i \in 1 .. Len(s) : g.buffer_[r + i - 1] = s[i]
  BY DEF Reads
<1>5. \A i \in r .. w - 1 : h.buffer_[i] = g.buffer_[i]
  OBVIOUS
<1> HIDE DEF q, r, w
<1>6. ASSUME NEW i \in 1 .. Len(q) PROVE h.buffer_[h.read_index_ + i - 1] = q[i]
  <2>1. i \in 1 .. Len(d) + Len(s)
    BY <1>2
  <2>2. CASE i <= Len(d)
    <3>1. i \in 1 .. Len(d)
      BY <1>1, <2>1, <2>2
    <3> QED BY <1>2, <2>1, <2>2, <3>1
  <2>3. CASE ~(i <= Len(d))
    <3> DEFINE j == i - Len(d)
    <3>1. j \in 1 .. Len(s) /\ (r - Len(d)) + i - 1 = r + j - 1 /\ r + j - 1 \in r .. w - 1
      BY <1>1, <2>1, <2>3
    <3>2. q[i] = s[j]
      BY <1>2, <2>1, <2>3
    <3> HIDE DEF j
    <3>3. h.buffer_[r + j - 1] = g.buffer_[r + j - 1]
      BY <1>5, <3>1
    <3>4. g.buffer_[r + j - 1] = s[j]
      BY <1>4, <3>1
    <3> QED BY <1>3, <3>1, <3>2, <3>3, <3>4
  <2> QED BY <2>2, <2>3
<1>7. Len(q) = h.write_index_ - h.read_index_
  BY <1>1, <1>2, <1>3
<1> QED BY <1>2, <1>6, <1>7 DEF Reads, q

\* The inductive invariant of a buffer.
BufferInv == Sound(b) /\ Reads(b, content) /\ Unreads(b, lastRead)

\* A step after which nothing can be unread.
LEMMA BufferStep ==
    ASSUME NEW g, Sound(g), Reads(g, content'), b' = g, lastRead' = <<>>
    PROVE  BufferInv'
  BY NothingToUnread DEF BufferInv

\* A new buffer is empty.
LEMMA BufferInitInv == BufferInit => BufferInv
  BY BufferSizes, NewIsSound, NothingToUnread DEF BufferInit, BufferInv

\* write(), append() and their like,
LEMMA WriteKeeps ==
    ASSUME BufferInv, NEW d \in Seq(Cell), NEW room \in Nat, Write(d, room)
    PROVE  BufferInv'
<1> DEFINE e == EnsureWritable(b, room)
<1>1. Sound(e) /\ Reads(e, content) /\ WritableBytes(e) >= room
  BY EnsureIsSound DEF BufferInv
<1>2. Len(d) <= room /\ b' = Copied(e, d) /\ content' = content \o d /\ lastRead' = <<>>
  BY DEF Write, Becomes
<1>3. WritableBytes(e) \in Int
  BY <1>1 DEF Sound, InOrder, WritableBytes
<1> HIDE DEF e
<1>4. Len(d) <= WritableBytes(e)
  BY <1>1, <1>2, <1>3
<1>5. Sound(Copied(e, d)) /\ Reads(Copied(e, d), content \o d)
  BY <1>1, <1>4, CopiedIsSound
<1> QED BY <1>2, <1>5, BufferStep

\* readFromFd(), which may fill the array and append the rest,
LEMMA ReadFromFdKeeps ==
    ASSUME BufferInv, NEW d \in Seq(Cell), ReadFromFd(d)
    PROVE  BufferInv'
<1>0. Sound(b) /\ Reads(b, content) /\ content \in Seq(Cell)
  BY DEF BufferInv, Reads
<1>1. content' = content \o d /\ lastRead' = <<>>
  BY DEF ReadFromFd
<1>2. CASE Len(d) <= WritableBytes(b)
  <2>1. b' = Copied(b, d)
    BY <1>2 DEF ReadFromFd, Becomes
  <2>2. Sound(Copied(b, d)) /\ Reads(Copied(b, d), content \o d)
    BY <1>0, <1>2, CopiedIsSound
  <2> QED BY <1>1, <2>1, <2>2, BufferStep
<1>3. CASE ~(Len(d) <= WritableBytes(b))
  <2> DEFINE k == WritableBytes(b)
             d1 == SubSeq(d, 1, k)
             d2 == SubSeq(d, k + 1, Len(d))
             full == Copied(b, d1)
             e == EnsureWritable(full, Len(d2))
  <2>1. k \in Nat /\ k <= Len(d) /\ Len(d) \in Nat
    <3>1. k \in Nat
      BY <1>0 DEF Sound, InOrder, WritableBytes
    <3> QED BY <1>3, <3>1
  <2>2. b' = Copied(e, d2)
    BY <1>3 DEF ReadFromFd, Becomes
  <2>3. d1 \in Seq(Cell) /\ Len(d1) = k
    <3>1. 1 \in Nat \ {0} /\ 1 <= k + 1 /\ k - 1 + 1 = k
      BY <2>1
    <3> HIDE DEF k
    <3> QED BY <2>1, <3>1, Piece
  <2>4. d2 \in Seq(Cell)
    <3>1. k + 1 \in Nat \ {0} /\ k + 1 <= Len(d) + 1
      BY <2>1
    <3> HIDE DEF k
    <3> QED BY <2>1, <3>1, Piece
  <2>5. d1 \o d2 = d
    <3>1. 1 \in 1 .. Len(d) + 1 /\ k \in 1 - 1 .. Len(d) /\ Len(d) \in k .. Len(d)
      BY <2>1
    <3> HIDE DEF k
    <3>2. d1 \o d2 = SubSeq(d, 1, Len(d))
      BY <3>1, ConcatAdjacentSubSeq
    <3> QED BY <3>2, SubSeqFull
  <2>6. Len(d1) <= WritableBytes(b)
    BY <2>1, <2>3
  <2> HIDE DEF k, d1, d2
  <2>7. Sound(full) /\ Reads(full, content \o d1)
    BY <1>0, <2>3, <2>6, CopiedIsSound
  <2> HIDE DEF full
  <2>8. Len(d2) \in Nat
    BY <2>4
  <2>9. Sound(e) /\ Reads(e, content \o d1) /\ WritableBytes(e) >= Len(d2)
    BY <2>7, <2>8, EnsureIsSound
  <2>10. WritableBytes(e) \in Int
    BY <2>9 DEF Sound, InOrder, WritableBytes
  <2> HIDE DEF e
  <2>11. Sound(Copied(e, d2)) /\ Reads(Copied(e, d2), (content \o d1) \o d2)
    <3>1. Len(d2) <= WritableBytes(e)
      BY <2>8, <2>9, <2>10
    <3> QED BY <2>4, <2>9, <3>1, CopiedIsSound
  <2>12. (content \o d1) \o d2 = content \o d
    <3>1. Joined(Joined(content, d1), d2) = Joined(content, Joined(d1, d2))
      BY <1>0, <2>3, <2>4, InPieces
    <3> QED BY <2>5, <3>1, Zenon DEF Joined
  <2> QED BY <1>1, <2>2, <2>11, <2>12, BufferStep
<1> QED BY <1>2, <1>3

\* prepend(),
LEMMA PrependKeeps ==
    ASSUME BufferInv, NEW d \in Seq(Cell), Prepend(d)
    PROVE  BufferInv'
<1> DEFINE c == b.capacity_
           r == b.read_index_ - Len(d)
           a == [i \in 0 .. c - 1 |-> IF r <= i /\ i < r + Len(d) THEN d[i - r + 1] ELSE b.buffer_[i]]
           h == ReadFrom(b, r, a)
<1>0. Sound(b) /\ Reads(b, content)
  BY DEF BufferInv
<1>1. /\ c \in Nat /\ b.read_index_ \in Nat /\ b.write_index_ \in Nat /\ b.read_index_ <= b.write_index_
      /\ b.write_index_ <= c /\ b.buffer_ \in [0 .. c - 1 -> Cell]
      /\ b.reserved_prepend_size_ \in Nat /\ b.reserved_prepend_size_ <= c
  BY <1>0 DEF Sound, InOrder
<1>2. Len(d) \in Nat /\ Len(d) <= b.read_index_
  BY DEF Prepend, PrependableBytes
<1>3. b' = h /\ content' = d \o content /\ lastRead' = <<>>
  <2>1. b' = [b EXCEPT !.read_index_ = r, !.buffer_ = a]
    BY Zenon DEF Prepend
  <2> QED BY <2>1, Zenon DEF Prepend, ReadFrom
<1>4. r \in Nat /\ r <= b.write_index_ /\ r + Len(d) = b.read_index_
  BY <1>1, <1>2
<1>5. a \in [0 .. c - 1 -> Cell]
  <2> HIDE DEF r, c
  <2>1. ASSUME NEW i \in 0 .. c - 1, r <= i, i < r + Len(d) PROVE d[i - r + 1] \in Cell
    <3>1. i - r + 1 \in 1 .. Len(d)
      BY <1>1, <1>2, <1>4, <2>1
    <3> QED BY <3>1
  <2> QED BY <1>1, <2>1
<1>6. \A i \in 0 .. c - 1 : a[i] = IF r <= i /\ i < r + Len(d) THEN d[i - r + 1] ELSE b.buffer_[i]
  OBVIOUS
<1> HIDE DEF a
<1>7. InOrder(c, r, b.write_index_, b.reserved_prepend_size_, a)
  BY <1>1, <1>4, <1>5 DEF InOrder
<1>8. Sound(h) /\ h.read_index_ = r /\ h.write_index_ = b.write_index_ /\ h.buffer_ = a
  BY <1>0, <1>7, ReadFields
<1> HIDE DEF h, r, c
<1>9. \A i \in 1 .. Len(d) : a[r + i - 1] = d[i]
  <2> SUFFICES ASSUME NEW i \in 1 .. Len(d) PROVE a[r + i - 1] = d[i]
    OBVIOUS
  <2>1. r + i - 1 \in 0 .. c - 1 /\ r <= r + i - 1 /\ r + i - 1 < r + Len(d) /\ (r + i - 1) - r + 1 = i
    BY <1>1, <1>2, <1>4
  <2> QED BY <1>6, <2>1
<1>10. \A i \in b.read_index_ .. b.write_index_ - 1 : a[i] = b.buffer_[i]
  <2> SUFFICES ASSUME NEW i \in b.read_index_ .. b.write_index_ - 1 PROVE a[i] = b.buffer_[i]
    OBVIOUS
  <2>1. i \in 0 .. c - 1 /\ ~(i < r + Len(d))
    BY <1>1, <1>4
  <2> QED BY <1>6, <2>1
<1>11. h.read_index_ = b.read_index_ - Len(d)
  BY <1>8 DEF r
<1>12. Reads(h, d \o content)
  BY <1>0, <1>2, <1>8, <1>9, <1>10, <1>11, ReadsBefore
<1> QED BY <1>3, <1>8, <1>12, BufferStep

\* skip() and its like,
LEMMA SkipKeeps ==
    ASSUME BufferInv, NEW n \in Nat, Skip(n)
    PROVE  BufferInv'
<1>0. Sound(b) /\ Reads(b, content) /\ Length(b) = Len(content) /\ Len(content) \in Nat
  BY DEF BufferInv, Reads, Length
<1>1. CASE n < Length(b)
  <2>1. b' = ReadAt(b, b.read_index_ + n) /\ content' = SubSeq(content, n + 1, Len(content)) /\ lastRead' = SubSeq(content, 1, n)
    <3>1. b' = [b EXCEPT !.read_index_ = b.read_index_ + n]
      BY <1>1 DEF Skip, Skipped
    <3> QED BY <1>1, <3>1 DEF Skip, ReadAt
  <2>2. n <= Len(content)
    BY <1>0, <1>1
  <2> QED BY <1>0, <2>1, <2>2, ReadsOn DEF BufferInv
<1>2. CASE ~(n < Length(b))
  <2>1. b' = Reset(b) /\ content' = <<>> /\ lastRead' = <<>>
    BY <1>2 DEF Skip, Skipped
  <2> QED BY <1>0, <2>1, ResetIsSound, BufferStep
<1> QED BY <1>1, <1>2

\* readByte(),
LEMMA ReadByteKeeps ==
    ASSUME BufferInv, ReadByte
    PROVE  BufferInv'
<1>0. Sound(b) /\ Reads(b, content) /\ Length(b) = Len(content) /\ content \in Seq(Cell) /\ Len(content) \in Nat
  BY DEF BufferInv, Reads, Length
<1>1. 1 \in Nat /\ 1 <= Len(content)
  BY <1>0 DEF ReadByte
<1>2. b' = ReadAt(b, b.read_index_ + 1)
  BY DEF ReadByte, ReadAt
<1>3. content' = SubSeq(content, 1 + 1, Len(content))
  <2>1. Tail(content) = SubSeq(content, 2, Len(content))
    BY <1>0, TailIsSubSeq
  <2> QED BY <2>1 DEF ReadByte
<1>4. lastRead' = SubSeq(content, 1, 1)
  <2>1. lastRead' = <<Head(content)>> /\ Head(content) = content[1]
    BY <1>0, <1>1 DEF ReadByte
  <2>2. SubSeq(content, 1, 1) = <<content[1]>>
    <3> DEFINE u == SubSeq(content, 1, 1)
    <3>1. u \in Seq(Cell) /\ Len(u) = 1 - 1 + 1 /\ \A i \in 1 .. 1 - 1 + 1 : u[i] = content[1 + i - 1]
      <4>1. 1 \in Nat \ {0} /\ 1 <= 1 + 1
        OBVIOUS
      <4> QED BY <1>0, <1>1, <4>1, Piece
    <3> HIDE DEF u
    <3>2. Len(u) = 1 /\ u[1] = content[1]
      BY <3>1
    <3>3. u = <<content[1]>>
      BY <3>1, <3>2
    <3> QED BY <3>3 DEF u
  <2> QED BY <2>1, <2>2
<1> QED BY <1>0, <1>1, <1>2, <1>3, <1>4, ReadsOn DEF BufferInv

\* unreadBytes(),
LEMMA UnreadKeeps ==
    ASSUME BufferInv, NEW n \in Nat, UnreadBytes(n)
    PROVE  BufferInv'
<1> DEFINE l == Len(lastRead)
           k == l - n
           r == b.read_index_
           d == SubSeq(lastRead, k + 1, l)
           u == SubSeq(lastRead, 1, k)
           h == ReadAt(b, r - n)
<1>0. Sound(b) /\ Reads(b, content) /\ lastRead \in Seq(Cell) /\ l <= r /\ l \in Nat
  BY DEF BufferInv, Unreads
<1>1. n < r /\ n <= l /\ b' = h /\ content' = d \o content /\ lastRead' = u
  BY DEF UnreadBytes, ReadAt
<1>2. r \in Nat /\ b.write_index_ \in Nat /\ r <= b.write_index_
  BY <1>0 DEF Sound, InOrder
<1>3. k \in Nat /\ r - n \in Nat /\ r - n <= b.write_index_ /\ k <= l
  BY <1>0, <1>1, <1>2
<1>4. Sound(h) /\ h.read_index_ = r - n /\ h.write_index_ = b.write_index_ /\ h.buffer_ = b.buffer_
  BY <1>0, <1>3, ReadAtFields
<1>5. d \in Seq(Cell) /\ Len(d) = l - (k + 1) + 1 /\ \A i \in 1 .. l - (k + 1) + 1 : d[i] = lastRead[(k + 1) + i - 1]
  <2>1. k + 1 \in Nat \ {0} /\ k + 1 <= l + 1
    BY <1>0, <1>3
  <2> HIDE DEF k
  <2> QED BY <1>0, <2>1, Piece
<1>6. u \in Seq(Cell) /\ Len(u) = k - 1 + 1 /\ \A i \in 1 .. k - 1 + 1 : u[i] = lastRead[1 + i - 1]
  <2>1. 1 \in Nat \ {0} /\ 1 <= k + 1
    BY <1>3
  <2> HIDE DEF k
  <2> QED BY <1>0, <1>3, <2>1, Piece
<1>7. \A i \in 1 .. l : b.buffer_[r - l + i - 1] = lastRead[i]
  BY DEF BufferInv, Unreads
<1>8. k = l - n
  OBVIOUS
<1> HIDE DEF l, k, r, d, u, h
<1>9. Len(d) = n /\ Len(u) = k
  BY <1>0, <1>1, <1>3, <1>5, <1>6, <1>8
<1>10. ASSUME NEW i \in 1 .. Len(d) PROVE h.buffer_[h.read_index_ + i - 1] = d[i]
  <2>1. /\ i \in 1 .. l - (k + 1) + 1 /\ k + i \in 1 .. l /\ (k + 1) + i - 1 = k + i
        /\ (r - n) + i - 1 = r - l + (k + i) - 1
    BY <1>0, <1>1, <1>2, <1>3, <1>8, <1>9
  <2>2. d[i] = lastRead[k + i]
    BY <1>5, <2>1
  <2>3. b.buffer_[r - l + (k + i) - 1] = lastRead[k + i]
    BY <1>7, <2>1
  <2> QED BY <1>4, <2>1, <2>2, <2>3
<1>11. ASSUME NEW i \in 1 .. Len(u) PROVE h.buffer_[h.read_index_ - Len(u) + i - 1] = u[i]
  <2>1. i \in 1 .. k - 1 + 1 /\ i \in 1 .. l /\ 1 + i - 1 = i /\ (r - n) - k + i - 1 = r - l + i - 1
    BY <1>0, <1>1, <1>2, <1>3, <1>8, <1>9
  <2>2. u[i] = lastRead[i]
    BY <1>6, <2>1
  <2>3. b.buffer_[r - l + i - 1] = lastRead[i]
    BY <1>7, <2>1
  <2> QED BY <1>4, <1>9, <2>1, <2>2, <2>3
<1>12. Reads(h, d \o content)
  <2>1. Len(d) <= b.read_index_ /\ h.read_index_ = b.read_index_ - Len(d)
    BY <1>1, <1>2, <1>4, <1>9 DEF r
  <2> QED BY <1>0, <1>4, <1>5, <1>10, <2>1, ReadsBefore
<1>13. Unreads(h, u)
  <2>1. Len(u) <= h.read_index_
    BY <1>0, <1>1, <1>2, <1>4, <1>8, <1>9
  <2> QED BY <1>6, <1>11, <2>1 DEF Unreads
<1> QED BY <1>1, <1>4, <1>12, <1>13 DEF BufferInv

\* truncate(),
LEMMA TruncateKeeps ==
    ASSUME BufferInv, NEW n \in Nat, Truncate(n)
    PROVE  BufferInv'
<1>0. /\ Sound(b) /\ Reads(b, content) /\ Len(content) = b.write_index_ - b.read_index_ /\ Len(content) \in Nat
      /\ b.write_index_ \in Nat /\ b.read_index_ \in Nat /\ content \in Seq(Cell)
  BY DEF BufferInv, Reads, Sound, InOrder
<1>1. lastRead' = <<>>
  BY DEF Truncate
<1>2. CASE n = 0
  <2>1. b' = Reset(b)
    BY <1>2 DEF Truncate
  <2>2. content' = <<>>
    <3>1. CASE 0 < Len(content)
      <4>1. content' = SubSeq(content, 1, 0)
        BY <1>2, <3>1 DEF Truncate
      <4>2. SubSeq(content, 1, 0) = <<>>
        BY SubSeqEmpty
      <4> QED BY <4>1, <4>2
    <3>2. CASE ~(0 < Len(content))
      <4>1. content' = content /\ Len(content) = 0
        BY <1>0, <1>2, <3>2 DEF Truncate
      <4> QED BY <1>0, <4>1
    <3> QED BY <3>1, <3>2
  <2> QED BY <1>0, <1>1, <2>1, <2>2, ResetIsSound, BufferStep
<1>3. CASE n # 0 /\ n < Len(content)
  <2>1. b.write_index_ > b.read_index_ + n
    BY <1>0, <1>3
  <2>2. b' = WriteAt(b, b.read_index_ + n) /\ content' = SubSeq(content, 1, n)
    BY <1>3, <2>1 DEF Truncate, WriteAt
  <2>3. n <= Len(content)
    BY <1>0, <1>3
  <2>4. Sound(WriteAt(b, b.read_index_ + n)) /\ Reads(WriteAt(b, b.read_index_ + n), SubSeq(content, 1, n))
    BY <1>0, <2>3, CutOff
  <2> QED BY <1>1, <2>2, <2>4, BufferStep
<1>4. CASE n # 0 /\ ~(n < Len(content))
  <2>1. ~(b.write_index_ > b.read_index_ + n)
    BY <1>0, <1>4
  <2>2. b' = b /\ content' = content
    BY <1>4, <2>1 DEF Truncate
  <2> QED BY <1>0, <1>1, <2>2, BufferStep
<1> QED BY <1>2, <1>3, <1>4

\* unwriteBytes(),
LEMMA UnwriteKeeps ==
    ASSUME BufferInv, NEW n \in Nat, UnwriteBytes(n)
    PROVE  BufferInv'
<1> DEFINE k == Len(content) - n
<1>0. /\ Sound(b) /\ Reads(b, content) /\ Len(content) = b.write_index_ - b.read_index_ /\ Len(content) \in Nat
      /\ b.write_index_ \in Nat /\ b.read_index_ \in Nat
  BY DEF BufferInv, Reads, Sound, InOrder
<1>1. n <= Len(content) /\ b' = WriteAt(b, b.write_index_ - n) /\ content' = SubSeq(content, 1, k) /\ lastRead' = <<>>
  BY <1>0 DEF UnwriteBytes, WriteAt, Length
<1>2. k \in Nat /\ k <= Len(content) /\ b.write_index_ - n = b.read_index_ + k
  BY <1>0, <1>1
<1> HIDE DEF k
<1>3. Sound(WriteAt(b, b.read_index_ + k)) /\ Reads(WriteAt(b, b.read_index_ + k), SubSeq(content, 1, k))
  BY <1>0, <1>2, CutOff
<1> QED BY <1>1, <1>2, <1>3, BufferStep

\* reserve(),
LEMMA ReserveKeeps ==
    ASSUME BufferInv, NEW n \in Nat, Reserve(n)
    PROVE  BufferInv'
<1> DEFINE m == n + b.reserved_prepend_size_
<1>0. Sound(b) /\ Reads(b, content) /\ m \in Nat
  BY DEF BufferInv, Sound, InOrder
<1>1. b' = Grow(b, m) /\ content' = content /\ lastRead' = <<>>
  BY DEF Reserve, Becomes
<1> HIDE DEF m
<1>2. Sound(Grow(b, m)) /\ Reads(Grow(b, m), content)
  BY <1>0, GrowIsSound
<1> QED BY <1>1, <1>2, BufferStep

\* The readable bytes, as a sequence.
LEMMA ReadableIs ==
    ASSUME NEW g, NEW s, Reads(g, s)
    PROVE  Readable(g) = s
<1>1. s \in Seq(Cell) /\ Len(s) = Length(g) /\ \A i \in 1 .. Len(s) : g.buffer_[g.read_index_ + i - 1] = s[i]
  BY DEF Reads, Length
<1>2. s = [i \in 1 .. Len(s) |-> s[i]]
  BY <1>1
<1> QED BY <1>1, <1>2 DEF Readable

\* shrink() through a second buffer,
LEMMA ShrinkKeeps ==
    ASSUME BufferInv, NEW n \in Nat, Shrink(n)
    PROVE  BufferInv'
<1> DEFINE l == Length(b)
           v == b.reserved_prepend_size_
           new == NewBuffer(l + n, v)
           e == EnsureWritable(new, l)
<1>0. Sound(b) /\ Reads(b, content) /\ content \in Seq(Cell) /\ l = Len(content) /\ l \in Nat /\ v \in Nat
  BY DEF BufferInv, Reads, Sound, InOrder, Length
<1>1. b' = Copied(e, content) /\ content' = content /\ lastRead' = <<>>
  <2>1. Readable(b) = content
    BY <1>0, ReadableIs
  <2> QED BY <2>1 DEF Shrink, Becomes
<1>2. Sound(new) /\ Reads(new, <<>>)
  <2>1. l + n \in Nat
    BY <1>0
  <2> HIDE DEF l, v
  <2> QED BY <1>0, <2>1, NewIsSound
<1> HIDE DEF new, v
<1>3. Sound(e) /\ Reads(e, <<>>) /\ WritableBytes(e) >= l
  <2> HIDE DEF l
  <2> QED BY <1>0, <1>2, EnsureIsSound
<1>4. Len(content) <= WritableBytes(e)
  <2>1. WritableBytes(e) \in Int
    BY <1>3 DEF Sound, InOrder, WritableBytes
  <2> HIDE DEF e, l
  <2> QED BY <1>0, <1>3, <2>1
<1> HIDE DEF e, l
<1>5. Sound(Copied(e, content)) /\ Reads(Copied(e, content), <<>> \o content)
  BY <1>0, <1>3, <1>4, CopiedIsSound
<1>6. <<>> \o content = content
  BY <1>0, ConcatEmptySeq
<1> QED BY <1>1, <1>5, <1>6, BufferStep

\* and a copy keep it,
LEMMA CopyKeeps ==
    ASSUME BufferInv, Copy
    PROVE  BufferInv'
<1> DEFINE c == b.capacity_
           r == b.read_index_
           w == b.write_index_
           a == [i \in 0 .. c - 1 |-> IF r <= i /\ i < w THEN b.buffer_[i] ELSE Junk_byte]
<1>0. /\ Sound(b) /\ Reads(b, content) /\ c \in Nat /\ r \in Nat /\ w \in Nat /\ r <= w /\ w <= c
      /\ b.buffer_ \in [0 .. c - 1 -> Cell] /\ b \in Bufs
      /\ InOrder(c, r, w, b.reserved_prepend_size_, b.buffer_)
  BY DEF BufferInv, Reads, Sound, InOrder
<1>1. b' = [b EXCEPT !.buffer_ = a] /\ content' = content /\ lastRead' = <<>>
  BY Zenon DEF Copy
<1>2. a \in [0 .. c - 1 -> Cell]
  BY <1>0 DEF Cell
<1>3. \A i \in 0 .. c - 1 : r <= i /\ i < w => a[i] = b.buffer_[i]
  OBVIOUS
<1>4. a \in Arrays
  BY <1>0, <1>2 DEF Arrays
<1> HIDE DEF a
<1>5. /\ b' \in Bufs /\ b'.capacity_ = c /\ b'.read_index_ = r /\ b'.write_index_ = w
      /\ b'.reserved_prepend_size_ = b.reserved_prepend_size_ /\ b'.buffer_ = a
  BY <1>0, <1>1, <1>4 DEF Bufs
<1> DEFINE h == b'
<1>6. Sound(h)
  BY <1>0, <1>2, <1>5 DEF Sound, InOrder
<1> HIDE DEF c, r, w
<1>7. Reads(h, content)
  <2>1. /\ content \in Seq(Cell) /\ Len(content) = w - r /\ Len(content) \in Nat
        /\ \A i \in 1 .. Len(content) : b.buffer_[r + i - 1] = content[i]
    BY <1>0 DEF Reads, r, w
  <2>2. ASSUME NEW i \in 1 .. Len(content) PROVE a[r + i - 1] = content[i]
    <3>1. r + i - 1 \in 0 .. c - 1 /\ r <= r + i - 1 /\ r + i - 1 < w
      BY <1>0, <2>1
    <3> QED BY <1>3, <2>1, <3>1
  <2> QED BY <1>5, <2>1, <2>2 DEF Reads
<1> QED BY <1>1, <1>6, <1>7, BufferStep

\* so every operation does.
LEMMA BufferNextInv == BufferInv /\ [BufferNext]_bufferVars => BufferInv'
<1> SUFFICES ASSUME BufferInv, [BufferNext]_bufferVars PROVE BufferInv'
  OBVIOUS
<1>1. ASSUME NEW d \in UNION {[1 .. n -> Byte] : n \in 1 .. MaxWrite},
             Write(d, Len(d)) \/ Write(d, MaxWrite) \/ ReadFromFd(d) \/ Prepend(d)
      PROVE  BufferInv'
  <2>1. PICK n \in 1 .. MaxWrite : d \in [1 .. n -> Byte]
    BY <1>1
  <2>2. n \in Nat /\ MaxWrite \in Nat
    BY BufferBounds
  <2>3. d \in [1 .. n -> Cell]
    BY <2>1 DEF Cell
  <2>4. d \in Seq(Cell)
    BY <2>2, <2>3
  <2>5. Len(d) \in Nat
    BY <2>4
  <2> QED BY <1>1, <2>2, <2>4, <2>5, WriteKeeps, ReadFromFdKeeps, PrependKeeps
<1>2. ASSUME NEW n \in 0 .. MaxWrite,
             Skip(n) \/ UnreadBytes(n) \/ Truncate(n) \/ UnwriteBytes(n) \/ Reserve(n) \/ Shrink(n)
      PROVE  BufferInv'
  <2>1. n \in Nat
    BY BufferBounds
  <2> QED BY <1>2, <2>1, SkipKeeps, UnreadKeeps, TruncateKeeps, UnwriteKeeps, ReserveKeeps, ShrinkKeeps
<1>3. CASE ReadByte
  BY <1>3, ReadByteKeeps
<1>4. CASE Reinit
  BY <1>4, BufferSizes, NewIsSound, BufferStep DEF Reinit
<1>5. CASE MoveFrom
  <2>1. Sound(NewBuffer(0, 0)) /\ Reads(NewBuffer(0, 0), <<>>)
    BY NewIsSound
  <2> QED BY <1>5, <2>1, BufferStep DEF MoveFrom
<1>6. CASE Copy
  BY <1>6, CopyKeeps
<1>7. CASE UNCHANGED bufferVars
  BY <1>7 DEF bufferVars, BufferInv
<1> QED BY <1>1, <1>2, <1>3, <1>4, <1>5, <1>6, <1>7 DEF BufferNext

\* The indexes are in order and the bytes are there.
LEMMA BufferInvHolds == BufferInv => IndexesInOrder /\ HoldsItsContent /\ UnreadIsThere
<1> SUFFICES ASSUME BufferInv PROVE IndexesInOrder /\ HoldsItsContent /\ UnreadIsThere
  OBVIOUS
<1>1. IndexesInOrder
  BY DEF BufferInv, Sound, InOrder, IndexesInOrder
<1>2. HoldsItsContent
  BY ReadableIs DEF BufferInv, HoldsItsContent
<1>3. UnreadIsThere
  BY DEF BufferInv, Unreads, UnreadIsThere
<1> QED BY <1>1, <1>2, <1>3

(***************************************************************************)
(* TlsConnection                                                           *)
(***************************************************************************)
\* The fields of a TLS connection.
TlsStates ==
    [status : {"connecting", "connected", "disconnecting", "disconnected"},
     ssl : {"none", "accepting", "connecting", "connected", "disconnected"}, type : {"client", "server"},
     live : BOOLEAN, wwr : BOOLEAN, rww : BOOLEAN, pend : BOOLEAN, wev : BOOLEAN,
     hs : {"write", "read", "done"}, plain : Nat, in : Seq({"hs", "data", "eof"}), full : BOOLEAN,
     refusals : Nat, held : BOOLEAN, early : BOOLEAN, out : Nat, wire : Nat, got : Nat,
     fun : Seq({"read", "close", "send"}), crash : {"no", "nullEvent", "assert", "freed"}]

\* Only a callback that closed and allowed leads to a freed ssl_.
FreedEarly(x) == x.crash = "freed" => x.early

\* What holds of the connection x when sendInLoop() has taken n bytes: the SSL object is
\* there until the connection ends, only a callback asked first leads to a freed one, no
\* byte is lost, and what waits for the write event has it.
TlsHolds(x, n) ==
    /\ x \in TlsStates
    /\ x.live <=> x.ssl # "disconnected"
    /\ FreedEarly(x)
    /\ Up(x) => n = x.wire + x.out /\ (x.out > 0 \/ x.rww => x.wev)

\* Closing ends the connection.
LEMMA CloseHolds ==
    ASSUME NEW x \in TlsStates, FreedEarly(x), NEW n
    PROVE  /\ HandleClose(x) \in TlsStates /\ TlsHolds(HandleClose(x), n)
           /\ HandleError(x) \in TlsStates /\ TlsHolds(HandleError(x), n)
<1>1. ASSUME NEW z \in TlsStates, FreedEarly(z) PROVE HandleClose(z) \in TlsStates /\ TlsHolds(HandleClose(z), n)
  <2> DEFINE y == HandleClose(z)
  <2>1. y \in TlsStates /\ y.ssl = "disconnected" /\ y.live = FALSE /\ y.crash = z.crash /\ y.early = z.early
    BY DEF HandleClose, TlsStates
  <2> HIDE DEF y
  <2>2. TlsHolds(y, n)
    BY <1>1, <2>1 DEF TlsHolds, Up, FreedEarly
  <2> QED BY <2>1, <2>2 DEF y
<1> DEFINE w == [x EXCEPT !.ssl = "disconnected", !.status = "disconnecting"]
<1>2. w \in TlsStates /\ FreedEarly(w)
  BY DEF TlsStates, FreedEarly
<1>3. HandleError(x) = HandleClose(w)
  BY DEF HandleError
<1> HIDE DEF w
<1> QED BY <1>1, <1>2, <1>3

\* and leaves the counts alone.
LEMMA CloseFields ==
    ASSUME NEW x \in TlsStates
    PROVE  /\ HandleClose(x).ssl = "disconnected" /\ ~HandleClose(x).live /\ HandleClose(x).out = x.out
           /\ HandleClose(x).rww = x.rww /\ HandleClose(x).crash = x.crash /\ HandleClose(x).status = "disconnected"
           /\ HandleClose(x).early = x.early /\ HandleError(x).early = x.early
           /\ HandleError(x).ssl = "disconnected" /\ ~HandleError(x).live /\ HandleError(x).out = x.out
           /\ HandleError(x).rww = x.rww /\ HandleError(x).crash = x.crash
<1>1. ASSUME NEW z \in TlsStates
      PROVE  /\ HandleClose(z).ssl = "disconnected" /\ ~HandleClose(z).live /\ HandleClose(z).out = z.out
             /\ HandleClose(z).rww = z.rww /\ HandleClose(z).crash = z.crash /\ HandleClose(z).status = "disconnected"
             /\ HandleClose(z).early = z.early
  BY DEF HandleClose, TlsStates
<1> DEFINE w == [x EXCEPT !.ssl = "disconnected", !.status = "disconnecting"]
<1>2. w \in TlsStates /\ w.out = x.out /\ w.rww = x.rww /\ w.crash = x.crash /\ w.early = x.early
  BY DEF TlsStates
<1> HIDE DEF w
<1>3. HandleError(x) = HandleClose(w)
  BY DEF HandleError, w
<1> QED BY <1>1, <1>2, <1>3

\* A callback leaves the connection as it was or ends it.
LEMMA CallbackHolds ==
    ASSUME NEW x, NEW n, TlsHolds(x, n), NEW y \in Callback(x)
    PROVE  TlsHolds(y, n) /\ (Up(y) => y = x) /\ (y = x \/ y.status = "disconnected") /\ y.rww = x.rww
<1>0. x \in TlsStates /\ FreedEarly(x)
  BY DEF TlsHolds
<1>1. CASE y = x
  BY <1>1
<1>2. CASE y # x
  <2> DEFINE u == [x EXCEPT !.status = "disconnecting"]
  <2>1. y = HandleClose(u)
    BY <1>2 DEF Callback, CloseHere
  <2>2. u \in TlsStates /\ FreedEarly(u) /\ u.rww = x.rww
    BY <1>0 DEF TlsStates, FreedEarly
  <2> HIDE DEF u
  <2>3. TlsHolds(y, n)
    BY <2>1, <2>2, CloseHolds
  <2>4. y.ssl = "disconnected" /\ y.status = "disconnected" /\ y.rww = x.rww
    BY <2>1, <2>2, CloseFields
  <2> QED BY <2>3, <2>4 DEF Up
<1> QED BY <1>1, <1>2

\* The handshake changes only its own fields.
SameOutside(x, y) ==
    /\ y \in TlsStates
    /\ y.status = x.status /\ y.ssl = x.ssl /\ y.live = x.live /\ y.rww = x.rww /\ y.wev = x.wev
    /\ y.out = x.out /\ y.wire = x.wire /\ y.crash = x.crash /\ y.early = x.early

\* The rest of the handshake,
LEMMA ShakeHolds ==
    ASSUME NEW x \in TlsStates
    PROVE  SameOutside(x, Shake(x).x) /\ Shake(x).want \in {"none", "write", "read", "fail"}
<1>1. CASE x.hs = "done" \/ (x.hs = "write" /\ x.full)
  BY <1>1 DEF Shake, SameOutside
<1>2. CASE ~(x.hs = "done" \/ (x.hs = "write" /\ x.full)) /\ x.in = <<>>
  BY <1>2 DEF Shake, SameOutside, TlsStates
<1>3. CASE ~(x.hs = "done" \/ (x.hs = "write" /\ x.full)) /\ x.in # <<>>
  <2>1. x.in \in Seq({"hs", "data", "eof"})
    BY DEF TlsStates
  <2>2. Tail(x.in) \in Seq({"hs", "data", "eof"})
    BY <1>3, <2>1
  <2>3. CASE Head(x.in) = "hs"
    <3>1. Shake(x) = [x |-> [x EXCEPT !.hs = "done", !.in = Tail(x.in)], want |-> "none"]
      BY <1>3, <2>3 DEF Shake
    <3>2. SameOutside(x, [x EXCEPT !.hs = "done", !.in = Tail(x.in)])
      BY <2>2 DEF SameOutside, TlsStates
    <3> QED BY <3>1, <3>2
  <2>4. CASE Head(x.in) # "hs"
    BY <1>3, <2>4 DEF Shake, SameOutside
  <2> QED BY <2>3, <2>4
<1> QED BY <1>1, <1>2, <1>3

\* like every step that leaves those fields, keeps what holds.
LEMMA SameHolds ==
    ASSUME NEW x, NEW n, TlsHolds(x, n), NEW y, SameOutside(x, y)
    PROVE  TlsHolds(y, n)
  BY DEF TlsHolds, SameOutside, Up, FreedEarly

\* ssl_write_want_read_ is not a part of what is kept.
LEMMA SetWantRead ==
    ASSUME NEW x \in TlsStates, NEW v \in BOOLEAN, NEW y, y = [x EXCEPT !.wwr = v]
    PROVE  SameOutside(x, y)
  BY DEF SameOutside, TlsStates

\* A connection whose read is not waiting, or no longer.
Cleared(x) == [x EXCEPT !.rww = FALSE]

\* Clearing ssl_read_want_write_ keeps what holds.
LEMMA ClearedHolds ==
    ASSUME NEW x, NEW n, TlsHolds(x, n), x.ssl = "connected"
    PROVE  TlsHolds(Cleared(x), n) /\ Cleared(x).live /\ ~Cleared(x).rww
<1> DEFINE y == Cleared(x)
<1>1. x \in TlsStates
  BY DEF TlsHolds
<1>2. /\ y \in TlsStates /\ y.ssl = x.ssl /\ y.live = x.live /\ y.rww = FALSE /\ y.wev = x.wev
      /\ y.out = x.out /\ y.wire = x.wire /\ y.crash = x.crash /\ y.early = x.early
  BY ONLY <1>1 DEF TlsStates, Cleared
<1> HIDE DEF y
<1>3. TlsHolds(y, n) /\ y.live /\ ~y.rww
  BY <1>2 DEF TlsHolds, Up, FreedEarly
<1> QED BY <1>3 DEF y

\* An SSL call that did not succeed: the connection ends, or waits for the event.
LEMMA ErrorHolds ==
    ASSUME NEW x, NEW n, TlsHolds(x, n), NEW want \in {"write", "read", "fail"}
    PROVE  LET y == SslError(x, want) IN
           /\ TlsHolds(y, n)
           /\ want = "write" => y = [x EXCEPT !.wev = TRUE]
           /\ want = "read" => y = x
           /\ want = "fail" => y.ssl = "disconnected"
<1>0. x \in TlsStates
  BY DEF TlsHolds
<1>1. CASE want = "write"
  <2>1. SslError(x, want) = [x EXCEPT !.wev = TRUE]
    BY <1>1 DEF SslError
  <2> QED BY <1>0, <1>1, <2>1 DEF TlsHolds, TlsStates, Up, FreedEarly
<1>2. CASE want = "read"
  BY <1>2 DEF SslError
<1>3. CASE want = "fail"
  <2>1. SslError(x, want) = HandleError(x)
    BY <1>3 DEF SslError
  <2>2. HandleError(x).ssl = "disconnected"
    BY <1>0 DEF HandleError, HandleClose, TlsStates
  <2>3. FreedEarly(x)
    BY DEF TlsHolds
  <2> QED BY <1>0, <1>3, <2>1, <2>2, <2>3, CloseHolds
<1> QED BY <1>1, <1>2, <1>3

\* sslAccept() and sslConnect().
LEMMA HandshakeHolds ==
    ASSUME NEW x, NEW n, TlsHolds(x, n)
    PROVE  TlsHolds(SslHandshake(x), n)
<1>0. x \in TlsStates
  BY DEF TlsHolds
<1>1. CASE x.ssl \notin {"accepting", "connecting"}
  BY <1>1 DEF SslHandshake
<1>2. CASE x.ssl \in {"accepting", "connecting"}
  <2> DEFINE s == Shake(x)
  <2>1. x.live
    BY <1>2 DEF TlsHolds
  <2>2. SameOutside(x, s.x) /\ s.want \in {"none", "write", "read", "fail"}
    BY <1>0, ShakeHolds
  <2>3. TlsHolds(s.x, n)
    BY <2>2, SameHolds
  <2>4. SslHandshake(x) = IF s.want = "none" THEN [s.x EXCEPT !.ssl = "connected"] ELSE SslError(s.x, s.want)
    BY <1>2, <2>1 DEF SslHandshake
  <2> HIDE DEF s
  <2>5. CASE s.want = "none"
    <3>1. SslHandshake(x) = [s.x EXCEPT !.ssl = "connected"] /\ s.x.ssl # "disconnected"
      BY <1>2, <2>2, <2>4, <2>5 DEF SameOutside
    <3>2. PICK p \in TlsStates : p = s.x
      BY <2>3 DEF TlsHolds
    <3> DEFINE y == [p EXCEPT !.ssl = "connected"]
    <3>3. /\ y \in TlsStates /\ y.ssl = "connected" /\ y.live = p.live /\ y.rww = p.rww /\ y.wev = p.wev
          /\ y.out = p.out /\ y.wire = p.wire /\ y.crash = p.crash /\ y.early = p.early
      BY ONLY p \in TlsStates DEF TlsStates
    <3>4. SslHandshake(x) = y
      BY <3>1, <3>2, Zenon
    <3> HIDE DEF y
    <3>5. TlsHolds(p, n) /\ p.ssl # "disconnected"
      BY <2>3, <3>1, <3>2
    <3>6. TlsHolds(y, n)
      BY <3>3, <3>5 DEF TlsHolds, Up, FreedEarly
    <3> QED BY <3>4, <3>6
  <2>6. CASE s.want # "none"
    BY <2>2, <2>3, <2>4, <2>6, ErrorHolds
  <2> QED BY <2>5, <2>6
<1> QED BY <1>1, <1>2

\* A callback that allows leaves the SSL object, or is the one that closed it.
LEMMA AllowsHolds ==
    ASSUME NEW x, NEW n, TlsHolds(x, n), x.live, NEW y \in Allows(x)
    PROVE  TlsHolds(y, n) /\ (y.live \/ y.early) /\ y.rww = x.rww
<1>1. PICK u \in Callback(x) : y = [u EXCEPT !.early = (x.early \/ u # x)]
  BY DEF Allows
<1>2. TlsHolds(u, n) /\ u \in TlsStates /\ u.rww = x.rww
  <2>1. TlsHolds(u, n) /\ u.rww = x.rww
    BY CallbackHolds
  <2> QED BY <2>1 DEF TlsHolds
<1> DEFINE v == x.early \/ u # x
<1>3. v \in BOOLEAN /\ (v <=> x.early \/ u # x)
  BY Zenon
<1>4. y = [u EXCEPT !.early = v]
  BY <1>1, Zenon
<1> HIDE DEF v
<1>5. /\ y \in TlsStates /\ y.early = v /\ y.ssl = u.ssl /\ y.live = u.live /\ y.rww = u.rww /\ y.wev = u.wev
      /\ y.out = u.out /\ y.wire = u.wire /\ y.crash = u.crash
  BY ONLY <1>2, <1>3, <1>4 DEF TlsStates
<1>6. CASE u = x
  BY <1>2, <1>3, <1>5, <1>6 DEF TlsHolds, Up, FreedEarly
<1>7. CASE u # x
  BY <1>2, <1>3, <1>5, <1>7 DEF TlsHolds, Up, FreedEarly
<1> QED BY <1>6, <1>7

\* One that refuses keeps what holds.
LEMMA RefusesHolds ==
    ASSUME NEW x, NEW n, TlsHolds(x, n), NEW y \in Refuses(x)
    PROVE  TlsHolds(y, n) /\ y \in TlsStates
<1>1. PICK u \in Callback(x) : y = [u EXCEPT !.refusals = x.refusals + 1]
  BY DEF Refuses
<1>2. TlsHolds(u, n) /\ u \in TlsStates /\ x.refusals + 1 \in Nat
  <2>1. TlsHolds(u, n)
    BY CallbackHolds
  <2> QED BY <2>1 DEF TlsHolds, TlsStates
<1>3. SameOutside(u, y)
  BY <1>1, <1>2 DEF SameOutside, TlsStates
<1> QED BY <1>2, <1>3, SameHolds DEF SameOutside

\* An SSL function on a freed ssl_, where that is expected.
LEMMA FreedHolds ==
    ASSUME NEW x, NEW n, TlsHolds(x, n), x.early
    PROVE  /\ TlsHolds(Freed(x), n) /\ Freed(x).crash = "freed" /\ Freed(x).early
           /\ Freed(x).out = x.out /\ Freed(x).ssl = x.ssl
<1> DEFINE y == Freed(x)
<1>1. x \in TlsStates
  BY DEF TlsHolds
<1>2. /\ y \in TlsStates /\ y.crash = "freed" /\ y.early = x.early /\ y.ssl = x.ssl /\ y.live = x.live
      /\ y.out = x.out
  BY ONLY <1>1 DEF Freed, TlsStates
<1> HIDE DEF y
<1>3. TlsHolds(y, n)
  BY <1>2 DEF TlsHolds, Up, FreedEarly
<1> QED BY <1>2, <1>3 DEF y

\* What a read does once it is allowed, with rww cleared.
LEMMA ReadSomeHolds ==
    ASSUME NEW x, NEW n, TlsHolds(x, n), x.live \/ x.early, ~x.rww, NEW r \in ReadSome(x)
    PROVE  TlsHolds(r, n)
<1>0. x \in TlsStates
  BY DEF TlsHolds
<1>f. CASE ~x.live
  <2>1. r = Freed(x)
    BY <1>f DEF ReadSome
  <2> QED BY <1>f, <2>1, FreedHolds
<1>l. SUFFICES ASSUME x.live PROVE TlsHolds(r, n)
  BY <1>f
<1> DEFINE s == Shake(x)
           y == IF s.x.plain = 0 /\ s.x.in # <<>> /\ Head(s.x.in) = "data"
                THEN [s.x EXCEPT !.plain = RecordSize, !.in = Tail(@)] ELSE s.x
           want == IF s.want # "none" THEN s.want
                   ELSE IF y.plain > 0 THEN "none" ELSE IF y.in = <<>> THEN "read" ELSE "fail"
           z == [y EXCEPT !.plain = @ - 1, !.got = @ + 1, !.held = FALSE]
           q == IF z.plain > 0 /\ ~z.pend THEN [z EXCEPT !.pend = TRUE, !.fun = Append(@, "read")] ELSE z
<1>1. SameOutside(x, s.x) /\ s.want \in {"none", "write", "read", "fail"}
  BY <1>0, ShakeHolds
<1>2. r \in IF want # "none" THEN {[SslError(y, want) EXCEPT !.rww = @ \/ want = "write"]} ELSE Callback(q)
  BY <1>l DEF ReadSome
<1> HIDE DEF s
<1>3. SameOutside(x, y)
  <2>1. CASE s.x.plain = 0 /\ s.x.in # <<>> /\ Head(s.x.in) = "data"
    <3>1. s.x \in TlsStates /\ s.x.in \in Seq({"hs", "data", "eof"})
      BY <1>1 DEF SameOutside, TlsStates
    <3>2. Tail(s.x.in) \in Seq({"hs", "data", "eof"})
      BY <2>1, <3>1
    <3>3. y = [s.x EXCEPT !.plain = RecordSize, !.in = Tail(s.x.in)]
      BY <2>1
    <3>4. RecordSize \in Nat
      BY TlsRecordSize
    <3>5. SameOutside(s.x, [s.x EXCEPT !.plain = RecordSize, !.in = Tail(s.x.in)])
      BY <3>1, <3>2, <3>4 DEF SameOutside, TlsStates
    <3>6. SameOutside(s.x, y)
      BY <3>3, <3>5
    <3> HIDE DEF y
    <3> QED BY <1>1, <3>6 DEF SameOutside
  <2>2. CASE ~(s.x.plain = 0 /\ s.x.in # <<>> /\ Head(s.x.in) = "data")
    BY <1>1, <2>2
  <2> QED BY <2>1, <2>2
<1>4. want \in {"none", "write", "read", "fail"} /\ (want = "none" => y.plain > 0)
  BY <1>1
<1> HIDE DEF y, want
<1>5. TlsHolds(y, n)
  BY <1>3, SameHolds
<1>6. CASE want # "none"
  <2> DEFINE e == SslError(y, want)
  <2>1. TlsHolds(e, n) /\ (want = "write" => e = [y EXCEPT !.wev = TRUE]) /\ (want = "read" => e = y)
        /\ (want = "fail" => e.ssl = "disconnected")
    BY <1>4, <1>5, <1>6, ErrorHolds
  <2>2. r = [e EXCEPT !.rww = e.rww \/ want = "write"]
    BY <1>2, <1>6
  <2>3. y \in TlsStates /\ e \in TlsStates
    BY <1>5, <2>1 DEF TlsHolds
  <2> HIDE DEF e
  <2>4. CASE want = "write"
    <3>1. r = [e EXCEPT !.rww = TRUE]
      <4>1. (e.rww \/ want = "write") = TRUE
        BY <2>4
      <4> QED BY <2>2, <4>1, Zenon
    <3>2. e.wev = TRUE
      BY <2>1, <2>3, <2>4 DEF TlsStates
    <3> QED BY <2>1, <2>3, <3>1, <3>2 DEF TlsHolds, TlsStates, Up, FreedEarly
  <2>5. CASE want # "write"
    <3>1. r = e
      <4>1. e.rww \in BOOLEAN /\ e = [e EXCEPT !.rww = e.rww]
        BY <2>3 DEF TlsStates
      <4>2. (e.rww \/ want = "write") = e.rww
        BY <2>5, <4>1
      <4> QED BY <2>2, <4>1, <4>2, Zenon
    <3> QED BY <2>1, <3>1
  <2> QED BY <2>4, <2>5
<1>7. CASE want = "none"
  <2>1. y \in TlsStates /\ y.plain \in Nat /\ y.plain > 0 /\ y.got \in Nat
    BY <1>4, <1>5, <1>7 DEF TlsHolds, TlsStates
  <2>2. y.plain - 1 \in Nat /\ y.got + 1 \in Nat
    BY <2>1
  <2>3. SameOutside(y, z)
    BY <2>1, <2>2 DEF SameOutside, TlsStates
  <2> HIDE DEF z
  <2>4. SameOutside(z, q)
    <3>1. z \in TlsStates /\ z.fun \in Seq({"read", "close", "send"})
      BY <2>3 DEF SameOutside, TlsStates
    <3>2. Append(z.fun, "read") \in Seq({"read", "close", "send"})
      BY <3>1
    <3>3. SameOutside(z, [z EXCEPT !.pend = TRUE, !.fun = Append(z.fun, "read")])
      BY <3>1, <3>2 DEF SameOutside, TlsStates
    <3>4. SameOutside(z, z)
      BY <3>1 DEF SameOutside
    <3> QED BY <3>3, <3>4
  <2> HIDE DEF q
  <2>5. TlsHolds(q, n)
    BY <1>5, <2>3, <2>4, SameHolds
  <2> QED BY <1>2, <1>7, <2>5, CallbackHolds
<1> QED BY <1>6, <1>7

\* sslRead() with rww cleared.
LEMMA ReadHolds ==
    ASSUME NEW x, NEW n, TlsHolds(x, n), x.live, ~x.rww, NEW r \in SslRead(x)
    PROVE  TlsHolds(r, n)
<1>1. ASSUME NEW y \in Allows(x), r \in ReadSome(y) PROVE TlsHolds(r, n)
  <2>1. TlsHolds(y, n) /\ (y.live \/ y.early) /\ y.rww = x.rww
    BY AllowsHolds
  <2>2. ~y.rww
    BY <2>1
  <2> QED BY <1>1, <2>1, <2>2, ReadSomeHolds
<1>2. ASSUME NEW y \in Refuses(x), r = [y EXCEPT !.held = (x.held \/ x.plain > 0)] PROVE TlsHolds(r, n)
  <2> DEFINE v == x.held \/ x.plain > 0
  <2>1. v \in BOOLEAN
    BY Zenon
  <2>2. TlsHolds(y, n) /\ y \in TlsStates
    BY RefusesHolds
  <2>3. r = [y EXCEPT !.held = v]
    BY <1>2, Zenon
  <2> HIDE DEF v
  <2>4. SameOutside(y, r)
    BY ONLY <2>1, <2>2, <2>3 DEF SameOutside, TlsStates
  <2> QED BY <2>2, <2>4, SameHolds
<1>3. \/ \E y \in Allows(x) : r \in ReadSome(y)
      \/ \E y \in Refuses(x) : r = [y EXCEPT !.held = (x.held \/ x.plain > 0)]
  BY DEF SslRead
<1> QED BY <1>1, <1>2, <1>3

\* SSL_write() of m bytes: as many as it took are on the wire, unless the connection has
\* ended; what is kept and what waits is as before.
LEMMA SSLWriteHolds ==
    ASSUME NEW x \in TlsStates, FreedEarly(x), x.live, x.ssl # "disconnected", NEW m \in Nat \ {0}, NEW r \in SSL_write(x, m)
    PROVE  /\ r.x \in TlsStates /\ r.k \in 0 .. m /\ (r.x.live <=> r.x.ssl # "disconnected")
           /\ r.x.out = x.out /\ r.x.rww = x.rww /\ r.x.crash = x.crash /\ r.x.early = x.early
           /\ r.x.ssl # "disconnected" => r.x.wire = x.wire + r.k /\ (x.wev => r.x.wev)
<1> DEFINE s == Shake(x)
           want == IF s.want # "none" THEN s.want ELSE IF s.x.full THEN "write" ELSE "none"
<1>1. SameOutside(x, s.x) /\ s.want \in {"none", "write", "read", "fail"}
  BY ShakeHolds
<1>2. r \in IF want # "none" THEN {[x |-> [SslError(s.x, want) EXCEPT !.wwr = @ \/ want = "read"], k |-> 0]}
            ELSE UNION {{[x |-> y, k |-> k] : y \in Callback([s.x EXCEPT !.wire = @ + k])} : k \in 1 .. m}
  BY DEF SSL_write
<1>3. want \in {"none", "write", "read", "fail"}
  BY <1>1
<1>4. s.x \in TlsStates
  BY <1>1 DEF SameOutside
<1>5. /\ s.x.status = x.status /\ s.x.ssl = x.ssl /\ s.x.live = x.live /\ s.x.rww = x.rww /\ s.x.wev = x.wev
      /\ s.x.out = x.out /\ s.x.wire = x.wire /\ s.x.crash = x.crash /\ s.x.early = x.early
  BY <1>1 DEF SameOutside
<1>6. x.wire \in Nat /\ m \in Nat
  BY DEF TlsStates
<1> HIDE DEF s, want
<1>7. CASE want # "none"
  <2> DEFINE e == SslError(s.x, want)
             v == e.wwr \/ want = "read"
  <2>1. r.k = 0 /\ r.x = [e EXCEPT !.wwr = v]
    BY <1>2, <1>7
  <2>2. v \in BOOLEAN
    BY Zenon
  <2>3. /\ e \in TlsStates /\ (e.live <=> e.ssl # "disconnected") /\ e.out = x.out /\ e.rww = x.rww /\ e.crash = x.crash
        /\ e.early = x.early
        /\ e.ssl # "disconnected" => e.wire = x.wire /\ (x.wev => e.wev)
    <3>1. CASE want = "write"
      <4>1. e = [s.x EXCEPT !.wev = TRUE]
        BY <3>1 DEF SslError
      <4> HIDE DEF e, v
      <4>2. PICK p \in TlsStates : p = s.x
        BY <1>4
      <4>3. e = [p EXCEPT !.wev = TRUE]
        BY <4>1, <4>2, Zenon
      <4>4. /\ e \in TlsStates /\ e.ssl = p.ssl /\ e.live = p.live /\ e.rww = p.rww /\ e.wev = TRUE
            /\ e.out = p.out /\ e.wire = p.wire /\ e.crash = p.crash /\ e.early = p.early
        BY ONLY <4>3 DEF TlsStates
      <4>5. s.x.live <=> s.x.ssl # "disconnected"
        BY <1>5
      <4> QED BY <1>5, <4>2, <4>4, <4>5
    <3>2. CASE want = "read"
      <4>1. e = s.x
        BY <3>2 DEF SslError
      <4> QED BY <1>4, <1>5, <4>1
    <3>3. CASE want = "fail"
      <4>1. e = HandleError(s.x)
        BY <3>3 DEF SslError
      <4> HIDE DEF e
      <4>2. e \in TlsStates
        BY <1>4, <1>5, <4>1, CloseHolds DEF FreedEarly
      <4>3. e.ssl = "disconnected" /\ ~e.live /\ e.out = s.x.out /\ e.rww = s.x.rww /\ e.crash = s.x.crash
            /\ e.early = s.x.early
        BY <1>4, <4>1, CloseFields
      <4> QED BY <1>5, <4>2, <4>3
    <3> QED BY <1>3, <1>7, <3>1, <3>2, <3>3
  <2> HIDE DEF e, v
  <2>4. SameOutside(e, r.x)
    BY <2>1, <2>2, <2>3, SetWantRead
  <2>5. r.k \in 0 .. m /\ x.wire = x.wire + r.k
    BY <1>6, <2>1
  <2> QED BY <2>3, <2>4, <2>5 DEF SameOutside
<1>8. CASE want = "none"
  <2>1. PICK k \in 1 .. m : \E y \in Callback([s.x EXCEPT !.wire = @ + k]) : r = [x |-> y, k |-> k]
    BY <1>2, <1>8
  <2>2. PICK y \in Callback([s.x EXCEPT !.wire = s.x.wire + k]) : r = [x |-> y, k |-> k]
    BY <2>1
  <2> DEFINE w == [s.x EXCEPT !.wire = s.x.wire + k]
  <2>3. s.x.wire + k \in Nat
    BY <1>5, <1>6
  <2>4. /\ w \in TlsStates /\ w.ssl = s.x.ssl /\ w.live = s.x.live /\ w.wire = s.x.wire + k /\ w.out = s.x.out
        /\ w.rww = s.x.rww /\ w.wev = s.x.wev /\ w.crash = s.x.crash /\ w.early = s.x.early
    BY <1>4, <2>3 DEF TlsStates
  <2>5. y \in Callback(w)
    BY <2>2
  <2> HIDE DEF w
  <2>6. y = w \/ y = HandleClose([w EXCEPT !.status = "disconnecting"])
    BY <2>5 DEF Callback, CloseHere
  <2>7. r.x = y /\ r.k = k /\ k \in 0 .. m
    BY <2>2
  <2>8. CASE y = w
    BY <1>5, <2>4, <2>7, <2>8
  <2>9. CASE y = HandleClose([w EXCEPT !.status = "disconnecting"])
    <3> DEFINE u == [w EXCEPT !.status = "disconnecting"]
    <3>1. u \in TlsStates /\ u.out = w.out /\ u.rww = w.rww /\ u.crash = w.crash /\ u.early = w.early
      BY <2>4 DEF TlsStates
    <3>2. y = HandleClose(u)
      BY <2>9
    <3> HIDE DEF u
    <3>3. y \in TlsStates
      BY <1>5, <2>4, <3>1, <3>2, CloseHolds DEF FreedEarly
    <3>4. y.ssl = "disconnected" /\ ~y.live /\ y.out = u.out /\ y.rww = u.rww /\ y.crash = u.crash /\ y.early = u.early
      BY <3>1, <3>2, CloseFields
    <3> QED BY <1>5, <2>4, <2>7, <3>1, <3>3, <3>4
  <2> QED BY <2>6, <2>8, <2>9
<1> QED BY <1>7, <1>8

\* A write that is allowed keeps the event while bytes are left or a read waits for it.
LEMMA WriteSomeHolds ==
    ASSUME NEW x, NEW n, TlsHolds(x, n), x.live \/ x.early, NEW y \in WriteSome(x)
    PROVE  TlsHolds(y, n)
<1>0. x \in TlsStates /\ FreedEarly(x) /\ (x.live <=> x.ssl # "disconnected")
  BY DEF TlsHolds
<1>1. CASE x.out = 0
  <2> DEFINE v == x.wev /\ x.rww
  <2>1. y = [x EXCEPT !.wev = v]
    BY <1>1 DEF WriteSome
  <2>2. v \in BOOLEAN /\ (v <=> x.wev /\ x.rww)
    BY Zenon
  <2> HIDE DEF v
  <2>3. y \in TlsStates /\ y.wev = v /\ y.ssl = x.ssl /\ y.live = x.live /\ y.crash = x.crash
        /\ y.out = x.out /\ y.wire = x.wire /\ y.rww = x.rww /\ y.early = x.early
    BY ONLY <1>0, <2>1, <2>2 DEF TlsStates
  <2>4. FreedEarly(y) /\ (y.live <=> y.ssl # "disconnected")
    BY ONLY <1>0, <2>3 DEF FreedEarly
  <2>5. ASSUME Up(y) PROVE n = y.wire + y.out /\ (y.out > 0 \/ y.rww => y.wev)
    <3>1. Up(x)
      BY ONLY <2>3, <2>5 DEF Up
    <3>2. n = x.wire + x.out /\ (x.rww => x.wev)
      BY ONLY TlsHolds(x, n), <3>1 DEF TlsHolds
    <3>3. n = y.wire + y.out /\ ~(y.out > 0)
      BY ONLY <1>1, <2>3, <3>2
    <3>4. y.rww => y.wev
      BY ONLY <2>2, <2>3, <3>2, Zenon
    <3> QED BY ONLY <3>3, <3>4
  <2> QED BY <2>3, <2>4, <2>5 DEF TlsHolds
<1>3. CASE x.out # 0 /\ ~x.live
  <2> DEFINE f == Freed(x)
             v == f.wev /\ (x.out > 0 \/ f.rww)
  <2>1. y = [f EXCEPT !.out = f.out - 0, !.wev = v]
    <3>1. PICK r \in SSL_write(x, x.out) :
             y = [r.x EXCEPT !.out = r.x.out - r.k, !.wev = r.x.wev /\ (x.out > r.k \/ r.x.rww)]
      BY <1>3 DEF WriteSome
    <3>2. r = [x |-> Freed(x), k |-> 0]
      BY <1>3, <3>1 DEF SSL_write
    <3>3. r.x = f /\ r.k = 0
      BY <3>2
    <3> QED BY <3>1, <3>3, Zenon
  <2>2. TlsHolds(f, n) /\ f.crash = "freed" /\ f.early /\ f.ssl = x.ssl
    BY <1>3, FreedHolds
  <2>3. v \in BOOLEAN
    BY Zenon
  <2> HIDE DEF f, v
  <2>4. f \in TlsStates
    BY <2>2 DEF TlsHolds
  <2>5. f.out - 0 \in Nat
    BY <2>4 DEF TlsStates
  <2>6. y \in TlsStates /\ y.crash = "freed" /\ y.early = f.early /\ y.ssl = f.ssl /\ y.live = f.live
    BY ONLY <2>1, <2>2, <2>3, <2>4, <2>5 DEF TlsStates
  <2> QED BY <2>2, <2>6 DEF TlsHolds, Up, FreedEarly
<1>2. CASE x.out # 0 /\ x.live
  <2>1. PICK r \in SSL_write(x, x.out) : y = [r.x EXCEPT !.out = r.x.out - r.k, !.wev = r.x.wev /\ (x.out > r.k \/ r.x.rww)]
    BY <1>2 DEF WriteSome
  <2>2. x.out \in Nat \ {0} /\ x.wire \in Nat
    BY <1>0, <1>2 DEF TlsStates
  <2>3. /\ r.x \in TlsStates /\ r.k \in 0 .. x.out /\ (r.x.live <=> r.x.ssl # "disconnected")
        /\ r.x.out = x.out /\ r.x.rww = x.rww /\ r.x.crash = x.crash /\ r.x.early = x.early
        /\ r.x.ssl # "disconnected" => r.x.wire = x.wire + r.k /\ (x.wev => r.x.wev)
    BY <1>0, <1>2, <2>2, SSLWriteHolds
  <2> DEFINE v == r.x.wev /\ (x.out > r.k \/ r.x.rww)
             p == r.x
             q == r.x.out - r.k
  <2>4. v \in BOOLEAN
    BY Zenon
  <2>5. v <=> r.x.wev /\ (x.out > r.k \/ r.x.rww)
    OBVIOUS
  <2>6. y = [p EXCEPT !.out = q, !.wev = v]
    BY <2>1
  <2>7. q \in Nat /\ q = x.out - r.k /\ p \in TlsStates
    BY <2>2, <2>3
  <2> HIDE DEF v, p, q
  <2>8. /\ y \in TlsStates /\ y.wev = v /\ y.out = q /\ y.wire = p.wire /\ y.ssl = p.ssl
        /\ y.live = p.live /\ y.crash = p.crash /\ y.rww = p.rww /\ y.early = p.early
    BY <2>4, <2>6, <2>7 DEF TlsStates
  <2>9. ASSUME Up(y) PROVE n = y.wire + y.out /\ (y.out > 0 \/ y.rww => y.wev)
    <3>1. p.ssl # "disconnected" /\ x.crash = "no"
      BY <2>3, <2>8, <2>9 DEF Up, p
    <3>2. n = x.wire + x.out /\ x.wev
      BY <1>0, <1>2, <2>2, <3>1 DEF TlsHolds, Up
    <3>3. y.wire = x.wire + r.k /\ r.k \in 0 .. x.out
      BY <2>3, <2>8, <3>1 DEF p
    <3>4. n = y.wire + y.out
      BY ONLY <2>2, <2>7, <2>8, <3>2, <3>3
    <3>5. r.x.wev
      BY <2>3, <3>1, <3>2 DEF p
    <3>6. y.out > 0 => x.out > r.k
      BY ONLY <2>2, <2>7, <2>8, <3>3
    <3> QED BY <2>5, <2>8, <3>4, <3>5, <3>6 DEF p
  <2> QED BY <1>0, <2>3, <2>8, <2>9 DEF TlsHolds, FreedEarly, p
<1> QED BY <1>1, <1>2, <1>3

\* sslWrite().
LEMMA WriteHolds ==
    ASSUME NEW x, NEW n, TlsHolds(x, n), x.live, NEW y \in SslWrite(x)
    PROVE  TlsHolds(y, n)
<1>1. ASSUME NEW z \in Allows(x), y \in WriteSome(z) PROVE TlsHolds(y, n)
  <2>1. TlsHolds(z, n) /\ (z.live \/ z.early)
    BY AllowsHolds
  <2> QED BY <1>1, <2>1, WriteSomeHolds
<1>2. ASSUME y \in Refuses(x) PROVE TlsHolds(y, n)
  BY <1>2, RefusesHolds
<1>3. (\E z \in Allows(x) : y \in WriteSome(z)) \/ y \in Refuses(x)
  BY DEF SslWrite
<1> QED BY <1>1, <1>2, <1>3

\* The read event and the functor that reads on: sslRead() waits for nothing else when it starts.
LEMMA HandleReadHolds ==
    ASSUME NEW x, NEW n, TlsHolds(x, n), NEW y \in HandleRead(x)
    PROVE  TlsHolds(y, n)
<1> DEFINE a == SslHandshake(x)
           c == [a EXCEPT !.wwr = FALSE]
           written == IF a.ssl = "connected" /\ a.wwr THEN SslWrite(c) ELSE {a}
<1>1. TlsHolds(a, n)
  BY HandshakeHolds
<1>2. PICK z \in written : y \in IF z.ssl = "connected" THEN SslRead([z EXCEPT !.rww = FALSE]) ELSE {z}
  BY DEF HandleRead
<1> HIDE DEF a
<1>3. TlsHolds(z, n)
  <2>1. CASE a.ssl = "connected" /\ a.wwr
    <3>1. SameOutside(a, c)
      BY <1>1 DEF SameOutside, TlsStates, TlsHolds
    <3> HIDE DEF c
    <3>2. TlsHolds(c, n) /\ c.live
      BY <1>1, <2>1, <3>1, SameHolds DEF TlsHolds, SameOutside
    <3>3. z \in SslWrite(c)
      BY <2>1
    <3> QED BY <3>2, <3>3, WriteHolds
  <2>2. CASE ~(a.ssl = "connected" /\ a.wwr)
    BY <1>1, <2>2
  <2> QED BY <2>1, <2>2
<1> HIDE DEF written
<1>4. CASE z.ssl = "connected"
  <2> DEFINE d == Cleared(z)
  <2>1. TlsHolds(d, n) /\ d.live /\ ~d.rww
    BY <1>3, <1>4, ClearedHolds
  <2>2. y \in SslRead(d)
    BY <1>2, <1>4 DEF Cleared
  <2> HIDE DEF d
  <2> QED BY <2>1, <2>2, ReadHolds
<1>5. CASE z.ssl # "connected"
  BY <1>2, <1>3, <1>5
<1> QED BY <1>4, <1>5

\* The write event.
LEMMA HandleWriteHolds ==
    ASSUME NEW x, NEW n, TlsHolds(x, n), NEW y \in HandleWrite(x)
    PROVE  TlsHolds(y, n)
<1> DEFINE a == SslHandshake(x)
           c == Cleared(a)
           read == IF a.ssl = "connected" /\ a.rww THEN SslRead(c) ELSE {a}
<1>1. TlsHolds(a, n)
  BY HandshakeHolds
<1>2. PICK z \in read : y \in IF z.ssl = "connected" THEN SslWrite([z EXCEPT !.wwr = FALSE]) ELSE {z}
  BY DEF HandleWrite, Cleared
<1> HIDE DEF a
<1>3. TlsHolds(z, n)
  <2>1. CASE a.ssl = "connected" /\ a.rww
    <3>1. TlsHolds(c, n) /\ c.live /\ ~c.rww
      BY <1>1, <2>1, ClearedHolds
    <3>2. z \in SslRead(c)
      BY <2>1
    <3> HIDE DEF c
    <3> QED BY <3>1, <3>2, ReadHolds
  <2>2. CASE ~(a.ssl = "connected" /\ a.rww)
    BY <1>1, <2>2
  <2> QED BY <2>1, <2>2
<1> HIDE DEF read
<1>4. CASE z.ssl = "connected"
  <2> DEFINE d == [z EXCEPT !.wwr = FALSE]
  <2>1. SameOutside(z, d)
    BY <1>3 DEF SameOutside, TlsStates, TlsHolds
  <2>2. y \in SslWrite(d)
    BY <1>2, <1>4
  <2> HIDE DEF d
  <2>3. TlsHolds(d, n) /\ d.live
    BY <1>3, <1>4, <2>1, SameHolds DEF TlsHolds, SameOutside
  <2> QED BY <2>2, <2>3, WriteHolds
<1>5. CASE z.ssl # "connected"
  BY <1>2, <1>3, <1>5
<1> QED BY <1>4, <1>5

\* What SSL_write() did not take is kept and waits for the event, unless the connection
\* has ended.
LEMMA KeepHolds ==
    ASSUME NEW x \in TlsStates, x.live <=> x.ssl # "disconnected", FreedEarly(x), NEW n, NEW k \in Nat,
           Up(x) => n = x.wire + x.out + k, Up(x) /\ (x.out > 0 \/ x.rww) => (k > 0 \/ x.wev),
           NEW y \in Keep(x, k)
    PROVE  TlsHolds(y, n)
<1>0. x.out \in Nat /\ x.wire \in Nat
  BY DEF TlsStates
<1>1. CASE k = 0 \/ x.ssl = "disconnected"
  <2>1. y = x
    BY <1>1 DEF Keep
  <2>2. CASE k = 0
    BY <1>0, <2>1, <2>2 DEF TlsHolds
  <2>3. CASE x.ssl = "disconnected"
    BY <2>1, <2>3 DEF TlsHolds, Up
  <2> QED BY <1>1, <2>2, <2>3
<1>2. CASE k # 0 /\ x.ssl # "disconnected"
  <2>1. PICK z \in Callback(x) : y = IF z.status = "disconnected" THEN [z EXCEPT !.crash = "nullEvent"]
                                     ELSE [z EXCEPT !.out = z.out + k, !.wev = TRUE]
    <3>1. x \in Callback(x)
      BY DEF Callback
    <3> QED BY <1>2, <3>1 DEF Keep
  <2>2. z = x \/ z = HandleClose([x EXCEPT !.status = "disconnecting"])
    BY DEF Callback, CloseHere
  <2>3. z \in TlsStates /\ (z.live <=> z.ssl # "disconnected") /\ (z = x \/ z.status = "disconnected")
    <3> DEFINE u == [x EXCEPT !.status = "disconnecting"]
    <3>1. u \in TlsStates /\ FreedEarly(u)
      BY DEF TlsStates, FreedEarly
    <3> HIDE DEF u
    <3>2. z = x \/ z = HandleClose(u)
      BY <2>2 DEF u
    <3>3. CASE z = x
      BY <3>3
    <3>4. CASE z = HandleClose(u)
      <4>1. z.ssl = "disconnected" /\ ~z.live /\ z.status = "disconnected"
        BY <3>1, <3>4, CloseFields
      <4>2. z \in TlsStates
        BY <3>1, <3>4, CloseHolds
      <4> QED BY <4>1, <4>2
    <3> QED BY <3>2, <3>3, <3>4
  <2>4. CASE z.status = "disconnected"
    <3>1. y = [z EXCEPT !.crash = "nullEvent"]
      BY <2>1, <2>4
    <3>2. y \in TlsStates /\ y.ssl = z.ssl /\ y.live = z.live /\ y.crash = "nullEvent"
      BY <2>3, <3>1 DEF TlsStates
    <3> QED BY <2>3, <3>2 DEF TlsHolds, Up, FreedEarly
  <2>5. CASE z.status # "disconnected"
    <3>1. z = x
      BY <2>3, <2>5
    <3>2. y = [x EXCEPT !.out = x.out + k, !.wev = TRUE] /\ x.out + k \in Nat
      BY <1>0, <2>1, <2>5, <3>1
    <3>3. y \in TlsStates /\ y.ssl = x.ssl /\ y.live = x.live /\ y.crash = x.crash /\ y.wire = x.wire
          /\ y.out = x.out + k /\ y.wev = TRUE /\ y.early = x.early
      BY <3>2 DEF TlsStates
    <3> QED BY <1>0, <3>3 DEF TlsHolds, Up, FreedEarly
  <2> QED BY <2>4, <2>5
<1> QED BY <1>1, <1>2

\* sendInLoop() of m bytes.
LEMMA SendHolds ==
    ASSUME NEW x, NEW n, TlsHolds(x, n), n \in Nat, NEW m \in Nat \ {0}, x.crash = "no", NEW y \in SendInLoop(x, m)
    PROVE  TlsHolds(y, n + m)
<1>0. x \in TlsStates /\ x.out \in Nat /\ x.wire \in Nat
  BY DEF TlsHolds, TlsStates
<1>1. CASE x.ssl = "disconnected"
  <2>1. y = x
    BY <1>1 DEF SendInLoop
  <2> QED BY <1>1, <2>1 DEF TlsHolds, Up
<1>2. CASE x.ssl # "disconnected" /\ x.status # "connected"
  <2>1. y = [x EXCEPT !.crash = "assert"]
    BY <1>2 DEF SendInLoop
  <2> QED BY <1>0, <2>1 DEF TlsHolds, TlsStates, Up, FreedEarly
<1>3. CASE x.ssl # "disconnected" /\ x.status = "connected"
  <2>1. n = x.wire + x.out /\ (x.out > 0 \/ x.rww => x.wev)
    BY <1>3 DEF TlsHolds, Up
  <2>2. n + m = x.wire + x.out + m
    BY <1>0, <2>1
  <2>3. CASE x.wev \/ x.out > 0
    <3>1. y \in Keep(x, m)
      BY <1>3, <2>3 DEF SendInLoop
    <3>2. (x.live <=> x.ssl # "disconnected") /\ FreedEarly(x)
      BY DEF TlsHolds
    <3>3. m \in Nat /\ m > 0
      OBVIOUS
    <3> QED BY <1>0, <2>2, <3>1, <3>2, <3>3, KeepHolds
  <2>4. CASE ~(x.wev \/ x.out > 0)
    <3>1. PICK r \in SSL_write(x, m) : y \in Keep(r.x, m - r.k)
      BY <1>3, <2>4 DEF SendInLoop
    <3>2. x.live /\ FreedEarly(x)
      BY <1>3 DEF TlsHolds
    <3>3. /\ r.x \in TlsStates /\ r.k \in 0 .. m /\ (r.x.live <=> r.x.ssl # "disconnected")
          /\ r.x.out = x.out /\ r.x.rww = x.rww /\ r.x.crash = x.crash /\ r.x.early = x.early
          /\ r.x.ssl # "disconnected" => r.x.wire = x.wire + r.k /\ (x.wev => r.x.wev)
      BY <1>0, <1>3, <3>2, SSLWriteHolds
    <3> DEFINE p == r.x
               k == m - r.k
    <3>4. p \in TlsStates /\ k \in Nat /\ y \in Keep(p, k) /\ (p.live <=> p.ssl # "disconnected") /\ FreedEarly(p)
      BY <3>1, <3>2, <3>3 DEF FreedEarly
    <3>5. Up(p) => n + m = p.wire + p.out + k
      <4>1. ASSUME Up(p) PROVE r.x.wire = x.wire + r.k
        BY <3>3, <4>1 DEF Up
      <4> QED BY <1>0, <2>2, <3>3, <4>1
    <3>6. p.out = 0 /\ ~p.rww
      BY <1>0, <2>1, <2>4, <3>3
    <3> HIDE DEF p, k
    <3>7. Up(p) /\ (p.out > 0 \/ p.rww) => (k > 0 \/ p.wev)
      BY <3>6
    <3> QED BY <3>4, <3>5, <3>7, KeepHolds
  <2> QED BY <2>3, <2>4
<1> QED BY <1>1, <1>2, <1>3

\* The inductive invariant of a TLS connection.
TlsInv == TlsHolds(t, handed) /\ handed \in Nat

\* A new connection has written and kept nothing.
LEMMA TlsInitInv == TlsInit => TlsInv
<1> SUFFICES ASSUME TlsInit PROVE TlsInv
  OBVIOUS
<1>1. <<>> \in Seq({"hs", "data", "eof"}) /\ <<>> \in Seq({"read", "close", "send"})
  OBVIOUS
<1>2. t \in TlsStates /\ t.live = TRUE /\ t.ssl = "none" /\ t.out = 0 /\ t.wire = 0 /\ t.rww = FALSE /\ t.crash = "no" /\ handed = 0
  BY <1>1 DEF TlsInit, TlsStates
<1> QED BY <1>2 DEF TlsInv, TlsHolds, Up, FreedEarly

\* Every event, functor, call and act of the peer keeps it.
LEMMA TlsNextInv == TlsInv /\ [TlsNext]_tlsVars => TlsInv'
<1> SUFFICES ASSUME TlsInv, [TlsNext]_tlsVars PROVE TlsInv'
  OBVIOUS
<1>0. TlsHolds(t, handed) /\ handed \in Nat /\ t \in TlsStates
  BY DEF TlsInv, TlsHolds
<1>t. t.fun \in Seq({"read", "close", "send"}) /\ t.in \in Seq({"hs", "data", "eof"})
  BY <1>0 DEF TlsStates
<1>s. ASSUME SameOutside(t, t'), handed' = handed PROVE TlsInv'
  <2>1. TlsHolds(t', handed)
    BY <1>0, <1>s, SameHolds
  <2> QED BY <1>0, <1>s, <2>1 DEF TlsInv
<1>1. CASE Attach
  <2> DEFINE x == [t EXCEPT !.status = "connected", !.ssl = IF t.type = "server" THEN "accepting" ELSE "connecting"]
  <2>1. TlsHolds(x, handed)
    BY <1>0, <1>1 DEF Attach, TlsHolds, TlsStates, Up, FreedEarly
  <2>2. t' = (IF t.type = "server" THEN x ELSE SslHandshake(x)) /\ handed' = handed
    BY <1>1 DEF Attach
  <2> HIDE DEF x
  <2>3. TlsHolds(t', handed)
    BY <2>1, <2>2, HandshakeHolds
  <2> QED BY <1>0, <2>2, <2>3 DEF TlsInv
<1>2. CASE ReadEvent
  <2>1. t' \in HandleRead(t) /\ handed' = handed
    BY <1>2 DEF ReadEvent
  <2>2. TlsHolds(t', handed)
    BY <1>0, <2>1, HandleReadHolds
  <2> QED BY <1>0, <2>1, <2>2 DEF TlsInv
<1>3. CASE WriteEvent
  <2>1. t' \in HandleWrite(t) /\ handed' = handed
    BY <1>3 DEF WriteEvent
  <2>2. TlsHolds(t', handed)
    BY <1>0, <2>1, HandleWriteHolds
  <2> QED BY <1>0, <2>1, <2>2 DEF TlsInv
<1>4. CASE RunFunctor
  <2> DEFINE x == [t EXCEPT !.fun = Tail(t.fun)]
  <2>1. t.fun # <<>> /\ t.crash = "no" /\ Tail(t.fun) \in Seq({"read", "close", "send"})
        /\ Head(t.fun) \in {"read", "close", "send"}
    BY <1>t, <1>4 DEF RunFunctor, Attached
  <2>2. SameOutside(t, x)
    BY <1>0, <2>1 DEF SameOutside, TlsStates
  <2>3. TlsHolds(x, handed) /\ x \in TlsStates /\ x.crash = "no"
    <3> HIDE DEF x
    <3> QED BY <1>0, <2>1, <2>2, SameHolds DEF SameOutside
  <2>4. /\ Head(t.fun) = "read" => t' \in HandleRead([x EXCEPT !.pend = FALSE]) /\ handed' = handed
        /\ Head(t.fun) = "close" => t' = HandleClose(x) /\ handed' = handed
        /\ Head(t.fun) = "send" => t' \in SendInLoop(x, 1) /\ handed' = handed + 1
    BY <1>4 DEF RunFunctor
  <2> HIDE DEF x
  <2>5. CASE Head(t.fun) = "read"
    <3> DEFINE z == [x EXCEPT !.pend = FALSE]
    <3>1. SameOutside(x, z)
      BY <2>3 DEF SameOutside, TlsStates
    <3>2. t' \in HandleRead(z) /\ handed' = handed
      BY <2>4, <2>5
    <3> HIDE DEF z
    <3>3. TlsHolds(t', handed)
      BY <2>3, <3>1, <3>2, SameHolds, HandleReadHolds
    <3> QED BY <1>0, <3>2, <3>3 DEF TlsInv
  <2>6. CASE Head(t.fun) = "close"
    <3>1. TlsHolds(t', handed)
      BY <2>3, <2>4, <2>6, CloseHolds DEF TlsHolds
    <3> QED BY <1>0, <2>4, <2>6, <3>1 DEF TlsInv
  <2>7. CASE Head(t.fun) = "send"
    <3>1. TlsHolds(t', handed + 1)
      BY <1>0, <2>3, <2>4, <2>7, SendHolds
    <3> QED BY <1>0, <2>4, <2>7, <3>1 DEF TlsInv
  <2> QED BY <2>1, <2>5, <2>6, <2>7
<1>5. CASE SendOffLoop
  <2>1. Append(t.fun, "send") \in Seq({"read", "close", "send"})
    BY <1>t
  <2>2. t' = [t EXCEPT !.fun = Append(t.fun, "send")] /\ handed' = handed
    BY <1>5 DEF SendOffLoop
  <2>3. SameOutside(t, t')
    BY <1>0, <2>1, <2>2 DEF SameOutside, TlsStates
  <2> QED BY <1>s, <2>2, <2>3
<1>6. ASSUME NEW n \in 1 .. 2, SendOnLoop(n) PROVE TlsInv'
  <2>1. t' \in SendInLoop(t, n) /\ handed' = handed + n /\ t.crash = "no" /\ n \in Nat \ {0}
    BY <1>6 DEF SendOnLoop, Attached
  <2>2. TlsHolds(t', handed + n)
    BY <1>0, <2>1, SendHolds
  <2> QED BY <1>0, <2>1, <2>2 DEF TlsInv
<1>7. ASSUME NEW onLoop \in BOOLEAN, Close(onLoop) PROVE TlsInv'
  <2>1. handed' = handed /\ t.status = "connected"
    BY <1>7 DEF Close
  <2>2. CASE onLoop
    <3>1. t' \in Callback(t)
      BY <1>7, <2>2 DEF Close, Callback
    <3>2. TlsHolds(t', handed)
      BY <1>0, <3>1, CallbackHolds
    <3> QED BY <1>0, <2>1, <3>2 DEF TlsInv
  <2>3. CASE ~onLoop
    <3>1. Append(t.fun, "close") \in Seq({"read", "close", "send"})
      BY <1>t
    <3>2. t' = [t EXCEPT !.status = "disconnecting", !.fun = Append(t.fun, "close")]
      BY <1>7, <2>3 DEF Close
    <3>3. TlsHolds(t', handed)
      BY <1>0, <3>1, <3>2 DEF TlsHolds, TlsStates, Up, FreedEarly
    <3> QED BY <1>0, <2>1, <3>3 DEF TlsInv
  <2> QED BY <2>2, <2>3
<1>8. CASE PeerShakes
  <2>1. t' = [t EXCEPT !.in = <<"hs">>] /\ handed' = handed
    BY <1>8 DEF PeerShakes
  <2>2. <<"hs">> \in Seq({"hs", "data", "eof"})
    OBVIOUS
  <2>3. SameOutside(t, t')
    BY <1>0, <2>1, <2>2 DEF SameOutside, TlsStates
  <2> QED BY <1>s, <2>1, <2>3
<1>9. CASE PeerRenegotiates
  <2>1. SameOutside(t, t') /\ handed' = handed
    BY <1>0, <1>9 DEF PeerRenegotiates, SameOutside, TlsStates
  <2> QED BY <1>s, <2>1
<1>10. CASE SocketFills
  <2>1. SameOutside(t, t') /\ handed' = handed
    BY <1>0, <1>10 DEF SocketFills, SameOutside, TlsStates
  <2> QED BY <1>s, <2>1
<1>13. CASE SocketDrains
  <2>1. SameOutside(t, t') /\ handed' = handed
    BY <1>0, <1>13 DEF SocketDrains, SameOutside, TlsStates
  <2> QED BY <1>s, <2>1
<1>11. ASSUME NEW record \in {"data", "eof"}, PeerSends(record) PROVE TlsInv'
  <2>1. Append(t.in, record) \in Seq({"hs", "data", "eof"})
    BY <1>t
  <2>2. t' = [t EXCEPT !.in = Append(t.in, record)] /\ handed' = handed
    BY <1>11 DEF PeerSends
  <2>3. SameOutside(t, t')
    BY <1>0, <2>1, <2>2 DEF SameOutside, TlsStates
  <2> QED BY <1>s, <2>2, <2>3
<1>12. CASE UNCHANGED tlsVars
  BY <1>12 DEF tlsVars, TlsInv
<1> QED BY <1>1, <1>2, <1>3, <1>4, <1>5, <1>6, <1>7, <1>8, <1>9, <1>10, <1>11, <1>12, <1>13 DEF TlsNext

\* What follows for the SSL object, the bytes and the waits.
LEMMA TlsInvHolds == TlsInv => NoUseOfFreedSsl /\ TlsKeepsItsBytes /\ TlsWaitsAreWatched
  BY DEF TlsInv, TlsHolds, FreedEarly, NoUseOfFreedSsl, TlsKeepsItsBytes, TlsWaitsAreWatched

(***************************************************************************)
(* Channel                                                                 *)
(***************************************************************************)
\* The fields of a channel, libevent's events and the failures left.
ChannelRecords ==
    [attached_ : BOOLEAN, loop_ : ChannelLoops \cup {NoLoop}, events_ : SUBSET Events, event_ : BOOLEAN,
     callbacks : BOOLEAN,
     crash : {"no", "null loop", "wrong thread", "not attached", "attached", "null event", "no events"}]
ChannelStates ==
    [ch : ChannelRecords, watched : [ChannelLoops -> SUBSET Events],
     fails : 0 .. MaxAddFailures, delFails : 0 .. MaxDelFailures]
Unwatched == [l \in ChannelLoops |-> {}]

\* What holds of the channel s and of what libevent has for it.
ChannelHolds(s) ==
    /\ s \in ChannelStates
    /\ Usable(s) =>
         /\ s.ch.attached_ => s.ch.event_
         /\ \A l \in ChannelLoops : s.watched[l] = IF s.ch.attached_ /\ s.ch.loop_ = l THEN s.ch.events_ ELSE {}
         /\ ~s.ch.attached_ /\ s.ch.loop_ # NoLoop /\ s.ch.events_ # {} => s.fails < MaxAddFailures
         /\ ~s.ch.event_ => s.ch.loop_ # NoLoop

\* What an operation on s that leaves y keeps: the channel and its loop.
Kept(s, y) == ChannelHolds(y) /\ y.ch.loop_ = s.ch.loop_

\* A channel that failed an assertion promises nothing more.
LEMMA CrashHolds ==
    ASSUME NEW s \in ChannelStates,
           NEW why \in {"null loop", "wrong thread", "not attached", "attached", "null event", "no events"}
    PROVE  Kept(s, Crashes(s, why)) /\ ~Usable(Crashes(s, why))
  BY DEF ChannelHolds, Crashes, Usable, ChannelStates, ChannelRecords, Kept

\* After event_del() libevent watches nothing, and the channel is as it was but for attached_.
LEMMA EventDelKeeps ==
    ASSUME NEW s \in ChannelStates, NEW y \in EventDel(s)
    PROVE  /\ y \in ChannelStates /\ y.watched = Unwatched /\ y.fails = s.fails
           /\ y.ch.loop_ = s.ch.loop_ /\ y.ch.events_ = s.ch.events_ /\ y.ch.event_ = s.ch.event_ /\ y.ch.crash = s.ch.crash
<1> DEFINE u == Unwatch(s)
<1>1. u \in ChannelStates /\ u.watched = Unwatched /\ u.fails = s.fails /\ u.ch = s.ch /\ u.delFails = s.delFails
  BY DEF Unwatch, Unwatched, ChannelStates
<1>2. \/ y = [u EXCEPT !.ch.attached_ = FALSE]
      \/ s.delFails > 0 /\ y = [u EXCEPT !.delFails = s.delFails - 1]
  BY DEF EventDel
<1> HIDE DEF u
<1>3. CASE y = [u EXCEPT !.ch.attached_ = FALSE]
  BY <1>1, <1>3 DEF ChannelStates, ChannelRecords
<1>4. CASE s.delFails > 0 /\ y = [u EXCEPT !.delFails = s.delFails - 1]
  <2>1. s.delFails - 1 \in 0 .. MaxDelFailures
    <3>1. s.delFails \in 0 .. MaxDelFailures
      BY DEF ChannelStates
    <3> QED BY ONLY <1>4, <3>1, ChannelAssumption
  <2> QED BY <1>1, <1>4, <2>1 DEF ChannelStates, ChannelRecords
<1> QED BY <1>2, <1>3, <1>4

\* Closing the event keeps the channel,
LEMMA CloseKeeps ==
    ASSUME NEW s, ChannelHolds(s), Usable(s), NEW y \in CloseEvent(s)
    PROVE  Kept(s, y)
<1>0. s \in ChannelStates
  BY DEF ChannelHolds
<1>1. CASE s.ch.loop_ = NoLoop
  <2>1. y = Crashes(s, "null loop")
    BY <1>1 DEF CloseEvent, OnLoop
  <2> QED BY <1>0, <2>1, CrashHolds
<1>2. CASE s.ch.loop_ # NoLoop /\ ~s.ch.event_
  <2>1. y = s
    BY <1>2 DEF CloseEvent, OnLoop
  <2> QED BY <2>1 DEF Kept
<1>3. CASE s.ch.loop_ # NoLoop /\ s.ch.event_ /\ ~s.ch.attached_
  <2>1. y = [s EXCEPT !.ch.event_ = FALSE, !.ch.callbacks = FALSE]
    BY <1>3 DEF CloseEvent, OnLoop
  <2> QED BY <1>0, <1>3, <2>1 DEF Kept, ChannelHolds, ChannelStates, ChannelRecords, Usable
<1>4. CASE s.ch.loop_ # NoLoop /\ s.ch.event_ /\ s.ch.attached_
  <2> DEFINE u == Unwatch(s)
             x == [u EXCEPT !.ch.events_ = {}, !.ch.attached_ = FALSE]
  <2>1. u \in ChannelStates /\ u.watched = Unwatched /\ u.ch = s.ch
    BY <1>0 DEF Unwatch, Unwatched, ChannelStates
  <2>2. y = [x EXCEPT !.ch.event_ = FALSE, !.ch.callbacks = FALSE]
    BY <1>4 DEF CloseEvent, OnLoop
  <2> HIDE DEF u
  <2>3. y \in ChannelStates /\ y.watched = Unwatched /\ y.ch.loop_ = s.ch.loop_
        /\ ~y.ch.attached_ /\ y.ch.events_ = {}
    BY <2>1, <2>2 DEF ChannelStates, ChannelRecords
  <2> QED BY <1>4, <2>3 DEF Kept, ChannelHolds, Unwatched
<1> QED BY <1>1, <1>2, <1>3, <1>4

\* so do event_add(), where libevent watches nothing yet,
LEMMA EventAddKeeps ==
    ASSUME NEW s, s \in ChannelStates, Usable(s), s.ch.loop_ # NoLoop, s.watched = Unwatched, NEW y \in EventAdd(s)
    PROVE  Kept(s, y)
<1>0. s.ch.loop_ \in ChannelLoops
  BY DEF ChannelStates, ChannelRecords
<1>1. CASE s.ch.attached_
  <2>1. y = Crashes(s, "attached")
    BY <1>1 DEF EventAdd
  <2> QED BY <2>1, CrashHolds
<1>2. CASE ~s.ch.attached_ /\ ~s.ch.event_
  <2>1. y = Crashes(s, "null event")
    BY <1>2 DEF EventAdd
  <2> QED BY <2>1, CrashHolds
<1>3. CASE ~s.ch.attached_ /\ s.ch.event_ /\ y = [s EXCEPT !.watched[s.ch.loop_] = s.ch.events_, !.ch.attached_ = TRUE]
  <2>1. y \in ChannelStates
    BY <1>0, <1>3 DEF ChannelStates, ChannelRecords
  <2>2. /\ y.ch.attached_ /\ y.ch.event_ /\ y.ch.loop_ = s.ch.loop_ /\ y.ch.events_ = s.ch.events_
        /\ y.watched = [s.watched EXCEPT ![s.ch.loop_] = s.ch.events_]
    BY <1>3 DEF ChannelStates, ChannelRecords
  <2>3. \A l \in ChannelLoops : y.watched[l] = IF y.ch.attached_ /\ y.ch.loop_ = l THEN y.ch.events_ ELSE {}
    BY <1>0, <2>2 DEF Unwatched
  <2> QED BY <2>1, <2>2, <2>3 DEF Kept, ChannelHolds
<1>4. CASE ~s.ch.attached_ /\ s.ch.event_ /\ s.fails > 0 /\ y = [s EXCEPT !.fails = s.fails - 1]
  <2>1. s.fails - 1 \in 0 .. MaxAddFailures /\ s.fails - 1 < MaxAddFailures
    <3>1. s.fails \in 0 .. MaxAddFailures
      BY DEF ChannelStates
    <3> QED BY ONLY <1>4, <3>1, ChannelAssumption
  <2>2. y \in ChannelStates
    BY <1>4, <2>1 DEF ChannelStates
  <2>3. y.ch = s.ch /\ y.watched = Unwatched /\ y.fails = s.fails - 1
    BY <1>4 DEF ChannelStates
  <2>4. \A l \in ChannelLoops : y.watched[l] = {}
    BY ONLY <2>3 DEF Unwatched
  <2>5. ~y.ch.attached_ /\ y.ch.event_ /\ y.fails < MaxAddFailures
    BY ONLY <1>4, <2>1, <2>3
  <2>6. ChannelHolds(y)
    BY ONLY <2>2, <2>4, <2>5 DEF ChannelHolds
  <2> QED BY ONLY <2>3, <2>6 DEF Kept
<1> QED BY <1>1, <1>2, <1>3, <1>4 DEF EventAdd

\* attachToLoop(),
LEMMA AttachKeeps ==
    ASSUME NEW s, s \in ChannelStates, Usable(s), ~s.ch.attached_ => s.watched = Unwatched, NEW y \in AttachToLoop(s)
    PROVE  Kept(s, y)
<1>1. CASE s.ch.loop_ = NoLoop
  <2>1. y = Crashes(s, "null loop")
    BY <1>1 DEF AttachToLoop, OnLoop
  <2> QED BY <2>1, CrashHolds
<1>2. CASE s.ch.loop_ # NoLoop
  <2>1. PICK x \in (IF s.ch.attached_ THEN EventDel(s) ELSE {s}) : y \in EventAdd(x)
    BY <1>2 DEF AttachToLoop, OnLoop
  <2>2. x \in ChannelStates /\ x.watched = Unwatched /\ x.ch.loop_ = s.ch.loop_ /\ x.ch.crash = s.ch.crash
    BY <2>1, EventDelKeeps
  <2>3. Kept(x, y)
    BY <1>2, <2>1, <2>2, EventAddKeeps DEF Usable
  <2> QED BY <2>2, <2>3 DEF Kept
<1> QED BY <1>1, <1>2

\* detachFromLoop(),
LEMMA DetachKeeps ==
    ASSUME NEW s, s \in ChannelStates, Usable(s), s.ch.attached_ => s.ch.event_, NEW y \in DetachFromLoop(s)
    PROVE  /\ y \in ChannelStates /\ y.ch.loop_ = s.ch.loop_ /\ y.ch.events_ = s.ch.events_
           /\ Usable(y) => y.ch.event_ /\ y.watched = Unwatched
<1>1. CASE s.ch.loop_ = NoLoop \/ ~s.ch.attached_
  <2>1. PICK why \in {"null loop", "not attached"} : y = Crashes(s, why)
    BY <1>1 DEF DetachFromLoop, OnLoop
  <2> QED BY <2>1, CrashHolds DEF Kept, ChannelHolds, Crashes, ChannelStates, ChannelRecords
<1>2. CASE s.ch.loop_ # NoLoop /\ s.ch.attached_
  <2>1. y \in EventDel(s)
    BY <1>2 DEF DetachFromLoop, OnLoop
  <2> QED BY <1>2, <2>1, EventDelKeeps
<1> QED BY <1>1, <1>2

\* a change of the events,
LEMMA SetKeeps ==
    ASSUME NEW s, ChannelHolds(s), Usable(s), NEW e \in SUBSET Events, NEW y \in SetEvents(s, e)
    PROVE  Kept(s, y)
<1>0. s \in ChannelStates
  BY DEF ChannelHolds
<1>1. CASE e = s.ch.events_
  <2>1. y = s
    BY <1>1 DEF SetEvents
  <2> QED BY <2>1 DEF Kept
<1>2. CASE e # s.ch.events_
  <2> DEFINE z == [s EXCEPT !.ch.events_ = e]
  <2>1. /\ z \in ChannelStates /\ z.ch.events_ = e /\ z.watched = s.watched
        /\ z.ch.loop_ = s.ch.loop_ /\ z.ch.attached_ = s.ch.attached_ /\ z.ch.event_ = s.ch.event_
        /\ z.ch.crash = s.ch.crash
    BY <1>0 DEF ChannelStates, ChannelRecords
  <2>2. y \in UpdateEvent(z)
    BY <1>2 DEF SetEvents
  <2> HIDE DEF z
  <2>3. Usable(z) /\ (z.ch.attached_ => z.ch.event_)
    BY <2>1 DEF ChannelHolds, Usable
  <2>4. ~z.ch.attached_ => z.watched = Unwatched
    <3>1. SUFFICES ASSUME ~s.ch.attached_ PROVE s.watched = Unwatched
      BY <2>1
    <3>2. s.watched \in [ChannelLoops -> SUBSET Events] /\ \A l \in ChannelLoops : s.watched[l] = {}
      BY <1>0, <3>1 DEF ChannelHolds, ChannelStates
    <3> QED BY <3>2 DEF Unwatched
  <2>5. CASE e = {}
    <3>1. y \in DetachFromLoop(z)
      BY <2>1, <2>2, <2>5 DEF UpdateEvent
    <3>2. /\ y \in ChannelStates /\ y.ch.loop_ = s.ch.loop_ /\ y.ch.events_ = {}
          /\ Usable(y) => y.ch.event_ /\ y.watched = Unwatched
      BY <2>1, <2>3, <2>5, <3>1, DetachKeeps
    <3> QED BY <3>2 DEF Kept, ChannelHolds, Unwatched
  <2>6. CASE e # {}
    <3>1. y \in AttachToLoop(z)
      BY <2>1, <2>2, <2>6 DEF UpdateEvent
    <3>2. Kept(z, y)
      BY <2>1, <2>3, <2>4, <3>1, AttachKeeps
    <3> QED BY <2>1, <3>2 DEF Kept
  <2> QED BY <2>5, <2>6
<1> QED BY <1>1, <1>2

\* leaving the loop,
LEMMA LeaveKeeps ==
    ASSUME NEW s, ChannelHolds(s), Usable(s), NEW y \in DetachFromLoopAndReset(s)
    PROVE  ChannelHolds(y)
<1>1. PICK x \in DetachFromLoop(s) : y = IF Usable(x) THEN [x EXCEPT !.ch.loop_ = NoLoop] ELSE x
  BY DEF DetachFromLoopAndReset
<1>2. x \in ChannelStates /\ (Usable(x) => x.ch.event_ /\ x.watched = Unwatched)
  BY DetachKeeps DEF ChannelHolds
<1>3. CASE Usable(x)
  <2>1. y = [x EXCEPT !.ch.loop_ = NoLoop]
    BY <1>1, <1>3
  <2>2. y \in ChannelStates /\ y.ch.event_ /\ y.ch.loop_ = NoLoop /\ y.watched = Unwatched
    BY <1>2, <1>3, <2>1 DEF ChannelStates, ChannelRecords
  <2> QED BY <2>2, ChannelAssumption DEF ChannelHolds, Unwatched
<1>4. CASE ~Usable(x)
  BY <1>1, <1>2, <1>4 DEF ChannelHolds
<1> QED BY <1>3, <1>4

\* everything that is called on the loop,
LEMMA DoesKeeps ==
    ASSUME NEW s, ChannelHolds(s), Usable(s), NEW o \in Operations, NEW y \in Does(s, o)
    PROVE  ChannelHolds(y) /\ (o.op = "leave" \/ y.ch.loop_ = s.ch.loop_)
<1>1. \/ o.op = "set" /\ o.events \in SUBSET Events
      \/ o.op \in {"close", "leave", "none"}
  BY DEF Operations
<1>2. CASE o.op = "set" /\ o.events \in SUBSET Events
  <2>1. y \in SetEvents(s, o.events)
    BY <1>2 DEF Does
  <2> QED BY <1>2, <2>1, SetKeeps DEF Kept
<1>3. CASE o.op = "close"
  <2>1. y \in CloseEvent(s)
    BY <1>3 DEF Does
  <2> QED BY <2>1, CloseKeeps DEF Kept
<1>4. CASE o.op = "leave"
  <2>1. y \in DetachFromLoopAndReset(s)
    BY <1>4 DEF Does
  <2> QED BY <1>4, <2>1, LeaveKeeps
<1>5. CASE o.op = "none"
  <2>1. y = s
    BY <1>5 DEF Does
  <2> QED BY <2>1
<1> QED BY <1>1, <1>2, <1>3, <1>4, <1>5

\* and the move to another loop.
LEMMA MoveKeeps ==
    ASSUME NEW s, ChannelHolds(s), Usable(s), s.ch.loop_ = NoLoop, NEW l \in ChannelLoops, NEW y \in AttachToNewLoop(s, l)
    PROVE  ChannelHolds(y)
<1>0. s \in ChannelStates /\ s.watched = Unwatched
  <2>1. s \in ChannelStates /\ s.watched \in [ChannelLoops -> SUBSET Events] /\ \A k \in ChannelLoops : s.watched[k] = {}
    BY ChannelAssumption DEF ChannelHolds, ChannelStates
  <2> QED BY <2>1 DEF Unwatched
<1>1. CASE s.ch.events_ = {}
  <2>1. y = Crashes(s, "no events")
    BY <1>1 DEF AttachToNewLoop
  <2> QED BY <1>0, <2>1, CrashHolds DEF Kept
<1>2. CASE s.ch.events_ # {}
  <2> DEFINE z == [s EXCEPT !.ch.loop_ = l]
  <2>1. y \in AttachToLoop(z)
    BY <1>2 DEF AttachToNewLoop
  <2>2. z \in ChannelStates /\ z.ch.crash = s.ch.crash /\ z.watched = s.watched
    BY <1>0 DEF ChannelStates, ChannelRecords
  <2> HIDE DEF z
  <2>3. Usable(z)
    BY <2>2 DEF Usable
  <2>4. Kept(z, y)
    BY <1>0, <2>1, <2>2, <2>3, AttachKeeps
  <2> QED BY <2>4 DEF Kept
<1> QED BY <1>1, <1>2

\* A loop inside handleEvent() is still the channel's loop, or its read callback has left it.
LeftBy(r) == Len(r) = 1 /\ r[1].op = "leave"
CallRecords == [found : ChannelRecords, on : ChannelLoops, op : {"set", "close", "leave", "none"}]
HandlingHolds ==
    /\ handling \in SUBSET ChannelLoops
    /\ ran \in [ChannelLoops -> Seq(CallRecords)]
    /\ \A l \in handling : Len(ran[l]) <= 1 /\ (ch.loop_ = l \/ LeftBy(ran[l]))

\* The inductive invariant of a channel.
ChannelInv == ChannelHolds(State) /\ HandlingHolds /\ CallbacksFindTheChannel

\* A new channel is not attached.
LEMMA ChannelInitInv == ChannelInit => ChannelInv
<1> SUFFICES ASSUME ChannelInit PROVE ChannelInv
  OBVIOUS
<1>1. State \in ChannelStates
  <2>1. addFails \in 0 .. MaxAddFailures /\ delFails \in 0 .. MaxDelFailures /\ watched \in [ChannelLoops -> SUBSET Events]
    BY ChannelAssumption DEF ChannelInit
  <2>2. ch \in ChannelRecords
    BY DEF ChannelInit, ChannelRecords
  <2> QED BY <2>1, <2>2 DEF State, ChannelStates
<1>2. ~ch.attached_ /\ ch.events_ = {} /\ ch.event_ /\ \A l \in ChannelLoops : watched[l] = {}
  BY DEF ChannelInit
<1>3. CallbacksFindTheChannel
  BY DEF ChannelInit, CallbacksFindTheChannel
<1>4. HandlingHolds
  BY DEF ChannelInit, HandlingHolds
<1> QED BY <1>1, <1>2, <1>3, <1>4 DEF ChannelInv, ChannelHolds, State

LEMMA OneSequence ==
    ASSUME NEW R, NEW L, NEW g \in [L -> Seq(R)], NEW l \in L, NEW q \in Seq(R)
    PROVE  [g EXCEPT ![l] = q] \in [L -> Seq(R)]
  OBVIOUS

\* What a callback does keeps the channel; off its loop it is a crash.
LEMMA CallbackKeeps ==
    ASSUME ChannelHolds(State), Usable(State), NEW l \in ChannelLoops, NEW o \in Operations, NEW y \in CallsBack(l, o)
    PROVE  ChannelHolds(y) /\ ((ch.loop_ = l /\ o.op = "leave") \/ y.ch.loop_ = ch.loop_)
<1>0. State.ch = ch /\ State \in ChannelStates
  BY DEF State, ChannelHolds
<1>1. CASE ch.loop_ = l
  BY <1>0, <1>1, DoesKeeps DEF CallsBack
<1>2. CASE ch.loop_ # l
  <2>1. PICK why \in {"null loop", "wrong thread"} : y = Crashes(State, why)
    BY <1>2 DEF CallsBack
  <2> QED BY <1>0, <2>1, CrashHolds DEF Kept
<1> QED BY <1>1, <1>2

\* Every call and every callback keeps it.
LEMMA ChannelNextInv == ChannelInv /\ [ChannelNext]_channelVars => ChannelInv'
<1> SUFFICES ASSUME ChannelInv, [ChannelNext]_channelVars PROVE ChannelInv'
  OBVIOUS
<1>0. ChannelHolds(State) /\ HandlingHolds /\ CallbacksFindTheChannel /\ State.ch = ch /\ ch \in ChannelRecords
  BY DEF ChannelInv, State, ChannelHolds, ChannelStates
<1>1. ASSUME NEW y, ChannelHolds(y), Leaves(y) PROVE ChannelHolds(State') /\ ch' = y.ch
  <2>1. y = [ch |-> y.ch, watched |-> y.watched, fails |-> y.fails, delFails |-> y.delFails]
    BY <1>1 DEF ChannelHolds, ChannelStates
  <2>2. State' = y
    BY <1>1, <2>1 DEF Leaves, State
  <2> QED BY <1>1, <2>2 DEF Leaves
<1>2. ASSUME UNCHANGED <<handling, ran>>, ch.loop_ \notin handling PROVE HandlingHolds' /\ CallbacksFindTheChannel'
  BY <1>0, <1>2 DEF HandlingHolds, CallbacksFindTheChannel
<1>3. ASSUME NEW o \in Operations, OwnerDoes(o) PROVE ChannelInv'
  <2>1. PICK y \in Does(State, o) : Leaves(y)
    BY <1>3 DEF OwnerDoes
  <2>2. Usable(State) /\ UNCHANGED <<handling, ran>> /\ ch.loop_ \notin handling
    BY <1>3 DEF OwnerDoes
  <2>3. ChannelHolds(y)
    BY <1>0, <2>2, DoesKeeps
  <2> QED BY <1>1, <1>2, <2>1, <2>2, <2>3 DEF ChannelInv
<1>4. ASSUME NEW l \in ChannelLoops, OwnerMoves(l) PROVE ChannelInv'
  <2>1. PICK y \in AttachToNewLoop(State, l) : Leaves(y)
    BY <1>4 DEF OwnerMoves
  <2>2. Usable(State) /\ UNCHANGED <<handling, ran>> /\ State.ch.loop_ = NoLoop
    BY <1>4 DEF OwnerMoves, State
  <2>3. ch.loop_ \notin handling
    BY <1>0, <2>2, ChannelAssumption DEF HandlingHolds
  <2>4. ChannelHolds(y)
    BY <1>0, <2>2, MoveKeeps
  <2> QED BY <1>1, <1>2, <2>1, <2>2, <2>3, <2>4 DEF ChannelInv
<1>5. ASSUME NEW l \in ChannelLoops, NEW o \in Operations
      PROVE  Found(l, o) \in CallRecords
             /\ Found(l, o).found = ch /\ Found(l, o).op = o.op
  <2>1. o.op \in {"set", "close", "leave", "none"}
    BY DEF Operations
  <2> QED BY <1>0, <2>1 DEF Found, CallRecords
<1>6. ASSUME NEW l \in ChannelLoops, NEW which \in SUBSET Events, NEW o \in Operations, BeginEvent(l, which, o)
      PROVE  ChannelInv'
  <2>1. Usable(State) /\ l \notin handling /\ which # {} /\ which \subseteq watched[l]
    BY <1>6 DEF BeginEvent
  <2>2. ch.attached_ /\ ch.event_ /\ ch.loop_ = l
    BY <1>0, <2>1 DEF ChannelHolds, State
  <2>3. handling' \in SUBSET ChannelLoops /\ handling' \subseteq handling \cup {l}
    BY <1>0, <1>6 DEF BeginEvent, HandlingHolds
  <2>4. ASSUME NEW k \in handling, k # l PROVE Len(ran[k]) <= 1 /\ LeftBy(ran[k])
    BY <1>0, <2>2, <2>4 DEF HandlingHolds
  <2>5. CASE "read" \in which /\ Runs
    <3>1. PICK y \in CallsBack(l, o) : Leaves(y) /\ ran' = [ran EXCEPT ![l] = <<Found(l, o)>>]
      BY <1>6, <2>5 DEF BeginEvent
    <3>2. ChannelHolds(y) /\ (o.op = "leave" \/ y.ch.loop_ = l)
      BY <1>0, <2>1, <2>2, CallbackKeeps
    <3>3. ChannelHolds(State') /\ ch' = y.ch
      BY <1>1, <3>1, <3>2
    <3> DEFINE f == Found(l, o)
    <3>4. /\ f \in CallRecords
          /\ f.found = ch /\ f.op = o.op
      BY <1>5
    <3>5. ran' = [ran EXCEPT ![l] = <<f>>]
      BY <3>1
    <3> HIDE DEF f
    <3>6. HandlingHolds'
      <4>1. ran' \in [ChannelLoops -> Seq(CallRecords)]
        <5>1. <<f>> \in Seq(CallRecords) /\ ran \in [ChannelLoops -> Seq(CallRecords)]
          BY <1>0, <3>4 DEF HandlingHolds
        <5> QED BY <3>5, <5>1, OneSequence
      <4>2. ASSUME NEW k \in handling' PROVE Len(ran'[k]) <= 1 /\ (ch'.loop_ = k \/ LeftBy(ran'[k]))
        <5>1. CASE k = l
          BY <1>0, <3>2, <3>3, <3>4, <3>5, <5>1 DEF HandlingHolds, LeftBy
        <5>2. CASE k # l
          BY <1>0, <2>3, <2>4, <3>5, <5>2 DEF HandlingHolds
        <5> QED BY <5>1, <5>2
      <4> QED BY <2>3, <4>1, <4>2 DEF HandlingHolds, LeftBy
    <3>7. CallbacksFindTheChannel'
      <4> SUFFICES ASSUME NEW k \in ChannelLoops, NEW i \in DOMAIN ran'[k]
                   PROVE  /\ ran'[k][i].found.attached_ /\ ran'[k][i].found.event_
                          /\ ran'[k][i].found.loop_ = k \/ (i = 2 /\ ran'[k][1].op = "leave")
        BY DEF CallbacksFindTheChannel
      <4>1. CASE k = l
        BY <1>0, <2>2, <3>4, <3>5, <4>1 DEF HandlingHolds
      <4>2. CASE k # l
        <5>1. ran'[k] = ran[k]
          BY <1>0, <3>5, <4>2 DEF HandlingHolds
        <5> QED BY <1>0, <5>1 DEF CallbacksFindTheChannel
      <4> QED BY <4>1, <4>2
    <3> QED BY <3>3, <3>6, <3>7 DEF ChannelInv
  <2>6. CASE ~("read" \in which /\ Runs)
    <3>1. ran' = [ran EXCEPT ![l] = <<>>] /\ UNCHANGED <<ch, watched, addFails, delFails>>
      BY <1>6, <2>6 DEF BeginEvent
    <3>2. HandlingHolds'
      <4>1. ran' \in [ChannelLoops -> Seq(CallRecords)]
        <5>1. <<>> \in Seq(CallRecords) /\ ran \in [ChannelLoops -> Seq(CallRecords)]
          BY <1>0 DEF HandlingHolds
        <5> QED BY <3>1, <5>1, OneSequence
      <4>2. ASSUME NEW k \in handling' PROVE Len(ran'[k]) <= 1 /\ (ch'.loop_ = k \/ LeftBy(ran'[k]))
        <5>1. CASE k = l
          BY <1>0, <2>2, <3>1, <5>1 DEF HandlingHolds
        <5>2. CASE k # l
          BY <1>0, <2>3, <2>4, <3>1, <5>2 DEF HandlingHolds
        <5> QED BY <5>1, <5>2
      <4> QED BY <2>3, <4>1, <4>2 DEF HandlingHolds, LeftBy
    <3>3. CallbacksFindTheChannel'
      BY <1>0, <3>1 DEF CallbacksFindTheChannel, HandlingHolds
    <3> QED BY <1>0, <3>1, <3>2, <3>3 DEF ChannelInv, State
  <2> QED BY <2>5, <2>6
<1>7. ASSUME NEW l \in ChannelLoops, NEW o \in Operations, EndEvent(l, o) PROVE ChannelInv'
  <2>1. Usable(State) /\ l \in handling /\ handling' = handling \ {l}
    BY <1>7 DEF EndEvent
  <2>2. Len(ran[l]) <= 1 /\ (ch.loop_ = l \/ LeftBy(ran[l]))
    BY <1>0, <2>1 DEF HandlingHolds
  <2>3. CASE Runs
    <3>1. PICK y \in CallsBack(l, o) : Leaves(y) /\ ran' = [ran EXCEPT ![l] = Append(ran[l], Found(l, o))]
      BY <1>7, <2>3 DEF EndEvent
    <3>2. ChannelHolds(y) /\ (ch.loop_ = l \/ y.ch.loop_ = ch.loop_)
      BY <1>0, <2>1, CallbackKeeps
    <3>3. ChannelHolds(State') /\ ch' = y.ch
      BY <1>1, <3>1, <3>2
    <3> DEFINE f == Found(l, o)
    <3>4. /\ f \in CallRecords
          /\ f.found = ch
      BY <1>5
    <3>5. ran' = [ran EXCEPT ![l] = Append(ran[l], f)]
      BY <3>1
    <3> HIDE DEF f
    <3>6. HandlingHolds'
      <4>1. ran' \in [ChannelLoops -> Seq(CallRecords)]
        <5>1. Append(ran[l], f) \in Seq(CallRecords) /\ ran \in [ChannelLoops -> Seq(CallRecords)]
          BY <1>0, <3>4 DEF HandlingHolds
        <5> QED BY <3>5, <5>1, OneSequence
      <4>2. ASSUME NEW k \in handling' PROVE Len(ran'[k]) <= 1 /\ (ch'.loop_ = k \/ LeftBy(ran'[k]))
        <5>1. k \in handling /\ k # l /\ ran'[k] = ran[k]
          BY <1>0, <2>1, <3>5 DEF HandlingHolds
        <5>2. Len(ran[k]) <= 1 /\ (ch.loop_ = k \/ LeftBy(ran[k]))
          BY <1>0, <5>1 DEF HandlingHolds
        <5> QED BY <3>2, <3>3, <5>1, <5>2
      <4> QED BY <1>0, <2>1, <4>1, <4>2 DEF HandlingHolds, LeftBy
    <3>7. CallbacksFindTheChannel'
      <4> SUFFICES ASSUME NEW k \in ChannelLoops, NEW i \in DOMAIN ran'[k]
                   PROVE  /\ ran'[k][i].found.attached_ /\ ran'[k][i].found.event_
                          /\ ran'[k][i].found.loop_ = k \/ (i = 2 /\ ran'[k][1].op = "leave")
        BY DEF CallbacksFindTheChannel
      <4>1. CASE k = l
        <5>1. ran[l] \in Seq(CallRecords)
          BY <1>0 DEF HandlingHolds
        <5>2. ran'[l] = Append(ran[l], f)
          BY <1>0, <3>5 DEF HandlingHolds
        <5>3. CASE i \in DOMAIN ran[l]
          <6>1. ran'[l][i] = ran[l][i] /\ i = 1
            BY <2>2, <5>1, <5>2, <5>3
          <6> QED BY <1>0, <4>1, <5>3, <6>1 DEF CallbacksFindTheChannel
        <5>4. CASE i \notin DOMAIN ran[l]
          <6>1. i = Len(ran[l]) + 1 /\ ran'[l][i] = f
            BY <4>1, <5>1, <5>2, <5>4
          <6>2. f.found.attached_ /\ f.found.event_
            BY <1>0, <2>1, <2>3, <3>4 DEF Runs, ChannelHolds
          <6>3. CASE ch.loop_ = l
            BY <3>4, <4>1, <6>1, <6>2, <6>3
          <6>4. CASE LeftBy(ran[l])
            <7>1. i = 2 /\ ran'[l][1] = ran[l][1] /\ ran[l][1].op = "leave"
              BY <5>1, <5>2, <6>1, <6>4 DEF LeftBy
            <7> QED BY <4>1, <6>1, <6>2, <7>1
          <6> QED BY <2>2, <6>3, <6>4
        <5> QED BY <5>3, <5>4
      <4>2. CASE k # l
        <5>1. ran'[k] = ran[k]
          BY <1>0, <3>5, <4>2 DEF HandlingHolds
        <5> QED BY <1>0, <5>1 DEF CallbacksFindTheChannel
      <4> QED BY <4>1, <4>2
    <3> QED BY <3>3, <3>6, <3>7 DEF ChannelInv
  <2>4. CASE ~Runs
    <3>1. UNCHANGED <<ch, watched, addFails, delFails, ran>>
      BY <1>7, <2>4 DEF EndEvent
    <3>2. HandlingHolds' /\ CallbacksFindTheChannel'
      BY <1>0, <2>1, <3>1 DEF HandlingHolds, CallbacksFindTheChannel
    <3> QED BY <1>0, <3>1, <3>2 DEF ChannelInv, State
  <2> QED BY <2>3, <2>4
<1>8. CASE UNCHANGED channelVars
  BY <1>0, <1>8 DEF channelVars, ChannelInv, CallbacksFindTheChannel, HandlingHolds, State
<1> QED BY <1>3, <1>4, <1>6, <1>7, <1>8 DEF ChannelNext

\* libevent watches what the channel records, and a closed channel can be destroyed.
LEMMA ChannelInvHolds == ChannelInv => WatchedAsRecorded /\ CallbacksFindTheChannel /\ ClosedCanBeDestroyed
<1> SUFFICES ASSUME ChannelInv PROVE WatchedAsRecorded /\ ClosedCanBeDestroyed
  BY DEF ChannelInv
<1>1. ChannelHolds([ch |-> ch, watched |-> watched, fails |-> addFails, delFails |-> delFails])
  BY DEF ChannelInv, State
<1>2. /\ addFails \in 0 .. MaxAddFailures
      /\ ch.crash = "no" =>
         /\ ch.attached_ => ch.event_
         /\ \A l \in ChannelLoops : watched[l] = IF ch.attached_ /\ ch.loop_ = l THEN ch.events_ ELSE {}
         /\ ~ch.attached_ /\ ch.loop_ # NoLoop /\ ch.events_ # {} => addFails < MaxAddFailures
         /\ ~ch.event_ => ch.loop_ # NoLoop
  BY <1>1 DEF ChannelHolds, ChannelStates, Usable
<1> QED BY <1>2 DEF WatchedAsRecorded, ClosedCanBeDestroyed

(***************************************************************************)
(* DnsResolver                                                             *)
(***************************************************************************)
\* Requests made and not answered are the n-th and earlier ones, each in one place.
Unanswered == flying \cup cancelled

\* What a resolver has counted.
DnsCounted ==
    /\ starts \in Nat /\ made \in Nat /\ dnsFunctors \in Nat /\ made + dnsFunctors <= starts
    /\ stopped_ \in BOOLEAN /\ early \in BOOLEAN /\ dnsAssert \in BOOLEAN
    /\ answers \in Seq({"addresses", "error", "cancel"})
    /\ IsFiniteSet(Unanswered)
    /\ \A r \in Unanswered : r \in 1 .. made
    /\ Len(answers) + Cardinality(Unanswered) <= made

\* The four stages of a resolution whose start() was not early.
DnsIdle == dns_base_ = 0 /\ dns_req_ = 0 /\ resolver_timer_id_ = 0
DnsStages ==
    ~dnsAssert /\
    \/ stopped_ /\ DnsIdle /\ dnsFunctors = 0 /\ timers = {} /\ flying = {} /\ cancelled = {}
    \/ ~stopped_ /\ DnsIdle /\ dnsFunctors = 1 /\ timers = {} /\ flying = {} /\ cancelled = {}
    \/ /\ ~stopped_ /\ dnsFunctors = 0 /\ made > 0
       /\ dns_base_ = made /\ dns_req_ = made /\ resolver_timer_id_ = made
       /\ timers = {made} /\ flying = {made} /\ cancelled = {}
    \/ stopped_ /\ DnsIdle /\ dnsFunctors = 0 /\ timers = {} /\ flying = {} /\ cancelled = {made}

\* The inductive invariant of a resolver.
DnsInv == DnsCounted /\ (~early => DnsStages)

\* A new resolver is idle.
LEMMA DnsInitInv == DnsInit => DnsInv
<1> SUFFICES ASSUME DnsInit PROVE DnsInv
  OBVIOUS
<1>1. Unanswered = {}
  BY DEF DnsInit, Unanswered
<1>2. IsFiniteSet({}) /\ Cardinality({}) = 0
  BY FS_EmptySet
<1>3. DnsCounted
  <2>1. answers = <<>> /\ Len(<<>>) = 0 /\ <<>> \in Seq({"addresses", "error", "cancel"})
    BY DEF DnsInit
  <2>2. /\ starts = 0 /\ made = 0 /\ dnsFunctors = 0 /\ stopped_ = TRUE /\ early = FALSE
        /\ dnsAssert = FALSE
    BY DEF DnsInit
  <2>3. Len(answers) + Cardinality(Unanswered) <= made
    BY <1>1, <1>2, <2>1, <2>2
  <2> QED BY <1>1, <1>2, <2>1, <2>2, <2>3 DEF DnsCounted
<1>4. DnsStages
  BY DEF DnsInit, DnsStages, DnsIdle
<1> QED BY <1>3, <1>4 DEF DnsInv

\* Removing requests from the unanswered ones, one of which is answered.
LEMMA OneAnswered ==
    ASSUME NEW S, IsFiniteSet(S), NEW r \in S, NEW T, T \subseteq S \ {r}
    PROVE  IsFiniteSet(T) /\ Cardinality(T) + 1 <= Cardinality(S) /\ Cardinality(T) \in Nat /\ Cardinality(S) \in Nat
<1>1. IsFiniteSet(S \ {r}) /\ Cardinality(S \ {r}) = Cardinality(S) - 1
  BY FS_RemoveElement
<1>2. IsFiniteSet(T) /\ Cardinality(T) <= Cardinality(S \ {r})
  BY <1>1, FS_Subset
<1>3. Cardinality(T) \in Nat /\ Cardinality(S) \in Nat /\ Cardinality(S \ {r}) \in Nat
  BY <1>1, <1>2, FS_CardinalityType
<1> QED BY <1>1, <1>2, <1>3

\* Every step of the resolver, its loop and evdns keeps it.
LEMMA DnsNextInv == DnsInv /\ [DnsNext]_dnsVars => DnsInv'
<1> SUFFICES ASSUME DnsInv, [DnsNext]_dnsVars PROVE DnsInv'
  OBVIOUS
<1>0. Cardinality(Unanswered) \in Nat /\ Len(answers) \in Nat
  BY FS_CardinalityType DEF DnsInv, DnsCounted
<1>1. CASE AssertFails /\ early
  <2>1. Unanswered' = Unanswered
    BY <1>1 DEF AssertFails, Unanswered
  <2> QED BY <1>1, <2>1 DEF AssertFails, DnsInv, DnsCounted
<1>2. CASE Start
  <2>1. Unanswered' = Unanswered
    BY <1>2 DEF Start, Unanswered
  <2>2. DnsCounted'
    <3>1. early' \in BOOLEAN /\ stopped_' \in BOOLEAN
      BY <1>2, Zenon DEF Start
    <3>2. starts' = starts + 1 /\ dnsFunctors' = dnsFunctors + 1 /\ UNCHANGED <<made, answers, dnsAssert>>
      BY <1>2 DEF Start
    <3>3. starts' \in Nat /\ dnsFunctors' \in Nat /\ made' + dnsFunctors' <= starts'
      BY <3>2 DEF DnsInv, DnsCounted
    <3> QED BY <2>1, <3>1, <3>2, <3>3 DEF DnsInv, DnsCounted
  <2>3. ASSUME ~early' PROVE DnsStages'
    <3>1. ~early /\ ~(Len(answers) < starts)
      BY <1>2, <2>3 DEF Start
    <3>2. Cardinality(Unanswered) = 0 /\ dnsFunctors = 0
      BY <1>0, <3>1 DEF DnsInv, DnsCounted
    <3>3. Unanswered = {}
      BY <3>2, FS_EmptySet DEF DnsInv, DnsCounted
    <3>4. cancelled = {} /\ flying = {}
      BY <3>3 DEF Unanswered
    <3>5. DnsStages
      BY <3>1 DEF DnsInv
    <3>6. stopped_ /\ DnsIdle /\ timers = {} /\ ~dnsAssert
      BY <1>2, <3>4, <3>5 DEF DnsStages, Start
    <3> QED BY <1>2, <3>2, <3>4, <3>6 DEF Start, DnsStages, DnsIdle
  <2> QED BY <2>2, <2>3 DEF DnsInv
<1>3. CASE StartInLoop
  <2>1. CASE dns_base_ # 0 \/ dns_req_ # 0 \/ resolver_timer_id_ # 0
    <3>1. AssertFails /\ dnsFunctors > 0
      BY <1>3, <2>1 DEF StartInLoop
    <3>2. early
      BY <2>1, <3>1 DEF DnsInv, DnsStages, DnsIdle
    <3> QED BY <1>1, <3>1, <3>2
  <2>2. CASE ~(dns_base_ # 0 \/ dns_req_ # 0 \/ resolver_timer_id_ # 0)
    <3>1. /\ made' = made + 1 /\ dnsFunctors' = dnsFunctors - 1 /\ dnsFunctors > 0
          /\ dns_base_' = made' /\ dns_req_' = made' /\ resolver_timer_id_' = made'
          /\ timers' = timers \cup {made'} /\ flying' = flying \cup {made'}
          /\ UNCHANGED <<stopped_, cancelled, starts, answers, early, dnsAssert>>
      BY <1>3, <2>2 DEF StartInLoop
    <3>2. Unanswered' = Unanswered \cup {made + 1} /\ made + 1 \notin Unanswered
      BY <3>1 DEF Unanswered, DnsInv, DnsCounted
    <3>3. IsFiniteSet(Unanswered \cup {made + 1}) /\ Cardinality(Unanswered \cup {made + 1}) = Cardinality(Unanswered) + 1
      BY <3>2, FS_AddElement DEF DnsInv, DnsCounted
    <3>4. DnsCounted'
      BY <1>0, <3>1, <3>2, <3>3 DEF DnsInv, DnsCounted
    <3>5. ASSUME ~early PROVE DnsStages'
      <4>1. ~stopped_ /\ dnsFunctors = 1 /\ timers = {} /\ flying = {} /\ cancelled = {} /\ ~dnsAssert
        BY <3>1, <3>5 DEF DnsInv, DnsStages
      <4>2. made' > 0 /\ dnsFunctors' = 0
        BY <3>1, <4>1 DEF DnsInv, DnsCounted
      <4> QED BY <3>1, <4>1, <4>2 DEF DnsStages
    <3> QED BY <3>1, <3>4, <3>5 DEF DnsInv
  <2> QED BY <2>1, <2>2
<1>4. ASSUME NEW timer \in timers, OnTimeout(timer) PROVE DnsInv'
  <2>1. CASE (stopped_ /\ (dns_base_ # 0 \/ dns_req_ # 0)) \/ (~stopped_ /\ resolver_timer_id_ = 0)
    <3>1. AssertFails
      BY <1>4, <2>1 DEF OnTimeout
    <3>2. early
      BY <1>4, <2>1 DEF DnsInv, DnsStages, DnsIdle
    <3> QED BY <1>1, <3>1, <3>2
  <2>2. CASE ~((stopped_ /\ (dns_base_ # 0 \/ dns_req_ # 0)) \/ (~stopped_ /\ resolver_timer_id_ = 0))
    <3>1. /\ timers' = timers \ {timer} /\ UNCHANGED <<dnsFunctors, starts, made, answers, early, dnsAssert>>
          /\ stopped_ => UNCHANGED <<stopped_, dns_base_, dns_req_, resolver_timer_id_, flying, cancelled>>
          /\ ~stopped_ => /\ stopped_' = TRUE /\ resolver_timer_id_' = 0 /\ dns_req_' = 0 /\ dns_base_' = 0
                          /\ cancelled' = cancelled \cup (flying \cap {dns_req_})
                          /\ flying' = flying \ {dns_req_, dns_base_}
      BY <1>4, <2>2 DEF OnTimeout
    <3>2. Unanswered' \subseteq Unanswered
      BY <3>1 DEF Unanswered
    <3>3. IsFiniteSet(Unanswered') /\ Cardinality(Unanswered') <= Cardinality(Unanswered)
      BY <3>2, FS_Subset DEF DnsInv, DnsCounted
    <3>4. Cardinality(Unanswered') \in Nat
      BY <3>3, FS_CardinalityType
    <3>5. stopped_' \in BOOLEAN
      BY <3>1 DEF DnsInv, DnsCounted
    <3>6. Len(answers') + Cardinality(Unanswered') <= made'
      BY <1>0, <3>1, <3>3, <3>4 DEF DnsInv, DnsCounted
    <3>7. DnsCounted'
      BY <3>1, <3>2, <3>3, <3>5, <3>6 DEF DnsInv, DnsCounted
    <3>8. ASSUME ~early PROVE DnsStages'
      <4>1. /\ ~stopped_ /\ dnsFunctors = 0 /\ made > 0 /\ dns_base_ = made /\ dns_req_ = made
            /\ timers = {made} /\ flying = {made} /\ cancelled = {} /\ ~dnsAssert
        BY <1>4, <3>8 DEF DnsInv, DnsStages
      <4>2. timers' = {} /\ flying' = {} /\ cancelled' = {made}
        BY <1>4, <3>1, <4>1
      <4> QED BY <3>1, <4>1, <4>2 DEF DnsStages, DnsIdle
    <3> QED BY <3>1, <3>7, <3>8 DEF DnsInv
  <2> QED BY <2>1, <2>2
<1>5. ASSUME NEW r, NEW outcome \in {"addresses", "error", "cancel"}, OnResolved(r, outcome) PROVE DnsInv'
  <2>0. r \in Unanswered /\ (outcome = "cancel") = (r \in cancelled)
    BY <1>5 DEF OnResolved, Unanswered
  <2>1. CASE stopped_ /\ dns_base_ # 0
    <3>1. AssertFails
      BY <1>5, <2>1 DEF OnResolved
    <3>2. early
      BY <2>1 DEF DnsInv, DnsStages, DnsIdle
    <3> QED BY <1>1, <3>1, <3>2
  <2>2. CASE ~(stopped_ /\ dns_base_ # 0)
    <3>1. /\ timers' = timers \ {resolver_timer_id_} /\ resolver_timer_id_' = 0
          /\ stopped_' = TRUE /\ dns_base_' = 0 /\ dns_req_' = 0
          /\ flying' = flying \ {r, dns_base_} /\ cancelled' = cancelled \ {r}
          /\ answers' = Append(answers, outcome)
          /\ UNCHANGED <<dnsFunctors, starts, made, early, dnsAssert>>
      BY <1>5, <2>2 DEF OnResolved
    <3>2. Unanswered' \subseteq Unanswered \ {r}
      BY <3>1 DEF Unanswered
    <3>3. /\ IsFiniteSet(Unanswered') /\ Cardinality(Unanswered') + 1 <= Cardinality(Unanswered)
          /\ Cardinality(Unanswered') \in Nat
      BY <2>0, <3>2, OneAnswered DEF DnsInv, DnsCounted
    <3>4. answers' \in Seq({"addresses", "error", "cancel"}) /\ Len(answers') = Len(answers) + 1
      BY <3>1 DEF DnsInv, DnsCounted
    <3>5. Len(answers') + Cardinality(Unanswered') <= made'
      BY <1>0, <3>1, <3>3, <3>4 DEF DnsInv, DnsCounted
    <3>6. DnsCounted'
      BY <3>1, <3>2, <3>3, <3>4, <3>5 DEF DnsInv, DnsCounted
    <3>7. ASSUME ~early PROVE DnsStages'
      <4>1. DnsStages
        BY <3>7 DEF DnsInv
      <4>2. r = made /\ dnsFunctors = 0 /\ ~dnsAssert
        BY <2>0, <4>1 DEF DnsStages, Unanswered
      <4>3. timers' = {} /\ flying' = {} /\ cancelled' = {}
        BY <2>0, <3>1, <4>1, <4>2 DEF DnsStages, Unanswered, DnsIdle
      <4> QED BY <3>1, <4>2, <4>3 DEF DnsStages, DnsIdle
    <3> QED BY <3>1, <3>6, <3>7 DEF DnsInv
  <2> QED BY <2>1, <2>2
<1>6. CASE UNCHANGED dnsVars
  BY <1>6 DEF dnsVars, DnsInv, DnsCounted, DnsStages, DnsIdle, Unanswered
<1> QED BY <1>2, <1>3, <1>4, <1>5, <1>6 DEF DnsNext, DnsLoop

\* The resolver's assertions hold, and no start() is answered twice.
LEMMA DnsInvHolds == DnsInv => DnsAssertionsHold /\ OneAnswerEach
<1> SUFFICES ASSUME DnsInv PROVE DnsAssertionsHold /\ OneAnswerEach
  OBVIOUS
<1>1. Cardinality(Unanswered) \in Nat /\ Len(answers) \in Nat
  BY FS_CardinalityType DEF DnsInv, DnsCounted
<1>2. OneAnswerEach
  BY <1>1 DEF DnsInv, DnsCounted, OneAnswerEach
<1>3. DnsAssertionsHold
  BY DEF DnsInv, DnsStages, DnsIdle, DnsAssertionsHold
<1> QED BY <1>2, <1>3

(***************************************************************************)
(* The objects together                                                    *)
(***************************************************************************)
ObjectsInv == BufferInv /\ TlsInv /\ ChannelInv /\ DnsInv

\* Whatever the sizes, the loops and the interleaving of their steps, the objects of a
\* connection keep their state together: no byte of a buffer is lost or invented, no SSL
\* function meets a freed ssl_, libevent watches what the channel recorded, and each
\* resolution is answered at most once.
THEOREM ObjectsAreSafe == ObjectsSpec => []NetworkObjectsAreSafe
<1>1. ObjectsInit => ObjectsInv
  BY BufferInitInv, TlsInitInv, ChannelInitInv, DnsInitInv DEF ObjectsInit, ObjectsInv
<1>2. ObjectsInv /\ [ObjectsNext]_objectVars => ObjectsInv'
  <2> SUFFICES ASSUME ObjectsInv, [ObjectsNext]_objectVars PROVE ObjectsInv'
    OBVIOUS
  <2>1. [BufferNext]_bufferVars /\ [TlsNext]_tlsVars /\ [ChannelNext]_channelVars /\ [DnsNext]_dnsVars
    BY DEF ObjectsNext, objectVars
  <2> QED BY <2>1, BufferNextInv, TlsNextInv, ChannelNextInv, DnsNextInv DEF ObjectsInv
<1>3. ObjectsInv => NetworkObjectsAreSafe
  BY BufferInvHolds, TlsInvHolds, ChannelInvHolds, DnsInvHolds DEF ObjectsInv, NetworkObjectsAreSafe
<1> QED BY <1>1, <1>2, <1>3, PTL DEF ObjectsSpec
=============================================================================
