------------------------------- MODULE Buffer -------------------------------
(* network::Buffer: a byte array with a read and a write index.  Its          *)
(* operations are functions of the fields; content is what the sequence of    *)
(* operations should have left to read.                                       *)
EXTENDS Integers, Sequences

CONSTANTS Byte,          \* the bytes written
          Junk_byte,     \* what new char[n] holds
          kCheapPrependSize, kInitialSize,
          MaxWrite, MaxCapacity    \* bounds of the instance

ASSUME BufferSizes == kCheapPrependSize \in Nat /\ kInitialSize \in Nat
ASSUME BufferBounds == MaxWrite \in Nat /\ MaxCapacity \in Nat

VARIABLES
    b,         \* the fields of the Buffer
    content,   \* the bytes that should be readable
    lastRead   \* the bytes of the last read that unreadBytes() can give back

bufferVars == <<b, content, lastRead>>

\* new char[n].
NewArray(n) == [i \in 0 .. n - 1 |-> Junk_byte]

NewBuffer(initial_size, reserved) ==
    [capacity_ |-> reserved + initial_size, read_index_ |-> reserved, write_index_ |-> reserved,
     reserved_prepend_size_ |-> reserved, buffer_ |-> NewArray(reserved + initial_size)]

BufferInit == b = NewBuffer(kInitialSize, kCheapPrependSize) /\ content = <<>> /\ lastRead = <<>>

Length(g) == g.write_index_ - g.read_index_
WritableBytes(g) == g.capacity_ - g.write_index_
PrependableBytes(g) == g.read_index_
Readable(g) == [i \in 1 .. Length(g) |-> g.buffer_[g.read_index_ + i - 1]]

(***************************************************************************)
(* What the operations make of the fields                                   *)
(***************************************************************************)
\* The readable bytes of g at the reserved index of an array of n bytes, which
\* holds rest elsewhere.
Placed(g, n, rest) ==
    [capacity_ |-> n, read_index_ |-> g.reserved_prepend_size_,
     write_index_ |-> g.reserved_prepend_size_ + Length(g), reserved_prepend_size_ |-> g.reserved_prepend_size_,
     buffer_ |-> [i \in 0 .. n - 1 |->
                    IF g.reserved_prepend_size_ <= i /\ i < g.reserved_prepend_size_ + Length(g)
                    THEN g.buffer_[g.read_index_ + (i - g.reserved_prepend_size_)] ELSE rest[i]]]

\* A new array, or the data moved to the front of this one.
Grow(g, len) ==
    IF WritableBytes(g) + PrependableBytes(g) < len + g.reserved_prepend_size_
    THEN Placed(g, 2 * g.capacity_ + len, NewArray(2 * g.capacity_ + len))
    ELSE Placed(g, g.capacity_, g.buffer_)

EnsureWritable(g, len) == IF WritableBytes(g) < len THEN Grow(g, len) ELSE g

\* memcpy() to writeBegin() and the write index moved.
Copied(g, d) ==
    [g EXCEPT !.write_index_ = @ + Len(d),
              !.buffer_ = [i \in 0 .. g.capacity_ - 1 |->
                             IF g.write_index_ <= i /\ i < g.write_index_ + Len(d)
                             THEN d[i - g.write_index_ + 1] ELSE @[i]]]

Reset(g) == [g EXCEPT !.read_index_ = g.reserved_prepend_size_, !.write_index_ = g.reserved_prepend_size_]

Skipped(g, n) == IF n < Length(g) THEN [g EXCEPT !.read_index_ = @ + n] ELSE Reset(g)

(***************************************************************************)
(* The operations                                                           *)
(***************************************************************************)
Becomes(g) == g.capacity_ <= MaxCapacity /\ b' = g

\* write() and append(), with room = Len(d); appendNumberToStr() and the TLS
\* read ensure more room than they fill.
Write(d, room) ==
    /\ Len(d) <= room
    /\ Becomes(Copied(EnsureWritable(b, room), d)) /\ content' = content \o d /\ lastRead' = <<>>

\* readv() into the writable bytes and then into extrabuf, which is appended.
ReadFromFd(d) ==
    /\ IF Len(d) <= WritableBytes(b) THEN Becomes(Copied(b, d))
       ELSE LET full == Copied(b, SubSeq(d, 1, WritableBytes(b)))
                extra == SubSeq(d, WritableBytes(b) + 1, Len(d))
            IN  Becomes(Copied(EnsureWritable(full, Len(extra)), extra))
    /\ content' = content \o d /\ lastRead' = <<>>

\* prepend(), whose assertion is the guard.
Prepend(d) ==
    LET r == b.read_index_ - Len(d) IN
    /\ Len(d) <= PrependableBytes(b)
    /\ b' = [b EXCEPT !.read_index_ = r,
                      !.buffer_ = [i \in 0 .. b.capacity_ - 1 |-> IF r <= i /\ i < r + Len(d) THEN d[i - r + 1] ELSE @[i]]]
    /\ content' = d \o content /\ lastRead' = <<>>

\* skip(), retrieve(), next() and the readInt functions.  Reading everything
\* resets the indexes, and then nothing can be unread.
Skip(n) ==
    /\ b' = Skipped(b, n)
    /\ IF n < Length(b)
       THEN content' = SubSeq(content, n + 1, Len(content)) /\ lastRead' = SubSeq(content, 1, n)
       ELSE content' = <<>> /\ lastRead' = <<>>

ReadByte ==
    /\ Length(b) >= 1
    /\ b' = [b EXCEPT !.read_index_ = @ + 1]
    /\ content' = Tail(content) /\ lastRead' = <<Head(content)>>

UnreadBytes(n) ==
    /\ n < b.read_index_ /\ n <= Len(lastRead)
    /\ b' = [b EXCEPT !.read_index_ = @ - n]
    /\ content' = SubSeq(lastRead, Len(lastRead) - n + 1, Len(lastRead)) \o content
    /\ lastRead' = SubSeq(lastRead, 1, Len(lastRead) - n)

\* truncate(), reset() and clear().
Truncate(n) ==
    /\ b' = IF n = 0 THEN Reset(b)
            ELSE IF b.write_index_ > b.read_index_ + n THEN [b EXCEPT !.write_index_ = b.read_index_ + n] ELSE b
    /\ content' = IF n < Len(content) THEN SubSeq(content, 1, n) ELSE content
    /\ lastRead' = <<>>

\* unwriteBytes(); toText() is a write of one byte and this.
UnwriteBytes(n) ==
    /\ n <= Length(b)
    /\ b' = [b EXCEPT !.write_index_ = @ - n]
    /\ content' = SubSeq(content, 1, Len(content) - n) /\ lastRead' = <<>>

Reserve(len) ==
    /\ b.capacity_ < len + b.reserved_prepend_size_
    /\ Becomes(Grow(b, len + b.reserved_prepend_size_)) /\ UNCHANGED content /\ lastRead' = <<>>

Shrink(reserve) ==
    /\ Becomes(Copied(EnsureWritable(NewBuffer(Length(b) + reserve, b.reserved_prepend_size_), Length(b)), Readable(b)))
    /\ UNCHANGED content /\ lastRead' = <<>>

Reinit == b' = NewBuffer(kInitialSize, kCheapPrependSize) /\ content' = <<>> /\ lastRead' = <<>>

\* The buffer that was moved from is used again.
MoveFrom == b' = NewBuffer(0, 0) /\ content' = <<>> /\ lastRead' = <<>>

\* A copy goes on in the buffer's place: only the readable bytes were copied.
Copy ==
    /\ b' = [b EXCEPT !.buffer_ = [i \in 0 .. b.capacity_ - 1 |->
                                     IF b.read_index_ <= i /\ i < b.write_index_ THEN @[i] ELSE Junk_byte]]
    /\ UNCHANGED content /\ lastRead' = <<>>

BufferNext ==
    \/ \E d \in UNION {[1 .. n -> Byte] : n \in 1 .. MaxWrite} :
          Write(d, Len(d)) \/ Write(d, MaxWrite) \/ ReadFromFd(d) \/ Prepend(d)
    \/ \E n \in 0 .. MaxWrite : Skip(n) \/ UnreadBytes(n) \/ Truncate(n) \/ UnwriteBytes(n) \/ Reserve(n) \/ Shrink(n)
    \/ ReadByte \/ Reinit \/ MoveFrom \/ Copy

BufferSpec == BufferInit /\ [][BufferNext]_bufferVars

(***************************************************************************)
(* Properties                                                               *)
(***************************************************************************)
\* The indexes stay in order inside the array, and a move of the data to the
\* front has room for what is reserved (the assertions of Buffer.hpp).
IndexesInOrder ==
    /\ b.read_index_ \in 0 .. b.write_index_ /\ b.write_index_ \in 0 .. b.capacity_
    /\ b.reserved_prepend_size_ \in 0 .. b.capacity_
    /\ DOMAIN b.buffer_ = 0 .. b.capacity_ - 1

\* Whatever grows, moves, copies or shrinks the array, the bytes to read are
\* the ones written and not yet read.
HoldsItsContent == Readable(b) = content

\* What can be unread is still in the array, before the read index.
UnreadIsThere ==
    /\ Len(lastRead) <= b.read_index_
    /\ \A i \in 1 .. Len(lastRead) : b.buffer_[b.read_index_ - Len(lastRead) + i - 1] = lastRead[i]
=============================================================================
