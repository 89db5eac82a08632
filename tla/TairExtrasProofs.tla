-------------------------- MODULE TairExtrasProofs ---------------------------
(* Transactions, the cluster's fan-out and subscriptions: for any number of *)
(* calls, losses and nodes, and any interleaving of user, loop and server.    *)
EXTENDS MCTairExtras, SequenceTheorems, FiniteSetTheorems, FunctionTheorems, TLAPS

(***************************************************************************)
(* TairTransactionClient                                                   *)
(***************************************************************************)
\* The commands, and the ones that make up a batch.
Ids == 1 .. MaxCommands
TxCommands == [op : {"data"}, id : Ids, of : Seq(Ids)]
              \cup [op : {"multi", "exec", "discard", "watch", "unwatch"}, id : {0}, of : Seq(Ids)]
Inner == {"multi", "data"}
\* Command b comes next in a batch when the data commands d have been.
Continues(d, b) ==
    /\ b.op \in {"multi", "data", "exec"}
    /\ b.of = IF b.op = "data" THEN Append(d, b.id) ELSE d
IsTail(s, t) == Len(s) <= Len(t) /\ \A i \in 1 .. Len(s) : s[i] = t[Len(t) - Len(s) + i]

\* cmd_stack_ is a batch that waits for its EXEC.
StackOK ==
    /\ \A k \in 1 .. Len(cmd_stack_) : cmd_stack_[k].op \in Inner
    /\ \A k \in 1 .. Len(cmd_stack_) - 1 : Continues(cmd_stack_[k].of, cmd_stack_[k + 1])
    /\ cmd_stack_ # <<>> => /\ cmd_stack_[1].op = "multi" /\ cmd_stack_[1].of = <<>>
                            /\ cmd_stack_[Len(cmd_stack_)].of = batch
    /\ cmd_stack_ = <<>> => batch = <<>> /\ ~open

\* A stream of commands ends between two batches.
Stream(z) == \A k \in 1 .. Len(z) : z[k].op \in Inner => k < Len(z) /\ Continues(z[k].of, z[k + 1])
\* A stream that nothing is missing from: every batch begins with its MULTI.
Fresh(z, in) ==
    \A k \in 1 .. Len(z) :
        /\ z[k].op = "data" => (k = 1 /\ in) \/ (k > 1 /\ z[k - 1].op \in Inner)
        /\ z[k].op = "multi" => z[k].of = <<>> \/ (k = 1 /\ in) \/ (k > 1 /\ z[k - 1].op \in Inner)
\* What the server has queued in its transaction when c is the next command.
Collected(q, c) == \E d \in Seq(Ids) : Continues(d, c) /\ IsTail(q, d) /\ (onLoop => q = d)
ServerOK(z) ==
    /\ inMulti => z # <<>> /\ Collected(queued, z[1])
    /\ ~inMulti => queued = <<>>

TxTypes ==
    /\ onLoop \in BOOLEAN /\ open \in BOOLEAN /\ tx_up \in BOOLEAN /\ inMulti \in BOOLEAN
    /\ queued \in Seq(Ids) /\ outside \subseteq Ids /\ batch \in Seq(Ids) /\ appended \in 0 .. MaxCommands
    /\ cmd_stack_ \in Seq(TxCommands) /\ functors \in Seq(TxCommands) /\ wire \in Seq(TxCommands)
    /\ onLoop => functors = <<>>
    /\ ~tx_up => wire = <<>> /\ ~inMulti

TxInv ==
    /\ TxTypes /\ StackOK /\ Stream(wire \o functors) /\ ServerOK(wire \o functors)
    /\ onLoop => Fresh(wire, inMulti) /\ outside = {}

\* Appending one command to a batch and to its end.
LEMMA TailAppend ==
    ASSUME NEW s \in Seq(Ids), NEW t \in Seq(Ids), NEW e \in Ids, IsTail(s, t)
    PROVE  IsTail(Append(s, e), Append(t, e)) /\ Append(s, e) \in Seq(Ids)
<1>1. /\ Len(s) \in Nat /\ Len(t) \in Nat
      /\ Len(Append(s, e)) = Len(s) + 1 /\ Len(Append(t, e)) = Len(t) + 1
      /\ Append(s, e) \in Seq(Ids)
  BY AppendProperties, LenProperties
<1>2. \A i \in 1 .. Len(s) + 1 : Append(s, e)[i] = IF i <= Len(s) THEN s[i] ELSE e
  BY <1>1, AppendProperties
<1>3. \A i \in 1 .. Len(t) + 1 : Append(t, e)[i] = IF i <= Len(t) THEN t[i] ELSE e
  BY <1>1, AppendProperties
<1>4. ASSUME NEW i \in 1 .. Len(s) + 1
      PROVE  Append(s, e)[i] = Append(t, e)[Len(t) + 1 - (Len(s) + 1) + i]
  <2> DEFINE j == Len(t) + 1 - (Len(s) + 1) + i
  <2>1. j \in 1 .. Len(t) + 1 /\ j = Len(t) - Len(s) + i /\ (j <= Len(t) <=> i <= Len(s))
    BY <1>1 DEF IsTail
  <2> HIDE DEF j
  <2>2. CASE i <= Len(s)
    <3>1. s[i] = t[j]
      BY <1>1, <2>1, <2>2 DEF IsTail
    <3> QED BY <1>2, <1>3, <2>1, <2>2, <3>1 DEF j
  <2>3. CASE ~(i <= Len(s))
    BY <1>2, <1>3, <2>1, <2>3 DEF j
  <2> QED BY <2>2, <2>3
<1> QED BY <1>1, <1>4 DEF IsTail

\* IsTail is the IsSuffix of the community modules.
LEMMA TailIsSuffix ==
    ASSUME NEW s \in Seq(Ids), NEW t \in Seq(Ids), IsTail(s, t)
    PROVE  IsSuffix(s, t)
<1> DEFINE u == Reverse(s)
           v == Reverse(t)
<1>1. Len(s) \in Nat /\ Len(t) \in Nat /\ Len(s) <= Len(t)
  BY LenProperties DEF IsTail
<1>2. /\ u = [i \in 1 .. Len(s) |-> s[(Len(s) - i) + 1]] /\ u \in Seq(Ids) /\ Len(u) = Len(s)
  BY <1>1 DEF Reverse
<1>3. /\ v = [i \in 1 .. Len(t) |-> t[(Len(t) - i) + 1]] /\ v \in Seq(Ids) /\ Len(v) = Len(t)
  BY <1>1 DEF Reverse
<1>4. ASSUME NEW i \in 1 .. Len(s) PROVE u[i] = v[i]
  <2>1. (Len(s) - i) + 1 \in 1 .. Len(s) /\ i \in 1 .. Len(t)
    BY <1>1
  <2>2. s[(Len(s) - i) + 1] = t[Len(t) - Len(s) + ((Len(s) - i) + 1)]
    BY <2>1 DEF IsTail
  <2>3. Len(t) - Len(s) + ((Len(s) - i) + 1) = (Len(t) - i) + 1
    BY <1>1
  <2> QED BY <1>2, <1>3, <2>1, <2>2, <2>3
<1> HIDE DEF u, v
<1>5. SubSeq(u, 1, Len(s)) = SubSeq(v, 1, Len(s))
  <2>1. SubSeq(u, 1, Len(s)) = [i \in 1 .. Len(s) |-> u[i]]
    BY <1>1, <1>2
  <2>2. SubSeq(v, 1, Len(s)) = [i \in 1 .. Len(s) |-> v[i]]
    BY <1>1, <1>3
  <2> QED BY <1>4, <2>1, <2>2
<1>6. IsPrefix(u, v)
  BY <1>1, <1>2, <1>3, <1>5 DEF IsPrefix
<1> QED BY <1>6 DEF IsSuffix, u, v

\* The first command of a stream and the rest.
LEMMA HeadOfStream ==
    ASSUME NEW z \in Seq(TxCommands), z # <<>>
    PROVE  /\ Len(z) \in Nat /\ Len(z) >= 1 /\ Head(z) = z[1] /\ Head(z) \in TxCommands
           /\ Tail(z) \in Seq(TxCommands) /\ Len(Tail(z)) = Len(z) - 1
           /\ \A k \in 1 .. Len(z) - 1 : Tail(z)[k] = z[k + 1]
           /\ Len(z) > 1 => Tail(z) # <<>>
<1>1. Len(z) \in Nat /\ Len(z) >= 1 /\ Head(z) = z[1]
  BY LenProperties, EmptySeq
<1>2. /\ Head(z) \in TxCommands /\ Tail(z) \in Seq(TxCommands) /\ Len(Tail(z)) = Len(z) - 1
      /\ \A k \in 1 .. Len(z) - 1 : Tail(z)[k] = z[k + 1]
  BY <1>1, HeadTailProperties
<1>3. Len(z) > 1 => Tail(z) # <<>>
  <2> DEFINE t == Tail(z)
  <2>1. Len(t) = Len(z) - 1
    BY <1>2
  <2> HIDE DEF t
  <2>2. Len(z) > 1 => t # <<>>
    BY <1>1, <2>1
  <2> QED BY <2>2 DEF t
<1> QED BY <1>1, <1>2, <1>3

\* The rest of a stream is a stream, and goes on with the batch it was in.
LEMMA StreamTail ==
    ASSUME NEW z \in Seq(TxCommands), z # <<>>, Stream(z)
    PROVE  /\ Stream(Tail(z))
           /\ Head(z).op \in Inner => Tail(z) # <<>> /\ Continues(Head(z).of, Tail(z)[1])
<1> DEFINE t == Tail(z)
<1>1. /\ Len(z) \in Nat /\ Len(z) >= 1 /\ Head(z) = z[1] /\ Len(t) = Len(z) - 1
      /\ \A k \in 1 .. Len(z) - 1 : t[k] = z[k + 1]
      /\ Len(z) > 1 => t # <<>>
  BY HeadOfStream
<1> HIDE DEF t
<1>2. ASSUME NEW k \in 1 .. Len(t), t[k].op \in Inner PROVE k < Len(t) /\ Continues(t[k].of, t[k + 1])
  <2>1. k + 1 \in 1 .. Len(z) /\ t[k] = z[k + 1]
    BY <1>1
  <2>2. k + 1 < Len(z) /\ Continues(z[k + 1].of, z[k + 1 + 1])
    BY <1>2, <2>1 DEF Stream
  <2>3. k + 1 \in 1 .. Len(z) - 1
    BY <1>1, <2>2
  <2> QED BY <1>1, <2>1, <2>2, <2>3
<1>3. ASSUME z[1].op \in Inner PROVE t # <<>> /\ Continues(z[1].of, t[1])
  <2>1. 1 < Len(z) /\ Continues(z[1].of, z[1 + 1])
    BY <1>1, <1>3 DEF Stream
  <2>2. 1 \in 1 .. Len(z) - 1
    BY <1>1, <2>1
  <2> QED BY <1>1, <2>1, <2>2
<1> QED BY <1>1, <1>2, <1>3 DEF t, Stream

\* A stream after a stream is a stream.
LEMMA StreamJoin ==
    ASSUME NEW z \in Seq(TxCommands), NEW c \in Seq(TxCommands), Stream(z), Stream(c)
    PROVE  /\ Stream(z \o c) /\ z \o c \in Seq(TxCommands)
           /\ z # <<>> => z \o c # <<>> /\ (z \o c)[1] = z[1]
           /\ \A in : Fresh(z, in) /\ Fresh(c, FALSE) => Fresh(z \o c, in)
<1> DEFINE u == z \o c
<1>1. /\ Len(z) \in Nat /\ Len(c) \in Nat /\ u \in Seq(TxCommands) /\ Len(u) = Len(z) + Len(c)
      /\ \A k \in 1 .. Len(u) : u[k] = IF k <= Len(z) THEN z[k] ELSE c[k - Len(z)]
  BY ConcatProperties, LenProperties
<1> HIDE DEF u
<1>2. \A k \in 1 .. Len(z) : k \in 1 .. Len(u) /\ u[k] = z[k]
  BY <1>1
<1>3. \A k \in 1 .. Len(c) : k + Len(z) \in 1 .. Len(u) /\ u[k + Len(z)] = c[k]
  <2> TAKE k \in 1 .. Len(c)
  <2>1. k + Len(z) \in 1 .. Len(u) /\ ~(k + Len(z) <= Len(z)) /\ k + Len(z) - Len(z) = k
    BY <1>1
  <2> QED BY <1>1, <2>1
<1>4. \A k \in 1 .. Len(u) : k \in 1 .. Len(z) \/ \E j \in 1 .. Len(c) : k = j + Len(z)
  <2> TAKE k \in 1 .. Len(u)
  <2>1. k \in 1 .. Len(z) \/ (k - Len(z) \in 1 .. Len(c) /\ k = (k - Len(z)) + Len(z))
    BY <1>1
  <2> QED BY <2>1
<1>5. ASSUME NEW k \in 1 .. Len(u), u[k].op \in Inner PROVE k < Len(u) /\ Continues(u[k].of, u[k + 1])
  <2>1. CASE k \in 1 .. Len(z)
    <3>1. k < Len(z) /\ Continues(z[k].of, z[k + 1])
      BY <1>2, <1>5, <2>1 DEF Stream
    <3>2. k + 1 \in 1 .. Len(z)
      BY <1>1, <3>1
    <3> QED BY <1>1, <1>2, <2>1, <3>1, <3>2
  <2>2. ASSUME NEW j \in 1 .. Len(c), k = j + Len(z) PROVE k < Len(u) /\ Continues(u[k].of, u[k + 1])
    <3>1. j < Len(c) /\ Continues(c[j].of, c[j + 1])
      BY <1>3, <1>5, <2>2 DEF Stream
    <3>2. j + 1 \in 1 .. Len(c) /\ k + 1 = (j + 1) + Len(z)
      <4>1. Len(z) \in Nat /\ Len(c) \in Nat /\ j < Len(c) /\ j \in 1 .. Len(c) /\ k = j + Len(z)
        BY <1>1, <2>2, <3>1, Zenon
      <4> QED BY ONLY <4>1
    <3>3. u[k] = c[j] /\ u[k + 1] = c[j + 1]
      <4>1. u[j + Len(z)] = c[j] /\ u[(j + 1) + Len(z)] = c[j + 1]
        BY <1>3, <2>2, <3>2, Zenon
      <4> QED BY <2>2, <3>2, <4>1, Zenon
    <3>4. k < Len(u)
      BY <1>1, <2>2, <3>1
    <3> QED BY <3>1, <3>3, <3>4, Zenon
  <2> QED BY <1>4, <2>1, <2>2
<1>6. ASSUME z # <<>> PROVE u # <<>> /\ u[1] = z[1]
  <2>1. 1 \in 1 .. Len(z)
    BY <1>1, <1>6, EmptySeq
  <2> QED BY <1>1, <1>2, <2>1
<1>7. ASSUME NEW in, Fresh(z, in), Fresh(c, FALSE) PROVE Fresh(u, in)
  <2>1. ASSUME NEW k \in 1 .. Len(u)
        PROVE  /\ u[k].op = "data" => (k = 1 /\ in) \/ (k > 1 /\ u[k - 1].op \in Inner)
               /\ u[k].op = "multi" => u[k].of = <<>> \/ (k = 1 /\ in) \/ (k > 1 /\ u[k - 1].op \in Inner)
    <3>1. CASE k \in 1 .. Len(z)
      <4>1. k > 1 => k - 1 \in 1 .. Len(z)
        BY <1>1, <3>1
      <4> QED BY <1>2, <1>7, <3>1, <4>1 DEF Fresh
    <3>2. ASSUME NEW j \in 1 .. Len(c), k = j + Len(z)
          PROVE  /\ u[k].op = "data" => (k = 1 /\ in) \/ (k > 1 /\ u[k - 1].op \in Inner)
                 /\ u[k].op = "multi" => u[k].of = <<>> \/ (k = 1 /\ in) \/ (k > 1 /\ u[k - 1].op \in Inner)
      <4>1. /\ c[j].op = "data" => j > 1 /\ c[j - 1].op \in Inner
            /\ c[j].op = "multi" => c[j].of = <<>> \/ (j > 1 /\ c[j - 1].op \in Inner)
        BY <1>7 DEF Fresh
      <4>2. u[k] = c[j]
        BY <1>3, <3>2
      <4>3. ASSUME j > 1 PROVE k > 1 /\ u[k - 1] = c[j - 1]
        <5>1. j - 1 \in 1 .. Len(c) /\ k - 1 = (j - 1) + Len(z) /\ k > 1
          BY <1>1, <3>2, <4>3
        <5> QED BY <1>3, <5>1
      <4> QED BY <4>1, <4>2, <4>3
    <3> QED BY <1>4, <3>1, <3>2
  <2> QED BY <2>1 DEF Fresh
<1> QED BY <1>1, <1>5, <1>6, <1>7 DEF u, Stream

\* Nothing is missing from the rest either.
LEMMA FreshTail ==
    ASSUME NEW z \in Seq(TxCommands), z # <<>>, NEW in, Fresh(z, in)
    PROVE  Fresh(Tail(z), Head(z).op \in Inner)
<1> DEFINE t == Tail(z)
<1>1. /\ Len(z) \in Nat /\ Len(z) >= 1 /\ Head(z) = z[1] /\ Len(t) = Len(z) - 1
      /\ \A k \in 1 .. Len(z) - 1 : t[k] = z[k + 1]
  BY HeadOfStream
<1> HIDE DEF t
<1>2. ASSUME NEW k \in 1 .. Len(t)
      PROVE  /\ t[k].op = "data" => (k = 1 /\ z[1].op \in Inner) \/ (k > 1 /\ t[k - 1].op \in Inner)
             /\ t[k].op = "multi" => t[k].of = <<>> \/ (k = 1 /\ z[1].op \in Inner) \/ (k > 1 /\ t[k - 1].op \in Inner)
  <2>1. k + 1 \in 1 .. Len(z) /\ k + 1 > 1 /\ k + 1 # 1 /\ t[k] = z[k + 1] /\ (k + 1) - 1 = k
    BY <1>1
  <2>2. /\ z[k + 1].op = "data" => z[k].op \in Inner
        /\ z[k + 1].op = "multi" => z[k + 1].of = <<>> \/ z[k].op \in Inner
    BY <2>1 DEF Fresh
  <2>3. k > 1 => t[k - 1] = z[k]
    <3>1. k > 1 => k - 1 \in 1 .. Len(z) - 1 /\ (k - 1) + 1 = k
      BY <1>1
    <3> QED BY <1>1, <3>1
  <2>4. k = 1 \/ k > 1
    BY <1>1
  <2> QED BY <2>1, <2>2, <2>3, <2>4
<1> QED BY <1>1, <1>2 DEF t, Fresh

\* Commands sent together: the stream of the connection and what is queued for it.
LEMMA SendStep ==
    ASSUME TxInv, NEW c \in Seq(TxCommands), SendAll(c), Stream(c), Fresh(c, FALSE),
           UNCHANGED <<onLoop, tx_up, inMulti, queued, outside>>
    PROVE  /\ wire' \in Seq(TxCommands) /\ functors' \in Seq(TxCommands)
           /\ onLoop => functors' = <<>> /\ Fresh(wire', inMulti')
           /\ ~tx_up => wire' = <<>>
           /\ Stream(wire' \o functors') /\ ServerOK(wire \o functors)'
<1> DEFINE z == wire \o functors
<1>a. /\ wire \in Seq(TxCommands) /\ functors \in Seq(TxCommands) /\ (onLoop => functors = <<>>) /\ (~tx_up => wire = <<>>)
      /\ z \in Seq(TxCommands) /\ Stream(z) /\ ServerOK(z) /\ (onLoop => Fresh(wire, inMulti))
  BY ConcatProperties DEF TxInv, TxTypes
<1>1. ASSUME wire' \o functors' = z \o c
      PROVE  Stream(wire' \o functors') /\ ServerOK(wire \o functors)'
  <2>1. Stream(z \o c) /\ (z # <<>> => z \o c # <<>> /\ (z \o c)[1] = z[1])
    BY <1>a, StreamJoin
  <2> HIDE DEF z
  <2>2. /\ inMulti => z \o c # <<>> /\ Collected(queued, (z \o c)[1])
        /\ ~inMulti => queued = <<>>
    BY <1>a, <2>1 DEF ServerOK
  <2>3. ServerOK(wire \o functors)'
    BY <1>1, <2>2, Zenon DEF ServerOK, Collected
  <2> QED BY <1>1, <2>1, <2>3, Zenon
<1>2. CASE ~onLoop
  <2>1. functors' = functors \o c /\ wire' = wire
    BY <1>2 DEF SendAll
  <2>2. functors \o c \in Seq(TxCommands)
    BY <1>a, ConcatProperties
  <2>3. wire \o (functors \o c) = (wire \o functors) \o c
    <3>1. wire \in Seq(TxCommands) /\ functors \in Seq(TxCommands) /\ c \in Seq(TxCommands)
      BY <1>a
    <3> QED BY ONLY <3>1, SMT
  <2> QED BY <1>1, <1>2, <1>a, <2>1, <2>2, <2>3
<1>3. CASE onLoop /\ tx_up
  <2>1. wire' = wire \o c /\ functors' = functors /\ functors = <<>>
    BY <1>3, <1>a DEF SendAll
  <2>2. wire \o c \in Seq(TxCommands) /\ (wire \o c) \o <<>> = wire \o c /\ wire \o <<>> = wire
    BY <1>a, ConcatProperties, ConcatEmptySeq
  <2>3. wire' \o functors' = z \o c
    BY <2>1, <2>2
  <2>4. Fresh(wire \o c, inMulti)
    <3>1. z = wire
      BY <2>1, <2>2
    <3>2. Stream(wire)
      BY <1>a, <3>1
    <3> QED BY <1>3, <1>a, <3>2, StreamJoin
  <2>5. Fresh(wire', inMulti')
    BY <2>1, <2>4, Zenon
  <2> QED BY <1>1, <1>3, <1>a, <2>1, <2>2, <2>3, <2>5
<1>4. CASE onLoop /\ ~tx_up
  <2>1. wire' = wire /\ functors' = functors
    BY <1>4 DEF SendAll
  <2>2. ServerOK(wire \o functors)'
    BY <1>a, <2>1 DEF ServerOK, Collected
  <2> QED BY <1>4, <1>a, <2>1, <2>2
<1> QED BY <1>2, <1>3, <1>4

\* The stack with its EXEC is a whole batch.
LEMMA BatchOfStack ==
    ASSUME TxInv, cmd_stack_ # <<>>, NEW e \in TxCommands, e.op = "exec", e.of = batch
    PROVE  /\ cmd_stack_ \o <<e>> \in Seq(TxCommands) /\ Stream(cmd_stack_ \o <<e>>) /\ Fresh(cmd_stack_ \o <<e>>, FALSE)
<1> DEFINE n == Len(cmd_stack_)
           c == cmd_stack_ \o <<e>>
<1>1. /\ n \in Nat /\ n >= 1 /\ cmd_stack_ \in Seq(TxCommands)
  BY LenProperties, EmptySeq DEF TxInv, TxTypes
<1>2. /\ c = Append(cmd_stack_, e) /\ c \in Seq(TxCommands) /\ Len(c) = n + 1 /\ c[n + 1] = e
      /\ \A k \in 1 .. n : c[k] = cmd_stack_[k]
  BY <1>1, AppendIsConcat, AppendProperties
<1>3. /\ \A k \in 1 .. n : cmd_stack_[k].op \in Inner
      /\ \A k \in 1 .. n - 1 : Continues(cmd_stack_[k].of, cmd_stack_[k + 1])
      /\ cmd_stack_[1].op = "multi" /\ cmd_stack_[1].of = <<>> /\ cmd_stack_[n].of = batch
  BY DEF TxInv, StackOK
<1> HIDE DEF n, c
<1>4. \A k \in 1 .. n : Continues(c[k].of, c[k + 1])
  <2> TAKE k \in 1 .. n
  <2>1. CASE k = n
    <3>1. c[k].of = batch /\ c[k + 1] = e
      BY <1>1, <1>2, <1>3, <2>1
    <3> QED BY <3>1 DEF Continues
  <2>2. CASE k # n
    <3>1. k \in 1 .. n - 1 /\ k + 1 \in 1 .. n
      BY <1>1, <2>2
    <3> QED BY <1>2, <1>3, <3>1
  <2> QED BY <2>1, <2>2
<1>5. Stream(c)
  <2>1. ASSUME NEW k \in 1 .. Len(c), c[k].op \in Inner PROVE k < Len(c) /\ Continues(c[k].of, c[k + 1])
    <3>1. k # n + 1
      BY <1>2, <2>1 DEF Inner
    <3>2. k \in 1 .. n
      BY <1>1, <1>2, <3>1
    <3> QED BY <1>1, <1>2, <1>4, <3>2
  <2> QED BY <2>1 DEF Stream
<1>6. Fresh(c, FALSE)
  <2>1. ASSUME NEW k \in 1 .. Len(c), c[k].op = "data" \/ c[k].op = "multi"
        PROVE  /\ c[k].op = "data" => k > 1 /\ c[k - 1].op \in Inner
               /\ c[k].op = "multi" => c[k].of = <<>> \/ (k > 1 /\ c[k - 1].op \in Inner)
    <3>1. CASE k = 1
      BY <1>1, <1>2, <1>3, <3>1
    <3>2. CASE k # 1
      <4>1. k > 1 /\ k - 1 \in 1 .. n
        BY <1>1, <1>2, <3>2
      <4> QED BY <1>2, <1>3, <4>1
    <3> QED BY <3>1, <3>2
  <2> QED BY <2>1 DEF Fresh
<1> QED BY <1>2, <1>5, <1>6 DEF c

\* multi() and the collecting of a data command keep the invariant.
LEMMA StackStep ==
    ASSUME TxInv, Multi \/ AppendCommand
    PROVE  TxInv'
<1>a. /\ cmd_stack_ \in Seq(TxCommands) /\ batch \in Seq(Ids) /\ appended \in 0 .. MaxCommands /\ MaxCommands \in Nat
      /\ Len(cmd_stack_) \in Nat /\ StackOK
  BY LenProperties, TransactionAssumption DEF TxInv, TxTypes
<1>1. ASSUME NEW e \in TxCommands, cmd_stack_' = Append(cmd_stack_, e), e.op \in Inner, Continues(batch, e), e.of = batch',
             cmd_stack_ = <<>> => e.op = "multi" /\ e.of = <<>>, batch' \in Seq(Ids), appended' \in 0 .. MaxCommands,
             open' \in BOOLEAN, UNCHANGED <<onLoop, functors, tx_up, wire, inMulti, queued, outside>>
      PROVE  TxInv'
  <2> DEFINE n == Len(cmd_stack_)
             c == Append(cmd_stack_, e)
  <2>1. /\ c \in Seq(TxCommands) /\ Len(c) = n + 1 /\ c[n + 1] = e /\ c # <<>> /\ n \in Nat
        /\ \A k \in 1 .. n : c[k] = cmd_stack_[k]
    BY <1>a, AppendProperties
  <2>2. cmd_stack_ # <<>> => n >= 1 /\ cmd_stack_[1].op = "multi" /\ cmd_stack_[1].of = <<>> /\ cmd_stack_[n].of = batch
    BY <1>a, EmptySeq DEF StackOK
  <2>3. cmd_stack_ = <<>> => n = 0
    OBVIOUS
  <2>4. /\ \A k \in 1 .. n : cmd_stack_[k].op \in Inner
        /\ \A k \in 1 .. n - 1 : Continues(cmd_stack_[k].of, cmd_stack_[k + 1])
    BY <1>a DEF StackOK
  <2>5. cmd_stack_' = c
    BY <1>1
  <2> HIDE DEF n, c
  <2>6. \A k \in 1 .. n + 1 : c[k].op \in Inner
    <3> TAKE k \in 1 .. n + 1
    <3>1. k = n + 1 \/ k \in 1 .. n
      BY <2>1
    <3> QED BY <1>1, <2>1, <2>4, <3>1
  <2>7. \A k \in 1 .. n : Continues(c[k].of, c[k + 1])
    <3> TAKE k \in 1 .. n
    <3>1. CASE k = n
      <4>1. cmd_stack_ # <<>>
        BY <2>1, <2>3
      <4>2. c[k].of = batch /\ c[k + 1] = e
        BY <2>1, <2>2, <3>1, <4>1
      <4> QED BY <1>1, <4>2
    <3>2. CASE k # n
      <4>1. k \in 1 .. n - 1 /\ k + 1 \in 1 .. n
        BY <2>1, <3>2
      <4> QED BY <2>1, <2>4, <4>1
    <3> QED BY <3>1, <3>2
  <2>8. c[1].op = "multi" /\ c[1].of = <<>>
    <3>1. CASE cmd_stack_ = <<>>
      BY <1>1, <2>1, <2>3, <3>1
    <3>2. CASE cmd_stack_ # <<>>
      BY <2>1, <2>2, <3>2
    <3> QED BY <3>1, <3>2
  <2>9. StackOK'
    <3>1. Len(c) = n + 1 /\ n + 1 - 1 = n
      BY <2>1
    <3> QED BY <1>1, <2>1, <2>5, <2>6, <2>7, <2>8, <3>1 DEF StackOK
  <2>10. TxTypes'
    BY <1>1, <2>1, <2>5 DEF TxInv, TxTypes
  <2>11. ServerOK(wire \o functors)' /\ Stream(wire \o functors)'
    BY <1>1 DEF TxInv, ServerOK, Collected
  <2> QED BY <1>1, <2>9, <2>10, <2>11 DEF TxInv
<1>2. CASE Multi
  <2> DEFINE e == Command("multi", 0, batch)
  <2>1. e \in TxCommands /\ e.op = "multi" /\ e.of = batch
    BY <1>a DEF Command, TxCommands
  <2>2. /\ cmd_stack_' = Append(cmd_stack_, e) /\ batch' = batch /\ appended' = appended /\ open' = TRUE
        /\ UNCHANGED <<onLoop, functors, tx_up, wire, inMulti, queued, outside>>
    BY <1>2 DEF Multi, serverVars
  <2> HIDE DEF e
  <2>3. cmd_stack_ = <<>> => batch = <<>>
    BY <1>a DEF StackOK
  <2> QED BY <1>1, <1>a, <2>1, <2>2, <2>3 DEF Continues, Inner
<1>3. CASE AppendCommand
  <2> DEFINE b == Append(batch, appended + 1)
             e == Command("data", appended + 1, b)
  <2>1. open /\ appended < MaxCommands /\ appended + 1 \in Ids /\ appended + 1 \in 0 .. MaxCommands
    BY <1>3, <1>a DEF AppendCommand, Ids
  <2>2. b \in Seq(Ids)
    BY <1>a, <2>1, AppendProperties
  <2>3. e \in TxCommands /\ e.op = "data" /\ e.of = b /\ e.id = appended + 1
    BY <2>1, <2>2 DEF Command, TxCommands
  <2>4. /\ cmd_stack_' = Append(cmd_stack_, e) /\ batch' = b /\ appended' = appended + 1 /\ UNCHANGED open
        /\ UNCHANGED <<onLoop, functors, tx_up, wire, inMulti, queued, outside>>
    BY <1>3 DEF AppendCommand, serverVars
  <2>5. cmd_stack_ # <<>> /\ open' \in BOOLEAN
    BY <1>a, <2>1, <2>4 DEF StackOK
  <2>6. Continues(batch, e)
    BY <2>3 DEF Continues
  <2> HIDE DEF e, b
  <2> QED BY <1>1, <2>1, <2>2, <2>3, <2>4, <2>5, <2>6 DEF Inner
<1> QED BY <1>2, <1>3

\* exec(), discard(), watch() and unwatch() keep it.
LEMMA CallStep ==
    ASSUME TxInv, Exec \/ Discard \/ \E op \in {"watch", "unwatch"} : Watch(op)
    PROVE  TxInv'
<1>1. ASSUME NEW c \in Seq(TxCommands), SendAll(c), Stream(c), Fresh(c, FALSE),
             UNCHANGED <<onLoop, tx_up, inMulti, queued, outside, appended>>, StackOK', open' \in BOOLEAN,
             cmd_stack_' \in Seq(TxCommands), batch' \in Seq(Ids)
      PROVE  TxInv'
  <2>1. /\ wire' \in Seq(TxCommands) /\ functors' \in Seq(TxCommands)
        /\ onLoop => functors' = <<>> /\ Fresh(wire', inMulti')
        /\ ~tx_up => wire' = <<>>
        /\ Stream(wire' \o functors') /\ ServerOK(wire \o functors)'
    <3> HIDE DEF TxInv
    <3> QED BY <1>1, SendStep
  <2>2. TxTypes'
    BY <1>1, <2>1 DEF TxInv, TxTypes
  <2> QED BY <1>1, <2>1, <2>2 DEF TxInv
<1>2. ASSUME NEW op \in {"discard", "watch", "unwatch"}
      PROVE  <<Plainly(op)>> \in Seq(TxCommands) /\ Stream(<<Plainly(op)>>) /\ Fresh(<<Plainly(op)>>, FALSE)
  <2>1. <<>> \in Seq(Ids)
    OBVIOUS
  <2>2. Plainly(op) \in TxCommands /\ Plainly(op).op = op
    BY <2>1 DEF Plainly, Command, TxCommands
  <2>3. op \notin Inner /\ op # "data" /\ op # "multi"
    BY DEF Inner
  <2> DEFINE e == Plainly(op)
  <2> HIDE DEF e
  <2>4. <<e>> \in Seq(TxCommands) /\ Len(<<e>>) = 1 /\ <<e>>[1] = e
    BY <2>2 DEF e
  <2>5. Stream(<<e>>) /\ Fresh(<<e>>, FALSE)
    BY <2>2, <2>3, <2>4 DEF e, Stream, Fresh
  <2> QED BY <2>4, <2>5 DEF e
<1>3. CASE Exec
  <2> DEFINE e == Command("exec", 0, batch)
  <2>1. e \in TxCommands /\ e.op = "exec" /\ e.of = batch
    BY DEF Command, TxCommands, TxInv, TxTypes
  <2>2. cmd_stack_ # <<>>
    BY <1>3 DEF Exec, TxInv, StackOK
  <2>3. /\ SendAll(cmd_stack_ \o <<e>>) /\ UNCHANGED <<onLoop, tx_up, inMulti, queued, outside, appended>>
        /\ open' = FALSE /\ cmd_stack_' = <<>> /\ batch' = <<>>
    BY <1>3 DEF Exec, serverVars
  <2> HIDE DEF e
  <2>4. cmd_stack_ \o <<e>> \in Seq(TxCommands) /\ Stream(cmd_stack_ \o <<e>>) /\ Fresh(cmd_stack_ \o <<e>>, FALSE)
    <3> HIDE DEF TxInv
    <3> QED BY <2>1, <2>2, BatchOfStack
  <2>5. StackOK' /\ cmd_stack_' \in Seq(TxCommands) /\ batch' \in Seq(Ids)
    BY <2>3 DEF StackOK
  <2> QED BY <1>1, <2>3, <2>4, <2>5
<1>4. ASSUME NEW op \in {"discard", "watch", "unwatch"}, SendAll(<<Plainly(op)>>),
             UNCHANGED <<onLoop, tx_up, inMulti, queued, outside, appended, cmd_stack_, batch>>,
             open' \in BOOLEAN, open' => open
      PROVE  TxInv'
  <2>1. StackOK' /\ cmd_stack_' \in Seq(TxCommands) /\ batch' \in Seq(Ids)
    BY <1>4 DEF TxInv, TxTypes, StackOK
  <2> QED BY <1>1, <1>2, <1>4, <2>1
<1>5. CASE Discard
  BY <1>4, <1>5 DEF Discard, serverVars
<1>6. ASSUME NEW op \in {"watch", "unwatch"}, Watch(op) PROVE TxInv'
  <2>1. open \in BOOLEAN
    BY DEF TxInv, TxTypes
  <2> QED BY <1>4, <1>6, <2>1 DEF Watch, serverVars
<1> QED BY <1>3, <1>5, <1>6

\* A functor that sends its command, or drops it on a dead connection, keeps it.
LEMMA FunctorStep ==
    ASSUME TxInv, RunFunctor
    PROVE  TxInv'
<1> DEFINE e == Head(functors)
           t == Tail(functors)
<1>a. /\ wire \in Seq(TxCommands) /\ functors \in Seq(TxCommands) /\ functors # <<>>
      /\ functors' = t /\ wire' = IF tx_up THEN Append(wire, e) ELSE wire
      /\ UNCHANGED <<onLoop, open, cmd_stack_, batch, appended, tx_up, inMulti, queued, outside>>
      /\ ~onLoop /\ Stream(wire \o functors) /\ ServerOK(wire \o functors)
  BY DEF TxInv, TxTypes, RunFunctor, userVars, serverVars
<1>b. e \in TxCommands /\ t \in Seq(TxCommands)
  BY <1>a, HeadOfStream
<1>c. StackOK'
  BY <1>a DEF TxInv, StackOK
<1>1. CASE tx_up
  <2>1. wire' = Append(wire, e)
    BY <1>1, <1>a
  <2>2. Append(wire, e) \in Seq(TxCommands)
    BY <1>a, <1>b, AppendProperties
  <2>3. Append(wire, e) \o t = wire \o functors
    <3>1. functors = <<e>> \o t /\ <<e>> \in Seq(TxCommands)
      BY <1>a, <1>b
    <3>2. Append(wire, e) = wire \o <<e>>
      BY <1>a, <1>b, AppendIsConcat
    <3> HIDE DEF e, t
    <3>3. (wire \o <<e>>) \o t = wire \o (<<e>> \o t)
      <4>1. wire \in Seq(TxCommands) /\ t \in Seq(TxCommands)
        BY <1>a, <1>b
      <4> QED BY ONLY <3>1, <4>1, SMT
    <3> QED BY <3>1, <3>2, <3>3
  <2>4. wire' \o functors' = wire \o functors
    BY <1>a, <2>1, <2>3
  <2>5. Stream(wire \o functors)' /\ ServerOK(wire \o functors)'
    BY <1>a, <2>4, Zenon DEF ServerOK, Collected
  <2>6. TxTypes'
    BY <1>1, <1>a, <1>b, <2>1, <2>2 DEF TxInv, TxTypes
  <2> QED BY <1>a, <1>c, <2>5, <2>6 DEF TxInv
<1>2. CASE ~tx_up
  <2>1. wire = <<>> /\ wire' = <<>> /\ ~inMulti /\ <<>> \o functors = functors /\ <<>> \o t = t
    BY <1>2, <1>a, <1>b, ConcatEmptySeq DEF TxInv, TxTypes
  <2>2. Stream(t)
    BY <1>a, <2>1, StreamTail
  <2>3. Stream(wire \o functors)'
    BY <1>a, <2>1, <2>2, Zenon
  <2>4. ServerOK(wire \o functors)'
    BY <1>a, <2>1 DEF ServerOK
  <2>5. TxTypes'
    BY <1>2, <1>a, <1>b, <2>1 DEF TxInv, TxTypes
  <2> QED BY <1>a, <1>c, <2>3, <2>4, <2>5 DEF TxInv
<1> QED BY <1>1, <1>2

\* Losing and replacing the connection keeps it.
LEMMA ConnectionStep ==
    ASSUME TxInv, Cut \/ Reconnected \/ UNCHANGED txVars
    PROVE  TxInv'
<1>1. CASE Cut
  <2>1. /\ tx_up' = FALSE /\ wire' = <<>> /\ inMulti' = FALSE /\ queued' = <<>>
        /\ UNCHANGED <<onLoop, open, cmd_stack_, batch, appended, functors, outside>>
    BY <1>1 DEF Cut, userVars
  <2>2. TxTypes' /\ StackOK'
    <3>1. <<>> \in Seq(Ids) /\ <<>> \in Seq(TxCommands)
      OBVIOUS
    <3>2. TxTypes'
      BY <2>1, <3>1 DEF TxInv, TxTypes
    <3>3. StackOK'
      BY <2>1 DEF TxInv, StackOK
    <3> QED BY <3>2, <3>3
  <2>3. ServerOK(wire \o functors)' /\ Fresh(wire, inMulti)'
    BY <2>1 DEF ServerOK, Fresh
  <2>4. Stream(wire \o functors)'
    <3>1. <<>> \o functors = functors /\ wire \in Seq(TxCommands) /\ functors \in Seq(TxCommands) /\ Stream(wire \o functors)
      BY ConcatEmptySeq DEF TxInv, TxTypes
    <3>2. Stream(functors)
      <4> DEFINE u == wire \o functors
      <4>1. /\ Len(wire) \in Nat /\ Len(functors) \in Nat /\ Len(u) = Len(wire) + Len(functors)
            /\ \A k \in 1 .. Len(u) : u[k] = IF k <= Len(wire) THEN wire[k] ELSE functors[k - Len(wire)]
        BY <3>1, ConcatProperties, LenProperties
      <4> HIDE DEF u
      <4>2. \A k \in 1 .. Len(functors) : k + Len(wire) \in 1 .. Len(u) /\ u[k + Len(wire)] = functors[k]
        <5> TAKE k \in 1 .. Len(functors)
        <5>1. k + Len(wire) \in 1 .. Len(u) /\ ~(k + Len(wire) <= Len(wire)) /\ k + Len(wire) - Len(wire) = k
          BY <4>1
        <5> QED BY <4>1, <5>1
      <4>3. ASSUME NEW k \in 1 .. Len(functors), functors[k].op \in Inner
            PROVE  k < Len(functors) /\ Continues(functors[k].of, functors[k + 1])
        <5>1. k + Len(wire) < Len(u) /\ Continues(u[k + Len(wire)].of, u[k + Len(wire) + 1])
          BY <3>1, <4>2, <4>3 DEF Stream, u
        <5>2. k + 1 \in 1 .. Len(functors) /\ k + Len(wire) + 1 = (k + 1) + Len(wire)
          BY <4>1, <5>1
        <5> QED BY <4>1, <4>2, <5>1, <5>2
      <4> QED BY <4>3 DEF Stream
    <3> QED BY <2>1, <3>1, <3>2, Zenon
  <2> QED BY <2>1, <2>2, <2>3, <2>4 DEF TxInv
<1>2. CASE Reconnected \/ UNCHANGED txVars
  <2>1. /\ UNCHANGED <<onLoop, open, cmd_stack_, batch, appended, functors, wire, inMulti, queued, outside>>
        /\ tx_up' = TRUE \/ tx_up' = tx_up
    BY <1>2 DEF Reconnected, txVars, userVars, serverVars
  <2>2. TxTypes' /\ StackOK'
    BY <2>1 DEF TxInv, TxTypes, StackOK
  <2>3. ServerOK(wire \o functors)' /\ Stream(wire \o functors)'
    BY <2>1 DEF TxInv, ServerOK, Collected
  <2> QED BY <2>1, <2>2, <2>3 DEF TxInv
<1> QED BY <1>1, <1>2

\* A command the server takes keeps it.
LEMMA ServerStep ==
    ASSUME TxInv, ServerRuns
    PROVE  TxInv'
<1> DEFINE c == Head(wire)
           t == Tail(wire)
           z == wire \o functors
           y == t \o functors
<1>a. /\ wire \in Seq(TxCommands) /\ functors \in Seq(TxCommands) /\ wire # <<>> /\ wire' = t
      /\ UNCHANGED <<onLoop, open, cmd_stack_, batch, appended, functors, tx_up>> /\ tx_up
      /\ Stream(z) /\ ServerOK(z) /\ queued \in Seq(Ids) /\ inMulti \in BOOLEAN /\ outside \subseteq Ids
      /\ onLoop => functors = <<>> /\ Fresh(wire, inMulti) /\ outside = {}
  BY DEF TxInv, TxTypes, ServerRuns, userVars
<1>b. c \in TxCommands /\ t \in Seq(TxCommands) /\ c = wire[1] /\ Len(wire) \in Nat /\ Len(wire) >= 1
  BY <1>a, HeadOfStream
<1>c. /\ c.op \in {"multi", "data", "exec", "discard", "watch", "unwatch"} /\ c.of \in Seq(Ids)
      /\ c.op = "data" => c.id \in Ids
  BY <1>b DEF TxCommands
<1>d. z \in Seq(TxCommands) /\ z # <<>> /\ z[1] = c /\ Head(z) = c /\ Tail(z) = y /\ y \in Seq(TxCommands)
  <2>1. wire = <<c>> \o t /\ <<c>> \in Seq(TxCommands)
    BY <1>a, <1>b
  <2> HIDE DEF c, t
  <2>2. (<<c>> \o t) \o functors = <<c>> \o (t \o functors) /\ t \o functors \in Seq(TxCommands)
    <3>1. t \in Seq(TxCommands) /\ functors \in Seq(TxCommands)
      BY <1>a, <1>b
    <3>2. (<<c>> \o t) \o functors = <<c>> \o (t \o functors)
      BY ONLY <2>1, <3>1, SMT
    <3> QED BY ONLY <3>1, <3>2, ConcatProperties
  <2>3. z = <<c>> \o y /\ y \in Seq(TxCommands)
    BY <2>1, <2>2
  <2> HIDE DEF y, z
  <2>4. <<c>> \o y \in Seq(TxCommands) /\ <<c>> \o y # <<>> /\ (<<c>> \o y)[1] = c /\ Head(<<c>> \o y) = c /\ Tail(<<c>> \o y) = y
    BY <1>b, <2>3
  <2> QED BY <2>3, <2>4
<1>e. Stream(y) /\ (c.op \in Inner => y # <<>> /\ Continues(c.of, y[1]))
  <2> HIDE DEF y, z, c
  <2> QED BY <1>a, <1>d, StreamTail
<1>f. /\ inMulti => Collected(queued, c)
      /\ ~inMulti => queued = <<>>
  BY <1>a, <1>d DEF ServerOK
<1>g. StackOK'
  BY <1>a DEF TxInv, StackOK
<1>h. onLoop => Fresh(t, c.op \in Inner)
  BY <1>a, FreshTail
<1>i. /\ onLoop /\ ~inMulti /\ c.op = "multi" => c.of = <<>>
      /\ onLoop /\ ~inMulti => c.op # "data"
  BY <1>a, <1>b DEF Fresh
<1>j. wire' \o functors' = y
  BY <1>a
<1> HIDE DEF c, t, z, y
<1>1. ASSUME inMulti' \in BOOLEAN, queued' \in Seq(Ids), outside' \subseteq Ids,
             inMulti' => c.op \in Inner /\ IsTail(queued', c.of) /\ (onLoop => queued' = c.of),
             ~inMulti' => queued' = <<>>,
             onLoop => outside' = {} /\ (c.op \in Inner => inMulti')
      PROVE  TxInv'
  <2>1. TxTypes'
    <3>1. wire' \in Seq(TxCommands)
      BY <1>a, <1>b
    <3> QED BY <1>1, <1>a, <3>1 DEF TxInv, TxTypes
  <2>2. Stream(wire \o functors)'
    BY <1>e, <1>j, Zenon
  <2>3. ServerOK(wire \o functors)'
    <3>1. inMulti' => y # <<>> /\ \E d \in Seq(Ids) : Continues(d, y[1]) /\ IsTail(queued', d) /\ (onLoop' => queued' = d)
      BY <1>1, <1>a, <1>c, <1>e
    <3> QED BY <1>1, <1>j, <3>1, Zenon DEF ServerOK, Collected
  <2>4. onLoop => Fresh(wire, inMulti)'
    <3>1. onLoop => inMulti' = (c.op \in Inner)
      BY <1>1
    <3>2. onLoop => Fresh(t, inMulti')
      BY <1>h, <3>1, Zenon
    <3> QED BY <1>a, <3>2, Zenon
  <2> QED BY <1>1, <1>a, <1>g, <2>1, <2>2, <2>3, <2>4 DEF TxInv
<1>2. CASE inMulti
  <2>1. PICK d \in Seq(Ids) : Continues(d, c) /\ IsTail(queued, d) /\ (onLoop => queued = d)
    BY <1>2, <1>f DEF Collected
  <2>2. CASE c.op = "multi"
    <3>1. inMulti' = TRUE /\ UNCHANGED <<queued, outside>>
      BY <2>2 DEF ServerRuns, c
    <3>2. c.of = d
      BY <2>1, <2>2 DEF Continues
    <3> QED BY <1>1, <1>a, <2>1, <2>2, <3>1, <3>2 DEF Inner
  <2>3. CASE c.op = "data"
    <3>1. queued' = Append(queued, c.id) /\ UNCHANGED <<inMulti, outside>>
      BY <1>2, <2>3 DEF ServerRuns, c
    <3>2. c.of = Append(d, c.id)
      BY <2>1, <2>3 DEF Continues
    <3>3. IsTail(Append(queued, c.id), Append(d, c.id)) /\ Append(queued, c.id) \in Seq(Ids)
      BY <1>a, <1>c, <2>1, <2>3, TailAppend
    <3>4. onLoop => Append(queued, c.id) = c.of
      BY <2>1, <3>2
    <3>5. inMulti' = TRUE /\ queued' \in Seq(Ids) /\ IsTail(queued', c.of) /\ (onLoop => queued' = c.of)
      BY <1>2, <3>1, <3>2, <3>3, <3>4, Zenon
    <3> QED BY <1>1, <1>a, <2>3, <3>1, <3>5 DEF Inner
  <2>4. CASE c.op = "exec"
    <3>1. inMulti' = FALSE /\ queued' = <<>> /\ UNCHANGED outside
      BY <2>4 DEF ServerRuns, c
    <3>2. <<>> \in Seq(Ids)
      OBVIOUS
    <3> QED BY <1>1, <1>a, <2>4, <3>1, <3>2 DEF Inner
  <2> QED BY <2>1, <2>2, <2>3, <2>4 DEF Continues
<1>3. CASE ~inMulti
  <2>0. queued = <<>> /\ <<>> \in Seq(Ids)
    BY <1>3, <1>f
  <2>1. CASE c.op = "multi"
    <3>1. inMulti' = TRUE /\ UNCHANGED <<queued, outside>>
      BY <2>1 DEF ServerRuns, c
    <3>2. IsTail(<<>>, c.of) /\ (onLoop => c.of = <<>>)
      BY <1>3, <1>c, <1>i, <2>1, LenProperties DEF IsTail
    <3> QED BY <1>1, <1>a, <2>0, <2>1, <3>1, <3>2 DEF Inner
  <2>2. CASE c.op = "data"
    <3>1. UNCHANGED <<inMulti, queued>> /\ outside' = outside \cup {c.id}
      BY <1>3, <2>2 DEF ServerRuns, c
    <3>2. ~onLoop /\ outside' \subseteq Ids
      BY <1>3, <1>a, <1>c, <1>i, <2>2, <3>1
    <3> QED BY <1>1, <1>3, <1>a, <2>0, <3>1, <3>2
  <2>3. CASE c.op \in {"exec", "discard", "watch", "unwatch"}
    <3>1. inMulti' = FALSE /\ queued' = <<>> /\ UNCHANGED outside
      BY <1>3, <2>0, <2>3 DEF ServerRuns, c, serverVars
    <3> QED BY <1>1, <1>a, <2>0, <2>3, <3>1 DEF Inner
  <2> QED BY <1>c, <2>1, <2>2, <2>3
<1> QED BY <1>2, <1>3

\* Every step of TairTransactionClient keeps its inductive invariant.
LEMMA TxStep ==
    ASSUME TxInv, TxNext \/ UNCHANGED txVars
    PROVE  TxInv'
BY StackStep, CallStep, FunctorStep, ServerStep, ConnectionStep DEF TxNext

\* A new transaction client satisfies it.
LEMMA TxStart == TxInit => TxInv
<1> SUFFICES ASSUME TxInit PROVE TxInv
  OBVIOUS
<1>1. /\ <<>> \in Seq(Ids) /\ <<>> \in Seq(TxCommands) /\ <<>> \o <<>> = <<>> /\ Len(<<>>) = 0
      /\ 0 \in 0 .. MaxCommands
  BY TransactionAssumption
<1>2. TxTypes
  BY <1>1 DEF TxInit, TxTypes
<1>3. StackOK
  BY <1>1 DEF TxInit, StackOK
<1>4. Stream(wire \o functors) /\ ServerOK(wire \o functors) /\ Fresh(wire, inMulti) /\ outside = {}
  BY <1>1 DEF TxInit, Stream, ServerOK, Fresh
<1> QED BY <1>2, <1>3, <1>4 DEF TxInv

\* It implies TransactionIsWhole.
LEMMA TxImplies ==
    ASSUME TxInv
    PROVE  TransactionIsWhole
<1>1. TxTypeOK /\ NothingOutsideMulti
  BY DEF TxInv, TxTypes, Ids, TxTypeOK, NothingOutsideMulti
<1>2. ASSUME wire # <<>>, Head(wire).op = "exec", inMulti
      PROVE  IsSuffix(queued, Head(wire).of) /\ (onLoop => queued = Head(wire).of)
  <2> DEFINE c == Head(wire)
  <2>1. wire \in Seq(TxCommands) /\ functors \in Seq(TxCommands) /\ queued \in Seq(Ids) /\ Collected(queued, (wire \o functors)[1])
    BY <1>2 DEF TxInv, TxTypes, ServerOK
  <2>2. (wire \o functors)[1] = c
    BY <1>2, <2>1, HeadOfStream, ConcatProperties
  <2> HIDE DEF c
  <2>3. PICK d \in Seq(Ids) : Continues(d, c) /\ IsTail(queued, d) /\ (onLoop => queued = d)
    BY <2>1, <2>2 DEF Collected
  <2>4. c.of = d
    BY <1>2, <2>3 DEF Continues, c
  <2>5. IsSuffix(queued, d)
    BY <2>1, <2>3, TailIsSuffix
  <2> QED BY <2>3, <2>4, <2>5 DEF c
<1> QED BY <1>1, <1>2 DEF TransactionIsWhole, ExecRunsItsBatch

(***************************************************************************)
(* ClusterFanout                                                           *)
(***************************************************************************)
\* The latch counts the callbacks that have begun, and of those that keys()
\* has heard of only the one still running has not written its part.
FanCounts ==
    /\ latched \in BOOLEAN /\ caller \in {"sending", "waiting", "returned"}
    /\ sent \subseteq FanNodes /\ handled \subseteq sent /\ parts \subseteq FanNodes /\ ok \in BOOLEAN
    /\ handler = NoReply \/ (handler.node \in handled /\ handler.success \in BOOLEAN)
    /\ count_ = Cardinality(FanNodes) - Cardinality(handled)
    /\ latched /\ ok => \A n \in handled : n \in parts \/ (handler # NoReply /\ handler.node = n)
FanAnswer ==
    caller = "returned" /\ latched /\ result.ok => \E m : FanNodes \ result.parts \subseteq {m}
FanInv == FanCounts /\ FanAnswer

\* Counting the nodes whose callback has begun.
LEMMA CountHandled ==
    ASSUME NEW S \in SUBSET FanNodes
    PROVE  /\ IsFiniteSet(S) /\ Cardinality(S) \in Nat /\ Cardinality(FanNodes) \in Nat
           /\ Cardinality(S) <= Cardinality(FanNodes)
           /\ Cardinality(S) = Cardinality(FanNodes) => S = FanNodes
<1>1. IsFiniteSet(S) /\ Cardinality(S) <= Cardinality(FanNodes) /\ (Cardinality(S) = Cardinality(FanNodes) => S = FanNodes)
  BY FanoutAssumption, FS_Subset
<1> QED BY <1>1, FanoutAssumption, FS_CardinalityType

\* A fan-out that has not begun satisfies the invariant.
LEMMA FanStart == FanInit => FanInv
<1> SUFFICES ASSUME FanInit PROVE FanInv
  OBVIOUS
<1>1. Cardinality({}) = 0 /\ Cardinality(FanNodes) \in Nat
  BY FS_EmptySet, CountHandled
<1>2. count_ = Cardinality(FanNodes) - Cardinality(handled)
  BY <1>1 DEF FanInit
<1> QED BY <1>2 DEF FanInit, FanInv, FanCounts, FanAnswer

\* Every step of the fan-out keeps it.
LEMMA FanStep ==
    ASSUME FanInv, FanNext \/ UNCHANGED fanVars
    PROVE  FanInv'
<1> USE DEF FanInv, FanCounts
<1>1. ASSUME NEW n \in FanNodes, Ask(n) PROVE FanInv'
  BY <1>1 DEF Ask, FanAnswer
<1>2. ASSUME NEW n \in FanNodes, HandleReply(n) PROVE FanInv'
  <2>1. PICK b \in BOOLEAN : handler' = [node |-> n, success |-> b]
    BY <1>2 DEF HandleReply
  <2>2. /\ handler = NoReply /\ n \in sent /\ n \notin handled /\ count_' = count_ - 1 /\ handled' = handled \cup {n}
        /\ UNCHANGED <<latched, callerOnLoop, caller, sent, ok, parts, result, dangling>>
    BY <1>2 DEF HandleReply, LoopFree
  <2>3. handler'.node = n /\ handler'.success \in BOOLEAN /\ handler' # NoReply
    BY <2>1, FanoutAssumption DEF NoReply
  <2>4. count_' = Cardinality(FanNodes) - Cardinality(handled')
    <3>1. Cardinality(handled \cup {n}) = Cardinality(handled) + 1 /\ Cardinality(handled) \in Nat /\ Cardinality(FanNodes) \in Nat
      BY <2>2, CountHandled, FS_AddElement
    <3> QED BY <2>2, <3>1
  <2> QED BY <2>2, <2>3, <2>4 DEF FanAnswer
<1>3. ASSUME AskedAll PROVE FanInv'
  <2>1. UNCHANGED <<latched, sent, handler, handled, count_, ok, parts>>
    BY <1>3 DEF AskedAll
  <2>2. CASE latched
    BY <1>3, <2>1, <2>2 DEF AskedAll, FanAnswer
  <2>3. CASE ~latched
    BY <1>3, <2>1, <2>3 DEF AskedAll, FanAnswer
  <2> QED BY <2>2, <2>3
<1>4. ASSUME WriteLocals PROVE FanInv'
  <2>1. /\ handler # NoReply /\ handler' = NoReply /\ ok' = (ok /\ handler.success)
        /\ parts' = IF handler.success /\ latched THEN parts \cup {handler.node} ELSE parts
        /\ UNCHANGED <<latched, caller, sent, handled, count_, result>>
    BY <1>4 DEF WriteLocals
  <2>2. handler.node \in handled /\ handler.success \in BOOLEAN
    BY <2>1
  <2>3. parts' \subseteq FanNodes /\ ok' \in BOOLEAN
    BY <2>1, <2>2
  <2>4. latched' /\ ok' => \A n \in handled' : n \in parts'
    BY <2>1, <2>2
  <2> QED BY <2>1, <2>3, <2>4 DEF FanAnswer
<1>5. ASSUME WakeUp PROVE FanInv'
  <2>1. /\ count_ <= 0 /\ caller' = "returned" /\ result' = [ok |-> ok, parts |-> parts]
        /\ UNCHANGED <<latched, sent, handler, handled, count_, ok, parts>>
    BY <1>5 DEF WakeUp
  <2>2. handled = FanNodes
    <3>1. Cardinality(handled) \in Nat /\ Cardinality(FanNodes) \in Nat /\ Cardinality(handled) <= Cardinality(FanNodes)
          /\ (Cardinality(handled) = Cardinality(FanNodes) => handled = FanNodes)
      BY CountHandled
    <3> QED BY <2>1, <3>1
  <2>3. FanAnswer'
    BY <2>1, <2>2 DEF FanAnswer
  <2> QED BY <2>1, <2>3
<1>6. CASE UNCHANGED fanVars
  BY <1>6 DEF fanVars, FanAnswer
<1> QED BY <1>1, <1>2, <1>3, <1>4, <1>5, <1>6 DEF FanNext

\* It implies KeysMissesAtMostTheLast.
LEMMA FanImplies ==
    ASSUME FanInv
    PROVE  KeysMissesAtMostTheLast
<1>1. FanTypeOK
  <2>1. Cardinality(handled) \in Nat /\ Cardinality(FanNodes) \in Nat /\ Cardinality(handled) <= Cardinality(FanNodes)
    BY CountHandled DEF FanInv, FanCounts
  <2> QED BY <2>1 DEF FanInv, FanCounts, FanTypeOK
<1>2. ASSUME caller = "returned", latched, result.ok PROVE Cardinality(FanNodes \ result.parts) <= 1
  <2>1. PICK m : FanNodes \ result.parts \subseteq {m}
    BY <1>2 DEF FanInv, FanAnswer
  <2>2. IsFiniteSet({m}) /\ Cardinality({m}) = 1
    BY FS_Singleton
  <2>3. Cardinality(FanNodes \ result.parts) <= Cardinality({m})
    BY <2>1, <2>2, FS_Subset
  <2> QED BY <2>2, <2>3
<1> QED BY <1>1, <1>2 DEF KeysMissesAtMostTheLast

(***************************************************************************)
(* TairSubscribeClient                                                     *)
(***************************************************************************)
Requests ==
    [op : {"subscribe", "resubscribe"}, topic : Topics, cb : MsgCallbacks]
    \cup [op : {"unsubscribe"}, topic : Topics, cb : {NoCallback}]
    \cup [op : {"setname"}, topic : {""}, cb : {NoCallback}]
Packets ==
    [kind : {"reply"}, req : Requests, ok : BOOLEAN]
    \cup [kind : {"message"}, req : [op : {"publish"}, topic : Topics, cb : MsgCallbacks], ok : {TRUE}]

\* callbacks_ is what packets s and requests v on the wire stand for.
Pairs(c, s, v) ==
    /\ Len(c) = RepliesIn(s, Len(s)) + Len(v)
    /\ \A i \in 1 .. Len(s) : s[i].kind = "reply" => c[RepliesIn(s, i)] = s[i].req
    /\ \A k \in 1 .. Len(v) : c[RepliesIn(s, Len(s)) + k] = v[k]

\* Packet e makes the client's entry for topic t.
Tells(e, t) == e.kind = "reply" /\ e.ok /\ e.req.topic = t
Entry(e, t, old) == IF Tells(e, t) THEN e.req.cb ELSE old
\* After the first m packets of s an entry for t that is old becomes c.
Told(s, m, old, t, c) ==
    \/ \E i \in 1 .. m : Tells(s[i], t) /\ s[i].req.cb = c /\ \A j \in 1 .. m : j > i => ~Tells(s[j], t)
    \/ (\A j \in 1 .. m : ~Tells(s[j], t)) /\ old = c

\* A re-subscription of t has yet to be made.
StillToCome(v, t) == \E k \in 1 .. Len(v) : v[k].op = "resubscribe" /\ v[k].topic = t

\* Every message of s will find the entry of its subscription.
MessagesOK(s, entries) ==
    \A k \in 1 .. Len(s) : s[k].kind = "message" =>
        Told(s, k - 1, entries[s[k].req.topic], s[k].req.topic, s[k].req.cb)
\* Once s has arrived the client's entry for t is the server's, c, unless a
\* re-subscription is still to come or was refused.
Held(s, v, old, t, c, no) ==
    \/ Told(s, Len(s), old, t, c)
    \/ c = NoCallback /\ (\A j \in 1 .. Len(s) : ~Tells(s[j], t)) /\ (no \/ StillToCome(v, t))

SubTypes ==
    /\ SubTypeOK
    /\ callbacks_ \in Seq(Requests) /\ toServer \in Seq(Requests) /\ toClient \in Seq(Packets)
SubTold ==
    sub_up => \A t \in Topics : Held(toClient, toServer, sub_callbacks_[t], t, serverSubs[t], t \in refused)
SubDown == ~sub_up => callbacks_ = <<>> /\ toServer = <<>> /\ toClient = <<>> /\ serverSubs = NoSubs /\ refused = {}

\* What a client that has not crashed relies on.
SubLive ==
    /\ Pairs(callbacks_, toClient, toServer) /\ MessagesOK(toClient, sub_callbacks_)
    /\ SubTold /\ SubDown

SubInv == SubTypes /\ (~crashed => SubLive)

\* Counting replies.
LEMMA CountType ==
    ASSUME NEW s, NEW n \in Nat
    PROVE  /\ IsFiniteSet({i \in 1 .. n : s[i].kind = "reply"}) /\ RepliesIn(s, n) \in Nat
           /\ \A m \in 0 .. n : RepliesIn(s, m) <= RepliesIn(s, n)
           /\ RepliesIn(s, 0) = 0
           /\ RepliesIn(s, n + 1) = IF s[n + 1].kind = "reply" THEN RepliesIn(s, n) + 1 ELSE RepliesIn(s, n)
<1> DEFINE R(m) == {i \in 1 .. m : s[i].kind = "reply"}
<1>1. \A m \in Nat : IsFiniteSet(R(m)) /\ Cardinality(R(m)) \in Nat
  <2> TAKE m \in Nat
  <2>1. IsFiniteSet(1 .. m) /\ R(m) \in SUBSET (1 .. m)
    BY FS_Interval
  <2> QED BY <2>1, FS_Subset, FS_CardinalityType
<1>2. ASSUME NEW m \in 0 .. n PROVE Cardinality(R(m)) <= Cardinality(R(n))
  <2>1. R(m) \in SUBSET R(n)
    OBVIOUS
  <2> HIDE DEF R
  <2> QED BY <1>1, <2>1, FS_Subset
<1>3. Cardinality(R(0)) = 0
  <2>1. R(0) = {}
    OBVIOUS
  <2> QED BY <2>1, FS_EmptySet
<1>4. ASSUME s[n + 1].kind = "reply" PROVE Cardinality(R(n + 1)) = Cardinality(R(n)) + 1
  <2>1. R(n + 1) = R(n) \cup {n + 1} /\ n + 1 \notin R(n)
    BY <1>4
  <2> HIDE DEF R
  <2> QED BY <1>1, <2>1, FS_AddElement
<1>5. ASSUME s[n + 1].kind # "reply" PROVE Cardinality(R(n + 1)) = Cardinality(R(n))
  <2>1. R(n + 1) = R(n)
    BY <1>5
  <2> QED BY <2>1
<1>6. \A m : RepliesIn(s, m) = Cardinality(R(m))
  BY DEF RepliesIn
<1>7. IsFiniteSet({i \in 1 .. n : s[i].kind = "reply"})
  BY <1>1
<1> HIDE DEF R
<1> QED BY <1>1, <1>2, <1>3, <1>4, <1>5, <1>6, <1>7

\* The replies up to one packet, among all of them.
LEMMA CountAt ==
    ASSUME NEW s, NEW n \in Nat, NEW i \in 1 .. n
    PROVE  /\ RepliesIn(s, i) \in Nat /\ RepliesIn(s, n) \in Nat /\ RepliesIn(s, i) <= RepliesIn(s, n)
           /\ s[i].kind = "reply" => RepliesIn(s, i) >= 1
<1> DEFINE k == i - 1
<1>1. k \in Nat /\ k + 1 = i /\ i \in Nat /\ i \in 0 .. n
  OBVIOUS
<1> HIDE DEF k
<1>2. RepliesIn(s, k) \in Nat /\ RepliesIn(s, i) \in Nat /\ RepliesIn(s, n) \in Nat
  BY <1>1, CountType
<1>3. RepliesIn(s, i) <= RepliesIn(s, n)
  BY <1>1, CountType
<1>4. RepliesIn(s, k + 1) = IF s[k + 1].kind = "reply" THEN RepliesIn(s, k) + 1 ELSE RepliesIn(s, k)
  BY <1>1, CountType
<1> QED BY <1>1, <1>2, <1>3, <1>4

\* An appended packet leaves the earlier counts.
LEMMA CountAppend ==
    ASSUME NEW s \in Seq(Packets), NEW e \in Packets, NEW n \in 0 .. Len(s)
    PROVE  RepliesIn(Append(s, e), n) = RepliesIn(s, n)
<1>1. \A i \in 1 .. Len(s) : Append(s, e)[i] = s[i]
  BY AppendProperties
<1>2. Len(s) \in Nat
  BY LenProperties
<1>3. {i \in 1 .. n : Append(s, e)[i].kind = "reply"} = {i \in 1 .. n : s[i].kind = "reply"}
  BY <1>1, <1>2
<1> QED BY <1>3 DEF RepliesIn

\* The counts when the first packet is taken.
LEMMA CountTail ==
    ASSUME NEW s \in Seq(Packets), s # <<>>, NEW n \in 0 .. Len(s) - 1
    PROVE  RepliesIn(s, n + 1) = RepliesIn(Tail(s), n) + (IF s[1].kind = "reply" THEN 1 ELSE 0)
<1> DEFINE S == {i \in 1 .. n : Tail(s)[i].kind = "reply"}
           T == {i \in 2 .. n + 1 : s[i].kind = "reply"}
           U == {i \in 1 .. n + 1 : s[i].kind = "reply"}
           f == [i \in S |-> i + 1]
<1>1. Len(s) \in Nat /\ n \in Nat /\ \A i \in 1 .. n : Tail(s)[i] = s[i + 1]
  BY LenProperties, HeadTailProperties, EmptySeq
<1>2. f \in Bijection(S, T)
  <2>1. \A i \in S : i + 1 \in T
    BY <1>1
  <2>2. \A j \in T : j - 1 \in S /\ (j - 1) + 1 = j
    BY <1>1
  <2>3. \A i, j \in S : i + 1 = j + 1 => i = j
    BY <1>1
  <2> HIDE DEF S, T
  <2>4. f \in [S -> T] /\ \A i \in S : f[i] = i + 1
    BY <2>1
  <2> HIDE DEF f
  <2>5. \A i, j \in S : f[i] = f[j] => i = j
    BY <2>3, <2>4
  <2>6. \A j \in T : \E i \in S : f[i] = j
    BY <2>2, <2>4
  <2> QED BY <2>4, <2>5, <2>6, Fun_IsBij
<1>3. IsFiniteSet(S) /\ Cardinality(S) \in Nat
  BY <1>1, CountType DEF RepliesIn
<1>4. IsFiniteSet(T) /\ Cardinality(T) = Cardinality(S)
  <2> HIDE DEF S, T, f
  <2> QED BY <1>2, <1>3, FS_Bijection, Fun_ExistsBij
<1>5. CASE s[1].kind = "reply"
  <2>1. U = T \cup {1} /\ 1 \notin T
    BY <1>1, <1>5
  <2>2. Cardinality(U) = Cardinality(S) + 1
    <3> HIDE DEF S, T, U
    <3> QED BY <1>3, <1>4, <2>1, FS_AddElement
  <2> QED BY <1>5, <2>2 DEF RepliesIn
<1>6. CASE s[1].kind # "reply"
  <2>1. U = T
    BY <1>1, <1>6
  <2>2. Cardinality(U) = Cardinality(S) + 0
    <3> HIDE DEF S, T, U
    <3> QED BY <1>3, <1>4, <2>1
  <2> QED BY <1>6, <2>2 DEF RepliesIn
<1> QED BY <1>5, <1>6

\* A first element and the rest.
LEMMA FirstRest ==
    ASSUME NEW S, NEW q \in Seq(S), q # <<>>
    PROVE  /\ Len(q) \in Nat /\ Len(q) >= 1 /\ Head(q) = q[1] /\ q[1] \in S
           /\ Tail(q) \in Seq(S) /\ Len(Tail(q)) = Len(q) - 1
           /\ \A k \in 1 .. Len(q) - 1 : Tail(q)[k] = q[k + 1]
<1>1. Len(q) \in Nat /\ Len(q) >= 1 /\ Head(q) = q[1]
  BY LenProperties, EmptySeq
<1> QED BY <1>1, HeadTailProperties

\* A request sent is paired with its callback.
LEMMA PairsSend ==
    ASSUME NEW c \in Seq(Requests), NEW s \in Seq(Packets), NEW v \in Seq(Requests), NEW r \in Requests,
           Pairs(c, s, v)
    PROVE  Pairs(Append(c, r), s, Append(v, r))
<1> DEFINE n == RepliesIn(s, Len(s))
           d == Append(c, r)
           w == Append(v, r)
<1>1. /\ Len(c) \in Nat /\ Len(v) \in Nat /\ Len(s) \in Nat /\ n \in Nat
      /\ \A i \in 1 .. Len(s) : RepliesIn(s, i) \in Nat /\ RepliesIn(s, i) <= n
  <2>1. Len(c) \in Nat /\ Len(v) \in Nat /\ Len(s) \in Nat
    BY LenProperties
  <2> QED BY <2>1, CountType, CountAt
<1>2. /\ Len(d) = Len(c) + 1 /\ d[Len(c) + 1] = r /\ \A i \in 1 .. Len(c) : d[i] = c[i]
      /\ Len(w) = Len(v) + 1 /\ w[Len(v) + 1] = r /\ \A i \in 1 .. Len(v) : w[i] = v[i]
  BY AppendProperties
<1>3. /\ Len(c) = n + Len(v)
      /\ \A i \in 1 .. Len(s) : s[i].kind = "reply" => c[RepliesIn(s, i)] = s[i].req
      /\ \A k \in 1 .. Len(v) : c[n + k] = v[k]
  BY DEF Pairs
<1>4. \A i \in 1 .. Len(s) : s[i].kind = "reply" => RepliesIn(s, i) >= 1
  BY <1>1, CountAt
<1> HIDE DEF n, d, w
<1>5. Len(d) = n + Len(w)
  BY <1>1, <1>2, <1>3
<1>6. ASSUME NEW i \in 1 .. Len(s), s[i].kind = "reply" PROVE d[RepliesIn(s, i)] = s[i].req
  <2>1. RepliesIn(s, i) \in 1 .. Len(c)
    BY <1>1, <1>3, <1>4, <1>6
  <2> QED BY <1>2, <1>3, <1>6, <2>1
<1>7. ASSUME NEW k \in 1 .. Len(w) PROVE d[n + k] = w[k]
  <2>1. CASE k = Len(v) + 1
    <3>1. n + k = Len(c) + 1
      BY <1>1, <1>3, <2>1
    <3> QED BY <1>2, <2>1, <3>1
  <2>2. CASE k \in 1 .. Len(v)
    <3>1. n + k \in 1 .. Len(c)
      BY <1>1, <1>3, <2>2
    <3> QED BY <1>2, <1>3, <2>2, <3>1
  <2> QED BY <1>1, <1>2, <2>1, <2>2
<1> QED BY <1>5, <1>6, <1>7 DEF Pairs, n, d, w

\* A reply stands where its request stood.
LEMMA PairsServe ==
    ASSUME NEW c \in Seq(Requests), NEW s \in Seq(Packets), NEW v \in Seq(Requests), v # <<>>,
           NEW e \in Packets, e.kind = "reply", e.req = Head(v), Pairs(c, s, v)
    PROVE  Pairs(c, Append(s, e), Tail(v))
<1> DEFINE n == RepliesIn(s, Len(s))
           z == Append(s, e)
           w == Tail(v)
<1>1. Len(c) \in Nat /\ Len(s) \in Nat /\ n \in Nat
  BY LenProperties, CountType
<1>2. Len(z) = Len(s) + 1 /\ z[Len(s) + 1] = e /\ \A i \in 1 .. Len(s) : z[i] = s[i]
  BY AppendProperties
<1>3. /\ Len(v) \in Nat /\ Len(v) >= 1 /\ Head(v) = v[1] /\ Len(w) = Len(v) - 1
      /\ \A k \in 1 .. Len(v) - 1 : w[k] = v[k + 1]
  BY FirstRest
<1>4. /\ Len(c) = n + Len(v)
      /\ \A i \in 1 .. Len(s) : s[i].kind = "reply" => c[RepliesIn(s, i)] = s[i].req
      /\ \A k \in 1 .. Len(v) : c[n + k] = v[k]
  BY DEF Pairs
<1>5. /\ \A i \in 0 .. Len(s) : RepliesIn(z, i) = RepliesIn(s, i)
      /\ RepliesIn(z, Len(s) + 1) = n + 1
  <2>1. \A i \in 0 .. Len(s) : RepliesIn(z, i) = RepliesIn(s, i)
    BY CountAppend
  <2>2. RepliesIn(z, Len(s) + 1) = RepliesIn(z, Len(s)) + 1
    BY <1>1, <1>2, CountType
  <2>3. Len(s) \in 0 .. Len(s)
    BY <1>1
  <2> QED BY <2>1, <2>2, <2>3
<1> HIDE DEF n, z, w
<1>6. Len(c) = RepliesIn(z, Len(z)) + Len(w)
  BY <1>1, <1>2, <1>3, <1>4, <1>5
<1>7. ASSUME NEW i \in 1 .. Len(z), z[i].kind = "reply" PROVE c[RepliesIn(z, i)] = z[i].req
  <2>1. CASE i = Len(s) + 1
    <3>1. c[n + 1] = v[1]
      BY <1>3, <1>4
    <3> QED BY <1>2, <1>3, <1>5, <2>1, <3>1
  <2>2. CASE i \in 1 .. Len(s)
    <3>1. i \in 0 .. Len(s)
      BY <2>2
    <3> QED BY <1>2, <1>4, <1>5, <1>7, <2>2, <3>1
  <2> QED BY <1>1, <1>2, <2>1, <2>2
<1>8. ASSUME NEW k \in 1 .. Len(w) PROVE c[RepliesIn(z, Len(z)) + k] = w[k]
  <2>1. k + 1 \in 1 .. Len(v) /\ (n + 1) + k = n + (k + 1) /\ k \in 1 .. Len(v) - 1
    BY <1>1, <1>3
  <2> QED BY <1>2, <1>3, <1>4, <1>5, <2>1
<1> QED BY <1>6, <1>7, <1>8 DEF Pairs, z, w

\* A message takes no callback.
LEMMA PairsPublish ==
    ASSUME NEW c \in Seq(Requests), NEW s \in Seq(Packets), NEW v \in Seq(Requests),
           NEW e \in Packets, e.kind # "reply", Pairs(c, s, v)
    PROVE  Pairs(c, Append(s, e), v)
<1> DEFINE z == Append(s, e)
<1>1. Len(s) \in Nat
  BY LenProperties
<1>2. Len(z) = Len(s) + 1 /\ z[Len(s) + 1] = e /\ \A i \in 1 .. Len(s) : z[i] = s[i]
  BY AppendProperties
<1>3. \A i \in 0 .. Len(s) : RepliesIn(z, i) = RepliesIn(s, i)
  BY CountAppend
<1>4. RepliesIn(z, Len(s) + 1) = RepliesIn(z, Len(s))
  BY <1>1, <1>2, CountType
<1>5. Len(s) \in 0 .. Len(s) /\ \A i \in 1 .. Len(s) : i \in 0 .. Len(s)
  BY <1>1
<1> HIDE DEF z
<1>6. RepliesIn(z, Len(z)) = RepliesIn(s, Len(s))
  BY <1>2, <1>3, <1>4, <1>5
<1>7. ASSUME NEW i \in 1 .. Len(z), z[i].kind = "reply" PROVE c[RepliesIn(z, i)] = z[i].req
  <2>1. i \in 1 .. Len(s)
    BY <1>1, <1>2, <1>7
  <2> QED BY <1>2, <1>3, <1>5, <1>7, <2>1 DEF Pairs
<1> QED BY <1>6, <1>7 DEF Pairs, z

\* The first reply meets the first callback, which it answers.
LEMMA PairsRecv ==
    ASSUME NEW c \in Seq(Requests), NEW s \in Seq(Packets), NEW v \in Seq(Requests), s # <<>>, Pairs(c, s, v)
    PROVE  /\ s[1].kind # "reply" => Pairs(c, Tail(s), v)
           /\ s[1].kind = "reply" => c # <<>> /\ Head(c) = s[1].req /\ Pairs(Tail(c), Tail(s), v)
<1> DEFINE n == RepliesIn(s, Len(s))
           z == Tail(s)
<1>1. Len(c) \in Nat /\ Len(v) \in Nat
  BY LenProperties
<1>2. /\ Len(s) \in Nat /\ Len(s) >= 1 /\ Len(z) = Len(s) - 1 /\ z \in Seq(Packets)
      /\ \A k \in 1 .. Len(s) - 1 : z[k] = s[k + 1]
  BY FirstRest
<1>3. n \in Nat /\ \A k \in 0 .. Len(s) - 1 : RepliesIn(z, k) \in Nat
  <2>1. \A k \in 0 .. Len(s) - 1 : k \in Nat
    BY <1>2
  <2>2. \A k \in 0 .. Len(s) - 1 : RepliesIn(z, k) \in Nat
    BY <2>1, CountType
  <2> QED BY <1>2, <2>2, CountType
<1>4. /\ Len(c) = n + Len(v)
      /\ \A i \in 1 .. Len(s) : s[i].kind = "reply" => c[RepliesIn(s, i)] = s[i].req
      /\ \A k \in 1 .. Len(v) : c[n + k] = v[k]
  BY DEF Pairs
<1>5. \A k \in 0 .. Len(s) - 1 : RepliesIn(s, k + 1) = RepliesIn(z, k) + (IF s[1].kind = "reply" THEN 1 ELSE 0)
  BY CountTail
<1>6. /\ Len(s) - 1 \in 0 .. Len(s) - 1 /\ (Len(s) - 1) + 1 = Len(s) /\ 0 \in 0 .. Len(s) - 1 /\ 0 + 1 = 1
      /\ \A k \in 1 .. Len(z) : k \in 0 .. Len(s) - 1 /\ k \in 1 .. Len(s) - 1 /\ k + 1 \in 1 .. Len(s)
  BY <1>2
<1>7. RepliesIn(z, 0) = 0
  BY CountType
<1> HIDE DEF n, z
<1>8. ASSUME s[1].kind # "reply" PROVE Pairs(c, z, v)
  <2>1. \A k \in 0 .. Len(s) - 1 : RepliesIn(s, k + 1) = RepliesIn(z, k)
    BY <1>3, <1>5, <1>8
  <2>2. RepliesIn(z, Len(z)) = n
    BY <1>2, <1>6, <2>1 DEF n
  <2>3. ASSUME NEW i \in 1 .. Len(z), z[i].kind = "reply" PROVE c[RepliesIn(z, i)] = z[i].req
    <3>1. z[i] = s[i + 1] /\ i + 1 \in 1 .. Len(s) /\ RepliesIn(s, i + 1) = RepliesIn(z, i)
      BY <1>2, <1>6, <2>1
    <3> QED BY <1>4, <2>3, <3>1
  <2> QED BY <1>4, <2>2, <2>3 DEF Pairs
<1>9. ASSUME s[1].kind = "reply" PROVE c # <<>> /\ Head(c) = s[1].req /\ Pairs(Tail(c), z, v)
  <2>1. \A k \in 0 .. Len(s) - 1 : RepliesIn(s, k + 1) = RepliesIn(z, k) + 1
    BY <1>5, <1>9
  <2>2. n = RepliesIn(z, Len(z)) + 1 /\ RepliesIn(s, 1) = 1
    BY <1>2, <1>6, <1>7, <2>1 DEF n
  <2>3. Len(c) >= 1
    <3>1. RepliesIn(z, Len(z)) \in Nat
      BY <1>2, <1>3, <1>6
    <3>2. Len(c) = n + Len(v) /\ Len(v) \in Nat
      BY <1>1, <1>4
    <3> QED BY <2>2, <3>1, <3>2
  <2>4. c # <<>>
    BY <2>3
  <2> DEFINE d == Tail(c)
  <2>5. Head(c) = c[1] /\ Len(d) = Len(c) - 1 /\ \A k \in 1 .. Len(c) - 1 : d[k] = c[k + 1]
    BY <2>4, FirstRest
  <2>6. Head(c) = s[1].req
    <3>1. 1 \in 1 .. Len(s)
      BY <1>2
    <3> QED BY <1>4, <1>9, <2>2, <2>5, <3>1
  <2> HIDE DEF d
  <2>7. Len(d) = RepliesIn(z, Len(z)) + Len(v)
    <3>1. RepliesIn(z, Len(z)) \in Nat
      BY <1>2, <1>3, <1>6
    <3> QED BY <1>1, <1>4, <2>2, <2>5, <3>1
  <2>8. ASSUME NEW i \in 1 .. Len(z), z[i].kind = "reply" PROVE d[RepliesIn(z, i)] = z[i].req
    <3>1. z[i] = s[i + 1] /\ i + 1 \in 1 .. Len(s) /\ RepliesIn(s, i + 1) = RepliesIn(z, i) + 1 /\ RepliesIn(z, i) \in Nat
      BY <1>2, <1>3, <1>6, <2>1
    <3>2. c[RepliesIn(z, i) + 1] = z[i].req
      BY <1>4, <2>8, <3>1
    <3>3. RepliesIn(z, i) >= 1
      BY <1>2, <2>8, CountAt
    <3>4. RepliesIn(z, i) <= RepliesIn(z, Len(z)) /\ RepliesIn(z, Len(z)) \in Nat
      BY <1>2, CountAt
    <3>5. RepliesIn(z, i) \in 1 .. Len(c) - 1
      BY <1>1, <2>5, <2>7, <3>1, <3>3, <3>4
    <3> QED BY <2>5, <3>2, <3>5
  <2>9. ASSUME NEW k \in 1 .. Len(v) PROVE d[RepliesIn(z, Len(z)) + k] = v[k]
    <3>1. RepliesIn(z, Len(z)) \in Nat
      BY <1>2, <1>3, <1>6
    <3>2. RepliesIn(z, Len(z)) + k \in 1 .. Len(c) - 1 /\ (RepliesIn(z, Len(z)) + k) + 1 = n + k
      BY <1>1, <2>2, <2>5, <2>7, <3>1
    <3> QED BY <1>4, <2>5, <3>2
  <2> QED BY <2>4, <2>6, <2>7, <2>8, <2>9 DEF Pairs, d
<1> QED BY <1>8, <1>9 DEF z

\* What the client will have been told when one more packet has arrived.
LEMMA ToldAppend ==
    ASSUME NEW s \in Seq(Packets), NEW e \in Packets, NEW old, NEW t, NEW c
    PROVE  /\ \A m \in 0 .. Len(s) : Told(s, m, old, t, c) => Told(Append(s, e), m, old, t, c)
           /\ Told(s, Len(s), old, t, c) => Told(Append(s, e), Len(s) + 1, old, t, Entry(e, t, c))
           /\ Tells(e, t) => Told(Append(s, e), Len(s) + 1, old, t, e.req.cb)
           /\ (\A j \in 1 .. Len(s) : ~Tells(s[j], t)) /\ ~Tells(e, t) =>
                 \A j \in 1 .. Len(s) + 1 : ~Tells(Append(s, e)[j], t)
<1> DEFINE z == Append(s, e)
           n == Len(s)
<1>1. n \in Nat /\ z[n + 1] = e /\ \A i \in 1 .. n : z[i] = s[i]
  BY LenProperties, AppendProperties
<1> HIDE DEF z, n
<1>2. ASSUME NEW m \in 0 .. n, Told(s, m, old, t, c) PROVE Told(z, m, old, t, c)
  <2>1. \A i \in 1 .. m : z[i] = s[i]
    BY <1>1
  <2> QED BY <1>2, <2>1, Zenon DEF Told
<1>3. ASSUME Tells(e, t) PROVE Told(z, n + 1, old, t, e.req.cb)
  <2>1. n + 1 \in 1 .. n + 1 /\ \A j \in 1 .. n + 1 : ~(j > n + 1)
    BY <1>1
  <2> QED BY <1>1, <1>3, <2>1, Zenon DEF Told
<1>4. ASSUME ~Tells(e, t), Told(s, n, old, t, c) PROVE Told(z, n + 1, old, t, c)
  <2>1. \A j \in 1 .. n + 1 : j = n + 1 \/ j \in 1 .. n
    BY <1>1
  <2>2. \A j \in 1 .. n : j \in 1 .. n + 1
    BY <1>1
  <2>3. CASE (\A j \in 1 .. n : ~Tells(s[j], t)) /\ old = c
    <3>1. \A j \in 1 .. n + 1 : ~Tells(z[j], t)
      BY <1>1, <1>4, <2>1, <2>3, Zenon
    <3> QED BY <2>3, <3>1 DEF Told
  <2>4. ASSUME NEW i \in 1 .. n, Tells(s[i], t), s[i].req.cb = c, \A j \in 1 .. n : j > i => ~Tells(s[j], t)
        PROVE  Told(z, n + 1, old, t, c)
    <3>1. Tells(z[i], t) /\ z[i].req.cb = c
      BY <1>1, <2>4, Zenon
    <3>2. \A j \in 1 .. n + 1 : j > i => ~Tells(z[j], t)
      BY <1>1, <1>4, <2>1, <2>4, Zenon
    <3> QED BY <2>2, <3>1, <3>2, Zenon DEF Told
  <2> QED BY <1>4, <2>3, <2>4 DEF Told
<1>5. ASSUME \A j \in 1 .. n : ~Tells(s[j], t), ~Tells(e, t) PROVE \A j \in 1 .. n + 1 : ~Tells(z[j], t)
  <2>1. \A j \in 1 .. n + 1 : j = n + 1 \/ j \in 1 .. n
    BY <1>1
  <2> QED BY <1>1, <1>5, <2>1, Zenon
<1>6. Told(s, n, old, t, c) => Told(z, n + 1, old, t, Entry(e, t, c))
  <2>1. CASE Tells(e, t)
    BY <1>3, <2>1 DEF Entry
  <2>2. CASE ~Tells(e, t)
    BY <1>4, <2>2 DEF Entry
  <2> QED BY <2>1, <2>2
<1> QED BY <1>2, <1>3, <1>5, <1>6 DEF z, n

\* Handling the first packet leaves the outcome.
LEMMA ToldTail ==
    ASSUME NEW s \in Seq(Packets), s # <<>>, NEW m \in 0 .. Len(s) - 1, NEW old, NEW t, NEW c,
           Told(s, m + 1, old, t, c)
    PROVE  Told(Tail(s), m, Entry(s[1], t, old), t, c)
<1> DEFINE z == Tail(s)
<1>1. Len(s) \in Nat /\ m \in Nat /\ \A i \in 1 .. m : z[i] = s[i + 1]
  BY FirstRest
<1> HIDE DEF z
<1>2. 1 \in 1 .. m + 1 /\ \A i \in 1 .. m : i + 1 \in 1 .. m + 1 /\ i + 1 > 1
  BY <1>1
<1>3. CASE (\A j \in 1 .. m + 1 : ~Tells(s[j], t)) /\ old = c
  <2>1. (\A j \in 1 .. m : ~Tells(z[j], t)) /\ ~Tells(s[1], t)
    BY <1>1, <1>2, <1>3, Zenon
  <2> QED BY <1>3, <2>1 DEF Told, Entry
<1>4. ASSUME NEW i \in 1 .. m + 1, Tells(s[i], t), s[i].req.cb = c, \A j \in 1 .. m + 1 : j > i => ~Tells(s[j], t)
      PROVE  Told(z, m, Entry(s[1], t, old), t, c)
  <2>1. CASE i = 1
    <3>1. \A j \in 1 .. m : ~Tells(z[j], t)
      BY <1>1, <1>2, <1>4, <2>1, Zenon
    <3>2. Entry(s[1], t, old) = c
      BY <1>4, <2>1 DEF Entry
    <3> QED BY <3>1, <3>2 DEF Told
  <2>2. CASE i # 1
    <3> DEFINE k == i - 1
    <3>1. k \in 1 .. m /\ k + 1 = i /\ \A j \in 1 .. m : j > k => j + 1 > i
      BY <1>1, <2>2
    <3> HIDE DEF k
    <3>2. Tells(z[k], t) /\ z[k].req.cb = c
      BY <1>1, <1>4, <3>1, Zenon
    <3>3. \A j \in 1 .. m : j > k => ~Tells(z[j], t)
      BY <1>1, <1>2, <1>4, <3>1, Zenon
    <3> QED BY <3>1, <3>2, <3>3, Zenon DEF Told
  <2> QED BY <2>1, <2>2
<1> QED BY <1>3, <1>4 DEF Told, z

\* onConnected() asks for every topic it has an entry for.
LEMMA AllTopics ==
    ASSUME NEW S, IsFiniteSet(S)
    PROVE  /\ SetToSeq(S) \in Seq(S)
           /\ \A t \in S : \E i \in 1 .. Len(SetToSeq(S)) : SetToSeq(S)[i] = t
<1> DEFINE n == Cardinality(S)
           q == SetToSeq(S)
<1>1. n \in Nat /\ ExistsBijection(1 .. n, S)
  BY FS_CardinalityType
<1>2. PICK f : f \in Bijection(1 .. n, S)
  BY <1>1, Fun_ExistsBij
<1>3. f \in [1 .. n -> S] /\ IsInjective(f)
  BY <1>2 DEF Bijection, Injection
<1>4. q \in [1 .. n -> S] /\ IsInjective(q)
  BY <1>3 DEF SetToSeq
<1> HIDE DEF q
<1>5. q \in Injection(1 .. n, S)
  BY <1>4 DEF Injection
<1>6. Cardinality(1 .. n) = n
  BY <1>1, FS_Interval
<1>7. q \in Surjection(1 .. n, S)
  BY <1>5, <1>6, FS_Injection
<1>8. q \in Seq(S) /\ Len(q) = n
  BY <1>1, <1>4
<1>9. \A t \in S : \E i \in 1 .. n : q[i] = t
  BY <1>7 DEF Surjection
<1> QED BY <1>8, <1>9 DEF q

\* A message sent under a subscription the client will know of.
LEMMA MessagesAppend ==
    ASSUME NEW s \in Seq(Packets), NEW e \in Packets, NEW entries, MessagesOK(s, entries),
           e.kind = "message" => Told(s, Len(s), entries[e.req.topic], e.req.topic, e.req.cb)
    PROVE  MessagesOK(Append(s, e), entries)
<1> DEFINE z == Append(s, e)
<1>1. /\ Len(s) \in Nat /\ Len(z) = Len(s) + 1 /\ z[Len(s) + 1] = e /\ \A i \in 1 .. Len(s) : z[i] = s[i]
  BY LenProperties, AppendProperties
<1>2. \A m \in 0 .. Len(s) : \A old, t, c : Told(s, m, old, t, c) => Told(z, m, old, t, c)
  BY ToldAppend
<1> HIDE DEF z
<1>3. ASSUME NEW k \in 1 .. Len(z), z[k].kind = "message"
      PROVE  Told(z, k - 1, entries[z[k].req.topic], z[k].req.topic, z[k].req.cb)
  <2>1. k - 1 \in 0 .. Len(s)
    BY <1>1
  <2>2. CASE k \in 1 .. Len(s)
    <3>1. z[k] = s[k]
      BY <1>1, <2>2
    <3>2. Told(s, k - 1, entries[s[k].req.topic], s[k].req.topic, s[k].req.cb)
      BY <1>3, <2>2, <3>1 DEF MessagesOK
    <3> QED BY <1>2, <2>1, <3>1, <3>2
  <2>3. CASE k = Len(s) + 1
    <3>1. z[k] = e /\ k - 1 = Len(s)
      BY <1>1, <2>3
    <3> QED BY <1>2, <1>3, <2>1, <3>1
  <2> QED BY <1>1, <2>2, <2>3
<1> QED BY <1>3 DEF MessagesOK, z

\* Handling a packet keeps the later messages in order.
LEMMA MessagesTail ==
    ASSUME NEW s \in Seq(Packets), s # <<>>, NEW entries, NEW later, MessagesOK(s, entries),
           \A t \in Topics : later[t] = Entry(s[1], t, entries[t])
    PROVE  MessagesOK(Tail(s), later)
<1> DEFINE z == Tail(s)
<1>1. /\ Len(s) \in Nat /\ Len(s) >= 1 /\ z \in Seq(Packets) /\ Len(z) = Len(s) - 1
      /\ \A k \in 1 .. Len(s) - 1 : z[k] = s[k + 1]
  BY FirstRest
<1>2. \A m \in 0 .. Len(s) - 1 : \A old, t, c : Told(s, m + 1, old, t, c) => Told(z, m, Entry(s[1], t, old), t, c)
  BY ToldTail
<1> HIDE DEF z
<1>3. ASSUME NEW k \in 1 .. Len(z), z[k].kind = "message"
      PROVE  Told(z, k - 1, later[z[k].req.topic], z[k].req.topic, z[k].req.cb)
  <2> DEFINE t == z[k].req.topic
  <2>1. k - 1 \in 0 .. Len(s) - 1 /\ k + 1 \in 1 .. Len(s) /\ (k + 1) - 1 = (k - 1) + 1 /\ z[k] = s[k + 1]
    BY <1>1
  <2>2. z[k] \in Packets
    BY <1>1, ElementOfSeq
  <2>3. t \in Topics
    BY <1>3, <2>2 DEF Packets
  <2>4. Told(s, (k - 1) + 1, entries[t], t, z[k].req.cb)
    BY <1>3, <2>1 DEF MessagesOK
  <2> HIDE DEF t
  <2>5. Told(z, k - 1, Entry(s[1], t, entries[t]), t, z[k].req.cb)
    BY <1>2, <2>1, <2>4
  <2> QED BY <2>3, <2>5 DEF t
<1> QED BY <1>3 DEF MessagesOK, z

\* A request sent leaves the outcome for a topic.
LEMMA HeldSend ==
    ASSUME NEW s, NEW v \in Seq(Requests), NEW r \in Requests, NEW old, NEW t, NEW c, NEW no,
           Held(s, v, old, t, c, no)
    PROVE  Held(s, Append(v, r), old, t, c, no)
<1>1. /\ Len(v) \in Nat /\ Len(Append(v, r)) = Len(v) + 1 /\ \A i \in 1 .. Len(v) : Append(v, r)[i] = v[i]
  BY LenProperties, AppendProperties
<1>2. ASSUME StillToCome(v, t) PROVE StillToCome(Append(v, r), t)
  <2>1. PICK k \in 1 .. Len(v) : v[k].op = "resubscribe" /\ v[k].topic = t
    BY <1>2 DEF StillToCome
  <2>2. k \in 1 .. Len(Append(v, r)) /\ Append(v, r)[k] = v[k]
    BY <1>1
  <2> QED BY <2>1, <2>2 DEF StillToCome
<1> QED BY <1>2, Zenon DEF Held

\* A reply brings the outcome for a topic to what the server did.
LEMMA HeldServe ==
    ASSUME NEW s \in Seq(Packets), NEW v \in Seq(Requests), v # <<>>, NEW e \in Packets, NEW old, NEW t \in Topics,
           NEW c, NEW no, NEW no2, e.kind = "reply", e.req = Head(v),
           Held(s, v, old, t, c, no), no => no2,
           e.req.op = "resubscribe" /\ e.req.topic = t /\ ~e.ok => no2
    PROVE  Held(Append(s, e), Tail(v), old, t, Entry(e, t, c), no2)
<1> DEFINE z == Append(s, e)
           w == Tail(v)
<1>1. Len(z) = Len(s) + 1
  BY AppendProperties
<1>2. /\ Len(v) \in Nat /\ Len(v) >= 1 /\ Head(v) = v[1] /\ Len(w) = Len(v) - 1
      /\ \A k \in 1 .. Len(v) - 1 : w[k] = v[k + 1]
  BY FirstRest
<1>3. CASE Told(s, Len(s), old, t, c)
  BY <1>1, <1>3, ToldAppend DEF Held
<1>4. CASE Tells(e, t)
  <2>1. Told(z, Len(z), old, t, e.req.cb)
    BY <1>1, <1>4, ToldAppend
  <2> QED BY <1>4, <2>1 DEF Held, Entry
<1>5. ASSUME c = NoCallback, \A j \in 1 .. Len(s) : ~Tells(s[j], t), no \/ StillToCome(v, t), ~Tells(e, t)
      PROVE  Held(z, w, old, t, Entry(e, t, c), no2)
  <2>1. \A j \in 1 .. Len(z) : ~Tells(z[j], t)
    BY <1>1, <1>5, ToldAppend
  <2>2. Entry(e, t, c) = NoCallback
    BY <1>5 DEF Entry
  <2>3. ASSUME StillToCome(v, t), ~no2 PROVE StillToCome(w, t)
    <3>1. PICK k \in 1 .. Len(v) : v[k].op = "resubscribe" /\ v[k].topic = t
      BY <2>3 DEF StillToCome
    <3>2. k # 1
      <4>1. CASE e.ok
        BY <1>2, <1>5, <3>1, <4>1 DEF Tells
      <4>2. CASE ~e.ok
        BY <1>2, <2>3, <3>1, <4>2
      <4> QED BY <4>1, <4>2
    <3> DEFINE i == k - 1
    <3>3. i \in 1 .. Len(w) /\ i \in 1 .. Len(v) - 1 /\ i + 1 = k
      BY <1>2, <3>2
    <3> HIDE DEF i
    <3>4. w[i] = v[k]
      BY <1>2, <3>3
    <3> QED BY <3>1, <3>3, <3>4 DEF StillToCome
  <2> QED BY <1>5, <2>1, <2>2, <2>3, Zenon DEF Held
<1> QED BY <1>3, <1>4, <1>5, Zenon DEF Held

\* So does a message.
LEMMA HeldPublish ==
    ASSUME NEW s \in Seq(Packets), NEW v, NEW e \in Packets, NEW old, NEW t, NEW c, NEW no,
           e.kind # "reply", Held(s, v, old, t, c, no)
    PROVE  Held(Append(s, e), v, old, t, c, no)
<1>1. Len(Append(s, e)) = Len(s) + 1
  BY AppendProperties
<1>2. ~Tells(e, t) /\ Entry(e, t, c) = c
  BY DEF Tells, Entry
<1>3. Told(s, Len(s), old, t, c) => Told(Append(s, e), Len(s) + 1, old, t, c)
  BY <1>2, ToldAppend
<1>4. (\A j \in 1 .. Len(s) : ~Tells(s[j], t)) => \A j \in 1 .. Len(s) + 1 : ~Tells(Append(s, e)[j], t)
  BY <1>2, ToldAppend
<1> QED BY <1>1, <1>3, <1>4, Zenon DEF Held

\* And a packet that is handled.
LEMMA HeldRecv ==
    ASSUME NEW s \in Seq(Packets), s # <<>>, NEW v, NEW old, NEW t, NEW c, NEW no, Held(s, v, old, t, c, no)
    PROVE  Held(Tail(s), v, Entry(s[1], t, old), t, c, no)
<1> DEFINE z == Tail(s)
<1>1. /\ Len(s) \in Nat /\ Len(s) >= 1 /\ Len(z) = Len(s) - 1
      /\ \A k \in 1 .. Len(s) - 1 : z[k] = s[k + 1]
  BY FirstRest
<1>2. Len(s) - 1 \in 0 .. Len(s) - 1 /\ (Len(s) - 1) + 1 = Len(s)
  BY <1>1
<1>3. CASE Told(s, Len(s), old, t, c)
  <2>1. Told(z, Len(s) - 1, Entry(s[1], t, old), t, c)
    BY <1>2, <1>3, ToldTail
  <2> QED BY <1>1, <2>1 DEF Held
<1>4. ASSUME c = NoCallback, \A j \in 1 .. Len(s) : ~Tells(s[j], t), no \/ StillToCome(v, t)
      PROVE  Held(z, v, Entry(s[1], t, old), t, c, no)
  <2>1. \A j \in 1 .. Len(z) : ~Tells(z[j], t)
    <3>1. \A j \in 1 .. Len(z) : z[j] = s[j + 1] /\ j + 1 \in 1 .. Len(s)
      BY <1>1
    <3> QED BY <1>4, <3>1
  <2> HIDE DEF z
  <2> QED BY <1>4, <2>1, Zenon DEF Held
<1> QED BY <1>3, <1>4, Zenon DEF Held

\* subscribe() and unSubscribe() keep the invariant.
LEMMA SendRequestStep ==
    ASSUME SubTypes, SubLive, NEW req \in Requests, SendRequest(req)
    PROVE  SubTypes' /\ SubLive'
<1>1. /\ callbacks_ \in Seq(Requests) /\ toServer \in Seq(Requests) /\ toClient \in Seq(Packets)
      /\ Pairs(callbacks_, toClient, toServer) /\ MessagesOK(toClient, sub_callbacks_)
  BY DEF SubTypes, SubLive
<1>2. /\ sub_up /\ callbacks_' = Append(callbacks_, req) /\ toServer' = Append(toServer, req)
      /\ UNCHANGED <<sub_up, sub_callbacks_, toClient, serverSubs, refused, crashed>>
  BY DEF SendRequest
<1>3. SubTypes'
  BY <1>1, <1>2, AppendProperties DEF SubTypes, SubTypeOK
<1>4. Pairs(callbacks_, toClient, toServer)'
  <2>1. Pairs(Append(callbacks_, req), toClient, Append(toServer, req))
    BY <1>1, PairsSend
  <2> QED BY <1>2, <2>1, Zenon
<1>5. SubTold'
  <2>1. \A t \in Topics : Held(toClient, Append(toServer, req), sub_callbacks_[t], t, serverSubs[t], t \in refused)
    BY <1>1, <1>2, HeldSend DEF SubLive, SubTold
  <2> QED BY <1>2, <2>1, Zenon DEF SubTold
<1>6. SubDown'
  BY <1>2 DEF SubDown
<1>7. MessagesOK(toClient, sub_callbacks_)'
  BY <1>1, <1>2, Zenon
<1> QED BY <1>3, <1>4, <1>5, <1>6, <1>7 DEF SubLive

\* The server taking a request keeps it.
LEMMA ServerHandlesStep ==
    ASSUME SubTypes, SubLive, ServerHandles
    PROVE  SubTypes' /\ SubLive'
<1> DEFINE req == Head(toServer)
<1>1. /\ callbacks_ \in Seq(Requests) /\ toServer \in Seq(Requests) /\ toClient \in Seq(Packets)
      /\ Pairs(callbacks_, toClient, toServer) /\ MessagesOK(toClient, sub_callbacks_) /\ toServer # <<>>
      /\ sub_up /\ toServer' = Tail(toServer) /\ SubTypeOK
      /\ UNCHANGED <<sub_up, callbacks_, sub_callbacks_, crashed>>
  BY DEF SubTypes, SubLive, ServerHandles
<1>2. req \in Requests /\ Tail(toServer) \in Seq(Requests)
  BY <1>1, FirstRest
<1>3. PICK granted \in BOOLEAN :
        /\ req.op \notin {"subscribe", "resubscribe"} => granted
        /\ toClient' = Append(toClient, Reply(req, granted))
        /\ serverSubs' = IF granted /\ req.topic \in Topics THEN [serverSubs EXCEPT ![req.topic] = req.cb] ELSE serverSubs
        /\ refused' = IF ~granted /\ req.op = "resubscribe" THEN refused \cup {req.topic} ELSE refused
  BY DEF ServerHandles
<1> DEFINE e == Reply(req, granted)
<1>4. e \in Packets /\ e.kind = "reply" /\ e.req = req /\ e.ok = granted
  BY <1>2, <1>3 DEF Reply, Packets
<1> HIDE DEF req
<1>5. \A t \in Topics : serverSubs'[t] = Entry(e, t, serverSubs[t])
  <2> TAKE t \in Topics
  <2>1. serverSubs \in [Topics -> MsgCallbacks \cup {NoCallback}]
    BY <1>1 DEF SubTypeOK
  <2>2. CASE granted /\ req.topic = t
    BY <1>3, <1>4, <2>1, <2>2 DEF Entry, Tells
  <2>3. CASE ~(granted /\ req.topic = t)
    <3>1. ~Tells(e, t)
      BY <1>4, <2>3 DEF Tells
    <3>2. serverSubs'[t] = serverSubs[t]
      BY <1>3, <2>1, <2>3
    <3> QED BY <3>1, <3>2 DEF Entry
  <2> QED BY <2>2, <2>3
<1>6. SubTypes'
  <2>1. toClient' \in Seq(Packets)
    BY <1>1, <1>3, <1>4, AppendProperties
  <2>2. req.op = "resubscribe" => req.topic \in Topics
    BY <1>2 DEF Requests
  <2>3. refused' \subseteq Topics
    BY <1>1, <1>3, <2>2 DEF SubTypeOK
  <2>4. req.cb \in MsgCallbacks \cup {NoCallback}
    BY <1>2 DEF Requests
  <2>5. serverSubs' \in [Topics -> MsgCallbacks \cup {NoCallback}]
    BY <1>1, <1>3, <2>4 DEF SubTypeOK
  <2> QED BY <1>1, <1>2, <2>1, <2>3, <2>5 DEF SubTypes, SubTypeOK
<1> HIDE DEF e
<1>7. toClient' = Append(toClient, e)
  BY <1>3 DEF e
<1>8. Pairs(callbacks_, toClient, toServer)'
  <2>1. Pairs(callbacks_, Append(toClient, e), Tail(toServer))
    BY <1>1, <1>4, PairsServe DEF req
  <2> QED BY <1>1, <1>7, <2>1, Zenon
<1>9. MessagesOK(toClient, sub_callbacks_)'
  <2>1. MessagesOK(Append(toClient, e), sub_callbacks_)
    BY <1>1, <1>4, MessagesAppend
  <2> QED BY <1>1, <1>7, <2>1, Zenon
<1>10. ASSUME NEW t \in Topics
       PROVE  Held(toClient, toServer, sub_callbacks_[t], t, serverSubs[t], t \in refused)'
  <2>1. Held(toClient, toServer, sub_callbacks_[t], t, serverSubs[t], t \in refused)
    BY <1>1 DEF SubLive, SubTold
  <2>2. t \in refused => t \in refused'
    BY <1>3
  <2>3. e.req.op = "resubscribe" /\ e.req.topic = t /\ ~e.ok => t \in refused'
    BY <1>3, <1>4
  <2>4. Held(Append(toClient, e), Tail(toServer), sub_callbacks_[t], t, Entry(e, t, serverSubs[t]), t \in refused')
    BY <1>1, <1>4, <2>1, <2>2, <2>3, HeldServe DEF req
  <2>5. Entry(e, t, serverSubs[t]) = serverSubs'[t] /\ sub_callbacks_'[t] = sub_callbacks_[t]
    BY <1>1, <1>5
  <2> QED BY <1>1, <1>7, <2>4, <2>5, Zenon
<1>11. SubDown'
  BY <1>1 DEF SubDown
<1> QED BY <1>6, <1>8, <1>9, <1>10, <1>11 DEF SubLive, SubTold

\* A message keeps it.
LEMMA PublishStep ==
    ASSUME SubTypes, SubLive, NEW topic \in Topics, Publish(topic)
    PROVE  SubTypes' /\ SubLive'
<1> DEFINE e == Message(topic, serverSubs[topic])
<1>1. /\ callbacks_ \in Seq(Requests) /\ toServer \in Seq(Requests) /\ toClient \in Seq(Packets)
      /\ Pairs(callbacks_, toClient, toServer) /\ MessagesOK(toClient, sub_callbacks_) /\ SubTypeOK
      /\ sub_up /\ serverSubs[topic] # NoCallback /\ toClient' = Append(toClient, e)
      /\ UNCHANGED <<sub_up, callbacks_, sub_callbacks_, toServer, serverSubs, refused, crashed>>
  BY DEF SubTypes, SubLive, Publish
<1>2. serverSubs[topic] \in MsgCallbacks
  BY <1>1 DEF SubTypeOK
<1>3. e \in Packets /\ e.kind = "message" /\ e.kind # "reply" /\ e.req.topic = topic /\ e.req.cb = serverSubs[topic]
  BY <1>2 DEF Message, Request, Packets
<1> HIDE DEF e
<1>4. Held(toClient, toServer, sub_callbacks_[topic], topic, serverSubs[topic], topic \in refused)
  BY <1>1 DEF SubLive, SubTold
<1>5. Told(toClient, Len(toClient), sub_callbacks_[topic], topic, serverSubs[topic])
  BY <1>1, <1>4 DEF Held
<1>6. MessagesOK(toClient, sub_callbacks_)'
  <2>1. MessagesOK(Append(toClient, e), sub_callbacks_)
    BY <1>1, <1>3, <1>5, MessagesAppend
  <2> QED BY <1>1, <2>1, Zenon
<1>7. Pairs(callbacks_, toClient, toServer)'
  <2>1. Pairs(callbacks_, Append(toClient, e), toServer)
    BY <1>1, <1>3, PairsPublish
  <2> QED BY <1>1, <2>1, Zenon
<1>8. SubTold'
  <2>1. \A t \in Topics : Held(Append(toClient, e), toServer, sub_callbacks_[t], t, serverSubs[t], t \in refused)
    BY <1>1, <1>3, HeldPublish DEF SubLive, SubTold
  <2> QED BY <1>1, <2>1, Zenon DEF SubTold
<1>9. SubTypes' /\ SubDown'
  <2>1. toClient' \in Seq(Packets)
    BY <1>1, <1>3, AppendProperties
  <2> QED BY <1>1, <2>1 DEF SubTypes, SubTypeOK, SubDown
<1> QED BY <1>6, <1>7, <1>8, <1>9 DEF SubLive

\* A packet arrives: entries follow what it tells.
LEMMA RecvStep ==
    ASSUME SubTypes, SubLive, toClient # <<>>, toClient' = Tail(toClient),
           sub_callbacks_' \in [Topics -> MsgCallbacks \cup {NoCallback}],
           \A t \in Topics : sub_callbacks_'[t] = Entry(toClient[1], t, sub_callbacks_[t]),
           Pairs(callbacks_', Tail(toClient), toServer), callbacks_' \in Seq(Requests),
           UNCHANGED <<sub_up, toServer, serverSubs, refused, crashed>>
    PROVE  SubTypes' /\ SubLive'
<1>1. toClient \in Seq(Packets) /\ MessagesOK(toClient, sub_callbacks_) /\ Tail(toClient) \in Seq(Packets)
  BY FirstRest DEF SubTypes, SubLive
<1>2. sub_up
  BY DEF SubLive, SubDown
<1>3. MessagesOK(toClient, sub_callbacks_)'
  <2>1. MessagesOK(Tail(toClient), sub_callbacks_')
    BY <1>1, MessagesTail
  <2> QED BY <2>1, Zenon
<1>4. ASSUME NEW t \in Topics
      PROVE  Held(toClient, toServer, sub_callbacks_[t], t, serverSubs[t], t \in refused)'
  <2>1. Held(toClient, toServer, sub_callbacks_[t], t, serverSubs[t], t \in refused)
    BY <1>2 DEF SubLive, SubTold
  <2>2. Held(Tail(toClient), toServer, Entry(toClient[1], t, sub_callbacks_[t]), t, serverSubs[t], t \in refused)
    BY <1>1, <2>1, HeldRecv
  <2> QED BY <2>2, Zenon
<1>5. SubTypes' /\ SubDown'
  BY <1>1, <1>2 DEF SubTypes, SubTypeOK, SubDown
<1>6. Pairs(callbacks_, toClient, toServer)'
  BY Zenon
<1> QED BY <1>3, <1>4, <1>5, <1>6 DEF SubLive, SubTold

\* Receiving a message keeps it.
LEMMA RecvMessageStep ==
    ASSUME SubTypes, SubLive, RecvMessage
    PROVE  SubTypes' /\ SubLive'
<1>1. /\ toClient # <<>> /\ toClient \in Seq(Packets) /\ callbacks_ \in Seq(Requests) /\ toServer \in Seq(Requests)
      /\ Head(toClient).kind = "message" /\ toClient' = Tail(toClient) /\ Pairs(callbacks_, toClient, toServer)
      /\ UNCHANGED <<sub_up, callbacks_, sub_callbacks_, toServer, serverSubs, refused, crashed>> /\ SubTypeOK
  BY DEF RecvMessage, SubTypes, SubLive
<1>2. toClient[1].kind # "reply"
  BY <1>1, FirstRest
<1>3. \A t \in Topics : sub_callbacks_'[t] = Entry(toClient[1], t, sub_callbacks_[t])
  BY <1>1, <1>2 DEF Entry, Tells
<1>4. Pairs(callbacks_, Tail(toClient), toServer)
  BY <1>1, <1>2, PairsRecv
<1>5. sub_callbacks_' \in [Topics -> MsgCallbacks \cup {NoCallback}] /\ callbacks_' = callbacks_
  BY <1>1 DEF SubTypeOK
<1> QED BY <1>1, <1>3, <1>4, <1>5, RecvStep

\* Receiving a reply keeps it; callbacks_ is not empty then.
LEMMA RecvReplyStep ==
    ASSUME SubTypes, SubLive, ~crashed, RecvReply
    PROVE  SubTypes' /\ SubLive'
<1>1. /\ toClient # <<>> /\ toClient \in Seq(Packets) /\ callbacks_ \in Seq(Requests) /\ toServer \in Seq(Requests)
      /\ Head(toClient).kind = "reply" /\ toClient' = Tail(toClient) /\ Pairs(callbacks_, toClient, toServer)
      /\ UNCHANGED <<sub_up, toServer, serverSubs, refused>> /\ SubTypeOK
  BY DEF RecvReply, SubTypes, SubLive
<1>2. Head(toClient) = toClient[1] /\ toClient[1] \in Packets /\ toClient[1].kind = "reply"
  BY <1>1, FirstRest
<1>3. callbacks_ # <<>> /\ Head(callbacks_) = toClient[1].req /\ Pairs(Tail(callbacks_), Tail(toClient), toServer)
  BY <1>1, <1>2, PairsRecv
<1>4. Tail(callbacks_) \in Seq(Requests)
  BY <1>1, <1>3, FirstRest
<1>5. /\ sub_callbacks_' = DoPubSubResponse(toClient[1], toClient[1].req)
      /\ callbacks_' = Tail(callbacks_) /\ UNCHANGED crashed
  BY <1>2, <1>3 DEF RecvReply
<1> DEFINE p == toClient[1]
<1>6. p.req \in Requests /\ p.ok \in BOOLEAN
  BY <1>2 DEF Packets
<1> HIDE DEF p
<1>7. sub_callbacks_ \in [Topics -> MsgCallbacks \cup {NoCallback}]
  BY <1>1 DEF SubTypeOK
<1>8. CASE p.req.op = "setname" \/ ~p.ok
  <2>1. sub_callbacks_' = sub_callbacks_
    BY <1>5, <1>8 DEF DoPubSubResponse, p
  <2>2. \A t \in Topics : ~Tells(p, t)
    BY <1>6, <1>8, SubscribeAssumption DEF Tells, Requests
  <2>3. \A t \in Topics : sub_callbacks_'[t] = Entry(p, t, sub_callbacks_[t])
    BY <2>1, <2>2 DEF Entry
  <2> QED BY <1>1, <1>3, <1>4, <1>5, <1>7, <2>1, <2>3, RecvStep DEF p
<1>9. CASE p.req.op # "setname" /\ p.ok
  <2>1. p.req.topic \in Topics /\ p.req.cb \in MsgCallbacks \cup {NoCallback}
        /\ (p.req.op = "unsubscribe" => p.req.cb = NoCallback)
    BY <1>6, <1>9 DEF Requests
  <2>2. sub_callbacks_' = [sub_callbacks_ EXCEPT ![p.req.topic] = p.req.cb]
    BY <1>5, <1>9, <2>1 DEF DoPubSubResponse, DoPubSubCount, p
  <2>3. p.kind = "reply"
    BY <1>2 DEF p
  <2>4. \A t \in Topics : Tells(p, t) <=> p.req.topic = t
    BY <1>9, <2>3 DEF Tells
  <2>5. \A t \in Topics : sub_callbacks_'[t] = Entry(p, t, sub_callbacks_[t])
    BY <1>7, <2>2, <2>4 DEF Entry
  <2>6. sub_callbacks_' \in [Topics -> MsgCallbacks \cup {NoCallback}]
    BY <1>7, <2>1, <2>2
  <2> QED BY <1>1, <1>3, <1>4, <1>5, <2>5, <2>6, RecvStep DEF p
<1> QED BY <1>8, <1>9

\* Nothing has come back yet.
LEMMA NothingBack ==
    ASSUME NEW c \in Seq(Requests), NEW entries
    PROVE  Pairs(c, <<>>, c) /\ MessagesOK(<<>>, entries)
<1>1. Len(<<>>) = 0 /\ RepliesIn(<<>>, 0) = 0 /\ Len(c) \in Nat
  BY EmptySeq, CountType, LenProperties
<1>2. Len(c) = RepliesIn(<<>>, Len(<<>>)) + Len(c)
  BY <1>1
<1>3. \A k \in 1 .. Len(c) : c[RepliesIn(<<>>, Len(<<>>)) + k] = c[k]
  <2> TAKE k \in 1 .. Len(c)
  <2>1. RepliesIn(<<>>, Len(<<>>)) + k = k
    BY <1>1
  <2> QED BY <2>1
<1>4. 1 .. Len(<<>>) = {}
  BY <1>1
<1> QED BY <1>2, <1>3, <1>4 DEF Pairs, MessagesOK

\* Losing the connection keeps it.
LEMMA LoseStep ==
    ASSUME SubTypes, SubLive, Lose
    PROVE  SubTypes' /\ SubLive'
<1>1. /\ sub_up' = FALSE /\ toServer' = <<>> /\ toClient' = <<>> /\ serverSubs' = NoSubs
      /\ callbacks_' = <<>> /\ refused' = {} /\ sub_callbacks_' = sub_callbacks_ /\ crashed' = PubSubPending
  BY DEF Lose
<1>2. <<>> \in Seq(Requests) /\ <<>> \in Seq(Packets)
  BY EmptySeq
<1>3. NoSubs \in [Topics -> MsgCallbacks \cup {NoCallback}]
  BY DEF NoSubs
<1>4. PubSubPending \in BOOLEAN
  BY DEF PubSubPending
<1>5. SubTypes'
  BY <1>1, <1>2, <1>3, <1>4 DEF SubTypes, SubTypeOK
<1>6. Pairs(<<>>, <<>>, <<>>) /\ MessagesOK(<<>>, sub_callbacks_)
  BY <1>2, NothingBack
<1>7. Pairs(callbacks_, toClient, toServer)' /\ MessagesOK(toClient, sub_callbacks_)'
  BY <1>1, <1>6, Zenon
<1> QED BY <1>1, <1>5, <1>7 DEF SubLive, SubTold, SubDown

\* onConnected() asks again for what the maps hold, and keeps it.
LEMMA OnConnectedStep ==
    ASSUME SubTypes, SubLive, OnConnected
    PROVE  SubTypes' /\ SubLive'
<1> DEFINE S == {t \in Topics : sub_callbacks_[t] # NoCallback}
           order == SetToSeq(S)
           again == [i \in DOMAIN order |-> Again(order[i], sub_callbacks_[order[i]])]
           all == <<SetName>> \o again
<1>1. /\ ~sub_up /\ callbacks_ = <<>> /\ toClient = <<>> /\ serverSubs = NoSubs /\ refused = {} /\ SubTypeOK
      /\ callbacks_' = callbacks_ \o all /\ toServer' = all /\ sub_up' = TRUE
      /\ UNCHANGED <<sub_callbacks_, toClient, serverSubs, refused, crashed>>
  BY DEF OnConnected, SubLive, SubDown, SubTypes
<1>2. order \in Seq(S) /\ \A t \in S : \E i \in 1 .. Len(order) : order[i] = t
  <2>1. S \in SUBSET Topics
    OBVIOUS
  <2>2. IsFiniteSet(S)
    BY <2>1, SubscribeAssumption, FS_Subset
  <2> HIDE DEF S
  <2> QED BY <2>2, AllTopics
<1>3. \A t \in S : t \in Topics /\ Again(t, sub_callbacks_[t]) \in Requests
  BY <1>1 DEF SubTypeOK, Again, Request, Requests
<1>4. SetName \in Requests
  BY DEF SetName, Request, Requests
<1> HIDE DEF S, order
<1>5. again \in Seq(Requests) /\ Len(again) = Len(order)
  <2>1. Len(order) \in Nat /\ DOMAIN order = 1 .. Len(order)
    BY <1>2, LenProperties
  <2>2. \A i \in 1 .. Len(order) : Again(order[i], sub_callbacks_[order[i]]) \in Requests
    BY <1>2, <1>3, ElementOfSeq
  <2> QED BY <2>1, <2>2
<1>6. \A i \in 1 .. Len(order) : again[i] = Again(order[i], sub_callbacks_[order[i]])
  BY <1>2, LenProperties
<1> HIDE DEF again
<1>7. /\ all \in Seq(Requests) /\ Len(all) = 1 + Len(again)
      /\ \A i \in 1 .. Len(again) : all[i + 1] = again[i]
  <2>1. <<SetName>> \in Seq(Requests) /\ Len(<<SetName>>) = 1 /\ Len(again) \in Nat
    BY <1>4, <1>5, LenProperties
  <2> QED BY <1>5, <2>1, ConcatProperties
<1> HIDE DEF all
<1>8. callbacks_' = all
  BY <1>1, <1>7, ConcatEmptySeq
<1>9. Pairs(callbacks_, toClient, toServer)' /\ MessagesOK(toClient, sub_callbacks_)'
  <2>1. Pairs(all, <<>>, all) /\ MessagesOK(<<>>, sub_callbacks_)
    BY <1>7, NothingBack
  <2>2. callbacks_' = all /\ toServer' = all /\ toClient' = <<>> /\ sub_callbacks_' = sub_callbacks_
    BY <1>1, <1>8
  <2> QED BY <2>1, <2>2, Zenon
<1>10. ASSUME NEW t \in Topics
       PROVE  Held(<<>>, all, sub_callbacks_[t], t, NoCallback, FALSE)
  <2>1. Len(<<>>) = 0 /\ 1 .. 0 = {}
    BY EmptySeq
  <2>2. \A j \in 1 .. Len(<<>>) : ~Tells(<<>>[j], t)
    BY <2>1
  <2>3. CASE sub_callbacks_[t] = NoCallback
    BY <2>2, <2>3 DEF Held, Told
  <2>4. CASE sub_callbacks_[t] # NoCallback
    <3>1. t \in S
      BY <2>4 DEF S
    <3>2. PICK i \in 1 .. Len(order) : order[i] = t
      BY <1>2, <3>1
    <3>3. all[i + 1] = Again(t, sub_callbacks_[t])
      BY <1>5, <1>6, <1>7, <3>2
    <3>4. i + 1 \in 1 .. Len(all)
      BY <1>2, <1>5, <1>7, LenProperties
    <3>5. all[i + 1].op = "resubscribe" /\ all[i + 1].topic = t
      BY <3>3 DEF Again, Request
    <3>6. StillToCome(all, t)
      BY <3>4, <3>5 DEF StillToCome
    <3> QED BY <2>2, <3>6, Zenon DEF Held
  <2> QED BY <2>3, <2>4
<1>11. ASSUME NEW t \in Topics
       PROVE  Held(toClient, toServer, sub_callbacks_[t], t, serverSubs[t], t \in refused)'
  <2>1. /\ toClient' = <<>> /\ toServer' = all /\ sub_callbacks_'[t] = sub_callbacks_[t]
        /\ serverSubs'[t] = NoCallback /\ (t \in refused') = FALSE
    BY <1>1 DEF NoSubs
  <2> QED BY <1>10, <2>1
<1>12. SubTypes' /\ SubDown'
  <2>1. callbacks_' \in Seq(Requests) /\ toServer' \in Seq(Requests) /\ toClient' \in Seq(Packets)
    BY <1>1, <1>7, <1>8 DEF SubTypes
  <2> QED BY <1>1, <2>1 DEF SubTypes, SubTypeOK, SubDown
<1> QED BY <1>9, <1>11, <1>12 DEF SubLive, SubTold

\* Every step of TairSubscribeClient keeps it.
LEMMA SubStep ==
    ASSUME SubInv, SubNext \/ UNCHANGED subVars
    PROVE  SubInv'
<1>1. SubTypes /\ (~crashed => SubLive)
  BY DEF SubInv
<1> SUFFICES SubTypes' /\ (~crashed' => SubLive')
  BY DEF SubInv
<1>2. CASE UNCHANGED subVars
  BY <1>1, <1>2 DEF subVars, SubTypes, SubTypeOK, SubLive, SubTold, SubDown
<1>3. CASE SubNext
  <2>1. ~crashed
    BY <1>3 DEF SubNext, Subscribe, UnSubscribe, SendRequest, Publish, ServerHandles, RecvMessage, RecvReply,
                RecvReplyReentered, Lose, OnConnected
  <2>2. SubTypes /\ SubLive
    BY <1>1, <2>1
  <2>3. ASSUME NEW t \in Topics, NEW cb \in MsgCallbacks, Subscribe(t, cb) PROVE SubTypes' /\ SubLive'
    <3>1. Request("subscribe", t, cb) \in Requests
      BY DEF Request, Requests
    <3> QED BY <2>2, <2>3, <3>1, SendRequestStep DEF Subscribe
  <2>4. ASSUME NEW t \in Topics, UnSubscribe(t) PROVE SubTypes' /\ SubLive'
    <3>1. Request("unsubscribe", t, NoCallback) \in Requests
      BY DEF Request, Requests
    <3> QED BY <2>2, <2>4, <3>1, SendRequestStep DEF UnSubscribe
  <2>5. ASSUME NEW t \in Topics, Publish(t) PROVE SubTypes' /\ SubLive'
    BY <2>2, <2>5, PublishStep
  <2>6. ASSUME RecvReplyReentered PROVE SubTypes' /\ crashed'
    BY <2>2, <2>6 DEF RecvReplyReentered, SubTypes, SubTypeOK
  <2>7. ServerHandles => SubTypes' /\ SubLive'
    BY <2>2, ServerHandlesStep
  <2>8. RecvMessage => SubTypes' /\ SubLive'
    BY <2>2, RecvMessageStep
  <2>9. RecvReply => SubTypes' /\ SubLive'
    BY <2>1, <2>2, RecvReplyStep
  <2>10. Lose => SubTypes' /\ SubLive'
    BY <2>2, LoseStep
  <2>11. OnConnected => SubTypes' /\ SubLive'
    BY <2>2, OnConnectedStep
  <2> QED BY <1>3, <2>3, <2>4, <2>5, <2>6, <2>7, <2>8, <2>9, <2>10, <2>11 DEF SubNext
<1> QED BY <1>2, <1>3

\* It holds on the first connection.
LEMMA SubStart == SubInit => SubInv
<1> SUFFICES ASSUME SubInit PROVE SubInv
  OBVIOUS
<1>1. SetName \in Requests /\ <<SetName>> \in Seq(Requests) /\ <<>> \in Seq(Packets)
  BY DEF SetName, Request, Requests
<1>2. Pairs(<<SetName>>, <<>>, <<SetName>>) /\ MessagesOK(<<>>, sub_callbacks_)
  BY <1>1, NothingBack
<1>3. \A t \in Topics : Held(<<>>, <<SetName>>, NoCallback, t, NoCallback, FALSE)
  <2>1. Len(<<>>) = 0 /\ 1 .. 0 = {}
    BY EmptySeq
  <2> QED BY <2>1 DEF Held, Told
<1>4. SubTold
  <2>1. ASSUME NEW t \in Topics
        PROVE  Held(toClient, toServer, sub_callbacks_[t], t, serverSubs[t], t \in refused)
    <3>1. /\ toClient = <<>> /\ toServer = <<SetName>> /\ sub_callbacks_[t] = NoCallback
          /\ serverSubs[t] = NoCallback /\ (t \in refused) = FALSE
      BY DEF SubInit, NoSubs
    <3> QED BY <1>3, <3>1
  <2> QED BY <2>1 DEF SubTold
<1>5. SubTypes /\ SubDown
  BY <1>1 DEF SubInit, SubTypes, SubTypeOK, NoSubs, SubDown
<1> QED BY <1>2, <1>4, <1>5 DEF SubInv, SubLive, SubInit

\* It implies SubscriptionsAgree.
LEMMA SubImplies ==
    ASSUME SubInv
    PROVE  SubscriptionsAgree
<1>1. SubTypeOK /\ RepliesPairUp
  BY DEF SubInv, SubLive, SubTypes, RepliesPairUp, Pairs
<1>2. ASSUME ~crashed, toClient # <<>>, Head(toClient).kind = "message"
      PROVE  sub_callbacks_[Head(toClient).req.topic] = Head(toClient).req.cb
  <2>1. toClient \in Seq(Packets) /\ MessagesOK(toClient, sub_callbacks_)
    BY <1>2 DEF SubInv, SubLive, SubTypes
  <2>2. Head(toClient) = toClient[1] /\ 1 \in 1 .. Len(toClient)
    BY <1>2, <2>1, FirstRest
  <2>3. Told(toClient, 1 - 1, sub_callbacks_[toClient[1].req.topic], toClient[1].req.topic, toClient[1].req.cb)
    BY <1>2, <2>1, <2>2 DEF MessagesOK
  <2>4. 1 .. (1 - 1) = {}
    OBVIOUS
  <2>5. sub_callbacks_[toClient[1].req.topic] = toClient[1].req.cb
    BY <2>3, <2>4 DEF Told
  <2> QED BY <2>2, <2>5
<1>3. ASSUME sub_up, ~crashed, callbacks_ = <<>>, NEW t \in Topics
      PROVE  sub_callbacks_[t] = serverSubs[t] \/ t \in refused
  <2>1. /\ toClient \in Seq(Packets) /\ toServer \in Seq(Requests) /\ Pairs(callbacks_, toClient, toServer)
        /\ Held(toClient, toServer, sub_callbacks_[t], t, serverSubs[t], t \in refused)
    BY <1>3 DEF SubInv, SubLive, SubTypes, SubTold
  <2>2. Len(toClient) \in Nat /\ Len(toServer) \in Nat /\ RepliesIn(toClient, Len(toClient)) \in Nat
    BY <2>1, LenProperties, CountType
  <2>3. Len(callbacks_) = 0
    BY <1>3, EmptySeq
  <2>4. RepliesIn(toClient, Len(toClient)) = 0 /\ Len(toServer) = 0
    BY <2>1, <2>2, <2>3 DEF Pairs
  <2>5. ASSUME NEW i \in 1 .. Len(toClient) PROVE ~Tells(toClient[i], t)
    <3>1. toClient[i].kind # "reply"
      BY <2>2, <2>4, CountAt
    <3> QED BY <3>1 DEF Tells
  <2>6. ~StillToCome(toServer, t)
    BY <2>4 DEF StillToCome
  <2> QED BY <2>1, <2>5, <2>6, Zenon DEF Held, Told
<1> QED BY <1>1, <1>2, <1>3 DEF SubscriptionsAgree, MessagesFindTheirCallback, QuietAgree

(***************************************************************************)
(* The composition                                                         *)
(***************************************************************************)
\* Every step of the composition is a step of one use that the others do not see.
LEMMA UseStep ==
    ASSUME [Next]_vars
    PROVE  /\ TxNext \/ UNCHANGED txVars
           /\ FanNext \/ UNCHANGED fanVars
           /\ SubNext \/ UNCHANGED subVars
BY DEF Next, vars

\* When the server meets an EXEC, what it has queued is the end of the batch
\* collected for that EXEC, in order: never a command of another one.  Called on
\* the loop thread it is the whole batch, and no command runs outside a
\* transaction, wherever the connection is cut and replaced.
THEOREM TransactionsStayWhole == Spec => []TransactionIsWhole
<1>1. Init => TxInv
  BY TxStart DEF Init
<1>2. TxInv /\ [Next]_vars => TxInv'
  BY UseStep, TxStep
<1> QED BY <1>1, <1>2, TxImplies, PTL DEF Spec

\* keys() of the cluster client, for any number of nodes: when it reports success
\* at most one node's keys are missing, those of the callback that counted the
\* latch down last and has not yet written its part.
THEOREM KeysMissOneNodeAtMost == Spec => []KeysMissesAtMostTheLast
<1>1. Init => FanInv
  BY FanStart DEF Init
<1>2. FanInv /\ [Next]_vars => FanInv'
  BY UseStep, FanStep
<1> QED BY <1>1, <1>2, FanImplies, PTL DEF Spec

\* A client that survives its losses agrees with the server: each reply meets
\* the request it answers, each message the callback of its subscription, and at
\* rest both hold the same topics, whatever was lost and subscribed again.
THEOREM SubscriptionsStayInStep == Spec => []SubscriptionsAgree
<1>1. Init => SubInv
  BY SubStart DEF Init
<1>2. SubInv /\ [Next]_vars => SubInv'
  BY UseStep, SubStep
<1> QED BY <1>1, <1>2, SubImplies, PTL DEF Spec
==============================================================================
