------------------------------ MODULE TcpOutput ------------------------------
(* The output side of network::TcpConnection, on its loop: sendInLoop(),      *)
(* handleWrite() and sendOutputBuffer(), with the user's callbacks, which may *)
(* send, flush, append to the buffer or close before the call goes on.  Bytes *)
(* are numbered in the order they are handed over.                            *)
EXTENDS Integers, Sequences

CONSTANTS MaxBytes, high_water_mark_, MaxDepth  \* MaxDepth: calls inside one another's callbacks

\* The mark is 128 MB or set by the user; a mark of 0 would ask for a call when
\* nothing waits.
ASSUME HighWaterAssumption == high_water_mark_ \in Nat \ {0} /\ MaxBytes \in Nat

VARIABLES
    output_buffer_, wire,  \* bytes kept, and bytes the socket has taken
    rest,                  \* bytes the sends in progress hold, the innermost send's first
    calls,                 \* the calls in progress, each in a callback, the innermost first
    handed, refused,       \* how many bytes were handed over; those a before_write callback dropped
    passes,                \* history: for each byte, those held by a call in progress when it was handed over
    writeEvent,            \* channel_->hasWritableEvent()
    outConnected,          \* status_ == kConnected
    outCrash,              \* enableWriteEvent() after closeEvent() freed the event
    highCalls,             \* history: calls of the high water callback since output_buffer_ was below the mark
    unasked, appended,     \* history: bytes were put into output_buffer_ directly (and no write event asked for)
    nested, endedInside    \* history: a call was made, the connection ended, inside a call's callback

outBytes == <<output_buffer_, wire, rest, handed, refused, passes>>
outLog == <<highCalls, unasked, appended, nested, endedInside>>
outVars == <<outBytes, calls, writeEvent, outConnected, outCrash, outLog>>

\* A call in progress: the callback it is in ("before", "written", "high" of
\* sendInLoop(); "may", "flushed", "complete", "ask" of handleWrite() and
\* sendOutputBuffer()), the bytes of rest that are not its own, and whether it is
\* sendOutputBuffer().
Call(at, below, watch) == [at |-> at, below |-> below, watch |-> watch]

OutInit ==
    /\ output_buffer_ = <<>> /\ wire = <<>> /\ rest = <<>> /\ calls = <<>> /\ handed = 0 /\ refused = {}
    /\ passes = [b \in 1 .. MaxBytes |-> {}] /\ writeEvent = FALSE /\ outConnected = TRUE /\ outCrash = FALSE
    /\ highCalls = 0 /\ unasked = FALSE /\ appended = FALSE /\ nested = FALSE /\ endedInside = FALSE

Bytes(m, n) == [i \in 1 .. n - m |-> m + i]           \* the bytes m + 1 to n
From(s, k) == SubSeq(s, k + 1, Len(s))                \* s without its first k
Held == {rest[i] : i \in 1 .. Len(rest)}
Left == Len(rest) - calls[1].below                    \* bytes of the innermost call
In(at) == calls # <<>> /\ calls[1].at = at
Go(at) == calls' = [calls EXCEPT ![1].at = at]
Return == calls' = Tail(calls)

\* The user hands over n bytes.
Hand(n) ==
    /\ handed + n <= MaxBytes /\ handed' = handed + n
    /\ passes' = [b \in 1 .. MaxBytes |-> IF b \in handed + 1 .. handed + n THEN Held ELSE passes[b]]
    /\ UNCHANGED <<wire, refused>>

Enter(call) ==
    /\ outConnected /\ Len(calls) < MaxDepth /\ calls' = <<call>> \o calls
    /\ nested' = (nested \/ calls # <<>>) /\ UNCHANGED <<highCalls, unasked, appended, endedInside>>

\* handleError() on EPIPE or ECONNRESET and close(); inside: a call in progress goes on after it.
End(inside) ==
    /\ outConnected' = FALSE /\ writeEvent' = FALSE /\ endedInside' = (endedInside \/ inside)
    /\ UNCHANGED <<outCrash, highCalls, unasked, appended, nested>>

Close == outConnected /\ End(calls # <<>>) /\ UNCHANGED <<outBytes, calls>>
Broken == End(Len(calls) > 1) /\ Return

\* enableWriteEvent()
Watch ==
    /\ writeEvent' = (writeEvent \/ outConnected) /\ outCrash' = (~writeEvent /\ ~outConnected)
    /\ UNCHANGED outConnected

\* getOutputBufferForWrite()
AppendDirectly(n) ==
    /\ Hand(n) /\ output_buffer_' = output_buffer_ \o Bytes(handed, handed + n)
    /\ unasked' = (unasked \/ ~writeEvent) /\ appended' = TRUE
    /\ UNCHANGED <<rest, calls, writeEvent, outConnected, outCrash, highCalls, nested, endedInside>>

SendInLoop(n) ==
    /\ Hand(n) /\ rest' = Bytes(handed, handed + n) \o rest
    /\ Enter(Call("before", Len(rest), FALSE))
    /\ UNCHANGED <<output_buffer_, writeEvent, outConnected, outCrash>>

\* What the socket left goes to output_buffer_.
Keep ==
    /\ output_buffer_' = output_buffer_ \o SubSeq(rest, 1, Left) /\ rest' = From(rest, Left)
    /\ Return /\ Watch /\ unasked' = FALSE
    /\ UNCHANGED <<wire, handed, refused, passes, appended, nested, endedInside>>

\* After the socket and its callbacks; the high water callback comes first if
\* the rest passes the mark.
Rest ==
    \/ Left = 0 /\ Return /\ UNCHANGED <<outBytes, writeEvent, outConnected, outCrash, outLog>>
    \/ /\ Left > 0 /\ Len(output_buffer_) < high_water_mark_ /\ Len(output_buffer_) + Left >= high_water_mark_
       /\ highCalls' = highCalls + 1 /\ Go("high")
       /\ UNCHANGED <<outBytes, writeEvent, outConnected, outCrash, unasked, appended, nested, endedInside>>
    \/ /\ Left > 0 /\ ~(Len(output_buffer_) < high_water_mark_ /\ Len(output_buffer_) + Left >= high_water_mark_)
       /\ Keep /\ UNCHANGED highCalls

BeforeRefuses ==
    /\ In("before") /\ refused' = refused \cup {rest[i] : i \in 1 .. Left} /\ rest' = From(rest, Left)
    /\ Return
    /\ UNCHANGED <<output_buffer_, wire, handed, passes, writeEvent, outConnected, outCrash, outLog>>

\* Mutant of Direct: the socket is tried whatever is buffered.
DirectAtOnce == TRUE

\* The socket is tried if nothing waits; it takes some bytes, or none for now,
\* or the connection is broken and the bytes are gone with it.
Direct == ~writeEvent /\ output_buffer_ = <<>>

SocketTakes(k) ==
    /\ Direct /\ wire' = wire \o SubSeq(rest, 1, k) /\ rest' = From(rest, k) /\ Go("written")
    /\ UNCHANGED <<output_buffer_, handed, refused, passes, writeEvent, outConnected, outCrash, outLog>>

SocketBreaks ==
    /\ Direct /\ Broken /\ refused' = refused \cup {rest[i] : i \in 1 .. Left} /\ rest' = From(rest, Left)
    /\ UNCHANGED <<output_buffer_, wire, handed, passes>>

BeforeAllows == In("before") /\ (Rest \/ SocketBreaks \/ \E k \in 1 .. Left : SocketTakes(k))
AfterWritten == In("written") /\ Rest
AfterHigh == In("high") /\ Keep /\ UNCHANGED highCalls

\* handleWrite() called by the loop, and by sendOutputBuffer().
WriteEvent ==
    /\ calls = <<>> /\ writeEvent /\ Enter(Call("may", Len(rest), FALSE))
    /\ UNCHANGED <<outBytes, writeEvent, outConnected, outCrash>>

SendOutputBuffer ==
    /\ output_buffer_ # <<>> /\ Enter(Call("may", Len(rest), TRUE))
    /\ UNCHANGED <<outBytes, writeEvent, outConnected, outCrash>>

\* handleWrite() returns; sendOutputBuffer() goes on to ask for the write event.
WriteReturns ==
    /\ IF calls[1].watch /\ output_buffer_ # <<>> /\ outConnected THEN Go("ask") ELSE Return
    /\ UNCHANGED <<outBytes, outConnected, outCrash, outLog>>

MayRefuses == In("may") /\ WriteReturns /\ UNCHANGED writeEvent

MayAllows ==
    /\ In("may")
    /\ \/ WriteReturns /\ UNCHANGED writeEvent
       \/ Broken /\ UNCHANGED outBytes
       \/ \E k \in 1 .. Len(output_buffer_) :
             /\ wire' = wire \o SubSeq(output_buffer_, 1, k) /\ output_buffer_' = From(output_buffer_, k)
             /\ highCalls' = (IF Len(output_buffer_') >= high_water_mark_ THEN highCalls ELSE 0)
             /\ unasked' = (unasked /\ k < Len(output_buffer_)) /\ Go("flushed")
             /\ UNCHANGED <<rest, handed, refused, passes, writeEvent, outConnected, outCrash, appended, nested, endedInside>>

Flushed ==
    /\ In("flushed")
    /\ IF output_buffer_ = <<>>
       THEN writeEvent' = FALSE /\ Go("complete") /\ UNCHANGED <<outBytes, outConnected, outCrash, outLog>>
       ELSE WriteReturns /\ UNCHANGED writeEvent

Completed == In("complete") /\ WriteReturns /\ UNCHANGED writeEvent

AskRefused == In("ask") /\ Return /\ UNCHANGED <<outBytes, writeEvent, outConnected, outCrash, outLog>>
AskAllowed ==
    /\ In("ask") /\ Return /\ Watch /\ unasked' = FALSE
    /\ UNCHANGED <<outBytes, highCalls, appended, nested, endedInside>>

OutNext ==
    /\ ~outCrash
    /\ \/ \E n \in 1 .. 3 : SendInLoop(n) \/ AppendDirectly(n)
       \/ Close \/ WriteEvent \/ SendOutputBuffer
       \/ BeforeRefuses \/ BeforeAllows \/ AfterWritten \/ AfterHigh
       \/ MayRefuses \/ MayAllows \/ Flushed \/ Completed \/ AskRefused \/ AskAllowed

(***************************************************************************)
(* Properties                                                               *)
(***************************************************************************)
Stream == (wire \o output_buffer_) \o rest            \* the bytes in the order they leave

\* Whatever the socket takes at a time and whatever the callbacks do, each byte
\* handed over leaves once or was refused as a whole, and it leaves behind the
\* bytes handed over before it, unless their send was still in a callback: a
\* send, a flush or an append from there overtakes what that send holds.
OutputInOrder ==
    /\ {Stream[i] : i \in 1 .. Len(Stream)} = (1 .. handed) \ refused
    /\ \A i, j \in 1 .. Len(Stream) : i < j => Stream[i] < Stream[j] \/ Stream[j] \in passes[Stream[i]]
    /\ \A b \in 1 .. MaxBytes : passes[b] \subseteq 1 .. b - 1
    /\ calls = <<>> => rest = <<>>

\* Bytes that wait have the write event that will send them, but for those put
\* into the buffer directly that no sendOutputBuffer() has been allowed to flush.
WaitingIsWatched == outConnected /\ output_buffer_ # <<>> => writeEvent \/ unasked

\* The high water callback is called once for each time the sends fill the
\* buffer up to the mark, and not again while it stays above (no call inside
\* another's callback, which may reach the mark before the outer one does).
HighWaterOnce ==
    calls = <<>> /\ ~nested /\ ~appended => highCalls = IF Len(output_buffer_) >= high_water_mark_ THEN 1 ELSE 0

\* The event that closeEvent() freed is used only by a call that was in one of
\* its callbacks when the connection ended.
FreedEventIsUsedInsideOnly == outCrash => endedInside

\* The bytes of a connection leave in the order of the sends, those that wait
\* will leave, and the user hears of it when too many wait.
OutputIsWhole == OutputInOrder /\ WaitingIsWatched /\ HighWaterOnce /\ FreedEventIsUsedInsideOnly
=============================================================================
