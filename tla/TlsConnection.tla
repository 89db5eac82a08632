---------------------------- MODULE TlsConnection ----------------------------
(* network::TlsConnection: the TLS handshake, reads and writes of a           *)
(* connection on its loop.  Bytes are counted.  A callback of the user may     *)
(* close the connection, and one asked before a read or a write may refuse it; *)
(* OpenSSL and the peer are external.  A handler is an operator from a state   *)
(* to the set of states it may leave.                                          *)
EXTENDS Integers, Sequences

CONSTANTS RecordSize,        \* bytes in a TLS record; one SSL_read() takes one byte
          MaxSends, MaxRecords, MaxStalls, MaxRefusals, tls_high_water_mark_

ASSUME TlsRecordSize == RecordSize \in Nat \ {0}

VARIABLES
    t,         \* the connection and its socket
    handed,    \* bytes sendInLoop() has taken
    sends, records, stalls   \* counters of the bounds

tlsVars == <<t, handed, sends, records, stalls>>

TlsInit ==
    /\ \E type \in {"client", "server"} :
          t = [status |-> "connecting", ssl |-> "none", type |-> type,
               live |-> TRUE,                       \* ssl_ is not freed
               wwr |-> FALSE, rww |-> FALSE,        \* ssl_write_want_read_, ssl_read_want_write_
               pend |-> FALSE,                      \* has_pending_read_in_loop_
               wev |-> FALSE,                       \* the write event
               hs |-> "write", plain |-> 0,         \* SSL: the handshake to do, SSL_pending()
               in |-> <<>>, full |-> FALSE,         \* the socket: records to read, room to write
               refusals |-> 0,                      \* counter of a bound
               held |-> FALSE,                      \* history: a read of what SSL_pending() has was refused
               early |-> FALSE,                     \* history: a callback asked first has closed, and allowed
               out |-> 0, wire |-> 0, got |-> 0, fun |-> <<>>, crash |-> "no"]
    /\ handed = 0 /\ sends = 0 /\ records = 0 /\ stalls = 0

Up(x) == x.crash = "no" /\ x.ssl # "disconnected"

(***************************************************************************)
(* OpenSSL: any call first does what is left of the handshake.              *)
(***************************************************************************)
Shake(x) ==
    IF x.hs = "done" THEN [x |-> x, want |-> "none"]
    ELSE IF x.hs = "write" /\ x.full THEN [x |-> x, want |-> "write"]
    ELSE IF x.in = <<>> THEN [x |-> [x EXCEPT !.hs = "read"], want |-> "read"]
    ELSE IF Head(x.in) = "hs" THEN [x |-> [x EXCEPT !.hs = "done", !.in = Tail(x.in)], want |-> "none"]
    ELSE [x |-> x, want |-> "fail"]
Freed(x) == [x EXCEPT !.crash = "freed"]      \* an SSL function on a null ssl_

(***************************************************************************)
(* Closing                                                                  *)
(***************************************************************************)
\* TcpConnection::handleClose() closes the channel once.
HandleClose(x) == [x EXCEPT !.live = FALSE, !.ssl = "disconnected", !.status = "disconnected", !.wev = FALSE]
HandleError(x) == HandleClose([x EXCEPT !.ssl = "disconnected", !.status = "disconnecting"])
\* close() on the loop.
CloseHere(x) == IF x.status = "connected" THEN HandleClose([x EXCEPT !.status = "disconnecting"]) ELSE x
Callback(x) == {x, CloseHere(x)}

\* before_read_event_callback_ and before_write_event_callback_: they allow what
\* comes, or return false.
Allows(x) == {[y EXCEPT !.early = (x.early \/ y # x)] : y \in Callback(x)}
Refuses(x) == {[y EXCEPT !.refusals = x.refusals + 1] : y \in IF x.refusals < MaxRefusals THEN Callback(x) ELSE {}}

SslError(x, want) ==
    CASE want = "write" -> [x EXCEPT !.wev = TRUE]
      [] want = "read"  -> x                        \* the read event is on
      [] want = "fail"  -> HandleError(x)

(***************************************************************************)
(* The handlers                                                             *)
(***************************************************************************)
\* sslAccept() and sslConnect().
SslHandshake(x) ==
    LET s == Shake(x) IN
    IF x.ssl \notin {"accepting", "connecting"} THEN x
    ELSE IF ~x.live THEN Freed(x)
    ELSE IF s.want = "none" THEN [s.x EXCEPT !.ssl = "connected"] ELSE SslError(s.x, s.want)

\* One SSL_read(), the functor for what SSL_pending() has left, and the message
\* callback.
ReadSome(x) ==
    LET s == Shake(x)
        y == IF s.x.plain = 0 /\ s.x.in # <<>> /\ Head(s.x.in) = "data"
             THEN [s.x EXCEPT !.plain = RecordSize, !.in = Tail(@)] ELSE s.x
        want == IF s.want # "none" THEN s.want
                ELSE IF y.plain > 0 THEN "none" ELSE IF y.in = <<>> THEN "read" ELSE "fail"
        z == [y EXCEPT !.plain = @ - 1, !.got = @ + 1, !.held = FALSE]
    IN  IF ~x.live THEN {Freed(x)}
        ELSE IF want # "none" THEN {[SslError(y, want) EXCEPT !.rww = @ \/ want = "write"]}
        ELSE Callback(IF z.plain > 0 /\ ~z.pend THEN [z EXCEPT !.pend = TRUE, !.fun = Append(@, "read")] ELSE z)

\* A read that is refused is not asked for again: what SSL_pending() has waits
\* for the next record.
SslRead(x) ==
    (UNION {ReadSome(y) : y \in Allows(x)}) \cup {[y EXCEPT !.held = (x.held \/ x.plain > 0)] : y \in Refuses(x)}

\* SSL_write() of n bytes: the states it may leave and the bytes it took.
SSL_write(x, n) ==
    LET s == Shake(x)
        want == IF s.want # "none" THEN s.want ELSE IF s.x.full THEN "write" ELSE "none"
    IN  IF ~x.live THEN {[x |-> Freed(x), k |-> 0]}
        ELSE IF want # "none" THEN {[x |-> [SslError(s.x, want) EXCEPT !.wwr = @ \/ want = "read"], k |-> 0]}
        ELSE UNION {{[x |-> y, k |-> k] : y \in Callback([s.x EXCEPT !.wire = @ + k])} : k \in 1 .. n}

\* The write event stays while bytes are left or sslRead() waits for it.
WriteSome(x) ==
    IF x.out = 0 THEN {[x EXCEPT !.wev = @ /\ x.rww]}
    ELSE {[r.x EXCEPT !.out = @ - r.k, !.wev = @ /\ (x.out > r.k \/ r.x.rww)] : r \in SSL_write(x, x.out)}

SslWrite(x) == (UNION {WriteSome(y) : y \in Allows(x)}) \cup Refuses(x)

\* Mutant of HandleRead: the status is tested once.
HandleReadOnce(x) ==
    LET a == SslHandshake(x)
        b1 == IF a.ssl = "connected" /\ a.wwr THEN SslWrite([a EXCEPT !.wwr = FALSE]) ELSE {a}
    IN  IF a.ssl = "connected" THEN UNION {SslRead([y EXCEPT !.rww = FALSE]) : y \in b1} ELSE b1

HandleRead(x) ==
    LET a == SslHandshake(x)
        written == IF a.ssl = "connected" /\ a.wwr THEN SslWrite([a EXCEPT !.wwr = FALSE]) ELSE {a}
    IN  UNION {IF y.ssl = "connected" THEN SslRead([y EXCEPT !.rww = FALSE]) ELSE {y} : y \in written}

HandleWrite(x) ==
    LET a == SslHandshake(x)
        read == IF a.ssl = "connected" /\ a.rww THEN SslRead([a EXCEPT !.rww = FALSE]) ELSE {a}
    IN  UNION {IF y.ssl = "connected" THEN SslWrite([y EXCEPT !.wwr = FALSE]) ELSE {y} : y \in read}

\* The rest of the data: the high water callback, output_buffer_, the write
\* event.  A callback that closed the connection has freed the event.
Keep(x, n) ==
    IF n = 0 \/ x.ssl = "disconnected" THEN {x}
    ELSE {IF y.status = "disconnected" THEN [y EXCEPT !.crash = "nullEvent"] ELSE [y EXCEPT !.out = @ + n, !.wev = TRUE] :
             y \in IF x.out < tls_high_water_mark_ /\ x.out + n >= tls_high_water_mark_ THEN Callback(x) ELSE {x}}

\* There is an assertion on status_, which close() has changed already when
\* its functor is still waiting.
SendInLoop(x, n) ==
    IF x.ssl = "disconnected" THEN {x}
    ELSE IF x.status # "connected" THEN {[x EXCEPT !.crash = "assert"]}
    ELSE IF x.wev \/ x.out > 0 THEN Keep(x, n)
    ELSE UNION {Keep(r.x, n - r.k) : r \in SSL_write(x, n)}

(***************************************************************************)
(* Steps of the loop                                                        *)
(***************************************************************************)
\* attachedToLoop(): a client starts the handshake at once.
Attach ==
    /\ t.ssl = "none"
    /\ LET x == [t EXCEPT !.status = "connected", !.ssl = IF t.type = "server" THEN "accepting" ELSE "connecting"]
       IN  t' = IF t.type = "server" THEN x ELSE SslHandshake(x)
    /\ UNCHANGED <<handed, sends, records, stalls>>

Attached == t.ssl # "none" /\ t.crash = "no"

ReadEvent ==
    /\ Attached /\ t.status # "disconnected" /\ t.in # <<>>
    /\ t' \in HandleRead(t) /\ UNCHANGED <<handed, sends, records, stalls>>

WriteEvent ==
    /\ Attached /\ t.wev /\ ~t.full
    /\ t' \in HandleWrite(t) /\ UNCHANGED <<handed, sends, records, stalls>>

SendOnLoop(n) ==
    /\ Attached /\ t.status = "connected" /\ sends < MaxSends /\ sends' = sends + 1
    /\ t' \in SendInLoop(t, n) /\ handed' = handed + n /\ UNCHANGED <<records, stalls>>

\* The head of the loop's queue of functors.
RunFunctor ==
    /\ Attached /\ t.fun # <<>>
    /\ LET x == [t EXCEPT !.fun = Tail(@)] IN
       CASE Head(t.fun) = "read"  -> t' \in HandleRead([x EXCEPT !.pend = FALSE]) /\ UNCHANGED handed
         [] Head(t.fun) = "close" -> t' = HandleClose(x) /\ UNCHANGED handed
         [] Head(t.fun) = "send"  -> t' \in SendInLoop(x, 1) /\ handed' = handed + 1
    /\ UNCHANGED <<sends, records, stalls>>

(***************************************************************************)
(* Other threads, the peer and the socket                                   *)
(***************************************************************************)
SendOffLoop ==
    /\ Attached /\ t.status = "connected" /\ sends < MaxSends /\ sends' = sends + 1
    /\ t' = [t EXCEPT !.fun = Append(@, "send")] /\ UNCHANGED <<handed, records, stalls>>

Close(onLoop) ==
    /\ Attached /\ t.status = "connected"
    /\ t' = IF onLoop THEN CloseHere(t) ELSE [t EXCEPT !.status = "disconnecting", !.fun = Append(@, "close")]
    /\ UNCHANGED <<handed, sends, records, stalls>>

\* The peer answers the handshake, then sends data or closes.
PeerShakes ==
    /\ Attached /\ t.status # "disconnected" /\ t.hs # "done" /\ t.in = <<>>
    /\ t' = [t EXCEPT !.in = <<"hs">>] /\ UNCHANGED <<handed, sends, records, stalls>>
PeerSends(record) ==
    /\ Attached /\ t.status # "disconnected" /\ t.hs = "done" /\ records < MaxRecords
    /\ ~(\E i \in DOMAIN t.in : t.in[i] = "eof")
    /\ t' = [t EXCEPT !.in = Append(@, record)] /\ records' = records + 1 /\ UNCHANGED <<handed, sends, stalls>>
\* A new handshake is asked for when no data is on its way.
PeerRenegotiates ==
    /\ Attached /\ t.ssl = "connected" /\ t.hs = "done" /\ t.in = <<>> /\ t.plain = 0 /\ stalls < MaxStalls
    /\ t' = [t EXCEPT !.hs = "write"] /\ stalls' = stalls + 1 /\ UNCHANGED <<handed, sends, records>>
SocketFills ==
    /\ Attached /\ ~t.full /\ stalls < MaxStalls
    /\ t' = [t EXCEPT !.full = TRUE] /\ stalls' = stalls + 1 /\ UNCHANGED <<handed, sends, records>>
SocketDrains == t.full /\ t' = [t EXCEPT !.full = FALSE] /\ UNCHANGED <<handed, sends, records, stalls>>

TlsNext ==
    \/ Attach \/ ReadEvent \/ WriteEvent \/ RunFunctor \/ SendOffLoop
    \/ \E n \in 1 .. 2 : SendOnLoop(n)
    \/ \E onLoop \in BOOLEAN : Close(onLoop)
    \/ PeerShakes \/ PeerRenegotiates \/ SocketFills \/ SocketDrains
    \/ \E record \in {"data", "eof"} : PeerSends(record)

(***************************************************************************)
(* Properties                                                               *)
(***************************************************************************)
\* However a handler's parts and the callbacks in them end the connection, no
\* SSL function is called after SSL_free(), but when a callback that is asked
\* before a read or a write closes the connection and allows it all the same.
NoUseOfFreedSsl == t.crash = "freed" => t.early

\* Until the connection ends, every byte handed over is written or kept.
TlsKeepsItsBytes == Up(t) => handed = t.wire + t.out

\* What waits for the write event has it: bytes that are kept, and a read that
\* OpenSSL interrupted to write.
TlsWaitsAreWatched == Up(t) => (t.out > 0 \/ t.rww => t.wev)

\* When the peer and the program fall silent, nothing is left in OpenSSL, in
\* the socket or in the output buffer, unless the connection has ended; only
\* decrypted bytes whose read was refused stay with OpenSSL.
TlsDrains == <>[](Up(t) => (t.plain = 0 \/ t.held) /\ t.in = <<>> /\ t.out = 0 /\ t.fun = <<>>)
=============================================================================
