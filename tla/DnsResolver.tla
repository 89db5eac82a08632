----------------------------- MODULE DnsResolver -----------------------------
(* network::DnsResolver: a name is resolved under a timer.  The answer, the    *)
(* timer and a new start() meet on the loop in any order.  evdns is external:  *)
(* it calls onDnsResolved() once for every request, with an error if the       *)
(* request was cancelled, and not at all if its evdns_base was freed.          *)
EXTENDS Integers, Sequences, FiniteSets

CONSTANT MaxStarts

Requests == 1 .. MaxStarts    \* the n-th startInLoop() makes request, base and timer n

VARIABLES
    stopped_, dns_base_, dns_req_, resolver_timer_id_,   \* 0 is a null pointer or no timer
    dnsFunctors,   \* startInLoop() waits in the loop's queue
    timers,        \* the timers armed
    flying,        \* the requests evdns works on
    cancelled,     \* the requests cancelled whose callback is to come
    starts,        \* start() calls
    made,          \* startInLoop() calls
    answers,       \* the outcomes resolver_callback_ was called with
    early,         \* start() was called before the answer to the one before it
    dnsAssert      \* a runtimeAssert() has failed

dnsVars == <<stopped_, dns_base_, dns_req_, resolver_timer_id_, dnsFunctors, timers, flying, cancelled,
             starts, made, answers, early, dnsAssert>>

DnsInit ==
    /\ stopped_ = TRUE /\ dns_base_ = 0 /\ dns_req_ = 0 /\ resolver_timer_id_ = 0
    /\ dnsFunctors = 0 /\ timers = {} /\ flying = {} /\ cancelled = {}
    /\ starts = 0 /\ made = 0 /\ answers = <<>> /\ early = FALSE /\ dnsAssert = FALSE

DnsUp == ~dnsAssert
AssertFails ==
    /\ dnsAssert' = TRUE
    /\ UNCHANGED <<stopped_, dns_base_, dns_req_, resolver_timer_id_, dnsFunctors, timers, flying, cancelled,
                   starts, made, answers, early>>

\* On the loop or not: startInLoop() runs at once or later.
Start ==
    /\ DnsUp /\ starts < MaxStarts /\ stopped_
    /\ stopped_' = FALSE /\ starts' = starts + 1 /\ dnsFunctors' = dnsFunctors + 1
    /\ early' = (early \/ Len(answers) < starts)
    /\ UNCHANGED <<dns_base_, dns_req_, resolver_timer_id_, timers, flying, cancelled, made, answers, dnsAssert>>

StartInLoop ==
    /\ DnsUp /\ dnsFunctors > 0
    /\ IF dns_base_ # 0 \/ dns_req_ # 0 \/ resolver_timer_id_ # 0 THEN AssertFails
       ELSE /\ made' = made + 1 /\ dnsFunctors' = dnsFunctors - 1
            /\ dns_base_' = made' /\ dns_req_' = made' /\ resolver_timer_id_' = made'
            /\ timers' = timers \cup {made'} /\ flying' = flying \cup {made'}
            /\ UNCHANGED <<stopped_, cancelled, starts, answers, early, dnsAssert>>

\* Mutant of OnTimeout: the request is left to evdns.
OnTimeoutLeavesRequest(t) ==
    /\ DnsUp /\ t \in timers
    /\ timers' = timers \ {t}
    /\ stopped_' = TRUE /\ resolver_timer_id_' = 0 /\ dns_req_' = 0 /\ dns_base_' = 0
    /\ flying' = flying \ {dns_base_}
    /\ UNCHANGED <<dnsFunctors, cancelled, starts, made, answers, early, dnsAssert>>

\* The request is cancelled, not dropped: the callback tells the user.
OnTimeout(t) ==
    /\ DnsUp /\ t \in timers
    /\ IF (stopped_ /\ (dns_base_ # 0 \/ dns_req_ # 0)) \/ (~stopped_ /\ resolver_timer_id_ = 0) THEN AssertFails
       ELSE /\ timers' = timers \ {t}
            /\ IF stopped_ THEN UNCHANGED <<stopped_, dns_base_, dns_req_, resolver_timer_id_, flying, cancelled>>
               ELSE /\ stopped_' = TRUE /\ resolver_timer_id_' = 0 /\ dns_req_' = 0 /\ dns_base_' = 0
                    /\ cancelled' = cancelled \cup (flying \cap {dns_req_})
                    /\ flying' = flying \ {dns_req_, dns_base_}
            /\ UNCHANGED <<dnsFunctors, starts, made, answers, early, dnsAssert>>

\* onDnsResolved() of request r, and resolver_callback_.
OnResolved(r, outcome) ==
    /\ DnsUp /\ r \in flying \cup cancelled /\ (outcome = "cancel") = (r \in cancelled)
    /\ IF stopped_ /\ dns_base_ # 0 THEN AssertFails
       ELSE /\ timers' = timers \ {resolver_timer_id_} /\ resolver_timer_id_' = 0
            /\ stopped_' = TRUE /\ dns_base_' = 0 /\ dns_req_' = 0
            /\ flying' = flying \ {r, dns_base_} /\ cancelled' = cancelled \ {r}
            /\ answers' = Append(answers, outcome)
            /\ UNCHANGED <<dnsFunctors, starts, made, early, dnsAssert>>

DnsLoop == StartInLoop \/ (\E t \in timers : OnTimeout(t)) \/ (\E r \in Requests : OnResolved(r, "cancel"))
DnsNext == Start \/ DnsLoop \/ \E r \in Requests : \E outcome \in {"addresses", "error"} : OnResolved(r, outcome)

(***************************************************************************)
(* Properties                                                               *)
(***************************************************************************)
\* The assertions hold in every order of answer and timer, and the ones of the
\* destructor when no timer, request or functor refers to the resolver, as long
\* as it is not started again between its timeout and the callback that the
\* cancelled request still owes.
DnsAssertionsHold ==
    ~early => /\ ~dnsAssert
              /\ timers = {} /\ flying = {} /\ cancelled = {} /\ dnsFunctors = 0
                    => stopped_ /\ resolver_timer_id_ = 0 /\ dns_base_ = 0 /\ dns_req_ = 0

\* A start() is answered at most once, though the timer and the answer race.
OneAnswerEach == Len(answers) <= starts

\* If the loop runs and its timers fire, every start() is answered, unless one
\* came early.
EveryStartIsAnswered == []<>(Len(answers) = starts \/ early)
=============================================================================
