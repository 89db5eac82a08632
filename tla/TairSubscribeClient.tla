------------------------- MODULE TairSubscribeClient -------------------------
(* TairSubscribeClient over one connection that may break and come back.      *)
(* Channels and patterns behave alike: sub_callbacks_ and psub_callbacks_ are *)
(* one function here.  Requests are made while the connection is up; what a   *)
(* request on a dead connection does is TairBaseClient's subject.             *)
EXTENDS Integers, Sequences, FiniteSets, SequencesExt

CONSTANTS
    Channels, Patterns,
    MsgCallbacks,   \* the message callbacks users pass to subscribe()
    MaxRequests, MaxMessages, MaxLosses

Topics == Channels \cup Patterns
NoCallback == "nullptr"

ASSUME SubscribeAssumption == IsFiniteSet(Topics) /\ "" \notin Topics /\ NoCallback \notin MsgCallbacks

VARIABLES
    sub_up,         \* the connection is up
    callbacks_,     \* requests waiting for a reply, in order
    sub_callbacks_, \* sub_callbacks_ and psub_callbacks_
    toServer,       \* requests on the wire
    toClient,       \* replies and messages on the wire
    serverSubs,     \* topic -> callback of the request the server subscribed it for
    refused,        \* topics whose re-subscription the server refused
    requests, published, losses, \* counters of the environment, bounded
    crashed         \* typeid of a null packet, or pop_front of an empty deque

subVars == <<sub_up, callbacks_, sub_callbacks_, toServer, toClient, serverSubs, refused,
             requests, published, losses, crashed>>

Request(op, topic, msg_callback) == [op |-> op, topic |-> topic, cb |-> msg_callback]
Again(topic, msg_callback) == Request("resubscribe", topic, msg_callback)
SetName == Request("setname", "", NoCallback)
Reply(req, ok) == [kind |-> "reply", req |-> req, ok |-> ok]
Message(topic, by) == [kind |-> "message", req |-> Request("publish", topic, by), ok |-> TRUE]

NoSubs == [t \in Topics |-> NoCallback]

SubInit ==
    /\ sub_up = TRUE /\ callbacks_ = <<SetName>> /\ toServer = <<SetName>> /\ toClient = <<>>
    /\ sub_callbacks_ = NoSubs /\ serverSubs = NoSubs /\ refused = {}
    /\ requests = 0 /\ published = 0 /\ losses = 0 /\ crashed = FALSE

(***************************************************************************)
(* The user's calls: subscribe, psubscribe, unSubscribe, unPsubscribe.      *)
(***************************************************************************)
SendRequest(req) ==
    /\ sub_up /\ ~crashed /\ requests < MaxRequests
    /\ requests' = requests + 1
    /\ callbacks_' = Append(callbacks_, req) /\ toServer' = Append(toServer, req)
    /\ UNCHANGED <<sub_up, sub_callbacks_, toClient, serverSubs, refused, published, losses, crashed>>

Subscribe(topic, msg_callback) == SendRequest(Request("subscribe", topic, msg_callback))
UnSubscribe(topic) == SendRequest(Request("unsubscribe", topic, NoCallback))

(***************************************************************************)
(* The server (external): one reply per request, and messages of the topics *)
(* it holds a subscription for.  It may refuse a subscription.              *)
(***************************************************************************)
ServerHandles ==
    /\ sub_up /\ ~crashed /\ toServer # <<>>
    /\ LET req == Head(toServer)
           subscribes == req.op \in {"subscribe", "resubscribe"}
       IN  \E ok \in IF subscribes THEN BOOLEAN ELSE {TRUE} :
              /\ toClient' = Append(toClient, Reply(req, ok))
              /\ serverSubs' = IF ok /\ req.topic \in Topics THEN [serverSubs EXCEPT ![req.topic] = req.cb]
                               ELSE serverSubs
              /\ refused' = IF ~ok /\ req.op = "resubscribe" THEN refused \cup {req.topic} ELSE refused
    /\ toServer' = Tail(toServer)
    /\ UNCHANGED <<sub_up, callbacks_, sub_callbacks_, requests, published, losses, crashed>>

Publish(topic) ==
    /\ sub_up /\ ~crashed /\ serverSubs[topic] # NoCallback /\ published < MaxMessages
    /\ published' = published + 1
    /\ toClient' = Append(toClient, Message(topic, serverSubs[topic]))
    /\ UNCHANGED <<sub_up, callbacks_, sub_callbacks_, toServer, serverSubs, refused, requests, losses, crashed>>

(***************************************************************************)
(* onRecvResponse                                                           *)
(***************************************************************************)
\* doPubSubCount: type and topic are the reply's, the message callback is the
\* one of the request at the front.  Erasing the entry is NoCallback here.
DoPubSubCount(req, msg_callback) ==
    [sub_callbacks_ EXCEPT ![req.topic] = IF req.op = "unsubscribe" THEN NoCallback ELSE msg_callback]

\* doPubSubResponse: an array of three is a count, anything else an error.
DoPubSubResponse(reply, front) ==
    IF front.op # "setname" /\ reply.ok /\ reply.req.op # "setname" THEN DoPubSubCount(reply.req, front.cb)
    ELSE sub_callbacks_

\* message and pmessage go to the callback of their topic.
RecvMessage ==
    /\ ~crashed /\ toClient # <<>> /\ Head(toClient).kind = "message"
    /\ toClient' = Tail(toClient)
    /\ UNCHANGED <<sub_up, callbacks_, sub_callbacks_, toServer, serverSubs, refused, requests, published,
                   losses, crashed>>

\* Everything else answers the first request: its callback runs, then it is
\* popped.
RecvReply ==
    /\ ~crashed /\ toClient # <<>> /\ Head(toClient).kind = "reply"
    /\ toClient' = Tail(toClient)
    /\ IF callbacks_ = <<>> THEN crashed' = TRUE /\ UNCHANGED <<callbacks_, sub_callbacks_>>
       ELSE /\ sub_callbacks_' = DoPubSubResponse(Head(toClient), Head(callbacks_))
            /\ callbacks_' = Tail(callbacks_) /\ UNCHANGED crashed
    /\ UNCHANGED <<sub_up, toServer, serverSubs, refused, requests, published, losses>>

\* The user's callback makes a request whose write fails: the connection is
\* closed and clearCallbacks() calls the same callback, which is still in the
\* queue, with a null packet.
RecvReplyReentered ==
    /\ ~crashed /\ toClient # <<>> /\ Head(toClient).kind = "reply" /\ callbacks_ # <<>>
    /\ Head(callbacks_).op \in {"subscribe", "unsubscribe"}
    /\ requests < MaxRequests /\ losses < MaxLosses
    /\ crashed' = TRUE
    /\ UNCHANGED <<sub_up, callbacks_, sub_callbacks_, toServer, toClient, serverSubs, refused, requests,
                   published, losses>>

(***************************************************************************)
(* The connection is lost: clearCallbacks() hands a null packet to every    *)
(* callback; doPubSubResponse() takes the type of the object it points to.  *)
(***************************************************************************)
PubSubPending == \E i \in DOMAIN callbacks_ : callbacks_[i].op # "setname"

\* Mutant of Lose: the requests of the old connection are kept.
LoseKeepsCallbacks ==
    /\ sub_up /\ ~crashed /\ losses < MaxLosses
    /\ losses' = losses + 1
    /\ sub_up' = FALSE /\ toServer' = <<>> /\ toClient' = <<>> /\ serverSubs' = NoSubs /\ refused' = {}
    /\ UNCHANGED <<callbacks_, crashed, sub_callbacks_, requests, published>>

Lose ==
    /\ sub_up /\ ~crashed /\ losses < MaxLosses
    /\ losses' = losses + 1
    /\ sub_up' = FALSE /\ toServer' = <<>> /\ toClient' = <<>> /\ serverSubs' = NoSubs
    /\ crashed' = PubSubPending /\ callbacks_' = <<>> /\ refused' = {}
    /\ UNCHANGED <<sub_callbacks_, requests, published>>

\* Mutant of OnConnected: a second loss is not repaired.
OnConnectedOnce ==
    /\ ~sub_up /\ ~crashed /\ losses < 2
    /\ LET order == SetToSeq({t \in Topics : sub_callbacks_[t] # NoCallback})
           all == <<SetName>> \o [i \in DOMAIN order |-> Again(order[i], sub_callbacks_[order[i]])]
       IN  callbacks_' = callbacks_ \o all /\ toServer' = all
    /\ sub_up' = TRUE
    /\ UNCHANGED <<sub_callbacks_, toClient, serverSubs, refused, requests, published, losses, crashed>>

\* onConnected: CLIENT SETNAME, then every topic of the maps again, without a
\* user callback.
OnConnected ==
    /\ ~sub_up /\ ~crashed
    /\ LET order == SetToSeq({t \in Topics : sub_callbacks_[t] # NoCallback})
           all == <<SetName>> \o [i \in DOMAIN order |-> Again(order[i], sub_callbacks_[order[i]])]
       IN  callbacks_' = callbacks_ \o all /\ toServer' = all
    /\ sub_up' = TRUE
    /\ UNCHANGED <<sub_callbacks_, toClient, serverSubs, refused, requests, published, losses, crashed>>

SubNext ==
    \/ \E t \in Topics, cb \in MsgCallbacks : Subscribe(t, cb)
    \/ \E t \in Topics : UnSubscribe(t) \/ Publish(t)
    \/ ServerHandles \/ RecvMessage \/ RecvReply \/ RecvReplyReentered
    \/ Lose \/ OnConnected

\* The server answers, the loop handles what has arrived, and the Connector
\* brings a lost connection back.
SubFairness ==
    WF_subVars(ServerHandles) /\ WF_subVars(RecvMessage \/ RecvReply) /\ WF_subVars(OnConnected)

SubSpec == SubInit /\ [][SubNext]_subVars /\ SubFairness

(***************************************************************************)
(* Properties                                                               *)
(***************************************************************************)
SubTypeOK ==
    /\ sub_up \in BOOLEAN /\ crashed \in BOOLEAN /\ refused \subseteq Topics
    /\ sub_callbacks_ \in [Topics -> MsgCallbacks \cup {NoCallback}]
    /\ serverSubs \in [Topics -> MsgCallbacks \cup {NoCallback}]

\* How many of the first n packets of s are replies.
RepliesIn(s, n) == Cardinality({i \in 1 .. n : s[i].kind = "reply"})

\* Replies are paired with requests by position, over messages in between and
\* over losses: what is in callbacks_ is what the wire still holds, so the
\* assertion that a reply finds a callback never fails.
RepliesPairUp ==
    ~crashed =>
        /\ Len(callbacks_) = RepliesIn(toClient, Len(toClient)) + Len(toServer)
        /\ \A i \in 1 .. Len(toClient) :
              toClient[i].kind = "reply" => callbacks_[RepliesIn(toClient, i)] = toClient[i].req
        /\ \A k \in 1 .. Len(toServer) : callbacks_[RepliesIn(toClient, Len(toClient)) + k] = toServer[k]

\* A message finds the callback of the very subscription the server sent it
\* for: the entry is made before the first message arrives and lasts until
\* after the last one, over re-subscriptions and changes of callback.
MessagesFindTheirCallback ==
    ~crashed /\ toClient # <<>> /\ Head(toClient).kind = "message" =>
        sub_callbacks_[Head(toClient).req.topic] = Head(toClient).req.cb

\* Once nothing is in flight the client's maps and the server's subscriptions
\* are the same, except where the server refused a re-subscription (nobody is
\* told, since onConnected() passes no callback).
QuietAgree ==
    sub_up /\ ~crashed /\ callbacks_ = <<>> =>
        \A t \in Topics : sub_callbacks_[t] = serverSubs[t] \/ t \in refused

\* However the losses fall, a client that survives ends up subscribed to what
\* it was told it is subscribed to.
EventuallySubscribedAgain ==
    <>[](crashed \/ \A t \in Topics : sub_callbacks_[t] = serverSubs[t] \/ t \in refused)

\* What the client takes for subscribed is what it is sent: replies and
\* messages find their callbacks, and at rest both sides hold the same topics.
SubscriptionsAgree == SubTypeOK /\ RepliesPairUp /\ MessagesFindTheirCallback /\ QuietAgree
=============================================================================
