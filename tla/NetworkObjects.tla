--------------------------- MODULE NetworkObjects ---------------------------
(* The objects of one connection that share no state: its buffer, its TLS     *)
(* layer, its channel and its resolver.  Each takes its own steps, in any     *)
(* interleaving.                                                              *)
EXTENDS Buffer, TlsConnection, Channel, DnsResolver

objectVars == <<bufferVars, tlsVars, channelVars, dnsVars>>

ObjectsInit == BufferInit /\ TlsInit /\ ChannelInit /\ DnsInit

ObjectsNext ==
    \/ BufferNext /\ UNCHANGED <<tlsVars, channelVars, dnsVars>>
    \/ TlsNext /\ UNCHANGED <<bufferVars, channelVars, dnsVars>>
    \/ ChannelNext /\ UNCHANGED <<bufferVars, tlsVars, dnsVars>>
    \/ DnsNext /\ UNCHANGED <<bufferVars, tlsVars, channelVars>>

ObjectsSpec == ObjectsInit /\ [][ObjectsNext]_objectVars

\* The objects of a connection keep their state together: the bytes of the
\* buffer, the SSL object and its interrupted calls, the channel and what
\* libevent watches, the resolver and its one answer.
NetworkObjectsAreSafe ==
    /\ IndexesInOrder /\ HoldsItsContent /\ UnreadIsThere
    /\ NoUseOfFreedSsl /\ TlsKeepsItsBytes /\ TlsWaitsAreWatched
    /\ WatchedAsRecorded /\ CallbacksFindTheChannel /\ ClosedCanBeDestroyed
    /\ DnsAssertionsHold /\ OneAnswerEach
=============================================================================
