---------------------------- MODULE CidrTrieTree ----------------------------
(* common::CidrTrieTree: networks as paths in a binary trie.  A node is its    *)
(* path from the root; an address is a sequence of bits.                        *)
EXTENDS Integers, Sequences, SequencesExt

CONSTANTS AddressBits, NetworkIds, MaxNetworks

VARIABLES
    nodes,     \* the nodes created; {} without root_
    as_in,     \* the nodes that hold a network, with its value
    networks   \* the networks put, in order

trieVars == <<nodes, as_in, networks>>

Bits == 0 .. 1
Networks == UNION {[1 .. n -> Bits] : n \in 0 .. AddressBits}
Addresses == [1 .. AddressBits -> Bits]

TrieInit == nodes = {} /\ as_in = <<>> /\ networks = <<>>

\* The value is set in the loop over the bits: a network of 0 bits only makes
\* the root.
TrieNodePut(p, as) ==
    /\ nodes' = nodes \cup Prefixes(p)
    /\ as_in' = IF p # <<>> /\ p \notin DOMAIN as_in THEN [q \in DOMAIN as_in \cup {p} |-> IF q = p THEN as ELSE as_in[q]] ELSE as_in
    /\ networks' = Append(networks, [prefix |-> p, as |-> as])

TrieClear == nodes # {} /\ nodes' = {} /\ as_in' = <<>> /\ networks' = <<>>

\* The search goes down the address until a node holds a network; a root alone
\* means 0.0.0.0/0 and leaves *as as it is.
NotSet == "not set"
TrieNodeSearch(ip) ==
    LET held == {n \in 1 .. AddressBits : SubSeq(ip, 1, n) \in DOMAIN as_in}
        first == CHOOSE n \in held : \A m \in held : n <= m
    IN  IF nodes = {} THEN [found |-> FALSE, as |-> NotSet]
        ELSE IF nodes = {<<>>} THEN [found |-> TRUE, as |-> NotSet]
        ELSE IF held = {} THEN [found |-> FALSE, as |-> NotSet]
        ELSE [found |-> TRUE, as |-> as_in[SubSeq(ip, 1, first)]]

TrieNext == TrieClear \/ (Len(networks) < MaxNetworks /\ \E p \in Networks, as \in NetworkIds : TrieNodePut(p, as))

(***************************************************************************)
(* Properties                                                               *)
(***************************************************************************)
Covering(ip) == {i \in DOMAIN networks : IsPrefix(networks[i].prefix, ip)}

\* An address is found if a network put contains it, whatever was put before
\* and after, and gets the value of the widest such network, the first put of
\* those.  The exception is 0.0.0.0/0: it contains every address only while
\* nothing else has been put, and it has no value.
SearchFindsTheWidest ==
    \A ip \in Addresses :
        LET real == {i \in Covering(ip) : networks[i].prefix # <<>>}
            widest == {i \in real : \A j \in real : Len(networks[i].prefix) <= Len(networks[j].prefix)}
            result == TrieNodeSearch(ip)
        IN  /\ result.found = (real # {} \/ (networks # <<>> /\ \A i \in DOMAIN networks : networks[i].prefix = <<>>))
            /\ real # {} => result.as = networks[CHOOSE i \in widest : \A j \in widest : i <= j].as
=============================================================================
