----------------------------- MODULE EthPeerSet -----------------------------
(***************************************************************************)
(* The peer bookkeeping of eth/peer.go: the peerSet (Register, Unregister, *)
(* Close under ps.lock), each peer's head difficulty (SetHead) and its     *)
(* sets of hashes known to the peer, which Mark* bounds by evicting        *)
(* (set.Pop removes an arbitrary member) and Send* extends.  BestPeer,     *)
(* under the read lock, also publishes its choice in the package-level     *)
(* peerapi.Peer, which the PBFT event loop hands to synch.RetryHandShake   *)
(* and Synchronise2 after a state update (consensus/pbft/pbft-core.go).    *)
(* The five kinds of known set (txs, blocks, PBFT messages, add-peer and   *)
(* remove-peer messages) are handled by identical code and are one set     *)
(* here.                                                                   *)
(***************************************************************************)
EXTENDS Naturals, FiniteSets

CONSTANTS
    Peers,      \* the remote peers, model values
    Hashes,     \* hashes of transactions, blocks or messages
    MaxKnown,   \* maxKnownTxs, maxKnownBlocks, ... scaled down
    Tds,        \* total difficulties a peer may announce
    Callers,    \* goroutines that may call BestPeer
    Nil

ASSUME MaxKnown >= 1 /\ Tds \subseteq Nat /\ Nil \notin Peers

VARIABLES
    peers,      \* ps.peers: the registered peers
    closed,     \* ps.closed
    disconnected, \* peers on which p.Disconnect has been called
    known,      \* known[p]: the hashes p is known to have
    td,         \* td[p]: p.td, the peer's announced total difficulty
    api,        \* peerapi.Peer: [peer |-> .PEER, id |-> .ID]
    bp          \* bp[c]: a BestPeer call of c between its two writes

vars == <<peers, closed, disconnected, known, td, api, bp>>

\* newPeerSet and newPeer: empty sets; the difficulty comes from Handshake
Init ==
    /\ peers = {}
    /\ closed = FALSE
    /\ disconnected = {}
    /\ known = [p \in Peers |-> {}]
    /\ td \in [Peers -> Tds]
    /\ api = [peer |-> Nil, id |-> Nil]
    /\ bp = [c \in Callers |-> Nil]

\* a BestPeer call holds ps.lock.RLock; ps.lock.Lock waits for it
ReadLocked == \E c \in Callers : bp[c] # Nil

\* errClosed and errAlreadyRegistered leave the set unchanged
Register(p) ==
    /\ ~ReadLocked
    /\ ~closed
    /\ p \notin peers
    /\ peers' = peers \cup {p}
    /\ UNCHANGED <<closed, disconnected, known, td, api, bp>>

Unregister(p) ==
    /\ ~ReadLocked
    /\ p \in peers
    /\ peers' = peers \ {p}
    /\ UNCHANGED <<closed, disconnected, known, td, api, bp>>

\* Close disconnects the registered peers, leaving them in the set
Close ==
    /\ ~ReadLocked
    /\ disconnected' = disconnected \cup peers
    /\ closed' = TRUE
    /\ UNCHANGED <<peers, known, td, api, bp>>

SetHead(p, t) ==
    /\ td' = [td EXCEPT ![p] = t]
    /\ UNCHANGED <<peers, closed, disconnected, known, api, bp>>

\* what is left of a known set after "for Size() >= max { Pop() }"
Evicted(S) ==
    IF Cardinality(S) < MaxKnown THEN {S}
    ELSE {T \in SUBSET S : Cardinality(T) = MaxKnown - 1}

\* MarkBlock, MarkTransaction, MarkMsg, MarkAddPeerMsg, MarkRemovePeerMsg
Mark(p, h) ==
    /\ \E T \in Evicted(known[p]) : known' = [known EXCEPT ![p] = T \cup {h}]
    /\ UNCHANGED <<peers, closed, disconnected, td, api, bp>>

\* SendTransactions, SendNewBlockHashes, SendNewBlock, SendMsg,
\* SendAddPeerMsg, SendRemovePeerMsg: the hash is added before p2p.Send
Send(p, h) ==
    /\ known' = [known EXCEPT ![p] = @ \cup {h}]
    /\ UNCHANGED <<peers, closed, disconnected, td, api, bp>>

\* the peers BestPeer may return: the first of the highest difficulty in
\* Go's random map order
Best == {p \in peers : \A q \in peers : td[q] <= td[p]}

\* BestPeer's loop and newpeerapi(bestPeer): peerapi.Peer.PEER is written
BestPeerChoose(c) ==
    /\ bp[c] = Nil
    /\ peers # {}
    /\ \E p \in Best : /\ bp' = [bp EXCEPT ![c] = p]
                       /\ api' = [api EXCEPT !.peer = p]
    /\ UNCHANGED <<peers, closed, disconnected, known, td>>

\* peerapi.Peer.ID = bestPeer.id, then the read lock is released
BestPeerSetId(c) ==
    /\ bp[c] # Nil
    /\ api' = [api EXCEPT !.id = bp[c]]
    /\ bp' = [bp EXCEPT ![c] = Nil]
    /\ UNCHANGED <<peers, closed, disconnected, known, td>>

Next ==
    \/ \E p \in Peers : Register(p) \/ Unregister(p)
    \/ Close
    \/ \E p \in Peers, t \in Tds : SetHead(p, t)
    \/ \E p \in Peers, h \in Hashes : Mark(p, h) \/ Send(p, h)
    \/ \E c \in Callers : BestPeerChoose(c) \/ BestPeerSetId(c)

Spec == Init /\ [][Next]_vars

-----------------------------------------------------------------------------

\* Once every BestPeer call has returned, peerapi.Peer.PEER and
\* peerapi.Peer.ID name the same peer, the one the PBFT event loop hands
\* to RetryHandShake and Synchronise2 together.
PeerApiConsistent == ~ReadLocked => api.peer = api.id

=============================================================================
