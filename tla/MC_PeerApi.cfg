\* Two goroutines call BestPeer under the shared read lock.
CONSTANTS
    Peers = {p1, p2}
    Hashes = {h1, h2, h3}
    MaxKnown = 2
    Tds = {1, 2}
    Callers = {c1, c2}
    Nil = Nil
SPECIFICATION Spec
INVARIANTS
    PeerApiConsistent
