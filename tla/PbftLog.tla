------------------------------ MODULE PbftLog ------------------------------
(***************************************************************************)
(* What PBFT promises the replicas that run it (spec sections 1 and 8):    *)
(* one decided log of blocks, each block in it once, and for every         *)
(* replica an executed chain that is a prefix of that log and only grows,  *)
(* whether by executing the next block or by installing a longer prefix    *)
(* through state transfer.                                                 *)
(***************************************************************************)
EXTENDS Sequences, SequencesExt

CONSTANTS
    Replicas,   \* the correct replicas
    Blocks,     \* the blocks that can be ordered
    MaxLen      \* bound on the length of the log

VARIABLES
    log,        \* the decided order of blocks
    chain       \* chain[r]: the blocks replica r has executed, in order

vars == <<log, chain>>

Init ==
    /\ log = <<>>
    /\ chain = [r \in Replicas |-> <<>>]

\* Replica r moves to the longer chain c.  The chain stays on the log; a
\* chain that runs past the log decides the blocks beyond it in the same
\* step, and the decided log never repeats a block.
Advance(r, c) ==
    /\ IsPrefix(chain[r], c)
    /\ c # chain[r]
    /\ IsPrefix(c, log) \/ IsPrefix(log, c)
    /\ log' = IF Len(c) > Len(log) THEN c ELSE log
    /\ IsInjective(log')
    /\ chain' = [chain EXCEPT ![r] = c]

Next == \E r \in Replicas, c \in BoundedSeq(Blocks, MaxLen) : Advance(r, c)

Spec == Init /\ [][Next]_vars

=============================================================================
