--------------------------- MODULE MC_PbftReplica ---------------------------
(* Four replicas tolerating one fault, checkpoint every sequence number.  *)
EXTENDS PbftReplica

CONSTANTS b1, b2, b3

MC_Blocks == {b1, b2, b3}

MC_TwoBlocks == {b1, b2}

\* replica 3 is faulty and silent (crashed)
MC_ByzMsgs == {}

\* a faulty primary of view 0 pre-prepares every block at every slot
MC_ByzPrimary == {m \in AnyByzMsgs({}) : m.type = "preprepare" /\ m.v = 0}

\* a faulty backup claims every one-block chain as checkpoint 1
MC_ByzClaims == {m \in AnyByzMsgs({<<1, <<b>>>> : b \in MC_TwoBlocks}) :
                   m.type = "checkpoint"}

\* a faulty backup claims three different chains as checkpoint 1
MC_ByzEquivocation == {m \in AnyByzMsgs({<<1, <<b>>>> : b \in MC_Blocks}) :
                         m.type = "checkpoint"}

\* a faulty backup sends one prepare of view 1 while the others are in view 0
MC_ByzStaleView == {Msg("prepare", 1, 1, b1, 3)}

\* The blocks are interchangeable model values, so for a property that
\* quantifies over all of them it is enough that b1 reaches a proposer
\* before b2 (symmetry sets are unsound for liveness; this restriction
\* of the inputs is not).
MC_FeedInOrder == \A r \in Proposers : <<r, b2>> \in fed' => <<r, b1>> \in fed

MC_FairSpec == Init /\ [][Next /\ MC_FeedInOrder]_vars /\ Fairness

\* timerActive is read only by ViewChangeTimer, and only for the replicas
\* in TimeoutAt: for the others it is left out of the states TLC compares.
MC_TimerView ==
    <<[r \in Honest |-> IF r \in TimeoutAt THEN rep[r]
                        ELSE [rep[r] EXCEPT !.timerActive = FALSE]],
      msgs, fed, spurious>>

\* the blocks are interchangeable
MC_Symmetry == Permutations(MC_Blocks)

MC_Symmetry2 == Permutations(MC_TwoBlocks)

=============================================================================
