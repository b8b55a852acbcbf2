---------------------------- MODULE PbftReplica ----------------------------
(***************************************************************************)
(* The PBFT replica of consensus/pbft/pbft-core.go: normal operation       *)
(* (pre-prepare, prepare, commit), in-order execution through the mining  *)
(* worker, checkpoints, watermarks and garbage collection, fall-behind     *)
(* detection and the state-transfer glue.  Every honest replica runs the   *)
(* single-threaded ProcessEvent loop: one event is handled atomically.     *)
(*                                                                         *)
(* A handler is an operator from a replica's local state to the SET of     *)
(* its possible outcomes <<state, sent messages>>: Go map iteration order  *)
(* is random, so loops over certStore or outstandingBlocks may end in      *)
(* different states.  Handlers are chained with Then, in the code's order. *)
(***************************************************************************)
EXTENDS Integers, FiniteSets, Sequences, SequencesExt

CONSTANTS
    N,                \* general.N: number of replicas, ids 0..N-1
    F,                \* general.f
    K,                \* checkpoint period
    LogMultiplier,    \* L = LogMultiplier * K
    ViewChangePeriod, \* instance.viewChangePeriod (the code forces 30)
    Byz,              \* replicas that send arbitrary messages
    Blocks,           \* candidate blocks, identified by their hash
    Proposers,        \* honest replicas whose miner hands blocks to PBFT
    MaxSeq,           \* model bound on sequence numbers
    MaxView,          \* model bound on views
    MaxSpurious,      \* model bound on ExecDoneEvents with nothing executing
    SpuriousAt,       \* honest replicas that may receive such an event
    TimeoutAt,        \* honest replicas whose newViewTimer may expire
    Nil               \* model value for a nil pointer / absent entry

Replicas == 0 .. N - 1
Honest == Replicas \ Byz
L == LogMultiplier * K
Seqs == 1 .. MaxSeq
Views == 0 .. MaxView
\* The state id a replica checkpoints is its executed chain: the sequence
\* of block hashes handed to the worker, in order.
StateIds == UNION {[1 .. n -> Blocks] : n \in 0 .. MaxSeq}

ASSUME /\ N >= 3 * F + 1          \* newPbftCore panics otherwise
       /\ LogMultiplier >= 2       \* newPbftCore panics otherwise
       /\ Byz \subseteq Replicas /\ Cardinality(Byz) <= F
       /\ Nil \notin Blocks \cup Nat

\* Messages; sender identity is authentic (recvMsg drops a mismatch).
Msg(t, v, n, d, from) == [type |-> t, v |-> v, n |-> n, d |-> d, from |-> from]

-----------------------------------------------------------------------------
(* Local state of one replica (the fields of pbftCore it reads or writes). *)

EmptyCert == [digest |-> Nil, prePrepare |-> FALSE, sentPrepare |-> FALSE,
              prepare |-> [q \in Replicas |-> Nil], sentCommit |-> FALSE,
              commit |-> {}]

InitReplica(i) ==
    [id |-> i, view |-> 0, activeView |-> TRUE, seqNo |-> 0, h |-> 0,
     lastExec |-> 0, currentExec |-> Nil, skipInProgress |-> FALSE,
     stateTransferring |-> FALSE, changeViewFlag |-> FALSE,
     timerActive |-> FALSE,
     certStore |-> [k \in Views \X Seqs |-> EmptyCert],
     blockStore |-> {}, outstandingBlocks |-> {},
     chkpts |-> [n \in 0 .. MaxSeq |-> IF n = 0 THEN <<>> ELSE Nil],
     checkpointStore |-> {}, hChkpts |-> [q \in Replicas |-> Nil],
     highStateTarget |-> Nil,
     \* the worker side: the chain of handed-over blocks, ExecDoneEvents
     \* owed for them, the target given to skipTo, and a panicked process
     chain |-> <<>>, owedDone |-> 0, xferTarget |-> Nil, panicked |-> FALSE]

primary(v) == v % N

\* intersectionQuorum
Quorum == (N + F + 2) \div 2

\* inW: uint64 n - h wraps when n < h and then exceeds L, as n - h <= 0 does.
inW(s, n) == n - s.h > 0 /\ n - s.h <= L

inWV(s, v, n) == s.view = v /\ inW(s, n)

\* the side effect of inWV on the package-level ChangeViewFlag
FlagView(s, v) == IF s.view # v THEN [s EXCEPT !.changeViewFlag = TRUE] ELSE s

viewChangeSeqNo == ViewChangePeriod * K

prePrepared(s, d, v, n) ==
    s.certStore[<<v, n>>].prePrepare /\ s.certStore[<<v, n>>].digest = d

\* mutant: one prepare short of the quorum counts as prepared
prepared_offByOne(s, d, v, n) ==
    /\ prePrepared(s, d, v, n)
    /\ Cardinality({q \in Replicas : s.certStore[<<v, n>>].prepare[q] = d})
         >= Quorum - 2

prepared(s, d, v, n) ==
    /\ prePrepared(s, d, v, n)
    /\ Cardinality({q \in Replicas : s.certStore[<<v, n>>].prepare[q] = d})
         >= Quorum - 1

committed(s, d, v, n) ==
    /\ prepared(s, d, v, n)
    /\ Cardinality(s.certStore[<<v, n>>].commit) >= Quorum

-----------------------------------------------------------------------------
(* Chaining handler outcomes.                                               *)

Unit(s) == {<<s, {}>>}

Send(s, m) == {<<s, {m}>>}

Then(R, Op(_)) ==
    UNION {{<<y[1], x[2] \cup y[2]>> : y \in Op(x[1])} : x \in R}

-----------------------------------------------------------------------------
(* The newViewTimer.  Only whether it is armed is kept: when it expires is  *)
(* up to the clock, so an armed timer may expire at any step.              *)

softStartTimer(s) == [s EXCEPT !.timerActive = TRUE]

stopTimer(s) == [s EXCEPT !.timerActive = FALSE]

\* the null-request timer it arms otherwise is not modelled (line 1117)
startTimerIfOutstandingBlocks(s) ==
    IF s.skipInProgress \/ s.currentExec # Nil \/ s.outstandingBlocks = {}
    THEN s
    ELSE softStartTimer(s)

-----------------------------------------------------------------------------
(* Execution.                                                              *)

\* mutant: executeOne without the idx.n == LastExec+1 test
executable_anyOrder(s, k) ==
    /\ s.certStore[k].prePrepare
    /\ ~s.skipInProgress
    /\ committed(s, s.certStore[k].digest, k[1], k[2])

executable(s, k) ==
    /\ k[2] = s.lastExec + 1
    /\ s.certStore[k].prePrepare
    /\ ~s.skipInProgress
    /\ committed(s, s.certStore[k].digest, k[1], k[2])

\* executeOne hands the block to the worker (finishedChan or CommittedBlock)
\* which later answers with one ExecDoneEvent.
\* mutant: currentExec taken from LastExec instead of idx.n
executeOne_lastExec(s, k) ==
    [s EXCEPT !.currentExec = s.lastExec,
              !.chain = Append(@, s.certStore[k].digest),
              !.owedDone = @ + 1]

executeOne(s, k) ==
    [s EXCEPT !.currentExec = k[2],
              !.chain = Append(@, s.certStore[k].digest),
              !.owedDone = @ + 1]

executeOutstanding(s) ==
    LET ks == {k \in DOMAIN s.certStore : executable(s, k)}
    IN IF s.currentExec # Nil THEN Unit(s)
       ELSE IF ks = {} THEN Unit(startTimerIfOutstandingBlocks(s))
       ELSE {<<startTimerIfOutstandingBlocks(executeOne(s, k)), {}>> : k \in ks}

-----------------------------------------------------------------------------
(* Normal operation.                                                       *)

\* The view-change trigger; its body lives in viewchange.go, outside src/.
sendViewChange(s) ==
    LET s1 == [s EXCEPT !.activeView = FALSE, !.view = @ + 1]
    IN Send(s1, Msg("viewchange", s1.view, s.h, Nil, s.id))

\* mutant: the committed block is left in outstandingBlocks
recvCommit_keepOutstanding(s, c) ==
    LET k == <<c.v, c.n>>
        s1 == [s EXCEPT !.certStore[k].commit = @ \cup {c.from}]
        s2 == stopTimer(s1)
    IN IF ~inWV(s, c.v, c.n) THEN Unit(FlagView(s, c.v))
       ELSE IF c.from \in s.certStore[k].commit THEN Unit(s)
       ELSE IF ~committed(s1, c.d, c.v, c.n) THEN Unit(s1)
       ELSE IF c.n = viewChangeSeqNo
            THEN Then(executeOutstanding(s2), sendViewChange)
       ELSE executeOutstanding(s2)

recvCommit(s, c) ==
    LET k == <<c.v, c.n>>
        s1 == [s EXCEPT !.certStore[k].commit = @ \cup {c.from}]
        s2 == [stopTimer(s1) EXCEPT !.outstandingBlocks = @ \ {c.d}]
    IN IF ~inWV(s, c.v, c.n) THEN Unit(FlagView(s, c.v))
       ELSE IF c.from \in s.certStore[k].commit THEN Unit(s)
       ELSE IF ~committed(s1, c.d, c.v, c.n) THEN Unit(s1)
       ELSE IF c.n = viewChangeSeqNo
            THEN Then(executeOutstanding(s2), sendViewChange)
       ELSE executeOutstanding(s2)

maybeSendCommit(s, d, v, n) ==
    LET c == Msg("commit", v, n, d, s.id)
    IN IF prepared(s, d, v, n) /\ ~s.certStore[<<v, n>>].sentCommit
       THEN Then(Send([s EXCEPT !.certStore[<<v, n>>].sentCommit = TRUE], c),
                 LAMBDA x : recvCommit(x, c))
       ELSE Unit(s)

recvPrepare(s, p) ==
    LET k == <<p.v, p.n>>
    IN IF primary(p.v) = p.from THEN Unit(s)
       ELSE IF ~inWV(s, p.v, p.n) THEN Unit(FlagView(s, p.v))
       ELSE IF s.certStore[k].prepare[p.from] # Nil THEN Unit(s)
       ELSE maybeSendCommit([s EXCEPT !.certStore[k].prepare[p.from] = p.d],
                            p.d, p.v, p.n)

sendPrePrepare(s, b) ==
    LET n == s.seqNo + 1
        dup == \E k \in DOMAIN s.certStore :
                 /\ s.certStore[k].prePrepare /\ k[1] = s.view /\ k[2] # n
                 /\ s.certStore[k].digest = b
        s1 == [s EXCEPT !.seqNo = n,
                        !.certStore[<<s.view, n>>].prePrepare = TRUE,
                        !.certStore[<<s.view, n>>].digest = b]
    IN IF dup \/ n > MaxSeq THEN Unit(s)   \* n > MaxSeq: model bound
       ELSE IF ~inWV(s, s.view, n) \/ n > s.h + L \div 2 THEN Unit(s)
       ELSE IF n > viewChangeSeqNo THEN Unit(s)
       ELSE Then(Send(s1, Msg("preprepare", s.view, n, b, s.id)),
                 LAMBDA x : maybeSendCommit(x, b, s.view, n))

recvRequestBlock(s, b) ==
    LET s0 == [s EXCEPT !.blockStore = @ \cup {b},
                        !.outstandingBlocks = @ \cup {b}]
        s1 == IF s.activeView THEN softStartTimer(s0) ELSE s0
    IN IF primary(s.view) = s.id /\ s.activeView THEN sendPrePrepare(s1, b)
       ELSE Unit(s1)

recvPrePrepare(s, pp) ==
    LET k == <<pp.v, pp.n>>
        s1 == [s EXCEPT !.certStore[k].prePrepare = TRUE,
                        !.certStore[k].digest = pp.d]
        s2 == softStartTimer(
                IF pp.d \in s.blockStore THEN s1
                ELSE [s1 EXCEPT !.blockStore = @ \cup {pp.d},
                                !.outstandingBlocks = @ \cup {pp.d}])
        prep == Msg("prepare", pp.v, pp.n, pp.d, s.id)
    IN IF ~s.activeView \/ primary(s.view) # pp.from THEN Unit(s)
       ELSE IF ~inWV(s, pp.v, pp.n) THEN Unit(FlagView(s, pp.v))
       ELSE IF pp.n > viewChangeSeqNo THEN sendViewChange(s)
       ELSE IF s.certStore[k].digest \notin {Nil, pp.d} THEN sendViewChange(s)
       ELSE IF primary(s.view) # s.id /\ prePrepared(s2, pp.d, pp.v, pp.n)
               /\ ~s2.certStore[k].sentPrepare
            THEN Then(Send([s2 EXCEPT !.certStore[k].sentPrepare = TRUE], prep),
                      LAMBDA x : recvPrepare(x, prep))
       ELSE Unit(s2)

\* resubmitBlockMsges: the primary feeds every outstanding block that no
\* certificate names back into recvRequestBlock, in map order.
RECURSIVE resubmitAll(_, _)
resubmitAll(R, order) ==
    IF order = <<>> THEN R
    ELSE resubmitAll(Then(R, LAMBDA x : recvRequestBlock(x, Head(order))),
                     Tail(order))

resubmitBlockMsges(s) ==
    LET todo == {d \in s.outstandingBlocks :
                   \A k \in DOMAIN s.certStore : s.certStore[k].digest # d}
    IN IF primary(s.view) # s.id \/ todo = {} THEN Unit(s)
       ELSE UNION {resubmitAll(Unit(s), order) : order \in SetToSeqs(todo)}

-----------------------------------------------------------------------------
(* Checkpoints, watermarks and state transfer.                             *)

\* mutant: certificates at the new low watermark itself are kept
moveWatermarks_keepLow(s, n) ==
    LET h == (n \div K) * K
        gone == {k \in DOMAIN s.certStore : k[2] < h}
    IN resubmitBlockMsges(
         [s EXCEPT
            !.blockStore = @ \ {s.certStore[k].digest : k \in gone},
            !.certStore = [k \in DOMAIN @ |-> IF k \in gone THEN EmptyCert
                                               ELSE @[k]],
            !.checkpointStore = {c \in @ : c.n > h},
            !.chkpts = [m \in DOMAIN @ |-> IF m < h THEN Nil ELSE @[m]],
            !.h = h])

\* mutant: the outstanding blocks are not resubmitted after the move
moveWatermarks_noResubmit(s, n) ==
    LET h == (n \div K) * K
        gone == {k \in DOMAIN s.certStore : k[2] <= h}
    IN Unit(
         [s EXCEPT
            !.blockStore = @ \ {s.certStore[k].digest : k \in gone},
            !.certStore = [k \in DOMAIN @ |-> IF k \in gone THEN EmptyCert
                                               ELSE @[k]],
            !.checkpointStore = {c \in @ : c.n > h},
            !.chkpts = [m \in DOMAIN @ |-> IF m < h THEN Nil ELSE @[m]],
            !.h = h])

moveWatermarks(s, n) ==
    LET h == (n \div K) * K
        gone == {k \in DOMAIN s.certStore : k[2] <= h}
    IN resubmitBlockMsges(
         [s EXCEPT
            !.blockStore = @ \ {s.certStore[k].digest : k \in gone},
            !.certStore = [k \in DOMAIN @ |-> IF k \in gone THEN EmptyCert
                                               ELSE @[k]],
            !.checkpointStore = {c \in @ : c.n > h},
            !.chkpts = [m \in DOMAIN @ |-> IF m < h THEN Nil ELSE @[m]],
            !.h = h])

retryStateTransfer(s, optional) ==
    LET target == IF optional # Nil THEN optional ELSE s.highStateTarget
    IN IF s.currentExec # Nil \/ s.stateTransferring \/ target = Nil
       THEN Unit(s)
       ELSE Unit([s EXCEPT !.stateTransferring = TRUE,
                           !.xferTarget = target])   \* helper.skipTo

updateHighStateTarget(s, target) ==
    IF s.highStateTarget # Nil /\ s.highStateTarget.n >= target.n THEN s
    ELSE [s EXCEPT !.highStateTarget = target]

\* The weak certificate's members only choose whom skipTo fetches from.
witnessCheckpointWeakCert(s, c) ==
    LET target == [n |-> c.n, id |-> c.d]
        s1 == updateHighStateTarget(s, target)
    IN IF s1.skipInProgress THEN retryStateTransfer(s1, target) ELSE Unit(s1)

\* weakCheckpointSetOutOfRange, first half: hChkpts bookkeeping and the
\* (F+1)-th highest recorded sequence number m (Nil when not computed).
hChkptsAfter(s, c) ==
    LET H == s.h + L
        hc == [s.hChkpts EXCEPT ![c.from] = IF c.n < H THEN Nil ELSE c.n]
    IN IF c.n >= H /\ Cardinality({q \in Replicas : hc[q] # Nil}) >= F + 1
       THEN [q \in Replicas |-> IF hc[q] # Nil /\ hc[q] < H THEN Nil ELSE hc[q]]
       ELSE hc

weakHigh(s, c) ==
    LET H == s.h + L
        hc == [s.hChkpts EXCEPT ![c.from] = c.n]
        recorded == {q \in Replicas : hc[q] # Nil}
        atLeast(x) == Cardinality({q \in recorded : hc[q] >= x}) >= F + 1
    IN IF c.n < H \/ Cardinality(recorded) < F + 1 THEN Nil
       ELSE CHOOSE x \in {hc[q] : q \in recorded} :
              atLeast(x) /\ \A y \in {hc[q] : q \in recorded} :
                               y > x => ~atLeast(y)

weakCheckpointSetOutOfRange(s, c) ==
    LET m == weakHigh(s, c)
    IN m # Nil /\ m > s.h + L

\* the true branch: the replica is provably behind
fallBehind(s, c) ==
    LET s1 == [s EXCEPT !.hChkpts = hChkptsAfter(s, c), !.blockStore = {}]
    IN Then(moveWatermarks(s1, weakHigh(s, c)),
            LAMBDA x : Unit(stopTimer([x EXCEPT !.outstandingBlocks = {},
                                                !.skipInProgress = TRUE])))

\* mutant: f matching checkpoints taken for a weak certificate
recvCheckpoint_weakF(s, c) ==
    LET s0 == [s EXCEPT !.hChkpts = hChkptsAfter(s, c)]
        s1 == [s0 EXCEPT !.checkpointStore = @ \cup {c}]
        same == {x \in s1.checkpointStore : x.n = c.n}
        matching == Cardinality({x \in same : x.d = c.d})
        diffValues == {x.d : x \in same}
        own == s.chkpts[c.n]
        quorumStep(x) ==
            IF matching < Quorum THEN Unit(x)
            ELSE IF x.chkpts[c.n] = Nil
                 THEN IF x.skipInProgress /\ c.n >= x.h + L \div 2
                      THEN moveWatermarks(x, c.n) ELSE Unit(x)
            ELSE moveWatermarks(x, c.n)   \* then processNewView
    IN IF weakCheckpointSetOutOfRange(s, c) THEN fallBehind(s, c)
       ELSE IF ~inW(s0, c.n) THEN Unit(s0)
       ELSE IF Cardinality(diffValues) > F + 1
            THEN Unit([s1 EXCEPT !.panicked = TRUE])      \* logger.Panicf
       ELSE IF matching = F /\ own # Nil /\ own # c.d
            THEN Unit([s1 EXCEPT !.panicked = TRUE])      \* logger.Panicf
       ELSE IF matching = F
            THEN Then(witnessCheckpointWeakCert(s1, c), quorumStep)
       ELSE quorumStep(s1)

recvCheckpoint(s, c) ==
    LET s0 == [s EXCEPT !.hChkpts = hChkptsAfter(s, c)]
        s1 == [s0 EXCEPT !.checkpointStore = @ \cup {c}]
        same == {x \in s1.checkpointStore : x.n = c.n}
        matching == Cardinality({x \in same : x.d = c.d})
        diffValues == {x.d : x \in same}
        own == s.chkpts[c.n]
        quorumStep(x) ==
            IF matching < Quorum THEN Unit(x)
            ELSE IF x.chkpts[c.n] = Nil
                 THEN IF x.skipInProgress /\ c.n >= x.h + L \div 2
                      THEN moveWatermarks(x, c.n) ELSE Unit(x)
            ELSE moveWatermarks(x, c.n)   \* then processNewView
    IN IF weakCheckpointSetOutOfRange(s, c) THEN fallBehind(s, c)
       ELSE IF ~inW(s0, c.n) THEN Unit(s0)
       ELSE IF Cardinality(diffValues) > F + 1
            THEN Unit([s1 EXCEPT !.panicked = TRUE])      \* logger.Panicf
       ELSE IF matching = F + 1 /\ own # Nil /\ own # c.d
            THEN Unit([s1 EXCEPT !.panicked = TRUE])      \* logger.Panicf
       ELSE IF matching = F + 1
            THEN Then(witnessCheckpointWeakCert(s1, c), quorumStep)
       ELSE quorumStep(s1)

Checkpoint(s, n, id) ==
    LET c == Msg("checkpoint", 0, n, id, s.id)
    IN IF n % K # 0 THEN Unit(s)
       ELSE Then(Send([s EXCEPT !.chkpts[n] = id], c),
                 LAMBDA x : recvCheckpoint(x, c))

execDoneSync(s) ==
    LET done == [s EXCEPT !.lastExec = s.currentExec]
        s1 == IF s.currentExec = Nil
              THEN Unit([s EXCEPT !.skipInProgress = TRUE])
              ELSE IF s.currentExec % K = 0
                   THEN Checkpoint(done, s.currentExec, s.chain)
                   ELSE Unit(done)
    IN Then(Then(s1, LAMBDA x : Unit([x EXCEPT !.currentExec = Nil])),
            executeOutstanding)

\* ProcessEvent, case ExecDoneEvent (processNewView returns at once while
\* the view is active)
execDoneEvent(s) ==
    Then(execDoneSync(s),
         LAMBDA x : IF x.skipInProgress THEN retryStateTransfer(x, Nil)
                    ELSE Unit(x))

\* ProcessEvent, case stateUpdateEvent: the helper reports the outcome of
\* skipTo(target); ok is FALSE when the target was not reachable.
stateUpdateEvent(s, ok) ==
    LET update == s.xferTarget
        s0 == [s EXCEPT !.stateTransferring = FALSE, !.xferTarget = Nil]
        caughtUp == [s0 EXCEPT !.lastExec = update.n, !.chain = update.id]
        \* SendViewChangeFlag is never set in the code, so ChangeViewFlag
        \* alone decides: view++
        flags(x) == IF x.changeViewFlag
                    THEN Unit([x EXCEPT !.view = @ + 1,
                                        !.changeViewFlag = FALSE])
                    ELSE Unit(x)
    IN IF ~ok \/ update.n < s.h
       THEN IF s.highStateTarget # Nil /\ update.n < s.highStateTarget.n
            THEN retryStateTransfer(s0, Nil) ELSE Unit(s0)
       ELSE Then(Then(Then(Then(moveWatermarks(caughtUp, update.n),
                  LAMBDA x : Unit([x EXCEPT !.skipInProgress = FALSE])),
                  LAMBDA x : Checkpoint(x, update.n, update.id)),
                  executeOutstanding),
                  flags)

\* ProcessEvent, case *types.PbftMessage, dispatched on the payload type
recvMsg(s, m) ==
    CASE m.type = "preprepare" -> recvPrePrepare(s, m)
      [] m.type = "prepare"    -> recvPrepare(s, m)
      [] m.type = "commit"     -> recvCommit(s, m)
      [] m.type = "checkpoint" -> recvCheckpoint(s, m)

-----------------------------------------------------------------------------
(* The system: honest replicas, a network that loses, duplicates and       *)
(* reorders (msgs only grows; a receiver may take any message any number  *)
(* of times, or never), and Byzantine replicas whose messages are all in   *)
(* the network from the start.                                            *)

\* Everything a Byzantine replica can say with the model's blocks, and the
\* checkpoints ids it may claim (a set of <<n, id>>).
AnyByzMsgs(chkptClaims) ==
    {Msg(t, v, n, d, b) : t \in {"prepare", "commit"}, v \in Views, n \in Seqs,
                          d \in Blocks, b \in Byz}
    \cup {Msg("preprepare", v, n, d, primary(v)) :
            v \in {w \in Views : primary(w) \in Byz}, n \in Seqs, d \in Blocks}
    \cup {Msg("checkpoint", 0, c[1], c[2], b) : c \in chkptClaims, b \in Byz}

\* the messages the Byzantine replicas of a model send
CONSTANT ByzMsgs
ASSUME \A m \in ByzMsgs : m.from \in Byz

VARIABLES
    rep,       \* rep[r]: the pbftCore fields of honest replica r
    msgs,      \* every message ever broadcast
    fed,       \* <<r, b>>: block b was handed to recvRequestBlock at r
    spurious   \* ExecDoneEvents so far that no execution asked for

vars == <<rep, msgs, fed, spurious>>

Init ==
    /\ rep = [r \in Honest |-> InitReplica(r)]
    /\ msgs = ByzMsgs
    /\ fed = {}
    /\ spurious = 0

\* replica r takes one of the outcomes R of a handler
Step(r, R) ==
    \E o \in R :
        /\ o[1].view <= MaxView            \* model bound on views
        /\ rep' = [rep EXCEPT ![r] = o[1]]
        /\ msgs' = msgs \cup o[2]

\* a block arrives at the PBFT engine (recvRequestBlock)
RequestBlock(r, b) ==
    /\ r \in Proposers
    /\ ~rep[r].panicked
    /\ <<r, b>> \notin fed
    /\ Step(r, recvRequestBlock(rep[r], b))
    /\ fed' = fed \cup {<<r, b>>}
    /\ UNCHANGED spurious

Deliver(r, m) ==
    /\ ~rep[r].panicked
    /\ m.from # r
    /\ m.type \in {"preprepare", "prepare", "commit", "checkpoint"}
    /\ Step(r, recvMsg(rep[r], m))
    /\ UNCHANGED <<fed, spurious>>

\* the worker has written the block handed over by executeOne and posts
\* CommittedEvent, which ProcessEvent turns into an ExecDoneEvent
ExecDone(r) ==
    /\ ~rep[r].panicked
    /\ rep[r].owedDone > 0
    /\ Step(r, execDoneEvent([rep[r] EXCEPT !.owedDone = @ - 1]))
    /\ UNCHANGED <<fed, spurious>>

\* a CommittedEvent for a block written outside executeOne
SpuriousDone(r) ==
    /\ r \in SpuriousAt
    /\ ~rep[r].panicked
    /\ spurious < MaxSpurious
    /\ Step(r, execDoneEvent(rep[r]))
    /\ spurious' = spurious + 1
    /\ UNCHANGED fed

\* ProcessEvent's viewChangeTimerEvent case: timerActive = false and
\* sendViewChange, with no test of activeView
ViewChangeTimer(r) ==
    /\ r \in TimeoutAt
    /\ ~rep[r].panicked
    /\ rep[r].timerActive
    /\ Step(r, sendViewChange(stopTimer(rep[r])))
    /\ UNCHANGED <<fed, spurious>>

\* the helper finishes the transfer started by skipTo
StateUpdate(r, ok) ==
    /\ ~rep[r].panicked
    /\ rep[r].xferTarget # Nil
    /\ Step(r, stateUpdateEvent(rep[r], ok))
    /\ UNCHANGED <<fed, spurious>>

Next ==
    \E r \in Honest :
        \/ \E b \in Blocks : RequestBlock(r, b)
        \/ \E m \in msgs : Deliver(r, m)
        \/ ExecDone(r)
        \/ SpuriousDone(r)
        \/ ViewChangeTimer(r)
        \/ \E ok \in BOOLEAN : StateUpdate(r, ok)

Spec == Init /\ [][Next]_vars

\* ProcessEvent takes every queued event in turn, so a worker's
\* acknowledgement and the helper's transfer result are eventually handled.
\* The transport is best effort; liveness assumes that a message whose
\* delivery would change a replica's state is not lost for ever.
\* Taking a pre-prepare, prepare or commit again changes nothing, but an
\* old checkpoint resets the sender's hChkpts entry, so a replica could keep
\* alternating two checkpoints: fairness is on the votes as a whole and on
\* the checkpoints of each sequence number separately.
Votes == {"preprepare", "prepare", "commit"}

Fairness ==
    \A r \in Honest :
         /\ WF_vars(\E m \in msgs : m.type \in Votes /\ Deliver(r, m))
         /\ \A n \in Seqs :
              WF_vars(\E m \in msgs : m.type = "checkpoint" /\ m.n = n
                                     /\ Deliver(r, m))
         /\ WF_vars(ExecDone(r))
         /\ WF_vars(\E ok \in BOOLEAN : StateUpdate(r, ok))

FairSpec == Spec /\ Fairness

-----------------------------------------------------------------------------
(* Properties.                                                             *)

MsgTypes == {"preprepare", "prepare", "commit", "checkpoint", "viewchange"}

Target == [n : Seqs, id : StateIds]

TypeOK ==
    /\ msgs \subseteq [type : MsgTypes, v : 0 .. MaxView + 1, n : 0 .. MaxSeq,
                       d : Blocks \cup StateIds \cup {Nil}, from : Replicas]
    /\ fed \subseteq Honest \X Blocks
    /\ spurious \in 0 .. MaxSpurious
    /\ \A r \in Honest :
        LET s == rep[r] IN
        /\ s.id = r
        /\ s.view \in Views /\ s.activeView \in BOOLEAN
        /\ {s.seqNo, s.h, s.lastExec} \subseteq 0 .. MaxSeq
        /\ s.currentExec \in Seqs \cup {Nil}
        /\ {s.skipInProgress, s.stateTransferring, s.changeViewFlag,
            s.timerActive, s.panicked} \subseteq BOOLEAN
        /\ \A k \in Views \X Seqs :
             /\ s.certStore[k].digest \in Blocks \cup {Nil}
             /\ s.certStore[k].prepare \in [Replicas -> Blocks \cup {Nil}]
             /\ s.certStore[k].commit \subseteq Replicas
        /\ s.blockStore \cup s.outstandingBlocks \subseteq Blocks
        /\ s.chkpts \in [0 .. MaxSeq -> StateIds \cup {Nil}]
        /\ s.checkpointStore \subseteq msgs
        /\ s.hChkpts \in [Replicas -> Seqs \cup {Nil}]
        /\ {s.highStateTarget, s.xferTarget} \subseteq Target \cup {Nil}
        /\ s.chain \in Seq(Blocks) /\ s.owedDone \in Nat

\* Agreement (spec section 8): the chains that honest replicas hand to their
\* workers through executeOne and install through state transfer never
\* diverge; one is always a prefix of the other.
Agreement ==
    \A r1, r2 \in Honest :
        IsPrefix(rep[r1].chain, rep[r2].chain)
        \/ IsPrefix(rep[r2].chain, rep[r1].chain)

\* A block is ordered once: executeOne never hands the same block to the
\* worker twice.  sendPrePrepare refuses a block already pre-prepared at
\* another sequence number (spec section 4.4), but it only sees the
\* certificates garbage collection has not removed, while
\* resubmitBlockMsges re-proposes every outstanding block no certificate
\* names.
NoDoubleExecution ==
    \A r \in Honest :
        \A i, j \in DOMAIN rep[r].chain : i # j => rep[r].chain[i] # rep[r].chain[j]

\* Certificates in the log (spec section 3, invariant 1): every certificate
\* an honest replica holds a pre-prepare for lies in its window (h, h+L];
\* moveWatermarks removes those at or below the new h, and the receive
\* handlers only create certificates that inWV accepts.
CertsWithinWatermarks ==
    \A r \in Honest : \A k \in Views \X Seqs :
        rep[r].certStore[k].prePrepare => inW(rep[r], k[2])

\* No honest replica reaches either logger.Panicf of recvCheckpoint: more
\* than f+1 different state ids for one checkpoint, or a weak certificate
\* that contradicts its own checkpoint.
NoFatalCheckpoint == \A r \in Honest : ~rep[r].panicked

\* A state transfer only goes to a state an honest replica vouched for:
\* updateHighStateTarget takes the target from a weak certificate, f+1
\* matching checkpoints (recvCheckpoint), so at least one honest replica
\* checkpointed that chain, and the target is a prefix of an honest chain.
\* A faulty replica's claims alone never set highStateTarget or the
\* target handed to skipTo.
TransferTargetsVouched ==
    \A r \in Honest :
        \A t \in {rep[r].highStateTarget, rep[r].xferTarget} \ {Nil} :
            \E r2 \in Honest : IsPrefix(t.id, rep[r2].chain)

\* Monotonic execution (spec section 8): no step of a replica, execDoneSync
\* or a completed state transfer included, lowers LastExec or replaces
\* the executed chain by one that does not extend it.
ExecutionNeverRollsBack ==
    [][\A r \in Honest :
         /\ rep'[r].lastExec >= rep[r].lastExec
         /\ IsPrefix(rep[r].chain, rep'[r].chain)]_vars


\* View changes go through the view-change protocol (spec section 4.6): a
\* replica enters a higher view only by sending a ViewChange, which leaves
\* it inactive until NewView processing; stateUpdateEvent's ChangeViewFlag
\* branch, set by inWV for any message of another view, must not move an
\* active replica to the next view on its own.
ViewChangesOnlyThroughProtocol ==
    [][\A r \in Honest :
         rep'[r].view > rep[r].view => ~rep'[r].activeView]_vars

\* The newViewTimer is armed only while the replica waits for a block
\* (spec section 4.2: "armed when there is an outstanding block not yet
\* committed"): some block is outstanding or is being executed.  recvCommit
\* stops it and executeOutstanding re-arms it only for outstanding blocks,
\* but recvPrePrepare soft-arms it for every pre-prepare it accepts, a
\* re-delivered one for a committed block included.  Stated for the
\* replicas whose timer may expire, the only ones whose timerActive the
\* models follow.
TimerOnlyWhileWaiting ==
    \A r \in TimeoutAt :
        rep[r].timerActive =>
            rep[r].outstandingBlocks # {} \/ rep[r].currentExec # Nil

\* every block handed to a proposer is in every honest replica's chain
AllFedExecuted ==
    \A r0 \in Proposers, b \in Blocks :
        <<r0, b>> \in fed => \A r \in Honest : b \in Range(rep[r].chain)

\* Every block handed to a proposer is eventually executed by every honest
\* replica: a block that sendPrePrepare refuses because the window
\* (h, h + L/2] is full waits in outstandingBlocks until the next
\* watermark move resubmits it.  fed only grows, and without spurious
\* ExecDoneEvents the executed chains only grow too (RefinesLog), so
\* "each fed block leads to its execution everywhere" is the same as
\* "infinitely often every fed block has been executed everywhere", the
\* form stated here (TLC checks it without a tableau).
FedBlocksExecuted == []<>AllFedExecuted

-----------------------------------------------------------------------------
(* Refinement: the replicas implement the decided log of PbftLog.  The     *)
(* decided log is the longest chain any honest replica has handed to its   *)
(* worker or installed by state transfer.                                  *)

DecidedLog ==
    LET chains == {rep[r].chain : r \in Honest}
    IN CHOOSE c \in chains : \A d \in chains : Len(d) <= Len(c)

Log == INSTANCE PbftLog WITH Replicas <- Honest, MaxLen <- MaxSeq,
                             log <- DecidedLog,
                             chain <- [r \in Honest |-> rep[r].chain]

\* The replicas implement PbftLog: every step of executeOne,
\* execDoneSync or stateUpdateEvent moves one replica to a longer chain
\* on a single decided log that never repeats a block, so no replica
\* diverges, re-executes a block or rolls back.
RefinesLog == Log!Spec

=============================================================================
