# TLA+ models of the PBFT engine of zk-hibechain

This directory holds TLA+ specifications of the PBFT replication engine in
`src/ethereum/go-ethereum/consensus/pbft/pbft-core.go` and of the miner that
feeds it (`miner/worker.go`, `miner/agent.go`), of the eth peer layer that
carries its messages and finds it a peer for state transfer (`eth/peer.go`),
the TLC configurations
that check them, and `PROJECT.json`. `PROJECT.json` lists the components, the
runs, the mutants, the map from definitions to source lines, the findings and
the hazards.

## The system

The parts of the repository and how they interact:

| part | source | role |
|---|---|---|
| PBFT core | `consensus/pbft/pbft-core.go` | A single-threaded event loop (`ProcessEvent`). It orders candidate blocks through pre-prepare, prepare and commit. It hands committed blocks to the miner in sequence order, checkpoints every K sequence numbers and moves the watermarks `(h, h+L]`. It detects when it has fallen behind and asks the helper for a state transfer (`stateUpdateEvent`). |
| view change | `viewchange.go` | Not in the repository. `sendViewChange`, `recvViewChange`, `recvNewView` and `processNewView` are only called from the core. |
| miner | `miner/worker.go`, `miner/agent.go` | Writes blocks. After writing a canonical block it posts `CommittedEvent`, which the core turns into an `ExecDoneEvent`. |
| operator API | `consensus/pbft/api.go` | Snapshot queries and a proposals map guarded by a lock. |
| transport | `eth/peer.go` | Sends the PBFT messages between peers. It runs the status handshake with each new peer, keeps the registered peers and the hashes each is known to have, and `BestPeer` publishes the peer of highest difficulty in `peerapi.Peer`. The PBFT loop reads `peerapi.Peer` after a state update to resynchronise. |
| others | `zktx`, `tcap.go`, `web3ext`, `tx_pool_test.go` | Cryptography, a certificate authority, JavaScript console strings and tests. They have no part in consensus. |

## Modules

**`PbftReplica`** models one honest replica's `pbftCore` fields as a record
`rep[r]`. A handler of the code is an operator from that record to the *set* of
its possible outcomes `<<new state, messages sent>>`:

- `Then` chains handlers in the order the code calls them. A nested call, such
  as `sendPrePrepare` → `maybeSendCommit` → `recvCommit` → `executeOutstanding`,
  is one atomic step, as it is in the event loop.
- Go map iteration is random, so a loop over `certStore` or `outstandingBlocks`
  yields one outcome per order: `executeOutstanding`, and `resubmitBlockMsges`
  through `SetToSeqs`.

Correspondence with the code:

| model | code |
|---|---|
| `recvRequestBlock`, `sendPrePrepare`, `recvPrePrepare`, `recvPrepare`, `maybeSendCommit`, `recvCommit` | the normal-case handlers of the same names |
| `prePrepared`, `prepared`, `committed`, `Quorum`, `inW`, `inWV` | the quorum and watermark predicates. `committed` ignores the commit digests, as the code does. `FlagView` is `inWV`'s side effect on `ChangeViewFlag`. |
| `executable`, `executeOne`, `executeOutstanding` | `executeOne` and `executeOutstanding`. Handing the block to the worker appends its hash to `chain` and owes the worker one `ExecDoneEvent` (`owedDone`). |
| `execDoneSync`, `execDoneEvent`, `Checkpoint` | the `ExecDoneEvent` case of `ProcessEvent`, including its `retryStateTransfer(nil)` |
| `moveWatermarks`, `resubmitBlockMsges` | garbage collection and re-proposal of outstanding blocks |
| `recvCheckpoint`, `weakCheckpointSetOutOfRange` (with `hChkptsAfter`, `weakHigh`, `fallBehind`), `witnessCheckpointWeakCert`, `updateHighStateTarget`, `retryStateTransfer` | checkpoint handling and fall-behind detection. The two `logger.Panicf` calls set `panicked`, which stops the replica. |
| `stateUpdateEvent` | the `stateUpdateEvent` case. `ok = FALSE` is an unreachable target. On success the replica's `LastExec` and `chain` become the target's. |
| `sendViewChange` | modelled from spec section 4.6: view+1, inactive, broadcast |
| `softStartTimer`, `stopTimer`, `startTimerIfOutstandingBlocks` | the newViewTimer. Only `timerActive` (whether it is armed) is kept. The handlers arm and stop it where the code does: `recvRequestBlock`, `recvPrePrepare`, `recvCommit`, `executeOutstanding` and the fall-behind branch. |
| `Send`, `Msg` | `innerBroadcast`, and a message whose `from` is the `ReplicaId` that `recvMsg` checks |

The state id a replica checkpoints is its executed chain, so two replicas
agree on a checkpoint exactly when they executed the same blocks.

The system actions:

- `RequestBlock`: a block reaches a proposer.
- `Deliver`: a replica receives any message in `msgs`, any number of times, in
  any order. Messages can be lost, duplicated or reordered.
- `ExecDone`: the worker acknowledges a block.
- `SpuriousDone`: a `CommittedEvent` arrives for a block `executeOne` did not
  hand over. The worker posts one for every canonical block it writes, and
  `CommittedEvent2` comes from the core package.
- `StateUpdate`: the helper finishes `skipTo`.
- `ViewChangeTimer`: the armed newViewTimer of a replica in `TimeoutAt`
  expires. As in `ProcessEvent`, it clears `timerActive` and calls
  `sendViewChange`, and it does not look at `activeView`. When the timer
  expires is a matter of the clock, so an armed timer may expire at any step.

Byzantine replicas send nothing of their own. Their messages are the constant
`ByzMsgs`, placed in the network at the start. `AnyByzMsgs` builds them:
votes for any block, pre-prepares from a faulty primary, and chosen checkpoint
claims.

**`PbftLog`** is the abstract specification of what PBFT promises the
replicas (spec sections 1 and 8): one decided log in which no block appears
twice, and per replica an executed chain that stays a prefix of the log and
only grows. `PbftReplica` refines it: `DecidedLog` (the longest honest chain)
is the log, and each honest replica's `chain` is its chain. `RefinesLog`
(`Log!Spec` under that mapping) is checked as a property of the normal run.

**`MC_PbftReplica`** supplies the model values for blocks, the Byzantine
message sets, the symmetry sets and `MC_FairSpec` for the liveness run.

**`MinerAgent`** models the miner's goroutines. The worker's `mu` is a
variable naming its holder; the goroutines that take it are the operator
(`ctl`: `worker.start`, `stop`, `unregister`, then `commitNewWork` as
`miner.Start` does), `upd` (`worker.update`) and `wait` (`worker.wait`). A
blocking channel send is a state of its own (`push`, `stopSend`,
`unregSend`) left by a separate action once the channel has room, so other
goroutines run while the sender holds the lock.

| model | code |
|---|---|
| `Start`, `AgentStart` | `worker.start` and `CpuAgent.Start` with its CAS on `isMining` |
| `Stop`, `Register`, `Unregister`, `StopSent` | `worker.stop`, `worker.register`, `worker.unregister` and the send in `CpuAgent.Stop` |
| `CommitNewWork`, `PushDone` | `commitNewWork` (its error returns are one disjunct) and `push` |
| `AgentWork`, `AgentStop`, `AgentDrain`, `AgentExit` | the select of `CpuAgent.update`, the drain loop and the store of `isMining = 0` |
| `Seal`, `SendResult` | `CpuAgent.mine`. `engine.Seal` is outside the repository, so it returns a block or nil nondeterministically. |
| `UpdHead`, `WaitResult` | the `ChainHeadEvent` case of `update`, and one result of `wait`. A result may be nil, fail in `WriteBlock`, or be written as a canonical or side block. `committed` counts the `CommittedEvent`s posted to PBFT. |

**`EthPeerSet`** models the `peerSet` and the per-peer state it governs.
`peers` is `ps.peers` and `closed` is `ps.closed`. `known[p]` stands for the
five known-hash sets of a peer, which the code treats alike. `td[p]` is the
difficulty from `SetHead`. `api` is the package-level `peerapi.Peer`, and
`bp[c]` is a `BestPeer` call of goroutine `c` that has written `PEER` but not
yet `ID`. While such a call holds the read lock, `Register`, `Unregister` and
`Close` (which take the write lock) wait (`ReadLocked`).

| model | code |
|---|---|
| `Register`, `Unregister`, `Close` | `peerSet.Register` (with `errClosed`, `errAlreadyRegistered`), `Unregister`, `Close` |
| `SetHead` | `peer.SetHead` |
| `Mark`, `Evicted` | the five `Mark*` methods; `Pop` removes an arbitrary member |
| `Send` | the six `Send*` methods that add to a known set |
| `BestPeerChoose`, `Best`, `BestPeerSetId` | `BestPeer`: the loop and `newpeerapi`, then `peerapi.Peer.ID = bestPeer.id` |

## Runs

All runs use N=4 and f=1, which gives a quorum of 3 and a prepared threshold of
2 prepares. They also use K=1 and L=2, so every executed sequence number is a
checkpoint and garbage collection and watermarks move during the runs, and
`MaxView`=1.

| run | cfg | checks | result |
|---|---|---|---|
| normal | `MC_PbftReplica.cfg` | `TypeOK`, `CertsWithinWatermarks`, `RefinesLog` | pass |
| spurious | `MC_Spurious.cfg` | `TransferTargetsVouched`, `Agreement` | pass |
| byz_primary | `MC_ByzPrimary.cfg` | `Agreement` | pass |
| spurious_rollback | `MC_Rollback.cfg` | `ExecutionNeverRollsBack` | violated |
| resubmit_double_exec | `MC_Resubmit.cfg` | `NoDoubleExecution` | violated |
| checkpoint_panic | `MC_ChkptPanic.cfg` | `NoFatalCheckpoint` | violated |
| liveness | `MC_Liveness.cfg` | `FedBlocksExecuted` | pass |
| view_flag | `MC_ViewFlag.cfg` | `ViewChangesOnlyThroughProtocol` | violated |
| miner | `MC_Miner.cfg` | `TypeOK`, `OneSealing` | pass |
| miner_restart | `MC_MinerRestart.cfg` | `NoWedgedLock` | violated |
| peerapi_torn | `MC_PeerApi.cfg` | `PeerApiConsistent` | violated |
| idle_timer | `MC_IdleTimer.cfg` | `TimerOnlyWhileWaiting` | violated |

What each run sets up:

- **normal**: replica 3 is faulty and silent, and replica 0 (the primary) is
  fed two blocks. Both sequence numbers are ordered, checkpointed and
  collected. Backup 1's newViewTimer may expire whenever it is armed, so
  that replica can drop out of view 0 between any two steps of the protocol.
  No pre-prepared certificate lies outside `(h, h+L]`, and every behaviour
  is a behaviour of `PbftLog`. The refinement also rules out executing a
  block twice, because the abstract log never repeats a block.
- **spurious**: replica 2 may receive one `ExecDoneEvent` it did not ask for.
  This sets `skipInProgress` and starts a state transfer to whatever weak
  certificate it has seen. Replica 3 claims a checkpoint for either block at
  sequence 1. Every state-transfer target (`highStateTarget` and the target
  handed to `skipTo`) is a prefix of some honest replica's chain. This holds
  because `updateHighStateTarget` needs a weak certificate of f+1 matching
  checkpoints, so replica 3's claims alone never set it. Honest chains stay
  prefix-compatible.
- **byz_primary**: replica 0 is the faulty primary and pre-prepares both blocks
  at sequence 1, to any backups it likes. The prepare quorum prevents two
  honest replicas from committing different blocks.
- **liveness**: replica 3 is silent and the primary is fed two blocks.
  With `L`=2 the second finds the window `h+L/2` full and is refused. Under the
  fairness below, every fed block is eventually in every honest chain. It gets
  there through the resubmission that `moveWatermarks` performs after the first
  checkpoint. The property is stated as `[]<>AllFedExecuted`. `fed` only grows,
  and without spurious `ExecDoneEvent`s the executed chains only grow too (the
  normal run checks this through `RefinesLog`). So this says the same as "each fed block leads to
  its execution everywhere", and TLC checks it without a tableau. No timer
  expires in this run (`TimeoutAt = {}`): a view change is not modelled to
  completion, so a replica that left view 0 could never execute again.
- **miner**: the operator may start, stop, start or unregister (three calls)
  while the goroutines mine up to four works. At most one mine goroutine seals
  a work whose `quitCurrentOp` is still open.
The seven violation runs are the findings below. In each, TLC finds a
counterexample to what the spec or the code itself asserts.

### Findings

1. **Execution rolls back** (`spurious_rollback`, `pbft-core.go:430`).
   - Backup replica 2 has executed two blocks when it receives a spurious
     `ExecDoneEvent` (`execDoneSync`'s "this masks a bug" branch).
   - That event starts a state transfer to the stale `highStateTarget` at
     sequence 1.
   - `stateUpdateEvent` only compares the target with `h`, so `LastExec` goes
     from 2 to 1 and block 2 is handed to the worker again.
2. **A block is executed twice** (`resubmit_double_exec`, `pbft-core.go:1217`).
   - A primary that catches up by state transfer deletes the certificates at
     or below the new `h`.
   - The blocks committed there stay in `outstandingBlocks`.
   - `resubmitBlockMsges` re-proposes them, `sendPrePrepare`'s duplicate check
     no longer sees them, and every replica orders them again.
3. **One faulty replica aborts all honest ones** (`checkpoint_panic`,
   `pbft-core.go:1869`).
   - `checkpointStore` is keyed by the whole checkpoint, so three ids sent for
     one sequence number by a single faulty replica count as three values.
   - `diffValues > f+1` then reaches `logger.Panicf`.
4. **A stray message changes the view outside the protocol** (`view_flag`,
   `pbft-core.go:461`).
   - `inWV` sets the package-level `ChangeViewFlag` for any message of another
     view, including one prepare from a faulty backup.
   - When the replica later finishes a state transfer, `stateUpdateEvent` sees
     the flag and increments `view` while `activeView` stays true.
   - No view-change message is sent, and the replica's view no longer matches
     the others'.
5. **The miner wedges on restart** (`miner_restart`, `agent.go:61`).
   - `worker.stop` sends the stop token, and `worker.start` follows before the
     agent's update loop has taken it.
   - `CpuAgent.Start`'s CAS fails because `isMining` is still 1. The loop then
     takes the token, drains `workCh` and exits.
   - `mining` is 1, but nothing reads `workCh`. The next `push` fills it, and
     the one after blocks on `ch <- work` while it holds `worker.mu`.
   - From then on every `commitNewWork`, `start` and `stop` hangs.
   - The same stop followed by start is what `ProcessEvent` does on every
     `viewChangedEvent` (`pbft-core.go:576-585`). There, one second of sleep
     is all that separates the two calls. An `unregister` followed by
     `register` and `start` reaches the same state through the stop token that
     `unregister` leaves behind.
6. **`peerapi.Peer` is torn** (`peerapi_torn`, `peer.go:599`).
   - `BestPeer` writes `peerapi.Peer.PEER` and then `.ID` while it holds
     only `ps.lock.RLock`, so two calls run at once.
   - With two peers of equal difficulty, the calls can choose different
     peers and interleave their writes. After both return, `PEER` names one
     peer and `ID` the other.
   - The PBFT loop (`pbft-core.go:472`) reads both without a lock and passes
     them to `RetryHandShake` and `Synchronise2` as one peer.
7. **An idle backup's view-change timer is armed** (`idle_timer`,
   `pbft-core.go:1285`).
   - Backup 1 commits block 1 in sequence 1: `recvCommit` stops the
     newViewTimer, removes the block from `outstandingBlocks` and hands it to
     the worker.
   - The primary's pre-prepare for sequence 1 arrives again. It is in the
     window and names the same block, so `recvPrePrepare` accepts it and calls
     `softStartTimer`, with nothing outstanding.
   - When the worker acknowledges, the replica has nothing to wait for, but
     its timer is armed. On expiry, `ProcessEvent` calls `sendViewChange`
     (line 398).
   - Spec section 4.2 says the newViewTimer is "armed when there is an
     outstanding block not yet committed". `executeOutstanding` keeps to that
     rule (`startTimerIfOutstandingBlocks`); `recvPrePrepare` does not.

## Bounds

- **`MaxSeq`.** It is 2 in the normal, rollback and resubmit runs, which is
  enough for two checkpoints and a watermark move. It is 1 where the Byzantine
  sets would make the state space too large.
- **`MaxView` = 1.** This allows the view-change trigger to fire.
  `ViewChangePeriod` = 30, as the code forces (line 303), so the planned view
  change at `viewChangeSeqNo` is out of reach.
- **`MaxSpurious`.** It bounds the spurious acknowledgements.
- **Faulty replicas.** Exactly one replica is faulty, as f=1 allows.
- **Timers.** `TimeoutAt` names the replicas whose timer may expire. It is
  `{1}` in the normal run and empty elsewhere: a second replica, or the timer
  in the spurious or Byzantine runs, would push a run
  past five minutes. A timer that can never expire has no effect, so
  `MC_TimerView` leaves `timerActive` out of the states TLC compares for the
  replicas outside `TimeoutAt`. This is sound because only
  `ViewChangeTimer` reads that field.
- **Symmetry.** Blocks are interchangeable model values, so the safety runs
  without a violation to show use symmetry over them. Replicas are not
  symmetric: the primary is `v % N`. Symmetry is unsound for liveness, so the
  liveness run instead feeds `b1` before `b2` (`MC_FeedInOrder`). This is a
  renaming of the inputs and loses no behaviour up to that renaming.
- **Liveness run.** It uses `MaxView` = 0 and `MaxSeq` = 2. No view change
  can happen, so the property is about the normal case and about
  resubmission.
- **Miner.** `MaxCtl` = 3 is the least that allows start, stop, start.
  `MaxWork` = 4 lets a work pushed before the stop, one drained and one left
  in `workCh` all exist, with room for the push that then blocks. The channel
  capacities are the code's.
- **Peer set.** Two peers of equal difficulty are the fewest for a tie in
  `BestPeer`, and two callers the fewest for the torn write. Three hashes
  against `MaxKnown` = 2 make `Mark` evict.

Every property of a passing run has a mutant in `PROJECT.json`: a plausible bug
in a mapped definition that TLC must catch under the run's own cfg.

## Fairness

`Fairness` (in `PbftReplica`) is used only by the liveness run, through
`MC_FairSpec`. The event
loop handles every event that is queued for it. That justifies weak fairness
on `ExecDone` (the worker acknowledges what it was handed) and on
`StateUpdate` (the helper finishes `skipTo`). The transport is best effort.
Liveness therefore assumes that a message which changes the receiver's state
is not lost for ever.

Fairness is given per class of message for each honest replica: one class
for votes (pre-prepare, prepare, commit) and one for the checkpoints of each
sequence number. One weak-fairness condition over all deliveries is not
enough. The model could keep redelivering an old checkpoint and a new one, so
the sender's `hChkpts` entry flips between two values and the other
deliveries are starved. A per-class condition rules that out without
assuming more than the transport gives.

`MinerAgent` has no liveness property yet, so it assumes no fairness.

## Not modelled

- **Null requests and the other timers.** Null requests are never sent
  (line 1117). The null-request timer is handled by `nullRequestHandler`
  (`pbft-core.go` 747-763). It is in the repository but not modelled. The
  timer is armed only when `general.timeout.nullrequest` is positive
  (line 2065). On expiry, the primary's `sendPrePrepare(nil)` returns at
  once, and a backup's `sendViewChange` is the same step as a newViewTimer
  expiry, which the normal run already lets happen at any point. The
  view-change resend timer belongs to the view-change code, which is not in
  the repository.
- **View change.** Its code is not in the repository.
- **Persistence and restore.**
- **`fetchBlockMsges`.**
- **The test-message handlers.**
- **The operator API.** Nothing in the repository reads the proposals map. `Propose` and `Discard` write one map entry each under
  a lock, and `Proposals` copies the map. The snapshot queries are reads. No
  interleaving or state in it needs a model checker.
- **The miner's transaction handling** (`commitTransactions`, uncles,
  `TxPreEvent`) and the `fullValidation` branch of `wait`. That branch is
  off: `newWorker` sets `fullValidation` to false.
- **The eth handshake** (`peer.Handshake`, `readStatus`). Its two goroutines
  report on a channel buffered for both results, so neither send can block
  after `Handshake` returns. The status is adopted only after both report
  nil, which leaves little for a model to find.
- **Transport encoding.** The `Send*` and `Request*` calls' wire encoding
  and the read-only queries of `peerSet` (`Peer`, `Len`, `PeersWithout*`)
  change no state. The `Send*` methods grow the known-hash sets past
  `maxKnown*`: `Send` in `EthPeerSet` models it, but no run is spent on what
  one unguarded `Add` in each method shows. A stale `peerapi.Peer` after `Unregister` is visible in
  `EthPeerSet`'s state, but what `RetryHandShake` does with it is outside
  the repository.
- **Cryptography and console code.** `zktx`, `tcap.go` and `web3ext` have
  no consensus state.

The fall-behind branch of `weakCheckpointSetOutOfRange` is modelled, but it
needs checkpoints above `h+L` (sequence 3 here), which no run reaches yet.

## Plan

Next:

- A view-change module, modelled from the spec (its code is not in the
  repository).
- A liveness property for the miner. `mustCommitNewWork` is never set again
  once a canonical block clears it (hazard at `worker.go:398`).
- Composing the miner and the replica on `CommittedEvent`. In the replica
  model this event is already the source of the spurious `ExecDoneEvent`s.
