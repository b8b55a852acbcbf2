----------------------------- MODULE MinerAgent -----------------------------
(***************************************************************************)
(* The mining side that feeds PBFT and executes what it commits:           *)
(* miner/worker.go (start, stop, unregister, the update and wait           *)
(* goroutines, commitNewWork and push) and the CpuAgent of miner/agent.go *)
(* (Start, Stop, its update loop and one mine goroutine per work).         *)
(*                                                                         *)
(* Goroutines interleave at every channel operation and every lock.  The  *)
(* goroutines that take worker.mu are "ctl" (the operator's miner.Start / *)
(* miner.Stop calls), "upd" (worker.update) and "wait" (worker.wait).     *)
(* Each work and its result is named by its number 1..MaxWork.            *)
(***************************************************************************)
EXTENDS Integers, Sequences, FiniteSets

CONSTANTS
    MaxWork,    \* model bound on works created by commitNewWork
    MaxCtl,     \* model bound on operator calls
    Nil

Works == 1 .. MaxWork
Lockers == {"ctl", "upd", "wait"}

\* channel capacities fixed in the code
WorkChCap == 1           \* NewCpuAgent: make(chan *Work, 1)
StopChCap == 1           \* NewCpuAgent: make(chan struct{}, 1)
ResultQueueSize == 10    \* worker.go resultQueueSize

VARIABLES
    mu,          \* worker.mu: Nil or the goroutine holding it
    pc,          \* pc[p] for p in Lockers
    ctlOps,      \* operator calls so far
    mining,      \* worker.mining
    atWork,      \* worker.atWork
    registered,  \* the CpuAgent is in worker.agents
    isMining,    \* CpuAgent.isMining
    agentPc,     \* CpuAgent.update: "none", "loop", "drain" or "store"
    stopCh,      \* tokens in CpuAgent.stop
    workCh,      \* works queued in CpuAgent.workCh
    quitOp,      \* the work whose quitCurrentOp is open, or Nil
    mine,        \* mine[w]: the mine goroutine of work w
    nwork,       \* works created so far
    recv,        \* results queued in worker.recv (a work, or Nil)
    heads,       \* ChainHeadEvents posted and not yet taken by upd
    mustCommit,  \* worker.wait's mustCommitNewWork
    committed    \* CommittedEvents posted to the PBFT event manager

vars == <<mu, pc, ctlOps, mining, atWork, registered, isMining, agentPc,
          stopCh, workCh, quitOp, mine, nwork, recv, heads, mustCommit,
          committed>>

\* newWorker, register(agent): both goroutines started, nothing mined
Init ==
    /\ mu = Nil
    /\ pc = [p \in Lockers |-> IF p = "ctl" THEN "idle" ELSE "recv"]
    /\ ctlOps = 0
    /\ mining = 0 /\ atWork = 0
    /\ registered = TRUE
    /\ isMining = 0 /\ agentPc = "none"
    /\ stopCh = 0 /\ workCh = <<>> /\ quitOp = Nil
    /\ mine = [w \in Works |-> [st |-> "none", quit |-> FALSE, res |-> Nil]]
    /\ nwork = 0 /\ recv = <<>> /\ heads = 0
    /\ mustCommit = TRUE /\ committed = 0

\* where a goroutine goes when commitNewWork returns
After(p) == IF p = "ctl" THEN "idle" ELSE "recv"

-----------------------------------------------------------------------------
(* worker.commitNewWork and push, run by p under worker.mu.                *)

\* p takes worker.mu and builds the work; Finalize may fail (early return);
\* push hands it to the agent when mining, blocking while workCh is full.
CommitNewWork(p) ==
    /\ pc[p] = "cnw" /\ mu = Nil
    /\ nwork < MaxWork
    /\ \/ \* prepare, makeCurrent or Finalize fails: return before push
          /\ pc' = [pc EXCEPT ![p] = After(p)]
          /\ UNCHANGED <<mu, atWork, workCh, nwork>>
       \/ /\ mining # 1 \/ ~registered
          /\ pc' = [pc EXCEPT ![p] = After(p)]
          /\ UNCHANGED <<mu, atWork, workCh, nwork>>
       \/ /\ mining = 1 /\ registered
          /\ nwork' = nwork + 1
          /\ atWork' = atWork + 1
          /\ IF Len(workCh) < WorkChCap
             THEN /\ workCh' = Append(workCh, nwork + 1)
                  /\ pc' = [pc EXCEPT ![p] = After(p)]
                  /\ UNCHANGED mu
             ELSE /\ mu' = p
                  /\ pc' = [pc EXCEPT ![p] = "push"]
                  /\ UNCHANGED workCh
    /\ UNCHANGED <<ctlOps, mining, registered, isMining, agentPc, stopCh,
                   quitOp, mine, recv, heads, mustCommit, committed>>

\* the blocked send ch <- work completes; push returns and mu is released
PushDone(p) ==
    /\ pc[p] = "push"
    /\ Len(workCh) < WorkChCap
    /\ workCh' = Append(workCh, nwork)
    /\ mu' = Nil
    /\ pc' = [pc EXCEPT ![p] = After(p)]
    /\ UNCHANGED <<ctlOps, mining, atWork, registered, isMining, agentPc,
                   stopCh, quitOp, mine, nwork, recv, heads, mustCommit,
                   committed>>


-----------------------------------------------------------------------------
(* The operator: worker.start, worker.stop, worker.unregister.  miner.Start *)
(* (outside this repository) follows worker.start with commitNewWork.     *)

\* CpuAgent.Start: CompareAndSwapInt32(&isMining, 0, 1), and go update()
\* only if it succeeds
AgentStart ==
    IF isMining = 0 THEN isMining' = 1 /\ agentPc' = "loop"
                    ELSE UNCHANGED <<isMining, agentPc>>

\* worker.start: mining = 1 and agent.Start(), whose CAS on isMining
\* starts the update loop unless isMining is still 1
Start ==
    /\ pc["ctl"] = "idle" /\ mu = Nil /\ ctlOps < MaxCtl
    /\ ctlOps' = ctlOps + 1
    /\ mining' = 1
    /\ IF registered THEN AgentStart ELSE UNCHANGED <<isMining, agentPc>>
    /\ pc' = [pc EXCEPT !["ctl"] = "cnw"]
    /\ UNCHANGED <<mu, atWork, registered, stopCh, workCh, quitOp, mine,
                   nwork, recv, heads, mustCommit, committed>>

\* worker.stop: agent.Stop() when mining (a send on stop, blocking while it
\* is full), then mining = 0 and atWork = 0
Stop ==
    /\ pc["ctl"] = "idle" /\ mu = Nil /\ ctlOps < MaxCtl
    /\ ctlOps' = ctlOps + 1
    /\ \/ /\ mining = 1 /\ registered
          /\ mu' = "ctl"
          /\ pc' = [pc EXCEPT !["ctl"] = "stopSend"]
          /\ UNCHANGED <<mining, atWork>>
       \/ /\ ~(mining = 1 /\ registered)
          /\ mining' = 0 /\ atWork' = 0
          /\ UNCHANGED <<mu, pc>>
    /\ UNCHANGED <<registered, isMining, agentPc, stopCh, workCh, quitOp,
                   mine, nwork, recv, heads, mustCommit, committed>>

\* worker.register: the agent is put back into worker.agents
Register ==
    /\ pc["ctl"] = "idle" /\ mu = Nil /\ ctlOps < MaxCtl
    /\ ~registered
    /\ ctlOps' = ctlOps + 1
    /\ registered' = TRUE
    /\ UNCHANGED <<mu, pc, mining, atWork, isMining, agentPc, stopCh, workCh,
                   quitOp, mine, nwork, recv, heads, mustCommit, committed>>

\* worker.unregister: delete the agent and agent.Stop()
Unregister ==
    /\ pc["ctl"] = "idle" /\ mu = Nil /\ ctlOps < MaxCtl
    /\ registered
    /\ ctlOps' = ctlOps + 1
    /\ registered' = FALSE
    /\ mu' = "ctl"
    /\ pc' = [pc EXCEPT !["ctl"] = "unregSend"]
    /\ UNCHANGED <<mining, atWork, isMining, agentPc, stopCh, workCh, quitOp,
                   mine, nwork, recv, heads, mustCommit, committed>>

\* StopSent as if the stop channel never filled up
StopSent_noCap ==
    /\ pc["ctl"] \in {"stopSend", "unregSend"}
    /\ stopCh' = stopCh + 1
    /\ IF pc["ctl"] = "stopSend"
       THEN mining' = 0 /\ atWork' = 0
       ELSE UNCHANGED <<mining, atWork>>
    /\ mu' = Nil
    /\ pc' = [pc EXCEPT !["ctl"] = "idle"]
    /\ UNCHANGED <<ctlOps, registered, isMining, agentPc, workCh, quitOp,
                   mine, nwork, recv, heads, mustCommit, committed>>

\* CpuAgent.Stop's send on stop completes and the caller releases mu
StopSent ==
    /\ pc["ctl"] \in {"stopSend", "unregSend"}
    /\ stopCh < StopChCap
    /\ stopCh' = stopCh + 1
    /\ IF pc["ctl"] = "stopSend"
       THEN mining' = 0 /\ atWork' = 0
       ELSE UNCHANGED <<mining, atWork>>
    /\ mu' = Nil
    /\ pc' = [pc EXCEPT !["ctl"] = "idle"]
    /\ UNCHANGED <<ctlOps, registered, isMining, agentPc, workCh, quitOp,
                   mine, nwork, recv, heads, mustCommit, committed>>

-----------------------------------------------------------------------------
(* CpuAgent.update and mine.                                               *)

\* AgentWork with the old quitCurrentOp left open
AgentWork_keepQuit ==
    /\ agentPc = "loop" /\ workCh # <<>>
    /\ LET w == Head(workCh) IN
         /\ workCh' = Tail(workCh)
         /\ mine' = [mine EXCEPT ![w].st = "seal"]
         /\ quitOp' = w
    /\ UNCHANGED <<mu, pc, ctlOps, mining, atWork, registered, isMining,
                   agentPc, stopCh, nwork, recv, heads, mustCommit, committed>>

\* select: a work arrives; the previous operation is quit and a mine
\* goroutine starts on the new one
AgentWork ==
    /\ agentPc = "loop" /\ workCh # <<>>
    /\ LET w == Head(workCh) IN
         /\ workCh' = Tail(workCh)
         /\ mine' = [v \in Works |->
                        IF v = w THEN [mine[v] EXCEPT !.st = "seal"]
                        ELSE IF v = quitOp THEN [mine[v] EXCEPT !.quit = TRUE]
                        ELSE mine[v]]
         /\ quitOp' = w
    /\ UNCHANGED <<mu, pc, ctlOps, mining, atWork, registered, isMining,
                   agentPc, stopCh, nwork, recv, heads, mustCommit, committed>>

\* select: a stop token; the current operation is quit and the loop ends
AgentStop ==
    /\ agentPc = "loop" /\ stopCh > 0
    /\ stopCh' = stopCh - 1
    /\ mine' = IF quitOp # Nil THEN [mine EXCEPT ![quitOp].quit = TRUE]
               ELSE mine
    /\ quitOp' = Nil
    /\ agentPc' = "drain"
    /\ UNCHANGED <<mu, pc, ctlOps, mining, atWork, registered, isMining,
                   workCh, nwork, recv, heads, mustCommit, committed>>

\* the loop that empties workCh, and its default branch
AgentDrain ==
    /\ agentPc = "drain"
    /\ IF workCh # <<>>
       THEN workCh' = Tail(workCh) /\ UNCHANGED agentPc
       ELSE agentPc' = "store" /\ UNCHANGED workCh
    /\ UNCHANGED <<mu, pc, ctlOps, mining, atWork, registered, isMining,
                   stopCh, quitOp, mine, nwork, recv, heads, mustCommit,
                   committed>>

\* atomic.StoreInt32(&isMining, 0): the update goroutine returns
AgentExit ==
    /\ agentPc = "store"
    /\ isMining' = 0 /\ agentPc' = "none"
    /\ UNCHANGED <<mu, pc, ctlOps, mining, atWork, registered, stopCh, workCh,
                   quitOp, mine, nwork, recv, heads, mustCommit, committed>>

\* engine.Seal returns a block or nil (failure, or the stop channel closed)
Seal(w) ==
    /\ mine[w].st = "seal"
    /\ \E res \in {w, Nil} :
         mine' = [mine EXCEPT ![w].st = "send", ![w].res = res]
    /\ UNCHANGED <<mu, pc, ctlOps, mining, atWork, registered, isMining,
                   agentPc, stopCh, workCh, quitOp, nwork, recv, heads,
                   mustCommit, committed>>

\* returnCh <- result (worker.recv), blocking while it is full
SendResult(w) ==
    /\ mine[w].st = "send"
    /\ Len(recv) < ResultQueueSize
    /\ recv' = Append(recv, mine[w].res)
    /\ mine' = [mine EXCEPT ![w].st = "done"]
    /\ UNCHANGED <<mu, pc, ctlOps, mining, atWork, registered, isMining,
                   agentPc, stopCh, workCh, quitOp, nwork, heads, mustCommit,
                   committed>>


-----------------------------------------------------------------------------
(* worker.update and worker.wait (fullValidation is false, as newWorker    *)
(* sets it).                                                               *)

\* update: a ChainHeadEvent arrives and commitNewWork runs
UpdHead ==
    /\ pc["upd"] = "recv" /\ heads > 0
    /\ heads' = heads - 1
    /\ pc' = [pc EXCEPT !["upd"] = "cnw"]
    /\ UNCHANGED <<mu, ctlOps, mining, atWork, registered, isMining, agentPc,
                   stopCh, workCh, quitOp, mine, nwork, recv, mustCommit,
                   committed>>

\* wait: one result off recv.  A nil result is skipped; WriteBlock may fail
\* (continue); otherwise CommittedEvent goes to PBFT, a canonical block
\* clears mustCommitNewWork and posts ChainHeadEvent, and commitNewWork
\* runs while mustCommitNewWork is still set.
WaitResult ==
    /\ pc["wait"] = "recv" /\ recv # <<>>
    /\ recv' = Tail(recv)
    /\ atWork' = atWork - 1
    /\ \/ \* a nil result, or WriteBlock fails: continue
          UNCHANGED <<pc, heads, mustCommit, committed>>
       \/ /\ Head(recv) # Nil
          /\ committed' = committed + 1
          /\ \E canon \in BOOLEAN :
               /\ heads' = IF canon THEN heads + 1 ELSE heads
               /\ mustCommit' = (mustCommit /\ ~canon)
          /\ pc' = [pc EXCEPT !["wait"] = IF mustCommit' THEN "cnw" ELSE "recv"]
    /\ UNCHANGED <<mu, ctlOps, mining, registered, isMining, agentPc, stopCh,
                   workCh, quitOp, mine, nwork>>

-----------------------------------------------------------------------------

Next ==
    \/ Start \/ Stop \/ Register \/ Unregister \/ StopSent
    \/ \E p \in Lockers : CommitNewWork(p) \/ PushDone(p)
    \/ AgentWork \/ AgentStop \/ AgentDrain \/ AgentExit
    \/ \E w \in Works : Seal(w) \/ SendResult(w)
    \/ UpdHead \/ WaitResult

Spec == Init /\ [][Next]_vars

-----------------------------------------------------------------------------

TypeOK ==
    /\ mu \in Lockers \cup {Nil}
    /\ pc \in [Lockers -> {"idle", "recv", "cnw", "push", "stopSend", "unregSend"}]
    /\ ctlOps \in 0 .. MaxCtl
    /\ mining \in {0, 1} /\ isMining \in {0, 1}
    /\ atWork \in -MaxWork .. MaxWork
    /\ registered \in BOOLEAN
    /\ agentPc \in {"none", "loop", "drain", "store"}
    /\ stopCh \in 0 .. StopChCap
    /\ workCh \in Seq(Works) /\ Len(workCh) <= WorkChCap
    /\ quitOp \in Works \cup {Nil}
    /\ mine \in [Works -> [st : {"none", "seal", "send", "done"},
                           quit : BOOLEAN, res : Works \cup {Nil}]]
    /\ nwork \in 0 .. MaxWork
    /\ recv \in Seq(Works \cup {Nil}) /\ Len(recv) <= ResultQueueSize
    /\ heads \in Nat /\ committed \in Nat
    /\ mustCommit \in BOOLEAN

-----------------------------------------------------------------------------
(* Properties.                                                             *)

\* CpuAgent.update closes the previous quitCurrentOp before it starts a mine
\* goroutine on a new work, so at most one goroutine seals a block that
\* has not been abandoned, however start, stop and the works interleave.
OneSealing ==
    Cardinality({w \in Works : mine[w].st = "seal" /\ ~mine[w].quit}) <= 1

\* No goroutine is blocked in push (holding worker.mu) on a full workCh
\* while the agent's update loop is gone: only that loop reads workCh, and
\* starting it again needs worker.mu, so such a state never changes again
\* and every later start, stop or commitNewWork of the miner hangs.
NoWedgedLock ==
    ~\E p \in Lockers : /\ pc[p] = "push"
                        /\ Len(workCh) = WorkChCap
                        /\ agentPc = "none"

=============================================================================
