--------------------------- MODULE WritebackProofs ---------------------------
(***************************************************************************)
(* Proofs about controlled writes, for any number of workers, actions and  *)
(* messages, any categories and plans, and any bounds.                     *)
(***************************************************************************)
EXTENDS WritebackRefinement, ActionQueueProofs

(* What a worker holds: an action while it works, and a rollback snapshot  *)
(* of its own from the rollback claim on.                                  *)
WorkerInv ==
    /\ TypeOK
    /\ \A m \in Messages : box[m] # <<>>
    /\ \A r \in wire : r.by \in Actions
    /\ \A w \in Workers :
          /\ pc[w] # "idle" => job[w] \in Actions /\ snapshot[job[w]] # NoSnapshot
          /\ pc[w] \in RollbackSteps => held[w] \in RollbackSnapshots

(* The live categories of a message are categories.                        *)
LEMMA LiveType ==
    ASSUME WorkerInv, NEW a \in Actions
    PROVE  /\ Box(a) \in Seq(Writes)
           /\ Len(Box(a)) \in Nat \ {0}
           /\ \A k \in 1 .. Len(Box(a)) : Box(a)[k].cats \in SUBSET Categories
           /\ Live(a) \in SUBSET Categories
<1>1. Box(a) \in Seq(Writes) /\ Box(a) # <<>>
  BY MessageOfAssumption DEF WorkerInv, TypeOK, Box
<1>2. Len(Box(a)) \in Nat \ {0}
  BY <1>1
<1>3. \A k \in 1 .. Len(Box(a)) : Box(a)[k] \in Writes
  BY <1>1
<1>4. \A k \in 1 .. Len(Box(a)) : Box(a)[k].cats \in SUBSET Categories
  BY <1>3 DEF Writes
<1> QED BY <1>1, <1>2, <1>4 DEF Live

(* The snapshot a rollback builds is well typed.                           *)
LEMMA FoundType ==
    ASSUME WorkerInv, NEW a \in Actions, Queued(a), NEW rb \in RollbackSnapshots
    PROVE  [ reason |-> rb.reason, observed |-> Live(a),
             target |-> RollbackTarget(Live(a), snapshot[a]) ] \in RollbackSnapshots
<1>1. Live(a) \in SUBSET Categories
  BY LiveType
<1>2. snapshot[a] \in Snapshots
  BY DEF WorkerInv, TypeOK, QueueTypeOK, Queued
<1>3. RollbackTarget(Live(a), snapshot[a]) \in SUBSET Categories
  BY <1>1, <1>2 DEF RollbackTarget, Snapshots
<1> QED BY <1>1, <1>3 DEF RollbackSnapshots

(* Refinement of the queue: every step is a call of the repository, or     *)
(* leaves the queue alone.                                                 *)
LEMMA QueueCall ==
    ASSUME WorkerInv, [Next]_vars
    PROVE  [QueueNext]_queueVars
<1>1. CASE UNCHANGED vars
  BY <1>1 DEF vars, queueVars
<1>2. ASSUME NEW w \in Workers, WorkerStep(w)
      PROVE  [QueueNext]_queueVars
  <2>1. CASE Start(w)
    <3>1. PICK a \in Actions :
            \/ Propose(w, a)
            \/ \E to \in Targets(Status(a)) : Decide(w, a, to)
            \/ Preview(w, a)
            \/ ExecuteClaim(w, a)
            \/ ClaimDone(w, a)
            \/ ReconcileLoad(w, a)
            \/ \E reason \in Reasons : RollbackClaim(w, a, reason)
            \/ RollbackReconcileLoad(w, a)
      BY <2>1 DEF Start
    <3>2. CASE Propose(w, a)
      <4>1. PICK k \in 1 .. MaxKey, key \in NoKey .. MaxKey :
              /\ k <= Len(Box(a))
              /\ Enqueue(a, ProposalFrom(a, k, key))
        BY <3>2 DEF Propose
      <4>2. k \in 1 .. Len(Box(a))
        BY <4>1, LiveType, MaxKeyAssumption
      <4>3. ProposalFrom(a, k, key) \in Snapshots
        BY <4>2, LiveType DEF Snapshots, ProposalFrom
      <4> QED BY <4>1, <4>3 DEF QueueNext
    <3>3. CASE \E to \in Targets(Status(a)) : Decide(w, a, to)
      BY <3>3 DEF Decide, QueueNext
    <3>4. CASE ExecuteClaim(w, a)
      BY <3>4 DEF ExecuteClaim, QueueNext
    <3>5. CASE \E reason \in Reasons : RollbackClaim(w, a, reason)
      BY <3>5 DEF RollbackClaim, QueueNext
    <3>6. CASE Preview(w, a) \/ ClaimDone(w, a) \/ ReconcileLoad(w, a)
                 \/ RollbackReconcileLoad(w, a)
      BY <3>6 DEF Preview, ClaimDone, ReconcileLoad, RollbackReconcileLoad
    <3> QED BY <3>1, <3>2, <3>3, <3>4, <3>5, <3>6
  <2>2. CASE Audit(w) \/ LastAudit(w) \/ TornAudit(w) \/ Stop(w)
    BY <2>2 DEF Audit, LastAudit, TornAudit, Stop
  <2>3. CASE Execute(w)
    <3>1. CASE ExecuteGet(w) \/ ExecuteSend(w) \/ ExecuteReply(w)
      BY <3>1 DEF ExecuteGet, ExecuteSend, ExecuteReply
    <3>2. CASE ExecuteMark(w)
      <4>1. job[w] \in Actions
        BY <3>2 DEF ExecuteMark, WorkerInv
      <4> QED BY <3>2, <4>1 DEF ExecuteMark, QueueNext
    <3>3. CASE ExecuteFinish(w)
      <4>1. job[w] \in Actions
        BY <3>3 DEF ExecuteFinish, WorkerInv
      <4>2. PICK to \in Statuses : FinalizeExecution(job[w], to)
        BY <3>3 DEF ExecuteFinish
      <4>3. to \in Targets(Status(job[w]))
        BY <4>2 DEF FinalizeExecution, Transition, Targets
      <4> QED BY <4>1, <4>2, <4>3 DEF QueueNext
    <3> QED BY <2>3, <3>1, <3>2, <3>3 DEF Execute
  <2>4. CASE Reconcile(w)
    <3>1. CASE ReconcileGet(w)
      BY <3>1 DEF ReconcileGet
    <3>2. CASE ReconcileResolve(w)
      <4>1. job[w] \in Actions
        BY <3>2 DEF ReconcileResolve, WorkerInv
      <4>2. PICK to \in Statuses : ResolveUncertainExecution(job[w], to)
        BY <3>2 DEF ReconcileResolve
      <4>3. to \in Targets(Status(job[w]))
        BY <4>2 DEF ResolveUncertainExecution, Transition, Targets
      <4> QED BY <4>1, <4>2, <4>3 DEF QueueNext
    <3> QED BY <2>4, <3>1, <3>2 DEF Reconcile
  <2>5. CASE Rollback(w)
    <3>1. CASE RollbackGet(w) \/ RollbackSend(w) \/ RollbackReply(w)
      BY <3>1 DEF RollbackGet, RollbackSend, RollbackReply
    <3>2. CASE RollbackMark(w)
      <4>1. job[w] \in Actions /\ held[w] \in RollbackSnapshots
        BY <3>2 DEF RollbackMark, WorkerInv, RollbackSteps
      <4>2. PrepareOrCompleteRollback(job[w], held[w], "rollback_write_in_flight")
        BY <3>2 DEF RollbackMark
      <4>3. "rollback_write_in_flight" \in Targets(Status(job[w]))
        BY <4>2 DEF PrepareOrCompleteRollback, Transition, Targets, Statuses
      <4> QED BY <4>1, <4>2, <4>3 DEF QueueNext
    <3>3. CASE RollbackNoChange(w)
      <4>1. job[w] \in Actions /\ held[w] \in RollbackSnapshots
        BY <3>3 DEF RollbackNoChange, WorkerInv, RollbackSteps
      <4>2. PrepareOrCompleteRollback(job[w], held[w], "rolled_back")
        BY <3>3 DEF RollbackNoChange
      <4>3. "rolled_back" \in Targets(Status(job[w]))
        BY <4>2 DEF PrepareOrCompleteRollback, Transition, Targets, Statuses
      <4> QED BY <4>1, <4>2, <4>3 DEF QueueNext
    <3>4. CASE RollbackFinish(w)
      <4>1. job[w] \in Actions
        BY <3>4 DEF RollbackFinish, WorkerInv
      <4>2. PICK to \in Statuses : FinalizeRollback(job[w], to)
        BY <3>4 DEF RollbackFinish
      <4>3. to \in Targets(Status(job[w]))
        BY <4>2 DEF FinalizeRollback, Transition, Targets
      <4> QED BY <4>1, <4>2, <4>3 DEF QueueNext
    <3> QED BY <2>5, <3>1, <3>2, <3>3, <3>4 DEF Rollback
  <2>6. CASE RollbackReconcile(w)
    <3>1. CASE RollbackReconcileGet(w)
      BY <3>1 DEF RollbackReconcileGet
    <3>2. CASE RollbackReconcileResolve(w)
      <4>1. job[w] \in Actions
        BY <3>2 DEF RollbackReconcileResolve, WorkerInv
      <4>2. PICK to \in Statuses : ResolveUncertainRollback(job[w], to)
        BY <3>2 DEF RollbackReconcileResolve
      <4>3. to \in Targets(Status(job[w]))
        BY <4>2 DEF ResolveUncertainRollback, Transition, Targets
      <4> QED BY <4>1, <4>2, <4>3 DEF QueueNext
    <3> QED BY <2>6, <3>1, <3>2 DEF RollbackReconcile
  <2> QED BY <1>2, <2>1, <2>2, <2>3, <2>4, <2>5, <2>6 DEF WorkerStep
<1>3. ASSUME NEW r \in wire, Deliver(r) \/ Drop(r)
      PROVE  [QueueNext]_queueVars
  BY <1>3 DEF Deliver, Drop
<1>4. ASSUME NEW m \in Messages, UserEdit(m)
      PROVE  [QueueNext]_queueVars
  BY <1>4 DEF UserEdit
<1> QED BY <1>1, <1>2, <1>3, <1>4 DEF Next

-----------------------------------------------------------------------------
(* The worker invariant is inductive.                                      *)

LEMMA WorkerInit ==
    ASSUME Init
    PROVE  WorkerInv
<1>1. QueueTypeOK
  BY HistoryLimitAssumption DEF Init, QueueInit, QueueTypeOK
<1>2. ByPerson(InitialCats) \in Writes
  BY InitialCatsAssumption DEF ByPerson, Writes
<1>3. box \in [Messages -> Seq(Writes)] /\ \A m \in Messages : box[m] # <<>>
  BY <1>2 DEF Init
<1>4. TypeOK
  BY <1>1, <1>3 DEF Init, TypeOK, LogStates, Steps
<1> QED BY <1>3, <1>4 DEF Init, WorkerInv, RollbackSteps

(* No step takes an action out of the queue.                               *)
QueuedKept ==
    \A a \in Actions : snapshot[a] # NoSnapshot => snapshot'[a] # NoSnapshot

(* Steps of one worker that touch neither the mailbox nor the wire.        *)
LEMMA WorkerQuiet ==
    ASSUME WorkerInv, QueueTypeOK', QueuedKept, NEW w \in Workers,
           UNCHANGED <<box, wire>>,
           audited' \in [Actions -> Nat], log' \in LogStates,
           pc' \in [Workers -> Steps],
           job' \in [Workers -> Actions \cup {NoJob}],
           seen' \in [Workers -> Nat],
           base' \in [Workers -> Nat],
           held' \in [Workers -> RollbackSnapshots \cup {NoRollback}],
           \A v \in Workers : v # w =>
              pc'[v] = pc[v] /\ job'[v] = job[v] /\ held'[v] = held[v],
           pc'[w] # "idle" => job'[w] \in Actions /\ snapshot'[job'[w]] # NoSnapshot,
           pc'[w] \in RollbackSteps => held'[w] \in RollbackSnapshots
    PROVE  WorkerInv'
<1>1. TypeOK'
  BY DEF WorkerInv, TypeOK
<1>2. ASSUME NEW v \in Workers
      PROVE  /\ pc'[v] # "idle" => job'[v] \in Actions /\ snapshot'[job'[v]] # NoSnapshot
             /\ pc'[v] \in RollbackSteps => held'[v] \in RollbackSnapshots
  <2>1. CASE v = w
    BY <2>1
  <2>2. CASE v # w
    BY <2>2 DEF WorkerInv, QueuedKept
  <2> QED BY <2>1, <2>2
<1> QED BY <1>1, <1>2 DEF WorkerInv

(* Taking up an action keeps the bookkeeping well typed.                   *)
LEMMA BeginType ==
    ASSUME WorkerInv, QueueTypeOK', NEW w \in Workers, NEW a \in Actions,
           NEW step \in Steps, Begin(w, a, step)
    PROVE  /\ pc' = [pc EXCEPT ![w] = step]
           /\ job' = [job EXCEPT ![w] = a]
           /\ seen' = [seen EXCEPT ![w] = Len(history'[a])]
           /\ pc' \in [Workers -> Steps]
           /\ job' \in [Workers -> Actions \cup {NoJob}]
           /\ seen' \in [Workers -> Nat]
           /\ pc'[w] = step /\ job'[w] = a /\ seen'[w] = Len(history'[a])
           /\ \A v \in Workers : v # w =>
                 pc'[v] = pc[v] /\ job'[v] = job[v] /\ seen'[v] = seen[v]
<1>1. history'[a] \in Seq(Statuses)
  BY DEF QueueTypeOK
<1>2. Len(history'[a]) \in Nat
  BY <1>1
<1> QED BY <1>2 DEF Begin, Goto, WorkerInv, TypeOK

(* So does keeping the action the queue returned.                          *)
LEMMA ContinueType ==
    ASSUME WorkerInv, QueueTypeOK', NEW w \in Workers, job[w] \in Actions,
           NEW step \in Steps, Continue(w, step)
    PROVE  /\ pc' \in [Workers -> Steps]
           /\ seen' \in [Workers -> Nat]
           /\ pc'[w] = step /\ seen'[w] = Len(history'[job[w]])
           /\ \A v \in Workers : v # w => pc'[v] = pc[v] /\ seen'[v] = seen[v]
           /\ UNCHANGED <<job, base, held>>
<1>1. history'[job[w]] \in Seq(Statuses)
  BY DEF QueueTypeOK
<1>2. Len(history'[job[w]]) \in Nat
  BY <1>1
<1> QED BY <1>2 DEF Continue, Goto, WorkerInv, TypeOK

(* And so does going on, or going idle.                                    *)
LEMMA GotoType ==
    ASSUME WorkerInv, NEW w \in Workers, NEW step \in Steps, Goto(w, step)
    PROVE  /\ pc' \in [Workers -> Steps]
           /\ pc'[w] = step
           /\ \A v \in Workers : v # w => pc'[v] = pc[v]
BY DEF Goto, WorkerInv, TypeOK

LEMMA IdleType ==
    ASSUME WorkerInv, NEW w \in Workers, GoIdle(w)
    PROVE  /\ pc' \in [Workers -> Steps]
           /\ job' \in [Workers -> Actions \cup {NoJob}]
           /\ seen' \in [Workers -> Nat]
           /\ base' \in [Workers -> Nat]
           /\ held' \in [Workers -> RollbackSnapshots \cup {NoRollback}]
           /\ pc'[w] = "idle"
           /\ \A v \in Workers : v # w =>
                 /\ pc'[v] = pc[v] /\ job'[v] = job[v] /\ seen'[v] = seen[v]
                 /\ base'[v] = base[v] /\ held'[v] = held[v]
BY DEF GoIdle, Goto, WorkerInv, TypeOK, Steps

(* A worker that only moves to another step of its call.                   *)
LEMMA WorkerMoves ==
    ASSUME WorkerInv, QueueTypeOK', QueuedKept, NEW w \in Workers, pc[w] # "idle",
           NEW step \in Steps, Goto(w, step),
           step \in RollbackSteps => held[w] \in RollbackSnapshots,
           audited' \in [Actions -> Nat], log' \in LogStates,
           base' \in [Workers -> Nat],
           UNCHANGED <<box, wire, job, seen, held>>
    PROVE  WorkerInv'
<1>1. /\ pc' \in [Workers -> Steps]
      /\ pc'[w] = step
      /\ \A v \in Workers : v # w => pc'[v] = pc[v]
  BY GotoType
<1> QED BY <1>1, WorkerQuiet DEF WorkerInv, TypeOK, QueuedKept

(* The appends keep the log well typed.                                    *)
LEMMA AppendType ==
    ASSUME WorkerInv, NEW w \in Workers, job[w] \in Actions,
           NEW fresh \in BOOLEAN, AppendUnique(w, fresh)
    PROVE  /\ audited' \in [Actions -> Nat]
           /\ log' \in LogStates
BY DEF AppendUnique, WorkerInv, TypeOK, LogStates, MissingEvents

LEMMA TornType ==
    ASSUME WorkerInv, NEW w \in Workers, TornAudit(w)
    PROVE  /\ audited' \in [Actions -> Nat]
           /\ log' \in LogStates
<1>1. job[w] \in Actions
  BY DEF TornAudit, MidAudits, LastAudits, WorkerInv
<1>2. seen[w] \in Nat /\ audited[job[w]] \in Nat
  BY <1>1 DEF WorkerInv, TypeOK
<1> QED BY <1>1, <1>2 DEF TornAudit, WorkerInv, TypeOK, LogStates

(* One step of one worker keeps the worker invariant.                      *)
LEMMA WorkerStepInv ==
    ASSUME WorkerInv, AbsentIsBlank, QueueTypeOK', QueuedKept,
           NEW w \in Workers, WorkerStep(w)
    PROVE  WorkerInv'
<1>q. QueueTypeOK'
  OBVIOUS
<1>t. TypeOK /\ held[w] \in RollbackSnapshots \cup {NoRollback}
  BY DEF WorkerInv, TypeOK
<1>1. CASE Start(w)
  <2>0. PICK a \in Actions :
          \/ Propose(w, a)
          \/ \E to \in Targets(Status(a)) : Decide(w, a, to)
          \/ Preview(w, a)
          \/ ExecuteClaim(w, a)
          \/ ClaimDone(w, a)
          \/ ReconcileLoad(w, a)
          \/ \E reason \in Reasons : RollbackClaim(w, a, reason)
          \/ RollbackReconcileLoad(w, a)
    BY <1>1 DEF Start
  <2>a. snapshot'[a] # NoSnapshot
    <3>1. CASE Propose(w, a)
      <4>1. PICK k \in 1 .. MaxKey, key \in NoKey .. MaxKey :
              /\ k <= Len(Box(a))
              /\ Enqueue(a, ProposalFrom(a, k, key))
        BY <3>1 DEF Propose
      <4>2. k \in 1 .. Len(Box(a))
        BY <4>1, LiveType, MaxKeyAssumption
      <4>3. ProposalFrom(a, k, key) \in Snapshots
        BY <4>2, LiveType DEF Snapshots, ProposalFrom
      <4> QED BY <1>t, <4>1, <4>3, NoSnapshotAssumption
              DEF Enqueue, Queued, TypeOK, QueueTypeOK
    <3>2. Queued(a) => snapshot'[a] # NoSnapshot
      BY DEF QueuedKept, Queued
    <3>3. CASE \/ \E to \in Targets(Status(a)) : Decide(w, a, to)
               \/ Preview(w, a) \/ ExecuteClaim(w, a)
               \/ \E reason \in Reasons : RollbackClaim(w, a, reason)
      BY <3>2, <3>3 DEF Decide, Review, Preview, ExecuteClaim, ClaimExecution,
            ClaimStaleExecution, RollbackClaim, ClaimRollback, Transition
    <3>4. CASE ClaimDone(w, a) \/ ReconcileLoad(w, a) \/ RollbackReconcileLoad(w, a)
      <4>1. Status(a) # "pending_review"
        BY <3>4 DEF ClaimDone, ReconcileLoad, RollbackReconcileLoad,
                    UncertainExecution, UncertainRollback
      <4> QED BY <3>2, <4>1 DEF AbsentIsBlank, Status, LastStatus
    <3> QED BY <2>0, <3>1, <3>3, <3>4
  <2>1. ASSUME NEW step \in Steps, step \notin RollbackSteps, Begin(w, a, step),
               UNCHANGED <<box, wire, audited, log, base, held>>
        PROVE  WorkerInv'
    <3>1. /\ pc' \in [Workers -> Steps]
          /\ job' \in [Workers -> Actions \cup {NoJob}]
          /\ seen' \in [Workers -> Nat]
          /\ pc'[w] = step /\ job'[w] = a
          /\ \A v \in Workers : v # w => pc'[v] = pc[v] /\ job'[v] = job[v]
      BY <2>1, BeginType
    <3> QED BY <1>t, <2>a, <2>1, <3>1, WorkerQuiet DEF TypeOK
  <2>2. CASE Propose(w, a) \/ (\E to \in Targets(Status(a)) : Decide(w, a, to))
    BY <2>1, <2>2 DEF Propose, Decide, Steps, RollbackSteps, writeVars
  <2>3. CASE Preview(w, a) \/ ClaimDone(w, a)
    BY <2>1, <2>3 DEF Preview, ClaimDone, Steps, RollbackSteps, writeVars
  <2>4. CASE ExecuteClaim(w, a) \/ ReconcileLoad(w, a)
    BY <2>1, <2>4 DEF ExecuteClaim, ReconcileLoad, Steps, ExecutorSteps,
                      ReconcilerSteps, RollbackSteps, writeVars
  <2>5. CASE \E reason \in Reasons : RollbackClaim(w, a, reason)
    <3>1. PICK reason \in Reasons : RollbackClaim(w, a, reason)
      BY <2>5
    <3>2. "r_audit_claim" \in Steps
      BY DEF Steps, RollbackSteps
    <3>3. Begin(w, a, "r_audit_claim") /\ UNCHANGED <<box, wire, audited, log, base>>
      BY <3>1 DEF RollbackClaim, writeVars
    <3>4. /\ pc' \in [Workers -> Steps]
          /\ job' \in [Workers -> Actions \cup {NoJob}]
          /\ seen' \in [Workers -> Nat]
          /\ pc'[w] = "r_audit_claim" /\ job'[w] = a
          /\ \A v \in Workers : v # w => pc'[v] = pc[v] /\ job'[v] = job[v]
      BY <3>2, <3>3, BeginType
    <3>5. [reason |-> reason, observed |-> {}, target |-> {}] \in RollbackSnapshots
      BY DEF RollbackSnapshots
    <3>6. /\ held' \in [Workers -> RollbackSnapshots \cup {NoRollback}]
          /\ held'[w] \in RollbackSnapshots
          /\ \A v \in Workers : v # w => held'[v] = held[v]
      BY <1>t, <3>1, <3>5 DEF RollbackClaim, TypeOK
    <3> QED BY <1>t, <2>a, <3>3, <3>4, <3>6, WorkerQuiet DEF TypeOK
  <2>6. CASE RollbackReconcileLoad(w, a)
    <3>1. "k_get" \in Steps /\ "k_get" \notin RollbackSteps
      BY DEF Steps, RollbackReconcilerSteps, RollbackSteps
    <3>2. Begin(w, a, "k_get") /\ UNCHANGED <<box, wire, audited, log, base>>
      BY <2>6 DEF RollbackReconcileLoad, writeVars
    <3>3. /\ pc' \in [Workers -> Steps]
          /\ job' \in [Workers -> Actions \cup {NoJob}]
          /\ seen' \in [Workers -> Nat]
          /\ pc'[w] = "k_get" /\ job'[w] = a
          /\ \A v \in Workers : v # w => pc'[v] = pc[v] /\ job'[v] = job[v]
      BY <3>1, <3>2, BeginType
    <3>4. /\ held' \in [Workers -> RollbackSnapshots \cup {NoRollback}]
          /\ \A v \in Workers : v # w => held'[v] = held[v]
      BY <1>t, <2>6 DEF RollbackReconcileLoad, TypeOK, QueueTypeOK
    <3> QED BY <1>t, <2>a, <3>1, <3>2, <3>3, <3>4, WorkerQuiet DEF TypeOK
  <2> QED BY <2>0, <2>2, <2>3, <2>4, <2>5, <2>6
<1>2. CASE Audit(w)
  <2>1. job[w] \in Actions /\ pc[w] # "idle"
    BY <1>2 DEF Audit, MidAudits, WorkerInv
  <2>2. PICK step \in Steps : <<pc[w], step>> \in AfterAudit /\ Goto(w, step)
    BY <1>2 DEF Audit
  <2>3. step \in RollbackSteps => held[w] \in RollbackSnapshots
    BY <2>2 DEF WorkerInv, AfterAudit, RollbackSteps
  <2>4. audited' \in [Actions -> Nat] /\ log' \in LogStates
    BY <1>2, <2>1, AppendType DEF Audit
  <2> QED BY <1>2, <1>t, <2>1, <2>2, <2>3, <2>4, WorkerMoves DEF Audit, TypeOK
<1>3. ASSUME GoIdle(w), audited' \in [Actions -> Nat], log' \in LogStates,
             UNCHANGED <<box, wire>>
      PROVE  WorkerInv'
  <2>1. /\ pc' \in [Workers -> Steps]
        /\ job' \in [Workers -> Actions \cup {NoJob}]
        /\ seen' \in [Workers -> Nat]
        /\ base' \in [Workers -> Nat]
        /\ held' \in [Workers -> RollbackSnapshots \cup {NoRollback}]
        /\ pc'[w] = "idle"
        /\ \A v \in Workers : v # w =>
              pc'[v] = pc[v] /\ job'[v] = job[v] /\ held'[v] = held[v]
    BY <1>3, IdleType
  <2> QED BY <1>3, <2>1, WorkerQuiet DEF RollbackSteps
<1>4. CASE LastAudit(w)
  <2>1. job[w] \in Actions
    BY <1>4 DEF LastAudit, LastAudits, WorkerInv
  <2> QED BY <1>3, <1>4, <2>1, AppendType DEF LastAudit
<1>5. CASE TornAudit(w)
  BY <1>3, <1>5, TornType DEF TornAudit
<1>6. CASE Stop(w)
  BY <1>3, <1>6, <1>t DEF Stop, writeVars, TypeOK
<1>7. ASSUME NEW step \in Steps, step \notin RollbackSteps, pc[w] # "idle",
             Goto(w, step), UNCHANGED <<box, wire, audited, log, job, seen, held>>,
             base' \in [Workers -> Nat]
      PROVE  WorkerInv'
  BY <1>7, <1>t, WorkerMoves DEF TypeOK
<1>8. ASSUME NEW step \in Steps, pc[w] # "idle", Continue(w, step),
             step \in RollbackSteps => pc[w] \in RollbackSteps,
             UNCHANGED writeVars
      PROVE  WorkerInv'
  <2>1. job[w] \in Actions /\ snapshot'[job[w]] # NoSnapshot
    BY <1>8 DEF WorkerInv, QueuedKept
  <2>2. /\ pc' \in [Workers -> Steps]
        /\ seen' \in [Workers -> Nat]
        /\ pc'[w] = step
        /\ \A v \in Workers : v # w => pc'[v] = pc[v]
        /\ UNCHANGED <<job, base, held>>
    BY <1>8, <2>1, ContinueType
  <2>3. step \in RollbackSteps => held[w] \in RollbackSnapshots
    BY <1>8 DEF WorkerInv
  <2> QED BY <1>8, <1>t, <2>1, <2>2, <2>3, WorkerQuiet DEF writeVars, TypeOK
<1>s. ASSUME NEW step \in Steps, NEW r \in Writes, r.by \in Actions, pc[w] # "idle",
             Goto(w, step), wire' = wire \cup {r},
             step \in RollbackSteps => pc[w] \in RollbackSteps,
             UNCHANGED <<box, audited, log, job, seen, base, held>>
      PROVE  WorkerInv'
  <2>1. /\ pc' \in [Workers -> Steps]
        /\ pc'[w] = step
        /\ \A v \in Workers : v # w => pc'[v] = pc[v]
    BY <1>s, GotoType
  <2>2. TypeOK'
    BY <1>s, <1>t, <2>1 DEF TypeOK
  <2>3. ASSUME NEW v \in Workers
        PROVE  /\ pc'[v] # "idle" => job'[v] \in Actions /\ snapshot'[job'[v]] # NoSnapshot
               /\ pc'[v] \in RollbackSteps => held'[v] \in RollbackSnapshots
    BY <1>s, <2>1 DEF WorkerInv, QueuedKept
  <2> QED BY <1>s, <2>2, <2>3 DEF WorkerInv
<1>9. CASE Execute(w)
  <2>1. CASE ExecuteGet(w)
    <3>1. job[w] \in Actions /\ pc[w] # "idle"
      BY <2>1 DEF ExecuteGet, WorkerInv
    <3>2. base' \in [Workers -> Nat]
      BY <1>t, <2>1, <3>1, LiveType DEF ExecuteGet, TypeOK
    <3>3. PICK step \in {"x_fail", "x_complete", "x_mark"} : Goto(w, step)
      BY <2>1 DEF ExecuteGet
    <3>4. step \in Steps /\ step \notin RollbackSteps
      BY DEF Steps, ExecutorSteps, RollbackSteps
    <3> QED BY <1>7, <2>1, <3>1, <3>2, <3>3, <3>4 DEF ExecuteGet, writeVars
  <2>2. CASE ExecuteMark(w)
    BY <1>8, <2>2 DEF ExecuteMark, Steps, ExecutorSteps, RollbackSteps
  <2>3. CASE ExecuteSend(w)
    <3>1. job[w] \in Actions /\ snapshot[job[w]] # NoSnapshot /\ pc[w] # "idle"
      BY <2>3 DEF ExecuteSend, WorkerInv
    <3>2. ExecutionWrite(w) \in Writes /\ ExecutionWrite(w).by \in Actions
      <4>1. snapshot[job[w]].cats \in SUBSET Categories
        BY <1>t, <3>1 DEF TypeOK, QueueTypeOK, Snapshots
      <4>2. Target(job[w]) \in SUBSET Categories
        BY <3>1, <4>1, PlanAssumption, ManagedAssumption DEF Target, FinalCategories
      <4> QED BY <1>t, <3>1, <4>2 DEF ExecutionWrite, Writes, TypeOK
    <3>3. "x_wait" \in Steps /\ "x_wait" \notin RollbackSteps
      BY DEF Steps, ExecutorSteps, RollbackSteps
    <3> QED BY <1>s, <2>3, <3>1, <3>2, <3>3 DEF ExecuteSend
  <2>4. CASE ExecuteReply(w)
    <3>1. PICK step \in {"x_fail", "x_complete", "x_unknown"} : Goto(w, step)
      BY <2>4 DEF ExecuteReply
    <3>2. step \in Steps /\ step \notin RollbackSteps
      BY DEF Steps, ExecutorSteps, RollbackSteps
    <3> QED BY <1>7, <1>t, <2>4, <3>1, <3>2 DEF ExecuteReply, writeVars, TypeOK
  <2>5. CASE ExecuteFinish(w)
    BY <1>8, <2>5 DEF ExecuteFinish, Steps, RollbackSteps
  <2> QED BY <1>9, <2>1, <2>2, <2>3, <2>4, <2>5 DEF Execute
<1>10. CASE Reconcile(w)
  <2>1. CASE ReconcileGet(w)
    <3>1. PICK step \in {"audit_outcome", "c_applied", "c_not_applied"} : Goto(w, step)
      BY <2>1 DEF ReconcileGet
    <3>2. step \in Steps /\ step \notin RollbackSteps
      BY DEF Steps, ReconcilerSteps, RollbackSteps
    <3> QED BY <1>7, <1>t, <2>1, <3>1, <3>2 DEF ReconcileGet, writeVars, TypeOK
  <2>2. CASE ReconcileResolve(w)
    BY <1>8, <2>2 DEF ReconcileResolve, Steps, RollbackSteps
  <2> QED BY <1>10, <2>1, <2>2 DEF Reconcile
<1>11. CASE Rollback(w)
  <2>1. CASE RollbackGet(w)
    <3>1. /\ job[w] \in Actions /\ snapshot[job[w]] # NoSnapshot /\ pc[w] # "idle"
          /\ held[w] \in RollbackSnapshots
      BY <2>1 DEF RollbackGet, WorkerInv, RollbackSteps
    <3>2. base' \in [Workers -> Nat] /\ UNCHANGED <<box, wire, audited, log, job, seen>>
      BY <1>t, <2>1, <3>1, LiveType DEF RollbackGet, TypeOK, writeVars
    <3>3. PICK step \in {"r_fail", "r_no_change", "r_mark"} : Goto(w, step)
      BY <2>1 DEF RollbackGet
    <3>4. step \in Steps
      BY DEF Steps, RollbackSteps
    <3>5. /\ held' \in [Workers -> RollbackSnapshots \cup {NoRollback}]
          /\ held'[w] \in RollbackSnapshots
          /\ \A v \in Workers : v # w => held'[v] = held[v]
      <4>1. [ reason |-> held[w].reason, observed |-> Live(job[w]),
              target |-> RollbackTarget(Live(job[w]), snapshot[job[w]]) ]
                \in RollbackSnapshots
        BY <3>1, FoundType DEF Queued
      <4> QED BY <1>t, <2>1, <3>1, <4>1 DEF RollbackGet, TypeOK
    <3>6. /\ pc' \in [Workers -> Steps]
          /\ pc'[w] = step
          /\ \A v \in Workers : v # w => pc'[v] = pc[v]
      BY <3>3, <3>4, GotoType
    <3> QED BY <1>t, <3>1, <3>2, <3>5, <3>6, WorkerQuiet DEF TypeOK, QueuedKept
  <2>2. CASE RollbackMark(w)
    BY <1>8, <2>2 DEF RollbackMark, Steps, RollbackSteps
  <2>3. CASE RollbackNoChange(w)
    BY <1>8, <2>3 DEF RollbackNoChange, Steps, RollbackSteps
  <2>4. CASE RollbackSend(w)
    <3>1. /\ job[w] \in Actions /\ pc[w] # "idle"
          /\ pc[w] \in RollbackSteps /\ held[w] \in RollbackSnapshots
      BY <2>4 DEF RollbackSend, WorkerInv, RollbackSteps
    <3>2. RestoringWrite(w) \in Writes /\ RestoringWrite(w).by \in Actions
      BY <1>t, <3>1 DEF RestoringWrite, Writes, TypeOK, RollbackSnapshots
    <3>3. "r_wait" \in Steps
      BY DEF Steps, RollbackSteps
    <3> QED BY <1>s, <2>4, <3>1, <3>2, <3>3 DEF RollbackSend
  <2>5. CASE RollbackReply(w)
    <3>1. /\ pc[w] # "idle" /\ held[w] \in RollbackSnapshots
      BY <2>5 DEF RollbackReply, WorkerInv, RollbackSteps
    <3>2. PICK step \in {"r_complete", "r_fail", "r_unknown"} : Goto(w, step)
      BY <2>5 DEF RollbackReply
    <3>3. step \in Steps
      BY DEF Steps, RollbackSteps
    <3> QED BY <1>t, <2>5, <3>1, <3>2, <3>3, WorkerMoves
            DEF RollbackReply, writeVars, TypeOK
  <2>6. CASE RollbackFinish(w)
    BY <1>8, <2>6 DEF RollbackFinish, Steps, RollbackSteps
  <2> QED BY <1>11, <2>1, <2>2, <2>3, <2>4, <2>5, <2>6 DEF Rollback
<1>12. CASE RollbackReconcile(w)
  <2>1. CASE RollbackReconcileGet(w)
    <3>1. PICK step \in {"audit_outcome", "k_applied", "k_not_applied"} : Goto(w, step)
      BY <2>1 DEF RollbackReconcileGet
    <3>2. step \in Steps /\ step \notin RollbackSteps
      BY DEF Steps, RollbackReconcilerSteps, RollbackSteps
    <3> QED BY <1>7, <1>t, <2>1, <3>1, <3>2 DEF RollbackReconcileGet, writeVars, TypeOK
  <2>2. CASE RollbackReconcileResolve(w)
    BY <1>8, <2>2 DEF RollbackReconcileResolve, Steps, RollbackSteps
  <2> QED BY <1>12, <2>1, <2>2 DEF RollbackReconcile
<1> QED BY <1>1, <1>2, <1>4, <1>5, <1>6, <1>9, <1>10, <1>11, <1>12 DEF WorkerStep

(* So does a step of Graph or of the person.                               *)
LEMMA MailboxStepInv ==
    ASSUME WorkerInv,
           \/ \E r \in wire : Deliver(r) \/ Drop(r)
           \/ \E m \in Messages : UserEdit(m)
    PROVE  WorkerInv'
<1>1. TypeOK /\ \A m \in Messages : box[m] # <<>>
  BY DEF WorkerInv
<1>2. ASSUME NEW m \in Messages, NEW r \in Writes,
             box' = [box EXCEPT ![m] = Append(@, r)], wire' \subseteq wire,
             UNCHANGED <<queueVars, audited, log, workerVars>>
      PROVE  WorkerInv'
  <2>1. Append(box[m], r) \in Seq(Writes) /\ Append(box[m], r) # <<>>
    <3>1. box[m] \in Seq(Writes)
      BY <1>1 DEF TypeOK
    <3> QED BY <3>1
  <2>2. box' \in [Messages -> Seq(Writes)] /\ \A n \in Messages : box'[n] # <<>>
    BY <1>1, <1>2, <2>1 DEF TypeOK
  <2>3. TypeOK'
    BY <1>1, <1>2, <2>2 DEF TypeOK, QueueTypeOK, queueVars, workerVars
  <2> QED BY <1>2, <2>2, <2>3 DEF WorkerInv, queueVars, workerVars
<1>3. ASSUME NEW r \in wire, Deliver(r)
      PROVE  WorkerInv'
  <2>1. r \in Writes /\ MessageOf[r.by] \in Messages
    BY <1>1, <1>3, MessageOfAssumption DEF WorkerInv, TypeOK
  <2> QED BY <1>2, <1>3, <2>1 DEF Deliver
<1>4. ASSUME NEW r \in wire, Drop(r)
      PROVE  WorkerInv'
  <2>1. TypeOK'
    BY <1>1, <1>4 DEF Drop, TypeOK, QueueTypeOK, queueVars, workerVars
  <2> QED BY <1>4, <2>1 DEF Drop, WorkerInv, queueVars, workerVars
<1>5. ASSUME NEW m \in Messages, UserEdit(m)
      PROVE  WorkerInv'
  <2>1. PICK c \in UserEdits : box' = [box EXCEPT ![m] = Append(@, ByPerson(c))]
    BY <1>5 DEF UserEdit
  <2>2. ByPerson(c) \in Writes
    BY UserEditsAssumption DEF ByPerson, Writes
  <2> QED BY <1>2, <1>5, <2>1, <2>2 DEF UserEdit
<1> QED BY <1>3, <1>4, <1>5

(* What holds of the files and the workers together, in every state.       *)
BaseInv == WorkerInv /\ AbsentIsBlank /\ RollbackContract

LEMMA BaseStep ==
    ASSUME BaseInv, [Next]_vars
    PROVE  /\ BaseInv'
           /\ [QueueNext]_queueVars
           /\ QueuedKept
           /\ \A a \in Actions : Grows(history[a], history'[a])
<1>0. WorkerInv /\ QueueTypeOK /\ AbsentIsBlank /\ RollbackContract
  BY DEF BaseInv, WorkerInv, TypeOK
<1>1. [QueueNext]_queueVars
  BY <1>0, QueueCall
<1>2. /\ QueueTypeOK' /\ AbsentIsBlank' /\ RollbackContract'
      /\ \A a \in Actions : Grows(history[a], history'[a])
  BY <1>0, <1>1, QueueStep
<1>3. QueuedKept
  BY <1>0, <1>1, QueuedStays DEF QueuedKept, Queued
<1>4. WorkerInv'
  <2>1. CASE UNCHANGED vars
    <3>1. UNCHANGED <<box, wire, audited, log, pc, job, seen, base, held>>
      BY <2>1 DEF vars, writeVars, workerVars
    <3>2. TypeOK'
      BY <1>0, <1>2, <3>1 DEF WorkerInv, TypeOK
    <3> QED BY <1>0, <1>3, <3>1, <3>2 DEF WorkerInv, QueuedKept
  <2>2. ASSUME NEW w \in Workers, WorkerStep(w)
        PROVE  WorkerInv'
    BY <1>0, <1>2, <1>3, <2>2, WorkerStepInv
  <2> QED BY <1>0, <2>1, <2>2, MailboxStepInv DEF Next
<1> QED BY <1>1, <1>2, <1>3, <1>4 DEF BaseInv

LEMMA BaseInit ==
    ASSUME Init
    PROVE  BaseInv
<1>1. /\ \A a \in Actions : history[a] = <<>> /\ rollback[a] = NoRollback
  BY DEF Init, QueueInit
<1>2. AbsentIsBlank
  BY <1>1 DEF AbsentIsBlank
<1>3. RollbackContract
  BY <1>1 DEF RollbackContract, Status, LastStatus, UncertainRollback
<1> QED BY <1>2, <1>3, WorkerInit DEF BaseInv

(* Each worker holds what its step of execute, reconcile or rollback needs. *)
THEOREM BaseInvariant == Spec => []BaseInv
<1>1. Init => BaseInv
  BY BaseInit
<1>2. BaseInv /\ [Next]_vars => BaseInv'
  BY BaseStep
<1> QED BY <1>1, <1>2, PTL DEF Spec

(* Queue, mailbox, log and workers always have their types.                *)
THEOREM TypeInvariant == Spec => []TypeOK
<1>1. BaseInv => TypeOK
  BY DEF BaseInv, WorkerInv
<1> QED BY <1>1, BaseInvariant, PTL

(* The four executors and reconcilers, the reviews and the proposals use   *)
(* the queue only as module ActionQueue specifies it, whatever crashes and *)
(* however they interleave: what is proved of the queue holds of them.     *)
THEOREM QueueRefinement == Spec => QueueUsedAsSpecified
<1>1. Init => QueueInit
  BY DEF Init
<1>2. BaseInv /\ [Next]_vars => [QueueNext]_queueVars
  BY BaseStep
<1> QED BY <1>1, <1>2, BaseInvariant, PTL DEF Spec, QueueUsedAsSpecified, QueueSpec

(* In particular no execution is claimed without an approval, no uncertain *)
(* write is repeated, and nothing is written again once rolled back.       *)
THEOREM LifecycleOfWrites ==
    Spec => [](HistoryIsPath /\ HumanGate /\ NoBlindRetry /\ RollbackFollowsSuccess)
<1>1. QueueSpec => [](HistoryIsPath /\ HumanGate /\ NoBlindRetry /\ RollbackFollowsSuccess)
  BY HistoryInvariant, HumanGateInvariant, NoBlindRetryInvariant, RollbackInvariant, PTL
<1> QED BY <1>1, QueueRefinement, PTL DEF QueueUsedAsSpecified

(* A rejection by a person stands and no approval follows one, whatever the *)
(* executors and reconcilers do and whichever of them crash or race.       *)
THEOREM DecisionsOfWrites == Spec => DecisionsStand
BY DecisionRefinement, QueueRefinement, PTL DEF QueueUsedAsSpecified

-----------------------------------------------------------------------------
(***************************************************************************)
(* Proofs that every PATCH has a logged intent of its own, for any number  *)
(* of workers, crashes, torn appends and late requests.                    *)
(***************************************************************************)

(* Steps of a worker that has persisted a write intent, and those of one   *)
(* whose intent is in the audit log as well.                               *)
Armed     == {"x_send", "x_wait", "r_send", "r_wait"}
Intending == Armed \cup {"x_audit_wif", "r_audit_wif"}

(* A worker's copy of its action is a prefix of the queue's; while it is   *)
(* about to write the copy ends with the intent, logged once it is armed.  *)
WorkerAhead ==
    \A w \in Workers :
        pc[w] # "idle" =>
            /\ seen[w] <= Len(history[job[w]])
            /\ pc[w] \in Intending =>
                  seen[w] # 0 /\ history[job[w]][seen[w]] \in WriteIntents
            /\ pc[w] \in Armed => seen[w] < audited[job[w]]

AheadInv == BaseInv /\ WorkerAhead /\ AuditBehindQueue /\ WriteAhead

-----------------------------------------------------------------------------
(* A history only ever gets longer.                                        *)
LEMMA GrowsKeeps ==
    ASSUME NEW h \in Seq(Statuses), NEW g, Grows(h, g)
    PROVE  /\ g \in Seq(Statuses)
           /\ Len(h) <= Len(g)
           /\ \A i \in 1 .. Len(h) : g[i] = h[i]
<1>1. CASE g = h
  BY <1>1
<1>2. CASE \E to \in Statuses : g = Append(h, to)
  <2>1. PICK to \in Statuses : g = Append(h, to)
    BY <1>2
  <2> QED BY <2>1, AppendElements
<1>3. CASE g = Append(Append(h, "failed"), "executing")
  <2>1. "failed" \in Statuses /\ "executing" \in Statuses
    BY DEF Statuses
  <2>2. /\ Append(h, "failed") \in Seq(Statuses)
        /\ Len(Append(h, "failed")) = Len(h) + 1
        /\ \A i \in 1 .. Len(h) : Append(h, "failed")[i] = h[i]
    BY <2>1, AppendElements
  <2>3. /\ g \in Seq(Statuses)
        /\ Len(g) = Len(h) + 2
        /\ \A i \in 1 .. Len(h) + 1 : g[i] = Append(h, "failed")[i]
    BY <1>3, <2>1, <2>2, AppendElements
  <2> QED BY <2>2, <2>3
<1> QED BY <1>1, <1>2, <1>3 DEF Grows

(* What the files keep: longer histories, and more of them in the log.     *)
FilesGrow ==
    \A a \in Actions :
        /\ history[a] \in Seq(Statuses) /\ history'[a] \in Seq(Statuses)
        /\ audited[a] \in Nat /\ audited'[a] \in Nat
        /\ Len(history[a]) <= Len(history'[a])
        /\ \A i \in 1 .. Len(history[a]) : history'[a][i] = history[a][i]
        /\ audited[a] <= audited'[a]

(* Who changes what a worker is at: only the worker itself.                *)
LEMMA OthersStay ==
    ASSUME WorkerInv, NEW w \in Workers, WorkerStep(w), NEW v \in Workers, v # w
    PROVE  pc'[v] = pc[v] /\ job'[v] = job[v] /\ seen'[v] = seen[v]
<1>0. pc \in [Workers -> Steps] /\ DOMAIN job = Workers /\ DOMAIN seen = Workers
  BY DEF WorkerInv, TypeOK
<1>1. CASE Start(w)
  <2>1. PICK a \in Actions, step \in Steps : Begin(w, a, step)
    BY <1>1 DEF Start, Propose, Decide, Preview, ExecuteClaim, ClaimDone,
                ReconcileLoad, RollbackClaim, RollbackReconcileLoad, Steps,
                ExecutorSteps, ReconcilerSteps, RollbackSteps, RollbackReconcilerSteps
  <2> QED BY <1>0, <2>1 DEF Begin, Goto
<1>2. CASE Audit(w)
  <2>1. PICK step \in Steps : Goto(w, step)
    BY <1>2 DEF Audit
  <2> QED BY <1>0, <1>2, <2>1 DEF Audit, Goto
<1>3. CASE LastAudit(w) \/ TornAudit(w) \/ Stop(w)
  BY <1>0, <1>3 DEF LastAudit, TornAudit, Stop, GoIdle, Goto
<1>4. CASE Execute(w)
  BY <1>0, <1>4 DEF Execute, ExecuteGet, ExecuteMark, ExecuteSend, ExecuteReply,
                    ExecuteFinish, Continue, Goto
<1>5. CASE Reconcile(w)
  BY <1>0, <1>5 DEF Reconcile, ReconcileGet, ReconcileResolve, Continue, Goto
<1>6. CASE Rollback(w)
  BY <1>0, <1>6 DEF Rollback, RollbackGet, RollbackMark, RollbackNoChange,
                    RollbackSend, RollbackReply, RollbackFinish, Continue, Goto
<1>7. CASE RollbackReconcile(w)
  BY <1>0, <1>7 DEF RollbackReconcile, RollbackReconcileGet,
                    RollbackReconcileResolve, Continue, Goto
<1> QED BY <1>1, <1>2, <1>3, <1>4, <1>5, <1>6, <1>7 DEF WorkerStep

(* Kinds of steps of a worker, by what they do to its copy of the action.  *)
Restart(w) == pc'[w] = "idle"
Reload(w) ==
    /\ pc'[w] \notin Intending
    /\ job'[w] \in Actions
    /\ seen'[w] = Len(history'[job'[w]])
Mark(w) ==
    /\ job'[w] \in Actions
    /\ \E to \in WriteIntents : history'[job'[w]] = Append(history[job'[w]], to)
    /\ seen'[w] = Len(history'[job'[w]])
    /\ pc'[w] \notin Armed
Move(w) ==
    /\ pc[w] # "idle" /\ job'[w] = job[w] /\ seen'[w] = seen[w]
    /\ pc'[w] \notin Intending
Log(w) ==
    /\ pc[w] \in Intending \ Armed /\ job'[w] = job[w] /\ seen'[w] = seen[w]
    /\ seen[w] < audited'[job[w]]
Send(w) ==
    /\ pc[w] \in Armed /\ job'[w] = job[w] /\ seen'[w] = seen[w]
    /\ pc'[w] \in {"x_wait", "r_wait"}

LEMMA OwnStep ==
    ASSUME WorkerInv, QueueTypeOK', NEW w \in Workers, WorkerStep(w)
    PROVE  Restart(w) \/ Reload(w) \/ Mark(w) \/ Move(w) \/ Log(w) \/ Send(w)
<1>0. /\ TypeOK
      /\ pc \in [Workers -> Steps]
      /\ seen \in [Workers -> Nat]
      /\ job \in [Workers -> Actions \cup {NoJob}]
  BY DEF WorkerInv, TypeOK
<1>1. CASE Start(w)
  <2>1. PICK a \in Actions, step \in Steps \ Intending : Begin(w, a, step)
    BY <1>1 DEF Start, Propose, Decide, Preview, ExecuteClaim, ClaimDone,
                ReconcileLoad, RollbackClaim, RollbackReconcileLoad, Steps,
                ExecutorSteps, ReconcilerSteps, RollbackSteps,
                RollbackReconcilerSteps, Intending, Armed
  <2> QED BY <2>1, BeginType DEF Reload
<1>2. ASSUME NEW step \in Steps, step \notin Intending, pc[w] # "idle",
             Continue(w, step)
      PROVE  Reload(w)
  <2>1. job[w] \in Actions
    BY <1>2 DEF WorkerInv
  <2> QED BY <1>2, <2>1, ContinueType DEF Reload
<1>3. ASSUME NEW step \in Steps, step \notin Intending, pc[w] # "idle",
             Goto(w, step), UNCHANGED <<job, seen>>
      PROVE  Move(w)
  BY <1>3, GotoType DEF Move
<1>4. CASE Audit(w)
  <2>1. pc[w] # "idle" /\ job[w] \in Actions /\ UNCHANGED <<job, seen>>
    BY <1>4 DEF Audit, MidAudits, WorkerInv
  <2>2. PICK step \in Steps : <<pc[w], step>> \in AfterAudit /\ Goto(w, step)
    BY <1>4 DEF Audit
  <2>3. seen[w] < audited'[job[w]]
    <3>1. audited \in [Actions -> Nat] /\ seen[w] \in Nat
      BY <1>0 DEF TypeOK
    <3>2. PICK fresh \in BOOLEAN : AppendUnique(w, fresh)
      BY <1>4 DEF Audit
    <3>3. CASE MissingEvents(w)
      BY <2>1, <3>1, <3>2, <3>3 DEF AppendUnique
    <3>4. CASE ~MissingEvents(w)
      BY <2>1, <3>1, <3>2, <3>4 DEF AppendUnique, MissingEvents
    <3> QED BY <3>3, <3>4
  <2>4. CASE pc[w] \in Intending
    <3>1. pc[w] \notin Armed
      BY <1>4 DEF Audit, MidAudits, Armed
    <3> QED BY <2>1, <2>3, <2>4, <3>1 DEF Log
  <2>5. CASE pc[w] \notin Intending
    <3>1. step \notin Intending
      BY <2>2, <2>5 DEF AfterAudit, Intending, Armed
    <3> QED BY <1>3, <2>1, <2>2, <3>1
  <2> QED BY <2>4, <2>5
<1>5. CASE LastAudit(w) \/ TornAudit(w) \/ Stop(w)
  BY <1>0, <1>5 DEF LastAudit, TornAudit, Stop, GoIdle, Goto, Restart
<1>6. ASSUME NEW to \in WriteIntents, NEW step \in Steps, step \notin Armed,
             pc[w] # "idle", Transition(job[w], to), Continue(w, step)
      PROVE  Mark(w)
  <2>1. job[w] \in Actions /\ QueueTypeOK
    BY <1>0, <1>6 DEF WorkerInv, TypeOK
  <2>2. history'[job[w]] = Append(history[job[w]], to)
    BY <1>6, <2>1, TransitionStep
  <2> QED BY <1>6, <2>1, <2>2, ContinueType DEF Mark
<1>7. CASE Execute(w)
  <2>1. CASE ExecuteGet(w)
    <3>1. PICK step \in {"x_fail", "x_complete", "x_mark"} : Goto(w, step)
      BY <2>1 DEF ExecuteGet
    <3>2. step \in Steps /\ step \notin Intending
      BY DEF Steps, ExecutorSteps, Intending, Armed
    <3> QED BY <1>3, <2>1, <3>1, <3>2 DEF ExecuteGet
  <2>2. CASE ExecuteMark(w)
    <3>1. "x_audit_wif" \in Steps /\ "x_audit_wif" \notin Armed
      BY DEF Steps, ExecutorSteps, Armed
    <3> QED BY <1>6, <2>2, <3>1 DEF ExecuteMark, MarkWriteInFlight, WriteIntents
  <2>3. CASE ExecuteSend(w)
    BY <1>0, <2>3 DEF ExecuteSend, Send, Armed, Goto
  <2>4. CASE ExecuteReply(w)
    <3>1. PICK step \in {"x_fail", "x_complete", "x_unknown"} : Goto(w, step)
      BY <2>4 DEF ExecuteReply
    <3>2. step \in Steps /\ step \notin Intending
      BY DEF Steps, ExecutorSteps, Intending, Armed
    <3> QED BY <1>3, <2>4, <3>1, <3>2 DEF ExecuteReply
  <2>5. CASE ExecuteFinish(w)
    BY <1>2, <2>5 DEF ExecuteFinish, Steps, Intending, Armed
  <2> QED BY <1>7, <2>1, <2>2, <2>3, <2>4, <2>5 DEF Execute
<1>8. CASE Reconcile(w)
  <2>1. CASE ReconcileGet(w)
    <3>1. PICK step \in {"audit_outcome", "c_applied", "c_not_applied"} : Goto(w, step)
      BY <2>1 DEF ReconcileGet
    <3>2. step \in Steps /\ step \notin Intending
      BY DEF Steps, ReconcilerSteps, Intending, Armed
    <3> QED BY <1>3, <2>1, <3>1, <3>2 DEF ReconcileGet
  <2>2. CASE ReconcileResolve(w)
    BY <1>2, <2>2 DEF ReconcileResolve, Steps, Intending, Armed
  <2> QED BY <1>8, <2>1, <2>2 DEF Reconcile
<1>9. CASE Rollback(w)
  <2>1. CASE RollbackGet(w)
    <3>1. PICK step \in {"r_fail", "r_no_change", "r_mark"} : Goto(w, step)
      BY <2>1 DEF RollbackGet
    <3>2. step \in Steps /\ step \notin Intending
      BY DEF Steps, RollbackSteps, Intending, Armed
    <3> QED BY <1>3, <2>1, <3>1, <3>2 DEF RollbackGet
  <2>2. CASE RollbackMark(w)
    <3>1. "r_audit_wif" \in Steps /\ "r_audit_wif" \notin Armed
      BY DEF Steps, RollbackSteps, Armed
    <3> QED BY <1>6, <2>2, <3>1
            DEF RollbackMark, PrepareOrCompleteRollback, WriteIntents
  <2>3. CASE RollbackNoChange(w)
    BY <1>2, <2>3 DEF RollbackNoChange, Steps, Intending, Armed
  <2>4. CASE RollbackSend(w)
    BY <1>0, <2>4 DEF RollbackSend, Send, Armed, Goto
  <2>5. CASE RollbackReply(w)
    <3>1. PICK step \in {"r_complete", "r_fail", "r_unknown"} : Goto(w, step)
      BY <2>5 DEF RollbackReply
    <3>2. step \in Steps /\ step \notin Intending
      BY DEF Steps, RollbackSteps, Intending, Armed
    <3> QED BY <1>3, <2>5, <3>1, <3>2 DEF RollbackReply
  <2>6. CASE RollbackFinish(w)
    BY <1>2, <2>6 DEF RollbackFinish, Steps, Intending, Armed
  <2> QED BY <1>9, <2>1, <2>2, <2>3, <2>4, <2>5, <2>6 DEF Rollback
<1>10. CASE RollbackReconcile(w)
  <2>1. CASE RollbackReconcileGet(w)
    <3>1. PICK step \in {"audit_outcome", "k_applied", "k_not_applied"} : Goto(w, step)
      BY <2>1 DEF RollbackReconcileGet
    <3>2. step \in Steps /\ step \notin Intending
      BY DEF Steps, RollbackReconcilerSteps, Intending, Armed
    <3> QED BY <1>3, <2>1, <3>1, <3>2 DEF RollbackReconcileGet
  <2>2. CASE RollbackReconcileResolve(w)
    BY <1>2, <2>2 DEF RollbackReconcileResolve, Steps, Intending, Armed
  <2> QED BY <1>10, <2>1, <2>2 DEF RollbackReconcile
<1> QED BY <1>1, <1>4, <1>5, <1>7, <1>8, <1>9, <1>10 DEF WorkerStep

(* Only the audit steps write the log.                                     *)
LEMMA OtherStepsDoNotLog ==
    ASSUME NEW w \in Workers, WorkerStep(w),
           ~(Audit(w) \/ LastAudit(w) \/ TornAudit(w))
    PROVE  UNCHANGED audited
<1>1. CASE Start(w) \/ Stop(w)
  BY <1>1 DEF Start, Stop, Propose, Decide, Preview, ExecuteClaim, ClaimDone,
              ReconcileLoad, RollbackClaim, RollbackReconcileLoad, writeVars
<1>2. CASE Execute(w) \/ Reconcile(w)
  BY <1>2 DEF Execute, ExecuteGet, ExecuteMark, ExecuteSend, ExecuteReply,
              ExecuteFinish, Reconcile, ReconcileGet, ReconcileResolve, writeVars
<1>3. CASE Rollback(w) \/ RollbackReconcile(w)
  BY <1>3 DEF Rollback, RollbackGet, RollbackMark, RollbackNoChange, RollbackSend,
              RollbackReply, RollbackFinish, RollbackReconcile,
              RollbackReconcileGet, RollbackReconcileResolve, writeVars
<1> QED BY <1>1, <1>2, <1>3 DEF WorkerStep

(* The log only grows, and only up to the copy a worker holds.             *)
LEMMA AuditStep ==
    ASSUME BaseInv, [Next]_vars
    PROVE  \A a \in Actions :
              /\ audited[a] <= audited'[a]
              /\ audited'[a] # audited[a] =>
                    \E w \in Workers : /\ pc[w] # "idle" /\ job[w] = a
                                      /\ audited'[a] <= seen[w] + 1
<1>0. WorkerInv /\ audited \in [Actions -> Nat] /\ seen \in [Workers -> Nat]
  BY DEF BaseInv, WorkerInv, TypeOK
<1> DEFINE Kept == \A a \in Actions :
              /\ audited[a] <= audited'[a]
              /\ audited'[a] # audited[a] =>
                    \E w \in Workers : /\ pc[w] # "idle" /\ job[w] = a
                                      /\ audited'[a] <= seen[w] + 1
<1>1. ASSUME UNCHANGED audited
      PROVE  Kept
  BY <1>0, <1>1
<1>2. ASSUME NEW w \in Workers, pc[w] # "idle", NEW n \in Nat,
             audited' = [audited EXCEPT ![job[w]] = n],
             audited[job[w]] <= n, n <= seen[w] + 1
      PROVE  Kept
  <2>1. job[w] \in Actions
    BY <1>0, <1>2 DEF WorkerInv
  <2> SUFFICES ASSUME NEW a \in Actions
               PROVE  /\ audited[a] <= audited'[a]
                      /\ audited'[a] # audited[a] =>
                            \E v \in Workers : /\ pc[v] # "idle" /\ job[v] = a
                                              /\ audited'[a] <= seen[v] + 1
    OBVIOUS
  <2>2. CASE a = job[w]
    BY <1>0, <1>2, <2>1, <2>2
  <2>3. CASE a # job[w]
    BY <1>0, <1>2, <2>1, <2>3
  <2> QED BY <2>2, <2>3
<1>3. ASSUME NEW w \in Workers, Audit(w) \/ LastAudit(w)
      PROVE  Kept
  <2>1. pc[w] # "idle" /\ job[w] \in Actions
    BY <1>0, <1>3 DEF Audit, LastAudit, MidAudits, LastAudits, WorkerInv
  <2>2. PICK fresh \in BOOLEAN : AppendUnique(w, fresh)
    BY <1>3 DEF Audit, LastAudit
  <2>3. CASE MissingEvents(w)
    <3>1. audited' = [audited EXCEPT ![job[w]] = seen[w] + 1]
      BY <2>2, <2>3 DEF AppendUnique
    <3>2. /\ seen[w] + 1 \in Nat
          /\ audited[job[w]] <= seen[w] + 1
          /\ seen[w] + 1 <= seen[w] + 1
      BY <1>0, <2>1, <2>3 DEF MissingEvents
    <3> HIDE DEF Kept
    <3> QED BY <1>2, <2>1, <3>1, <3>2
  <2>4. CASE ~MissingEvents(w)
    BY <1>1, <2>2, <2>4 DEF AppendUnique
  <2> QED BY <2>3, <2>4
<1>4. ASSUME NEW w \in Workers, TornAudit(w)
      PROVE  Kept
  <2>1. pc[w] # "idle" /\ job[w] \in Actions
    BY <1>0, <1>4 DEF TornAudit, MidAudits, LastAudits, WorkerInv
  <2>2. audited[job[w]] \in Nat /\ seen[w] + 1 \in Nat
    BY <1>0, <2>1
  <2>3. PICK n \in audited[job[w]] .. seen[w] + 1 :
            audited' = [audited EXCEPT ![job[w]] = n]
    BY <1>4 DEF TornAudit
  <2>4. n \in Nat /\ audited[job[w]] <= n /\ n <= seen[w] + 1
    BY <2>2, <2>3
  <2> HIDE DEF Kept
  <2> QED BY <1>2, <2>1, <2>3, <2>4
<1>5. ASSUME NEW w \in Workers, WorkerStep(w),
             ~(Audit(w) \/ LastAudit(w) \/ TornAudit(w))
      PROVE  UNCHANGED audited
  BY <1>5, OtherStepsDoNotLog
<1>6. ASSUME \/ \E r \in wire : Deliver(r) \/ Drop(r)
             \/ \E m \in Messages : UserEdit(m)
      PROVE  UNCHANGED audited
  BY <1>6 DEF Deliver, Drop, UserEdit
<1>7. CASE UNCHANGED vars
  BY <1>1, <1>7 DEF vars, writeVars
<1>8. ASSUME NEW w \in Workers, WorkerStep(w)
      PROVE  Kept
  BY <1>1, <1>3, <1>4, <1>5, <1>8
<1>9. Kept
  <2>1. CASE \E w \in Workers : WorkerStep(w)
    BY <1>8, <2>1
  <2>2. CASE \/ \E r \in wire : Deliver(r) \/ Drop(r)
             \/ \E m \in Messages : UserEdit(m)
    <3>1. UNCHANGED audited
      BY <1>6, <2>2
    <3> QED BY <1>1, <3>1
  <2> QED BY <1>7, <2>1, <2>2 DEF Next
<1> QED BY <1>9 DEF Kept

LEMMA FilesStep ==
    ASSUME BaseInv, [Next]_vars
    PROVE  FilesGrow
<1>1. \A a \in Actions : history[a] \in Seq(Statuses)
  BY DEF BaseInv, WorkerInv, TypeOK, QueueTypeOK
<1>2. BaseInv' /\ \A a \in Actions : Grows(history[a], history'[a])
  BY BaseStep
<1>3. \A a \in Actions : audited[a] \in Nat /\ audited'[a] \in Nat
  BY <1>2 DEF BaseInv, WorkerInv, TypeOK
<1> QED BY <1>1, <1>2, <1>3, GrowsKeeps, AuditStep DEF FilesGrow

(* Intended, of a given request, in the next state.                        *)
IntendedNext(r) ==
    /\ r.at \in 1 .. Len(history'[r.by])
    /\ history'[r.by][r.at] \in WriteIntents
    /\ r.at < audited'[r.by]

(* Requests stay intended, whatever the files gain.                        *)
LEMMA IntendedStays ==
    ASSUME FilesGrow, NEW r, r.by \in Actions, Intended(r)
    PROVE  IntendedNext(r)
<1>1. Len(history[r.by]) \in Nat /\ Len(history'[r.by]) \in Nat
  BY DEF FilesGrow
<1>2. r.at \in 1 .. Len(history'[r.by])
  BY <1>1 DEF FilesGrow, Intended
<1>3. history'[r.by][r.at] = history[r.by][r.at]
  BY DEF FilesGrow, Intended
<1>4. r.at < audited'[r.by]
  BY <1>1 DEF FilesGrow, Intended
<1> QED BY <1>2, <1>3, <1>4 DEF Intended, IntendedNext

(* The copies of all workers stay what they are said to be.                *)
LEMMA WorkerAheadStep ==
    ASSUME AheadInv, [Next]_vars
    PROVE  WorkerAhead'
<1>0. /\ BaseInv /\ WorkerInv /\ TypeOK /\ WorkerAhead
      /\ WorkerInv' /\ TypeOK' /\ QueueTypeOK' /\ FilesGrow
  BY BaseStep, FilesStep DEF AheadInv, BaseInv, WorkerInv, TypeOK
<1>a. \A w \in Workers : seen[w] \in Nat /\ seen'[w] \in Nat
  BY <1>0 DEF TypeOK
<1>b. \A w \in Workers : pc[w] # "idle" => job[w] \in Actions
  BY <1>0 DEF WorkerInv
<1>c. "idle" \notin Intending /\ Armed \subseteq Intending
  BY DEF Intending, Armed
<1> DEFINE A(w) == pc'[w] # "idle" =>
            /\ seen'[w] <= Len(history'[job'[w]])
            /\ pc'[w] \in Intending =>
                  seen'[w] # 0 /\ history'[job'[w]][seen'[w]] \in WriteIntents
            /\ pc'[w] \in Armed => seen'[w] < audited'[job'[w]]
(* What holds of a copy goes on holding as long as the copy is kept.       *)
<1>1. ASSUME NEW w \in Workers, pc[w] # "idle", job'[w] = job[w], seen'[w] = seen[w]
      PROVE  /\ seen'[w] <= Len(history'[job'[w]])
             /\ pc[w] \in Intending =>
                   seen'[w] # 0 /\ history'[job'[w]][seen'[w]] \in WriteIntents
             /\ pc[w] \in Armed => seen'[w] < audited'[job'[w]]
  <2>1. /\ job[w] \in Actions /\ seen[w] \in Nat
        /\ Len(history[job[w]]) \in Nat /\ Len(history'[job[w]]) \in Nat
        /\ audited[job[w]] \in Nat /\ audited'[job[w]] \in Nat
        /\ Len(history[job[w]]) <= Len(history'[job[w]])
        /\ audited[job[w]] <= audited'[job[w]]
        /\ \A i \in 1 .. Len(history[job[w]]) : history'[job[w]][i] = history[job[w]][i]
    BY <1>0, <1>1, <1>a, <1>b DEF FilesGrow
  <2>2. seen[w] <= Len(history[job[w]])
    BY <1>0, <1>1 DEF WorkerAhead
  <2>3. seen[w] # 0 => history'[job[w]][seen[w]] = history[job[w]][seen[w]]
    BY <2>1, <2>2
  <2>4. pc[w] \in Intending => seen[w] # 0 /\ history[job[w]][seen[w]] \in WriteIntents
    BY <1>0, <1>1 DEF WorkerAhead
  <2>5. pc[w] \in Armed => seen[w] < audited[job[w]]
    BY <1>0, <1>1 DEF WorkerAhead
  <2> QED BY <1>1, <2>1, <2>2, <2>3, <2>4, <2>5
<1>2. ASSUME NEW w \in Workers, UNCHANGED <<pc, job, seen>>
      PROVE  A(w)
  BY <1>1, <1>2, <1>c
<1>3. ASSUME NEW w \in Workers, WorkerStep(w)
      PROVE  \A v \in Workers : A(v)
  <2>1. ASSUME NEW v \in Workers, v # w
        PROVE  A(v)
    <3>1. pc'[v] = pc[v] /\ job'[v] = job[v] /\ seen'[v] = seen[v]
      BY <1>0, <1>3, <2>1, OthersStay
    <3> QED BY <1>1, <2>1, <3>1
  <2>2. A(w)
    <3>1. CASE Restart(w)
      BY <3>1 DEF Restart
    <3>2. CASE Reload(w)
      <4>1. Len(history'[job'[w]]) \in Nat
        BY <1>0, <3>2 DEF Reload, FilesGrow
      <4> QED BY <1>c, <3>2, <4>1 DEF Reload
    <3>3. CASE Mark(w)
      <4>1. PICK to \in WriteIntents : history'[job'[w]] = Append(history[job'[w]], to)
        BY <3>3 DEF Mark
      <4>2. history[job'[w]] \in Seq(Statuses) /\ to \in Statuses
        BY <1>0, <3>3 DEF Mark, FilesGrow, WriteIntents, Statuses
      <4>3. /\ Len(history'[job'[w]]) = Len(history[job'[w]]) + 1
            /\ history'[job'[w]][Len(history[job'[w]]) + 1] = to
        BY <4>1, <4>2, AppendElements
      <4>4. Len(history[job'[w]]) \in Nat
        BY <4>2
      <4> QED BY <3>3, <4>3, <4>4 DEF Mark
    <3>4. CASE Move(w)
      BY <1>1, <1>c, <3>4 DEF Move
    <3>5. CASE Log(w)
      <4>1. pc[w] # "idle"
        BY <1>c, <3>5 DEF Log
      <4> QED BY <1>1, <3>5, <4>1 DEF Log
    <3>6. CASE Send(w)
      <4>1. pc[w] # "idle" /\ pc[w] \in Intending
        BY <1>c, <3>6 DEF Send
      <4> QED BY <1>1, <3>6, <4>1 DEF Send
    <3> HIDE DEF A
    <3> QED BY <1>0, <1>3, <3>1, <3>2, <3>3, <3>4, <3>5, <3>6, OwnStep
  <2> QED BY <2>1, <2>2
<1>4. ASSUME \/ \E r \in wire : Deliver(r) \/ Drop(r)
             \/ \E m \in Messages : UserEdit(m)
      PROVE  UNCHANGED <<pc, job, seen>>
  BY <1>4 DEF Deliver, Drop, UserEdit, workerVars
<1>5. UNCHANGED vars => UNCHANGED <<pc, job, seen>>
  BY DEF vars, workerVars
<1> HIDE DEF A
<1>6. \A w \in Workers : A(w)
  BY <1>2, <1>3, <1>4, <1>5 DEF Next
<1> QED BY <1>6 DEF A, WorkerAhead

-----------------------------------------------------------------------------
(* Requests and versions.                                                  *)

Sends(w, r) ==
    /\ pc[w] \in {"x_send", "r_send"} /\ pc'[w] \in {"x_wait", "r_wait"}
    /\ job'[w] = job[w] /\ seen'[w] = seen[w]
    /\ r.by = job[w] /\ r.at = seen[w]
    /\ wire' = wire \cup {r}
    /\ UNCHANGED <<box, history>>

(* A worker step sends one request, or leaves wire and mailbox alone.      *)
LEMMA TrafficStep ==
    ASSUME BaseInv, NEW w \in Workers, WorkerStep(w)
    PROVE  UNCHANGED <<box, wire>> \/ \E r : Sends(w, r)
<1>0. pc \in [Workers -> Steps]
  BY DEF BaseInv, WorkerInv, TypeOK
<1>1. CASE Start(w) \/ Audit(w) \/ LastAudit(w) \/ TornAudit(w) \/ Stop(w)
  BY <1>1 DEF Start, Stop, Propose, Decide, Preview, ExecuteClaim, ClaimDone,
              ReconcileLoad, RollbackClaim, RollbackReconcileLoad, writeVars,
              Audit, LastAudit, TornAudit
<1>2. CASE ExecuteSend(w)
  <2>1. Sends(w, ExecutionWrite(w))
    BY <1>0, <1>2 DEF ExecuteSend, ExecutionWrite, Sends, Goto, queueVars
  <2> QED BY <2>1
<1>3. CASE RollbackSend(w)
  <2>1. Sends(w, RestoringWrite(w))
    BY <1>0, <1>3 DEF RollbackSend, RestoringWrite, Sends, Goto, queueVars
  <2> QED BY <2>1
<1>4. CASE Execute(w) /\ ~ExecuteSend(w)
  BY <1>4 DEF Execute, ExecuteGet, ExecuteMark, ExecuteReply, ExecuteFinish, writeVars
<1>5. CASE Rollback(w) /\ ~RollbackSend(w)
  BY <1>5 DEF Rollback, RollbackGet, RollbackMark, RollbackNoChange,
              RollbackReply, RollbackFinish, writeVars
<1>6. CASE Reconcile(w) \/ RollbackReconcile(w)
  BY <1>6 DEF Reconcile, ReconcileGet, ReconcileResolve, RollbackReconcile,
              RollbackReconcileGet, RollbackReconcileResolve, writeVars
<1> QED BY <1>1, <1>2, <1>3, <1>4, <1>5, <1>6 DEF WorkerStep

(* What an append does to the versions of a message.                       *)
LEMMA VersionAppend ==
    ASSUME WorkerInv, NEW m \in Messages, NEW r \in Writes,
           box' = [box EXCEPT ![m] = Append(@, r)]
    PROVE  /\ Len(box[m]) \in Nat
           /\ Len(box'[m]) = Len(box[m]) + 1
           /\ \A i \in 1 .. Len(box[m]) : box'[m][i] = box[m][i]
           /\ box'[m][Len(box[m]) + 1] = r
           /\ \A n \in Messages : n # m => box'[n] = box[n]
<1>1. box \in [Messages -> Seq(Writes)]
  BY DEF WorkerInv, TypeOK
<1>2. box[m] \in Seq(Writes) /\ box'[m] = Append(box[m], r)
  BY <1>1
<1> QED BY <1>1, <1>2, AppendElements

LEMMA WriteAheadStep ==
    ASSUME AheadInv, [Next]_vars
    PROVE  WriteAhead'
<1>0. BaseInv /\ WorkerInv /\ TypeOK /\ FilesGrow /\ WriteAhead /\ WorkerInv'
  BY BaseStep, FilesStep DEF AheadInv, BaseInv, WorkerInv
<1>1. \A r \in wire : IntendedNext(r)
  BY <1>0, IntendedStays DEF WorkerInv, WriteAhead
<1>2. ASSUME NEW m \in Messages, NEW i \in 1 .. Len(box[m]), box[m][i].by # Person
      PROVE  IntendedNext(box[m][i])
  <2>1. box[m][i] \in Writes
    BY <1>0 DEF TypeOK
  <2>2. box[m][i].by \in Actions /\ Intended(box[m][i])
    BY <1>0, <1>2, <2>1 DEF WriteAhead, Writes
  <2> QED BY <1>0, <2>2, IntendedStays
<1>3. ASSUME UNCHANGED box, \A r \in wire' : IntendedNext(r)
      PROVE  WriteAhead'
  BY <1>2, <1>3 DEF WriteAhead, Intended, IntendedNext
<1>4. ASSUME NEW m \in Messages, NEW r \in Writes, wire' \subseteq wire,
             r.by # Person => IntendedNext(r),
             box' = [box EXCEPT ![m] = Append(@, r)]
      PROVE  WriteAhead'
  <2>1. ASSUME NEW n \in Messages, NEW i \in 1 .. Len(box'[n]), box'[n][i].by # Person
        PROVE  IntendedNext(box'[n][i])
    <3>1. CASE n # m \/ i # Len(box[m]) + 1
      <4>1. i \in 1 .. Len(box[n]) /\ box'[n][i] = box[n][i]
        BY <1>0, <1>4, <3>1, VersionAppend
      <4> QED BY <1>2, <2>1, <4>1 DEF IntendedNext
    <3>2. CASE n = m /\ i = Len(box[m]) + 1
      <4>1. box'[n][i] = r
        BY <1>0, <1>4, <3>2, VersionAppend
      <4> QED BY <1>4, <2>1, <4>1 DEF IntendedNext
    <3> QED BY <3>1, <3>2
  <2>2. \A r1 \in wire' : IntendedNext(r1)
    BY <1>1, <1>4
  <2> QED BY <2>1, <2>2 DEF WriteAhead, Intended, IntendedNext
<1>5. ASSUME NEW w \in Workers, WorkerStep(w)
      PROVE  WriteAhead'
  <2>1. CASE UNCHANGED <<box, wire>>
    BY <1>1, <1>3, <2>1
  <2>2. ASSUME NEW r, Sends(w, r)
        PROVE  WriteAhead'
    <3>1. /\ pc[w] # "idle" /\ job[w] \in Actions /\ seen[w] \in Nat
          /\ pc[w] \in Armed /\ pc[w] \in Intending
      BY <1>0, <2>2 DEF Sends, WorkerInv, TypeOK, Armed, Intending
    <3>2. Len(history[job[w]]) \in Nat
      BY <1>0, <3>1 DEF FilesGrow
    <3>3. Intended(r)
      BY <2>2, <3>1, <3>2 DEF Sends, AheadInv, WorkerAhead, Intended
    <3>4. IntendedNext(r)
      BY <1>0, <2>2, <3>1, <3>3, IntendedStays DEF Sends
    <3>5. wire' = wire \cup {r} /\ UNCHANGED box
      BY <2>2 DEF Sends
    <3> QED BY <1>1, <1>3, <3>4, <3>5
  <2> QED BY <1>0, <1>5, <2>1, <2>2, TrafficStep
<1>6. ASSUME NEW r \in wire, Deliver(r)
      PROVE  WriteAhead'
  <2>1. r \in Writes /\ MessageOf[r.by] \in Messages /\ IntendedNext(r)
    BY <1>0, <1>1, MessageOfAssumption DEF WorkerInv, TypeOK
  <2> QED BY <1>4, <1>6, <2>1 DEF Deliver
<1>7. ASSUME NEW r \in wire, Drop(r)
      PROVE  WriteAhead'
  BY <1>1, <1>3, <1>7 DEF Drop
<1>8. ASSUME NEW m \in Messages, UserEdit(m)
      PROVE  WriteAhead'
  <2>1. PICK c \in UserEdits : box' = [box EXCEPT ![m] = Append(@, ByPerson(c))]
    BY <1>8 DEF UserEdit
  <2>2. ByPerson(c) \in Writes /\ ByPerson(c).by = Person
    BY UserEditsAssumption DEF ByPerson, Writes
  <2> QED BY <1>4, <1>8, <2>1, <2>2 DEF UserEdit
<1>9. CASE UNCHANGED vars
  BY <1>1, <1>3, <1>9 DEF vars, writeVars
<1> QED BY <1>5, <1>6, <1>7, <1>8, <1>9 DEF Next

LEMMA AuditBehindStep ==
    ASSUME AheadInv, [Next]_vars
    PROVE  AuditBehindQueue'
<1>0. BaseInv /\ WorkerInv /\ FilesGrow /\ QueuedKept
  BY BaseStep, FilesStep DEF AheadInv, BaseInv
<1> SUFFICES ASSUME NEW a \in Actions
             PROVE  audited'[a] <= IF snapshot'[a] # NoSnapshot
                                     THEN Len(history'[a]) + 1 ELSE 0
  BY DEF AuditBehindQueue, Queued
<1>1. /\ audited[a] \in Nat /\ audited'[a] \in Nat
      /\ Len(history[a]) \in Nat /\ Len(history'[a]) \in Nat
      /\ Len(history[a]) <= Len(history'[a])
      /\ snapshot[a] # NoSnapshot => snapshot'[a] # NoSnapshot
  BY <1>0 DEF FilesGrow, QueuedKept
<1>2. audited[a] <= IF snapshot[a] # NoSnapshot THEN Len(history[a]) + 1 ELSE 0
  BY DEF AheadInv, AuditBehindQueue, Queued
<1>3. CASE audited'[a] = audited[a]
  BY <1>1, <1>2, <1>3
<1>4. CASE audited'[a] # audited[a]
  <2>1. PICK w \in Workers : /\ pc[w] # "idle" /\ job[w] = a
                             /\ audited'[a] <= seen[w] + 1
    BY <1>0, <1>4, AuditStep
  <2>2. seen[w] \in Nat /\ seen[w] <= Len(history[a]) /\ snapshot[a] # NoSnapshot
    BY <2>1 DEF AheadInv, BaseInv, WorkerAhead, WorkerInv, TypeOK
  <2> QED BY <1>1, <2>1, <2>2
<1> QED BY <1>3, <1>4

LEMMA AheadInit ==
    ASSUME Init
    PROVE  AheadInv
<1>1. BaseInv
  BY BaseInit
<1>2. WorkerAhead
  BY DEF Init, WorkerAhead
<1>3. AuditBehindQueue
  <2>1. ASSUME NEW a \in Actions
        PROVE  audited[a] <= IF Queued(a) THEN Len(history[a]) + 1 ELSE 0
    <3>1. audited[a] = 0 /\ ~Queued(a)
      BY DEF Init, QueueInit, Queued
    <3>2. 0 <= 0
      OBVIOUS
    <3> QED BY <3>1, <3>2, Zenon
  <2> QED BY <2>1 DEF AuditBehindQueue
<1>4. WriteAhead
  BY DEF Init, WriteAhead, ByPerson
<1> QED BY <1>1, <1>2, <1>3, <1>4 DEF AheadInv

(* A worker about to send a PATCH has its intent in the queue and the log.  *)
THEOREM AheadInvariant == Spec => []AheadInv
<1>1. Init => AheadInv
  BY AheadInit
<1>2. AheadInv /\ [Next]_vars => AheadInv'
  BY BaseStep, WorkerAheadStep, AuditBehindStep, WriteAheadStep DEF AheadInv
<1> QED BY <1>1, <1>2, PTL DEF Spec

(* Every PATCH on the wire or in the mailbox has an intent that was saved  *)
(* and logged before it was sent.                                          *)
THEOREM WriteAheadInvariant == Spec => []WriteAhead
<1>1. AheadInv => WriteAhead
  BY DEF AheadInv
<1> QED BY <1>1, AheadInvariant, PTL

(* The audit log is never ahead of the queue.                              *)
THEOREM AuditBehindInvariant == Spec => []AuditBehindQueue
<1>1. AheadInv => AuditBehindQueue
  BY DEF AheadInv
<1> QED BY <1>1, AheadInvariant, PTL

-----------------------------------------------------------------------------
(***************************************************************************)
(* Proofs that one intent sends at most one PATCH, and that Writeback      *)
(* implements ControlledWrite.                                             *)
(***************************************************************************)

(* Steps of a worker whose intent has not been sent yet.                   *)
Unsent == Intending \ {"x_wait", "r_wait"}

Unused(b, k) ==
    /\ \A r \in wire : ~(r.by = b /\ r.at = k)
    /\ \A m \in Messages : \A i \in 1 .. Len(box[m]) :
            ~(box[m][i].by = b /\ box[m][i].at = k)

(* No two workers hold the same intent, and one not yet sent is unused.    *)
IntentsAreOwn ==
    /\ \A w, v \in Workers :
          /\ pc[w] \in Intending /\ pc[v] \in Intending
          /\ job[w] = job[v] /\ seen[w] = seen[v]
          => w = v
    /\ \A w \in Workers : pc[w] \in Unsent => Unused(job[w], seen[w])

OnceInv == AheadInv /\ IntentsAreOwn /\ AtMostOnce

-----------------------------------------------------------------------------
(* A worker step keeps intents apart.                                      *)
LEMMA OwnIntentStep ==
    ASSUME OnceInv, NEW w \in Workers, WorkerStep(w), [Next]_vars
    PROVE  \A u, v \in Workers :
              /\ pc'[u] \in Intending /\ pc'[v] \in Intending
              /\ job'[u] = job'[v] /\ seen'[u] = seen'[v]
              => u = v
<1>0. /\ BaseInv /\ WorkerInv /\ WorkerAhead /\ IntentsAreOwn
      /\ QueueTypeOK' /\ FilesGrow /\ "idle" \notin Intending /\ Armed \subseteq Intending
  BY BaseStep, FilesStep
     DEF OnceInv, AheadInv, BaseInv, WorkerInv, TypeOK, Intending, Armed
<1>1. ASSUME NEW v \in Workers, v # w
      PROVE  pc'[v] = pc[v] /\ job'[v] = job[v] /\ seen'[v] = seen[v]
  BY <1>0, <1>1, OthersStay
<1>2. ASSUME NEW v \in Workers, v # w, pc'[w] \in Intending, pc[v] \in Intending,
             job'[w] = job[v], seen'[w] = seen[v]
      PROVE  FALSE
  <2>1. CASE Restart(w) \/ Reload(w) \/ Move(w)
    BY <1>0, <1>2, <2>1 DEF Restart, Reload, Move
  <2>2. CASE Mark(w)
    <3>1. PICK to \in WriteIntents : history'[job'[w]] = Append(history[job'[w]], to)
      BY <2>2 DEF Mark
    <3>2. /\ job'[w] \in Actions /\ history[job'[w]] \in Seq(Statuses)
          /\ to \in Statuses
      BY <1>0, <2>2 DEF Mark, FilesGrow, WriteIntents, Statuses
    <3>3. seen'[w] = Len(history[job'[w]]) + 1 /\ Len(history[job'[w]]) \in Nat
      BY <2>2, <3>1, <3>2, AppendElements DEF Mark
    <3>4. seen[v] <= Len(history[job[v]])
      BY <1>0, <1>2 DEF WorkerAhead
    <3> QED BY <1>2, <3>3, <3>4
  <2>3. CASE Log(w) \/ Send(w)
    <3>1. pc[w] \in Intending /\ job'[w] = job[w] /\ seen'[w] = seen[w]
      BY <1>0, <2>3 DEF Log, Send
    <3> QED BY <1>0, <1>2, <3>1 DEF IntentsAreOwn
  <2> QED BY <1>0, <2>1, <2>2, <2>3, OwnStep
<1> SUFFICES ASSUME NEW u \in Workers, NEW v \in Workers,
                    pc'[u] \in Intending, pc'[v] \in Intending,
                    job'[u] = job'[v], seen'[u] = seen'[v]
             PROVE  u = v
  OBVIOUS
<1>3. CASE u = w /\ v # w
  BY <1>1, <1>2, <1>3
<1>4. CASE u # w /\ v = w
  BY <1>1, <1>2, <1>4
<1>5. CASE u # w /\ v # w
  BY <1>0, <1>1, <1>5 DEF IntentsAreOwn
<1> QED BY <1>3, <1>4, <1>5

(* Unused, of given values, in the next state.                             *)
UnusedNext(b, k) ==
    /\ \A r \in wire' : ~(r.by = b /\ r.at = k)
    /\ \A m \in Messages : \A i \in 1 .. Len(box'[m]) :
            ~(box'[m][i].by = b /\ box'[m][i].at = k)

(* An intent that is in no history yet has not been used.                  *)
LEMMA FreshUnused ==
    ASSUME AheadInv, NEW b \in Actions, NEW k \in Nat, k > Len(history[b])
    PROVE  Unused(b, k)
<1>1. WriteAhead /\ b # Person /\ Len(history[b]) \in Nat
  BY AuthorAssumption DEF AheadInv, BaseInv, WorkerInv, TypeOK, QueueTypeOK
<1>2. ASSUME NEW r, Intended(r), r.by = b, r.at = k
      PROVE  FALSE
  BY <1>1, <1>2 DEF Intended
<1>3. \A r \in wire : ~(r.by = b /\ r.at = k)
  BY <1>1, <1>2 DEF WriteAhead
<1>4. \A m \in Messages : \A i \in 1 .. Len(box[m]) :
            ~(box[m][i].by = b /\ box[m][i].at = k)
  BY <1>1, <1>2 DEF WriteAhead
<1> QED BY <1>3, <1>4 DEF Unused

LEMMA UnsentStep ==
    ASSUME OnceInv, NEW w \in Workers, WorkerStep(w), [Next]_vars
    PROVE  \A v \in Workers : pc'[v] \in Unsent => UnusedNext(job'[v], seen'[v])
<1>0. /\ BaseInv /\ AheadInv /\ WorkerInv /\ IntentsAreOwn
      /\ QueueTypeOK' /\ FilesGrow /\ "idle" \notin Intending
      /\ Unsent \subseteq Intending /\ Intending \ Armed \subseteq Unsent
  BY BaseStep, FilesStep
     DEF OnceInv, AheadInv, BaseInv, WorkerInv, TypeOK, Intending, Armed, Unsent
<1>1. ASSUME NEW v \in Workers, pc'[v] \in Unsent
      PROVE  Unused(job'[v], seen'[v])
  <2>1. CASE v # w
    <3>1. pc'[v] = pc[v] /\ job'[v] = job[v] /\ seen'[v] = seen[v]
      BY <1>0, <2>1, OthersStay
    <3> QED BY <1>0, <1>1, <3>1 DEF IntentsAreOwn
  <2>2. CASE v = w /\ Mark(w)
    <3>1. PICK to \in WriteIntents : history'[job'[w]] = Append(history[job'[w]], to)
      BY <2>2 DEF Mark
    <3>2. /\ job'[w] \in Actions /\ history[job'[w]] \in Seq(Statuses)
          /\ to \in Statuses
      BY <1>0, <2>2 DEF Mark, FilesGrow, WriteIntents, Statuses
    <3>3. /\ seen'[w] = Len(history[job'[w]]) + 1 /\ Len(history[job'[w]]) \in Nat
      BY <2>2, <3>1, <3>2, AppendElements DEF Mark
    <3>4. seen'[w] \in Nat /\ seen'[w] > Len(history[job'[w]])
      BY <3>3
    <3> QED BY <1>0, <2>2, <3>2, <3>4, FreshUnused
  <2>3. CASE v = w /\ Log(w)
    BY <1>0, <2>3 DEF Log, IntentsAreOwn
  <2>4. CASE v = w /\ (Restart(w) \/ Reload(w) \/ Move(w) \/ Send(w))
    BY <1>0, <1>1, <2>4 DEF Restart, Reload, Move, Send, Unsent
  <2> QED BY <1>0, <2>1, <2>2, <2>3, <2>4, OwnStep
<1>2. CASE UNCHANGED <<box, wire>>
  BY <1>1, <1>2 DEF Unused, UnusedNext
<1>3. ASSUME NEW r, Sends(w, r)
      PROVE  \A v \in Workers : pc'[v] \in Unsent => UnusedNext(job'[v], seen'[v])
  <2> SUFFICES ASSUME NEW v \in Workers, pc'[v] \in Unsent
               PROVE  UnusedNext(job'[v], seen'[v])
    OBVIOUS
  <2>1. /\ pc[w] \in Intending /\ r.by = job[w] /\ r.at = seen[w]
        /\ pc'[w] \notin Unsent /\ wire' = wire \cup {r} /\ UNCHANGED box
    BY <1>3 DEF Sends, Intending, Armed, Unsent
  <2>2. v # w
    BY <2>1
  <2>3. pc'[v] = pc[v] /\ job'[v] = job[v] /\ seen'[v] = seen[v]
    BY <1>0, <2>2, OthersStay
  <2>4. ~(r.by = job'[v] /\ r.at = seen'[v])
    BY <1>0, <2>1, <2>2, <2>3 DEF IntentsAreOwn
  <2>5. Unused(job'[v], seen'[v])
    BY <1>1
  <2> QED BY <2>1, <2>4, <2>5 DEF Unused, UnusedNext
<1> QED BY <1>0, <1>2, <1>3, TrafficStep

(* A worker step sends nothing twice.                                      *)
LEMMA WorkerOnceStep ==
    ASSUME OnceInv, NEW w \in Workers, WorkerStep(w)
    PROVE  AtMostOnce'
<1>0. BaseInv /\ WorkerInv /\ IntentsAreOwn /\ AtMostOnce
  BY DEF OnceInv, AheadInv, BaseInv
<1>1. CASE UNCHANGED <<box, wire>>
  BY <1>0, <1>1 DEF AtMostOnce, Same
<1>2. ASSUME NEW r, Sends(w, r)
      PROVE  AtMostOnce'
  <2>1. /\ pc[w] \in Unsent /\ r.by = job[w] /\ r.at = seen[w]
        /\ wire' = wire \cup {r} /\ UNCHANGED box
    BY <1>2 DEF Sends, Unsent, Intending, Armed
  <2>2. Unused(r.by, r.at)
    BY <1>0, <2>1 DEF IntentsAreOwn
  <2>3. \A s \in wire : ~Same(r, s) /\ ~Same(s, r)
    BY <2>2 DEF Unused, Same
  <2>4. \A m \in Messages : \A i \in 1 .. Len(box[m]) : ~Same(r, box[m][i])
    BY <2>2 DEF Unused, Same
  <2> QED BY <1>0, <2>1, <2>3, <2>4 DEF AtMostOnce, Same
<1> QED BY <1>0, <1>1, <1>2, TrafficStep

(* Nor does Graph, nor the person.                                         *)
LEMMA MailboxOnceStep ==
    ASSUME OnceInv, UNCHANGED <<queueVars, workerVars>>,
           NEW m \in Messages, NEW r \in Writes,
           wire' \subseteq wire, r.by # Person => r \in wire /\ r \notin wire',
           box' = [box EXCEPT ![m] = Append(@, r)]
    PROVE  AtMostOnce' /\ IntentsAreOwn'
<1>0. /\ WorkerInv /\ IntentsAreOwn /\ AtMostOnce /\ wire' \subseteq wire
      /\ box \in [Messages -> Seq(Writes)]
  BY DEF OnceInv, AheadInv, BaseInv, WorkerInv, TypeOK
<1>1. /\ Len(box[m]) \in Nat
      /\ Len(box'[m]) = Len(box[m]) + 1
      /\ \A i \in 1 .. Len(box[m]) : box'[m][i] = box[m][i]
      /\ box'[m][Len(box[m]) + 1] = r
      /\ \A n \in Messages : n # m => box'[n] = box[n]
  BY <1>0, VersionAppend
<1>2. ASSUME NEW n \in Messages, NEW i \in 1 .. Len(box'[n])
      PROVE  \/ i \in 1 .. Len(box[n]) /\ box'[n][i] = box[n][i]
             \/ n = m /\ i = Len(box[m]) + 1 /\ box'[n][i] = r
  BY <1>1
<1>3. r.by # Person => \A s \in wire' : ~Same(s, r)
  BY <1>0 DEF AtMostOnce
<1>4. r.by # Person => \A n \in Messages : \A i \in 1 .. Len(box[n]) :
            ~Same(r, box[n][i]) /\ ~Same(box[n][i], r)
  <2> SUFFICES ASSUME r.by # Person, NEW n \in Messages, NEW i \in 1 .. Len(box[n])
               PROVE  ~Same(r, box[n][i])
    BY DEF Same
  <2>1. CASE box[n][i].by = Person
    BY <2>1 DEF Same
  <2>2. CASE box[n][i].by # Person
    BY <1>0, <2>2 DEF AtMostOnce
  <2> QED BY <2>1, <2>2
<1>5. ASSUME NEW n \in Messages, NEW i \in 1 .. Len(box'[n]), box'[n][i].by # Person
      PROVE  /\ \A s \in wire' : ~Same(s, box'[n][i])
             /\ \A j \in 1 .. Len(box'[n]) : Same(box'[n][i], box'[n][j]) => i = j
  <2>1. CASE i \in 1 .. Len(box[n]) /\ box'[n][i] = box[n][i]
    <3>1. box[n][i].by # Person
      BY <1>5, <2>1
    <3>2. \A s \in wire' : ~Same(s, box'[n][i])
      BY <1>0, <2>1, <3>1 DEF AtMostOnce
    <3>3. ASSUME NEW j \in 1 .. Len(box'[n]), Same(box'[n][i], box'[n][j])
          PROVE  i = j
      <4>1. CASE j \in 1 .. Len(box[n]) /\ box'[n][j] = box[n][j]
        BY <1>0, <2>1, <3>1, <3>3, <4>1 DEF AtMostOnce
      <4>2. CASE box'[n][j] = r
        <5>1. r.by # Person
          BY <2>1, <3>1, <3>3, <4>2 DEF Same
        <5> QED BY <1>4, <2>1, <3>3, <4>2, <5>1
      <4> QED BY <1>2, <4>1, <4>2
    <3> QED BY <3>2, <3>3
  <2>2. CASE n = m /\ i = Len(box[m]) + 1 /\ box'[n][i] = r
    <3>1. ASSUME NEW j \in 1 .. Len(box'[n]), Same(box'[n][i], box'[n][j])
          PROVE  i = j
      <4>1. CASE j \in 1 .. Len(box[n]) /\ box'[n][j] = box[n][j]
        BY <1>4, <1>5, <2>2, <3>1, <4>1
      <4>2. CASE n = m /\ j = Len(box[m]) + 1
        BY <2>2, <4>2
      <4> QED BY <1>2, <4>1, <4>2
    <3> QED BY <1>3, <1>5, <2>2, <3>1
  <2> QED BY <1>2, <2>1, <2>2
<1>6. AtMostOnce'
  BY <1>0, <1>5 DEF AtMostOnce, Same
<1>7. ASSUME NEW w \in Workers, pc[w] \in Unsent
      PROVE  UnusedNext(job[w], seen[w])
  <2>1. Unused(job[w], seen[w]) /\ job[w] \in Actions /\ job[w] # Person
    BY <1>0, <1>7, AuthorAssumption
       DEF IntentsAreOwn, WorkerInv, Unsent, Intending, Armed
  <2>2. ~(r.by = job[w] /\ r.at = seen[w])
    BY <2>1 DEF Unused
  <2>3. ASSUME NEW n \in Messages, NEW i \in 1 .. Len(box'[n])
        PROVE  ~(box'[n][i].by = job[w] /\ box'[n][i].at = seen[w])
    <3>1. CASE i \in 1 .. Len(box[n]) /\ box'[n][i] = box[n][i]
      BY <2>1, <3>1 DEF Unused
    <3>2. CASE box'[n][i] = r
      BY <2>2, <3>2
    <3> QED BY <1>2, <3>1, <3>2
  <2> QED BY <1>0, <2>1, <2>3 DEF Unused, UnusedNext
<1>8. IntentsAreOwn'
  BY <1>0, <1>7 DEF IntentsAreOwn, Unused, UnusedNext, workerVars
<1> QED BY <1>6, <1>8

LEMMA OnceStep ==
    ASSUME OnceInv, [Next]_vars
    PROVE  AtMostOnce' /\ IntentsAreOwn'
<1>0. WorkerInv /\ IntentsAreOwn /\ AtMostOnce
  BY DEF OnceInv, AheadInv, BaseInv
<1>1. ASSUME NEW w \in Workers, WorkerStep(w)
      PROVE  AtMostOnce' /\ IntentsAreOwn'
  <2>1. AtMostOnce'
    BY <1>1, WorkerOnceStep
  <2>2. \A u, v \in Workers :
              /\ pc'[u] \in Intending /\ pc'[v] \in Intending
              /\ job'[u] = job'[v] /\ seen'[u] = seen'[v]
              => u = v
    BY <1>1, OwnIntentStep
  <2>3. \A v \in Workers : pc'[v] \in Unsent => UnusedNext(job'[v], seen'[v])
    BY <1>1, UnsentStep
  <2> QED BY <2>1, <2>2, <2>3 DEF IntentsAreOwn, Unused, UnusedNext
<1>2. ASSUME NEW r \in wire, Deliver(r)
      PROVE  AtMostOnce' /\ IntentsAreOwn'
  <2>1. r \in Writes /\ MessageOf[r.by] \in Messages
    BY <1>0, MessageOfAssumption DEF WorkerInv, TypeOK
  <2>2. PICK m \in Messages : m = MessageOf[r.by]
    BY <2>1
  <2>3. /\ wire' \subseteq wire /\ r \in wire /\ r \notin wire'
        /\ box' = [box EXCEPT ![m] = Append(@, r)]
        /\ UNCHANGED <<queueVars, workerVars>>
    BY <1>2, <2>2 DEF Deliver
  <2> QED BY <2>1, <2>3, MailboxOnceStep
<1>3. ASSUME NEW r \in wire, Drop(r)
      PROVE  AtMostOnce' /\ IntentsAreOwn'
  <2>1. wire' \subseteq wire /\ UNCHANGED <<box, pc, job, seen>>
    BY <1>3 DEF Drop, workerVars
  <2>2. AtMostOnce'
    BY <1>0, <2>1 DEF AtMostOnce, Same
  <2>3. IntentsAreOwn'
    BY <1>0, <2>1 DEF IntentsAreOwn, Unused
  <2> QED BY <2>2, <2>3
<1>4. ASSUME NEW m \in Messages, UserEdit(m)
      PROVE  AtMostOnce' /\ IntentsAreOwn'
  <2>1. PICK c \in UserEdits : box' = [box EXCEPT ![m] = Append(@, ByPerson(c))]
    BY <1>4 DEF UserEdit
  <2>2. ByPerson(c) \in Writes /\ ByPerson(c).by = Person
    BY UserEditsAssumption DEF ByPerson, Writes
  <2>3. wire' \subseteq wire /\ UNCHANGED <<queueVars, workerVars>>
    BY <1>4 DEF UserEdit
  <2> QED BY <2>1, <2>2, <2>3, MailboxOnceStep
<1>5. CASE UNCHANGED vars
  <2>1. UNCHANGED <<box, wire, pc, job, seen>>
    BY <1>5 DEF vars, writeVars, workerVars
  <2>2. AtMostOnce'
    BY <1>0, <2>1 DEF AtMostOnce, Same
  <2>3. IntentsAreOwn'
    BY <1>0, <2>1 DEF IntentsAreOwn, Unused
  <2> QED BY <2>2, <2>3
<1> QED BY <1>1, <1>2, <1>3, <1>4, <1>5 DEF Next

(* The intent that a worker is about to send is nobody else's, and unused.  *)
THEOREM OnceInvariant == Spec => []OnceInv
<1>1. Init => OnceInv
  <2> SUFFICES ASSUME Init
               PROVE  OnceInv
    OBVIOUS
  <2>1. AtMostOnce
    BY DEF Init, AtMostOnce, ByPerson
  <2>2. IntentsAreOwn
    BY DEF Init, IntentsAreOwn, Unsent, Intending, Armed
  <2> QED BY <2>1, <2>2, AheadInit DEF OnceInv
<1>2. OnceInv /\ [Next]_vars => OnceInv'
  <2> SUFFICES ASSUME OnceInv, [Next]_vars
               PROVE  OnceInv'
    OBVIOUS
  <2>1. AheadInv'
    BY BaseStep, WorkerAheadStep, AuditBehindStep, WriteAheadStep DEF OnceInv, AheadInv
  <2> QED BY <2>1, OnceStep DEF OnceInv
<1> QED BY <1>1, <1>2, PTL DEF Spec

(* No intent reaches the mailbox twice, whatever is retried or crashes.    *)
THEOREM AtMostOnceInvariant == Spec => []AtMostOnce
<1>1. OnceInv => AtMostOnce
  BY DEF OnceInv
<1> QED BY <1>1, OnceInvariant, PTL

-----------------------------------------------------------------------------
(* Writeback implements ControlledWrite.                                   *)

(* A history that holds a write intent starts with the approval.           *)
LEMMA IntentNeedsApproval ==
    ASSUME QueueTypeOK, HistoryIsPath, NEW a \in Actions,
           NEW i \in 1 .. Len(history[a]), history[a][i] \in WriteIntents
    PROVE  a \in Approved
<1>1. history[a] \in Seq(Statuses) /\ Len(history[a]) \in Nat
  BY DEF QueueTypeOK
<1>2. 1 \in 1 .. Len(history[a])
  BY <1>1
<1>3. CanTransition("pending_review", history[a][1])
  BY <1>2 DEF HistoryIsPath
<1>4. history[a][1] \in {"approved", "rejected"}
  BY <1>3 DEF CanTransition, AllowedTransitions
<1>5. i # 1
  BY <1>4 DEF WriteIntents
<1>6. 2 \in 1 .. Len(history[a])
  BY <1>1, <1>5
<1>7. CanTransition(history[a][1], history[a][2])
  BY <1>6 DEF HistoryIsPath
<1>8. history[a][1] # "rejected"
  BY <1>7 DEF CanTransition, AllowedTransitions
<1> QED BY <1>2, <1>4, <1>8 DEF Approved

(* Membership in the refinement mapping, spelled out.                      *)
LEMMA LoggedMembers ==
    ASSUME NEW x
    PROVE  x \in LoggedIntents <=>
              \E a \in Actions : \E i \in 1 .. Len(history[a]) :
                  /\ x = <<a, i>>
                  /\ history[a][i] \in WriteIntents
                  /\ i < audited[a]
BY DEF LoggedIntents

(* What the mapped variables do when neither mailbox nor log changes.      *)
LEMMA QueueStepMaps ==
    ASSUME OnceInv, [QueueNext]_queueVars, UNCHANGED <<box, audited>>
    PROVE  /\ LoggedIntents' = LoggedIntents
           /\ Authors' = Authors
           /\ Approved' = Approved \/ \E a \in Actions : Approved' = Approved \cup {a}
<1>0. /\ QueueTypeOK /\ AbsentIsBlank /\ RollbackContract /\ AuditBehindQueue
  BY DEF OnceInv, AheadInv, BaseInv, WorkerInv, TypeOK
<1>1. Authors' = Authors
  BY DEF Authors
<1>2. CASE UNCHANGED history
  <2>1. LoggedIntents' = LoggedIntents /\ Approved' = Approved
    BY <1>2 DEF LoggedIntents, Approved
  <2> QED BY <1>1, <2>1
<1>3. CASE ~UNCHANGED history
  <2>1. PICK a \in Actions :
          \/ EnqueueKind(a)
          \/ \E to \in Statuses : PlainKind(a, to)
          \/ ClaimStaleExecution(a)
          \/ \E to \in Statuses, rb \in RollbackSnapshots : PrepareKind(a, to, rb)
    BY <1>0, <1>3, QueueStepKinds DEF queueVars
  <2>2. \/ \E to \in Statuses : history'[a] = Append(history[a], to)
        \/ history'[a] = Append(Append(history[a], "failed"), "executing")
    BY <1>0, <1>3, <2>1, TransitionStep, StaleStep DEF EnqueueKind, PlainKind, PrepareKind
  <2>3. \A b \in Actions : b # a => history'[b] = history[b]
    BY <1>0, <1>3, <2>1, TransitionStep, StaleStep DEF EnqueueKind, PlainKind, PrepareKind
  <2>4. Grows(history[a], history'[a]) /\ history[a] \in Seq(Statuses)
    BY <1>0, QueueStep DEF QueueTypeOK
  <2>5. /\ history'[a] \in Seq(Statuses)
        /\ Len(history[a]) \in Nat /\ Len(history'[a]) \in Nat
        /\ Len(history[a]) <= Len(history'[a])
        /\ \A i \in 1 .. Len(history[a]) : history'[a][i] = history[a][i]
    BY <2>4, GrowsKeeps
  <2>6. audited[a] <= Len(history[a]) + 1 /\ audited[a] \in Nat
    BY <1>0, <2>5 DEF AuditBehindQueue, OnceInv, AheadInv, BaseInv, WorkerInv, TypeOK
  <2>7. \A b \in Actions : \A i \in Nat :
           (i \in 1 .. Len(history'[b]) /\ history'[b][i] \in WriteIntents /\ i < audited[b])
           <=> (i \in 1 .. Len(history[b]) /\ history[b][i] \in WriteIntents /\ i < audited[b])
    <3> SUFFICES ASSUME NEW b \in Actions, NEW i \in Nat
                 PROVE  (i \in 1 .. Len(history'[b]) /\ history'[b][i] \in WriteIntents
                           /\ i < audited[b])
                        <=> (i \in 1 .. Len(history[b]) /\ history[b][i] \in WriteIntents
                               /\ i < audited[b])
      OBVIOUS
    <3>1. CASE b # a
      BY <2>3, <3>1
    <3>2. CASE b = a
      BY <2>5, <2>6, <3>2
    <3> QED BY <3>1, <3>2
  <2>8. LoggedIntents' = LoggedIntents
    <3>1. \A b \in Actions : Len(history[b]) \in Nat /\ Len(history'[b]) \in Nat
      BY <1>0, <2>3, <2>5 DEF QueueTypeOK
    <3>2. \A b \in Actions :
              { j \in 1 .. Len(history'[b]) :
                    history'[b][j] \in WriteIntents /\ j < audited[b] }
            = { j \in 1 .. Len(history[b]) :
                    history[b][j] \in WriteIntents /\ j < audited[b] }
      BY <2>7, <3>1
    <3> QED BY <3>2 DEF LoggedIntents
  <2>9. Approved' = Approved \/ Approved' = Approved \cup {a}
    <3>1. \A b \in Actions \ {a} : b \in Approved' <=> b \in Approved
      BY <2>3 DEF Approved
    <3>2. a \in Approved => a \in Approved'
      BY <2>5 DEF Approved
    <3>3. Approved' \subseteq Actions /\ Approved \subseteq Actions
      BY DEF Approved
    <3> QED BY <3>1, <3>2, <3>3
  <2> QED BY <1>1, <2>8, <2>9
<1> QED BY <1>2, <1>3

(* An append to the log only adds intents of the worker's own action, and  *)
(* that action was approved.                                               *)
LEMMA AuditStepMaps ==
    ASSUME OnceInv, HistoryIsPath, NEW a \in Actions, UNCHANGED <<box, history>>,
           audited' \in [Actions -> Nat], audited[a] <= audited'[a],
           \A b \in Actions : b # a => audited'[b] = audited[b]
    PROVE  /\ Authors' = Authors /\ Approved' = Approved
           /\ \/ LoggedIntents' = LoggedIntents
              \/ /\ a \in Approved
                 /\ LoggedIntents \subseteq LoggedIntents'
                 /\ \A x \in LoggedIntents' \ LoggedIntents : x[1] = a
<1>0. QueueTypeOK /\ audited \in [Actions -> Nat]
  BY DEF OnceInv, AheadInv, BaseInv, WorkerInv, TypeOK
<1>1. Authors' = Authors /\ Approved' = Approved
  BY DEF Authors, Approved
<1> DEFINE Of(b) == { j \in 1 .. Len(history[b]) :
                         history[b][j] \in WriteIntents /\ j < audited[b] }
           New(b) == { j \in 1 .. Len(history[b]) :
                         history[b][j] \in WriteIntents /\ j < audited'[b] }
<1>2. LoggedIntents = UNION { { <<b, i>> : i \in Of(b) } : b \in Actions }
  BY DEF LoggedIntents
<1>3. LoggedIntents' = UNION { { <<b, i>> : i \in New(b) } : b \in Actions }
  BY DEF LoggedIntents
<1>4. \A b \in Actions : b # a => New(b) = Of(b)
  OBVIOUS
<1>5. Of(a) \subseteq New(a)
  <2>1. Len(history[a]) \in Nat /\ audited[a] \in Nat /\ audited'[a] \in Nat
    BY <1>0 DEF QueueTypeOK
  <2> QED BY <2>1
<1>6. New(a) # {} => a \in Approved
  <2>1. \A i \in New(a) : i \in 1 .. Len(history[a]) /\ history[a][i] \in WriteIntents
    OBVIOUS
  <2> QED BY <1>0, <2>1, IntentNeedsApproval
<1> HIDE DEF Of, New
<1>7. CASE New(a) = {}
  <2>1. \A b \in Actions : New(b) = Of(b)
    BY <1>4, <1>5, <1>7
  <2>2. LoggedIntents' = LoggedIntents
    BY <1>2, <1>3, <2>1
  <2> QED BY <1>1, <2>2
<1>8. CASE New(a) # {}
  <2>1. \A b \in Actions : Of(b) \subseteq New(b)
    BY <1>4, <1>5
  <2>2. LoggedIntents \subseteq LoggedIntents'
    BY <1>2, <1>3, <2>1
  <2>3. ASSUME NEW x \in LoggedIntents', x \notin LoggedIntents
        PROVE  x[1] = a
    <3>1. PICK b \in Actions : \E i \in New(b) : x = <<b, i>>
      BY <1>3, <2>3
    <3>2. CASE b # a
      BY <1>2, <1>4, <2>3, <3>1, <3>2
    <3> QED BY <3>1, <3>2
  <2> QED BY <1>1, <1>6, <1>8, <2>2, <2>3
<1> QED BY <1>7, <1>8

(* A new version of a message, mapped.                                     *)
LEMMA VersionMaps ==
    ASSUME OnceInv, UNCHANGED <<queueVars, audited>>,
           NEW m \in Messages, NEW r \in Writes,
           box' = [box EXCEPT ![m] = Append(@, r)]
    PROVE  /\ Authors' = [Authors EXCEPT ![m] = Append(@, <<r.by, r.at>>)]
           /\ LoggedIntents' = LoggedIntents
           /\ Approved' = Approved
<1>0. WorkerInv
  BY DEF OnceInv, AheadInv, BaseInv
<1>1. LoggedIntents' = LoggedIntents /\ Approved' = Approved
  BY DEF LoggedIntents, Approved, queueVars
<1>2. /\ Len(box[m]) \in Nat
      /\ Len(box'[m]) = Len(box[m]) + 1
      /\ \A i \in 1 .. Len(box[m]) : box'[m][i] = box[m][i]
      /\ box'[m][Len(box[m]) + 1] = r
      /\ \A n \in Messages : n # m => box'[n] = box[n]
  BY <1>0, VersionAppend
<1> DEFINE Old == [i \in 1 .. Len(box[m]) |-> <<box[m][i].by, box[m][i].at>>]
           New == [i \in 1 .. Len(box'[m]) |-> <<box'[m][i].by, box'[m][i].at>>]
<1>3. New = Append(Old, <<r.by, r.at>>)
  <2>1. Old \in Seq({ <<box[m][i].by, box[m][i].at>> : i \in 1 .. Len(box[m]) })
    BY <1>2
  <2>2. Len(Old) = Len(box[m])
    BY <1>2
  <2>3. Append(Old, <<r.by, r.at>>) =
          [i \in 1 .. Len(box[m]) + 1 |->
              IF i = Len(box[m]) + 1 THEN <<r.by, r.at>> ELSE Old[i]]
    BY <1>2, <2>1, <2>2
  <2>4. \A i \in 1 .. Len(box[m]) + 1 :
          <<box'[m][i].by, box'[m][i].at>>
            = IF i = Len(box[m]) + 1 THEN <<r.by, r.at>> ELSE Old[i]
    <3> SUFFICES ASSUME NEW i \in 1 .. Len(box[m]) + 1
                 PROVE  <<box'[m][i].by, box'[m][i].at>>
                          = IF i = Len(box[m]) + 1 THEN <<r.by, r.at>> ELSE Old[i]
      OBVIOUS
    <3>1. CASE i = Len(box[m]) + 1
      BY <1>2, <3>1
    <3>2. CASE i # Len(box[m]) + 1
      <4>1. i \in 1 .. Len(box[m])
        BY <1>2, <3>2
      <4>2. Old[i] = <<box'[m][i].by, box'[m][i].at>>
        BY <1>2, <4>1
      <4> QED BY <3>2, <4>2
    <3> QED BY <3>1, <3>2
  <2>5. New = [i \in 1 .. Len(box[m]) + 1 |-> <<box'[m][i].by, box'[m][i].at>>]
    BY <1>2
  <2>6. New = [i \in 1 .. Len(box[m]) + 1 |->
                 IF i = Len(box[m]) + 1 THEN <<r.by, r.at>> ELSE Old[i]]
    <3> HIDE DEF Old
    <3> QED BY <2>4, <2>5
  <2> HIDE DEF Old, New
  <2> QED BY <2>3, <2>6
<1>4. Authors' = [Authors EXCEPT ![m] = Append(@, <<r.by, r.at>>)]
  <2>1. /\ Authors = [n \in Messages |-> Authors[n]]
        /\ Authors' = [n \in Messages |-> Authors'[n]]
    BY DEF Authors
  <2>2. ASSUME NEW n \in Messages, n # m
        PROVE  Authors'[n] = Authors[n]
    BY <1>2, <2>2 DEF Authors
  <2>3. Authors'[m] = New /\ Authors[m] = Old
    BY DEF Authors
  <2>4. Authors'[m] = Append(Authors[m], <<r.by, r.at>>)
    <3> HIDE DEF Old, New
    <3> QED BY <1>3, <2>3
  <2> QED BY <2>1, <2>2, <2>4
<1> QED BY <1>1, <1>4

(* Every step is a step of the promise, or nothing it tells of.            *)
LEMMA PromiseStep ==
    ASSUME OnceInv, HistoryIsPath, [Next]_vars
    PROVE  [Promise!PromiseNext]_(Promise!promiseVars)
<1>0. WorkerInv /\ WriteAhead /\ AtMostOnce /\ BaseInv
      /\ TypeOK' /\ [QueueNext]_queueVars
  BY BaseStep DEF OnceInv, AheadInv, BaseInv, WorkerInv
<1>1. ASSUME Approved' = Approved, LoggedIntents' = LoggedIntents, Authors' = Authors
      PROVE  UNCHANGED Promise!promiseVars
  BY <1>1 DEF Promise!promiseVars
<1>2. ASSUME UNCHANGED <<box, audited>>
      PROVE  [Promise!PromiseNext]_(Promise!promiseVars)
  <2>1. LoggedIntents' = LoggedIntents /\ Authors' = Authors
    BY <1>0, <1>2, QueueStepMaps
  <2>2. Approved' = Approved \/ \E a \in Actions : Approved' = Approved \cup {a}
    BY <1>0, <1>2, QueueStepMaps
  <2>3. ASSUME NEW a \in Actions, Approved' = Approved \cup {a}
        PROVE  Promise!PromiseNext
    BY <2>1, <2>3 DEF Promise!PromiseNext, Promise!Approve
  <2> QED BY <1>1, <2>1, <2>2, <2>3
<1>3. ASSUME NEW w \in Workers, WorkerStep(w)
      PROVE  [Promise!PromiseNext]_(Promise!promiseVars)
  <2>1. UNCHANGED box
    BY <1>0, <1>3, TrafficStep DEF Sends
  <2>2. CASE UNCHANGED audited
    BY <1>2, <2>1, <2>2
  <2>3. CASE Audit(w) \/ LastAudit(w) \/ TornAudit(w)
    <3>1. /\ job[w] \in Actions /\ UNCHANGED history
          /\ \E n : audited' = [audited EXCEPT ![job[w]] = n]
      <4>1. job[w] \in Actions /\ UNCHANGED history
        BY <1>0, <2>3 DEF Audit, LastAudit, TornAudit, MidAudits, LastAudits,
                          WorkerInv, queueVars
      <4>2. CASE TornAudit(w)
        BY <4>1, <4>2 DEF TornAudit
      <4>3. CASE Audit(w) \/ LastAudit(w)
        <5>1. PICK fresh \in BOOLEAN : AppendUnique(w, fresh)
          BY <4>3 DEF Audit, LastAudit
        <5>2. CASE MissingEvents(w)
          BY <4>1, <5>1, <5>2 DEF AppendUnique
        <5>3. CASE ~MissingEvents(w)
          <6>1. audited' = [audited EXCEPT ![job[w]] = audited[job[w]]]
            BY <1>0, <4>1, <5>1, <5>3 DEF AppendUnique, WorkerInv, TypeOK
          <6> QED BY <4>1, <6>1
        <5> QED BY <5>2, <5>3
      <4> QED BY <2>3, <4>2, <4>3
    <3>2. \A b \in Actions : audited[b] <= audited'[b]
      BY <1>0, <1>3, AuditStep DEF Next
    <3>3. audited' \in [Actions -> Nat] /\ audited \in [Actions -> Nat]
      BY <1>0 DEF WorkerInv, TypeOK
    <3>4. \A b \in Actions : b # job[w] => audited'[b] = audited[b]
      BY <3>1, <3>3
    <3>5. /\ Authors' = Authors /\ Approved' = Approved
          /\ \/ LoggedIntents' = LoggedIntents
             \/ /\ job[w] \in Approved
                /\ LoggedIntents \subseteq LoggedIntents'
                /\ \A x \in LoggedIntents' \ LoggedIntents : x[1] = job[w]
      BY <2>1, <3>1, <3>2, <3>3, <3>4, AuditStepMaps
    <3>6. CASE LoggedIntents' = LoggedIntents
      BY <1>1, <3>5, <3>6
    <3>7. CASE LoggedIntents' # LoggedIntents
      BY <3>1, <3>5, <3>7 DEF Promise!PromiseNext, Promise!LogIntents
    <3> QED BY <3>6, <3>7
  <2>4. CASE ~(Audit(w) \/ LastAudit(w) \/ TornAudit(w))
    <3>1. UNCHANGED audited
      BY <1>3, <2>4, OtherStepsDoNotLog
    <3> QED BY <2>2, <3>1
  <2> QED BY <2>3, <2>4
<1>4. ASSUME NEW r \in wire, Deliver(r)
      PROVE  Promise!PromiseNext
  <2>1. r \in Writes /\ r.by \in Actions /\ MessageOf[r.by] \in Messages
        /\ r.by # Person /\ Intended(r)
    BY <1>0, MessageOfAssumption, AuthorAssumption DEF WorkerInv, TypeOK, WriteAhead
  <2>2. /\ Authors' = [Authors EXCEPT ![MessageOf[r.by]] = Append(@, <<r.by, r.at>>)]
        /\ LoggedIntents' = LoggedIntents /\ Approved' = Approved
    <3>1. PICK m \in Messages : m = MessageOf[r.by]
      BY <2>1
    <3>2. /\ box' = [box EXCEPT ![m] = Append(@, r)]
          /\ UNCHANGED <<queueVars, audited>>
      BY <1>4, <3>1 DEF Deliver
    <3> QED BY <2>1, <3>1, <3>2, VersionMaps
  <2>3. <<r.by, r.at>> \in LoggedIntents
    <3>1. r.at \in 1 .. Len(history[r.by]) /\ history[r.by][r.at] \in WriteIntents
          /\ r.at < audited[r.by]
      BY <2>1 DEF Intended
    <3> QED BY <2>1, <3>1, LoggedMembers
  <2>4. Promise!Unspent(<<r.by, r.at>>)
    <3> SUFFICES ASSUME NEW m \in Messages, NEW i \in 1 .. Len(Authors[m]),
                        Authors[m][i] = <<r.by, r.at>>
                 PROVE  FALSE
      BY DEF Promise!Unspent
    <3>1. Len(box[m]) \in Nat
      BY <1>0 DEF WorkerInv, TypeOK
    <3>2. Len(Authors[m]) = Len(box[m])
      BY <3>1 DEF Authors
    <3>3. i \in 1 .. Len(box[m]) /\ Authors[m][i] = <<box[m][i].by, box[m][i].at>>
      BY <3>2 DEF Authors
    <3>4. box[m][i].by = r.by /\ box[m][i].at = r.at
      BY <3>3
    <3> QED BY <1>0, <1>4, <2>1, <3>3, <3>4 DEF AtMostOnce, Same
  <2>5. Promise!Write(<<r.by, r.at>>)
    BY <2>2, <2>4 DEF Promise!Write
  <2> QED BY <2>3, <2>5 DEF Promise!PromiseNext
<1>5. ASSUME NEW r \in wire, Drop(r)
      PROVE  UNCHANGED <<box, audited>>
  BY <1>5 DEF Drop
<1>6. ASSUME NEW m \in Messages, UserEdit(m)
      PROVE  Promise!PromiseNext
  <2>1. PICK c \in UserEdits : box' = [box EXCEPT ![m] = Append(@, ByPerson(c))]
    BY <1>6 DEF UserEdit
  <2>2. ByPerson(c) \in Writes /\ <<ByPerson(c).by, ByPerson(c).at>> = <<Person, 0>>
    BY UserEditsAssumption DEF ByPerson, Writes
  <2>3. UNCHANGED <<queueVars, audited>>
    BY <1>6 DEF UserEdit
  <2>4. /\ Authors' = [Authors EXCEPT ![m] = Append(@, <<Person, 0>>)]
        /\ LoggedIntents' = LoggedIntents /\ Approved' = Approved
    BY <2>1, <2>2, <2>3, VersionMaps
  <2> QED BY <2>4 DEF Promise!PromiseNext, Promise!Edit, Promise!ByHand
<1>7. CASE UNCHANGED vars
  BY <1>2, <1>7 DEF vars, writeVars
<1> QED BY <1>2, <1>3, <1>4, <1>5, <1>6, <1>7 DEF Next

(* A message changes by a person's hand, or by spending, once, an intent   *)
(* logged for an approved action: Writeback keeps the whole promise.       *)
THEOREM PromiseRefinement == Spec => PromiseKept
<1>1. Init => Promise!PromiseInit
  <2> SUFFICES ASSUME Init
               PROVE  Promise!PromiseInit
    OBVIOUS
  <2>1. \A a \in Actions : history[a] = <<>>
    BY DEF Init, QueueInit
  <2>2. Approved = {} /\ LoggedIntents = {}
    BY <2>1 DEF Approved, LoggedIntents
  <2>3. Authors = [m \in Messages |-> << <<Person, 0>> >>]
    <3>1. \A m \in Messages : Len(box[m]) = 1 /\ box[m][1] = ByPerson(InitialCats)
      BY DEF Init
    <3>2. \A m \in Messages :
            [i \in 1 .. Len(box[m]) |-> <<box[m][i].by, box[m][i].at>>]
              = << <<Person, 0>> >>
      BY <3>1 DEF ByPerson
    <3> QED BY <3>2 DEF Authors
  <2> QED BY <2>2, <2>3 DEF Promise!PromiseInit, Promise!ByHand
<1>2. OnceInv /\ HistoryIsPath /\ [Next]_vars
        => [Promise!PromiseNext]_(Promise!promiseVars)
  BY PromiseStep
<1>3. Spec => []HistoryIsPath
  BY LifecycleOfWrites, PTL
<1> QED BY <1>1, <1>2, <1>3, OnceInvariant, PTL
        DEF Spec, PromiseKept, Promise!PromiseSpec
-----------------------------------------------------------------------------
(***************************************************************************)
(* What keeps two executors from one action.  The one_executor run shows   *)
(* that the claim alone does not; these proofs show that nothing else than *)
(* a stale claim or a reconciliation of a live executor lets a second in.  *)
(***************************************************************************)

(* No verdict of a reconciliation is recorded while an executor is still   *)
(* at the action.                                                          *)
ReconcilesTheDead ==
    \A w, v \in Workers :
        ReconcileResolve(w) /\ Executing(v) => job[v] # job[w]

(* An executor's copy of the action is the action as it is in the queue,   *)
(* so that the verdict it will record is about its own attempt.            *)
VerdictsAreTheirOwn ==
    \A w \in Workers : Executing(w) => seen[w] = Len(history[job[w]])

ClaimedStatuses == {"executing", "write_in_flight"}

ClaimsHold ==
    /\ OneExecutorPerAction
    /\ VerdictsAreTheirOwn
    /\ \A w \in Workers : Executing(w) => Status(job[w]) \in ClaimedStatuses

(* A transition out of a claimed status is the executor's own call, or a   *)
(* reconciliation's.                                                       *)
LEMMA ExecutionStands ==
    ASSUME QueueTypeOK, NEW b \in Actions, Status(b) \in ClaimedStatuses,
           NEW a \in Actions, NEW to, Transition(a, to),
           ~(Status(a) \in ClaimedStatuses /\ to \in ClaimedStatuses
                \cup {"succeeded", "failed", "outcome_unknown"})
    PROVE  history'[b] = history[b]
<1>1. CASE a # b
  BY <1>1, TransitionStep
<1>2. CASE a = b
  <2>1. CanTransition(Status(a), to)
    BY TransitionStep DEF Status
  <2> QED BY <1>2, <2>1 DEF CanTransition, AllowedTransitions, ClaimedStatuses
<1> QED BY <1>1, <1>2

(* While an executor is at an action, no other worker moves it.            *)
LEMMA OthersKeepClaim ==
    ASSUME BaseInv, ClaimsHold, ReconcilesTheDead, ~StaleClaims,
           NEW w \in Workers, WorkerStep(w),
           NEW v \in Workers, v # w, Executing(v)
    PROVE  history'[job[v]] = history[job[v]]
<1>0. /\ WorkerInv /\ QueueTypeOK
      /\ job[v] \in Actions /\ Status(job[v]) \in ClaimedStatuses
  BY DEF BaseInv, WorkerInv, TypeOK, ClaimsHold, Executing, ExecutorSteps
<1>1. CASE UNCHANGED history
  BY <1>1
<1>2. CASE Start(w)
  <2>1. PICK a \in Actions :
          \/ Propose(w, a)
          \/ \E to \in Targets(Status(a)) : Decide(w, a, to)
          \/ Preview(w, a)
          \/ ExecuteClaim(w, a)
          \/ ClaimDone(w, a)
          \/ ReconcileLoad(w, a)
          \/ \E reason \in Reasons : RollbackClaim(w, a, reason)
          \/ RollbackReconcileLoad(w, a)
    BY <1>2 DEF Start
  <2>2. CASE UNCHANGED history
    BY <2>2
  <2>3. ASSUME NEW to, Decide(w, a, to)
        PROVE  history'[job[v]] = history[job[v]]
    <3>1. Transition(a, to) /\ to \in {"approved", "rejected"}
      BY <2>3 DEF Decide, Review
    <3> QED BY <1>0, <3>1, ExecutionStands DEF ClaimedStatuses
  <2>4. CASE ExecuteClaim(w, a)
    <3>1. Transition(a, "executing") /\ Status(a) \in {"approved", "failed"}
      BY <2>4 DEF ExecuteClaim, ClaimExecution, ClaimStaleExecution
    <3> QED BY <1>0, <3>1, ExecutionStands DEF ClaimedStatuses
  <2>5. ASSUME NEW reason, RollbackClaim(w, a, reason)
        PROVE  history'[job[v]] = history[job[v]]
    <3>1. Transition(a, "rollback_executing")
      BY <2>5 DEF RollbackClaim, ClaimRollback
    <3> QED BY <1>0, <3>1, ExecutionStands DEF ClaimedStatuses
  <2> QED BY <2>1, <2>2, <2>3, <2>4, <2>5
          DEF Propose, Enqueue, Preview, ClaimDone, ReconcileLoad,
              RollbackReconcileLoad, queueVars
<1>3. CASE Audit(w) \/ LastAudit(w) \/ TornAudit(w) \/ Stop(w)
  BY <1>3 DEF Audit, LastAudit, TornAudit, Stop, queueVars
<1>4. ASSUME pc[w] # "idle", job[w] # job[v], NEW to, Transition(job[w], to)
      PROVE  history'[job[v]] = history[job[v]]
  <2>1. job[w] \in Actions
    BY <1>0, <1>4 DEF WorkerInv
  <2> QED BY <1>0, <1>4, <2>1, TransitionStep
<1>5. ASSUME pc[w] # "idle", NEW to, to \notin ClaimedStatuses
                \cup {"succeeded", "failed", "outcome_unknown"}, Transition(job[w], to)
      PROVE  history'[job[v]] = history[job[v]]
  <2>1. job[w] \in Actions
    BY <1>0, <1>5 DEF WorkerInv
  <2> QED BY <1>0, <1>5, <2>1, ExecutionStands
<1>6. CASE Execute(w)
  <2>1. job[w] # job[v] /\ pc[w] # "idle"
    <3>1. Executing(w)
      BY <1>6 DEF Execute, ExecuteGet, ExecuteMark, ExecuteSend, ExecuteReply,
                  ExecuteFinish, Executing, ExecutorSteps
    <3> QED BY <3>1 DEF ClaimsHold, OneExecutorPerAction, Executing, ExecutorSteps
  <2>2. UNCHANGED history \/ \E to : Transition(job[w], to)
    BY <1>6 DEF Execute, ExecuteGet, ExecuteMark, ExecuteSend, ExecuteReply,
                ExecuteFinish, MarkWriteInFlight, FinalizeExecution, queueVars
  <2> QED BY <1>1, <1>4, <2>1, <2>2
<1>7. CASE Reconcile(w)
  <2>1. CASE ReconcileGet(w)
    BY <1>1, <2>1 DEF ReconcileGet, queueVars
  <2>2. CASE ReconcileResolve(w)
    <3>1. job[w] # job[v] /\ pc[w] # "idle"
      BY <2>2 DEF ReconcilesTheDead, ReconcileResolve
    <3>2. PICK to \in Statuses : Transition(job[w], to)
      BY <2>2 DEF ReconcileResolve, ResolveUncertainExecution
    <3> QED BY <1>4, <3>1, <3>2
  <2> QED BY <1>7, <2>1, <2>2 DEF Reconcile
<1>8. CASE Rollback(w) \/ RollbackReconcile(w)
  <2>1. pc[w] # "idle"
    BY <1>8 DEF Rollback, RollbackGet, RollbackMark, RollbackNoChange, RollbackSend,
                RollbackReply, RollbackFinish, RollbackReconcile,
                RollbackReconcileGet, RollbackReconcileResolve
  <2>2. \/ UNCHANGED history
        \/ \E to \in {"rollback_write_in_flight", "rolled_back", "rollback_failed",
                      "rollback_outcome_unknown"} : Transition(job[w], to)
    BY <1>8 DEF Rollback, RollbackGet, RollbackMark, RollbackNoChange, RollbackSend,
                RollbackReply, RollbackFinish, RollbackReconcile,
                RollbackReconcileGet, RollbackReconcileResolve,
                PrepareOrCompleteRollback, FinalizeRollback,
                ResolveUncertainRollback, queueVars
  <2> QED BY <1>1, <1>5, <2>1, <2>2 DEF ClaimedStatuses
<1> QED BY <1>2, <1>3, <1>6, <1>7, <1>8 DEF WorkerStep

(* A worker that executes after its step has just claimed the action, or   *)
(* was already executing it and moved it no further than its write intent. *)
LEMMA OwnClaim ==
    ASSUME BaseInv, BaseInv', ~StaleClaims, ClaimsHold,
           NEW w \in Workers, WorkerStep(w), Executing(w)'
    PROVE  /\ seen'[w] = Len(history'[job'[w]])
           /\ Status(job[w])' \in ClaimedStatuses
           /\ \/ Executing(w) /\ job'[w] = job[w]
              \/ Status(job'[w]) \notin ClaimedStatuses
<1>0. /\ WorkerInv /\ TypeOK /\ QueueTypeOK /\ QueueTypeOK'
      /\ pc \in [Workers -> Steps]
      /\ pc[w] # "idle" => job[w] \in Actions
  BY DEF BaseInv, WorkerInv, TypeOK
<1>1. pc'[w] \in ExecutorSteps
  BY DEF Executing
<1>2. ASSUME Executing(w), job'[w] = job[w], seen'[w] = seen[w], UNCHANGED history
      PROVE  /\ seen'[w] = Len(history'[job'[w]])
             /\ Status(job[w])' \in ClaimedStatuses
             /\ Executing(w) /\ job'[w] = job[w]
  <2>1. seen[w] = Len(history[job[w]]) /\ Status(job[w]) \in ClaimedStatuses
    BY <1>2 DEF ClaimsHold, VerdictsAreTheirOwn
  <2> QED BY <1>2, <2>1 DEF Status
<1>3. CASE Start(w)
  <2>1. PICK a \in Actions : ExecuteClaim(w, a)
    <3>1. ASSUME NEW a \in Actions, NEW step \in Steps \ ExecutorSteps, Begin(w, a, step)
          PROVE  FALSE
      BY <1>0, <1>1, <3>1, BeginType
    <3>2. {"audit_history", "audit_outcome", "c_audit", "r_audit_claim", "k_get"}
             \subseteq Steps \ ExecutorSteps
      BY DEF Steps, ExecutorSteps, ReconcilerSteps, RollbackSteps, RollbackReconcilerSteps
    <3> QED BY <1>3, <3>1, <3>2 DEF Start, Propose, Decide, Preview, ClaimDone,
               ReconcileLoad, RollbackClaim, RollbackReconcileLoad
  <2>2. Transition(a, "executing") /\ Status(a) \in {"approved", "failed"}
    BY <2>1 DEF ExecuteClaim, ClaimExecution, ClaimStaleExecution
  <2>3. job'[w] = a /\ seen'[w] = Len(history'[a])
    BY <1>0, <2>1, BeginType DEF ExecuteClaim, Steps, ExecutorSteps
  <2>4. history'[a] = Append(history[a], "executing") /\ history[a] \in Seq(Statuses)
    BY <1>0, <2>2, TransitionStep DEF QueueTypeOK
  <2>5. LastStatus(history'[a]) = "executing"
    BY <2>4 DEF LastStatus, Statuses
  <2> QED BY <2>2, <2>3, <2>5 DEF Status, ClaimedStatuses
<1>4. CASE Audit(w)
  <2>1. PICK step \in Steps : <<pc[w], step>> \in AfterAudit /\ Goto(w, step)
    BY <1>4 DEF Audit
  <2>2. Executing(w)
    BY <1>0, <1>1, <2>1 DEF AfterAudit, Goto, Executing, ExecutorSteps
  <2> QED BY <1>2, <1>4, <2>2 DEF Audit, queueVars
<1>5. CASE LastAudit(w) \/ TornAudit(w) \/ Stop(w)
  BY <1>0, <1>1, <1>5 DEF LastAudit, TornAudit, Stop, GoIdle, Goto, ExecutorSteps
<1>6. CASE ExecuteGet(w) \/ ExecuteSend(w) \/ ExecuteReply(w)
  BY <1>2, <1>6 DEF ExecuteGet, ExecuteSend, ExecuteReply, Executing, ExecutorSteps, queueVars
<1>7. CASE ExecuteMark(w)
  <2>1. job[w] \in Actions /\ Transition(job[w], "write_in_flight") /\ Executing(w)
    BY <1>0, <1>7 DEF ExecuteMark, MarkWriteInFlight, Executing, ExecutorSteps
  <2>2. job'[w] = job[w] /\ seen'[w] = Len(history'[job[w]])
    BY <1>0, <1>7, <2>1, ContinueType DEF ExecuteMark, Steps, ExecutorSteps
  <2>3. history'[job[w]] = Append(history[job[w]], "write_in_flight")
        /\ history[job[w]] \in Seq(Statuses)
    BY <1>0, <2>1, TransitionStep DEF QueueTypeOK
  <2>4. LastStatus(history'[job[w]]) = "write_in_flight"
    BY <2>3 DEF LastStatus, Statuses
  <2> QED BY <2>1, <2>2, <2>4 DEF Status, ClaimedStatuses
<1>8. CASE ExecuteFinish(w)
  BY <1>0, <1>1, <1>8 DEF ExecuteFinish, Continue, Goto, ExecutorSteps
<1>9. CASE Reconcile(w)
  BY <1>0, <1>1, <1>9 DEF Reconcile, ReconcileGet, ReconcileResolve, Continue, Goto,
                          ExecutorSteps
<1>10. CASE Rollback(w) \/ RollbackReconcile(w)
  BY <1>0, <1>1, <1>10 DEF Rollback, RollbackGet, RollbackMark, RollbackNoChange,
         RollbackSend, RollbackReply, RollbackFinish, RollbackReconcile,
         RollbackReconcileGet, RollbackReconcileResolve, Continue, Goto, ExecutorSteps
<1> QED BY <1>3, <1>4, <1>5, <1>6, <1>7, <1>8, <1>9, <1>10 DEF WorkerStep, Execute

LEMMA ClaimsStep ==
    ASSUME BaseInv, BaseInv', ~StaleClaims, ClaimsHold, ReconcilesTheDead, [Next]_vars
    PROVE  ClaimsHold'
<1>1. CASE UNCHANGED <<queueVars, workerVars>>
  BY <1>1 DEF queueVars, workerVars, ClaimsHold, OneExecutorPerAction,
              VerdictsAreTheirOwn, Executing, Status
<1>2. ASSUME NEW w \in Workers, WorkerStep(w)
      PROVE  ClaimsHold'
  <2>1. ASSUME NEW v \in Workers, v # w, Executing(v)'
        PROVE  /\ Executing(v) /\ job'[v] = job[v] /\ seen'[v] = seen[v]
               /\ history'[job[v]] = history[job[v]]
    <3>1. pc'[v] = pc[v] /\ job'[v] = job[v] /\ seen'[v] = seen[v]
      BY <1>2, <2>1, OthersStay DEF BaseInv
    <3> QED BY <1>2, <2>1, <3>1, OthersKeepClaim DEF Executing
  <2>2. ASSUME Executing(w)', NEW v \in Workers, v # w, Executing(v)'
        PROVE  job'[v] # job'[w]
    <3>1. Executing(v) /\ job'[v] = job[v] /\ Status(job[v]) \in ClaimedStatuses
      BY <2>1, <2>2 DEF ClaimsHold
    <3>2. CASE Executing(w) /\ job'[w] = job[w]
      BY <2>2, <3>1, <3>2 DEF ClaimsHold, OneExecutorPerAction
    <3>3. CASE Status(job'[w]) \notin ClaimedStatuses
      BY <3>1, <3>3
    <3> QED BY <1>2, <2>2, <3>2, <3>3, OwnClaim
  <2>3. OneExecutorPerAction'
    <3>1. ASSUME NEW u \in Workers, NEW v \in Workers, Executing(u)', Executing(v)',
                 job'[u] = job'[v], u # w, v # w
          PROVE  u = v
      BY <2>1, <3>1 DEF ClaimsHold, OneExecutorPerAction
    <3> QED BY <2>2, <3>1 DEF OneExecutorPerAction
  <2>4. ASSUME NEW v \in Workers, Executing(v)'
        PROVE  /\ seen'[v] = Len(history'[job'[v]])
               /\ Status(job[v])' \in ClaimedStatuses
    <3>1. CASE v = w
      BY <1>2, <2>4, <3>1, OwnClaim
    <3>2. CASE v # w
      BY <2>1, <2>4, <3>2 DEF ClaimsHold, VerdictsAreTheirOwn, Status
    <3> QED BY <3>1, <3>2
  <2> QED BY <2>3, <2>4 DEF ClaimsHold, VerdictsAreTheirOwn
<1>3. CASE UNCHANGED vars
  BY <1>1, <1>3 DEF vars
<1>4. CASE \E r \in wire : Deliver(r) \/ Drop(r)
  BY <1>1, <1>4 DEF Deliver, Drop
<1>5. CASE \E m \in Messages : UserEdit(m)
  BY <1>1, <1>5 DEF UserEdit
<1> QED BY <1>2, <1>3, <1>4, <1>5 DEF Next

(* The claim keeps its documented promise, and an executor's verdict is    *)
(* about its own attempt, as long as no claim expires and no action is     *)
(* reconciled under an executor that is still at it, for any number of     *)
(* workers, crashes, torn appends and late requests: so these two are all  *)
(* there is to the divergence that the one_executor run shows.             *)
THEOREM OneExecutorUnlessReconciled ==
    ASSUME ~StaleClaims
    PROVE  Spec /\ [][ReconcilesTheDead]_vars
             => [](OneExecutorPerAction /\ VerdictsAreTheirOwn)
<1>1. Init => ClaimsHold
  BY DEF Init, ClaimsHold, OneExecutorPerAction, VerdictsAreTheirOwn, Executing, ExecutorSteps
<1>2. BaseInv /\ BaseInv' /\ ClaimsHold /\ [Next]_vars /\ [ReconcilesTheDead]_vars
        => ClaimsHold'
  <2>1. ASSUME ClaimsHold, UNCHANGED vars
        PROVE  ClaimsHold'
    BY <2>1 DEF vars, queueVars, workerVars, ClaimsHold, OneExecutorPerAction,
                VerdictsAreTheirOwn, Executing, Status
  <2> QED BY <2>1, ClaimsStep
<1>3. ClaimsHold => OneExecutorPerAction /\ VerdictsAreTheirOwn
  BY DEF ClaimsHold
<1> QED BY <1>1, <1>2, <1>3, BaseInvariant, PTL DEF Spec

=============================================================================
