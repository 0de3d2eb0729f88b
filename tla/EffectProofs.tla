---------------------------- MODULE EffectProofs ----------------------------
(***************************************************************************)
(* Proofs about what the writes do: a status, a write and a rollback stand *)
(* for what the versions of the message show, for any number of workers,   *)
(* crashes, user edits, lost answers and late requests.                    *)
(***************************************************************************)
EXTENDS WritebackProofs

(* What a version list, a snapshot and a plan say of an action's effect:   *)
(* its target was reached, its plan was there, its rollback was done.      *)
Hit(vs, s, p) ==
    \E i \in 1 .. Len(vs) : i >= s.key /\ vs[i].cats = FinalCategories(s, p)
Planned(vs, p) == \E i \in 1 .. Len(vs) : vs[i].cats \cap Managed = p
Undone(vs, s, p) ==
    \E i, j \in 1 .. Len(vs) :
        /\ i <= j
        /\ vs[i].cats \cap Managed = p
        /\ vs[j].cats \cap Managed = s.cats \cap Managed

(* A write of `cats` over the categories its preflight found.              *)
Forward(cats, found, s, p) ==
    cats = FinalCategories(s, p) /\ found = s.cats /\ cats # found
Backward(cats, found, s, p) ==
    cats = RollbackTarget(found, s) /\ found \cap Managed = p /\ cats # found

(* The preflight read version b, no older than the proposal.               *)
ForwardFrom(vs, b, s, p) ==
    /\ b \in 1 .. Len(vs) /\ s.key <= b
    /\ Forward(FinalCategories(s, p), vs[b].cats, s, p)
BackwardFrom(cats, vs, b, s, p) ==
    /\ b \in 1 .. Len(vs) /\ s.key <= b
    /\ Backward(cats, vs[b].cats, s, p)

(* A request does what its kind of intent is for.                          *)
Sound(r, vs, s, p, kind) ==
    \/ /\ kind = "write_in_flight"
       /\ r.cats = FinalCategories(s, p)
       /\ ForwardFrom(vs, r.base, s, p)
    \/ /\ kind = "rollback_write_in_flight"
       /\ BackwardFrom(r.cats, vs, r.base, s, p)

(* What a status, and a persisted rollback snapshot, tell.                 *)
Told(h, rb, vs, s, p) ==
    /\ LastStatus(h) = "succeeded" => Hit(vs, s, p)
    /\ LastStatus(h) = "rolled_back" => Undone(vs, s, p)
    /\ rb # NoRollback => Planned(vs, p)

(* What a worker at some step knows from its own reads, whatever happened  *)
(* to the files and the mailbox since.                                     *)
ForwardIntent  == {"x_audit_wif", "x_send", "x_wait"}
BackwardIntent == {"r_audit_wif", "r_send", "r_wait"}
Known(step, vs, s, p, h, n, b, hd) ==
    /\ step \in ForwardIntent \cup {"x_mark"} => ForwardFrom(vs, b, s, p)
    /\ step \in BackwardIntent \cup {"r_mark"} => BackwardFrom(hd.target, vs, b, s, p)
    /\ step \in ForwardIntent => h[n] = "write_in_flight"
    /\ step \in BackwardIntent => h[n] = "rollback_write_in_flight"
    /\ step \in {"x_complete", "c_applied"} => Hit(vs, s, p)
    /\ step \in {"r_no_change", "r_complete", "k_applied"} => Undone(vs, s, p)
    /\ step = "k_get" =>
          Planned(vs, p) /\ hd.target \cap Managed = s.cats \cap Managed

KeysExist ==
    \A a \in Actions : Queued(a) => snapshot[a].key <= Len(Box(a))

StatusesTold ==
    \A a \in Actions : Told(history[a], rollback[a], Box(a), snapshot[a], Plan[a])

WorkersKnow ==
    \A w \in Workers :
        pc[w] # "idle" =>
            Known(pc[w], Box(job[w]), snapshot[job[w]], Plan[job[w]],
                  history[job[w]], seen[w], base[w], held[w])

RequestsSound ==
    /\ \A r \in wire :
          Sound(r, Box(r.by), snapshot[r.by], Plan[r.by], history[r.by][r.at])
    /\ \A m \in Messages : \A i \in 1 .. Len(box[m]) :
          box[m][i].by # Person =>
            /\ MessageOf[box[m][i].by] = m
            /\ box[m][i].base < i
            /\ Sound(box[m][i], box[m], snapshot[box[m][i].by],
                     Plan[box[m][i].by], history[box[m][i].by][box[m][i].at])

EffectInv == AheadInv /\ KeysExist /\ StatusesTold /\ WorkersKnow /\ RequestsSound

-----------------------------------------------------------------------------
(* Versions are only added.                                                *)
Extends(u, v) ==
    /\ Len(u) \in Nat /\ Len(v) \in Nat /\ Len(u) <= Len(v)
    /\ \A i \in 1 .. Len(u) : v[i] = u[i]

LEMMA ExtendsKeeps ==
    ASSUME NEW u, NEW v, Extends(u, v), NEW s, NEW p
    PROVE  /\ Hit(u, s, p) => Hit(v, s, p)
           /\ Planned(u, p) => Planned(v, p)
           /\ Undone(u, s, p) => Undone(v, s, p)
           /\ \A b : ForwardFrom(u, b, s, p) => ForwardFrom(v, b, s, p)
           /\ \A b, cats : BackwardFrom(cats, u, b, s, p)
                              => BackwardFrom(cats, v, b, s, p)
           /\ \A r, k : Sound(r, u, s, p, k) => Sound(r, v, s, p, k)
<1>0. \A i \in 1 .. Len(u) : i \in 1 .. Len(v) /\ v[i] = u[i]
  BY DEF Extends
<1>1. Hit(u, s, p) => Hit(v, s, p)
  BY <1>0 DEF Hit
<1>2. Planned(u, p) => Planned(v, p)
  BY <1>0 DEF Planned
<1>3. Undone(u, s, p) => Undone(v, s, p)
  <2> SUFFICES ASSUME Undone(u, s, p)
               PROVE  Undone(v, s, p)
    OBVIOUS
  <2>1. PICK i, j \in 1 .. Len(u) :
            /\ i <= j
            /\ u[i].cats \cap Managed = p
            /\ u[j].cats \cap Managed = s.cats \cap Managed
    BY DEF Undone
  <2>2. /\ i \in 1 .. Len(v) /\ j \in 1 .. Len(v)
        /\ v[i] = u[i] /\ v[j] = u[j]
    BY <1>0, <2>1
  <2> QED BY <2>1, <2>2 DEF Undone
<1>4. \A b : ForwardFrom(u, b, s, p) => ForwardFrom(v, b, s, p)
  BY <1>0 DEF ForwardFrom
<1>5. \A b, cats : BackwardFrom(cats, u, b, s, p) => BackwardFrom(cats, v, b, s, p)
  BY <1>0 DEF BackwardFrom
<1>6. \A r, k : Sound(r, u, s, p, k) => Sound(r, v, s, p, k)
  BY <1>4, <1>5 DEF Sound
<1> QED BY <1>1, <1>2, <1>3, <1>4, <1>5, <1>6

LEMMA ToldKeeps ==
    ASSUME NEW u, NEW v, Extends(u, v), NEW s, NEW p, NEW h, NEW rb,
           Told(h, rb, u, s, p)
    PROVE  Told(h, rb, v, s, p)
BY ExtendsKeeps DEF Told

LEMMA KnownKeeps ==
    ASSUME NEW u, NEW v, Extends(u, v), NEW s, NEW p, NEW step, NEW h, NEW g,
           NEW n, NEW b, NEW hd, Known(step, u, s, p, h, n, b, hd),
           step \in ForwardIntent \cup BackwardIntent => g[n] = h[n]
    PROVE  Known(step, v, s, p, g, n, b, hd)
BY ExtendsKeeps DEF Known

(* What every step keeps: the snapshot of a queued action, and all the     *)
(* versions of a message.                                                  *)
SnapshotsKept ==
    \A a \in Actions : snapshot[a] # NoSnapshot => snapshot'[a] = snapshot[a]
VersionsKept == \A m \in Messages : Extends(box[m], box'[m])

LEMMA SnapshotStep ==
    ASSUME BaseInv, [Next]_vars
    PROVE  SnapshotsKept
<1>1. [QueueNext]_queueVars /\ QueueTypeOK /\ RollbackContract
  BY BaseStep DEF BaseInv, WorkerInv, TypeOK
<1>2. CASE UNCHANGED queueVars
  BY <1>2 DEF queueVars, SnapshotsKept
<1>3. CASE QueueNext
  <2>1. PICK a \in Actions :
              \/ EnqueueKind(a)
              \/ \E to \in Statuses : PlainKind(a, to)
              \/ ClaimStaleExecution(a)
              \/ \E to \in Statuses, rb \in RollbackSnapshots : PrepareKind(a, to, rb)
    BY <1>1, <1>3, QueueStepKinds
  <2>2. CASE EnqueueKind(a)
    BY <2>2 DEF EnqueueKind, SnapshotsKept, Queued
  <2>3. CASE ~EnqueueKind(a)
    <3>1. snapshot' = snapshot
      BY <2>1, <2>3 DEF PlainKind, PrepareKind, Transition, ClaimStaleExecution
    <3> QED BY <3>1 DEF SnapshotsKept
  <2> QED BY <2>2, <2>3
<1> QED BY <1>1, <1>2, <1>3

(* A worker never touches the mailbox.                                     *)
LEMMA BoxStep ==
    ASSUME BaseInv, NEW w \in Workers, WorkerStep(w)
    PROVE  UNCHANGED box
BY TrafficStep DEF Sends

LEMMA VersionStep ==
    ASSUME BaseInv, [Next]_vars
    PROVE  VersionsKept
<1>0. WorkerInv /\ \A m \in Messages : box[m] \in Seq(Writes)
  BY DEF BaseInv, WorkerInv, TypeOK
<1>1. CASE UNCHANGED box
  BY <1>0, <1>1 DEF VersionsKept, Extends
<1>2. ASSUME NEW m \in Messages, NEW r \in Writes,
             box' = [box EXCEPT ![m] = Append(@, r)]
      PROVE  VersionsKept
  <2>1. ASSUME NEW n \in Messages
        PROVE  Extends(box[n], box'[n])
    <3>1. CASE n = m
      <4>1. Len(box[n]) \in Nat /\ Len(box'[n]) = Len(box[n]) + 1
        BY <1>0, <1>2, <3>1, VersionAppend
      <4>2. \A i \in 1 .. Len(box[n]) : box'[n][i] = box[n][i]
        BY <1>0, <1>2, <3>1, VersionAppend
      <4> QED BY <4>1, <4>2 DEF Extends
    <3>2. CASE n # m
      <4>1. box'[n] = box[n] /\ Len(box[n]) \in Nat
        BY <1>0, <1>2, <3>2, VersionAppend
      <4> QED BY <4>1 DEF Extends
    <3> QED BY <3>1, <3>2
  <2> QED BY <2>1 DEF VersionsKept
<1>3. ASSUME NEW r \in wire, Deliver(r)
      PROVE  VersionsKept
  <2>1. r \in Writes /\ MessageOf[r.by] \in Messages
    BY <1>0, MessageOfAssumption DEF WorkerInv, TypeOK
  <2> QED BY <1>2, <1>3, <2>1 DEF Deliver
<1>4. ASSUME NEW m \in Messages, UserEdit(m)
      PROVE  VersionsKept
  <2>1. PICK c \in UserEdits : box' = [box EXCEPT ![m] = Append(@, ByPerson(c))]
    BY <1>4 DEF UserEdit
  <2>2. ByPerson(c) \in Writes
    BY UserEditsAssumption DEF ByPerson, Writes
  <2> QED BY <1>2, <2>1, <2>2
<1>5. CASE UNCHANGED vars
  BY <1>1, <1>5 DEF vars, writeVars
<1>6. ASSUME NEW w \in Workers, WorkerStep(w)
      PROVE  VersionsKept
  BY <1>1, <1>6, BoxStep
<1>7. ASSUME NEW r \in wire, Drop(r)
      PROVE  VersionsKept
  BY <1>1, <1>7 DEF Drop
<1> QED BY <1>3, <1>4, <1>5, <1>6, <1>7 DEF Next

(* What a worker knows, and what a status tells, in the next state.        *)
KnownNext(w) ==
    Known(pc'[w], box'[MessageOf[job'[w]]], snapshot'[job'[w]], Plan[job'[w]],
          history'[job'[w]], seen'[w], base'[w], held'[w])
ToldNext(a) ==
    Told(history'[a], rollback'[a], box'[MessageOf[a]], snapshot'[a], Plan[a])

(* A worker's reads are its own as well.                                   *)
LEMMA OthersHold ==
    ASSUME WorkerInv, NEW w \in Workers, WorkerStep(w), NEW v \in Workers, v # w
    PROVE  base'[v] = base[v] /\ held'[v] = held[v]
<1>0. DOMAIN base = Workers /\ DOMAIN held = Workers
  BY DEF WorkerInv, TypeOK
<1>1. CASE Start(w) \/ Audit(w)
  BY <1>0, <1>1 DEF Start, Propose, Decide, Preview, ExecuteClaim, ClaimDone,
                    ReconcileLoad, RollbackClaim, RollbackReconcileLoad, Audit
<1>2. CASE LastAudit(w) \/ TornAudit(w) \/ Stop(w)
  BY <1>0, <1>2 DEF LastAudit, TornAudit, Stop, GoIdle
<1>3. CASE Execute(w)
  BY <1>0, <1>3 DEF Execute, ExecuteGet, ExecuteMark, ExecuteSend, ExecuteReply,
                    ExecuteFinish, Continue
<1>4. CASE Reconcile(w)
  BY <1>0, <1>4 DEF Reconcile, ReconcileGet, ReconcileResolve, Continue
<1>5. CASE Rollback(w)
  BY <1>0, <1>5 DEF Rollback, RollbackGet, RollbackMark, RollbackNoChange,
                    RollbackSend, RollbackReply, RollbackFinish, Continue
<1>6. CASE RollbackReconcile(w)
  BY <1>0, <1>6 DEF RollbackReconcile, RollbackReconcileGet,
                    RollbackReconcileResolve, Continue
<1> QED BY <1>1, <1>2, <1>3, <1>4, <1>5, <1>6 DEF WorkerStep

(* Facts every step of the proof starts from.                              *)
Grounds ==
    /\ BaseInv /\ WorkerInv /\ TypeOK /\ QueueTypeOK /\ QueueTypeOK'
    /\ FilesGrow /\ QueuedKept /\ SnapshotsKept /\ VersionsKept

LEMMA GroundsHold ==
    ASSUME EffectInv, [Next]_vars
    PROVE  Grounds
BY BaseStep, FilesStep, SnapshotStep, VersionStep
   DEF EffectInv, AheadInv, BaseInv, WorkerInv, TypeOK, Grounds

(* What is known and told of a kept action stays so.                       *)
LEMMA KnownStays ==
    ASSUME EffectInv, Grounds, NEW v \in Workers, pc[v] # "idle",
           UNCHANGED <<pc[v], job[v], seen[v], base[v], held[v]>>
    PROVE  KnownNext(v)
<1>1. /\ job[v] \in Actions /\ snapshot[job[v]] # NoSnapshot
      /\ MessageOf[job[v]] \in Messages
  BY MessageOfAssumption DEF Grounds, WorkerInv
<1>2. /\ snapshot'[job[v]] = snapshot[job[v]]
      /\ Extends(box[MessageOf[job[v]]], box'[MessageOf[job[v]]])
  BY <1>1 DEF Grounds, SnapshotsKept, VersionsKept
<1>3. Known(pc[v], box[MessageOf[job[v]]], snapshot[job[v]], Plan[job[v]],
            history[job[v]], seen[v], base[v], held[v])
  BY DEF EffectInv, WorkersKnow, Box
<1>4. pc[v] \in ForwardIntent \cup BackwardIntent
        => history'[job[v]][seen[v]] = history[job[v]][seen[v]]
  <2>1. seen[v] \in Nat /\ Len(history[job[v]]) \in Nat
    BY <1>1 DEF Grounds, TypeOK, FilesGrow
  <2>2. pc[v] \in ForwardIntent \cup BackwardIntent => pc[v] \in Intending
    BY DEF ForwardIntent, BackwardIntent, Intending, Armed
  <2>3. pc[v] \in Intending => seen[v] \in 1 .. Len(history[job[v]])
    BY <2>1 DEF EffectInv, AheadInv, WorkerAhead
  <2> QED BY <1>1, <2>2, <2>3 DEF Grounds, FilesGrow
<1>5. Known(pc[v], box'[MessageOf[job[v]]], snapshot[job[v]], Plan[job[v]],
            history'[job[v]], seen[v], base[v], held[v])
  BY <1>2, <1>3, <1>4, KnownKeeps
<1> QED BY <1>2, <1>5 DEF KnownNext

LEMMA ToldStays ==
    ASSUME EffectInv, Grounds, NEW a \in Actions,
           history'[a] = history[a], rollback'[a] = rollback[a]
    PROVE  ToldNext(a)
<1>1. Told(history[a], rollback[a], box[MessageOf[a]], snapshot[a], Plan[a])
  BY DEF EffectInv, StatusesTold, Box
<1>2. CASE snapshot[a] # NoSnapshot
  <2>1. /\ snapshot'[a] = snapshot[a]
        /\ Extends(box[MessageOf[a]], box'[MessageOf[a]])
    BY <1>2, MessageOfAssumption DEF Grounds, SnapshotsKept, VersionsKept
  <2> QED BY <1>1, <2>1, ToldKeeps DEF ToldNext
<1>3. CASE snapshot[a] = NoSnapshot
  <2>1. history[a] = <<>> /\ rollback[a] = NoRollback
    BY <1>3 DEF Grounds, BaseInv, AbsentIsBlank, Queued
  <2> QED BY <2>1 DEF ToldNext, Told, LastStatus
<1> QED BY <1>2, <1>3

(* A transition tells what its new status says, of the action it moves.    *)
LEMMA TransitionTold ==
    ASSUME EffectInv, Grounds, UNCHANGED box, NEW b \in Actions, NEW to,
           Transition(b, to),
           \A a \in Actions : a # b => rollback'[a] = rollback[a],
           to = "succeeded" => Hit(Box(b), snapshot[b], Plan[b]),
           to = "rolled_back" => Undone(Box(b), snapshot[b], Plan[b]),
           rollback'[b] # rollback[b] => Planned(Box(b), Plan[b])
    PROVE  \A a \in Actions : ToldNext(a)
<1> SUFFICES ASSUME NEW a \in Actions
             PROVE  ToldNext(a)
  OBVIOUS
<1>1. CASE a # b
  BY <1>1, ToldStays, TransitionStep DEF Grounds
<1>2. CASE a = b
  <2>1. /\ to \in Statuses /\ history[b] \in Seq(Statuses)
        /\ history'[b] = Append(history[b], to)
        /\ snapshot'[b] = snapshot[b] /\ box'[MessageOf[b]] = Box(b)
    BY TransitionStep DEF Grounds, QueueTypeOK, Box
  <2>2. LastStatus(history'[b]) = to
    BY <2>1 DEF LastStatus
  <2>3. Told(history[b], rollback[b], Box(b), snapshot[b], Plan[b])
    BY DEF EffectInv, StatusesTold
  <2>4. rollback'[b] # NoRollback => Planned(Box(b), Plan[b])
    BY <2>3 DEF Told
  <2> QED BY <1>2, <2>1, <2>2, <2>4 DEF ToldNext, Told
<1> QED BY <1>1, <1>2

(* A call that leaves the queue alone, or only adds to it, tells nothing   *)
(* new.                                                                    *)
LEMMA QuietTold ==
    ASSUME EffectInv, Grounds, UNCHANGED <<history, rollback>>
    PROVE  \A a \in Actions : ToldNext(a)
BY ToldStays

-----------------------------------------------------------------------------
(* The steps of one worker.  Most leave it knowing nothing.                *)
Knowing ==
    ForwardIntent \cup BackwardIntent \cup
    {"x_mark", "r_mark", "x_complete", "c_applied", "r_no_change", "r_complete",
     "k_applied", "k_get"}

LEMMA KnowsNothing ==
    ASSUME NEW w \in Workers, pc'[w] \notin Knowing
    PROVE  KnownNext(w)
BY DEF KnownNext, Known, Knowing, ForwardIntent, BackwardIntent

Outcome(w) == KnownNext(w) /\ \A a \in Actions : ToldNext(a)

LEMMA StartOutcome ==
    ASSUME EffectInv, Grounds, UNCHANGED box, NEW w \in Workers, Start(w)
    PROVE  Outcome(w)
<1>0. PICK a \in Actions :
        \/ Propose(w, a)
        \/ \E to \in Targets(Status(a)) : Decide(w, a, to)
        \/ Preview(w, a)
        \/ ExecuteClaim(w, a)
        \/ ClaimDone(w, a)
        \/ ReconcileLoad(w, a)
        \/ \E reason \in Reasons : RollbackClaim(w, a, reason)
        \/ RollbackReconcileLoad(w, a)
  BY DEF Start
<1>a. WorkerInv /\ QueueTypeOK /\ QueueTypeOK'
  BY DEF Grounds
<1>b. ASSUME NEW step \in Steps \ Knowing, Begin(w, a, step)
      PROVE  KnownNext(w)
  BY <1>a, <1>b, BeginType, KnowsNothing
<1>c. {"audit_history", "audit_outcome", "x_audit_claim", "c_audit",
       "r_audit_claim"} \subseteq Steps \ Knowing
  BY DEF Steps, ExecutorSteps, ReconcilerSteps, RollbackSteps, Knowing,
         ForwardIntent, BackwardIntent
<1>1. CASE Propose(w, a)
  BY <1>1, <1>b, <1>c, QuietTold DEF Propose, Enqueue, Outcome
<1>2. ASSUME NEW to \in Targets(Status(a)), Decide(w, a, to)
      PROVE  Outcome(w)
  <2>1. Transition(a, to) /\ rollback' = rollback /\ to \in {"approved", "rejected"}
    BY <1>2 DEF Decide, Review
  <2>2. \A b \in Actions : ToldNext(b)
    BY <2>1, TransitionTold
  <2> QED BY <1>2, <1>b, <1>c, <2>2 DEF Decide, Outcome
<1>3. CASE Preview(w, a) \/ ClaimDone(w, a) \/ ReconcileLoad(w, a)
  <2>1. UNCHANGED <<history, rollback>>
    BY <1>3 DEF Preview, ClaimDone, ReconcileLoad, queueVars
  <2>2. \E step \in {"audit_outcome", "c_audit"} : Begin(w, a, step)
    BY <1>3 DEF Preview, ClaimDone, ReconcileLoad
  <2> QED BY <1>b, <1>c, <2>1, <2>2, QuietTold DEF Outcome
<1>4. CASE ExecuteClaim(w, a)
  <2>1. KnownNext(w)
    BY <1>4, <1>b, <1>c DEF ExecuteClaim
  <2>2. CASE ClaimExecution(a)
    <3>1. \A b \in Actions : ToldNext(b)
      BY <2>2, TransitionTold DEF ClaimExecution
    <3> QED BY <2>1, <3>1 DEF Outcome
  <2>3. CASE ClaimStaleExecution(a)
    <3>1. /\ history'[a] = Append(Append(history[a], "failed"), "executing")
          /\ \A b \in Actions : b # a => history'[b] = history[b]
          /\ UNCHANGED <<snapshot, rollback>>
          /\ history[a] \in Seq(Statuses)
      BY <1>a, <2>3, StaleStep DEF QueueTypeOK
    <3>2. Append(history[a], "failed") \in Seq(Statuses) /\ "executing" \in Statuses
      BY <3>1 DEF Statuses
    <3>3. LastStatus(history'[a]) = "executing"
      BY <3>1, <3>2 DEF LastStatus
    <3>4. ToldNext(a)
      <4>1. Told(history[a], rollback[a], Box(a), snapshot[a], Plan[a])
        BY DEF EffectInv, StatusesTold
      <4> QED BY <3>1, <3>3, <4>1 DEF ToldNext, Told, Box
    <3> QED BY <2>1, <3>1, <3>4, ToldStays DEF Outcome
  <2> QED BY <1>4, <2>2, <2>3 DEF ExecuteClaim
<1>5. ASSUME NEW reason \in Reasons, RollbackClaim(w, a, reason)
      PROVE  Outcome(w)
  <2>1. Transition(a, "rollback_executing") /\ rollback' = rollback
    BY <1>5 DEF RollbackClaim, ClaimRollback
  <2>2. \A b \in Actions : ToldNext(b)
    BY <2>1, TransitionTold
  <2> QED BY <1>5, <1>b, <1>c, <2>2 DEF RollbackClaim, Outcome
<1>6. CASE RollbackReconcileLoad(w, a)
  <2>1. /\ UNCHANGED <<snapshot, history, rollback>>
        /\ Begin(w, a, "k_get")
        /\ held' = [held EXCEPT ![w] = rollback[a]]
        /\ Status(a) \in UncertainRollback
    BY <1>6 DEF RollbackReconcileLoad, queueVars
  <2>2. "k_get" \in Steps /\ pc'[w] = "k_get" /\ job'[w] = a /\ held'[w] = rollback[a]
    <3>1. "k_get" \in Steps
      BY DEF Steps, RollbackReconcilerSteps
    <3>2. DOMAIN held = Workers
      BY DEF Grounds, TypeOK
    <3> QED BY <1>a, <2>1, <3>1, <3>2, BeginType
  <2>3. rollback[a] # NoRollback /\ ValidRollback(snapshot[a], rollback[a])
    BY <2>1 DEF Grounds, BaseInv, RollbackContract
  <2>4. Planned(Box(a), Plan[a])
    BY <2>3 DEF EffectInv, StatusesTold, Told
  <2>5. KnownNext(w)
    BY <2>1, <2>2, <2>3, <2>4
       DEF KnownNext, Known, ForwardIntent, BackwardIntent, Box, ValidRollback
  <2> QED BY <2>1, <2>5, QuietTold DEF Outcome
<1> QED BY <1>0, <1>1, <1>2, <1>3, <1>4, <1>5, <1>6

(* An append to the log, a request and the end of a call.                  *)
LEMMA AuditOutcome ==
    ASSUME EffectInv, Grounds, UNCHANGED box, NEW w \in Workers,
           Audit(w) \/ LastAudit(w) \/ TornAudit(w) \/ Stop(w)
    PROVE  Outcome(w)
<1>0. WorkerInv
  BY DEF Grounds
<1>1. UNCHANGED <<history, rollback>>
  BY DEF Audit, LastAudit, TornAudit, Stop, queueVars
<1>2. CASE LastAudit(w) \/ TornAudit(w) \/ Stop(w)
  <2>1. pc'[w] = "idle"
    BY <1>0, <1>2, IdleType DEF LastAudit, TornAudit, Stop
  <2>2. "idle" \notin Knowing
    BY DEF Knowing, ForwardIntent, BackwardIntent
  <2> QED BY <1>1, <2>1, <2>2, KnowsNothing, QuietTold DEF Outcome
<1>3. CASE Audit(w)
  <2>1. PICK step \in Steps : <<pc[w], step>> \in AfterAudit /\ Goto(w, step)
    BY <1>3 DEF Audit
  <2>2. pc[w] # "idle" /\ pc'[w] = step
        /\ UNCHANGED <<snapshot, history, job, seen, base, held>>
    BY <1>0, <1>3, <2>1, GotoType DEF Audit, MidAudits, queueVars
  <2>3. Known(pc[w], Box(job[w]), snapshot[job[w]], Plan[job[w]],
              history[job[w]], seen[w], base[w], held[w])
    BY <2>2 DEF EffectInv, WorkersKnow
  <2>4. \/ step \in {"x_get", "c_get", "r_get"}
        \/ pc[w] = "x_audit_wif" /\ step = "x_send"
        \/ pc[w] = "r_audit_wif" /\ step = "r_send"
    BY <2>1 DEF AfterAudit
  <2>5. KnownNext(w)
    BY <2>2, <2>3, <2>4 DEF KnownNext, Known, ForwardIntent, BackwardIntent, Box
  <2> QED BY <1>1, <2>5, QuietTold DEF Outcome
<1> QED BY <1>2, <1>3

(* The verdicts that say what the mailbox holds come from the steps that   *)
(* saw it there.                                                           *)
LEMMA VerdictFrom ==
    ASSUME NEW step, NEW to, <<step, to>> \in Verdicts
    PROVE  /\ to \in Statuses
           /\ to = "succeeded" => step \in {"x_complete", "c_applied"}
           /\ to = "rolled_back" => step \in {"r_complete", "k_applied"}
BY DEF Verdicts, Statuses

LEMMA VerdictOutcome ==
    ASSUME EffectInv, Grounds, UNCHANGED box, NEW w \in Workers, pc[w] # "idle",
           NEW to, <<pc[w], to>> \in Verdicts, Transition(job[w], to),
           UNCHANGED rollback, Continue(w, "audit_outcome")
    PROVE  Outcome(w)
<1>0. WorkerInv /\ QueueTypeOK' /\ job[w] \in Actions
  BY DEF Grounds, WorkerInv
<1>1. Known(pc[w], Box(job[w]), snapshot[job[w]], Plan[job[w]],
            history[job[w]], seen[w], base[w], held[w])
  BY DEF EffectInv, WorkersKnow
<1>2. /\ to = "succeeded" => Hit(Box(job[w]), snapshot[job[w]], Plan[job[w]])
      /\ to = "rolled_back" => Undone(Box(job[w]), snapshot[job[w]], Plan[job[w]])
  BY <1>1, VerdictFrom DEF Known
<1>3. \A a \in Actions : ToldNext(a)
  BY <1>0, <1>2, TransitionTold
<1>4. pc'[w] = "audit_outcome"
  <2>1. "audit_outcome" \in Steps
    BY DEF Steps
  <2> QED BY <1>0, <2>1, ContinueType
<1>5. pc'[w] \notin Knowing
  BY <1>4 DEF Knowing, ForwardIntent, BackwardIntent
<1> QED BY <1>3, <1>5, KnowsNothing DEF Outcome

(* A write intent is the last entry of the history it was marked in.       *)
LEMMA IntentMarked ==
    ASSUME EffectInv, Grounds, NEW w \in Workers, pc[w] # "idle", NEW to,
           Transition(job[w], to), NEW step \in Steps, Continue(w, step)
    PROVE  /\ pc'[w] = step
           /\ history'[job[w]][seen'[w]] = to
           /\ UNCHANGED <<snapshot, job, base, held>>
<1>0. WorkerInv /\ QueueTypeOK /\ QueueTypeOK' /\ job[w] \in Actions
  BY DEF Grounds, WorkerInv
<1>1. /\ to \in Statuses /\ history[job[w]] \in Seq(Statuses)
      /\ history'[job[w]] = Append(history[job[w]], to)
      /\ snapshot' = snapshot
  BY <1>0, TransitionStep DEF QueueTypeOK
<1>2. /\ pc'[w] = step /\ seen'[w] = Len(history'[job[w]])
      /\ UNCHANGED <<job, base, held>>
  BY <1>0, ContinueType
<1>3. history'[job[w]][seen'[w]] = to
  BY <1>1, <1>2
<1> QED BY <1>1, <1>2, <1>3

LEMMA ExecuteOutcome ==
    ASSUME EffectInv, Grounds, UNCHANGED box, NEW w \in Workers, Execute(w)
    PROVE  Outcome(w)
<1>0. /\ WorkerInv /\ QueueTypeOK' /\ pc[w] # "idle"
      /\ job[w] \in Actions /\ snapshot[job[w]] # NoSnapshot
  BY DEF Grounds, WorkerInv, Execute, ExecuteGet, ExecuteMark, ExecuteSend,
         ExecuteReply, ExecuteFinish
<1>a. Known(pc[w], Box(job[w]), snapshot[job[w]], Plan[job[w]],
            history[job[w]], seen[w], base[w], held[w])
  BY <1>0 DEF EffectInv, WorkersKnow
<1>b. {"x_fail", "x_complete", "x_mark", "x_audit_wif", "x_wait", "x_unknown"}
        \subseteq Steps
  BY DEF Steps, ExecutorSteps
<1>c. {"x_fail", "x_unknown"} \cap Knowing = {}
  BY DEF Knowing, ForwardIntent, BackwardIntent
<1>1. CASE ExecuteGet(w)
  <2> DEFINE a == job[w]
  <2>0. /\ UNCHANGED <<snapshot, history, rollback, job, seen, held>>
        /\ base'[w] = Len(Box(a))
    <3>1. DOMAIN base = Workers
      BY DEF Grounds, TypeOK
    <3> QED BY <1>1, <3>1 DEF ExecuteGet, queueVars
  <2>1. Len(Box(a)) \in Nat \ {0}
    BY <1>0, LiveType
  <2>2. CASE Goto(w, "x_fail")
    <3>1. KnownNext(w)
      BY <1>0, <1>b, <1>c, <2>2, GotoType, KnowsNothing
    <3> QED BY <2>0, <3>1, QuietTold DEF Outcome
  <2>3. CASE Unchanged(a) /\ Live(a) = Target(a) /\ Goto(w, "x_complete")
    <3>1. pc'[w] = "x_complete"
      BY <1>0, <1>b, <2>3, GotoType
    <3>2. Hit(Box(a), snapshot[a], Plan[a])
      BY <2>1, <2>3 DEF Hit, Unchanged, Live, Target
    <3>3. KnownNext(w)
      BY <2>0, <3>1, <3>2 DEF KnownNext, Known, ForwardIntent, BackwardIntent, Box
    <3> QED BY <2>0, <3>3, QuietTold DEF Outcome
  <2>4. CASE Unchanged(a) /\ Live(a) # Target(a) /\ Goto(w, "x_mark")
    <3>1. pc'[w] = "x_mark"
      BY <1>0, <1>b, <2>4, GotoType
    <3>2. ForwardFrom(Box(a), Len(Box(a)), snapshot[a], Plan[a])
      BY <2>1, <2>4 DEF ForwardFrom, Forward, Unchanged, Live, Target
    <3>3. KnownNext(w)
      BY <2>0, <3>1, <3>2 DEF KnownNext, Known, ForwardIntent, BackwardIntent, Box
    <3> QED BY <2>0, <3>3, QuietTold DEF Outcome
  <2> QED BY <1>1, <2>2, <2>3, <2>4 DEF ExecuteGet
<1>2. CASE ExecuteMark(w)
  <2>1. /\ Transition(job[w], "write_in_flight") /\ rollback' = rollback
        /\ Continue(w, "x_audit_wif") /\ pc[w] = "x_mark"
    BY <1>2 DEF ExecuteMark, MarkWriteInFlight
  <2>2. \A a \in Actions : ToldNext(a)
    BY <1>0, <2>1, TransitionTold
  <2>3. /\ pc'[w] = "x_audit_wif"
        /\ history'[job[w]][seen'[w]] = "write_in_flight"
        /\ UNCHANGED <<snapshot, job, base, held>>
    BY <1>0, <1>b, <2>1, IntentMarked
  <2>4. KnownNext(w)
    BY <1>a, <2>1, <2>3 DEF KnownNext, Known, ForwardIntent, BackwardIntent, Box
  <2> QED BY <2>2, <2>4 DEF Outcome
<1>3. CASE ExecuteSend(w)
  <2>1. /\ UNCHANGED <<snapshot, history, rollback, job, seen, base, held>>
        /\ pc[w] = "x_send" /\ pc'[w] = "x_wait"
    BY <1>0, <1>3, <1>b, GotoType DEF ExecuteSend, queueVars
  <2>2. KnownNext(w)
    BY <1>a, <2>1 DEF KnownNext, Known, ForwardIntent, BackwardIntent, Box
  <2> QED BY <2>1, <2>2, QuietTold DEF Outcome
<1>4. CASE ExecuteReply(w)
  <2>1. /\ UNCHANGED <<snapshot, history, rollback, job, seen, base, held>>
        /\ pc[w] = "x_wait"
    BY <1>4 DEF ExecuteReply, queueVars
  <2>2. CASE Goto(w, "x_fail") \/ Goto(w, "x_unknown")
    <3>1. KnownNext(w)
      BY <1>0, <1>b, <1>c, <2>2, GotoType, KnowsNothing
    <3> QED BY <2>1, <3>1, QuietTold DEF Outcome
  <2>3. CASE Applied(ExecutionWrite(w)) /\ Goto(w, "x_complete")
    <3>1. pc'[w] = "x_complete"
      BY <1>0, <1>b, <2>3, GotoType
    <3>2. PICK i \in 1 .. Len(Box(job[w])) : Box(job[w])[i] = ExecutionWrite(w)
      BY <2>3 DEF Applied, ExecutionWrite
    <3>3. /\ Box(job[w])[i].by = job[w] /\ Box(job[w])[i].base = base[w]
          /\ Box(job[w])[i].cats = FinalCategories(snapshot[job[w]], Plan[job[w]])
      BY <3>2 DEF ExecutionWrite, Target
    <3>4. job[w] # Person
      BY <1>0, AuthorAssumption
    <3>5. base[w] < i
      BY <1>0, <3>3, <3>4, MessageOfAssumption DEF EffectInv, RequestsSound, Box
    <3>6. base[w] \in 1 .. Len(Box(job[w])) /\ snapshot[job[w]].key <= base[w]
      BY <1>a, <2>1 DEF Known, ForwardIntent, ForwardFrom
    <3>7. snapshot[job[w]].key \in Nat
      BY <1>0, MaxKeyAssumption DEF Grounds, QueueTypeOK, Snapshots, NoKey
    <3>8. Hit(Box(job[w]), snapshot[job[w]], Plan[job[w]])
      <4>1. i >= snapshot[job[w]].key
        <5>1. Len(Box(job[w])) \in Nat
          BY <1>0, LiveType
        <5> QED BY <3>2, <3>5, <3>6, <3>7, <5>1
      <4> QED BY <3>2, <3>3, <4>1 DEF Hit
    <3>9. KnownNext(w)
      BY <2>1, <3>1, <3>8 DEF KnownNext, Known, ForwardIntent, BackwardIntent, Box
    <3> QED BY <2>1, <3>9, QuietTold DEF Outcome
  <2> QED BY <1>4, <2>2, <2>3 DEF ExecuteReply
<1>5. CASE ExecuteFinish(w)
  <2>1. PICK to \in Statuses :
            <<pc[w], to>> \in Verdicts /\ FinalizeExecution(job[w], to)
    BY <1>5 DEF ExecuteFinish
  <2>2. Transition(job[w], to) /\ rollback' = rollback
    BY <2>1 DEF FinalizeExecution
  <2> QED BY <1>0, <1>5, <2>1, <2>2, VerdictOutcome DEF ExecuteFinish
<1> QED BY <1>1, <1>2, <1>3, <1>4, <1>5 DEF Execute

LEMMA ReconcileOutcome ==
    ASSUME EffectInv, Grounds, UNCHANGED box, NEW w \in Workers, Reconcile(w)
    PROVE  Outcome(w)
<1>0. /\ WorkerInv /\ pc[w] # "idle"
      /\ job[w] \in Actions /\ snapshot[job[w]] # NoSnapshot
  BY DEF Grounds, WorkerInv, Reconcile, ReconcileGet, ReconcileResolve
<1>b. {"audit_outcome", "c_applied", "c_not_applied"} \subseteq Steps
  BY DEF Steps, ReconcilerSteps
<1>c. {"audit_outcome", "c_not_applied"} \cap Knowing = {}
  BY DEF Knowing, ForwardIntent, BackwardIntent
<1>1. CASE ReconcileGet(w)
  <2>0. UNCHANGED <<snapshot, history, rollback, job, seen, base, held>>
    BY <1>1 DEF ReconcileGet, queueVars
  <2>1. CASE Goto(w, "audit_outcome") \/ Goto(w, "c_not_applied")
    <3>1. KnownNext(w)
      BY <1>0, <1>b, <1>c, <2>1, GotoType, KnowsNothing
    <3> QED BY <2>0, <3>1, QuietTold DEF Outcome
  <2>2. CASE Live(job[w]) = Target(job[w]) /\ Goto(w, "c_applied")
    <3>1. pc'[w] = "c_applied"
      BY <1>0, <1>b, <2>2, GotoType
    <3>2. Len(Box(job[w])) \in Nat \ {0}
      BY <1>0, LiveType
    <3>3. snapshot[job[w]].key <= Len(Box(job[w]))
      BY <1>0 DEF EffectInv, KeysExist, Queued
    <3>4. snapshot[job[w]].key \in Nat
      BY <1>0, MaxKeyAssumption DEF Grounds, QueueTypeOK, Snapshots, NoKey
    <3>5. Hit(Box(job[w]), snapshot[job[w]], Plan[job[w]])
      BY <2>2, <3>2, <3>3, <3>4 DEF Hit, Live, Target
    <3>6. KnownNext(w)
      BY <2>0, <3>1, <3>5 DEF KnownNext, Known, ForwardIntent, BackwardIntent, Box
    <3> QED BY <2>0, <3>6, QuietTold DEF Outcome
  <2> QED BY <1>1, <2>1, <2>2 DEF ReconcileGet
<1>2. CASE ReconcileResolve(w)
  <2>1. PICK to \in Statuses :
            <<pc[w], to>> \in Verdicts /\ ResolveUncertainExecution(job[w], to)
    BY <1>2 DEF ReconcileResolve
  <2>2. Transition(job[w], to) /\ rollback' = rollback
    BY <2>1 DEF ResolveUncertainExecution
  <2> QED BY <1>0, <1>2, <2>1, <2>2, VerdictOutcome DEF ReconcileResolve
<1> QED BY <1>1, <1>2 DEF Reconcile

LEMMA RollbackOutcome ==
    ASSUME EffectInv, Grounds, UNCHANGED box, NEW w \in Workers, Rollback(w)
    PROVE  Outcome(w)
<1>0. /\ WorkerInv /\ QueueTypeOK' /\ pc[w] # "idle"
      /\ job[w] \in Actions /\ snapshot[job[w]] # NoSnapshot
  BY DEF Grounds, WorkerInv, Rollback, RollbackGet, RollbackMark,
         RollbackNoChange, RollbackSend, RollbackReply, RollbackFinish
<1>a. Known(pc[w], Box(job[w]), snapshot[job[w]], Plan[job[w]],
            history[job[w]], seen[w], base[w], held[w])
  BY <1>0 DEF EffectInv, WorkersKnow
<1>b. {"r_fail", "r_no_change", "r_mark", "r_audit_wif", "r_wait", "r_complete",
       "r_unknown", "audit_outcome"} \subseteq Steps
  BY DEF Steps, RollbackSteps
<1>c. {"r_fail", "r_unknown", "audit_outcome"} \cap Knowing = {}
  BY DEF Knowing, ForwardIntent, BackwardIntent
<1>1. CASE RollbackGet(w)
  <2> DEFINE a == job[w]
             target == RollbackTarget(Live(a), snapshot[a])
             found == [ reason |-> held[w].reason, observed |-> Live(a),
                        target |-> target ]
  <2>0. /\ UNCHANGED <<snapshot, history, rollback, job, seen>>
        /\ base'[w] = Len(Box(a))
    <3>1. DOMAIN base = Workers
      BY DEF Grounds, TypeOK
    <3> QED BY <1>1, <3>1 DEF RollbackGet, queueVars
  <2>1. Len(Box(a)) \in Nat \ {0}
    BY <1>0, LiveType
  <2>2. CASE Goto(w, "r_fail")
    <3>1. KnownNext(w)
      BY <1>0, <1>b, <1>c, <2>2, GotoType, KnowsNothing
    <3> QED BY <2>0, <3>1, QuietTold DEF Outcome
  <2>3. CASE /\ Live(a) \cap Managed = Plan[a]
             /\ held' = [held EXCEPT ![w] = found]
             /\ Goto(w, IF target = Live(a) THEN "r_no_change" ELSE "r_mark")
    <3>0. held'[w].target = target
      <4>1. DOMAIN held = Workers
        BY DEF Grounds, TypeOK
      <4>2. held'[w] = found
        BY <2>3, <4>1
      <4> QED BY <4>2
    <3>1. target \cap Managed = snapshot[a].cats \cap Managed
      BY DEF RollbackTarget
    <3>2. CASE target = Live(a)
      <4>1. pc'[w] = "r_no_change"
        BY <1>0, <1>b, <2>3, <3>2, GotoType
      <4>2. Undone(Box(a), snapshot[a], Plan[a])
        BY <2>1, <2>3, <3>1, <3>2 DEF Undone, Live
      <4>3. KnownNext(w)
        BY <2>0, <4>1, <4>2 DEF KnownNext, Known, ForwardIntent, BackwardIntent, Box
      <4> QED BY <2>0, <4>3, QuietTold DEF Outcome
    <3>3. CASE target # Live(a)
      <4>1. pc'[w] = "r_mark"
        BY <1>0, <1>b, <2>3, <3>3, GotoType
      <4>2. snapshot[a].key <= Len(Box(a))
        BY <1>0 DEF EffectInv, KeysExist, Queued
      <4>3. BackwardFrom(target, Box(a), Len(Box(a)), snapshot[a], Plan[a])
        BY <2>1, <2>3, <3>3, <4>2 DEF BackwardFrom, Backward, Live
      <4>4. KnownNext(w)
        BY <2>0, <3>0, <4>1, <4>3
           DEF KnownNext, Known, ForwardIntent, BackwardIntent, Box
      <4> QED BY <2>0, <4>4, QuietTold DEF Outcome
    <3> QED BY <3>2, <3>3
  <2> QED BY <1>1, <2>2, <2>3 DEF RollbackGet
<1>2. ASSUME NEW to \in {"rollback_write_in_flight", "rolled_back"},
             PrepareOrCompleteRollback(job[w], held[w], to),
             Planned(Box(job[w]), Plan[job[w]]),
             to = "rolled_back" => Undone(Box(job[w]), snapshot[job[w]], Plan[job[w]])
      PROVE  \A a \in Actions : ToldNext(a)
  <2>1. /\ Transition(job[w], to)
        /\ rollback' = [rollback EXCEPT ![job[w]] = held[w]]
    BY <1>2 DEF PrepareOrCompleteRollback
  <2>2. DOMAIN rollback = Actions
    BY DEF Grounds, QueueTypeOK
  <2>3. \A a \in Actions : a # job[w] => rollback'[a] = rollback[a]
    BY <2>1, <2>2
  <2> QED BY <1>0, <1>2, <2>1, <2>3, TransitionTold
<1>3. CASE RollbackMark(w)
  <2>1. /\ PrepareOrCompleteRollback(job[w], held[w], "rollback_write_in_flight")
        /\ Continue(w, "r_audit_wif") /\ pc[w] = "r_mark"
    BY <1>3 DEF RollbackMark
  <2>2. BackwardFrom(held[w].target, Box(job[w]), base[w], snapshot[job[w]],
                     Plan[job[w]])
    BY <1>a, <2>1 DEF Known
  <2>3. Planned(Box(job[w]), Plan[job[w]])
    BY <2>2 DEF Planned, BackwardFrom, Backward
  <2>4. \A a \in Actions : ToldNext(a)
    BY <1>2, <2>1, <2>3
  <2>5. /\ pc'[w] = "r_audit_wif"
        /\ history'[job[w]][seen'[w]] = "rollback_write_in_flight"
        /\ UNCHANGED <<snapshot, job, base, held>>
    BY <1>0, <1>b, <2>1, IntentMarked DEF PrepareOrCompleteRollback
  <2>6. KnownNext(w)
    BY <2>2, <2>5 DEF KnownNext, Known, ForwardIntent, BackwardIntent, Box
  <2> QED BY <2>4, <2>6 DEF Outcome
<1>4. CASE RollbackNoChange(w)
  <2>1. /\ PrepareOrCompleteRollback(job[w], held[w], "rolled_back")
        /\ Continue(w, "audit_outcome") /\ pc[w] = "r_no_change"
    BY <1>4 DEF RollbackNoChange
  <2>2. Undone(Box(job[w]), snapshot[job[w]], Plan[job[w]])
    BY <1>a, <2>1 DEF Known
  <2>3. Planned(Box(job[w]), Plan[job[w]])
    BY <2>2 DEF Planned, Undone
  <2>4. \A a \in Actions : ToldNext(a)
    BY <1>2, <2>1, <2>2, <2>3
  <2>5. KnownNext(w)
    BY <1>0, <1>b, <1>c, <2>1, ContinueType, KnowsNothing
  <2> QED BY <2>4, <2>5 DEF Outcome
<1>5. CASE RollbackSend(w)
  <2>1. /\ UNCHANGED <<snapshot, history, rollback, job, seen, base, held>>
        /\ pc[w] = "r_send" /\ pc'[w] = "r_wait"
    BY <1>0, <1>5, <1>b, GotoType DEF RollbackSend, queueVars
  <2>2. KnownNext(w)
    BY <1>a, <2>1 DEF KnownNext, Known, ForwardIntent, BackwardIntent, Box
  <2> QED BY <2>1, <2>2, QuietTold DEF Outcome
<1>6. CASE RollbackReply(w)
  <2>1. /\ UNCHANGED <<snapshot, history, rollback, job, seen, base, held>>
        /\ pc[w] = "r_wait"
    BY <1>6 DEF RollbackReply, queueVars
  <2>2. CASE Goto(w, "r_fail") \/ Goto(w, "r_unknown")
    <3>1. KnownNext(w)
      BY <1>0, <1>b, <1>c, <2>2, GotoType, KnowsNothing
    <3> QED BY <2>1, <3>1, QuietTold DEF Outcome
  <2>3. CASE Applied(RestoringWrite(w)) /\ Goto(w, "r_complete")
    <3>1. pc'[w] = "r_complete"
      BY <1>0, <1>b, <2>3, GotoType
    <3>2. PICK j \in 1 .. Len(Box(job[w])) : Box(job[w])[j] = RestoringWrite(w)
      BY <2>3 DEF Applied, RestoringWrite
    <3>3. /\ Box(job[w])[j].by = job[w] /\ Box(job[w])[j].base = base[w]
          /\ Box(job[w])[j].cats = held[w].target
      BY <3>2 DEF RestoringWrite
    <3>4. job[w] # Person
      BY <1>0, AuthorAssumption
    <3>5. base[w] < j
      BY <1>0, <3>3, <3>4, MessageOfAssumption DEF EffectInv, RequestsSound, Box
    <3>6. BackwardFrom(held[w].target, Box(job[w]), base[w], snapshot[job[w]],
                       Plan[job[w]])
      BY <1>a, <2>1 DEF Known, BackwardIntent
    <3>7. /\ base[w] \in 1 .. Len(Box(job[w]))
          /\ Box(job[w])[base[w]].cats \cap Managed = Plan[job[w]]
          /\ held[w].target \cap Managed = snapshot[job[w]].cats \cap Managed
      BY <3>6 DEF BackwardFrom, Backward, RollbackTarget
    <3>8. base[w] <= j
      BY <3>2, <3>5, <3>7
    <3>9. Undone(Box(job[w]), snapshot[job[w]], Plan[job[w]])
      BY <3>2, <3>3, <3>7, <3>8 DEF Undone
    <3>10. KnownNext(w)
      BY <2>1, <3>1, <3>9 DEF KnownNext, Known, ForwardIntent, BackwardIntent, Box
    <3> QED BY <2>1, <3>10, QuietTold DEF Outcome
  <2> QED BY <1>6, <2>2, <2>3 DEF RollbackReply
<1>7. CASE RollbackFinish(w)
  <2>1. PICK to \in Statuses :
            <<pc[w], to>> \in Verdicts /\ FinalizeRollback(job[w], to)
    BY <1>7 DEF RollbackFinish
  <2>2. Transition(job[w], to) /\ rollback' = rollback
    BY <2>1 DEF FinalizeRollback
  <2> QED BY <1>0, <1>7, <2>1, <2>2, VerdictOutcome DEF RollbackFinish
<1> QED BY <1>1, <1>3, <1>4, <1>5, <1>6, <1>7 DEF Rollback

LEMMA RollbackReconcileOutcome ==
    ASSUME EffectInv, Grounds, UNCHANGED box, NEW w \in Workers,
           RollbackReconcile(w)
    PROVE  Outcome(w)
<1>0. /\ WorkerInv /\ pc[w] # "idle"
      /\ job[w] \in Actions /\ snapshot[job[w]] # NoSnapshot
  BY DEF Grounds, WorkerInv, RollbackReconcile, RollbackReconcileGet,
         RollbackReconcileResolve
<1>b. {"audit_outcome", "k_applied", "k_not_applied"} \subseteq Steps
  BY DEF Steps, RollbackReconcilerSteps
<1>c. {"audit_outcome", "k_not_applied"} \cap Knowing = {}
  BY DEF Knowing, ForwardIntent, BackwardIntent
<1>1. CASE RollbackReconcileGet(w)
  <2>0. /\ UNCHANGED <<snapshot, history, rollback, job, seen, base, held>>
        /\ pc[w] = "k_get"
    BY <1>1 DEF RollbackReconcileGet, queueVars
  <2>1. CASE Goto(w, "audit_outcome") \/ Goto(w, "k_not_applied")
    <3>1. KnownNext(w)
      BY <1>0, <1>b, <1>c, <2>1, GotoType, KnowsNothing
    <3> QED BY <2>0, <3>1, QuietTold DEF Outcome
  <2>2. CASE Live(job[w]) = held[w].target /\ Goto(w, "k_applied")
    <3>1. pc'[w] = "k_applied"
      BY <1>0, <1>b, <2>2, GotoType
    <3>2. Len(Box(job[w])) \in Nat \ {0}
      BY <1>0, LiveType
    <3>3. /\ Planned(Box(job[w]), Plan[job[w]])
          /\ held[w].target \cap Managed = snapshot[job[w]].cats \cap Managed
      BY <1>0, <2>0 DEF EffectInv, WorkersKnow, Known
    <3>4. PICK i \in 1 .. Len(Box(job[w])) :
              Box(job[w])[i].cats \cap Managed = Plan[job[w]]
      BY <3>3 DEF Planned
    <3>5. /\ Len(Box(job[w])) \in 1 .. Len(Box(job[w])) /\ i <= Len(Box(job[w]))
          /\ Box(job[w])[Len(Box(job[w]))].cats = held[w].target
      BY <2>2, <3>2, <3>4 DEF Live
    <3>6. Undone(Box(job[w]), snapshot[job[w]], Plan[job[w]])
      BY <3>3, <3>4, <3>5 DEF Undone
    <3>7. KnownNext(w)
      BY <2>0, <3>1, <3>6 DEF KnownNext, Known, ForwardIntent, BackwardIntent, Box
    <3> QED BY <2>0, <3>7, QuietTold DEF Outcome
  <2> QED BY <1>1, <2>1, <2>2 DEF RollbackReconcileGet
<1>2. CASE RollbackReconcileResolve(w)
  <2>1. PICK to \in Statuses :
            <<pc[w], to>> \in Verdicts /\ ResolveUncertainRollback(job[w], to)
    BY <1>2 DEF RollbackReconcileResolve
  <2>2. Transition(job[w], to) /\ rollback' = rollback
    BY <2>1 DEF ResolveUncertainRollback
  <2> QED BY <1>0, <1>2, <2>1, <2>2, VerdictOutcome DEF RollbackReconcileResolve
<1> QED BY <1>1, <1>2 DEF RollbackReconcile

-----------------------------------------------------------------------------
(* Only a proposal puts an action in the queue, and from a version that    *)
(* exists.                                                                 *)
LEMMA OthersDoNotQueue ==
    ASSUME NEW w \in Workers, WorkerStep(w), ~ \E a \in Actions : Propose(w, a)
    PROVE  UNCHANGED snapshot
<1>1. CASE Start(w)
  <2>1. PICK a \in Actions :
        \/ \E to \in Targets(Status(a)) : Decide(w, a, to)
        \/ Preview(w, a)
        \/ ExecuteClaim(w, a)
        \/ ClaimDone(w, a)
        \/ ReconcileLoad(w, a)
        \/ \E reason \in Reasons : RollbackClaim(w, a, reason)
        \/ RollbackReconcileLoad(w, a)
    BY <1>1 DEF Start
  <2> QED BY <2>1 DEF Decide, Review, Preview, ExecuteClaim, ClaimExecution,
                      ClaimStaleExecution, ClaimDone, ReconcileLoad, RollbackClaim,
                      ClaimRollback, RollbackReconcileLoad, Transition, queueVars
<1>2. CASE Audit(w) \/ LastAudit(w) \/ TornAudit(w) \/ Stop(w)
  BY <1>2 DEF Audit, LastAudit, TornAudit, Stop, queueVars
<1>3. CASE Execute(w) \/ Reconcile(w)
  BY <1>3 DEF Execute, ExecuteGet, ExecuteMark, ExecuteSend, ExecuteReply,
              ExecuteFinish, Reconcile, ReconcileGet, ReconcileResolve,
              MarkWriteInFlight, FinalizeExecution, ResolveUncertainExecution,
              Transition, queueVars
<1>4. CASE Rollback(w) \/ RollbackReconcile(w)
  BY <1>4 DEF Rollback, RollbackGet, RollbackMark, RollbackNoChange, RollbackSend,
              RollbackReply, RollbackFinish, RollbackReconcile,
              RollbackReconcileGet, RollbackReconcileResolve,
              PrepareOrCompleteRollback, FinalizeRollback,
              ResolveUncertainRollback, Transition, queueVars
<1> QED BY <1>1, <1>2, <1>3, <1>4 DEF WorkerStep

LEMMA KeysStep ==
    ASSUME EffectInv, Grounds, [Next]_vars
    PROVE  KeysExist'
<1> SUFFICES ASSUME NEW a \in Actions, snapshot'[a] # NoSnapshot
             PROVE  snapshot'[a].key <= Len(box'[MessageOf[a]])
  BY DEF KeysExist, Queued, Box
<1>0. /\ WorkerInv /\ QueueTypeOK'
      /\ Len(Box(a)) \in Nat \ {0} /\ Len(box'[MessageOf[a]]) \in Nat
      /\ Len(Box(a)) <= Len(box'[MessageOf[a]])
  BY MessageOfAssumption, LiveType DEF Grounds, VersionsKept, Extends, Box
<1>1. ASSUME snapshot'[a].key <= Len(Box(a))
      PROVE  snapshot'[a].key <= Len(box'[MessageOf[a]])
  <2>1. snapshot'[a].key \in Nat
    BY <1>0, MaxKeyAssumption DEF QueueTypeOK, Snapshots, NoKey
  <2> QED BY <1>0, <1>1, <2>1
<1>2. CASE snapshot[a] # NoSnapshot
  <2>1. snapshot'[a] = snapshot[a] /\ snapshot[a].key <= Len(Box(a))
    BY <1>2 DEF Grounds, SnapshotsKept, EffectInv, KeysExist, Queued
  <2> QED BY <1>1, <2>1
<1>3. CASE snapshot[a] = NoSnapshot
  <2>1. snapshot' # snapshot
    BY <1>3
  <2>2. PICK w \in Workers : WorkerStep(w)
    BY <2>1 DEF Next, Deliver, Drop, UserEdit, queueVars, vars
  <2>3. PICK b \in Actions : Propose(w, b)
    BY <2>1, <2>2, OthersDoNotQueue
  <2>4. PICK k \in 1 .. MaxKey, key \in NoKey .. MaxKey :
            /\ k <= Len(Box(b)) /\ key \in {NoKey, k}
            /\ Enqueue(b, ProposalFrom(b, k, key))
    BY <2>3 DEF Propose
  <2>5. DOMAIN snapshot = Actions
    BY DEF Grounds, QueueTypeOK
  <2>6. a = b /\ snapshot'[a] = ProposalFrom(a, k, key)
    BY <1>3, <2>4, <2>5 DEF Enqueue
  <2>7. snapshot'[a].key = key
    BY <2>6 DEF ProposalFrom
  <2>8. key <= Len(Box(a))
    BY <1>0, <2>4, <2>6, MaxKeyAssumption DEF NoKey
  <2> QED BY <1>1, <2>7, <2>8
<1> QED BY <1>2, <1>3

(* A request stays sound wherever it is.                                   *)
SoundNext(r, m) ==
    Sound(r, box'[m], snapshot'[r.by], Plan[r.by], history'[r.by][r.at])

LEMMA SoundStays ==
    ASSUME EffectInv, Grounds, NEW m \in Messages, NEW r, r.by \in Actions,
           Intended(r),
           Sound(r, box[m], snapshot[r.by], Plan[r.by], history[r.by][r.at])
    PROVE  SoundNext(r, m)
<1>1. r.at \in 1 .. Len(history[r.by]) /\ history[r.by] # <<>>
  BY DEF Intended
<1>2. history'[r.by][r.at] = history[r.by][r.at]
  BY <1>1 DEF Grounds, FilesGrow
<1>3. snapshot'[r.by] = snapshot[r.by]
  BY <1>1 DEF Grounds, BaseInv, AbsentIsBlank, Queued, SnapshotsKept
<1>4. Extends(box[m], box'[m])
  BY DEF Grounds, VersionsKept
<1> QED BY <1>2, <1>3, <1>4, ExtendsKeeps DEF SoundNext

(* Only the two sending steps put a request on the wire.                   *)
LEMMA QuietWire ==
    ASSUME NEW w \in Workers, WorkerStep(w), ~ExecuteSend(w), ~RollbackSend(w)
    PROVE  UNCHANGED wire
<1>1. CASE Start(w) \/ Audit(w) \/ LastAudit(w) \/ TornAudit(w) \/ Stop(w)
  BY <1>1 DEF Start, Stop, Propose, Decide, Preview, ExecuteClaim, ClaimDone,
              ReconcileLoad, RollbackClaim, RollbackReconcileLoad, writeVars,
              Audit, LastAudit, TornAudit
<1>2. CASE Execute(w) \/ Reconcile(w)
  BY <1>2 DEF Execute, ExecuteGet, ExecuteMark, ExecuteReply, ExecuteFinish,
              Reconcile, ReconcileGet, ReconcileResolve, writeVars
<1>3. CASE Rollback(w) \/ RollbackReconcile(w)
  BY <1>3 DEF Rollback, RollbackGet, RollbackMark, RollbackNoChange,
              RollbackReply, RollbackFinish, RollbackReconcile,
              RollbackReconcileGet, RollbackReconcileResolve, writeVars
<1> QED BY <1>1, <1>2, <1>3 DEF WorkerStep

LEMMA RequestsStep ==
    ASSUME EffectInv, Grounds, [Next]_vars
    PROVE  RequestsSound'
<1>0. WorkerInv /\ WriteAhead
  BY DEF Grounds, EffectInv, AheadInv
<1>1. ASSUME NEW r \in wire
      PROVE  r.by \in Actions /\ SoundNext(r, MessageOf[r.by])
  <2>1. r.by \in Actions /\ MessageOf[r.by] \in Messages /\ Intended(r)
    BY <1>0, MessageOfAssumption DEF WorkerInv, WriteAhead
  <2>2. Sound(r, box[MessageOf[r.by]], snapshot[r.by], Plan[r.by],
              history[r.by][r.at])
    BY DEF EffectInv, RequestsSound, Box
  <2> QED BY <2>1, <2>2, SoundStays
<1> DEFINE Own(m, i, r) == r.by # Person =>
              MessageOf[r.by] = m /\ r.base < i /\ SoundNext(r, m)
<1>2. ASSUME NEW m \in Messages, NEW i \in 1 .. Len(box[m])
      PROVE  Own(m, i, box[m][i])
  <2>1. box[m][i] \in Writes
    BY DEF Grounds, TypeOK
  <2> SUFFICES ASSUME box[m][i].by # Person
               PROVE  /\ MessageOf[box[m][i].by] = m /\ box[m][i].base < i
                      /\ SoundNext(box[m][i], m)
    OBVIOUS
  <2>2. box[m][i].by \in Actions /\ Intended(box[m][i])
    BY <1>0, <2>1 DEF WriteAhead, Writes
  <2>3. /\ MessageOf[box[m][i].by] = m /\ box[m][i].base < i
        /\ Sound(box[m][i], box[m], snapshot[box[m][i].by],
                 Plan[box[m][i].by], history[box[m][i].by][box[m][i].at])
    BY DEF EffectInv, RequestsSound
  <2>4. SoundNext(box[m][i], m)
    BY <2>2, <2>3, SoundStays
  <2> QED BY <2>3, <2>4
<1>3. ASSUME \A m \in Messages : \A i \in 1 .. Len(box'[m]) : Own(m, i, box'[m][i]),
             \A r \in wire' : SoundNext(r, MessageOf[r.by])
      PROVE  RequestsSound'
  BY <1>3 DEF RequestsSound, SoundNext, Box
<1>4. CASE UNCHANGED <<box, wire>>
  <2> HIDE DEF Own
  <2> QED BY <1>1, <1>2, <1>3, <1>4
<1>5. ASSUME NEW m \in Messages, NEW r \in Writes, wire' \subseteq wire,
             box' = [box EXCEPT ![m] = Append(@, r)],
             Own(m, Len(box[m]) + 1, r)
      PROVE  RequestsSound'
  <2> HIDE DEF Own
  <2>1. ASSUME NEW n \in Messages, NEW i \in 1 .. Len(box'[n])
        PROVE  Own(n, i, box'[n][i])
    <3>1. CASE n # m \/ i # Len(box[m]) + 1
      <4>1. i \in 1 .. Len(box[n]) /\ box'[n][i] = box[n][i]
        BY <1>0, <1>5, <2>1, <3>1, VersionAppend
      <4> QED BY <1>2, <4>1
    <3>2. CASE n = m /\ i = Len(box[m]) + 1
      <4>1. box'[n][i] = r
        BY <1>0, <1>5, <3>2, VersionAppend
      <4> QED BY <1>5, <3>2, <4>1
    <3> QED BY <3>1, <3>2
  <2> QED BY <1>1, <1>3, <1>5, <2>1
<1>6. ASSUME NEW w \in Workers, WorkerStep(w)
      PROVE  RequestsSound'
  <2>0. UNCHANGED box
    BY <1>6, BoxStep DEF Grounds
  <2>1. ASSUME NEW r, pc[w] # "idle", r.by = job[w], r.at = seen[w],
               wire' = wire \cup {r},
               Sound(r, Box(job[w]), snapshot[job[w]], Plan[job[w]],
                     history[job[w]][seen[w]]),
               pc[w] \in Armed
        PROVE  RequestsSound'
    <3>1. /\ job[w] \in Actions /\ MessageOf[job[w]] \in Messages
          /\ pc[w] \in Intending
      BY <1>0, <2>1, MessageOfAssumption DEF WorkerInv, Intending
    <3>2. seen[w] \in Nat /\ Len(history[job[w]]) \in Nat
      BY <3>1 DEF Grounds, TypeOK, FilesGrow
    <3>3. Intended(r)
      BY <2>1, <3>1, <3>2 DEF EffectInv, AheadInv, WorkerAhead, Intended
    <3>4. SoundNext(r, MessageOf[job[w]])
      BY <2>1, <3>1, <3>3, SoundStays DEF Box
    <3> HIDE DEF Own
    <3> QED BY <1>1, <1>2, <1>3, <2>0, <2>1, <3>4
  <2>2. CASE ExecuteSend(w)
    <3>1. pc[w] = "x_send" /\ wire' = wire \cup {ExecutionWrite(w)}
      BY <2>2 DEF ExecuteSend
    <3>2. Known(pc[w], Box(job[w]), snapshot[job[w]], Plan[job[w]],
                history[job[w]], seen[w], base[w], held[w])
      BY <3>1 DEF EffectInv, WorkersKnow
    <3>3. Sound(ExecutionWrite(w), Box(job[w]), snapshot[job[w]], Plan[job[w]],
                history[job[w]][seen[w]])
      BY <3>1, <3>2 DEF Known, Sound, ForwardIntent, ExecutionWrite, Target
    <3> QED BY <2>1, <3>1, <3>3 DEF ExecutionWrite, Armed
  <2>3. CASE RollbackSend(w)
    <3>1. pc[w] = "r_send" /\ wire' = wire \cup {RestoringWrite(w)}
      BY <2>3 DEF RollbackSend
    <3>2. Known(pc[w], Box(job[w]), snapshot[job[w]], Plan[job[w]],
                history[job[w]], seen[w], base[w], held[w])
      BY <3>1 DEF EffectInv, WorkersKnow
    <3>3. Sound(RestoringWrite(w), Box(job[w]), snapshot[job[w]], Plan[job[w]],
                history[job[w]][seen[w]])
      BY <3>1, <3>2 DEF Known, Sound, BackwardIntent, RestoringWrite
    <3> QED BY <2>1, <3>1, <3>3 DEF RestoringWrite, Armed
  <2>4. CASE ~ExecuteSend(w) /\ ~RollbackSend(w)
    <3>1. UNCHANGED wire
      BY <1>6, <2>4, QuietWire
    <3> QED BY <1>4, <2>0, <3>1
  <2> QED BY <2>2, <2>3, <2>4
<1>7. ASSUME NEW r \in wire, Deliver(r)
      PROVE  RequestsSound'
  <2>1. /\ r \in Writes /\ r.by \in Actions /\ MessageOf[r.by] \in Messages
        /\ SoundNext(r, MessageOf[r.by])
    BY <1>0, <1>1, MessageOfAssumption DEF WorkerInv, TypeOK
  <2>2. /\ r.base \in 1 .. Len(box[MessageOf[r.by]])
        /\ Len(box[MessageOf[r.by]]) \in Nat
    <3>1. Sound(r, Box(r.by), snapshot[r.by], Plan[r.by], history[r.by][r.at])
      BY DEF EffectInv, RequestsSound
    <3> QED BY <1>0, <2>1, <3>1, LiveType
            DEF Sound, ForwardFrom, BackwardFrom, Box
  <2>3. r.base < Len(box[MessageOf[r.by]]) + 1
    BY <2>2
  <2> QED BY <1>5, <1>7, <2>1, <2>3 DEF Deliver
<1>8. ASSUME NEW r \in wire, Drop(r)
      PROVE  RequestsSound'
  <2> HIDE DEF Own
  <2>1. UNCHANGED box /\ wire' \subseteq wire
    BY <1>8 DEF Drop
  <2> QED BY <1>1, <1>2, <1>3, <2>1
<1>9. ASSUME NEW m \in Messages, UserEdit(m)
      PROVE  RequestsSound'
  <2>1. PICK c \in UserEdits : box' = [box EXCEPT ![m] = Append(@, ByPerson(c))]
    BY <1>9 DEF UserEdit
  <2>2. ByPerson(c) \in Writes /\ ByPerson(c).by = Person
    BY UserEditsAssumption DEF ByPerson, Writes
  <2> QED BY <1>5, <1>9, <2>1, <2>2 DEF UserEdit
<1>10. CASE UNCHANGED vars
  BY <1>4, <1>10 DEF vars, writeVars
<1> QED BY <1>6, <1>7, <1>8, <1>9, <1>10 DEF Next

-----------------------------------------------------------------------------
(* Every step of every actor.                                              *)
LEMMA OutcomeStep ==
    ASSUME EffectInv, Grounds, NEW w \in Workers, WorkerStep(w)
    PROVE  Outcome(w)
<1>1. UNCHANGED box
  BY BoxStep DEF Grounds
<1> QED BY <1>1, StartOutcome, AuditOutcome, ExecuteOutcome, ReconcileOutcome,
           RollbackOutcome, RollbackReconcileOutcome DEF WorkerStep

LEMMA EffectStep ==
    ASSUME EffectInv, [Next]_vars
    PROVE  EffectInv'
<1>0. Grounds /\ WorkerInv
  BY GroundsHold DEF Grounds
<1>1. AheadInv'
  BY BaseStep, WorkerAheadStep, AuditBehindStep, WriteAheadStep
     DEF EffectInv, AheadInv
<1>2. /\ \A w \in Workers : pc'[w] # "idle" => KnownNext(w)
      /\ \A a \in Actions : ToldNext(a)
  <2>1. ASSUME NEW w \in Workers, WorkerStep(w)
        PROVE  /\ \A v \in Workers : pc'[v] # "idle" => KnownNext(v)
               /\ \A a \in Actions : ToldNext(a)
    <3>1. KnownNext(w) /\ \A a \in Actions : ToldNext(a)
      BY <1>0, <2>1, OutcomeStep DEF Outcome
    <3>2. ASSUME NEW v \in Workers, v # w, pc'[v] # "idle"
          PROVE  KnownNext(v)
      <4>1. UNCHANGED <<pc[v], job[v], seen[v], base[v], held[v]>>
        BY <1>0, <2>1, <3>2, OthersStay, OthersHold
      <4> QED BY <1>0, <3>2, <4>1, KnownStays
    <3> QED BY <3>1, <3>2
  <2>2. CASE /\ UNCHANGED <<queueVars, workerVars>>
    <3>1. UNCHANGED <<history, rollback>>
      BY <2>2 DEF queueVars
    <3>2. \A w \in Workers : UNCHANGED <<pc[w], job[w], seen[w], base[w], held[w]>>
      BY <2>2 DEF workerVars
    <3> QED BY <1>0, <3>1, <3>2, KnownStays, QuietTold
  <2>3. CASE \/ UNCHANGED vars
             \/ \E r \in wire : Deliver(r) \/ Drop(r)
             \/ \E m \in Messages : UserEdit(m)
    BY <2>2, <2>3 DEF vars, Deliver, Drop, UserEdit
  <2> QED BY <2>1, <2>3 DEF Next
<1>3. WorkersKnow' /\ StatusesTold'
  BY <1>2 DEF WorkersKnow, StatusesTold, KnownNext, ToldNext, Box
<1>4. KeysExist' /\ RequestsSound'
  BY <1>0, KeysStep, RequestsStep
<1> QED BY <1>1, <1>3, <1>4 DEF EffectInv

LEMMA EffectInit ==
    ASSUME Init
    PROVE  EffectInv
<1>1. \A a \in Actions :
          ~Queued(a) /\ history[a] = <<>> /\ rollback[a] = NoRollback
  BY DEF Init, QueueInit, Queued
<1>2. KeysExist
  BY <1>1 DEF KeysExist
<1>3. StatusesTold
  BY <1>1 DEF StatusesTold, Told, LastStatus
<1>4. WorkersKnow
  BY DEF Init, WorkersKnow
<1>5. RequestsSound
  BY DEF Init, RequestsSound, ByPerson
<1> QED BY <1>2, <1>3, <1>4, <1>5, AheadInit DEF EffectInv

(* What statuses and workers tell of the mailbox is true of its versions.   *)
THEOREM EffectInvariant == Spec => []EffectInv
<1>1. Init => EffectInv
  BY EffectInit
<1>2. EffectInv /\ [Next]_vars => EffectInv'
  BY EffectStep
<1> QED BY <1>1, <1>2, PTL DEF Spec

(* An action that is called succeeded had its target in the mailbox.       *)
THEOREM SucceededInvariant == Spec => []SucceededWasApplied
<1>1. EffectInv => SucceededWasApplied
  BY DEF EffectInv, StatusesTold, Told, Hit, SucceededWasApplied, Status, Target
<1> QED BY <1>1, EffectInvariant, PTL

(* An action that is called rolled back had its plan in the mailbox, and   *)
(* the original managed categories then or later.                          *)
THEOREM RolledBackInvariant == Spec => []RolledBackWasRestored
<1>1. EffectInv => RolledBackWasRestored
  BY DEF EffectInv, StatusesTold, Told, Undone, RolledBackWasRestored, Status
<1> QED BY <1>1, EffectInvariant, PTL

(* The sets of the two previews are the differences a sound write makes.   *)
LEMMA ForwardDiff ==
    ASSUME NEW cats, NEW found, NEW s, NEW p \in SUBSET Managed,
           Forward(cats, found, s, p)
    PROVE  LET d == DryRunPlan(s, p) IN
           /\ WouldWrite(d)
           /\ cats \ found = d.add /\ found \ cats = d.remove
           /\ d.add \cup d.remove \subseteq Managed
<1> DEFINE d == DryRunPlan(s, p)
<1>1. d.add = p \ s.cats /\ d.remove = (s.cats \cap Managed) \ p
  BY DEF DryRunPlan
<1>2. cats = (s.cats \ Managed) \cup p /\ found = s.cats /\ cats # found
  BY DEF Forward, FinalCategories
<1>3. cats \ found = p \ s.cats /\ found \ cats = (s.cats \cap Managed) \ p
  BY <1>2
<1>4. d.add # {} \/ d.remove # {}
  <2>1. SUFFICES ASSUME cats \ found = {}, found \ cats = {}
                 PROVE  FALSE
    BY <1>1, <1>3
  <2> QED BY <1>2, <2>1
<1> HIDE DEF d
<1> QED BY <1>1, <1>3, <1>4 DEF WouldWrite, d

LEMMA BackwardDiff ==
    ASSUME NEW cats, NEW found, NEW s, NEW p \in SUBSET Managed,
           Backward(cats, found, s, p)
    PROVE  LET d == RollbackPlan(s, p) IN
           /\ WouldWrite(d)
           /\ cats \ found = d.add /\ found \ cats = d.remove
           /\ d.add \cup d.remove \subseteq Managed
<1> DEFINE d == RollbackPlan(s, p)
           add == (s.cats \cap Managed) \ ((s.cats \ Managed) \cup p)
           remove == (((s.cats \ Managed) \cup p) \cap Managed) \ (s.cats \cap Managed)
<1>1. d.add = add /\ d.remove = remove
  BY DEF RollbackPlan
<1>2. /\ cats = (found \ Managed) \cup (s.cats \cap Managed)
      /\ found \cap Managed = p /\ cats # found
  BY DEF Backward, RollbackTarget
<1>3. cats \ found = add /\ found \ cats = remove
  BY <1>2
<1>4. d.add # {} \/ d.remove # {}
  <2>1. SUFFICES ASSUME cats \ found = {}, found \ cats = {}
                 PROVE  FALSE
    BY <1>1, <1>3
  <2> QED BY <1>2, <2>1
<1>5. add \cup remove \subseteq Managed
  OBVIOUS
<1> HIDE DEF d, add, remove
<1> QED BY <1>1, <1>3, <1>4, <1>5 DEF WouldWrite, d

(* What is sound of the version a write was applied to.                    *)
LEMMA WriteOnBase ==
    ASSUME EffectInv, NEW m \in Messages, NEW i \in 2 .. Len(box[m]),
           box[m][i].by # Person, box[m][i].base = i - 1
    PROVE  LET r == box[m][i]
               kind == history[r.by][r.at]
               found == box[m][i - 1].cats
           IN  /\ r.by \in Actions
               /\ \/ /\ kind = "write_in_flight"
                     /\ Forward(r.cats, found, snapshot[r.by], Plan[r.by])
                  \/ /\ kind = "rollback_write_in_flight"
                     /\ Backward(r.cats, found, snapshot[r.by], Plan[r.by])
<1>1. i \in 1 .. Len(box[m]) /\ box[m][i] \in Writes
  BY DEF EffectInv, AheadInv, BaseInv, WorkerInv, TypeOK
<1>2. box[m][i].by \in Actions
  BY <1>1 DEF Writes
<1>3. Sound(box[m][i], box[m], snapshot[box[m][i].by], Plan[box[m][i].by],
            history[box[m][i].by][box[m][i].at])
  BY <1>1 DEF EffectInv, RequestsSound
<1> QED BY <1>2, <1>3 DEF Sound, ForwardFrom, BackwardFrom, Forward

(* A write does to the categories it meets what its preview said.          *)
THEOREM PreviewInvariant == Spec => []WritesAsPreviewed
<1>1. ASSUME EffectInv
      PROVE  WritesAsPreviewed
  <2> SUFFICES ASSUME NEW m \in Messages, NEW i \in 2 .. Len(box[m]),
                      box[m][i].by # Person, box[m][i].base = i - 1
               PROVE  /\ WouldWrite(Previewed(box[m][i]))
                      /\ box[m][i].cats \ box[m][i - 1].cats
                           = Previewed(box[m][i]).add
                      /\ box[m][i - 1].cats \ box[m][i].cats
                           = Previewed(box[m][i]).remove
                      /\ Previewed(box[m][i]).add \cup Previewed(box[m][i]).remove
                           \subseteq Managed
    BY DEF WritesAsPreviewed
  <2> DEFINE r == box[m][i]
             found == box[m][i - 1].cats
  <2>1. /\ r.by \in Actions
        /\ \/ /\ history[r.by][r.at] = "write_in_flight"
              /\ Forward(r.cats, found, snapshot[r.by], Plan[r.by])
           \/ /\ history[r.by][r.at] = "rollback_write_in_flight"
              /\ Backward(r.cats, found, snapshot[r.by], Plan[r.by])
    BY <1>1, WriteOnBase
  <2>2. Plan[r.by] \in SUBSET Managed
    BY <2>1, PlanAssumption
  <2>3. CASE history[r.by][r.at] = "write_in_flight"
    <3>1. Previewed(r) = DryRunPlan(snapshot[r.by], Plan[r.by])
      BY <2>3 DEF Previewed
    <3>2. Forward(r.cats, found, snapshot[r.by], Plan[r.by])
      BY <2>1, <2>3
    <3> HIDE DEF r, found
    <3> QED BY <2>2, <3>1, <3>2, ForwardDiff DEF r, found
  <2>4. CASE history[r.by][r.at] = "rollback_write_in_flight"
    <3>1. Previewed(r) = RollbackPlan(snapshot[r.by], Plan[r.by])
      BY <2>4 DEF Previewed
    <3>2. Backward(r.cats, found, snapshot[r.by], Plan[r.by])
      BY <2>1, <2>4
    <3> HIDE DEF r, found
    <3> QED BY <2>2, <3>1, <3>2, BackwardDiff DEF r, found
  <2> QED BY <2>1, <2>3, <2>4
<1>2. EffectInv => WritesAsPreviewed
  BY <1>1
<1> QED BY <1>2, EffectInvariant, PTL

(* A rollback that meets the version it read undoes its own action's plan. *)
THEOREM UndoInvariant == Spec => []RollbackUndoesItsOwn
<1>1. ASSUME EffectInv
      PROVE  RollbackUndoesItsOwn
  <2> SUFFICES ASSUME NEW m \in Messages, NEW i \in 2 .. Len(box[m]),
                      box[m][i].by # Person, box[m][i].base = i - 1,
                      history[box[m][i].by][box[m][i].at]
                        = "rollback_write_in_flight"
               PROVE  box[m][i - 1].cats \cap Managed = Plan[box[m][i].by]
    BY DEF RollbackUndoesItsOwn
  <2>1. Backward(box[m][i].cats, box[m][i - 1].cats, snapshot[box[m][i].by],
                 Plan[box[m][i].by])
    BY <1>1, WriteOnBase
  <2> QED BY <2>1 DEF Backward
<1>2. EffectInv => RollbackUndoesItsOwn
  BY <1>1
<1> QED BY <1>2, EffectInvariant, PTL

(* A write overwrites no change that its preflight read could have seen.   *)
THEOREM KeepInvariant == Spec => []KeepsWhatItRead
<1>1. ASSUME EffectInv
      PROVE  KeepsWhatItRead
  <2> SUFFICES ASSUME NEW m \in Messages, NEW i \in 1 .. Len(box[m]),
                      box[m][i].by # Person
               PROVE  /\ box[m][i].base \in 1 .. i - 1
                      /\ snapshot[box[m][i].by].key <= box[m][i].base
                      /\ box[m][i].cats \ Managed
                           = box[m][box[m][i].base].cats \ Managed
    BY DEF KeepsWhatItRead
  <2> DEFINE r == box[m][i]
             s == snapshot[r.by]
             p == Plan[r.by]
             found == box[m][r.base].cats
  <2>1. r \in Writes /\ i \in Nat /\ Len(box[m]) \in Nat
    BY <1>1 DEF EffectInv, AheadInv, BaseInv, WorkerInv, TypeOK
  <2>2. r.by \in Actions /\ r.base \in Nat
    BY <2>1 DEF Writes
  <2>3. /\ r.base < i
        /\ Sound(r, box[m], s, p, history[r.by][r.at])
    BY <1>1 DEF EffectInv, RequestsSound
  <2>4. /\ r.base \in 1 .. Len(box[m]) /\ s.key <= r.base
        /\ \/ r.cats = FinalCategories(s, p) /\ found = s.cats
           \/ r.cats = RollbackTarget(found, s)
    BY <2>3 DEF Sound, ForwardFrom, BackwardFrom, Forward, Backward
  <2>5. p \in SUBSET Managed
    BY <2>2, PlanAssumption
  <2>6. r.cats \ Managed = found \ Managed
    <3> HIDE DEF r, s, p, found
    <3>1. CASE r.cats = FinalCategories(s, p) /\ found = s.cats
      BY <2>5, <3>1 DEF FinalCategories
    <3>2. CASE r.cats = RollbackTarget(found, s)
      BY <3>2 DEF RollbackTarget
    <3> QED BY <2>4, <3>1, <3>2
  <2> QED BY <2>1, <2>2, <2>3, <2>4, <2>6
<1>2. EffectInv => KeepsWhatItRead
  BY <1>1
<1> QED BY <1>2, EffectInvariant, PTL

-----------------------------------------------------------------------------
(* The reason of a rollback.  Until an action has a rollback snapshot only *)
(* one worker is at its rollback; from then on all give the reason of it.  *)
ReasonsAgree ==
    \A w \in Workers :
        AtRollback(w) =>
            /\ rollback[job[w]] # NoRollback =>
                  held[w].reason = rollback[job[w]].reason
            /\ rollback[job[w]] = NoRollback =>
                  /\ Status(job[w]) = "rollback_executing"
                  /\ \A v \in Workers : AtRollback(v) /\ job[v] = job[w] => v = w

(* Only a worker at the rollback of a claimed action moves that action.    *)
LEMMA ClaimedMoves ==
    ASSUME BaseInv, NEW w \in Workers, WorkerStep(w), NEW a \in Actions,
           Status(a) = "rollback_executing", history'[a] # history[a]
    PROVE  AtRollback(w) /\ job[w] = a
<1>0. WorkerInv /\ QueueTypeOK
  BY DEF BaseInv, WorkerInv, TypeOK
<1>1. ASSUME NEW b \in Actions, NEW to, Transition(b, to)
      PROVE  a = b
  BY <1>0, <1>1, TransitionStep
<1>2. CASE Start(w)
  <2>1. PICK b \in Actions :
        \/ Propose(w, b)
        \/ \E to \in Targets(Status(b)) : Decide(w, b, to)
        \/ Preview(w, b)
        \/ ExecuteClaim(w, b)
        \/ ClaimDone(w, b)
        \/ ReconcileLoad(w, b)
        \/ \E reason \in Reasons : RollbackClaim(w, b, reason)
        \/ RollbackReconcileLoad(w, b)
    BY <1>2 DEF Start
  <2>2. CASE \/ Propose(w, b) \/ Preview(w, b) \/ ClaimDone(w, b)
             \/ ReconcileLoad(w, b) \/ RollbackReconcileLoad(w, b)
    BY <2>2 DEF Propose, Enqueue, Preview, ClaimDone, ReconcileLoad,
                RollbackReconcileLoad, queueVars
  <2>3. ASSUME NEW to \in Targets(Status(b)), Decide(w, b, to)
        PROVE  FALSE
    <3>1. Transition(b, to) /\ to \in {"approved", "rejected"}
      BY <2>3 DEF Decide, Review
    <3>2. a = b
      BY <1>1, <3>1
    <3>3. CanTransition("rollback_executing", to)
      BY <3>1, <3>2 DEF Transition
    <3> QED BY <3>1, <3>3 DEF CanTransition, AllowedTransitions
  <2>4. CASE ExecuteClaim(w, b)
    <3>1. CASE ClaimExecution(b)
      BY <1>1, <3>1 DEF ClaimExecution
    <3>2. CASE ClaimStaleExecution(b)
      <4>1. a = b
        BY <1>0, <3>2, StaleStep
      <4> QED BY <3>2, <4>1 DEF ClaimStaleExecution
    <3> QED BY <2>4, <3>1, <3>2 DEF ExecuteClaim
  <2>5. ASSUME NEW reason \in Reasons, RollbackClaim(w, b, reason)
        PROVE  FALSE
    BY <1>1, <2>5 DEF RollbackClaim, ClaimRollback
  <2> QED BY <2>1, <2>2, <2>3, <2>4, <2>5
<1>3. CASE Audit(w) \/ LastAudit(w) \/ TornAudit(w) \/ Stop(w)
  BY <1>3 DEF Audit, LastAudit, TornAudit, Stop, queueVars
<1>4. CASE Execute(w) \/ Reconcile(w)
  <2>1. job[w] \in Actions
    BY <1>0, <1>4 DEF WorkerInv, Execute, ExecuteGet, ExecuteMark, ExecuteSend,
                      ExecuteReply, ExecuteFinish, Reconcile, ReconcileGet,
                      ReconcileResolve
  <2>2. /\ \E to : Transition(job[w], to)
        /\ Status(job[w]) \in {"executing"} \cup UncertainExecution
    BY <1>4 DEF Execute, ExecuteGet, ExecuteMark, ExecuteSend, ExecuteReply,
                ExecuteFinish, Reconcile, ReconcileGet, ReconcileResolve,
                MarkWriteInFlight, FinalizeExecution, ResolveUncertainExecution,
                UncertainExecution, queueVars
  <2> QED BY <1>1, <2>1, <2>2 DEF UncertainExecution
<1>5. CASE Rollback(w)
  <2>1. /\ pc[w] \in {"r_get", "r_mark", "r_no_change", "r_send", "r_wait", "r_fail",
                      "r_complete", "r_unknown"}
        /\ UNCHANGED history \/ \E to : Transition(job[w], to)
    BY <1>5 DEF Rollback, RollbackGet, RollbackMark, RollbackNoChange, RollbackSend,
                RollbackReply, RollbackFinish, PrepareOrCompleteRollback,
                FinalizeRollback, queueVars
  <2>2. AtRollback(w) /\ pc[w] # "idle"
    BY <2>1 DEF AtRollback, RollbackSteps
  <2>3. job[w] \in Actions
    BY <1>0, <2>2 DEF WorkerInv
  <2> QED BY <1>1, <2>1, <2>2, <2>3
<1>6. CASE RollbackReconcile(w)
  <2>1. job[w] \in Actions
    BY <1>0, <1>6 DEF WorkerInv, RollbackReconcile, RollbackReconcileGet,
                      RollbackReconcileResolve
  <2>2. /\ \E to : Transition(job[w], to)
        /\ Status(job[w]) \in UncertainRollback
    BY <1>6 DEF RollbackReconcile, RollbackReconcileGet, RollbackReconcileResolve,
                ResolveUncertainRollback, queueVars
  <2> QED BY <1>1, <2>1, <2>2 DEF UncertainRollback
<1> QED BY <1>2, <1>3, <1>4, <1>5, <1>6 DEF WorkerStep

(* Only the preparation of a rollback replaces its snapshot.               *)
Prepares(w) ==
    /\ pc[w] \in {"r_mark", "r_no_change"}
    /\ rollback' = [rollback EXCEPT ![job[w]] = held[w]]
    /\ UNCHANGED <<job, held>>

LEMMA SnapshotWriter ==
    ASSUME NEW w \in Workers, WorkerStep(w)
    PROVE  UNCHANGED rollback \/ Prepares(w)
<1>1. CASE Start(w)
  BY <1>1 DEF Start, Propose, Enqueue, Decide, Review, Preview, ExecuteClaim,
              ClaimExecution, ClaimStaleExecution, ClaimDone, ReconcileLoad,
              RollbackClaim, ClaimRollback, RollbackReconcileLoad, queueVars
<1>2. CASE Audit(w) \/ LastAudit(w) \/ TornAudit(w) \/ Stop(w)
  BY <1>2 DEF Audit, LastAudit, TornAudit, Stop, queueVars
<1>3. CASE Execute(w) \/ Reconcile(w)
  BY <1>3 DEF Execute, ExecuteGet, ExecuteMark, ExecuteSend, ExecuteReply,
              ExecuteFinish, Reconcile, ReconcileGet, ReconcileResolve,
              MarkWriteInFlight, FinalizeExecution, ResolveUncertainExecution,
              queueVars
<1>4. CASE RollbackMark(w) \/ RollbackNoChange(w)
  BY <1>4 DEF RollbackMark, RollbackNoChange, PrepareOrCompleteRollback, Continue,
              Prepares
<1>5. CASE Rollback(w) /\ ~(RollbackMark(w) \/ RollbackNoChange(w))
  BY <1>5 DEF Rollback, RollbackGet, RollbackSend, RollbackReply, RollbackFinish,
              FinalizeRollback, queueVars
<1>6. CASE RollbackReconcile(w)
  BY <1>6 DEF RollbackReconcile, RollbackReconcileGet, RollbackReconcileResolve,
              ResolveUncertainRollback, queueVars
<1> QED BY <1>1, <1>2, <1>3, <1>4, <1>5, <1>6 DEF WorkerStep

(* A worker gets to a rollback by a claim, and keeps its reason.           *)
Stays(w) ==
    /\ AtRollback(w) /\ job'[w] = job[w] /\ held'[w].reason = held[w].reason
    /\ UNCHANGED history \/ Prepares(w)

LEMMA RollbackEntry ==
    ASSUME WorkerInv, NEW w \in Workers, WorkerStep(w), pc'[w] \in RollbackSteps
    PROVE  \/ \E a \in Actions, reason \in Reasons : RollbackClaim(w, a, reason)
           \/ Stays(w)
<1>0. DOMAIN pc = Workers /\ DOMAIN held = Workers
  BY DEF WorkerInv, TypeOK
<1>1. CASE Start(w)
  <2>1. PICK a \in Actions :
        \/ Propose(w, a)
        \/ \E to \in Targets(Status(a)) : Decide(w, a, to)
        \/ Preview(w, a)
        \/ ExecuteClaim(w, a)
        \/ ClaimDone(w, a)
        \/ ReconcileLoad(w, a)
        \/ \E reason \in Reasons : RollbackClaim(w, a, reason)
        \/ RollbackReconcileLoad(w, a)
    BY <1>1 DEF Start
  <2>2. CASE ~ \E reason \in Reasons : RollbackClaim(w, a, reason)
    BY <1>0, <2>1, <2>2 DEF Propose, Decide, Preview, ExecuteClaim, ClaimDone,
                ReconcileLoad, RollbackReconcileLoad, Begin, Goto, RollbackSteps
  <2> QED BY <2>1, <2>2
<1>2. CASE Audit(w)
  <2>1. PICK step \in Steps : <<pc[w], step>> \in AfterAudit /\ Goto(w, step)
    BY <1>2 DEF Audit
  <2>2. pc'[w] = step
    BY <1>0, <2>1 DEF Goto
  <2>3. pc[w] \in {"r_audit_claim", "r_audit_wif"}
    BY <2>1, <2>2 DEF AfterAudit, RollbackSteps
  <2> QED BY <1>2, <2>3 DEF Audit, Stays, AtRollback, RollbackSteps, queueVars
<1>3. CASE LastAudit(w) \/ TornAudit(w) \/ Stop(w)
  BY <1>0, <1>3 DEF LastAudit, TornAudit, Stop, GoIdle, Goto, RollbackSteps
<1>4. CASE Execute(w)
  BY <1>0, <1>4 DEF Execute, ExecuteGet, ExecuteMark, ExecuteSend, ExecuteReply,
                    ExecuteFinish, Continue, Goto, RollbackSteps
<1>5. CASE Reconcile(w) \/ RollbackReconcile(w)
  BY <1>0, <1>5 DEF Reconcile, ReconcileGet, ReconcileResolve, RollbackReconcile,
                    RollbackReconcileGet, RollbackReconcileResolve, Continue, Goto,
                    RollbackSteps
<1>6. CASE RollbackGet(w)
  <2>1. /\ AtRollback(w) /\ UNCHANGED <<history, job>>
        /\ \/ UNCHANGED held
           \/ \E found : /\ found.reason = held[w].reason
                         /\ held' = [held EXCEPT ![w] = found]
    BY <1>6 DEF RollbackGet, AtRollback, RollbackSteps, queueVars
  <2> QED BY <1>0, <2>1 DEF Stays
<1>7. CASE RollbackMark(w)
  BY <1>7 DEF RollbackMark, PrepareOrCompleteRollback, Continue, Prepares, Stays,
              AtRollback, RollbackSteps
<1>8. CASE RollbackSend(w) \/ RollbackReply(w)
  BY <1>8 DEF RollbackSend, RollbackReply, Stays, AtRollback, RollbackSteps, queueVars
<1>9. CASE RollbackNoChange(w) \/ RollbackFinish(w)
  BY <1>0, <1>9 DEF RollbackNoChange, RollbackFinish, Continue, Goto, RollbackSteps
<1> QED BY <1>1, <1>2, <1>3, <1>4, <1>5, <1>6, <1>7, <1>8, <1>9
        DEF WorkerStep, Rollback

ReasonInv == BaseInv /\ ReasonsAgree

(* ReasonsAgree, of one worker, in the next state.                         *)
AgreesNext(v) ==
    /\ rollback'[job'[v]] # NoRollback =>
          held'[v].reason = rollback'[job'[v]].reason
    /\ rollback'[job'[v]] = NoRollback =>
          /\ LastStatus(history'[job'[v]]) = "rollback_executing"
          /\ \A u \in Workers :
                pc'[u] \in RollbackSteps /\ job'[u] = job'[v] => u = v

(* The snapshot a worker replaces has the reason of its own.               *)
LEMMA PreparedReason ==
    ASSUME ReasonInv, NEW w \in Workers, Prepares(w)
    PROVE  /\ AtRollback(w) /\ job[w] \in Actions
           /\ rollback'[job[w]] = held[w] /\ held[w] # NoRollback
           /\ \A a \in Actions : a # job[w] => rollback'[a] = rollback[a]
           /\ rollback[job[w]] # NoRollback => held[w].reason = rollback[job[w]].reason
<1>1. AtRollback(w) /\ pc[w] # "idle"
  BY DEF Prepares, AtRollback, RollbackSteps
<1>2. job[w] \in Actions /\ held[w] \in RollbackSnapshots /\ DOMAIN rollback = Actions
  BY <1>1 DEF ReasonInv, BaseInv, WorkerInv, TypeOK, QueueTypeOK, AtRollback
<1> QED BY <1>1, <1>2, NoRollbackAssumption DEF Prepares, ReasonInv, ReasonsAgree

LEMMA ReasonStep ==
    ASSUME ReasonInv, NEW w \in Workers, WorkerStep(w), NEW v \in Workers,
           pc'[v] \in RollbackSteps
    PROVE  AgreesNext(v)
<1>0. BaseInv /\ WorkerInv /\ QueueTypeOK
  BY DEF ReasonInv, BaseInv, WorkerInv, TypeOK
<1>a. ASSUME NEW u \in Workers, u # w
      PROVE  pc'[u] = pc[u] /\ job'[u] = job[u] /\ held'[u] = held[u]
  BY <1>0, <1>a, OthersStay, OthersHold
<1>b. ASSUME NEW u \in Workers, AtRollback(u)
      PROVE  /\ job[u] \in Actions
             /\ rollback[job[u]] # NoRollback =>
                   held[u].reason = rollback[job[u]].reason
             /\ rollback[job[u]] = NoRollback =>
                   /\ Status(job[u]) = "rollback_executing"
                   /\ \A x \in Workers : AtRollback(x) /\ job[x] = job[u] => x = u
  <2>1. pc[u] # "idle"
    BY <1>b DEF AtRollback, RollbackSteps
  <2> QED BY <1>0, <1>b, <2>1 DEF WorkerInv, ReasonInv, ReasonsAgree
(* No second worker gets to the rollback of an action without a snapshot.  *)
<1>c. ASSUME NEW u \in Workers, u # w, AtRollback(u), rollback[job[u]] = NoRollback,
             pc'[w] \in RollbackSteps, job'[w] = job[u]
      PROVE  FALSE
  <2>1. Status(job[u]) = "rollback_executing"
    BY <1>b, <1>c
  <2>2. CASE Stays(w)
    BY <1>b, <1>c, <2>2 DEF Stays
  <2>3. ASSUME NEW a \in Actions, NEW reason \in Reasons, RollbackClaim(w, a, reason)
        PROVE  FALSE
    <3>1. job'[w] = a /\ Status(a) \in {"succeeded", "rollback_failed"}
      BY <1>0, <2>3 DEF RollbackClaim, ClaimRollback, Begin, WorkerInv, TypeOK
    <3> QED BY <1>c, <2>1, <3>1
  <2> QED BY <1>0, <1>c, <2>2, <2>3, RollbackEntry
<1>1. CASE Prepares(w)
  <2>1. /\ AtRollback(w) /\ job[w] \in Actions
        /\ rollback'[job[w]] = held[w] /\ held[w] # NoRollback
        /\ \A a \in Actions : a # job[w] => rollback'[a] = rollback[a]
        /\ rollback[job[w]] # NoRollback => held[w].reason = rollback[job[w]].reason
        /\ job'[w] = job[w] /\ held'[w] = held[w]
    BY <1>1, PreparedReason DEF Prepares
  <2>2. CASE v = w
    BY <2>1, <2>2 DEF AgreesNext
  <2>3. CASE v # w
    <3>1. AtRollback(v) /\ job'[v] = job[v] /\ held'[v] = held[v]
      BY <1>a, <2>3 DEF AtRollback
    <3>2. CASE job[v] = job[w]
      <4>1. rollback[job[v]] # NoRollback
        BY <1>b, <2>1, <2>3, <3>1, <3>2
      <4> QED BY <1>b, <2>1, <3>1, <3>2, <4>1 DEF AgreesNext
    <3>3. CASE job[v] # job[w]
      <4>1. job[v] \in Actions /\ rollback'[job[v]] = rollback[job[v]]
        BY <1>b, <2>1, <3>1, <3>3
      <4>2. CASE rollback[job[v]] # NoRollback
        BY <1>b, <3>1, <4>1, <4>2 DEF AgreesNext
      <4>3. CASE rollback[job[v]] = NoRollback
        <5>1. Status(job[v]) = "rollback_executing"
          BY <1>b, <3>1, <4>3
        <5>2. history'[job[v]] = history[job[v]]
          BY <1>0, <3>3, <4>1, <5>1, ClaimedMoves
        <5>3. ASSUME NEW u \in Workers, pc'[u] \in RollbackSteps, job'[u] = job[v]
              PROVE  u = v
          <6>1. u # w
            BY <2>1, <3>3, <5>3
          <6> QED BY <1>a, <1>b, <3>1, <4>3, <5>3, <6>1 DEF AtRollback
        <5> QED BY <3>1, <4>1, <4>3, <5>1, <5>2, <5>3 DEF AgreesNext, Status
      <4> QED BY <4>2, <4>3
    <3> QED BY <3>2, <3>3
  <2> QED BY <2>2, <2>3
<1>2. CASE UNCHANGED rollback
  <2>1. CASE v # w
    <3>1. AtRollback(v) /\ job'[v] = job[v] /\ held'[v] = held[v]
      BY <1>a, <2>1 DEF AtRollback
    <3>2. CASE rollback[job[v]] # NoRollback
      BY <1>2, <1>b, <3>1, <3>2 DEF AgreesNext
    <3>3. CASE rollback[job[v]] = NoRollback
      <4>1. Status(job[v]) = "rollback_executing" /\ job[v] \in Actions
        BY <1>b, <3>1, <3>3
      <4>2. ~(AtRollback(w) /\ job[w] = job[v])
        BY <1>b, <2>1, <3>1, <3>3
      <4>3. history'[job[v]] = history[job[v]]
        BY <1>0, <4>1, <4>2, ClaimedMoves
      <4>4. ASSUME NEW u \in Workers, pc'[u] \in RollbackSteps, job'[u] = job[v]
            PROVE  u = v
        <5>1. u # w
          BY <1>c, <2>1, <3>1, <3>3, <4>4
        <5> QED BY <1>a, <1>b, <3>1, <3>3, <4>4, <5>1 DEF AtRollback
      <4> QED BY <1>2, <3>1, <3>3, <4>1, <4>3, <4>4 DEF AgreesNext, Status
    <3> QED BY <3>2, <3>3
  <2>2. CASE v = w /\ Stays(w)
    <3>1. AtRollback(w) /\ job'[w] = job[w] /\ held'[w].reason = held[w].reason
      BY <2>2 DEF Stays
    <3>2. CASE rollback[job[w]] # NoRollback
      BY <1>2, <1>b, <2>2, <3>1, <3>2 DEF AgreesNext
    <3>3. CASE rollback[job[w]] = NoRollback
      <4>1. Status(job[w]) = "rollback_executing" /\ job[w] \in Actions
        BY <1>b, <3>1, <3>3
      <4>2. UNCHANGED history
        BY <1>2, <2>2, <3>3, PreparedReason DEF Stays
      <4>3. ASSUME NEW u \in Workers, pc'[u] \in RollbackSteps, job'[u] = job[w]
            PROVE  u = w
        BY <1>a, <1>b, <3>1, <3>3, <4>3 DEF AtRollback
      <4> QED BY <1>2, <2>2, <3>1, <3>3, <4>1, <4>2, <4>3 DEF AgreesNext, Status
    <3> QED BY <3>2, <3>3
  <2>3. ASSUME v = w, NEW a \in Actions, NEW reason \in Reasons,
               RollbackClaim(w, a, reason)
        PROVE  AgreesNext(v)
    <3>1. /\ job'[w] = a /\ held'[w].reason = reason
          /\ SameRollback(a, reason) /\ Transition(a, "rollback_executing")
          /\ Status(a) \in {"succeeded", "rollback_failed"}
      BY <1>0, <2>3 DEF RollbackClaim, ClaimRollback, Begin, WorkerInv, TypeOK
    <3>2. LastStatus(history'[a]) = "rollback_executing"
      <4>1. /\ history[a] \in Seq(Statuses) /\ "rollback_executing" \in Statuses
            /\ history'[a] = Append(history[a], "rollback_executing")
        BY <1>0, <3>1, TransitionStep DEF QueueTypeOK
      <4> QED BY <4>1 DEF LastStatus
    <3>3. ASSUME rollback[a] = NoRollback, NEW u \in Workers,
                 pc'[u] \in RollbackSteps, job'[u] = a
          PROVE  u = w
      BY <1>a, <1>b, <3>1, <3>3 DEF AtRollback
    <3> QED BY <1>2, <2>3, <3>1, <3>2, <3>3 DEF AgreesNext, SameRollback
  <2> QED BY <1>0, <2>1, <2>2, <2>3, RollbackEntry
<1> QED BY <1>1, <1>2, SnapshotWriter

(* All workers at one rollback give the reason that its snapshot records.   *)
THEOREM ReasonInvariant == Spec => []ReasonInv
<1>1. Init => ReasonInv
  <2> SUFFICES ASSUME Init
               PROVE  ReasonInv
    OBVIOUS
  <2>1. ReasonsAgree
    BY DEF Init, ReasonsAgree, AtRollback, RollbackSteps
  <2> QED BY <2>1, BaseInit DEF ReasonInv
<1>2. ReasonInv /\ [Next]_vars => ReasonInv'
  <2> SUFFICES ASSUME ReasonInv, [Next]_vars
               PROVE  ReasonInv'
    OBVIOUS
  <2>1. BaseInv'
    BY BaseStep DEF ReasonInv
  <2>2. CASE UNCHANGED <<queueVars, workerVars>>
    <3>1. UNCHANGED <<history, rollback, pc, job, held>>
      BY <2>2 DEF queueVars, workerVars
    <3>2. ReasonsAgree'
      BY <3>1 DEF ReasonInv, ReasonsAgree, AtRollback, Status
    <3> QED BY <2>1, <3>2 DEF ReasonInv
  <2>3. ASSUME NEW w \in Workers, WorkerStep(w)
        PROVE  ReasonInv'
    <3>1. \A v \in Workers : pc'[v] \in RollbackSteps => AgreesNext(v)
      BY <2>3, ReasonStep
    <3>2. ReasonsAgree'
      BY <3>1 DEF ReasonsAgree, AgreesNext, AtRollback, Status
    <3> QED BY <2>1, <3>2 DEF ReasonInv
  <2>4. CASE \/ UNCHANGED vars
             \/ \E r \in wire : Deliver(r) \/ Drop(r)
             \/ \E m \in Messages : UserEdit(m)
    BY <2>2, <2>4 DEF vars, Deliver, Drop, UserEdit
  <2> QED BY <2>3, <2>4 DEF Next
<1> QED BY <1>1, <1>2, PTL DEF Spec

(* A persisted rollback keeps its reason, whoever replaces its snapshot,   *)
(* and each executor at the rollback was given that reason.                *)
THEOREM ReasonTheorem == Spec => ReasonIsKept
<1>1. ASSUME ReasonInv, [Next]_vars
      PROVE  [\A a \in Actions :
                rollback[a] # NoRollback =>
                  rollback'[a] # NoRollback
                    /\ rollback'[a].reason = rollback[a].reason]_vars
  <2>1. CASE UNCHANGED rollback
    BY <2>1
  <2>2. ASSUME NEW w \in Workers, Prepares(w), NEW a \in Actions,
               rollback[a] # NoRollback
        PROVE  rollback'[a] # NoRollback /\ rollback'[a].reason = rollback[a].reason
    <3>1. CASE a = job[w]
      BY <1>1, <2>2, <3>1, PreparedReason
    <3>2. CASE a # job[w]
      BY <1>1, <2>2, <3>2, PreparedReason
    <3> QED BY <3>1, <3>2
  <2>3. UNCHANGED rollback \/ \E w \in Workers : Prepares(w)
    <3>1. ASSUME NEW w \in Workers, WorkerStep(w)
          PROVE  UNCHANGED rollback \/ Prepares(w)
      BY <3>1, SnapshotWriter
    <3>2. CASE \/ UNCHANGED vars
               \/ \E r \in wire : Deliver(r) \/ Drop(r)
               \/ \E m \in Messages : UserEdit(m)
      BY <3>2 DEF vars, Deliver, Drop, UserEdit, queueVars
    <3> QED BY <1>1, <3>1, <3>2 DEF Next
  <2> QED BY <2>1, <2>2, <2>3
<1>2. ReasonInv => \A w \in Workers :
                     pc[w] \in RollbackSteps /\ rollback[job[w]] # NoRollback =>
                       held[w].reason = rollback[job[w]].reason
  BY DEF ReasonInv, ReasonsAgree, AtRollback
<1> QED BY <1>1, <1>2, ReasonInvariant, PTL DEF Spec, ReasonIsKept

-----------------------------------------------------------------------------
(* Abandoned claims.                                                       *)

(* Without stale claims only its executor moves an action in executing.    *)
LEMMA ExecutionMoves ==
    ASSUME BaseInv, ~StaleClaims, NEW w \in Workers, WorkerStep(w), NEW a \in Actions,
           Status(a) = "executing", history'[a] # history[a]
    PROVE  Executing(w) /\ job[w] = a
<1>0. WorkerInv /\ QueueTypeOK
  BY DEF BaseInv, WorkerInv, TypeOK
<1>1. ASSUME NEW b \in Actions, NEW to, Transition(b, to)
      PROVE  a = b
  BY <1>0, <1>1, TransitionStep
<1>2. CASE Start(w)
  <2>1. PICK b \in Actions :
        \/ Propose(w, b)
        \/ \E to \in Targets(Status(b)) : Decide(w, b, to)
        \/ Preview(w, b)
        \/ ExecuteClaim(w, b)
        \/ ClaimDone(w, b)
        \/ ReconcileLoad(w, b)
        \/ \E reason \in Reasons : RollbackClaim(w, b, reason)
        \/ RollbackReconcileLoad(w, b)
    BY <1>2 DEF Start
  <2>2. CASE \/ Propose(w, b) \/ Preview(w, b) \/ ClaimDone(w, b)
             \/ ReconcileLoad(w, b) \/ RollbackReconcileLoad(w, b)
    BY <2>2 DEF Propose, Enqueue, Preview, ClaimDone, ReconcileLoad,
                RollbackReconcileLoad, queueVars
  <2>3. ASSUME NEW to \in Targets(Status(b)), Decide(w, b, to)
        PROVE  FALSE
    <3>1. Transition(b, to) /\ to \in {"approved", "rejected"}
      BY <2>3 DEF Decide, Review
    <3>2. CanTransition("executing", to)
      BY <1>1, <3>1 DEF Transition
    <3> QED BY <3>1, <3>2 DEF CanTransition, AllowedTransitions
  <2>4. CASE ExecuteClaim(w, b)
    BY <1>1, <2>4 DEF ExecuteClaim, ClaimExecution, ClaimStaleExecution
  <2>5. ASSUME NEW reason \in Reasons, RollbackClaim(w, b, reason)
        PROVE  FALSE
    BY <1>1, <2>5 DEF RollbackClaim, ClaimRollback
  <2> QED BY <2>1, <2>2, <2>3, <2>4, <2>5
<1>3. CASE Audit(w) \/ LastAudit(w) \/ TornAudit(w) \/ Stop(w)
  BY <1>3 DEF Audit, LastAudit, TornAudit, Stop, queueVars
<1>4. CASE Execute(w)
  <2>1. /\ Executing(w) /\ pc[w] # "idle"
        /\ UNCHANGED history \/ \E to : Transition(job[w], to)
    BY <1>4 DEF Execute, ExecuteGet, ExecuteMark, ExecuteSend, ExecuteReply,
                ExecuteFinish, MarkWriteInFlight, FinalizeExecution, Executing,
                ExecutorSteps, queueVars
  <2>2. job[w] \in Actions
    BY <1>0, <2>1 DEF WorkerInv
  <2> QED BY <1>1, <2>1, <2>2
<1>5. ASSUME pc[w] # "idle", Status(job[w]) # "executing",
             UNCHANGED history \/ \E to : Transition(job[w], to)
      PROVE  FALSE
  <2>1. job[w] \in Actions
    BY <1>0, <1>5 DEF WorkerInv
  <2> QED BY <1>1, <1>5, <2>1
<1>6. CASE Reconcile(w)
  BY <1>5, <1>6 DEF Reconcile, ReconcileGet, ReconcileResolve,
                    ResolveUncertainExecution, UncertainExecution, queueVars
<1>7. CASE Rollback(w) \/ RollbackReconcile(w)
  <2>1. /\ pc[w] # "idle"
        /\ \/ UNCHANGED history
           \/ Status(job[w]) # "executing" /\ \E to : Transition(job[w], to)
    BY <1>7 DEF Rollback, RollbackGet, RollbackMark, RollbackNoChange, RollbackSend,
                RollbackReply, RollbackFinish, PrepareOrCompleteRollback,
                FinalizeRollback, RollbackReconcile, RollbackReconcileGet,
                RollbackReconcileResolve, ResolveUncertainRollback, UncertainRollback,
                queueVars
  <2> QED BY <1>5, <2>1
<1> QED BY <1>2, <1>3, <1>4, <1>6, <1>7 DEF WorkerStep

(* Who executes after its step was executing before, or claims the action. *)
LEMMA ExecutionEntry ==
    ASSUME WorkerInv, NEW w \in Workers, WorkerStep(w), pc'[w] \in ExecutorSteps
    PROVE  \/ \E a \in Actions : ExecuteClaim(w, a)
           \/ Executing(w) /\ job'[w] = job[w]
<1>0. DOMAIN pc = Workers
  BY DEF WorkerInv, TypeOK
<1>1. CASE Start(w)
  <2>1. PICK a \in Actions :
        \/ Propose(w, a)
        \/ \E to \in Targets(Status(a)) : Decide(w, a, to)
        \/ Preview(w, a)
        \/ ExecuteClaim(w, a)
        \/ ClaimDone(w, a)
        \/ ReconcileLoad(w, a)
        \/ \E reason \in Reasons : RollbackClaim(w, a, reason)
        \/ RollbackReconcileLoad(w, a)
    BY <1>1 DEF Start
  <2>2. CASE ~ExecuteClaim(w, a)
    BY <1>0, <2>1, <2>2 DEF Propose, Decide, Preview, RollbackClaim, ClaimDone,
                ReconcileLoad, RollbackReconcileLoad, Begin, Goto, ExecutorSteps
  <2> QED BY <2>1, <2>2
<1>2. CASE Audit(w)
  <2>1. PICK step \in Steps : <<pc[w], step>> \in AfterAudit /\ Goto(w, step)
    BY <1>2 DEF Audit
  <2>2. pc'[w] = step
    BY <1>0, <2>1 DEF Goto
  <2>3. pc[w] \in {"x_audit_claim", "x_audit_wif"}
    BY <2>1, <2>2 DEF AfterAudit, ExecutorSteps
  <2> QED BY <1>2, <2>3 DEF Audit, Executing, ExecutorSteps, queueVars
<1>3. CASE LastAudit(w) \/ TornAudit(w) \/ Stop(w)
  BY <1>0, <1>3 DEF LastAudit, TornAudit, Stop, GoIdle, Goto, ExecutorSteps
<1>4. CASE Execute(w)
  BY <1>4 DEF Execute, ExecuteGet, ExecuteMark, ExecuteSend, ExecuteReply,
              ExecuteFinish, Continue, Executing, ExecutorSteps
<1>5. CASE Reconcile(w) \/ RollbackReconcile(w) \/ Rollback(w)
  BY <1>0, <1>5 DEF Reconcile, ReconcileGet, ReconcileResolve, RollbackReconcile,
                    RollbackReconcileGet, RollbackReconcileResolve, Rollback,
                    RollbackGet, RollbackMark, RollbackNoChange, RollbackSend,
                    RollbackReply, RollbackFinish, Continue, Goto, ExecutorSteps
<1> QED BY <1>1, <1>2, <1>3, <1>4, <1>5 DEF WorkerStep

LEMMA AbandonedStep ==
    ASSUME BaseInv, NEW w \in Workers, WorkerStep(w), NEW a \in Actions, Abandoned(a)
    PROVE  Abandoned(a)' /\ history'[a] = history[a]
<1>0. WorkerInv
  BY DEF BaseInv
<1>1. ASSUME NEW v \in Workers, v # w
      PROVE  pc'[v] = pc[v] /\ job'[v] = job[v]
  BY <1>0, <1>1, OthersStay
<1>2. CASE /\ Status(a) = "executing" /\ ~StaleClaims
           /\ \A v \in Workers : Executing(v) => job[v] # a
  <2>1. history'[a] = history[a]
    BY <1>2, ExecutionMoves
  <2>2. ASSUME Executing(w)', job'[w] = a
        PROVE  FALSE
    <3>1. PICK b \in Actions : ExecuteClaim(w, b)
      BY <1>0, <1>2, <2>2, ExecutionEntry DEF Executing
    <3>2. b # a
      BY <1>2, <3>1 DEF ExecuteClaim, ClaimExecution, ClaimStaleExecution
    <3>3. job'[w] = b
      BY <1>0, <3>1 DEF ExecuteClaim, Begin, WorkerInv, TypeOK
    <3> QED BY <2>2, <3>2, <3>3
  <2>3. \A v \in Workers : Executing(v)' => job'[v] # a
    BY <1>1, <1>2, <2>2 DEF Executing
  <2> QED BY <1>2, <2>1, <2>3 DEF Abandoned, Status
<1>3. CASE /\ Status(a) = "rollback_executing"
           /\ \A v \in Workers : AtRollback(v) => job[v] # a
  <2>1. history'[a] = history[a]
    BY <1>3, ClaimedMoves
  <2>2. ASSUME AtRollback(w)', job'[w] = a
        PROVE  FALSE
    <3>1. PICK b \in Actions, reason \in Reasons : RollbackClaim(w, b, reason)
      BY <1>0, <1>3, <2>2, RollbackEntry DEF AtRollback, Stays
    <3>2. b # a
      BY <1>3, <3>1 DEF RollbackClaim, ClaimRollback
    <3>3. job'[w] = b
      BY <1>0, <3>1 DEF RollbackClaim, Begin, WorkerInv, TypeOK
    <3> QED BY <2>2, <3>2, <3>3
  <2>3. \A v \in Workers : AtRollback(v)' => job'[v] # a
    BY <1>1, <1>3, <2>2 DEF AtRollback
  <2> QED BY <1>3, <2>1, <2>3 DEF Abandoned, Status
<1> QED BY <1>2, <1>3 DEF Abandoned

(* A crash between a claim and its verdict strands the action: nothing that *)
(* the commands offer ever leaves the status, for any number of workers.    *)
THEOREM AbandonedTheorem == Spec => AbandonedForGood
<1>1. ASSUME BaseInv, [Next]_vars
      PROVE  [\A a \in Actions :
                Abandoned(a) => Abandoned(a)' /\ history'[a] = history[a]]_vars
  <2>1. CASE UNCHANGED <<queueVars, workerVars>>
    BY <2>1 DEF queueVars, workerVars, Abandoned, Executing, AtRollback, Status
  <2>2. ASSUME NEW w \in Workers, WorkerStep(w)
        PROVE  \A a \in Actions :
                 Abandoned(a) => Abandoned(a)' /\ history'[a] = history[a]
    BY <1>1, <2>2, AbandonedStep
  <2>3. CASE \/ UNCHANGED vars
             \/ \E r \in wire : Deliver(r) \/ Drop(r)
             \/ \E m \in Messages : UserEdit(m)
    BY <2>1, <2>3 DEF vars, Deliver, Drop, UserEdit
  <2> QED BY <1>1, <2>2, <2>3 DEF Next
<1> QED BY <1>1, BaseInvariant, PTL DEF Spec, AbandonedForGood
=============================================================================
