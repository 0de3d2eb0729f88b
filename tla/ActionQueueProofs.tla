-------------------------- MODULE ActionQueueProofs --------------------------
(***************************************************************************)
(* Proofs about the review queue, for any actions, categories, plans,      *)
(* reasons and history limit.                                              *)
(***************************************************************************)
EXTENDS ActionQueue, TLAPS

(* The statuses an allowed transition leads to are statuses.               *)
LEMMA AllowedType ==
    ASSUME NEW s \in Statuses, NEW t, CanTransition(s, t)
    PROVE  t \in Statuses
BY DEF CanTransition, AllowedTransitions, Statuses

(* The status of a well-typed history is a status.                         *)
LEMMA LastStatusType ==
    ASSUME NEW h \in Seq(Statuses)
    PROVE  LastStatus(h) \in Statuses
BY DEF LastStatus, Statuses

(* What Append does to the elements of a history.                          *)
LEMMA AppendElements ==
    ASSUME NEW S, NEW h \in Seq(S), NEW t \in S
    PROVE  /\ Append(h, t) \in Seq(S)
           /\ Len(Append(h, t)) = Len(h) + 1
           /\ \A i \in 1 .. Len(h) : Append(h, t)[i] = h[i]
           /\ Append(h, t)[Len(h) + 1] = t
OBVIOUS

(* Transition(a, to) appends one status to the history of a and leaves the *)
(* other histories alone.                                                  *)
LEMMA TransitionStep ==
    ASSUME QueueTypeOK, NEW a \in Actions, NEW to, Transition(a, to)
    PROVE  /\ to \in Statuses
           /\ CanTransition(LastStatus(history[a]), to)
           /\ history' \in [Actions -> Seq(Statuses)]
           /\ history'[a] = Append(history[a], to)
           /\ \A b \in Actions : b # a => history'[b] = history[b]
           /\ \A b \in Actions : Len(history'[b]) <= HistoryLimit
           /\ Queued(a)
           /\ snapshot' = snapshot
<1>1. history[a] \in Seq(Statuses)
  BY DEF QueueTypeOK
<1>2. CanTransition(LastStatus(history[a]), to) /\ Queued(a) /\ snapshot' = snapshot
  BY DEF Transition, Status
<1>3. to \in Statuses
  BY <1>1, <1>2, LastStatusType, AllowedType
<1>4. /\ history' = [history EXCEPT ![a] = Append(history[a], to)]
      /\ Len(history[a]) < HistoryLimit
  BY DEF Transition
<1>5. Append(history[a], to) \in Seq(Statuses)
      /\ Len(Append(history[a], to)) = Len(history[a]) + 1
  BY <1>1, <1>3, AppendElements
<1>6. Len(history[a]) \in Nat
  BY <1>1
<1> QED BY <1>2, <1>3, <1>4, <1>5, <1>6, HistoryLimitAssumption DEF QueueTypeOK

(* The pair of entries that takes over an expired lease.                   *)
LEMMA StaleStep ==
    ASSUME QueueTypeOK, NEW a \in Actions, ClaimStaleExecution(a)
    PROVE  /\ history' \in [Actions -> Seq(Statuses)]
           /\ history'[a] = Append(Append(history[a], "failed"), "executing")
           /\ \A b \in Actions : b # a => history'[b] = history[b]
           /\ \A b \in Actions : Len(history'[b]) <= HistoryLimit
           /\ LastStatus(history[a]) = "executing"
           /\ Queued(a)
           /\ UNCHANGED <<snapshot, rollback>>
<1>1. history[a] \in Seq(Statuses) /\ "failed" \in Statuses /\ "executing" \in Statuses
  BY DEF QueueTypeOK, Statuses
<1>2. history[a] \o <<"failed", "executing">>
        = Append(Append(history[a], "failed"), "executing")
  BY <1>1
<1>3. /\ Append(Append(history[a], "failed"), "executing") \in Seq(Statuses)
      /\ Len(Append(Append(history[a], "failed"), "executing")) = Len(history[a]) + 2
  BY <1>1
<1>4. /\ history' = [history EXCEPT ![a] = history[a] \o <<"failed", "executing">>]
      /\ Len(history[a]) + 2 <= HistoryLimit
      /\ LastStatus(history[a]) = "executing"
      /\ Queued(a)
      /\ UNCHANGED <<snapshot, rollback>>
  BY DEF ClaimStaleExecution, Status
<1> QED BY <1>2, <1>3, <1>4 DEF QueueTypeOK


(* A call on the repository appends to one history, or to none.            *)
Grows(h, g) ==
    \/ g = h
    \/ \E to \in Statuses :
          /\ CanTransition(LastStatus(h), to)
          /\ g = Append(h, to)
    \/ /\ LastStatus(h) = "executing"
       /\ g = Append(Append(h, "failed"), "executing")

(* Kinds of steps of the queue, by what they do to the three variables.    *)
EnqueueKind(a) ==
    /\ snapshot' \in [Actions -> Snapshots \cup {NoSnapshot}]
    /\ ~Queued(a)
    /\ \A b \in Actions : b # a => snapshot'[b] = snapshot[b]
    /\ UNCHANGED <<history, rollback>>

PlainKind(a, to) ==
    /\ Transition(a, to)
    /\ rollback' = rollback
    /\ to \in UncertainRollback \cup {"rolled_back"} => rollback[a] # NoRollback

PrepareKind(a, to, rb) ==
    /\ Transition(a, to)
    /\ rb \in RollbackSnapshots
    /\ ValidRollback(snapshot[a], rb)
    /\ rollback' = [rollback EXCEPT ![a] = rb]

(* An action that is not in the queue has no record of any kind.           *)
AbsentIsBlank ==
    \A a \in Actions :
        ~Queued(a) => history[a] = <<>> /\ rollback[a] = NoRollback

(* The inductive invariant.                                                *)
QueueInv == QueueTypeOK /\ AbsentIsBlank /\ RollbackContract /\ HistoryIsPath

(* Every call of the repository is one of four kinds of steps.             *)
LEMMA QueueStepKinds ==
    ASSUME QueueTypeOK, RollbackContract, QueueNext
    PROVE  \E a \in Actions :
              \/ EnqueueKind(a)
              \/ \E to \in Statuses : PlainKind(a, to)
              \/ ClaimStaleExecution(a)
              \/ \E to \in Statuses, rb \in RollbackSnapshots : PrepareKind(a, to, rb)
<1>1. PICK a \in Actions :
        \/ \E snap \in Snapshots : Enqueue(a, snap)
        \/ ClaimExecution(a)
        \/ ClaimStaleExecution(a)
        \/ MarkWriteInFlight(a)
        \/ \E reason \in Reasons : ClaimRollback(a, reason)
        \/ \E to \in Targets(Status(a)) :
                \/ Review(a, to)
                \/ FinalizeExecution(a, to)
                \/ ResolveUncertainExecution(a, to)
                \/ \E rb \in RollbackSnapshots :
                        PrepareOrCompleteRollback(a, rb, to)
                \/ FinalizeRollback(a, to)
                \/ ResolveUncertainRollback(a, to)
  BY DEF QueueNext
<1>2. CASE \E snap \in Snapshots : Enqueue(a, snap)
  <2>1. EnqueueKind(a)
    BY <1>2 DEF Enqueue, EnqueueKind, QueueTypeOK
  <2> QED BY <2>1
<1>3. CASE ClaimExecution(a)
  <2>1. PlainKind(a, "executing")
    BY <1>3 DEF ClaimExecution, PlainKind, UncertainRollback
  <2> QED BY <2>1 DEF Statuses
<1>4. CASE ClaimStaleExecution(a)
  BY <1>4
<1>5. CASE MarkWriteInFlight(a)
  <2>1. PlainKind(a, "write_in_flight")
    BY <1>5 DEF MarkWriteInFlight, PlainKind, UncertainRollback
  <2> QED BY <2>1 DEF Statuses
<1>6. CASE \E reason \in Reasons : ClaimRollback(a, reason)
  <2>1. PlainKind(a, "rollback_executing")
    BY <1>6 DEF ClaimRollback, PlainKind, UncertainRollback
  <2> QED BY <2>1 DEF Statuses
<1>7. ASSUME NEW to \in Targets(Status(a)),
             \/ Review(a, to)
             \/ FinalizeExecution(a, to)
             \/ ResolveUncertainExecution(a, to)
      PROVE  to \in Statuses /\ PlainKind(a, to)
  <2>1. to \in Statuses
    BY DEF Targets
  <2>2. Transition(a, to) /\ UNCHANGED rollback
    BY <1>7 DEF Review, FinalizeExecution, ResolveUncertainExecution
  <2>3. to \notin UncertainRollback \cup {"rolled_back"}
    BY <1>7 DEF Review, FinalizeExecution, ResolveUncertainExecution,
                UncertainRollback
  <2> QED BY <2>1, <2>2, <2>3 DEF PlainKind
<1>8. ASSUME NEW to \in Targets(Status(a)),
             FinalizeRollback(a, to) \/ ResolveUncertainRollback(a, to)
      PROVE  to \in Statuses /\ PlainKind(a, to)
  <2>1. to \in Statuses
    BY DEF Targets
  <2>2. Transition(a, to) /\ UNCHANGED rollback
    BY <1>8 DEF FinalizeRollback, ResolveUncertainRollback
  <2>3. CASE FinalizeRollback(a, to)
    BY <2>1, <2>2, <2>3 DEF FinalizeRollback, PlainKind, UncertainRollback
  <2>4. CASE ResolveUncertainRollback(a, to)
    BY <2>1, <2>2, <2>4 DEF ResolveUncertainRollback, RollbackContract, PlainKind
  <2> QED BY <1>8, <2>3, <2>4
<1>9. ASSUME NEW to \in Targets(Status(a)), NEW rb \in RollbackSnapshots,
             PrepareOrCompleteRollback(a, rb, to)
      PROVE  to \in Statuses /\ PrepareKind(a, to, rb)
  BY <1>9 DEF PrepareOrCompleteRollback, PrepareKind, Targets
<1> QED BY <1>1, <1>2, <1>3, <1>4, <1>5, <1>6, <1>7, <1>8, <1>9

(* What a history that grows keeps: it stays a path of the state graph.    *)
Path(h) ==
    \A i \in 1 .. Len(h) :
        CanTransition(IF i = 1 THEN "pending_review" ELSE h[i - 1], h[i])

LEMMA PathAppend ==
    ASSUME NEW h \in Seq(Statuses), Path(h),
           NEW to \in Statuses, CanTransition(LastStatus(h), to)
    PROVE  Path(Append(h, to))
<1> DEFINE g == Append(h, to)
<1>1. /\ Len(g) = Len(h) + 1
      /\ \A i \in 1 .. Len(h) : g[i] = h[i]
      /\ g[Len(h) + 1] = to
  BY AppendElements
<1> SUFFICES ASSUME NEW i \in 1 .. Len(g)
             PROVE  CanTransition(IF i = 1 THEN "pending_review" ELSE g[i - 1], g[i])
  BY DEF Path
<1>2. Len(h) \in Nat
  OBVIOUS
<1> HIDE DEF g
<1>3. CASE i <= Len(h)
  <2>1. g[i] = h[i] /\ (i # 1 => g[i - 1] = h[i - 1])
    BY <1>1, <1>2, <1>3
  <2> QED BY <2>1, <1>2, <1>3 DEF Path
<1>4. CASE i = Len(h) + 1
  <2>1. CASE h = <<>>
    BY <2>1, <1>1, <1>4 DEF LastStatus
  <2>2. CASE h # <<>>
    <3>1. Len(h) >= 1
      BY <2>2
    <3>2. i # 1 /\ g[i - 1] = h[Len(h)]
      BY <3>1, <1>1, <1>2, <1>4
    <3> QED BY <2>2, <3>2, <1>1, <1>4 DEF LastStatus
  <2> QED BY <2>1, <2>2
<1> QED BY <1>1, <1>2, <1>3, <1>4

LEMMA PathGrows ==
    ASSUME NEW h \in Seq(Statuses), Path(h), NEW g, Grows(h, g)
    PROVE  Path(g)
<1>1. CASE g = h
  BY <1>1
<1>2. CASE \E to \in Statuses : CanTransition(LastStatus(h), to) /\ g = Append(h, to)
  BY <1>2, PathAppend
<1>3. CASE /\ LastStatus(h) = "executing"
           /\ g = Append(Append(h, "failed"), "executing")
  <2>1. "failed" \in Statuses /\ "executing" \in Statuses
    BY DEF Statuses
  <2>2. /\ CanTransition("executing", "failed")
        /\ CanTransition("failed", "executing")
    BY DEF CanTransition, AllowedTransitions
  <2>3. Path(Append(h, "failed")) /\ Append(h, "failed") \in Seq(Statuses)
    BY <1>3, <2>1, <2>2, PathAppend
  <2>4. LastStatus(Append(h, "failed")) = "failed"
    BY <2>1 DEF LastStatus
  <2> QED BY <1>3, <2>1, <2>2, <2>3, <2>4, PathAppend
<1> QED BY <1>1, <1>2, <1>3 DEF Grows

(* One call of the repository, or none, keeps the type invariant, the      *)
(* blank records and the rollback contract, and grows every history as     *)
(* the repository lets it.                                                 *)
LEMMA QueueStep ==
    ASSUME QueueTypeOK, AbsentIsBlank, RollbackContract, [QueueNext]_queueVars
    PROVE  /\ QueueTypeOK'
           /\ AbsentIsBlank'
           /\ RollbackContract'
           /\ \A b \in Actions : Grows(history[b], history'[b])
<1> DEFINE Kept == /\ QueueTypeOK'
                   /\ AbsentIsBlank'
                   /\ RollbackContract'
                   /\ \A b \in Actions : Grows(history[b], history'[b])
<1>1. CASE UNCHANGED queueVars
  BY <1>1 DEF queueVars, QueueTypeOK, AbsentIsBlank, RollbackContract, Grows,
              Status, Queued
<1>2. ASSUME NEW a \in Actions, EnqueueKind(a)
      PROVE  Kept
  <2>1. QueueTypeOK'
    BY <1>2 DEF EnqueueKind, QueueTypeOK
  <2>2. AbsentIsBlank'
    BY <1>2 DEF EnqueueKind, AbsentIsBlank, Queued
  <2>3. RollbackContract'
    <3> SUFFICES ASSUME NEW b \in Actions
                 PROVE  /\ Status(b)' \in UncertainRollback \cup {"rolled_back"} =>
                                rollback'[b] # NoRollback
                        /\ rollback'[b] # NoRollback =>
                                ValidRollback(snapshot'[b], rollback'[b])
      BY DEF RollbackContract
    <3>1. history' = history /\ rollback' = rollback
      BY <1>2 DEF EnqueueKind
    <3>2. CASE b = a
      <4>1. rollback[a] = NoRollback
        BY <1>2 DEF AbsentIsBlank, EnqueueKind
      <4>2. Status(a) \notin UncertainRollback \cup {"rolled_back"}
        BY <4>1 DEF RollbackContract
      <4> QED BY <3>1, <3>2, <4>1, <4>2 DEF Status
    <3>3. CASE b # a
      BY <1>2, <3>1, <3>3 DEF EnqueueKind, RollbackContract, Status
    <3> QED BY <3>2, <3>3
  <2>4. \A b \in Actions : Grows(history[b], history'[b])
    BY <1>2 DEF EnqueueKind, Grows
  <2> QED BY <2>1, <2>2, <2>3, <2>4
<1>3. ASSUME NEW a \in Actions, NEW to \in Statuses, PlainKind(a, to)
      PROVE  Kept
  <2>1. Transition(a, to) /\ rollback' = rollback
    BY <1>3 DEF PlainKind
  <2>2. /\ CanTransition(LastStatus(history[a]), to)
        /\ history' \in [Actions -> Seq(Statuses)]
        /\ history'[a] = Append(history[a], to)
        /\ \A b \in Actions : b # a => history'[b] = history[b]
        /\ \A b \in Actions : Len(history'[b]) <= HistoryLimit
        /\ Queued(a)
        /\ snapshot' = snapshot
    BY <2>1, TransitionStep
  <2>3. QueueTypeOK'
    BY <2>1, <2>2 DEF QueueTypeOK
  <2>4. AbsentIsBlank'
    BY <2>1, <2>2 DEF AbsentIsBlank, Queued
  <2>5. LastStatus(history'[a]) = to
    BY <2>2 DEF LastStatus, QueueTypeOK
  <2>6. RollbackContract'
    BY <1>3, <2>1, <2>2, <2>5 DEF RollbackContract, Status, PlainKind
  <2>7. \A b \in Actions : Grows(history[b], history'[b])
    BY <2>2 DEF Grows
  <2> QED BY <2>3, <2>4, <2>6, <2>7
<1>4. ASSUME NEW a \in Actions, ClaimStaleExecution(a)
      PROVE  Kept
  <2>1. /\ history' \in [Actions -> Seq(Statuses)]
        /\ history'[a] = Append(Append(history[a], "failed"), "executing")
        /\ \A b \in Actions : b # a => history'[b] = history[b]
        /\ \A b \in Actions : Len(history'[b]) <= HistoryLimit
        /\ LastStatus(history[a]) = "executing"
        /\ Queued(a)
        /\ snapshot' = snapshot
        /\ rollback' = rollback
    BY <1>4, StaleStep
  <2>2. QueueTypeOK'
    BY <2>1 DEF QueueTypeOK
  <2>3. AbsentIsBlank'
    BY <2>1 DEF AbsentIsBlank, Queued
  <2>4. LastStatus(history'[a]) = "executing"
    <3>1. history[a] \in Seq(Statuses) /\ "failed" \in Statuses /\ "executing" \in Statuses
      BY DEF QueueTypeOK, Statuses
    <3> QED BY <2>1, <3>1 DEF LastStatus
  <2>5. RollbackContract'
    BY <2>1, <2>4 DEF RollbackContract, Status, UncertainRollback
  <2>6. \A b \in Actions : Grows(history[b], history'[b])
    BY <2>1 DEF Grows
  <2> QED BY <2>2, <2>3, <2>5, <2>6
<1>5. ASSUME NEW a \in Actions, NEW to \in Statuses, NEW rb \in RollbackSnapshots,
             PrepareKind(a, to, rb)
      PROVE  Kept
  <2>1. Transition(a, to)
    BY <1>5 DEF PrepareKind
  <2>2. /\ CanTransition(LastStatus(history[a]), to)
        /\ history' \in [Actions -> Seq(Statuses)]
        /\ history'[a] = Append(history[a], to)
        /\ \A b \in Actions : b # a => history'[b] = history[b]
        /\ \A b \in Actions : Len(history'[b]) <= HistoryLimit
        /\ Queued(a)
        /\ snapshot' = snapshot
    BY <2>1, TransitionStep
  <2>3. /\ rollback' \in [Actions -> RollbackSnapshots \cup {NoRollback}]
        /\ rollback'[a] = rb
        /\ rb # NoRollback
        /\ \A b \in Actions : b # a => rollback'[b] = rollback[b]
        /\ ValidRollback(snapshot[a], rb)
    BY <1>5, NoRollbackAssumption DEF PrepareKind, QueueTypeOK
  <2>4. QueueTypeOK'
    BY <2>2, <2>3 DEF QueueTypeOK
  <2>5. AbsentIsBlank'
    BY <2>2, <2>3 DEF AbsentIsBlank, Queued
  <2>6. RollbackContract'
    BY <2>2, <2>3 DEF RollbackContract, Status
  <2>7. \A b \in Actions : Grows(history[b], history'[b])
    BY <2>2 DEF Grows
  <2> QED BY <2>4, <2>5, <2>6, <2>7
<1> QED BY <1>1, <1>2, <1>3, <1>4, <1>5, QueueStepKinds

(* An action never leaves the queue.                                       *)
LEMMA QueuedStays ==
    ASSUME QueueTypeOK, RollbackContract, [QueueNext]_queueVars,
           NEW b \in Actions, Queued(b)
    PROVE  Queued(b)'
<1>1. CASE UNCHANGED queueVars
  BY <1>1 DEF queueVars, Queued
<1>2. ASSUME NEW a \in Actions,
             \/ EnqueueKind(a)
             \/ ClaimStaleExecution(a)
             \/ \E to \in Statuses : PlainKind(a, to)
             \/ \E to \in Statuses, rb \in RollbackSnapshots : PrepareKind(a, to, rb)
      PROVE  Queued(b)'
  BY <1>2 DEF EnqueueKind, ClaimStaleExecution, PlainKind, PrepareKind,
              Transition, Queued
<1> QED BY <1>1, <1>2, QueueStepKinds

(* The inductive invariant holds throughout.                               *)
THEOREM QueueInvariant == QueueSpec => []QueueInv
<1>1. QueueInit => QueueInv
  <2> SUFFICES ASSUME QueueInit
               PROVE  QueueInv
    OBVIOUS
  <2>1. \A a \in Actions : history[a] = <<>> /\ rollback[a] = NoRollback
    BY DEF QueueInit
  <2>2. QueueTypeOK
    BY <2>1, HistoryLimitAssumption DEF QueueInit, QueueTypeOK
  <2>3. AbsentIsBlank /\ RollbackContract
    BY <2>1 DEF AbsentIsBlank, RollbackContract, Status, LastStatus, UncertainRollback
  <2>4. HistoryIsPath
    BY <2>1 DEF HistoryIsPath
  <2> QED BY <2>2, <2>3, <2>4 DEF QueueInv
<1>2. QueueInv /\ [QueueNext]_queueVars => QueueInv'
  <2> SUFFICES ASSUME QueueInv, [QueueNext]_queueVars
               PROVE  QueueInv'
    OBVIOUS
  <2>1. /\ QueueTypeOK'
        /\ AbsentIsBlank'
        /\ RollbackContract'
        /\ \A b \in Actions : Grows(history[b], history'[b])
    BY QueueStep DEF QueueInv
  <2>2. \A b \in Actions : history[b] \in Seq(Statuses) /\ Path(history[b])
    BY DEF QueueInv, QueueTypeOK, HistoryIsPath, Path
  <2>3. \A b \in Actions : Path(history'[b])
    BY <2>1, <2>2, PathGrows
  <2> QED BY <2>1, <2>3 DEF QueueInv, HistoryIsPath, Path
<1> QED BY <1>1, <1>2, PTL DEF QueueSpec

(* The queue is well typed and its histories stay within their limit.      *)
THEOREM QueueTypeInvariant == QueueSpec => []QueueTypeOK
BY QueueInvariant, PTL DEF QueueInv

(* Every history the queue ever holds is a path of the state graph.        *)
THEOREM HistoryInvariant == QueueSpec => []HistoryIsPath
BY QueueInvariant, PTL DEF QueueInv

(* An uncertain or finished rollback always has the states reconciliation  *)
(* compares with, and they differ in managed categories only.              *)
THEOREM ContractInvariant == QueueSpec => []RollbackContract
BY QueueInvariant, PTL DEF QueueInv

(* No execution without an earlier approval and none after a rejection.    *)
THEOREM HumanGateInvariant == QueueSpec => []HumanGate
<1>1. QueueInv => HumanGate
  <2> SUFFICES ASSUME QueueInv, NEW a \in Actions, NEW i \in 1 .. Len(history[a]),
                      history[a][i] = "executing"
               PROVE  /\ history[a][1] = "approved"
                      /\ \A j \in 1 .. i : history[a][j] # "rejected"
    BY DEF HumanGate
  <2>1. /\ history[a] \in Seq(Statuses)
        /\ Len(history[a]) \in Nat
    BY DEF QueueInv, QueueTypeOK
  <2>2. \A k \in 1 .. Len(history[a]) :
            CanTransition(IF k = 1 THEN "pending_review" ELSE history[a][k - 1],
                          history[a][k])
    BY DEF QueueInv, HistoryIsPath
  <2>3. ASSUME NEW j \in 1 .. i, history[a][j] = "rejected"
        PROVE  FALSE
    <3>1. j + 1 \in 1 .. Len(history[a]) /\ j + 1 # 1 /\ (j + 1) - 1 = j
      BY <2>1, <2>3
    <3>2. CanTransition("rejected", history[a][j + 1])
      BY <2>2, <2>3, <3>1
    <3> QED BY <3>2 DEF CanTransition, AllowedTransitions
  <2>4. CanTransition("pending_review", history[a][1]) /\ 1 \in 1 .. i
    BY <2>1, <2>2
  <2>5. history[a][1] \in {"approved", "rejected"}
    BY <2>4 DEF CanTransition, AllowedTransitions
  <2> QED BY <2>3, <2>4, <2>5
<1> QED BY <1>1, QueueInvariant, PTL

-----------------------------------------------------------------------------
(* Two facts about every path of the state graph, with the strengthenings  *)
(* that make them inductive.                                               *)

(* While the next forward step may be a claim, every earlier write intent  *)
(* has been answered by "failed".                                          *)
Retryable == {"pending_review", "approved", "executing", "failed", "rejected"}

Answered(h) ==
    /\ LastStatus(h) \in Retryable =>
          \A i \in 1 .. Len(h) : h[i] = "write_in_flight" =>
              \E k \in i .. Len(h) : h[k] = "failed"
    /\ \A i, j \in 1 .. Len(h) :
          i < j /\ h[i] = "write_in_flight" /\ h[j] = "write_in_flight" =>
              \E k \in i .. j : h[k] = "failed"

LEMMA AnsweredAppend ==
    ASSUME NEW h \in Seq(Statuses), Answered(h),
           NEW to \in Statuses, CanTransition(LastStatus(h), to)
    PROVE  Answered(Append(h, to))
<1> DEFINE g == Append(h, to)
<1>1. /\ Len(g) = Len(h) + 1
      /\ \A i \in 1 .. Len(h) : g[i] = h[i]
      /\ g[Len(h) + 1] = to
      /\ g # <<>>
  BY AppendElements
<1>2. Len(h) \in Nat
  OBVIOUS
<1> HIDE DEF g
<1>3. LastStatus(g) = to
  BY <1>1 DEF LastStatus
<1>4. LastStatus(h) \in Statuses
  BY LastStatusType
<1>5. ASSUME to \in Retryable, NEW i \in 1 .. Len(g), g[i] = "write_in_flight"
      PROVE  \E k \in i .. Len(g) : g[k] = "failed"
  <2>1. i \in 1 .. Len(h) /\ h[i] = "write_in_flight"
    BY <1>1, <1>2, <1>5 DEF Retryable
  <2>2. CASE to = "failed"
    BY <1>1, <1>2, <2>1, <2>2
  <2>3. CASE to # "failed"
    <3>1. LastStatus(h) \in Retryable
      BY <1>5, <2>3 DEF CanTransition, AllowedTransitions, Retryable
    <3>2. PICK k \in i .. Len(h) : h[k] = "failed"
      BY <2>1, <3>1 DEF Answered
    <3> QED BY <1>1, <1>2, <2>1, <3>2
  <2> QED BY <2>2, <2>3
<1>6. ASSUME NEW i \in 1 .. Len(g), NEW j \in 1 .. Len(g), i < j,
             g[i] = "write_in_flight", g[j] = "write_in_flight"
      PROVE  \E k \in i .. j : g[k] = "failed"
  <2>1. i \in 1 .. Len(h) /\ h[i] = "write_in_flight"
    BY <1>1, <1>2, <1>6
  <2>2. CASE j \in 1 .. Len(h)
    <3>1. PICK k \in i .. j : h[k] = "failed"
      BY <1>1, <1>6, <2>1, <2>2 DEF Answered
    <3> QED BY <1>1, <1>2, <2>1, <2>2, <3>1
  <2>3. CASE j = Len(h) + 1
    <3>1. LastStatus(h) = "executing"
      BY <1>1, <1>6, <2>3 DEF CanTransition, AllowedTransitions
    <3>2. PICK k \in i .. Len(h) : h[k] = "failed"
      BY <2>1, <3>1 DEF Answered, Retryable
    <3> QED BY <1>1, <1>2, <2>1, <2>3, <3>2
  <2> QED BY <1>1, <1>2, <2>2, <2>3
<1>7. Answered(g)
  BY <1>3, <1>5, <1>6 DEF Answered
<1> QED BY <1>7 DEF g

(* Where a history with a rollback in it stands.                           *)
RollingBack ==
    UncertainRollback \cup {"rollback_executing", "rollback_failed", "rolled_back"}

Undoing(h) ==
    \A i \in 1 .. Len(h) : h[i] \in RollingBack =>
        /\ \E j \in 1 .. i : h[j] = "succeeded"
        /\ \A j \in i .. Len(h) : h[j] \in RollingBack

LEMMA UndoingAppend ==
    ASSUME NEW h \in Seq(Statuses), Undoing(h),
           NEW to \in Statuses, CanTransition(LastStatus(h), to)
    PROVE  Undoing(Append(h, to))
<1> DEFINE g == Append(h, to)
<1>1. /\ Len(g) = Len(h) + 1
      /\ \A i \in 1 .. Len(h) : g[i] = h[i]
      /\ g[Len(h) + 1] = to
  BY AppendElements
<1>2. Len(h) \in Nat
  OBVIOUS
<1> HIDE DEF g
<1>3. ASSUME h # <<>>
      PROVE  Len(h) \in 1 .. Len(h) /\ LastStatus(h) = h[Len(h)]
  BY <1>2, <1>3 DEF LastStatus
<1>4. ASSUME NEW i \in 1 .. Len(g), g[i] \in RollingBack
      PROVE  /\ \E j \in 1 .. i : g[j] = "succeeded"
             /\ \A j \in i .. Len(g) : g[j] \in RollingBack
  <2>1. CASE i \in 1 .. Len(h)
    <3>1. PICK j \in 1 .. i : h[j] = "succeeded"
      BY <1>1, <1>4, <2>1 DEF Undoing
    <3>2. \A k \in i .. Len(h) : h[k] \in RollingBack
      BY <1>1, <1>4, <2>1 DEF Undoing
    <3>3. h # <<>>
      BY <2>1
    <3>4. LastStatus(h) \in RollingBack
      BY <1>2, <1>3, <2>1, <3>2, <3>3
    <3>5. to \in RollingBack
      BY <3>4 DEF CanTransition, AllowedTransitions, RollingBack, UncertainRollback
    <3>6. g[j] = "succeeded"
      BY <1>1, <1>2, <2>1, <3>1
    <3>7. \A k \in i .. Len(g) : g[k] \in RollingBack
      BY <1>1, <1>2, <2>1, <3>2, <3>5
    <3> QED BY <3>6, <3>7
  <2>2. CASE i = Len(h) + 1
    <3>1. to \in RollingBack
      BY <1>1, <1>4, <2>2
    <3>2. LastStatus(h) \in RollingBack \cup {"succeeded"}
      BY <3>1 DEF CanTransition, AllowedTransitions, RollingBack, UncertainRollback
    <3>3. h # <<>>
      BY <3>2 DEF LastStatus, RollingBack, UncertainRollback
    <3>4. \E j \in 1 .. Len(h) : h[j] = "succeeded"
      BY <1>2, <1>3, <3>2, <3>3 DEF Undoing
    <3> QED BY <1>1, <1>2, <2>2, <3>1, <3>4
  <2> QED BY <1>1, <1>2, <2>1, <2>2
<1>5. Undoing(g)
  BY <1>4 DEF Undoing
<1> QED BY <1>5 DEF g

(* Both survive any growth of a history.                                   *)
LEMMA AnsweredUndoingGrows ==
    ASSUME NEW h \in Seq(Statuses), Answered(h), Undoing(h), NEW g, Grows(h, g)
    PROVE  Answered(g) /\ Undoing(g)
<1>1. CASE g = h
  BY <1>1
<1>2. CASE \E to \in Statuses : CanTransition(LastStatus(h), to) /\ g = Append(h, to)
  BY <1>2, AnsweredAppend, UndoingAppend
<1>3. CASE /\ LastStatus(h) = "executing"
           /\ g = Append(Append(h, "failed"), "executing")
  <2>1. "failed" \in Statuses /\ "executing" \in Statuses
    BY DEF Statuses
  <2>2. /\ CanTransition("executing", "failed")
        /\ CanTransition("failed", "executing")
    BY DEF CanTransition, AllowedTransitions
  <2>3. /\ Answered(Append(h, "failed"))
        /\ Undoing(Append(h, "failed"))
        /\ Append(h, "failed") \in Seq(Statuses)
    BY <1>3, <2>1, <2>2, AnsweredAppend, UndoingAppend
  <2>4. LastStatus(Append(h, "failed")) = "failed"
    BY <2>1 DEF LastStatus
  <2> QED BY <1>3, <2>1, <2>2, <2>3, <2>4, AnsweredAppend, UndoingAppend
<1> QED BY <1>1, <1>2, <1>3 DEF Grows

(* Both hold of every history the queue ever holds.                        *)
THEOREM PathFacts ==
    QueueSpec => [](\A a \in Actions : Answered(history[a]) /\ Undoing(history[a]))
<1> DEFINE Facts == \A a \in Actions : Answered(history[a]) /\ Undoing(history[a])
<1>1. QueueInit => Facts
  <2>1. Answered(<<>>) /\ Undoing(<<>>)
    BY DEF Answered, Undoing
  <2>2. QueueInit => \A a \in Actions : history[a] = <<>>
    BY DEF QueueInit
  <2> QED BY <2>1, <2>2
<1>2. QueueInv /\ Facts /\ [QueueNext]_queueVars => Facts'
  <2> SUFFICES ASSUME QueueInv, Facts, [QueueNext]_queueVars
               PROVE  Facts'
    OBVIOUS
  <2>1. \A b \in Actions : Grows(history[b], history'[b])
    BY QueueStep DEF QueueInv
  <2>2. \A b \in Actions : history[b] \in Seq(Statuses)
    BY DEF QueueInv, QueueTypeOK
  <2> QED BY <2>1, <2>2, AnsweredUndoingGrows
<1> HIDE DEF Facts
<1>3. QueueSpec => []Facts
  BY <1>1, <1>2, QueueInvariant, PTL DEF QueueSpec
<1> QED BY <1>3 DEF Facts

(* No second write intent without a "failed" verdict on the first.         *)
THEOREM NoBlindRetryInvariant == QueueSpec => []NoBlindRetry
<1>1. (\A a \in Actions : Answered(history[a]) /\ Undoing(history[a])) => NoBlindRetry
  BY DEF Answered, NoBlindRetry
<1> QED BY <1>1, PathFacts, PTL

(* Rollback only after a success, and no forward write after a rollback.   *)
THEOREM RollbackInvariant == QueueSpec => []RollbackFollowsSuccess
<1>1. (\A a \in Actions : Answered(history[a]) /\ Undoing(history[a]))
        => RollbackFollowsSuccess
  <2> SUFFICES ASSUME \A a \in Actions : Undoing(history[a]),
                      NEW a \in Actions, NEW i \in 1 .. Len(history[a]),
                      history[a][i] = "rollback_executing"
               PROVE  /\ \E j \in 1 .. i : history[a][j] = "succeeded"
                      /\ \A j \in i .. Len(history[a]) :
                            history[a][j] \notin {"executing", "write_in_flight"}
    BY DEF RollbackFollowsSuccess
  <2> QED BY DEF Undoing, RollingBack, UncertainRollback
<1> QED BY <1>1, PathFacts, PTL

-----------------------------------------------------------------------------
(* The queue implements the store of module QueueStore.                    *)

(* The statuses in a history that gets one more, and the last of them.     *)
LEMMA StatusesOfAppend ==
    ASSUME NEW h \in Seq(Statuses), NEW to \in Statuses
    PROVE  /\ {Append(h, to)[i] : i \in DOMAIN Append(h, to)}
                = {h[i] : i \in DOMAIN h} \cup {to}
           /\ LastStatus(Append(h, to)) = to
<1> DEFINE g == Append(h, to)
<1>1. /\ Len(h) \in Nat /\ DOMAIN h = 1 .. Len(h)
      /\ Len(g) = Len(h) + 1 /\ DOMAIN g = 1 .. Len(g)
      /\ \A i \in 1 .. Len(h) : g[i] = h[i]
      /\ g[Len(h) + 1] = to
  BY AppendElements
<1>2. g # <<>>
  BY <1>1
<1> HIDE DEF g
<1>3. DOMAIN g = DOMAIN h \cup {Len(h) + 1}
  BY <1>1
<1>4. {g[i] : i \in DOMAIN g} = {h[i] : i \in DOMAIN h} \cup {to}
  BY <1>1, <1>3
<1>5. LastStatus(g) = to
  BY <1>1, <1>2 DEF LastStatus
<1> QED BY <1>4, <1>5 DEF g

(* A transition is a review that the store allows, or the store sees none: *)
(* nothing leaves "rejected", and only people go there.                    *)
LEMMA TransitionReviews ==
    ASSUME QueueTypeOK, NEW a \in Actions, NEW to, Transition(a, to)
    PROVE  \/ Stages(a)' = Stages(a)
           \/ \E d \in {"approved", "rejected"} :
                 Store!MayReview(Stages(a), d) /\ Stages(a)' = Stages(a) \cup {d}
<1> DEFINE h == history[a]
           S == {h[i] : i \in DOMAIN h}
<1>1. /\ to \in Statuses /\ CanTransition(LastStatus(h), to)
      /\ history'[a] = Append(h, to) /\ Queued(a) /\ snapshot' = snapshot
  BY TransitionStep
<1>2. h \in Seq(Statuses)
  BY DEF QueueTypeOK
<1>3. /\ {history'[a][i] : i \in DOMAIN history'[a]} = S \cup {to}
      /\ LastStatus(history'[a]) = to
  BY <1>1, <1>2, StatusesOfAppend
<1> HIDE DEF S, h
<1>4. Stages(a)' = {"pending_review"} \cup ({"approved"} \cap (S \cup {to}))
                       \cup ({"rejected"} \cap {to})
  <2>1. Queued(a)'
    BY <1>1 DEF Queued
  <2> QED BY <1>3, <2>1 DEF Stages, Status
<1>5. Stages(a) = {"pending_review"} \cup ({"approved"} \cap S)
                      \cup ({"rejected"} \cap {LastStatus(h)})
  BY <1>1 DEF Stages, Status, S, h
<1>6. LastStatus(h) # "rejected"
  BY <1>1 DEF CanTransition, AllowedTransitions
<1>7. CASE to = "approved"
  <2>1. CASE "approved" \in S
    BY <1>4, <1>5, <1>6, <1>7, <2>1
  <2>2. CASE "approved" \notin S
    <3>1. Stages(a) = {"pending_review"}
      BY <1>5, <1>6, <2>2
    <3>2. Store!MayReview(Stages(a), "approved")
      BY <3>1 DEF Store!MayReview
    <3> QED BY <1>4, <1>7, <3>1, <3>2
  <2> QED BY <2>1, <2>2
<1>8. CASE to = "rejected"
  <2>1. "pending_review" \in Stages(a) /\ "rejected" \notin Stages(a)
    BY <1>5, <1>6
  <2>2. Store!MayReview(Stages(a), "rejected")
    BY <2>1 DEF Store!MayReview
  <2>3. Stages(a)' = Stages(a) \cup {"rejected"}
    BY <1>4, <1>5, <1>6, <1>8
  <2> QED BY <2>2, <2>3
<1>9. CASE to \notin {"approved", "rejected"}
  BY <1>4, <1>5, <1>6, <1>9
<1> QED BY <1>7, <1>8, <1>9

(* A call moves one action: it enqueues or reviews it, or does what the    *)
(* store does not see.                                                     *)
LEMMA OneActionMoves ==
    ASSUME QueueTypeOK, RollbackContract, AbsentIsBlank, QueueNext
    PROVE  \E a \in Actions :
              /\ \A b \in Actions : b # a => Stages(b)' = Stages(b)
              /\ \/ Stages(a)' = Stages(a)
                 \/ Stages(a) = {} /\ Stages(a)' = {"pending_review"}
                 \/ \E d \in {"approved", "rejected"} :
                       Store!MayReview(Stages(a), d) /\ Stages(a)' = Stages(a) \cup {d}
<1>1. PICK a \in Actions :
        \/ EnqueueKind(a)
        \/ ClaimStaleExecution(a)
        \/ \E to \in Statuses : PlainKind(a, to)
        \/ \E to \in Statuses, rb \in RollbackSnapshots : PrepareKind(a, to, rb)
  BY QueueStepKinds
<1>2. CASE EnqueueKind(a)
  <2>1. \A b \in Actions : b # a => Stages(b)' = Stages(b)
    BY <1>2 DEF EnqueueKind, Stages, Status, Queued
  <2>2. ~Queued(a) /\ history'[a] = <<>>
    BY <1>2 DEF EnqueueKind, AbsentIsBlank
  <2>3. Stages(a) = {} /\ Stages(a)' \in {{}, {"pending_review"}}
    BY <2>2 DEF Stages, Status, LastStatus
  <2> QED BY <2>1, <2>3
<1>3. CASE ClaimStaleExecution(a)
  <2> DEFINE h == history[a]
             g == Append(h, "failed")
  <2>1. /\ history'[a] = Append(g, "executing") /\ LastStatus(h) = "executing"
        /\ Queued(a) /\ snapshot' = snapshot
        /\ \A b \in Actions : b # a => history'[b] = history[b]
    BY <1>3, StaleStep
  <2>2. h \in Seq(Statuses) /\ "failed" \in Statuses /\ "executing" \in Statuses
    BY DEF QueueTypeOK, Statuses
  <2>3. /\ g \in Seq(Statuses)
        /\ {g[i] : i \in DOMAIN g} = {h[i] : i \in DOMAIN h} \cup {"failed"}
    BY <2>2, AppendElements, StatusesOfAppend
  <2>4. /\ {history'[a][i] : i \in DOMAIN history'[a]}
             = {g[i] : i \in DOMAIN g} \cup {"executing"}
        /\ LastStatus(history'[a]) = "executing"
    <3> HIDE DEF g
    <3> QED BY <2>1, <2>2, <2>3, StatusesOfAppend
  <2> HIDE DEF g
  <2>5. Stages(a)' = Stages(a)
    BY <2>1, <2>3, <2>4 DEF Stages, Status, Queued
  <2>6. \A b \in Actions : b # a => Stages(b)' = Stages(b)
    BY <2>1 DEF Stages, Status, Queued
  <2> QED BY <2>5, <2>6
<1>4. CASE \E to : Transition(a, to)
  <2>1. PICK to : Transition(a, to)
    BY <1>4
  <2>2. snapshot' = snapshot /\ \A b \in Actions : b # a => history'[b] = history[b]
    BY <2>1, TransitionStep
  <2>3. \A b \in Actions : b # a => Stages(b)' = Stages(b)
    BY <2>2 DEF Stages, Status, Queued
  <2> QED BY <2>1, <2>3, TransitionReviews
<1> QED BY <1>1, <1>2, <1>3, <1>4 DEF PlainKind, PrepareKind

(* Every call of the repository is a step of the store, or none: approval  *)
(* only of what nobody rejected, a rejection that stands, for any callers  *)
(* in any order.                                                           *)
THEOREM DecisionRefinement == QueueSpec => DecisionsStand
<1> DEFINE content == [a \in Actions |-> Stages(a)]
<1>1. QueueInit => Store!StoreInit
  BY DEF QueueInit, Store!StoreInit, Stages, Queued
<1>2. QueueInv /\ [QueueNext]_queueVars => [Store!StoreNext]_content
  <2> SUFFICES ASSUME QueueInv, [QueueNext]_queueVars
               PROVE  [Store!StoreNext]_content
    OBVIOUS
  <2>1. CASE UNCHANGED queueVars
    <3>1. \A a \in Actions : Stages(a)' = Stages(a)
      BY <2>1 DEF queueVars, Stages, Status, Queued
    <3> QED BY <3>1
  <2>2. CASE QueueNext
    <3>1. PICK a \in Actions :
            /\ \A b \in Actions : b # a => Stages(b)' = Stages(b)
            /\ \/ Stages(a)' = Stages(a)
               \/ Stages(a) = {} /\ Stages(a)' = {"pending_review"}
               \/ \E d \in {"approved", "rejected"} :
                     Store!MayReview(Stages(a), d) /\ Stages(a)' = Stages(a) \cup {d}
      BY <2>2, OneActionMoves DEF QueueInv
    <3>2. CASE Stages(a)' = Stages(a)
      <4>1. \A b \in Actions : Stages(b)' = Stages(b)
        BY <3>1, <3>2
      <4> QED BY <4>1
    <3>3. CASE Stages(a) = {} /\ Stages(a)' = {"pending_review"}
      <4>1. content' = [b \in Actions |->
               IF b \in {a} /\ content[b] = {} THEN {"pending_review"} ELSE content[b]]
        BY <3>1, <3>3
      <4>2. Store!Build({a})
        BY <4>1 DEF Store!Build, Store!WithBatch
      <4> QED BY <4>2 DEF Store!StoreNext
    <3>4. ASSUME NEW d \in {"approved", "rejected"},
                 Store!MayReview(Stages(a), d), Stages(a)' = Stages(a) \cup {d}
          PROVE  Store!StoreNext
      <4>1. /\ content[a] = Stages(a)
            /\ content' = [content EXCEPT ![a] = content[a] \cup {d}]
        BY <3>1, <3>4
      <4>2. Store!Review(a, d)
        BY <3>4, <4>1 DEF Store!Review
      <4> QED BY <4>2 DEF Store!StoreNext, Store!Reviews
    <3> QED BY <3>1, <3>2, <3>3, <3>4
  <2> QED BY <2>1, <2>2
<1> QED BY <1>1, <1>2, QueueInvariant, PTL DEF QueueSpec, DecisionsStand, Store!StoreSpec
=============================================================================
