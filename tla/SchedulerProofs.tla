--------------------------- MODULE SchedulerProofs ---------------------------
(***************************************************************************)
(* Proofs about modules Service and WebAgent, for any number of            *)
(* schedulers, probes and requests.                                        *)
(***************************************************************************)
EXTENDS WebAgent, WellFoundedInduction, TLAPS

-----------------------------------------------------------------------------
(* The backoff.  Doubled is a recursive function: what it computes is      *)
(* found by induction over the natural numbers, as a fact about sets.      *)

LEMMA NaturalInduction ==
    ASSUME NEW S, 0 \in S, \A n \in Nat : n \in S => n + 1 \in S
    PROVE  Nat \subseteq S
<1> DEFINE T == Nat \ S
<1>1. SUFFICES ASSUME T # {} PROVE FALSE
  BY <1>1
<1>2. PICK n \in T : \A m \in T : ~(<<m, n>> \in OpToRel(<, Nat))
  BY <1>1, NatLessThanWellFounded, WFMin
<1>3. \A m \in T : ~(m < n)
  BY <1>2 DEF OpToRel
<1>4. n # 0 /\ n - 1 \in Nat /\ n - 1 < n
  OBVIOUS
<1>5. n - 1 \in S
  BY <1>3, <1>4
<1> QED
  BY <1>4, <1>5

(* The beginnings of such a function, and that they agree.                 *)
Doublings(n) ==
    {f \in [0 .. n -> Nat] :
        /\ f[0] = Interval
        /\ \A k \in 1 .. n : f[k] = 2 * f[k - 1]}

LEMMA DoublingsExist == \A n \in Nat : Doublings(n) # {}
<1> DEFINE S == {n \in Nat : Doublings(n) # {}}
<1>1. 0 \in S
  <2>1. [k \in 0 .. 0 |-> Interval] \in Doublings(0)
    BY IntervalAssumption DEF Doublings
  <2> QED
    BY <2>1
<1>2. ASSUME NEW n \in Nat, n \in S PROVE n + 1 \in S
  <2>1. PICK f \in Doublings(n) : TRUE
    BY <1>2
  <2> DEFINE g == [k \in 0 .. n + 1 |-> IF k = n + 1 THEN 2 * f[n] ELSE f[k]]
  <2>2. f \in [0 .. n -> Nat] /\ f[0] = Interval /\ \A k \in 1 .. n : f[k] = 2 * f[k - 1]
    BY <2>1 DEF Doublings
  <2>3. g \in [0 .. n + 1 -> Nat]
    BY <2>2
  <2>4. g[0] = Interval
    BY <2>2
  <2>5. ASSUME NEW k \in 1 .. n + 1 PROVE g[k] = 2 * g[k - 1]
    BY <2>2
  <2>6. g \in Doublings(n + 1)
    BY <2>3, <2>4, <2>5 DEF Doublings
  <2> QED
    BY <2>6
<1> HIDE DEF S
<1>3. Nat \subseteq S
  BY <1>1, <1>2, NaturalInduction
<1> QED
  BY <1>3 DEF S

LEMMA DoublingsAgree ==
    ASSUME NEW n \in Nat, NEW f \in Doublings(n), NEW g \in Doublings(n + 1)
    PROVE  \A k \in 0 .. n : f[k] = g[k]
<1> DEFINE S == {k \in Nat : k <= n => f[k] = g[k]}
<1>1. 0 \in S
  BY DEF Doublings
<1>2. ASSUME NEW k \in Nat, k \in S PROVE k + 1 \in S
  <2> SUFFICES ASSUME k + 1 <= n PROVE f[k + 1] = g[k + 1]
    OBVIOUS
  <2>1. f[k] = g[k]
    BY <1>2
  <2>2. k + 1 \in 1 .. n /\ k + 1 \in 1 .. n + 1 /\ (k + 1) - 1 = k
    OBVIOUS
  <2> QED
    BY <2>1, <2>2 DEF Doublings
<1> HIDE DEF S
<1>3. Nat \subseteq S
  BY <1>1, <1>2, NaturalInduction
<1> QED
  BY <1>3 DEF S

(* The function is what its recursive definition says.                     *)
LEMMA DoubledDefined ==
    /\ Doubled \in [Nat -> Nat]
    /\ Doubled[0] = Interval
    /\ \A n \in Nat : Doubled[n + 1] = 2 * Doubled[n]
<1> DEFINE start(n) == CHOOSE f \in Doublings(n) : TRUE
           g == [n \in Nat |-> start(n)[n]]
<1>1. \A n \in Nat : start(n) \in Doublings(n)
  BY DoublingsExist
<1>2. ASSUME NEW n \in Nat, n # 0 PROVE g[n] = 2 * g[n - 1]
  <2>1. n - 1 \in Nat /\ (n - 1) + 1 = n
    BY <1>2
  <2>2. start(n) \in Doublings((n - 1) + 1) /\ start(n - 1) \in Doublings(n - 1)
    BY <1>1, <2>1
  <2> HIDE DEF start
  <2>3. start(n - 1)[n - 1] = start(n)[n - 1]
    BY <2>1, <2>2, DoublingsAgree
  <2>4. start(n)[n] = 2 * start(n)[n - 1]
    BY <1>1, <1>2, <2>1 DEF Doublings
  <2> QED
    BY <2>1, <2>3, <2>4
<1>3. g[0] = Interval
  <2> HIDE DEF start
  <2> QED BY <1>1 DEF Doublings
<1>4. g \in [Nat -> Nat]
  <2> HIDE DEF start
  <2> QED BY <1>1 DEF Doublings
<1>5. g = [n \in Nat |-> IF n = 0 THEN Interval ELSE 2 * g[n - 1]]
  <2> HIDE DEF start
  <2>1. \A n \in Nat : g[n] = IF n = 0 THEN Interval ELSE 2 * g[n - 1]
    <3> HIDE DEF g
    <3> QED BY <1>2, <1>3
  <2> QED
    BY <2>1
<1> HIDE DEF g
<1>6. Doubled = [n \in Nat |-> IF n = 0 THEN Interval ELSE 2 * Doubled[n - 1]]
  BY <1>5 DEF Doubled
<1>7. \A n \in Nat : Doubled[n] = IF n = 0 THEN Interval ELSE 2 * Doubled[n - 1]
  BY <1>6
<1>8. Doubled[0] = Interval
  BY <1>7
<1>9. \A n \in Nat : Doubled[n + 1] = 2 * Doubled[n]
  <2> TAKE n \in Nat
  <2>1. n + 1 \in Nat /\ n + 1 # 0 /\ (n + 1) - 1 = n
    OBVIOUS
  <2> QED
    BY <1>7, <2>1
<1>10. \A n \in Nat : Doubled[n] \in Nat
  <2> DEFINE S == {n \in Nat : Doubled[n] \in Nat}
  <2>1. 0 \in S
    BY <1>8, IntervalAssumption
  <2>2. \A n \in Nat : n \in S => n + 1 \in S
    BY <1>9
  <2> HIDE DEF S
  <2>3. Nat \subseteq S
    BY <2>1, <2>2, NaturalInduction
  <2> QED
    BY <2>3 DEF S
<1> QED
  BY <1>6, <1>8, <1>9, <1>10

-----------------------------------------------------------------------------
(* The scheduler, whoever starts and asks it.                              *)

LEMMA SmallerType ==
    ASSUME NEW m \in Nat, NEW n \in Nat
    PROVE  Smaller(m, n) \in 0 .. n
BY DEF Smaller

LEMMA RetryDelayType ==
    ASSUME NEW n \in Nat
    PROVE  RetryDelay(n) \in 0 .. MaxBackoff
<1> DEFINE k == Smaller(IF n = 0 THEN 0 ELSE n - 1, 20)
<1>1. k \in 0 .. 20
  <2>1. (IF n = 0 THEN 0 ELSE n - 1) \in Nat
    OBVIOUS
  <2> QED
    BY <2>1, SmallerType
<1>2. 2 ^ k \in Nat
  BY <1>1, PowerAssumption
<1>3. Interval * 2 ^ k \in Nat
  <2> HIDE DEF k
  <2> DEFINE power == 2 ^ k
  <2>1. power \in Nat
    BY <1>2
  <2> HIDE DEF power
  <2>2. Interval * power \in Nat
    BY <2>1, IntervalAssumption
  <2> QED
    BY <2>2 DEF power
<1> HIDE DEF k
<1>4. Smaller(Interval * 2 ^ k, MaxBackoff) \in 0 .. MaxBackoff
  BY <1>3, SmallerType, IntervalAssumption
<1> QED
  BY <1>4 DEF RetryDelay, k

(* The lock and the row move together with the step of their process.      *)
ServiceInv == ServiceTypeOK /\ LockIsHonest /\ PidMatchesStatus

LEMMA FailuresType ==
    ASSUME ServiceTypeOK, NEW r \in Runners
    PROVE  Failures(r) \in Nat
BY DEF ServiceTypeOK, Failures, Rows

LEMMA SaveType ==
    ASSUME NEW status \in RowStatuses, NEW pid \in Runners \cup {NoOne},
           NEW failures \in Nat, NEW delay \in 0 .. MaxBackoff,
           status \in {"idle", "stopped"} <=> pid = NoOne,
           Save(status, pid, failures, delay)
    PROVE  row' \in Rows /\ PidMatchesStatus'
BY NoRowAssumption DEF Save, Rows, PidMatchesStatus

LEMMA StepInv ==
    ASSUME ServiceInv, NEW r \in Runners, Step(r)
    PROVE  ServiceInv'
<1> USE DEF ServiceInv, ServiceTypeOK, LockIsHonest, Steps, Locked, Goto, Exit
<1> USE RunnersAssumption
<1>1. CASE Acquire(r)
  BY <1>1 DEF Acquire, PidMatchesStatus
<1>2. CASE Refuse(r)
  BY <1>2 DEF Refuse, PidMatchesStatus
<1>3. CASE LeaveRefused(r)
  BY <1>3 DEF LeaveRefused, PidMatchesStatus
<1>4. CASE Get(r)
  BY <1>4 DEF Get, Reads, PidMatchesStatus
<1>5. CASE MarkStarted(r)
  <2>1. row' \in Rows /\ PidMatchesStatus'
    BY <1>5, FailuresType, SaveType, IntervalAssumption DEF MarkStarted, RowStatuses
  <2> QED
    BY <1>5, <2>1 DEF MarkStarted, NextRound
<1>6. CASE MarkWaiting(r)
  <2>1. row' \in Rows /\ PidMatchesStatus'
    BY <1>6, FailuresType, SaveType, IntervalAssumption DEF MarkWaiting, RowStatuses
  <2> QED
    BY <1>6, <2>1 DEF MarkWaiting
<1>7. CASE MarkRunning(r)
  <2>1. row' \in Rows /\ PidMatchesStatus'
    BY <1>7, FailuresType, SaveType, IntervalAssumption DEF MarkRunning, RowStatuses
  <2> QED
    BY <1>7, <2>1 DEF MarkRunning
<1>8. ASSUME NEW successful \in BOOLEAN, RunEnds(r, successful)
      PROVE  ServiceInv'
  <2> DEFINE failures == IF successful THEN 0 ELSE Failures(r) + 1
  <2>1. failures \in Nat
    BY FailuresType
  <2>2. RetryDelay(failures) \in 0 .. MaxBackoff
    BY <2>1, RetryDelayType
  <2>3. row' \in Rows /\ PidMatchesStatus'
    <3>1. CASE once[r]
      <4>1. Save("idle", NoOne, failures, 0)
        BY <1>8, <3>1 DEF RunEnds
      <4> QED
        BY <4>1, <2>1, SaveType, IntervalAssumption DEF RowStatuses
    <3>2. CASE ~once[r] /\ successful
      <4>1. Save("sleeping", r, 0, Interval)
        BY <1>8, <3>2 DEF RunEnds
      <4> QED
        BY <4>1, SaveType, IntervalAssumption DEF RowStatuses
    <3>3. CASE ~once[r] /\ ~successful
      <4>1. Save("backoff", r, failures, RetryDelay(failures))
        BY <1>8, <3>3 DEF RunEnds
      <4> HIDE DEF failures
      <4> QED
        BY <4>1, <2>1, <2>2, SaveType DEF RowStatuses
    <3> QED
      BY <3>1, <3>2, <3>3
  <2> QED
    BY <1>8, <2>3 DEF RunEnds
<1>9. CASE Wait(r)
  BY <1>9 DEF Wait, NextRound, PidMatchesStatus
<1>10. CASE Release(r)
  BY <1>10 DEF Release, PidMatchesStatus
<1>11. CASE MarkStopped(r)
  <2>1. row' \in Rows \cup {NoRow} /\ PidMatchesStatus'
    <3>1. CASE prev[r] = NoRow
      BY <1>11, <3>1 DEF MarkStopped, PidMatchesStatus
    <3>2. CASE prev[r] # NoRow
      BY <1>11, <3>2, FailuresType, SaveType, IntervalAssumption DEF MarkStopped, RowStatuses
    <3> QED
      BY <3>1, <3>2
  <2> QED
    BY <1>11, <2>1 DEF MarkStopped
<1> QED
  BY <1>1, <1>2, <1>3, <1>4, <1>5, <1>6, <1>7, <1>8, <1>9, <1>10, <1>11 DEF Step

Unscheduled(r) ==
    \/ \E single \in BOOLEAN : Start(r, single)
    \/ Mishap(r)
    \/ RequestStop(r)

LEMMA OtherStepsInv ==
    ServiceInv =>
        /\ \A r \in Runners : Unscheduled(r) => ServiceInv'
        /\ \A p \in Probers : Probe(p) => ServiceInv'
        /\ UNCHANGED serviceVars => ServiceInv'
<1> SUFFICES ASSUME ServiceInv
             PROVE  /\ \A r \in Runners : Unscheduled(r) => ServiceInv'
                    /\ \A p \in Probers : Probe(p) => ServiceInv'
                    /\ UNCHANGED serviceVars => ServiceInv'
  OBVIOUS
<1> USE DEF ServiceInv, ServiceTypeOK, LockIsHonest, Steps, Locked, Goto, Exit,
            PidMatchesStatus
<1> USE RunnersAssumption
<1>1. ASSUME NEW r \in Runners, NEW single \in BOOLEAN, Start(r, single)
      PROVE  ServiceInv'
  BY <1>1 DEF Start
<1>2. ASSUME NEW r \in Runners, Raise(r)
      PROVE  ServiceInv'
  BY <1>2 DEF Raise
<1>3. ASSUME NEW r \in Runners, Crash(r)
      PROVE  ServiceInv'
  BY <1>3 DEF Crash
<1>4. ASSUME NEW r \in Runners, RequestStop(r)
      PROVE  ServiceInv'
  BY <1>4 DEF RequestStop
<1>5. ASSUME NEW p \in Probers, Probe(p)
      PROVE  ServiceInv'
  BY <1>5 DEF Probe, ProbeFree, ProbeBusy, ProbeEnds, Dismiss, runnerVars
<1>6. ASSUME UNCHANGED serviceVars
      PROVE  ServiceInv'
  BY <1>6 DEF serviceVars, runnerVars
<1>7. \A r \in Runners : Unscheduled(r) => ServiceInv'
  BY <1>1, <1>2, <1>3, <1>4 DEF Unscheduled, Mishap
<1> QED
  BY <1>5, <1>6, <1>7

LEMMA ServiceStepInv == ServiceInv /\ [ServiceNext]_serviceVars => ServiceInv'
<1> SUFFICES ASSUME ServiceInv, [ServiceNext]_serviceVars
             PROVE  ServiceInv'
  OBVIOUS
<1>1. CASE UNCHANGED serviceVars
  BY <1>1, OtherStepsInv
<1>2. ASSUME NEW r \in Runners, Step(r)
      PROVE  ServiceInv'
  BY <1>2, StepInv
<1>3. ASSUME NEW r \in Runners, Unscheduled(r)
      PROVE  ServiceInv'
  BY <1>3, OtherStepsInv
<1>4. ASSUME NEW p \in Probers, Probe(p)
      PROVE  ServiceInv'
  BY <1>4, OtherStepsInv
<1> QED
  BY <1>1, <1>2, <1>3, <1>4 DEF ServiceNext, Unscheduled

LEMMA ServiceInitInv == ServiceInit => ServiceInv
BY RunnersAssumption DEF ServiceInit, ServiceInv, ServiceTypeOK, LockIsHonest,
   PidMatchesStatus, Steps, Locked

(* The inductive invariant of the scheduler: types, an honest lock and a   *)
(* row whose pid fits its status.                                          *)
THEOREM ServiceInvariant == ServiceSpec => []ServiceInv
<1>1. ServiceInit => ServiceInv
  BY ServiceInitInv
<1>2. ServiceInv /\ [ServiceNext]_serviceVars => ServiceInv'
  BY ServiceStepInv
<1> QED
  BY <1>1, <1>2, PTL DEF ServiceSpec

(* Type correctness; with it, no delay exceeds max_backoff_minutes.        *)
THEOREM ServiceTypeInvariant == ServiceSpec => []ServiceTypeOK
BY ServiceInvariant, PTL DEF ServiceInv

(* At most one scheduler works at a time, and no lock is kept by a process *)
(* that has no step left to free it.                                       *)
THEOREM LockInvariant == ServiceSpec => []LockIsHonest
BY ServiceInvariant, PTL DEF ServiceInv

(* A row of a live status names its process, a row of an ended one none.   *)
THEOREM PidInvariant == ServiceSpec => []PidMatchesStatus
BY ServiceInvariant, PTL DEF ServiceInv

(* The exponent of _retry_delay counts the doublings until its cap, where  *)
(* they have long passed the maximum.                                      *)
LEMMA DoubledPower == \A k \in 0 .. 20 : Doubled[k] = Interval * 2 ^ k
<1> DEFINE S == {k \in Nat : k <= 20 => Doubled[k] = Interval * 2 ^ k}
<1>1. 0 \in S
  BY DoubledDefined, PowerAssumption, IntervalAssumption
<1>2. ASSUME NEW k \in Nat, k \in S PROVE k + 1 \in S
  <2> SUFFICES ASSUME k + 1 <= 20 PROVE Doubled[k + 1] = Interval * 2 ^ (k + 1)
    OBVIOUS
  <2> DEFINE power == 2 ^ k
  <2>1. Doubled[k] = Interval * power
    BY <1>2
  <2>2. power \in Nat /\ 2 ^ (k + 1) = 2 * power
    <3>1. k \in 0 .. 20
      OBVIOUS
    <3> QED
      BY <3>1, PowerAssumption
  <2>3. Doubled[k + 1] = 2 * Doubled[k]
    BY DoubledDefined
  <2> HIDE DEF power
  <2>4. 2 * (Interval * power) = Interval * (2 * power)
    BY <2>2, IntervalAssumption
  <2> QED
    BY <2>1, <2>2, <2>3, <2>4
<1> HIDE DEF S
<1>3. Nat \subseteq S
  BY <1>1, <1>2, NaturalInduction
<1> QED
  BY <1>3 DEF S

LEMMA DoubledGrows == \A n \in Nat : n >= 20 => Doubled[n] >= Doubled[20]
<1> DEFINE S == {n \in Nat : n >= 20 => Doubled[n] >= Doubled[20]}
<1>1. 0 \in S
  OBVIOUS
<1>2. ASSUME NEW n \in Nat, n \in S PROVE n + 1 \in S
  <2>1. Doubled[n] \in Nat /\ Doubled[20] \in Nat /\ Doubled[n + 1] = 2 * Doubled[n]
    BY DoubledDefined
  <2>2. CASE n + 1 <= 20
    BY <2>1, <2>2, DoubledDefined
  <2>3. CASE n >= 20
    BY <1>2, <2>1, <2>3
  <2> QED
    BY <2>2, <2>3
<1> HIDE DEF S
<1>3. Nat \subseteq S
  BY <1>1, <1>2, NaturalInduction
<1> QED
  BY <1>3 DEF S

(* The delay that the code cuts twice is the doubled interval cut once.    *)
LEMMA DelayDoubles ==
    ASSUME NEW n \in Nat
    PROVE  RetryDelay(n + 1) = Smaller(Doubled[n], MaxBackoff)
<1>1. (IF n + 1 = 0 THEN 0 ELSE (n + 1) - 1) = n
  OBVIOUS
<1>2. RetryDelay(n + 1) = Smaller(Interval * 2 ^ Smaller(n, 20), MaxBackoff)
  BY <1>1 DEF RetryDelay
<1>3. Smaller(n, 20) \in 0 .. 20
  BY SmallerType
<1>4. RetryDelay(n + 1) = Smaller(Doubled[Smaller(n, 20)], MaxBackoff)
  BY <1>2, <1>3, DoubledPower
<1>5. CASE n < 20
  BY <1>4, <1>5 DEF Smaller
<1>6. CASE n >= 20
  <2>1. Smaller(n, 20) = 20
    BY <1>6 DEF Smaller
  <2>2. Doubled[20] = Interval * 2 ^ 20
    BY DoubledPower
  <2>3. MaxBackoff <= Doubled[20]
    BY <2>2, CapAssumption
  <2>4. Doubled[n] \in Nat /\ Doubled[20] \in Nat /\ Doubled[n] >= Doubled[20]
    BY <1>6, DoubledDefined, DoubledGrows
  <2> QED
    BY <1>4, <2>1, <2>3, <2>4, IntervalAssumption DEF Smaller
<1> QED
  BY <1>5, <1>6

(* Only the end of a failed run writes a backoff.                          *)
LEMMA BackoffWriter ==
    ASSUME ServiceTypeOK, [ServiceNext]_serviceVars
    PROVE  \/ row' = row
           \/ row'.status # "backoff"
           \/ \E r \in Runners :
                 /\ row'.failures = Failures(r) + 1
                 /\ row'.delay = RetryDelay(Failures(r) + 1)
<1>1. CASE UNCHANGED serviceVars
  BY <1>1 DEF serviceVars
<1>2. ASSUME NEW r \in Runners, NEW successful \in BOOLEAN, RunEnds(r, successful)
      PROVE  \/ row'.status # "backoff"
             \/ /\ row'.failures = Failures(r) + 1
                /\ row'.delay = RetryDelay(Failures(r) + 1)
  BY <1>2 DEF RunEnds, Save
<1>3. ASSUME NEW r \in Runners, Step(r), \A successful \in BOOLEAN : ~RunEnds(r, successful)
      PROVE  row' = row \/ row'.status # "backoff"
  BY <1>3 DEF Step, Acquire, Refuse, LeaveRefused, Get, MarkStarted, MarkWaiting,
     MarkRunning, Wait, Release, MarkStopped, Save
<1>4. ASSUME NEW r \in Runners, Unscheduled(r)
      PROVE  row' = row
  BY <1>4 DEF Unscheduled, Start, Mishap, Raise, Crash, RequestStop
<1>5. ASSUME NEW p \in Probers, Probe(p)
      PROVE  row' = row
  BY <1>5 DEF Probe, ProbeFree, ProbeBusy, ProbeEnds, Dismiss
<1> QED
  BY <1>1, <1>2, <1>3, <1>4, <1>5 DEF ServiceNext, Unscheduled

LEMMA BackoffStep ==
    ServiceTypeOK /\ BackoffSequence /\ [ServiceNext]_serviceVars => BackoffSequence'
<1> SUFFICES ASSUME ServiceTypeOK, BackoffSequence, [ServiceNext]_serviceVars
             PROVE  BackoffSequence'
  OBVIOUS
<1>1. CASE row' = row \/ row'.status # "backoff"
  BY <1>1 DEF BackoffSequence
<1>2. ASSUME NEW r \in Runners,
             row'.failures = Failures(r) + 1, row'.delay = RetryDelay(Failures(r) + 1)
      PROVE  BackoffSequence'
  <2>1. Failures(r) \in Nat
    BY FailuresType
  <2>2. row'.failures > 0 /\ row'.failures - 1 = Failures(r)
    BY <1>2, <2>1
  <2>3. row'.delay = Smaller(Doubled[row'.failures - 1], MaxBackoff)
    BY <1>2, <2>1, <2>2, DelayDoubles
  <2> QED
    BY <2>2, <2>3 DEF BackoffSequence
<1> QED
  BY <1>1, <1>2, BackoffWriter

(* The n-th failure in a row waits for the interval doubled n - 1 times,   *)
(* never longer than the maximum, for every interval and maximum that the  *)
(* settings admit: the cap of the exponent never shows.                    *)
THEOREM BackoffInvariant == ServiceSpec => []BackoffSequence
<1>1. ServiceInit => BackoffSequence
  BY DEF ServiceInit, BackoffSequence
<1> QED
  BY <1>1, BackoffStep, ServiceTypeInvariant, PTL DEF ServiceSpec

-----------------------------------------------------------------------------
(* Stop requests.                                                          *)

StopsAreRunning == \A r \in Runners : stop[r] => pc[r] # "idle"

(* What one runner's step does to the way it has left.                     *)
Keeps(r) == pc'[r] = "idle" \/ (stop'[r] /\ Remaining[pc'[r]] <= Remaining[pc[r]])
Nears(r) == pc'[r] = "idle" \/ (stop'[r] /\ Remaining[pc'[r]] < Remaining[pc[r]])

LEMMA RemainingValues ==
    /\ \A step \in Steps : Remaining[step] \in 0 .. 9
    /\ Remaining["acquire"] = 9 /\ Remaining["refused"] = 0
    /\ Remaining["start_get"] = 8 /\ Remaining["start_save"] = 7
    /\ Remaining["delay_get"] = 6 /\ Remaining["delay_save"] = 5
    /\ Remaining["run_get"] = 6 /\ Remaining["run_save"] = 5
    /\ Remaining["workflow"] = 4 /\ Remaining["wait"] = 3
    /\ Remaining["release"] = 2 /\ Remaining["stop_get"] = 1
    /\ Remaining["stop_save"] = 0
BY DEF Remaining, Steps

(* A runner that was asked to stop comes nearer to its end by each step.   *)
LEMMA StepNears ==
    ASSUME ServiceTypeOK, NEW r \in Runners, Step(r), stop[r]
    PROVE  Nears(r)
<1> USE RemainingValues DEF ServiceTypeOK, Goto, Nears
<1>1. CASE Acquire(r) \/ Refuse(r)
  BY <1>1 DEF Acquire, Refuse
<1>2. CASE LeaveRefused(r) \/ MarkStopped(r)
  BY <1>2 DEF LeaveRefused, MarkStopped, Exit
<1>3. CASE Get(r)
  BY <1>3 DEF Get, Reads
<1>4. CASE MarkStarted(r)
  <2>1. /\ pc[r] = "start_save" /\ UNCHANGED stop
        /\ Goto(r, "release") \/ Goto(r, "delay_get")
    BY <1>4 DEF MarkStarted, NextRound
  <2> QED BY <2>1
<1>5. CASE MarkWaiting(r) \/ MarkRunning(r)
  BY <1>5 DEF MarkWaiting, MarkRunning
<1>6. ASSUME NEW successful \in BOOLEAN, RunEnds(r, successful)
      PROVE  Nears(r)
  <2>1. /\ pc[r] = "workflow" /\ UNCHANGED stop
        /\ Goto(r, "release") \/ Goto(r, "wait")
    BY <1>6 DEF RunEnds
  <2> QED BY <2>1
<1>7. CASE Wait(r)
  BY <1>7 DEF Wait, NextRound
<1>8. CASE Release(r)
  BY <1>8 DEF Release, Exit
<1> QED BY <1>1, <1>2, <1>3, <1>4, <1>5, <1>6, <1>7, <1>8 DEF Step

(* Nothing that happens to a runner takes it back.                         *)
LEMMA MishapKeeps ==
    ASSUME ServiceTypeOK, NEW r \in Runners, stop[r],
           Mishap(r) \/ RequestStop(r)
    PROVE  Keeps(r)
<1> USE RemainingValues DEF ServiceTypeOK, Goto, Keeps
<1>1. CASE Raise(r) /\ pc[r] \in Locked
  <2>1. /\ pc'[r] = "release" /\ stop'[r]
        \/ pc'[r] = "idle"
    BY <1>1 DEF Raise, Exit
  <2>2. Remaining[pc[r]] >= 2
    BY <1>1 DEF Locked
  <2> QED BY <2>1, <2>2
<1>2. CASE Raise(r) /\ pc[r] \notin Locked
  BY <1>2 DEF Raise, Exit
<1>3. CASE Crash(r)
  BY <1>3 DEF Crash, Exit
<1>4. CASE RequestStop(r)
  BY <1>4 DEF RequestStop
<1> QED BY <1>1, <1>2, <1>3, <1>4 DEF Mishap

(* A step is one runner's, or a probe's: the other runners keep theirs.    *)
LEMMA OthersKeep ==
    ASSUME ServiceTypeOK, NEW q \in Runners, NEW r \in Runners, r # q,
           \/ \E single \in BOOLEAN : Start(q, single)
           \/ Step(q) \/ Mishap(q) \/ RequestStop(q)
    PROVE  pc'[r] = pc[r] /\ stop'[r] = stop[r]
<1> USE DEF ServiceTypeOK, Goto, Exit
<1>1. CASE \E single \in BOOLEAN : Start(q, single)
  BY <1>1 DEF Start
<1>2. CASE Acquire(q) \/ Refuse(q) \/ LeaveRefused(q) \/ Get(q)
  BY <1>2 DEF Acquire, Refuse, LeaveRefused, Get
<1>3. CASE MarkStarted(q) \/ MarkWaiting(q) \/ MarkRunning(q)
  BY <1>3 DEF MarkStarted, MarkWaiting, MarkRunning, NextRound
<1>4. CASE \E successful \in BOOLEAN : RunEnds(q, successful)
  BY <1>4 DEF RunEnds
<1>5. CASE Wait(q) \/ Release(q) \/ MarkStopped(q)
  BY <1>5 DEF Wait, NextRound, Release, MarkStopped
<1>6. CASE Mishap(q) \/ RequestStop(q)
  BY <1>6 DEF Mishap, Raise, Crash, RequestStop
<1> QED BY <1>1, <1>2, <1>3, <1>4, <1>5, <1>6 DEF Step

(* A runner that ends forgets its stop: the next one has its own event.    *)
LEMMA ExitForgets ==
    ASSUME ServiceTypeOK, StopsAreRunning, NEW q \in Runners,
           \/ \E single \in BOOLEAN : Start(q, single)
           \/ Step(q) \/ Mishap(q) \/ RequestStop(q)
    PROVE  stop'[q] => pc'[q] # "idle"
<1> USE DEF ServiceTypeOK, StopsAreRunning, Goto
<1>1. CASE \E single \in BOOLEAN : Start(q, single)
  BY <1>1 DEF Start
<1>2. CASE Acquire(q) \/ Refuse(q) \/ LeaveRefused(q)
  BY <1>2 DEF Acquire, Refuse, LeaveRefused, Exit
<1>3. CASE Get(q)
  BY <1>3 DEF Get, Reads
<1>4. CASE MarkStarted(q) \/ MarkWaiting(q) \/ MarkRunning(q)
  BY <1>4 DEF MarkStarted, MarkWaiting, MarkRunning, NextRound
<1>5. CASE \E successful \in BOOLEAN : RunEnds(q, successful)
  <2>1. pc'[q] \in {"release", "wait"}
    BY <1>5 DEF RunEnds
  <2> QED BY <2>1
<1>6. CASE Wait(q) \/ Release(q) \/ MarkStopped(q)
  BY <1>6 DEF Wait, NextRound, Release, MarkStopped, Exit
<1>7. CASE Mishap(q)
  BY <1>7 DEF Mishap, Raise, Crash, Exit
<1>8. CASE RequestStop(q)
  BY <1>8 DEF RequestStop
<1> QED BY <1>1, <1>2, <1>3, <1>4, <1>5, <1>6, <1>7, <1>8 DEF Step

LEMMA StopStep ==
    ASSUME ServiceTypeOK, ServiceTypeOK', StopsAreRunning, [ServiceNext]_serviceVars
    PROVE  /\ \A r \in Runners : stop[r] => Keeps(r)
           /\ StopsAreRunning'
<1> USE DEF StopsAreRunning
<1>1. CASE \/ UNCHANGED serviceVars
           \/ \E p \in Probers : Probe(p)
  <2>1. UNCHANGED <<pc, stop>>
    BY <1>1 DEF serviceVars, runnerVars, Probe, ProbeFree, ProbeBusy, ProbeEnds, Dismiss
  <2> QED BY <2>1, RemainingValues DEF Keeps, ServiceTypeOK
<1>2. ASSUME NEW q \in Runners,
             \/ \E single \in BOOLEAN : Start(q, single)
             \/ Step(q) \/ Mishap(q) \/ RequestStop(q)
      PROVE  /\ \A r \in Runners : stop[r] => Keeps(r)
             /\ StopsAreRunning'
  <2>1. \A r \in Runners : r # q => pc'[r] = pc[r] /\ stop'[r] = stop[r]
    BY <1>2, OthersKeep
  <2>2. stop[q] => Keeps(q)
    <3>1. CASE \E single \in BOOLEAN : Start(q, single)
      BY <3>1 DEF Start
    <3>2. CASE Step(q)
      <4>1. Remaining[pc[q]] \in 0 .. 9 /\ Remaining[pc'[q]] \in 0 .. 9
        BY RemainingValues DEF ServiceTypeOK
      <4>2. stop[q] => Nears(q)
        BY <3>2, StepNears
      <4> QED BY <4>1, <4>2 DEF Nears, Keeps
    <3>3. CASE Mishap(q) \/ RequestStop(q)
      BY <3>3, MishapKeeps
    <3> QED BY <1>2, <3>1, <3>2, <3>3
  <2>3. stop'[q] => pc'[q] # "idle"
    BY <1>2, ExitForgets
  <2>4. \A r \in Runners : stop[r] => Keeps(r)
    BY <2>1, <2>2, RemainingValues DEF Keeps, ServiceTypeOK
  <2> QED BY <2>1, <2>3, <2>4
<1> QED BY <1>1, <1>2 DEF ServiceNext

LEMMA StopNears ==
    ASSUME ServiceTypeOK, ServiceTypeOK', StopsAreRunning, [ServiceNext]_serviceVars,
           NEW r \in Runners, stop[r]
    PROVE  /\ pc'[r] = "idle" \/ stop'[r]
           /\ pc'[r] = "idle" \/ Remaining[pc'[r]] <= Remaining[pc[r]]
           /\ Step(r) => pc'[r] = "idle" \/ Remaining[pc'[r]] < Remaining[pc[r]]
<1>1. Keeps(r)
  BY StopStep
<1>2. Step(r) => Nears(r)
  BY StepNears
<1> QED BY <1>1, <1>2 DEF Keeps, Nears

(* A stop request is never lost and nothing takes the runner back: the     *)
(* steps it still has to make grow fewer with each that it makes.          *)
THEOREM StopTheorem == ServiceSpec => StopComesNearer
<1>1. ServiceInit => StopsAreRunning
  BY DEF ServiceInit, StopsAreRunning
<1>2. ServiceTypeOK /\ ServiceTypeOK' /\ StopsAreRunning /\ [ServiceNext]_serviceVars
        => StopsAreRunning'
  BY StopStep
<1>3. ServiceTypeOK /\ ServiceTypeOK' /\ StopsAreRunning /\ [ServiceNext]_serviceVars
        => [\A r \in Runners :
              stop[r] =>
                /\ pc'[r] = "idle" \/ stop'[r]
                /\ pc'[r] = "idle" \/ Remaining[pc'[r]] <= Remaining[pc[r]]
                /\ Step(r) => pc'[r] = "idle" \/ Remaining[pc'[r]] < Remaining[pc[r]]
           ]_serviceVars
  BY StopNears
<1> QED BY <1>1, <1>2, <1>3, ServiceTypeInvariant, PTL DEF ServiceSpec, StopComesNearer

-----------------------------------------------------------------------------
(* The console adds no way to move the scheduler.                          *)

LEMMA WebStepIsServiceStep ==
    [WebNext]_agentVars => [ServiceNext]_serviceVars
<1> SUFFICES ASSUME [WebNext]_agentVars
             PROVE  [ServiceNext]_serviceVars
  OBVIOUS
<1> USE WebAssumption
<1>1. CASE UNCHANGED agentVars
  BY <1>1 DEF agentVars
<1>2. ASSUME NEW q \in Requests, Receive(q) \/ Request(q)
      PROVE  [ServiceNext]_serviceVars
  <2>1. CASE Receive(q) \/ StatusCopies(q) \/ Answer(q) \/ StartLocks(q)
    BY <2>1 DEF Receive, StatusCopies, Answer, StartLocks
  <2>2. CASE Inspect(q) \/ StartInspected(q) \/ StopInspected(q) \/ StatusInspected(q)
    BY <2>2 DEF Inspect, StartInspected, StopInspected, StatusInspected, Probe, ServiceNext
  <2>3. CASE Launch(q)
    <3>1. Start(Web, FALSE)
      BY <2>3 DEF Launch
    <3> QED
      BY <3>1 DEF ServiceNext
  <2>4. CASE StopLocks(q)
    BY <2>4 DEF StopLocks, AskToStop, ServiceNext
  <2> QED
    BY <1>2, <2>1, <2>2, <2>3, <2>4 DEF Request
<1>3. CASE Thread
  BY <1>3 DEF Thread, ServeReturns, KeepError, ThreadEnds
<1>4. CASE ServerCloses \/ Shutdown \/ ServerStarts
  BY <1>4 DEF ServerCloses, Shutdown, ShutdownAsks, ShutdownJoins, ServerStarts,
     AskToStop, ServiceNext
<1>5. CASE Elsewhere
  BY <1>5 DEF Elsewhere, Mishap, ServiceNext
<1> QED
  BY <1>1, <1>2, <1>3, <1>4, <1>5 DEF WebNext

(* With the console, the scheduler still takes only the steps of module    *)
(* Service: what is proved there holds of its thread.                      *)
THEOREM WebImplementsService ==
    WebSpec => ServiceInit /\ [][ServiceNext]_serviceVars
<1>1. WebInit => ServiceInit
  BY DEF WebInit
<1> QED
  BY <1>1, WebStepIsServiceStep, PTL DEF WebSpec

(* So what holds of the scheduler alone holds of it beside the console.     *)
THEOREM WebServiceInvariant == WebSpec => []ServiceInv
<1>1. ServiceInit => ServiceInv
  BY ServiceInitInv
<1>2. ServiceInv /\ [ServiceNext]_serviceVars => ServiceInv'
  BY ServiceStepInv
<1> QED
  BY <1>1, <1>2, WebImplementsService, PTL

(* The console's own thread stops in the same way, whatever requests, other *)
(* schedulers and their probes do meanwhile.                               *)
THEOREM WebStopTheorem == WebSpec => StopComesNearer
<1>1. ServiceInit => StopsAreRunning
  BY DEF ServiceInit, StopsAreRunning
<1>2. ServiceInv /\ ServiceInv' /\ StopsAreRunning /\ [ServiceNext]_serviceVars
        => StopsAreRunning'
  BY StopStep DEF ServiceInv
<1>3. ServiceInv /\ ServiceInv' /\ StopsAreRunning /\ [ServiceNext]_serviceVars
        => [\A r \in Runners :
              stop[r] =>
                /\ pc'[r] = "idle" \/ stop'[r]
                /\ pc'[r] = "idle" \/ Remaining[pc'[r]] <= Remaining[pc[r]]
                /\ Step(r) => pc'[r] = "idle" \/ Remaining[pc'[r]] < Remaining[pc[r]]
           ]_serviceVars
  BY StopNears DEF ServiceInv
<1> QED BY <1>1, <1>2, <1>3, WebServiceInvariant, WebImplementsService, PTL
        DEF StopComesNearer

-----------------------------------------------------------------------------
(* The manager's lock.                                                     *)

(* The lock spans a start or a stop from its test of the thread on, probe  *)
(* included, and nothing else for longer than a step.                      *)
MutexSpansRequest ==
    \A q \in Requests : req[q] \in {"start_probe", "launch", "stop_probe"} <=> mutex = q

(* So the thread a start found missing is missing when it launches its own. *)
StartFindsNoThread ==
    \A q \in Requests : req[q] \in {"start_probe", "launch"} => ~managed

ManagerTypeOK ==
    /\ mutex \in Requests \cup {NoOne}
    /\ thread \in ThreadStates
    /\ managed \in BOOLEAN
    /\ stopping \in BOOLEAN
    /\ req \in [Requests -> RequestSteps]
    /\ owned \in [Requests -> BOOLEAN]
    /\ server \in ServerStates

WebInv == ManagerTypeOK /\ FlagsAreTrue /\ MutexSpansRequest /\ StartFindsNoThread

(* Requests are told apart from the free lock.                             *)
LEMMA NoOneIsNoRequest == NoOne \notin Requests
BY WebAssumption, RunnersAssumption

(* Asking a live thread to stop leaves the flags true.                     *)
LEMMA AskToStopFlags ==
    ASSUME FlagsAreTrue, ServiceTypeOK, Alive, AskToStop, UNCHANGED <<thread, managed>>
    PROVE  FlagsAreTrue' /\ stopping' \in BOOLEAN
<1> USE WebAssumption DEF FlagsAreTrue, ServiceTypeOK, AskToStop, Alive
<1>1. pc'[Web] = pc[Web]
  BY DEF RequestStop, serviceVars, runnerVars
<1>2. stop'[Web] \/ pc'[Web] = "idle"
  <2>1. CASE pc[Web] = "idle"
    BY <1>1, <2>1
  <2>2. CASE pc[Web] # "idle"
    BY <2>2 DEF RequestStop
  <2> QED
    BY <2>1, <2>2
<1>3. stopping' = TRUE
  OBVIOUS
<1> QED
  BY <1>1, <1>2, <1>3, Zenon

LEMMA RequestInv ==
    ASSUME WebInv, ServiceTypeOK, NEW q \in Requests, Receive(q) \/ Request(q)
    PROVE  WebInv'
<1> USE NoOneIsNoRequest, WebAssumption
<1> USE DEF WebInv, ManagerTypeOK, FlagsAreTrue, MutexSpansRequest,
            StartFindsNoThread, RequestSteps, ThreadStates, Await, managerVars,
            serviceVars, runnerVars, ServiceTypeOK
<1>1. CASE Receive(q)
  BY <1>1 DEF Receive
<1>2. CASE StartLocks(q)
  BY <1>2 DEF StartLocks, Alive
<1>3. CASE Inspect(q)
  BY <1>3 DEF Inspect, ProbeFree, ProbeBusy, ProbeEnds, webVars
<1>4. CASE StartInspected(q)
  BY <1>4 DEF StartInspected, Dismiss
<1>5. CASE Launch(q)
  BY <1>5 DEF Launch, Start, Goto
<1>6. CASE StopLocks(q)
  <2>1. CASE Alive
    <3>1. AskToStop /\ Await(q, "status") /\ UNCHANGED <<mutex, thread, managed, owned, server>>
      BY <1>6, <2>1 DEF StopLocks
    <3>2. FlagsAreTrue' /\ stopping' \in BOOLEAN
      BY <2>1, <3>1, AskToStopFlags
    <3>3. req[q] = "stop"
      BY <1>6 DEF StopLocks
    <3> QED
      BY <3>1, <3>2, <3>3
  <2>2. CASE ~Alive
    BY <1>6, <2>2 DEF StopLocks
  <2> QED
    BY <2>1, <2>2
<1>7. CASE StopInspected(q)
  BY <1>7 DEF StopInspected, Dismiss
<1>8. CASE StatusCopies(q)
  BY <1>8 DEF StatusCopies, Alive
<1>9. CASE StatusInspected(q)
  BY <1>9 DEF StatusInspected, Dismiss
<1>10. CASE Answer(q)
  BY <1>10 DEF Answer
<1> QED
  BY <1>1, <1>2, <1>3, <1>4, <1>5, <1>6, <1>7, <1>8, <1>9, <1>10 DEF Request

LEMMA ServerInv ==
    ASSUME WebInv, ServiceTypeOK,
           Thread \/ ServerCloses \/ Shutdown \/ ServerStarts
    PROVE  WebInv'
<1> USE NoOneIsNoRequest, WebAssumption
<1> USE DEF WebInv, ManagerTypeOK, FlagsAreTrue, MutexSpansRequest,
            StartFindsNoThread, ThreadStates, ServerStates, managerVars,
            serviceVars, runnerVars, ServiceTypeOK
<1>1. CASE Thread
  BY <1>1 DEF Thread, ServeReturns, KeepError, ThreadEnds
<1>2. CASE ServerCloses \/ ServerStarts
  BY <1>2 DEF ServerCloses, ServerStarts
<1>3. CASE Shutdown
  <2>1. CASE ShutdownAsks /\ Alive
    <3>1. AskToStop /\ server' = "joining" /\ UNCHANGED <<mutex, thread, managed, req, owned>>
      BY <2>1 DEF ShutdownAsks
    <3>2. FlagsAreTrue' /\ stopping' \in BOOLEAN
      BY <2>1, <3>1, AskToStopFlags
    <3> QED
      BY <3>1, <3>2
  <2>2. CASE ShutdownAsks /\ ~Alive
    BY <2>2 DEF ShutdownAsks
  <2>3. CASE ShutdownJoins
    BY <2>3 DEF ShutdownJoins
  <2> QED
    BY <1>3, <2>1, <2>2, <2>3 DEF Shutdown
<1> QED
  BY <1>1, <1>2, <1>3

(* A runner moves from no idle step, and forgets a stop only as it exits.  *)
LEMMA StepKeepsStop ==
    ASSUME ServiceTypeOK, NEW r \in Runners, Step(r) \/ Raise(r)
    PROVE  /\ pc[Web] = "idle" => pc'[Web] = "idle"
           /\ stop[Web] => stop'[Web] \/ pc'[Web] = "idle"
<1> USE WebAssumption DEF ServiceTypeOK, Goto, Exit, Locked
<1>1. CASE Acquire(r) \/ Refuse(r) \/ LeaveRefused(r)
  BY <1>1 DEF Acquire, Refuse, LeaveRefused
<1>2. CASE Get(r)
  BY <1>2 DEF Get, Reads
<1>3. CASE MarkStarted(r) \/ MarkWaiting(r) \/ MarkRunning(r)
  BY <1>3 DEF MarkStarted, MarkWaiting, MarkRunning, NextRound
<1>4. ASSUME NEW successful \in BOOLEAN, RunEnds(r, successful)
      PROVE  /\ pc[Web] = "idle" => pc'[Web] = "idle"
             /\ stop[Web] => stop'[Web] \/ pc'[Web] = "idle"
  <2>1. /\ pc[r] = "workflow"
        /\ Goto(r, "release") \/ Goto(r, "wait")
        /\ UNCHANGED stop
    BY <1>4 DEF RunEnds
  <2> QED
    BY <2>1
<1>5. CASE Wait(r) \/ Release(r) \/ MarkStopped(r)
  BY <1>5 DEF Wait, Release, MarkStopped, NextRound
<1>6. CASE Raise(r)
  BY <1>6 DEF Raise
<1> QED
  BY <1>1, <1>2, <1>3, <1>4, <1>5, <1>6 DEF Step

(* What happens elsewhere starts no thread and loses no stop request.      *)
LEMMA ElsewhereKeepsStop ==
    ASSUME ServiceTypeOK, Elsewhere
    PROVE  /\ pc[Web] = "idle" => pc'[Web] = "idle"
           /\ stop[Web] => stop'[Web] \/ pc'[Web] = "idle"
<1> USE WebAssumption
<1>1. CASE (\E r \in Runners : Step(r)) \/ Raise(Web)
  BY <1>1, StepKeepsStop
<1>2. ASSUME NEW r \in Runners \ {Web}, Raise(r)
      PROVE  /\ pc[Web] = "idle" => pc'[Web] = "idle"
             /\ stop[Web] => stop'[Web] \/ pc'[Web] = "idle"
  BY <1>2, StepKeepsStop
<1>3. ASSUME NEW r \in Runners \ {Web},
             Crash(r) \/ \E single \in BOOLEAN : Start(r, single)
      PROVE  pc'[Web] = pc[Web] /\ stop'[Web] = stop[Web]
  BY <1>3 DEF Crash, Exit, Start, Goto, ServiceTypeOK
<1>4. ASSUME NEW p \in Probers \ Requests, Probe(p)
      PROVE  pc'[Web] = pc[Web] /\ stop'[Web] = stop[Web]
  BY <1>4 DEF Probe, ProbeFree, ProbeBusy, ProbeEnds, Dismiss, runnerVars
<1> QED
  BY <1>1, <1>2, <1>3, <1>4 DEF Elsewhere, Mishap

LEMMA ElsewhereInv ==
    ASSUME WebInv, ServiceTypeOK, Elsewhere, UNCHANGED webVars
    PROVE  WebInv'
<1> USE DEF webVars, managerVars
<1>1. /\ ManagerTypeOK'
      /\ MutexSpansRequest'
      /\ StartFindsNoThread'
  BY DEF WebInv, ManagerTypeOK, MutexSpansRequest, StartFindsNoThread
<1>2. FlagsAreTrue'
  BY ElsewhereKeepsStop DEF WebInv, FlagsAreTrue
<1> QED
  BY <1>1, <1>2 DEF WebInv

LEMMA WebStepInv ==
    WebInv /\ ServiceTypeOK /\ [WebNext]_agentVars => WebInv'
<1> SUFFICES ASSUME WebInv, ServiceTypeOK, [WebNext]_agentVars
             PROVE  WebInv'
  OBVIOUS
<1>1. CASE UNCHANGED agentVars
  BY <1>1 DEF agentVars, webVars, managerVars, serviceVars, runnerVars, WebInv,
     ManagerTypeOK, FlagsAreTrue, MutexSpansRequest, StartFindsNoThread
<1>2. CASE WebNext
  BY <1>2, RequestInv, ServerInv, ElsewhereInv DEF WebNext
<1> QED
  BY <1>1, <1>2

(* The manager's lock, flags and thread agree, for any number of requests.  *)
THEOREM WebInvariant == WebSpec => []WebInv
<1>1. WebInit => WebInv
  <2> SUFFICES ASSUME WebInit PROVE WebInv
    OBVIOUS
  <2>1. ManagerTypeOK /\ MutexSpansRequest /\ StartFindsNoThread
    BY NoOneIsNoRequest DEF WebInit, ManagerTypeOK, MutexSpansRequest,
       StartFindsNoThread, ThreadStates, RequestSteps, ServerStates
  <2>2. pc[Web] = "idle"
    BY WebAssumption DEF WebInit, ServiceInit
  <2>3. ~managed /\ ~stopping /\ thread = "none"
    BY DEF WebInit
  <2>4. FlagsAreTrue
    BY <2>2, <2>3 DEF FlagsAreTrue
  <2> QED
    BY <2>1, <2>4 DEF WebInv
<1>2. WebInv /\ ServiceInv /\ [WebNext]_agentVars => WebInv'
  BY WebStepInv DEF ServiceInv
<1> QED
  BY <1>1, <1>2, WebServiceInvariant, PTL DEF WebSpec

(* Type correctness of the console and the scheduler beneath it.           *)
THEOREM WebTypeInvariant == WebSpec => []WebTypeOK
<1>1. WebInv /\ ServiceInv => WebTypeOK
  BY DEF WebInv, ManagerTypeOK, ServiceInv, WebTypeOK
<1> QED
  BY <1>1, WebInvariant, WebServiceInvariant, PTL

(* The flags the console shows are true of its thread: in particular       *)
(* "stopping" is never shown of a scheduler that was not asked to stop.    *)
THEOREM FlagsInvariant == WebSpec => []FlagsAreTrue
BY WebInvariant, PTL DEF WebInv

(* No scheduler thread is started before the one before it has ended.      *)
THEOREM NoStartOverAnEndingTheorem == WebSpec => NoStartOverAnEnding
<1>1. WebInv /\ [WebNext]_agentVars
        => [thread' = "serving" /\ thread # "serving" => thread = "none"]_agentVars
  <2> SUFFICES ASSUME WebInv, WebNext, thread' = "serving", thread # "serving"
               PROVE  thread = "none"
    BY DEF agentVars, webVars, managerVars
  <2>1. CASE \E q \in Requests : Launch(q)
    BY <2>1 DEF Launch, WebInv, StartFindsNoThread, FlagsAreTrue
  <2>2. CASE ~ \E q \in Requests : Launch(q)
    <3>1. thread' = thread \/ Thread
      BY <2>2 DEF WebNext, Request, Receive, StartLocks, Inspect, StartInspected,
         StopLocks, StopInspected, StatusCopies, StatusInspected, Answer,
         ServerCloses, Shutdown, ShutdownAsks, ShutdownJoins, ServerStarts,
         webVars, managerVars
    <3> QED
      BY <3>1 DEF Thread, ServeReturns, KeepError, ThreadEnds
  <2> QED
    BY <2>1, <2>2
<1> QED
  BY <1>1, WebInvariant, PTL DEF WebSpec, NoStartOverAnEnding

(* The shutdown: what JoinIsSafe says, without what the lock's own         *)
(* invariant adds.                                                         *)
JoinInv ==
    server # "up" =>
        /\ \A q \in Requests : req[q] = "idle"
        /\ server = "joining" /\ thread # "none" => stop[Web] \/ pc[Web] = "idle"
        /\ server = "down" => thread = "none"

LEMMA JoinStep ==
    ASSUME WebInv, ServiceTypeOK, JoinInv, [WebNext]_agentVars
    PROVE  JoinInv'
<1> USE DEF JoinInv
<1>1. CASE UNCHANGED agentVars
  BY <1>1 DEF agentVars, webVars, managerVars, serviceVars, runnerVars
(* A request that is received or served finds the server up.               *)
<1>2. ASSUME NEW q \in Requests, Receive(q) \/ Request(q)
      PROVE  JoinInv'
  <2>1. server = "up"
    BY <1>2 DEF Receive, Request, StartLocks, Inspect, StartInspected, Launch,
       StopLocks, StopInspected, StatusCopies, StatusInspected, Answer
  <2>2. server' = server
    BY <1>2 DEF Receive, Request, StartLocks, Inspect, StartInspected, Launch,
       StopLocks, StopInspected, StatusCopies, StatusInspected, Answer, webVars
  <2> QED
    BY <2>1, <2>2
<1>3. CASE Thread
  BY <1>3 DEF Thread, ServeReturns, KeepError, ThreadEnds, serviceVars, runnerVars
<1>4. CASE ServerCloses \/ ServerStarts
  BY <1>4 DEF ServerCloses, ServerStarts
<1>5. CASE ShutdownAsks
  <2>1. /\ server = "closing" /\ server' = "joining"
        /\ UNCHANGED <<thread, managed, req>>
    BY <1>5 DEF ShutdownAsks
  <2>2. CASE Alive
    <3>1. AskToStop
      BY <1>5, <2>2 DEF ShutdownAsks
    <3>2. stop'[Web] \/ pc'[Web] = "idle"
      BY <3>1, WebAssumption
         DEF AskToStop, RequestStop, ServiceTypeOK, serviceVars, runnerVars
    <3> QED
      BY <2>1, <3>2
  <2>3. CASE ~Alive
    <3>1. thread = "none"
      BY <2>3 DEF Alive, WebInv, FlagsAreTrue
    <3> QED
      BY <2>1, <3>1
  <2> QED
    BY <2>2, <2>3
<1>6. CASE ShutdownJoins
  BY <1>6 DEF ShutdownJoins, managerVars
<1>7. CASE Elsewhere /\ UNCHANGED webVars
  <2>1. UNCHANGED <<server, req, thread>>
    BY <1>7 DEF webVars, managerVars
  <2>2. /\ pc[Web] = "idle" => pc'[Web] = "idle"
        /\ stop[Web] => stop'[Web] \/ pc'[Web] = "idle"
    BY <1>7, ElsewhereKeepsStop
  <2> QED
    BY <2>1, <2>2
<1> QED
  BY <1>1, <1>2, <1>3, <1>4, <1>5, <1>6, <1>7 DEF WebNext, Shutdown

(* A server that closes never waits for a thread that needs a lock someone *)
(* keeps, or that was not asked to stop, and leaves no thread behind.      *)
THEOREM JoinInvariant == WebSpec => []JoinIsSafe
<1>1. WebInit => JoinInv
  BY DEF WebInit, JoinInv
<1>2. WebInv /\ ServiceInv /\ JoinInv /\ [WebNext]_agentVars => JoinInv'
  BY JoinStep DEF ServiceInv
<1>3. WebInv /\ JoinInv => JoinIsSafe
  <2> SUFFICES ASSUME WebInv, JoinInv, server # "up"
               PROVE  mutex = NoOne
    BY DEF JoinInv, JoinIsSafe
  <2>1. \A q \in Requests : req[q] = "idle"
    BY DEF JoinInv
  <2> QED
    BY <2>1 DEF WebInv, MutexSpansRequest, ManagerTypeOK
<1> QED
  BY <1>1, <1>2, <1>3, WebInvariant, WebServiceInvariant, PTL DEF WebSpec
=============================================================================
