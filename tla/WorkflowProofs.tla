---------------------------- MODULE WorkflowProofs ----------------------------
(***************************************************************************)
(* Proofs about modules GraphSync and Workflow: type correctness and the   *)
(* order of queue, audit log and rows for any number of concurrent runs,   *)
(* and what a complete analysis means when runs follow one another.        *)
(***************************************************************************)
EXTENDS Workflow, SequenceTheorems, WellFoundedInduction, TLAPS

LEMMA MaxIsLast ==
    ASSUME NEW n \in Nat, NEW S \in SUBSET (1 .. n), S # {}
    PROVE  Max(S) \in S /\ \A k \in S : Max(S) >= k
<1> DEFINE below == {n - k : k \in S}
<1>1. below \subseteq Nat /\ below # {}
  <2>1. \A k \in S : n - k \in Nat
    OBVIOUS
  <2>2. PICK k \in S : TRUE
    OBVIOUS
  <2>3. n - k \in below
    OBVIOUS
  <2> QED
    BY <2>1, <2>3
<1>2. PICK b \in below : \A c \in below : ~ (<<c, b>> \in OpToRel(<, Nat))
  BY <1>1, WFMin, NatLessThanWellFounded
<1>3. \A c \in below : ~ (c < b)
  BY <1>1, <1>2 DEF OpToRel
<1>4. PICK k \in S : b = n - k
  OBVIOUS
<1>5. \A j \in S : k >= j
  <2> SUFFICES ASSUME NEW j \in S PROVE k >= j
    OBVIOUS
  <2>1. ~ (n - j < n - k)
    BY <1>3, <1>4
  <2> QED
    BY <2>1
<1> QED
  BY <1>5 DEF Max

-----------------------------------------------------------------------------
(* The mailbox.                                                            *)
Changes == Seq([msg : Messages, to : Contents \cup {Absent}])

LEMMA AfterType ==
    ASSUME mailbox \in Changes, NEW m \in Messages,
           NEW n \in Nat, n <= Len(mailbox)
    PROVE  After(m, n) \in Contents \cup {Absent}
<1>1. CASE ChangesOf(m, 1, n) = {}
  BY <1>1 DEF After
<1>2. CASE ChangesOf(m, 1, n) # {}
  <2> DEFINE last == Max(ChangesOf(m, 1, n))
  <2>1. ChangesOf(m, 1, n) \in SUBSET (1 .. n)
    BY DEF ChangesOf
  <2>2. last \in 1 .. n
    BY <1>2, <2>1, MaxIsLast
  <2> HIDE DEF last
  <2>3. last \in 1 .. Len(mailbox)
    BY <2>2, LenProperties DEF Changes
  <2>4. mailbox[last] \in [msg : Messages, to : Contents \cup {Absent}]
    BY <2>3, ElementOfSeq DEF Changes
  <2>5. After(m, n) = mailbox[last].to
    BY <1>2 DEF After, last
  <2> QED
    BY <2>4, <2>5
<1> QED
  BY <1>1, <1>2

-----------------------------------------------------------------------------
(* What a run holds in memory fits the step it is at.                      *)
WorkOK(r) ==
    /\ round[r].upto <= Len(mailbox)
    /\ \A m \in work[r].todo \cup work[r].eligible \cup Analyzed(r) :
          work[r].loaded[m] # Absent
    /\ pc[r] \in SyncSteps \cup {"idle", "load"} =>
          work[r].eligible = {} /\ Analyzed(r) = {}
    /\ pc[r] = "select" =>
          work[r].at \in Messages /\ work[r].loaded[work[r].at] # Absent
    /\ pc[r] = "record" => work[r].todo \subseteq Complete(r)

WorkInv == \A r \in Runs : WorkOK(r)

FlowInv == TypeOK /\ WorkInv

LEMMA GotoType ==
    ASSUME pc \in [Runs -> SyncSteps \cup FlowSteps], NEW r \in Runs,
           NEW step \in SyncSteps \cup FlowSteps, Goto(r, step)
    PROVE  /\ pc' \in [Runs -> SyncSteps \cup FlowSteps]
           /\ pc'[r] = step
           /\ \A s \in Runs \ {r} : pc'[s] = pc[s]
BY DEF Goto

LEMMA OthersOK ==
    ASSUME WorkInv, NEW r \in Runs, mailbox' = mailbox, WorkOK(r)',
           \A s \in Runs \ {r} :
               /\ work'[s] = work[s]
               /\ round'[s].upto = round[s].upto
               /\ pc'[s] = pc[s]
    PROVE  WorkInv'
BY DEF WorkInv, WorkOK, Analyzed, Complete

LEMMA InitFlow == Init => FlowInv
<1> SUFFICES ASSUME Init PROVE FlowInv
  OBVIOUS
<1> USE DEF Init, SyncInit
<1>1. Nothing \in Copies
  BY DEF Nothing, Copies
<1>2. NoRound \in Rounds
  BY <1>1 DEF NoRound, Rounds
<1>3. NoWork \in Works
  BY <1>1 DEF NoWork, Works, Outcomes
<1>4. SyncTypeOK
  BY <1>1, <1>2 DEF SyncTypeOK
<1>5. TypeOK
  BY <1>1, <1>3, <1>4 DEF TypeOK, FlowSteps, Analyses
<1>6. WorkInv
  BY DEF WorkInv, WorkOK, NoRound, NoWork, Analyzed, Complete
<1> QED
  BY <1>5, <1>6 DEF FlowInv

LEMMA ItemType ==
    ASSUME TypeOK, WorkInv, NEW r \in Runs, NEW m \in Messages
    PROVE  Item(r, m) \in Contents \cup {Absent}
<1>1. mailbox \in Changes /\ Len(mailbox) \in Nat
  BY LenProperties DEF TypeOK, SyncTypeOK, Changes
<1>2. After(m, Len(mailbox)) \in Contents \cup {Absent}
  BY <1>1, AfterType
<1>3. round[r].upto \in Nat /\ round[r].upto <= Len(mailbox)
  BY DEF TypeOK, SyncTypeOK, Rounds, WorkInv, WorkOK
<1>4. After(m, round[r].upto) \in Contents \cup {Absent}
  BY <1>1, <1>3, AfterType
<1> QED
  BY <1>2, <1>4 DEF Item

(* The steps of a synchronization.                                         *)
LEMMA PageFlow ==
    ASSUME FlowInv, NEW r \in Runs, Page(r), UNCHANGED flowVars
    PROVE  FlowInv'
<1> USE DEF FlowInv, flowVars
<1>1. PICK items \in SUBSET round[r].ahead :
        /\ round' = [round EXCEPT ![r] = AfterPage(r, items)]
        /\ Goto(r, IF round[r].ahead = items THEN "stage" ELSE "page")
  BY DEF Page
<1>2. round[r] \in Rounds
  BY DEF TypeOK, SyncTypeOK
<1>3. items \subseteq Messages
  BY <1>2 DEF Rounds
<1>4. Applied(r, items) \in Copies
  <2>1. \A m \in items : Item(r, m) \in Contents \cup {Absent}
    BY <1>3, ItemType
  <2>2. \A m \in Messages : round[r].copy[m] \in (Contents \ Unmappable) \cup {Absent}
    BY <1>2 DEF Rounds, Copies
  <2> QED
    BY <2>1, <2>2 DEF Copies, Applied
<1>5. /\ AfterPage(r, items) \in Rounds
      /\ AfterPage(r, items).upto = round[r].upto
  <2> DEFINE copy == Applied(r, items)
             old == round[r]
             failed == old.failed \/ Rejected(r, items)
  <2>1. old \in Rounds /\ copy \in Copies /\ failed \in BOOLEAN
    BY <1>2, <1>4
  <2>2. AfterPage(r, items) =
            [old EXCEPT !.ahead = @ \ items, !.copy = copy, !.failed = failed]
    BY DEF AfterPage
  <2> HIDE DEF copy, old, failed
  <2>3. AfterPage(r, items) \in Rounds /\ AfterPage(r, items).upto = old.upto
    BY <2>1, <2>2 DEF Rounds
  <2> QED
    BY <2>3 DEF old
<1>6. /\ round' \in [Runs -> Rounds]
      /\ \A s \in Runs : round'[s].upto = round[s].upto
  BY <1>1, <1>5 DEF TypeOK, SyncTypeOK
<1>7. /\ pc' \in [Runs -> SyncSteps \cup FlowSteps]
      /\ \A s \in Runs : pc'[s] = pc[s] \/ {pc[s], pc'[s]} \subseteq SyncSteps
  <2>1. pc[r] \in SyncSteps
    BY DEF Page, SyncSteps
  <2>2. PICK step \in SyncSteps : Goto(r, step)
    BY <1>1 DEF SyncSteps
  <2>3. /\ pc' \in [Runs -> SyncSteps \cup FlowSteps]
        /\ pc'[r] = step
        /\ \A s \in Runs \ {r} : pc'[s] = pc[s]
    BY <2>2, GotoType DEF TypeOK
  <2> QED
    BY <2>1, <2>3
<1>8. UNCHANGED <<mailbox, dataset, link, staged, stagedLink, origin>>
  BY DEF Page, syncFiles
<1>9. TypeOK'
  BY <1>6, <1>7, <1>8 DEF TypeOK, SyncTypeOK
<1>10. WorkInv'
  BY <1>6, <1>7, <1>8 DEF WorkInv, WorkOK, TypeOK, SyncTypeOK, Analyzed, Complete, SyncSteps
<1> QED
  BY <1>9, <1>10

LEMMA SyncFlow ==
    ASSUME FlowInv, NEW r \in Runs, SyncStep(r), UNCHANGED flowVars
    PROVE  FlowInv'
<1> USE DEF FlowInv, flowVars, syncFiles, Goto
<1>1. round[r] \in Rounds
  BY DEF TypeOK, SyncTypeOK
<1>2. CASE ReadState(r)
  <2>1. [NoRound EXCEPT !.from = link] \in Rounds
    BY DEF NoRound, Rounds, TypeOK, SyncTypeOK, Nothing, Copies
  <2>2. TypeOK'
    BY <1>2, <2>1 DEF ReadState, TypeOK, SyncTypeOK, SyncSteps
  <2>3. WorkInv'
    BY <1>2, LenProperties DEF ReadState, WorkInv, WorkOK, TypeOK, SyncTypeOK, Analyzed, Complete, SyncSteps, NoRound
  <2> QED
    BY <2>2, <2>3
<1>3. CASE ReadDataset(r)
  <2>1. TypeOK'
    BY <1>1, <1>3 DEF ReadDataset, TypeOK, SyncTypeOK, SyncSteps, Rounds
  <2>2. WorkInv'
    BY <1>1, <1>3 DEF ReadDataset, WorkInv, WorkOK, TypeOK, SyncTypeOK, Analyzed, Complete, SyncSteps, Rounds
  <2> QED
    BY <2>1, <2>2
<1>4. CASE OpenRound(r)
  <2>1. PICK ahead \in SUBSET Messages :
          round' = [round EXCEPT ![r] = [@ EXCEPT !.upto = Len(mailbox), !.ahead = ahead]]
    BY <1>4 DEF OpenRound
  <2>2. Len(mailbox) \in Nat
    BY LenProperties DEF TypeOK, SyncTypeOK
  <2>3. TypeOK'
    <3>1. round' \in [Runs -> Rounds]
      BY <1>1, <2>1, <2>2 DEF TypeOK, SyncTypeOK, Rounds
    <3> QED
      BY <1>4, <3>1 DEF OpenRound, TypeOK, SyncTypeOK, SyncSteps
  <2>4. WorkInv'
    BY <1>1, <1>4, <2>1, <2>2 DEF OpenRound, WorkInv, WorkOK, TypeOK, SyncTypeOK, Analyzed, Complete, SyncSteps, Rounds
  <2> QED
    BY <2>3, <2>4
<1>5. CASE Page(r)
  BY <1>5, PageFlow
<1>6. CASE StageDataset(r)
  <2>1. TypeOK'
    BY <1>1, <1>6 DEF StageDataset, TypeOK, SyncTypeOK, SyncSteps, Rounds
  <2>2. WorkInv'
    BY <1>6 DEF StageDataset, WorkInv, WorkOK, TypeOK, Analyzed, Complete, SyncSteps
  <2> QED
    BY <2>1, <2>2
<1>7. CASE PublishDataset(r)
  <2>1. TypeOK'
    BY <1>7 DEF PublishDataset, TypeOK, SyncTypeOK, SyncSteps
  <2>2. WorkInv'
    BY <1>7 DEF PublishDataset, WorkInv, WorkOK, TypeOK, Analyzed, Complete, SyncSteps
  <2> QED
    BY <2>1, <2>2
<1>8. CASE StageLink(r)
  <2>1. TypeOK'
    BY <1>1, <1>8 DEF StageLink, TypeOK, SyncTypeOK, SyncSteps, Rounds
  <2>2. WorkInv'
    BY <1>8 DEF StageLink, WorkInv, WorkOK, TypeOK, Analyzed, Complete, SyncSteps
  <2> QED
    BY <2>1, <2>2
<1>9. CASE PublishLink(r)
  <2>1. TypeOK'
    BY <1>1, <1>9 DEF PublishLink, TypeOK, SyncTypeOK, SyncSteps, Rounds
  <2>2. WorkInv'
    BY <1>9 DEF PublishLink, WorkInv, WorkOK, TypeOK, Analyzed, Complete, SyncSteps
  <2> QED
    BY <2>1, <2>2
<1> QED
  BY <1>2, <1>3, <1>4, <1>5, <1>6, <1>7, <1>8, <1>9 DEF SyncStep

(* The mailbox and the query contract change.                              *)
LEMMA WorldFlow ==
    ASSUME FlowInv, MailChanges \/ Upgrade, UNCHANGED flowVars
    PROVE  FlowInv'
<1> USE DEF FlowInv, flowVars, syncFiles
<1>1. CASE MailChanges
  <2>1. PICK m \in Messages, c \in Contents \cup {Absent} :
            mailbox' = Append(mailbox, [msg |-> m, to |-> c])
    BY <1>1 DEF MailChanges
  <2> DEFINE item == [msg |-> m, to |-> c]
  <2>2. item \in [msg : Messages, to : Contents \cup {Absent}]
    OBVIOUS
  <2>3. mailbox \in Changes
    BY DEF TypeOK, SyncTypeOK, Changes
  <2> HIDE DEF item
  <2>4. mailbox' \in Changes /\ Len(mailbox') = Len(mailbox) + 1
    BY <2>1, <2>2, <2>3, AppendProperties DEF Changes, item
  <2>5. Len(mailbox) \in Nat /\ \A r \in Runs : round[r].upto \in Nat
    BY <2>3, LenProperties DEF Changes, TypeOK, SyncTypeOK, Rounds
  <2>6. TypeOK'
    BY <1>1, <2>4 DEF MailChanges, TypeOK, SyncTypeOK, Changes
  <2>7. WorkInv'
    BY <1>1, <2>4, <2>5 DEF MailChanges, WorkInv, WorkOK, Analyzed, Complete
  <2> QED
    BY <2>6, <2>7
<1>2. CASE Upgrade
  BY <1>2 DEF Upgrade, TypeOK, SyncTypeOK, WorkInv, WorkOK, Analyzed, Complete
<1> QED
  BY <1>1, <1>2

(* The steps of the workflow, one lemma each where it takes more than one. *)
LEMMA BeginFlow ==
    ASSUME FlowInv, NEW r \in Runs, NEW force \in BOOLEAN, NEW syncing \in BOOLEAN,
           Begin(r, force, syncing)
    PROVE  FlowInv'
<1> USE DEF FlowInv, Begin, syncFiles, database, trail, Goto
<1>1. work[r] \in Works
  BY DEF TypeOK
<1>2. TypeOK'
  BY <1>1 DEF TypeOK, SyncTypeOK, Works, SyncSteps, FlowSteps
<1>3. WorkInv'
  BY <1>1 DEF WorkInv, WorkOK, TypeOK, Works, Analyzed, Complete
<1> QED
  BY <1>2, <1>3

LEMMA LoadFlow ==
    ASSUME FlowInv, NEW r \in Runs, Load(r)
    PROVE  FlowInv'
<1> USE DEF FlowInv, Load, syncFiles, database, trail
<1> DEFINE there == {m \in Messages : dataset[m] # Absent}
<1>1. work[r] \in Works /\ round[r].failed \in BOOLEAN /\ dataset \in Copies
  BY DEF TypeOK, SyncTypeOK, Rounds
<1>2. NoRound \in Rounds
  BY DEF NoRound, Rounds, Nothing, Copies
<1>3. TypeOK'
  BY <1>1, <1>2 DEF TypeOK, SyncTypeOK, Works, FlowSteps, Goto
<1>4. /\ DOMAIN work = Runs
      /\ DOMAIN round = Runs
      /\ \A s \in Runs \ {r} : pc'[s] = pc[s]
      /\ pc'[r] = "import"
  BY GotoType DEF TypeOK, SyncTypeOK, FlowSteps
<1>5. /\ work'[r].loaded = dataset
      /\ work'[r].todo = there
      /\ work'[r].eligible = work[r].eligible
      /\ work'[r].outcome = work[r].outcome
  BY <1>1, <1>4 DEF Works
<1>6. work[r].eligible = {} /\ Analyzed(r) = {}
  BY DEF WorkInv, WorkOK, SyncSteps
<1>7. work'[r].eligible = {} /\ Analyzed(r)' = {}
  BY <1>5, <1>6 DEF Analyzed
<1>8. \A s \in Runs \ {r} : work'[s] = work[s] /\ round'[s] = round[s]
  BY <1>4
<1>9. round'[r].upto = 0
  BY <1>4 DEF NoRound
<1>10. mailbox' = mailbox /\ Len(mailbox) \in Nat
  BY LenProperties DEF TypeOK, SyncTypeOK
<1> HIDE DEF Load
<1>11. WorkOK(r)'
  BY <1>4, <1>5, <1>7, <1>9, <1>10 DEF WorkOK, SyncSteps
<1> QED
  BY <1>3, <1>4, <1>8, <1>10, <1>11, OthersOK

(* What holds of a run before and after a step of its own.                 *)
LEMMA HoldsFlow ==
    ASSUME FlowInv, NEW r \in Runs
    PROVE  /\ work[r] \in Works /\ DOMAIN work = Runs
           /\ round[r] \in Rounds /\ DOMAIN round = Runs
           /\ round[r].upto \in Nat /\ Len(mailbox) \in Nat
           /\ WorkOK(r)
BY LenProperties DEF FlowInv, TypeOK, SyncTypeOK, WorkInv, Rounds

LEMMA UpsertFlow ==
    ASSUME FlowInv, NEW r \in Runs, Upsert(r)
    PROVE  FlowInv'
<1> USE DEF FlowInv, syncFiles, trail
<1>1. PICK m \in work[r].todo :
          /\ stored' = [stored EXCEPT ![m] = work[r].loaded[m]]
          /\ work' = [work EXCEPT ![r].todo = @ \ {m}, ![r].at = m]
  BY DEF Upsert
<1>2. m \in Messages /\ work[r].loaded[m] # Absent
  BY HoldsFlow DEF Works, WorkOK
<1>3. stored' \in Copies
  BY <1>1, <1>2, HoldsFlow DEF TypeOK, Copies, Works
<1>4. /\ pc' \in [Runs -> SyncSteps \cup FlowSteps]
      /\ pc'[r] = "select"
      /\ \A s \in Runs \ {r} : pc'[s] = pc[s]
  BY GotoType DEF Upsert, TypeOK, FlowSteps
<1>5. /\ work'[r] \in Works
      /\ work'[r].todo \subseteq work[r].todo
      /\ work'[r].at = m
      /\ work'[r].loaded = work[r].loaded
      /\ work'[r].eligible = work[r].eligible
      /\ work'[r].outcome = work[r].outcome
      /\ work' \in [Runs -> Works]
      /\ \A s \in Runs \ {r} : work'[s] = work[s]
  BY <1>1, <1>2, HoldsFlow DEF TypeOK, Works
<1>6. UNCHANGED <<mailbox, dataset, link, staged, stagedLink, origin, round, analyses, sql,
                  queue, audit, row>>
  BY DEF Upsert
<1>7. TypeOK'
  BY <1>3, <1>4, <1>5, <1>6 DEF TypeOK, SyncTypeOK
<1>8. WorkOK(r)'
  BY <1>2, <1>4, <1>5, <1>6, HoldsFlow DEF WorkOK, Analyzed, Complete, SyncSteps
<1> QED
  BY <1>4, <1>5, <1>6, <1>7, <1>8, OthersOK

LEMMA SelectFlow ==
    ASSUME FlowInv, NEW r \in Runs, Select(r)
    PROVE  FlowInv'
<1> USE DEF FlowInv, syncFiles, trail, database
<1>2. pc[r] = "select" /\ work[r].at \in Messages /\ work[r].loaded[work[r].at] # Absent
  BY HoldsFlow DEF WorkOK, Select
<1>3. /\ pc' \in [Runs -> SyncSteps \cup FlowSteps]
      /\ pc'[r] = "import"
      /\ \A s \in Runs \ {r} : pc'[s] = pc[s]
  BY GotoType DEF Select, TypeOK, FlowSteps
<1>4. /\ work'[r].todo = work[r].todo
      /\ work'[r].loaded = work[r].loaded
      /\ work'[r].eligible \subseteq work[r].eligible \cup {work[r].at}
      /\ work'[r].outcome = work[r].outcome
      /\ work' \in [Runs -> Works]
      /\ \A s \in Runs \ {r} : work'[s] = work[s]
  <2>1. work \in [Runs -> Works] /\ work[r] \in Works
    BY HoldsFlow DEF TypeOK
  <2>2. CASE work' = [work EXCEPT ![r].at = Absent, ![r].failures = TRUE]
    <3>1. work' = [work EXCEPT ![r] = [work[r] EXCEPT !.at = Absent, !.failures = TRUE]]
      BY <2>2
    <3>2. [work[r] EXCEPT !.at = Absent, !.failures = TRUE] \in Works
      BY <2>1 DEF Works
    <3> QED BY <2>1, <3>1, <3>2 DEF Works
  <2>3. CASE work' = [work EXCEPT ![r].at = Absent, ![r].eligible = @ \cup {work[r].at}]
    <3> DEFINE eligible == work[r].eligible \cup {work[r].at}
               w == [work[r] EXCEPT !.at = Absent, !.eligible = eligible]
    <3>1. work' = [work EXCEPT ![r] = w]
      BY <2>3
    <3>2. eligible \subseteq Messages
      BY <1>2, <2>1 DEF Works
    <3> HIDE DEF eligible
    <3>3. /\ w \in Works /\ w.eligible = eligible /\ w.todo = work[r].todo
          /\ w.loaded = work[r].loaded /\ w.outcome = work[r].outcome
      BY <2>1, <3>2 DEF Works
    <3> HIDE DEF w
    <3>4. work' \in [Runs -> Works] /\ work'[r] = w /\ \A s \in Runs \ {r} : work'[s] = work[s]
      BY <2>1, <3>1, <3>3
    <3> QED BY <3>3, <3>4 DEF eligible
  <2>4. CASE work' = [work EXCEPT ![r].at = Absent]
    <3>1. work' = [work EXCEPT ![r] = [work[r] EXCEPT !.at = Absent]]
      BY <2>4
    <3>2. [work[r] EXCEPT !.at = Absent] \in Works
      BY <2>1 DEF Works
    <3> QED BY <2>1, <3>1, <3>2 DEF Works
  <2> QED
    BY <2>2, <2>3, <2>4 DEF Select
<1>5. UNCHANGED <<mailbox, dataset, link, staged, stagedLink, origin, round, stored, analyses,
                  sql, queue, audit, row>>
  BY DEF Select
<1>6. TypeOK'
  BY <1>3, <1>4, <1>5 DEF TypeOK, SyncTypeOK
<1>7. WorkOK(r)'
  BY <1>2, <1>3, <1>4, <1>5, HoldsFlow DEF WorkOK, Analyzed, Complete, SyncSteps
<1> QED
  BY <1>3, <1>4, <1>5, <1>6, <1>7, OthersOK

LEMMA AnalyzeFlow ==
    ASSUME FlowInv, NEW r \in Runs, Analyze(r)
    PROVE  FlowInv'
<1> USE DEF FlowInv, syncFiles, trail, database
<1>1. PICK outcome \in [work[r].eligible -> Outcomes] :
          work' = [work EXCEPT
            ![r].outcome = [m \in Messages |->
                IF m \in work[r].eligible THEN outcome[m] ELSE "failed"],
            ![r].todo = {m \in work[r].eligible : outcome[m] # "failed"},
            ![r].failures = @ \/ \E m \in work[r].eligible : outcome[m] \notin Decisions]
  BY DEF Analyze
<1> DEFINE total == [m \in Messages |->
                IF m \in work[r].eligible THEN outcome[m] ELSE "failed"]
           todo == {m \in work[r].eligible : outcome[m] # "failed"}
<1>2. total \in [Messages -> Outcomes] /\ todo \subseteq work[r].eligible
  BY DEF Outcomes
<1>3. {m \in Messages : total[m] # "failed"} \subseteq work[r].eligible
  OBVIOUS
<1>4. /\ pc' \in [Runs -> SyncSteps \cup FlowSteps]
      /\ pc'[r] = "persist"
      /\ \A s \in Runs \ {r} : pc'[s] = pc[s]
  BY GotoType DEF Analyze, TypeOK, FlowSteps
<1>5. /\ work'[r].todo = todo
      /\ work'[r].outcome = total
      /\ work'[r].loaded = work[r].loaded
      /\ work'[r].eligible = work[r].eligible
      /\ \A s \in Runs \ {r} : work'[s] = work[s]
  BY <1>1, HoldsFlow DEF Works
<1>6. work' \in [Runs -> Works]
  <2> DEFINE failures == work'[r].failures
  <2>1. work' = [work EXCEPT ![r] = work'[r]] /\ failures \in BOOLEAN
    BY <1>1, HoldsFlow DEF Works
  <2> DEFINE old == work[r]
  <2>2. work'[r] = [old EXCEPT !.outcome = total, !.todo = todo, !.failures = failures]
    BY <1>1, HoldsFlow DEF Works
  <2>3. old \in Works /\ todo \in SUBSET Messages
    BY <1>2, HoldsFlow DEF Works
  <2> HIDE DEF old, total, todo, failures
  <2>4. work'[r] \in Works
    BY <1>2, <2>1, <2>2, <2>3 DEF Works
  <2> QED
    BY <2>1, <2>4 DEF TypeOK
<1>7. UNCHANGED <<mailbox, dataset, link, staged, stagedLink, origin, round, stored, analyses,
                  sql, queue, audit, row>>
  BY DEF Analyze
<1>8. TypeOK'
  BY <1>4, <1>6, <1>7 DEF TypeOK, SyncTypeOK
<1>9. Analyzed(r)' \subseteq work[r].eligible
  BY <1>3, <1>5 DEF Analyzed
<1>10. WorkOK(r)'
  BY <1>2, <1>4, <1>5, <1>7, <1>9, HoldsFlow DEF WorkOK, SyncSteps
<1> QED
  BY <1>4, <1>5, <1>7, <1>8, <1>10, OthersOK

LEMMA PersistFlow ==
    ASSUME FlowInv, NEW r \in Runs, Persist(r)
    PROVE  FlowInv'
<1> USE DEF FlowInv, syncFiles, trail
<1>1. PICK m \in work[r].todo :
          /\ analyses' = [analyses EXCEPT ![m][stored[m]] =
                [of |-> work[r].loaded[m], complete |-> m \in Complete(r)]]
          /\ work' = [work EXCEPT ![r].todo = @ \ {m}]
  BY DEF Persist
<1> DEFINE new == [of |-> work[r].loaded[m], complete |-> m \in Complete(r)]
<1>2. m \in Messages /\ work[r].loaded[m] \in Mappable
  BY HoldsFlow DEF Works, WorkOK, Copies, Mappable
<1>3. new \in Analyses
  BY <1>2 DEF Analyses
<1> HIDE DEF new
<1>4. analyses' \in [Messages -> [Mappable -> Analyses]]
  BY <1>1, <1>2, <1>3 DEF TypeOK, new
<1>5. /\ work'[r].todo \subseteq work[r].todo
      /\ work'[r].loaded = work[r].loaded
      /\ work'[r].eligible = work[r].eligible
      /\ work'[r].outcome = work[r].outcome
      /\ work' \in [Runs -> Works]
      /\ \A s \in Runs \ {r} : work'[s] = work[s]
  BY <1>1, HoldsFlow DEF TypeOK, Works
<1>6. /\ pc[r] = "persist"
      /\ UNCHANGED <<mailbox, dataset, link, staged, stagedLink, origin, pc, round, stored, sql,
                     queue, audit, row>>
  BY DEF Persist
<1>7. TypeOK'
  BY <1>4, <1>5, <1>6 DEF TypeOK, SyncTypeOK
<1>8. WorkOK(r)'
  BY <1>5, <1>6, HoldsFlow DEF WorkOK, Analyzed, Complete, SyncSteps
<1> QED
  BY <1>5, <1>6, <1>7, <1>8, OthersOK

(* What a run proposes are actions.                                        *)
LEMMA ActionsType ==
    ASSUME FlowInv, NEW r \in Runs
    PROVE  /\ \A m \in Complete(r) : ActionOf(r, m) \in Actions
           /\ ActionsOf(r) \subseteq Actions
           /\ Complete(r) \subseteq Analyzed(r) /\ Analyzed(r) \subseteq Messages
<1>1. ASSUME NEW m \in Complete(r)
      PROVE  ActionOf(r, m) \in Actions
  <2>1. m \in Messages /\ m \in Analyzed(r)
    BY DEF Complete, Analyzed
  <2>2. work[r].loaded[m] \in Mappable
    BY <2>1, HoldsFlow DEF Works, WorkOK, Copies, Mappable
  <2>3. work[r].outcome[m] \in Decisions
    BY <2>1, HoldsFlow DEF Complete, Analyzed, Works, Outcomes
  <2> QED
    BY <2>1, <2>2, <2>3 DEF ActionOf, Actions
<1> QED
  BY <1>1 DEF ActionsOf, Complete, Analyzed

LEMMA EnqueueFlow ==
    ASSUME FlowInv, NEW r \in Runs, Enqueue(r)
    PROVE  FlowInv'
<1> USE DEF FlowInv, syncFiles, database
<1>1. /\ pc' \in [Runs -> SyncSteps \cup FlowSteps]
      /\ pc'[r] = "audit"
      /\ \A s \in Runs \ {r} : pc'[s] = pc[s]
  BY GotoType DEF Enqueue, TypeOK, FlowSteps
<1>2. UNCHANGED <<mailbox, dataset, link, staged, stagedLink, origin, round, stored, analyses,
                  sql, audit, row, work>>
  BY DEF Enqueue
<1>3. queue' \subseteq Actions
  BY ActionsType DEF Enqueue, TypeOK
<1>4. TypeOK'
  BY <1>1, <1>2, <1>3 DEF TypeOK, SyncTypeOK
<1>5. WorkOK(r)'
  BY <1>1, <1>2, HoldsFlow DEF WorkOK, Analyzed, Complete, SyncSteps
<1> QED
  BY <1>1, <1>2, <1>4, <1>5, OthersOK

LEMMA AuditFlow ==
    ASSUME FlowInv, NEW r \in Runs, Audit(r)
    PROVE  FlowInv'
<1> USE DEF FlowInv, syncFiles, database
<1>1. /\ pc' \in [Runs -> SyncSteps \cup FlowSteps]
      /\ pc'[r] = "record"
      /\ \A s \in Runs \ {r} : pc'[s] = pc[s]
  BY GotoType DEF Audit, TypeOK, FlowSteps
<1>2. UNCHANGED <<mailbox, dataset, link, staged, stagedLink, origin, round, stored, analyses,
                  sql, queue, row>>
  BY DEF Audit
<1>3. audit' \subseteq Actions
  BY ActionsType DEF Audit, TypeOK
<1> DEFINE todo == Complete(r)
<1>4. todo \subseteq Analyzed(r) /\ todo \subseteq Messages
  BY ActionsType
<1>5. work' = [work EXCEPT ![r].todo = todo]
  BY DEF Audit
<1> HIDE DEF todo
<1>6. /\ work'[r].todo = todo
      /\ work'[r].loaded = work[r].loaded
      /\ work'[r].eligible = work[r].eligible
      /\ work'[r].outcome = work[r].outcome
      /\ work' \in [Runs -> Works]
      /\ \A s \in Runs \ {r} : work'[s] = work[s]
  BY <1>4, <1>5, HoldsFlow DEF TypeOK, Works
<1>7. TypeOK'
  BY <1>1, <1>2, <1>3, <1>6 DEF TypeOK, SyncTypeOK
<1>8. Complete(r)' = todo /\ Analyzed(r)' = Analyzed(r)
  BY <1>6 DEF Complete, Analyzed, todo
<1>9. WorkOK(r)'
  BY <1>1, <1>2, <1>4, <1>6, <1>8, HoldsFlow DEF WorkOK, SyncSteps
<1> QED
  BY <1>1, <1>2, <1>6, <1>7, <1>9, OthersOK

LEMMA RecordFlow ==
    ASSUME FlowInv, NEW r \in Runs, Record(r)
    PROVE  FlowInv'
<1> USE DEF FlowInv, syncFiles, trail
<1>1. PICK m \in work[r].todo :
          /\ sql' = sql \cup {ActionOf(r, m)}
          /\ work' = [work EXCEPT ![r].todo = @ \ {m}]
  BY DEF Record
<1>2. m \in Complete(r)
  BY <1>1, HoldsFlow DEF Record, WorkOK
<1>3. sql' \subseteq Actions
  BY <1>1, <1>2, ActionsType DEF TypeOK
<1>4. /\ work'[r].todo \subseteq work[r].todo
      /\ work'[r].loaded = work[r].loaded
      /\ work'[r].eligible = work[r].eligible
      /\ work'[r].outcome = work[r].outcome
      /\ work' \in [Runs -> Works]
      /\ \A s \in Runs \ {r} : work'[s] = work[s]
  BY <1>1, HoldsFlow DEF TypeOK, Works
<1>5. /\ pc[r] = "record"
      /\ UNCHANGED <<mailbox, dataset, link, staged, stagedLink, origin, pc, round, stored,
                     analyses, queue, audit, row>>
  BY DEF Record
<1>6. TypeOK'
  BY <1>3, <1>4, <1>5 DEF TypeOK, SyncTypeOK
<1>7. WorkOK(r)'
  BY <1>2, <1>4, <1>5, HoldsFlow DEF WorkOK, Analyzed, Complete, SyncSteps
<1> QED
  BY <1>4, <1>5, <1>6, <1>7, OthersOK

LEMMA EndsFlow ==
    ASSUME FlowInv, NEW r \in Runs, Finish(r) \/ Fail(r) \/ Crash(r)
    PROVE  FlowInv'
<1> USE DEF FlowInv, syncFiles, database, trail
<1>1. /\ Ends(r)
      /\ UNCHANGED <<mailbox, dataset, link, origin, stored, analyses, sql, queue, audit>>
      /\ staged' \in {staged, NoFile} /\ stagedLink' \in {stagedLink, NoFile}
  BY DEF Finish, Fail, Crash
<1>2. row' \in [Runs -> {"none", "running", "completed", "completed_with_failures", "failed"}]
  BY DEF Finish, Fail, Crash, TypeOK
<1>3. NoRound \in Rounds /\ NoWork \in Works
  BY DEF NoRound, Rounds, NoWork, Works, Nothing, Copies, Outcomes
<1>4. /\ pc' \in [Runs -> SyncSteps \cup FlowSteps]
      /\ pc'[r] = "idle"
      /\ \A s \in Runs \ {r} : pc'[s] = pc[s]
  BY <1>1, GotoType DEF Ends, TypeOK, FlowSteps
<1>5. /\ work'[r] = NoWork /\ round'[r] = NoRound
      /\ work' \in [Runs -> Works] /\ round' \in [Runs -> Rounds]
      /\ \A s \in Runs \ {r} : work'[s] = work[s] /\ round'[s] = round[s]
  BY <1>1, <1>3 DEF Ends, TypeOK, SyncTypeOK
<1>6. TypeOK'
  BY <1>1, <1>2, <1>4, <1>5 DEF TypeOK, SyncTypeOK
<1>7. WorkOK(r)'
  BY <1>1, <1>4, <1>5, HoldsFlow DEF WorkOK, Analyzed, Complete, NoWork, NoRound
<1> QED
  BY <1>1, <1>4, <1>5, <1>6, <1>7, OthersOK

LEMMA NextFlow ==
    ASSUME FlowInv, [Next]_vars
    PROVE  FlowInv'
<1>1. CASE UNCHANGED vars
  BY <1>1 DEF FlowInv, TypeOK, SyncTypeOK, WorkInv, WorkOK, Analyzed, Complete,
              vars, syncVars, syncFiles, flowVars
<1>2. CASE (MailChanges \/ Upgrade) /\ UNCHANGED flowVars
  BY <1>2, WorldFlow
<1>3. ASSUME NEW r \in Runs, NEW force \in BOOLEAN, NEW syncing \in BOOLEAN,
             Begin(r, force, syncing)
      PROVE  FlowInv'
  BY <1>3, BeginFlow
<1>4. ASSUME NEW r \in Runs, SyncStep(r) /\ UNCHANGED flowVars
      PROVE  FlowInv'
  BY <1>4, SyncFlow
<1>5. ASSUME NEW r \in Runs, FlowStep(r) \/ Fail(r) \/ Crash(r)
      PROVE  FlowInv'
  BY <1>5, LoadFlow, UpsertFlow, SelectFlow, AnalyzeFlow, PersistFlow, EnqueueFlow,
     AuditFlow, RecordFlow, EndsFlow DEF FlowStep
<1> QED
  BY <1>1, <1>2, <1>3, <1>4, <1>5 DEF Next

(* Type correctness of the synchronization and of the workflow, for any    *)
(* number of runs at a time.                                               *)
THEOREM WorkflowTypeInvariant == Spec => []TypeOK
<1>1. FlowInv => TypeOK
  BY DEF FlowInv
<1> QED
  BY <1>1, InitFlow, NextFlow, PTL DEF Spec

-----------------------------------------------------------------------------
(* The order of the three files, whatever other runs do in between: what a *)
(* run is about to log it has queued, and what it records it has logged.   *)
TrailOK(r) ==
    /\ pc[r] = "audit" => ActionsOf(r) \subseteq queue
    /\ pc[r] = "record" => ActionsOf(r) \subseteq audit

TrailInv == TrailFollowsQueue /\ \A r \in Runs : TrailOK(r)

LEMMA SameActions ==
    ASSUME NEW r \in Runs, work'[r].loaded = work[r].loaded, work'[r].outcome = work[r].outcome
    PROVE  ActionsOf(r)' = ActionsOf(r)
BY DEF ActionsOf, ActionOf, Complete, Analyzed

(* A step of run r that only lets the files grow.                          *)
LEMMA TrailGrows ==
    ASSUME FlowInv, TrailInv, NEW r \in Runs, TrailFollowsQueue', TrailOK(r)',
           queue \subseteq queue', audit \subseteq audit',
           \A s \in Runs \ {r} : work'[s] = work[s] /\ pc'[s] = pc[s]
    PROVE  TrailInv'
<1> SUFFICES ASSUME NEW s \in Runs PROVE TrailOK(s)'
  BY DEF TrailInv
<1>1. CASE s = r
  BY <1>1
<1>2. CASE s # r
  <2>1. ActionsOf(s)' = ActionsOf(s)
    BY <1>2, SameActions
  <2> QED
    BY <1>2, <2>1 DEF TrailInv, TrailOK
<1> QED
  BY <1>1, <1>2

LEMMA EnqueueTrail ==
    ASSUME FlowInv, TrailInv, NEW r \in Runs, Enqueue(r)
    PROVE  TrailInv'
<1>1. /\ queue' = queue \cup ActionsOf(r)
      /\ UNCHANGED <<audit, sql, work>>
  BY DEF Enqueue, database
<1>2. pc'[r] = "audit" /\ \A s \in Runs \ {r} : pc'[s] = pc[s]
  BY GotoType DEF Enqueue, FlowInv, TypeOK, FlowSteps
<1>3. ActionsOf(r)' = ActionsOf(r)
  BY <1>1, SameActions
<1>4. TrailFollowsQueue' /\ TrailOK(r)'
  BY <1>1, <1>2, <1>3 DEF TrailInv, TrailFollowsQueue, TrailOK
<1> QED
  BY <1>1, <1>2, <1>4, TrailGrows

LEMMA AuditTrail ==
    ASSUME FlowInv, TrailInv, NEW r \in Runs, Audit(r)
    PROVE  TrailInv'
<1>1. /\ audit' = audit \cup ActionsOf(r)
      /\ pc[r] = "audit"
      /\ UNCHANGED <<queue, sql>>
  BY DEF Audit, database
<1>2. pc'[r] = "record" /\ \A s \in Runs \ {r} : pc'[s] = pc[s]
  BY GotoType DEF Audit, FlowInv, TypeOK, FlowSteps
<1>3. /\ work'[r].loaded = work[r].loaded /\ work'[r].outcome = work[r].outcome
      /\ \A s \in Runs \ {r} : work'[s] = work[s]
  BY HoldsFlow DEF Audit, Works
<1>4. ActionsOf(r)' = ActionsOf(r)
  BY <1>3, SameActions
<1>5. TrailFollowsQueue' /\ TrailOK(r)'
  BY <1>1, <1>2, <1>4 DEF TrailInv, TrailFollowsQueue, TrailOK
<1> QED
  BY <1>1, <1>2, <1>3, <1>5, TrailGrows

LEMMA RecordTrail ==
    ASSUME FlowInv, TrailInv, NEW r \in Runs, Record(r)
    PROVE  TrailInv'
<1>1. PICK m \in work[r].todo :
          /\ sql' = sql \cup {ActionOf(r, m)}
          /\ work' = [work EXCEPT ![r].todo = @ \ {m}]
  BY DEF Record
<1>2. pc[r] = "record" /\ UNCHANGED <<queue, audit, pc>>
  BY DEF Record, trail
<1>3. ActionOf(r, m) \in ActionsOf(r)
  BY <1>1, <1>2, HoldsFlow DEF WorkOK, ActionsOf
<1>4. /\ work'[r].loaded = work[r].loaded /\ work'[r].outcome = work[r].outcome
      /\ \A s \in Runs \ {r} : work'[s] = work[s]
  BY <1>1, HoldsFlow DEF Works
<1>5. ActionsOf(r)' = ActionsOf(r)
  BY <1>4, SameActions
<1>6. TrailFollowsQueue' /\ TrailOK(r)'
  BY <1>1, <1>2, <1>3, <1>5 DEF TrailInv, TrailFollowsQueue, TrailOK
<1> QED
  BY <1>2, <1>4, <1>6, TrailGrows

(* Every other step leaves the files alone and no run at "audit" or        *)
(* "record" that was not there.                                            *)
LEMMA OtherTrail ==
    ASSUME FlowInv, TrailInv, NEW r \in Runs, UNCHANGED <<queue, audit, sql>>,
           \/ pc'[r] \notin {"audit", "record"}
           \/ work'[r] = work[r] /\ pc'[r] = pc[r],
           \A s \in Runs \ {r} : work'[s] = work[s] /\ pc'[s] = pc[s]
    PROVE  TrailInv'
<1>1. TrailOK(r)'
  <2>1. CASE pc'[r] \notin {"audit", "record"}
    BY <2>1 DEF TrailOK
  <2>2. CASE work'[r] = work[r] /\ pc'[r] = pc[r]
    BY <2>2, SameActions DEF TrailInv, TrailOK
  <2> QED
    BY <2>1, <2>2
<1> QED
  BY <1>1, TrailGrows DEF TrailInv, TrailFollowsQueue

LEMMA SyncTrail ==
    ASSUME FlowInv, TrailInv, NEW r \in Runs, SyncStep(r), UNCHANGED flowVars
    PROVE  TrailInv'
<1>1. PICK step \in SyncSteps : Goto(r, step)
  BY DEF SyncStep, ReadState, ReadDataset, OpenRound, Page, StageDataset, PublishDataset,
         StageLink, PublishLink, SyncSteps
<1>2. pc'[r] \in SyncSteps /\ \A s \in Runs \ {r} : pc'[s] = pc[s]
  BY <1>1, GotoType DEF FlowInv, TypeOK
<1> QED
  BY <1>2, OtherTrail DEF flowVars, SyncSteps

LEMMA NextTrail ==
    ASSUME FlowInv, TrailInv, [Next]_vars
    PROVE  TrailInv'
<1>1. CASE UNCHANGED vars \/ ((MailChanges \/ Upgrade) /\ UNCHANGED flowVars)
  <2>1. UNCHANGED <<pc, queue, audit, sql, work>>
    BY <1>1 DEF vars, syncVars, flowVars, MailChanges, Upgrade
  <2> QED
    BY <2>1 DEF TrailInv, TrailFollowsQueue, TrailOK, ActionsOf, ActionOf, Complete, Analyzed
<1>2. ASSUME NEW r \in Runs, NEW force \in BOOLEAN, NEW syncing \in BOOLEAN,
             Begin(r, force, syncing)
      PROVE  TrailInv'
  <2>1. pc'[r] \in {"read_state", "load"} /\ \A s \in Runs \ {r} : pc'[s] = pc[s]
    BY <1>2 DEF Begin, Goto, FlowInv, TypeOK
  <2>2. \A s \in Runs \ {r} : work'[s] = work[s]
    BY <1>2 DEF Begin, FlowInv, TypeOK
  <2> QED
    BY <1>2, <2>1, <2>2, OtherTrail DEF Begin, database, trail
<1>3. ASSUME NEW r \in Runs, SyncStep(r) /\ UNCHANGED flowVars
      PROVE  TrailInv'
  BY <1>3, SyncTrail
<1>4. ASSUME NEW r \in Runs, Load(r) \/ Upsert(r) \/ Select(r) \/ Analyze(r)
      PROVE  TrailInv'
  <2>1. PICK step \in {"import", "select", "persist"} : Goto(r, step)
    BY <1>4 DEF Load, Upsert, Select, Analyze
  <2>2. pc'[r] \in {"import", "select", "persist"} /\ \A s \in Runs \ {r} : pc'[s] = pc[s]
    BY <2>1, GotoType DEF FlowInv, TypeOK, FlowSteps
  <2>3. \A s \in Runs \ {r} : work'[s] = work[s]
    BY <1>4 DEF Load, Upsert, Select, Analyze, FlowInv, TypeOK
  <2>4. UNCHANGED <<queue, audit, sql>>
    BY <1>4 DEF Load, Upsert, Select, Analyze, database, trail
  <2> QED
    BY <2>2, <2>3, <2>4, OtherTrail
<1>5. ASSUME NEW r \in Runs, Persist(r)
      PROVE  TrailInv'
  <2>1. pc'[r] = "persist" /\ \A s \in Runs \ {r} : work'[s] = work[s] /\ pc'[s] = pc[s]
    BY <1>5 DEF Persist, FlowInv, TypeOK
  <2> QED
    BY <1>5, <2>1, OtherTrail DEF Persist, trail
<1>6. ASSUME NEW r \in Runs, Finish(r) \/ Fail(r) \/ Crash(r)
      PROVE  TrailInv'
  <2>1. Ends(r) /\ UNCHANGED <<queue, audit, sql>>
    BY <1>6 DEF Finish, Fail, Crash, database, trail
  <2>2. pc'[r] = "idle" /\ \A s \in Runs \ {r} : work'[s] = work[s] /\ pc'[s] = pc[s]
    BY <2>1 DEF Ends, Goto, FlowInv, TypeOK
  <2> QED
    BY <2>1, <2>2, OtherTrail
<1> QED
  BY <1>1, <1>2, <1>3, <1>4, <1>5, <1>6, EnqueueTrail, AuditTrail, RecordTrail
     DEF Next, FlowStep

(* Whatever dies or fails, and however many runs there are: a row has its  *)
(* audit event, and an audited action is in the queue.                     *)
THEOREM TrailInvariant == Spec => []TrailFollowsQueue
<1>1. Init => TrailInv
  BY DEF Init, SyncInit, TrailInv, TrailFollowsQueue, TrailOK
<1>2. TrailInv => TrailFollowsQueue
  BY DEF TrailInv
<1> QED
  BY <1>1, <1>2, InitFlow, NextFlow, NextTrail, PTL DEF Spec

-----------------------------------------------------------------------------
(***************************************************************************)
(* Proofs about module Workflow when its runs follow one another: what its *)
(* rows hold, and what a run that says completed has done.  With two runs  *)
(* at a time neither holds: see README.md.                                 *)
(***************************************************************************)

OneAtATime == \A r, s \in Runs : r = s

(* The message m is imported as run r loaded it, and analyzed.             *)
Settled(r, m) == stored[m] = work[r].loaded[m] /\ HasCurrent(m)

(* Nothing the run has passed by is left open, unless it has noted a       *)
(* failure.                                                                *)
AloneOK(r) ==
    /\ pc[r] \in {"import", "select", "persist"} =>
          \A m \in work[r].eligible : stored[m] = work[r].loaded[m]
    /\ pc[r] = "select" => stored[work[r].at] = work[r].loaded[work[r].at]
    /\ pc[r] = "persist" => work[r].todo \subseteq work[r].eligible
    /\ work[r].failures \/
       \A m \in Messages : work[r].loaded[m] # Absent =>
          /\ pc[r] = "import" =>
                m \in work[r].todo \cup work[r].eligible \/ Settled(r, m)
          /\ pc[r] = "select" =>
                m \in work[r].todo \cup work[r].eligible \cup {work[r].at} \/ Settled(r, m)
          /\ pc[r] = "persist" => m \in work[r].todo \/ Settled(r, m)
          /\ pc[r] \in {"audit", "record"} => Settled(r, m)
    /\ pc[r] = "persist" /\ ~work[r].failures => work[r].todo \subseteq Complete(r)

RowsInv ==
    \A m \in Messages, c \in Mappable : analyses[m][c] # Absent => analyses[m][c].of = c

AloneInv == RowsInv /\ \A r \in Runs : AloneOK(r)

LEMMA UpsertAlone ==
    ASSUME OneAtATime, FlowInv, AloneInv, NEW r \in Runs, Upsert(r)
    PROVE  AloneOK(r)' /\ RowsInv'
<1>1. PICK m \in work[r].todo :
          /\ stored' = [stored EXCEPT ![m] = work[r].loaded[m]]
          /\ work' = [work EXCEPT ![r].todo = @ \ {m}, ![r].at = m]
  BY DEF Upsert
<1>2. m \in Messages /\ DOMAIN stored = Messages
  BY HoldsFlow DEF Works, FlowInv, TypeOK, Copies
<1>3. /\ work'[r].todo = work[r].todo \ {m}
      /\ work'[r].at = m
      /\ work'[r].loaded = work[r].loaded
      /\ work'[r].eligible = work[r].eligible
      /\ work'[r].failures = work[r].failures
  BY <1>1, HoldsFlow DEF Works
<1>4. pc[r] = "import" /\ pc'[r] = "select" /\ analyses' = analyses
  BY GotoType DEF Upsert, FlowInv, TypeOK, FlowSteps
<1>5. /\ stored'[m] = work[r].loaded[m]
      /\ \A n \in Messages \ {m} : stored'[n] = stored[n]
  BY <1>1, <1>2
<1>6. work[r].eligible \subseteq Messages
  BY HoldsFlow DEF Works
<1>7. \A n \in Messages \ {m} : Settled(r, n) => Settled(r, n)'
  BY <1>3, <1>4, <1>5 DEF Settled, HasCurrent
<1>8. AloneOK(r)
  BY DEF AloneInv
<1>9. AloneOK(r)'
  BY <1>3, <1>4, <1>5, <1>6, <1>7, <1>8 DEF AloneOK
<1> QED
  BY <1>4, <1>9 DEF AloneInv, RowsInv

LEMMA SelectAlone ==
    ASSUME OneAtATime, FlowInv, AloneInv, NEW r \in Runs, Select(r)
    PROVE  AloneOK(r)' /\ RowsInv'
<1>1. pc[r] = "select" /\ pc'[r] = "import" /\ UNCHANGED <<analyses, stored>>
  BY GotoType DEF Select, database, FlowInv, TypeOK, FlowSteps
<1>2. /\ work'[r].todo = work[r].todo
      /\ work'[r].loaded = work[r].loaded
      /\ \/ work'[r].failures = TRUE /\ work'[r].eligible = work[r].eligible
         \/ /\ work'[r].eligible = work[r].eligible \cup {work[r].at}
            /\ work'[r].failures = work[r].failures
         \/ /\ work'[r].eligible = work[r].eligible
            /\ work'[r].failures = work[r].failures
            /\ HasCurrent(work[r].at)
  <2> USE HoldsFlow DEF Works
  <2>1. CASE work' = [work EXCEPT ![r].at = Absent, ![r].failures = TRUE]
    BY <2>1
  <2>2. CASE work' = [work EXCEPT ![r].at = Absent, ![r].eligible = @ \cup {work[r].at}]
    BY <2>2
  <2>3. CASE HasCurrent(work[r].at) /\ work' = [work EXCEPT ![r].at = Absent]
    BY <2>3
  <2> QED
    BY <2>1, <2>2, <2>3 DEF Select
<1>3. \A n \in Messages : Settled(r, n) => Settled(r, n)'
  BY <1>1, <1>2 DEF Settled, HasCurrent
<1>4. AloneOK(r) /\ work[r].at \in Messages
  BY <1>1, HoldsFlow DEF AloneInv, WorkOK
<1>5. HasCurrent(work[r].at) => Settled(r, work[r].at)
  BY <1>1, <1>4 DEF AloneOK, Settled
<1>6. AloneOK(r)'
  BY <1>1, <1>2, <1>3, <1>4, <1>5 DEF AloneOK
<1> QED
  BY <1>1, <1>6 DEF AloneInv, RowsInv

LEMMA AnalyzeAlone ==
    ASSUME OneAtATime, FlowInv, AloneInv, NEW r \in Runs, Analyze(r)
    PROVE  AloneOK(r)' /\ RowsInv'
<1>1. /\ pc[r] = "import" /\ work[r].todo = {}
      /\ pc'[r] = "persist" /\ UNCHANGED <<analyses, stored>>
  BY GotoType DEF Analyze, database, FlowInv, TypeOK, FlowSteps
<1>2. PICK outcome \in [work[r].eligible -> Outcomes] :
          work' = [work EXCEPT
            ![r].outcome = [m \in Messages |->
                IF m \in work[r].eligible THEN outcome[m] ELSE "failed"],
            ![r].todo = {m \in work[r].eligible : outcome[m] # "failed"},
            ![r].failures = @ \/ \E m \in work[r].eligible : outcome[m] \notin Decisions]
  BY DEF Analyze
<1>3. /\ work'[r].todo = {m \in work[r].eligible : outcome[m] # "failed"}
      /\ work'[r].outcome = [m \in Messages |->
             IF m \in work[r].eligible THEN outcome[m] ELSE "failed"]
      /\ work'[r].loaded = work[r].loaded
      /\ work'[r].eligible = work[r].eligible
  BY <1>2, HoldsFlow DEF Works
<1>4. work'[r].failures =
          (work[r].failures \/ \E m \in work[r].eligible : outcome[m] \notin Decisions)
  BY <1>2, HoldsFlow DEF Works
<1>5. work[r].eligible \subseteq Messages /\ work[r].failures \in BOOLEAN
  BY HoldsFlow DEF Works
<1>6. \A n \in Messages : Settled(r, n) => Settled(r, n)'
  BY <1>1, <1>3 DEF Settled, HasCurrent
<1>7. ~work'[r].failures =>
          /\ ~work[r].failures
          /\ \A m \in work[r].eligible : outcome[m] \in Decisions
  BY <1>4
<1>8. ~work'[r].failures =>
          /\ work'[r].todo = work[r].eligible
          /\ work'[r].todo \subseteq Complete(r)'
  BY <1>3, <1>5, <1>7, OutcomesAssumption DEF Complete, Analyzed
<1>9. AloneOK(r)
  BY DEF AloneInv
<1>10. AloneOK(r)'
  BY <1>1, <1>3, <1>5, <1>6, <1>7, <1>8, <1>9 DEF AloneOK
<1> QED
  BY <1>1, <1>10 DEF AloneInv, RowsInv

LEMMA PersistAlone ==
    ASSUME OneAtATime, FlowInv, AloneInv, NEW r \in Runs, Persist(r)
    PROVE  AloneOK(r)' /\ RowsInv'
<1>1. PICK m \in work[r].todo :
          /\ analyses' = [analyses EXCEPT ![m][stored[m]] =
                [of |-> work[r].loaded[m], complete |-> m \in Complete(r)]]
          /\ work' = [work EXCEPT ![r].todo = @ \ {m}]
  BY DEF Persist
<1>2. /\ work'[r].todo = work[r].todo \ {m}
      /\ work'[r].loaded = work[r].loaded
      /\ work'[r].eligible = work[r].eligible
      /\ work'[r].outcome = work[r].outcome
      /\ work'[r].failures = work[r].failures
  BY <1>1, HoldsFlow DEF Works
<1>3. pc[r] = "persist" /\ UNCHANGED <<pc, stored>>
  BY DEF Persist
<1>4. AloneOK(r) /\ m \in Messages
  BY HoldsFlow DEF AloneInv, Works
<1>5. stored[m] = work[r].loaded[m] /\ stored[m] \in Mappable /\ stored[m] # Absent
  BY <1>3, <1>4, HoldsFlow DEF AloneOK, WorkOK, Works, Copies, Mappable
<1> DEFINE new == [of |-> work[r].loaded[m], complete |-> m \in Complete(r)]
<1>6. new \in [of : Mappable, complete : BOOLEAN] /\ new.of = stored[m]
  BY <1>5
<1>7. analyses \in [Messages -> [Mappable -> Analyses]]
  BY DEF FlowInv, TypeOK
<1> HIDE DEF new
<1>8. /\ analyses'[m][stored[m]] = new
      /\ \A n \in Messages, c \in Mappable :
            n # m \/ c # stored[m] => analyses'[n][c] = analyses[n][c]
  BY <1>1, <1>4, <1>5, <1>7 DEF new
<1>9. RowsInv'
  BY <1>6, <1>8 DEF AloneInv, RowsInv
<1>10. \A n \in Messages \ {m} : Settled(r, n) => Settled(r, n)'
  <2> SUFFICES ASSUME NEW n \in Messages \ {m}, Settled(r, n) PROVE Settled(r, n)'
    OBVIOUS
  <2>1. stored[n] \in Mappable
    BY DEF Settled, HasCurrent, FlowInv, TypeOK, Copies, Mappable
  <2> QED
    BY <1>2, <1>3, <1>8, <2>1 DEF Settled, HasCurrent
<1>11. m \in Complete(r) => Settled(r, m)'
  <2>1. ASSUME m \in Complete(r)
        PROVE  new.complete /\ new # Absent
    BY <2>1, <1>6, AbsentRowAssumption DEF new
  <2> QED
    BY <1>2, <1>3, <1>5, <1>8, <2>1 DEF Settled, HasCurrent
<1>12. Complete(r)' = Complete(r)
  BY <1>2 DEF Complete, Analyzed
<1>13. AloneOK(r)'
  BY <1>2, <1>3, <1>4, <1>10, <1>11, <1>12 DEF AloneOK
<1> QED
  BY <1>9, <1>13

LEMMA EnqueueAlone ==
    ASSUME FlowInv, AloneInv, NEW r \in Runs, Enqueue(r)
    PROVE  AloneOK(r)' /\ RowsInv'
<1>1. /\ pc[r] = "persist" /\ work[r].todo = {}
      /\ pc'[r] = "audit" /\ UNCHANGED <<analyses, stored, work>>
  BY GotoType DEF Enqueue, database, FlowInv, TypeOK, FlowSteps
<1>2. \A n \in Messages : Settled(r, n) => Settled(r, n)'
  BY <1>1 DEF Settled, HasCurrent
<1>3. AloneOK(r)
  BY DEF AloneInv
<1>4. AloneOK(r)'
  BY <1>1, <1>2, <1>3 DEF AloneOK
<1> QED
  BY <1>1, <1>4 DEF AloneInv, RowsInv

LEMMA AuditAlone ==
    ASSUME FlowInv, AloneInv, NEW r \in Runs, Audit(r)
    PROVE  AloneOK(r)' /\ RowsInv'
<1>1. pc[r] = "audit" /\ pc'[r] = "record" /\ UNCHANGED <<analyses, stored>>
  BY GotoType DEF Audit, database, FlowInv, TypeOK, FlowSteps
<1>2. work' = [work EXCEPT ![r].todo = Complete(r)]
  BY DEF Audit
<1>3. /\ work'[r].loaded = work[r].loaded
      /\ work'[r].failures = work[r].failures
  BY <1>2, HoldsFlow DEF Works
<1>4. \A n \in Messages : Settled(r, n) => Settled(r, n)'
  BY <1>1, <1>3 DEF Settled, HasCurrent
<1>5. AloneOK(r)
  BY DEF AloneInv
<1>6. AloneOK(r)'
  BY <1>1, <1>3, <1>4, <1>5 DEF AloneOK
<1> QED
  BY <1>1, <1>6 DEF AloneInv, RowsInv

LEMMA RecordAlone ==
    ASSUME FlowInv, AloneInv, NEW r \in Runs, Record(r)
    PROVE  AloneOK(r)' /\ RowsInv'
<1>1. pc[r] = "record" /\ UNCHANGED <<pc, analyses, stored>>
  BY DEF Record
<1>2. PICK m \in work[r].todo : work' = [work EXCEPT ![r].todo = @ \ {m}]
  BY DEF Record
<1>3. /\ work'[r].loaded = work[r].loaded
      /\ work'[r].failures = work[r].failures
  BY <1>2, HoldsFlow DEF Works
<1>4. \A n \in Messages : Settled(r, n) => Settled(r, n)'
  BY <1>1, <1>3 DEF Settled, HasCurrent
<1>5. AloneOK(r)
  BY DEF AloneInv
<1>6. AloneOK(r)'
  BY <1>1, <1>3, <1>4, <1>5 DEF AloneOK
<1> QED
  BY <1>1, <1>6 DEF AloneInv, RowsInv

LEMMA LoadAlone ==
    ASSUME FlowInv, AloneInv, NEW r \in Runs, Load(r)
    PROVE  AloneOK(r)' /\ RowsInv'
<1>1. /\ pc[r] \in {"synced", "load"} /\ pc'[r] = "import"
      /\ UNCHANGED <<analyses, stored>>
  BY GotoType DEF Load, database, FlowInv, TypeOK, FlowSteps
<1>2. work' = [work EXCEPT ![r].loaded = dataset,
                           ![r].todo = {m \in Messages : dataset[m] # Absent},
                           ![r].failures = round[r].failed]
  BY DEF Load
<1>3. /\ work'[r].loaded = dataset
      /\ work'[r].todo = {m \in Messages : dataset[m] # Absent}
      /\ work'[r].eligible = work[r].eligible
  BY <1>2, HoldsFlow DEF Works
<1>4. work[r].eligible = {}
  BY <1>1, HoldsFlow DEF WorkOK, SyncSteps
<1>5. AloneOK(r)'
  BY <1>1, <1>3, <1>4 DEF AloneOK
<1> QED
  BY <1>1, <1>5 DEF AloneInv, RowsInv

(* A step that neither touches the messages and their analyses nor leads   *)
(* to the steps on the loaded messages.                                    *)
LEMMA OutsideAlone ==
    ASSUME AloneInv, NEW r \in Runs, UNCHANGED <<analyses, stored>>,
           pc'[r] \in SyncSteps \cup {"idle", "load"}
    PROVE  AloneOK(r)' /\ RowsInv'
<1>1. pc'[r] \notin {"import", "select", "persist", "audit", "record"}
  BY DEF SyncSteps
<1>2. AloneOK(r)'
  BY <1>1 DEF AloneOK
<1> QED
  BY <1>2 DEF AloneInv, RowsInv

LEMMA SameAlone ==
    ASSUME AloneInv, UNCHANGED <<analyses, stored, work, pc>>
    PROVE  AloneInv'
BY DEF AloneInv, AloneOK, RowsInv, Settled, HasCurrent, Complete, Analyzed

LEMMA NextAlone ==
    ASSUME OneAtATime, FlowInv, AloneInv, [Next]_vars
    PROVE  AloneInv'
<1>1. CASE UNCHANGED vars
  BY <1>1, SameAlone DEF vars, syncVars, flowVars
<1>2. CASE (MailChanges \/ Upgrade) /\ UNCHANGED flowVars
  BY <1>2, SameAlone DEF MailChanges, Upgrade, flowVars
<1>3. ASSUME NEW r \in Runs,
             AloneOK(r)' /\ RowsInv'
      PROVE  AloneInv'
  <2>1. \A s \in Runs : s = r
    BY DEF OneAtATime
  <2>2. \A s \in Runs : AloneOK(s)'
    BY <1>3, <2>1
  <2> QED
    BY <1>3, <2>2 DEF AloneInv
<1>4. ASSUME NEW r \in Runs, NEW force \in BOOLEAN, NEW syncing \in BOOLEAN,
             Begin(r, force, syncing)
      PROVE  AloneInv'
  <2>1. UNCHANGED <<analyses, stored>> /\ pc'[r] \in {"read_state", "load"}
    BY <1>4 DEF Begin, Goto, database, FlowInv, TypeOK
  <2> QED
    BY <2>1, <1>3, OutsideAlone DEF SyncSteps
<1>5. ASSUME NEW r \in Runs, SyncStep(r), UNCHANGED flowVars
      PROVE  AloneInv'
  <2>1. pc'[r] \in SyncSteps
    BY <1>5 DEF SyncStep, ReadState, ReadDataset, OpenRound, Page, StageDataset,
                PublishDataset, StageLink, PublishLink, Goto, SyncSteps, FlowInv, TypeOK
  <2>2. UNCHANGED <<analyses, stored>>
    BY <1>5 DEF flowVars
  <2> QED
    BY <2>1, <2>2, <1>3, OutsideAlone
<1>6. ASSUME NEW r \in Runs, FlowStep(r)
      PROVE  AloneInv'
  <2>1. CASE Finish(r)
    <3>1. pc'[r] = "idle" /\ UNCHANGED <<analyses, stored>>
      BY <2>1 DEF Finish, Ends, Goto, database, FlowInv, TypeOK
    <3> QED
      BY <3>1, <1>3, OutsideAlone
  <2> QED
    BY <1>3, <1>6, <2>1, LoadAlone, UpsertAlone, SelectAlone, AnalyzeAlone,
       PersistAlone, EnqueueAlone, AuditAlone, RecordAlone DEF FlowStep
<1>7. ASSUME NEW r \in Runs, Fail(r) \/ Crash(r)
      PROVE  AloneInv'
  <2>1. pc'[r] = "idle" /\ UNCHANGED <<analyses, stored>>
    BY <1>7 DEF Fail, Crash, Ends, Goto, database, FlowInv, TypeOK
  <2> QED
    BY <2>1, <1>3, OutsideAlone
<1> QED
  BY <1>1, <1>2, <1>4, <1>5, <1>6, <1>7 DEF Next

LEMMA InitAlone == Init => AloneInv
<1> SUFFICES ASSUME Init PROVE AloneInv
  OBVIOUS
<1>1. RowsInv
  BY DEF Init, RowsInv
<1>2. \A r \in Runs : AloneOK(r)
  BY DEF Init, SyncInit, AloneOK, NoWork, Nothing
<1> QED
  BY <1>1, <1>2 DEF AloneInv

(* When runs follow one another, one that finishes as completed leaves     *)
(* each message it loaded imported and analyzed (_RunTracker.finish).      *)
THEOREM CompletedLeavesNothingAlone ==
    ASSUME OneAtATime PROVE Spec => CompletedLeavesNothing
<1> DEFINE Done ==
      \A r \in Runs : row[r] = "running" /\ row'[r] = "completed" =>
          \A m \in Messages : work[r].loaded[m] # Absent =>
              /\ stored[m] = work[r].loaded[m]
              /\ HasCurrent(m)
<1>1. ASSUME FlowInv, AloneInv, [Next]_vars PROVE Done
  <2> SUFFICES ASSUME NEW r \in Runs, row[r] = "running", row'[r] = "completed",
                      NEW m \in Messages, work[r].loaded[m] # Absent
               PROVE  Settled(r, m)
    BY DEF Settled
  <2>1. row \in [Runs -> {"none", "running", "completed", "completed_with_failures", "failed"}]
    BY <1>1 DEF FlowInv, TypeOK
  <2>2. Finish(r)
    <3>1. ~UNCHANGED row
      OBVIOUS
    <3>2. PICK s \in Runs :
             (\E force, syncing \in BOOLEAN : Begin(s, force, syncing))
             \/ Finish(s) \/ Fail(s)
      BY <1>1, <3>1 DEF Next, vars, flowVars, SyncStep, FlowStep, Load, Upsert, Select,
                 Analyze, Persist, Enqueue, Audit, Record, Crash
    <3>3. s = r
      BY DEF OneAtATime
    <3> QED
      BY <2>1, <3>2, <3>3 DEF Begin, Fail
  <2>3. pc[r] = "record" /\ ~work[r].failures
    BY <2>1, <2>2 DEF Finish
  <2>4. AloneOK(r)
    BY <1>1 DEF AloneInv
  <2> QED
    BY <2>3, <2>4 DEF AloneOK
<1>2. FlowInv /\ AloneInv /\ [Next]_vars => AloneInv' /\ [Done]_vars
  BY <1>1, NextAlone
<1> QED
  BY <1>2, InitFlow, InitAlone, NextFlow, PTL DEF Spec, CompletedLeavesNothing, Done

-----------------------------------------------------------------------------
(***************************************************************************)
(* The meaning of a complete analysis with any number of runs at a time.   *)
(* Nothing but one run's import of other content beneath another run's     *)
(* unsaved analysis can break it; concurrent_runs shows that this does.    *)
(***************************************************************************)

(* The messages that run r has imported and has yet to file an analysis of. *)
Unsaved(r) ==
    CASE pc[r] = "select"  -> work[r].eligible \cup {work[r].at}
      [] pc[r] = "import"  -> work[r].eligible
      [] pc[r] = "persist" -> work[r].todo
      [] OTHER             -> {}

(* No import gives a message of them other content.                        *)
NoneReplaced == \A r \in Runs : \A m \in Unsaved(r) : stored'[m] = stored[m]

UnsavedAreCurrent ==
    \A r \in Runs : \A m \in Unsaved(r) : m \in Messages /\ stored[m] = work[r].loaded[m]

FiledInv == RowsInv /\ UnsavedAreCurrent

(* What a step of run r leaves unsaved was unsaved before, or it has just  *)
(* been imported.                                                          *)
LEMMA UnsavedStep ==
    ASSUME FlowInv, NEW r \in Runs,
           FlowStep(r) \/ Fail(r) \/ Crash(r), NEW x \in Unsaved(r)'
    PROVE  \/ x \in Unsaved(r) /\ work'[r].loaded = work[r].loaded
           \/ x \in Messages /\ stored'[x] = work'[r].loaded[x]
<1>1. CASE Upsert(r)
  <2>1. PICK n \in work[r].todo :
            /\ stored' = [stored EXCEPT ![n] = work[r].loaded[n]]
            /\ work' = [work EXCEPT ![r].todo = @ \ {n}, ![r].at = n]
    BY <1>1 DEF Upsert
  <2>2. pc[r] = "import" /\ pc'[r] = "select" /\ n \in Messages
    BY <1>1, <2>1, GotoType, HoldsFlow DEF Upsert, FlowInv, TypeOK, FlowSteps, Works
  <2>3. /\ work'[r].at = n /\ work'[r].eligible = work[r].eligible
        /\ work'[r].loaded = work[r].loaded
        /\ stored'[n] = work[r].loaded[n]
    <3>1. DOMAIN stored = Messages
      BY DEF FlowInv, TypeOK, Copies
    <3> QED
      BY <2>1, <2>2, <3>1, HoldsFlow DEF Works
  <2> QED
    BY <2>2, <2>3 DEF Unsaved
<1>2. CASE Select(r)
  <2>1. pc[r] = "select" /\ pc'[r] = "import"
    BY <1>2, GotoType DEF Select, FlowInv, TypeOK, FlowSteps
  <2>2. /\ work'[r].eligible \subseteq work[r].eligible \cup {work[r].at}
        /\ work'[r].loaded = work[r].loaded
    <3>1. CASE work' = [work EXCEPT ![r].at = Absent, ![r].failures = TRUE]
      BY <3>1, HoldsFlow DEF Works
    <3>2. CASE work' = [work EXCEPT ![r].at = Absent, ![r].eligible = @ \cup {work[r].at}]
      BY <3>2, HoldsFlow DEF Works
    <3>3. CASE work' = [work EXCEPT ![r].at = Absent]
      BY <3>3, HoldsFlow DEF Works
    <3> QED
      BY <1>2, <3>1, <3>2, <3>3 DEF Select
  <2> QED
    BY <2>1, <2>2 DEF Unsaved
<1>3. CASE Analyze(r)
  <2>1. pc[r] = "import" /\ pc'[r] = "persist"
    BY <1>3, GotoType DEF Analyze, FlowInv, TypeOK, FlowSteps
  <2>2. PICK outcome \in [work[r].eligible -> Outcomes] :
          work' = [work EXCEPT
            ![r].outcome = [m \in Messages |->
                IF m \in work[r].eligible THEN outcome[m] ELSE "failed"],
            ![r].todo = {m \in work[r].eligible : outcome[m] # "failed"},
            ![r].failures = @ \/ \E m \in work[r].eligible : outcome[m] \notin Decisions]
    BY <1>3 DEF Analyze
  <2>3. /\ work'[r].todo \subseteq work[r].eligible
        /\ work'[r].loaded = work[r].loaded
    BY <2>2, HoldsFlow DEF Works
  <2> QED
    BY <2>1, <2>3 DEF Unsaved
<1>4. CASE Persist(r)
  <2>1. PICK n \in work[r].todo : work' = [work EXCEPT ![r].todo = @ \ {n}]
    BY <1>4 DEF Persist
  <2>2. pc[r] = "persist" /\ pc'[r] = "persist"
    BY <1>4 DEF Persist
  <2>3. work'[r].todo \subseteq work[r].todo /\ work'[r].loaded = work[r].loaded
    BY <2>1, HoldsFlow DEF Works
  <2> QED
    BY <2>2, <2>3 DEF Unsaved
<1>5. CASE Load(r)
  <2>1. pc[r] \in {"synced", "load"} /\ pc'[r] = "import"
    BY <1>5, GotoType DEF Load, FlowInv, TypeOK, FlowSteps
  <2>2. work' = [work EXCEPT ![r].loaded = dataset,
                             ![r].todo = {n \in Messages : dataset[n] # Absent},
                             ![r].failures = round[r].failed]
    BY <1>5 DEF Load
  <2>3. work'[r].eligible = work[r].eligible
    BY <2>2, HoldsFlow DEF Works
  <2>4. work[r].eligible = {}
    BY <2>1, HoldsFlow DEF WorkOK, SyncSteps
  <2> QED
    BY <2>1, <2>3, <2>4 DEF Unsaved
<1>6. CASE Enqueue(r) \/ Audit(r) \/ Record(r) \/ Finish(r) \/ Fail(r) \/ Crash(r)
  <2>1. pc'[r] \in {"audit", "record", "idle"}
    BY <1>6 DEF Enqueue, Audit, Record, Finish, Fail, Crash, Ends, Goto, FlowInv, TypeOK
  <2> QED
    BY <2>1 DEF Unsaved
<1> QED
  BY <1>1, <1>2, <1>3, <1>4, <1>5, <1>6 DEF FlowStep

(* A step that leaves a run where it was leaves it the same messages.      *)
LEMMA UnsavedElsewhere ==
    ASSUME NEW r \in Runs, work'[r] = work[r], pc'[r] = pc[r]
    PROVE  Unsaved(r)' = Unsaved(r)
BY DEF Unsaved

LEMMA UnsavedKept ==
    ASSUME FlowInv, UnsavedAreCurrent, NoneReplaced, [Next]_vars
    PROVE  UnsavedAreCurrent'
<1>1. SUFFICES ASSUME NEW r \in Runs, NEW m \in Unsaved(r)'
               PROVE  m \in Messages /\ stored'[m] = work'[r].loaded[m]
  BY DEF UnsavedAreCurrent
<1>2. ASSUME m \in Unsaved(r), work'[r].loaded = work[r].loaded
      PROVE  m \in Messages /\ stored'[m] = work'[r].loaded[m]
  BY <1>2 DEF UnsavedAreCurrent, NoneReplaced
<1>3. CASE UNCHANGED <<work, pc>>
  BY <1>2, <1>3, UnsavedElsewhere
<1>4. CASE UNCHANGED vars
  BY <1>3, <1>4 DEF vars, flowVars, syncVars
<1>5. CASE (MailChanges \/ Upgrade) /\ UNCHANGED flowVars
  BY <1>3, <1>5 DEF MailChanges, Upgrade, flowVars
<1>6. ASSUME NEW s \in Runs,
             FlowStep(s) \/ Fail(s) \/ Crash(s)
      PROVE  m \in Messages /\ stored'[m] = work'[r].loaded[m]
  <2>1. CASE s = r
    BY <1>1, <1>2, <1>6, <2>1, UnsavedStep
  <2>2. CASE s # r
    <3>1. work'[r] = work[r] /\ pc'[r] = pc[r]
      BY <1>6, <2>2 DEF FlowStep, Load, Upsert, Select, Analyze, Persist, Enqueue, Audit,
                        Record, Finish, Fail, Crash, Ends, Goto, FlowInv, TypeOK
    <3> QED
      BY <1>1, <1>2, <3>1, UnsavedElsewhere
  <2> QED
    BY <2>1, <2>2
<1>7. ASSUME NEW s \in Runs,
             \/ SyncStep(s) /\ UNCHANGED flowVars
             \/ \E force, syncing \in BOOLEAN : Begin(s, force, syncing)
      PROVE  m \in Messages /\ stored'[m] = work'[r].loaded[m]
  <2>1. CASE s = r
    <3>1. pc'[s] \in SyncSteps \cup {"load"}
      BY <1>7 DEF SyncStep, ReadState, ReadDataset, OpenRound, Page, StageDataset,
                  PublishDataset, StageLink, PublishLink, Begin, Goto, SyncSteps, FlowInv, TypeOK
    <3>2. pc'[r] \notin {"select", "import", "persist"}
      BY <2>1, <3>1 DEF SyncSteps
    <3>3. Unsaved(r)' = {}
      BY <3>2 DEF Unsaved
    <3> QED
      BY <1>1, <3>3
  <2>2. CASE s # r
    <3>1. work'[r] = work[r] /\ pc'[r] = pc[r]
      BY <1>7, <2>2 DEF SyncStep, ReadState, ReadDataset, OpenRound, Page, StageDataset,
                        PublishDataset, StageLink, PublishLink, Begin, Goto, flowVars,
                        FlowInv, TypeOK
    <3> QED
      BY <1>1, <1>2, <3>1, UnsavedElsewhere
  <2> QED
    BY <2>1, <2>2
<1> QED
  BY <1>4, <1>5, <1>6, <1>7 DEF Next

LEMMA RowsKept ==
    ASSUME FlowInv, FiledInv, [Next]_vars
    PROVE  RowsInv'
<1>1. CASE UNCHANGED analyses
  BY <1>1 DEF FiledInv, RowsInv
<1>2. CASE UNCHANGED vars
  BY <1>1, <1>2 DEF vars, flowVars
<1>3. ASSUME NEW r \in Runs, Persist(r)
      PROVE  RowsInv'
  <2>1. PICK m \in work[r].todo :
            analyses' = [analyses EXCEPT ![m][stored[m]] =
                [of |-> work[r].loaded[m], complete |-> m \in Complete(r)]]
    BY <1>3 DEF Persist
  <2>2. m \in Unsaved(r)
    BY <1>3 DEF Persist, Unsaved
  <2>3. m \in Messages /\ stored[m] = work[r].loaded[m]
    BY <2>2 DEF FiledInv, UnsavedAreCurrent
  <2>4. analyses \in [Messages -> [Mappable -> Analyses]]
    BY DEF FlowInv, TypeOK
  <2>5. \A n \in Messages, c \in Mappable :
            analyses'[n][c] = IF n = m /\ c = stored[m]
                              THEN [of |-> work[r].loaded[m], complete |-> m \in Complete(r)]
                              ELSE analyses[n][c]
    BY <2>1, <2>3, <2>4
  <2> QED
    BY <2>3, <2>5 DEF FiledInv, RowsInv
<1>4. CASE Next /\ \A r \in Runs : ~Persist(r)
  <2>1. UNCHANGED analyses
    BY <1>4 DEF Next, flowVars, Begin, FlowStep, Load, Upsert, Select, Analyze, Enqueue,
                Audit, Record, Finish, Fail, Crash, database
  <2> QED
    BY <1>1, <2>1
<1> QED
  BY <1>2, <1>3, <1>4

(* As long as no run imports other content of a message whose analysis     *)
(* another run has yet to file, the analysis that has_current finds        *)
(* complete was computed from the content that messages holds, for any     *)
(* number of runs at a time and wherever they fail or die                  *)
(* (AnalysisRepository.save and has_current).                              *)
THEOREM CurrentMeansAnalysedUnlessReplaced ==
    Spec /\ [][NoneReplaced]_vars => []CurrentMeansAnalysed
<1>1. Init => FiledInv
  <2> SUFFICES ASSUME Init PROVE FiledInv
    OBVIOUS
  <2>1. \A r \in Runs : Unsaved(r) = {}
    BY DEF Init, SyncInit, Unsaved
  <2> QED
    BY <2>1, InitAlone DEF AloneInv, FiledInv, UnsavedAreCurrent
<1>2. FlowInv /\ FiledInv /\ [Next]_vars /\ [NoneReplaced]_vars => FiledInv'
  <2>1. UNCHANGED vars => NoneReplaced
    BY DEF vars, flowVars, NoneReplaced
  <2> QED
    BY <2>1, UnsavedKept, RowsKept DEF FiledInv
<1>3. FlowInv /\ FiledInv => CurrentMeansAnalysed
  BY DEF FlowInv, TypeOK, FiledInv, RowsInv, CurrentMeansAnalysed, HasCurrent,
         Copies, Mappable
<1> QED
  BY <1>1, <1>2, <1>3, InitFlow, NextFlow, PTL DEF Spec

-----------------------------------------------------------------------------
(* The row of m for the content the run loaded says that it is complete.   *)
RowComplete(r, m) ==
    /\ analyses[m][work[r].loaded[m]] # Absent
    /\ analyses[m][work[r].loaded[m]].complete

(* A run about to queue has saved what it will propose.                    *)
ReadyOK(r) ==
    pc[r] = "persist" => \A m \in Complete(r) \ work[r].todo : RowComplete(r, m)

ReadyInv == \A r \in Runs : ReadyOK(r)

LEMMA PersistReady ==
    ASSUME OneAtATime, FlowInv, AloneInv, ReadyInv, NEW r \in Runs, Persist(r)
    PROVE  ReadyOK(r)'
<1>1. PICK m \in work[r].todo :
          /\ analyses' = [analyses EXCEPT ![m][stored[m]] =
                [of |-> work[r].loaded[m], complete |-> m \in Complete(r)]]
          /\ work' = [work EXCEPT ![r].todo = @ \ {m}]
  BY DEF Persist
<1>2. /\ work'[r].todo = work[r].todo \ {m}
      /\ work'[r].loaded = work[r].loaded
      /\ Complete(r)' = Complete(r)
  BY <1>1, HoldsFlow DEF Works, Complete, Analyzed
<1>3. pc[r] = "persist" /\ UNCHANGED pc
  BY DEF Persist
<1>4. m \in Messages /\ stored[m] = work[r].loaded[m]
  BY <1>3, HoldsFlow DEF AloneInv, AloneOK, Works
<1>5. \A n \in Messages : work[r].loaded[n] # Absent => work[r].loaded[n] \in Mappable
  BY HoldsFlow DEF Works, Copies, Mappable
<1>6. work[r].loaded[m] # Absent /\ \A n \in Complete(r) : work[r].loaded[n] # Absent
  BY HoldsFlow DEF WorkOK, Complete
<1> DEFINE new == [of |-> work[r].loaded[m], complete |-> m \in Complete(r)]
<1>7. new # Absent /\ (m \in Complete(r) => new.complete)
  <2>1. new \in [of : Mappable, complete : BOOLEAN]
    BY <1>4, <1>5, <1>6
  <2>2. m \in Complete(r) => new.complete
    OBVIOUS
  <2> HIDE DEF new
  <2> QED
    BY <2>1, <2>2, AbsentRowAssumption
<1>8. analyses \in [Messages -> [Mappable -> Analyses]]
  BY DEF FlowInv, TypeOK
<1> HIDE DEF new
<1>9. /\ analyses'[m][work[r].loaded[m]] = new
      /\ \A n \in Messages \ {m} : analyses'[n] = analyses[n]
  BY <1>1, <1>4, <1>5, <1>6, <1>8 DEF new
<1> SUFFICES ASSUME NEW n \in Complete(r) \ work'[r].todo PROVE RowComplete(r, n)'
  BY <1>2 DEF ReadyOK
<1>10. CASE n = m
  BY <1>2, <1>7, <1>9, <1>10 DEF RowComplete
<1>11. CASE n # m
  <2>1. n \in Messages /\ n \in Complete(r) \ work[r].todo
    BY <1>2, <1>11 DEF Complete, Analyzed
  <2>2. RowComplete(r, n)
    BY <1>3, <2>1 DEF ReadyInv, ReadyOK
  <2> QED
    BY <1>2, <1>9, <1>11, <2>1, <2>2 DEF RowComplete
<1> QED
  BY <1>10, <1>11

LEMMA AnalyzeReady ==
    ASSUME FlowInv, NEW r \in Runs, Analyze(r)
    PROVE  ReadyOK(r)'
<1>1. PICK outcome \in [work[r].eligible -> Outcomes] :
          work' = [work EXCEPT
            ![r].outcome = [m \in Messages |->
                IF m \in work[r].eligible THEN outcome[m] ELSE "failed"],
            ![r].todo = {m \in work[r].eligible : outcome[m] # "failed"},
            ![r].failures = @ \/ \E m \in work[r].eligible : outcome[m] \notin Decisions]
  BY DEF Analyze
<1>2. /\ work'[r].todo = {m \in work[r].eligible : outcome[m] # "failed"}
      /\ work'[r].outcome = [m \in Messages |->
             IF m \in work[r].eligible THEN outcome[m] ELSE "failed"]
  BY <1>1, HoldsFlow DEF Works
<1>3. Complete(r)' \subseteq work'[r].todo
  BY <1>2 DEF Complete, Analyzed
<1> QED
  BY <1>3 DEF ReadyOK

LEMMA NextReady ==
    ASSUME OneAtATime, FlowInv, AloneInv, ReadyInv, [Next]_vars
    PROVE  ReadyInv'
<1>1. ASSUME NEW r \in Runs, ReadyOK(r)' PROVE ReadyInv'
  BY <1>1 DEF OneAtATime, ReadyInv
<1>2. ASSUME NEW r \in Runs, pc'[r] # "persist" PROVE ReadyInv'
  BY <1>1, <1>2 DEF ReadyOK
<1>3. CASE UNCHANGED <<work, pc, analyses>>
  BY <1>3 DEF ReadyInv, ReadyOK, RowComplete, Complete, Analyzed
<1>4. CASE (MailChanges \/ Upgrade) /\ UNCHANGED flowVars
  BY <1>3, <1>4 DEF MailChanges, Upgrade, flowVars
<1>5. ASSUME NEW r \in Runs, NEW force \in BOOLEAN, NEW syncing \in BOOLEAN,
             Begin(r, force, syncing)
      PROVE  ReadyInv'
  <2>1. pc'[r] \in {"read_state", "load"}
    BY <1>5 DEF Begin, Goto, FlowInv, TypeOK
  <2> QED
    BY <2>1, <1>2
<1>6. ASSUME NEW r \in Runs, SyncStep(r), UNCHANGED flowVars
      PROVE  ReadyInv'
  <2>1. pc'[r] \in SyncSteps
    BY <1>6 DEF SyncStep, ReadState, ReadDataset, OpenRound, Page, StageDataset,
                PublishDataset, StageLink, PublishLink, Goto, SyncSteps, FlowInv, TypeOK
  <2> QED
    BY <2>1, <1>2 DEF SyncSteps
<1>7. ASSUME NEW r \in Runs, FlowStep(r)
      PROVE  ReadyInv'
  <2>1. CASE Persist(r)
    BY <2>1, <1>1, PersistReady
  <2>2. CASE Analyze(r)
    BY <2>2, <1>1, AnalyzeReady
  <2>3. CASE Record(r)
    BY <2>3, <1>2 DEF Record
  <2>4. CASE Load(r) \/ Upsert(r) \/ Select(r) \/ Enqueue(r) \/ Audit(r) \/ Finish(r)
    <3>1. pc'[r] # "persist"
      BY <2>4 DEF Load, Upsert, Select, Enqueue, Audit, Finish, Ends, Goto, FlowInv, TypeOK
    <3> QED
      BY <3>1, <1>2
  <2> QED
    BY <1>7, <2>1, <2>2, <2>3, <2>4 DEF FlowStep
<1>8. ASSUME NEW r \in Runs, Fail(r) \/ Crash(r)
      PROVE  ReadyInv'
  <2>1. pc'[r] = "idle"
    BY <1>8 DEF Fail, Crash, Ends, Goto, FlowInv, TypeOK
  <2> QED
    BY <2>1, <1>2
<1> QED
  BY <1>3, <1>4, <1>5, <1>6, <1>7, <1>8 DEF Next, vars, syncVars, flowVars

(* When runs follow one another, an action enters the queue only when the  *)
(* row of its content says that the analysis is complete (_persist_step    *)
(* before _action_step, _filtered_analysis).                               *)
THEOREM ProposedWhenCompleteAlone ==
    ASSUME OneAtATime PROVE Spec => ProposedWhenComplete
<1> DEFINE Sound ==
      \A a \in queue' \ queue :
          /\ analyses[a.msg][a.content] # Absent
          /\ analyses[a.msg][a.content].complete
<1>1. ASSUME ReadyInv, [Next]_vars PROVE Sound
  <2> SUFFICES ASSUME NEW a \in queue' \ queue
               PROVE  /\ analyses[a.msg][a.content] # Absent
                      /\ analyses[a.msg][a.content].complete
    OBVIOUS
  <2>1. PICK r \in Runs : Enqueue(r)
    <3>1. ~UNCHANGED queue
      OBVIOUS
    <3> QED
      BY <1>1, <3>1 DEF Next, vars, flowVars, SyncStep, FlowStep, Begin, Load, Upsert, Select,
         Analyze, Persist, Audit, Record, Finish, Fail, Crash, trail
  <2>2. PICK m \in Complete(r) : a = ActionOf(r, m)
    BY <2>1 DEF Enqueue, ActionsOf
  <2>3. pc[r] = "persist" /\ work[r].todo = {}
    BY <2>1 DEF Enqueue
  <2>4. RowComplete(r, m)
    BY <1>1, <2>3 DEF ReadyInv, ReadyOK
  <2> QED
    BY <2>2, <2>4 DEF ActionOf, RowComplete
<1>2. ASSUME Init PROVE ReadyInv
  BY <1>2 DEF Init, SyncInit, ReadyInv, ReadyOK
<1>3. FlowInv /\ AloneInv /\ ReadyInv /\ [Next]_vars => AloneInv' /\ ReadyInv' /\ [Sound]_vars
  BY <1>1, NextAlone, NextReady
<1> QED
  BY <1>2, <1>3, InitFlow, InitAlone, NextFlow, PTL DEF Spec, ProposedWhenComplete, Sound

-----------------------------------------------------------------------------
(* The last of the first n changes of m, and what m was then or later.     *)
Last(m, n) == Max(ChangesOf(m, 1, n))
Since(m, n) == {mailbox[k].to : k \in ChangesOf(m, Last(m, n), Len(mailbox))}

(* A dataset with v for m lacks none of the first n changes, but perhaps a *)
(* removal among the first o.                                              *)
Kept(v, m, n, o) ==
    /\ ChangesOf(m, 1, n) # {}
    /\ mailbox[Last(m, n)].to # Absent \/ Last(m, n) > o
    => v \in Since(m, n)

(* The copy of a round lacks nothing that the link covers and, unless a    *)
(* message was rejected, nothing that the round has listed.                *)
RoundOK(r) ==
    LET w == round[r]
        base == IF w.from = NoLink THEN w.upto ELSE origin
    IN
    /\ pc[r] \in SyncSteps \ {"read_state", "synced"} => w.from = link
    /\ pc[r] \in {"first_page", "page", "stage", "publish"} /\ w.from # NoLink =>
          \A m \in Messages : Kept(w.copy[m], m, w.from, origin)
    /\ pc[r] \in {"page", "stage", "publish", "stage_link", "publish_link"} =>
          w.failed \/ \A m \in Messages \ w.ahead : Kept(w.copy[m], m, w.upto, base)
    /\ pc[r] \in {"stage", "publish", "stage_link", "publish_link"} => w.ahead = {}
    /\ pc[r] = "publish" => staged = w.copy
    /\ pc[r] \in {"stage_link", "publish_link"} => dataset = w.copy /\ ~w.failed
    /\ pc[r] = "publish_link" => stagedLink = w.upto

LinkOK ==
    link # NoLink =>
        /\ link <= Len(mailbox)
        /\ \A m \in Messages : Kept(dataset[m], m, link, origin)

CursorInv == LinkOK /\ \A r \in Runs : RoundOK(r)

LEMMA LastChange ==
    ASSUME mailbox \in Changes, NEW m \in Messages,
           NEW n \in Nat, n <= Len(mailbox), ChangesOf(m, 1, n) # {}
    PROVE  /\ Last(m, n) \in 1 .. n
           /\ Last(m, n) \in ChangesOf(m, 1, n)
           /\ \A k \in ChangesOf(m, 1, n) : Last(m, n) >= k
<1>1. ChangesOf(m, 1, n) \in SUBSET (1 .. n)
  BY DEF ChangesOf
<1> DEFINE S == ChangesOf(m, 1, n)
<1> HIDE DEF S
<1>2. Max(S) \in S /\ \A k \in S : Max(S) >= k
  BY <1>1, MaxIsLast DEF S
<1> QED
  BY <1>1, <1>2 DEF S, Last

(* The latest content of m counts as kept, and so does its content after   *)
(* the first n changes.                                                    *)
LEMMA LatestIsKept ==
    ASSUME mailbox \in Changes, NEW m \in Messages,
           NEW n \in Nat, n <= Len(mailbox), ChangesOf(m, 1, n) # {}
    PROVE  After(m, Len(mailbox)) \in Since(m, n) /\ After(m, n) \in Since(m, n)
<1> DEFINE len == Len(mailbox)
<1>1. len \in Nat
  BY LenProperties DEF Changes
<1>2. ChangesOf(m, 1, n) \subseteq ChangesOf(m, 1, len)
  BY <1>1 DEF ChangesOf
<1>3. /\ Last(m, n) \in 1 .. n
      /\ Last(m, n) \in ChangesOf(m, 1, n)
  BY LastChange
<1>4. /\ Last(m, len) \in 1 .. len
      /\ Last(m, len) \in ChangesOf(m, 1, len)
      /\ Last(m, len) >= Last(m, n)
  BY <1>1, <1>2, <1>3, LastChange
<1> DEFINE first == Last(m, n)
           last == Last(m, len)
<1> HIDE DEF first, last, len
<1>5. first \in ChangesOf(m, first, len) /\ last \in ChangesOf(m, first, len)
  BY <1>1, <1>3, <1>4 DEF ChangesOf, first, last, len
<1>6. After(m, n) = mailbox[first].to /\ After(m, len) = mailbox[last].to
  BY <1>4 DEF After, Last, first, last
<1> QED
  BY <1>5, <1>6 DEF Since, first, len

(* What was kept stays kept when the mailbox changes.                      *)
LEMMA KeptLater ==
    ASSUME mailbox \in Changes, NEW m \in Messages, NEW n \in Nat, n <= Len(mailbox),
           NEW item, mailbox' = Append(mailbox, item), NEW v, NEW o, Kept(v, m, n, o)
    PROVE  Kept(v, m, n, o)'
<1> DEFINE len == Len(mailbox)
<1>1. /\ len \in Nat /\ Len(mailbox') = len + 1
      /\ \A k \in 1 .. len : mailbox'[k] = mailbox[k]
  BY LenProperties, AppendProperties DEF Changes
<1>2. ChangesOf(m, 1, n)' = ChangesOf(m, 1, n)
  BY <1>1 DEF ChangesOf
<1>3. Last(m, n)' = Last(m, n)
  BY <1>2 DEF Last
<1> SUFFICES ASSUME ChangesOf(m, 1, n) # {},
                    mailbox'[Last(m, n)].to # Absent \/ Last(m, n) > o
             PROVE  v \in Since(m, n)'
  BY <1>2, <1>3 DEF Kept
<1>4. Last(m, n) \in 1 .. n
  BY LastChange
<1> DEFINE first == Last(m, n)
<1>5. first \in 1 .. len /\ first' = first
  BY <1>1, <1>3, <1>4
<1>6. v \in Since(m, n)
  BY <1>1, <1>5 DEF Kept
<1> HIDE DEF first, len
<1>7. PICK k \in ChangesOf(m, first, len) : v = mailbox[k].to
  BY <1>6 DEF Since, first, len
<1>8. k \in 1 .. len /\ k >= first /\ mailbox[k].msg = m
  BY <1>1, <1>5, <1>7 DEF ChangesOf
<1>9. k \in first .. (len + 1) /\ mailbox'[k].msg = m /\ v = mailbox'[k].to
  BY <1>1, <1>5, <1>7, <1>8
<1>10. Since(m, n)' = {mailbox'[j].to : j \in {i \in first .. (len + 1) : mailbox'[i].msg = m}}
  BY <1>1, <1>3 DEF Since, ChangesOf, first
<1> QED
  BY <1>9, <1>10

LEMMA HoldsCursor ==
    ASSUME FlowInv, CursorInv, NEW r \in Runs
    PROVE  /\ mailbox \in Changes /\ Len(mailbox) \in Nat
           /\ round[r].copy \in Copies /\ round[r].ahead \subseteq Messages
           /\ round[r].failed \in BOOLEAN /\ origin \in Nat
           /\ round[r].from \in Nat \cup {NoLink}
           /\ round[r].upto \in Nat /\ round[r].upto <= Len(mailbox)
           /\ link \in Nat \cup {NoLink} /\ (link # NoLink => link <= Len(mailbox))
           /\ RoundOK(r)
BY LenProperties DEF FlowInv, TypeOK, SyncTypeOK, WorkInv, WorkOK, CursorInv, LinkOK,
   Changes, Rounds

(* What opens the round lists each message of which the copy might lack a  *)
(* change.                                                                 *)
LEMMA OpenRoundCursor ==
    ASSUME FlowInv, CursorInv, NEW r \in Runs, OpenRound(r)
    PROVE  RoundOK(r)' /\ LinkOK'
<1> DEFINE n == Len(mailbox)
           from == round[r].from
           copy == round[r].copy
           ahead == {m \in Messages :
               IF from = NoLink THEN After(m, n) # Absent ELSE ChangesOf(m, from + 1, n) # {}}
<1> USE HoldsCursor
<1>1. pc[r] = "first_page" /\ pc'[r] = "page" /\ UNCHANGED <<mailbox, syncFiles>>
  BY DEF OpenRound, Goto, FlowInv, TypeOK
<1>2. round' = [round EXCEPT ![r] = [@ EXCEPT !.upto = n, !.ahead = ahead]]
  BY DEF OpenRound
<1>3. round \in [Runs -> Rounds]
  BY DEF FlowInv, TypeOK, SyncTypeOK
<1> HIDE DEF ahead
<1>4. /\ round'[r].from = from /\ round'[r].copy = copy
      /\ round'[r].upto = n /\ round'[r].ahead = ahead
  BY <1>2, <1>3 DEF Rounds
<1>5. from = link
  BY <1>1 DEF RoundOK, SyncSteps
<1>6. from # NoLink => \A m \in Messages : Kept(copy[m], m, from, origin)
  BY <1>1 DEF RoundOK
<1>7. ASSUME NEW m \in Messages \ ahead
      PROVE  Kept(copy[m], m, n, IF from = NoLink THEN n ELSE origin)
  <2>1. CASE from = NoLink
    <3>1. After(m, n) = Absent
      BY <2>1 DEF ahead
    <3>2. ASSUME ChangesOf(m, 1, n) # {}
          PROVE  mailbox[Last(m, n)].to = Absent /\ ~(Last(m, n) > n)
      BY <3>1, <3>2, LastChange DEF After, Last
    <3> QED
      BY <2>1, <3>2 DEF Kept
  <2>2. CASE from # NoLink
    <3>1. from \in Nat /\ from <= n /\ ChangesOf(m, from + 1, n) = {}
      BY <1>5, <2>2 DEF ahead
    <3>2. ChangesOf(m, 1, n) = ChangesOf(m, 1, from)
      BY <3>1 DEF ChangesOf
    <3>3. Last(m, n) = Last(m, from)
      BY <3>2 DEF Last
    <3> QED
      BY <1>6, <2>2, <3>2, <3>3 DEF Kept, Since
  <2> QED
    BY <2>1, <2>2
<1>8. \A m \in Messages : \A v, k, o : Kept(v, m, k, o)' = Kept(v, m, k, o)
  BY <1>1 DEF Kept, Since, Last, ChangesOf
<1> HIDE DEF from, copy, n
<1>9. RoundOK(r)'
  BY <1>1, <1>4, <1>5, <1>6, <1>7, <1>8 DEF RoundOK, syncFiles
<1>10. LinkOK'
  BY <1>1, <1>8 DEF CursorInv, LinkOK, syncFiles
<1> QED
  BY <1>9, <1>10

(* A page brings the copy nothing older than what it had.                  *)
LEMMA PageCursor ==
    ASSUME FlowInv, CursorInv, NEW r \in Runs, Page(r)
    PROVE  RoundOK(r)' /\ LinkOK'
<1> DEFINE w == round[r]
           base == IF w.from = NoLink THEN w.upto ELSE origin
           len == Len(mailbox)
<1> USE HoldsCursor
<1>1. PICK items \in SUBSET w.ahead :
        /\ round' = [round EXCEPT ![r] = AfterPage(r, items)]
        /\ Goto(r, IF w.ahead = items THEN "stage" ELSE "page")
  BY DEF Page
<1>2. /\ pc[r] = "page" /\ UNCHANGED <<mailbox, syncFiles>>
      /\ pc'[r] = IF w.ahead = items THEN "stage" ELSE "page"
  BY <1>1 DEF Page, Goto, FlowInv, TypeOK
<1>3. /\ round'[r].from = w.from /\ round'[r].upto = w.upto
      /\ round'[r].copy = Applied(r, items)
      /\ round'[r].ahead = w.ahead \ items
      /\ round'[r].failed = (w.failed \/ Rejected(r, items))
  <2>1. round \in [Runs -> Rounds]
    BY DEF FlowInv, TypeOK, SyncTypeOK
  <2> QED
    BY <1>1, <2>1 DEF AfterPage, Rounds
<1>4. /\ w.from = link
      /\ w.from # NoLink => \A m \in Messages : Kept(w.copy[m], m, w.from, origin)
      /\ w.failed \/ \A m \in Messages \ w.ahead : Kept(w.copy[m], m, w.upto, base)
  BY <1>2 DEF RoundOK, SyncSteps
<1>5. ASSUME w.from # NoLink, NEW m \in Messages
      PROVE  Kept(Applied(r, items)[m], m, w.from, origin)
  <2>1. CASE Applied(r, items)[m] = w.copy[m]
    BY <1>4, <1>5, <2>1
  <2>2. CASE Applied(r, items)[m] = Item(r, m)
    <3>1. Item(r, m) = After(m, len)
      BY <1>5 DEF Item
    <3>2. ChangesOf(m, 1, w.from) # {} => After(m, len) \in Since(m, w.from)
      BY <1>4, <1>5, LatestIsKept
    <3> QED
      BY <2>2, <3>1, <3>2 DEF Kept
  <2> QED
    BY <2>1, <2>2 DEF Applied
<1>6. ASSUME ~round'[r].failed, NEW m \in Messages \ round'[r].ahead
      PROVE  Kept(Applied(r, items)[m], m, w.upto, base)
  <2>1. ~w.failed /\ ~Rejected(r, items)
    BY <1>3, <1>6
  <2>2. CASE m \in items
    <3>1. Applied(r, items)[m] = Item(r, m)
      BY <2>1, <2>2 DEF Applied, Rejected
    <3>2. Item(r, m) \in {After(m, len), After(m, w.upto)}
      BY DEF Item
    <3>3. ChangesOf(m, 1, w.upto) # {} =>
              After(m, len) \in Since(m, w.upto) /\ After(m, w.upto) \in Since(m, w.upto)
      BY LatestIsKept
    <3> QED
      BY <3>1, <3>2, <3>3 DEF Kept
  <2>3. CASE m \notin items
    <3>1. Applied(r, items)[m] = w.copy[m] /\ m \in Messages \ w.ahead
      BY <1>3, <1>6, <2>3 DEF Applied
    <3> QED
      BY <1>4, <2>1, <3>1
  <2> QED
    BY <2>2, <2>3
<1>7. \A m \in Messages : \A v, k, o : Kept(v, m, k, o)' = Kept(v, m, k, o)
  BY <1>2 DEF Kept, Since, Last, ChangesOf
<1>8. pc'[r] = "stage" => round'[r].ahead = {}
  BY <1>2, <1>3
<1> HIDE DEF w, len
<1>9. RoundOK(r)'
  BY <1>2, <1>3, <1>4, <1>5, <1>6, <1>7, <1>8 DEF RoundOK, syncFiles, w
<1>10. LinkOK'
  BY <1>2, <1>7 DEF CursorInv, LinkOK, syncFiles
<1> QED
  BY <1>9, <1>10

LEMMA SyncCursor ==
    ASSUME FlowInv, CursorInv, NEW r \in Runs, SyncStep(r)
    PROVE  RoundOK(r)' /\ LinkOK'
<1> USE HoldsCursor
<1>1. round \in [Runs -> Rounds] /\ mailbox' = mailbox
  BY DEF FlowInv, TypeOK, SyncTypeOK, SyncStep, ReadState, ReadDataset, OpenRound, Page,
         StageDataset, PublishDataset, StageLink, PublishLink
<1>2. \A m \in Messages : \A v, k, o : Kept(v, m, k, o)' = Kept(v, m, k, o)
  BY <1>1 DEF Kept, Since, Last, ChangesOf
<1>3. LinkOK /\ RoundOK(r)
  BY DEF CursorInv
<1>4. CASE ReadState(r)
  <2>1. pc'[r] = "read_dataset" /\ UNCHANGED syncFiles
    BY <1>4 DEF ReadState, Goto, FlowInv, TypeOK
  <2>2. round'[r].from = link
    BY <1>1, <1>4 DEF ReadState, NoRound
  <2> QED
    BY <1>1, <1>2, <1>3, <2>1, <2>2 DEF RoundOK, LinkOK, syncFiles
<1>5. CASE ReadDataset(r)
  <2>1. pc[r] = "read_dataset" /\ pc'[r] = "first_page" /\ UNCHANGED syncFiles
    BY <1>5 DEF ReadDataset, Goto, FlowInv, TypeOK
  <2>2. round'[r].from = round[r].from /\ round'[r].copy = dataset
    BY <1>1, <1>5 DEF ReadDataset, Rounds
  <2>3. round[r].from = link
    BY <1>3, <2>1 DEF RoundOK, SyncSteps
  <2> QED
    BY <1>1, <1>2, <1>3, <2>1, <2>2, <2>3 DEF RoundOK, LinkOK, syncFiles
<1>6. CASE OpenRound(r)
  BY <1>6, OpenRoundCursor
<1>7. CASE Page(r)
  BY <1>7, PageCursor
<1>8. CASE StageDataset(r)
  <2>1. /\ pc[r] = "stage" /\ pc'[r] = "publish"
        /\ UNCHANGED <<dataset, link, stagedLink, origin, round>>
        /\ staged' = round[r].copy
    BY <1>8 DEF StageDataset, Goto, FlowInv, TypeOK
  <2> QED
    BY <1>1, <1>2, <1>3, <2>1 DEF RoundOK, LinkOK, SyncSteps
<1>9. CASE PublishDataset(r)
  <2>1. /\ pc[r] = "publish"
        /\ pc'[r] = IF round[r].failed THEN "synced" ELSE "stage_link"
        /\ UNCHANGED <<link, stagedLink, origin, round>>
        /\ dataset' = staged
    BY <1>9 DEF PublishDataset, Goto, FlowInv, TypeOK
  <2>2. dataset' = round[r].copy /\ round[r].from = link /\ round[r].ahead = {}
    BY <1>3, <2>1 DEF RoundOK, SyncSteps
  <2>3. link # NoLink => \A m \in Messages : Kept(dataset'[m], m, link, origin)
    BY <1>3, <2>1, <2>2 DEF RoundOK
  <2>4. LinkOK'
    BY <1>1, <1>2, <1>3, <2>1, <2>3 DEF LinkOK
  <2>5. RoundOK(r)'
    BY <1>1, <1>2, <1>3, <2>1, <2>2 DEF RoundOK, SyncSteps
  <2> QED
    BY <2>4, <2>5
<1>10. CASE StageLink(r)
  <2>1. /\ pc[r] = "stage_link" /\ pc'[r] = "publish_link"
        /\ UNCHANGED <<dataset, link, staged, origin, round>>
        /\ stagedLink' = round[r].upto
    BY <1>10 DEF StageLink, Goto, FlowInv, TypeOK
  <2> QED
    BY <1>1, <1>2, <1>3, <2>1 DEF RoundOK, LinkOK, SyncSteps
<1>11. CASE PublishLink(r)
  <2>1. /\ pc[r] = "publish_link" /\ pc'[r] = "synced"
        /\ UNCHANGED <<dataset, staged, round>>
        /\ link' = stagedLink
        /\ origin' = IF round[r].from = NoLink THEN round[r].upto ELSE origin
    BY <1>11 DEF PublishLink, Goto, FlowInv, TypeOK
  <2>2. /\ link' = round[r].upto /\ link' <= Len(mailbox)
        /\ \A m \in Messages : Kept(dataset[m], m, round[r].upto, origin')
    BY <1>3, <2>1 DEF RoundOK
  <2>3. LinkOK'
    BY <1>1, <1>2, <2>1, <2>2 DEF LinkOK
  <2>4. RoundOK(r)'
    BY <2>1 DEF RoundOK
  <2> QED
    BY <2>3, <2>4
<1> QED
  BY <1>4, <1>5, <1>6, <1>7, <1>8, <1>9, <1>10, <1>11 DEF SyncStep

LEMMA MailCursor ==
    ASSUME FlowInv, CursorInv, MailChanges
    PROVE  CursorInv'
<1>1. PICK m \in Messages, c \in Contents \cup {Absent} :
          mailbox' = Append(mailbox, [msg |-> m, to |-> c])
  BY DEF MailChanges
<1>2. UNCHANGED <<dataset, link, staged, stagedLink, origin, pc, round>>
  BY DEF MailChanges, syncFiles
<1>3. mailbox \in Changes
  BY DEF FlowInv, TypeOK, SyncTypeOK, Changes
<1>4. Len(mailbox') = Len(mailbox) + 1 /\ Len(mailbox) \in Nat
  BY <1>1, <1>3, LenProperties, AppendProperties DEF Changes
<1>5. \A n \in Messages, k \in Nat : \A v, o :
          k <= Len(mailbox) /\ Kept(v, n, k, o) => Kept(v, n, k, o)'
  BY <1>1, <1>3, KeptLater
<1>6. LinkOK'
  BY <1>2, <1>4, <1>5 DEF FlowInv, TypeOK, SyncTypeOK, CursorInv, LinkOK
<1>7. ASSUME NEW r \in Runs PROVE RoundOK(r)'
  <2>1. pc[r] \in {"first_page", "page", "stage", "publish"} /\ round[r].from # NoLink =>
            round[r].from \in Nat /\ round[r].from <= Len(mailbox)
    BY HoldsCursor DEF RoundOK, SyncSteps
  <2> HIDE DEF MailChanges
  <2> QED
    BY <1>2, <1>5, <2>1, HoldsCursor DEF RoundOK
<1> QED
  BY <1>6, <1>7 DEF CursorInv

LEMMA NextCursor ==
    ASSUME OneAtATime, FlowInv, CursorInv, [Next]_vars
    PROVE  CursorInv'
<1> USE DEF syncFiles
<1>1. ASSUME NEW r \in Runs, RoundOK(r)' /\ LinkOK' PROVE CursorInv'
  BY <1>1 DEF OneAtATime, CursorInv
<1>2. ASSUME NEW r \in Runs, pc'[r] \notin SyncSteps \ {"read_state", "synced"},
             UNCHANGED <<mailbox, dataset, link, origin>>
      PROVE  CursorInv'
  <2>1. RoundOK(r)'
    BY <1>2 DEF RoundOK, SyncSteps
  <2>2. LinkOK'
    BY <1>2 DEF CursorInv, LinkOK, Kept, Since, Last, ChangesOf
  <2> QED
    BY <1>1, <2>1, <2>2
<1>3. CASE UNCHANGED vars
  <2>1. UNCHANGED <<mailbox, dataset, link, staged, stagedLink, origin, pc, round>>
    BY <1>3 DEF vars, syncVars
  <2>2. \A v, m, k, o : Kept(v, m, k, o)' = Kept(v, m, k, o)
    BY <2>1 DEF Kept, Since, Last, ChangesOf
  <2>3. LinkOK'
    BY <2>1, <2>2 DEF CursorInv, LinkOK
  <2>4. \A r \in Runs : RoundOK(r)'
    BY <2>1, <2>2 DEF CursorInv, RoundOK
  <2> QED
    BY <2>3, <2>4 DEF CursorInv
<1>4. CASE MailChanges
  BY <1>4, MailCursor
<1>5. CASE Upgrade
  <2>1. UNCHANGED <<pc, mailbox>> /\ link' = NoLink /\ \A r \in Runs : pc[r] = "idle"
    BY <1>5 DEF Upgrade
  <2>2. LinkOK'
    BY <2>1 DEF LinkOK
  <2>3. \A r \in Runs : RoundOK(r)'
    BY <2>1 DEF RoundOK, SyncSteps
  <2> QED
    BY <2>2, <2>3 DEF CursorInv
<1>6. ASSUME NEW r \in Runs, NEW force \in BOOLEAN, NEW syncing \in BOOLEAN,
             Begin(r, force, syncing)
      PROVE  CursorInv'
  <2>1. pc'[r] \in {"read_state", "load"} /\ UNCHANGED <<mailbox, dataset, link, origin>>
    BY <1>6 DEF Begin, Goto, FlowInv, TypeOK
  <2> QED
    BY <2>1, <1>2 DEF SyncSteps
<1>7. ASSUME NEW r \in Runs, SyncStep(r) PROVE CursorInv'
  BY <1>7, <1>1, SyncCursor
<1>8. ASSUME NEW r \in Runs, FlowStep(r) PROVE CursorInv'
  <2>1. pc'[r] \in FlowSteps /\ UNCHANGED <<mailbox, dataset, link, origin>>
    BY <1>8 DEF FlowStep, Load, Upsert, Select, Analyze, Persist, Enqueue, Audit, Record,
                Finish, Ends, Goto, FlowSteps, FlowInv, TypeOK
  <2> QED
    BY <2>1, <1>2 DEF SyncSteps, FlowSteps
<1>9. ASSUME NEW r \in Runs, Fail(r) \/ Crash(r) PROVE CursorInv'
  <2>1. pc'[r] = "idle" /\ UNCHANGED <<mailbox, dataset, link, origin>>
    BY <1>9 DEF Fail, Crash, Ends, Goto, FlowInv, TypeOK
  <2> QED
    BY <2>1, <1>2 DEF SyncSteps
<1> QED
  BY <1>3, <1>4, <1>5, <1>6, <1>7, <1>8, <1>9 DEF Next

(* When runs follow one another, what the delta link covers is in the      *)
(* dataset, whatever failed or crashed between the two files               *)
(* (GraphInboxSynchronizer.sync, _atomic_write).                           *)
THEOREM CursorIsCoveredAlone ==
    ASSUME OneAtATime PROVE Spec => []CursorIsCovered
<1>1. Init => CursorInv
  BY DEF Init, SyncInit, CursorInv, LinkOK, RoundOK, SyncSteps
<1>2. CursorInv => CursorIsCovered
  BY DEF CursorInv, LinkOK, CursorIsCovered, Kept, Since, Last
<1>3. FlowInv /\ CursorInv /\ [Next]_vars => CursorInv'
  BY NextCursor
<1> QED
  BY <1>1, <1>2, <1>3, InitFlow, NextFlow, PTL DEF Spec
-----------------------------------------------------------------------------
(***************************************************************************)
(* When a message may be passed over.  The skipped_message run shows a     *)
(* proposal that is lost; these proofs show that, with one run at a time,  *)
(* only the end of a run between its first complete row and its enqueueing *)
(* loses one.  With two runs TLC finds another loss, so OneAtATime stays.  *)
(***************************************************************************)

(* A run that has saved a complete analysis goes on to queue its action.   *)
QueuesWhatItSaved ==
    \A r \in Runs :
        (Fail(r) \/ Crash(r)) /\ pc[r] = "persist" => Complete(r) \subseteq work[r].todo

Proposed(m, c) == \E a \in queue : a.msg = m /\ a.content = c

(* The run at hand has saved the row and has its action yet to queue.      *)
Underway(r, m, c) ==
    pc[r] = "persist" /\ m \in Complete(r) \ work[r].todo /\ work[r].loaded[m] = c

SavedOK(m, c) ==
    analyses[m][c] # Absent /\ analyses[m][c].complete =>
        Proposed(m, c) \/ \E r \in Runs : Underway(r, m, c)

SavedInv == \A m \in Messages, c \in Mappable : SavedOK(m, c)

(* A step of a run that changes no row and has nothing underway before it. *)
LEMMA OthersSaved ==
    ASSUME SavedInv, analyses' = analyses, queue \subseteq queue',
           \A m \in Messages, c \in Mappable :
              \A r \in Runs : Underway(r, m, c) =>
                 Proposed(m, c)' \/ \E s \in Runs : Underway(s, m, c)'
    PROVE  SavedInv'
<1> SUFFICES ASSUME NEW m \in Messages, NEW c \in Mappable,
                    analyses[m][c] # Absent, analyses[m][c].complete
             PROVE  Proposed(m, c)' \/ \E s \in Runs : Underway(s, m, c)'
  BY DEF SavedInv, SavedOK
<1>1. CASE Proposed(m, c)
  BY <1>1 DEF Proposed
<1>2. CASE \E r \in Runs : Underway(r, m, c)
  BY <1>2
<1> QED
  BY <1>1, <1>2 DEF SavedInv, SavedOK

LEMMA PersistSaved ==
    ASSUME FlowInv, AloneInv, SavedInv, NEW r \in Runs, Persist(r), OneAtATime
    PROVE  SavedInv'
<1>1. PICK m \in work[r].todo :
          /\ analyses' = [analyses EXCEPT ![m][stored[m]] =
                [of |-> work[r].loaded[m], complete |-> m \in Complete(r)]]
          /\ work' = [work EXCEPT ![r].todo = @ \ {m}]
  BY DEF Persist
<1>2. /\ work'[r].todo = work[r].todo \ {m}
      /\ work'[r].loaded = work[r].loaded
      /\ Complete(r)' = Complete(r)
  BY <1>1, HoldsFlow DEF Works, Complete, Analyzed
<1>3. pc[r] = "persist" /\ UNCHANGED <<pc, queue>>
  BY DEF Persist, trail
<1>4. m \in Messages /\ stored[m] = work[r].loaded[m]
  BY <1>3, HoldsFlow DEF AloneInv, AloneOK, Works
<1>5. stored[m] \in Mappable
  BY <1>4, HoldsFlow DEF WorkOK, Works, Copies, Mappable
<1> DEFINE new == [of |-> work[r].loaded[m], complete |-> m \in Complete(r)]
<1>6. new.complete <=> m \in Complete(r)
  OBVIOUS
<1>7. analyses \in [Messages -> [Mappable -> Analyses]]
  BY DEF FlowInv, TypeOK
<1> HIDE DEF new
<1>8. /\ analyses'[m][stored[m]] = new
      /\ \A n \in Messages, c \in Mappable :
            n # m \/ c # stored[m] => analyses'[n][c] = analyses[n][c]
  BY <1>1, <1>4, <1>5, <1>7 DEF new
<1>9. \A n \in Messages, c \in Mappable, s \in Runs : Underway(s, n, c) => Underway(r, n, c)'
  BY <1>2, <1>3 DEF Underway, OneAtATime
<1> SUFFICES ASSUME NEW n \in Messages, NEW c \in Mappable PROVE SavedOK(n, c)'
  BY DEF SavedInv
<1>10. CASE n = m /\ c = stored[m]
  <2>1. m \in Complete(r) => Underway(r, m, c)'
    BY <1>2, <1>3, <1>4, <1>10 DEF Underway
  <2> QED
    BY <1>6, <1>8, <1>10, <2>1 DEF SavedOK
<1>11. CASE ~(n = m /\ c = stored[m])
  <2>1. analyses'[n][c] = analyses[n][c]
    BY <1>8, <1>11
  <2>2. SavedOK(n, c)
    BY DEF SavedInv
  <2> QED
    BY <1>3, <1>9, <2>1, <2>2 DEF SavedOK, Proposed
<1> QED
  BY <1>10, <1>11

LEMMA EnqueueSaved ==
    ASSUME OneAtATime, SavedInv, NEW r \in Runs, Enqueue(r)
    PROVE  SavedInv'
<1>1. queue' = queue \cup ActionsOf(r) /\ analyses' = analyses
  BY DEF Enqueue, database
<1>2. ASSUME NEW m \in Messages, NEW c \in Mappable, NEW s \in Runs, Underway(s, m, c)
      PROVE  Proposed(m, c)'
  <2>1. m \in Complete(r) /\ work[r].loaded[m] = c
    BY <1>2 DEF Underway, OneAtATime
  <2>2. ActionOf(r, m) \in queue'
    BY <1>1, <2>1 DEF ActionsOf
  <2>3. ActionOf(r, m).msg = m /\ ActionOf(r, m).content = c
    BY <2>1 DEF ActionOf
  <2> QED
    BY <2>2, <2>3 DEF Proposed
<1> QED
  BY <1>1, <1>2, OthersSaved

LEMMA NextSaved ==
    ASSUME OneAtATime, FlowInv, AloneInv, SavedInv, QueuesWhatItSaved, [Next]_vars
    PROVE  SavedInv'
<1>1. CASE UNCHANGED <<work, pc, analyses, queue>>
  BY <1>1 DEF SavedInv, SavedOK, Proposed, Underway, Complete, Analyzed
<1>2. CASE (MailChanges \/ Upgrade) /\ UNCHANGED flowVars
  BY <1>1, <1>2 DEF MailChanges, Upgrade, flowVars
<1>3. ASSUME NEW r \in Runs, UNCHANGED <<analyses, queue>>,
             pc[r] = "persist" => Complete(r) \subseteq work[r].todo
      PROVE  SavedInv'
  <2>1. \A m \in Messages, c \in Mappable, s \in Runs : ~Underway(s, m, c)
    BY <1>3 DEF Underway, OneAtATime
  <2> QED
    BY <1>3, <2>1, OthersSaved
<1>4. ASSUME NEW r \in Runs, NEW force \in BOOLEAN, NEW syncing \in BOOLEAN,
             Begin(r, force, syncing)
      PROVE  SavedInv'
  BY <1>3, <1>4 DEF Begin, database, trail
<1>5. ASSUME NEW r \in Runs, SyncStep(r), UNCHANGED flowVars
      PROVE  SavedInv'
  <2>1. pc[r] # "persist"
    BY <1>5 DEF SyncStep, ReadState, ReadDataset, OpenRound, Page, StageDataset,
                PublishDataset, StageLink, PublishLink
  <2> QED
    BY <2>1, <1>3, <1>5 DEF flowVars
<1>6. ASSUME NEW r \in Runs, FlowStep(r)
      PROVE  SavedInv'
  <2>1. CASE Persist(r) \/ Enqueue(r)
    BY <2>1, PersistSaved, EnqueueSaved
  <2>2. CASE Load(r) \/ Upsert(r) \/ Select(r)
    BY <2>2, <1>3, Zenon DEF Load, Upsert, Select, database, trail
  <2>3. CASE Analyze(r) \/ Audit(r) \/ Record(r) \/ Finish(r)
    BY <2>3, <1>3, Zenon DEF Analyze, Audit, Record, Finish, database, trail
  <2> QED
    BY <1>6, <2>1, <2>2, <2>3 DEF FlowStep
<1>7. ASSUME NEW r \in Runs, Fail(r) \/ Crash(r)
      PROVE  SavedInv'
  <2>1. UNCHANGED <<analyses, queue>>
    BY <1>7 DEF Fail, Crash, database, trail
  <2>2. pc[r] = "persist" => Complete(r) \subseteq work[r].todo
    BY <1>7 DEF QueuesWhatItSaved
  <2> QED
    BY <2>1, <2>2, <1>3
<1> QED
  BY <1>1, <1>2, <1>4, <1>5, <1>6, <1>7 DEF Next, vars, syncVars, flowVars

(* The documented order keeps its promise, that a message is passed over   *)
(* only when what its analysis proposed is in the queue, as long as runs   *)
(* follow one another and none ends between saving a complete analysis and *)
(* queueing its actions: the gap between these two is the only one.        *)
THEOREM SkippedWasProposedUnlessLost ==
    ASSUME OneAtATime
    PROVE  Spec /\ [][QueuesWhatItSaved]_vars => []SkippedWasProposed
<1>1. Init => SavedInv
  BY DEF Init, SavedInv, SavedOK
<1>2. FlowInv /\ AloneInv /\ SavedInv /\ [Next]_vars /\ [QueuesWhatItSaved]_vars => SavedInv'
  <2>1. ASSUME SavedInv, UNCHANGED vars
        PROVE  SavedInv'
    BY <2>1 DEF vars, syncVars, flowVars, SavedInv, SavedOK, Proposed, Underway,
                Complete, Analyzed
  <2> QED
    BY <2>1, NextSaved
<1>3. FlowInv /\ AloneInv /\ SavedInv => SkippedWasProposed
  <2> SUFFICES ASSUME FlowInv, AloneInv, SavedInv, NEW r \in Runs,
                      pc[r] = "select", HasCurrent(work[r].at)
               PROVE  Proposed(work[r].at, work[r].loaded[work[r].at])
    BY DEF SkippedWasProposed, Proposed
  <2>1. work[r].at \in Messages /\ stored[work[r].at] = work[r].loaded[work[r].at]
    BY DEF AloneInv, AloneOK, FlowInv, WorkInv, WorkOK
  <2>2. stored[work[r].at] \in Mappable
    BY <2>1 DEF HasCurrent, FlowInv, TypeOK, Copies, Mappable
  <2>3. \A s \in Runs, m \in Messages, c \in Mappable : ~Underway(s, m, c)
    BY DEF OneAtATime, Underway
  <2> QED
    BY <2>1, <2>2, <2>3 DEF SavedInv, SavedOK, HasCurrent
<1>4. FlowInv /\ AloneInv /\ [Next]_vars => FlowInv' /\ AloneInv'
  BY NextFlow, NextAlone
<1> QED
  BY <1>1, <1>2, <1>3, <1>4, InitFlow, InitAlone, PTL DEF Spec
=============================================================================
