---------------------------- MODULE TriageProofs ----------------------------
(***************************************************************************)
(* What triage promises for every policy, mailbox, configuration and       *)
(* answer of the LLM: see module Triage for the properties.                *)
(***************************************************************************)
EXTENDS Triage, FiniteSetTheorems, WellFoundedInduction, TLAPS

-----------------------------------------------------------------------------
(* The operators of the rules.                                             *)

(* A non-empty set of natural numbers has a least member.                  *)
LEMMA LeastNatural ==
    ASSUME NEW S \in SUBSET Nat, S # {}
    PROVE  \E x \in S : \A y \in S : x <= y
<1>1. PICK x \in S : \A y \in S : ~(<<y, x>> \in OpToRel(<, Nat))
  BY NatLessThanWellFounded, WFMin
<1>2. \A y \in S : ~(y < x)
  BY <1>1 DEF OpToRel
<1> QED BY <1>2

(* The deadline the rules find is the earliest date not yet past, if any.  *)
LEMMA FutureDeadlineType ==
    ASSUME NEW m \in Messages
    PROVE  /\ FutureDeadline(m) \in Nat \cup {None}
           /\ FutureDates(m) # {} => FutureDeadline(m) \in Nat
<1>1. FutureDates(m) \in SUBSET Nat
  BY DEF FutureDates, DeadlineDates, Messages, Clauses
<1>2. CASE FutureDates(m) = {}
  BY <1>2 DEF FutureDeadline
<1>3. CASE FutureDates(m) # {}
  BY <1>1, <1>3, LeastNatural DEF FutureDeadline
<1> QED BY <1>2, <1>3

(* An opaque text or message contributes only codes of the policy.         *)
LEMMA ReasonsType ==
    ASSUME NEW f, NEW due \in Codes
    PROVE  Reasons(f, due) \in SUBSET Codes
<1> DEFINE If(condition, code) == IF condition THEN {code} ELSE {}
<1>1. \A code \in Codes : \A condition : If(condition, code) \in SUBSET Codes
  OBVIOUS
<1> QED BY DEF Reasons, Codes

LEMMA DeadlineCodeType == \A m : DeadlineCode(m) \in Codes
BY DEF DeadlineCode, Codes

(* A sum of weights is a number, whatever the reasons.                     *)
LEMMA RawScoreType == \A reasons : RawScore(reasons) \in Int
<1> SUFFICES ASSUME NEW reasons PROVE RawScore(reasons) \in Int
  OBVIOUS
<1>1. \A code \in Codes : Points(reasons, code) \in Int
  BY PolicyAssumption DEF PolicyOK, Points
<1>2. BaseScore \in Int
  BY PolicyAssumption DEF PolicyOK
<1> QED BY <1>1, <1>2 DEF RawScore, Codes

LEMMA ClampType == \A score \in Int : Clamp(score) \in 0 .. 100
BY DEF Clamp

LEMMA PriorityType == \A score : PriorityForScore(score) \in Priorities
BY DEF PriorityForScore, Priorities

(* An evaluation is one of the report's, and its priority is the score's.  *)
LEMMA EvaluateType ==
    ASSUME NEW m
    PROVE  /\ Evaluate(m) \in Evaluations
           /\ Evaluate(m).suggested_priority = PriorityForScore(Evaluate(m).final_score)
           /\ NearThreshold(Evaluate(m).final_score) => Evaluate(m).requires_review
<1> DEFINE f == Features(m)
           reasons == Reasons(f, DeadlineCode(m))
           score == Clamp(RawScore(reasons))
<1>1. reasons \in SUBSET Codes
  BY ReasonsType, DeadlineCodeType
<1>2. score \in 0 .. 100
  BY RawScoreType, ClampType
<1>3. Evaluate(m) = Verdict(f, reasons, score)
  BY DEF Evaluate, Judge
<1>4. PriorityForScore(score) \in Priorities
  BY PriorityType
<1> DEFINE review == \/ f.empty_subject
                     \/ ConflictingBulkDeadline(f)
                     \/ NearThreshold(score)
<1>5. review \in BOOLEAN
  OBVIOUS
<1>6. NearThreshold(score) => review
  OBVIOUS
<1>7. Evaluate(m) = [ final_score |-> score,
                      suggested_priority |-> PriorityForScore(score),
                      reasons |-> reasons, requires_review |-> review ]
  BY <1>3 DEF Verdict
<1> HIDE DEF f, reasons, score, review
<1>8. Evaluate(m) \in Evaluations
  BY <1>1, <1>2, <1>4, <1>5, <1>7 DEF Evaluations
<1>9. Evaluate(m).suggested_priority = PriorityForScore(Evaluate(m).final_score)
  BY <1>7
<1>10. NearThreshold(Evaluate(m).final_score) => Evaluate(m).requires_review
  <2>1. Evaluate(m).final_score = score /\ Evaluate(m).requires_review = review
    BY <1>7
  <2> QED BY <1>6, <2>1
<1> QED BY <1>8, <1>9, <1>10

(* The category is a name: the last line of the table always applies.      *)
LEMMA CategoryType == \A f, text : CategoryOf(f, text) \in MessageCategory
<1> SUFFICES ASSUME NEW f, NEW text PROVE CategoryOf(f, text) \in MessageCategory
  OBVIOUS
<1> DEFINE lines == CategoryLines(f, text)
           applying == {i \in 1 .. 19 : lines[i][1]}
<1>a. DOMAIN lines = 1 .. 19
  BY DEF CategoryLines
<1>b. \A i \in 1 .. 19 : lines[i][2] \in MessageCategory
  <2>1. /\ lines[1][2] = "security_alert"
        /\ lines[2][2] = "incomplete_message"
        /\ lines[3][2] = "promotion"
        /\ lines[4][2] = "newsletter"
        /\ lines[5][2] = "exam_change"
        /\ lines[6][2] = "course_change"
        /\ lines[7][2] = "scholarship_deadline"
        /\ lines[8][2] = "payment_deadline"
        /\ lines[9][2] = "library_reminder"
        /\ lines[10][2] = "academic_calendar"
        /\ lines[11][2] = "administrative_deadline"
        /\ lines[12][2] = "course_registration"
        /\ lines[13][2] = "academic_deadline"
        /\ lines[14][2] = "course_material"
        /\ lines[15][2] = "courtesy_message"
        /\ lines[16][2] = "career_event"
        /\ lines[17][2] = "event_registration"
        /\ lines[18][2] = "campus_activity"
        /\ lines[19][2] = "general_notice"
    BY DEF CategoryLines
  <2> HIDE DEF lines
  <2> QED BY <2>1 DEF MessageCategory
<1>c. lines[19][1] = TRUE
  BY DEF CategoryLines
<1> HIDE DEF lines
<1>1. /\ DOMAIN lines = 1 .. 19
      /\ \A i \in 1 .. 19 : lines[i][2] \in MessageCategory
      /\ lines[19][1] = TRUE
  BY <1>a, <1>b, <1>c
<1>2. applying \in SUBSET Nat /\ 19 \in applying
  BY <1>1
<1>3. PICK i \in applying : \A j \in applying : i <= j
  BY <1>2, LeastNatural
<1>4. \A j \in 1 .. i - 1 : ~lines[j][1]
  BY <1>3
<1>5. FirstApplying(lines) \in DOMAIN lines
  BY <1>1, <1>3, <1>4 DEF FirstApplying
<1> QED BY <1>1, <1>5 DEF CategoryOf, lines

(* The margin reaches every threshold between two scores it separates.     *)
LEMMA FlipIsNear ==
    ASSUME NEW score \in 0 .. 100, NEW other \in 0 .. 100,
           score - other \in -ReviewMargin .. ReviewMargin,
           PriorityForScore(score) # PriorityForScore(other)
    PROVE  NearThreshold(other)
<1>1. ReviewMargin \in Nat /\ \A i \in 1 .. 4 : Thresholds[i] \in Nat
  BY PolicyAssumption DEF PolicyOK
<1>2. PICK i \in 1 .. 4 : (score >= Thresholds[i]) # (other >= Thresholds[i])
  BY <1>1 DEF PriorityForScore
<1>3. score # other
  OBVIOUS
<1> QED BY <1>1, <1>2, <1>3 DEF NearThreshold

(* The rules' result is a result of the report, never below its own score. *)
LEMMA RuleResultType ==
    ASSUME NEW id \in Ids, NEW m \in Messages
    PROVE  /\ RuleResult(id, m) \in Results
           /\ RuleResult(id, m).id = id
<1> DEFINE e == Evaluate(m)
           category == CategoryOf(Features(m), Text(m))
<1>1. e \in Evaluations
  BY EvaluateType
<1>2. category \in MessageCategory
  BY CategoryType
<1>3. FutureDeadline(m) \in Nat \cup {None}
  BY FutureDeadlineType
<1>4. RuleConfidence(e.requires_review) \in 0 .. 100
  BY DEF RuleConfidence
<1> HIDE DEF e, category
<1>5. RuleResult(id, m) =
        [ id |-> id, priority |-> e.suggested_priority, score |-> e.final_score,
          confidence |-> RuleConfidence(e.requires_review), category |-> category,
          deadline |-> FutureDeadline(m), requires_review |-> e.requires_review,
          source |-> "rule" ]
  BY DEF RuleResult, TriageResult, e, category
<1> QED BY <1>1, <1>2, <1>3, <1>4, <1>5 DEF Results, Evaluations

-----------------------------------------------------------------------------
(* The operators of fusion.                                                *)

LEMMA FusedPriorityType ==
    ASSUME NEW policy, NEW rule \in Priorities, NEW llm \in Priorities
    PROVE  /\ FusedPriority(policy, rule, llm) \in Priorities
           /\ FusedPriority(policy, rule, llm) \in {rule, llm}
           /\ "downgrade" \notin policy.on => FusedPriority(policy, rule, llm) <= rule
BY DEF FusedPriority, Upgrades, Downgrades, Priorities

LEMMA FusedDeadlineType ==
    ASSUME NEW rule \in Nat \cup {None}, NEW llm \in Nat \cup {None}
    PROVE  /\ FusedDeadline(rule, llm) \in Nat \cup {None}
           /\ rule # None => /\ FusedDeadline(rule, llm) \in Nat
                             /\ FusedDeadline(rule, llm) <= rule
<1>1. None \notin Int
  BY NoneAssumption
<1> QED BY <1>1 DEF FusedDeadline, Earlier

LEMMA FusedReviewType ==
    ASSUME NEW policy, NEW rule, NEW llm
    PROVE  FusedReview(policy, rule, llm) \in BOOLEAN
BY Zenon DEF FusedReview

(* The record that fusion makes, field by field.                           *)
LEMMA FuseFields ==
    ASSUME NEW policy, NEW rule \in Results, NEW llm \in Analyses,
           policy.mode # "sidecar_only"
    PROVE  LET r == Fuse(policy, rule, llm) IN
           /\ r = [ id |-> rule.id, priority |-> r.priority, score |-> rule.score,
                    confidence |-> r.confidence, category |-> r.category,
                    deadline |-> r.deadline, requires_review |-> r.requires_review,
                    source |-> "hybrid" ]
           /\ r.requires_review = FusedReview(policy, rule, llm)
           /\ r.confidence =
                 IF llm.confidence < rule.confidence THEN llm.confidence ELSE rule.confidence
           /\ \/ /\ ~Reliable(policy, llm)
                 /\ r.priority = rule.priority
                 /\ r.category = rule.category
                 /\ r.deadline = rule.deadline
              \/ /\ Reliable(policy, llm)
                 /\ r.priority = FusedPriority(policy, rule.priority, llm.priority)
                 /\ r.category = llm.category
                 /\ r.deadline = FusedDeadline(rule.deadline, llm.deadline)
<1> DEFINE review == FusedReview(policy, rule, llm)
           confidence ==
               IF llm.confidence < rule.confidence THEN llm.confidence ELSE rule.confidence
<1>1. CASE ~Reliable(policy, llm)
  <2>1. Fuse(policy, rule, llm) =
          [ id |-> rule.id, priority |-> rule.priority, score |-> rule.score,
            confidence |-> confidence, category |-> rule.category,
            deadline |-> rule.deadline, requires_review |-> review,
            source |-> "hybrid" ]
    BY <1>1 DEF Fuse, Results
  <2> HIDE DEF review, confidence
  <2> QED BY <1>1, <2>1 DEF review, confidence
<1>2. CASE Reliable(policy, llm)
  <2>1. Fuse(policy, rule, llm) =
          [ id |-> rule.id,
            priority |-> FusedPriority(policy, rule.priority, llm.priority),
            score |-> rule.score, confidence |-> confidence,
            category |-> llm.category,
            deadline |-> FusedDeadline(rule.deadline, llm.deadline),
            requires_review |-> review, source |-> "hybrid" ]
    BY <1>2 DEF Fuse, Results
  <2> HIDE DEF review, confidence
  <2> QED BY <1>2, <2>1 DEF review, confidence
<1> QED BY <1>1, <1>2

LEMMA FuseType ==
    ASSUME NEW policy, NEW rule \in Results, NEW llm \in Analyses
    PROVE  /\ Fuse(policy, rule, llm) \in Results
           /\ Fuse(policy, rule, llm).id = rule.id
<1>1. CASE policy.mode = "sidecar_only"
  BY <1>1 DEF Fuse
<1>2. CASE policy.mode # "sidecar_only"
  <2> DEFINE r == Fuse(policy, rule, llm)
  <2>1. /\ FusedPriority(policy, rule.priority, llm.priority) \in Priorities
        /\ FusedDeadline(rule.deadline, llm.deadline) \in Nat \cup {None}
        /\ FusedReview(policy, rule, llm) \in BOOLEAN
    BY FusedPriorityType, FusedDeadlineType, FusedReviewType DEF Results, Analyses
  <2>2. /\ r.priority \in Priorities
        /\ r.confidence \in 0 .. 100
        /\ r.category \in MessageCategory
        /\ r.deadline \in Nat \cup {None}
        /\ r.requires_review \in BOOLEAN
    BY <1>2, <2>1, FuseFields DEF Results, Analyses
  <2>3. r = [ id |-> rule.id, priority |-> r.priority, score |-> rule.score,
              confidence |-> r.confidence, category |-> r.category,
              deadline |-> r.deadline, requires_review |-> r.requires_review,
              source |-> "hybrid" ]
    BY <1>2, FuseFields
  <2> HIDE DEF r
  <2>4. r \in Results /\ r.id = rule.id
    BY <2>2, <2>3 DEF Results
  <2> QED BY <2>4 DEF r
<1> QED BY <1>1, <1>2

LEMMA RouteReasonsType ==
    \A policy, result, f :
        RouteReasons(policy, result, f)
            \subseteq RouteSwitches \cup {"full_evaluation", "low_confidence"}
BY DEF RouteReasons, RouteSwitches

-----------------------------------------------------------------------------
(* The type invariant, with what each step of a message may rely on.       *)

Pending == {"route", "ask", "fuse"}

Working ==
    /\ step = "rules" => at \in Ids
    /\ step \in Pending => /\ at \in Ids
                          /\ Current.valid
                          /\ successful # <<>>
                          /\ Last = RuleResult(at, Current)
    /\ step = "fuse" => at \in DOMAIN llm_analyses
    /\ step \in {"sort", "done"} => at = Count + 1

TypeInv == TriageTypeOK /\ Working

LEMMA CurrentType ==
    ASSUME TypeInv, at \in Ids
    PROVE  /\ Current \in Messages
           /\ RuleResult(at, Current) \in Results
           /\ RuleResult(at, Current).id = at
<1>1. Current \in Messages
  BY MailboxAssumption DEF TypeInv, TriageTypeOK, Current
<1> QED BY <1>1, RuleResultType

LEMMA NextMessageType ==
    ASSUME at \in Ids, NextMessage
    PROVE  /\ at' = at + 1
           /\ at' \in 1 .. Count + 1
           /\ step' \in {"rules", "sort"}
           /\ step' = "rules" => at' \in Ids
           /\ step' = "sort" => at' = Count + 1
BY CountAssumption DEF NextMessage, Ids

LEMMA WithType ==
    ASSUME NEW d, NEW id, NEW value
    PROVE  /\ DOMAIN With(d, id, value) = DOMAIN d \cup {id}
           /\ With(d, id, value)[id] = value
           /\ \A i \in DOMAIN d : i # id => With(d, id, value)[i] = d[i]
BY DEF With

(* Entries of one set keep a dictionary typed.                             *)
LEMMA WithTyped ==
    ASSUME NEW d, NEW V, DOMAIN d \subseteq Ids, \A i \in DOMAIN d : d[i] \in V,
           NEW id \in Ids, NEW value \in V
    PROVE  /\ DOMAIN With(d, id, value) \subseteq Ids
           /\ id \in DOMAIN With(d, id, value)
           /\ \A i \in DOMAIN With(d, id, value) : With(d, id, value)[i] \in V
BY DEF With

LEMMA InitType == Init => TypeInv
<1> SUFFICES ASSUME Init PROVE TypeInv
  OBVIOUS
<1>1. 1 \in 1 .. Count + 1 /\ (Count # 0 => 1 \in Ids)
  BY CountAssumption DEF Ids
<1>2. DOMAIN evaluations = {} /\ DOMAIN llm_analyses = {} /\ DOMAIN llm_routing = {}
  BY DEF Init
<1>3. TriageTypeOK
  <2>1. successful \in Seq([received : Nat, result : Results]) /\ results \in Seq(Results)
    BY DEF Init
  <2> QED BY <1>1, <1>2, <2>1 DEF Init, TriageTypeOK
<1>4. Working
  BY <1>1, CountAssumption DEF Init, Working, Pending
<1> QED BY <1>3, <1>4 DEF TypeInv

(* A failure of the LLM leaves everything but its own record.              *)
LEMMA LLMFailsType ==
    ASSUME TypeInv, step \in Pending,
           NEW stage \in {"llm_routing", "llm_analysis", "llm_fusion"},
           LLMFails(stage),
           UNCHANGED <<fixed, successful, evaluations, failures, sidecar, results>>
    PROVE  TypeInv'
<1>1. at \in Ids
  BY DEF TypeInv, Working
<1>2. NextMessage
  BY DEF LLMFails
<1>3. llm_failures' \subseteq Ids \X {"llm_routing", "llm_analysis", "llm_fusion"}
  BY <1>1 DEF LLMFails, TypeInv, TriageTypeOK
<1>4. llm_stopped' \in BOOLEAN
  BY Zenon DEF LLMFails
<1> QED BY <1>1, <1>2, <1>3, <1>4, NextMessageType
        DEF TypeInv, TriageTypeOK, Working, Pending, fixed, sidecar

LEMMA StepType == TypeInv /\ [Next]_vars => TypeInv'
<1> SUFFICES ASSUME TypeInv, [Next]_vars PROVE TypeInv'
  OBVIOUS
<1> USE DEF fixed, sidecar
<1>1. CASE RulesFail
  BY <1>1, NextMessageType DEF RulesFail, TypeInv, TriageTypeOK, Working, Pending
<1>2. CASE ApplyRules
  <2> DEFINE entry == [received |-> Current.received, result |-> RuleResult(at, Current)]
  <2>1. at \in Ids /\ Current.valid
    BY <1>2 DEF ApplyRules, TypeInv, Working
  <2>2. entry \in [received : Nat, result : Results]
    BY <2>1, CurrentType DEF Messages
  <2>3. /\ successful' = Append(successful, entry)
        /\ evaluations' = With(evaluations, at, Evaluate(Current))
    BY <1>2 DEF ApplyRules
  <2> HIDE DEF entry
  <2>4. /\ successful' \in Seq([received : Nat, result : Results])
        /\ successful' # <<>>
        /\ successful'[Len(successful')] = entry
    BY <2>2, <2>3 DEF TypeInv, TriageTypeOK
  <2>5. Last' = RuleResult(at, Current)
    BY <2>4 DEF Last, entry
  <2>6. /\ DOMAIN evaluations' \subseteq Ids
        /\ \A i \in DOMAIN evaluations' : evaluations'[i] \in Evaluations
    <3>1. Evaluate(Current) \in Evaluations
      BY EvaluateType
    <3>2. /\ DOMAIN evaluations \subseteq Ids
          /\ \A i \in DOMAIN evaluations : evaluations[i] \in Evaluations
      BY DEF TypeInv, TriageTypeOK
    <3> QED BY <2>1, <2>3, <3>1, <3>2, WithTyped
  <2>7. CASE step' = "route" /\ UNCHANGED at
    BY <1>2, <2>1, <2>4, <2>5, <2>6, <2>7
       DEF ApplyRules, TypeInv, TriageTypeOK, Working, Pending, Current
  <2>8. CASE NextMessage
    BY <1>2, <2>1, <2>4, <2>6, <2>8, NextMessageType
       DEF ApplyRules, TypeInv, TriageTypeOK, Working, Pending
  <2> QED BY <1>2, <2>7, <2>8 DEF ApplyRules
<1>3. CASE Route
  <2> DEFINE reasons == RouteReasons(options.routing, Last, Features(Current))
  <2>1. at \in Ids
    BY <1>3 DEF Route, TypeInv, Working, Pending
  <2>2. llm_routing' = With(llm_routing, at, reasons)
    BY <1>3 DEF Route
  <2>3. reasons \subseteq RouteSwitches \cup {"full_evaluation", "low_confidence"}
    BY RouteReasonsType
  <2> HIDE DEF reasons
  <2>4. /\ DOMAIN llm_routing' \subseteq Ids
        /\ \A i \in DOMAIN llm_routing' : llm_routing'[i] \subseteq
              RouteSwitches \cup {"full_evaluation", "low_confidence"}
    <3> DEFINE V == SUBSET (RouteSwitches \cup {"full_evaluation", "low_confidence"})
    <3>1. /\ DOMAIN llm_routing \subseteq Ids
          /\ \A i \in DOMAIN llm_routing : llm_routing[i] \in V
      BY DEF TypeInv, TriageTypeOK
    <3>2. reasons \in V
      BY <2>3
    <3> HIDE DEF V
    <3>3. /\ DOMAIN llm_routing' \subseteq Ids
          /\ \A i \in DOMAIN llm_routing' : llm_routing'[i] \in V
      BY <2>1, <2>2, <3>1, <3>2, WithTyped
    <3> QED BY <3>3 DEF V
  <2>5. CASE step' = "ask" /\ UNCHANGED at
    BY <1>3, <2>1, <2>4, <2>5
       DEF Route, TypeInv, TriageTypeOK, Working, Pending, Current, Last
  <2>6. CASE NextMessage
    BY <1>3, <2>1, <2>4, <2>6, NextMessageType
       DEF Route, TypeInv, TriageTypeOK, Working, Pending
  <2> QED BY <1>3, <2>5, <2>6 DEF Route
<1>4. CASE RouteFails
  BY <1>4, LLMFailsType DEF RouteFails, Pending
<1>5. CASE Ask
  <2>1. at \in Ids
    BY <1>5 DEF Ask, TypeInv, Working, Pending
  <2>2. PICK reply \in Answers : llm_analyses' = With(llm_analyses, at, reply.analysis)
    BY <1>5 DEF Ask
  <2>3. reply.analysis \in Analyses
    BY AnswersAssumption DEF Replies
  <2>4. /\ DOMAIN llm_analyses' \subseteq Ids
        /\ at \in DOMAIN llm_analyses'
        /\ \A i \in DOMAIN llm_analyses' : llm_analyses'[i] \in Analyses
    <3>1. /\ DOMAIN llm_analyses \subseteq Ids
          /\ \A i \in DOMAIN llm_analyses : llm_analyses[i] \in Analyses
      BY DEF TypeInv, TriageTypeOK
    <3> QED BY <2>1, <2>2, <2>3, <3>1, WithTyped
  <2> QED BY <1>5, <2>1, <2>4
          DEF Ask, TypeInv, TriageTypeOK, Working, Pending, Current, Last
<1>6. CASE AskFails
  BY <1>6, LLMFailsType DEF AskFails, Pending
<1>7. CASE ApplyFusion
  <2>1. /\ at \in Ids /\ at \in DOMAIN llm_analyses /\ successful # <<>>
        /\ Last = RuleResult(at, Current)
    BY <1>7 DEF ApplyFusion, TypeInv, Working, Pending
  <2>2. Fused \in [received : Nat, result : Results]
    <3>1. Fuse(options.fusion, Last, llm_analyses[at]) \in Results
      BY <2>1, CurrentType, FuseType DEF TypeInv, TriageTypeOK
    <3>2. Current.received \in Nat
      BY <2>1, CurrentType DEF Messages
    <3> QED BY <3>1, <3>2 DEF Fused
  <2>3. successful' \in Seq([received : Nat, result : Results])
    BY <1>7, <2>1, <2>2 DEF ApplyFusion, TypeInv, TriageTypeOK
  <2> QED BY <1>7, <2>1, <2>3, NextMessageType
          DEF ApplyFusion, TypeInv, TriageTypeOK, Working, Pending
<1>8. CASE FusionFails
  BY <1>8, LLMFailsType DEF FusionFails, Pending
<1>9. CASE Report
  <2>1. PICK order \in Orders :
          results' = [i \in DOMAIN successful |-> successful[order[i]].result]
    BY <1>9 DEF Report
  <2>2. \A i \in DOMAIN successful : successful[order[i]].result \in Results
    <3>1. successful \in Seq([received : Nat, result : Results])
      BY DEF TypeInv, TriageTypeOK
    <3>2. \A i \in DOMAIN successful : order[i] \in DOMAIN successful
      BY <2>1 DEF Orders
    <3>3. \A i \in DOMAIN successful : successful[i].result \in Results
      <4> DEFINE E == [received : Nat, result : Results]
      <4>1. \A e \in E : e.result \in Results
        OBVIOUS
      <4>2. successful \in Seq(E)
        BY <3>1
      <4> HIDE DEF E
      <4>3. \A i \in DOMAIN successful : successful[i] \in E
        BY <4>2
      <4> QED BY <4>1, <4>3
    <3> QED BY <3>2, <3>3
  <2>3. results' \in Seq(Results)
    BY <2>1, <2>2 DEF TypeInv, TriageTypeOK
  <2> QED BY <1>9, <2>3 DEF Report, TypeInv, TriageTypeOK, Working, Pending
<1>10. CASE UNCHANGED vars
  BY <1>10 DEF vars, TypeInv, TriageTypeOK, Working, Pending, Current, Last
<1> QED
  BY <1>1, <1>2, <1>3, <1>4, <1>5, <1>6, <1>7, <1>8, <1>9, <1>10 DEF Next

LEMMA TypeInvariant == Spec => []TypeInv
BY InitType, StepType, PTL DEF Spec

(* Every run of the pipeline stays within its types: scores are clamped,   *)
(* categories come from the taxonomy and each record is about a message    *)
(* (rule_engine.py evaluate, pipeline.py analyze_dataset).                 *)
THEOREM TriageTypeInvariant == Spec => []TriageTypeOK
<1>1. TypeInv => TriageTypeOK
  BY DEF TypeInv
<1> QED BY <1>1, TypeInvariant, PTL

-----------------------------------------------------------------------------
(* Where each result comes from: the rules, or one answer fused into them. *)

Rule(id) == RuleResult(id, dataset[id])

Sourced(r) ==
    /\ r.id \in Ids
    /\ \/ r = Rule(r.id)
       \/ /\ r.id \in llm_fused
          /\ \E llm \in Analyses : r = Fuse(options.fusion, Rule(r.id), llm)

Provenance ==
    /\ \A i \in DOMAIN successful : Sourced(successful[i].result)
    /\ \A i \in DOMAIN evaluations : evaluations[i] = Evaluate(dataset[i])

LEMMA RuleType ==
    ASSUME TypeInv, NEW id \in Ids
    PROVE  Rule(id) \in Results /\ Rule(id).id = id
<1>1. dataset[id] \in Messages
  BY MailboxAssumption DEF TypeInv, TriageTypeOK
<1> QED BY <1>1, RuleResultType DEF Rule

(* What a step leaves alone keeps its source.                              *)
LEMMA SourceKept ==
    ASSUME Provenance, UNCHANGED fixed, llm_fused \subseteq llm_fused',
           NEW i \in DOMAIN successful, successful'[i] = successful[i]
    PROVE  Sourced(successful[i].result)'
BY DEF Provenance, Sourced, Rule, fixed

LEMMA ProvenanceStep == TypeInv /\ Provenance /\ [Next]_vars => Provenance'
<1> SUFFICES ASSUME TypeInv, Provenance, [Next]_vars PROVE Provenance'
  OBVIOUS
<1> DEFINE Entries == [received : Nat, result : Results]
<1>t. successful \in Seq(Entries)
  BY DEF TypeInv, TriageTypeOK
<1> HIDE DEF Entries
<1>f. UNCHANGED fixed
  BY DEF Next, RulesFail, ApplyRules, Route, RouteFails, Ask, AskFails,
         ApplyFusion, FusionFails, Report, vars, fixed
<1>1. CASE ApplyRules
  <2> DEFINE entry == [received |-> Current.received, result |-> RuleResult(at, Current)]
  <2>1. /\ at \in Ids
        /\ successful' = Append(successful, entry)
        /\ evaluations' = With(evaluations, at, Evaluate(Current))
        /\ UNCHANGED llm_fused
    BY <1>1 DEF ApplyRules, TypeInv, Working, sidecar
  <2>2. entry.result = RuleResult(at, dataset[at]) /\ entry.result.id = at
    BY <2>1, CurrentType DEF Current
  <2> HIDE DEF entry
  <2>3. ASSUME NEW i \in DOMAIN successful'
        PROVE  Sourced(successful[i].result)'
    <3>1. CASE i \in DOMAIN successful
      BY <1>f, <1>t, <2>1, <3>1, SourceKept
    <3>2. CASE i \notin DOMAIN successful
      <4>1. successful'[i] = entry
        BY <1>t, <2>1, <2>3, <3>2
      <4> QED BY <1>f, <2>1, <2>2, <4>1 DEF Sourced, Rule, fixed
    <3> QED BY <3>1, <3>2
  <2>4. \A i \in DOMAIN evaluations' : evaluations'[i] = Evaluate(dataset'[i])
    BY <1>f, <2>1 DEF Provenance, With, Current, fixed
  <2> QED BY <2>3, <2>4 DEF Provenance
<1>2. CASE ApplyFusion
  <2> DEFINE n == Len(successful)
  <2>1. /\ at \in Ids /\ at \in DOMAIN llm_analyses /\ n \in DOMAIN successful
        /\ Last = Rule(at)
        /\ successful' = [successful EXCEPT ![n] = Fused]
        /\ llm_fused' = llm_fused \cup {at}
        /\ UNCHANGED evaluations
    BY <1>2, <1>t DEF ApplyFusion, TypeInv, Working, Pending, Rule, Current
  <2>2. llm_analyses[at] \in Analyses
    BY <2>1 DEF TypeInv, TriageTypeOK
  <2>3. /\ Fused.result = Fuse(options.fusion, Rule(at), llm_analyses[at])
        /\ Fused.result.id = at
    BY <2>1, <2>2, RuleType, FuseType DEF Fused
  <2>4. ASSUME NEW i \in DOMAIN successful'
        PROVE  Sourced(successful[i].result)'
    <3>1. CASE i # n
      BY <1>f, <2>1, <2>4, <3>1, SourceKept
    <3>2. CASE i = n
      <4>1. successful'[i] = Fused
        BY <2>1, <3>2
      <4> QED BY <1>f, <2>1, <2>2, <2>3, <4>1 DEF Sourced, Rule, fixed
    <3> QED BY <3>1, <3>2
  <2> QED BY <1>f, <2>1, <2>4 DEF Provenance, fixed
<1>3. CASE UNCHANGED <<successful, evaluations, llm_fused>>
  BY <1>3, <1>f DEF Provenance, Sourced, Rule, fixed
<1> QED
  BY <1>1, <1>2, <1>3 DEF Next, RulesFail, Route, RouteFails, Ask, AskFails,
     FusionFails, Report, vars, sidecar

LEMMA ProvenanceInvariant == Spec => [](TypeInv /\ Provenance)
<1>1. Init => Provenance
  BY DEF Init, Provenance
<1> QED BY <1>1, InitType, StepType, ProvenanceStep, PTL DEF Spec

(* A final result with the rules' one it goes back to.                     *)
LEMMA FinalSource ==
    ASSUME TypeInv, Provenance, NEW r \in Final
    PROVE  /\ r.id \in Ids
           /\ RuleResult(r.id, dataset[r.id]) = Rule(r.id)
           /\ Rule(r.id) \in Results
           /\ \/ r = Rule(r.id)
              \/ \E llm \in Analyses : r = Fuse(options.fusion, Rule(r.id), llm)
<1>1. r.id \in Ids
  BY DEF Final, Provenance, Sourced
<1> QED BY <1>1, RuleType DEF Final, Provenance, Sourced, Rule

-----------------------------------------------------------------------------
(* With downgrades off, no answer of the LLM makes a message less urgent   *)
(* than its rules did, and none postpones or removes their deadline        *)
(* (llm/fusion.py fuse).                                                   *)
THEOREM FloorInvariant == Spec => []RulesAreAFloor
<1>1. ASSUME TypeInv, Provenance PROVE RulesAreAFloor
  <2> SUFFICES ASSUME NEW r \in Final
               PROVE  LET rule == Rule(r.id) IN
                 /\ "downgrade" \notin options.fusion.on => r.priority <= rule.priority
                 /\ rule.deadline # None => r.deadline # None /\ r.deadline <= rule.deadline
    BY <1>1, FinalSource DEF RulesAreAFloor
  <2> DEFINE rule == Rule(r.id)
  <2>1. /\ rule \in Results
        /\ \/ r = rule
           \/ \E llm \in Analyses : r = Fuse(options.fusion, rule, llm)
    BY <1>1, FinalSource
  <2> HIDE DEF rule
  <2>2. None \notin Int
    BY NoneAssumption
  <2>3. CASE r = rule
    BY <2>1, <2>2, <2>3 DEF Results, Priorities, rule
  <2>4. ASSUME NEW llm \in Analyses, r = Fuse(options.fusion, rule, llm),
               options.fusion.mode # "sidecar_only"
        PROVE  /\ "downgrade" \notin options.fusion.on => r.priority <= rule.priority
               /\ rule.deadline # None => r.deadline # None /\ r.deadline <= rule.deadline
    <3>1. /\ rule.priority \in Priorities /\ llm.priority \in Priorities
          /\ rule.deadline \in Nat \cup {None} /\ llm.deadline \in Nat \cup {None}
      BY <2>1 DEF Results, Analyses
    <3>2. \/ r.priority = rule.priority /\ r.deadline = rule.deadline
          \/ /\ r.priority = FusedPriority(options.fusion, rule.priority, llm.priority)
             /\ r.deadline = FusedDeadline(rule.deadline, llm.deadline)
      BY <2>1, <2>4, FuseFields
    <3>3. FusedPriority(options.fusion, rule.priority, llm.priority) <= rule.priority
          \/ "downgrade" \in options.fusion.on
      BY <3>1, FusedPriorityType
    <3>4. rule.deadline # None =>
            /\ FusedDeadline(rule.deadline, llm.deadline) \in Nat
            /\ FusedDeadline(rule.deadline, llm.deadline) <= rule.deadline
      BY <3>1, FusedDeadlineType
    <3> QED BY <2>2, <3>1, <3>2, <3>3, <3>4 DEF Priorities
  <2>5. options.fusion.mode = "sidecar_only" =>
            \A llm \in Analyses : Fuse(options.fusion, rule, llm) = rule
    BY DEF Fuse
  <2> QED BY <2>1, <2>3, <2>4, <2>5 DEF rule
<1> QED BY <1>1, ProvenanceInvariant, PTL

LEMMA NotReviewed ==
    ASSUME NEW policy, NEW rule, NEW llm, ~FusedReview(policy, rule, llm)
    PROVE  /\ ~rule.requires_review
           /\ Reliable(policy, llm)
           /\ "review_priority" \in policy.on => rule.priority = llm.priority
           /\ "review_deadline" \in policy.on =>
                 ~DeadlineConflict(policy, rule.deadline, llm.deadline)
BY DEF FusedReview

(* What fusion leaves unreviewed agrees with the rules.                    *)
LEMMA UnreviewedAgrees ==
    ASSUME NEW policy \in FusionPolicies, NEW rule \in Results, NEW llm \in Analyses,
           NEW r, r = Fuse(policy, rule, llm), policy.mode # "sidecar_only",
           {"review_priority", "review_deadline"} \subseteq policy.on,
           ~r.requires_review
    PROVE  /\ r.priority = rule.priority
           /\ r.confidence >= policy.minimum \/ r.confidence = rule.confidence
           /\ rule.deadline # None => rule.deadline - r.deadline <= policy.tolerance
<1>1. r.requires_review = FusedReview(policy, rule, llm)
  BY FuseFields
<1>2. ~FusedReview(policy, rule, llm)
  BY <1>1
<1>3. /\ Reliable(policy, llm)
      /\ rule.priority = llm.priority
      /\ ~DeadlineConflict(policy, rule.deadline, llm.deadline)
  BY <1>2, NotReviewed
<1>4. /\ r.priority = FusedPriority(policy, rule.priority, llm.priority)
      /\ r.deadline = FusedDeadline(rule.deadline, llm.deadline)
      /\ r.confidence =
            IF llm.confidence < rule.confidence THEN llm.confidence ELSE rule.confidence
  BY <1>3, FuseFields
<1>5. r.priority = rule.priority
  BY <1>3, <1>4 DEF FusedPriority
<1>6. r.confidence >= policy.minimum \/ r.confidence = rule.confidence
  BY <1>3, <1>4 DEF Reliable
<1>7. ASSUME rule.deadline # None
      PROVE  rule.deadline - r.deadline <= policy.tolerance
  <2>1. /\ rule.deadline \in Nat /\ llm.deadline \in Nat \cup {None}
        /\ policy.tolerance \in Nat
    BY <1>7 DEF Results, Analyses, FusionPolicies
  <2> QED BY <1>3, <1>4, <1>7, <2>1, NoneAssumption
          DEF FusedDeadline, Earlier, DeadlineConflict, Distance
<1> QED BY <1>5, <1>6, <1>7

(* With its review switches on, what departs from the rules is reviewed by *)
(* a person, and a review the rules asked for is never waived (llm/fusion.py *)
(* fuse).                                                                  *)
THEOREM DeparturesInvariant == Spec => []DeparturesAreReviewed
<1>1. ASSUME TypeInv, Provenance PROVE DeparturesAreReviewed
  <2> SUFFICES ASSUME NEW r \in Final
               PROVE  LET rule == Rule(r.id) IN
                 /\ rule.requires_review => r.requires_review
                 /\ r.source = "hybrid"
                    /\ {"review_priority", "review_deadline"} \subseteq options.fusion.on
                    /\ ~r.requires_review =>
                       /\ r.priority = rule.priority
                       /\ r.confidence >= options.fusion.minimum
                          \/ r.confidence = rule.confidence
                       /\ rule.deadline # None =>
                             rule.deadline - r.deadline <= options.fusion.tolerance
    BY <1>1, FinalSource DEF DeparturesAreReviewed
  <2> DEFINE rule == Rule(r.id)
  <2>1. /\ rule \in Results
        /\ \/ r = rule
           \/ \E llm \in Analyses : r = Fuse(options.fusion, rule, llm)
    BY <1>1, FinalSource
  <2>2. rule.source = "rule"
    BY DEF Rule, RuleResult, TriageResult
  <2>3. options.fusion \in FusionPolicies
    BY <1>1, OptionsAssumption DEF TypeInv, TriageTypeOK
  <2> HIDE DEF rule
  <2>4. CASE r = rule
    BY <2>2, <2>4 DEF rule
  <2>5. ASSUME NEW llm \in Analyses, r = Fuse(options.fusion, rule, llm),
               options.fusion.mode # "sidecar_only"
        PROVE  /\ rule.requires_review => r.requires_review
               /\ {"review_priority", "review_deadline"} \subseteq options.fusion.on
                  /\ ~r.requires_review =>
                     /\ r.priority = rule.priority
                     /\ r.confidence >= options.fusion.minimum
                        \/ r.confidence = rule.confidence
                     /\ rule.deadline # None =>
                           rule.deadline - r.deadline <= options.fusion.tolerance
    <3>1. r.requires_review = FusedReview(options.fusion, rule, llm)
      BY <2>1, <2>5, FuseFields
    <3>2. rule.requires_review => FusedReview(options.fusion, rule, llm)
      BY DEF FusedReview
    <3> QED BY <2>1, <2>3, <2>5, <3>1, <3>2, UnreviewedAgrees
  <2>6. options.fusion.mode = "sidecar_only" =>
            \A llm \in Analyses : Fuse(options.fusion, rule, llm) = rule
    BY DEF Fuse
  <2> QED BY <2>1, <2>4, <2>5, <2>6 DEF rule
<1> QED BY <1>1, ProvenanceInvariant, PTL

(* The review margin covers every score at most the margin away that would *)
(* have another priority, for every order of the thresholds and however    *)
(* the score was clamped (rule_engine.py evaluate).                        *)
THEOREM MarginInvariant == Spec => []MarginCoversFlips
<1>1. ASSUME TypeInv, Provenance PROVE MarginCoversFlips
  <2> SUFFICES ASSUME NEW i \in DOMAIN evaluations, NEW score \in 0 .. 100,
                      score - evaluations[i].final_score \in -ReviewMargin .. ReviewMargin,
                      PriorityForScore(score) # evaluations[i].suggested_priority
               PROVE  evaluations[i].requires_review
    BY DEF MarginCoversFlips
  <2>1. evaluations[i] = Evaluate(dataset[i])
    BY <1>1 DEF Provenance
  <2> DEFINE e == Evaluate(dataset[i])
  <2>2. /\ e.final_score \in 0 .. 100
        /\ e.suggested_priority = PriorityForScore(e.final_score)
        /\ NearThreshold(e.final_score) => e.requires_review
    BY EvaluateType DEF Evaluations
  <2> HIDE DEF e
  <2>3. NearThreshold(e.final_score)
    BY <2>1, <2>2, FlipIsNear DEF e
  <2> QED BY <2>1, <2>2, <2>3 DEF e
<1> QED BY <1>1, ProvenanceInvariant, PTL

-----------------------------------------------------------------------------
(* The account of the messages: those done so far have one result each, in *)
(* their order, or a failure; what the LLM was asked, gave and failed at   *)
(* are about them, and a stop ends the asking.                             *)

Done == 1 .. (IF step \in Pending THEN at ELSE at - 1)

IdAt(i) == successful[i].result.id

Account ==
    /\ \A i \in DOMAIN successful : IdAt(i) \in Done
    /\ \A i, j \in DOMAIN successful : i < j => IdAt(i) < IdAt(j)
    /\ \A id \in Done : IF dataset[id].valid
                       THEN \E i \in DOMAIN successful : IdAt(i) = id
                       ELSE id \in failures

Asked == DOMAIN llm_routing \cup DOMAIN llm_analyses

Stops ==
    /\ Asked \subseteq Done
    /\ \A id \in DOMAIN llm_analyses : llm_analyses[id].id = id
    /\ \A id \in llm_fused : id < at
    /\ \A f \in llm_failures : f[1] < at /\ f[1] \notin llm_fused
    /\ options.stop_on_failure /\ llm_failures # {} => llm_stopped
    /\ llm_stopped => step \notin Pending
    /\ options.stop_on_failure =>
          \A f \in llm_failures : \A id \in Asked : id <= f[1]

(* The step after a message: what was done, with that message.             *)
LEMMA NextDone ==
    ASSUME TypeInv, at \in Ids, NextMessage
    PROVE  /\ Done' = 1 .. at
           /\ step' \notin Pending
           /\ step = "rules" => Done = 1 .. (at - 1)
           /\ step \in Pending => Done' = Done
           /\ at \in Nat /\ at' = at + 1
BY CountAssumption, NextMessageType DEF Done, Pending, Ids

LEMMA AccountStep == TypeInv /\ Account /\ [Next]_vars => Account'
<1> SUFFICES ASSUME TypeInv, Account, [Next]_vars PROVE Account'
  OBVIOUS
<1> DEFINE Entries == [received : Nat, result : Results]
<1>t. successful \in Seq(Entries)
  BY DEF TypeInv, TriageTypeOK
<1> HIDE DEF Entries
<1>f. UNCHANGED fixed
  BY DEF Next, RulesFail, ApplyRules, Route, RouteFails, Ask, AskFails,
         ApplyFusion, FusionFails, Report, vars, fixed
<1>1. CASE RulesFail
  <2>1. at \in Ids /\ NextMessage /\ step = "rules" /\ ~dataset[at].valid
    BY <1>1 DEF RulesFail, TypeInv, Working, Current
  <2>2. Done = 1 .. (at - 1) /\ Done' = 1 .. at /\ at \in Nat
    BY <2>1, NextDone
  <2>3. UNCHANGED successful /\ failures' = failures \cup {at}
    BY <1>1 DEF RulesFail
  <2> QED BY <1>f, <2>1, <2>2, <2>3 DEF Account, IdAt, fixed
<1>2. CASE ApplyRules
  <2> DEFINE entry == [received |-> Current.received, result |-> RuleResult(at, Current)]
  <2>1. /\ at \in Ids /\ at \in Nat /\ step = "rules" /\ dataset[at].valid
        /\ successful' = Append(successful, entry) /\ UNCHANGED failures
    BY <1>2, CountAssumption DEF ApplyRules, TypeInv, Working, Current, Ids
  <2>2. entry.result.id = at
    BY <2>1, CurrentType
  <2> HIDE DEF entry
  <2>3. Done = 1 .. (at - 1) /\ Done' = 1 .. at
    <3>1. CASE NextMessage
      BY <2>1, <3>1, NextDone
    <3>2. CASE step' = "route" /\ UNCHANGED at
      BY <2>1, <3>2 DEF Done, Pending
    <3> QED BY <1>2, <3>1, <3>2 DEF ApplyRules
  <2>n. PICK n \in Nat : n = Len(successful)
    BY <1>t
  <2>4. /\ DOMAIN successful = 1 .. n
        /\ DOMAIN successful' = 1 .. (n + 1)
        /\ \A i \in 1 .. n : IdAt(i)' = IdAt(i)
        /\ IdAt(n + 1)' = at
    <3>1. /\ DOMAIN successful = 1 .. n
          /\ DOMAIN successful' = 1 .. (n + 1)
          /\ \A i \in 1 .. n : successful'[i] = successful[i]
          /\ successful'[n + 1] = entry
      BY <1>t, <2>1, <2>n
    <3> QED BY <2>2, <3>1 DEF IdAt
  <2>5. \A i \in DOMAIN successful' : IdAt(i)' \in Done'
    <3> SUFFICES ASSUME NEW i \in 1 .. (n + 1) PROVE IdAt(i)' \in 1 .. at
      BY <2>3, <2>4
    <3>1. CASE i = n + 1
      BY <2>1, <2>4, <3>1 DEF Ids
    <3>2. CASE i # n + 1
      <4>1. i \in 1 .. n
        BY <3>2
      <4> QED BY <2>1, <2>3, <2>4, <4>1 DEF Account
    <3> QED BY <3>1, <3>2
  <2>6. \A i, j \in DOMAIN successful' : i < j => IdAt(i)' < IdAt(j)'
    <3> SUFFICES ASSUME NEW i \in 1 .. (n + 1), NEW j \in 1 .. (n + 1), i < j
                 PROVE  IdAt(i)' < IdAt(j)'
      BY <2>4
    <3>1. i \in 1 .. n /\ IdAt(i) \in 1 .. (at - 1)
      BY <2>3, <2>4 DEF Account
    <3>2. CASE j = n + 1
      BY <2>1, <2>4, <3>1, <3>2
    <3>3. CASE j # n + 1
      <4>1. j \in 1 .. n
        BY <3>3
      <4> QED BY <2>4, <3>1, <4>1 DEF Account
    <3> QED BY <3>2, <3>3
  <2>7. \A id \in Done' : IF dataset'[id].valid
                        THEN \E i \in DOMAIN successful' : IdAt(i)' = id
                        ELSE id \in failures'
    <3> SUFFICES ASSUME NEW id \in Done'
                 PROVE  IF dataset[id].valid
                        THEN \E i \in DOMAIN successful' : IdAt(i)' = id
                        ELSE id \in failures
      BY <1>f, <2>1 DEF fixed
    <3>1. CASE id = at
      <4>1. n + 1 \in DOMAIN successful'
        BY <2>4
      <4> QED BY <2>1, <2>4, <3>1, <4>1
    <3>2. CASE id # at
      <4>1. id \in Done /\ DOMAIN successful \subseteq DOMAIN successful'
        BY <2>1, <2>3, <2>4, <3>2
      <4> QED BY <2>4, <4>1 DEF Account
    <3> QED BY <3>1, <3>2
  <2> QED BY <2>5, <2>6, <2>7 DEF Account
<1>3. CASE ApplyFusion
  <2> DEFINE n == Len(successful)
  <2>1. /\ at \in Ids /\ at \in DOMAIN llm_analyses /\ n \in DOMAIN successful
        /\ Last = Rule(at) /\ step \in Pending /\ NextMessage
        /\ successful' = [successful EXCEPT ![n] = Fused] /\ UNCHANGED failures
    BY <1>3, <1>t DEF ApplyFusion, TypeInv, Working, Pending, Rule, Current
  <2>2. llm_analyses[at] \in Analyses
    BY <2>1 DEF TypeInv, TriageTypeOK
  <2>3. Fused.result.id = at /\ IdAt(n) = at
    BY <2>1, <2>2, RuleType, FuseType DEF Fused, Last, IdAt
  <2>4. DOMAIN successful' = DOMAIN successful /\ \A i \in DOMAIN successful : IdAt(i)' = IdAt(i)
    BY <2>1, <2>3 DEF IdAt
  <2>5. Done' = Done
    BY <2>1, NextDone
  <2> QED BY <1>f, <2>1, <2>4, <2>5 DEF Account, fixed
<1>4. CASE /\ step \in Pending /\ at \in Ids /\ UNCHANGED <<successful, failures>>
           /\ NextMessage \/ (step' \in Pending /\ UNCHANGED at)
  <2>1. Done' = Done
    BY <1>4, NextDone DEF Done
  <2> QED BY <1>f, <1>4, <2>1 DEF Account, IdAt, fixed
<1>5. CASE Report \/ UNCHANGED vars
  <2>1. Done' = Done /\ UNCHANGED <<successful, failures>>
    BY <1>5 DEF Report, vars, Done, Pending
  <2> QED BY <1>f, <2>1 DEF Account, IdAt, fixed
<1>6. CASE Route \/ RouteFails \/ Ask \/ AskFails \/ FusionFails
  BY <1>4, <1>6 DEF Route, RouteFails, Ask, AskFails, FusionFails, LLMFails,
     TypeInv, Working, Pending
<1> QED BY <1>1, <1>2, <1>3, <1>5, <1>6 DEF Next

(* A failure of the LLM is about the message at hand.                      *)
LEMMA LLMFailsStops ==
    ASSUME TypeInv, Stops, step \in Pending, NEW stage, LLMFails(stage),
           UNCHANGED fixed, UNCHANGED sidecar
    PROVE  Stops'
<1>1. at \in Ids /\ at \in Nat
  BY CountAssumption DEF TypeInv, Working, Ids
<1>2. NextMessage /\ llm_failures' = llm_failures \cup {<<at, stage>>}
  BY DEF LLMFails
<1>3. Done = 1 .. at /\ Done' = 1 .. at /\ step' \notin Pending /\ at' = at + 1
  BY <1>1, <1>2, NextDone DEF Done
<1>4. Asked' = Asked /\ UNCHANGED <<options, llm_analyses, llm_fused>>
  BY DEF Asked, sidecar, fixed
<1>5. options.stop_on_failure => llm_failures = {} /\ llm_stopped'
  BY DEF Stops, LLMFails
<1>6. \A f \in llm_failures' : f[1] < at' /\ f[1] \notin llm_fused
  <2>1. \A f \in llm_failures : f[1] \in Nat
    BY CountAssumption DEF TypeInv, TriageTypeOK, Ids
  <2>2. at \notin llm_fused
    BY <1>1 DEF Stops
  <2> QED BY <1>1, <1>2, <1>3, <2>1, <2>2 DEF Stops
<1>7. \A id \in llm_fused : id < at'
  <2>1. \A id \in llm_fused : id \in Nat
    BY CountAssumption DEF TypeInv, TriageTypeOK, Ids
  <2> QED BY <1>1, <1>3, <2>1 DEF Stops
<1>8. options.stop_on_failure =>
        \A f \in llm_failures' : \A id \in Asked : id <= f[1]
  BY <1>1, <1>2, <1>3, <1>5 DEF Stops
<1> QED BY <1>3, <1>4, <1>5, <1>6, <1>7, <1>8 DEF Stops

LEMMA StopsStep == TypeInv /\ Stops /\ [Next]_vars => Stops'
<1> SUFFICES ASSUME TypeInv, Stops, [Next]_vars PROVE Stops'
  OBVIOUS
<1>f. UNCHANGED fixed
  BY DEF Next, RulesFail, ApplyRules, Route, RouteFails, Ask, AskFails,
         ApplyFusion, FusionFails, Report, vars, fixed
<1>n. /\ \A f \in llm_failures : f[1] \in Nat
      /\ \A id \in llm_fused : id \in Nat
      /\ at \in Nat
  BY CountAssumption DEF TypeInv, TriageTypeOK, Ids
<1>1. CASE RulesFail \/ ApplyRules
  <2>1. /\ step = "rules" /\ at \in Ids
        /\ UNCHANGED <<llm_analyses, llm_routing, llm_fused, llm_failures, llm_stopped>>
    BY <1>1 DEF RulesFail, ApplyRules, TypeInv, Working, sidecar
  <2>2. NextMessage \/ (step' = "route" /\ UNCHANGED at /\ ~llm_stopped)
    BY <1>1 DEF RulesFail, ApplyRules
  <2>3. Done = 1 .. (at - 1) /\ Done' = 1 .. at /\ at' \in {at, at + 1}
        /\ (llm_stopped' => step' \notin Pending)
    BY <1>n, <2>1, <2>2, NextDone DEF Done, Pending
  <2>4. Asked' = Asked /\ Asked \subseteq Done'
    BY <1>n, <2>1, <2>3 DEF Asked, Stops
  <2> QED BY <1>f, <1>n, <2>1, <2>3, <2>4 DEF Stops, fixed
<1>2. CASE Route
  <2>1. /\ step \in Pending /\ at \in Ids
        /\ DOMAIN llm_routing' = DOMAIN llm_routing \cup {at}
        /\ UNCHANGED <<llm_analyses, llm_fused, llm_failures, llm_stopped>>
        /\ NextMessage \/ (step' \in Pending /\ UNCHANGED at)
    <3>1. \A d, value : DOMAIN With(d, at, value) = DOMAIN d \cup {at}
      BY DEF With
    <3>2. DOMAIN llm_routing' = DOMAIN llm_routing \cup {at}
      BY <1>2, <3>1 DEF Route
    <3> QED BY <1>2, <3>2 DEF Route, TypeInv, Working, Pending
  <2>2. Done = 1 .. at /\ Done' = Done /\ at' \in {at, at + 1}
    BY <1>n, <2>1, NextDone DEF Done
  <2>3. Asked' = Asked \cup {at} /\ at \in Done
    BY <1>n, <2>1, <2>2 DEF Asked, Ids
  <2>4. ~llm_stopped /\ (options.stop_on_failure => llm_failures = {})
    BY <2>1 DEF Stops
  <2> QED BY <1>f, <1>n, <2>1, <2>2, <2>3, <2>4 DEF Stops, fixed
<1>3. CASE Ask
  <2>1. PICK reply \in Answers :
          reply.analysis.id = at /\ llm_analyses' = With(llm_analyses, at, reply.analysis)
    BY <1>3 DEF Ask
  <2>2. /\ step \in Pending /\ at \in Ids /\ step' \in Pending
        /\ UNCHANGED <<at, llm_routing, llm_fused, llm_failures, llm_stopped>>
    BY <1>3 DEF Ask, TypeInv, Working, Pending
  <2>3. /\ DOMAIN llm_analyses' = DOMAIN llm_analyses \cup {at}
        /\ \A id \in DOMAIN llm_analyses' : llm_analyses'[id].id = id
    <3>1. llm_analyses' = [i \in DOMAIN llm_analyses \cup {at} |->
                              IF i = at THEN reply.analysis ELSE llm_analyses[i]]
      BY <2>1 DEF With
    <3>2. ASSUME NEW id \in DOMAIN llm_analyses \cup {at}
          PROVE  llm_analyses'[id].id = id
      <4>1. CASE id = at
        BY <2>1, <3>1, <4>1
      <4>2. CASE id # at
        BY <3>1, <4>2 DEF Stops
      <4> QED BY <4>1, <4>2
    <3> QED BY <3>1, <3>2
  <2>4. Done = 1 .. at /\ Done' = Done
    BY <2>2 DEF Done
  <2>5. Asked' = Asked \cup {at} /\ at \in Done
    BY <1>n, <2>2, <2>3, <2>4 DEF Asked, Ids
  <2>6. ~llm_stopped /\ (options.stop_on_failure => llm_failures = {})
    BY <2>2 DEF Stops
  <2> QED BY <1>f, <1>n, <2>2, <2>3, <2>4, <2>5, <2>6 DEF Stops, fixed
<1>4. CASE RouteFails \/ AskFails \/ FusionFails
  <2>1. step \in Pending /\ UNCHANGED sidecar
    BY <1>4 DEF RouteFails, AskFails, FusionFails, Pending
  <2> QED BY <1>4, <1>f, <2>1, LLMFailsStops DEF RouteFails, AskFails, FusionFails
<1>5. CASE ApplyFusion
  <2>1. /\ step \in Pending /\ at \in Ids /\ NextMessage
        /\ llm_fused' = llm_fused \cup {at}
        /\ UNCHANGED <<llm_analyses, llm_routing, llm_failures, llm_stopped>>
    BY <1>5 DEF ApplyFusion, TypeInv, Working, Pending
  <2>2. Done' = Done /\ at' = at + 1 /\ step' \notin Pending
    BY <2>1, NextDone
  <2>3. Asked' = Asked
    BY <2>1 DEF Asked
  <2>4. \A f \in llm_failures : f[1] # at
    BY <1>n DEF Stops
  <2> QED BY <1>f, <1>n, <2>1, <2>2, <2>3, <2>4 DEF Stops, fixed
<1>6. CASE Report \/ UNCHANGED vars
  <2>1. /\ Done' = Done /\ at' = at /\ (step' \in Pending => step \in Pending)
        /\ UNCHANGED <<llm_analyses, llm_routing, llm_fused, llm_failures, llm_stopped>>
    BY <1>6 DEF Report, vars, sidecar, Done, Pending
  <2> QED BY <1>f, <2>1 DEF Stops, Asked, fixed
<1> QED BY <1>1, <1>2, <1>3, <1>4, <1>5, <1>6 DEF Next

LEMMA AccountInvariant == Spec => [](TypeInv /\ Provenance /\ Account /\ Stops)
<1>1. Init => Account /\ Stops
  <2> SUFFICES ASSUME Init PROVE Account /\ Stops
    OBVIOUS
  <2>1. /\ Done = {} /\ DOMAIN successful = {} /\ Asked = {} /\ DOMAIN llm_analyses = {}
        /\ llm_failures = {} /\ llm_fused = {} /\ llm_stopped = FALSE
    BY DEF Init, Done, Pending, Asked
  <2> QED BY <2>1 DEF Account, Stops
<1> QED BY <1>1, ProvenanceInvariant, AccountStep, StopsStep, PTL DEF Spec

(* The report accounts for each message once, whatever fails: a result the *)
(* LLM did not change is that of the rules, its failures leave it so, and  *)
(* after a stop nothing more is asked (pipeline.py analyze_dataset).       *)
THEOREM AccountedInvariant == Spec => []EveryMessageAccounted
<1>1. ASSUME TypeInv, Provenance, Account, Stops PROVE EveryMessageAccounted
  <2> SUFFICES ASSUME step \in {"sort", "done"} PROVE EveryMessageAccounted
    BY DEF EveryMessageAccounted
  <2>1. Done = Ids
    BY <1>1, CountAssumption DEF Done, Ids, Pending, TypeInv, Working
  <2>2. ASSUME NEW id \in Ids, dataset[id].valid
        PROVE  Cardinality({i \in DOMAIN successful : successful[i].result.id = id}) = 1
    <3>1. PICK k \in DOMAIN successful : IdAt(k) = id
      BY <1>1, <2>1, <2>2 DEF Account
    <3>2. DOMAIN successful \subseteq Int
      BY <1>1 DEF TypeInv, TriageTypeOK
    <3>3. \A i \in DOMAIN successful : IdAt(i) = id => i = k
      <4> SUFFICES ASSUME NEW i \in DOMAIN successful, IdAt(i) = id, i # k PROVE FALSE
        OBVIOUS
      <4>1. i < k \/ k < i
        BY <3>2
      <4>2. id < id
        BY <1>1, <3>1, <4>1 DEF Account
      <4> QED BY <4>2, CountAssumption DEF Ids
    <3>4. {i \in DOMAIN successful : successful[i].result.id = id} = {k}
      BY <3>1, <3>3 DEF IdAt
    <3> QED BY <3>4, FS_Singleton
  <2>3. \A id \in Ids : ~dataset[id].valid => id \in failures
    BY <1>1, <2>1 DEF Account
  <2>4. \A r \in Final : r # RuleResult(r.id, dataset[r.id]) => r.id \in llm_fused
    BY <1>1 DEF Final, Provenance, Sourced, Rule
  <2>5. \A f \in llm_failures :
          /\ f[1] \notin llm_fused
          /\ options.stop_on_failure =>
                \A id \in DOMAIN llm_routing \cup DOMAIN llm_analyses : id <= f[1]
    BY <1>1 DEF Stops, Asked
  <2>6. \A id \in DOMAIN llm_analyses : llm_analyses[id].id = id
    BY <1>1 DEF Stops
  <2> QED BY <2>2, <2>3, <2>4, <2>5, <2>6 DEF EveryMessageAccounted
<1> QED BY <1>1, AccountInvariant, PTL
=============================================================================
