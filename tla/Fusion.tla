-------------------------------- MODULE Fusion --------------------------------
(***************************************************************************)
(* When the LLM is asked (llm/routing.py), which of its answers can be     *)
(* used (llm/openai_compatible.py) and what becomes of one (llm/fusion.py). *)
(***************************************************************************)
EXTENDS RuleEngine

RouteSwitches == {"rule_review", "ambiguous_deadline", "multiple_deadlines",
                  "action_no_action", "importance_content", "urgent_no_action"}

(* LLMRoutingPolicy: mode, confidence_threshold and the route_on switches. *)
RoutingPolicies ==
    [mode : {"selective", "all"}, threshold : 0 .. 100, on : SUBSET RouteSwitches]

FusionSwitches == {"upgrade", "downgrade", "review_priority", "review_deadline"}

(* LLMFusionPolicy: mode, minimum_llm_confidence, the allow and            *)
(* force_review switches, deadline_tolerance_minutes.                      *)
FusionPolicies ==
    [mode : {"conservative", "sidecar_only"}, minimum : 0 .. 100,
     on : SUBSET FusionSwitches, tolerance : 0 .. 1440]

(* LLMMessageAnalysis, with the message_id of the LLMAnalysisResult.       *)
Analyses ==
    [ id : Nat, priority : Priorities, category : MessageCategory,
      deadline : Nat \cup {None}, confidence : 0 .. 100, requires_review : BOOLEAN ]

-----------------------------------------------------------------------------
(* LLMRouter.decide: the reasons for asking; none means the message is     *)
(* left to the rules.                                                      *)
RouteReasons(policy, result, f) ==
    LET If(switch, condition) ==
            IF switch \in policy.on /\ condition THEN {switch} ELSE {}
        urgent == f.urgent_keywords \cup f.security_keywords
    IN  IF policy.mode = "all" THEN {"full_evaluation"}
        ELSE UNION {
          IF result.confidence < policy.threshold THEN {"low_confidence"} ELSE {},
          If("rule_review", result.requires_review),
          If("ambiguous_deadline",
             f.contains_deadline_language /\ f.detected_dates = {}),
          If("multiple_deadlines",
             \E d, e \in f.detected_dates : d # e),
          If("action_no_action",
             f.action_keywords # {} /\ f.no_action_keywords # {}),
          If("importance_content",
             /\ f.provider_marked_high_importance
             /\ \/ f.contains_unsubscribe
                \/ f.bulk_keywords # {}
                \/ f.no_action_keywords # {}),
          If("urgent_no_action", urgent # {} /\ f.no_action_keywords # {}) }

(* A reply of the service: whether it arrives, has a choice, ended with    *)
(* finish_reason "stop", is a refusal, and its content, which may be no    *)
(* valid analysis.                                                         *)
Replies ==
    [ arrived : BOOLEAN, choice : BOOLEAN, stopped : BOOLEAN, refusal : BOOLEAN,
      valid : BOOLEAN, analysis : Analyses ]

(* _openai_analysis and _deepseek_analysis: anything else is an exception. *)
(* The JSON mode of DeepSeek does not look at refusal.                     *)
Usable(service, reply) ==
    /\ reply.arrived
    /\ reply.choice
    /\ reply.stopped
    /\ service = "openai" => ~reply.refusal
    /\ reply.valid

-----------------------------------------------------------------------------
(* _priority_relation.                                                     *)
Upgrades(rule, llm)   == llm < rule
Downgrades(rule, llm) == llm > rule

Earlier(d, e) == IF d <= e THEN d ELSE e

Distance(d, e) == IF d <= e THEN e - d ELSE d - e

DeadlineConflict(policy, rule, llm) ==
    /\ rule # None
    /\ llm # None
    /\ Distance(rule, llm) > policy.tolerance

(* The earlier of the two, whether or not they agree.                      *)
FusedDeadline(rule, llm) ==
    CASE llm = None  -> rule
      [] rule = None -> llm
      [] OTHER       -> Earlier(rule, llm)

(* Plausible bug: the direction of the comparison is lost.                 *)
FusedPriorityAny(policy, rule, llm) == IF "upgrade" \in policy.on THEN llm ELSE rule

FusedPriority(policy, rule, llm) ==
    IF \/ Upgrades(rule, llm) /\ "upgrade" \in policy.on
       \/ Downgrades(rule, llm) /\ "downgrade" \in policy.on
    THEN llm ELSE rule

Reliable(policy, llm) == llm.confidence >= policy.minimum

(* Plausible bug: only an answer that is relied upon asks for a review.    *)
FusedReviewReliable(policy, rule, llm) ==
    \/ rule.requires_review
    \/ llm.requires_review
    \/ /\ Reliable(policy, llm)
       /\ rule.priority # llm.priority
       /\ "review_priority" \in policy.on

FusedReview(policy, rule, llm) ==
    \/ rule.requires_review
    \/ llm.requires_review
    \/ ~Reliable(policy, llm)
    \/ rule.priority # llm.priority /\ "review_priority" \in policy.on
    \/ /\ DeadlineConflict(policy, rule.deadline, llm.deadline)
       /\ "review_deadline" \in policy.on

(* LLMFusionEngine.fuse on an answer for the same message.                 *)
Fuse(policy, rule, llm) ==
    IF policy.mode = "sidecar_only" THEN rule
    ELSE LET kept == [rule EXCEPT
                !.confidence = IF llm.confidence < @ THEN llm.confidence ELSE @,
                !.requires_review = FusedReview(policy, rule, llm),
                !.source = "hybrid"]
         IN  IF ~Reliable(policy, llm) THEN kept
             ELSE [kept EXCEPT
                !.priority = FusedPriority(policy, @, llm.priority),
                !.category = llm.category,
                !.deadline = FusedDeadline(@, llm.deadline)]
=============================================================================
