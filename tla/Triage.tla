-------------------------------- MODULE Triage --------------------------------
(***************************************************************************)
(* OfflinePipeline.analyze_dataset (pipeline.py): one pass over the        *)
(* messages of a dataset.  The rules decide on each; some go to the LLM,   *)
(* whose answer is fused with the rules' result; nothing that fails for    *)
(* one message may change another's.  Messages are numbered in the order   *)
(* of the dataset and of their ids.                                        *)
(***************************************************************************)
EXTENDS Fusion

CONSTANTS
    Count,          \* messages of the dataset
    Mailbox,        \* what a message may be
    Options,        \* how the pipeline may be configured
    Answers         \* replies the LLM service may give

ASSUME CountAssumption   == Count \in Nat
ASSUME MailboxAssumption == Mailbox \subseteq Messages
ASSUME OptionsAssumption ==
    Options \subseteq [ provider : {"openai", "deepseek", "none"},
                        routing : RoutingPolicies, fusion : FusionPolicies,
                        stop_on_failure : BOOLEAN ]
ASSUME AnswersAssumption == Answers \subseteq Replies

VARIABLES
    dataset,        \* the messages
    options,        \* providers, policies and stop_on_llm_failure of the run
    at,             \* the message being processed; after the last, Count + 1
    step,           \* where the processing of it is
    successful,     \* results so far: (received_at, result)
    evaluations,    \* rule_evaluations of the messages that have one
    failures,       \* messages the rules could not evaluate
    llm_analyses,   \* the answer for each message that has one
    llm_failures,   \* (message, stage)
    llm_routing,    \* reasons to ask, of each message that was routed
    llm_fused,      \* messages with a fusion decision
    llm_stopped,
    results         \* AnalysisReport.results, <<>> until the end

fixed    == <<dataset, options>>
sidecar  == <<llm_analyses, llm_routing, llm_fused>>
vars == <<fixed, at, step, successful, evaluations, failures, sidecar,
          llm_failures, llm_stopped, results>>

Ids     == 1 .. Count
Current == dataset[at]
Last    == successful[Len(successful)].result

Init ==
    /\ dataset \in [Ids -> Mailbox]
    /\ options \in Options
    /\ at = 1
    /\ step = IF Count = 0 THEN "sort" ELSE "rules"
    /\ successful = <<>>
    /\ evaluations = <<>>
    /\ failures = {}
    /\ llm_analyses = <<>>
    /\ llm_failures = {}
    /\ llm_routing = <<>>
    /\ llm_fused = {}
    /\ llm_stopped = FALSE
    /\ results = <<>>

-----------------------------------------------------------------------------
(* A dictionary with one more entry.                                       *)
With(d, id, value) ==
    [i \in DOMAIN d \cup {id} |-> IF i = id THEN value ELSE d[i]]

NextMessage ==
    /\ at' = at + 1
    /\ step' = IF at = Count THEN "sort" ELSE "rules"

(* The message cannot be normalized: recorded, and nothing else changes.   *)
RulesFail ==
    /\ step = "rules"
    /\ ~Current.valid
    /\ failures' = failures \cup {at}
    /\ NextMessage
    /\ UNCHANGED <<fixed, successful, evaluations, sidecar, llm_failures,
                   llm_stopped, results>>

(* _analyze_message_with_evaluation; without a provider, or after a stop,  *)
(* that is all.                                                            *)
ApplyRules ==
    /\ step = "rules"
    /\ Current.valid
    /\ successful' = Append(successful,
            [received |-> Current.received, result |-> RuleResult(at, Current)])
    /\ evaluations' = With(evaluations, at, Evaluate(Current))
    /\ IF options.provider # "none" /\ ~llm_stopped
       THEN step' = "route" /\ UNCHANGED at
       ELSE NextMessage
    /\ UNCHANGED <<fixed, failures, sidecar, llm_failures, llm_stopped, results>>

Route ==
    /\ step = "route"
    /\ LET reasons == RouteReasons(options.routing, Last, Features(Current)) IN
          /\ llm_routing' = With(llm_routing, at, reasons)
          /\ IF reasons # {} THEN step' = "ask" /\ UNCHANGED at ELSE NextMessage
    /\ UNCHANGED <<fixed, successful, evaluations, failures, llm_analyses,
                   llm_fused, llm_failures, llm_stopped, results>>

(* Plausible bug: the flag is a matter of the current message only.        *)
LLMFailsForget(stage) ==
    /\ llm_failures' = llm_failures \cup {<<at, stage>>}
    /\ UNCHANGED llm_stopped
    /\ NextMessage

(* Any of the three except clauses.                                        *)
LLMFails(stage) ==
    /\ llm_failures' = llm_failures \cup {<<at, stage>>}
    /\ llm_stopped' = (llm_stopped \/ options.stop_on_failure)
    /\ NextMessage

(* An injected router may raise.                                           *)
RouteFails ==
    /\ step = "route"
    /\ LLMFails("llm_routing")
    /\ UNCHANGED <<fixed, successful, evaluations, failures, sidecar, results>>

(* The provider raises, or its result is for another message.              *)
AskFails ==
    /\ step = "ask"
    /\ \E reply \in Answers :
          ~Usable(options.provider, reply) \/ reply.analysis.id # at
    /\ LLMFails("llm_analysis")
    /\ UNCHANGED <<fixed, successful, evaluations, failures, sidecar, results>>

Ask ==
    /\ step = "ask"
    /\ \E reply \in Answers :
          /\ Usable(options.provider, reply)
          /\ reply.analysis.id = at
          /\ llm_analyses' = With(llm_analyses, at, reply.analysis)
    /\ step' = "fuse"
    /\ UNCHANGED <<fixed, at, successful, evaluations, failures, llm_routing,
                   llm_fused, llm_failures, llm_stopped, results>>

Fused == [received |-> Current.received,
          result |-> Fuse(options.fusion, Last, llm_analyses[at])]

(* successful[-1] is replaced.                                             *)
ApplyFusion ==
    /\ step = "fuse"
    /\ successful' = [successful EXCEPT ![Len(successful)] = Fused]
    /\ llm_fused' = llm_fused \cup {at}
    /\ NextMessage
    /\ UNCHANGED <<fixed, evaluations, failures, llm_analyses, llm_routing,
                   llm_failures, llm_stopped, results>>

(* An injected fusion engine may raise; the analysis stays in the report.  *)
FusionFails ==
    /\ step = "fuse"
    /\ LLMFails("llm_fusion")
    /\ UNCHANGED <<fixed, successful, evaluations, failures, sidecar, results>>

(* The sort key: priority, then the higher score, the later message, id.   *)
Precedes(x, y) ==
    \/ x.result.priority < y.result.priority
    \/ /\ x.result.priority = y.result.priority
       /\ \/ x.result.score > y.result.score
          \/ /\ x.result.score = y.result.score
             /\ \/ x.received > y.received
                \/ x.received = y.received /\ x.result.id <= y.result.id

Orders == {order \in [DOMAIN successful -> DOMAIN successful] :
              \A i, j \in DOMAIN successful : i # j => order[i] # order[j]}

(* The report is assembled in sorted order.                                *)
Report ==
    /\ step = "sort"
    /\ \E order \in Orders :
          /\ \A i, j \in DOMAIN successful :
                i <= j => Precedes(successful[order[i]], successful[order[j]])
          /\ results' = [i \in DOMAIN successful |-> successful[order[i]].result]
    /\ step' = "done"
    /\ UNCHANGED <<fixed, at, successful, evaluations, failures, sidecar,
                   llm_failures, llm_stopped>>

Next ==
    \/ RulesFail \/ ApplyRules
    \/ Route \/ RouteFails
    \/ Ask \/ AskFails
    \/ ApplyFusion \/ FusionFails
    \/ Report

Spec == Init /\ [][Next]_vars

-----------------------------------------------------------------------------
Results ==
    [ id : Ids, priority : Priorities, score : 0 .. 100, confidence : 0 .. 100,
      category : MessageCategory, deadline : Nat \cup {None}, requires_review : BOOLEAN,
      source : {"rule", "hybrid"} ]
Evaluations ==
    [ final_score : 0 .. 100, suggested_priority : Priorities,
      reasons : SUBSET Codes, requires_review : BOOLEAN ]

TriageTypeOK ==
    /\ dataset \in [Ids -> Mailbox]
    /\ options \in Options
    /\ at \in 1 .. Count + 1
    /\ step \in {"rules", "route", "ask", "fuse", "sort", "done"}
    /\ successful \in Seq([received : Nat, result : Results])
    /\ failures \subseteq Ids
    /\ DOMAIN evaluations \cup DOMAIN llm_analyses \cup DOMAIN llm_routing \subseteq Ids
    /\ \A i \in DOMAIN evaluations : evaluations[i] \in Evaluations
    /\ \A i \in DOMAIN llm_analyses : llm_analyses[i] \in Analyses
    /\ \A i \in DOMAIN llm_routing :
          llm_routing[i] \subseteq RouteSwitches \cup {"full_evaluation", "low_confidence"}
    /\ llm_failures \subseteq Ids \X {"llm_routing", "llm_analysis", "llm_fusion"}
    /\ llm_fused \subseteq Ids
    /\ llm_stopped \in BOOLEAN
    /\ results \in Seq(Results)

Final == {successful[i].result : i \in DOMAIN successful}

(* The rules are a floor: unless the policy allows downgrades, no answer   *)
(* of the LLM makes a message less urgent than its rules did; and none     *)
(* postpones or removes the deadline that the rules found.                 *)
RulesAreAFloor ==
    \A r \in Final :
        LET rule == RuleResult(r.id, dataset[r.id]) IN
        /\ "downgrade" \notin options.fusion.on => r.priority <= rule.priority
        /\ rule.deadline # None => r.deadline # None /\ r.deadline <= rule.deadline

(* With its review switches on, a result of the LLM that departs from the  *)
(* rules - or rests on an answer below the confidence required, or brings  *)
(* the reminder forward into the past - is reviewed by a person, and a     *)
(* review the rules asked for is never waived.                             *)
DeparturesAreReviewed ==
    \A r \in Final :
        LET rule == RuleResult(r.id, dataset[r.id]) IN
        /\ rule.requires_review => r.requires_review
        /\ r.source = "hybrid" /\ {"review_priority", "review_deadline"} \subseteq options.fusion.on
           /\ ~r.requires_review =>
              /\ r.priority = rule.priority
              /\ r.confidence >= options.fusion.minimum \/ r.confidence = rule.confidence
              /\ rule.deadline # None => rule.deadline - r.deadline <= options.fusion.tolerance

(* The report accounts for each message once: the result of a message that *)
(* no answer was fused into is that of the rules, a failure of the LLM     *)
(* leaves it so, and once the LLM is given up no further message is asked. *)
EveryMessageAccounted ==
    step \in {"sort", "done"} =>
        /\ \A id \in Ids :
              IF dataset[id].valid
              THEN Cardinality({i \in DOMAIN successful : successful[i].result.id = id}) = 1
              ELSE id \in failures
        /\ \A r \in Final :
              r # RuleResult(r.id, dataset[r.id]) => r.id \in llm_fused
        /\ \A f \in llm_failures :
              /\ f[1] \notin llm_fused
              /\ options.stop_on_failure =>
                    \A id \in DOMAIN llm_routing \cup DOMAIN llm_analyses : id <= f[1]
        /\ \A id \in DOMAIN llm_analyses : llm_analyses[id].id = id

(* The review margin covers every score whose priority a change by at most *)
(* the margin would alter.                                                 *)
MarginCoversFlips ==
    \A i \in DOMAIN evaluations :
        LET e == evaluations[i] IN
        \A score \in 0 .. 100 :
            /\ score - e.final_score \in -ReviewMargin .. ReviewMargin
            /\ PriorityForScore(score) # e.suggested_priority
            => e.requires_review
=============================================================================
