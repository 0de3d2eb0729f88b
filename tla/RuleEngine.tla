------------------------------ MODULE RuleEngine ------------------------------
(***************************************************************************)
(* The deterministic half of triage (normalizer.py, rule_engine.py and the *)
(* rule part of pipeline.py): signals of a message, points for each signal, *)
(* a priority, a review flag.  A priority is its rank: 1 is P1, 5 is P5.   *)
(* A confidence is a percentage, an instant a number of minutes.           *)
(*                                                                         *)
(* A text is the set of its clauses; a clause has words (a word stands for *)
(* a keyword or phrase found in it) and the dates written in it.           *)
(***************************************************************************)
EXTENDS Integers, FiniteSets, Sequences

CONSTANTS
    Words,          \* keywords and phrases a text may contain
    Within,         \* the words that occur inside each word, itself included
    Keywords,       \* policy.keywords: the words of each group
    Weights,        \* policy.weights
    BaseScore,
    Thresholds,     \* <<P1, P2, P3, P4>>
    ReviewMargin,
    BulkThreshold,  \* bulk_recipient_threshold
    None            \* no deadline

Groups == {"urgent", "security", "bulk", "deadline", "action", "opportunity",
           "no_action", "unsubscribe"}

Codes == { "trusted_sender", "trusted_domain", "direct_recipient", "bulk_mail",
           "security_keyword", "urgent_keyword", "deadline_within_two_days",
           "deadline_within_seven_days", "deadline_later",
           "deadline_without_date", "action_keyword", "opportunity_keyword",
           "bulk_keyword", "unsubscribe", "no_action_required",
           "high_importance", "low_importance", "has_attachment",
           "external_sender", "empty_subject", "sender_mismatch" }

(* validate_order and the bounds of the fields of RulePolicy.              *)
PolicyOK ==
    /\ Keywords \in [Groups -> SUBSET Words]
    /\ Weights \in [Codes -> -100 .. 100]
    /\ BaseScore \in 0 .. 100
    /\ Thresholds \in [1 .. 4 -> 0 .. 100]
    /\ \A i, j \in 1 .. 4 : i < j => Thresholds[i] > Thresholds[j]
    /\ ReviewMargin \in 0 .. 20
    /\ BulkThreshold \in Nat \ {0}

ASSUME PolicyAssumption == PolicyOK
ASSUME WithinAssumption ==
    /\ Within \in [Words -> SUBSET Words]
    /\ \A w \in Words : w \in Within[w]
ASSUME NoneAssumption   == None \notin Int

Priorities == 1 .. 5
Clauses    == [words : SUBSET Words, dates : SUBSET Nat]

(* NormalizedMessage, with what the user's context knows of the sender     *)
(* ("sender" and "domain" when trusted) and whether normalization of the   *)
(* provider's message succeeds at all.                                     *)
Messages ==
    [ valid : BOOLEAN, received : Nat, trust : SUBSET {"sender", "domain"},
      mismatch : BOOLEAN, direct : BOOLEAN, list : BOOLEAN, recipients : Nat,
      importance : {"low", "normal", "high"}, attachments : BOOLEAN,
      subject : BOOLEAN, clauses : SUBSET Clauses ]

-----------------------------------------------------------------------------
Text(m) == UNION {Within[w] : w \in UNION {c.words : c \in m.clauses}}

(* _match_keywords.                                                        *)
Matches(m, group) == Keywords[group] \cap Text(m)

(* Only a clause with deadline language gives dates.                       *)
DeadlineDates(m) ==
    UNION {c.dates : c \in
        {d \in m.clauses : \E w \in d.words : Within[w] \cap Keywords["deadline"] # {}}}

(* extract_features.  An action word inside a no-action phrase of the text *)
(* does not count, wherever else it may stand.                             *)
Features(m) ==
    LET noAction == Matches(m, "no_action") IN
    [ sender_is_trusted |-> "sender" \in m.trust,
      sender_domain_is_trusted |-> "domain" \in m.trust,
      directly_addressed |-> m.direct,
      looks_like_bulk_mail |-> m.recipients >= BulkThreshold \/ m.list,
      urgent_keywords |-> Matches(m, "urgent"),
      security_keywords |-> Matches(m, "security"),
      bulk_keywords |-> Matches(m, "bulk"),
      action_keywords |->
          {k \in Matches(m, "action") : \A p \in noAction : k \notin Within[p]},
      opportunity_keywords |-> Matches(m, "opportunity"),
      no_action_keywords |-> noAction,
      contains_unsubscribe |-> Matches(m, "unsubscribe") # {},
      contains_deadline_language |-> Matches(m, "deadline") # {},
      detected_dates |-> DeadlineDates(m),
      has_attachments |-> m.attachments,
      provider_marked_high_importance |-> m.importance = "high",
      provider_marked_low_importance |-> m.importance = "low",
      external_sender |-> m.trust = {},
      empty_subject |-> ~m.subject,
      sender_mismatch |-> m.mismatch ]

-----------------------------------------------------------------------------
FutureDates(m) == {d \in DeadlineDates(m) : d >= m.received}

(* _future_deadline: the earliest date that is not already past.           *)
FutureDeadline(m) ==
    IF FutureDates(m) = {} THEN None
    ELSE CHOOSE d \in FutureDates(m) : \A e \in FutureDates(m) : d <= e

Minutes(days) == days * 24 * 60

(* The one code that deadline language contributes.                        *)
DeadlineCode(m) ==
    LET left == FutureDeadline(m) - m.received IN
    CASE FutureDates(m) = {}  -> "deadline_without_date"
      [] left <= Minutes(2)   -> "deadline_within_two_days"
      [] left <= Minutes(7)   -> "deadline_within_seven_days"
      [] OTHER                -> "deadline_later"

(* The reasons evaluate collects from the features f; due is the code of   *)
(* the deadline.                                                           *)
Reasons(f, due) ==
    LET If(condition, code) == IF condition THEN {code} ELSE {}
    IN  UNION {
          If(f.sender_is_trusted, "trusted_sender"),
          If(f.sender_domain_is_trusted /\ ~f.sender_is_trusted, "trusted_domain"),
          If(f.directly_addressed, "direct_recipient"),
          If(f.looks_like_bulk_mail, "bulk_mail"),
          If(f.security_keywords # {}, "security_keyword"),
          If(f.urgent_keywords # {} /\ f.security_keywords = {}, "urgent_keyword"),
          If(f.contains_deadline_language, due),
          If(f.action_keywords # {}, "action_keyword"),
          If(f.opportunity_keywords # {}, "opportunity_keyword"),
          If(f.bulk_keywords # {}, "bulk_keyword"),
          If(f.contains_unsubscribe, "unsubscribe"),
          If(f.no_action_keywords # {}, "no_action_required"),
          If(f.provider_marked_high_importance, "high_importance"),
          If(f.provider_marked_low_importance, "low_importance"),
          If(f.has_attachments, "has_attachment"),
          If(f.external_sender, "external_sender"),
          If(f.empty_subject, "empty_subject"),
          If(f.sender_mismatch, "sender_mismatch") }

Points(reasons, code) == IF code \in reasons THEN Weights[code] ELSE 0

(* The sum is spelled out: each code occurs at most once.                  *)
RawScore(reasons) ==
    BaseScore
      + Points(reasons, "trusted_sender") + Points(reasons, "trusted_domain")
      + Points(reasons, "direct_recipient") + Points(reasons, "bulk_mail")
      + Points(reasons, "security_keyword") + Points(reasons, "urgent_keyword")
      + Points(reasons, "deadline_within_two_days") + Points(reasons, "deadline_within_seven_days")
      + Points(reasons, "deadline_later") + Points(reasons, "deadline_without_date")
      + Points(reasons, "action_keyword") + Points(reasons, "opportunity_keyword")
      + Points(reasons, "bulk_keyword") + Points(reasons, "unsubscribe")
      + Points(reasons, "no_action_required") + Points(reasons, "high_importance")
      + Points(reasons, "low_importance") + Points(reasons, "has_attachment")
      + Points(reasons, "external_sender") + Points(reasons, "empty_subject")
      + Points(reasons, "sender_mismatch")

Clamp(score) == IF score < 0 THEN 0 ELSE IF score > 100 THEN 100 ELSE score

(* _priority_for_score.                                                    *)
PriorityForScore(score) ==
    CASE score >= Thresholds[1] -> 1
      [] score >= Thresholds[2] -> 2
      [] score >= Thresholds[3] -> 3
      [] score >= Thresholds[4] -> 4
      [] OTHER                  -> 5

(* Plausible bug: the margin is exclusive.                                 *)
NearThresholdExclusive(score) ==
    \E i \in 1 .. 4 : /\ score - Thresholds[i] < ReviewMargin
                      /\ Thresholds[i] - score < ReviewMargin
NearThreshold(score) ==
    /\ ReviewMargin > 0
    /\ \E i \in 1 .. 4 : /\ score - Thresholds[i] <= ReviewMargin
                         /\ Thresholds[i] - score <= ReviewMargin

ConflictingBulkDeadline(f) ==
    /\ f.bulk_keywords # {}
    /\ f.contains_deadline_language
    /\ f.urgent_keywords = {}
    /\ f.security_keywords = {}

Verdict(f, reasons, score) ==
    [ final_score |-> score,
      suggested_priority |-> PriorityForScore(score),
      reasons |-> reasons,
      requires_review |->
          f.empty_subject \/ ConflictingBulkDeadline(f) \/ NearThreshold(score) ]

Judge(f, reasons) == Verdict(f, reasons, Clamp(RawScore(reasons)))

(* RuleEngine.evaluate.                                                    *)
Evaluate(m) == Judge(Features(m), Reasons(Features(m), DeadlineCode(m)))

-----------------------------------------------------------------------------
(* The taxonomy the rules and the LLM share.                               *)
MessageCategory ==
    { "academic_deadline", "administrative_deadline", "course_registration",
      "course_change", "course_material", "exam_change", "scholarship_deadline",
      "payment_deadline", "security_alert", "library_reminder",
      "event_registration", "career_event", "academic_calendar",
      "campus_activity", "courtesy_message", "newsletter", "promotion",
      "incomplete_message", "general_notice" }

(* infer_category, as a table of conditions and names.                     *)
CategoryLines(f, text) ==
    LET Says(w) == w \in text
    IN  <<
          <<f.security_keywords # {}, "security_alert">>,
          <<f.empty_subject, "incomplete_message">>,
          <<f.external_sender /\ f.contains_unsubscribe, "promotion">>,
          <<f.contains_unsubscribe, "newsletter">>,
          <<Says("exam") /\ (f.urgent_keywords # {} \/ Says("change")), "exam_change">>,
          <<Says("course") /\ Says("cancelled"), "course_change">>,
          <<Says("scholarship"), "scholarship_deadline">>,
          <<Says("fee"), "payment_deadline">>,
          <<Says("library"), "library_reminder">>,
          <<Says("calendar"), "academic_calendar">>,
          <<\/ Says("registration details")
            \/ Says("term registration") /\ f.contains_deadline_language,
            "administrative_deadline">>,
          <<Says("course selection"), "course_registration">>,
          <<Says("homework") /\ f.action_keywords \cup f.urgent_keywords # {},
            "academic_deadline">>,
          <<Says("reading"), "course_material">>,
          <<Says("greeting"), "courtesy_message">>,
          <<Says("jobs"), "career_event">>,
          <<f.bulk_keywords # {} /\ f.contains_deadline_language, "event_registration">>,
          <<f.bulk_keywords # {}, "campus_activity">>,
          <<TRUE, "general_notice">> >>

FirstApplying(lines) ==
    CHOOSE i \in DOMAIN lines :
        /\ lines[i][1]
        /\ \A j \in 1 .. i - 1 : ~lines[j][1]

CategoryOf(f, text) ==
    LET lines == CategoryLines(f, text) IN lines[FirstApplying(lines)][2]

(* _rule_confidence.                                                       *)
RuleConfidence(review) == IF review THEN 60 ELSE 90

(* The TriageResult of the rules for message id and its evaluation e;      *)
(* summary and action items go with the category, which stands for them.   *)
TriageResult(id, m, e) ==
    [ id |-> id, priority |-> e.suggested_priority, score |-> e.final_score,
      confidence |-> RuleConfidence(e.requires_review),
      category |-> CategoryOf(Features(m), Text(m)),
      deadline |-> FutureDeadline(m),
      requires_review |-> e.requires_review, source |-> "rule" ]

RuleResult(id, m) == TriageResult(id, m, Evaluate(m))
=============================================================================
