------------------------------- MODULE MCTriage -------------------------------
(* An instance of Triage for TLC: the weights and thresholds of            *)
(* config/rules.yaml, a review margin, and one message of each kind.       *)
EXTENDS Triage

MCWords == {"urgent", "phishing", "promotion", "before", "submit",
            "no need to submit", "internship", "unsubscribe"}
MCWithin == [w \in MCWords |-> IF w = "no need to submit" THEN {w, "submit"} ELSE {w}]

MCKeywords ==
    [ urgent |-> {"urgent"}, security |-> {"phishing"}, bulk |-> {"promotion"},
      deadline |-> {"before"}, action |-> {"submit"}, opportunity |-> {"internship"},
      no_action |-> {"no need to submit"}, unsubscribe |-> {"unsubscribe"} ]

MCWeights ==
    [ trusted_sender |-> 15, trusted_domain |-> 10, direct_recipient |-> 5,
      urgent_keyword |-> 40, security_keyword |-> 40,
      deadline_within_two_days |-> 35, deadline_within_seven_days |-> 20,
      deadline_later |-> 0, deadline_without_date |-> 5, action_keyword |-> 10,
      opportunity_keyword |-> 20, high_importance |-> 10, low_importance |-> -5,
      has_attachment |-> 10, bulk_mail |-> -10, bulk_keyword |-> -10,
      unsubscribe |-> -20, no_action_required |-> -5, external_sender |-> -10,
      empty_subject |-> -10, sender_mismatch |-> 0 ]

MCThresholds == <<80, 50, 35, 10>>

Noon == 20000
Base ==
    [ valid |-> TRUE, received |-> Noon, trust |-> {"sender", "domain"},
      mismatch |-> FALSE, direct |-> FALSE, list |-> FALSE, recipients |-> 1,
      importance |-> "normal", attachments |-> FALSE, subject |-> TRUE,
      clauses |-> {} ]
Clause(words, dates) == [words |-> words, dates |-> dates]

Urgent   == [Base EXCEPT !.clauses = {Clause({"urgent"}, {})}, !.direct = TRUE,
                !.attachments = TRUE, !.importance = "high"]
Due      == [Base EXCEPT !.clauses = {Clause({"before"}, {Noon + 5000})}]
Edge     == [Base EXCEPT !.trust = {"domain"}, !.direct = TRUE, !.received = Noon + 1]
Conflict == [Base EXCEPT !.trust = {},
                !.clauses = {Clause({"promotion", "before"}, {Noon - 10, Noon + 20000})}]
NoAction == [Base EXCEPT !.importance = "high",
                !.clauses = {Clause({"urgent", "no need to submit"}, {Noon + 3000})}]
External == [Base EXCEPT !.trust = {}]
Invalid  == [Base EXCEPT !.valid = FALSE]

MCMailbox == {Urgent, Due, Edge, Conflict, NoAction, External, Invalid}

Selective == [mode |-> "selective", threshold |-> 75, on |-> RouteSwitches]
Everything == [mode |-> "all", threshold |-> 75, on |-> {}]
Shipped ==
    [ mode |-> "conservative", minimum |-> 80, tolerance |-> 0,
      on |-> {"upgrade", "review_priority", "review_deadline"} ]
Configured(provider, routing, fusion, stop) ==
    [provider |-> provider, routing |-> routing, fusion |-> fusion, stop_on_failure |-> stop]

MCOptions ==
    { Configured("none", Selective, Shipped, FALSE),
      Configured("openai", Selective, Shipped, FALSE),
      Configured("openai", Everything, [Shipped EXCEPT !.mode = "sidecar_only"], TRUE),
      Configured("deepseek", Everything,
                 [Shipped EXCEPT !.on = FusionSwitches, !.tolerance = 60], FALSE),
      Configured("openai", Everything, [Shipped EXCEPT !.on = {}], TRUE) }

Reply(id, priority, confidence, review, deadline) ==
    [ arrived |-> TRUE, choice |-> TRUE, stopped |-> TRUE, refusal |-> FALSE, valid |-> TRUE,
      analysis |-> [ id |-> id, priority |-> priority, category |-> "general_notice",
                     deadline |-> deadline, confidence |-> confidence,
                     requires_review |-> review ] ]

(* Sure answers of every kind; unsure and doubtful ones of one kind each.  *)
Good == UNION { { Reply(id, priority, 80, FALSE, deadline) :
                    priority \in {1, 3, 5}, deadline \in {None, Noon - 60, Noon + 5060} }
                \cup { Reply(id, 1, 79, FALSE, Noon - 60), Reply(id, 5, 80, TRUE, None) }
                : id \in Ids }

Bad == LET r == Reply(1, 1, 80, FALSE, None) IN
    { [r EXCEPT !.arrived = FALSE], [r EXCEPT !.choice = FALSE],
      [r EXCEPT !.stopped = FALSE], [r EXCEPT !.refusal = TRUE],
      [r EXCEPT !.valid = FALSE] }

MCAnswers == Good \cup Bad
=============================================================================
