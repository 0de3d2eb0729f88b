--------------------------- MODULE MCNotifications ---------------------------
(* An instance of Notifications for TLC.                                    *)
EXTENDS Notifications

Urgent == [priority |-> 1, deadline |-> NoDeadline]
Due    == [priority |-> 4, deadline |-> 2]
MCJudgements == {Urgent, Due}

(* Alerts with two analyses and without restores; with one of each; and    *)
(* the summary.                                                            *)
MCSettings ==
    { [desktop |-> TRUE, summary |-> FALSE, analyses |-> 2, restores |-> 0],
      [desktop |-> TRUE, summary |-> FALSE, analyses |-> 1, restores |-> 1],
      [desktop |-> FALSE, summary |-> TRUE, analyses |-> 0, restores |-> 1],
      [desktop |-> TRUE, summary |-> TRUE, analyses |-> 1, restores |-> 0] }
=============================================================================
