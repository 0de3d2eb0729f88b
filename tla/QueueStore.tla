------------------------------ MODULE QueueStore ------------------------------
(***************************************************************************)
(* What the queue file promises to its callers, without lock, temporary    *)
(* file and crashes: each command changes it in one step, from what the    *)
(* command before left.  An approval is given once, to an action nobody    *)
(* has decided on; a rejection takes back an approval as well, and stands. *)
(***************************************************************************)
CONSTANTS
    Actions,
    Approvals,      \* reviews that approve, each with its note
    Rejections      \* reviews that reject

VARIABLE content    \* per action: the stages it has been through, if queued

Reviews == Approvals \cup Rejections

WithBatch(c, batch) ==
    [a \in Actions |-> IF a \in batch /\ c[a] = {} THEN {"pending_review"} ELSE c[a]]

MayReview(stages, d) ==
    /\ stages # {}
    /\ stages \cap Rejections = {}
    /\ d \in Approvals => stages \cap Approvals = {}

StoreInit == content = [a \in Actions |-> {}]

Build(batch) == content' = WithBatch(content, batch)

Review(a, d) ==
    /\ MayReview(content[a], d)
    /\ content' = [content EXCEPT ![a] = @ \cup {d}]

StoreNext ==
    \/ \E batch \in SUBSET Actions : Build(batch)
    \/ \E a \in Actions, d \in Reviews : Review(a, d)

StoreSpec == StoreInit /\ [][StoreNext]_content
=============================================================================
