------------------------- MODULE WritebackRefinement -------------------------
(***************************************************************************)
(* Writeback implements ControlledWrite: an intent counts once its queue   *)
(* transition is in the audit log, and a version's author is the intent    *)
(* its PATCH was sent for.                                                 *)
(***************************************************************************)
EXTENDS Writeback

Approved == { a \in Actions :
                \E i \in 1 .. Len(history[a]) : history[a][i] = "approved" }

LoggedIntents ==
    UNION { { <<a, i>> : i \in { j \in 1 .. Len(history[a]) :
                /\ history[a][j] \in WriteIntents
                /\ j < audited[a] } } : a \in Actions }

Authors ==
    [ m \in Messages |->
        [ i \in 1 .. Len(box[m]) |-> <<box[m][i].by, box[m][i].at>> ] ]

Promise == INSTANCE ControlledWrite
    WITH approved <- Approved, intents <- LoggedIntents, authors <- Authors

(* The promise of module ControlledWrite, kept by every interleaving of    *)
(* workers, crashes, torn appends and late requests.                       *)
PromiseKept == Promise!PromiseSpec

(* Every step of the workers on the queue is a step of module ActionQueue. *)
QueueUsedAsSpecified == QueueSpec
=============================================================================
