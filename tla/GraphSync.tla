------------------------------ MODULE GraphSync ------------------------------
(***************************************************************************)
(* Read-only synchronization of the Outlook inbox (graph/sync.py over      *)
(* graph/client.py): one delta round reads the state file and the dataset, *)
(* applies the pages of the round to its copy, replaces the dataset and,   *)
(* if nothing went wrong, the state file.  Each file is replaced through a *)
(* temporary file of a fixed name; no lock is taken.                       *)
(***************************************************************************)
EXTENDS Naturals, Sequences, FiniteSetsExt

CONSTANTS
    Messages,       \* messages received within the window of a first round
    Contents,       \* what a message may hold: subject, body, categories, ...
    Unmappable,     \* contents that map_graph_message rejects
    Absent,         \* the message is not there
    NoLink,         \* no state file, or one of an older query contract
    NoFile,         \* the temporary file is not there
    Runs,           \* processes that synchronize and run the workflow
    MaxChanges      \* bound: changes in the mailbox

ASSUME UnmappableAssumption == Unmappable \subseteq Contents
ASSUME AbsentAssumption == Absent \notin Contents
ASSUME NoLinkAssumption == NoLink \notin Nat
ASSUME MaxChangesAssumption == MaxChanges \in Nat

VARIABLES
    mailbox,        \* the changes of the Outlook folder, first to last
    dataset,        \* outlook_inbox.json
    link,           \* the delta link of the state file: changes it covers
    staged,         \* .outlook_inbox.json.tmp
    stagedLink,     \* the state file's .tmp
    origin,         \* changes covered when a round last began without a link
    pc,             \* per run: next step
    round           \* per run: what it holds in memory

syncFiles == <<dataset, link, staged, stagedLink, origin>>
syncVars  == <<mailbox, syncFiles, pc, round>>

Copies == [Messages -> (Contents \ Unmappable) \cup {Absent}]
Nothing == [m \in Messages |-> Absent]

ASSUME NoFileAssumption == NoFile \notin Nat \cup Copies
SyncSteps == {"read_state", "read_dataset", "first_page", "page", "stage",
              "publish", "stage_link", "publish_link", "synced"}

Rounds == [ from : Nat \cup {NoLink}, upto : Nat, ahead : SUBSET Messages,
            copy : Copies, failed : BOOLEAN ]
NoRound == [from |-> NoLink, upto |-> 0, ahead |-> {}, copy |-> Nothing, failed |-> FALSE]

(* The changes of m among those from i to j, and its content after the     *)
(* first n changes.                                                        *)
ChangesOf(m, i, j) == {k \in i .. j : mailbox[k].msg = m}
After(m, n) ==
    IF ChangesOf(m, 1, n) = {} THEN Absent ELSE mailbox[Max(ChangesOf(m, 1, n))].to

SyncInit ==
    /\ mailbox = <<>>
    /\ dataset = Nothing
    /\ link = NoLink
    /\ staged = NoFile
    /\ stagedLink = NoFile
    /\ origin = 0
    /\ pc = [r \in Runs |-> "idle"]
    /\ round = [r \in Runs |-> NoRound]

-----------------------------------------------------------------------------
Goto(r, step) == pc' = [pc EXCEPT ![r] = step]

(* Mail arrives, is changed, moved away or deleted.                        *)
MailChanges ==
    /\ Len(mailbox) < MaxChanges
    /\ \E m \in Messages, c \in Contents \cup {Absent} :
          /\ c # After(m, Len(mailbox))
          /\ mailbox' = Append(mailbox, [msg |-> m, to |-> c])
    /\ UNCHANGED <<syncFiles, pc, round>>

(* A new version of the program raises the query contract version: it      *)
(* takes the state file of an older one for none.                          *)
Upgrade ==
    /\ \A r \in Runs : pc[r] = "idle"
    /\ link # NoLink
    /\ link' = NoLink
    /\ UNCHANGED <<mailbox, dataset, staged, stagedLink, origin, pc, round>>

ReadState(r) ==
    /\ pc[r] = "read_state"
    /\ round' = [round EXCEPT ![r] = [NoRound EXCEPT !.from = link]]
    /\ Goto(r, "read_dataset")
    /\ UNCHANGED <<mailbox, syncFiles>>

ReadDataset(r) ==
    /\ pc[r] = "read_dataset"
    /\ round' = [round EXCEPT ![r].copy = dataset]
    /\ Goto(r, "first_page")
    /\ UNCHANGED <<mailbox, syncFiles>>

(* Graph opens the round: with a link it will list what changed since, and *)
(* without one what is there.                                              *)
OpenRound(r) ==
    /\ pc[r] = "first_page"
    /\ LET n == Len(mailbox)
           from == round[r].from
       IN  round' = [round EXCEPT ![r] = [@ EXCEPT
             !.upto = n,
             !.ahead = {m \in Messages :
                 IF from = NoLink THEN After(m, n) # Absent
                 ELSE ChangesOf(m, from + 1, n) # {}}]]
    /\ Goto(r, "page")
    /\ UNCHANGED <<mailbox, syncFiles>>

(* The item of a page: the message as it is when the page is made; a first *)
(* round does not list removals.                                           *)
Item(r, m) ==
    LET now == After(m, Len(mailbox)) IN
    IF now = Absent /\ round[r].from = NoLink THEN After(m, round[r].upto) ELSE now

(* The loop over the items of a page: those that map replace the copy's.   *)
Applied(r, items) ==
    [m \in Messages |->
        IF m \in items /\ Item(r, m) \notin Unmappable THEN Item(r, m) ELSE round[r].copy[m]]

(* Plausible bug: an item that cannot be mapped is passed over.            *)
RejectedNone(r, items) == FALSE

Rejected(r, items) == \E m \in items : Item(r, m) \in Unmappable

AfterPage(r, items) ==
    [round[r] EXCEPT !.ahead = @ \ items,
                     !.copy = Applied(r, items),
                     !.failed = @ \/ Rejected(r, items)]

(* get_delta_page and the loop; the last page brings the next delta link.  *)
Page(r) ==
    /\ pc[r] = "page"
    /\ \E items \in SUBSET round[r].ahead :
          /\ items = {} => round[r].ahead = {}
          /\ round' = [round EXCEPT ![r] = AfterPage(r, items)]
          /\ Goto(r, IF round[r].ahead = items THEN "stage" ELSE "page")
    /\ UNCHANGED <<mailbox, syncFiles>>

(* _atomic_write of the dataset: write the temporary file, then rename it. *)
(* Another process's rename may have taken the file away.                  *)
StageDataset(r) ==
    /\ pc[r] = "stage"
    /\ staged' = round[r].copy
    /\ Goto(r, "publish")
    /\ UNCHANGED <<mailbox, dataset, link, stagedLink, origin, round>>

PublishDataset(r) ==
    /\ pc[r] = "publish"
    /\ staged # NoFile
    /\ dataset' = staged
    /\ staged' = NoFile
    /\ Goto(r, IF round[r].failed THEN "synced" ELSE "stage_link")
    /\ UNCHANGED <<mailbox, link, stagedLink, origin, round>>

StageLink(r) ==
    /\ pc[r] = "stage_link"
    /\ stagedLink' = round[r].upto
    /\ Goto(r, "publish_link")
    /\ UNCHANGED <<mailbox, dataset, link, staged, origin, round>>

PublishLink(r) ==
    /\ pc[r] = "publish_link"
    /\ stagedLink # NoFile
    /\ link' = stagedLink
    /\ stagedLink' = NoFile
    /\ origin' = IF round[r].from = NoLink THEN round[r].upto ELSE origin
    /\ Goto(r, "synced")
    /\ UNCHANGED <<mailbox, dataset, staged, round>>

SyncStep(r) ==
    \/ ReadState(r) \/ ReadDataset(r) \/ OpenRound(r) \/ Page(r)
    \/ StageDataset(r) \/ PublishDataset(r) \/ StageLink(r) \/ PublishLink(r)

-----------------------------------------------------------------------------
SyncTypeOK ==
    /\ mailbox \in Seq([msg : Messages, to : Contents \cup {Absent}])
    /\ dataset \in Copies
    /\ link \in Nat \cup {NoLink}
    /\ staged = NoFile \/ staged \in Copies
    /\ stagedLink = NoFile \/ stagedLink \in Nat
    /\ origin \in Nat
    /\ round \in [Runs -> Rounds]

(* microsoft_graph_sync.md: the state advances only when every message was *)
(* converted, and a failed one is listed again.  So what the link covers   *)
(* is in the dataset, as it was then or later, whatever crashed between    *)
(* the two files; a removal that no first round could list is excepted.    *)
CursorIsCovered ==
    link # NoLink =>
        \A m \in Messages :
            LET last == Max(ChangesOf(m, 1, link)) IN
            /\ ChangesOf(m, 1, link) # {}
            /\ mailbox[last].to # Absent \/ last > origin
            => dataset[m] \in {mailbox[k].to : k \in ChangesOf(m, last, Len(mailbox))}
=============================================================================
