------------------------------ MODULE StateFiles ------------------------------
(***************************************************************************)
(* The queue file and the audit log at the level of file operations        *)
(* (actions/locking.py, queue.py, audit.py): each file under an advisory   *)
(* lock of the operating system, the queue replaced through a temporary    *)
(* file of a fixed name, the log appended to.  Command line processes and  *)
(* requests of the console build, review and preview actions; any of them  *)
(* may give up waiting for a lock, fail to write, or die between two steps. *)
(***************************************************************************)
EXTENDS Naturals, Sequences, FiniteSets, Functions

CONSTANTS
    Workers,        \* processes and request threads
    Actions,
    Approvals,      \* reviews that approve an action, each with its note
    Rejections,     \* reviews that reject one
    Splitting,      \* reviews whose note splitlines() takes for two lines
    Torn,           \* a line that is no event
    NoFile,         \* the temporary file is not there
    Partial,        \* the temporary file holds a part of a version
    Nobody,         \* the lock is free
    CutWrites       \* whether an append may be cut short

VARIABLES
    queue,          \* action_queue.json: per action its transition_history
    temp,           \* .action_queue.json.tmp
    queueHolder,    \* who holds action_queue.json.lock
    log,            \* the lines of actions.jsonl
    open,           \* its last line lacks the line end
    logHolder,      \* who holds actions.jsonl.lock
    step,           \* per worker: next step
    held,           \* per worker: its copy of the queue
    about,          \* per worker: actions whose events it will log
    pending,        \* per worker: events to append
    reported        \* events that an append_unique reported as logged

queueFiles == <<queue, temp, queueHolder>>
logFiles   == <<log, open, logHolder, reported>>
vars == <<queueFiles, logFiles, step, held, about, pending>>

Store == INSTANCE QueueStore WITH content <- queue

Reviews  == Approvals \cup Rejections
Stages   == {"pending_review"} \cup Reviews
Contents == [Actions -> SUBSET Stages]
Events   == [of : Actions, stage : Stages]

ASSUME ActionsAssumption   == IsFiniteSet(Actions)
ASSUME ReviewsAssumption   == Approvals \cap Rejections = {}
ASSUME ReviewsAreFinite    == IsFiniteSet(Reviews)
ASSUME PendingAssumption   == "pending_review" \notin Reviews
ASSUME SplittingAssumption == Splitting \subseteq Reviews
ASSUME TornAssumption   == Torn \notin Events
ASSUME NoFileAssumption == {NoFile, Partial} \cap Contents = {}
ASSUME NobodyAssumption == Nobody \notin Workers
ASSUME CutWritesAssumption == CutWrites \in BOOLEAN

Steps == {"idle", "stage", "publish", "reload", "record", "append"}

(* audit_events_for_action: one event for the creation of each action of A *)
(* and one for every transition of its history.                            *)
EventsOf(c, A) == {e \in Events : e.of \in A /\ e.stage \in c[e.of]}

(* _load_unlocked: every line is an event, and none occurs twice.          *)
Logged   == {log[i] : i \in DOMAIN log} \ {Torn}
Loadable ==
    /\ \A i \in DOMAIN log : log[i] # Torn
    /\ \A i, j \in DOMAIN log : log[i] = log[j] => i = j

(* The line of an event.  json.dumps leaves U+0085, U+2028 and U+2029 of a *)
(* note as they are; what splitlines() makes of such a line is no event.   *)
Line(e) == IF e.stage \in Splitting THEN Torn ELSE e

Lines(text) == [i \in DOMAIN text |-> Line(text[i])]

(* Appending to a file whose last line is open extends that line.          *)
Joined(lines) ==
    IF open /\ lines # <<>>
      THEN SubSeq(log, 1, Len(log) - 1) \o <<Torn>> \o Tail(lines)
      ELSE log \o lines

Nothing == [a \in Actions |-> {}]

Init ==
    /\ queue = Nothing
    /\ temp = NoFile
    /\ queueHolder = Nobody
    /\ log = <<>>
    /\ open = FALSE
    /\ logHolder = Nobody
    /\ step = [w \in Workers |-> "idle"]
    /\ held = [w \in Workers |-> Nothing]
    /\ about = [w \in Workers |-> {}]
    /\ pending = [w \in Workers |-> {}]
    /\ reported = {}

-----------------------------------------------------------------------------
Goto(w, next) == step' = [step EXCEPT ![w] = next]

(* The command returns, fails or dies, and holds nothing any more.         *)
Ends(w) ==
    /\ Goto(w, "idle")
    /\ held' = [held EXCEPT ![w] = Nothing]
    /\ about' = [about EXCEPT ![w] = {}]
    /\ pending' = [pending EXCEPT ![w] = {}]

(* actions build, enqueue under the lock: a batch with nothing new is not  *)
(* saved.  A preview or dry run adds nothing and goes on like a build.     *)
EnqueueUnderLock(w, batch) ==
    LET added == Store!WithBatch(queue, batch) IN
    /\ step[w] = "idle"
    /\ queueHolder = Nobody
    /\ held' = [held EXCEPT ![w] = added]
    /\ about' = [about EXCEPT ![w] = {}]
    /\ IF added = queue
         THEN Goto(w, "reload") /\ UNCHANGED queueHolder
         ELSE Goto(w, "stage") /\ queueHolder' = w
    /\ UNCHANGED <<queue, temp, logFiles, pending>>

(* Plausible bug: a rejected action may be reviewed again.                 *)
ReviewAgain(w, a, d) ==
    /\ step[w] = "idle"
    /\ queueHolder = Nobody
    /\ queue[a] # {} /\ d \notin queue[a]
    /\ queueHolder' = w
    /\ held' = [held EXCEPT ![w] = [queue EXCEPT ![a] = @ \cup {d}]]
    /\ about' = [about EXCEPT ![w] = {a}]
    /\ Goto(w, "stage")
    /\ UNCHANGED <<queue, temp, logFiles, pending>>

(* actions approve and reject, transition under the lock: only a pending   *)
(* action can be approved; a pending one can be rejected, and so can one   *)
(* that was approved.  Any other review raises and changes nothing.  (So   *)
(* can a failed one; executions are left to module Writeback.)             *)
ReviewUnderLock(w, a, d) ==
    /\ step[w] = "idle"
    /\ queueHolder = Nobody
    /\ \/ queue[a] = {"pending_review"}
       \/ d \in Rejections /\ queue[a] # {} /\ queue[a] \cap Rejections = {}
    /\ queueHolder' = w
    /\ held' = [held EXCEPT ![w] = [queue EXCEPT ![a] = @ \cup {d}]]
    /\ about' = [about EXCEPT ![w] = {a}]
    /\ Goto(w, "stage")
    /\ UNCHANGED <<queue, temp, logFiles, pending>>

(* _save_unlocked: the temporary file is written, ...                      *)
Stage(w) ==
    /\ step[w] = "stage"
    /\ temp' = held[w]
    /\ Goto(w, "publish")
    /\ UNCHANGED <<queue, queueHolder, logFiles, held, about, pending>>

(* ... and renamed; the lock is free again.                                *)
Publish(w) ==
    /\ step[w] = "publish"
    /\ queue' = temp
    /\ temp' = NoFile
    /\ queueHolder' = Nobody
    /\ Goto(w, IF about[w] = {} THEN "reload" ELSE "record")
    /\ UNCHANGED <<logFiles, held, about, pending>>

(* Plausible bug: the error of a save is swallowed.                        *)
SaveErrorIgnored(w) ==
    /\ step[w] \in {"stage", "publish"}
    /\ temp' = NoFile
    /\ queueHolder' = Nobody
    /\ Goto(w, IF about[w] = {} THEN "reload" ELSE "record")
    /\ UNCHANGED <<queue, logFiles, held, about, pending>>

(* Either of the two raises: the finally clause removes the file.          *)
SaveFails(w) ==
    /\ step[w] \in {"stage", "publish"}
    /\ temp' = NoFile
    /\ queueHolder' = Nobody
    /\ Ends(w)
    /\ UNCHANGED <<queue, logFiles>>

(* actions build and the previews load the queue: what they log is the     *)
(* history of every action in it, or of the one that the console previews. *)
Reload(w) ==
    /\ step[w] = "reload"
    /\ queueHolder = Nobody
    /\ held' = [held EXCEPT ![w] = queue]
    /\ \E A \in {Actions} \cup {{a} : a \in Actions} : about' = [about EXCEPT ![w] = A]
    /\ Goto(w, "record")
    /\ UNCHANGED <<queueFiles, logFiles, pending>>

(* Plausible bug: every event is taken for a new one.                      *)
RecordAll(w) ==
    /\ step[w] = "record"
    /\ logHolder = Nobody
    /\ Loadable
    /\ pending' = [pending EXCEPT ![w] = EventsOf(held[w], about[w])]
    /\ logHolder' = w
    /\ Goto(w, "append")
    /\ UNCHANGED <<queueFiles, log, open, reported, held, about>>

(* Plausible bug: an action with a line in the log is taken for logged.    *)
RecordByAction(w) ==
    LET new == {e \in EventsOf(held[w], about[w]) : \A f \in Logged : f.of # e.of} IN
    /\ step[w] = "record"
    /\ logHolder = Nobody
    /\ Loadable
    /\ IF new = {}
         THEN /\ reported' = reported \cup EventsOf(held[w], about[w])
              /\ Ends(w)
              /\ UNCHANGED logHolder
         ELSE /\ logHolder' = w
              /\ pending' = [pending EXCEPT ![w] = new]
              /\ Goto(w, "append")
              /\ UNCHANGED <<reported, held, about>>
    /\ UNCHANGED <<queueFiles, log, open>>

(* append_unique under the lock: events that are there are skipped, and    *)
(* when all are it has nothing to write.                                   *)
Record(w) ==
    LET new == EventsOf(held[w], about[w]) \ Logged IN
    /\ step[w] = "record"
    /\ logHolder = Nobody
    /\ Loadable
    /\ IF new = {}
         THEN /\ reported' = reported \cup EventsOf(held[w], about[w])
              /\ Ends(w)
              /\ UNCHANGED logHolder
         ELSE /\ logHolder' = w
              /\ pending' = [pending EXCEPT ![w] = new]
              /\ Goto(w, "append")
              /\ UNCHANGED <<reported, held, about>>
    /\ UNCHANGED <<queueFiles, log, open>>

(* The lines are in the order of the queue, which is some order, and those *)
(* of an action in that of its history: its creation comes first and its   *)
(* rejection last.                                                         *)
Precedes(e, f) ==
    /\ e.of = f.of /\ e # f
    /\ e.stage = "pending_review" \/ f.stage \in Rejections

Texts(w) ==
    {text \in Bijection(1 .. Cardinality(pending[w]), pending[w]) :
        \A i, j \in DOMAIN text : Precedes(text[i], text[j]) => i < j}

AppendLines(w) ==
    /\ step[w] = "append"
    /\ \E text \in Texts(w) : log' = Joined(Lines(text))
    /\ open' = FALSE
    /\ logHolder' = Nobody
    /\ reported' = reported \cup EventsOf(held[w], about[w])
    /\ Ends(w)
    /\ UNCHANGED queueFiles

(* The disk is full, the flush fails or the process dies in the write: of  *)
(* the lines some are whole, the next one is in part or lacks its end.     *)
CutAppend(w) ==
    /\ CutWrites
    /\ step[w] = "append"
    /\ \E text \in Texts(w), k \in 0 .. Cardinality(pending[w]) :
          \E rest \in IF k = Len(text) THEN {<<>>}
                      ELSE {<<>>, <<Torn>>, <<Lines(text)[k + 1]>>} :
             LET written == SubSeq(Lines(text), 1, k) \o rest IN
             /\ log' = Joined(written)
             /\ open' = IF written = <<>> THEN open ELSE rest # <<>>
    /\ logHolder' = Nobody
    /\ Ends(w)
    /\ UNCHANGED <<queueFiles, reported>>

(* The lock is not free in time, or the log does not load.                 *)
GiveUp(w) ==
    /\ \/ step[w] = "reload" /\ queueHolder # Nobody
       \/ step[w] = "record" /\ (logHolder # Nobody \/ ~Loadable)
    /\ Ends(w)
    /\ UNCHANGED <<queueFiles, logFiles>>

(* The process dies between two file operations, or in the write of the    *)
(* temporary file; the operating system frees its locks.                   *)
Crash(w) ==
    /\ step[w] # "idle"
    /\ Ends(w)
    /\ temp' \in IF step[w] = "stage" THEN {temp, Partial} ELSE {temp}
    /\ queueHolder' = IF queueHolder = w THEN Nobody ELSE queueHolder
    /\ logHolder' = IF logHolder = w THEN Nobody ELSE logHolder
    /\ UNCHANGED <<queue, log, open, reported>>

Next ==
    \E w \in Workers :
       \/ \E batch \in SUBSET Actions : EnqueueUnderLock(w, batch)
       \/ \E a \in Actions, d \in Reviews : ReviewUnderLock(w, a, d)
       \/ Stage(w) \/ Publish(w) \/ SaveFails(w) \/ Reload(w)
       \/ Record(w) \/ AppendLines(w) \/ CutAppend(w) \/ GiveUp(w) \/ Crash(w)

Spec == Init /\ [][Next]_vars

-----------------------------------------------------------------------------
(* Neither file is ever half of a version: the queue file holds a whole    *)
(* one, whatever happens to the temporary file.                            *)
FilesTypeOK ==
    /\ queue \in Contents
    /\ temp \in Contents \cup {NoFile, Partial}
    /\ queueHolder \in Workers \cup {Nobody}
    /\ log \in Seq(Events \cup {Torn})
    /\ open \in BOOLEAN
    /\ logHolder \in Workers \cup {Nobody}
    /\ step \in [Workers -> Steps]
    /\ held \in [Workers -> Contents]
    /\ about \in [Workers -> SUBSET Actions]
    /\ pending \in [Workers -> SUBSET Events]
    /\ reported \subseteq Events

(* stage3_idempotency_and_retry.md: the lock covers the whole critical     *)
(* section, so no command undoes another and each file update is one step  *)
(* of module QueueStore.                                                   *)
StoreIsAtomic == Store!StoreSpec

(* The queue is saved before the log is written, so that every line tells  *)
(* of something that is in the queue.                                      *)
LogBehindQueue == Logged \subseteq EventsOf(queue, Actions)

(* Retries, backfills and concurrent commands never log an event twice,    *)
(* which would make the log unreadable.                                    *)
NoLineTwice ==
    \A i, j \in DOMAIN log : log[i] # Torn /\ log[i] = log[j] => i = j

(* An append that returned has all its events in the log from then on,     *)
(* those it skipped as already there included, as long as the log loads: a *)
(* lost event never goes unnoticed.                                        *)
ReportedIsLogged == Loadable => reported \subseteq Logged

(* stage3_audit_log.md:50: every event occupies a line of JSON of its own. *)
EachEventOnItsLine == \A i \in DOMAIN log : log[i] # Torn
=============================================================================
