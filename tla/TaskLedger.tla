----------------------------- MODULE TaskLedger -----------------------------
(***************************************************************************)
(* The durable task ledger (task_ledger.py), its garbage collector         *)
(* (task_gc.py) and the pins of collected tasks (provider.py).             *)
(*                                                                         *)
(* A task is a directory with state.json, replaced atomically, and         *)
(* results.jsonl, appended to.  Every operation loads the state, changes   *)
(* the copy and saves it, and runs in a process of its own (a CLI call, or *)
(* the provider at the end of a session); there is no lock.  The collector *)
(* reads a state, then moves or removes the directory.                     *)
(***************************************************************************)
EXTENDS Integers, FiniteSets, Sequences

CONSTANTS
    Clients,     \* processes working on the ledger
    Tasks,       \* task ids
    Ops,         \* which operations they run
    MaxCalls,    \* bound: operations run in a behaviour
    MaxClock,    \* bound: ticks of the clock
    Retention,   \* retention_days, in ticks
    Grace,       \* archive_grace_days, in ticks; 0 turns the second stage off
    Modes        \* the modes the collector is run in

ASSUME LedgerAssumption ==
    /\ Ops \subseteq {"create", "advance", "complete", "hold", "unhold", "pin", "gc"}
    /\ MaxCalls \in Nat /\ MaxClock \in Nat /\ Retention \in Nat /\ Grace \in Nat
    /\ Modes \subseteq {"archive", "delete"}

Never == 0           \* no completed_at
None == -1           \* last_successful_iteration of a new task
NoTask == "no task"

(* state.json of a new task, and a missing one. *)
Fresh == [status |-> "running", current |-> 0, lastOk |-> None, hold |-> FALSE,
          completedAt |-> Never]
NoState == [status |-> "missing"]
NoDir == [state |-> NoState]

VARIABLES
    overlaps,  \* whether operations overlap and die; chosen at the start
    dir,       \* the directory of each task
    archive,   \* the directories of each task under archive/, purged ones NoDir
    pins,      \* tasks with an active_task memory in the store
    clock,     \* the time
    op,        \* the operation each process is in
    calls,     \* number of operations begun, bounded by MaxCalls
    (* history: *)
    logged,    \* number of result lines ever written for each task
    purged,    \* number of them removed by the collector with their directory
    taken,     \* the directories collected so far: the task, its state, whether it was the first
    completed, \* tasks that were complete once and have not been re-created
    stale      \* tasks whose state was replaced from a copy that was no longer current

vars == <<overlaps, dir, archive, pins, clock, op, calls, logged, purged, taken, completed, stale>>

Here(t) == dir[t] # NoDir
HasState(t) == dir[t].state # NoState

NoOp == [kind |-> "idle", pc |-> "idle", task |-> NoTask, state |-> Fresh, now |-> 0,
         mode |-> "archive", todo |-> {}, collected |-> {}]

Init ==
    /\ overlaps \in BOOLEAN
    /\ dir = [t \in Tasks |-> NoDir]
    /\ archive = [t \in Tasks |-> <<>>]
    /\ pins = {}
    /\ clock = 1
    /\ op = [c \in Clients |-> NoOp]
    /\ calls = 0
    /\ logged = [t \in Tasks |-> 0]
    /\ purged = [t \in Tasks |-> 0]
    /\ taken = {}
    /\ completed = {}
    /\ stale = {}

Goto(c, pc) == op' = [op EXCEPT ![c].pc = pc]
Return(c) == op' = [op EXCEPT ![c] = NoOp]

MayCall(c, kind) ==
    /\ kind \in Ops
    /\ op[c].pc = "idle"
    /\ overlaps \/ \A d \in Clients : op[d].pc = "idle"
    /\ calls < MaxCalls
    /\ calls' = calls + 1

-----------------------------------------------------------------------------
(* Files.  Writing a file makes the directory when it is not there. *)

WriteState(t, s) ==
    dir' = [dir EXCEPT ![t] =
              [state |-> s, results |-> IF Here(t) THEN dir[t].results ELSE <<>>]]

(* was: the state the operation found when it began.                         *)
NoteStale(t, was) == stale' = IF dir[t].state = was THEN stale ELSE stale \cup {t}

AppendResult(t, line) ==
    /\ dir' = [dir EXCEPT ![t] =
                 [state |-> dir[t].state,
                  results |-> Append(IF Here(t) THEN dir[t].results ELSE <<>>, line)]]
    /\ logged' = [logged EXCEPT ![t] = @ + 1]

MakeDir(t) ==
    dir' = IF Here(t) THEN dir
           ELSE [dir EXCEPT ![t] = [state |-> NoState, results |-> <<>>]]

-----------------------------------------------------------------------------
(* create_task: refuses a task whose state.json exists. *)
CreateCheck(c, t) ==
    /\ MayCall(c, "create")
    /\ ~HasState(t)
    /\ op' = [op EXCEPT ![c] = [NoOp EXCEPT !.kind = "create", !.pc = "create", !.task = t]]
    /\ UNCHANGED <<overlaps, dir, archive, pins, clock, logged, purged, taken, completed, stale>>

CreateWrite(c) ==
    /\ op[c].pc = "create"
    /\ WriteState(op[c].task, Fresh)
    /\ NoteStale(op[c].task, NoState)
    /\ completed' = completed \ {op[c].task}
    /\ Return(c)
    /\ UNCHANGED <<overlaps, archive, pins, clock, calls, logged, purged, taken>>

(* The other operations start with load_state. *)
Load(c, kind, t) ==
    /\ MayCall(c, kind)
    /\ HasState(t)
    /\ op' = [op EXCEPT ![c] = [NoOp EXCEPT !.kind = kind, !.pc = kind, !.task = t,
                                            !.state = dir[t].state]]
    /\ UNCHANGED <<overlaps, dir, archive, pins, clock, logged, purged, taken, completed, stale>>

(* advance_iteration logs the result, then saves the counter. *)

(* Mutant: an iteration after the completion sets the task running again. *)
AdvancedReopens(s) == [s EXCEPT !.lastOk = s.current, !.current = @ + 1, !.status = "running"]

Advanced(s) == [s EXCEPT !.lastOk = s.current, !.current = @ + 1]

(* Mutant: only passing results are logged. *)
AdvanceLogPass(c) ==
    /\ op[c].pc = "advance"
    /\ \/ AppendResult(op[c].task, [iteration |-> op[c].state.current, result |-> "pass"])
       \/ UNCHANGED <<dir, logged>>
    /\ Goto(c, "save")
    /\ UNCHANGED <<overlaps, archive, pins, clock, calls, purged, taken, completed, stale>>

AdvanceLog(c) ==
    /\ op[c].pc = "advance"
    /\ \E result \in {"pass", "fail"} :
          AppendResult(op[c].task, [iteration |-> op[c].state.current, result |-> result])
    /\ Goto(c, "save")
    /\ UNCHANGED <<overlaps, archive, pins, clock, calls, purged, taken, completed, stale>>

AdvanceSave(c) ==
    /\ op[c].pc = "save"
    /\ WriteState(op[c].task, Advanced(op[c].state))
    /\ NoteStale(op[c].task, op[c].state)
    /\ Return(c)
    /\ UNCHANGED <<overlaps, archive, pins, clock, calls, logged, purged, taken, completed>>

(* complete_task saves the state, then logs an event. *)
Completed(s) == [s EXCEPT !.status = "complete", !.completedAt = clock]

CompleteSave(c) ==
    /\ op[c].pc = "complete"
    /\ WriteState(op[c].task, Completed(op[c].state))
    /\ NoteStale(op[c].task, op[c].state)
    /\ completed' = completed \cup {op[c].task}
    /\ Goto(c, "event")
    /\ UNCHANGED <<overlaps, archive, pins, clock, calls, logged, purged, taken>>

CompleteEvent(c) ==
    /\ op[c].pc = "event"
    /\ MakeDir(op[c].task)
    /\ Return(c)
    /\ UNCHANGED <<overlaps, archive, pins, clock, calls, logged, purged, taken, completed, stale>>

(* set_task_hold *)
HoldSave(c) ==
    /\ op[c].pc \in {"hold", "unhold"}
    /\ WriteState(op[c].task, [op[c].state EXCEPT !.hold = (op[c].kind = "hold")])
    /\ NoteStale(op[c].task, op[c].state)
    /\ Return(c)
    /\ UNCHANGED <<overlaps, archive, pins, clock, calls, logged, purged, taken, completed>>

(* "task pin" stores a memory naming the state it has loaded. *)
PinStore(c) ==
    /\ op[c].pc = "pin"
    /\ pins' = pins \cup {op[c].task}
    /\ Return(c)
    /\ UNCHANGED <<overlaps, dir, archive, clock, calls, logged, purged, taken, completed, stale>>

-----------------------------------------------------------------------------
(* run_task_gc, at the end of a session or from the CLI: first the task     *)
(* directories there are, one by one.  The time is taken at the start.      *)
GcBegin(c) ==
    /\ MayCall(c, "gc")
    /\ \E mode \in Modes :
          op' = [op EXCEPT ![c] = [NoOp EXCEPT !.kind = "gc", !.pc = "scan", !.now = clock,
                                               !.mode = mode,
                                               !.todo = {t \in Tasks : Here(t)}]]
    /\ UNCHANGED <<overlaps, dir, archive, pins, clock, logged, purged, taken, completed, stale>>

(* Held, running and recently completed tasks are skipped. *)
Due(s, now) ==
    /\ ~s.hold
    /\ s.status = "complete"
    /\ now - s.completedAt >= Retention

(* _gc_task reads the state and decides. *)
GcRead(c) ==
    /\ op[c].pc = "scan"
    /\ \E t \in op[c].todo :
          LET s == dir[t].state IN
          op' = [op EXCEPT ![c].todo = @ \ {t},
                           ![c].task = t,
                           ![c].pc =
                             IF s # NoState /\ Due(s, op[c].now) THEN "collect" ELSE "scan"]
    /\ UNCHANGED <<overlaps, dir, archive, pins, clock, calls, logged, purged, taken, completed, stale>>

(* Mutant: an archived directory of the same name is replaced. *)
ArchiveOver(t) == archive' = [archive EXCEPT ![t] = <<dir[t]>>]

(* _archive_dest: a name of its own when the task was archived before. *)
ArchiveDir(t) == archive' = [archive EXCEPT ![t] = Append(@, dir[t])]

Archive(t) == ArchiveDir(t) /\ UNCHANGED purged

Delete(t) ==
    /\ purged' = [purged EXCEPT ![t] = @ + Len(dir[t].results)]
    /\ UNCHANGED archive

Taking(t) == [task |-> t, state |-> dir[t].state, first |-> \A x \in taken : x.task # t]

(* Mutant: the move is forgotten in the result. *)
CollectSilently(c) ==
    /\ op[c].pc = "collect"
    /\ LET t == op[c].task IN
       IF Here(t)
       THEN /\ IF op[c].mode = "archive" THEN Archive(t) ELSE Delete(t)
            /\ dir' = [dir EXCEPT ![t] = NoDir]
            /\ taken' = taken \cup {Taking(t)}
            /\ Goto(c, "scan")
       ELSE Goto(c, "scan") /\ UNCHANGED <<dir, archive, purged, taken>>
    /\ UNCHANGED <<overlaps, pins, clock, calls, logged, completed, stale>>

(* _collect_task: moves or removes what is there now; a directory that is   *)
(* gone is an error in the result.                                          *)
GcCollect(c) ==
    /\ op[c].pc = "collect"
    /\ LET t == op[c].task IN
       IF Here(t)
       THEN /\ IF op[c].mode = "archive" THEN Archive(t) ELSE Delete(t)
            /\ dir' = [dir EXCEPT ![t] = NoDir]
            /\ taken' = taken \cup {Taking(t)}
            /\ op' = [op EXCEPT ![c].pc = "scan", ![c].collected = @ \cup {t}]
       ELSE Goto(c, "scan") /\ UNCHANGED <<dir, archive, purged, taken>>
    /\ UNCHANGED <<overlaps, pins, clock, calls, logged, completed, stale>>

GcScanned(c) ==
    /\ op[c].pc = "scan" /\ op[c].todo = {}
    /\ Goto(c, IF Grace > 0 THEN "purge" ELSE "pins")
    /\ UNCHANGED <<overlaps, dir, archive, pins, clock, calls, logged, purged, taken, completed, stale>>

(* Past retention and grace.  A directory that was moved away although its  *)
(* task ran again has no completed_at; the age of its updated_at, which     *)
(* this module does not track, then decides.                                *)
PastGrace(s, now) ==
    /\ s # NoState
    /\ ~s.hold
    /\ s.completedAt # Never => now - s.completedAt >= Retention + Grace

(* _purge_archive removes such a directory.  Nothing writes into archive/,  *)
(* so the read and the removal are one step.                                *)
GcPurge(c) ==
    /\ op[c].pc = "purge"
    /\ \E t \in Tasks : \E k \in 1 .. Len(archive[t]) :
          /\ PastGrace(archive[t][k].state, op[c].now)
          /\ archive' = [archive EXCEPT ![t][k] = NoDir]
          /\ purged' = [purged EXCEPT ![t] = @ + Len(archive[t][k].results)]
    /\ UNCHANGED <<overlaps, dir, pins, clock, op, calls, logged, taken, completed, stale>>

GcPurged(c) ==
    /\ op[c].pc = "purge"
    /\ \/ overlaps
       \/ \A t \in Tasks : \A k \in 1 .. Len(archive[t]) :
             ~PastGrace(archive[t][k].state, op[c].now)
    /\ Goto(c, "pins")
    /\ UNCHANGED <<overlaps, dir, archive, pins, clock, calls, logged, purged, taken, completed, stale>>

(* _soft_delete_task_pin for each task that was collected. *)
GcUnpin(c) ==
    /\ op[c].pc = "pins"
    /\ \E t \in op[c].collected :
          /\ pins' = pins \ {t}
          /\ op' = [op EXCEPT ![c].collected = @ \ {t}]
    /\ UNCHANGED <<overlaps, dir, archive, clock, calls, logged, purged, taken, completed, stale>>

GcDone(c) ==
    /\ op[c].pc = "pins" /\ op[c].collected = {}
    /\ Return(c)
    /\ UNCHANGED <<overlaps, dir, archive, pins, clock, calls, logged, purged, taken, completed, stale>>

-----------------------------------------------------------------------------
(* A process dies, or a file operation raises. *)
Die(c) ==
    /\ overlaps
    /\ op[c].pc # "idle"
    /\ Return(c)
    /\ UNCHANGED <<overlaps, dir, archive, pins, clock, calls, logged, purged, taken, completed, stale>>

Tick ==
    /\ clock < MaxClock
    /\ clock' = clock + 1
    /\ UNCHANGED <<overlaps, dir, archive, pins, op, calls, logged, purged, taken, completed, stale>>

Step(c) ==
    \/ \E t \in Tasks :
          \/ CreateCheck(c, t)
          \/ \E kind \in {"advance", "complete", "hold", "unhold", "pin"} : Load(c, kind, t)
    \/ CreateWrite(c)
    \/ AdvanceLog(c) \/ AdvanceSave(c)
    \/ CompleteSave(c) \/ CompleteEvent(c)
    \/ HoldSave(c) \/ PinStore(c)
    \/ GcBegin(c) \/ GcRead(c) \/ GcCollect(c) \/ GcScanned(c)
    \/ GcPurge(c) \/ GcPurged(c) \/ GcUnpin(c) \/ GcDone(c)
    \/ Die(c)

Next == (\E c \in Clients : Step(c)) \/ Tick

Spec == Init /\ [][Next]_vars

-----------------------------------------------------------------------------
(* Properties. *)

Quiet == \A c \in Clients : op[c].pc = "idle"

(* "session restarts cannot silently lose task progress": every iteration    *)
(* the state counts has its line in results.jsonl, wherever a process dies   *)
(* and however the operations of two processes overlap, until the directory  *)
(* is collected.                                                             *)
IterationsLogged ==
    \A t \in Tasks : HasState(t) /\ (\A x \in taken : x.task # t) =>
        \A n \in 0 .. dir[t].state.current - 1 :
            \E k \in 1 .. Len(dir[t].results) : dir[t].results[k].iteration = n

(* Archiving keeps "the results.jsonl / events.jsonl audit trail": each line *)
(* ever written is in the task's directory or in one of its archived ones    *)
(* unless the collector removed the directory with it, also when a process   *)
(* writes to a task while it is being moved away.                            *)
NoResultLost ==
    \A t \in Tasks :
        LET linesIn(d) == IF d = NoDir THEN 0 ELSE Len(d.results)
            lines[k \in 0 .. Len(archive[t])] ==
                IF k = 0 THEN linesIn(dir[t]) ELSE lines[k - 1] + linesIn(archive[t][k])
        IN lines[Len(archive[t])] + purged[t] = logged[t]

(* "Mark a task as complete": it does not turn up as running again, unless   *)
(* operations overlap.                                                       *)
CompletionSticks ==
    ~overlaps => \A t \in completed : HasState(t) => dir[t].state.status = "complete"

(* What a task has achieved is not lost: neither its iterations nor its       *)
(* completion.                                                                *)
ProgressKept == IterationsLogged /\ CompletionSticks

(* "Running tasks are never touched": the collector reads a state, decides,  *)
(* and moves whatever directory is there by then, and nothing is looked at   *)
(* again in between.  What it moves is a complete task all the same, however *)
(* operations overlap and wherever they die, unless a state was saved from a *)
(* copy that was no longer current, or the task was created anew after an    *)
(* earlier collection.                                                       *)
RunningNeverTouched ==
    \A x \in taken :
        x.first /\ x.task \notin stale => x.state # NoState /\ x.state.status = "complete"

(* After a collection, "the pin's state_path can never dangle": with no      *)
(* operation running and none that died half-way, a pinned task is there.    *)
PinsResolve == ~overlaps /\ Quiet => \A t \in pins : HasState(t)
=============================================================================
