-------------------------- MODULE TaskLedgerProofs --------------------------
(***************************************************************************)
(* Theorems about TaskLedger, for any processes, tasks, operations and     *)
(* bounds: iterations stay logged and completed tasks complete; a task is  *)
(* collected only when it is complete, and no pin of it is left;           *)
(* and no line of results is lost, which needs an induction over the       *)
(* archived directories of a task.                                         *)
(***************************************************************************)
EXTENDS TaskLedger, TLAPS, SequenceTheorems, WellFoundedInduction

-----------------------------------------------------------------------------
(* Types. *)

TaskState == [status : {"running", "complete"}, current : Nat, lastOk : Int,
              hold : BOOLEAN, completedAt : Nat]
Line == [iteration : Nat, result : {"pass", "fail"}]
Directory == [state : TaskState \cup {NoState}, results : Seq(Line)]

(* Operations that have loaded the state of their task.                      *)
Loaded == {"advance", "save", "complete", "hold", "unhold", "pin"}
Collecting == {"scan", "collect", "purge", "pins"}

Kinds == {"idle", "create", "advance", "complete", "hold", "unhold", "pin", "gc"}

Operation == [kind : Kinds, pc : Loaded \cup Collecting \cup {"idle", "create", "event"},
              task : Tasks \cup {NoTask}, state : TaskState, now : Nat,
              mode : {"archive", "delete"}, todo : SUBSET Tasks, collected : SUBSET Tasks]

OperationOK(o) ==
    /\ o.pc \in Loaded \cup {"create", "event", "collect"} => o.task \in Tasks
    /\ o.pc \notin Collecting => o.collected = {}
    /\ o.now <= clock

TypeOK ==
    /\ overlaps \in BOOLEAN
    /\ dir \in [Tasks -> Directory \cup {NoDir}]
    /\ archive \in [Tasks -> Seq(Directory \cup {NoDir})]
    /\ pins \subseteq Tasks
    /\ clock \in Nat
    /\ op \in [Clients -> Operation]
    /\ \A c \in Clients : OperationOK(op[c])
    /\ calls \in Nat
    /\ logged \in [Tasks -> Nat]
    /\ purged \in [Tasks -> Nat]
    /\ taken \subseteq [task : Tasks, state : TaskState \cup {NoState}, first : BOOLEAN]
    /\ completed \subseteq Tasks /\ stale \subseteq Tasks

LEMMA FreshType == Fresh \in TaskState
BY DEF Fresh, TaskState, None, Never

LEMMA NoOpType == NoOp \in Operation /\ NoOp.pc = "idle" /\ NoOp.collected = {} /\ NoOp.now = 0
BY FreshType DEF NoOp, Operation, Kinds

LEMMA AdvancedType == \A s \in TaskState : Advanced(s) \in TaskState
<1> SUFFICES ASSUME NEW s \in TaskState PROVE Advanced(s) \in TaskState
  OBVIOUS
<1>1. s.current \in Int /\ s.current + 1 \in Nat
  BY DEF TaskState
<1>2. [s EXCEPT !.lastOk = s.current] \in TaskState
  BY <1>1 DEF TaskState
<1> QED BY <1>1, <1>2 DEF TaskState, Advanced

(* The operations as they begin. *)
LEMMA CreateType ==
    ASSUME clock \in Nat, NEW t \in Tasks
    PROVE  LET o == [NoOp EXCEPT !.kind = "create", !.pc = "create", !.task = t]
           IN o \in Operation /\ OperationOK(o)
<1>1. [NoOp EXCEPT !.kind = "create", !.pc = "create", !.task = t] \in Operation
  BY FreshType DEF NoOp, Operation, Kinds
<1> QED BY <1>1 DEF NoOp, OperationOK, Loaded, Collecting

LEMMA LoadType ==
    ASSUME clock \in Nat, NEW t \in Tasks, NEW s \in TaskState,
           NEW kind \in {"advance", "complete", "hold", "unhold", "pin"}
    PROVE  LET o == [NoOp EXCEPT !.kind = kind, !.pc = kind, !.task = t, !.state = s]
           IN o \in Operation /\ OperationOK(o)
<1>1. [NoOp EXCEPT !.kind = kind, !.pc = kind, !.task = t, !.state = s] \in Operation
  BY FreshType DEF NoOp, Operation, Kinds, Loaded
<1> QED BY <1>1 DEF NoOp, OperationOK, Loaded, Collecting

LEMMA GcType ==
    ASSUME clock \in Nat, NEW mode \in {"archive", "delete"}, NEW todo \in SUBSET Tasks
    PROVE  LET o == [NoOp EXCEPT !.kind = "gc", !.pc = "scan", !.now = clock,
                                 !.mode = mode, !.todo = todo]
           IN o \in Operation /\ OperationOK(o)
<1>1. [NoOp EXCEPT !.kind = "gc", !.pc = "scan", !.now = clock, !.mode = mode,
                   !.todo = todo] \in Operation
  BY FreshType DEF NoOp, Operation, Kinds, Collecting
<1> QED BY <1>1 DEF NoOp, OperationOK, Loaded, Collecting

LEMMA DirectoriesAreThere == \A d \in Directory : d # NoDir
<1> SUFFICES ASSUME NEW d \in Directory, d = NoDir PROVE FALSE
  OBVIOUS
<1>1. DOMAIN d = {"state", "results"}
  BY DEF Directory
<1>2. DOMAIN d = {"state"}
  BY DEF NoDir
<1> QED BY <1>1, <1>2

LEMMA StatesAreStates == \A s \in TaskState : s # NoState
<1> SUFFICES ASSUME NEW s \in TaskState, s = NoState PROVE FALSE
  OBVIOUS
<1>1. s.status = "missing"
  BY DEF NoState
<1> QED BY <1>1 DEF TaskState

(* Where a state is, there is a directory. *)
LEMMA HasStateHere ==
    ASSUME TypeOK, NEW t \in Tasks, HasState(t)
    PROVE  Here(t) /\ dir[t] \in Directory /\ dir[t].state \in TaskState
<1>1. dir[t] # NoDir
  BY DEF HasState, NoDir
<1>2. dir[t] \in Directory
  BY <1>1 DEF TypeOK
<1> QED BY <1>1, <1>2 DEF HasState, Here, Directory

(* Results of a directory, or none where there is no directory.              *)
LEMMA ResultsType ==
    ASSUME TypeOK, NEW t \in Tasks
    PROVE  (IF Here(t) THEN dir[t].results ELSE <<>>) \in Seq(Line)
<1>1. CASE Here(t)
  <2>1. dir[t] \in Directory
    BY <1>1 DEF TypeOK, Here
  <2> QED BY <1>1, <2>1 DEF Directory
<1>2. CASE ~Here(t)
  BY <1>2
<1> QED BY <1>1, <1>2

LEMMA WriteStateType ==
    ASSUME TypeOK, NEW t \in Tasks, NEW s \in TaskState, WriteState(t, s)
    PROVE  dir' \in [Tasks -> Directory \cup {NoDir}]
<1>1. [state |-> s, results |-> IF Here(t) THEN dir[t].results ELSE <<>>] \in Directory
  BY ResultsType DEF Directory
<1> QED BY <1>1 DEF TypeOK, WriteState

LEMMA AppendResultType ==
    ASSUME TypeOK, NEW t \in Tasks, NEW line \in Line, AppendResult(t, line)
    PROVE  /\ dir' \in [Tasks -> Directory \cup {NoDir}]
           /\ logged' \in [Tasks -> Nat]
<1> DEFINE results == IF Here(t) THEN dir[t].results ELSE <<>>
<1>1. Append(results, line) \in Seq(Line)
  BY ResultsType
<1>2. dir[t].state \in TaskState \cup {NoState}
  BY DEF TypeOK, Directory, NoDir
<1>3. [state |-> dir[t].state, results |-> Append(results, line)] \in Directory
  BY <1>1, <1>2 DEF Directory
<1> QED BY <1>3 DEF TypeOK, AppendResult

LEMMA MakeDirType ==
    ASSUME TypeOK, NEW t \in Tasks, MakeDir(t)
    PROVE  dir' \in [Tasks -> Directory \cup {NoDir}]
BY DEF TypeOK, MakeDir, Directory

(* A collection moves a directory or counts its lines.                        *)
LEMMA CollectedType ==
    ASSUME TypeOK, NEW t \in Tasks, Here(t), Archive(t) \/ Delete(t)
    PROVE  /\ archive' \in [Tasks -> Seq(Directory \cup {NoDir})]
           /\ purged' \in [Tasks -> Nat]
<1>1. dir[t] \in Directory
  BY DEF TypeOK, Here
<1>2. Append(archive[t], dir[t]) \in Seq(Directory \cup {NoDir})
  BY <1>1 DEF TypeOK
<1>3. Len(dir[t].results) \in Nat
  BY <1>1 DEF Directory
<1>4. CASE Archive(t)
  BY <1>2, <1>4 DEF TypeOK, Archive, ArchiveDir
<1>5. CASE Delete(t)
  BY <1>3, <1>5 DEF TypeOK, Delete
<1> QED BY <1>4, <1>5

(* An operation that goes on, or returns, leaves the others as they are.      *)
LEMMA OperationStep ==
    ASSUME TypeOK, NEW c \in Clients, NEW o \in Operation, OperationOK(o),
           op' = [op EXCEPT ![c] = o], UNCHANGED clock
    PROVE  op' \in [Clients -> Operation] /\ \A d \in Clients : OperationOK(op[d])'
<1>1. op' \in [Clients -> Operation]
  BY DEF TypeOK
<1>2. ASSUME NEW d \in Clients PROVE OperationOK(op[d])'
  <2>1. op'[d] = IF d = c THEN o ELSE op[d]
    BY DEF TypeOK
  <2>2. OperationOK(op[d])
    BY DEF TypeOK
  <2> QED BY <2>1, <2>2 DEF OperationOK
<1> QED BY <1>1, <1>2

LEMMA ReturnStep ==
    ASSUME TypeOK, NEW c \in Clients, Return(c), UNCHANGED clock
    PROVE  op' \in [Clients -> Operation] /\ \A d \in Clients : OperationOK(op[d])'
<1>1. OperationOK(NoOp)
  BY NoOpType DEF TypeOK, OperationOK, Loaded, Collecting
<1> QED BY <1>1, NoOpType, OperationStep DEF Return

LEMMA GotoStep ==
    ASSUME TypeOK, NEW c \in Clients, NEW pc, Goto(c, pc), UNCHANGED clock,
           \/ pc = "save" /\ op[c].pc = "advance"
           \/ pc = "event" /\ op[c].pc = "complete"
           \/ pc \in {"scan", "purge", "pins"} /\ op[c].pc \in Collecting
    PROVE  op' \in [Clients -> Operation] /\ \A d \in Clients : OperationOK(op[d])'
<1> DEFINE o == [op[c] EXCEPT !.pc = pc]
<1>1. op[c] \in Operation /\ OperationOK(op[c])
  BY DEF TypeOK
<1>2. o \in Operation
  BY <1>1 DEF Operation, Loaded, Collecting
<1>3. OperationOK(o)
  BY <1>1 DEF OperationOK, Operation, Loaded, Collecting
<1>4. op' = [op EXCEPT ![c] = o]
  BY DEF Goto
<1> HIDE DEF o
<1> QED BY <1>2, <1>3, <1>4, OperationStep

-----------------------------------------------------------------------------
(* Every step keeps the types.                                               *)
LEMMA TypeStep == TypeOK /\ [Next]_vars => TypeOK'
<1> SUFFICES ASSUME TypeOK, [Next]_vars PROVE TypeOK'
  OBVIOUS
<1> USE LedgerAssumption
<1>1. ASSUME NEW c \in Clients, NEW t \in Tasks, CreateCheck(c, t) PROVE TypeOK'
  <2> DEFINE o == [NoOp EXCEPT !.kind = "create", !.pc = "create", !.task = t]
  <2>1. o \in Operation /\ OperationOK(o)
    BY CreateType DEF TypeOK
  <2>2. op' \in [Clients -> Operation] /\ \A d \in Clients : OperationOK(op[d])'
    <3> HIDE DEF o
    <3> QED BY <1>1, <2>1, OperationStep DEF CreateCheck, o
  <2>3. calls' \in Nat /\ UNCHANGED <<overlaps, dir, archive, pins, clock, logged, purged, taken, completed, stale>>
    BY <1>1 DEF TypeOK, CreateCheck, MayCall
  <2> QED BY <2>2, <2>3 DEF TypeOK
<1>2. ASSUME NEW c \in Clients, NEW t \in Tasks,
             NEW kind \in {"advance", "complete", "hold", "unhold", "pin"}, Load(c, kind, t)
      PROVE  TypeOK'
  <2> DEFINE o == [NoOp EXCEPT !.kind = kind, !.pc = kind, !.task = t, !.state = dir[t].state]
  <2>1. dir[t].state \in TaskState
    BY <1>2, HasStateHere DEF Load
  <2>2. o \in Operation /\ OperationOK(o)
    BY LoadType, <2>1 DEF TypeOK
  <2>3. op' \in [Clients -> Operation] /\ \A d \in Clients : OperationOK(op[d])'
    <3> HIDE DEF o
    <3> QED BY <1>2, <2>2, OperationStep DEF Load, o
  <2>4. calls' \in Nat /\ UNCHANGED <<overlaps, dir, archive, pins, clock, logged, purged, taken, completed, stale>>
    BY <1>2 DEF TypeOK, Load, MayCall
  <2> QED BY <2>3, <2>4 DEF TypeOK
<1>3. ASSUME NEW c \in Clients, CreateWrite(c) \/ AdvanceSave(c) \/ HoldSave(c)
      PROVE  TypeOK'
  <2>1. op[c] \in Operation /\ op[c].task \in Tasks
    BY <1>3 DEF TypeOK, OperationOK, Loaded, CreateWrite, AdvanceSave, HoldSave
  <2>2. /\ Advanced(op[c].state) \in TaskState
        /\ [op[c].state EXCEPT !.hold = (op[c].kind = "hold")] \in TaskState
    <3>1. op[c].state \in TaskState
      BY <2>1 DEF Operation
    <3>2. Advanced(op[c].state) \in TaskState
      BY <3>1, AdvancedType
    <3>3. \A b \in BOOLEAN : [op[c].state EXCEPT !.hold = b] \in TaskState
      BY <3>1 DEF TaskState
    <3>4. (op[c].kind = "hold") \in BOOLEAN
      OBVIOUS
    <3> QED BY <3>2, <3>3, <3>4
  <2>3. dir' \in [Tasks -> Directory \cup {NoDir}]
    BY <1>3, <2>1, <2>2, FreshType, WriteStateType DEF CreateWrite, AdvanceSave, HoldSave
  <2>4. op' \in [Clients -> Operation] /\ \A d \in Clients : OperationOK(op[d])'
    BY <1>3, ReturnStep DEF CreateWrite, AdvanceSave, HoldSave
  <2>5. stale' \subseteq Tasks
    BY <1>3, <2>1 DEF TypeOK, CreateWrite, AdvanceSave, HoldSave, NoteStale
  <2> QED BY <1>3, <2>3, <2>4, <2>5 DEF TypeOK, CreateWrite, AdvanceSave, HoldSave
<1>4. ASSUME NEW c \in Clients, AdvanceLog(c) PROVE TypeOK'
  <2>1. op[c] \in Operation /\ op[c].task \in Tasks
    BY <1>4 DEF TypeOK, OperationOK, Loaded, AdvanceLog
  <2>2. \A result \in {"pass", "fail"} :
           [iteration |-> op[c].state.current, result |-> result] \in Line
    BY <2>1 DEF Operation, TaskState, Line
  <2>3. dir' \in [Tasks -> Directory \cup {NoDir}] /\ logged' \in [Tasks -> Nat]
    BY <1>4, <2>1, <2>2, AppendResultType DEF AdvanceLog
  <2>4. op' \in [Clients -> Operation] /\ \A d \in Clients : OperationOK(op[d])'
    BY <1>4, GotoStep DEF AdvanceLog
  <2> QED BY <1>4, <2>3, <2>4 DEF TypeOK, AdvanceLog
<1>5. ASSUME NEW c \in Clients, CompleteSave(c) PROVE TypeOK'
  <2>1. op[c] \in Operation /\ op[c].task \in Tasks
    BY <1>5 DEF TypeOK, OperationOK, Loaded, CompleteSave
  <2>2. Completed(op[c].state) \in TaskState
    BY <2>1 DEF TypeOK, Operation, TaskState, Completed
  <2>3. dir' \in [Tasks -> Directory \cup {NoDir}]
    BY <1>5, <2>1, <2>2, WriteStateType DEF CompleteSave
  <2>4. op' \in [Clients -> Operation] /\ \A d \in Clients : OperationOK(op[d])'
    BY <1>5, GotoStep DEF CompleteSave
  <2> QED BY <1>5, <2>1, <2>3, <2>4 DEF TypeOK, CompleteSave, NoteStale
<1>6. ASSUME NEW c \in Clients, CompleteEvent(c) \/ PinStore(c) \/ Die(c) \/ GcDone(c)
      PROVE  TypeOK'
  <2>1. op' \in [Clients -> Operation] /\ \A d \in Clients : OperationOK(op[d])'
    BY <1>6, ReturnStep DEF CompleteEvent, PinStore, Die, GcDone
  <2>2. CASE CompleteEvent(c)
    <3>1. op[c].task \in Tasks
      BY <2>2 DEF TypeOK, OperationOK, CompleteEvent
    <3>2. dir' \in [Tasks -> Directory \cup {NoDir}]
      BY <2>2, <3>1, MakeDirType DEF CompleteEvent
    <3> QED BY <2>1, <2>2, <3>2 DEF TypeOK, CompleteEvent
  <2>3. CASE PinStore(c)
    <3>1. op[c].task \in Tasks
      BY <2>3 DEF TypeOK, OperationOK, PinStore, Loaded
    <3> QED BY <2>1, <2>3, <3>1 DEF TypeOK, PinStore
  <2>4. CASE Die(c) \/ GcDone(c)
    BY <2>1, <2>4 DEF TypeOK, Die, GcDone
  <2> QED BY <1>6, <2>2, <2>3, <2>4
<1>7. ASSUME NEW c \in Clients, GcBegin(c) PROVE TypeOK'
  <2>1. PICK mode \in Modes :
           op' = [op EXCEPT ![c] = [NoOp EXCEPT !.kind = "gc", !.pc = "scan", !.now = clock,
                                                !.mode = mode, !.todo = {t \in Tasks : Here(t)}]]
    BY <1>7 DEF GcBegin
  <2> DEFINE o == [NoOp EXCEPT !.kind = "gc", !.pc = "scan", !.now = clock,
                               !.mode = mode, !.todo = {t \in Tasks : Here(t)}]
  <2>2. o \in Operation /\ OperationOK(o)
    BY GcType DEF TypeOK
  <2>3. op' \in [Clients -> Operation] /\ \A d \in Clients : OperationOK(op[d])'
    <3> HIDE DEF o
    <3> QED BY <1>7, <2>1, <2>2, OperationStep DEF GcBegin, o
  <2>4. calls' \in Nat /\ UNCHANGED <<overlaps, dir, archive, pins, clock, logged, purged, taken, completed, stale>>
    BY <1>7 DEF TypeOK, GcBegin, MayCall
  <2> QED BY <2>3, <2>4 DEF TypeOK
<1>8. ASSUME NEW c \in Clients, GcRead(c) PROVE TypeOK'
  <2>1. PICK t \in op[c].todo :
           op' = [op EXCEPT ![c].todo = @ \ {t},
                            ![c].task = t,
                            ![c].pc = IF dir[t].state # NoState /\ Due(dir[t].state, op[c].now)
                                      THEN "collect" ELSE "scan"]
    BY <1>8 DEF GcRead
  <2> DEFINE pc == IF dir[t].state # NoState /\ Due(dir[t].state, op[c].now)
                   THEN "collect" ELSE "scan"
  <2> DEFINE o == [op[c] EXCEPT !.todo = @ \ {t}, !.task = t, !.pc = pc]
  <2>2. op[c] \in Operation /\ OperationOK(op[c]) /\ t \in Tasks
    BY DEF TypeOK, Operation
  <2>3. pc \in {"collect", "scan"}
    OBVIOUS
  <2> HIDE DEF pc
  <2>4. o \in Operation /\ OperationOK(o)
    BY <1>8, <2>2, <2>3 DEF GcRead, Operation, OperationOK, Loaded, Collecting
  <2>5. op' = [op EXCEPT ![c] = o]
    BY <2>1 DEF pc
  <2>6. op' \in [Clients -> Operation] /\ \A d \in Clients : OperationOK(op[d])'
    <3> HIDE DEF o
    <3> QED BY <1>8, <2>4, <2>5, OperationStep DEF GcRead
  <2> QED BY <1>8, <2>6 DEF TypeOK, GcRead
<1>9. ASSUME NEW c \in Clients, GcCollect(c) PROVE TypeOK'
  <2> DEFINE t == op[c].task
  <2>1. op[c] \in Operation /\ OperationOK(op[c]) /\ t \in Tasks /\ op[c].pc = "collect"
    BY <1>9 DEF TypeOK, OperationOK, GcCollect
  <2>2. CASE Here(t)
    <3> DEFINE o == [op[c] EXCEPT !.pc = "scan", !.collected = @ \cup {t}]
    <3>1. o \in Operation /\ OperationOK(o)
      BY <2>1 DEF Operation, OperationOK, Loaded, Collecting
    <3>2. op' = [op EXCEPT ![c] = o]
      BY <1>9, <2>2 DEF GcCollect
    <3>3. op' \in [Clients -> Operation] /\ \A d \in Clients : OperationOK(op[d])'
      <4> HIDE DEF o
      <4> QED BY <1>9, <3>1, <3>2, OperationStep DEF GcCollect
    <3>4. archive' \in [Tasks -> Seq(Directory \cup {NoDir})] /\ purged' \in [Tasks -> Nat]
      BY <1>9, <2>1, <2>2, CollectedType DEF GcCollect
    <3>5. dir[t].state \in TaskState \cup {NoState}
      BY <2>1 DEF TypeOK, Directory, NoDir
    <3>6. dir' = [dir EXCEPT ![t] = NoDir]
          /\ taken' = taken \cup {Taking(t)}
      BY <1>9, <2>2 DEF GcCollect
    <3>7. UNCHANGED <<overlaps, pins, clock, calls, logged, completed, stale>>
      BY <1>9 DEF GcCollect
    <3>8. dir' \in [Tasks -> Directory \cup {NoDir}]
      BY <3>6 DEF TypeOK
    <3>9. taken' \subseteq [task : Tasks, state : TaskState \cup {NoState}, first : BOOLEAN]
      <4>1. (\A x \in taken : x.task # t) \in BOOLEAN
        OBVIOUS
      <4>2. Taking(t) \in [task : Tasks, state : TaskState \cup {NoState}, first : BOOLEAN]
        BY <2>1, <3>5, <4>1 DEF Taking
      <4> QED BY <3>6, <4>2 DEF TypeOK
    <3> QED BY <3>3, <3>4, <3>7, <3>8, <3>9 DEF TypeOK
  <2>3. CASE ~Here(t)
    <3>1. op' \in [Clients -> Operation] /\ \A d \in Clients : OperationOK(op[d])'
      BY <1>9, <2>1, <2>3, GotoStep DEF GcCollect, Collecting
    <3> QED BY <1>9, <2>3, <3>1 DEF TypeOK, GcCollect
  <2> QED BY <2>2, <2>3
<1>10. ASSUME NEW c \in Clients, GcScanned(c) \/ GcPurged(c) PROVE TypeOK'
  <2>1. op' \in [Clients -> Operation] /\ \A d \in Clients : OperationOK(op[d])'
    BY <1>10, GotoStep DEF GcScanned, GcPurged, Collecting
  <2> QED BY <1>10, <2>1 DEF TypeOK, GcScanned, GcPurged
<1>11. ASSUME NEW c \in Clients, GcPurge(c) PROVE TypeOK'
  <2>1. PICK t \in Tasks : \E k \in 1 .. Len(archive[t]) :
           /\ PastGrace(archive[t][k].state, op[c].now)
           /\ archive' = [archive EXCEPT ![t][k] = NoDir]
           /\ purged' = [purged EXCEPT ![t] = @ + Len(archive[t][k].results)]
    BY <1>11 DEF GcPurge
  <2>2. PICK k \in 1 .. Len(archive[t]) :
           /\ PastGrace(archive[t][k].state, op[c].now)
           /\ archive' = [archive EXCEPT ![t][k] = NoDir]
           /\ purged' = [purged EXCEPT ![t] = @ + Len(archive[t][k].results)]
    BY <2>1
  <2>3. archive[t] \in Seq(Directory \cup {NoDir})
    BY DEF TypeOK
  <2>4. [archive[t] EXCEPT ![k] = NoDir] \in Seq(Directory \cup {NoDir})
    BY <2>3
  <2>5. archive[t][k] \in Directory
    <3>1. archive[t][k].state # NoState
      BY <2>2 DEF PastGrace
    <3> QED BY <2>3, <3>1 DEF NoDir
  <2>6. Len(archive[t][k].results) \in Nat
    BY <2>5 DEF Directory
  <2>7. archive' \in [Tasks -> Seq(Directory \cup {NoDir})]
    BY <2>2, <2>4 DEF TypeOK
  <2>8. purged' \in [Tasks -> Nat]
    BY <2>2, <2>6 DEF TypeOK
  <2>9. UNCHANGED <<overlaps, dir, pins, clock, op, calls, logged, taken, completed, stale>>
    BY <1>11 DEF GcPurge
  <2> QED BY <2>7, <2>8, <2>9 DEF TypeOK, OperationOK
<1>12. ASSUME NEW c \in Clients, GcUnpin(c) PROVE TypeOK'
  <2>1. PICK t \in op[c].collected :
           pins' = pins \ {t} /\ op' = [op EXCEPT ![c].collected = @ \ {t}]
    BY <1>12 DEF GcUnpin
  <2> DEFINE o == [op[c] EXCEPT !.collected = @ \ {t}]
  <2>2. op[c] \in Operation /\ OperationOK(op[c])
    BY DEF TypeOK
  <2>3. o \in Operation /\ OperationOK(o) /\ op' = [op EXCEPT ![c] = o]
    BY <1>12, <2>1, <2>2 DEF GcUnpin, Operation, OperationOK, Collecting
  <2>4. op' \in [Clients -> Operation] /\ \A d \in Clients : OperationOK(op[d])'
    <3> HIDE DEF o
    <3> QED BY <1>12, <2>3, OperationStep DEF GcUnpin
  <2> QED BY <1>12, <2>1, <2>4 DEF TypeOK, GcUnpin
<1>13. CASE Tick
  BY <1>13 DEF TypeOK, Tick, OperationOK, Operation
<1>14. CASE UNCHANGED vars
  BY <1>14 DEF TypeOK, vars, OperationOK
<1> QED
  BY <1>1, <1>2, <1>3, <1>4, <1>5, <1>6, <1>7, <1>8, <1>9, <1>10, <1>11, <1>12, <1>13, <1>14
  DEF Next, Step

LEMMA TypeInit == Init => TypeOK
<1> SUFFICES ASSUME Init PROVE TypeOK
  OBVIOUS
<1>1. OperationOK(NoOp)
  BY NoOpType DEF Init, OperationOK, Loaded, Collecting
<1> QED BY <1>1, NoOpType DEF Init, TypeOK

(* The directories, the archive and every operation in flight are well typed. *)
THEOREM TypeCorrect == Spec => []TypeOK
BY TypeInit, TypeStep, PTL DEF Spec

-----------------------------------------------------------------------------
(* The inductive invariant.  What makes iterations stay logged is about the  *)
(* copies: as long as a task was never collected, its directory holds a line *)
(* for every iteration a copy counts, and for the one it is about to count.  *)

LineFor(t, n) == \E k \in 1 .. Len(dir[t].results) : dir[t].results[k].iteration = n
AllLogged(t, s) == \A n \in 0 .. s.current - 1 : LineFor(t, n)
NeverTaken(t) == \A x \in taken : x.task # t

CopyLogged(c) ==
    op[c].pc \in Loaded /\ NeverTaken(op[c].task) =>
        /\ Here(op[c].task)
        /\ AllLogged(op[c].task, op[c].state)
        /\ op[c].pc = "save" => LineFor(op[c].task, op[c].state.current)

LoggedOK == IterationsLogged /\ \A c \in Clients : CopyLogged(c)

(* Where operations do not overlap, one runs at a time, its copy is what is  *)
(* stored, and what it is about to collect is due.                           *)
Active(c) == op[c].pc # "idle"

LoneCopy(c) ==
    /\ \A d \in Clients : Active(c) /\ Active(d) => c = d
    /\ op[c].pc \in Loaded =>
          HasState(op[c].task) /\ dir[op[c].task].state = op[c].state
    /\ op[c].pc = "collect" =>
          /\ HasState(op[c].task)
          /\ Due(dir[op[c].task].state, op[c].now)

PinsKnown == \A t \in pins : HasState(t) \/ \E c \in Clients : t \in op[c].collected

LoneOK ==
    /\ CompletionSticks
    /\ ~overlaps => PinsKnown /\ \A c \in Clients : LoneCopy(c)

(* What a collector has found due is still complete when it is moved, as long *)
(* as the task was never collected and no outdated copy was saved over it.   *)
Condemned(c, t) == op[c].pc = "collect" /\ op[c].task = t
Over(t) == HasState(t) /\ dir[t].state.status = "complete"

TakenOK ==
    /\ RunningNeverTouched
    /\ \A c \in Clients, t \in Tasks :
          Condemned(c, t) /\ NeverTaken(t) /\ t \notin stale => Over(t)

IInv == TypeOK /\ LoggedOK /\ LoneOK /\ TakenOK

-----------------------------------------------------------------------------
(* What writing does to the directories.                                     *)
LEMMA WriteStateDoes ==
    ASSUME TypeOK, NEW t \in Tasks, NEW s \in TaskState, WriteState(t, s)
    PROVE  /\ HasState(t)' /\ Here(t)' /\ dir'[t].state = s
           /\ Here(t) => dir'[t].results = dir[t].results
           /\ \A u \in Tasks \ {t} : dir'[u] = dir[u]
<1>1. dir' \in [Tasks -> Directory \cup {NoDir}]
  BY WriteStateType
<1>2. dir'[t] = [state |-> s, results |-> IF Here(t) THEN dir[t].results ELSE <<>>]
  BY DEF TypeOK, WriteState
<1>3. dir'[t].state = s /\ (Here(t) => dir'[t].results = dir[t].results)
  BY <1>2
<1>4. s # NoState
  BY StatesAreStates
<1>5. dir'[t] # NoDir
  BY <1>3, <1>4 DEF NoDir
<1>6. \A u \in Tasks \ {t} : dir'[u] = dir[u]
  BY DEF TypeOK, WriteState
<1> QED BY <1>3, <1>4, <1>5, <1>6 DEF HasState, Here

LEMMA AppendResultDoes ==
    ASSUME TypeOK, NEW t \in Tasks, NEW line \in Line, AppendResult(t, line)
    PROVE  /\ Here(t)' /\ dir'[t].state = dir[t].state /\ LineFor(t, line.iteration)'
           /\ Here(t) => \A n \in Nat : LineFor(t, n) => LineFor(t, n)'
           /\ \A u \in Tasks \ {t} : dir'[u] = dir[u]
<1> DEFINE results == IF Here(t) THEN dir[t].results ELSE <<>>
<1>1. results \in Seq(Line) /\ (Here(t) => results = dir[t].results)
  BY ResultsType
<1>2. dir'[t] = [state |-> dir[t].state, results |-> Append(results, line)]
  BY DEF TypeOK, AppendResult
<1> HIDE DEF results
<1>3. /\ Len(Append(results, line)) = Len(results) + 1
      /\ Append(results, line)[Len(results) + 1] = line
      /\ \A k \in 1 .. Len(results) : Append(results, line)[k] = results[k]
  BY <1>1
<1>4. dir'[t].results = Append(results, line) /\ dir'[t].state = dir[t].state
  BY <1>2
<1>5. LineFor(t, line.iteration)'
  <2>1. Len(results) + 1 \in 1 .. Len(dir'[t].results)
    BY <1>1, <1>3, <1>4
  <2> QED BY <1>3, <1>4, <2>1 DEF LineFor
<1>6. ASSUME Here(t), NEW n \in Nat, LineFor(t, n) PROVE LineFor(t, n)'
  <2>1. PICK k \in 1 .. Len(results) : results[k].iteration = n
    BY <1>1, <1>6 DEF LineFor
  <2>2. k \in 1 .. Len(dir'[t].results) /\ dir'[t].results[k].iteration = n
    BY <1>1, <1>3, <1>4, <2>1
  <2> QED BY <2>2 DEF LineFor
<1>7. Here(t)'
  <2>1. DOMAIN dir'[t] = {"state", "results"}
    BY <1>2
  <2>2. DOMAIN NoDir = {"state"}
    BY DEF NoDir
  <2> QED BY <2>1, <2>2 DEF Here
<1>8. \A u \in Tasks \ {t} : dir'[u] = dir[u]
  BY DEF TypeOK, AppendResult
<1> QED BY <1>4, <1>5, <1>6, <1>7, <1>8

LEMMA MakeDirDoes ==
    ASSUME TypeOK, NEW t \in Tasks, MakeDir(t)
    PROVE  /\ Here(t) => dir' = dir
           /\ ~Here(t) => ~HasState(t) /\ ~HasState(t)'
           /\ \A u \in Tasks \ {t} : dir'[u] = dir[u]
BY DEF TypeOK, MakeDir, HasState, Here, NoDir

(* Saving is writing some state of the task of the operation.                 *)
LEMMA WritesState ==
    ASSUME TypeOK, NEW c \in Clients,
           CreateWrite(c) \/ AdvanceSave(c) \/ CompleteSave(c) \/ HoldSave(c)
    PROVE  \E t \in Tasks : \E s \in TaskState : WriteState(t, s)
<1>1. op[c] \in Operation /\ op[c].task \in Tasks
  BY DEF TypeOK, OperationOK, Loaded, CreateWrite, AdvanceSave, CompleteSave, HoldSave
<1>2. op[c].state \in TaskState
  BY <1>1 DEF Operation
<1>3. CASE CreateWrite(c)
  BY <1>1, <1>3, FreshType DEF CreateWrite
<1>4. CASE AdvanceSave(c)
  BY <1>1, <1>2, <1>4, AdvancedType DEF AdvanceSave
<1>5. CASE CompleteSave(c)
  <2>1. Completed(op[c].state) \in TaskState
    BY <1>2 DEF TypeOK, TaskState, Completed
  <2> QED BY <1>1, <1>5, <2>1 DEF CompleteSave
<1>6. CASE HoldSave(c)
  <2>1. \A b \in BOOLEAN : [op[c].state EXCEPT !.hold = b] \in TaskState
    BY <1>2 DEF TaskState
  <2>2. (op[c].kind = "hold") \in BOOLEAN
    OBVIOUS
  <2> QED BY <1>1, <1>6, <2>1, <2>2 DEF HoldSave
<1> QED BY <1>3, <1>4, <1>5, <1>6

(* While a task has never been collected, its directory and lines stay.       *)
LEMMA LinesStay ==
    ASSUME TypeOK, [Next]_vars, NEW t \in Tasks, NeverTaken(t)'
    PROVE  /\ NeverTaken(t)
           /\ Here(t) => Here(t)' /\ \A n \in Nat : LineFor(t, n) => LineFor(t, n)'
<1> USE LedgerAssumption
<1>1. ASSUME UNCHANGED <<dir, taken>>
      PROVE  /\ NeverTaken(t)
             /\ Here(t) => Here(t)' /\ \A n \in Nat : LineFor(t, n) => LineFor(t, n)'
  BY <1>1 DEF NeverTaken, Here, LineFor
<1>2. ASSUME NEW u \in Tasks, NEW s \in TaskState, WriteState(u, s), UNCHANGED taken
      PROVE  /\ NeverTaken(t)
             /\ Here(t) => Here(t)' /\ \A n \in Nat : LineFor(t, n) => LineFor(t, n)'
  <2>1. CASE t = u
    BY <1>2, <2>1, WriteStateDoes DEF NeverTaken, LineFor
  <2>2. CASE t # u
    BY <1>2, <2>2, WriteStateDoes DEF NeverTaken, Here, LineFor
  <2> QED BY <2>1, <2>2
<1>3. ASSUME NEW c \in Clients, AdvanceLog(c)
      PROVE  /\ NeverTaken(t)
             /\ Here(t) => Here(t)' /\ \A n \in Nat : LineFor(t, n) => LineFor(t, n)'
  <2>1. op[c].task \in Tasks /\ op[c].state.current \in Nat
    BY <1>3 DEF TypeOK, OperationOK, Operation, TaskState, Loaded, AdvanceLog
  <2>2. PICK line \in Line : AppendResult(op[c].task, line)
    BY <1>3, <2>1 DEF AdvanceLog, Line
  <2>3. CASE t = op[c].task
    BY <1>3, <2>1, <2>2, <2>3, AppendResultDoes DEF NeverTaken, AdvanceLog
  <2>4. CASE t # op[c].task
    BY <1>3, <2>1, <2>2, <2>4, AppendResultDoes DEF NeverTaken, AdvanceLog, Here, LineFor
  <2> QED BY <2>3, <2>4
<1>4. ASSUME NEW c \in Clients, CompleteEvent(c)
      PROVE  /\ NeverTaken(t)
             /\ Here(t) => Here(t)' /\ \A n \in Nat : LineFor(t, n) => LineFor(t, n)'
  <2>1. op[c].task \in Tasks
    BY <1>4 DEF TypeOK, OperationOK, CompleteEvent
  <2> QED BY <1>4, <2>1, MakeDirDoes DEF CompleteEvent, NeverTaken, Here, LineFor
<1>5. ASSUME NEW c \in Clients, GcCollect(c)
      PROVE  /\ NeverTaken(t)
             /\ Here(t) => Here(t)' /\ \A n \in Nat : LineFor(t, n) => LineFor(t, n)'
  <2>1. CASE Here(op[c].task)
    <3>1. t # op[c].task /\ NeverTaken(t)
      <4> DEFINE x == Taking(op[c].task)
      <4>1. taken' = taken \cup {x}
        BY <1>5, <2>1 DEF GcCollect
      <4>2. x.task = op[c].task
        BY DEF Taking
      <4> HIDE DEF x
      <4> QED BY <4>1, <4>2 DEF NeverTaken
    <3>2. dir'[t] = dir[t]
      BY <1>5, <2>1, <3>1 DEF GcCollect, TypeOK
    <3> QED BY <3>1, <3>2 DEF Here, LineFor
  <2>2. CASE ~Here(op[c].task)
    BY <1>1, <1>5, <2>2 DEF GcCollect
  <2> QED BY <2>1, <2>2
<1>6. ASSUME NEW c \in Clients,
             CreateWrite(c) \/ AdvanceSave(c) \/ CompleteSave(c) \/ HoldSave(c)
      PROVE  \E u \in Tasks : \E s \in TaskState : WriteState(u, s) /\ UNCHANGED taken
  BY <1>6, WritesState DEF CreateWrite, AdvanceSave, CompleteSave, HoldSave
<1>7. ASSUME NEW c \in Clients,
             \/ \E u \in Tasks :
                   \/ CreateCheck(c, u)
                   \/ \E kind \in {"advance", "complete", "hold", "unhold", "pin"} : Load(c, kind, u)
             \/ PinStore(c) \/ GcBegin(c) \/ GcRead(c) \/ GcScanned(c) \/ GcPurge(c)
             \/ GcPurged(c) \/ GcUnpin(c) \/ GcDone(c) \/ Die(c)
      PROVE  UNCHANGED <<dir, taken>>
  BY <1>7 DEF CreateCheck, Load, PinStore, GcBegin, GcRead, GcScanned, GcPurge, GcPurged,
     GcUnpin, GcDone, Die
<1>8. CASE Tick \/ UNCHANGED vars
  BY <1>1, <1>8 DEF Tick, vars
<1> QED BY <1>1, <1>2, <1>3, <1>4, <1>5, <1>6, <1>7, <1>8 DEF Next, Step

-----------------------------------------------------------------------------
(* Copies and stored states that a step leaves alone still have their lines.  *)
LEMMA AllLoggedStays ==
    ASSUME TypeOK, [Next]_vars, NEW t \in Tasks, NEW s \in TaskState,
           NeverTaken(t)', Here(t), AllLogged(t, s)
    PROVE  AllLogged(t, s)'
<1>1. s.current \in Nat
  BY DEF TaskState
<1>2. \A n \in 0 .. s.current - 1 : n \in Nat
  BY <1>1
<1>3. \A n \in Nat : LineFor(t, n) => LineFor(t, n)'
  BY LinesStay
<1> QED BY <1>2, <1>3 DEF AllLogged

LEMMA CopyStays ==
    ASSUME TypeOK, [Next]_vars, NEW c \in Clients, op'[c] = op[c], CopyLogged(c)
    PROVE  CopyLogged(c)'
<1> DEFINE t == op[c].task
<1> DEFINE s == op[c].state
<1> SUFFICES ASSUME op[c].pc \in Loaded, NeverTaken(t)'
             PROVE  /\ Here(t)'
                    /\ AllLogged(t, s)'
                    /\ op[c].pc = "save" => LineFor(t, s.current)'
  BY DEF CopyLogged, AllLogged, LineFor, NeverTaken, Here
<1>1. t \in Tasks /\ s \in TaskState /\ s.current \in Nat
  BY DEF TypeOK, OperationOK, Operation, TaskState
<1>2. NeverTaken(t)
  BY <1>1, LinesStay
<1>3. Here(t) /\ AllLogged(t, s) /\ (op[c].pc = "save" => LineFor(t, s.current))
  BY <1>2 DEF CopyLogged
<1>4. Here(t)' /\ AllLogged(t, s)'
  BY <1>1, <1>3, LinesStay, AllLoggedStays
<1>5. op[c].pc = "save" => LineFor(t, s.current)'
  BY <1>1, <1>3, LinesStay
<1> QED BY <1>4, <1>5

LEMMA StoredStays ==
    ASSUME TypeOK, [Next]_vars, NEW t \in Tasks, IterationsLogged,
           HasState(t), NeverTaken(t)', dir'[t].state = dir[t].state
    PROVE  AllLogged(t, dir[t].state)'
<1>1. Here(t) /\ dir[t].state \in TaskState /\ NeverTaken(t)
  BY HasStateHere, LinesStay
<1>2. AllLogged(t, dir[t].state)
  BY <1>1 DEF IterationsLogged, AllLogged, LineFor, NeverTaken
<1> QED BY <1>1, <1>2, AllLoggedStays DEF AllLogged

(* It is enough that a step moves one operation to where it holds no copy,    *)
(* and writes a state whose iterations are logged.                            *)
LEMMA MovesOn ==
    ASSUME TypeOK, [Next]_vars, LoggedOK, NEW c \in Clients,
           \A d \in Clients \ {c} : op'[d] = op[d], CopyLogged(c)',
           \A t \in Tasks : HasState(t)' /\ NeverTaken(t)' =>
               \/ HasState(t) /\ dir'[t].state = dir[t].state
               \/ AllLogged(t, dir[t].state)'
    PROVE  LoggedOK'
<1>1. ASSUME NEW d \in Clients PROVE CopyLogged(d)'
  BY CopyStays DEF LoggedOK
<1>2. ASSUME NEW t \in Tasks, HasState(t)', NeverTaken(t)'
      PROVE  AllLogged(t, dir[t].state)'
  BY <1>2, StoredStays DEF LoggedOK
<1>3. IterationsLogged'
  BY <1>2 DEF IterationsLogged, AllLogged, LineFor, NeverTaken
<1> QED BY <1>1, <1>3 DEF LoggedOK

LEMMA LoggedStep == TypeOK /\ LoggedOK /\ [Next]_vars => LoggedOK'
<1> SUFFICES ASSUME TypeOK, LoggedOK, [Next]_vars PROVE LoggedOK'
  OBVIOUS
<1>t. TypeOK'
  BY TypeStep
<1>0. ASSUME NEW c \in Clients, UNCHANGED dir, CopyLogged(c)',
             \A d \in Clients \ {c} : op'[d] = op[d]
      PROVE  LoggedOK'
  <2>1. \A t \in Tasks : HasState(t)' => HasState(t) /\ dir'[t].state = dir[t].state
    BY <1>0 DEF HasState
  <2> QED BY <1>0, <2>1, MovesOn
<1>1. ASSUME NEW c \in Clients, NEW t \in Tasks, NEW s \in TaskState, WriteState(t, s),
             AllLogged(t, s)', CopyLogged(c)', \A d \in Clients \ {c} : op'[d] = op[d]
      PROVE  LoggedOK'
  <2>1. dir'[t].state = s /\ \A u \in Tasks \ {t} : dir'[u] = dir[u]
    BY <1>1, WriteStateDoes
  <2>2. ASSUME NEW u \in Tasks, HasState(u)'
        PROVE  \/ HasState(u) /\ dir'[u].state = dir[u].state
               \/ AllLogged(u, dir[u].state)'
    <3>1. CASE u = t
      BY <1>1, <2>1, <3>1 DEF AllLogged
    <3>2. CASE u # t
      BY <2>1, <2>2, <3>2 DEF HasState
    <3> QED BY <3>1, <3>2
  <2> QED BY <1>1, <2>2, MovesOn
<1>2. ASSUME NEW c \in Clients, NEW t \in Tasks, CreateCheck(c, t) PROVE LoggedOK'
  <2>1. UNCHANGED dir /\ (\A d \in Clients \ {c} : op'[d] = op[d]) /\ op'[c].pc = "create"
    BY <1>2 DEF TypeOK, CreateCheck, NoOp
  <2> QED BY <1>0, <2>1 DEF CopyLogged, Loaded
<1>3. ASSUME NEW c \in Clients, NEW t \in Tasks,
             NEW kind \in {"advance", "complete", "hold", "unhold", "pin"}, Load(c, kind, t)
      PROVE  LoggedOK'
  <2>1. UNCHANGED <<dir, taken>> /\ \A d \in Clients \ {c} : op'[d] = op[d]
    BY <1>3 DEF TypeOK, Load
  <2>2. op'[c].pc = kind /\ op'[c].task = t /\ op'[c].state = dir[t].state
    BY <1>3 DEF TypeOK, Load, NoOp
  <2>3. Here(t) /\ HasState(t)
    BY <1>3, HasStateHere DEF Load
  <2>4. NeverTaken(t) => AllLogged(t, dir[t].state)
    BY <2>3 DEF LoggedOK, IterationsLogged, NeverTaken, AllLogged, LineFor
  <2>5. CopyLogged(c)'
    BY <2>1, <2>2, <2>3, <2>4 DEF CopyLogged, NeverTaken, Here, AllLogged, LineFor
  <2> QED BY <1>0, <2>1, <2>5
<1>4. ASSUME NEW c \in Clients, CreateWrite(c) PROVE LoggedOK'
  <2>1. PICK t \in Tasks : t = op[c].task
    BY <1>4 DEF TypeOK, OperationOK, CreateWrite
  <2>2. (\A d \in Clients \ {c} : op'[d] = op[d]) /\ op'[c].pc = "idle"
    BY <1>4 DEF TypeOK, CreateWrite, Return, NoOp
  <2>3. AllLogged(t, Fresh)'
    BY DEF AllLogged, Fresh
  <2> QED BY <1>1, <1>4, <2>1, <2>2, <2>3, FreshType DEF CreateWrite, CopyLogged, Loaded
<1>5. ASSUME NEW c \in Clients, AdvanceLog(c) PROVE LoggedOK'
  <2>1. PICK t \in Tasks : op[c] \in Operation /\ t = op[c].task /\ op[c].pc = "advance"
    BY <1>5 DEF TypeOK, OperationOK, Loaded, AdvanceLog
  <2>2. PICK s \in TaskState : s = op[c].state /\ s.current \in Nat
    BY <2>1 DEF Operation, TaskState
  <2>3. PICK line \in Line : line.iteration = s.current /\ AppendResult(t, line)
    BY <1>5, <2>1, <2>2 DEF AdvanceLog, Line
  <2>4. /\ UNCHANGED taken
        /\ \A d \in Clients \ {c} : op'[d] = op[d]
        /\ op'[c].task = t /\ op'[c].state = s
    BY <1>5, <2>1, <2>2 DEF TypeOK, AdvanceLog, Goto, Operation
  <2>5. Here(t)' /\ dir'[t].state = dir[t].state /\ LineFor(t, s.current)'
    BY <2>1, <2>3, AppendResultDoes
  <2>6. \A u \in Tasks \ {t} : dir'[u] = dir[u]
    BY <2>1, <2>3, AppendResultDoes
  <2>7. NeverTaken(t)' => AllLogged(t, s)'
    <3> SUFFICES ASSUME NeverTaken(t)' PROVE AllLogged(t, s)'
      BY DEF AllLogged, LineFor
    <3>1. Here(t) /\ AllLogged(t, s)
      BY <2>1, <2>2, <2>4 DEF LoggedOK, CopyLogged, Loaded, NeverTaken
    <3> QED BY <3>1, AllLoggedStays
  <2>8. CopyLogged(c)'
    BY <2>4, <2>5, <2>7 DEF CopyLogged, NeverTaken, Here, AllLogged, LineFor
  <2>9. \A u \in Tasks : HasState(u)' => HasState(u) /\ dir'[u].state = dir[u].state
    BY <2>1, <2>5, <2>6 DEF HasState
  <2> QED BY <2>4, <2>8, <2>9, MovesOn
<1>6. ASSUME NEW c \in Clients, AdvanceSave(c) PROVE LoggedOK'
  <2>1. PICK t \in Tasks : op[c] \in Operation /\ t = op[c].task /\ op[c].pc = "save"
    BY <1>6 DEF TypeOK, OperationOK, Loaded, AdvanceSave
  <2>2. PICK s \in TaskState : s = op[c].state /\ s.current \in Nat /\ Advanced(s) \in TaskState
    BY <2>1, AdvancedType DEF Operation, TaskState
  <2>3. UNCHANGED taken /\ (\A d \in Clients \ {c} : op'[d] = op[d]) /\ op'[c].pc = "idle"
    BY <1>6 DEF TypeOK, AdvanceSave, Return, NoOp
  <2>4. Advanced(s).current = s.current + 1
    BY <2>2 DEF Advanced, TaskState
  <2>5. ASSUME NeverTaken(t)' PROVE AllLogged(t, Advanced(s))'
    <3>1. Here(t) /\ AllLogged(t, s) /\ LineFor(t, s.current)
      BY <2>1, <2>2, <2>3, <2>5 DEF LoggedOK, CopyLogged, Loaded, NeverTaken
    <3>2. AllLogged(t, s)' /\ LineFor(t, s.current)'
      BY <2>1, <2>2, <2>5, <3>1, AllLoggedStays, LinesStay
    <3>3. \A n \in 0 .. Advanced(s).current - 1 : n \in 0 .. s.current - 1 \/ n = s.current
      BY <2>2, <2>4
    <3>4. \A n \in 0 .. Advanced(s).current - 1 : LineFor(t, n)'
      BY <3>2, <3>3 DEF AllLogged
    <3> QED BY <3>4 DEF AllLogged
  <2>6. dir'[t].state = Advanced(s) /\ \A u \in Tasks \ {t} : dir'[u] = dir[u]
    BY <1>6, <2>1, <2>2, WriteStateDoes DEF AdvanceSave
  <2>7. ASSUME NEW u \in Tasks, HasState(u)', NeverTaken(u)'
        PROVE  \/ HasState(u) /\ dir'[u].state = dir[u].state
               \/ AllLogged(u, dir[u].state)'
    <3>1. CASE u = t
      BY <2>5, <2>6, <2>7, <3>1 DEF AllLogged
    <3>2. CASE u # t
      BY <2>6, <2>7, <3>2 DEF HasState
    <3> QED BY <3>1, <3>2
  <2> QED BY <2>3, <2>7, MovesOn DEF CopyLogged, Loaded
<1>7. ASSUME NEW c \in Clients, CompleteSave(c) \/ HoldSave(c) PROVE LoggedOK'
  <2>1. PICK t \in Tasks : op[c] \in Operation /\ t = op[c].task /\ op[c].pc \in Loaded
    BY <1>7 DEF TypeOK, OperationOK, Loaded, CompleteSave, HoldSave
  <2>2. PICK s \in TaskState : s = op[c].state
    BY <2>1 DEF Operation
  <2>3. /\ UNCHANGED taken
        /\ \A d \in Clients \ {c} : op'[d] = op[d]
        /\ op'[c].pc \in {"event", "idle"}
    BY <1>7, <2>1 DEF TypeOK, CompleteSave, HoldSave, Goto, Return, NoOp, Operation
  <2>4. PICK new \in TaskState : new.current = s.current /\ WriteState(t, new)
    <3>1. CASE CompleteSave(c)
      <4>1. Completed(s) \in TaskState /\ Completed(s).current = s.current
        BY <2>2 DEF TypeOK, Completed, TaskState
      <4> QED BY <2>1, <2>2, <3>1, <4>1 DEF CompleteSave
    <3>2. CASE HoldSave(c)
      <4>1. \A b \in BOOLEAN : /\ [s EXCEPT !.hold = b] \in TaskState
                              /\ [s EXCEPT !.hold = b].current = s.current
        BY <2>2 DEF TaskState
      <4>2. (op[c].kind = "hold") \in BOOLEAN
        OBVIOUS
      <4> QED BY <2>1, <2>2, <3>2, <4>1, <4>2 DEF HoldSave
    <3> QED BY <1>7, <3>1, <3>2
  <2>5. ASSUME NeverTaken(t)' PROVE AllLogged(t, new)'
    <3>1. Here(t) /\ AllLogged(t, s)
      BY <2>1, <2>2, <2>3, <2>5 DEF LoggedOK, CopyLogged, NeverTaken
    <3>2. AllLogged(t, s)'
      BY <2>1, <2>2, <2>5, <3>1, AllLoggedStays
    <3> QED BY <2>4, <3>2 DEF AllLogged
  <2>6. dir'[t].state = new /\ \A u \in Tasks \ {t} : dir'[u] = dir[u]
    BY <2>1, <2>4, WriteStateDoes
  <2>7. ASSUME NEW u \in Tasks, HasState(u)', NeverTaken(u)'
        PROVE  \/ HasState(u) /\ dir'[u].state = dir[u].state
               \/ AllLogged(u, dir[u].state)'
    <3>1. CASE u = t
      BY <2>5, <2>6, <2>7, <3>1 DEF AllLogged
    <3>2. CASE u # t
      BY <2>6, <2>7, <3>2 DEF HasState
    <3> QED BY <3>1, <3>2
  <2> QED BY <2>3, <2>7, MovesOn DEF CopyLogged, Loaded
<1>8. ASSUME NEW c \in Clients, CompleteEvent(c) PROVE LoggedOK'
  <2>1. op[c].task \in Tasks /\ (\A d \in Clients \ {c} : op'[d] = op[d]) /\ op'[c].pc = "idle"
    BY <1>8 DEF TypeOK, OperationOK, CompleteEvent, Return, NoOp
  <2>2. \A u \in Tasks : HasState(u)' => HasState(u) /\ dir'[u].state = dir[u].state
    BY <1>8, <2>1, MakeDirDoes DEF CompleteEvent, HasState
  <2> QED BY <2>1, <2>2, MovesOn DEF CopyLogged, Loaded
<1>9. ASSUME NEW c \in Clients, GcCollect(c) PROVE LoggedOK'
  <2>1. (\A d \in Clients \ {c} : op'[d] = op[d]) /\ op'[c].pc = "scan" /\ op[c].task \in Tasks
    BY <1>9 DEF TypeOK, OperationOK, GcCollect, Goto, Operation
  <2>2. \A u \in Tasks : dir'[u] = dir[u] \/ dir'[u] = NoDir
    BY <1>9 DEF TypeOK, GcCollect
  <2>3. \A u \in Tasks : HasState(u)' => HasState(u) /\ dir'[u].state = dir[u].state
    BY <2>2 DEF HasState, NoDir
  <2> QED BY <2>1, <2>3, MovesOn DEF CopyLogged, Loaded
<1>10. ASSUME NEW c \in Clients, PinStore(c) \/ GcBegin(c) \/ GcRead(c) \/ GcScanned(c)
                 \/ GcPurge(c) \/ GcPurged(c) \/ GcUnpin(c) \/ GcDone(c) \/ Die(c)
       PROVE  LoggedOK'
  <2>1. UNCHANGED dir
    BY <1>10 DEF PinStore, GcBegin, GcRead, GcScanned, GcPurge, GcPurged, GcUnpin, GcDone, Die
  <2>2. \A d \in Clients \ {c} : op'[d] = op[d]
    BY <1>10 DEF TypeOK, PinStore, GcBegin, GcRead, GcScanned, GcPurge, GcPurged, GcUnpin,
       GcDone, Die, Goto, Return
  <2>3. op'[c].pc \in Collecting \cup {"idle"}
    <3>1. op[c] \in Operation
      BY DEF TypeOK
    <3>2. CASE PinStore(c) \/ GcDone(c) \/ Die(c)
      BY <3>2 DEF TypeOK, PinStore, GcDone, Die, Return, NoOp
    <3>3. CASE GcBegin(c)
      BY <3>3 DEF TypeOK, GcBegin, NoOp, Collecting
    <3>4. CASE GcRead(c)
      BY <3>1, <3>4 DEF TypeOK, GcRead, Collecting, Operation
    <3>5. CASE GcScanned(c) \/ GcPurged(c)
      BY <3>1, <3>5 DEF TypeOK, GcScanned, GcPurged, Goto, Collecting, Operation
    <3>6. CASE GcPurge(c)
      BY <3>6 DEF GcPurge, Collecting
    <3>7. CASE GcUnpin(c)
      BY <3>1, <3>7 DEF TypeOK, GcUnpin, Collecting, Operation
    <3> QED BY <1>10, <3>2, <3>3, <3>4, <3>5, <3>6, <3>7
  <2> QED BY <1>0, <2>1, <2>2, <2>3 DEF CopyLogged, Loaded, Collecting
<1>11. CASE Tick \/ UNCHANGED vars
  BY <1>11 DEF Tick, vars, LoggedOK, IterationsLogged, HasState, CopyLogged, NeverTaken,
     Here, AllLogged, LineFor
<1> QED BY <1>2, <1>3, <1>4, <1>5, <1>6, <1>7, <1>8, <1>9, <1>10, <1>11 DEF Next, Step

-----------------------------------------------------------------------------
(* Operations that do not overlap.                                           *)

(* The state a step finds when it is the only one. *)
Lone(c) == \A d \in Clients \ {c} : op[d].pc = "idle" /\ op'[d] = op[d]

LEMMA CopiesStayLone ==
    ASSUME NEW c \in Clients, Lone(c),
           op'[c].pc \in Loaded =>
               HasState(op[c].task)' /\ dir'[op'[c].task].state = op'[c].state,
           op'[c].pc = "collect" =>
               HasState(op[c].task)' /\ Due(dir[op[c].task].state, op[c].now)'
    PROVE  \A d \in Clients : LoneCopy(d)'
<1>1. \A d \in Clients \ {c} : ~Active(d)'
  BY DEF Lone, Active
<1>2. ASSUME NEW d \in Clients \ {c} PROVE LoneCopy(d)'
  BY <1>1, <1>2 DEF LoneCopy, Active, Loaded
<1>3. LoneCopy(c)'
  BY <1>1 DEF LoneCopy
<1> QED BY <1>2, <1>3

LEMMA PinsAre ==
    ASSUME TypeOK, LoneOK, ~overlaps, NEW c \in Clients, Lone(c)
    PROVE  \A t \in pins : HasState(t) \/ t \in op[c].collected
<1>1. \A d \in Clients \ {c} : op[d].collected = {}
  BY DEF Lone, TypeOK, OperationOK, Collecting
<1> QED BY <1>1 DEF LoneOK, PinsKnown

(* A step that keeps stored states and says nothing new of them.             *)
LEMMA StatesStayLone ==
    ASSUME TypeOK, LoneOK, ~overlaps, UNCHANGED <<overlaps, taken>>,
           NEW c \in Clients, Lone(c), \A d \in Clients : LoneCopy(d)',
           \A t \in Tasks : HasState(t) => HasState(t)',
           \A t \in completed' :
               HasState(t)' => \/ dir'[t].state.status = "complete"
                              \/ /\ t \in completed /\ HasState(t)
                                 /\ dir'[t].state.status = dir[t].state.status,
           \A t \in pins' : HasState(t)' \/ t \in op'[c].collected
    PROVE  LoneOK'
<1>1. CompletionSticks'
  BY DEF LoneOK, CompletionSticks
<1>2. PinsKnown'
  BY DEF PinsKnown
<1> QED BY <1>1, <1>2 DEF LoneOK

LEMMA LoneStep == TypeOK /\ LoneOK /\ [Next]_vars => LoneOK'
<1> SUFFICES ASSUME TypeOK, LoneOK, [Next]_vars PROVE LoneOK'
  OBVIOUS
<1>o. UNCHANGED overlaps
  BY DEF Next, Step, vars, CreateCheck, Load, CreateWrite, AdvanceLog, AdvanceSave,
     CompleteSave, CompleteEvent, HoldSave, PinStore, GcBegin, GcRead, GcCollect, GcScanned,
     GcPurge, GcPurged, GcUnpin, GcDone, Die, Tick
<1> SUFFICES ASSUME ~overlaps PROVE LoneOK'
  BY <1>o DEF LoneOK, CompletionSticks
<1>a. ASSUME NEW c \in Clients, op[c].pc # "idle" PROVE \A d \in Clients \ {c} : op[d].pc = "idle"
  BY <1>a DEF LoneOK, LoneCopy, Active
<1>1. ASSUME NEW c \in Clients, NEW t \in Tasks, CreateCheck(c, t) PROVE LoneOK'
  <2>1. Lone(c) /\ op[c].pc = "idle" /\ op'[c].pc = "create"
    BY <1>1 DEF TypeOK, CreateCheck, MayCall, Lone, NoOp
  <2>2. op[c].collected = {} /\ UNCHANGED <<dir, taken, pins, completed>>
    BY <1>1, <2>1 DEF TypeOK, OperationOK, Collecting, CreateCheck
  <2>3. \A d \in Clients : LoneCopy(d)'
    BY <2>1, CopiesStayLone DEF Loaded
  <2>4. \A u \in pins : HasState(u)
    BY <2>1, <2>2, PinsAre
  <2> QED BY <1>o, <2>1, <2>2, <2>3, <2>4, StatesStayLone DEF HasState
<1>2. ASSUME NEW c \in Clients, NEW t \in Tasks,
             NEW kind \in {"advance", "complete", "hold", "unhold", "pin"}, Load(c, kind, t)
      PROVE  LoneOK'
  <2>1. Lone(c) /\ op[c].pc = "idle" /\ op'[c].pc = kind /\ op'[c].task = t
                /\ op'[c].state = dir[t].state
    BY <1>2 DEF TypeOK, Load, MayCall, Lone, NoOp
  <2>2. op[c].collected = {} /\ UNCHANGED <<dir, taken, pins, completed>> /\ HasState(t)
    BY <1>2, <2>1 DEF TypeOK, OperationOK, Collecting, Load
  <2>3. \A d \in Clients : LoneCopy(d)'
    BY <2>1, <2>2, CopiesStayLone DEF HasState
  <2>4. \A u \in pins : HasState(u)
    BY <2>1, <2>2, PinsAre
  <2> QED BY <1>o, <2>1, <2>2, <2>3, <2>4, StatesStayLone DEF HasState
<1>3. ASSUME NEW c \in Clients, CreateWrite(c) PROVE LoneOK'
  <2>1. PICK t \in Tasks : t = op[c].task
    BY <1>3 DEF TypeOK, OperationOK, CreateWrite
  <2>2. Lone(c) /\ op'[c].pc = "idle" /\ op[c].collected = {}
    BY <1>3, <1>a DEF TypeOK, OperationOK, CreateWrite, Return, NoOp, Lone, Collecting
  <2>3. HasState(t)' /\ \A u \in Tasks \ {t} : dir'[u] = dir[u]
    BY <1>3, <2>1, FreshType, WriteStateDoes DEF CreateWrite
  <2>4. \A d \in Clients : LoneCopy(d)'
    BY <2>2, CopiesStayLone DEF Loaded
  <2>5. completed' = completed \ {t} /\ UNCHANGED <<pins, taken>>
    BY <1>3, <2>1 DEF CreateWrite
  <2>6. \A u \in pins : HasState(u)'
    BY <2>2, <2>3, PinsAre DEF HasState, TypeOK
  <2> QED BY <1>o, <2>2, <2>3, <2>4, <2>5, <2>6, StatesStayLone DEF HasState, TypeOK
<1>4. ASSUME NEW c \in Clients, AdvanceLog(c) PROVE LoneOK'
  <2>1. PICK t \in Tasks : op[c] \in Operation /\ t = op[c].task /\ op[c].pc = "advance"
    BY <1>4 DEF TypeOK, OperationOK, Loaded, AdvanceLog
  <2>2. PICK line \in Line : AppendResult(t, line)
    BY <1>4, <2>1 DEF AdvanceLog, Line, Operation, TaskState
  <2>3. dir'[t].state = dir[t].state /\ \A u \in Tasks \ {t} : dir'[u] = dir[u]
    BY <2>2, AppendResultDoes
  <2>4. Lone(c) /\ op[c].collected = {}
    BY <1>4, <1>a DEF TypeOK, OperationOK, AdvanceLog, Goto, Lone, Collecting
  <2>5. op'[c].pc = "save" /\ op'[c].task = t /\ op'[c].state = op[c].state
    BY <1>4, <2>1 DEF TypeOK, AdvanceLog, Goto, Operation
  <2>6. HasState(t) /\ dir[t].state = op[c].state
    BY <2>1 DEF LoneOK, LoneCopy, Loaded
  <2>7. \A u \in Tasks : dir'[u].state = dir[u].state
    BY <2>3
  <2>8. \A d \in Clients : LoneCopy(d)'
    BY <2>4, <2>5, <2>6, <2>7, CopiesStayLone DEF HasState
  <2>9. \A u \in pins : HasState(u)
    BY <2>4, PinsAre
  <2>10. UNCHANGED <<pins, taken, completed, stale>>
    BY <1>4 DEF AdvanceLog
  <2> QED BY <1>o, <2>4, <2>7, <2>8, <2>9, <2>10, StatesStayLone DEF HasState, TypeOK
<1>5. ASSUME NEW c \in Clients, AdvanceSave(c) \/ CompleteSave(c) \/ HoldSave(c)
      PROVE  LoneOK'
  <2>1. PICK t \in Tasks : op[c] \in Operation /\ t = op[c].task /\ op[c].pc \in Loaded
    BY <1>5 DEF TypeOK, OperationOK, Loaded, AdvanceSave, CompleteSave, HoldSave
  <2>2. PICK s \in TaskState : s = op[c].state
    BY <2>1 DEF Operation
  <2>3. HasState(t) /\ dir[t].state = s
    BY <2>1, <2>2 DEF LoneOK, LoneCopy
  <2>4. Lone(c) /\ op[c].collected = {} /\ op'[c].pc \in {"idle", "event"}
    <3>1. op[c].collected = {} /\ op[c].pc # "idle"
      BY <2>1 DEF TypeOK, OperationOK, Collecting, Loaded
    <3>2. CASE AdvanceSave(c) \/ HoldSave(c)
      BY <3>1, <3>2, <1>a DEF TypeOK, AdvanceSave, HoldSave, Return, NoOp, Lone
    <3>3. CASE CompleteSave(c)
      BY <2>1, <3>1, <3>3, <1>a DEF TypeOK, CompleteSave, Goto, Lone, Operation
    <3> QED BY <1>5, <3>1, <3>2, <3>3
  <2>5. PICK new \in TaskState : /\ WriteState(t, new)
                                /\ \/ new.status = s.status /\ UNCHANGED completed
                                   \/ /\ new.status = "complete"
                                      /\ completed' = completed \cup {t}
    <3>1. CASE AdvanceSave(c)
      <4>1. Advanced(s) \in TaskState /\ Advanced(s).status = s.status
        BY AdvancedType DEF Advanced, TaskState
      <4> QED BY <2>1, <2>2, <3>1, <4>1 DEF AdvanceSave
    <3>2. CASE CompleteSave(c)
      <4>1. Completed(s) \in TaskState /\ Completed(s).status = "complete"
        BY DEF TypeOK, Completed, TaskState
      <4> QED BY <2>1, <2>2, <3>2, <4>1 DEF CompleteSave
    <3>3. CASE HoldSave(c)
      <4>1. \A b \in BOOLEAN : /\ [s EXCEPT !.hold = b] \in TaskState
                              /\ [s EXCEPT !.hold = b].status = s.status
        BY DEF TaskState
      <4>2. (op[c].kind = "hold") \in BOOLEAN
        OBVIOUS
      <4> QED BY <2>1, <2>2, <3>3, <4>1, <4>2 DEF HoldSave
    <3> QED BY <1>5, <3>1, <3>2, <3>3
  <2>6. HasState(t)' /\ dir'[t].state = new /\ \A u \in Tasks \ {t} : dir'[u] = dir[u]
    BY <2>5, WriteStateDoes
  <2>7. \A d \in Clients : LoneCopy(d)'
    BY <2>4, CopiesStayLone DEF Loaded
  <2>8. \A u \in pins : HasState(u)
    BY <2>4, PinsAre
  <2>9. UNCHANGED <<pins, taken>>
    BY <1>5 DEF AdvanceSave, CompleteSave, HoldSave
  <2>10. \A u \in Tasks : HasState(u) => HasState(u)'
    BY <2>6 DEF HasState
  <2>11. ASSUME NEW u \in completed', HasState(u)'
         PROVE  \/ dir'[u].state.status = "complete"
                \/ /\ u \in completed /\ HasState(u)
                   /\ dir'[u].state.status = dir[u].state.status
    <3>1. CASE u = t
      BY <2>3, <2>5, <2>6, <2>11, <3>1
    <3>2. CASE u # t
      BY <2>5, <2>6, <2>11, <3>2 DEF HasState, TypeOK
    <3> QED BY <3>1, <3>2
  <2>12. \A u \in pins' : HasState(u)'
    BY <2>8, <2>9, <2>10 DEF TypeOK
  <2> QED BY <1>o, <2>4, <2>7, <2>9, <2>10, <2>11, <2>12, StatesStayLone
<1>6. ASSUME NEW c \in Clients, CompleteEvent(c) PROVE LoneOK'
  <2>1. PICK t \in Tasks : t = op[c].task
    BY <1>6 DEF TypeOK, OperationOK, CompleteEvent
  <2>2. Lone(c) /\ op[c].collected = {} /\ op'[c].pc = "idle"
    BY <1>6, <1>a DEF TypeOK, OperationOK, CompleteEvent, Return, NoOp, Lone, Collecting
  <2>3. \A u \in Tasks : /\ HasState(u)' = HasState(u)
                         /\ HasState(u)' => dir'[u].state = dir[u].state
    BY <1>6, <2>1, MakeDirDoes DEF CompleteEvent, HasState
  <2>4. \A d \in Clients : LoneCopy(d)'
    BY <2>2, CopiesStayLone DEF Loaded
  <2>5. \A u \in pins : HasState(u)
    BY <2>2, PinsAre
  <2>6. UNCHANGED <<pins, taken, completed, stale>>
    BY <1>6 DEF CompleteEvent
  <2> QED BY <1>o, <2>2, <2>3, <2>4, <2>5, <2>6, StatesStayLone DEF TypeOK
<1>7. ASSUME NEW c \in Clients, PinStore(c) PROVE LoneOK'
  <2>1. Lone(c) /\ op[c].collected = {} /\ op'[c].pc = "idle"
    BY <1>7, <1>a DEF TypeOK, OperationOK, PinStore, Return, NoOp, Lone, Collecting
  <2>2. HasState(op[c].task)
    BY <1>7 DEF PinStore, LoneOK, LoneCopy, Loaded
  <2>3. \A d \in Clients : LoneCopy(d)'
    BY <2>1, CopiesStayLone DEF Loaded
  <2>4. \A u \in pins : HasState(u)
    BY <2>1, PinsAre
  <2>5. pins' = pins \cup {op[c].task} /\ UNCHANGED <<dir, taken, completed, stale>>
    BY <1>7 DEF PinStore
  <2> QED BY <1>o, <2>1, <2>2, <2>3, <2>4, <2>5, StatesStayLone DEF HasState
<1>8. ASSUME NEW c \in Clients, GcBegin(c) PROVE LoneOK'
  <2>1. Lone(c) /\ op[c].pc = "idle" /\ op'[c].pc = "scan"
    BY <1>8 DEF TypeOK, GcBegin, MayCall, Lone, NoOp
  <2>2. op[c].collected = {} /\ UNCHANGED <<dir, taken, pins, completed>>
    BY <1>8, <2>1 DEF TypeOK, OperationOK, Collecting, GcBegin
  <2>3. \A d \in Clients : LoneCopy(d)'
    BY <2>1, CopiesStayLone DEF Loaded
  <2>4. \A u \in pins : HasState(u)
    BY <2>1, <2>2, PinsAre
  <2> QED BY <1>o, <2>1, <2>2, <2>3, <2>4, StatesStayLone DEF HasState
<1>9. ASSUME NEW c \in Clients, GcRead(c) PROVE LoneOK'
  <2>1. PICK t \in op[c].todo :
           op' = [op EXCEPT ![c].todo = @ \ {t},
                            ![c].task = t,
                            ![c].pc = IF dir[t].state # NoState /\ Due(dir[t].state, op[c].now)
                                      THEN "collect" ELSE "scan"]
    BY <1>9 DEF GcRead
  <2>2. op[c] \in Operation
    BY DEF TypeOK
  <2>3. /\ Lone(c) /\ op'[c].task = t /\ op'[c].now = op[c].now
        /\ op'[c].collected = op[c].collected /\ op'[c].pc \in {"collect", "scan"}
        /\ op'[c].pc = "collect" => HasState(t) /\ Due(dir[t].state, op[c].now)
    BY <1>9, <1>a, <2>1, <2>2 DEF TypeOK, GcRead, Lone, Operation, HasState
  <2>4. UNCHANGED <<dir, taken, pins, completed>>
    BY <1>9 DEF GcRead
  <2>5. \A d \in Clients : LoneCopy(d)'
    BY <2>3, <2>4, CopiesStayLone DEF Loaded, HasState, Due
  <2>6. \A u \in pins : HasState(u) \/ u \in op[c].collected
    BY <2>3, PinsAre
  <2> QED BY <1>o, <2>3, <2>4, <2>5, <2>6, StatesStayLone DEF HasState
<1>10. ASSUME NEW c \in Clients, GcCollect(c) PROVE LoneOK'
  <2>1. PICK t \in Tasks : op[c] \in Operation /\ OperationOK(op[c]) /\ t = op[c].task
    BY <1>10 DEF TypeOK, OperationOK, GcCollect
  <2>2. HasState(t) /\ Due(dir[t].state, op[c].now)
    BY <1>10, <2>1 DEF GcCollect, LoneOK, LoneCopy
  <2>3. Here(t) /\ dir[t].state \in TaskState
    BY <2>2, HasStateHere
  <2>4. /\ dir' = [dir EXCEPT ![t] = NoDir]
        /\ taken' = taken \cup {Taking(t)}
        /\ op' = [op EXCEPT ![c].pc = "scan", ![c].collected = @ \cup {t}]
        /\ UNCHANGED <<pins, completed>>
    BY <1>10, <2>1, <2>3 DEF GcCollect
  <2>5. Lone(c) /\ op'[c].pc = "scan" /\ op'[c].collected = op[c].collected \cup {t}
    BY <1>10, <1>a, <2>1, <2>4 DEF TypeOK, GcCollect, Lone, Operation
  <2>6. ~HasState(t)' /\ \A u \in Tasks \ {t} : dir'[u] = dir[u]
    BY <2>4 DEF TypeOK, HasState, NoDir
  <2>7. CompletionSticks'
    BY <1>o, <2>4, <2>6 DEF LoneOK, CompletionSticks, HasState, TypeOK
  <2>8. PinsKnown'
    <3>1. \A u \in pins : HasState(u) \/ u \in op[c].collected
      BY <2>5, PinsAre
    <3> QED BY <2>4, <2>5, <2>6, <3>1 DEF PinsKnown, HasState, TypeOK
  <2>9. \A d \in Clients : LoneCopy(d)'
    BY <2>5, CopiesStayLone DEF Loaded
  <2> QED BY <2>7, <2>8, <2>9 DEF LoneOK
<1>11. ASSUME NEW c \in Clients, GcScanned(c) \/ GcPurge(c) \/ GcPurged(c) PROVE LoneOK'
  <2>1. op[c] \in Operation
    BY DEF TypeOK
  <2>2. Lone(c) /\ op'[c].pc \in {"purge", "pins"} /\ op'[c].collected = op[c].collected
    BY <1>11, <1>a, <2>1 DEF TypeOK, GcScanned, GcPurge, GcPurged, Goto, Lone, Operation
  <2>3. UNCHANGED <<dir, taken, pins, completed>>
    BY <1>11 DEF GcScanned, GcPurge, GcPurged
  <2>4. \A d \in Clients : LoneCopy(d)'
    BY <2>2, CopiesStayLone DEF Loaded
  <2>5. \A u \in pins : HasState(u) \/ u \in op[c].collected
    BY <2>2, PinsAre
  <2> QED BY <1>o, <2>2, <2>3, <2>4, <2>5, StatesStayLone DEF HasState
<1>12. ASSUME NEW c \in Clients, GcUnpin(c) PROVE LoneOK'
  <2>1. PICK t \in op[c].collected :
           pins' = pins \ {t} /\ op' = [op EXCEPT ![c].collected = @ \ {t}]
    BY <1>12 DEF GcUnpin
  <2>2. op[c] \in Operation
    BY DEF TypeOK
  <2>3. Lone(c) /\ op'[c].pc = "pins" /\ op'[c].collected = op[c].collected \ {t}
    BY <1>12, <1>a, <2>1, <2>2 DEF TypeOK, GcUnpin, Lone, Operation
  <2>4. UNCHANGED <<dir, taken, completed, stale>>
    BY <1>12 DEF GcUnpin
  <2>5. \A d \in Clients : LoneCopy(d)'
    BY <2>3, CopiesStayLone DEF Loaded
  <2>6. \A u \in pins : HasState(u) \/ u \in op[c].collected
    BY <2>3, PinsAre
  <2> QED BY <1>o, <2>1, <2>3, <2>4, <2>5, <2>6, StatesStayLone DEF HasState
<1>13. ASSUME NEW c \in Clients, GcDone(c) PROVE LoneOK'
  <2>1. Lone(c) /\ op'[c].pc = "idle" /\ op[c].collected = {}
    BY <1>13, <1>a DEF TypeOK, GcDone, Return, NoOp, Lone
  <2>2. UNCHANGED <<dir, taken, pins, completed>>
    BY <1>13 DEF GcDone
  <2>3. \A d \in Clients : LoneCopy(d)'
    BY <2>1, CopiesStayLone DEF Loaded
  <2>4. \A u \in pins : HasState(u)
    BY <2>1, PinsAre
  <2> QED BY <1>o, <2>1, <2>2, <2>3, <2>4, StatesStayLone DEF HasState
<1>14. CASE Tick \/ UNCHANGED vars
  BY <1>14 DEF Tick, vars, LoneOK, CompletionSticks, PinsKnown, LoneCopy, HasState, Active, Due
<1> QED
  BY <1>1, <1>2, <1>3, <1>4, <1>5, <1>6, <1>7, <1>8, <1>9, <1>10, <1>11, <1>12, <1>13, <1>14
  DEF Next, Step, Die

-----------------------------------------------------------------------------
(* Collections that overlap with other operations.                           *)

(* A step that collects nothing: what is over stays so where no outdated copy *)
(* is saved, and who is about to collect was so before, or has just looked.  *)
LEMMA NothingTaken ==
    ASSUME TakenOK, UNCHANGED taken, stale \subseteq stale',
           \A t \in Tasks : NeverTaken(t) /\ t \notin stale' /\ Over(t) => Over(t)',
           \A c \in Clients, t \in Tasks : Condemned(c, t)' => Condemned(c, t) \/ Over(t)
    PROVE  TakenOK'
<1>1. RunningNeverTouched'
  BY DEF TakenOK, RunningNeverTouched
<1>2. ASSUME NEW c \in Clients, NEW t \in Tasks, Condemned(c, t)', NeverTaken(t)', t \notin stale'
      PROVE  Over(t)'
  BY <1>2 DEF TakenOK, NeverTaken
<1> QED BY <1>1, <1>2 DEF TakenOK

LEMMA TakenStep == TypeOK /\ TakenOK /\ [Next]_vars => TakenOK'
<1> SUFFICES ASSUME TypeOK, TakenOK, [Next]_vars PROVE TakenOK'
  OBVIOUS
<1>c. op \in [Clients -> Operation]
  BY DEF TypeOK
<1>0. ASSUME NEW c \in Clients, UNCHANGED taken, stale \subseteq stale', op'[c].pc # "collect",
             \A d \in Clients \ {c} : op'[d] = op[d],
             \A t \in Tasks : NeverTaken(t) /\ t \notin stale' /\ Over(t) => Over(t)'
      PROVE  TakenOK'
  BY <1>0, NothingTaken DEF Condemned
<1>1. ASSUME NEW c \in Clients, UNCHANGED <<dir, taken, stale>>, op'[c].pc # "collect",
             \A d \in Clients \ {c} : op'[d] = op[d]
      PROVE  TakenOK'
  BY <1>1, <1>0 DEF Over, HasState
<1>2. ASSUME NEW c \in Clients, NEW t \in Tasks, CreateCheck(c, t) PROVE TakenOK'
  BY <1>2, <1>c, <1>1 DEF CreateCheck, NoOp
<1>3. ASSUME NEW c \in Clients, NEW t \in Tasks,
             NEW kind \in {"advance", "complete", "hold", "unhold", "pin"}, Load(c, kind, t)
      PROVE  TakenOK'
  BY <1>3, <1>c, <1>1 DEF Load, NoOp
<1>4. ASSUME NEW c \in Clients,
             CreateWrite(c) \/ AdvanceSave(c) \/ CompleteSave(c) \/ HoldSave(c)
      PROVE  TakenOK'
  <2>1. PICK t \in Tasks : t = op[c].task /\ op[c] \in Operation
    BY <1>4 DEF TypeOK, OperationOK, Loaded, CreateWrite, AdvanceSave, CompleteSave, HoldSave
  <2>2. PICK was \in TaskState \cup {NoState}, new \in TaskState :
           /\ WriteState(t, new) /\ NoteStale(t, was)
           /\ was # NoState /\ was.status = "complete" => new.status = "complete"
    <3> PICK s \in TaskState : s = op[c].state
      BY <2>1 DEF Operation
    <3>1. CASE CreateWrite(c)
      BY <2>1, <3>1, FreshType DEF CreateWrite
    <3>2. CASE AdvanceSave(c)
      <4>1. Advanced(s) \in TaskState /\ Advanced(s).status = s.status
        BY AdvancedType DEF Advanced, TaskState
      <4> QED BY <2>1, <3>2, <4>1 DEF AdvanceSave
    <3>3. CASE CompleteSave(c)
      <4>1. Completed(s) \in TaskState /\ Completed(s).status = "complete"
        BY DEF TypeOK, Completed, TaskState
      <4> QED BY <2>1, <3>3, <4>1 DEF CompleteSave
    <3>4. CASE HoldSave(c)
      <4>1. \A b \in BOOLEAN : /\ [s EXCEPT !.hold = b] \in TaskState
                              /\ [s EXCEPT !.hold = b].status = s.status
        BY DEF TaskState
      <4>2. PICK b \in BOOLEAN : b = (op[c].kind = "hold")
        OBVIOUS
      <4>3. WriteState(t, [s EXCEPT !.hold = b]) /\ NoteStale(t, s)
        BY <2>1, <3>4, <4>2 DEF HoldSave
      <4> QED BY <4>1, <4>3
    <3> QED BY <1>4, <3>1, <3>2, <3>3, <3>4
  <2>3. /\ HasState(t)' /\ dir'[t].state = new
        /\ \A u \in Tasks \ {t} : dir'[u] = dir[u]
    BY <2>2, WriteStateDoes
  <2>4. ASSUME NEW u \in Tasks, u \notin stale', Over(u) PROVE Over(u)'
    <3>1. CASE u = t
      <4>1. dir[t].state = was
        BY <2>2, <2>4, <3>1 DEF NoteStale
      <4>2. was # NoState /\ was.status = "complete"
        BY <2>4, <3>1, <4>1 DEF Over, HasState
      <4> QED BY <2>2, <2>3, <3>1, <4>2 DEF Over
    <3>2. CASE u # t
      BY <2>3, <2>4, <3>2 DEF Over, HasState
    <3> QED BY <3>1, <3>2
  <2>5. stale \subseteq stale'
    BY <2>2 DEF NoteStale
  <2>6. /\ UNCHANGED taken /\ op'[c].pc # "collect"
        /\ \A d \in Clients \ {c} : op'[d] = op[d]
    BY <1>4, <1>c, <2>1 DEF CreateWrite, AdvanceSave, CompleteSave, HoldSave, Return, Goto, NoOp,
                            Operation
  <2> QED BY <1>0, <2>4, <2>5, <2>6
<1>5. ASSUME NEW c \in Clients, AdvanceLog(c) PROVE TakenOK'
  <2>1. PICK t \in Tasks : op[c] \in Operation /\ t = op[c].task
    BY <1>5 DEF TypeOK, OperationOK, Loaded, AdvanceLog
  <2>2. PICK line \in Line : AppendResult(t, line)
    BY <1>5, <2>1 DEF AdvanceLog, Line, Operation, TaskState
  <2>3. \A u \in Tasks : dir'[u].state = dir[u].state
    BY <2>2, AppendResultDoes
  <2>4. \A u \in Tasks : Over(u) => Over(u)'
    BY <2>3 DEF Over, HasState
  <2>5. /\ UNCHANGED <<taken, stale>> /\ op'[c].pc # "collect"
        /\ \A d \in Clients \ {c} : op'[d] = op[d]
    BY <1>5, <1>c, <2>1 DEF AdvanceLog, Goto, Operation
  <2> QED BY <1>0, <2>4, <2>5
<1>6. ASSUME NEW c \in Clients, CompleteEvent(c) PROVE TakenOK'
  <2>1. op[c].task \in Tasks
    BY <1>6 DEF TypeOK, OperationOK, CompleteEvent
  <2>2. \A u \in Tasks : HasState(u) => dir'[u] = dir[u]
    BY <1>6, <2>1, MakeDirDoes DEF CompleteEvent
  <2>3. \A u \in Tasks : Over(u) => Over(u)'
    BY <2>2 DEF Over, HasState
  <2>4. /\ UNCHANGED <<taken, stale>> /\ op'[c].pc # "collect"
        /\ \A d \in Clients \ {c} : op'[d] = op[d]
    BY <1>6, <1>c DEF CompleteEvent, Return, NoOp
  <2> QED BY <1>0, <2>3, <2>4
<1>7. ASSUME NEW c \in Clients, PinStore(c) \/ GcDone(c) \/ Die(c) PROVE TakenOK'
  BY <1>7, <1>c, <1>1 DEF PinStore, GcDone, Die, Return, NoOp
<1>8. ASSUME NEW c \in Clients, GcBegin(c) PROVE TakenOK'
  <2>1. op'[c].pc = "scan" /\ \A d \in Clients \ {c} : op'[d] = op[d]
    BY <1>8, <1>c DEF GcBegin, NoOp
  <2> QED BY <1>8, <2>1, <1>1 DEF GcBegin
<1>9. ASSUME NEW c \in Clients, GcRead(c) PROVE TakenOK'
  <2>1. PICK t \in op[c].todo :
           op' = [op EXCEPT ![c].todo = @ \ {t},
                            ![c].task = t,
                            ![c].pc = IF dir[t].state # NoState /\ Due(dir[t].state, op[c].now)
                                      THEN "collect" ELSE "scan"]
    BY <1>9 DEF GcRead
  <2>2. op[c] \in Operation /\ \A d \in Clients \ {c} : op'[d] = op[d]
    BY <2>1, <1>c
  <2>3. /\ op'[c].task = t
        /\ op'[c].pc = "collect" => Over(t)
    BY <2>1, <2>2, <1>c DEF Operation, Over, HasState, Due
  <2>4. \A d \in Clients, u \in Tasks : Condemned(d, u)' => Condemned(d, u) \/ Over(u)
    BY <2>2, <2>3 DEF Condemned
  <2>5. UNCHANGED <<dir, taken, stale>>
    BY <1>9 DEF GcRead
  <2> QED BY <2>4, <2>5, NothingTaken DEF Over, HasState
<1>10. ASSUME NEW c \in Clients, GcCollect(c) PROVE TakenOK'
  <2>1. PICK t \in Tasks : op[c] \in Operation /\ t = op[c].task /\ op[c].pc = "collect"
    BY <1>10, <1>c DEF TypeOK, OperationOK, GcCollect
  <2>2. /\ UNCHANGED stale /\ op'[c].pc # "collect"
        /\ \A d \in Clients \ {c} : op'[d] = op[d]
    BY <1>10, <1>c, <2>1 DEF GcCollect, Goto, Operation
  <2>3. CASE ~Here(t)
    BY <1>10, <2>1, <2>2, <2>3, <1>1 DEF GcCollect
  <2>4. CASE Here(t)
    <3>1. dir' = [dir EXCEPT ![t] = NoDir] /\ taken' = taken \cup {Taking(t)}
      BY <1>10, <2>1, <2>4 DEF GcCollect
    <3>2. /\ Taking(t).task = t /\ Taking(t).state = dir[t].state
          /\ Taking(t).first <=> NeverTaken(t)
      BY DEF Taking, NeverTaken
    <3>3. NeverTaken(t) /\ t \notin stale => Over(t)
      BY <2>1 DEF TakenOK, Condemned
    <3>4. RunningNeverTouched'
      BY <2>2, <3>1, <3>2, <3>3 DEF TakenOK, RunningNeverTouched, Over, HasState
    <3>5. ASSUME NEW d \in Clients, NEW u \in Tasks, Condemned(d, u)', NeverTaken(u)', u \notin stale'
          PROVE  Over(u)'
      <4>1. u # t /\ NeverTaken(u)
        BY <3>1, <3>2, <3>5 DEF NeverTaken
      <4>2. Condemned(d, u) /\ dir'[u] = dir[u]
        BY <2>2, <3>1, <3>5, <4>1 DEF Condemned, TypeOK
      <4> QED BY <2>2, <3>5, <4>1, <4>2 DEF TakenOK, Over, HasState
    <3> QED BY <3>4, <3>5 DEF TakenOK
  <2> QED BY <2>3, <2>4
<1>11. ASSUME NEW c \in Clients, GcScanned(c) \/ GcPurge(c) \/ GcPurged(c) \/ GcUnpin(c)
       PROVE  TakenOK'
  <2>1. op[c] \in Operation
    BY <1>c
  <2>2. op'[c].pc # "collect" /\ \A d \in Clients \ {c} : op'[d] = op[d]
    BY <1>11, <1>c, <2>1 DEF GcScanned, GcPurge, GcPurged, GcUnpin, Goto, Operation
  <2> QED BY <1>11, <2>2, <1>1 DEF GcScanned, GcPurge, GcPurged, GcUnpin
<1>12. CASE Tick \/ UNCHANGED vars
  <2>1. UNCHANGED <<dir, op, taken, stale>>
    BY <1>12 DEF Tick, vars
  <2> QED BY <2>1, NothingTaken DEF Condemned, Over, HasState
<1> QED BY <1>2, <1>3, <1>4, <1>5, <1>6, <1>7, <1>8, <1>9, <1>10, <1>11, <1>12 DEF Next, Step

-----------------------------------------------------------------------------
(* Lines are counted along the archived directories of a task, so what is     *)
(* said of their number is proved by induction over the natural numbers.      *)
LEMMA LeastNumber ==
    ASSUME NEW S \in SUBSET Nat, S # {}
    PROVE  \E m \in S : \A n \in S : m <= n
<1>1. PICK m \in S : \A n \in S : ~(<<n, m>> \in OpToRel(<, Nat))
  BY NatLessThanWellFounded, WFMin
<1>2. \A n \in S : ~(<<n, m>> \in {x \in Nat \X Nat : x[1] < x[2]})
  BY <1>1 DEF OpToRel
<1>3. ASSUME NEW n \in S PROVE m <= n
  <2>1. <<n, m>> \in Nat \X Nat
    OBVIOUS
  <2>2. ~(<<n, m>>[1] < <<n, m>>[2])
    BY <1>2, <2>1
  <2> QED BY <2>1, <2>2
<1> QED BY <1>3

LEMMA Induction ==
    ASSUME NEW S \in SUBSET Nat, 0 \in S, \A n \in S : n + 1 \in S
    PROVE  S = Nat
<1> SUFFICES ASSUME Nat \ S # {} PROVE FALSE
  OBVIOUS
<1>1. PICK m \in Nat \ S : \A n \in Nat \ S : m <= n
  BY LeastNumber
<1>2. m # 0 /\ m - 1 \in Nat /\ m - 1 \in S
  BY <1>1
<1> QED BY <1>2

LinesIn(d) == IF d = NoDir THEN 0 ELSE Len(d.results)

(* count adds up the lines of the directories in a, starting with x.          *)
IsCount(count, a, x) ==
    count = [k \in 0 .. Len(a) |-> IF k = 0 THEN x ELSE count[k - 1] + LinesIn(a[k])]

Archives == Seq(Directory \cup {NoDir})

LEMMA LinesInType == \A d \in Directory \cup {NoDir} : LinesIn(d) \in Nat
<1>1. \A d \in Directory : Len(d.results) \in Nat
  BY DEF Directory
<1> QED BY <1>1 DEF LinesIn

LEMMA CountExists ==
    ASSUME NEW a \in Archives, NEW x \in Nat
    PROVE  \E count : IsCount(count, a, x)
<1> DEFINE S == {n \in Nat : n <= Len(a) =>
                   \E f \in [0 .. n -> Nat] :
                      \A k \in 0 .. n : f[k] = IF k = 0 THEN x ELSE f[k - 1] + LinesIn(a[k])}
<1>1. 0 \in S
  <2>1. [k \in 0 .. 0 |-> x] \in [0 .. 0 -> Nat]
    OBVIOUS
  <2>2. \A k \in 0 .. 0 : k = 0
    OBVIOUS
  <2> QED BY <2>1, <2>2
<1>2. ASSUME NEW n \in S PROVE n + 1 \in S
  <2>1. n \in Nat /\ n + 1 \in Nat /\ Len(a) \in Nat
    BY DEF Archives
  <2> SUFFICES ASSUME n + 1 <= Len(a)
               PROVE  \E f \in [0 .. n + 1 -> Nat] : \A k \in 0 .. n + 1 :
                         f[k] = IF k = 0 THEN x ELSE f[k - 1] + LinesIn(a[k])
    BY <2>1
  <2>0. n <= Len(a)
    BY <2>1
  <2>2. PICK f \in [0 .. n -> Nat] :
           \A k \in 0 .. n : f[k] = IF k = 0 THEN x ELSE f[k - 1] + LinesIn(a[k])
    BY <2>0
  <2>3. LinesIn(a[n + 1]) \in Nat
    BY <2>1, LinesInType DEF Archives
  <2> DEFINE g == [k \in 0 .. n + 1 |-> IF k = n + 1 THEN f[n] + LinesIn(a[n + 1]) ELSE f[k]]
  <2>4. \A k \in 0 .. n + 1 : k = n + 1 \/ k \in 0 .. n
    BY <2>1
  <2>5. g \in [0 .. n + 1 -> Nat]
    BY <2>1, <2>2, <2>3, <2>4
  <2>6. ASSUME NEW k \in 0 .. n + 1
        PROVE  g[k] = IF k = 0 THEN x ELSE g[k - 1] + LinesIn(a[k])
    <3>1. CASE k = n + 1
      <4>1. g[k] = f[n] + LinesIn(a[n + 1]) /\ g[k - 1] = f[n]
        BY <2>1, <3>1
      <4> QED BY <2>1, <3>1, <4>1
    <3>2. CASE k # n + 1
      <4>1. k \in 0 .. n /\ g[k] = f[k]
        BY <2>4, <3>2
      <4>2. k # 0 => g[k - 1] = f[k - 1]
        BY <2>1, <4>1
      <4> QED BY <2>2, <4>1, <4>2
    <3> QED BY <3>1, <3>2
  <2> QED BY <2>5, <2>6
<1>3. S = Nat
  <2> HIDE DEF S
  <2>1. S \in SUBSET Nat
    BY DEF S
  <2> QED BY <1>1, <1>2, <2>1, Induction
<1>4. Len(a) \in S /\ Len(a) \in Nat
  BY <1>3 DEF Archives
<1>5. PICK f \in [0 .. Len(a) -> Nat] :
         \A k \in 0 .. Len(a) : f[k] = IF k = 0 THEN x ELSE f[k - 1] + LinesIn(a[k])
  BY <1>4
<1>6. IsCount(f, a, x)
  BY <1>5 DEF IsCount
<1> QED BY <1>6

(* Two counts differ by what the directories they add up differ in.           *)
Difference(delta, N, a, x, b, y) ==
    /\ N \in Nat /\ N <= Len(a) /\ N <= Len(b)
    /\ delta \in [0 .. N -> Int]
    /\ delta[0] = y - x
    /\ \A k \in 1 .. N : delta[k] = delta[k - 1] + LinesIn(b[k]) - LinesIn(a[k])

LEMMA CountsDiffer ==
    ASSUME NEW a \in Archives, NEW x \in Nat, NEW f, IsCount(f, a, x),
           NEW b \in Archives, NEW y \in Nat, NEW g, IsCount(g, b, y),
           NEW N, NEW delta, Difference(delta, N, a, x, b, y)
    PROVE  \A n \in 0 .. N : f[n] \in Nat /\ g[n] = f[n] + delta[n]
<1> USE DEF Difference
<1> DEFINE S == {n \in Nat : n <= N => f[n] \in Nat /\ g[n] = f[n] + delta[n]}
<1>0. Len(a) \in Nat /\ Len(b) \in Nat
  BY DEF Archives
<1>1. 0 \in S
  <2>1. f[0] = x /\ g[0] = y
    BY <1>0 DEF IsCount
  <2> QED BY <2>1
<1>2. ASSUME NEW n \in S PROVE n + 1 \in S
  <2>0. n \in Nat /\ n + 1 \in Nat
    OBVIOUS
  <2> SUFFICES ASSUME n + 1 <= N
               PROVE  f[n + 1] \in Nat /\ g[n + 1] = f[n + 1] + delta[n + 1]
    BY <2>0
  <2>1. /\ n <= N /\ n \in 0 .. N /\ n + 1 \in 1 .. N /\ n + 1 # 0 /\ (n + 1) - 1 = n
        /\ n + 1 \in 0 .. Len(a) /\ n + 1 \in 0 .. Len(b)
        /\ n + 1 \in 1 .. Len(a) /\ n + 1 \in 1 .. Len(b)
    BY <1>0, <2>0
  <2>2. f[n] \in Nat /\ g[n] = f[n] + delta[n] /\ delta[n] \in Int
    BY <2>1
  <2>3. f[n + 1] = f[n] + LinesIn(a[n + 1]) /\ g[n + 1] = g[n] + LinesIn(b[n + 1])
    <3>1. f[n + 1] = IF n + 1 = 0 THEN x ELSE f[(n + 1) - 1] + LinesIn(a[n + 1])
      BY <2>1 DEF IsCount
    <3>2. g[n + 1] = IF n + 1 = 0 THEN y ELSE g[(n + 1) - 1] + LinesIn(b[n + 1])
      BY <2>1 DEF IsCount
    <3> QED BY <2>1, <3>1, <3>2
  <2>4. LinesIn(a[n + 1]) \in Nat /\ LinesIn(b[n + 1]) \in Nat
    <3>1. a[n + 1] \in Directory \cup {NoDir} /\ b[n + 1] \in Directory \cup {NoDir}
      BY <2>1, ElementOfSeq DEF Archives
    <3> QED BY <3>1, LinesInType
  <2>5. delta[n + 1] = delta[n] + LinesIn(b[n + 1]) - LinesIn(a[n + 1])
    <3>1. delta[n + 1] = delta[(n + 1) - 1] + LinesIn(b[n + 1]) - LinesIn(a[n + 1])
      BY <2>1
    <3> QED BY <2>1, <3>1
  <2>6. PICK p \in Nat, u \in Nat, v \in Nat, d \in Int :
           /\ p = f[n] /\ u = LinesIn(a[n + 1]) /\ v = LinesIn(b[n + 1]) /\ d = delta[n]
    BY <2>2, <2>4
  <2>7. f[n + 1] = p + u /\ g[n + 1] = (p + d) + v /\ delta[n + 1] = d + v - u
    BY <2>2, <2>3, <2>5, <2>6
  <2> QED BY <2>7
<1>3. S = Nat
  <2> HIDE DEF S
  <2>1. S \in SUBSET Nat
    BY DEF S
  <2> QED BY <1>1, <1>2, <2>1, Induction
<1>4. \A n \in 0 .. N : n \in S /\ n <= N
  <2> HIDE DEF S
  <2> QED BY <1>3
<1> QED BY <1>4

(* The number of lines kept is what any count says.                           *)
Kept(t, number) ==
    \A count : IsCount(count, archive[t], LinesIn(dir[t])) => count[Len(archive[t])] = number

LEMMA KeptIs ==
    TypeOK => (NoResultLost <=> \A t \in Tasks : Kept(t, logged[t] - purged[t]))
<1> SUFFICES ASSUME TypeOK
             PROVE  NoResultLost <=> \A t \in Tasks : Kept(t, logged[t] - purged[t])
  OBVIOUS
<1>1. NoResultLost <=> \A t \in Tasks :
         LET count == CHOOSE count : IsCount(count, archive[t], LinesIn(dir[t]))
         IN  count[Len(archive[t])] + purged[t] = logged[t]
  BY DEF NoResultLost, IsCount, LinesIn
<1>2. ASSUME NEW t \in Tasks
      PROVE  LET count == CHOOSE count : IsCount(count, archive[t], LinesIn(dir[t]))
             IN  count[Len(archive[t])] + purged[t] = logged[t]
                    <=> Kept(t, logged[t] - purged[t])
  <2> DEFINE a == archive[t]
  <2> DEFINE x == LinesIn(dir[t])
  <2> DEFINE count == CHOOSE count : IsCount(count, a, x)
  <2>1. a \in Archives /\ x \in Nat /\ Len(a) \in Nat
    BY LinesInType DEF TypeOK, Archives
  <2> HIDE DEF a, x
  <2>2. IsCount(count, a, x)
    BY <2>1, CountExists
  <2> HIDE DEF count
  <2>3. ASSUME NEW f, IsCount(f, a, x) PROVE f[Len(a)] = count[Len(a)] /\ count[Len(a)] \in Nat
    <3> DEFINE delta == [k \in 0 .. Len(a) |-> 0]
    <3>1. delta \in [0 .. Len(a) -> Int] /\ delta[0] = x - x
      BY <2>1
    <3>2. ASSUME NEW k \in 1 .. Len(a)
          PROVE  delta[k] = delta[k - 1] + LinesIn(a[k]) - LinesIn(a[k])
      <4>1. a[k] \in Directory \cup {NoDir}
        BY <2>1, ElementOfSeq DEF Archives
      <4>2. LinesIn(a[k]) \in Nat /\ k \in 0 .. Len(a) /\ k - 1 \in 0 .. Len(a)
        BY <2>1, <4>1, LinesInType
      <4> QED BY <4>2
    <3> HIDE DEF delta
    <3>3. Difference(delta, Len(a), a, x, a, x)
      BY <2>1, <3>1, <3>2 DEF Difference
    <3>4. \A n \in 0 .. Len(a) : count[n] \in Nat /\ f[n] = count[n] + delta[n]
      BY <2>1, <2>2, <2>3, <3>3, CountsDiffer
    <3>5. delta[Len(a)] = 0
      BY <2>1 DEF delta
    <3> QED BY <2>1, <3>4, <3>5
  <2>4. logged[t] \in Nat /\ purged[t] \in Nat
    BY DEF TypeOK
  <2>5. count[Len(a)] \in Nat
    BY <2>2, <2>3
  <2>6. Kept(t, logged[t] - purged[t]) <=> count[Len(a)] = logged[t] - purged[t]
    BY <2>2, <2>3 DEF Kept, a, x
  <2> QED BY <2>4, <2>5, <2>6 DEF count, a, x
<1> QED BY <1>1, <1>2

LEMMA KeptWillBe ==
    (TypeOK => (NoResultLost <=> \A t \in Tasks : Kept(t, logged[t] - purged[t])))'
BY KeptIs, PTL

(* Lines written to the directory, lines moved to the archive with it, and    *)
(* lines removed from the archive.                                            *)
LEMMA CountWritten ==
    ASSUME NEW a \in Archives, NEW x \in Nat, NEW f, IsCount(f, a, x),
           NEW y \in Nat, NEW g, IsCount(g, a, y)
    PROVE  f[Len(a)] \in Nat /\ g[Len(a)] = f[Len(a)] + (y - x)
<1> DEFINE delta == [k \in 0 .. Len(a) |-> y - x]
<1>1. Len(a) \in Nat
  BY DEF Archives
<1>2. delta \in [0 .. Len(a) -> Int] /\ \A k \in 0 .. Len(a) : delta[k] = y - x
  OBVIOUS
<1>3. ASSUME NEW k \in 1 .. Len(a)
      PROVE  delta[k] = delta[k - 1] + LinesIn(a[k]) - LinesIn(a[k])
  <2>1. a[k] \in Directory \cup {NoDir}
    BY <1>1, ElementOfSeq DEF Archives
  <2>2. LinesIn(a[k]) \in Nat /\ k \in 0 .. Len(a) /\ k - 1 \in 0 .. Len(a)
    BY <1>1, <2>1, LinesInType
  <2> QED BY <2>2
<1> HIDE DEF delta
<1>4. Difference(delta, Len(a), a, x, a, y)
  BY <1>1, <1>2, <1>3 DEF Difference
<1>5. \A n \in 0 .. Len(a) : f[n] \in Nat /\ g[n] = f[n] + delta[n]
  BY <1>4, CountsDiffer
<1> QED BY <1>1, <1>2, <1>5

LEMMA CountArchived ==
    ASSUME NEW a \in Archives, NEW d \in Directory, NEW f, IsCount(f, a, LinesIn(d)),
           NEW g, IsCount(g, Append(a, d), 0)
    PROVE  g[Len(a) + 1] = f[Len(a)]
<1> DEFINE b == Append(a, d)
<1> DEFINE x == LinesIn(d)
<1>1. /\ Len(a) \in Nat /\ b \in Archives /\ Len(b) = Len(a) + 1 /\ x \in Nat
      /\ b[Len(a) + 1] = d /\ \A k \in 1 .. Len(a) : b[k] = a[k]
  BY LinesInType DEF Archives
<1> DEFINE delta == [k \in 0 .. Len(a) |-> 0 - x]
<1>2. delta \in [0 .. Len(a) -> Int] /\ \A k \in 0 .. Len(a) : delta[k] = 0 - x
  BY <1>1
<1>3. ASSUME NEW k \in 1 .. Len(a)
      PROVE  delta[k] = delta[k - 1] + LinesIn(b[k]) - LinesIn(a[k])
  <2>1. a[k] \in Directory \cup {NoDir} /\ b[k] = a[k]
    BY <1>1, ElementOfSeq DEF Archives
  <2>2. LinesIn(a[k]) \in Nat /\ k \in 0 .. Len(a) /\ k - 1 \in 0 .. Len(a)
    BY <1>1, <2>1, LinesInType
  <2> QED BY <1>1, <2>1, <2>2
<1> HIDE DEF delta
<1>4. Difference(delta, Len(a), a, x, b, 0)
  <2> HIDE DEF b, x
  <2> QED BY <1>1, <1>2, <1>3 DEF Difference
<1>5. f[Len(a)] \in Nat /\ g[Len(a)] = f[Len(a)] + (0 - x)
  <2>1. IsCount(f, a, x) /\ IsCount(g, b, 0)
    OBVIOUS
  <2> HIDE DEF b, x
  <2>2. \A n \in 0 .. Len(a) : f[n] \in Nat /\ g[n] = f[n] + delta[n]
    BY <1>1, <1>4, <2>1, CountsDiffer
  <2> QED BY <1>1, <1>2, <2>2
<1>6. g[Len(a) + 1] = g[Len(a)] + x
  <2>1. Len(a) + 1 \in 0 .. Len(b) /\ Len(a) + 1 # 0 /\ (Len(a) + 1) - 1 = Len(a)
    BY <1>1
  <2>2. g[Len(a) + 1] = IF Len(a) + 1 = 0 THEN 0 ELSE g[(Len(a) + 1) - 1] + LinesIn(b[Len(a) + 1])
    BY <2>1 DEF IsCount
  <2> QED BY <1>1, <2>1, <2>2
<1> HIDE DEF x
<1> QED BY <1>1, <1>5, <1>6

LEMMA CountPurged ==
    ASSUME NEW a \in Archives, NEW x \in Nat, NEW f, IsCount(f, a, x),
           NEW i \in 1 .. Len(a), NEW g, IsCount(g, [a EXCEPT ![i] = NoDir], x)
    PROVE  f[Len(a)] \in Nat /\ g[Len(a)] = f[Len(a)] - LinesIn(a[i])
<1> DEFINE b == [a EXCEPT ![i] = NoDir]
<1> DEFINE lines == LinesIn(a[i])
<1>1. /\ Len(a) \in Nat /\ b \in Archives /\ Len(b) = Len(a)
      /\ b[i] = NoDir /\ \A k \in 1 .. Len(a) : k # i => b[k] = a[k]
  BY DEF Archives
<1>2. lines \in Nat /\ LinesIn(NoDir) = 0
  <2>1. a[i] \in Directory \cup {NoDir}
    BY <1>1, ElementOfSeq DEF Archives
  <2> QED BY <2>1, LinesInType DEF LinesIn
<1> DEFINE delta == [k \in 0 .. Len(a) |-> IF k < i THEN 0 ELSE 0 - lines]
<1>3. /\ delta \in [0 .. Len(a) -> Int]
      /\ \A k \in 0 .. Len(a) : delta[k] = IF k < i THEN 0 ELSE 0 - lines
  <2> HIDE DEF lines
  <2> QED BY <1>2
<1> HIDE DEF delta
<1>4. ASSUME NEW k \in 1 .. Len(a)
      PROVE  delta[k] = delta[k - 1] + LinesIn(b[k]) - LinesIn(a[k])
  <2>1. a[k] \in Directory \cup {NoDir}
    BY <1>1, ElementOfSeq DEF Archives
  <2>2. LinesIn(a[k]) \in Nat /\ k \in 0 .. Len(a) /\ k - 1 \in 0 .. Len(a)
    BY <1>1, <2>1, LinesInType
  <2>3. CASE k = i
    <3>1. delta[k] = 0 - lines /\ delta[k - 1] = 0
      BY <1>1, <1>3, <2>2, <2>3
    <3> QED BY <1>1, <1>2, <2>3, <3>1
  <2>4. CASE k # i
    <3>1. delta[k] = delta[k - 1] /\ delta[k] \in Int
      BY <1>1, <1>3, <2>2, <2>4
    <3> QED BY <1>1, <2>2, <2>4, <3>1
  <2> QED BY <2>3, <2>4
<1>5. Difference(delta, Len(a), a, x, b, x)
  <2>1. delta[0] = x - x
    BY <1>1, <1>3
  <2> HIDE DEF b
  <2> QED BY <1>1, <1>3, <1>4, <2>1 DEF Difference
<1>6. \A n \in 0 .. Len(a) : f[n] \in Nat /\ g[n] = f[n] + delta[n]
  <2>1. IsCount(g, b, x)
    OBVIOUS
  <2> HIDE DEF b
  <2> QED BY <1>1, <1>5, <2>1, CountsDiffer
<1>7. delta[Len(a)] = 0 - lines
  BY <1>1, <1>3
<1> HIDE DEF lines
<1>8. f[Len(a)] \in Nat /\ g[Len(a)] = f[Len(a)] - lines
  BY <1>1, <1>2, <1>6, <1>7
<1> QED BY <1>8 DEF lines

-----------------------------------------------------------------------------

(* What is written, moved or removed accounts for what the counters say.      *)
LEMMA KeptWritten ==
    ASSUME TypeOK, TypeOK', NEW t \in Tasks, Kept(t, logged[t] - purged[t]),
           archive'[t] = archive[t], purged'[t] = purged[t],
           LinesIn(dir'[t]) - LinesIn(dir[t]) = logged'[t] - logged[t]
    PROVE  Kept(t, logged[t] - purged[t])'
<1> DEFINE a == archive[t]
<1>1. a \in Archives /\ LinesIn(dir[t]) \in Nat /\ LinesIn(dir'[t]) \in Nat
  BY LinesInType DEF TypeOK, Archives
<1>2. PICK f : IsCount(f, a, LinesIn(dir[t]))
  BY <1>1, CountExists
<1>3. ASSUME NEW g, IsCount(g, a, LinesIn(dir'[t])) PROVE g[Len(a)] = logged'[t] - purged'[t]
  <2>1. f[Len(a)] \in Nat
        /\ g[Len(a)] = f[Len(a)] + (LinesIn(dir'[t]) - LinesIn(dir[t]))
    BY <1>1, <1>2, <1>3, CountWritten
  <2>2. f[Len(a)] = logged[t] - purged[t]
    BY <1>2 DEF Kept
  <2>3. logged[t] \in Nat /\ logged'[t] \in Nat /\ purged[t] \in Nat
    BY DEF TypeOK
  <2> QED BY <2>1, <2>2, <2>3
<1> QED BY <1>3 DEF Kept

LEMMA KeptArchived ==
    ASSUME TypeOK, NEW t \in Tasks, Kept(t, logged[t] - purged[t]), Here(t),
           archive'[t] = Append(archive[t], dir[t]), dir'[t] = NoDir,
           purged'[t] = purged[t], logged'[t] = logged[t]
    PROVE  Kept(t, logged[t] - purged[t])'
<1> DEFINE a == archive[t]
<1>1. a \in Archives /\ LinesIn(dir[t]) \in Nat /\ dir[t] \in Directory
      /\ LinesIn(dir'[t]) = 0 /\ Len(archive'[t]) = Len(a) + 1
  BY LinesInType DEF TypeOK, Archives, Here, LinesIn
<1>2. PICK f : IsCount(f, a, LinesIn(dir[t]))
  BY <1>1, CountExists
<1>3. ASSUME NEW g, IsCount(g, archive'[t], LinesIn(dir'[t]))
      PROVE  g[Len(archive'[t])] = logged'[t] - purged'[t]
  <2>1. g[Len(a) + 1] = f[Len(a)]
    BY <1>1, <1>2, <1>3, CountArchived
  <2>2. f[Len(a)] = logged[t] - purged[t]
    BY <1>2 DEF Kept
  <2> QED BY <1>1, <2>1, <2>2
<1> QED BY <1>3 DEF Kept

LEMMA KeptDeleted ==
    ASSUME TypeOK, NEW t \in Tasks, Kept(t, logged[t] - purged[t]), Here(t),
           archive'[t] = archive[t], dir'[t] = NoDir,
           purged'[t] = purged[t] + Len(dir[t].results), logged'[t] = logged[t]
    PROVE  Kept(t, logged[t] - purged[t])'
<1> DEFINE a == archive[t]
<1>1. a \in Archives /\ LinesIn(dir[t]) \in Nat /\ LinesIn(dir[t]) = Len(dir[t].results)
      /\ LinesIn(dir'[t]) = 0
  BY LinesInType DEF TypeOK, Archives, Here, LinesIn
<1>2. PICK f : IsCount(f, a, LinesIn(dir[t]))
  BY <1>1, CountExists
<1>3. ASSUME NEW g, IsCount(g, a, LinesIn(dir'[t])) PROVE g[Len(a)] = logged'[t] - purged'[t]
  <2>1. f[Len(a)] \in Nat /\ g[Len(a)] = f[Len(a)] + (0 - LinesIn(dir[t]))
    BY <1>1, <1>2, <1>3, CountWritten
  <2>2. f[Len(a)] = logged[t] - purged[t]
    BY <1>2 DEF Kept
  <2>3. logged[t] \in Nat /\ purged[t] \in Nat
    BY DEF TypeOK
  <2> QED BY <1>1, <2>1, <2>2, <2>3
<1> QED BY <1>3 DEF Kept

LEMMA KeptPurged ==
    ASSUME TypeOK, NEW t \in Tasks, Kept(t, logged[t] - purged[t]),
           NEW i \in 1 .. Len(archive[t]), archive[t][i] \in Directory,
           archive'[t] = [archive[t] EXCEPT ![i] = NoDir], dir'[t] = dir[t],
           purged'[t] = purged[t] + Len(archive[t][i].results), logged'[t] = logged[t]
    PROVE  Kept(t, logged[t] - purged[t])'
<1> DEFINE a == archive[t]
<1>1. a \in Archives /\ LinesIn(dir[t]) \in Nat /\ Len(archive'[t]) = Len(a)
  BY LinesInType DEF TypeOK, Archives
<1>2. LinesIn(a[i]) = Len(a[i].results) /\ LinesIn(a[i]) \in Nat
  BY DirectoriesAreThere, LinesInType DEF LinesIn
<1>3. PICK f : IsCount(f, a, LinesIn(dir[t]))
  BY <1>1, CountExists
<1>4. ASSUME NEW g, IsCount(g, archive'[t], LinesIn(dir'[t]))
      PROVE  g[Len(archive'[t])] = logged'[t] - purged'[t]
  <2>1. f[Len(a)] \in Nat /\ g[Len(a)] = f[Len(a)] - LinesIn(a[i])
    BY <1>1, <1>3, <1>4, CountPurged
  <2>2. f[Len(a)] = logged[t] - purged[t]
    BY <1>3 DEF Kept
  <2>3. logged[t] \in Nat /\ purged[t] \in Nat
    BY DEF TypeOK
  <2> QED BY <1>1, <1>2, <2>1, <2>2, <2>3
<1> QED BY <1>4 DEF Kept

LEMMA ResultsStep == TypeOK /\ NoResultLost /\ [Next]_vars => NoResultLost'
<1> SUFFICES ASSUME TypeOK, NoResultLost, [Next]_vars PROVE NoResultLost'
  OBVIOUS
<1>t. TypeOK'
  BY TypeStep
<1>k. \A t \in Tasks : Kept(t, logged[t] - purged[t])
  BY KeptIs
<1> SUFFICES \A t \in Tasks : Kept(t, logged[t] - purged[t])'
  BY <1>t, KeptWillBe
<1>n. \A t \in Tasks : LinesIn(dir[t]) \in Nat /\ logged[t] \in Nat
  BY LinesInType DEF TypeOK
<1>0. ASSUME NEW t \in Tasks, dir'[t] = dir[t], archive'[t] = archive[t],
             logged'[t] = logged[t], purged'[t] = purged[t]
      PROVE  Kept(t, logged[t] - purged[t])'
  BY <1>k, <1>n, <1>t, <1>0, KeptWritten
<1>1. ASSUME NEW u \in Tasks, NEW s \in TaskState, WriteState(u, s),
             UNCHANGED <<archive, logged, purged>>
      PROVE  \A t \in Tasks : Kept(t, logged[t] - purged[t])'
  <2>1. dir'[u] = [state |-> s, results |-> IF Here(u) THEN dir[u].results ELSE <<>>]
        /\ dir'[u] # NoDir
    BY <1>1, WriteStateDoes DEF TypeOK, WriteState, Here
  <2>2. LinesIn(dir'[u]) = LinesIn(dir[u])
    BY <2>1 DEF LinesIn, Here
  <2>3. \A t \in Tasks \ {u} : dir'[t] = dir[t]
    BY <1>1, WriteStateDoes
  <2>4. Kept(u, logged[u] - purged[u])'
    BY <1>k, <1>n, <1>t, <1>1, <2>2, KeptWritten
  <2> QED BY <1>0, <1>1, <2>3, <2>4
<1>2. ASSUME NEW c \in Clients,
             CreateWrite(c) \/ AdvanceSave(c) \/ CompleteSave(c) \/ HoldSave(c)
      PROVE  \A t \in Tasks : Kept(t, logged[t] - purged[t])'
  <2>1. PICK u \in Tasks, s \in TaskState : WriteState(u, s)
    BY <1>2, WritesState
  <2> QED BY <1>1, <1>2, <2>1 DEF CreateWrite, AdvanceSave, CompleteSave, HoldSave
<1>3. ASSUME NEW c \in Clients, AdvanceLog(c)
      PROVE  \A t \in Tasks : Kept(t, logged[t] - purged[t])'
  <2>1. PICK u \in Tasks : op[c] \in Operation /\ u = op[c].task
    BY <1>3 DEF TypeOK, OperationOK, Loaded, AdvanceLog
  <2>2. PICK line \in Line : AppendResult(u, line)
    BY <1>3, <2>1 DEF AdvanceLog, Line, Operation, TaskState
  <2> DEFINE results == IF Here(u) THEN dir[u].results ELSE <<>>
  <2>3. results \in Seq(Line) /\ Len(results) = LinesIn(dir[u])
    BY ResultsType DEF LinesIn, Here
  <2>4. Here(u)' /\ \A t \in Tasks \ {u} : dir'[t] = dir[t]
    BY <2>2, AppendResultDoes
  <2>5. dir'[u] = [state |-> dir[u].state, results |-> Append(results, line)]
    BY <2>2 DEF TypeOK, AppendResult
  <2>6. LinesIn(dir'[u]) = Len(Append(results, line))
    <3> HIDE DEF results
    <3> QED BY <2>4, <2>5 DEF LinesIn, Here
  <2>7. LinesIn(dir'[u]) = LinesIn(dir[u]) + 1
    <3> HIDE DEF results
    <3> QED BY <2>3, <2>6
  <2>8. logged' = [logged EXCEPT ![u] = @ + 1] /\ UNCHANGED <<archive, purged>>
    BY <1>3, <2>2 DEF AppendResult, AdvanceLog
  <2>9. Kept(u, logged[u] - purged[u])'
    <3>1. LinesIn(dir'[u]) - LinesIn(dir[u]) = logged'[u] - logged[u]
      BY <1>n, <2>7, <2>8 DEF TypeOK
    <3> QED BY <1>k, <1>t, <2>8, <3>1, KeptWritten
  <2> QED BY <1>0, <2>4, <2>8, <2>9 DEF TypeOK
<1>4. ASSUME NEW c \in Clients, CompleteEvent(c)
      PROVE  \A t \in Tasks : Kept(t, logged[t] - purged[t])'
  <2>1. PICK u \in Tasks : u = op[c].task
    BY <1>4 DEF TypeOK, OperationOK, CompleteEvent
  <2>2. MakeDir(u) /\ UNCHANGED <<archive, logged, purged>>
    BY <1>4, <2>1 DEF CompleteEvent
  <2>3. LinesIn(dir'[u]) = LinesIn(dir[u])
    <3>1. CASE Here(u)
      BY <2>2, <3>1 DEF MakeDir
    <3>2. CASE ~Here(u)
      <4>1. dir'[u] = [state |-> NoState, results |-> <<>>]
        BY <2>2, <3>2 DEF MakeDir, TypeOK
      <4> QED BY <3>2, <4>1 DEF LinesIn, Here
    <3> QED BY <3>1, <3>2
  <2>4. \A t \in Tasks \ {u} : dir'[t] = dir[t]
    BY <2>2, MakeDirDoes
  <2>5. Kept(u, logged[u] - purged[u])'
    BY <1>k, <1>n, <1>t, <2>2, <2>3, KeptWritten
  <2> QED BY <1>0, <2>2, <2>4, <2>5
<1>5. ASSUME NEW c \in Clients, GcCollect(c)
      PROVE  \A t \in Tasks : Kept(t, logged[t] - purged[t])'
  <2>1. PICK u \in Tasks : u = op[c].task
    BY <1>5 DEF TypeOK, OperationOK, GcCollect
  <2>2. CASE ~Here(u)
    BY <1>0, <1>5, <2>1, <2>2 DEF GcCollect
  <2>3. CASE Here(u)
    <3>1. /\ Archive(u) \/ Delete(u)
          /\ dir' = [dir EXCEPT ![u] = NoDir]
          /\ UNCHANGED logged
      BY <1>5, <2>1, <2>3 DEF GcCollect
    <3>2. ASSUME NEW t \in Tasks \ {u} PROVE Kept(t, logged[t] - purged[t])'
      BY <1>0, <3>1 DEF Archive, ArchiveDir, Delete, TypeOK
    <3>3. CASE Archive(u)
      <4>1. Kept(u, logged[u] - purged[u])'
        BY <1>k, <2>3, <3>1, <3>3, KeptArchived DEF Archive, ArchiveDir, TypeOK
      <4> QED BY <3>2, <4>1
    <3>4. CASE Delete(u)
      <4>1. Kept(u, logged[u] - purged[u])'
        BY <1>k, <2>3, <3>1, <3>4, KeptDeleted DEF Delete, TypeOK
      <4> QED BY <3>2, <4>1
    <3> QED BY <3>1, <3>2, <3>3, <3>4
  <2> QED BY <2>2, <2>3
<1>6. ASSUME NEW c \in Clients, GcPurge(c)
      PROVE  \A t \in Tasks : Kept(t, logged[t] - purged[t])'
  <2>1. PICK u \in Tasks : \E k \in 1 .. Len(archive[u]) :
           /\ PastGrace(archive[u][k].state, op[c].now)
           /\ archive' = [archive EXCEPT ![u][k] = NoDir]
           /\ purged' = [purged EXCEPT ![u] = @ + Len(archive[u][k].results)]
    BY <1>6 DEF GcPurge
  <2>2. PICK k \in 1 .. Len(archive[u]) :
           /\ PastGrace(archive[u][k].state, op[c].now)
           /\ archive' = [archive EXCEPT ![u][k] = NoDir]
           /\ purged' = [purged EXCEPT ![u] = @ + Len(archive[u][k].results)]
    BY <2>1
  <2>3. UNCHANGED <<dir, logged>>
    BY <1>6 DEF GcPurge
  <2>4. archive[u][k] \in Directory
    <3>1. archive[u][k].state # NoState
      BY <2>2 DEF PastGrace
    <3> QED BY <2>2, <3>1 DEF NoDir, TypeOK
  <2>5. Kept(u, logged[u] - purged[u])'
    BY <1>k, <2>2, <2>3, <2>4, KeptPurged DEF TypeOK
  <2> QED BY <1>0, <2>2, <2>3, <2>5 DEF TypeOK
<1>7. ASSUME UNCHANGED <<dir, archive, logged, purged>>
      PROVE  \A t \in Tasks : Kept(t, logged[t] - purged[t])'
  BY <1>0, <1>7
<1>8. CASE Tick \/ UNCHANGED vars
  BY <1>7, <1>8 DEF Tick, vars
<1>9. ASSUME NEW c \in Clients,
             \/ \E u \in Tasks :
                   \/ CreateCheck(c, u)
                   \/ \E kind \in {"advance", "complete", "hold", "unhold", "pin"} : Load(c, kind, u)
             \/ PinStore(c) \/ GcBegin(c) \/ GcRead(c) \/ GcScanned(c)
             \/ GcPurged(c) \/ GcUnpin(c) \/ GcDone(c) \/ Die(c)
      PROVE  UNCHANGED <<dir, archive, logged, purged>>
  BY <1>9 DEF CreateCheck, Load, PinStore, GcBegin, GcRead, GcScanned, GcPurged,
     GcUnpin, GcDone, Die
<1> QED BY <1>2, <1>3, <1>4, <1>5, <1>6, <1>7, <1>8, <1>9 DEF Next, Step

LEMMA ResultsInit == Init => NoResultLost
<1> SUFFICES ASSUME Init PROVE NoResultLost
  OBVIOUS
<1>1. ASSUME NEW t \in Tasks PROVE Kept(t, logged[t] - purged[t])
  <2>1. archive[t] = <<>> /\ LinesIn(dir[t]) = 0 /\ logged[t] - purged[t] = 0
    BY DEF Init, LinesIn
  <2>2. \A f : IsCount(f, <<>>, 0) => f[0] = 0
    BY DEF IsCount
  <2> QED BY <2>1, <2>2 DEF Kept
<1> QED BY <1>1, TypeInit, KeptIs

-----------------------------------------------------------------------------
LEMMA InitIInv == Init => IInv
<1>1. Init => LoggedOK
  BY DEF Init, LoggedOK, IterationsLogged, CopyLogged, HasState, NoDir, NoOp, Loaded
<1>2. Init => LoneOK
  BY DEF Init, LoneOK, CompletionSticks, PinsKnown, LoneCopy, Active, NoOp, Loaded
<1>3. Init => TakenOK
  BY DEF Init, TakenOK, RunningNeverTouched, Condemned, NoOp
<1> QED BY <1>1, <1>2, <1>3, TypeInit DEF IInv

LEMMA Inductive == Spec => []IInv
<1>1. IInv /\ [Next]_vars => IInv'
  BY TypeStep, LoggedStep, LoneStep, TakenStep DEF IInv
<1> QED BY <1>1, InitIInv, PTL DEF Spec

(* Until its directory is collected, every iteration a task counts has its   *)
(* line in results.jsonl, however many processes overlap and die; a task     *)
(* that was completed stays so where they do not overlap.                    *)
THEOREM ProgressIsKept == Spec => []ProgressKept
<1>1. IInv => ProgressKept
  BY DEF IInv, LoggedOK, LoneOK, ProgressKept
<1> QED BY <1>1, Inductive, PTL

(* However many collectors and other operations overlap and die, the first   *)
(* directory of a task that is collected is that of a complete task, unless  *)
(* its state was saved from a copy that was no longer current.               *)
THEOREM RunningAreSpared == Spec => []RunningNeverTouched
<1>1. IInv => RunningNeverTouched
  BY DEF IInv, TakenOK
<1> QED BY <1>1, Inductive, PTL

(* Where operations do not overlap, once a collection is over no pin names a *)
(* collected task.                                                           *)
THEOREM NoPinDangles == Spec => []PinsResolve
<1>1. IInv => PinsResolve
  <2> SUFFICES ASSUME IInv, ~overlaps, Quiet, NEW t \in pins PROVE HasState(t)
    BY DEF PinsResolve
  <2>1. \A c \in Clients : op[c].collected = {}
    BY DEF IInv, TypeOK, Quiet, OperationOK, Collecting
  <2> QED BY <2>1 DEF IInv, LoneOK, PinsKnown
<1> QED BY <1>1, Inductive, PTL

(* Every line ever written is in the task's directory or in one of its       *)
(* archived ones, or was removed with its directory, however many processes  *)
(* overlap and die and however often a task is archived.                     *)
THEOREM NoLineIsLost == Spec => []NoResultLost
<1>1. TypeOK /\ NoResultLost /\ [Next]_vars => NoResultLost'
  BY ResultsStep
<1> QED BY <1>1, ResultsInit, TypeCorrect, PTL DEF Spec
=============================================================================
