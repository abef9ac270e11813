---------------------------- MODULE OptimizeGate ----------------------------
(***************************************************************************)
(* The compaction gate of store.py: every write that creates a fragment    *)
(* counts, each AUTO_OPTIMIZE_EVERY-th writer is elected to compact the    *)
(* table, and compactions are single-flighted by a lock nobody waits for.  *)
(* The elected writer compacts without the counter lock, so the others go  *)
(* on writing and may cross the threshold again meanwhile.                 *)
(***************************************************************************)
EXTENDS Integers, FiniteSets

CONSTANTS
    Writers,     \* threads writing to the store
    Every,       \* AUTO_OPTIMIZE_EVERY; positive, 0 disables the gate
    MaxWrites    \* bound: rows added in a behaviour

ASSUME GateAssumption ==
    IsFiniteSet(Writers) /\ Every \in Nat \ {0} /\ MaxWrites \in Nat

Nobody == "nobody"
ASSUME NobodyAssumption == Nobody \notin Writers

VARIABLES
    pc,           \* where in _table_add each writer is
    count,        \* _writes_since_optimize
    read,         \* the value each writer read from it
    counterLock,  \* holder of _optimize_counter_lock
    runLock,      \* holder of _optimize_run_lock
    (* history: *)
    added,        \* writes that reached the table
    counted,      \* of these, the ones _maybe_optimize counted
    elected,      \* threshold crossings
    missed,       \* of these, the ones skipped or whose compaction failed
    start,        \* writes in the table and crossings missed as a compaction began
    merged        \* the same of the last compaction that succeeded

counters == <<added, counted, elected>>
backlog == <<missed, start, merged>>
vars == <<pc, count, read, counterLock, runLock, counters, backlog>>

Now == [added |-> added, missed |-> missed]

Init ==
    /\ pc = [w \in Writers |-> "idle"]
    /\ count = 0
    /\ read = [w \in Writers |-> 0]
    /\ counterLock = Nobody
    /\ runLock = Nobody
    /\ added = 0 /\ counted = 0 /\ elected = 0 /\ missed = 0
    /\ start = Now /\ merged = Now

Goto(w, l) == pc' = [pc EXCEPT ![w] = l]

(* _table_add; one that raises is not counted. *)
Add(w) ==
    /\ pc[w] = "idle"
    /\ added < MaxWrites
    /\ added' = added + 1
    /\ Goto(w, "count")
    /\ UNCHANGED <<count, read, counterLock, runLock, counted, elected, backlog>>

(* Mutant: the counter has no lock. *)
EnterUnlocked(w) ==
    /\ pc[w] = "count"
    /\ read' = [read EXCEPT ![w] = count]
    /\ Goto(w, "counting")
    /\ UNCHANGED <<count, counterLock, runLock, counters, backlog>>

(* with _optimize_counter_lock: the counter is read ... *)
Enter(w) ==
    /\ pc[w] = "count"
    /\ counterLock = Nobody
    /\ counterLock' = w
    /\ read' = [read EXCEPT ![w] = count]
    /\ Goto(w, "counting")
    /\ UNCHANGED <<count, runLock, counters, backlog>>

(* Mutant: off by one. *)
CrossesLate(n) == n > Every

Crosses(n) == n >= Every

(* ... and written, or reset by the writer that crosses the threshold. *)
Count(w) ==
    /\ pc[w] = "counting"
    /\ LET n == read[w] + 1 IN
          IF Crosses(n)
          THEN count' = 0 /\ elected' = elected + 1 /\ Goto(w, "elected")
          ELSE count' = n /\ UNCHANGED elected /\ Goto(w, "idle")
    /\ counterLock' = Nobody
    /\ counted' = counted + 1
    /\ UNCHANGED <<read, runLock, added, backlog>>

(* Mutant: the run lock is not checked. *)
CompactAnyway(w) ==
    /\ pc[w] = "elected"
    /\ runLock' = w
    /\ Goto(w, "compact")
    /\ start' = Now
    /\ UNCHANGED <<count, read, counterLock, counters, missed, merged>>

(* acquire(blocking=False); who does not get the lock skips this compaction. *)
Compact(w) ==
    /\ pc[w] = "elected"
    /\ IF runLock = Nobody
       THEN runLock' = w /\ Goto(w, "compact") /\ start' = Now /\ UNCHANGED missed
       ELSE Goto(w, "idle") /\ missed' = missed + 1 /\ UNCHANGED <<runLock, start>>
    /\ UNCHANGED <<count, read, counterLock, counters, merged>>

(* optimize() ends: what the table held when it began is merged (the rows    *)
(* that others add meanwhile are not); the lock is released.                 *)
Compacted(w) ==
    /\ pc[w] = "compact"
    /\ merged' = start
    /\ runLock' = Nobody
    /\ Goto(w, "idle")
    /\ UNCHANGED <<count, read, counterLock, counters, missed, start>>

(* Mutant: an optimize() that fails keeps the lock. *)
OptimizeFailsHolding(w) ==
    /\ pc[w] = "compact"
    /\ missed' = missed + 1
    /\ Goto(w, "idle")
    /\ UNCHANGED <<count, read, counterLock, runLock, counters, start, merged>>

(* optimize() fails and says so in the log: the lock is released all the same. *)
OptimizeFails(w) ==
    /\ pc[w] = "compact"
    /\ missed' = missed + 1
    /\ runLock' = Nobody
    /\ Goto(w, "idle")
    /\ UNCHANGED <<count, read, counterLock, counters, start, merged>>

Finish(w) == Enter(w) \/ Count(w) \/ Compact(w) \/ Compacted(w) \/ OptimizeFails(w)
Step(w) == Add(w) \/ Finish(w)

Finished ==
    /\ added = MaxWrites
    /\ \A w \in Writers : pc[w] = "idle"
    /\ UNCHANGED vars

Next == (\E w \in Writers : Step(w)) \/ Finished

Spec == Init /\ [][Next]_vars

(* Writers go on, and a compaction ends. *)
FairSpec == Spec /\ \A w \in Writers : WF_vars(Finish(w))

-----------------------------------------------------------------------------
(* Properties. *)

TypeOK ==
    /\ pc \in [Writers -> {"idle", "count", "counting", "elected", "compact"}]
    /\ count \in Nat
    /\ read \in [Writers -> Nat]
    /\ counterLock \in Writers \cup {Nobody}
    /\ runLock \in Writers \cup {Nobody}
    /\ added \in Nat /\ counted \in Nat /\ elected \in Nat /\ missed \in Nat
    /\ start \in [added : Nat, missed : Nat] /\ merged \in [added : Nat, missed : Nat]

(* "exactly one writer per cycle is elected to compact": no write is lost by *)
(* the counter and no threshold crossing is missed or seen twice.            *)
ElectionsExact ==
    /\ counted = elected * Every + count
    /\ count < Every

(* Two compactions started by writes never overlap. *)
SingleFlight ==
    \A v, w \in Writers : pc[v] = "compact" /\ pc[w] = "compact" => v = w

Writing == {w \in Writers : pc[w] \in {"count", "counting"}}    \* added, not yet counted
Due == {w \in Writers : pc[w] \in {"elected", "compact"}}      \* elected, not yet through

(* "if a previous compaction is still in progress this cycle is skipped, and *)
(* the next threshold crossing retries": since the last compaction that      *)
(* succeeded began, fewer than Every writes have piled up in the table for   *)
(* each crossing that was skipped, failed or is still being worked on, and   *)
(* fewer than Every beyond, those of the writers on their way to the counter *)
(* apart: a skipped crossing costs one more cycle and is not forgotten.      *)
BacklogBounded ==
    added - merged.added <
        Every * (1 + (missed - merged.missed) + Cardinality(Due)) + Cardinality(Writing)

(* The counter is only ever changed by the holder of its lock, which read    *)
(* the value it still has; the run lock is held by the compacting writer.    *)
LocksOK ==
    /\ \A w \in Writers : pc[w] = "counting" => counterLock = w /\ read[w] = count
    /\ \A w \in Writers : pc[w] = "compact" <=> runLock = w

(* What has piled up since a moment x, when done crossings were due that are  *)
(* through by now.                                                           *)
PiledUp(x, done) ==
    added - x.added <=
        Every * ((missed - x.missed) + Cardinality(Due) - done) + count + Cardinality(Writing)

(* The same for a compaction that is running and will be through.            *)
BacklogOK == PiledUp(merged, 0) /\ (runLock # Nobody => PiledUp(start, 1))

IInv == TypeOK /\ ElectionsExact /\ LocksOK /\ BacklogOK

(* A compaction that ends, or fails, makes room for the next one. *)
RunLockFreed == runLock # Nobody ~> runLock = Nobody
=============================================================================
