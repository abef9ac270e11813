---------------------------- MODULE MemoryStore ----------------------------
(***************************************************************************)
(* The memory table of store.py and the calls that change it.              *)
(*                                                                         *)
(* The table has no lock: a call reads a row, works on the copy, and       *)
(* writes the copy back by id.  Callers are threads of one process (the    *)
(* turn thread, the extractor's workers, the retriever) and other          *)
(* processes (the CLI), so between two table operations of one call every  *)
(* other call may run.  Each table operation is one step here.             *)
(*                                                                         *)
(* Ids are the numbers 1, 2, ... in creation order (the code draws fresh   *)
(* uuids); a row's text is fixed at creation, so its id stands for it.     *)
(***************************************************************************)
EXTENDS Integers, FiniteSets, Sequences

CONSTANTS
    Clients,        \* the concurrent callers
    Sessions,       \* session ids passed to mark_recall_used
    Ops,            \* which calls the callers make
    MaxCalls,       \* bound: calls made in a behaviour
    MaxClock,       \* bound: ticks of time.time()
    MaxHops,        \* the depth limit of get_by_id (32)
    Cooldown,       \* ACCESS_COUNT_THROTTLE_SECONDS, in ticks
    Grace,          \* grace_period_days of the purges, in ticks
    Threshold,      \* CROSS_SESSION_PROMOTION_THRESHOLD
    Expiries,       \* the valid_until values callers pass; 0 is None
    Faults          \* whether a call may die between two table operations

AllOps == {"store", "supersede", "update", "retire", "forget", "increment",
           "mark", "purge_archived", "purge_expired"}

ASSUME BoundsAssumption ==
    /\ MaxCalls \in Nat /\ MaxClock \in Nat /\ MaxHops \in Nat
    /\ Cooldown \in Nat /\ Grace \in Nat /\ Threshold \in Nat
ASSUME WorkloadAssumption ==
    /\ Ops \subseteq AllOps
    /\ Expiries \subseteq Nat
    /\ Faults \in BOOLEAN

Ids == 1 .. MaxCalls
NoId == 0

-----------------------------------------------------------------------------
(* The metadata a row carries, as far as the calls below read or write it. *)

Row == [state  : {"confirmed", "archived"},
        next   : Ids \cup {NoId},        \* superseded_by
        retiredAt : Nat,                 \* invalidated_at; 0 is absent
        count  : Nat,                    \* access_count
        created : Nat,                   \* created_at
        last   : Nat,                    \* last_accessed_at
        ledger : Seq(Sessions),          \* cross_session_recalls
        cross  : BOOLEAN,                \* cross_session
        until  : Nat]                    \* valid_until; 0 is None

NoRow == [state |-> "none"]

VARIABLES
    rows,       \* the table: a row, or NoRow where none is stored
    nextId,     \* the next fresh id
    clock,      \* time.time()
    op,         \* the call each client is executing
    calls,      \* number of calls begun, bounded by MaxCalls
    (* history, read by no action: *)
    origin,     \* the first version of each row's lineage
    gone,       \* lineages somebody forgot, retired or let expire
    usedIn      \* sessions that marked the lineage as used

vars == <<rows, nextId, clock, op, calls, origin, gone, usedIn>>

Exists(i) == rows[i] # NoRow
Archived(r) == r.state = "archived"

(* _is_expired: valid_until is set and not after the given time. *)
Expired(r, t) == r.until # 0 /\ r.until <= t

(* The copy of a call that is not running, or has no copy yet. *)
EmptyRow == [state |-> "confirmed", next |-> NoId, retiredAt |-> 0, count |-> 0,
             created |-> 0, last |-> 0, ledger |-> <<>>, cross |-> FALSE, until |-> 0]

NoBatch == [i \in Ids |-> NoRow]

(* What a call holds in its local variables. *)
NoOp == [kind |-> "idle", pc |-> "idle", id |-> NoId, cur |-> NoId,
         seen |-> {}, snap |-> EmptyRow, at |-> 0, new |-> NoId,
         batch |-> NoBatch, session |-> "none"]

Init ==
    /\ rows = NoBatch
    /\ nextId = 1
    /\ clock = 1
    /\ op = [c \in Clients |-> NoOp]
    /\ calls = 0
    /\ origin = [i \in Ids |-> NoId]
    /\ gone = {}
    /\ usedIn = [i \in Ids |-> {}]

Return(c) == op' = [op EXCEPT ![c] = NoOp]

(* A client may make one more call of the given kind. *)
MayCall(c, kind) ==
    /\ kind \in Ops
    /\ op[c].pc = "idle"
    /\ calls < MaxCalls
    /\ calls' = calls + 1

-----------------------------------------------------------------------------
(* Table operations.  An add appends a row under a fresh id; update and     *)
(* delete by id do nothing when the row is gone.                            *)

FreshRow(until) ==
    [EmptyRow EXCEPT !.created = clock, !.last = clock, !.until = until]

TableAdd(r, root) ==
    /\ nextId <= MaxCalls    \* bound: the ids of the instance
    /\ rows' = [rows EXCEPT ![nextId] = r]
    /\ origin' = [origin EXCEPT ![nextId] = root]
    /\ nextId' = nextId + 1

TableUpdate(i, r) ==
    rows' = IF Exists(i) THEN [rows EXCEPT ![i] = r] ELSE rows

TableDelete(i) == rows' = [rows EXCEPT ![i] = NoRow]

(* The row no later version of its lineage has been written for. *)
Newest(i) ==
    /\ i < nextId
    /\ \A j \in Ids : (j < nextId /\ j > i) => origin[j] # origin[i]

(* History: the lineage is given up only with its newest version. *)
Drop(i) == gone' = IF Newest(i) THEN gone \cup {origin[i]} ELSE gone

-----------------------------------------------------------------------------
(* store(): one add of a confirmed row with no predecessor. *)
Store(c) ==
    /\ MayCall(c, "store")
    /\ \E until \in Expiries : TableAdd(FreshRow(until), nextId)
    /\ UNCHANGED <<clock, op, gone, usedIn>>

RowKinds == {"supersede", "update", "retire", "forget", "increment"}

(* update, forget and increment_access_count start with get_by_id(mem_id), *)
(* for an id some earlier call returned.                                   *)
Begin(c, kind, i) ==
    /\ MayCall(c, kind)
    /\ i < nextId
    /\ op' = [op EXCEPT ![c] =
                [NoOp EXCEPT !.kind = kind, !.pc = "walk", !.id = i, !.cur = i]]
    /\ UNCHANGED <<rows, nextId, clock, origin, gone, usedIn>>

(* Mutant: a supersede archives the old row and forgets the new one. *)
AfterWalkArchiveOnly(kind) ==
    CASE kind = "supersede" -> "archive"
      [] kind = "forget" -> "delete"
      [] OTHER -> "write"

AfterWalk(kind) ==
    CASE kind = "supersede" -> "add"
      [] kind = "forget" -> "delete"
      [] OTHER -> "write"

(* get_by_id goes on to the next version from an archived row that names   *)
(* one, unless it was there already or has made MaxHops hops.              *)
Follows(c) ==
    LET r == rows[op[c].cur] IN
    /\ Archived(r)
    /\ r.next # NoId
    /\ r.next \notin op[c].seen
    /\ Cardinality(op[c].seen) < MaxHops

WalkMissing(c) ==
    /\ op[c].pc = "walk"
    /\ ~Exists(op[c].cur)
    /\ Return(c)
    /\ UNCHANGED <<rows, nextId, clock, calls, origin, gone, usedIn>>

WalkHop(c) ==
    /\ op[c].pc = "walk"
    /\ Exists(op[c].cur)
    /\ Follows(c)
    /\ op' = [op EXCEPT ![c].seen = @ \cup {op[c].cur},
                        ![c].cur = rows[op[c].cur].next]
    /\ UNCHANGED <<rows, nextId, clock, calls, origin, gone, usedIn>>

(* The walk ends: the call takes its copy of the row and reads the clock. *)
WalkEnd(c) ==
    /\ op[c].pc = "walk"
    /\ Exists(op[c].cur)
    /\ ~Follows(c)
    /\ op' = [op EXCEPT ![c].pc = AfterWalk(op[c].kind),
                        ![c].snap = rows[op[c].cur],
                        ![c].seen = {},
                        ![c].at = clock]
    /\ UNCHANGED <<rows, nextId, clock, calls, origin, gone, usedIn>>

-----------------------------------------------------------------------------
(* update(text=...) -> _supersede: the new version is added first. *)
NewVersion(r, at, until) ==
    [r EXCEPT !.state = "confirmed", !.next = NoId, !.retiredAt = 0,
              !.count = 0, !.created = at, !.last = at, !.until = until]

(* Mutant: superseded_by is not recorded. *)
ArchivedUnlinked(r, at, new) == [r EXCEPT !.state = "archived", !.retiredAt = at]

ArchivedVersion(r, at, new) ==
    [r EXCEPT !.state = "archived", !.next = new, !.retiredAt = at]

SupersedeAdd(c) ==
    /\ op[c].pc = "add"
    /\ \E until \in Expiries \cup {op[c].snap.until} :
          TableAdd(NewVersion(op[c].snap, op[c].at, until), origin[op[c].cur])
    /\ op' = [op EXCEPT ![c].pc = "archive", ![c].new = nextId]
    /\ UNCHANGED <<clock, calls, gone, usedIn>>

(* Mutant: old_id and new_id mixed up. *)
SupersedeArchiveSelf(c) ==
    /\ op[c].pc = "archive"
    /\ TableUpdate(op[c].cur, ArchivedVersion(op[c].snap, op[c].at, op[c].cur))
    /\ Return(c)
    /\ UNCHANGED <<nextId, clock, calls, origin, gone, usedIn>>

(* Mutant: the old row is left as it is. *)
SupersedeArchiveSkipped(c) ==
    /\ op[c].pc = "archive"
    /\ Return(c)
    /\ UNCHANGED <<rows, nextId, clock, calls, origin, gone, usedIn>>

(* ... and the old one is archived from the copy, pointing at the new one. *)
SupersedeArchive(c) ==
    /\ op[c].pc = "archive"
    /\ TableUpdate(op[c].cur, ArchivedVersion(op[c].snap, op[c].at, op[c].new))
    /\ Return(c)
    /\ UNCHANGED <<nextId, clock, calls, origin, gone, usedIn>>

(* Mutant: the update lands on the id passed in. *)
UpdateWriteById(c) ==
    /\ op[c].pc = "write" /\ op[c].kind = "update"
    /\ TableUpdate(op[c].id, op[c].snap)
    /\ Return(c)
    /\ UNCHANGED <<nextId, clock, calls, origin, gone, usedIn>>

(* update() without text writes the copy back, on the row the walk ended   *)
(* at.  "update" changes fields this module does not track (tier,          *)
(* importance, support counts).                                            *)
UpdateWrite(c) ==
    /\ op[c].pc = "write" /\ op[c].kind = "update"
    /\ TableUpdate(op[c].cur, op[c].snap)
    /\ Return(c)
    /\ UNCHANGED <<nextId, clock, calls, origin, gone, usedIn>>

(* "retire" is the provider's update(metadata_extra={"state": "archived"}) *)
(* of an auto-anchor: archived, with no successor and no invalidated_at.   *)
RetireWrite(c) ==
    /\ op[c].pc = "write" /\ op[c].kind = "retire"
    /\ TableUpdate(op[c].cur, [op[c].snap EXCEPT !.state = "archived"])
    /\ Drop(op[c].cur)
    /\ Return(c)
    /\ UNCHANGED <<nextId, clock, calls, origin, usedIn>>

(* Mutant: the id passed in is deleted, an archived predecessor. *)
ForgetDeleteById(c) ==
    /\ op[c].pc = "delete"
    /\ TableDelete(op[c].id)
    /\ Drop(op[c].cur)
    /\ Return(c)
    /\ UNCHANGED <<nextId, clock, calls, origin, usedIn>>

(* forget(): deletes the row the walk ended at. *)
ForgetDelete(c) ==
    /\ op[c].pc = "delete"
    /\ TableDelete(op[c].cur)
    /\ Drop(op[c].cur)
    /\ Return(c)
    /\ UNCHANGED <<nextId, clock, calls, origin, usedIn>>

(* Mutant: the cooldown runs from the row's creation. *)
ThrottledByCreation(r, at) ==
    /\ Cooldown > 0 /\ r.count > 0
    /\ at - r.created < Cooldown

(* increment_access_count(): skipped within the cooldown of the last       *)
(* access, except on the first one.                                        *)
Throttled(r, at) ==
    /\ Cooldown > 0 /\ r.count > 0
    /\ r.last # 0 /\ at - r.last < Cooldown

Accessed(r, at) == [r EXCEPT !.count = @ + 1, !.last = at]

(* The id passed in is written, whichever row the walk ended at. *)
IncrementTarget(c) == op[c].id

IncrementWrite(c) ==
    /\ op[c].pc = "write" /\ op[c].kind = "increment"
    /\ IF Throttled(op[c].snap, op[c].at)
       THEN UNCHANGED rows
       ELSE TableUpdate(IncrementTarget(c), Accessed(op[c].snap, op[c].at))
    /\ Return(c)
    /\ UNCHANGED <<nextId, clock, calls, origin, gone, usedIn>>

-----------------------------------------------------------------------------
(* mark_recall_used(): one read of all the ids, archived rows included,    *)
(* then one write per row found.                                           *)
MarkRead(c) ==
    /\ MayCall(c, "mark")
    /\ \E ids \in (SUBSET {i \in Ids : i < nextId}) \ {{}}, s \in Sessions :
          op' = [op EXCEPT ![c] =
                   [NoOp EXCEPT !.kind = "mark", !.pc = "batch", !.session = s,
                      !.at = clock,
                      !.batch = [i \in Ids |-> IF i \in ids THEN rows[i] ELSE NoRow]]]
    /\ UNCHANGED <<rows, nextId, clock, origin, gone, usedIn>>

(* The promotion ledger: distinct sessions, most recent 2 * Threshold. *)
LedgerWith(ledger, s) ==
    LET longer == Append(ledger, s)
        cap == 2 * Threshold
    IN IF Len(longer) > cap
       THEN SubSeq(longer, Len(longer) - cap + 1, Len(longer))
       ELSE longer

(* Mutant: a session counts each time it marks. *)
NeverInLedger(r, s) == FALSE

InLedger(r, s) == \E k \in 1 .. Len(r.ledger) : r.ledger[k] = s

(* Mutant: one session more than the threshold is needed. *)
PromotedLate(ledger) == Len(ledger) > Threshold

Promoted(ledger) == Len(ledger) >= Threshold

WithLedger(r, ledger) ==
    [r EXCEPT !.ledger = ledger, !.cross = Promoted(ledger)]

Credited(r, s) ==
    IF Threshold > 0 /\ ~r.cross /\ ~InLedger(r, s)
    THEN WithLedger(r, LedgerWith(r.ledger, s))
    ELSE r

Marked(r, s, at) == Accessed(Credited(r, s), at)

(* A write that raises is logged and skipped; the others go on. *)
MarkWrite(c) ==
    /\ op[c].pc = "batch" /\ op[c].kind = "mark"
    /\ \E i \in Ids :
          /\ op[c].batch[i] # NoRow
          /\ \/ /\ TableUpdate(i, Marked(op[c].batch[i], op[c].session, op[c].at))
                /\ usedIn' = IF Exists(i)
                              THEN [usedIn EXCEPT ![origin[i]] = @ \cup {op[c].session}]
                              ELSE usedIn
             \/ /\ Faults
                /\ UNCHANGED <<rows, usedIn>>
          /\ op' = [op EXCEPT ![c].batch[i] = NoRow]
    /\ UNCHANGED <<nextId, clock, calls, origin, gone>>

-----------------------------------------------------------------------------
(* purge_archived / purge_expired: one scan, then one delete per row found. *)
(* Mutant: any row old enough is purged. *)
DoomedByAge(r) == r.last < clock - Grace

DoomedArchived(r) ==
    /\ Archived(r)
    /\ r.retiredAt # 0 /\ r.retiredAt < clock - Grace

DoomedExpired(r) == ~Archived(r) /\ Expired(r, clock - Grace)

PurgeScan(c, kind, doomed) ==
    /\ MayCall(c, kind)
    /\ op' = [op EXCEPT ![c] =
                [NoOp EXCEPT !.kind = kind, !.pc = "batch",
                   !.batch = [i \in Ids |-> IF i \in doomed THEN rows[i] ELSE NoRow]]]
    /\ UNCHANGED <<rows, nextId, clock, origin, gone, usedIn>>

PurgeArchivedScan(c) ==
    PurgeScan(c, "purge_archived", {i \in Ids : Exists(i) /\ DoomedArchived(rows[i])})

PurgeExpiredScan(c) ==
    PurgeScan(c, "purge_expired", {i \in Ids : Exists(i) /\ DoomedExpired(rows[i])})

PurgeDelete(c) ==
    /\ op[c].pc = "batch" /\ op[c].kind # "mark"
    /\ \E i \in Ids :
          /\ op[c].batch[i] # NoRow
          /\ TableDelete(i)
          /\ IF op[c].kind = "purge_expired" THEN Drop(i) ELSE UNCHANGED gone
          /\ op' = [op EXCEPT ![c].batch[i] = NoRow]
    /\ UNCHANGED <<nextId, clock, calls, origin, usedIn>>

BatchDone(c) ==
    /\ op[c].pc = "batch"
    /\ op[c].batch = NoBatch
    /\ Return(c)
    /\ UNCHANGED <<rows, nextId, clock, calls, origin, gone, usedIn>>

-----------------------------------------------------------------------------
(* A table operation raises, or the process dies: the call ends there. *)
Abort(c) ==
    /\ Faults
    /\ op[c].pc # "idle"
    /\ Return(c)
    /\ UNCHANGED <<rows, nextId, clock, calls, origin, gone, usedIn>>

Tick ==
    /\ clock < MaxClock
    /\ clock' = clock + 1
    /\ UNCHANGED <<rows, nextId, op, calls, origin, gone, usedIn>>

Step(c) ==
    \/ Store(c)
    \/ \E kind \in RowKinds, i \in Ids : Begin(c, kind, i)
    \/ WalkMissing(c) \/ WalkHop(c) \/ WalkEnd(c)
    \/ SupersedeAdd(c) \/ SupersedeArchive(c)
    \/ UpdateWrite(c) \/ RetireWrite(c) \/ ForgetDelete(c) \/ IncrementWrite(c)
    \/ MarkRead(c) \/ MarkWrite(c)
    \/ PurgeArchivedScan(c) \/ PurgeExpiredScan(c) \/ PurgeDelete(c)
    \/ BatchDone(c)
    \/ Abort(c)

Next == (\E c \in Clients : Step(c)) \/ Tick

Spec == Init /\ [][Next]_vars

-----------------------------------------------------------------------------
(* Properties. *)

Created == {i \in Ids : i < nextId}
Lineages == {origin[i] : i \in Created}
Versions(l) == {i \in Created : origin[i] = l}
Live(i) == Exists(i) /\ ~Archived(rows[i])

Tables == [Ids -> Row \cup {NoRow}]

(* A call about one row, and the two kinds of call about a batch. *)
RowCall == [kind : RowKinds, pc : {"walk", "add", "archive", "delete", "write"},
            id : Ids, cur : Ids, seen : SUBSET Ids, snap : Row, at : Nat,
            new : Ids \cup {NoId}, batch : {NoBatch}, session : {"none"}]

BatchCall(kinds, sessions) ==
    [kind : kinds, pc : {"batch"}, id : {NoId}, cur : {NoId}, seen : {{}},
     snap : {EmptyRow}, at : Nat, new : {NoId}, batch : Tables, session : sessions]

MarkCall == BatchCall({"mark"}, Sessions)
PurgeCall == BatchCall({"purge_archived", "purge_expired"}, {"none"})

TypeOK ==
    /\ rows \in Tables
    /\ nextId \in 1 .. MaxCalls + 1
    /\ clock \in Nat
    /\ op \in [Clients -> {NoOp} \cup RowCall \cup MarkCall \cup PurgeCall]
    /\ calls \in Nat
    /\ origin \in [Ids -> Ids \cup {NoId}]
    /\ gone \subseteq Ids \cup {NoId}
    /\ usedIn \in [Ids -> SUBSET Sessions]

(* superseded_by only ever names a later version of the same memory that   *)
(* has really been added, in the table and in the copy of every call in    *)
(* flight: the chain get_by_id walks has no cycle and never leaves the     *)
(* lineage, whichever calls overlap or die.                                *)
ForwardFrom(i, r) ==
    r.next # NoId =>
        /\ i < r.next /\ r.next < nextId
        /\ origin[r.next] = origin[i]

ChainsForward ==
    /\ \A i \in Ids : Exists(i) => ForwardFrom(i, rows[i])
    /\ \A c \in Clients : op[c].pc \in {"add", "archive", "write", "delete"}
                            => ForwardFrom(op[c].cur, op[c].snap)

(* "do the write of the new row first so a partial failure leaves the old   *)
(* row visible": however calls overlap and wherever one dies, the newest    *)
(* version of a memory nobody gave up is in the table and not archived.     *)
NewestSurvives ==
    \A i \in Created : Newest(i) /\ origin[i] \notin gone => Live(i)

(* Why NewestSurvives holds, as an inductive invariant: a row may be        *)
(* archived only once a later version of its lineage exists (or somebody    *)
(* retired it), and vanish only then or when the lineage was given up; and  *)
(* every copy a call still holds respects that whenever it is written back. *)
Overtaken(i) == \E j \in Ids : j < nextId /\ j > i /\ origin[j] = origin[i]
MayArchive(i) == Overtaken(i) \/ ("retire" \in Ops /\ origin[i] \in gone)
MayVanish(i) == Overtaken(i) \/ origin[i] \in gone

CopyOK(i, r) == ForwardFrom(i, r) /\ (Archived(r) => MayArchive(i))

TableOK ==
    \A i \in Ids :
        /\ Exists(i) => i < nextId /\ CopyOK(i, rows[i])
        /\ i < nextId /\ ~Exists(i) => MayVanish(i)

RowCallOK(c) ==
    /\ op[c].kind \in Ops
    /\ op[c].id <= op[c].cur /\ op[c].cur < nextId
    /\ origin[op[c].id] = origin[op[c].cur]
    /\ op[c].pc # "walk" => CopyOK(op[c].cur, op[c].snap)
    /\ op[c].pc = "archive" =>
          /\ op[c].cur < op[c].new /\ op[c].new < nextId
          /\ origin[op[c].new] = origin[op[c].cur]

BatchOK(c) ==
    \A i \in Ids : op[c].batch[i] # NoRow =>
        /\ i < nextId
        /\ CopyOK(i, op[c].batch[i])
        /\ op[c].kind = "purge_archived" => Archived(op[c].batch[i])

CallOK(c) ==
    /\ op[c].pc \in {"walk", "add", "archive", "delete", "write"} => RowCallOK(c)
    /\ op[c].pc = "batch" => BatchOK(c)

CallsOK == \A c \in Clients : CallOK(c)

IInv == TypeOK /\ TableOK /\ CallsOK

(* get_by_id "follows the superseded_by chain so callers always reach the   *)
(* live version": from every version of a memory that nobody gave up and    *)
(* whose rows are all still stored, the chain ends at a row that is not     *)
(* archived, when no caller retires rows.                                   *)
ChainEnd(i) ==
    LET walk[j \in Ids] ==
            IF ~Exists(j) THEN NoId
            ELSE IF Archived(rows[j]) /\ rows[j].next # NoId THEN walk[rows[j].next]
            ELSE j
    IN walk[i]

CallersReachLive ==
    "retire" \notin Ops => \A l \in Lineages \ gone :
        (\A j \in Versions(l) : Exists(j)) => \A i \in Versions(l) : Live(ChainEnd(i))

(* A lone caller that is not interrupted leaves at most one visible version *)
(* of every memory, and exactly the newest while nobody gave the memory up. *)
Quiet == \A c \in Clients : op[c].pc = "idle"

VisibleVersions(l) == {i \in Versions(l) : Live(i)}

OneVisibleVersion ==
    Quiet => \A l \in Lineages :
        /\ Cardinality(VisibleVersions(l)) <= 1
        /\ l \notin gone => VisibleVersions(l) = {i \in Versions(l) : Newest(i)}

(* forget deletes a memory for good, whichever of its versions' ids it is    *)
(* called with: no version is visible afterwards, and none is ever added to  *)
(* a memory whose newest version was deleted.                                *)
ForgottenStaysForgotten ==
    [][/\ \A c \in Clients : op[c].pc = "delete" /\ op'[c].pc = "idle"
            => \A j \in Versions(origin[op[c].cur]) :
                  rows'[j] = NoRow \/ Archived(rows'[j])
       /\ \A i \in Created : Newest(i) /\ ~Exists(i)
            => \A j \in Ids \ Created : origin'[j] # origin[i]]_vars

(* "Archive the old row (still readable for audit, hidden from queries)":   *)
(* once archived, a row is never shown to recall again.                     *)
ArchivedStaysHidden ==
    [][\A i \in Ids : Exists(i) /\ Archived(rows[i]) /\ rows'[i] # NoRow
            => Archived(rows'[i])]_vars

(* "access_count won't increment more than once per                        *)
(* ACCESS_COUNT_THROTTLE_SECONDS", so a burst of recalls cannot inflate it: *)
(* beyond the first access there is at most one for every cooldown in the   *)
(* row's life, even when recalls overlap and each works on its own copy,    *)
(* as long as none is confirmed (mark_recall_used is not throttled).        *)
OneCountPerCooldown ==
    \A i \in Created : Exists(i) /\ rows[i].count > 0 /\ usedIn[origin[i]] = {}
        => (rows[i].count - 1) * Cooldown <= rows[i].last - rows[i].created

(* A row not stored as cross_session is exempted from session scoping only  *)
(* after Threshold distinct sessions really marked the memory as used.      *)
PromotionEarned ==
    \A i \in Created : Live(i) /\ rows[i].cross
        => Cardinality(usedIn[origin[i]]) >= Threshold

(* "Once a memory has been recalled in CROSS_SESSION_PROMOTION_THRESHOLD    *)
(* distinct sessions ... it's auto-promoted": by a lone caller, and while   *)
(* the memory has one version (a recall marked after the supersede of its   *)
(* row is credited to the archived row).                                    *)
PromotedWhenEarned ==
    \A i \in Created :
        /\ Live(i) /\ Versions(origin[i]) = {i}
        /\ Cardinality(usedIn[i]) >= Threshold
        => rows[i].cross
=============================================================================
