------------------------- MODULE MemoryStoreProofs -------------------------
(***************************************************************************)
(* Theorems about MemoryStore, for any number of callers, calls and ids:   *)
(* its type invariant; that superseded_by chains only run forward and lead *)
(* to a live version; that no overlap or death of calls loses the newest   *)
(* version of a memory, inflates its access count or promotes it early;    *)
(* that the table implements VersionedMemory; and what a lone caller may   *)
(* rely on besides.                                                        *)
(***************************************************************************)
EXTENDS MemoryStoreRefinement, TLAPS, SequenceTheorems, FiniteSetTheorems, WellFoundedInduction

(* The copies the calls make are rows. *)
LEMMA EmptyRowType == EmptyRow \in Row
  BY DEF EmptyRow, Row, NoId

LEMMA NoRowIsNoRow == NoRow \notin Row
  BY DEF NoRow, Row

LEMMA FreshRowType ==
  ASSUME clock \in Nat, NEW until \in Nat
  PROVE  /\ FreshRow(until) \in Row
         /\ FreshRow(until).next = NoId
         /\ FreshRow(until).state = "confirmed"
  BY EmptyRowType DEF FreshRow, EmptyRow, Row

LEMMA NewVersionType ==
  ASSUME NEW r \in Row, NEW at \in Nat, NEW until \in Nat
  PROVE  /\ NewVersion(r, at, until) \in Row
         /\ NewVersion(r, at, until).state = "confirmed"
         /\ NewVersion(r, at, until).next = NoId
  BY DEF NewVersion, Row, NoId

LEMMA ArchivedVersionType ==
  ASSUME NEW r \in Row, NEW at \in Nat, NEW new \in Ids \cup {NoId}
  PROVE  /\ ArchivedVersion(r, at, new) \in Row
         /\ ArchivedVersion(r, at, new).next = new
         /\ ArchivedVersion(r, at, new).state = "archived"
  BY DEF ArchivedVersion, Row

(* The ledger stays a sequence of sessions whatever is cut off its front. *)
LEMMA LedgerType ==
  ASSUME NEW ledger \in Seq(Sessions), NEW s \in Sessions
  PROVE  LedgerWith(ledger, s) \in Seq(Sessions)
<1> DEFINE longer == Append(ledger, s)
           cap == 2 * Threshold
<1>1. longer \in Seq(Sessions) /\ Len(longer) \in Nat
  OBVIOUS
<1>2. cap \in Nat
  BY BoundsAssumption
<1>3. Len(longer) > cap =>
        SubSeq(longer, Len(longer) - cap + 1, Len(longer)) \in Seq(Sessions)
  <2> SUFFICES ASSUME Len(longer) > cap
               PROVE  SubSeq(longer, Len(longer) - cap + 1, Len(longer)) \in Seq(Sessions)
    OBVIOUS
  <2> HIDE DEF longer, cap
  <2>1. Len(longer) - cap + 1 \in 1 .. Len(longer) + 1
    BY <1>1, <1>2
  <2>2. Len(longer) \in Len(longer) - cap + 1 - 1 .. Len(longer)
    BY <1>1, <1>2
  <2> QED
    BY <1>1, <2>1, <2>2, SubSeqProperties
<1> QED
  BY <1>1, <1>3 DEF LedgerWith

LEMMA AccessedType ==
  ASSUME NEW r \in Row, NEW at \in Nat
  PROVE  /\ Accessed(r, at) \in Row
         /\ Accessed(r, at).state = r.state
         /\ Accessed(r, at).next = r.next
<1>1. r.count + 1 \in Nat
  BY DEF Row
<1>2. \A n \in Nat : [r EXCEPT !.count = n, !.last = at] \in Row
  BY DEF Row
<1>3. Accessed(r, at).state = r.state /\ Accessed(r, at).next = r.next
  BY DEF Accessed, Row
<1> QED
  BY <1>1, <1>2, <1>3 DEF Accessed

LEMMA WithLedgerType ==
  ASSUME NEW r \in Row, NEW ledger \in Seq(Sessions)
  PROVE  /\ WithLedger(r, ledger) \in Row
         /\ WithLedger(r, ledger).state = r.state
         /\ WithLedger(r, ledger).next = r.next
<1>1. Promoted(ledger) \in BOOLEAN
  BY DEF Promoted
<1> QED
  BY <1>1 DEF WithLedger, Row

(* Crediting a row touches neither its state nor its successor. *)
LEMMA MarkedType ==
  ASSUME NEW r \in Row, NEW s \in Sessions, NEW at \in Nat
  PROVE  /\ Marked(r, s, at) \in Row
         /\ Marked(r, s, at).state = r.state
         /\ Marked(r, s, at).next = r.next
<1>1. r.ledger \in Seq(Sessions)
  BY DEF Row
<1>2. LedgerWith(r.ledger, s) \in Seq(Sessions)
  BY <1>1, LedgerType
<1>4. Credited(r, s) = r \/ Credited(r, s) = WithLedger(r, LedgerWith(r.ledger, s))
  BY DEF Credited
<1>5. /\ Credited(r, s) \in Row
      /\ Credited(r, s).state = r.state
      /\ Credited(r, s).next = r.next
  BY <1>2, <1>4, WithLedgerType
<1> QED
  BY <1>5, AccessedType DEF Marked

-----------------------------------------------------------------------------
(* Table operations keep the table well typed. *)
LEMMA TableUpdateType ==
  ASSUME rows \in Tables, NEW i \in Ids, NEW r \in Row, TableUpdate(i, r)
  PROVE  rows' \in Tables
  BY DEF Tables, TableUpdate

LEMMA TableAddType ==
  ASSUME rows \in Tables, nextId \in 1 .. MaxCalls + 1,
         origin \in [Ids -> Ids \cup {NoId}],
         NEW r \in Row, NEW root \in Ids \cup {NoId}, TableAdd(r, root)
  PROVE  /\ nextId \in Ids
         /\ nextId' \in 1 .. MaxCalls + 1
         /\ rows' \in Tables
         /\ origin' \in [Ids -> Ids \cup {NoId}]
  BY BoundsAssumption DEF Tables, TableAdd, Ids

LEMMA NoBatchType == NoBatch \in Tables
  BY DEF NoBatch, Tables

Calls == {NoOp} \cup RowCall \cup MarkCall \cup PurgeCall

(* A caller past the start of a call about a row holds a RowCall, and so on: *)
(* the program counter tells the kinds of call apart.                        *)
LEMMA CallShape ==
  ASSUME TypeOK, NEW c \in Clients
  PROVE  /\ op[c].pc \in {"walk", "add", "archive", "delete", "write"} => op[c] \in RowCall
         /\ op[c].pc = "batch" /\ op[c].kind = "mark" => op[c] \in MarkCall
         /\ op[c].pc = "batch" /\ op[c].kind # "mark" => op[c] \in PurgeCall
  BY DEF TypeOK, NoOp, RowCall, MarkCall, PurgeCall, BatchCall

(* Every step keeps the types. *)
LEMMA TypeStep ==
  ASSUME TypeOK, [Next]_vars
  PROVE  TypeOK'
<1> USE DEF Calls
<1>1. ASSUME NEW c \in Clients, Store(c)
      PROVE  TypeOK'
  <2>1. PICK until \in Expiries : TableAdd(FreshRow(until), nextId)
    BY <1>1 DEF Store
  <2>2. FreshRow(until) \in Row
    BY FreshRowType, WorkloadAssumption DEF TypeOK
  <2>3. nextId \in Ids
    BY <2>1, BoundsAssumption DEF TypeOK, TableAdd, Ids
  <2> QED
    BY <1>1, <2>1, <2>2, <2>3, TableAddType DEF TypeOK, Store, MayCall
<1>2. ASSUME NEW c \in Clients, NEW i \in Ids, NEW kind \in RowKinds, Begin(c, kind, i)
      PROVE  TypeOK'
  <2>1. [NoOp EXCEPT !.kind = kind, !.pc = "walk", !.id = i, !.cur = i] \in RowCall
    BY EmptyRowType DEF NoOp, RowCall
  <2> QED
    BY <1>2, <2>1 DEF TypeOK, Begin, MayCall
<1>3. ASSUME NEW c \in Clients, WalkMissing(c) \/ BatchDone(c) \/ Abort(c)
      PROVE  TypeOK'
  BY <1>3 DEF TypeOK, WalkMissing, BatchDone, Abort, Return
<1>4. ASSUME NEW c \in Clients, WalkHop(c)
      PROVE  TypeOK'
  <2>1. op[c] \in RowCall
    BY <1>4, CallShape DEF WalkHop
  <2>2. rows[op[c].cur] \in Row
    BY <1>4, <2>1 DEF TypeOK, Tables, WalkHop, Exists, RowCall
  <2>3. rows[op[c].cur].next \in Ids
    BY <1>4, <2>2 DEF WalkHop, Follows, Row
  <2>4. [op[c] EXCEPT !.seen = @ \cup {op[c].cur}, !.cur = rows[op[c].cur].next] \in RowCall
    BY <2>1, <2>3 DEF RowCall
  <2> QED
    BY <1>4, <2>4 DEF TypeOK, WalkHop
<1>5. ASSUME NEW c \in Clients, WalkEnd(c)
      PROVE  TypeOK'
  <2>1. op[c] \in RowCall
    BY <1>5, CallShape DEF WalkEnd
  <2>2. rows[op[c].cur] \in Row
    BY <1>5, <2>1 DEF TypeOK, Tables, WalkEnd, Exists, RowCall
  <2>3. AfterWalk(op[c].kind) \in {"add", "delete", "write"}
    BY DEF AfterWalk
  <2>4. [op[c] EXCEPT !.pc = AfterWalk(op[c].kind), !.snap = rows[op[c].cur],
                      !.seen = {}, !.at = clock] \in RowCall
    BY <2>1, <2>2, <2>3 DEF TypeOK, RowCall
  <2> QED
    BY <1>5, <2>4 DEF TypeOK, WalkEnd
<1>6. ASSUME NEW c \in Clients, SupersedeAdd(c)
      PROVE  TypeOK'
  <2>1. op[c] \in RowCall
    BY <1>6, CallShape DEF SupersedeAdd
  <2>2. PICK until \in Expiries \cup {op[c].snap.until} :
           TableAdd(NewVersion(op[c].snap, op[c].at, until), origin[op[c].cur])
    BY <1>6 DEF SupersedeAdd
  <2>3. until \in Nat /\ op[c].snap \in Row /\ op[c].at \in Nat /\ op[c].cur \in Ids
    BY <2>1, WorkloadAssumption DEF RowCall, Row
  <2>4. NewVersion(op[c].snap, op[c].at, until) \in Row
    BY <2>3, NewVersionType
  <2>5. origin[op[c].cur] \in Ids \cup {NoId}
    BY <2>3 DEF TypeOK
  <2>6. /\ nextId \in Ids /\ nextId' \in 1 .. MaxCalls + 1
        /\ rows' \in Tables /\ origin' \in [Ids -> Ids \cup {NoId}]
    BY <2>2, <2>4, <2>5, TableAddType DEF TypeOK
  <2>7. [op[c] EXCEPT !.pc = "archive", !.new = nextId] \in RowCall
    BY <2>1, <2>6 DEF RowCall
  <2> QED
    BY <1>6, <2>6, <2>7 DEF TypeOK, SupersedeAdd
<1>7. ASSUME NEW c \in Clients, SupersedeArchive(c)
      PROVE  TypeOK'
  <2>1. /\ op[c].snap \in Row /\ op[c].at \in Nat /\ op[c].cur \in Ids
        /\ op[c].new \in Ids \cup {NoId}
    BY <1>7, CallShape DEF SupersedeArchive, RowCall
  <2>2. rows' \in Tables
    BY <1>7, <2>1, ArchivedVersionType, TableUpdateType DEF TypeOK, SupersedeArchive
  <2> QED
    BY <1>7, <2>2 DEF TypeOK, SupersedeArchive, Return
<1>8. ASSUME NEW c \in Clients, UpdateWrite(c) \/ RetireWrite(c) \/ IncrementWrite(c)
      PROVE  TypeOK'
  <2>1. op[c].snap \in Row /\ op[c].at \in Nat /\ op[c].cur \in Ids /\ op[c].id \in Ids
    BY <1>8, CallShape DEF UpdateWrite, RetireWrite, IncrementWrite, RowCall
  <2>2. CASE UpdateWrite(c)
    BY <2>1, <2>2, TableUpdateType DEF TypeOK, UpdateWrite, Return
  <2>3. CASE RetireWrite(c)
    <3>1. [op[c].snap EXCEPT !.state = "archived"] \in Row
      BY <2>1 DEF Row
    <3>2. rows' \in Tables
      BY <2>1, <2>3, <3>1, TableUpdateType DEF TypeOK, RetireWrite
    <3> QED
      BY <2>1, <2>3, <3>2 DEF TypeOK, RetireWrite, Return, Drop
  <2>4. CASE IncrementWrite(c)
    <3>1. rows' \in Tables
      BY <2>1, <2>4, AccessedType, TableUpdateType DEF TypeOK, IncrementWrite, IncrementTarget
    <3> QED
      BY <2>4, <3>1 DEF TypeOK, IncrementWrite, Return
  <2> QED
    BY <1>8, <2>2, <2>3, <2>4
<1>9. ASSUME NEW c \in Clients, ForgetDelete(c)
      PROVE  TypeOK'
  <2>1. op[c].cur \in Ids
    BY <1>9, CallShape DEF ForgetDelete, RowCall
  <2> QED
    BY <1>9, <2>1 DEF TypeOK, ForgetDelete, TableDelete, Drop, Return, Tables
<1>10. ASSUME NEW c \in Clients, MarkRead(c)
       PROVE  TypeOK'
  <2>1. PICK ids \in SUBSET Ids, s \in Sessions :
          op' = [op EXCEPT ![c] =
                   [NoOp EXCEPT !.kind = "mark", !.pc = "batch", !.session = s, !.at = clock,
                      !.batch = [i \in Ids |-> IF i \in ids THEN rows[i] ELSE NoRow]]]
    BY <1>10 DEF MarkRead
  <2> DEFINE batch == [i \in Ids |-> IF i \in ids THEN rows[i] ELSE NoRow]
  <2>2. batch \in Tables
    BY DEF TypeOK, Tables
  <2>3. [NoOp EXCEPT !.kind = "mark", !.pc = "batch", !.session = s, !.at = clock,
                     !.batch = batch] \in MarkCall
    <3> HIDE DEF batch
    <3> QED
      BY <2>2 DEF TypeOK, NoOp, MarkCall, BatchCall
  <2> QED
    BY <1>10, <2>1, <2>3 DEF TypeOK, MarkRead, MayCall
<1>11. ASSUME NEW c \in Clients, MarkWrite(c)
       PROVE  TypeOK'
  <2>1. op[c] \in MarkCall
    BY <1>11, CallShape DEF MarkWrite
  <2>2. /\ op[c].batch \in Tables /\ op[c].session \in Sessions /\ op[c].at \in Nat
    BY <2>1 DEF MarkCall, BatchCall
  <2>3. PICK i \in Ids :
          /\ op[c].batch[i] # NoRow
          /\ \/ /\ TableUpdate(i, Marked(op[c].batch[i], op[c].session, op[c].at))
                /\ usedIn' = IF Exists(i)
                              THEN [usedIn EXCEPT ![origin[i]] = @ \cup {op[c].session}]
                              ELSE usedIn
             \/ UNCHANGED <<rows, usedIn>>
          /\ op' = [op EXCEPT ![c].batch[i] = NoRow]
    BY <1>11 DEF MarkWrite
  <2>4. op[c].batch[i] \in Row
    BY <2>2, <2>3 DEF Tables
  <2>5. Marked(op[c].batch[i], op[c].session, op[c].at) \in Row
    BY <2>2, <2>4, MarkedType
  <2>6. rows' \in Tables
    BY <2>3, <2>5, TableUpdateType DEF TypeOK
  <2>7. usedIn' \in [Ids -> SUBSET Sessions]
    BY <2>2, <2>3 DEF TypeOK
  <2>8. [op[c] EXCEPT !.batch = [op[c].batch EXCEPT ![i] = NoRow]] \in MarkCall
    <3>1. [op[c].batch EXCEPT ![i] = NoRow] \in Tables
      BY <2>2 DEF Tables
    <3> QED
      BY <2>1, <3>1 DEF MarkCall, BatchCall
  <2>9. op' = [op EXCEPT ![c] = [op[c] EXCEPT !.batch = [op[c].batch EXCEPT ![i] = NoRow]]]
    BY <2>3
  <2> QED
    BY <1>11, <2>6, <2>7, <2>8, <2>9 DEF TypeOK, MarkWrite
<1>12. ASSUME NEW c \in Clients, PurgeArchivedScan(c) \/ PurgeExpiredScan(c)
       PROVE  TypeOK'
  <2>1. PICK kind \in {"purge_archived", "purge_expired"}, doomed \in SUBSET Ids :
          PurgeScan(c, kind, doomed)
    BY <1>12 DEF PurgeArchivedScan, PurgeExpiredScan
  <2> DEFINE batch == [i \in Ids |-> IF i \in doomed THEN rows[i] ELSE NoRow]
  <2>2. batch \in Tables
    BY DEF TypeOK, Tables
  <2>3. [NoOp EXCEPT !.kind = kind, !.pc = "batch", !.batch = batch] \in PurgeCall
    <3> HIDE DEF batch
    <3> QED
      BY <2>2 DEF NoOp, PurgeCall, BatchCall
  <2> QED
    BY <2>1, <2>3 DEF TypeOK, PurgeScan, MayCall
<1>13. ASSUME NEW c \in Clients, PurgeDelete(c)
       PROVE  TypeOK'
  <2>1. op[c] \in PurgeCall
    BY <1>13, CallShape DEF PurgeDelete
  <2>2. PICK i \in Ids :
          /\ TableDelete(i)
          /\ Drop(i) \/ UNCHANGED gone
          /\ op' = [op EXCEPT ![c].batch[i] = NoRow]
    BY <1>13 DEF PurgeDelete
  <2>3. [op[c] EXCEPT !.batch = [op[c].batch EXCEPT ![i] = NoRow]] \in PurgeCall
    <3>1. [op[c].batch EXCEPT ![i] = NoRow] \in Tables
      BY <2>1 DEF Tables, PurgeCall, BatchCall
    <3> QED
      BY <2>1, <3>1 DEF PurgeCall, BatchCall
  <2>4. op' = [op EXCEPT ![c] = [op[c] EXCEPT !.batch = [op[c].batch EXCEPT ![i] = NoRow]]]
    BY <2>2
  <2>5. rows' \in Tables /\ gone' \subseteq Ids \cup {NoId}
    BY <2>2 DEF TypeOK, TableDelete, Drop, Tables
  <2> QED
    BY <1>13, <2>3, <2>4, <2>5 DEF TypeOK, PurgeDelete
<1>14. CASE Tick
  BY <1>14 DEF TypeOK, Tick
<1>15. CASE UNCHANGED vars
  BY <1>15 DEF TypeOK, vars
<1> QED
  BY <1>1, <1>2, <1>3, <1>4, <1>5, <1>6, <1>7, <1>8, <1>9, <1>10, <1>11, <1>12,
     <1>13, <1>14, <1>15 DEF Next, Step

(* The table and every call's local variables keep their types. *)
THEOREM TypeCorrect == Spec => []TypeOK
<1>1. Init => TypeOK
  BY NoBatchType, BoundsAssumption DEF Init, TypeOK
<1>2. TypeOK /\ [Next]_vars => TypeOK'
  BY TypeStep
<1> QED
  BY <1>1, <1>2, PTL DEF Spec

-----------------------------------------------------------------------------
(* The second invariant.  Ids are only ever added at the end, a lineage     *)
(* that was given up stays so: what made it safe to archive a row, and what *)
(* makes a pointer a forward pointer, is never undone.                      *)
HistoryGrows ==
    /\ nextId \in Nat /\ nextId' \in Nat /\ nextId <= nextId'
    /\ \A i \in Ids : i < nextId => origin'[i] = origin[i]
    /\ gone \subseteq gone'

LEMMA StaysSafe ==
  ASSUME HistoryGrows, NEW i \in Ids, i < nextId
  PROVE  /\ MayArchive(i) => MayArchive(i)'
         /\ MayVanish(i) => MayVanish(i)'
         /\ \A r \in Row : ForwardFrom(i, r) => ForwardFrom(i, r)'
         /\ \A r \in Row : CopyOK(i, r) => CopyOK(i, r)'
<1>1. (MayArchive(i) => MayArchive(i)') /\ (MayVanish(i) => MayVanish(i)')
  BY DEF HistoryGrows, MayArchive, MayVanish, Overtaken, Ids
<1>2. \A r \in Row : ForwardFrom(i, r) => ForwardFrom(i, r)'
  BY BoundsAssumption DEF HistoryGrows, ForwardFrom, Row, Ids, NoId
<1> QED
  BY <1>1, <1>2 DEF CopyOK, Archived

LEMMA HistoryStep ==
  ASSUME TypeOK, [Next]_vars
  PROVE  HistoryGrows
<1>1. nextId \in Nat /\ gone \subseteq gone
  BY DEF TypeOK
<1>2. CASE UNCHANGED <<nextId, origin>> /\ gone \subseteq gone'
  BY <1>1, <1>2 DEF HistoryGrows
<1>3. CASE \E r, root : TableAdd(r, root) /\ UNCHANGED gone
  BY <1>1, <1>3 DEF TypeOK, TableAdd, HistoryGrows, Ids
<1>4. ASSUME NEW c \in Clients, Store(c)
      PROVE  HistoryGrows
  BY <1>3, <1>4 DEF Store
<1>5. ASSUME NEW c \in Clients, SupersedeAdd(c)
      PROVE  HistoryGrows
  BY <1>3, <1>5 DEF SupersedeAdd
<1>6. ASSUME NEW c \in Clients, RetireWrite(c) \/ ForgetDelete(c)
      PROVE  HistoryGrows
  BY <1>2, <1>6 DEF RetireWrite, ForgetDelete, Drop
<1>7. ASSUME NEW c \in Clients, PurgeDelete(c)
      PROVE  HistoryGrows
  BY <1>2, <1>7 DEF PurgeDelete, Drop
<1>8. ASSUME NEW c \in Clients,
             \/ \E kind \in RowKinds, i \in Ids : Begin(c, kind, i)
             \/ WalkMissing(c) \/ WalkHop(c) \/ WalkEnd(c) \/ BatchDone(c) \/ Abort(c)
             \/ MarkRead(c) \/ PurgeArchivedScan(c) \/ PurgeExpiredScan(c)
      PROVE  HistoryGrows
  BY <1>2, <1>8 DEF Begin, WalkMissing, WalkHop, WalkEnd, BatchDone, Abort, MarkRead,
     PurgeArchivedScan, PurgeExpiredScan, PurgeScan
<1>9. ASSUME NEW c \in Clients,
             SupersedeArchive(c) \/ UpdateWrite(c) \/ IncrementWrite(c) \/ MarkWrite(c)
      PROVE  HistoryGrows
  BY <1>2, <1>9 DEF SupersedeArchive, UpdateWrite, IncrementWrite, MarkWrite
<1>10. CASE Tick \/ UNCHANGED vars
  BY <1>2, <1>10 DEF Tick, vars
<1> QED
  BY <1>4, <1>5, <1>6, <1>7, <1>8, <1>9, <1>10 DEF Next, Step

(* What each table operation needs, to keep the table safe. *)
LEMMA UpdateKeepsTable ==
  ASSUME TypeOK, TableOK, HistoryGrows, UNCHANGED <<nextId, origin>>,
         NEW i \in Ids, i < nextId, NEW r \in Row, TableUpdate(i, r),
         ForwardFrom(i, r), Archived(r) => MayArchive(i)'
  PROVE  TableOK'
<1> SUFFICES ASSUME NEW j \in Ids
             PROVE  /\ Exists(j)' => j < nextId' /\ CopyOK(j, rows[j])'
                    /\ (j < nextId' /\ ~Exists(j)' => MayVanish(j)')
  BY DEF TableOK
<1>1. rows'[j] = rows[j] \/ (j = i /\ rows'[j] = r)
  BY DEF TableUpdate, TypeOK, Tables
<1>2. rows'[j] = rows[j] /\ ForwardFrom(j, rows[j]) => ForwardFrom(j, rows[j])'
  BY DEF ForwardFrom
<1>3. j = i /\ rows'[j] = r => ForwardFrom(j, rows[j])'
  BY DEF ForwardFrom
<1>4. /\ j < nextId /\ MayArchive(j) => MayArchive(j)'
      /\ j < nextId /\ MayVanish(j) => MayVanish(j)'
  BY StaysSafe
<1>5. CASE rows'[j] = rows[j]
  BY <1>2, <1>4, <1>5 DEF TableOK, CopyOK, Exists, Archived
<1>6. CASE j = i /\ rows'[j] = r
  BY <1>3, <1>6, NoRowIsNoRow DEF Exists, CopyOK, Archived
<1> QED
  BY <1>1, <1>5, <1>6

LEMMA DeleteKeepsTable ==
  ASSUME TypeOK, TableOK, HistoryGrows, UNCHANGED <<nextId, origin>>,
         NEW i \in Ids, i < nextId, TableDelete(i), MayVanish(i)'
  PROVE  TableOK'
<1> SUFFICES ASSUME NEW j \in Ids
             PROVE  /\ Exists(j)' => j < nextId' /\ CopyOK(j, rows[j])'
                    /\ (j < nextId' /\ ~Exists(j)' => MayVanish(j)')
  BY DEF TableOK
<1>1. rows'[j] = rows[j] \/ (j = i /\ rows'[j] = NoRow)
  BY DEF TableDelete, TypeOK, Tables
<1>2. rows'[j] = rows[j] /\ ForwardFrom(j, rows[j]) => ForwardFrom(j, rows[j])'
  BY DEF ForwardFrom
<1>4. /\ j < nextId /\ MayArchive(j) => MayArchive(j)'
      /\ j < nextId /\ MayVanish(j) => MayVanish(j)'
  BY StaysSafe
<1>5. CASE rows'[j] = rows[j]
  BY <1>2, <1>4, <1>5 DEF TableOK, CopyOK, Exists, Archived
<1>6. CASE j = i /\ rows'[j] = NoRow
  BY <1>6 DEF Exists
<1> QED
  BY <1>1, <1>5, <1>6

LEMMA AddKeepsTable ==
  ASSUME TypeOK, TypeOK', TableOK, HistoryGrows,
         NEW r \in Row, r.state = "confirmed", r.next = NoId,
         NEW root, TableAdd(r, root), UNCHANGED gone
  PROVE  TableOK'
<1> SUFFICES ASSUME NEW j \in Ids
             PROVE  /\ Exists(j)' => j < nextId' /\ CopyOK(j, rows[j])'
                    /\ (j < nextId' /\ ~Exists(j)' => MayVanish(j)')
  BY DEF TableOK
<1>1. nextId' = nextId + 1 /\ nextId \in Nat
  BY DEF TableAdd, TypeOK
<1>2. CASE j = nextId
  <2>1. rows'[j] = r
    BY <1>2 DEF TableAdd, TypeOK, Tables
  <2> QED
    BY <1>1, <1>2, <2>1, NoRowIsNoRow DEF Exists, CopyOK, Archived, ForwardFrom
<1>3. CASE j # nextId
  <2>1. rows'[j] = rows[j] /\ origin'[j] = origin[j]
    BY <1>3 DEF TableAdd, TypeOK, Tables
  <2>2. ForwardFrom(j, rows[j]) /\ Exists(j) => ForwardFrom(j, rows[j])'
    <3>1. SUFFICES ASSUME ForwardFrom(j, rows[j]), rows[j].next # NoId, Exists(j)
                   PROVE  ForwardFrom(j, rows[j])'
      BY <2>1 DEF ForwardFrom
    <3>2. rows[j].next \in Ids
      BY <3>1 DEF TypeOK, Tables, Exists, Row
    <3>3. origin'[rows[j].next] = origin[rows[j].next]
      BY <3>1, <3>2 DEF ForwardFrom, HistoryGrows
    <3> QED
      BY <1>1, <2>1, <3>1, <3>2, <3>3 DEF ForwardFrom, Ids
  <2>3. /\ j < nextId /\ MayArchive(j) => MayArchive(j)'
        /\ j < nextId /\ MayVanish(j) => MayVanish(j)'
    BY StaysSafe
  <2>4. j < nextId' => j < nextId
    BY <1>1, <1>3 DEF Ids
  <2> QED
    BY <1>1, <2>1, <2>2, <2>3, <2>4 DEF TableOK, CopyOK, Exists, Archived, Ids
<1> QED
  BY <1>2, <1>3

(* A step that leaves the table alone keeps it safe. *)
LEMMA SameTable ==
  ASSUME TypeOK, TableOK, HistoryGrows, UNCHANGED <<rows, nextId, origin>>
  PROVE  TableOK'
<1> SUFFICES ASSUME NEW j \in Ids
             PROVE  /\ Exists(j)' => j < nextId' /\ CopyOK(j, rows[j])'
                    /\ (j < nextId' /\ ~Exists(j)' => MayVanish(j)')
  BY DEF TableOK
<1>1. ForwardFrom(j, rows[j]) => ForwardFrom(j, rows[j])'
  BY DEF ForwardFrom
<1>2. /\ j < nextId /\ MayArchive(j) => MayArchive(j)'
      /\ j < nextId /\ MayVanish(j) => MayVanish(j)'
  BY StaysSafe
<1> QED
  BY <1>1, <1>2 DEF TableOK, CopyOK, Exists, Archived

(* A copy that respects the history goes on doing so, whoever holds it. *)
LEMMA SafeCopy ==
  ASSUME HistoryGrows, NEW d \in Clients, op'[d] = op[d],
         op[d].cur \in Ids, op[d].snap \in Row, op[d].cur < nextId,
         CopyOK(op[d].cur, op[d].snap)
  PROVE  CopyOK(op[d].cur, op[d].snap)'
<1>1. SUFFICES ASSUME NEW i \in Ids, i = op[d].cur, NEW r \in Row, r = op[d].snap
               PROVE  CopyOK(op[d].cur, op[d].snap)'
  OBVIOUS
<1>2. CopyOK(i, r)'
  BY <1>1, StaysSafe
<1> QED
  BY <1>1, <1>2 DEF CopyOK, ForwardFrom, Archived, MayArchive, Overtaken

LEMMA OtherCall ==
  ASSUME TypeOK, CallsOK, HistoryGrows, NEW d \in Clients, op'[d] = op[d]
  PROVE  CallOK(d)'
<1>1. CASE op[d].pc \in {"walk", "add", "archive", "delete", "write"}
  <2>1. op[d] \in RowCall /\ RowCallOK(d)
    BY <1>1, CallShape DEF CallsOK, CallOK
  <2>2. /\ op[d].id \in Ids /\ op[d].cur \in Ids /\ op[d].snap \in Row
        /\ op[d].new \in Ids \cup {NoId}
    BY <2>1 DEF RowCall
  <2>3. /\ origin'[op[d].id] = origin[op[d].id]
        /\ origin'[op[d].cur] = origin[op[d].cur]
    BY <2>1, <2>2 DEF RowCallOK, HistoryGrows, Ids
  <2>4. op[d].cur < nextId'
    BY <2>1, <2>2 DEF RowCallOK, HistoryGrows, Ids
  <2>5. op[d].pc # "walk" => CopyOK(op[d].cur, op[d].snap)'
    BY <2>1, <2>2, SafeCopy DEF RowCallOK
  <2>6. op[d].pc = "archive" =>
          /\ op[d].cur < op[d].new /\ op[d].new < nextId'
          /\ origin'[op[d].new] = origin'[op[d].cur]
    BY <2>1, <2>2, <2>3 DEF RowCallOK, HistoryGrows, Ids, NoId
  <2>7. RowCallOK(d)'
    BY <2>1, <2>3, <2>4, <2>5, <2>6 DEF RowCallOK
  <2> QED
    BY <1>1, <2>7 DEF CallOK
<1>2. CASE op[d].pc = "batch"
  <2>1. op[d].batch \in Tables /\ BatchOK(d)
    BY <1>2, CallShape DEF CallsOK, CallOK, MarkCall, PurgeCall, BatchCall
  <2>2. ASSUME NEW i \in Ids, op[d].batch[i] # NoRow
        PROVE  /\ i < nextId'
               /\ CopyOK(i, op[d].batch[i])'
               /\ op[d].kind = "purge_archived" => Archived(op[d].batch[i])
    <3>1. i < nextId /\ CopyOK(i, op[d].batch[i]) /\ op[d].batch[i] \in Row
      BY <2>1, <2>2 DEF BatchOK, Tables
    <3>2. SUFFICES ASSUME NEW r \in Row, r = op[d].batch[i]
                   PROVE  CopyOK(i, op[d].batch[i])' /\ i < nextId'
      BY <2>1, <2>2, <3>1 DEF BatchOK
    <3>3. CopyOK(i, r)'
      BY <3>1, <3>2, StaysSafe
    <3> QED
      BY <3>1, <3>2, <3>3 DEF CopyOK, ForwardFrom, Archived, HistoryGrows, Ids
  <2>3. BatchOK(d)'
    BY <2>2 DEF BatchOK, Archived
  <2> QED
    BY <1>2, <2>3 DEF CallOK
<1>3. CASE op[d].pc = "idle"
  BY <1>3 DEF CallOK
<1> QED
  BY <1>1, <1>2, <1>3 DEF TypeOK, NoOp, RowCall, MarkCall, PurgeCall, BatchCall

(* It is enough to look at the caller that took the step. *)
LEMMA OneCall ==
  ASSUME TypeOK, CallsOK, HistoryGrows, NEW c \in Clients,
         NEW v, op' = [op EXCEPT ![c] = v], CallOK(c)'
  PROVE  CallsOK'
<1> SUFFICES ASSUME NEW d \in Clients
             PROVE  CallOK(d)'
  BY DEF CallsOK
<1>1. CASE d = c
  BY <1>1
<1>2. CASE d # c
  <2>1. op'[d] = op[d]
    BY <1>2 DEF TypeOK
  <2> QED
    BY <2>1, OtherCall
<1> QED
  BY <1>1, <1>2

LEMMA ReturnKeepsCalls ==
  ASSUME TypeOK, CallsOK, HistoryGrows, NEW c \in Clients, Return(c)
  PROVE  CallsOK'
<1>1. op'[c] = NoOp
  BY DEF Return, TypeOK
<1>2. CallOK(c)'
  BY <1>1 DEF CallOK, NoOp
<1> QED
  BY <1>2, OneCall DEF Return

(* A batch from which one copy was taken is as safe as before. *)
LEMMA BatchShrinks ==
  ASSUME TypeOK, CallsOK, HistoryGrows, NEW c \in Clients, op[c].pc = "batch",
         op[c].batch \in Tables, BatchOK(c), UNCHANGED <<nextId, origin>>,
         NEW i \in Ids, op' = [op EXCEPT ![c].batch[i] = NoRow],
         op[c] \in MarkCall \cup PurgeCall
  PROVE  CallsOK'
<1> DEFINE v == [op[c] EXCEPT !.batch = [op[c].batch EXCEPT ![i] = NoRow]]
<1>1. op' = [op EXCEPT ![c] = v]
  OBVIOUS
<1>2. /\ op'[c].pc = "batch" /\ op'[c].kind = op[c].kind
      /\ \A j \in Ids : op'[c].batch[j] # NoRow => op'[c].batch[j] = op[c].batch[j]
                                                /\ op[c].batch[j] # NoRow
  BY <1>1 DEF TypeOK, Tables, MarkCall, PurgeCall, BatchCall
<1>3. ASSUME NEW j \in Ids, op'[c].batch[j] # NoRow
      PROVE  /\ j < nextId'
             /\ CopyOK(j, op[c].batch[j])'
             /\ (op[c].kind = "purge_archived" => Archived(op[c].batch[j]))'
  <2>1. /\ j < nextId /\ CopyOK(j, op[c].batch[j]) /\ op[c].batch[j] \in Row
        /\ op[c].kind = "purge_archived" => Archived(op[c].batch[j])
    BY <1>2, <1>3 DEF BatchOK, Tables
  <2>2. SUFFICES ASSUME NEW r \in Row, r = op[c].batch[j]
                 PROVE  CopyOK(j, op[c].batch[j])'
    BY <1>2, <1>3, <2>1 DEF Archived
  <2>3. CopyOK(j, r)'
    BY <2>1, <2>2, StaysSafe
  <2> QED
    BY <1>2, <1>3, <2>2, <2>3 DEF CopyOK, ForwardFrom, Archived
<1>4. CallOK(c)'
  BY <1>2, <1>3 DEF CallOK, BatchOK
<1> QED
  BY <1>1, <1>4, OneCall

-----------------------------------------------------------------------------
(* Every step keeps the invariant: one step of the proof per action. *)
LEMMA SafetyStep ==
  ASSUME IInv, [Next]_vars
  PROVE  TableOK' /\ CallsOK'
<1> USE DEF IInv
<1>h. TypeOK' /\ HistoryGrows
  BY TypeStep, HistoryStep
<1>1. ASSUME NEW c \in Clients, Store(c)
      PROVE  TableOK' /\ CallsOK'
  <2>1. PICK until \in Expiries : TableAdd(FreshRow(until), nextId)
    BY <1>1 DEF Store
  <2>2. TableOK'
    BY <1>h, <1>1, <2>1, FreshRowType, AddKeepsTable, WorkloadAssumption DEF TypeOK, Store
  <2>3. CallsOK'
    BY <1>h, <1>1, OtherCall DEF Store, CallsOK
  <2> QED
    BY <2>2, <2>3
<1>2. ASSUME NEW c \in Clients, NEW i \in Ids, NEW kind \in RowKinds, Begin(c, kind, i)
      PROVE  TableOK' /\ CallsOK'
  <2> DEFINE v == [NoOp EXCEPT !.kind = kind, !.pc = "walk", !.id = i, !.cur = i]
  <2>1. op'[c] = v /\ i < nextId' /\ kind \in Ops
    BY <1>2 DEF Begin, MayCall, TypeOK
  <2>2. v.pc = "walk" /\ v.id = i /\ v.cur = i /\ v.kind = kind
    BY DEF NoOp
  <2>3. CallOK(c)'
    <3> HIDE DEF v
    <3> QED
      BY <2>1, <2>2 DEF CallOK, RowCallOK, Ids
  <2>4. CallsOK'
    BY <1>h, <1>2, <2>3, OneCall DEF Begin
  <2> QED
    BY <1>h, <1>2, <2>4, SameTable DEF Begin
<1>3. ASSUME NEW c \in Clients, WalkMissing(c) \/ BatchDone(c) \/ Abort(c)
      PROVE  TableOK' /\ CallsOK'
  BY <1>h, <1>3, SameTable, ReturnKeepsCalls DEF WalkMissing, BatchDone, Abort
<1>4. ASSUME NEW c \in Clients, WalkHop(c)
      PROVE  TableOK' /\ CallsOK'
  <2>1. op[c] \in RowCall /\ RowCallOK(c)
    BY <1>4, CallShape DEF WalkHop, CallsOK, CallOK
  <2>2. op[c].cur \in Ids /\ op[c].id \in Ids
    BY <2>1 DEF RowCall
  <2>3. rows[op[c].cur] \in Row
    BY <1>4, <2>2 DEF TypeOK, Tables, WalkHop, Exists
  <2> DEFINE next == rows[op[c].cur].next
  <2>4. /\ next \in Ids /\ op[c].cur < next /\ next < nextId
        /\ origin[next] = origin[op[c].cur]
    BY <1>4, <2>2, <2>3 DEF WalkHop, Follows, TableOK, CopyOK, ForwardFrom, Row
  <2>5. /\ op'[c].pc = "walk" /\ op'[c].id = op[c].id /\ op'[c].cur = next
        /\ op'[c].kind = op[c].kind
    BY <1>4, <2>1 DEF WalkHop, TypeOK, RowCall
  <2>6. CallOK(c)'
    <3> HIDE DEF next
    <3> QED
      BY <1>4, <2>1, <2>2, <2>4, <2>5 DEF CallOK, RowCallOK, WalkHop, Ids
  <2>7. CallsOK'
    BY <1>h, <1>4, <2>6, OneCall DEF WalkHop
  <2> QED
    BY <1>h, <1>4, <2>7, SameTable DEF WalkHop
<1>5. ASSUME NEW c \in Clients, WalkEnd(c)
      PROVE  TableOK' /\ CallsOK'
  <2>1. op[c] \in RowCall /\ RowCallOK(c)
    BY <1>5, CallShape DEF WalkEnd, CallsOK, CallOK
  <2>2. op[c].cur \in Ids /\ op[c].id \in Ids
    BY <2>1 DEF RowCall
  <2>3. /\ op'[c].pc \in {"add", "delete", "write"}
        /\ op'[c].id = op[c].id /\ op'[c].cur = op[c].cur
        /\ op'[c].snap = rows[op[c].cur] /\ op'[c].kind = op[c].kind
    BY <1>5, <2>1 DEF WalkEnd, AfterWalk, TypeOK, RowCall
  <2>4. CopyOK(op[c].cur, rows[op[c].cur])
    BY <1>5, <2>1, <2>2 DEF WalkEnd, RowCallOK, TableOK
  <2>5. CopyOK(op[c].cur, op[c].snap)'
    <3>1. SUFFICES ASSUME NEW i, i = op[c].cur, NEW r, r = rows[op[c].cur]
                   PROVE  CopyOK(op[c].cur, op[c].snap)'
      OBVIOUS
    <3>2. CopyOK(i, r)'
      BY <1>5, <2>4, <3>1 DEF CopyOK, ForwardFrom, MayArchive, Overtaken, WalkEnd, Archived
    <3> QED
      BY <2>3, <3>1, <3>2 DEF CopyOK, ForwardFrom, Archived, MayArchive, Overtaken
  <2>6. CallOK(c)'
    BY <1>5, <2>1, <2>3, <2>5 DEF CallOK, RowCallOK, WalkEnd
  <2>7. CallsOK'
    BY <1>h, <1>5, <2>6, OneCall DEF WalkEnd
  <2> QED
    BY <1>h, <1>5, <2>7, SameTable DEF WalkEnd
<1>6. ASSUME NEW c \in Clients, SupersedeAdd(c)
      PROVE  TableOK' /\ CallsOK'
  <2>1. op[c] \in RowCall /\ RowCallOK(c) /\ CopyOK(op[c].cur, op[c].snap)
    BY <1>6, CallShape DEF SupersedeAdd, CallsOK, CallOK, RowCallOK
  <2>2. /\ op[c].cur \in Ids /\ op[c].id \in Ids /\ op[c].snap \in Row /\ op[c].at \in Nat
    BY <2>1 DEF RowCall
  <2>3. PICK until \in Expiries \cup {op[c].snap.until} :
           TableAdd(NewVersion(op[c].snap, op[c].at, until), origin[op[c].cur])
    BY <1>6 DEF SupersedeAdd
  <2>4. until \in Nat
    BY <2>2, WorkloadAssumption DEF Row
  <2>5. TableOK'
    BY <1>h, <1>6, <2>2, <2>3, <2>4, NewVersionType, AddKeepsTable DEF SupersedeAdd
  <2>6. /\ op'[c].pc = "archive" /\ op'[c].id = op[c].id /\ op'[c].cur = op[c].cur
        /\ op'[c].snap = op[c].snap /\ op'[c].new = nextId
        /\ op'[c].kind = op[c].kind
    BY <1>6, <2>1 DEF SupersedeAdd, TypeOK, RowCall
  <2>7. /\ nextId \in Ids /\ nextId' = nextId + 1 /\ nextId \in Nat
        /\ origin'[nextId] = origin[op[c].cur]
        /\ origin'[op[c].id] = origin[op[c].id]
        /\ origin'[op[c].cur] = origin[op[c].cur]
    BY <1>h, <2>1, <2>2, <2>3 DEF TableAdd, TypeOK, Ids, RowCallOK, HistoryGrows
  <2>8. CopyOK(op[c].cur, op[c].snap)'
    <3>1. SUFFICES ASSUME NEW i \in Ids, i = op[c].cur, NEW r \in Row, r = op[c].snap
                   PROVE  CopyOK(op[c].cur, op[c].snap)'
      BY <2>2
    <3>2. CopyOK(i, r)'
      BY <1>h, <2>1, <3>1, StaysSafe DEF RowCallOK
    <3> QED
      BY <2>6, <3>1, <3>2 DEF CopyOK, ForwardFrom, Archived, MayArchive, Overtaken
  <2>9. CallOK(c)'
    BY <2>1, <2>2, <2>6, <2>7, <2>8 DEF CallOK, RowCallOK, Ids
  <2>10. CallsOK'
    BY <1>h, <1>6, <2>9, OneCall DEF SupersedeAdd
  <2> QED
    BY <2>5, <2>10
<1>7. ASSUME NEW c \in Clients,
             SupersedeArchive(c) \/ UpdateWrite(c) \/ RetireWrite(c) \/ IncrementWrite(c)
      PROVE  TableOK' /\ CallsOK'
  <2>1. op[c] \in RowCall /\ RowCallOK(c) /\ CopyOK(op[c].cur, op[c].snap)
    BY <1>7, CallShape DEF SupersedeArchive, UpdateWrite, RetireWrite, IncrementWrite,
       CallsOK, CallOK, RowCallOK
  <2>2. /\ op[c].cur \in Ids /\ op[c].snap \in Row /\ op[c].id \in Ids
        /\ op[c].at \in Nat /\ op[c].new \in Ids \cup {NoId}
    BY <2>1 DEF RowCall
  <2>3. SUFFICES ASSUME NEW i \in Ids, i = op[c].cur, NEW r \in Row, r = op[c].snap,
                        NEW at \in Nat, at = op[c].at,
                        NEW j \in Ids, j = op[c].id,
                        NEW new \in Ids \cup {NoId}, new = op[c].new
                 PROVE  TableOK' /\ CallsOK'
    BY <2>2
  <2>4. /\ nextId' = nextId /\ origin' = origin /\ CallsOK'
    BY <1>h, <1>7, ReturnKeepsCalls DEF SupersedeArchive, UpdateWrite, RetireWrite, IncrementWrite
  <2>5. /\ i < nextId /\ j <= i /\ j < nextId /\ origin[j] = origin[i]
        /\ CopyOK(i, r)
    BY <2>1, <2>3 DEF RowCallOK, TypeOK, Ids
  <2>6. MayArchive(i) => MayArchive(i)'
    BY <1>h, <2>5, StaysSafe
  <2>7. CASE SupersedeArchive(c)
    <3> DEFINE old == ArchivedVersion(r, at, new)
    <3>1. old \in Row /\ old.next = new
      BY ArchivedVersionType
    <3>2. i < new /\ new < nextId /\ origin[new] = origin[i]
      BY <2>1, <2>3, <2>7 DEF RowCallOK, SupersedeArchive
    <3>3. new \in Ids
      BY <3>2 DEF NoId, Ids
    <3>4. ForwardFrom(i, old)
      BY <3>1, <3>2 DEF ForwardFrom
    <3>5. MayArchive(i)
      BY <3>2, <3>3 DEF MayArchive, Overtaken
    <3>6. TableUpdate(i, old)
      BY <2>3, <2>7 DEF SupersedeArchive
    <3> QED
      BY <1>h, <2>4, <2>5, <2>6, <3>1, <3>4, <3>5, <3>6, UpdateKeepsTable
  <2>8. CASE UpdateWrite(c)
    BY <1>h, <2>3, <2>4, <2>5, <2>6, <2>8, UpdateKeepsTable DEF UpdateWrite, CopyOK
  <2>9. CASE RetireWrite(c)
    <3> DEFINE retired == [r EXCEPT !.state = "archived"]
    <3>1. retired \in Row /\ retired.next = r.next
      BY DEF Row
    <3>2. ForwardFrom(i, retired)
      BY <2>5, <3>1 DEF CopyOK, ForwardFrom
    <3>3. TableUpdate(i, retired) /\ Drop(i)
      BY <2>3, <2>9 DEF RetireWrite
    <3>4. "retire" \in Ops
      BY <2>1, <2>9 DEF RetireWrite, RowCallOK
    <3>5. MayArchive(i)'
      BY <2>4, <2>5, <2>6, <3>3, <3>4 DEF Drop, Newest, MayArchive, Overtaken
    <3> QED
      BY <1>h, <2>4, <2>5, <3>1, <3>2, <3>3, <3>5, UpdateKeepsTable
  <2>10. CASE IncrementWrite(c)
    <3>1. CASE UNCHANGED rows
      BY <1>h, <2>4, <3>1, SameTable
    <3>2. CASE TableUpdate(j, Accessed(r, at))
      <4> DEFINE counted == Accessed(r, at)
      <4>1. counted \in Row /\ counted.next = r.next /\ counted.state = r.state
        BY AccessedType
      <4>2. ForwardFrom(j, counted)
        BY <2>5, <4>1 DEF CopyOK, ForwardFrom, Ids, Row, NoId
      <4>3. Archived(counted) => MayArchive(j)
        <5>1. CASE j = i
          BY <2>5, <4>1, <5>1 DEF CopyOK, Archived
        <5>2. CASE j < i
          BY <2>5, <5>2 DEF MayArchive, Overtaken
        <5> QED
          BY <2>5, <5>1, <5>2 DEF Ids
      <4>4. MayArchive(j) => MayArchive(j)'
        BY <1>h, <2>5, StaysSafe
      <4> QED
        BY <1>h, <2>4, <2>5, <3>2, <4>1, <4>2, <4>3, <4>4, UpdateKeepsTable
    <3> QED
      BY <2>3, <2>10, <3>1, <3>2 DEF IncrementWrite, IncrementTarget
  <2> QED
    BY <1>7, <2>4, <2>7, <2>8, <2>9, <2>10
<1>8. ASSUME NEW c \in Clients, ForgetDelete(c)
      PROVE  TableOK' /\ CallsOK'
  <2>1. op[c] \in RowCall /\ RowCallOK(c)
    BY <1>8, CallShape DEF ForgetDelete, CallsOK, CallOK
  <2>2. SUFFICES ASSUME NEW i \in Ids, i = op[c].cur
                 PROVE  TableOK' /\ CallsOK'
    BY <2>1 DEF RowCall
  <2>3. /\ nextId' = nextId /\ origin' = origin /\ CallsOK' /\ i < nextId
    BY <1>h, <1>8, <2>1, <2>2, ReturnKeepsCalls DEF ForgetDelete, RowCallOK
  <2>4. TableDelete(i) /\ Drop(i)
    BY <1>8, <2>2 DEF ForgetDelete
  <2>5. MayVanish(i)'
    BY <2>3, <2>4 DEF Drop, Newest, MayVanish, Overtaken
  <2> QED
    BY <1>h, <2>3, <2>4, <2>5, DeleteKeepsTable
<1>9. ASSUME NEW c \in Clients,
             MarkRead(c) \/ PurgeArchivedScan(c) \/ PurgeExpiredScan(c)
      PROVE  TableOK' /\ CallsOK'
  <2>1. /\ UNCHANGED <<rows, nextId, origin, gone>>
        /\ \E v : op' = [op EXCEPT ![c] = v]
        /\ op'[c].pc = "batch"
        /\ \A i \in Ids : op'[c].batch[i] # NoRow =>
              /\ op'[c].batch[i] = rows[i]
              /\ op'[c].kind = "purge_archived" => Archived(rows[i])
    <3>1. CASE MarkRead(c)
      <4>1. PICK ids \in SUBSET Ids, s \in Sessions :
              op' = [op EXCEPT ![c] =
                       [NoOp EXCEPT !.kind = "mark", !.pc = "batch", !.session = s, !.at = clock,
                          !.batch = [i \in Ids |-> IF i \in ids THEN rows[i] ELSE NoRow]]]
        BY <3>1 DEF MarkRead
      <4>2. /\ op'[c].pc = "batch" /\ op'[c].kind = "mark"
            /\ op'[c].batch = [i \in Ids |-> IF i \in ids THEN rows[i] ELSE NoRow]
        BY <4>1 DEF TypeOK, NoOp
      <4>3. \A i \in Ids : op'[c].batch[i] # NoRow => op'[c].batch[i] = rows[i]
        BY <4>2
      <4> QED
        BY <3>1, <4>1, <4>2, <4>3 DEF MarkRead
    <3>2. CASE PurgeArchivedScan(c)
      BY <3>2 DEF PurgeArchivedScan, PurgeScan, TypeOK, NoOp, DoomedArchived
    <3>3. CASE PurgeExpiredScan(c)
      BY <3>3 DEF PurgeExpiredScan, PurgeScan, TypeOK, NoOp
    <3> QED
      BY <1>9, <3>1, <3>2, <3>3
  <2>2. ASSUME NEW i \in Ids, op'[c].batch[i] # NoRow
        PROVE  /\ i < nextId
               /\ CopyOK(i, op[c].batch[i])'
               /\ op'[c].kind = "purge_archived" => Archived(op[c].batch[i])'
    <3>1. op'[c].batch[i] = rows[i] /\ Exists(i)
      BY <2>1, <2>2 DEF Exists
    <3>2. i < nextId /\ CopyOK(i, rows[i])
      BY <3>1 DEF TableOK, CopyOK, Live
    <3>3. SUFFICES ASSUME NEW r, r = rows[i]
                   PROVE  CopyOK(i, op[c].batch[i])'
      BY <2>1, <2>2, <3>1, <3>2 DEF Archived
    <3>4. CopyOK(i, r)'
      BY <2>1, <3>2, <3>3 DEF CopyOK, ForwardFrom, Archived, MayArchive, Overtaken
    <3> QED
      BY <3>1, <3>3, <3>4 DEF CopyOK, ForwardFrom, Archived
  <2>3. CallOK(c)'
    BY <2>1, <2>2 DEF CallOK, BatchOK
  <2> QED
    BY <1>h, <2>1, <2>3, SameTable, OneCall
<1>10. ASSUME NEW c \in Clients, MarkWrite(c)
       PROVE  TableOK' /\ CallsOK'
  <2>1. op[c] \in MarkCall /\ op[c].pc = "batch" /\ op[c].batch \in Tables /\ BatchOK(c)
    BY <1>10, CallShape DEF MarkWrite, CallsOK, CallOK, MarkCall, BatchCall
  <2>2. PICK i \in Ids :
          /\ op[c].batch[i] # NoRow
          /\ \/ TableUpdate(i, Marked(op[c].batch[i], op[c].session, op[c].at))
             \/ UNCHANGED rows
          /\ op' = [op EXCEPT ![c].batch[i] = NoRow]
    BY <1>10 DEF MarkWrite
  <2>3. /\ op[c].batch[i] \in Row /\ op[c].session \in Sessions /\ op[c].at \in Nat
        /\ i < nextId /\ CopyOK(i, op[c].batch[i])
    BY <2>1, <2>2 DEF MarkCall, BatchCall, Tables, BatchOK
  <2>4. UNCHANGED <<nextId, origin, gone>>
    BY <1>10 DEF MarkWrite
  <2>5. CallsOK'
    BY <1>h, <1>10, <2>1, <2>2, <2>4, BatchShrinks
  <2>6. TableOK'
    <3>1. SUFFICES ASSUME NEW r \in Row, r = Marked(op[c].batch[i], op[c].session, op[c].at)
                   PROVE  TableOK'
      BY <2>3, MarkedType
    <3>2. ForwardFrom(i, r) /\ (Archived(r) => MayArchive(i))
      BY <2>3, <3>1, MarkedType DEF CopyOK, ForwardFrom, Archived
    <3>3. MayArchive(i) => MayArchive(i)'
      BY <1>h, <2>3, StaysSafe
    <3> QED
      BY <1>h, <2>2, <2>3, <2>4, <3>1, <3>2, <3>3, UpdateKeepsTable, SameTable
  <2> QED
    BY <2>5, <2>6
<1>11. ASSUME NEW c \in Clients, PurgeDelete(c)
       PROVE  TableOK' /\ CallsOK'
  <2>1. op[c] \in PurgeCall /\ op[c].pc = "batch" /\ op[c].batch \in Tables /\ BatchOK(c)
    BY <1>11, CallShape DEF PurgeDelete, CallsOK, CallOK, PurgeCall, BatchCall
  <2>2. PICK i \in Ids :
          /\ op[c].batch[i] # NoRow
          /\ TableDelete(i)
          /\ IF op[c].kind = "purge_expired" THEN Drop(i) ELSE UNCHANGED gone
          /\ op' = [op EXCEPT ![c].batch[i] = NoRow]
    BY <1>11 DEF PurgeDelete
  <2>3. i < nextId /\ CopyOK(i, op[c].batch[i]) /\ UNCHANGED <<nextId, origin>>
    BY <1>11, <2>1, <2>2 DEF BatchOK, PurgeDelete
  <2>4. CallsOK'
    BY <1>h, <1>11, <2>1, <2>2, <2>3, BatchShrinks
  <2>5. MayVanish(i)'
    <3>1. CASE op[c].kind = "purge_expired"
      BY <2>2, <2>3, <3>1 DEF Drop, Newest, MayVanish, Overtaken
    <3>2. CASE op[c].kind = "purge_archived"
      <4>1. MayVanish(i)
        BY <2>1, <2>2, <3>2 DEF BatchOK, CopyOK, MayArchive, MayVanish
      <4> QED
        BY <1>h, <2>3, <4>1, StaysSafe
    <3> QED
      BY <2>1, <3>1, <3>2 DEF PurgeCall, BatchCall
  <2> QED
    BY <1>h, <2>2, <2>3, <2>4, <2>5, DeleteKeepsTable
<1>12. CASE Tick \/ UNCHANGED vars
  BY <1>h, <1>12, SameTable, OtherCall DEF Tick, vars, CallsOK
<1> QED
  BY <1>1, <1>2, <1>3, <1>4, <1>5, <1>6, <1>7, <1>8, <1>9, <1>10, <1>11, <1>12 DEF Next, Step

LEMMA SafetyInit == Init => IInv
<1> SUFFICES ASSUME Init
             PROVE  IInv
  OBVIOUS
<1>1. TypeOK
  BY NoBatchType, BoundsAssumption DEF Init, TypeOK
<1>2. TableOK
  BY DEF Init, TableOK, Exists, NoBatch, Ids
<1>3. CallsOK
  BY DEF Init, CallsOK, CallOK, NoOp
<1> QED
  BY <1>1, <1>2, <1>3 DEF IInv

LEMMA Inductive == Spec => []IInv
<1>1. IInv /\ [Next]_vars => IInv'
  BY TypeStep, SafetyStep DEF IInv
<1> QED
  BY <1>1, SafetyInit, PTL DEF Spec

(* superseded_by chains run forward within the lineage, for any number of   *)
(* overlapping calls and for every depth limit: the walk of get_by_id       *)
(* cannot revisit a row.                                                    *)
THEOREM ChainsRunForward == Spec => []ChainsForward
<1>1. IInv => ChainsForward
  <2> SUFFICES ASSUME IInv
               PROVE  ChainsForward
    OBVIOUS
  <2>1. \A i \in Ids : Exists(i) => ForwardFrom(i, rows[i])
    BY DEF IInv, TableOK, CopyOK
  <2>2. \A c \in Clients : op[c].pc \in {"add", "archive", "write", "delete"}
                           => ForwardFrom(op[c].cur, op[c].snap)
    BY DEF IInv, CallsOK, CallOK, RowCallOK, CopyOK
  <2> QED
    BY <2>1, <2>2 DEF ChainsForward
<1> QED
  BY <1>1, Inductive, PTL

(* However calls overlap, and wherever one of them dies, the newest version *)
(* of a memory nobody gave up is in the table and not archived.             *)
THEOREM NothingIsLost == Spec => []NewestSurvives
<1>1. IInv => NewestSurvives
  BY DEF IInv, TableOK, CopyOK, NewestSurvives, Newest, MayArchive, MayVanish, Overtaken,
     Created, Live
<1> QED
  BY <1>1, Inductive, PTL

-----------------------------------------------------------------------------
(* The third invariant: what a row says of its own history is true.         *)

(* r, a row or a copy of one, of a memory used in the given sessions, as it *)
(* may be stored at time t: accesses are a cooldown apart until a mark, the *)
(* ledger names sessions that marked, each once, and only enough of them    *)
(* promote; an archived row names its successor, unless rows are retired.   *)
Honest(r, used, t) ==
    /\ 1 <= r.created /\ r.created <= r.last /\ r.last <= t
    /\ r.count > 0 /\ used = {} => (r.count - 1) * Cooldown <= r.last - r.created
    /\ \A k \in 1 .. Len(r.ledger) : r.ledger[k] \in used
    /\ \A k, m \in 1 .. Len(r.ledger) : r.ledger[k] = r.ledger[m] => k = m
    /\ r.cross => Threshold <= Cardinality(used)
    /\ Archived(r) /\ "retire" \notin Ops => r.next # NoId

(* The sessions that marked the memory of row i. *)
Used(i) == usedIn[origin[i]]

HistoryOK ==
    /\ 1 <= clock
    /\ \A i \in Ids : IsFiniteSet(usedIn[i])
    /\ \A i \in Created : origin[i] \in Ids

HonestTable == \A i \in Ids : Exists(i) => Honest(rows[i], Used(i), clock)

(* A copy a call will write back is honest as of the time it read the clock. *)
HonestCall(c) ==
    /\ op[c].pc \in {"add", "archive", "write", "delete"} =>
          op[c].at <= clock /\ Honest(op[c].snap, Used(op[c].cur), op[c].at)
    /\ op[c].pc = "batch" /\ op[c].kind = "mark" =>
          /\ op[c].at <= clock
          /\ \A i \in Ids : op[c].batch[i] # NoRow =>
                Honest(op[c].batch[i], Used(i), op[c].at)

HonestOK == HistoryOK /\ HonestTable /\ \A c \in Clients : HonestCall(c)

(* It stays true, and so does what each operation makes of a row.           *)
LEMMA HonestLater ==
    ASSUME NEW r \in Row, NEW used, NEW more, used \subseteq more, IsFiniteSet(more),
           NEW t \in Nat, NEW u \in Nat, t <= u, Honest(r, used, t)
    PROVE  Honest(r, more, u)
<1>1. Cardinality(used) <= Cardinality(more)
      /\ Cardinality(used) \in Nat /\ Cardinality(more) \in Nat
  BY FS_Subset, FS_CardinalityType
<1>2. r.last \in Nat
  BY DEF Row
<1>3. r.last <= u /\ (r.cross => Threshold <= Cardinality(more))
  BY <1>1, <1>2, BoundsAssumption DEF Honest
<1>4. more = {} => used = {}
  OBVIOUS
<1> QED BY <1>3, <1>4 DEF Honest

LEMMA HonestFresh ==
    ASSUME clock \in Nat, 1 <= clock, NEW until \in Nat, NEW used
    PROVE  Honest(FreshRow(until), used, clock)
  BY DEF FreshRow, EmptyRow, Honest, Archived

LEMMA HonestVersion ==
    ASSUME NEW r \in Row, NEW used, NEW at \in Nat, NEW until \in Nat, Honest(r, used, at)
    PROVE  Honest(NewVersion(r, at, until), used, at)
<1> DEFINE n == NewVersion(r, at, until)
<1>1. /\ n.created = at /\ n.last = at /\ n.count = 0 /\ n.ledger = r.ledger
      /\ n.cross = r.cross /\ n.state = "confirmed"
  BY DEF NewVersion, Row
<1>2. 1 <= at
  BY DEF Honest, Row
<1> QED BY <1>1, <1>2 DEF Honest, Archived

LEMMA HonestArchived ==
    ASSUME NEW r \in Row, NEW used, NEW at \in Nat, NEW new \in Ids, Honest(r, used, at)
    PROVE  Honest(ArchivedVersion(r, at, new), used, at)
<1> DEFINE n == ArchivedVersion(r, at, new)
<1>1. /\ n.created = r.created /\ n.last = r.last /\ n.count = r.count
      /\ n.ledger = r.ledger /\ n.cross = r.cross /\ n.next = new
  BY DEF ArchivedVersion, Row
<1>2. new # NoId
  BY DEF NoId, Ids
<1> QED BY <1>1, <1>2 DEF Honest

LEMMA HonestRetired ==
    ASSUME NEW r \in Row, NEW used, NEW at \in Nat, "retire" \in Ops, Honest(r, used, at)
    PROVE  Honest([r EXCEPT !.state = "archived"], used, at)
<1> DEFINE n == [r EXCEPT !.state = "archived"]
<1>1. /\ n.created = r.created /\ n.last = r.last /\ n.count = r.count
      /\ n.ledger = r.ledger /\ n.cross = r.cross
  BY DEF Row
<1> QED BY <1>1 DEF Honest

LEMMA OneMoreCooldown ==
    ASSUME NEW n \in Nat, NEW k \in Nat PROVE n * k = (n - 1) * k + k
  OBVIOUS

(* An access that is not throttled comes a cooldown after the last one.     *)
LEMMA HonestAccess ==
    ASSUME NEW r \in Row, NEW used, NEW at \in Nat, Honest(r, used, at),
           used = {} => ~Throttled(r, at)
    PROVE  Honest(Accessed(r, at), used, at)
<1> DEFINE n == Accessed(r, at)
<1>1. /\ n.created = r.created /\ n.last = at /\ n.count = r.count + 1
      /\ n.ledger = r.ledger /\ n.cross = r.cross /\ n.state = r.state /\ n.next = r.next
  BY DEF Accessed, Row
<1>2. r.created \in Nat /\ r.last \in Nat /\ r.count \in Nat /\ Cooldown \in Nat
  BY BoundsAssumption DEF Row
<1>3. 1 <= r.created /\ r.created <= at /\ r.last <= at
  BY <1>2 DEF Honest
<1>4. ASSUME used = {} PROVE r.count * Cooldown <= at - r.created
  <2>1. CASE r.count = 0
    <3>1. r.count * Cooldown = 0
      BY <1>2, <2>1
    <3> QED BY <1>2, <1>3, <3>1
  <2>2. CASE r.count > 0
    <3>1. (r.count - 1) * Cooldown <= r.last - r.created
      BY <1>4, <2>2 DEF Honest
    <3>2. Cooldown <= at - r.last
      <4>1. r.last # 0
        BY <1>2 DEF Honest
      <4> QED BY <1>2, <1>3, <1>4, <2>2, <4>1 DEF Throttled
    <3>3. r.count * Cooldown = (r.count - 1) * Cooldown + Cooldown
      BY <1>2, OneMoreCooldown
    <3>4. (r.count - 1) * Cooldown \in Int
      BY <1>2
    <3>5. PICK p \in Int : p = (r.count - 1) * Cooldown
      BY <3>4
    <3>6. p + Cooldown <= at - r.created
      BY <1>2, <3>1, <3>2, <3>5
    <3> QED BY <3>3, <3>5, <3>6
  <2> QED BY <1>2, <2>1, <2>2
<1>5. n.count - 1 = r.count
  BY <1>1, <1>2
<1> QED BY <1>1, <1>3, <1>4, <1>5 DEF Honest, Archived

Distinct(q) == \A k, m \in 1 .. Len(q) : q[k] = q[m] => k = m

LEMMA DistinctCount ==
    ASSUME NEW q \in Seq(Sessions), Distinct(q), NEW used, IsFiniteSet(used),
           \A k \in 1 .. Len(q) : q[k] \in used
    PROVE  Len(q) <= Cardinality(used)
<1> DEFINE R == {q[k] : k \in 1 .. Len(q)}
           f == [k \in 1 .. Len(q) |-> q[k]]
<1>1. Len(q) \in Nat
  OBVIOUS
<1>2. f \in Bijection(1 .. Len(q), R)
  <2>1. f \in [1 .. Len(q) -> R]
    OBVIOUS
  <2>2. \A k, m \in 1 .. Len(q) : f[k] = f[m] => k = m
    BY DEF Distinct
  <2>3. \A x \in R : \E k \in 1 .. Len(q) : f[k] = x
    OBVIOUS
  <2> HIDE DEF f, R
  <2>4. f \in Injection(1 .. Len(q), R)
    BY <2>1, <2>2 DEF Injection, IsInjective
  <2>5. f \in Surjection(1 .. Len(q), R)
    BY <2>1, <2>3 DEF Surjection
  <2> QED BY <2>4, <2>5 DEF Bijection
<1>3. ExistsBijection(1 .. Len(q), R)
  BY <1>2 DEF ExistsBijection
<1>4. Cardinality(R) = Len(q)
  <2> HIDE DEF R
  <2> QED BY <1>1, <1>3, FS_CountingElements
<1>5. R \subseteq used
  OBVIOUS
<1>6. Cardinality(R) <= Cardinality(used)
  <2> HIDE DEF R
  <2> QED BY <1>5, FS_Subset
<1> QED BY <1>4, <1>6

(* Crediting a new session leaves the sessions of the ledger distinct.      *)
LEMMA LedgerGrows ==
    ASSUME NEW q \in Seq(Sessions), Distinct(q), NEW s \in Sessions,
           \A k \in 1 .. Len(q) : q[k] # s
    PROVE  /\ Distinct(LedgerWith(q, s))
           /\ \A k \in 1 .. Len(LedgerWith(q, s)) :
                 \/ LedgerWith(q, s)[k] = s
                 \/ \E m \in 1 .. Len(q) : LedgerWith(q, s)[k] = q[m]
<1> DEFINE longer == Append(q, s)
           cap == 2 * Threshold
           cut == SubSeq(longer, Len(longer) - cap + 1, Len(longer))
<1>1. longer \in Seq(Sessions) /\ Len(q) \in Nat /\ Len(longer) = Len(q) + 1
  OBVIOUS
<1>2. cap \in Nat
  BY BoundsAssumption
<1>3. /\ longer[Len(q) + 1] = s
      /\ \A k \in 1 .. Len(q) : longer[k] = q[k]
  OBVIOUS
<1>4. \A k \in 1 .. Len(longer) : k = Len(q) + 1 \/ k \in 1 .. Len(q)
  BY <1>1
<1>5. Distinct(longer)
  BY <1>1, <1>3, <1>4 DEF Distinct
<1>6. \A k \in 1 .. Len(longer) : longer[k] = s \/ \E m \in 1 .. Len(q) : longer[k] = q[m]
  BY <1>3, <1>4
<1>7. CASE Len(longer) > cap
  <2> HIDE DEF longer, cap
  <2>1. /\ Len(longer) \in Nat
        /\ Len(cut) = cap
        /\ \A k \in 1 .. cap : cut[k] = longer[Len(longer) - cap + k]
    <3>1. Len(longer) - cap + 1 \in 1 .. Len(longer) + 1
      BY <1>1, <1>2, <1>7
    <3>2. Len(longer) \in Len(longer) - cap + 1 - 1 .. Len(longer)
      BY <1>1, <1>2
    <3>3. Len(longer) - (Len(longer) - cap + 1) + 1 = cap
      BY <1>1, <1>2
    <3>4. /\ Len(cut) = Len(longer) - (Len(longer) - cap + 1) + 1
          /\ \A k \in 1 .. Len(longer) - (Len(longer) - cap + 1) + 1 :
                cut[k] = longer[(Len(longer) - cap + 1) + k - 1]
      BY <1>1, <3>1, <3>2, SubSeqProperties
    <3>5. \A k \in 1 .. cap : (Len(longer) - cap + 1) + k - 1 = Len(longer) - cap + k
      BY <1>1, <1>2
    <3> HIDE DEF cut
    <3>6. Len(cut) = cap
      BY <3>3, <3>4
    <3>7. ASSUME NEW k \in 1 .. cap PROVE cut[k] = longer[Len(longer) - cap + k]
      BY <3>3, <3>4, <3>5, <3>7
    <3> QED BY <1>1, <3>6, <3>7
  <2>2. \A k \in 1 .. cap : Len(longer) - cap + k \in 1 .. Len(longer)
    BY <1>2, <1>7, <2>1
  <2>3. Distinct(cut)
    <3> SUFFICES ASSUME NEW k \in 1 .. cap, NEW m \in 1 .. cap, cut[k] = cut[m] PROVE k = m
      BY <2>1 DEF Distinct
    <3>1. Len(longer) - cap + k = Len(longer) - cap + m
      BY <1>5, <2>1, <2>2 DEF Distinct
    <3> QED BY <1>2, <2>1, <3>1
  <2>4. \A k \in 1 .. Len(cut) : cut[k] = s \/ \E m \in 1 .. Len(q) : cut[k] = q[m]
    BY <1>6, <2>1, <2>2
  <2>5. LedgerWith(q, s) = cut
    BY <1>7 DEF LedgerWith, longer, cap
  <2> HIDE DEF cut
  <2> QED BY <2>3, <2>4, <2>5
<1>8. CASE ~(Len(longer) > cap)
  <2>1. LedgerWith(q, s) = longer
    BY <1>8 DEF LedgerWith
  <2> HIDE DEF longer
  <2> QED BY <1>5, <1>6, <2>1
<1> QED BY <1>7, <1>8

LEMMA LedgerInUse ==
    ASSUME NEW q \in Seq(Sessions), Distinct(q), NEW s \in Sessions,
           \A k \in 1 .. Len(q) : q[k] # s,
           NEW used, IsFiniteSet(used), s \in used, \A k \in 1 .. Len(q) : q[k] \in used,
           NEW l, l = LedgerWith(q, s)
    PROVE  /\ Distinct(l)
           /\ \A k \in 1 .. Len(l) : l[k] \in used
           /\ Promoted(l) => Threshold <= Cardinality(used)
<1>1. l \in Seq(Sessions)
  BY LedgerType
<1>2. /\ Distinct(l)
      /\ \A k \in 1 .. Len(l) : l[k] = s \/ \E m \in 1 .. Len(q) : l[k] = q[m]
  BY LedgerGrows
<1>3. \A k \in 1 .. Len(l) : l[k] \in used
  BY <1>2
<1>4. Len(l) <= Cardinality(used)
  BY <1>1, <1>2, <1>3, DistinctCount
<1>5. Len(l) \in Nat /\ Cardinality(used) \in Nat
  BY <1>1, FS_CardinalityType
<1> QED BY <1>2, <1>3, <1>4, <1>5, BoundsAssumption DEF Promoted

(* A row is promoted only by a ledger of enough sessions.                   *)
LEMMA HonestMark ==
    ASSUME NEW r \in Row, NEW used, IsFiniteSet(used), NEW s \in Sessions, NEW at \in Nat,
           Honest(r, used, at)
    PROVE  Honest(Marked(r, s, at), used \cup {s}, at)
<1>1. PICK more : more = used \cup {s}
  OBVIOUS
<1>2. IsFiniteSet(more) /\ used \subseteq more /\ s \in more /\ more # {}
  BY <1>1, FS_AddElement
<1>3. Honest(r, more, at)
  BY <1>2, HonestLater
<1>4. PICK q \in Seq(Sessions) : q = r.ledger
  BY DEF Row
<1>5. PICK l : l = LedgerWith(q, s)
  OBVIOUS
<1>6. ASSUME ~InLedger(r, s) PROVE Honest(WithLedger(r, l), more, at)
  <2>1. /\ Distinct(l)
        /\ \A k \in 1 .. Len(l) : l[k] \in more
        /\ Promoted(l) => Threshold <= Cardinality(more)
    <3>1. Distinct(q) /\ \A k \in 1 .. Len(q) : q[k] \in more /\ q[k] # s
      BY <1>3, <1>4, <1>6 DEF Honest, Distinct, InLedger
    <3> QED BY <1>2, <1>5, <3>1, LedgerInUse
  <2>2. PICK n : n = WithLedger(r, l)
    OBVIOUS
  <2>3. /\ n.created = r.created /\ n.last = r.last /\ n.count = r.count
        /\ n.ledger = l /\ n.state = r.state /\ n.next = r.next
        /\ n.cross => Promoted(l)
    BY <2>2 DEF WithLedger, Row
  <2>4. Honest(n, more, at)
    BY <1>3, <2>1, <2>3 DEF Honest, Distinct, Archived
  <2> QED BY <2>2, <2>4
<1>7. Honest(Credited(r, s), more, at) /\ Credited(r, s) \in Row
  <2>1. WithLedger(r, l) \in Row
    BY <1>5, LedgerType, WithLedgerType
  <2>2. Credited(r, s) = r \/ (~InLedger(r, s) /\ Credited(r, s) = WithLedger(r, l))
    BY <1>4, <1>5 DEF Credited
  <2> QED BY <1>3, <1>6, <2>1, <2>2
<1>8. Honest(Accessed(Credited(r, s), at), more, at)
  BY <1>2, <1>7, HonestAccess
<1> QED BY <1>1, <1>8 DEF Marked

-----------------------------------------------------------------------------
(* Time and the sessions that used a memory only grow, so what is said of a *)
(* row or a copy stays true.                                                *)
LEMMA UseGrows ==
    ASSUME TypeOK, HistoryOK, [Next]_vars
    PROVE  /\ clock \in Nat /\ clock' \in Nat /\ 1 <= clock /\ clock <= clock'
           /\ \A i \in Ids : usedIn[i] \subseteq usedIn'[i] /\ IsFiniteSet(usedIn'[i])
<1>1. clock \in Nat /\ 1 <= clock /\ usedIn \in [Ids -> SUBSET Sessions]
      /\ \A i \in Ids : IsFiniteSet(usedIn[i])
  BY DEF TypeOK, HistoryOK
<1>2. CASE UNCHANGED <<clock, usedIn>>
  BY <1>1, <1>2
<1>3. CASE Tick
  BY <1>1, <1>3 DEF Tick
<1>4. ASSUME NEW c \in Clients, MarkWrite(c)
      PROVE  /\ clock' = clock
             /\ \A i \in Ids : usedIn[i] \subseteq usedIn'[i] /\ IsFiniteSet(usedIn'[i])
  <2>1. clock' = clock
        /\ \E l, s : usedIn' = [usedIn EXCEPT ![l] = @ \cup {s}] \/ usedIn' = usedIn
    BY <1>4 DEF MarkWrite
  <2>2. PICK l, s : usedIn' = [usedIn EXCEPT ![l] = @ \cup {s}] \/ usedIn' = usedIn
    BY <2>1
  <2>3. ASSUME NEW i \in Ids PROVE usedIn'[i] = usedIn[i] \/ usedIn'[i] = usedIn[i] \cup {s}
    BY <1>1, <2>2
  <2>4. ASSUME NEW i \in Ids PROVE IsFiniteSet(usedIn[i] \cup {s})
    BY <1>1, FS_AddElement
  <2> QED BY <1>1, <2>1, <2>3, <2>4
<1>5. ASSUME NEW c \in Clients, Step(c), ~MarkWrite(c) PROVE UNCHANGED <<clock, usedIn>>
  BY <1>5 DEF Step, Store, Begin, WalkMissing, WalkHop, WalkEnd, SupersedeAdd,
     SupersedeArchive, UpdateWrite, RetireWrite, ForgetDelete, IncrementWrite, MarkRead,
     PurgeArchivedScan, PurgeExpiredScan, PurgeScan, PurgeDelete, BatchDone, Abort
<1> QED BY <1>1, <1>2, <1>3, <1>4, <1>5 DEF Next, vars

LEMMA OriginsStay ==
    ASSUME TypeOK, TypeOK', IInv, HistoryOK, HistoryGrows, [Next]_vars
    PROVE  \A i \in Created' : origin'[i] \in Ids
<1>1. CASE UNCHANGED <<nextId, origin>>
  BY <1>1 DEF HistoryOK, Created
<1>2. ASSUME NEW r, NEW root \in Ids, TableAdd(r, root)
      PROVE  \A i \in Created' : origin'[i] \in Ids
  BY <1>2 DEF TableAdd, HistoryOK, Created, TypeOK, Ids
<1>3. ASSUME NEW c \in Clients, Store(c) PROVE \A i \in Created' : origin'[i] \in Ids
  <2>1. PICK until \in Expiries : TableAdd(FreshRow(until), nextId)
    BY <1>3 DEF Store
  <2>2. nextId \in Ids
    BY <2>1 DEF TableAdd, TypeOK, Ids
  <2> QED BY <1>2, <2>1, <2>2
<1>4. ASSUME NEW c \in Clients, SupersedeAdd(c)
      PROVE  \A i \in Created' : origin'[i] \in Ids
  <2>1. op[c] \in RowCall /\ RowCallOK(c)
    BY <1>4, CallShape DEF SupersedeAdd, IInv, CallsOK, CallOK
  <2>2. op[c].cur \in Created
    BY <2>1 DEF RowCall, RowCallOK, Created
  <2> QED BY <1>2, <1>4, <2>2 DEF SupersedeAdd, HistoryOK
<1>5. ASSUME NEW c \in Clients, Step(c), ~Store(c), ~SupersedeAdd(c)
      PROVE  UNCHANGED <<nextId, origin>>
  BY <1>5 DEF Step, Begin, WalkMissing, WalkHop, WalkEnd, SupersedeArchive, UpdateWrite,
     RetireWrite, ForgetDelete, IncrementWrite, MarkRead, MarkWrite, PurgeArchivedScan,
     PurgeExpiredScan, PurgeScan, PurgeDelete, BatchDone, Abort
<1> QED BY <1>1, <1>3, <1>4, <1>5 DEF Next, Tick, vars

(* What a step preserves, given that it keeps the histories.                *)
Grows ==
    /\ clock \in Nat /\ clock' \in Nat /\ 1 <= clock /\ clock <= clock'
    /\ \A i \in Ids : i < nextId =>
          /\ origin[i] \in Ids /\ origin'[i] = origin[i]
          /\ Used(i) \subseteq Used(i)' /\ IsFiniteSet(Used(i)')

LEMMA HistoriesGrow ==
    ASSUME IInv, HistoryOK, [Next]_vars
    PROVE  IInv' /\ HistoryGrows /\ Grows /\ HistoryOK'
<1>1. TypeOK' /\ HistoryGrows /\ IInv'
  BY TypeStep, HistoryStep, SafetyStep DEF IInv
<1>2. /\ clock \in Nat /\ clock' \in Nat /\ 1 <= clock /\ clock <= clock'
      /\ \A i \in Ids : usedIn[i] \subseteq usedIn'[i] /\ IsFiniteSet(usedIn'[i])
  BY UseGrows DEF IInv
<1>3. \A i \in Created' : origin'[i] \in Ids
  BY <1>1, OriginsStay DEF IInv
<1>4. HistoryOK'
  BY <1>2, <1>3 DEF HistoryOK
<1>5. Grows
  BY <1>1, <1>2 DEF Grows, HistoryGrows, HistoryOK, Created, Used
<1> QED BY <1>1, <1>4, <1>5

LEMMA HonestCopy ==
    ASSUME Grows, NEW i \in Ids, i < nextId, NEW r \in Row, NEW t \in Nat, NEW u \in Nat,
           t <= u, Honest(r, Used(i), t)
    PROVE  Honest(r, Used(i)', u)
<1>1. PICK used, more : used = Used(i) /\ more = Used(i)'
  OBVIOUS
<1>2. used \subseteq more /\ IsFiniteSet(more)
  BY <1>1 DEF Grows
<1> QED BY <1>1, <1>2, HonestLater

(* A row the step does not write, and the copies of a call that goes on.    *)
LEMMA HonestStays ==
    ASSUME IInv, HonestOK, Grows, NEW i \in Ids, Exists(i), rows'[i] = rows[i]
    PROVE  Honest(rows[i], Used(i), clock)'
<1>1. rows[i] \in Row /\ i < nextId /\ Honest(rows[i], Used(i), clock)
  BY DEF IInv, TypeOK, TableOK, Tables, Exists, HonestOK, HonestTable
<1> QED BY <1>1, HonestCopy DEF Grows

LEMMA CallStays ==
    ASSUME IInv, HonestOK, Grows, NEW c \in Clients, op'[c] = op[c]
    PROVE  HonestCall(c)'
<1>1. HonestCall(c) /\ CallOK(c)
  BY DEF HonestOK, IInv, CallsOK
<1>2. ASSUME op[c].pc \in {"add", "archive", "write", "delete"}
      PROVE  op[c].at <= clock' /\ Honest(op[c].snap, Used(op[c].cur)', op[c].at)
  <2>1. op[c] \in RowCall /\ RowCallOK(c)
    BY <1>1, <1>2, CallShape DEF CallOK, IInv
  <2>2. PICK i \in Ids, r \in Row, t \in Nat : i = op[c].cur /\ r = op[c].snap /\ t = op[c].at
    BY <2>1 DEF RowCall
  <2>3. i < nextId /\ t <= clock /\ Honest(r, Used(i), t)
    BY <1>1, <1>2, <2>1, <2>2 DEF RowCallOK, HonestCall
  <2>4. Honest(r, Used(i)', t)
    BY <2>3, HonestCopy
  <2> QED BY <2>2, <2>3, <2>4 DEF Grows
<1>3. ASSUME op[c].pc = "batch", op[c].kind = "mark"
      PROVE  /\ op[c].at <= clock'
             /\ \A i \in Ids : op[c].batch[i] # NoRow =>
                   Honest(op[c].batch[i], Used(i)', op[c].at)
  <2>1. op[c] \in MarkCall /\ BatchOK(c) /\ op[c].at <= clock
    BY <1>1, <1>3, CallShape DEF CallOK, IInv, HonestCall
  <2>2. op[c].at \in Nat /\ op[c].batch \in Tables
    BY <2>1 DEF MarkCall, BatchCall
  <2>3. ASSUME NEW i \in Ids, op[c].batch[i] # NoRow
        PROVE  Honest(op[c].batch[i], Used(i)', op[c].at)
    BY <1>1, <1>3, <2>1, <2>2, <2>3, HonestCopy DEF HonestCall, BatchOK, Tables
  <2> QED BY <2>1, <2>2, <2>3 DEF Grows
<1> QED BY <1>2, <1>3 DEF HonestCall, Used

LEMMA SameRows ==
    ASSUME IInv, HonestOK, Grows, \A i \in Ids : rows'[i] = rows[i] \/ rows'[i] = NoRow
    PROVE  HonestTable'
<1> SUFFICES ASSUME NEW i \in Ids, Exists(i)' PROVE Honest(rows[i], Used(i), clock)'
  BY DEF HonestTable
<1>1. rows'[i] = rows[i] /\ Exists(i)
  BY DEF Exists
<1> QED BY <1>1, HonestStays

LEMMA OneRow ==
    ASSUME IInv, HonestOK, Grows, NEW i \in Ids, NEW r, Honest(r, Used(i)', clock'),
           \A j \in Ids \ {i} : rows'[j] = rows[j],
           rows'[i] = rows[i] \/ rows'[i] = r
    PROVE  HonestTable'
<1> SUFFICES ASSUME NEW j \in Ids, Exists(j)' PROVE Honest(rows[j], Used(j), clock)'
  BY DEF HonestTable
<1>1. CASE rows'[j] = rows[j]
  BY <1>1, HonestStays DEF Exists
<1>2. CASE j = i /\ rows'[j] = r
  BY <1>2
<1> QED BY <1>1, <1>2

LEMMA OneCaller ==
    ASSUME IInv, HonestOK, Grows, NEW c \in Clients, NEW v, op' = [op EXCEPT ![c] = v],
           HonestCall(c)'
    PROVE  \A d \in Clients : HonestCall(d)'
<1>1. \A d \in Clients \ {c} : op'[d] = op[d]
  BY DEF IInv, TypeOK
<1> QED BY <1>1, CallStays

LEMMA NoCopy ==
    ASSUME IInv, HonestOK, Grows, NEW c \in Clients, NEW v, op' = [op EXCEPT ![c] = v],
           \/ v.pc \in {"idle", "walk"}
           \/ v.pc = "batch" /\ v.kind # "mark"
    PROVE  \A d \in Clients : HonestCall(d)'
<1>1. op'[c] = v
  BY DEF IInv, TypeOK
<1>2. HonestCall(c)'
  BY <1>1 DEF HonestCall
<1> QED BY <1>2, OneCaller

(* Every write back puts an honest row into the table, whichever row it     *)
(* lands on: its copy is of the same lineage.                               *)
LEMMA HonestStep == IInv /\ HonestOK /\ [Next]_vars => HonestOK'
<1> SUFFICES ASSUME IInv, HonestOK, [Next]_vars
             PROVE  HonestTable' /\ \A d \in Clients : HonestCall(d)'
  BY HistoriesGrow DEF HonestOK
<1>h. IInv' /\ HistoryGrows /\ Grows
  BY HistoriesGrow DEF HonestOK
<1>t. TypeOK /\ TypeOK' /\ TableOK /\ CallsOK
  BY <1>h DEF IInv
<1>1. ASSUME NEW c \in Clients, Store(c)
      PROVE  HonestTable' /\ \A d \in Clients : HonestCall(d)'
  <2>1. PICK until \in Expiries : TableAdd(FreshRow(until), nextId)
    BY <1>1 DEF Store
  <2>2. PICK i \in Ids : i = nextId
    BY <1>t, <2>1 DEF TableAdd, TypeOK, Ids
  <2>3. rows'[i] = FreshRow(until) /\ \A j \in Ids \ {i} : rows'[j] = rows[j]
    BY <1>t, <2>1, <2>2 DEF TableAdd, TypeOK, Tables
  <2>4. clock' = clock /\ \A d \in Clients : op'[d] = op[d]
    BY <1>1 DEF Store
  <2>5. PICK r : r = FreshRow(until)
    OBVIOUS
  <2>6. Honest(r, Used(i)', clock')
    <3>1. PICK used : used = Used(i)'
      OBVIOUS
    <3> QED BY <1>h, <2>4, <2>5, <3>1, HonestFresh, WorkloadAssumption DEF Grows
  <2>7. HonestTable'
    BY <1>h, <2>3, <2>5, <2>6, OneRow
  <2> QED BY <1>h, <2>4, <2>7, CallStays
<1>2. ASSUME NEW c \in Clients,
             \/ \E kind \in RowKinds, i \in Ids : Begin(c, kind, i)
             \/ WalkMissing(c) \/ WalkHop(c) \/ BatchDone(c) \/ Abort(c)
             \/ PurgeArchivedScan(c) \/ PurgeExpiredScan(c)
      PROVE  HonestTable' /\ \A d \in Clients : HonestCall(d)'
  <2>1. rows' = rows
    BY <1>2 DEF Begin, WalkMissing, WalkHop, BatchDone, Abort, PurgeArchivedScan,
       PurgeExpiredScan, PurgeScan
  <2>2. ASSUME NEW kind \in RowKinds, NEW i \in Ids, Begin(c, kind, i)
        PROVE  \A d \in Clients : HonestCall(d)'
    BY <1>h, <2>2, NoCopy DEF Begin, NoOp
  <2>3. ASSUME Return(c) PROVE \A d \in Clients : HonestCall(d)'
    BY <1>h, <2>3, NoCopy DEF Return, NoOp
  <2>4. ASSUME WalkHop(c) PROVE \A d \in Clients : HonestCall(d)'
    <3>1. op[c] \in RowCall
      BY <1>t, <2>4, CallShape DEF WalkHop
    <3> DEFINE v == [op[c] EXCEPT !.seen = @ \cup {op[c].cur}, !.cur = rows[op[c].cur].next]
    <3>2. v.pc = "walk" /\ op' = [op EXCEPT ![c] = v]
      BY <2>4, <3>1 DEF WalkHop, RowCall
    <3> QED BY <1>h, <3>2, NoCopy
  <2>5. ASSUME NEW kind \in {"purge_archived", "purge_expired"}, NEW doomed,
               PurgeScan(c, kind, doomed)
        PROVE  \A d \in Clients : HonestCall(d)'
    BY <1>h, <2>5, NoCopy DEF PurgeScan, NoOp
  <2>6. HonestTable'
    BY <1>h, <2>1, SameRows
  <2> QED
    BY <1>2, <2>2, <2>3, <2>4, <2>5, <2>6 DEF WalkMissing, BatchDone, Abort,
       PurgeArchivedScan, PurgeExpiredScan
<1>3. ASSUME NEW c \in Clients, WalkEnd(c)
      PROVE  HonestTable' /\ \A d \in Clients : HonestCall(d)'
  <2>1. op[c] \in RowCall /\ RowCallOK(c)
    BY <1>t, <1>3, CallShape DEF WalkEnd, CallsOK, CallOK
  <2>2. PICK i \in Ids : i = op[c].cur /\ i < nextId
    BY <2>1 DEF RowCall, RowCallOK
  <2>3. /\ op'[c].pc \in {"add", "delete", "write"} /\ op'[c].cur = i
        /\ op'[c].snap = rows[i] /\ op'[c].at = clock /\ clock' = clock
    BY <1>t, <1>3, <2>1, <2>2 DEF WalkEnd, AfterWalk, TypeOK, RowCall
  <2>4. rows' = rows /\ Exists(i) /\ \E v : op' = [op EXCEPT ![c] = v]
    BY <1>3, <2>2 DEF WalkEnd
  <2>5. Honest(rows[i], Used(i), clock)'
    BY <1>h, <2>4, HonestStays
  <2>6. HonestCall(c)'
    BY <1>h, <2>3, <2>4, <2>5 DEF HonestCall, Used, Grows
  <2> QED BY <1>h, <2>4, <2>6, SameRows, OneCaller
<1>4. ASSUME NEW c \in Clients, SupersedeAdd(c)
      PROVE  HonestTable' /\ \A d \in Clients : HonestCall(d)'
  <2>1. op[c] \in RowCall /\ RowCallOK(c) /\ HonestCall(c)
    BY <1>t, <1>4, CallShape DEF SupersedeAdd, CallsOK, CallOK, HonestOK
  <2>2. PICK i \in Ids, r \in Row, t \in Nat :
           i = op[c].cur /\ r = op[c].snap /\ t = op[c].at
    BY <2>1 DEF RowCall
  <2>3. i < nextId /\ t <= clock /\ Honest(r, Used(i), t) /\ clock' = clock
    BY <1>4, <2>1, <2>2 DEF RowCallOK, HonestCall, SupersedeAdd
  <2>4. PICK until \in Expiries \cup {r.until} : TableAdd(NewVersion(r, t, until), origin[i])
    BY <1>4, <2>2 DEF SupersedeAdd
  <2>5. until \in Nat
    BY WorkloadAssumption DEF Row
  <2>6. PICK n \in Ids : n = nextId /\ n # i
    BY <1>t, <2>3, <2>4 DEF TableAdd, TypeOK, Ids
  <2>7. /\ rows'[n] = NewVersion(r, t, until) /\ \A j \in Ids \ {n} : rows'[j] = rows[j]
        /\ origin'[n] = origin[i] /\ origin'[i] = origin[i]
    BY <1>t, <2>4, <2>6 DEF TableAdd, TypeOK, Tables
  <2>8. Honest(r, Used(i)', t) /\ Honest(r, Used(i)', clock')
    BY <1>h, <2>3, HonestCopy DEF Grows
  <2>9. HonestTable'
    <3>1. PICK used : used = Used(i)' /\ used = Used(n)' /\ IsFiniteSet(used)
      BY <1>h, <2>3, <2>7 DEF Used, Grows
    <3>2. PICK new \in Row : new = NewVersion(r, t, until)
      BY <2>5, NewVersionType
    <3>3. Honest(new, used, t)
      BY <2>5, <2>8, <3>1, <3>2, HonestVersion
    <3>4. Honest(new, Used(n)', clock')
      BY <1>h, <2>3, <3>1, <3>3, HonestLater DEF Grows
    <3> QED BY <1>h, <2>7, <3>2, <3>4, OneRow
  <2>10. /\ op'[c].pc = "archive" /\ op'[c].cur = i /\ op'[c].snap = r /\ op'[c].at = t
         /\ \E v : op' = [op EXCEPT ![c] = v]
    BY <1>t, <1>4, <2>1, <2>2 DEF SupersedeAdd, TypeOK, RowCall
  <2>11. HonestCall(c)'
    BY <1>h, <2>3, <2>8, <2>10 DEF HonestCall, Used
  <2> QED BY <1>h, <2>9, <2>10, <2>11, OneCaller
<1>5. ASSUME NEW c \in Clients,
             SupersedeArchive(c) \/ UpdateWrite(c) \/ RetireWrite(c) \/ IncrementWrite(c)
      PROVE  HonestTable' /\ \A d \in Clients : HonestCall(d)'
  <2>1. op[c] \in RowCall /\ RowCallOK(c) /\ HonestCall(c)
    BY <1>t, <1>5, CallShape DEF SupersedeArchive, UpdateWrite, RetireWrite,
       IncrementWrite, CallsOK, CallOK, HonestOK
  <2>2. PICK i \in Ids, r \in Row, t \in Nat, j \in Ids, new \in Ids \cup {NoId} :
           /\ i = op[c].cur /\ r = op[c].snap /\ t = op[c].at /\ j = op[c].id
           /\ new = op[c].new
    BY <2>1 DEF RowCall
  <2>3. i < nextId /\ t <= clock /\ Honest(r, Used(i), t) /\ j < nextId
        /\ origin[j] = origin[i] /\ clock' = clock /\ Return(c)
    BY <1>t, <1>5, <2>1, <2>2 DEF RowCallOK, HonestCall, SupersedeArchive, UpdateWrite,
       RetireWrite, IncrementWrite, TypeOK, Ids
  <2>4. PICK used : used = Used(i)' /\ used = Used(j)' /\ IsFiniteSet(used) /\ Used(i) = used
    BY <1>5, <1>h, <2>3 DEF Used, Grows, SupersedeArchive, UpdateWrite, RetireWrite,
       IncrementWrite
  <2>5. Honest(r, used, t) /\ t <= clock' /\ clock' \in Nat
    BY <1>h, <2>3, <2>4 DEF Grows
  <2>6. \A d \in Clients : HonestCall(d)'
    BY <1>h, <2>3, NoCopy DEF Return, NoOp
  <2>7. ASSUME NEW k \in {i, j}, NEW n \in Row, TableUpdate(k, n), Honest(n, used, t)
        PROVE  HonestTable'
    <3>1. Honest(n, used, clock')
      BY <2>4, <2>5, <2>7, HonestLater
    <3>2. (\A m \in Ids \ {k} : rows'[m] = rows[m]) /\ (rows'[k] = rows[k] \/ rows'[k] = n)
      BY <1>t, <2>7 DEF TableUpdate, TypeOK, Tables
    <3> QED BY <1>h, <2>4, <3>1, <3>2, OneRow
  <2>8. CASE SupersedeArchive(c)
    <3>1. new \in Ids
      BY <2>1, <2>2, <2>8 DEF SupersedeArchive, RowCallOK, NoId, Ids
    <3>2. TableUpdate(i, ArchivedVersion(r, t, new))
      BY <2>2, <2>8 DEF SupersedeArchive
    <3> QED BY <2>5, <2>6, <2>7, <3>1, <3>2, HonestArchived, ArchivedVersionType
  <2>9. CASE UpdateWrite(c)
    BY <2>2, <2>5, <2>6, <2>7, <2>9 DEF UpdateWrite
  <2>10. CASE RetireWrite(c)
    <3>1. TableUpdate(i, [r EXCEPT !.state = "archived"]) /\ "retire" \in Ops
      BY <2>1, <2>2, <2>10 DEF RetireWrite, RowCallOK
    <3>2. [r EXCEPT !.state = "archived"] \in Row
      BY DEF Row
    <3> QED BY <2>5, <2>6, <2>7, <3>1, <3>2, HonestRetired
  <2>11. CASE IncrementWrite(c)
    <3>1. CASE UNCHANGED rows
      BY <1>h, <2>6, <3>1, SameRows
    <3>2. CASE ~Throttled(r, t) /\ TableUpdate(j, Accessed(r, t))
      BY <2>5, <2>6, <2>7, <3>2, HonestAccess, AccessedType
    <3> QED BY <2>2, <2>11, <3>1, <3>2 DEF IncrementWrite, IncrementTarget
  <2> QED BY <1>5, <2>8, <2>9, <2>10, <2>11
<1>6. ASSUME NEW c \in Clients, ForgetDelete(c)
      PROVE  HonestTable' /\ \A d \in Clients : HonestCall(d)'
  <2>1. \A i \in Ids : rows'[i] = rows[i] \/ rows'[i] = NoRow
    BY <1>t, <1>6 DEF ForgetDelete, TableDelete, TypeOK, Tables
  <2>2. Return(c)
    BY <1>6 DEF ForgetDelete
  <2>3. \A d \in Clients : HonestCall(d)'
    BY <1>h, <2>2, NoCopy DEF Return, NoOp
  <2> QED BY <1>h, <2>1, <2>3, SameRows
<1>7. ASSUME NEW c \in Clients, MarkRead(c)
      PROVE  HonestTable' /\ \A d \in Clients : HonestCall(d)'
  <2>1. PICK ids \in SUBSET Ids, s \in Sessions :
           op' = [op EXCEPT ![c] =
                    [NoOp EXCEPT !.kind = "mark", !.pc = "batch", !.session = s, !.at = clock,
                       !.batch = [i \in Ids |-> IF i \in ids THEN rows[i] ELSE NoRow]]]
    BY <1>7 DEF MarkRead
  <2>2. /\ op'[c].pc = "batch" /\ op'[c].at = clock
        /\ op'[c].batch = [i \in Ids |-> IF i \in ids THEN rows[i] ELSE NoRow]
    BY <1>t, <2>1 DEF TypeOK, NoOp
  <2>3. rows' = rows /\ clock' = clock
    BY <1>7 DEF MarkRead
  <2>4. ASSUME NEW i \in Ids, op'[c].batch[i] # NoRow
        PROVE  Honest(op[c].batch[i], Used(i), op[c].at)'
    <3>1. op'[c].batch[i] = rows[i] /\ Exists(i)
      BY <2>2, <2>4 DEF Exists
    <3>2. Honest(rows[i], Used(i), clock)'
      BY <1>h, <2>3, <3>1, HonestStays
    <3> QED BY <2>2, <2>3, <3>1, <3>2
  <2>5. HonestCall(c)'
    BY <1>h, <2>2, <2>3, <2>4 DEF HonestCall, Grows
  <2> QED BY <1>h, <2>1, <2>3, <2>5, SameRows, OneCaller
<1>8. ASSUME NEW c \in Clients, MarkWrite(c)
      PROVE  HonestTable' /\ \A d \in Clients : HonestCall(d)'
  <2>1. op[c] \in MarkCall /\ BatchOK(c) /\ HonestCall(c)
    BY <1>t, <1>8, CallShape DEF MarkWrite, CallsOK, CallOK, HonestOK
  <2>2. PICK s \in Sessions, t \in Nat, batch \in Tables :
           s = op[c].session /\ t = op[c].at /\ batch = op[c].batch
    BY <2>1 DEF MarkCall, BatchCall
  <2>3. PICK i \in Ids :
           /\ batch[i] # NoRow
           /\ \/ /\ TableUpdate(i, Marked(batch[i], s, t))
                 /\ usedIn' = IF Exists(i)
                               THEN [usedIn EXCEPT ![origin[i]] = @ \cup {s}]
                               ELSE usedIn
              \/ UNCHANGED rows
           /\ op' = [op EXCEPT ![c].batch[i] = NoRow]
    BY <1>8, <2>2 DEF MarkWrite
  <2>4. /\ i < nextId /\ batch[i] \in Row /\ t <= clock /\ clock' = clock
        /\ Honest(batch[i], Used(i), t) /\ origin' = origin
    BY <1>8, <2>1, <2>2, <2>3 DEF BatchOK, HonestCall, MarkWrite, Tables
  <2>5. HonestTable'
    <3>1. CASE UNCHANGED rows
      BY <1>h, <3>1, SameRows
    <3>2. CASE ~Exists(i) /\ TableUpdate(i, Marked(batch[i], s, t))
      BY <1>h, <3>2, SameRows DEF TableUpdate
    <3>3. CASE /\ Exists(i) /\ TableUpdate(i, Marked(batch[i], s, t))
               /\ usedIn' = [usedIn EXCEPT ![origin[i]] = @ \cup {s}]
      <4>1. origin[i] \in Ids
        BY <1>h, <2>4 DEF Grows
      <4>2. Used(i)' = Used(i) \cup {s}
        BY <1>t, <2>4, <3>3, <4>1 DEF Used, TypeOK
      <4>3. IsFiniteSet(Used(i))
        BY <4>1 DEF HonestOK, HistoryOK, Used
      <4>4. Honest(Marked(batch[i], s, t), Used(i)', t)
        BY <2>4, <4>2, <4>3, HonestMark
      <4>5. Marked(batch[i], s, t) \in Row
        BY <2>4, MarkedType
      <4>6. PICK used, n : used = Used(i)' /\ n = Marked(batch[i], s, t)
        OBVIOUS
      <4>7. Honest(n, used, clock')
        BY <1>h, <2>4, <4>4, <4>5, <4>6, HonestLater DEF Grows
      <4>8. (\A m \in Ids \ {i} : rows'[m] = rows[m]) /\ (rows'[i] = rows[i] \/ rows'[i] = n)
        BY <1>t, <3>3, <4>6 DEF TableUpdate, TypeOK, Tables
      <4> QED BY <1>h, <4>6, <4>7, <4>8, OneRow
    <3> QED BY <2>3, <3>1, <3>2, <3>3
  <2>6. HonestCall(c)'
    <3>1. /\ op'[c].at = t /\ op'[c].pc = "batch"
          /\ \A j \in Ids : op'[c].batch[j] # NoRow => op'[c].batch[j] = batch[j]
      BY <1>t, <2>1, <2>2, <2>3 DEF TypeOK, Tables, MarkCall, BatchCall
    <3>2. ASSUME NEW j \in Ids, op'[c].batch[j] # NoRow
          PROVE  Honest(op[c].batch[j], Used(j), op[c].at)'
      <4>1. j < nextId /\ batch[j] \in Row /\ Honest(batch[j], Used(j), t)
        BY <1>8, <2>1, <2>2, <3>1, <3>2 DEF BatchOK, HonestCall, MarkWrite, Tables
      <4>2. Honest(batch[j], Used(j)', t)
        BY <1>h, <4>1, HonestCopy
      <4> QED BY <3>1, <3>2, <4>2
    <3> QED BY <2>4, <3>1, <3>2 DEF HonestCall
  <2>7. \E v : op' = [op EXCEPT ![c] = v]
    BY <2>3
  <2> QED BY <1>h, <2>5, <2>6, <2>7, OneCaller
<1>9. ASSUME NEW c \in Clients, PurgeDelete(c)
      PROVE  HonestTable' /\ \A d \in Clients : HonestCall(d)'
  <2>1. PICK i \in Ids : TableDelete(i) /\ op' = [op EXCEPT ![c].batch[i] = NoRow]
    BY <1>9 DEF PurgeDelete
  <2>2. \A j \in Ids : rows'[j] = rows[j] \/ rows'[j] = NoRow
    BY <1>t, <2>1 DEF TableDelete, TypeOK, Tables
  <2>3. op[c] \in PurgeCall
    BY <1>t, <1>9, CallShape DEF PurgeDelete
  <2> DEFINE v == [op[c] EXCEPT !.batch = [op[c].batch EXCEPT ![i] = NoRow]]
  <2>4. op' = [op EXCEPT ![c] = v] /\ v.pc = "batch" /\ v.kind # "mark"
    BY <2>1, <2>3 DEF PurgeCall, BatchCall
  <2> QED BY <1>h, <2>2, <2>4, SameRows, NoCopy
<1>10. CASE Tick \/ UNCHANGED vars
  BY <1>h, <1>10, SameRows, CallStays DEF Tick, vars
<1> QED
  BY <1>1, <1>2, <1>3, <1>4, <1>5, <1>6, <1>7, <1>8, <1>9, <1>10 DEF Next, Step

LEMMA HonestInit == Init => HonestOK
<1> SUFFICES ASSUME Init PROVE HonestOK
  OBVIOUS
<1>1. HistoryOK
  BY FS_EmptySet DEF Init, HistoryOK, Created, Ids
<1>2. HonestTable /\ \A c \in Clients : HonestCall(c)
  BY DEF Init, HonestTable, HonestCall, Exists, NoBatch, NoOp
<1> QED BY <1>1, <1>2 DEF HonestOK

LEMMA HonestAlways == Spec => [](IInv /\ HonestOK)
<1>1. IInv /\ HonestOK /\ [Next]_vars => (IInv /\ HonestOK)'
  BY TypeStep, SafetyStep, HonestStep DEF IInv
<1> QED BY <1>1, SafetyInit, HonestInit, PTL DEF Spec

(* A burst of overlapping recalls cannot inflate access_count, for any      *)
(* number of callers and any cooldown: they all write back the time they    *)
(* read the clock, and what they count is based on the same copy.           *)
THEOREM CountsAreThrottled == Spec => []OneCountPerCooldown
<1>1. IInv /\ HonestOK => OneCountPerCooldown
  BY DEF HonestOK, HonestTable, Honest, OneCountPerCooldown, Created, Used
<1> QED BY <1>1, HonestAlways, PTL

(* No row is exempt from session scoping unless Threshold distinct sessions *)
(* marked its memory, whichever marks overlap and however the ledger is cut.*)
THEOREM PromotionsAreEarned == Spec => []PromotionEarned
<1>1. IInv /\ HonestOK => PromotionEarned
  <2> SUFFICES ASSUME IInv, HonestOK, NEW i \in Created, Live(i), rows[i].cross
               PROVE  Cardinality(usedIn[origin[i]]) >= Threshold
    BY DEF PromotionEarned
  <2>1. Threshold <= Cardinality(Used(i))
    BY DEF HonestOK, HonestTable, Honest, Live, Created
  <2>2. IsFiniteSet(Used(i))
    BY DEF HonestOK, HistoryOK, Used
  <2> QED BY <2>1, <2>2, FS_CardinalityType, BoundsAssumption DEF Used
<1> QED BY <1>1, HonestAlways, PTL

-----------------------------------------------------------------------------
(* The walk of get_by_id.  superseded_by runs forward, so walk is defined   *)
(* for the last row first, and every walk ends.                             *)
LEMMA LeastNumber ==
    ASSUME NEW S \in SUBSET Nat, S # {}
    PROVE  \E m \in S : \A n \in S : m <= n
<1>1. PICK m \in S : \A n \in S : ~(<<n, m>> \in OpToRel(<, Nat))
  BY NatLessThanWellFounded, WFMin
<1>2. \A n \in S : ~(<<n, m>> \in {x \in Nat \X Nat : x[1] < x[2]})
  BY <1>1 DEF OpToRel
<1>3. ASSUME NEW n \in S PROVE m <= n
  <2>1. <<n, m>> \in Nat \X Nat
    OBVIOUS
  <2>2. ~(<<n, m>>[1] < <<n, m>>[2])
    BY <1>2, <2>1
  <2> QED BY <2>1, <2>2
<1> QED BY <1>3

Goes(j) == Archived(rows[j]) /\ rows[j].next # NoId

WalkFrom(walk, j) ==
    IF ~Exists(j) THEN NoId ELSE IF Goes(j) THEN walk[rows[j].next] ELSE j

IsWalk(walk) == walk = [j \in Ids |-> WalkFrom(walk, j)]

LEMMA GoesForward ==
    ASSUME IInv, NEW j \in Ids, Exists(j), Goes(j)
    PROVE  /\ rows[j].next \in Ids /\ j < rows[j].next /\ rows[j].next < nextId
           /\ origin[rows[j].next] = origin[j]
<1>1. rows[j] \in Row /\ ForwardFrom(j, rows[j])
  BY DEF IInv, TypeOK, Tables, TableOK, CopyOK, Exists
<1> QED BY <1>1 DEF Goes, ForwardFrom, Row

LEMMA WalkExists == IInv => \E walk : IsWalk(walk)
<1> SUFFICES ASSUME IInv PROVE \E walk : IsWalk(walk)
  OBVIOUS
<1> DEFINE Walks(n, f) == \A j \in Ids : j > MaxCalls - n => f[j] = WalkFrom(f, j)
           S == {n \in 0 .. MaxCalls : ~\E f \in [Ids -> Ids \cup {NoId}] : Walks(n, f)}
<1>m. MaxCalls \in Nat
  BY BoundsAssumption
<1>1. S = {}
  <2> SUFFICES ASSUME S # {} PROVE FALSE
    OBVIOUS
  <2>1. PICK m \in S : \A n \in S : m <= n
    <3>1. S \in SUBSET Nat
      OBVIOUS
    <3> HIDE DEF S
    <3> QED BY <3>1, LeastNumber
  <2>2. m \in 0 .. MaxCalls /\ ~\E f \in [Ids -> Ids \cup {NoId}] : Walks(m, f)
    OBVIOUS
  <2>3. m # 0
    <3> SUFFICES ASSUME m = 0 PROVE FALSE
      OBVIOUS
    <3>1. [j \in Ids |-> NoId] \in [Ids -> Ids \cup {NoId}]
      OBVIOUS
    <3>2. Walks(m, [j \in Ids |-> NoId])
      BY <1>m DEF Ids
    <3> QED BY <2>2, <3>1, <3>2
  <2>4. m - 1 \in 0 .. MaxCalls /\ m - 1 \notin S
    <3> HIDE DEF S
    <3> QED BY <1>m, <2>1, <2>2, <2>3
  <2>5. PICK f \in [Ids -> Ids \cup {NoId}] : Walks(m - 1, f)
    BY <2>4
  <2> DEFINE k == MaxCalls - (m - 1)
             g == [f EXCEPT ![k] = WalkFrom(f, k)]
  <2>6. k \in Ids
    BY <1>m, <2>2, <2>3 DEF Ids
  <2>7. WalkFrom(f, k) \in Ids \cup {NoId}
    BY <2>6, GoesForward DEF WalkFrom
  <2>8. g \in [Ids -> Ids \cup {NoId}]
    BY <2>7
  <2>9. ASSUME NEW j \in Ids, j > MaxCalls - m PROVE g[j] = WalkFrom(g, j)
    <3>1. j >= k /\ (j # k => j > k)
      BY <1>m, <2>2, <2>9 DEF Ids
    <3>2. g[j] = WalkFrom(f, j)
      <4>1. CASE j = k
        BY <2>6, <4>1
      <4>2. CASE j # k
        BY <1>m, <2>2, <2>5, <3>1, <4>2
      <4> QED BY <4>1, <4>2
    <3>3. Exists(j) /\ Goes(j) => g[rows[j].next] = f[rows[j].next]
      <4> SUFFICES ASSUME Exists(j), Goes(j) PROVE g[rows[j].next] = f[rows[j].next]
        OBVIOUS
      <4>1. rows[j].next \in Ids /\ rows[j].next # k
        BY <2>6, <3>1, GoesForward DEF Ids
      <4> QED BY <4>1
    <3> HIDE DEF g
    <3> QED BY <3>2, <3>3 DEF WalkFrom
  <2>10. Walks(m, g)
    BY <2>9
  <2> QED BY <2>2, <2>8, <2>10
<1>2. PICK f \in [Ids -> Ids \cup {NoId}] : Walks(MaxCalls, f)
  BY <1>m, <1>1
<1>3. \A j \in Ids : f[j] = WalkFrom(f, j)
  BY <1>m, <1>2 DEF Ids
<1>4. IsWalk(f)
  BY <1>3 DEF IsWalk
<1> QED BY <1>4

(* Of a memory all of whose versions are stored, every chain is walked to a *)
(* live one: a row that is archived names a later version (Honest), and     *)
(* there are only finitely many.                                            *)
LEMMA ChainsEndLive ==
    ASSUME IInv, HonestOK, "retire" \notin Ops, NEW l, \A j \in Versions(l) : Exists(j),
           NEW walk, IsWalk(walk), NEW i \in Versions(l)
    PROVE  Live(walk[i])
<1> DEFINE S == {n \in 0 .. MaxCalls : MaxCalls - n \in Versions(l)
                                       /\ ~Live(walk[MaxCalls - n])}
<1>m. MaxCalls \in Nat
  BY BoundsAssumption
<1>1. S = {}
  <2> SUFFICES ASSUME S # {} PROVE FALSE
    OBVIOUS
  <2>1. PICK m \in S : \A n \in S : m <= n
    <3>1. S \in SUBSET Nat
      OBVIOUS
    <3> HIDE DEF S
    <3> QED BY <3>1, LeastNumber
  <2>2. PICK j \in Ids : j = MaxCalls - m /\ j \in Versions(l) /\ ~Live(walk[j])
    BY DEF Versions, Created
  <2>3. walk[j] = WalkFrom(walk, j) /\ Exists(j)
    BY <2>2 DEF IsWalk
  <2>4. CASE Goes(j)
    <3>1. PICK k \in Ids : k = rows[j].next /\ j < k /\ k < nextId /\ origin[k] = origin[j]
      BY <2>3, <2>4, GoesForward
    <3>2. k \in Versions(l) /\ walk[j] = walk[k]
      BY <2>2, <2>3, <2>4, <3>1 DEF Versions, Created, WalkFrom
    <3>3. MaxCalls - k \in 0 .. MaxCalls /\ MaxCalls - k < m /\ MaxCalls - (MaxCalls - k) = k
      BY <1>m, <2>2, <3>1 DEF Ids
    <3>4. MaxCalls - k \in S
      BY <2>2, <3>2, <3>3
    <3>5. m \in 0 .. MaxCalls
      OBVIOUS
    <3> HIDE DEF S
    <3> QED BY <1>m, <2>1, <3>3, <3>4, <3>5
  <2>5. CASE ~Goes(j)
    <3>1. walk[j] = j
      BY <2>3, <2>5 DEF WalkFrom
    <3>2. Archived(rows[j]) => rows[j].next # NoId
      BY <2>3 DEF HonestOK, HonestTable, Honest
    <3> QED BY <2>2, <2>3, <2>5, <3>1, <3>2 DEF Live, Goes
  <2> QED BY <2>4, <2>5
<1>2. i \in Ids /\ MaxCalls - i \in 0 .. MaxCalls /\ MaxCalls - (MaxCalls - i) = i
  BY <1>m DEF Versions, Created, Ids
<1> QED BY <1>1, <1>2

(* Unless rows are retired, get_by_id's chain leads every caller to a live  *)
(* version of a memory whose versions are all stored, however long the      *)
(* chain and whichever calls made it.                                       *)
THEOREM ChainsLeadToLive == Spec => []CallersReachLive
<1>1. IInv /\ HonestOK => CallersReachLive
  <2> SUFFICES ASSUME IInv, HonestOK, "retire" \notin Ops, NEW l \in Lineages \ gone,
                      \A j \in Versions(l) : Exists(j), NEW i \in Versions(l)
               PROVE  Live(ChainEnd(i))
    BY DEF CallersReachLive
  <2> DEFINE walk == CHOOSE walk : IsWalk(walk)
  <2>1. ChainEnd(i) = walk[i]
    BY DEF ChainEnd, IsWalk, WalkFrom, Goes
  <2>2. IsWalk(walk)
    BY WalkExists
  <2> HIDE DEF walk
  <2> QED BY <2>1, <2>2, ChainsEndLive
<1> QED BY <1>1, HonestAlways, PTL

-----------------------------------------------------------------------------
(* The table implements VersionedMemory, as long as nobody retires rows.    *)

(* Every lineage is named by a version no younger than any of its own, and   *)
(* has a newest version.                                                     *)
LineageOK ==
    /\ \A i \in Ids : i < nextId => origin[i] \in Ids /\ origin[i] <= i
    /\ \A i \in Ids : i < nextId => \E j \in Ids : Newest(j) /\ origin[j] = origin[i]

NewestLive(l, j) ==
    CurrentVersion[l] = IF Live(j) THEN j ELSE NoId

(* What the refinement mapping is, version by version.                       *)
LEMMA CurrentIs ==
    TypeOK /\ LineageOK =>
        /\ \A j \in Ids : Newest(j) => NewestLive(origin[j], j)
        /\ \A l \in Ids : (\A i \in Ids : i < nextId => origin[i] # l) => CurrentVersion[l] = NoId
<1> SUFFICES ASSUME TypeOK, LineageOK
             PROVE  /\ \A j \in Ids : Newest(j) => NewestLive(origin[j], j)
                    /\ \A l \in Ids : (\A i \in Ids : i < nextId => origin[i] # l)
                                         => CurrentVersion[l] = NoId
  OBVIOUS
<1>1. ASSUME NEW j \in Ids, Newest(j) PROVE NewestLive(origin[j], j)
  <2> DEFINE l == origin[j]
  <2>1. j < nextId /\ l \in Ids /\ j \in Versions(l)
    BY <1>1 DEF LineageOK, Newest, Versions, Created
  <2>2. \A i \in Versions(l) : i \in Ids /\ i <= j
    BY <1>1 DEF Newest, Versions, Created, Ids
  <2>3. NewestOf(l) \in Versions(l) /\ \A i \in Versions(l) : i <= NewestOf(l)
    BY <2>1, <2>2 DEF NewestOf
  <2>4. NewestOf(l) = j
    BY <2>1, <2>2, <2>3 DEF Ids
  <2> QED BY <2>1, <2>4 DEF NewestLive, CurrentVersion
<1>2. ASSUME NEW l \in Ids, \A i \in Ids : i < nextId => origin[i] # l
      PROVE  CurrentVersion[l] = NoId
  BY <1>2 DEF CurrentVersion, Versions, Created
<1> QED BY <1>1, <1>2

LEMMA CurrentWillBe ==
    (TypeOK /\ LineageOK =>
        /\ \A j \in Ids : Newest(j) => NewestLive(origin[j], j)
        /\ \A l \in Ids : (\A i \in Ids : i < nextId => origin[i] # l) => CurrentVersion[l] = NoId)'
BY CurrentIs, PTL

-----------------------------------------------------------------------------
(* The three things a step can do to the table.                              *)

(* The newest versions stay as they are: a stutter of the promise.           *)
LEMMA KeepsNewest ==
    ASSUME TypeOK, LineageOK, TypeOK', UNCHANGED <<nextId, origin, gone>>,
           \A j \in Ids : Newest(j) => Live(j)' = Live(j)
    PROVE  LineageOK' /\ UNCHANGED Promise!avars
<1>1. \A j \in Ids : Newest(j)' = Newest(j)
  BY DEF Newest
<1>2. LineageOK'
  BY <1>1 DEF LineageOK
<1>3. ASSUME NEW l \in Ids PROVE CurrentVersion'[l] = CurrentVersion[l]
  <2>1. CASE \A i \in Ids : i < nextId => origin[i] # l
    BY <1>2, <2>1, CurrentIs, CurrentWillBe
  <2>2. CASE \E i \in Ids : i < nextId /\ origin[i] = l
    <3>1. PICK j \in Ids : Newest(j) /\ origin[j] = l
      BY <2>2 DEF LineageOK
    <3>2. NewestLive(l, j) /\ NewestLive(l, j)'
      BY <1>1, <1>2, <3>1, CurrentIs, CurrentWillBe
    <3> QED BY <3>1, <3>2 DEF NewestLive
  <2> QED BY <2>1, <2>2
<1>4. CurrentVersion' = CurrentVersion
  BY <1>3 DEF CurrentVersion
<1> QED BY <1>2, <1>4 DEF Promise!avars

(* A version is added: a write of the promise.                               *)
LEMMA AddIsWrite ==
    ASSUME TypeOK, LineageOK, TypeOK', UNCHANGED gone,
           NEW r \in Row, r.state = "confirmed",
           NEW root \in Ids, root <= nextId, TableAdd(r, root)
    PROVE  LineageOK' /\ Promise!ANext
<1>0. nextId \in Ids
  BY BoundsAssumption DEF TypeOK, TableAdd, Ids
<1> SUFFICES ASSUME NEW n \in Ids, n = nextId PROVE LineageOK' /\ Promise!ANext
  BY <1>0
<1>1. /\ nextId' = n + 1
      /\ origin' = [origin EXCEPT ![n] = root] /\ rows' = [rows EXCEPT ![n] = r]
  BY DEF TableAdd
<1>2. /\ origin'[n] = root /\ rows'[n] = r
      /\ \A i \in Ids : i # n => origin'[i] = origin[i] /\ rows'[i] = rows[i]
  BY <1>1 DEF TypeOK, Tables
<1>3. Newest(n)' /\ Live(n)'
  BY <1>1, <1>2, NoRowIsNoRow DEF Newest, Live, Exists, Archived, Ids
<1>4. ASSUME NEW j \in Ids, Newest(j), origin[j] # root
      PROVE  Newest(j)' /\ j # n /\ Live(j)' = Live(j) /\ origin'[j] = origin[j]
  <2>1. j # n
    BY <1>1, <1>4 DEF Newest, Ids
  <2> QED BY <1>1, <1>2, <1>4, <2>1 DEF Newest, Live, Exists, Ids
<1>5. LineageOK'
  <2> SUFFICES ASSUME NEW i \in Ids, i < nextId'
               PROVE  /\ origin'[i] \in Ids /\ origin'[i] <= i
                      /\ \E j \in Ids : Newest(j)' /\ origin'[j] = origin'[i]
    BY DEF LineageOK
  <2>1. CASE origin'[i] = root
    <3>1. \E j \in Ids : Newest(j)' /\ origin'[j] = origin'[i]
      BY <1>1, <1>2, <1>3, <2>1
    <3>2. origin'[i] <= i
      <4>1. CASE i = n
        BY <2>1, <4>1
      <4>2. CASE i # n
        BY <1>1, <1>2, <4>2 DEF LineageOK, Ids
      <4> QED BY <4>1, <4>2
    <3> QED BY <2>1, <3>1, <3>2
  <2>2. CASE origin'[i] # root
    <3>1. i # n /\ i < nextId /\ origin'[i] = origin[i]
      BY <1>1, <1>2, <2>2 DEF Ids
    <3>2. origin[i] \in Ids /\ origin[i] <= i
      BY <3>1 DEF LineageOK
    <3>3. PICK j \in Ids : Newest(j) /\ origin[j] = origin[i]
      BY <3>1 DEF LineageOK
    <3> QED BY <1>4, <2>2, <3>1, <3>2, <3>3
  <2> QED BY <2>1, <2>2
<1>6. CurrentVersion'[root] = n
  BY <1>1, <1>2, <1>3, <1>5, CurrentWillBe DEF NewestLive
<1>7. ASSUME NEW l \in Ids, l # root PROVE CurrentVersion'[l] = CurrentVersion[l]
  <2>1. CASE \A i \in Ids : i < nextId => origin[i] # l
    <3>1. \A i \in Ids : i < nextId' => origin'[i] # l
      BY <1>1, <1>2, <1>7, <2>1 DEF Ids
    <3> QED BY <1>5, <2>1, <3>1, CurrentIs, CurrentWillBe
  <2>2. CASE \E i \in Ids : i < nextId /\ origin[i] = l
    <3>1. PICK j \in Ids : Newest(j) /\ origin[j] = l
      BY <2>2 DEF LineageOK
    <3>2. Newest(j)' /\ origin'[j] = l /\ Live(j)' = Live(j)
      BY <1>4, <1>7, <3>1
    <3>3. NewestLive(l, j) /\ NewestLive(l, j)'
      BY <1>5, <3>1, <3>2, CurrentIs, CurrentWillBe
    <3> QED BY <3>2, <3>3 DEF NewestLive
  <2> QED BY <2>1, <2>2
<1>8. CurrentVersion' = [CurrentVersion EXCEPT ![root] = n]
  BY <1>6, <1>7 DEF CurrentVersion
<1>9. Promise!Write(root)
  BY <1>1, <1>8 DEF Promise!Write, Ids
<1> QED BY <1>5, <1>9 DEF Promise!ANext, Promise!Memories, Ids

(* The newest version of a lineage is deleted: it is given up.               *)
LEMMA DeleteIsGiveUp ==
    ASSUME TypeOK, LineageOK, TypeOK', UNCHANGED <<nextId, origin>>,
           NEW i \in Ids, Newest(i), TableDelete(i), gone' = gone \cup {origin[i]}
    PROVE  LineageOK' /\ Promise!ANext
<1> DEFINE l == origin[i]
<1>1. l \in Ids /\ l <= i /\ i < nextId
  BY DEF LineageOK, Newest
<1>2. \A j \in Ids : Newest(j)' = Newest(j)
  BY DEF Newest
<1>3. LineageOK'
  BY <1>2 DEF LineageOK
<1>4. ~Live(i)' /\ \A j \in Ids : j # i => Live(j)' = Live(j)
  BY DEF TableDelete, Live, Exists, TypeOK, Tables
<1>5. CurrentVersion'[l] = NoId
  BY <1>2, <1>3, <1>4, CurrentWillBe DEF NewestLive
<1>6. ASSUME NEW k \in Ids, k # l PROVE CurrentVersion'[k] = CurrentVersion[k]
  <2>1. CASE \A j \in Ids : j < nextId => origin[j] # k
    BY <1>3, <2>1, CurrentIs, CurrentWillBe
  <2>2. CASE \E j \in Ids : j < nextId /\ origin[j] = k
    <3>1. PICK j \in Ids : Newest(j) /\ origin[j] = k
      BY <2>2 DEF LineageOK
    <3>2. NewestLive(k, j) /\ NewestLive(k, j)' /\ j # i
      BY <1>2, <1>3, <1>6, <3>1, CurrentIs, CurrentWillBe
    <3> QED BY <1>4, <3>1, <3>2 DEF NewestLive
  <2> QED BY <2>1, <2>2
<1>7. CurrentVersion' = [CurrentVersion EXCEPT ![l] = NoId]
  BY <1>5, <1>6 DEF CurrentVersion
<1>8. Promise!GiveUp(l)
  BY <1>1, <1>7 DEF Promise!GiveUp, NoId, Ids, TypeOK
<1> QED BY <1>1, <1>3, <1>8 DEF Promise!ANext, Promise!Memories, Ids

(* Without retirement no row is archived that has not been overtaken, so no  *)
(* copy written back hides or revives a newest version.                      *)
LEMMA WriteKeepsNewest ==
    ASSUME "retire" \notin Ops, TypeOK, TableOK, LineageOK, TypeOK', UNCHANGED <<nextId, origin, gone>>,
           NEW i \in Ids, NEW r \in Row, TableUpdate(i, r), Archived(r) => Overtaken(i)
    PROVE  LineageOK' /\ UNCHANGED Promise!avars
<1>1. ASSUME NEW j \in Ids, Newest(j) PROVE Live(j)' = Live(j)
  <2>1. CASE j # i
    BY <2>1 DEF TableUpdate, Live, Exists, TypeOK, Tables
  <2>2. CASE j = i
    <3>1. ~Overtaken(i)
      BY <1>1, <2>2 DEF Newest, Overtaken
    <3>2. Exists(i) => Live(i)
      BY <3>1 DEF TableOK, CopyOK, MayArchive, Live
    <3>3. Exists(i) => Live(i)'
      BY <3>1, NoRowIsNoRow DEF TableUpdate, Live, Exists, Archived, TypeOK, Tables
    <3>4. ~Exists(i) => ~Live(i) /\ ~Live(i)'
      BY DEF TableUpdate, Live, Exists
    <3>5. Live(i)' = Live(i)
      BY <3>2, <3>3, <3>4 DEF Live, Exists
    <3> QED BY <2>2, <3>5 DEF Live, Exists
  <2> QED BY <2>1, <2>2
<1> QED BY <1>1, KeepsNewest

LEMMA DeleteKeepsNewest ==
    ASSUME TypeOK, LineageOK, TypeOK', UNCHANGED <<nextId, origin, gone>>,
           NEW i \in Ids, ~Newest(i), TableDelete(i)
    PROVE  LineageOK' /\ UNCHANGED Promise!avars
<1>1. ASSUME NEW j \in Ids, Newest(j) PROVE Live(j)' = Live(j)
  BY <1>1 DEF TableDelete, Live, Exists, TypeOK, Tables
<1> QED BY <1>1, KeepsNewest

(* A deletion, with what it means for the lineage.                           *)
LEMMA DropIsAllowed ==
    ASSUME TypeOK, LineageOK, TypeOK', UNCHANGED <<nextId, origin>>,
           NEW i \in Ids, TableDelete(i), Drop(i)
    PROVE  LineageOK' /\ [Promise!ANext]_Promise!avars
<1>1. CASE Newest(i)
  <2>1. gone' = gone \cup {origin[i]}
    BY <1>1 DEF Drop
  <2>2. LineageOK' /\ Promise!ANext
    BY <1>1, <2>1, DeleteIsGiveUp
  <2> QED BY <2>2
<1>2. CASE ~Newest(i)
  <2>1. UNCHANGED gone
    BY <1>2 DEF Drop
  <2>2. LineageOK' /\ UNCHANGED Promise!avars
    BY <1>2, <2>1, DeleteKeepsNewest
  <2> QED BY <2>2
<1> QED BY <1>1, <1>2

-----------------------------------------------------------------------------
(* Every step of the table is a step the promise allows.                     *)
LEMMA PromisedStep ==
    ASSUME "retire" \notin Ops, IInv, LineageOK, [Next]_vars
    PROVE  LineageOK' /\ [Promise!ANext]_Promise!avars
<1> USE DEF IInv
<1>0. TypeOK'
  BY TypeStep
<1>s. ASSUME UNCHANGED <<rows, nextId, origin, gone>>
      PROVE  LineageOK' /\ [Promise!ANext]_Promise!avars
  <2>1. \A j \in Ids : Newest(j) => Live(j)' = Live(j)
    BY <1>s DEF Live, Exists
  <2> QED BY <1>0, <1>s, <2>1, KeepsNewest
<1>1. ASSUME NEW c \in Clients, Store(c) PROVE LineageOK' /\ [Promise!ANext]_Promise!avars
  <2>1. PICK until \in Expiries : TableAdd(FreshRow(until), nextId)
    BY <1>1 DEF Store
  <2>2. nextId \in Ids /\ nextId <= nextId
    BY <2>1, BoundsAssumption DEF TypeOK, TableAdd, Ids
  <2>3. FreshRow(until) \in Row /\ FreshRow(until).state = "confirmed"
    BY FreshRowType, WorkloadAssumption DEF TypeOK
  <2>4. UNCHANGED gone
    BY <1>1 DEF Store
  <2> QED BY <1>0, <2>1, <2>2, <2>3, <2>4, AddIsWrite
<1>2. ASSUME NEW c \in Clients, SupersedeAdd(c) PROVE LineageOK' /\ [Promise!ANext]_Promise!avars
  <2>1. op[c] \in RowCall /\ RowCallOK(c)
    BY <1>2, CallShape DEF SupersedeAdd, CallsOK, CallOK
  <2>2. op[c].cur \in Ids /\ op[c].snap \in Row /\ op[c].at \in Nat /\ op[c].cur < nextId
    BY <2>1 DEF RowCall, RowCallOK
  <2>3. PICK until \in Expiries \cup {op[c].snap.until} :
           TableAdd(NewVersion(op[c].snap, op[c].at, until), origin[op[c].cur])
    BY <1>2 DEF SupersedeAdd
  <2>4. until \in Nat
    BY <2>2, WorkloadAssumption DEF Row
  <2>5. origin[op[c].cur] \in Ids /\ origin[op[c].cur] <= nextId
    BY <2>2 DEF LineageOK, TypeOK, Ids
  <2>6. /\ NewVersion(op[c].snap, op[c].at, until) \in Row
        /\ NewVersion(op[c].snap, op[c].at, until).state = "confirmed"
    BY <2>2, <2>4, NewVersionType
  <2>7. UNCHANGED gone
    BY <1>2 DEF SupersedeAdd
  <2> QED BY <1>0, <2>3, <2>5, <2>6, <2>7, AddIsWrite
<1>3. ASSUME NEW c \in Clients,
             SupersedeArchive(c) \/ UpdateWrite(c) \/ RetireWrite(c) \/ IncrementWrite(c)
      PROVE  LineageOK' /\ [Promise!ANext]_Promise!avars
  <2>1. op[c] \in RowCall /\ RowCallOK(c) /\ CopyOK(op[c].cur, op[c].snap)
    BY <1>3, CallShape DEF SupersedeArchive, UpdateWrite, RetireWrite, IncrementWrite,
       CallsOK, CallOK, RowCallOK
  <2>2. SUFFICES ASSUME NEW i \in Ids, i = op[c].cur, NEW r \in Row, r = op[c].snap,
                        NEW j \in Ids, j = op[c].id, NEW at \in Nat, at = op[c].at,
                        NEW new \in Ids \cup {NoId}, new = op[c].new
                 PROVE  LineageOK' /\ [Promise!ANext]_Promise!avars
    BY <2>1 DEF RowCall
  <2>3. /\ i < nextId /\ j <= i /\ origin[j] = origin[i]
        /\ Archived(r) => Overtaken(i)
    BY <2>1, <2>2 DEF RowCallOK, CopyOK, MayArchive
  <2>4. CASE SupersedeArchive(c)
    <3>1. i < new /\ new < nextId /\ origin[new] = origin[i]
      BY <2>1, <2>2, <2>4 DEF RowCallOK, SupersedeArchive
    <3>2. Overtaken(i)
      BY <3>1 DEF Overtaken, NoId, Ids
    <3>3. ArchivedVersion(r, at, new) \in Row
      BY ArchivedVersionType
    <3>4. TableUpdate(i, ArchivedVersion(r, at, new)) /\ UNCHANGED <<nextId, origin, gone>>
      BY <2>2, <2>4 DEF SupersedeArchive
    <3> QED BY <1>0, <3>2, <3>3, <3>4, WriteKeepsNewest
  <2>5. CASE UpdateWrite(c)
    <3>1. TableUpdate(i, r) /\ UNCHANGED <<nextId, origin, gone>>
      BY <2>2, <2>5 DEF UpdateWrite
    <3> QED BY <1>0, <2>3, <3>1, WriteKeepsNewest
  <2>6. CASE RetireWrite(c)
    BY <2>1, <2>6 DEF RetireWrite, RowCallOK
  <2>7. CASE IncrementWrite(c)
    <3>1. UNCHANGED <<nextId, origin, gone>>
      BY <2>7 DEF IncrementWrite
    <3>2. CASE UNCHANGED rows
      BY <1>s, <3>1, <3>2
    <3>3. CASE TableUpdate(j, Accessed(r, at))
      <4>1. Accessed(r, at) \in Row /\ Accessed(r, at).state = r.state
        BY AccessedType
      <4>2. Overtaken(i) => Overtaken(j)
        BY <2>3 DEF Overtaken, Ids
      <4>3. Archived(Accessed(r, at)) => Overtaken(j)
        BY <2>3, <4>1, <4>2 DEF Archived
      <4> QED BY <1>0, <3>1, <3>3, <4>1, <4>3, WriteKeepsNewest
    <3> QED BY <2>2, <2>7, <3>2, <3>3 DEF IncrementWrite, IncrementTarget
  <2> QED BY <1>3, <2>4, <2>5, <2>6, <2>7
<1>4. ASSUME NEW c \in Clients, ForgetDelete(c) PROVE LineageOK' /\ [Promise!ANext]_Promise!avars
  <2>1. op[c].cur \in Ids
    BY <1>4, CallShape DEF ForgetDelete, RowCall
  <2> QED BY <1>0, <1>4, <2>1, DropIsAllowed DEF ForgetDelete
<1>5. ASSUME NEW c \in Clients, MarkWrite(c) PROVE LineageOK' /\ [Promise!ANext]_Promise!avars
  <2>1. op[c] \in MarkCall /\ op[c].batch \in Tables /\ BatchOK(c)
    BY <1>5, CallShape DEF MarkWrite, CallsOK, CallOK, MarkCall, BatchCall
  <2>2. PICK i \in Ids :
          /\ op[c].batch[i] # NoRow
          /\ \/ TableUpdate(i, Marked(op[c].batch[i], op[c].session, op[c].at))
             \/ UNCHANGED rows
    BY <1>5 DEF MarkWrite
  <2>3. /\ op[c].batch[i] \in Row /\ op[c].session \in Sessions /\ op[c].at \in Nat
        /\ Archived(op[c].batch[i]) => Overtaken(i)
    BY <2>1, <2>2 DEF MarkCall, BatchCall, Tables, BatchOK, CopyOK, MayArchive
  <2>4. UNCHANGED <<nextId, origin, gone>>
    BY <1>5 DEF MarkWrite
  <2>5. CASE UNCHANGED rows
    BY <1>s, <2>4, <2>5
  <2>6. CASE TableUpdate(i, Marked(op[c].batch[i], op[c].session, op[c].at))
    <3>1. SUFFICES ASSUME NEW r \in Row, r = Marked(op[c].batch[i], op[c].session, op[c].at)
                   PROVE  LineageOK' /\ [Promise!ANext]_Promise!avars
      BY <2>3, MarkedType
    <3>2. Archived(r) => Overtaken(i)
      BY <2>3, <3>1, MarkedType DEF Archived
    <3> QED BY <1>0, <2>4, <2>6, <3>1, <3>2, WriteKeepsNewest
  <2> QED BY <2>2, <2>5, <2>6
<1>6. ASSUME NEW c \in Clients, PurgeDelete(c) PROVE LineageOK' /\ [Promise!ANext]_Promise!avars
  <2>1. op[c] \in PurgeCall /\ BatchOK(c)
    BY <1>6, CallShape DEF PurgeDelete, CallsOK, CallOK
  <2>2. PICK i \in Ids :
          /\ op[c].batch[i] # NoRow
          /\ TableDelete(i)
          /\ IF op[c].kind = "purge_expired" THEN Drop(i) ELSE UNCHANGED gone
    BY <1>6 DEF PurgeDelete
  <2>3. UNCHANGED <<nextId, origin>>
    BY <1>6 DEF PurgeDelete
  <2>4. CASE op[c].kind = "purge_expired"
    BY <1>0, <2>2, <2>3, <2>4, DropIsAllowed
  <2>5. CASE op[c].kind = "purge_archived"
    <3>1. Overtaken(i)
      BY <2>1, <2>2, <2>5 DEF BatchOK, CopyOK, MayArchive
    <3>2. ~Newest(i)
      BY <3>1 DEF Overtaken, Newest
    <3>3. UNCHANGED gone
      BY <2>2, <2>5
    <3> QED BY <1>0, <2>2, <2>3, <3>2, <3>3, DeleteKeepsNewest
  <2> QED BY <2>1, <2>4, <2>5 DEF PurgeCall, BatchCall
<1>7. ASSUME NEW c \in Clients,
             \/ \E kind \in RowKinds, i \in Ids : Begin(c, kind, i)
             \/ WalkMissing(c) \/ WalkHop(c) \/ WalkEnd(c) \/ BatchDone(c) \/ Abort(c)
             \/ MarkRead(c) \/ PurgeArchivedScan(c) \/ PurgeExpiredScan(c)
      PROVE  LineageOK' /\ [Promise!ANext]_Promise!avars
  BY <1>7, <1>s DEF Begin, WalkMissing, WalkHop, WalkEnd, BatchDone, Abort, MarkRead,
     PurgeArchivedScan, PurgeExpiredScan, PurgeScan
<1>8. CASE Tick \/ UNCHANGED vars
  BY <1>8, <1>s DEF Tick, vars
<1> QED BY <1>1, <1>2, <1>3, <1>4, <1>5, <1>6, <1>7, <1>8 DEF Next, Step

(* When nobody retires rows, the table keeps its promise to the callers: a   *)
(* memory's current version is replaced only by a later one or given up by   *)
(* somebody, whichever calls overlap, whatever stale copies they write back  *)
(* and wherever they die.                                                    *)
THEOREM PromiseIsKept == ASSUME "retire" \notin Ops PROVE Spec => ImplementsPromise
<1>1. Init => LineageOK /\ Promise!AInit
  <2> SUFFICES ASSUME Init PROVE LineageOK /\ Promise!AInit
    OBVIOUS
  <2>1. \A i \in Ids : ~(i < nextId)
    BY DEF Init, Ids
  <2>2. CurrentVersion = [l \in Ids |-> 0]
    BY <2>1 DEF CurrentVersion, Versions, Created, NoId
  <2> QED BY <2>1, <2>2 DEF Init, LineageOK, Promise!AInit, Promise!Memories, Ids
<1>2. IInv /\ LineageOK /\ [Next]_vars => LineageOK' /\ [Promise!ANext]_Promise!avars
  BY PromisedStep
<1> QED BY <1>1, <1>2, Inductive, PTL DEF Spec, ImplementsPromise, Promise!ASpec

-----------------------------------------------------------------------------
(* What holds besides for a caller whose calls do not overlap with others.  *)

(* A lone caller, whose calls end one after the other and are not cut off,  *)
(* whose recalls are not counted (increment_access_count writes to the id   *)
(* it was given), and whose memories have fewer versions than get_by_id     *)
(* makes hops.                                                              *)
LoneCaller ==
    /\ \A c, d \in Clients : c = d
    /\ ~Faults
    /\ "increment" \notin Ops
    /\ MaxCalls <= MaxHops + 1

(* A lineage is named by its first version; nothing is known of an id that  *)
(* was not given out.                                                       *)
RootsOK ==
    \A i \in Ids :
        /\ i < nextId => origin[i] \in 1 .. i /\ origin[origin[i]] = origin[i]
        /\ i >= nextId => origin[i] = NoId /\ usedIn[i] = {}

(* An older version is archived and points onwards, except between the two  *)
(* writes of a supersede.                                                   *)
Superseding(i) == \E c \in Clients : op[c].pc = "archive" /\ op[c].cur = i

LoneTable ==
    \A i \in Ids : Exists(i) =>
        Newest(i) \/ (Archived(rows[i]) /\ rows[i].next # NoId) \/ Superseding(i)

(* The copies of the call that runs are what is stored, and a call about a  *)
(* row is about the newest version.                                         *)
LoneCall(c) ==
    /\ op[c].pc = "walk" => \A j \in op[c].seen : j < op[c].cur
    /\ op[c].pc \in {"add", "archive", "write", "delete"} =>
          /\ Exists(op[c].cur) /\ op[c].snap = rows[op[c].cur]
          /\ op[c].pc # "archive" => Newest(op[c].cur)
    /\ op[c].pc = "batch" =>
          \A i \in Ids : op[c].batch[i] # NoRow => op[c].batch[i] = rows[i]

(* A row that is not promoted yet has every session that used it in its     *)
(* ledger, which is therefore short of the threshold and was never cut.     *)
Earned(r, used) ==
    \/ r.cross
    \/ Len(r.ledger) < Threshold /\ \A s \in used : InLedger(r, s)

LoneLedgers ==
    Threshold > 0 =>
        \A i \in Ids : Exists(i) /\ Newest(i) /\ origin[i] = i => Earned(rows[i], usedIn[i])

LoneOK == RootsOK /\ LoneTable /\ LoneLedgers /\ \A c \in Clients : LoneCall(c)

LEMMA OneNewest ==
  ASSUME TypeOK, NEW i \in Ids, NEW j \in Ids, Newest(i), Newest(j), origin[i] = origin[j]
  PROVE  i = j
BY DEF Newest, Ids, TypeOK

(* Only an add gives out an id.                                             *)
LEMMA AddedNewest ==
  ASSUME TypeOK, RootsOK, NEW r, NEW root, TableAdd(r, root), NEW i \in Ids
  PROVE  /\ i # nextId => rows'[i] = rows[i] /\ origin'[i] = origin[i]
         /\ i = nextId => rows'[i] = r /\ origin'[i] = root /\ Newest(i)'
         /\ i < nextId => (Newest(i)' <=> Newest(i) /\ origin[i] # root)
         /\ i > nextId => ~Newest(i)'
<1>1. /\ nextId \in Nat /\ nextId' = nextId + 1 /\ i \in Nat /\ nextId \in Ids
      /\ \A j \in Ids : j \in Nat
  BY BoundsAssumption DEF TypeOK, TableAdd, Ids
<1>2. \A j \in Ids : origin'[j] = IF j = nextId THEN root ELSE origin[j]
  BY DEF TypeOK, TableAdd
<1>3. \A j \in Ids : rows'[j] = IF j = nextId THEN r ELSE rows[j]
  BY DEF TypeOK, TableAdd, Tables
<1>4. ASSUME i < nextId PROVE Newest(i)' <=> Newest(i) /\ origin[i] # root
  BY <1>1, <1>2, <1>4 DEF Newest
<1>5. i = nextId => Newest(i)'
  BY <1>1, <1>2 DEF Newest
<1>6. i > nextId => ~Newest(i)'
  BY <1>1 DEF Newest
<1> QED BY <1>2, <1>3, <1>4, <1>5, <1>6

LEMMA RootsStep ==
  ASSUME IInv, RootsOK, [Next]_vars
  PROVE  RootsOK'
<1>t. TypeOK /\ CallsOK
  BY DEF IInv
<1>1. CASE UNCHANGED <<nextId, origin, usedIn>>
  BY <1>1 DEF RootsOK
<1>2. ASSUME NEW c \in Clients, Store(c) PROVE RootsOK'
  <2>1. PICK until \in Expiries : TableAdd(FreshRow(until), nextId)
    BY <1>2 DEF Store
  <2>2. usedIn' = usedIn
    BY <1>2 DEF Store
  <2>3. nextId \in Ids /\ nextId' = nextId + 1 /\ nextId \in Nat /\ \A i \in Ids : i \in Nat /\ 1 <= i
    BY <1>t, <2>1, BoundsAssumption DEF TypeOK, TableAdd, Ids
  <2>4. \A i \in Ids : origin'[i] = IF i = nextId THEN nextId ELSE origin[i]
    BY <1>t, <2>1 DEF TypeOK, TableAdd
  <2> QED
    <3> SUFFICES ASSUME NEW i \in Ids
                 PROVE  /\ i < nextId' => origin'[i] \in 1 .. i /\ origin'[origin'[i]] = origin'[i]
                        /\ i >= nextId' => origin'[i] = NoId /\ usedIn'[i] = {}
      BY DEF RootsOK
    <3>1. CASE i = nextId
      BY <2>3, <2>4, <3>1
    <3>2. CASE i < nextId
      <4>1. origin[i] \in 1 .. i /\ origin[origin[i]] = origin[i]
        BY <3>2 DEF RootsOK
      <4>2. origin[i] \in Ids /\ origin[i] # nextId
        BY <2>3, <3>2, <4>1, BoundsAssumption DEF Ids
      <4> QED BY <2>3, <2>4, <3>2, <4>1, <4>2
    <3>3. CASE i > nextId
      BY <2>2, <2>3, <2>4, <3>3 DEF RootsOK
    <3>4. i = nextId \/ i < nextId \/ i > nextId
      BY <2>3
    <3> QED BY <3>1, <3>2, <3>3, <3>4
<1>3. ASSUME NEW c \in Clients, SupersedeAdd(c) PROVE RootsOK'
  <2>1. op[c] \in RowCall /\ RowCallOK(c)
    BY <1>t, <1>3, CallShape DEF SupersedeAdd, CallsOK, CallOK
  <2>2. PICK k \in Ids : k = op[c].cur /\ k < nextId
    BY <2>1 DEF RowCall, RowCallOK
  <2>3. PICK r : TableAdd(r, origin[k])
    BY <1>3, <2>2 DEF SupersedeAdd
  <2>4. usedIn' = usedIn
    BY <1>3 DEF SupersedeAdd
  <2>5. nextId \in Ids /\ nextId' = nextId + 1 /\ nextId \in Nat /\ \A i \in Ids : i \in Nat /\ 1 <= i
    BY <1>t, <2>3, BoundsAssumption DEF TypeOK, TableAdd, Ids
  <2>6. \A i \in Ids : origin'[i] = IF i = nextId THEN origin[k] ELSE origin[i]
    BY <1>t, <2>3 DEF TypeOK, TableAdd
  <2>7. \A i \in Ids : i < nextId => /\ origin[i] \in 1 .. i /\ origin[origin[i]] = origin[i]
                                     /\ origin[i] \in Ids /\ origin[i] # nextId
    BY <2>5, BoundsAssumption DEF RootsOK, Ids
  <2> QED
    <3> SUFFICES ASSUME NEW i \in Ids
                 PROVE  /\ i < nextId' => origin'[i] \in 1 .. i /\ origin'[origin'[i]] = origin'[i]
                        /\ i >= nextId' => origin'[i] = NoId /\ usedIn'[i] = {}
      BY DEF RootsOK
    <3>1. CASE i = nextId
      BY <2>2, <2>5, <2>6, <2>7, <3>1
    <3>2. CASE i < nextId
      <4>1. /\ origin'[i] = origin[i] /\ origin'[origin[i]] = origin[origin[i]]
            /\ origin[i] \in 1 .. i /\ origin[origin[i]] = origin[i]
        BY <2>5, <2>6, <2>7, <3>2
      <4>2. ~(i >= nextId')
        BY <2>5, <3>2
      <4> QED BY <4>1, <4>2
    <3>3. CASE i > nextId
      BY <2>4, <2>5, <2>6, <3>3 DEF RootsOK
    <3>4. i = nextId \/ i < nextId \/ i > nextId
      BY <2>5
    <3> QED BY <3>1, <3>2, <3>3, <3>4
<1>4. ASSUME NEW c \in Clients, MarkWrite(c) PROVE RootsOK'
  <2>1. op[c] \in MarkCall /\ BatchOK(c)
    BY <1>t, <1>4, CallShape DEF MarkWrite, CallsOK, CallOK
  <2>2. PICK i \in Ids :
           /\ op[c].batch[i] # NoRow
           /\ \/ usedIn' = usedIn
              \/ usedIn' = [usedIn EXCEPT ![origin[i]] = @ \cup {op[c].session}]
    BY <1>4 DEF MarkWrite
  <2>3. i < nextId
    BY <2>1, <2>2 DEF BatchOK
  <2>4. origin[i] \in 1 .. i /\ nextId \in Nat /\ i \in Nat /\ \A j \in Ids : j \in Nat
    BY <1>t, <2>3 DEF RootsOK, TypeOK, Ids
  <2>5. \A j \in Ids : j >= nextId => usedIn'[j] = usedIn[j]
    BY <1>t, <2>2, <2>3, <2>4 DEF TypeOK
  <2>6. UNCHANGED <<nextId, origin>>
    BY <1>4 DEF MarkWrite
  <2> QED BY <2>5, <2>6 DEF RootsOK
<1>5. ASSUME NEW c \in Clients, Step(c) PROVE RootsOK'
  <2>1. \/ Store(c) \/ SupersedeAdd(c) \/ MarkWrite(c)
        \/ UNCHANGED <<nextId, origin, usedIn>>
    BY <1>5 DEF Step, Begin, WalkMissing, WalkHop, WalkEnd, SupersedeArchive, UpdateWrite,
       RetireWrite, ForgetDelete, IncrementWrite, MarkRead, PurgeArchivedScan,
       PurgeExpiredScan, PurgeScan, PurgeDelete, BatchDone, Abort
  <2> QED BY <1>1, <1>2, <1>3, <1>4, <2>1
<1> QED BY <1>1, <1>5 DEF Next, Tick, vars

LEMMA NotSuperseding ==
  ASSUME LoneCaller, NEW c \in Clients, op[c].pc # "archive"
  PROVE  \A i \in Ids : ~Superseding(i)
BY DEF LoneCaller, Superseding

LEMMA TheOneCall ==
  ASSUME LoneCaller, NEW c \in Clients, LoneCall(c)'
  PROVE  \A d \in Clients : LoneCall(d)'
BY DEF LoneCaller

(* get_by_id stops at the newest version: the chain has no gap while no     *)
(* call is between two writes, and it is short enough.                      *)
LEMMA WalkEndsAtNewest ==
  ASSUME LoneCaller, IInv, LoneOK, NEW c \in Clients, WalkEnd(c)
  PROVE  Newest(op[c].cur)
<1>1. op[c] \in RowCall /\ RowCallOK(c)
  BY CallShape DEF WalkEnd, IInv, CallsOK, CallOK
<1>2. PICK i \in Ids : i = op[c].cur
  BY <1>1 DEF RowCall
<1>3. PICK seen \in SUBSET Ids : seen = op[c].seen
  BY <1>1 DEF RowCall
<1>4. Exists(i) /\ \A j \in seen : j < i
  BY <1>2, <1>3 DEF WalkEnd, LoneOK, LoneCall
<1>5. SUFFICES ASSUME ~Newest(i) PROVE FALSE
  BY <1>2
<1>6. Archived(rows[i]) /\ rows[i].next # NoId
  BY <1>4, <1>5, NotSuperseding DEF LoneOK, LoneTable, WalkEnd
<1>7. PICK n \in Int : n = rows[i].next /\ i < n /\ n < nextId
  BY <1>4, <1>6 DEF IInv, TableOK, CopyOK, ForwardFrom, TypeOK, Tables, Row, Exists, NoId, Ids
<1>8. i \in Nat /\ 1 <= i /\ i <= MaxCalls - 1 /\ MaxCalls \in Nat
  BY <1>7, BoundsAssumption DEF IInv, TypeOK, Ids
<1>9. Cardinality(seen) <= i - 1
  <2>1. seen \subseteq 1 .. i - 1
    BY <1>4, <1>8 DEF Ids
  <2>2. IsFiniteSet(1 .. i - 1) /\ Cardinality(1 .. i - 1) = i - 1
    BY <1>8, FS_Interval
  <2>3. IsFiniteSet(seen) /\ Cardinality(seen) <= Cardinality(1 .. i - 1)
    BY <2>1, <2>2, FS_Subset
  <2> QED BY <2>2, <2>3
<1>10. Cardinality(seen) \in Nat
  <2>1. IsFiniteSet(seen)
    <3>1. IsFiniteSet(1 .. MaxCalls)
      BY <1>8, FS_Interval
    <3> QED BY <3>1, FS_Subset DEF Ids
  <2> QED BY <2>1, FS_CardinalityType
<1>11. Cardinality(seen) < MaxHops
  BY <1>7, <1>8, <1>9, <1>10, BoundsAssumption DEF LoneCaller, IInv, TypeOK
<1>12. n \notin seen
  BY <1>4, <1>7, <1>8
<1> QED BY <1>2, <1>3, <1>6, <1>7, <1>11, <1>12 DEF WalkEnd, Follows

(* What a step that adds no row must keep of the others.                    *)
ShapeKept(i) ==
    Exists(i)' =>
        /\ Exists(i)
        /\ Archived(rows[i]) => Archived(rows[i])'
        /\ rows[i].next # NoId => rows'[i].next # NoId

LedgerKept(i) ==
    Exists(i)' =>
        /\ Exists(i)
        /\ rows'[i].cross = rows[i].cross
        /\ rows'[i].ledger = rows[i].ledger

LEMMA TableStays ==
  ASSUME LoneTable, UNCHANGED <<nextId, origin>>, \A i \in Ids : ShapeKept(i),
         \A i \in Ids : Superseding(i) => Superseding(i)'
  PROVE  LoneTable'
<1>1. \A i \in Ids : Newest(i) => Newest(i)'
  BY DEF Newest
<1> QED BY <1>1 DEF LoneTable, ShapeKept

LEMMA LedgersStay ==
  ASSUME LoneLedgers, UNCHANGED <<nextId, origin, usedIn>>, \A i \in Ids : LedgerKept(i)
  PROVE  LoneLedgers'
<1>1. \A i \in Ids : Newest(i)' => Newest(i)
  BY DEF Newest
<1> QED BY <1>1 DEF LoneLedgers, LedgerKept, Earned, InLedger

(* A session that marks a row is in its ledger, or the row is promoted.     *)
LEMMA MarkEarned ==
  ASSUME NEW r \in Row, NEW used, NEW s \in Sessions, NEW t \in Nat,
         Threshold > 0, Earned(r, used)
  PROVE  Earned(Marked(r, s, t), used \cup {s})
<1>1. PICK n : n = Credited(r, s)
  OBVIOUS
<1>2. /\ n \in Row /\ Marked(r, s, t) = Accessed(n, t)
      /\ Accessed(n, t).cross = n.cross /\ Accessed(n, t).ledger = n.ledger
  <2>1. LedgerWith(r.ledger, s) \in Seq(Sessions)
    BY LedgerType DEF Row
  <2>2. n \in Row
    BY <1>1, <2>1, WithLedgerType DEF Credited
  <2> QED BY <1>1, <2>2 DEF Marked, Accessed, Row
<1>3. SUFFICES Earned(n, used \cup {s})
  BY <1>2 DEF Earned, InLedger
<1>4. CASE r.cross \/ InLedger(r, s)
  BY <1>1, <1>4 DEF Credited, Earned
<1>5. CASE ~r.cross /\ ~InLedger(r, s)
  <2>1. PICK q \in Seq(Sessions) : q = r.ledger
    BY DEF Row
  <2>2. Len(q) < Threshold /\ \A u \in used : \E k \in 1 .. Len(q) : q[k] = u
    BY <1>5, <2>1 DEF Earned, InLedger
  <2>3. /\ Append(q, s) \in Seq(Sessions) /\ Len(Append(q, s)) = Len(q) + 1
        /\ \A k \in 1 .. Len(q) : Append(q, s)[k] = q[k]
        /\ Append(q, s)[Len(q) + 1] = s
    BY <2>1
  <2>4. LedgerWith(q, s) = Append(q, s)
    BY <2>2, <2>3, BoundsAssumption DEF LedgerWith
  <2>5. n.ledger = Append(q, s) /\ n.cross = Promoted(Append(q, s))
    BY <1>1, <1>5, <2>1, <2>4 DEF Credited, WithLedger, Row
  <2>6. \A u \in used \cup {s} : \E k \in 1 .. Len(q) + 1 : Append(q, s)[k] = u
    BY <2>1, <2>2, <2>3
  <2>7. Len(q) + 1 < Threshold \/ Promoted(Append(q, s))
    BY <2>1, <2>3, BoundsAssumption DEF Promoted
  <2> QED BY <2>3, <2>5, <2>6, <2>7 DEF Earned, InLedger
<1> QED BY <1>4, <1>5

LEMMA LoneStep ==
  ASSUME LoneCaller, IInv, LoneOK, [Next]_vars
  PROVE  LoneOK'
<1>t. TypeOK /\ TypeOK' /\ TableOK /\ CallsOK /\ RootsOK /\ LoneTable /\ LoneLedgers
  BY TypeStep DEF IInv, LoneOK
<1>r. RootsOK'
  BY RootsStep DEF LoneOK
<1> SUFFICES LoneTable' /\ LoneLedgers' /\ \A c \in Clients : LoneCall(c)'
  BY <1>r DEF LoneOK
<1> DEFINE Goal == LoneTable' /\ LoneLedgers' /\ \A c \in Clients : LoneCall(c)'
<1>s. ASSUME NEW c \in Clients, UNCHANGED <<nextId, origin, usedIn>>,
             op[c].pc # "archive", \A i \in Ids : ShapeKept(i) /\ LedgerKept(i), LoneCall(c)'
      PROVE  Goal
  BY <1>s, <1>t, TableStays, LedgersStay, NotSuperseding, TheOneCall
<1>1. ASSUME NEW c \in Clients, Store(c)
      PROVE  Goal
  <2>1. PICK until \in Expiries : TableAdd(FreshRow(until), nextId)
    BY <1>1 DEF Store
  <2>2. PICK n \in Ids : n = nextId
    BY <1>t, <2>1 DEF TableAdd, TypeOK, Ids
  <2>r. PICK r : r = FreshRow(until)
    OBVIOUS
  <2>3. \A i \in Ids :
           /\ i # n => rows'[i] = rows[i] /\ origin'[i] = origin[i]
           /\ i = n => rows'[i] = r /\ origin'[i] = n /\ Newest(i)'
           /\ i < n => (Newest(i)' <=> Newest(i) /\ origin[i] # n)
           /\ i > n => ~Newest(i)'
    BY <1>t, <2>1, <2>2, <2>r, AddedNewest
  <2>4. op[c].pc = "idle" /\ UNCHANGED <<op, usedIn>>
    BY <1>1 DEF Store, MayCall
  <2>5. \A i \in Ids : i < n /\ Newest(i) => origin[i] # n
    BY <1>t, <2>2 DEF RootsOK, TypeOK, Ids
  <2>6. \A i \in Ids : Exists(i) => i < n
    BY <1>t, <2>2 DEF TableOK
  <2>7. LoneTable'
    <3>1. \A i \in Ids : ~Superseding(i)
      BY <2>4, NotSuperseding
    <3>2. ASSUME NEW i \in Ids, Exists(i)', i # n
          PROVE  Newest(i)' \/ (Archived(rows'[i]) /\ rows'[i].next # NoId)
      <4>1. Exists(i) /\ i < n /\ rows'[i] = rows[i]
        BY <2>3, <2>6, <3>2 DEF Exists
      <4> QED BY <1>t, <2>3, <2>5, <3>1, <4>1 DEF LoneTable
    <3> QED BY <2>3, <3>2 DEF LoneTable
  <2>8. LoneLedgers'
    <3> SUFFICES ASSUME Threshold > 0, NEW i \in Ids, Exists(i)', Newest(i)', origin'[i] = i
                 PROVE  Earned(rows'[i], usedIn'[i])
      BY DEF LoneLedgers
    <3>1. CASE i = n
      <4>1. r.ledger = <<>> /\ usedIn'[i] = {}
        BY <1>t, <2>2, <2>r, <2>4, <3>1 DEF RootsOK, FreshRow, EmptyRow, TypeOK
      <4> QED BY <2>3, <3>1, <4>1 DEF Earned
    <3>2. CASE i # n
      <4>1. Exists(i) /\ i < n /\ rows'[i] = rows[i]
        BY <2>3, <2>6, <3>2 DEF Exists
      <4> QED BY <1>t, <2>3, <2>4, <4>1 DEF LoneLedgers
    <3> QED BY <3>1, <3>2
  <2>9. LoneCall(c)'
    BY <2>4 DEF LoneCall
  <2> QED BY <2>7, <2>8, <2>9, TheOneCall
<1>2. ASSUME NEW c \in Clients,
             \/ \E kind \in RowKinds, i \in Ids : Begin(c, kind, i)
             \/ WalkMissing(c) \/ BatchDone(c) \/ Abort(c)
      PROVE  Goal
  <2>1. /\ UNCHANGED <<rows, nextId, origin, usedIn>> /\ op[c].pc # "archive"
        /\ \/ op'[c].pc = "idle"
           \/ op'[c].pc = "walk" /\ op'[c].seen = {}
    <3>1. ASSUME NEW kind \in RowKinds, NEW i \in Ids, Begin(c, kind, i)
          PROVE  op'[c].pc = "walk" /\ op'[c].seen = {}
      BY <1>t, <3>1 DEF Begin, NoOp, TypeOK
    <3>2. Return(c) => op'[c].pc = "idle"
      BY <1>t DEF Return, NoOp, TypeOK
    <3> QED
      BY <1>2, <3>1, <3>2 DEF Begin, MayCall, WalkMissing, BatchDone, Abort, LoneCaller
  <2>2. LoneCall(c)'
    BY <2>1 DEF LoneCall
  <2> QED BY <1>s, <2>1, <2>2 DEF ShapeKept, LedgerKept, Exists
<1>3. ASSUME NEW c \in Clients, WalkHop(c)
      PROVE  Goal
  <2>1. op[c] \in RowCall /\ RowCallOK(c) /\ LoneCall(c)
    BY <1>t, <1>3, CallShape DEF WalkHop, CallsOK, CallOK, LoneOK
  <2>2. PICK i \in Ids : i = op[c].cur
    BY <2>1 DEF RowCall
  <2>n. PICK n : n = rows[i].next
    OBVIOUS
  <2>3. n \in Ids /\ i < n
    BY <1>t, <1>3, <2>2, <2>n DEF WalkHop, Follows, TableOK, CopyOK, ForwardFrom, TypeOK, Tables, Row,
       Exists, NoId
  <2>4. PICK seen \in SUBSET Ids : seen = op[c].seen
    BY <2>1 DEF RowCall
  <2>5. op'[c].pc = "walk" /\ op'[c].cur = n /\ op'[c].seen = seen \cup {i}
    BY <1>t, <1>3, <2>1, <2>2, <2>n, <2>4 DEF WalkHop, TypeOK, RowCall
  <2>6. \A j \in seen : j < i
    BY <1>3, <2>1, <2>2, <2>4 DEF LoneCall, WalkHop
  <2>7. LoneCall(c)'
    BY <2>2, <2>3, <2>4, <2>5, <2>6 DEF LoneCall, Ids
  <2>8. UNCHANGED <<rows, nextId, origin, usedIn>> /\ op[c].pc # "archive"
    BY <1>3 DEF WalkHop
  <2> QED BY <1>s, <2>7, <2>8 DEF ShapeKept, LedgerKept, Exists
<1>4. ASSUME NEW c \in Clients, WalkEnd(c)
      PROVE  Goal
  <2>1. op[c] \in RowCall
    BY <1>t, <1>4, CallShape DEF WalkEnd
  <2>2. PICK i \in Ids : i = op[c].cur /\ Newest(i) /\ Exists(i)
    BY <1>4, <2>1, WalkEndsAtNewest DEF WalkEnd, RowCall
  <2>3. /\ op'[c].pc \in {"add", "delete", "write"} /\ op'[c].cur = i
        /\ op'[c].snap = rows[i]
    BY <1>t, <1>4, <2>1, <2>2 DEF WalkEnd, AfterWalk, TypeOK, RowCall
  <2>4. UNCHANGED <<rows, nextId, origin, usedIn>> /\ op[c].pc # "archive"
    BY <1>4 DEF WalkEnd
  <2>5. LoneCall(c)'
    BY <2>2, <2>3, <2>4 DEF LoneCall, Exists, Newest
  <2> QED BY <1>s, <2>4, <2>5 DEF ShapeKept, LedgerKept, Exists
<1>5. ASSUME NEW c \in Clients, SupersedeAdd(c)
      PROVE  Goal
  <2>1. op[c] \in RowCall /\ RowCallOK(c) /\ LoneCall(c)
    BY <1>t, <1>5, CallShape DEF SupersedeAdd, CallsOK, CallOK, LoneOK
  <2>2. PICK k \in Ids, s \in Row :
           k = op[c].cur /\ s = op[c].snap /\ k < nextId /\ Exists(k) /\ s = rows[k] /\ Newest(k)
    BY <1>5, <2>1 DEF RowCall, RowCallOK, LoneCall, SupersedeAdd
  <2>3. PICK r : TableAdd(r, origin[k])
    BY <1>5, <2>2 DEF SupersedeAdd
  <2>a. PICK n \in Ids : n = nextId
    BY <1>t, <2>3 DEF TableAdd, TypeOK, Ids
  <2>4. \A i \in Ids :
           /\ i # n => rows'[i] = rows[i] /\ origin'[i] = origin[i]
           /\ i = n => rows'[i] = r /\ origin'[i] = origin[k] /\ Newest(i)'
           /\ i < n => (Newest(i)' <=> Newest(i) /\ origin[i] # origin[k])
           /\ i > n => ~Newest(i)'
    BY <1>t, <2>3, <2>a, AddedNewest
  <2>5. /\ op'[c].pc = "archive" /\ op'[c].cur = k /\ op'[c].snap = s
        /\ op[c].pc = "add" /\ UNCHANGED usedIn
    BY <1>t, <1>5, <2>1, <2>2 DEF SupersedeAdd, TypeOK, RowCall
  <2>6. \A i \in Ids : Exists(i) => i < n
    BY <1>t, <2>a DEF TableOK
  <2>7. LoneTable'
    <3>1. \A i \in Ids : ~Superseding(i)
      BY <2>5, NotSuperseding
    <3>2. Superseding(k)'
      BY <2>5 DEF Superseding
    <3>3. ASSUME NEW i \in Ids, Exists(i)', i # n
          PROVE  Newest(i)' \/ (Archived(rows'[i]) /\ rows'[i].next # NoId) \/ Superseding(i)'
      <4>1. Exists(i) /\ i < n /\ rows'[i] = rows[i]
        BY <2>4, <2>6, <3>3 DEF Exists
      <4>2. CASE Newest(i) /\ origin[i] = origin[k]
        BY <1>t, <2>2, <3>2, <4>2, OneNewest
      <4>3. CASE Newest(i) /\ origin[i] # origin[k]
        BY <2>4, <4>1, <4>3
      <4>4. CASE ~Newest(i)
        BY <1>t, <3>1, <4>1, <4>4 DEF LoneTable
      <4> QED BY <4>2, <4>3, <4>4
    <3> QED BY <2>4, <3>3 DEF LoneTable
  <2>8. LoneLedgers'
    <3> SUFFICES ASSUME Threshold > 0, NEW i \in Ids, Exists(i)', Newest(i)', origin'[i] = i
                 PROVE  Earned(rows'[i], usedIn'[i])
      BY DEF LoneLedgers
    <3>1. i # n
      BY <1>t, <2>2, <2>a, <2>4 DEF RootsOK, Ids
    <3>2. Exists(i) /\ i < n /\ rows'[i] = rows[i]
      BY <2>4, <2>6, <3>1 DEF Exists
    <3> QED BY <1>t, <2>4, <2>5, <3>2 DEF LoneLedgers
  <2>9. LoneCall(c)'
    <3>1. k # n /\ rows'[k] = rows[k]
      BY <2>2, <2>a, <2>4, <2>6
    <3> QED BY <2>2, <2>5, <3>1 DEF LoneCall, Exists
  <2> QED BY <2>7, <2>8, <2>9, TheOneCall
<1>6. ASSUME NEW c \in Clients, SupersedeArchive(c)
      PROVE  Goal
  <2>1. op[c] \in RowCall /\ RowCallOK(c) /\ LoneCall(c)
    BY <1>t, <1>6, CallShape DEF SupersedeArchive, CallsOK, CallOK, LoneOK
  <2>2. PICK k \in Ids, r \in Row, t \in Nat, new \in Ids :
           /\ k = op[c].cur /\ r = op[c].snap /\ t = op[c].at /\ new = op[c].new
           /\ k < nextId /\ r = rows[k] /\ Exists(k)
    BY <1>6, <2>1 DEF RowCall, RowCallOK, LoneCall, SupersedeArchive, NoId, Ids
  <2>3. PICK a \in Row : /\ a = ArchivedVersion(r, t, new) /\ a.next = new
                          /\ a.state = "archived"
                          /\ a.cross = r.cross /\ a.ledger = r.ledger
    <3>1. ArchivedVersion(r, t, new) \in Row
      BY ArchivedVersionType
    <3> QED BY <3>1 DEF ArchivedVersion, Row
  <2>4. rows'[k] = a /\ \A i \in Ids \ {k} : rows'[i] = rows[i]
    BY <1>6, <1>t, <2>2, <2>3 DEF SupersedeArchive, TableUpdate, TypeOK, Tables
  <2>5. UNCHANGED <<nextId, origin, usedIn>> /\ op'[c].pc = "idle"
    BY <1>6, <1>t DEF SupersedeArchive, Return, NoOp, TypeOK
  <2>6. LoneTable'
    <3>1. \A i \in Ids : Newest(i)' <=> Newest(i)
      BY <2>5 DEF Newest
    <3>2. Archived(rows'[k]) /\ rows'[k].next # NoId
      BY <2>3, <2>4 DEF Archived, NoId, Ids
    <3>3. \A i \in Ids \ {k} : ~Superseding(i)
      BY <2>2 DEF Superseding, LoneCaller
    <3> QED BY <1>t, <2>4, <3>1, <3>2, <3>3 DEF LoneTable, Exists
  <2>7. LoneLedgers'
    <3>1. \A i \in Ids : LedgerKept(i)
      BY <2>2, <2>3, <2>4 DEF LedgerKept, Exists
    <3> QED BY <1>t, <2>5, <3>1, LedgersStay
  <2>8. LoneCall(c)'
    BY <2>5 DEF LoneCall
  <2> QED BY <2>6, <2>7, <2>8, TheOneCall
<1>7. ASSUME NEW c \in Clients, UpdateWrite(c) \/ RetireWrite(c)
      PROVE  Goal
  <2>1. op[c] \in RowCall /\ LoneCall(c)
    BY <1>7, CallShape, <1>t DEF UpdateWrite, RetireWrite, LoneOK
  <2>2. PICK k \in Ids, r \in Row : k = op[c].cur /\ r = op[c].snap /\ r = rows[k] /\ Exists(k)
    BY <1>7, <2>1 DEF RowCall, LoneCall, UpdateWrite, RetireWrite
  <2>3. PICK a \in Row : /\ TableUpdate(k, a) /\ a.next = r.next
                          /\ a.cross = r.cross /\ a.ledger = r.ledger
                          /\ a.state \in {r.state, "archived"}
    <3>1. [r EXCEPT !.state = "archived"] \in Row
      BY DEF Row
    <3> QED BY <1>7, <2>2, <3>1 DEF UpdateWrite, RetireWrite, Row
  <2>4. rows'[k] = a /\ \A i \in Ids \ {k} : rows'[i] = rows[i]
    <3>1. rows' = [rows EXCEPT ![k] = a]
      BY <2>2, <2>3 DEF TableUpdate
    <3> QED BY <1>t, <3>1 DEF TypeOK, Tables
  <2>5. /\ UNCHANGED <<nextId, origin, usedIn>> /\ op'[c].pc = "idle"
        /\ op[c].pc # "archive"
    BY <1>7, <1>t DEF UpdateWrite, RetireWrite, Return, NoOp, TypeOK
  <2>6. \A i \in Ids : ShapeKept(i) /\ LedgerKept(i)
    <3>1. ShapeKept(k) /\ LedgerKept(k)
      BY <2>2, <2>3, <2>4 DEF ShapeKept, LedgerKept, Archived
    <3>2. \A i \in Ids \ {k} : ShapeKept(i) /\ LedgerKept(i)
      BY <2>4 DEF ShapeKept, LedgerKept, Exists
    <3> QED BY <3>1, <3>2
  <2>7. LoneCall(c)'
    BY <2>5 DEF LoneCall
  <2> QED BY <1>s, <2>5, <2>6, <2>7
<1>8. ASSUME NEW c \in Clients, ForgetDelete(c)
      PROVE  Goal
  <2>1. \A i \in Ids : rows'[i] = rows[i] \/ rows'[i] = NoRow
    BY <1>t, <1>8 DEF ForgetDelete, TableDelete, TypeOK, Tables
  <2>2. /\ UNCHANGED <<nextId, origin, usedIn>> /\ op'[c].pc = "idle"
        /\ op[c].pc # "archive"
    BY <1>8, <1>t DEF ForgetDelete, Return, NoOp, TypeOK
  <2>3. LoneCall(c)'
    BY <2>2 DEF LoneCall
  <2> QED BY <1>s, <2>1, <2>2, <2>3 DEF ShapeKept, LedgerKept, Exists
<1>9. ASSUME NEW c \in Clients, MarkRead(c) \/ PurgeArchivedScan(c) \/ PurgeExpiredScan(c)
      PROVE  Goal
  <2>1. ASSUME NEW kind, NEW doomed, PurgeScan(c, kind, doomed)
        PROVE  /\ op'[c].pc = "batch"
               /\ \A i \in Ids : op'[c].batch[i] \in {rows[i], NoRow}
    <3> DEFINE v == [NoOp EXCEPT !.kind = kind, !.pc = "batch",
                       !.batch = [i \in Ids |-> IF i \in doomed THEN rows[i] ELSE NoRow]]
    <3>1. op'[c] = v
      BY <1>t, <2>1 DEF PurgeScan, TypeOK
    <3> QED BY <3>1 DEF NoOp
  <2>2. ASSUME MarkRead(c)
        PROVE  /\ op'[c].pc = "batch"
               /\ \A i \in Ids : op'[c].batch[i] \in {rows[i], NoRow}
    <3>1. PICK ids, s :
             op' = [op EXCEPT ![c] =
                      [NoOp EXCEPT !.kind = "mark", !.pc = "batch", !.session = s,
                         !.at = clock,
                         !.batch = [i \in Ids |-> IF i \in ids THEN rows[i] ELSE NoRow]]]
      BY <2>2 DEF MarkRead
    <3> DEFINE v == [NoOp EXCEPT !.kind = "mark", !.pc = "batch", !.session = s, !.at = clock,
                       !.batch = [i \in Ids |-> IF i \in ids THEN rows[i] ELSE NoRow]]
    <3>2. op'[c] = v
      BY <1>t, <3>1 DEF TypeOK
    <3> QED BY <3>2 DEF NoOp
  <2>3. UNCHANGED <<rows, nextId, origin, usedIn>> /\ op[c].pc # "archive"
    BY <1>9 DEF MarkRead, PurgeArchivedScan, PurgeExpiredScan, PurgeScan, MayCall
  <2>4. LoneCall(c)'
    BY <1>9, <2>1, <2>2, <2>3 DEF LoneCall, PurgeArchivedScan, PurgeExpiredScan
  <2> QED BY <1>s, <2>3, <2>4 DEF ShapeKept, LedgerKept, Exists
<1>10. ASSUME NEW c \in Clients, MarkWrite(c)
      PROVE  Goal
  <2>1. op[c] \in MarkCall /\ LoneCall(c) /\ BatchOK(c)
    BY <1>10, CallShape, <1>t DEF MarkWrite, LoneOK, CallsOK, CallOK
  <2>2. PICK s \in Sessions, t \in Nat, batch \in Tables :
           s = op[c].session /\ t = op[c].at /\ batch = op[c].batch
    BY <2>1 DEF MarkCall, BatchCall
  <2>3. PICK k \in Ids, r \in Row :
           /\ r = batch[k] /\ r = rows[k] /\ k < nextId /\ Exists(k)
           /\ TableUpdate(k, Marked(r, s, t))
           /\ usedIn' = [usedIn EXCEPT ![origin[k]] = @ \cup {s}]
           /\ op' = [op EXCEPT ![c].batch[k] = NoRow]
    <3>1. PICK k \in Ids :
             /\ batch[k] # NoRow
             /\ TableUpdate(k, Marked(batch[k], s, t))
             /\ usedIn' = IF Exists(k) THEN [usedIn EXCEPT ![origin[k]] = @ \cup {s}] ELSE usedIn
             /\ op' = [op EXCEPT ![c].batch[k] = NoRow]
      BY <1>10, <2>2 DEF MarkWrite, LoneCaller
    <3>2. batch[k] \in Row /\ batch[k] = rows[k] /\ k < nextId
      BY <1>10, <2>1, <2>2, <3>1 DEF LoneCall, BatchOK, MarkWrite, Tables
    <3> QED BY <3>1, <3>2 DEF Exists
  <2>4. PICK m \in Row : m = Marked(r, s, t) /\ m.state = r.state /\ m.next = r.next
    BY MarkedType
  <2>5. rows'[k] = m /\ \A i \in Ids \ {k} : rows'[i] = rows[i]
    BY <1>t, <2>3, <2>4 DEF TableUpdate, TypeOK, Tables
  <2>6. UNCHANGED <<nextId, origin>> /\ op[c].pc # "archive"
    BY <1>10 DEF MarkWrite
  <2>7. LoneTable'
    <3>1. \A i \in Ids : ShapeKept(i)
      BY <2>3, <2>4, <2>5 DEF ShapeKept, Exists, Archived
    <3>2. \A i \in Ids : ~Superseding(i)
      BY <2>6, NotSuperseding
    <3> QED BY <1>t, <2>6, <3>1, <3>2, TableStays
  <2>8. LoneLedgers'
    <3> SUFFICES ASSUME Threshold > 0, NEW i \in Ids, Exists(i)', Newest(i)', origin'[i] = i
                 PROVE  Earned(rows'[i], usedIn'[i])
      BY DEF LoneLedgers
    <3>1. Newest(i) /\ origin[i] = i
      BY <2>6 DEF Newest
    <3>2. CASE i = k
      <4>1. Earned(r, usedIn[i]) /\ usedIn'[i] = usedIn[i] \cup {s}
        BY <1>t, <2>3, <3>1, <3>2 DEF LoneLedgers, TypeOK
      <4>2. PICK used : used = usedIn[i]
        OBVIOUS
      <4>3. Earned(Marked(r, s, t), used \cup {s})
        BY <4>1, <4>2, MarkEarned
      <4> QED BY <2>4, <2>5, <3>2, <4>1, <4>2, <4>3
    <3>3. CASE i # k
      <4>1. origin[k] # i
        BY <1>t, <2>3, <3>1, <3>3 DEF RootsOK, Newest, Ids, TypeOK
      <4>2. usedIn'[i] = usedIn[i] /\ rows'[i] = rows[i]
        BY <1>t, <2>3, <2>5, <3>3, <4>1 DEF TypeOK
      <4> QED BY <1>t, <3>1, <4>2 DEF LoneLedgers, Exists
    <3> QED BY <3>2, <3>3
  <2>9. LoneCall(c)'
    <3>1. /\ op'[c].pc = "batch" /\ op'[c].batch[k] = NoRow
          /\ \A i \in Ids \ {k} : op'[c].batch[i] = batch[i]
      BY <1>t, <1>10, <2>1, <2>2, <2>3 DEF MarkWrite, TypeOK, MarkCall, BatchCall, Tables
    <3>2. \A i \in Ids : batch[i] # NoRow => batch[i] = rows[i]
      BY <1>10, <2>1, <2>2 DEF MarkWrite, LoneCall
    <3> QED BY <2>5, <3>1, <3>2 DEF LoneCall
  <2> QED BY <2>7, <2>8, <2>9, TheOneCall
<1>11. ASSUME NEW c \in Clients, PurgeDelete(c)
      PROVE  Goal
  <2>1. op[c] \in PurgeCall /\ LoneCall(c)
    BY <1>11, CallShape, <1>t DEF PurgeDelete, LoneOK
  <2>2. PICK batch \in Tables : batch = op[c].batch
    BY <2>1 DEF PurgeCall, BatchCall
  <2>3. PICK k \in Ids : TableDelete(k) /\ op' = [op EXCEPT ![c].batch[k] = NoRow]
    BY <1>11 DEF PurgeDelete
  <2>4. rows'[k] = NoRow /\ \A i \in Ids \ {k} : rows'[i] = rows[i]
    BY <1>t, <2>3 DEF TableDelete, TypeOK, Tables
  <2>5. UNCHANGED <<nextId, origin, usedIn>> /\ op[c].pc # "archive"
    BY <1>11 DEF PurgeDelete
  <2>6. \A i \in Ids : ShapeKept(i) /\ LedgerKept(i)
    BY <2>4 DEF ShapeKept, LedgerKept, Exists
  <2>7. LoneCall(c)'
    <3>1. /\ op'[c].pc = "batch" /\ op'[c].batch[k] = NoRow
          /\ \A i \in Ids \ {k} : op'[c].batch[i] = batch[i]
      BY <1>t, <1>11, <2>1, <2>2, <2>3 DEF PurgeDelete, TypeOK, PurgeCall, BatchCall, Tables
    <3>2. \A i \in Ids : batch[i] # NoRow => batch[i] = rows[i]
      BY <1>11, <2>1, <2>2 DEF PurgeDelete, LoneCall
    <3> QED BY <2>4, <3>1, <3>2 DEF LoneCall
  <2> QED BY <1>s, <2>5, <2>6, <2>7
<1>12. CASE Tick \/ UNCHANGED vars
  <2>1. UNCHANGED <<rows, nextId, op, origin, usedIn>>
    BY <1>12 DEF Tick, vars
  <2>2. LoneTable' /\ LoneLedgers'
    BY <1>t, <2>1, TableStays, LedgersStay DEF ShapeKept, LedgerKept, Exists, Superseding
  <2>3. \A c \in Clients : LoneCall(c) => LoneCall(c)'
    BY <2>1 DEF LoneCall, Exists, Newest
  <2> QED BY <2>2, <2>3 DEF LoneOK
<1>13. ASSUME NEW c \in Clients, IncrementWrite(c)
      PROVE  Goal
  <2>1. RowCallOK(c)
    BY <1>t, <1>13 DEF CallsOK, CallOK, IncrementWrite
  <2> QED BY <1>13, <2>1 DEF LoneCaller, RowCallOK, IncrementWrite
<1> QED
  BY <1>1, <1>2, <1>3, <1>4, <1>5, <1>6, <1>7, <1>8, <1>9, <1>10, <1>11, <1>12, <1>13
     DEF Next, Step

LEMMA LoneInit == Init => LoneOK
<1> SUFFICES ASSUME Init PROVE LoneOK
  OBVIOUS
<1>1. RootsOK
  BY DEF Init, RootsOK, Ids
<1>2. LoneTable /\ LoneLedgers /\ \A c \in Clients : LoneCall(c)
  BY DEF Init, LoneTable, LoneLedgers, LoneCall, Exists, NoBatch, NoOp
<1> QED BY <1>1, <1>2 DEF LoneOK

LEMMA LoneAlways == ASSUME LoneCaller PROVE Spec => [](IInv /\ HonestOK /\ LoneOK)
<1>1. IInv /\ LoneOK /\ [Next]_vars => LoneOK'
  BY LoneStep
<1> QED BY <1>1, LoneInit, HonestAlways, PTL DEF Spec

(* What "superseded" is for: a lone caller that is not interrupted finds,   *)
(* between two of its calls, no old version of a memory visible beside the  *)
(* new one, and the newest unless it gave the memory up.                    *)
THEOREM OneVersionShows == ASSUME LoneCaller PROVE Spec => []OneVisibleVersion
<1>1. IInv /\ LoneOK => OneVisibleVersion
  <2> SUFFICES ASSUME IInv, LoneOK, Quiet, NEW l
               PROVE  /\ Cardinality(VisibleVersions(l)) <= 1
                      /\ l \notin gone =>
                            VisibleVersions(l) = {i \in Versions(l) : Newest(i)}
    BY DEF OneVisibleVersion
  <2>1. ASSUME NEW i \in VisibleVersions(l)
        PROVE  i \in Ids /\ origin[i] = l /\ Newest(i)
    BY <2>1 DEF VisibleVersions, Versions, Created, Live, LoneOK, LoneTable, Superseding, Quiet
  <2>2. Cardinality(VisibleVersions(l)) <= 1
    <3>1. CASE VisibleVersions(l) = {}
      BY <3>1, FS_EmptySet
    <3>2. ASSUME NEW i \in VisibleVersions(l)
          PROVE  Cardinality(VisibleVersions(l)) <= 1
      <4>1. VisibleVersions(l) = {i}
        BY <2>1, <3>2, OneNewest DEF IInv
      <4>2. Cardinality({i}) = 1
        BY FS_Singleton
      <4> QED BY <4>1, <4>2
    <3> QED BY <3>1, <3>2
  <2>3. NewestSurvives
    BY DEF IInv, TableOK, CopyOK, NewestSurvives, Newest, MayArchive, MayVanish, Overtaken,
       Created, Live
  <2>4. ASSUME l \notin gone, NEW i \in Versions(l), Newest(i)
        PROVE  i \in VisibleVersions(l)
    BY <2>3, <2>4 DEF VisibleVersions, Versions, NewestSurvives
  <2> QED BY <2>1, <2>2, <2>4 DEF VisibleVersions
<1>2. Spec => [](IInv /\ HonestOK /\ LoneOK)
  BY LoneAlways
<1> QED BY <1>1, <1>2, PTL

(* What a memory that is archived stays: a lone caller shows no archived    *)
(* row again.                                                               *)
THEOREM ArchivedRowsStayHidden == ASSUME LoneCaller PROVE Spec => ArchivedStaysHidden
<1> DEFINE Hidden == \A i \in Ids : Exists(i) /\ Archived(rows[i]) /\ rows'[i] # NoRow
                       => Archived(rows'[i])
<1>1. ASSUME IInv, LoneOK, [Next]_vars PROVE Hidden
  <2>1. ASSUME \A i \in Ids : rows'[i] # NoRow => rows'[i] = rows[i] \/ ~Exists(i)
        PROVE  Hidden
    BY <2>1
  <2>2. ASSUME NEW c \in Clients, Store(c) \/ SupersedeAdd(c) PROVE Hidden
    <3>1. PICK r, root : TableAdd(r, root)
      BY <2>2 DEF Store, SupersedeAdd
    <3> QED
      BY <1>1, <3>1, AddedNewest DEF IInv, TypeOK, TableOK, LoneOK, Ids
  <2>3. ASSUME NEW c \in Clients, SupersedeArchive(c) \/ UpdateWrite(c) \/ RetireWrite(c)
        PROVE  Hidden
    <3>1. op[c] \in RowCall /\ LoneCall(c)
      BY <1>1, <2>3, CallShape DEF IInv, LoneOK, SupersedeArchive, UpdateWrite, RetireWrite
    <3>2. PICK k \in Ids, r \in Row :
             k = op[c].cur /\ r = op[c].snap /\ r = rows[k]
      BY <2>3, <3>1 DEF RowCall, LoneCall, SupersedeArchive, UpdateWrite, RetireWrite
    <3>3. PICK a : TableUpdate(k, a) /\ a.state \in {r.state, "archived"}
      <4>1. ASSUME NEW t, NEW new
            PROVE  ArchivedVersion(r, t, new).state = "archived"
        BY DEF ArchivedVersion, Row
      <4>2. [r EXCEPT !.state = "archived"].state = "archived"
        BY DEF Row
      <4> QED BY <2>3, <3>2, <4>1, <4>2 DEF SupersedeArchive, UpdateWrite, RetireWrite
    <3>4. \A i \in Ids : rows'[i] = rows[i] \/ (i = k /\ rows'[i] = a)
      BY <1>1, <3>3 DEF TableUpdate, IInv, TypeOK, Tables
    <3> QED BY <3>2, <3>3, <3>4 DEF Archived
  <2>4. ASSUME NEW c \in Clients, MarkWrite(c) PROVE Hidden
    <3>1. op[c] \in MarkCall /\ LoneCall(c)
      BY <1>1, <2>4, CallShape DEF IInv, LoneOK, MarkWrite
    <3>2. PICK s \in Sessions, t \in Nat, batch \in Tables :
             s = op[c].session /\ t = op[c].at /\ batch = op[c].batch
      BY <3>1 DEF MarkCall, BatchCall
    <3>3. PICK k \in Ids : /\ batch[k] # NoRow
                           /\ TableUpdate(k, Marked(batch[k], s, t)) \/ UNCHANGED rows
      BY <2>4, <3>2 DEF MarkWrite
    <3>4. batch[k] \in Row /\ batch[k] = rows[k]
      BY <2>4, <3>1, <3>2, <3>3 DEF LoneCall, MarkWrite, Tables
    <3>5. PICK a : a = Marked(batch[k], s, t) /\ a.state = rows[k].state
      BY <3>4, MarkedType
    <3>6. \A i \in Ids : rows'[i] = rows[i] \/ (i = k /\ rows'[i] = a)
      BY <1>1, <3>3, <3>5 DEF TableUpdate, IInv, TypeOK, Tables
    <3> QED BY <3>5, <3>6 DEF Archived
  <2>5. ASSUME NEW c \in Clients, IncrementWrite(c) PROVE FALSE
    <3>1. RowCallOK(c)
      BY <1>1, <2>5 DEF IInv, CallsOK, CallOK, IncrementWrite
    <3> QED BY <2>5, <3>1 DEF LoneCaller, RowCallOK, IncrementWrite
  <2>6. ASSUME NEW c \in Clients, ForgetDelete(c) \/ PurgeDelete(c) PROVE Hidden
    <3>1. PICK i : TableDelete(i)
      BY <2>6 DEF ForgetDelete, PurgeDelete
    <3> QED BY <1>1, <3>1 DEF TableDelete, IInv, TypeOK, Tables
  <2>7. CASE UNCHANGED rows
    BY <2>7
  <2> QED
    <3>1. ASSUME NEW c \in Clients, Step(c)
          PROVE  \/ Store(c) \/ SupersedeAdd(c) \/ SupersedeArchive(c) \/ UpdateWrite(c)
                 \/ RetireWrite(c) \/ MarkWrite(c) \/ IncrementWrite(c) \/ ForgetDelete(c)
                 \/ PurgeDelete(c) \/ UNCHANGED rows
      BY <3>1 DEF Step, Begin, WalkMissing, WalkHop, WalkEnd, MarkRead, PurgeArchivedScan,
         PurgeExpiredScan, PurgeScan, BatchDone, Abort
    <3> QED
      BY <1>1, <2>2, <2>3, <2>4, <2>5, <2>6, <2>7, <3>1 DEF Next, Tick, vars
<1>2. Spec => [](IInv /\ HonestOK /\ LoneOK)
  BY LoneAlways
<1>3. IInv /\ HonestOK /\ LoneOK /\ [Next]_vars => [Hidden]_vars
  BY <1>1
<1> QED BY <1>2, <1>3, PTL DEF Spec, ArchivedStaysHidden

(* A set whose members all stand in a ledger is no larger than it.          *)
LEMMA CountInLedger ==
  ASSUME NEW q \in Seq(Sessions), NEW used, \A s \in used : \E k \in 1 .. Len(q) : q[k] = s
  PROVE  Cardinality(used) <= Len(q)
<1> DEFINE f == [s \in used |-> CHOOSE k \in 1 .. Len(q) : q[k] = s]
<1>1. Len(q) \in Nat
  OBVIOUS
<1>2. \A s \in used : f[s] \in 1 .. Len(q) /\ q[f[s]] = s
  OBVIOUS
<1>3. f \in [used -> 1 .. Len(q)]
  BY <1>2
<1>4. \A s, u \in used : f[s] = f[u] => s = u
  BY <1>2
<1> HIDE DEF f
<1>5. f \in Injection(used, 1 .. Len(q))
  BY <1>3, <1>4 DEF Injection, IsInjective
<1>6. IsFiniteSet(1 .. Len(q)) /\ Cardinality(1 .. Len(q)) = Len(q)
  BY <1>1, FS_Interval
<1>7. Cardinality(used) <= Cardinality(1 .. Len(q))
  BY <1>5, <1>6, FS_Injection
<1> QED BY <1>6, <1>7

(* A lone caller's marks are all credited while the memory has one version: *)
(* it is promoted as soon as Threshold distinct sessions used it (a         *)
(* threshold of 0 turns promotion off).                                     *)
THEOREM PromotionsCome ==
    ASSUME LoneCaller, Threshold > 0 PROVE Spec => []PromotedWhenEarned
<1>1. IInv /\ HonestOK /\ LoneOK => PromotedWhenEarned
  <2> SUFFICES ASSUME IInv, HonestOK, LoneOK, NEW i \in Created, Live(i),
                      Versions(origin[i]) = {i}, Cardinality(usedIn[i]) >= Threshold
               PROVE  rows[i].cross
    BY DEF PromotedWhenEarned
  <2>1. i \in Ids /\ i < nextId /\ Exists(i) /\ rows[i] \in Row
    BY DEF Created, Live, Exists, IInv, TypeOK, Tables
  <2>2. origin[i] \in 1 .. i /\ origin[origin[i]] = origin[i]
    BY <2>1 DEF LoneOK, RootsOK
  <2>3. origin[i] = i
    <3>1. origin[i] \in Versions(origin[i])
      BY <2>1, <2>2, BoundsAssumption DEF Versions, Created, Ids, IInv, TypeOK
    <3> QED BY <3>1
  <2>4. Newest(i)
    <3>1. \A j \in Ids : j < nextId /\ origin[j] = origin[i] => j = i
      BY DEF Versions, Created
    <3> QED BY <2>1, <3>1 DEF Newest, Ids
  <2>5. Earned(rows[i], usedIn[i])
    BY <2>1, <2>3, <2>4 DEF LoneOK, LoneLedgers
  <2>6. SUFFICES ASSUME ~rows[i].cross PROVE FALSE
    OBVIOUS
  <2>7. PICK q \in Seq(Sessions) : q = rows[i].ledger
    BY <2>1 DEF Row
  <2>8. PICK used : used = usedIn[i] /\ IsFiniteSet(used)
    BY <2>1 DEF HonestOK, HistoryOK
  <2>9. Len(q) < Threshold /\ \A s \in used : \E k \in 1 .. Len(q) : q[k] = s
    BY <2>5, <2>6, <2>7, <2>8 DEF Earned, InLedger
  <2>10. Cardinality(used) <= Len(q)
    BY <2>9, CountInLedger
  <2> QED
    <3>1. Len(q) \in Nat /\ Cardinality(used) \in Nat /\ Cardinality(used) >= Threshold
      BY <2>8, FS_CardinalityType
    <3> QED BY <2>9, <2>10, <3>1, BoundsAssumption
<1>2. Spec => [](IInv /\ HonestOK /\ LoneOK)
  BY LoneAlways
<1> QED BY <1>1, <1>2, PTL

(* forget is for good, whichever version's id it is called with: a lone     *)
(* caller sees no version of the memory afterwards, and no later call adds  *)
(* one to a memory whose newest version was deleted.                        *)
THEOREM ForgettingLasts == ASSUME LoneCaller PROVE Spec => ForgottenStaysForgotten
<1> DEFINE NoneLeft == \A c \in Clients : op[c].pc = "delete" /\ op'[c].pc = "idle"
                         => \A j \in Versions(origin[op[c].cur]) :
                               rows'[j] = NoRow \/ Archived(rows'[j])
           NoneAdded == \A i \in Created : Newest(i) /\ ~Exists(i)
                          => \A j \in Ids \ Created : origin'[j] # origin[i]
<1>1. ASSUME IInv, LoneOK, [Next]_vars PROVE NoneLeft
  <2> SUFFICES ASSUME NEW c \in Clients, op[c].pc = "delete", op'[c].pc = "idle",
                      NEW j \in Versions(origin[op[c].cur])
               PROVE  rows'[j] = NoRow \/ Archived(rows'[j])
    OBVIOUS
  <2>1. op[c] \in RowCall /\ LoneCall(c)
    BY <1>1, CallShape DEF IInv, LoneOK
  <2>2. PICK k \in Ids : k = op[c].cur /\ Newest(k)
    BY <2>1 DEF RowCall, LoneCall
  <2>3. ForgetDelete(c)
    <3>1. ASSUME NEW d \in Clients, Step(d) PROVE ForgetDelete(c)
      <4>1. d = c
        BY DEF LoneCaller
      <4> QED
        BY <3>1, <4>1 DEF LoneCaller, Step, Store, Begin, MayCall, WalkMissing, WalkHop, WalkEnd,
           SupersedeAdd, SupersedeArchive, UpdateWrite, RetireWrite, IncrementWrite, MarkRead,
           MarkWrite, PurgeArchivedScan, PurgeExpiredScan, PurgeScan, PurgeDelete, BatchDone,
           Abort
    <3> QED BY <1>1, <3>1 DEF Next, Tick, vars
  <2>4. rows'[k] = NoRow /\ \A i \in Ids \ {k} : rows'[i] = rows[i]
    BY <1>1, <2>2, <2>3 DEF ForgetDelete, TableDelete, IInv, TypeOK, Tables
  <2>5. j \in Ids /\ j < nextId /\ origin[j] = origin[k]
    BY <2>2 DEF Versions, Created
  <2>6. CASE j = k
    BY <2>4, <2>6
  <2>7. CASE j # k /\ Exists(j)
    <3>1. ~Newest(j)
      BY <1>1, <2>2, <2>5, <2>7, OneNewest DEF IInv
    <3>2. ~Superseding(j)
      BY <2>5, NotSuperseding
    <3>3. Archived(rows[j])
      BY <1>1, <2>5, <2>7, <3>1, <3>2 DEF LoneOK, LoneTable
    <3> QED BY <2>4, <2>5, <2>7, <3>3
  <2>8. CASE j # k /\ ~Exists(j)
    BY <2>4, <2>5, <2>8 DEF Exists
  <2> QED BY <2>6, <2>7, <2>8
<1>2. ASSUME IInv, LoneOK, [Next]_vars PROVE NoneAdded
  <2> SUFFICES ASSUME NEW i \in Created, Newest(i), ~Exists(i), NEW j \in Ids \ Created
               PROVE  origin'[j] # origin[i]
    OBVIOUS
  <2>1. /\ i \in Ids /\ j \in Ids /\ i < nextId /\ j >= nextId
        /\ origin[i] \in 1 .. i /\ origin[j] = NoId
    BY <1>2 DEF Created, LoneOK, RootsOK, IInv, TypeOK, Ids
  <2>2. origin[j] # origin[i] /\ origin[i] # nextId
    BY <1>2, <2>1 DEF NoId, Ids, IInv, TypeOK
  <2>3. ASSUME NEW r, NEW root, TableAdd(r, root), root # origin[i]
        PROVE  origin'[j] # origin[i]
    BY <1>2, <2>1, <2>2, <2>3, AddedNewest DEF IInv, LoneOK
  <2>4. ASSUME NEW c \in Clients, Store(c) PROVE origin'[j] # origin[i]
    BY <2>2, <2>3, <2>4 DEF Store
  <2>5. ASSUME NEW c \in Clients, SupersedeAdd(c) PROVE origin'[j] # origin[i]
    <3>1. op[c] \in RowCall /\ LoneCall(c)
      BY <1>2, <2>5, CallShape DEF IInv, LoneOK, SupersedeAdd
    <3>2. PICK k \in Ids : k = op[c].cur /\ Newest(k) /\ Exists(k)
      BY <2>5, <3>1 DEF RowCall, LoneCall, SupersedeAdd
    <3>3. origin[k] # origin[i]
      BY <1>2, <2>1, <3>2, OneNewest DEF IInv
    <3> QED BY <2>3, <2>5, <3>2, <3>3 DEF SupersedeAdd
  <2>6. CASE UNCHANGED origin
    BY <2>2, <2>6
  <2> QED
    <3>1. ASSUME NEW c \in Clients, Step(c)
          PROVE  Store(c) \/ SupersedeAdd(c) \/ UNCHANGED origin
      BY <3>1 DEF Step, Begin, WalkMissing, WalkHop, WalkEnd, SupersedeArchive, UpdateWrite,
         RetireWrite, ForgetDelete, IncrementWrite, MarkRead, MarkWrite, PurgeArchivedScan,
         PurgeExpiredScan, PurgeScan, PurgeDelete, BatchDone, Abort
    <3> QED BY <1>2, <2>4, <2>5, <2>6, <3>1 DEF Next, Tick, vars
<1>3. Spec => [](IInv /\ HonestOK /\ LoneOK)
  BY LoneAlways
<1>4. IInv /\ HonestOK /\ LoneOK /\ [Next]_vars => [NoneLeft /\ NoneAdded]_vars
  BY <1>1, <1>2
<1> QED BY <1>3, <1>4, PTL DEF Spec, ForgottenStaysForgotten
=============================================================================
