------------------------ MODULE SessionAnchorsProofs ------------------------
(***************************************************************************)
(* SessionAnchors, for every number of conversations, turns and rows: what *)
(* a conversation's anchors may rely on whatever the others do.            *)
(***************************************************************************)
EXTENDS SessionAnchors, FiniteSetTheorems, TLAPS

HostPlaces == {"idle", "c_check", "c_store", "r_list", "r_archive"}

TypeOK ==
    /\ setting \in Setting
    /\ rows \in [Ids -> Row \cup {NoRow}]
    /\ stored \in 0 .. MaxRows
    /\ conv \in [Providers -> Conversations] /\ convs \in Conversations
    /\ host \in [Providers -> [pc : HostPlaces, targets : SUBSET Ids]]
    /\ turn \in [Turns -> [pc : {"none", "check", "store", "done"}, conv : Conversations]]
    /\ turns \in 0 .. MaxTurns /\ last \in [Providers -> 0 .. MaxTurns]
    /\ ended \subseteq Conversations /\ covered \subseteq Providers

-----------------------------------------------------------------------------
(* What holds however late the threads are.                                  *)

(* A conversation id is handed out once; only a provider without a session    *)
(* id has none.                                                              *)
ConvsOK ==
    \A p \in Providers :
        /\ conv[p] <= convs
        /\ conv[p] = NoConv => p \in setting.anonymous
        /\ \A q \in Providers : conv[p] = conv[q] /\ conv[p] # NoConv => p = q

(* A reset goes for its own anchors.  A row's id is not used again.          *)
TargetsOK ==
    /\ \A i \in Ids : Exists(i) => i <= stored
    /\ \A p \in Providers : host[p].pc = "r_archive" =>
          \A i \in host[p].targets :
              i <= stored /\ (Exists(i) => OwnAnchor(rows[i], conv[p]))

-----------------------------------------------------------------------------
(* What holds while the flush really waits for the thread.                   *)

Running(t) == turn[t].pc \in {"check", "store"}

(* At most one provider has no conversation id.                              *)
FewAnonymous == \A s \in Settings : \A p, q \in s.anonymous : p = q

(* list_memories returns every live row.                                     *)
LongLists == MaxRows <= ListLimit /\ MaxRows <= FetchLimit

(* A running thread is its provider's last one, nothing else of which is     *)
(* going on, and keeps a conversation nobody else has.                       *)
RunnersOK ==
    /\ \A p, q \in setting.anonymous : p = q
    /\ \A p \in Providers : last[p] <= turns
    /\ \A t \in Turns : turn[t].pc = "none" <=> ~(t <= turns)
    /\ \A p \in Providers : host[p].pc # "idle" => \A t \in Turns : last[p] = t => ~Running(t)
    /\ \A t \in Turns : Running(t) =>
          /\ turn[t].conv <= convs
          /\ \E p \in Providers :
                /\ last[p] = t
                /\ turn[t].conv = NoConv => p \in setting.anonymous
                /\ \A q \in Providers : q # p => conv[q] # turn[t].conv
          /\ \A u \in Turns : Running(u) /\ turn[u].conv = turn[t].conv => u = t
    /\ \A p, q \in Providers : last[p] = last[q] /\ last[p] # NoTurn => p = q

(* Who is about to write an anchor has found none, and there is none.        *)
AnchorsOK ==
    /\ \A c \in Conversations : \A i, j \in AnchorsOf(c) : i = j
    /\ \A t \in Turns : turn[t].pc = "store" => AnchorsOf(turn[t].conv) = {}
    /\ \A p \in Providers : host[p].pc = "c_store" => AnchorsOf(conv[p]) = {}

(* A reset has all its anchors before it; an ended conversation is nobody's. *)
ResetsOK ==
    /\ \A p \in Providers : host[p].pc = "r_archive" => AnchorsOf(conv[p]) \subseteq host[p].targets
    /\ \A c \in ended :
          /\ c <= convs /\ AnchorsOf(c) = {}
          /\ \A p \in Providers : conv[p] # c
          /\ \A t \in Turns : Running(t) => turn[t].conv # c

InTime == ~setting.slow => RunnersOK /\ AnchorsOK /\ (~setting.faulty => ResetsOK)

IInv == TypeOK /\ ConvsOK /\ TargetsOK /\ RecoveryStays

-----------------------------------------------------------------------------
LEMMA Constants ==
    /\ MaxRows \in Nat /\ MaxTurns \in Nat /\ MaxConvs \in Nat
    /\ ListLimit \in Nat /\ FetchLimit \in Nat /\ Settings \subseteq Setting
BY AnchorsAssumption

LEMMA ProvidersNumbered ==
    Cardinality(Providers) \in 0 .. MaxConvs /\ Providers = 1 .. Cardinality(Providers)
<1>1. PICK n \in 0 .. MaxConvs : Providers = 1 .. n
  BY AnchorsAssumption
<1>2. Cardinality(1 .. n) = n
  BY <1>1, FS_Interval, Constants
<1> QED BY <1>1, <1>2

LEMMA RowIsNoNoRow == NoRow \notin Row
BY DEF NoRow, Row

LEMMA AnchorIsRow == ASSUME NEW c \in Conversations PROVE Anchor(c) \in Row /\ Anchor(c) # NoRow
<1>1. Anchor(c) \in Row
  BY DEF Anchor, Row
<1> QED BY <1>1, RowIsNoNoRow

LEMMA PinIsRow ==
    /\ [conv |-> NoConv, pin |-> TRUE, archived |-> FALSE] \in Row
    /\ [conv |-> NoConv, pin |-> TRUE, archived |-> FALSE] # NoRow
<1>1. [conv |-> NoConv, pin |-> TRUE, archived |-> FALSE] \in Row
  BY Constants DEF Row, Conversations, NoConv
<1> QED BY <1>1, RowIsNoNoRow

(* What storing a row does.                                                  *)
LEMMA Stored ==
    ASSUME TypeOK, NEW r \in Row, StoreRow(r)
    PROVE  /\ rows' \in [Ids -> Row \cup {NoRow}] /\ stored' \in 0 .. MaxRows
           /\ \/ /\ stored' = stored + 1 /\ stored' \in Ids /\ rows'[stored'] = r
                 /\ \A i \in Ids : i # stored' => rows'[i] = rows[i]
              \/ setting.faulty /\ UNCHANGED <<rows, stored>>
<1>1. CASE /\ stored < MaxRows /\ stored' = stored + 1
           /\ rows' = [rows EXCEPT ![stored'] = r]
  <2>1. stored' \in Ids /\ stored' \in 0 .. MaxRows
    BY <1>1, Constants DEF TypeOK, Ids
  <2>2. rows \in [Ids -> Row \cup {NoRow}]
    BY DEF TypeOK
  <2> QED BY <1>1, <2>1, <2>2
<1>2. CASE setting.faulty /\ UNCHANGED <<rows, stored>>
  BY <1>2 DEF TypeOK
<1> QED BY <1>1, <1>2 DEF StoreRow

LEMMA TypeStep == TypeOK /\ [Next]_vars => TypeOK'
<1> SUFFICES ASSUME TypeOK, [Next]_vars PROVE TypeOK'
  OBVIOUS
<1> USE Constants
<1>1. ASSUME NEW p \in Providers, SyncTurn(p) PROVE TypeOK'
  <2>1. turns + 1 \in Turns /\ turns + 1 \in 0 .. MaxTurns
    BY <1>1 DEF SyncTurn, TypeOK, Turns
  <2>2. turn' \in [Turns -> [pc : {"none", "check", "store", "done"}, conv : Conversations]]
    BY <1>1, <2>1 DEF SyncTurn, TypeOK
  <2>3. last' \in [Providers -> 0 .. MaxTurns]
    BY <1>1, <2>1 DEF SyncTurn, TypeOK
  <2> QED BY <1>1, <2>1, <2>2, <2>3 DEF SyncTurn, TypeOK
<1>2. ASSUME NEW t \in Turns, TurnCheck(t) PROVE TypeOK'
  <2>1. turn' \in [Turns -> [pc : {"none", "check", "store", "done"}, conv : Conversations]]
    BY <1>2 DEF TurnCheck, TypeOK
  <2> QED BY <1>2, <2>1 DEF TurnCheck, TypeOK
<1>3. ASSUME NEW t \in Turns, TurnStore(t) PROVE TypeOK'
  <2>1. turn' \in [Turns -> [pc : {"none", "check", "store", "done"}, conv : Conversations]]
    BY <1>3 DEF TurnStore, TypeOK
  <2>2. turn[t].conv \in Conversations
    BY DEF TypeOK
  <2> QED BY <1>3, <2>1, <2>2, AnchorIsRow, Stored DEF TurnStore, TypeOK
<1>4. ASSUME NEW p \in Providers, NEW pc \in HostPlaces, Goto(p, pc)
      PROVE  host' \in [Providers -> [pc : HostPlaces, targets : SUBSET Ids]]
  BY <1>4 DEF Goto, TypeOK
<1>5. ASSUME NEW p \in Providers, Compress(p) \/ Reset(p) PROVE TypeOK'
  <2>1. host' \in [Providers -> [pc : HostPlaces, targets : SUBSET Ids]]
    BY <1>4, <1>5 DEF Compress, Reset, HostPlaces
  <2> QED BY <1>5, <2>1 DEF Compress, Reset, TypeOK
<1>6. ASSUME NEW p \in Providers, CompressCheck(p) PROVE TypeOK'
  <2>1. host' \in [Providers -> [pc : HostPlaces, targets : SUBSET Ids]]
    BY <1>4, <1>6 DEF CompressCheck, HostPlaces
  <2> QED BY <1>6, <2>1 DEF CompressCheck, TypeOK
<1>7. ASSUME NEW p \in Providers, CompressStore(p) PROVE TypeOK'
  <2>1. host' \in [Providers -> [pc : HostPlaces, targets : SUBSET Ids]]
    BY <1>4, <1>7 DEF CompressStore, HostPlaces
  <2>2. conv[p] \in Conversations
    BY DEF TypeOK
  <2> QED BY <1>7, <2>1, <2>2, AnchorIsRow, Stored DEF CompressStore, TypeOK
<1>8. ASSUME NEW p \in Providers, ResetList(p) PROVE TypeOK'
  <2>1. PICK listing \in Listings \cup (IF setting.faulty THEN {{}} ELSE {}) :
           host' = [host EXCEPT ![p] =
                      [pc |-> "r_archive",
                       targets |-> {i \in listing : OwnAnchor(rows[i], conv[p])}]]
    BY <1>8 DEF ResetList
  <2>2. listing \subseteq Ids
    BY <2>1 DEF Listings
  <2>3. host' \in [Providers -> [pc : HostPlaces, targets : SUBSET Ids]]
    BY <2>1, <2>2 DEF TypeOK, HostPlaces
  <2> QED BY <1>8, <2>3 DEF ResetList, TypeOK
<1>9. ASSUME NEW p \in Providers, ResetArchive(p) PROVE TypeOK'
  <2>1. PICK i \in host[p].targets :
           /\ \/ rows' = IF Exists(i) THEN [rows EXCEPT ![i].archived = TRUE] ELSE rows
              \/ setting.faulty /\ UNCHANGED rows
           /\ host' = [host EXCEPT ![p].targets = @ \ {i}]
    BY <1>9 DEF ResetArchive
  <2>2. i \in Ids
    BY DEF TypeOK
  <2>3. Exists(i) => [rows[i] EXCEPT !.archived = TRUE] \in Row
    BY <2>2 DEF TypeOK, Exists, Row
  <2>4. rows' \in [Ids -> Row \cup {NoRow}]
    BY <2>1, <2>2, <2>3 DEF TypeOK
  <2>5. host' \in [Providers -> [pc : HostPlaces, targets : SUBSET Ids]]
    BY <2>1 DEF TypeOK
  <2> QED BY <1>9, <2>4, <2>5 DEF ResetArchive, TypeOK
<1>10. ASSUME NEW p \in Providers, ResetDone(p) \/ Initialize(p) PROVE TypeOK'
  <2>1. convs' = convs + 1 /\ convs' \in Conversations /\ conv' = [conv EXCEPT ![p] = convs']
    BY <1>10 DEF ResetDone, Initialize, TypeOK, Conversations, NoConv
  <2>2. host' \in [Providers -> [pc : HostPlaces, targets : SUBSET Ids]]
    BY <1>4, <1>10 DEF ResetDone, Initialize, TypeOK, HostPlaces
  <2>3. ended' \subseteq Conversations /\ covered' \subseteq Providers
    BY <1>10 DEF ResetDone, Initialize, TypeOK
  <2> QED BY <1>10, <2>1, <2>2, <2>3 DEF ResetDone, Initialize, TypeOK
<1>11. CASE Pin
  BY <1>11, PinIsRow, Stored DEF Pin, TypeOK
<1>12. CASE Unpin
  BY <1>12 DEF Unpin, TypeOK
<1>13. CASE UNCHANGED vars
  BY <1>13 DEF vars, TypeOK
<1> QED BY <1>1, <1>2, <1>3, <1>5, <1>6, <1>7, <1>8, <1>9, <1>10, <1>11, <1>12, <1>13
        DEF Next, HostStep

-----------------------------------------------------------------------------
(* What a step does to a row, to a conversation id and to a reset.           *)

(* A row's conversation and kind never change, nor is its id used again.     *)
RowsKept ==
    /\ stored <= stored'
    /\ \A i \in Ids : Exists(i)' => i <= stored'
    /\ \A i \in Ids : i <= stored /\ Exists(i)' =>
          /\ Exists(i) /\ rows'[i].conv = rows[i].conv /\ rows'[i].pin = rows[i].pin
          /\ rows[i].archived => rows'[i].archived

LEMMA StoringKeepsRows ==
    ASSUME TypeOK, TargetsOK, NEW r \in Row, StoreRow(r)
    PROVE  RowsKept
<1>1. stored \in Int /\ MaxRows \in Int /\ \A i \in Ids : i \in Int
  BY Constants DEF TypeOK, Ids
<1> QED BY <1>1, Stored DEF RowsKept, TargetsOK, Exists

LEMMA RowsStay == TypeOK /\ TargetsOK /\ [Next]_vars => RowsKept
<1> SUFFICES ASSUME TypeOK, TargetsOK, [Next]_vars PROVE RowsKept
  OBVIOUS
<1>0. stored <= stored
  BY Constants DEF TypeOK
<1>1. CASE UNCHANGED <<rows, stored>>
  BY <1>0, <1>1 DEF RowsKept, TargetsOK, Exists
<1>2. ASSUME NEW t \in Turns, TurnStore(t) PROVE RowsKept
  BY <1>2, AnchorIsRow, StoringKeepsRows DEF TurnStore, TypeOK
<1>3. ASSUME NEW p \in Providers, CompressStore(p) PROVE RowsKept
  BY <1>3, AnchorIsRow, StoringKeepsRows DEF CompressStore, TypeOK
<1>4. ASSUME NEW p \in Providers, ResetArchive(p) PROVE RowsKept
  <2>1. PICK i \in host[p].targets :
           \/ rows' = IF Exists(i) THEN [rows EXCEPT ![i].archived = TRUE] ELSE rows
           \/ setting.faulty /\ UNCHANGED rows
    BY <1>4 DEF ResetArchive
  <2>2. CASE Exists(i) /\ rows' = [rows EXCEPT ![i].archived = TRUE]
    <3>1. i \in Ids /\ rows[i] \in Row
      BY <2>2 DEF TypeOK, Exists
    <3>2. \A j \in Ids : Exists(j)' =>
             /\ Exists(j) /\ rows'[j].conv = rows[j].conv /\ rows'[j].pin = rows[j].pin
             /\ rows[j].archived => rows'[j].archived
      BY <2>2, <3>1 DEF TypeOK, Exists, Row
    <3> QED BY <1>0, <1>4, <3>2 DEF ResetArchive, RowsKept, TargetsOK
  <2>3. CASE UNCHANGED rows
    BY <1>0, <1>4, <2>3 DEF ResetArchive, RowsKept, TargetsOK, Exists
  <2> QED BY <2>1, <2>2, <2>3
<1>5. CASE Pin
  BY <1>5, PinIsRow, StoringKeepsRows DEF Pin
<1>6. CASE Unpin
  <2>1. PICK i \in Ids : rows' = [rows EXCEPT ![i] = NoRow]
    BY <1>6 DEF Unpin
  <2> QED BY <1>0, <1>6, <2>1 DEF Unpin, RowsKept, TargetsOK, Exists, TypeOK
<1> QED BY <1>1, <1>2, <1>3, <1>4, <1>5, <1>6
        DEF Next, HostStep, vars, SyncTurn, TurnCheck, Compress, CompressCheck,
            Reset, ResetList, ResetDone, Initialize

(* A provider moves to a conversation id not used before, between its calls. *)
Moves(p) ==
    /\ convs' = convs + 1 /\ conv' = [conv EXCEPT ![p] = convs']
    /\ host'[p].pc = "idle"
    /\ covered' = covered \ {p}

LEMMA ConvMoves ==
    TypeOK /\ [Next]_vars => UNCHANGED <<conv, convs>> \/ \E p \in Providers : Moves(p)
<1> SUFFICES ASSUME TypeOK, [Next]_vars, ~UNCHANGED <<conv, convs>>
             PROVE  \E p \in Providers : Moves(p)
  OBVIOUS
<1>1. PICK p \in Providers : ResetDone(p) \/ Initialize(p)
  BY DEF Next, HostStep, vars, SyncTurn, TurnCheck, TurnStore, Compress, CompressCheck,
         CompressStore, Reset, ResetList, ResetArchive, Pin, Unpin
<1>2. host'[p].pc = "idle"
  BY <1>1 DEF ResetDone, Initialize, Goto, TypeOK
<1> QED BY <1>1, <1>2 DEF ResetDone, Initialize, Moves

LEMMA ConvsStep == TypeOK /\ ConvsOK /\ [Next]_vars => ConvsOK'
<1> SUFFICES ASSUME TypeOK, ConvsOK, [Next]_vars PROVE ConvsOK'
  OBVIOUS
<1>1. setting' = setting
  BY DEF Next, HostStep, vars, SyncTurn, TurnCheck, TurnStore, Compress, CompressCheck,
         CompressStore, Reset, ResetList, ResetArchive, ResetDone, Initialize, Pin, Unpin
<1>2. CASE UNCHANGED <<conv, convs>>
  BY <1>1, <1>2 DEF ConvsOK
<1>3. ASSUME NEW p \in Providers, Moves(p) PROVE ConvsOK'
  <2>1. convs \in Nat /\ \A q \in Providers : conv[q] \in Nat
    BY Constants DEF TypeOK, Conversations, NoConv
  <2>2. \A q \in Providers : conv'[q] = IF q = p THEN convs + 1 ELSE conv[q]
    BY <1>3 DEF Moves, TypeOK
  <2> QED BY <1>1, <1>3, <2>1, <2>2 DEF ConvsOK, Moves, NoConv
<1> QED BY <1>2, <1>3, ConvMoves

(* A reset begins with a listing, and then only drops targets.               *)
LEMMA ResetMoves ==
    ASSUME TypeOK, [Next]_vars, NEW p \in Providers, host'[p].pc = "r_archive"
    PROVE  \/ ResetList(p)
           \/ host[p].pc = "r_archive" /\ host'[p].targets \subseteq host[p].targets
<1>1. CASE host' = host
  BY <1>1
<1>2. ASSUME NEW q \in Providers, NEW pc \in HostPlaces \ {"r_archive"}, Goto(q, pc)
      PROVE  host[p].pc = "r_archive" /\ host'[p].targets \subseteq host[p].targets
  <2>1. q # p /\ host'[p] = host[p]
    BY <1>2 DEF Goto, TypeOK
  <2> QED BY <2>1
<1>3. ASSUME NEW q \in Providers, ResetList(q), q # p
      PROVE  host[p].pc = "r_archive" /\ host'[p].targets \subseteq host[p].targets
  <2>1. host'[p] = host[p]
    BY <1>3 DEF ResetList, TypeOK
  <2> QED BY <2>1
<1>4. ASSUME NEW q \in Providers, ResetArchive(q)
      PROVE  host[p].pc = "r_archive" /\ host'[p].targets \subseteq host[p].targets
  <2>1. PICK i : host' = [host EXCEPT ![q].targets = @ \ {i}]
    BY <1>4 DEF ResetArchive
  <2> QED BY <2>1 DEF TypeOK
<1>5. ASSUME NEW q \in Providers,
             Compress(q) \/ CompressCheck(q) \/ CompressStore(q) \/ Reset(q) \/ ResetDone(q)
      PROVE  \E pc \in HostPlaces \ {"r_archive"} : Goto(q, pc)
  BY <1>5 DEF Compress, CompressCheck, CompressStore, Reset, ResetDone, HostPlaces
<1> QED BY <1>1, <1>2, <1>3, <1>4, <1>5
        DEF Next, HostStep, vars, SyncTurn, Initialize, TurnCheck, TurnStore, Pin, Unpin

LEMMA ListedAreLive ==
    ASSUME NEW listing \in Listings, NEW i \in listing PROVE i \in Ids /\ Live(i)
BY DEF Listings

LEMMA TargetsStep == TypeOK /\ TargetsOK /\ [Next]_vars => TargetsOK'
<1> SUFFICES ASSUME TypeOK, TargetsOK, [Next]_vars PROVE TargetsOK'
  OBVIOUS
<1>0. RowsKept
  BY RowsStay
<1>1. \A i \in Ids : Exists(i)' => i <= stored'
  BY <1>0 DEF RowsKept
<1>2. ASSUME NEW p \in Providers, (host[p].pc = "r_archive")', NEW i \in (host[p].targets)'
      PROVE  i <= stored' /\ (Exists(i)' => OwnAnchor(rows'[i], conv'[p]))
  <2>0. stored \in Int /\ stored' \in Int /\ \A j \in Ids : j \in Int
    BY TypeStep, Constants DEF TypeOK, Ids
  <2>1. conv'[p] = conv[p]
    BY <1>2, ConvMoves DEF Moves, TypeOK
  <2>2. CASE ResetList(p)
    <3>1. PICK listing \in Listings \cup (IF setting.faulty THEN {{}} ELSE {}) :
             host' = [host EXCEPT ![p] =
                        [pc |-> "r_archive",
                         targets |-> {j \in listing : OwnAnchor(rows[j], conv[p])}]]
      BY <2>2 DEF ResetList
    <3>2. i \in listing /\ OwnAnchor(rows[i], conv[p])
      BY <1>2, <3>1 DEF TypeOK
    <3>3. i \in Ids /\ Live(i)
      BY <3>2, ListedAreLive
    <3>4. i <= stored /\ UNCHANGED <<rows, stored>>
      BY <2>2, <3>3 DEF TargetsOK, Live, ResetList
    <3> QED BY <2>1, <3>2, <3>4
  <2>3. CASE host[p].pc = "r_archive" /\ host'[p].targets \subseteq host[p].targets
    <3>1. i \in host[p].targets /\ i \in Ids
      BY <1>2, <2>3 DEF TypeOK
    <3>2. i <= stored /\ (Exists(i) => OwnAnchor(rows[i], conv[p]))
      BY <2>3, <3>1 DEF TargetsOK
    <3> QED BY <1>0, <2>0, <2>1, <3>1, <3>2 DEF RowsKept, OwnAnchor
  <2> QED BY <1>2, <2>2, <2>3, ResetMoves
<1> QED BY <1>1, <1>2 DEF TargetsOK

(* Only its own reset archives an anchor.                                    *)
LEMMA OwnResetArchives ==
    ASSUME TypeOK, TargetsOK, [Next]_vars, NEW i \in Ids, Live(i), ~Live(i)', ~Unpin
    PROVE  \E p \in Providers : /\ host[p].pc = "r_archive"
                                /\ OwnAnchor(rows[i], conv[p])
<1>0. Exists(i) /\ i <= stored
  BY DEF TargetsOK, Live
<1>1. rows'[i] # rows[i]
  BY DEF Live, Exists
<1>2. ASSUME NEW r \in Row, StoreRow(r) PROVE FALSE
  <2>1. i # stored + 1
    BY <1>0, Constants DEF TypeOK, Ids
  <2> QED BY <1>1, <1>2, <2>1, Stored
<1>3. \A t \in Turns : ~TurnStore(t)
  BY <1>2, AnchorIsRow DEF TurnStore, TypeOK
<1>4. \A p \in Providers : ~CompressStore(p)
  BY <1>2, AnchorIsRow DEF CompressStore, TypeOK
<1>5. ~Pin
  BY <1>2, PinIsRow DEF Pin
<1>6. PICK p \in Providers : ResetArchive(p)
  BY <1>1, <1>3, <1>4, <1>5
     DEF Next, HostStep, vars, SyncTurn, TurnCheck, Compress, CompressCheck,
         Reset, ResetList, ResetDone, Initialize
<1>7. i \in host[p].targets
  BY <1>1, <1>6 DEF ResetArchive, TypeOK
<1> QED BY <1>0, <1>6, <1>7 DEF ResetArchive, TargetsOK

-----------------------------------------------------------------------------
(* The recovery an agent finds after a compression.                          *)

Recoverable(p) == \E i \in Ids : Live(i) /\ Belongs(rows[i], conv[p])
Resetting(p) == host[p].pc \in {"r_list", "r_archive"}

LEMMA CheckFinds ==
    ASSUME TypeOK, ~setting.faulty, NEW p \in Providers, CompressCheck(p), p \in covered', p \notin covered
    PROVE  Recoverable(p)'
<1>1. PICK needed \in Verdicts(conv[p]) : ~needed
  BY DEF CompressCheck
<1>2. PICK listing \in Listings : ~Needed(listing, conv[p])
  BY <1>1 DEF Verdicts
<1>3. PICK i \in listing : rows[i].pin \/ Belongs(rows[i], conv[p])
  BY <1>2 DEF Needed
<1>4. i \in Ids /\ Live(i) /\ Belongs(rows[i], conv[p])
  BY <1>3, ListedAreLive DEF Belongs
<1>5. UNCHANGED <<rows, conv>>
  BY DEF CompressCheck
<1> QED BY <1>4, <1>5 DEF Recoverable, Live, Exists

LEMMA StoreGives ==
    ASSUME TypeOK, ~setting.faulty, NEW p \in Providers, CompressStore(p)
    PROVE  Recoverable(p)'
<1>1. conv[p] \in Conversations /\ conv' = conv
  BY DEF CompressStore, TypeOK
<1>2. Anchor(conv[p]) \in Row /\ Anchor(conv[p]) # NoRow
  BY <1>1, AnchorIsRow
<1>3. stored' \in Ids /\ rows'[stored'] = Anchor(conv[p])
  BY <1>2, Stored DEF CompressStore
<1> QED BY <1>1, <1>2, <1>3 DEF Recoverable, Live, Exists, Belongs, Anchor

LEMMA RecoveryStep == TypeOK /\ ConvsOK /\ TargetsOK /\ RecoveryStays /\ [Next]_vars => RecoveryStays'
<1> SUFFICES ASSUME TypeOK, ConvsOK, TargetsOK, RecoveryStays, [Next]_vars,
                    ~setting'.faulty, setting'.anonymous = {},
                    NEW p \in covered', host'[p].pc \notin {"r_list", "r_archive"}
             PROVE  Recoverable(p)'
  BY DEF RecoveryStays, Recoverable
<1>0. setting' = setting /\ p \in Providers
  <2>1. setting' = setting
    BY DEF Next, HostStep, vars, SyncTurn, TurnCheck, TurnStore, Compress, CompressCheck,
         CompressStore, Reset, ResetList, ResetArchive, ResetDone, Initialize, Pin, Unpin
  <2> QED BY <2>1, TypeStep DEF TypeOK
<1>1. CASE p \notin covered
  <2>1. CompressCheck(p) \/ CompressStore(p)
    BY <1>1 DEF Next, HostStep, vars, SyncTurn, TurnCheck, TurnStore, Compress, CompressCheck,
         CompressStore, Reset, ResetList, ResetArchive, ResetDone, Initialize, Pin, Unpin
  <2> QED BY <1>0, <1>1, <2>1, CheckFinds, StoreGives
<1>2. CASE p \in covered
  <2>1. ~Unpin
    BY DEF Unpin
  <2>2. conv'[p] = conv[p]
    BY <1>0, ConvMoves DEF Moves, TypeOK
  <2>3. ~ResetDone(p)
    BY DEF ResetDone
  <2>4. ~Resetting(p)
    <3>1. SUFFICES ASSUME Resetting(p) PROVE FALSE
      OBVIOUS
    <3>2. host'[p].pc # host[p].pc
      BY <3>1 DEF Resetting
    <3>3. \A q \in Providers : ~ResetList(q)
      BY <1>0, <3>2 DEF ResetList, TypeOK
    <3>4. \A q \in Providers : ~ResetArchive(q)
      BY <1>0, <3>2 DEF ResetArchive, TypeOK
    <3>5. \A q \in Providers, pc \in HostPlaces : Goto(q, pc) => q = p
      BY <1>0, <3>2 DEF Goto, TypeOK
    <3>6. \A q \in Providers : ~(Compress(q) \/ CompressCheck(q) \/ CompressStore(q) \/ Reset(q))
      BY <3>1, <3>5 DEF Compress, CompressCheck, CompressStore, Reset, HostPlaces, Resetting
    <3>7. \A q \in Providers : ~ResetDone(q)
      BY <2>3, <3>5 DEF ResetDone, HostPlaces
    <3> QED BY <3>2, <3>3, <3>4, <3>6, <3>7
               DEF Next, HostStep, vars, SyncTurn, Initialize, TurnCheck, TurnStore, Pin, Unpin
  <2>5. PICK i \in Ids : Live(i) /\ Belongs(rows[i], conv[p])
    BY <1>0, <1>2, <2>4 DEF RecoveryStays, Resetting
  <2>6. CASE Live(i)'
    <3>1. i <= stored
      BY <2>5 DEF TargetsOK, Live
    <3> QED BY <2>2, <2>5, <2>6, <3>1, RowsStay DEF RowsKept, Recoverable, Belongs, Live
  <2>7. CASE ~Live(i)'
    <3>1. PICK q \in Providers : host[q].pc = "r_archive" /\ OwnAnchor(rows[i], conv[q])
      BY <2>1, <2>5, <2>7, OwnResetArchives
    <3>2. conv[p] # NoConv /\ conv[q] # NoConv
      BY <1>0, <3>1 DEF ConvsOK
    <3>3. conv[p] = conv[q]
      BY <2>5, <3>1, <3>2 DEF OwnAnchor, Belongs
    <3>4. p = q
      BY <1>0, <3>2, <3>3 DEF ConvsOK
    <3> QED BY <2>4, <3>1, <3>4 DEF Resetting
  <2> QED BY <2>6, <2>7
<1> QED BY <1>1, <1>2

-----------------------------------------------------------------------------
(* The theorems that need no assumption about time.                          *)

LEMMA InitIInv == Init => IInv
<1> SUFFICES ASSUME Init PROVE IInv
  OBVIOUS
<1> USE Constants, ProvidersNumbered
<1>1. convs \in Conversations /\ \A p \in Providers : p \in Conversations /\ p # NoConv /\ p <= convs
  BY DEF Init, Conversations, NoConv
<1>2. conv = [p \in Providers |-> IF p \in setting.anonymous THEN NoConv ELSE p]
  BY DEF Init
<1>3. conv \in [Providers -> Conversations]
  BY <1>1, <1>2 DEF Conversations, NoConv
<1>4. TypeOK
  BY <1>1, <1>3 DEF Init, TypeOK, HostPlaces, IdleHost, NotStarted, Conversations, NoConv, NoTurn
<1>5. ConvsOK
  BY <1>1, <1>2 DEF ConvsOK, NoConv, Conversations
<1>6. TargetsOK
  BY DEF Init, TargetsOK, Exists, IdleHost
<1>7. RecoveryStays
  BY DEF Init, RecoveryStays
<1> QED BY <1>4, <1>5, <1>6, <1>7 DEF IInv

LEMMA Invariance == Spec => []IInv
<1>1. IInv /\ [Next]_vars => IInv'
  BY TypeStep, ConvsStep, TargetsStep, RecoveryStep DEF IInv
<1> QED BY InitIInv, <1>1, PTL DEF Spec

(* Every variable has its type.                                              *)
THEOREM TypeCorrect == Spec => []TypeOK
BY Invariance, PTL DEF IInv

(* Once on_pre_compress has made sure of a breadcrumb, a pin or an anchor of *)
(* the conversation stays until its reset, whatever the turn threads, the    *)
(* other conversations and the task collector do and however late they are.  *)
THEOREM RecoveryIsKept == Spec => []RecoveryStays
BY Invariance, PTL DEF IInv

(* An anchor is archived only by a reset of its own conversation.            *)
THEOREM OthersAreLeftAlone == Spec => OthersUndisturbed
<1>1. TypeOK /\ TargetsOK /\ [Next]_vars =>
         [\A i \in Ids : Live(i) /\ rows'[i] # NoRow /\ rows'[i].archived
            => /\ ~rows[i].pin
               /\ \E p \in Providers : /\ host[p].pc = "r_archive"
                                       /\ conv[p] \in {rows[i].conv, NoConv}]_vars
  <2> SUFFICES ASSUME TypeOK, TargetsOK, [Next]_vars,
                      NEW i \in Ids, Live(i), rows'[i] # NoRow, rows'[i].archived
               PROVE  /\ ~rows[i].pin
                      /\ \E p \in Providers : /\ host[p].pc = "r_archive"
                                              /\ conv[p] \in {rows[i].conv, NoConv}
    OBVIOUS
  <2>1. ~Live(i)'
    BY DEF Live
  <2>2. ~Unpin
    <3>1. ASSUME NEW j \in Ids, rows' = [rows EXCEPT ![j] = NoRow] PROVE FALSE
      BY <3>1 DEF TypeOK, Live
    <3> QED BY <3>1 DEF Unpin
  <2>3. PICK p \in Providers : host[p].pc = "r_archive" /\ OwnAnchor(rows[i], conv[p])
    BY <2>1, <2>2, OwnResetArchives
  <2> QED BY <2>3 DEF OwnAnchor
<1>2. IInv => TypeOK /\ TargetsOK
  BY DEF IInv
<1> QED BY Invariance, <1>1, <1>2, PTL DEF Spec, OthersUndisturbed

-----------------------------------------------------------------------------
(* While the flush waits: the listings are complete.                         *)

LEMMA FullListing ==
    ASSUME LongLists, NEW listing \in Listings, NEW i \in Ids, Live(i)
    PROVE  i \in listing
<1> DEFINE all == {j \in Ids : Exists(j)}
<1>0. MaxRows \in Nat /\ ListLimit \in Nat /\ FetchLimit \in Nat
  BY Constants
<1>1. IsFiniteSet(Ids) /\ Cardinality(Ids) = MaxRows
  BY <1>0, FS_Interval DEF Ids
<1>2. ASSUME NEW S \in SUBSET Ids
      PROVE  IsFiniteSet(S) /\ Cardinality(S) \in Nat /\ Cardinality(S) <= MaxRows
  BY <1>1, FS_Subset, FS_CardinalityType
<1>3. PICK S \in SUBSET all :
         /\ Cardinality(S) = Least(FetchLimit, Cardinality(all))
         /\ listing \in {L \in SUBSET {j \in S : Live(j)} :
               Cardinality(L) = Least(ListLimit, Cardinality({j \in S : Live(j)}))}
  BY DEF Listings
<1>4. Cardinality(all) <= MaxRows /\ Cardinality(all) \in Nat /\ IsFiniteSet(all)
  BY <1>2
<1>5. Cardinality(S) = Cardinality(all)
  <2>1. Cardinality(all) <= FetchLimit
    BY <1>0, <1>4 DEF LongLists
  <2> HIDE DEF all
  <2> QED BY <1>0, <1>3, <1>4, <2>1 DEF Least
<1>6. S = all
  <2> HIDE DEF all
  <2> QED BY <1>4, <1>5, FS_Subset
<1> DEFINE live == {j \in S : Live(j)}
<1>7. Cardinality(live) <= MaxRows /\ Cardinality(live) \in Nat /\ IsFiniteSet(live)
  BY <1>2
<1>8. listing \subseteq live /\ Cardinality(listing) = Least(ListLimit, Cardinality(live))
  BY <1>3
<1>9. Cardinality(listing) = Cardinality(live)
  <2>1. Cardinality(live) <= ListLimit
    BY <1>0, <1>7 DEF LongLists
  <2> HIDE DEF live
  <2> QED BY <1>0, <1>7, <1>8, <2>1 DEF Least
<1>10. listing = live
  <2> HIDE DEF live
  <2> QED BY <1>7, <1>8, <1>9, FS_Subset
<1> QED BY <1>6, <1>10 DEF Live

(* A check that asks for an anchor is right.                                 *)
LEMMA NeededMeansNone ==
    ASSUME LongLists, NEW c, NEW needed \in Verdicts(c), needed
    PROVE  AnchorsOf(c) = {}
<1>1. PICK listing \in Listings : Needed(listing, c)
  BY DEF Verdicts
<1> QED BY <1>1, FullListing DEF AnchorsOf, Needed, Belongs

LEMMA CheckedTurn ==
    ASSUME LongLists, TypeOK, NEW t \in Turns, TurnCheck(t), turn'[t].pc = "store"
    PROVE  AnchorsOf(turn[t].conv) = {} /\ turn'[t].conv = turn[t].conv
<1>1. PICK needed \in Verdicts(turn[t].conv) :
         turn' = [turn EXCEPT ![t].pc = IF needed THEN "store" ELSE "done"]
  BY DEF TurnCheck
<1>2. needed /\ turn'[t].conv = turn[t].conv
  BY <1>1 DEF TypeOK
<1> QED BY <1>1, <1>2, NeededMeansNone

LEMMA CheckedCompression ==
    ASSUME LongLists, TypeOK, NEW p \in Providers, CompressCheck(p), host'[p].pc = "c_store"
    PROVE  AnchorsOf(conv[p]) = {}
<1>1. PICK needed \in Verdicts(conv[p]) :
         ~needed => Goto(p, "idle")
  BY DEF CompressCheck
<1>2. needed
  BY <1>1 DEF TypeOK, Goto
<1> QED BY <1>1, <1>2, NeededMeansNone

(* An anchor that was not there is the one somebody stores.                  *)
LEMMA NewAnchor ==
    ASSUME TypeOK, TargetsOK, [Next]_vars, NEW c \in Conversations,
           NEW i \in AnchorsOf(c)', i \notin AnchorsOf(c)
    PROVE  /\ i = stored'
           /\ \/ \E t \in Turns : TurnStore(t) /\ c = turn[t].conv
              \/ \E p \in Providers : CompressStore(p) /\ c = conv[p]
<1>0. stored \in Int /\ i \in Int /\ i \in Ids /\ stored \in Nat
  BY Constants DEF TypeOK, AnchorsOf, Ids
<1>1. Live(i)' /\ ~rows'[i].pin /\ rows'[i].conv = c
  BY DEF AnchorsOf
<1>2. ~(i <= stored)
  BY <1>0, <1>1, RowsStay DEF RowsKept, AnchorsOf, Live
<1>3. i <= stored'
  BY <1>0, <1>1, RowsStay DEF RowsKept, Live
<1>4. stored' # stored
  BY <1>2, <1>3
<1>5. ASSUME NEW r \in Row, StoreRow(r) PROVE i = stored' /\ rows'[i] = r
  <2>1. stored' = stored + 1 /\ stored' \in Ids /\ rows'[stored'] = r
    BY <1>4, <1>5, Stored
  <2> QED BY <1>0, <1>2, <1>3, <2>1
<1>6. ASSUME NEW t \in Turns, TurnStore(t) PROVE i = stored' /\ c = turn[t].conv
  <2>1. turn[t].conv \in Conversations
    BY DEF TypeOK
  <2> QED BY <1>1, <1>5, <1>6, <2>1, AnchorIsRow DEF TurnStore, Anchor
<1>7. ASSUME NEW p \in Providers, CompressStore(p) PROVE i = stored' /\ c = conv[p]
  <2>1. conv[p] \in Conversations
    BY DEF TypeOK
  <2> QED BY <1>1, <1>5, <1>7, <2>1, AnchorIsRow DEF CompressStore, Anchor
<1>8. ~Pin
  <2>1. SUFFICES ASSUME Pin PROVE FALSE
    OBVIOUS
  <2>2. rows'[i] = [conv |-> NoConv, pin |-> TRUE, archived |-> FALSE]
    BY <1>5, <2>1, PinIsRow DEF Pin
  <2> QED BY <1>1, <2>2
<1> QED BY <1>4, <1>6, <1>7, <1>8
        DEF Next, HostStep, vars, SyncTurn, TurnCheck, Compress, CompressCheck, Unpin,
            Reset, ResetList, ResetArchive, ResetDone, Initialize

-----------------------------------------------------------------------------
(* While the flush waits: the threads.                                       *)

LEMMA OwnConvs ==
    ASSUME ConvsOK, RunnersOK, NEW p \in Providers, NEW q \in Providers, conv[p] = conv[q]
    PROVE  p = q
BY DEF ConvsOK, RunnersOK

LEMMA RunnerAlone ==
    ASSUME RunnersOK, NEW t \in Turns, Running(t),
           NEW p \in Providers, host[p].pc # "idle" \/ last[p] # t
    PROVE  conv[p] # turn[t].conv
BY DEF RunnersOK

LEMMA SettingFixed == [Next]_vars => setting' = setting
BY DEF Next, HostStep, vars, SyncTurn, TurnCheck, TurnStore, Compress, CompressCheck,
       CompressStore, Reset, ResetList, ResetArchive, ResetDone, Initialize, Pin, Unpin

(* The turn a thread starts for.                                             *)
LEMMA Started ==
    ASSUME TypeOK, RunnersOK, ~setting.slow, NEW p \in Providers, SyncTurn(p)
    PROVE  /\ turns' = turns + 1 /\ turns' \in Turns
           /\ ~Running(turns')
           /\ \A t \in Turns : last[p] = t => ~Running(t)
           /\ turn' = [turn EXCEPT ![turns'] = [pc |-> "check", conv |-> conv[p]]]
           /\ last' = [last EXCEPT ![p] = turns']
           /\ UNCHANGED <<setting, conv, convs, host>>
<1>1. turns' = turns + 1 /\ turns' \in Turns
  BY Constants DEF SyncTurn, TypeOK, Turns
<1>2. ~Running(turns')
  <2>1. ~(turns' <= turns)
    BY <1>1, Constants DEF TypeOK
  <2> QED BY <1>1, <2>1 DEF RunnersOK, Running
<1>3. \A t \in Turns : last[p] = t => ~Running(t)
  BY Constants DEF SyncTurn, Flushed, Alive, Running, Turns, NoTurn
<1> QED BY <1>1, <1>2, <1>3 DEF SyncTurn

LEMMA RunnersStepSync ==
    ASSUME TypeOK, ConvsOK, RunnersOK, ~setting.slow, NEW p \in Providers, SyncTurn(p)
    PROVE  RunnersOK'
<1>0. /\ turns \in Nat /\ Turns \subseteq Nat \ {0}
      /\ turn \in [Turns -> [pc : {"none", "check", "store", "done"}, conv : Conversations]]
      /\ last \in [Providers -> Nat]
  BY Constants DEF TypeOK, Turns
<1>n. PICK n \in Turns : n = turns'
  BY Started
<1>1. /\ turns' = n /\ n = turns + 1
      /\ ~Running(n)
      /\ \A t \in Turns : last[p] = t => ~Running(t)
      /\ turn' = [turn EXCEPT ![n] = [pc |-> "check", conv |-> conv[p]]]
      /\ last' = [last EXCEPT ![p] = n]
      /\ UNCHANGED <<setting, conv, convs, host>>
  BY <1>n, Started
<1>2. turn'[n].pc = "check" /\ turn'[n].conv = conv[p] /\ Running(n)'
  BY <1>0, <1>1 DEF Running
<1>3. \A t \in Turns : t # n => turn'[t] = turn[t]
  BY <1>0, <1>1
<1>4. \A q \in Providers : last'[q] = IF q = p THEN n ELSE last[q]
  BY <1>0, <1>1
<1>5. \A q \in Providers : last'[q] <= turns'
  BY <1>0, <1>1, <1>4 DEF RunnersOK
<1>6. \A t \in Turns : turn'[t].pc = "none" <=> ~(t <= turns')
  BY <1>0, <1>1, <1>2, <1>3 DEF RunnersOK
<1>7. ASSUME NEW q \in Providers, host'[q].pc # "idle", NEW t \in Turns, last'[q] = t
      PROVE  ~Running(t)'
  <2>1. q # p
    BY <1>1, <1>7 DEF SyncTurn
  <2>2. last[q] = t /\ t # n
    BY <1>0, <1>1, <1>4, <1>7, <2>1 DEF RunnersOK
  <2> QED BY <1>1, <1>3, <1>7, <2>2 DEF RunnersOK, Running
<1>8. ASSUME NEW t \in Turns, t # n, Running(t)'
      PROVE  Running(t) /\ last[p] # t /\ conv[p] # turn[t].conv
  <2>1. Running(t) /\ last[p] # t
    BY <1>1, <1>3, <1>8 DEF Running
  <2> QED BY <2>1, RunnerAlone
<1>9. ASSUME NEW t \in Turns, Running(t)'
      PROVE  /\ turn'[t].conv <= convs'
             /\ \E q \in Providers :
                   /\ last'[q] = t
                   /\ turn'[t].conv = NoConv => q \in setting'.anonymous
                   /\ \A r \in Providers : r # q => conv'[r] # turn'[t].conv
             /\ \A u \in Turns : Running(u)' /\ turn'[u].conv = turn'[t].conv => u = t
  <2>1. CASE t = n
    <3>1. turn'[t].conv = conv[p] /\ conv[p] <= convs
      BY <1>2, <2>1 DEF ConvsOK
    <3>2. last'[p] = t /\ (conv[p] = NoConv => p \in setting.anonymous)
      BY <1>4, <2>1 DEF ConvsOK
    <3>3. \A r \in Providers : r # p => conv[r] # conv[p]
      BY OwnConvs
    <3>4. \A u \in Turns : Running(u)' /\ turn'[u].conv = conv[p] => u = t
      BY <1>3, <1>8, <2>1
    <3> QED BY <1>1, <3>1, <3>2, <3>3, <3>4
  <2>2. CASE t # n
    <3>1. Running(t) /\ last[p] # t /\ conv[p] # turn[t].conv /\ turn'[t] = turn[t]
      BY <1>3, <1>8, <1>9, <2>2
    <3>2. PICK q \in Providers :
             /\ last[q] = t
             /\ turn[t].conv = NoConv => q \in setting.anonymous
             /\ \A r \in Providers : r # q => conv[r] # turn[t].conv
      BY <3>1 DEF RunnersOK
    <3>3. last'[q] = t
      BY <1>4, <3>1, <3>2
    <3>4. ASSUME NEW u \in Turns, Running(u)', turn'[u].conv = turn'[t].conv PROVE u = t
      <4>1. u # n
        BY <1>2, <3>1, <3>4
      <4>2. Running(u) /\ turn[u].conv = turn[t].conv
        BY <1>3, <1>8, <3>1, <3>4, <4>1
      <4> QED BY <3>1, <4>2 DEF RunnersOK
    <3>5. turn[t].conv <= convs
      BY <3>1 DEF RunnersOK
    <3> QED BY <1>1, <3>1, <3>2, <3>3, <3>4, <3>5
  <2> QED BY <2>1, <2>2
<1>10. \A q, r \in Providers : last'[q] = last'[r] /\ last'[q] # NoTurn => q = r
  BY <1>0, <1>1, <1>4 DEF RunnersOK
<1> QED BY <1>1, <1>5, <1>6, <1>7, <1>9, <1>10 DEF RunnersOK

(* The other steps start no thread.                                          *)
LEMMA NoThreadStarts ==
    ASSUME TypeOK, [Next]_vars, \A p \in Providers : ~SyncTurn(p)
    PROVE  /\ UNCHANGED <<turns, last>>
           /\ \A t \in Turns : /\ turn'[t].conv = turn[t].conv
                               /\ Running(t)' => Running(t)
                               /\ turn'[t].pc = "none" <=> turn[t].pc = "none"
<1>1. CASE UNCHANGED <<turns, last, turn>>
  BY <1>1 DEF Running
<1>2. ASSUME NEW t \in Turns, TurnCheck(t) \/ TurnStore(t)
      PROVE  /\ UNCHANGED <<turns, last>>
             /\ \A u \in Turns : /\ turn'[u].conv = turn[u].conv
                                 /\ Running(u)' => Running(u)
                                 /\ turn'[u].pc = "none" <=> turn[u].pc = "none"
  <2>1. Running(t)
    BY <1>2 DEF TurnCheck, TurnStore, Running
  <2>2. PICK pc \in {"store", "done"} : turn' = [turn EXCEPT ![t].pc = pc]
    BY <1>2 DEF TurnCheck, TurnStore
  <2>3. \A u \in Turns : /\ turn'[u].conv = turn[u].conv
                         /\ turn'[u].pc = IF u = t THEN pc ELSE turn[u].pc
    BY <2>2 DEF TypeOK
  <2> QED BY <1>2, <2>1, <2>3 DEF Running, TurnCheck, TurnStore
<1> QED BY <1>1, <1>2
        DEF Next, HostStep, vars, Compress, CompressCheck, CompressStore,
            Reset, ResetList, ResetArchive, ResetDone, Initialize, Pin, Unpin

(* A call begins when the provider's thread has ended.                       *)
LEMMA CallBegins ==
    ASSUME TypeOK, [Next]_vars, ~setting.slow,
           NEW p \in Providers, host[p].pc = "idle", host'[p].pc # "idle"
    PROVE  \A t \in Turns : last[p] = t => ~Running(t)
<1>1. Compress(p) \/ Reset(p)
  <2>1. \A q \in Providers, pc \in HostPlaces : Goto(q, pc) => q = p
    BY DEF Goto, TypeOK
  <2>2. ~ResetList(p) /\ ~ResetArchive(p) /\ ~CompressCheck(p) /\ ~CompressStore(p) /\ ~ResetDone(p)
    BY DEF ResetList, ResetArchive, CompressCheck, CompressStore, ResetDone
  <2>3. \A q \in Providers : ResetList(q) \/ ResetArchive(q) => q = p
    BY DEF ResetList, ResetArchive, TypeOK
  <2>4. \A q \in Providers :
           Compress(q) \/ Reset(q) \/ CompressCheck(q) \/ CompressStore(q) \/ ResetDone(q) => q = p
    BY <2>1 DEF Compress, Reset, CompressCheck, CompressStore, ResetDone, HostPlaces
  <2> QED BY <2>2, <2>3, <2>4
          DEF Next, HostStep, vars, SyncTurn, Initialize, TurnCheck, TurnStore, Pin, Unpin
<1>2. Flushed(p)
  BY <1>1 DEF Compress, Reset
<1> QED BY <1>2, Constants DEF Flushed, Alive, Running, Turns, NoTurn

LEMMA RunnersStep ==
    ASSUME TypeOK, ConvsOK, RunnersOK, ~setting.slow, [Next]_vars PROVE RunnersOK'
<1>1. ASSUME NEW p \in Providers, SyncTurn(p) PROVE RunnersOK'
  BY <1>1, RunnersStepSync
<1>2. ASSUME \A p \in Providers : ~SyncTurn(p) PROVE RunnersOK'
  <2>1. UNCHANGED <<setting, turns, last>>
    BY <1>2, NoThreadStarts, SettingFixed
  <2>2. \A t \in Turns : /\ turn'[t].conv = turn[t].conv
                         /\ Running(t)' => Running(t)
                         /\ turn'[t].pc = "none" <=> turn[t].pc = "none"
    BY <1>2, NoThreadStarts
  <2>3. ASSUME NEW p \in Providers, host'[p].pc # "idle", NEW t \in Turns, last[p] = t
        PROVE  ~Running(t)'
    BY <2>2, <2>3, CallBegins DEF RunnersOK
  <2>4. ASSUME NEW t \in Turns, Running(t)
        PROVE  /\ turn[t].conv <= convs'
               /\ \E p \in Providers :
                     /\ last[p] = t
                     /\ turn[t].conv = NoConv => p \in setting.anonymous
                     /\ \A q \in Providers : q # p => conv'[q] # turn[t].conv
    <3>0. convs \in Nat /\ turn[t].conv \in Nat
      BY Constants DEF TypeOK, Conversations, NoConv
    <3>1. PICK p \in Providers :
             /\ last[p] = t
             /\ turn[t].conv = NoConv => p \in setting.anonymous
             /\ \A q \in Providers : q # p => conv[q] # turn[t].conv
      BY <2>4 DEF RunnersOK
    <3>2. turn[t].conv <= convs
      BY <2>4 DEF RunnersOK
    <3>3. CASE UNCHANGED <<conv, convs>>
      BY <3>1, <3>2, <3>3
    <3>4. ASSUME NEW m \in Providers, Moves(m)
          PROVE  /\ turn[t].conv <= convs'
                 /\ \A q \in Providers : q # p => conv'[q] # turn[t].conv
      <4>1. convs' = convs + 1 /\ \A q \in Providers : conv'[q] = IF q = m THEN convs + 1 ELSE conv[q]
        BY <3>4 DEF Moves, TypeOK
      <4> QED BY <3>0, <3>1, <3>2, <4>1
    <3> QED BY <3>1, <3>3, <3>4, ConvMoves
  <2>5. \A t, u \in Turns : Running(t)' /\ Running(u)' /\ turn'[u].conv = turn'[t].conv => u = t
    BY <2>2 DEF RunnersOK
  <2> HIDE <1>2
  <2>6. \A t \in Turns : Running(t)' =>
          /\ turn'[t].conv <= convs'
          /\ \E p \in Providers :
                /\ last'[p] = t
                /\ turn'[t].conv = NoConv => p \in setting'.anonymous
                /\ \A q \in Providers : q # p => conv'[q] # turn'[t].conv
          /\ \A u \in Turns : Running(u)' /\ turn'[u].conv = turn'[t].conv => u = t
    BY <2>1, <2>2, <2>4, <2>5
  <2> QED BY <2>1, <2>2, <2>3, <2>6 DEF RunnersOK
<1> QED BY <1>1, <1>2

-----------------------------------------------------------------------------
(* While the flush waits: the anchors.                                       *)

(* Whoever stores an anchor has the conversation to itself.                  *)
LEMMA AnchorsStep ==
    ASSUME LongLists, TypeOK, ConvsOK, TargetsOK, RunnersOK, AnchorsOK, [Next]_vars
    PROVE  AnchorsOK'
<1>1. ASSUME NEW c \in Conversations, NEW i \in AnchorsOf(c)', NEW j \in AnchorsOf(c)'
      PROVE  i = j
  <2>1. CASE i \in AnchorsOf(c) /\ j \in AnchorsOf(c)
    BY <2>1 DEF AnchorsOK
  <2>2. ASSUME NEW k \in AnchorsOf(c)', k \notin AnchorsOf(c) PROVE AnchorsOf(c) = {}
    BY <2>2, NewAnchor DEF AnchorsOK, TurnStore, CompressStore
  <2> QED BY <2>1, <2>2, NewAnchor
<1>2. ASSUME NEW t \in Turns, turn'[t].pc = "store", NEW i \in (AnchorsOf(turn[t].conv))'
      PROVE  FALSE
  <2>0. turn'[t].conv = turn[t].conv
    <3>1. \A p \in Providers : SyncTurn(p) => turn'[t] = turn[t]
      BY <1>2 DEF SyncTurn, TypeOK
    <3> QED BY <3>1, NoThreadStarts
  <2>c. PICK c \in Conversations : c = turn[t].conv
    BY DEF TypeOK
  <2>1. i \in AnchorsOf(c)'
    BY <1>2, <2>0, <2>c
  <2>2. CASE TurnCheck(t)
    <3>1. AnchorsOf(c) = {}
      BY <1>2, <2>2, <2>c, CheckedTurn
    <3>2. UNCHANGED rows
      BY <2>2 DEF TurnCheck
    <3> QED BY <2>1, <3>1, <3>2 DEF AnchorsOf, Live, Exists
  <2>3. CASE ~TurnCheck(t)
    <3>1. turn[t].pc = "store"
      <4>1. \A p \in Providers : SyncTurn(p) => turn'[t] = turn[t]
        BY <1>2 DEF SyncTurn, TypeOK
      <4>2. ASSUME NEW u \in Turns, TurnCheck(u) PROVE turn'[t] = turn[t]
        <5>1. u # t
          BY <2>3, <4>2
        <5> QED BY <4>2, <5>1 DEF TurnCheck, TypeOK
      <4>3. \A u \in Turns : TurnStore(u) => turn'[t] = turn[t]
        BY <1>2 DEF TurnStore, TypeOK
      <4> QED BY <1>2, <4>1, <4>2, <4>3
              DEF Next, HostStep, vars, Compress, CompressCheck, CompressStore,
                  Reset, ResetList, ResetArchive, ResetDone, Initialize, Pin, Unpin
    <3>2. AnchorsOf(c) = {} /\ Running(t)
      BY <2>c, <3>1 DEF AnchorsOK, Running
    <3>3. \A u \in Turns : ~(TurnStore(u) /\ c = turn[u].conv)
      <4>1. SUFFICES ASSUME NEW u \in Turns, TurnStore(u), c = turn[u].conv PROVE FALSE
        OBVIOUS
      <4>2. u = t
        BY <2>c, <3>2, <4>1 DEF RunnersOK, TurnStore, Running
      <4> QED BY <1>2, <4>1, <4>2 DEF TurnStore, TypeOK
    <3>4. \A p \in Providers : ~(CompressStore(p) /\ c = conv[p])
      BY <2>c, <3>2, RunnerAlone DEF CompressStore
    <3> QED BY <2>1, <3>2, <3>3, <3>4, NewAnchor
  <2> QED BY <2>2, <2>3
<1>3. ASSUME NEW p \in Providers, host'[p].pc = "c_store", NEW i \in (AnchorsOf(conv[p]))'
      PROVE  FALSE
  <2>0. conv'[p] = conv[p]
    BY <1>3, ConvMoves DEF Moves, TypeOK
  <2>c. PICK c \in Conversations : c = conv[p]
    BY DEF TypeOK
  <2>1. i \in AnchorsOf(c)'
    BY <1>3, <2>0, <2>c
  <2>2. CASE CompressCheck(p)
    <3>1. AnchorsOf(c) = {}
      BY <1>3, <2>2, <2>c, CheckedCompression
    <3>2. UNCHANGED rows
      BY <2>2 DEF CompressCheck
    <3> QED BY <2>1, <3>1, <3>2 DEF AnchorsOf, Live, Exists
  <2>3. CASE ~CompressCheck(p)
    <3>1. host[p].pc = "c_store"
      <4>1. \A q \in Providers, pc \in HostPlaces : Goto(q, pc) => host'[q].pc = pc /\ (q # p => host'[p] = host[p])
        BY DEF Goto, TypeOK
      <4>2. \A q \in Providers : ResetList(q) \/ ResetArchive(q) => host'[p].pc # "c_store" \/ host'[p] = host[p]
        BY DEF ResetList, ResetArchive, TypeOK
      <4>3. \A q \in Providers : Compress(q) \/ CompressCheck(q) \/ CompressStore(q) \/ Reset(q) \/ ResetDone(q)
               => host'[p] = host[p]
        BY <1>3, <2>3, <4>1 DEF Compress, CompressCheck, CompressStore, Reset, ResetDone, HostPlaces
      <4> QED BY <1>3, <4>2, <4>3
              DEF Next, HostStep, vars, SyncTurn, Initialize, TurnCheck, TurnStore, Pin, Unpin
    <3>2. AnchorsOf(c) = {}
      BY <2>c, <3>1 DEF AnchorsOK
    <3>3. \A u \in Turns : ~(TurnStore(u) /\ c = turn[u].conv)
      BY <2>c, <3>1, RunnerAlone DEF TurnStore, Running
    <3>4. \A q \in Providers : ~(CompressStore(q) /\ c = conv[q])
      <4>1. SUFFICES ASSUME NEW q \in Providers, CompressStore(q), c = conv[q] PROVE FALSE
        OBVIOUS
      <4>2. q = p
        BY <2>c, <4>1, OwnConvs
      <4> QED BY <1>3, <4>1, <4>2 DEF CompressStore, Goto, TypeOK
    <3> QED BY <2>1, <3>2, <3>3, <3>4, NewAnchor
  <2> QED BY <2>2, <2>3
<1>4. \A c \in Conversations : \A i, j \in AnchorsOf(c)' : i = j
  BY <1>1
<1> QED BY <1>2, <1>3, <1>4 DEF AnchorsOK

-----------------------------------------------------------------------------
(* While the flush waits and nothing raises: the resets.                     *)

LEMMA NobodyStores ==
    ASSUME TypeOK, TargetsOK, [Next]_vars, NEW c \in Conversations,
           \A t \in Turns : Running(t) => turn[t].conv # c,
           \A p \in Providers : host[p].pc = "c_store" => conv[p] # c
    PROVE  \A i \in AnchorsOf(c)' : i \in AnchorsOf(c)
BY NewAnchor DEF TurnStore, CompressStore, Running

(* A target is dropped when its anchor is archived.                          *)
LEMMA TargetDropped ==
    ASSUME TypeOK, [Next]_vars, ~setting.faulty, NEW p \in Providers,
           host[p].pc = "r_archive", host'[p].pc = "r_archive",
           NEW i \in host[p].targets, i \notin host'[p].targets
    PROVE  ~Live(i)'
<1>0. i \in Ids /\ host'[p] # host[p]
  BY DEF TypeOK
<1>1. ResetArchive(p)
  <2>1. \A q \in Providers, pc \in HostPlaces :
           Goto(q, pc) => q # p \/ host'[p].targets = host[p].targets
    BY DEF Goto, TypeOK
  <2>2. \A q \in Providers, pc \in HostPlaces : Goto(q, pc) => q = p
    BY <1>0 DEF Goto, TypeOK
  <2>3. \A q \in Providers, pc \in HostPlaces : ~Goto(q, pc)
    BY <2>1, <2>2
  <2>4. \A q \in Providers : ~(Compress(q) \/ Reset(q) \/ CompressCheck(q) \/ CompressStore(q) \/ ResetDone(q))
    BY <2>3 DEF Compress, Reset, CompressCheck, CompressStore, ResetDone, HostPlaces
  <2>5. \A q \in Providers : ~ResetList(q)
    BY <1>0 DEF ResetList, TypeOK
  <2>6. \A q \in Providers : ResetArchive(q) => q = p
    BY <1>0 DEF ResetArchive, TypeOK
  <2> QED BY <1>0, <2>4, <2>5, <2>6
          DEF Next, HostStep, vars, SyncTurn, Initialize, TurnCheck, TurnStore, Pin, Unpin
<1>2. PICK j \in host[p].targets :
         /\ rows' = IF Exists(j) THEN [rows EXCEPT ![j].archived = TRUE] ELSE rows
         /\ host' = [host EXCEPT ![p].targets = @ \ {j}]
  BY <1>1 DEF ResetArchive
<1>3. i = j
  BY <1>2 DEF TypeOK
<1>4. CASE Exists(i)
  <2>1. rows'[i].archived
    BY <1>0, <1>2, <1>3, <1>4 DEF TypeOK, Exists, Row
  <2> QED BY <2>1 DEF Live
<1>5. CASE ~Exists(i)
  BY <1>2, <1>3, <1>5 DEF Live, Exists
<1> QED BY <1>4, <1>5

LEMMA ResetsStep ==
    ASSUME LongLists, TypeOK, ConvsOK, TargetsOK, RunnersOK, ResetsOK,
           ~setting.slow, ~setting.faulty, [Next]_vars
    PROVE  ResetsOK'
<1>1. ASSUME NEW p \in Providers, host'[p].pc = "r_archive", NEW i \in (AnchorsOf(conv[p]))'
      PROVE  i \in host'[p].targets
  <2>0. conv'[p] = conv[p]
    BY <1>1, ConvMoves DEF Moves, TypeOK
  <2>c. PICK c \in Conversations : c = conv[p]
    BY DEF TypeOK
  <2>1. i \in AnchorsOf(c)'
    BY <1>1, <2>0, <2>c
  <2>2. CASE ResetList(p)
    <3>1. PICK listing \in Listings :
             host' = [host EXCEPT ![p] =
                        [pc |-> "r_archive",
                         targets |-> {j \in listing : OwnAnchor(rows[j], conv[p])}]]
      BY <2>2 DEF ResetList
    <3>2. i \in AnchorsOf(c)
      BY <2>1, <2>2 DEF ResetList, AnchorsOf, Live, Exists
    <3>3. i \in listing /\ OwnAnchor(rows[i], conv[p])
      BY <2>c, <3>2, FullListing DEF AnchorsOf, OwnAnchor
    <3> QED BY <3>1, <3>3 DEF TypeOK
  <2>3. CASE host[p].pc = "r_archive"
    <3>1. \A t \in Turns : Running(t) => turn[t].conv # c
      BY <2>c, <2>3, RunnerAlone
    <3>2. \A q \in Providers : host[q].pc = "c_store" => conv[q] # c
      BY <2>c, <2>3, OwnConvs
    <3>3. i \in AnchorsOf(c)
      BY <2>1, <3>1, <3>2, NobodyStores
    <3>4. i \in host[p].targets
      BY <2>c, <2>3, <3>3 DEF ResetsOK
    <3>5. Live(i)'
      BY <2>1 DEF AnchorsOf
    <3> QED BY <1>1, <2>3, <3>4, <3>5, TargetDropped
  <2> QED BY <1>1, <2>2, <2>3, ResetMoves
<1>2. ASSUME NEW c \in ended'
      PROVE  /\ c \in Conversations /\ c <= convs /\ AnchorsOf(c) = {}
             /\ \A p \in Providers : conv'[p] # c
             /\ \A t \in Turns : Running(t) => turn[t].conv # c
  <2>0. convs \in Nat
    BY Constants DEF TypeOK, Conversations, NoConv
  <2>1. CASE c \in ended
    <3>0. c \in Conversations /\ c \in Nat
      BY <2>1, Constants DEF TypeOK, Conversations, NoConv
    <3>1. \A p \in Providers : conv[p] # c
      BY <2>1 DEF ResetsOK
    <3>2. c <= convs
      BY <2>1 DEF ResetsOK
    <3>3. ASSUME NEW m \in Providers, Moves(m) PROVE \A p \in Providers : conv'[p] # c
      <4>1. \A q \in Providers : conv'[q] = IF q = m THEN convs + 1 ELSE conv[q]
        BY <3>3 DEF Moves, TypeOK
      <4> QED BY <2>0, <3>0, <3>1, <3>2, <4>1
    <3>4. \A p \in Providers : conv'[p] # c
      BY <3>1, <3>3, ConvMoves
    <3> QED BY <2>1, <3>0, <3>4 DEF ResetsOK
  <2>2. CASE c \notin ended
    <3>1. PICK p \in Providers : ResetDone(p) /\ c = conv[p]
      BY <1>2, <2>2 DEF Next, HostStep, vars, SyncTurn, TurnCheck, TurnStore, Compress,
         CompressCheck, CompressStore, Reset, ResetList, ResetArchive, ResetDone,
         Initialize, Pin, Unpin
    <3>2. c \in Conversations /\ c \in Nat /\ c <= convs
      BY <3>1, Constants DEF ConvsOK, TypeOK, Conversations, NoConv
    <3>3. AnchorsOf(c) = {}
      BY <3>1 DEF ResetDone, ResetsOK
    <3>4. \A q \in Providers : conv'[q] = IF q = p THEN convs + 1 ELSE conv[q]
      BY <3>1 DEF ResetDone, TypeOK
    <3>5. \A q \in Providers : conv'[q] # c
      BY <2>0, <3>1, <3>2, <3>4, OwnConvs
    <3>6. \A t \in Turns : Running(t) => turn[t].conv # c
      BY <3>1, RunnerAlone DEF ResetDone
    <3> QED BY <3>2, <3>3, <3>5, <3>6
  <2> QED BY <2>1, <2>2
<1>3. ASSUME NEW c \in ended', NEW i \in AnchorsOf(c)' PROVE FALSE
  <2>1. \A p \in Providers : host[p].pc = "c_store" => conv[p] # c
    <3>1. \A p \in Providers : conv'[p] # c
      BY <1>2
    <3>2. \A p \in Providers : host[p].pc = "c_store" /\ conv'[p] # conv[p] => FALSE
      BY ConvMoves DEF Next, HostStep, vars, SyncTurn, TurnCheck, TurnStore, Compress,
         CompressCheck, CompressStore, Reset, ResetList, ResetArchive, ResetDone,
         Initialize, Pin, Unpin, TypeOK
    <3> QED BY <3>1, <3>2
  <2> QED BY <1>2, <1>3, <2>1, NobodyStores
<1>4. ASSUME NEW c \in ended', NEW t \in Turns, Running(t)' PROVE turn'[t].conv # c
  <2>1. CASE \A p \in Providers : ~SyncTurn(p)
    BY <1>2, <1>4, <2>1, NoThreadStarts
  <2>2. ASSUME NEW p \in Providers, SyncTurn(p) PROVE turn'[t].conv # c
    <3>1. conv' = conv /\ conv[p] # c
      BY <1>2, <2>2 DEF SyncTurn
    <3>2. turn'[t] = [pc |-> "check", conv |-> conv[p]] \/ turn'[t] = turn[t]
      BY <2>2 DEF SyncTurn, TypeOK
    <3>3. CASE turn'[t] = turn[t]
      BY <1>2, <1>4, <3>3 DEF Running
    <3> QED BY <3>1, <3>2, <3>3
  <2> QED BY <2>1, <2>2
<1>5. ASSUME NEW c \in ended' PROVE c <= convs'
  <2>1. c \in Nat /\ convs \in Nat /\ c <= convs
    BY <1>2, <1>5, Constants DEF TypeOK, Conversations, NoConv
  <2> QED BY <2>1, ConvMoves DEF Moves
<1>6. \A c \in ended' : AnchorsOf(c)' = {}
  BY <1>3
<1> QED BY <1>1, <1>2, <1>4, <1>5, <1>6 DEF ResetsOK

-----------------------------------------------------------------------------
(* The theorems about a flush that waits.                                    *)

LEMMA InitInTime == FewAnonymous /\ Init => InTime
<1> SUFFICES ASSUME FewAnonymous, Init PROVE RunnersOK /\ AnchorsOK /\ ResetsOK
  BY DEF InTime
<1>1. \A i \in Ids : ~Live(i)
  BY DEF Init, Live, Exists
<1>2. RunnersOK
  BY Constants DEF Init, RunnersOK, FewAnonymous, Running, NotStarted, IdleHost, NoTurn, Turns
<1>3. AnchorsOK /\ ResetsOK
  BY <1>1 DEF Init, AnchorsOK, ResetsOK, AnchorsOf, NotStarted, IdleHost
<1> QED BY <1>2, <1>3

LEMMA InTimeInvariance == ASSUME FewAnonymous, LongLists PROVE Spec => []InTime
<1>1. IInv /\ InTime /\ [Next]_vars => InTime'
  BY SettingFixed, RunnersStep, AnchorsStep, ResetsStep DEF IInv, InTime
<1>2. Init => InTime
  BY InitInTime
<1> QED BY Invariance, <1>1, <1>2, PTL DEF Spec

(* A turn thread and a compression never leave a conversation two anchors,   *)
(* if the flush really waits for the thread, the listings hold every row and *)
(* at most one provider has no session id.                                   *)
THEOREM OneAnchorEach == ASSUME FewAnonymous, LongLists PROVE Spec => []OneAnchor
<1>1. InTime => OneAnchor
  <2> SUFFICES ASSUME AnchorsOK, NEW c \in Conversations PROVE Cardinality(AnchorsOf(c)) <= 1
    BY DEF InTime, OneAnchor
  <2>1. CASE AnchorsOf(c) = {}
    BY <2>1, FS_EmptySet
  <2>2. CASE AnchorsOf(c) # {}
    <3>1. PICK i : i \in AnchorsOf(c)
      BY <2>2
    <3>2. AnchorsOf(c) = {i}
      BY <3>1 DEF AnchorsOK
    <3>3. Cardinality({i}) = 1
      BY FS_Singleton
    <3> QED BY <3>2, <3>3
  <2> QED BY <2>1, <2>2
<1> QED BY InTimeInvariance, <1>1, PTL

(* Under the same conditions, and if no call on the store raises, a reset    *)
(* leaves no anchor behind and none is written for it afterwards.            *)
THEOREM ResetsAreClean == ASSUME FewAnonymous, LongLists PROVE Spec => []ResetLeavesNone
<1>1. InTime => ResetLeavesNone
  BY DEF InTime, ResetsOK, ResetLeavesNone
<1> QED BY InTimeInvariance, <1>1, PTL
=============================================================================
