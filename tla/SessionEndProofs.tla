-------------------------- MODULE SessionEndProofs --------------------------
(***************************************************************************)
(* SessionEnd, for every set of agents and lines and every setting: what   *)
(* an agent is told at recall, how fresh a cached block is, and what the   *)
(* cooldown files record.                                                  *)
(***************************************************************************)
EXTENDS SessionEnd, FiniteSetTheorems, SequenceTheorems, TLAPS

Block == [invariants : SUBSET Lines, derived : SUBSET Lines, saw : Nat, dirty : BOOLEAN,
          held : BOOLEAN]

EnderPlaces == {"idle", "summary", "reflect", "payloads", "clear", "check", "run", "open",
                "record"}

EndCall == [pc : EnderPlaces, todo : Seq(Row), job : Jobs \cup {"none"}]
RecallCall == [pc : {"idle", "load", "store"}, block : Block, dirty : BOOLEAN]

TypeOK ==
    /\ rows \subseteq Row
    /\ ender \in [Agents -> EndCall]
    /\ recaller \in [Agents -> RecallCall]
    /\ cache \in [Agents -> Block]
    /\ learned \in [Agents -> [invariants : SUBSET Lines, derived : SUBSET Lines]]
    /\ written \in [Agents -> Nat]
    /\ tally \in [Jobs -> [whole : Nat, short : Nat, recorded : Nat]]

-----------------------------------------------------------------------------
(* Payloads are rows of the agent with its lines.                            *)

LEMMA SetToSeqType ==
    ASSUME NEW S, IsFiniteSet(S) PROVE SetToSeq(S) \in Seq(S)
<1>1. Cardinality(S) \in Nat /\ ExistsBijection(1 .. Cardinality(S), S)
  BY FS_CardinalityType
<1>2. \E f \in [1 .. Cardinality(S) -> S] : IsInjective(f)
  BY <1>1 DEF ExistsBijection, Bijection, Injection
<1>3. SetToSeq(S) \in [1 .. Cardinality(S) -> S]
  BY <1>2 DEF SetToSeq
<1> QED BY <1>1, <1>3

LEMMA ItemsFinite ==
    ASSUME NEW a, NEW kind, NEW lines, IsFiniteSet(lines)
    PROVE  IsFiniteSet({ItemRow(a, kind, l) : l \in lines})
<1> DEFINE f == [l \in lines |-> ItemRow(a, kind, l)]
           T == {ItemRow(a, kind, l) : l \in lines}
<1>1. f \in Surjection(lines, T)
  BY DEF Surjection
<1> QED BY <1>1, FS_Surjection

LEMMA PayloadsType ==
    ASSUME NEW a \in Agents, NEW invariants \in SUBSET Lines, NEW derived \in SUBSET Lines
    PROVE  Payloads(a, invariants, derived) \in
             Seq({r \in Row : /\ r.agent = a
                              /\ r.invariants \subseteq invariants
                              /\ r.derived \subseteq derived})
<1> DEFINE Mine == {r \in Row : /\ r.agent = a
                                /\ r.invariants \subseteq invariants
                                /\ r.derived \subseteq derived}
           I == {ItemRow(a, "invariant", l) : l \in invariants}
           D == {ItemRow(a, "derived", l) : l \in derived}
           L == IF invariants \cup derived = {} THEN <<>>
                ELSE <<[kind |-> "legacy", agent |-> a, invariants |-> invariants,
                        derived |-> derived, resolved |-> FALSE]>>
<1>1. I \subseteq Mine /\ D \subseteq Mine
  <2>1. ASSUME NEW l \in invariants PROVE ItemRow(a, "invariant", l) \in Mine
    <3>1. l \in Lines /\ {l} \in SUBSET Lines /\ {} \in SUBSET Lines
      OBVIOUS
    <3> QED BY <3>1 DEF ItemRow, Row
  <2>2. ASSUME NEW l \in derived PROVE ItemRow(a, "derived", l) \in Mine
    <3>1. l \in Lines /\ {l} \in SUBSET Lines /\ {} \in SUBSET Lines
      OBVIOUS
    <3> QED BY <3>1 DEF ItemRow, Row
  <2> HIDE DEF Mine
  <2> QED BY <2>1, <2>2
<1>2. IsFiniteSet(I) /\ IsFiniteSet(D)
  BY ItemsFinite, FS_Subset, SessionEndAssumption
<1>3. SetToSeq(I) \in Seq(Mine) /\ SetToSeq(D) \in Seq(Mine)
  <2>1. SetToSeq(I) \in Seq(I) /\ SetToSeq(D) \in Seq(D)
    BY <1>2, SetToSeqType
  <2> HIDE DEF I, D, Mine
  <2> QED BY <1>1, <2>1
<1>4. L \in Seq(Mine)
  <2>1. CASE invariants \cup derived = {}
    BY <2>1
  <2>2. CASE invariants \cup derived # {}
    <3>1. [kind |-> "legacy", agent |-> a, invariants |-> invariants,
           derived |-> derived, resolved |-> FALSE] \in Mine
      BY DEF Row
    <3> HIDE DEF Mine
    <3> QED BY <2>2, <3>1
  <2> QED BY <2>1, <2>2
<1>5. (SetToSeq(I) \o SetToSeq(D)) \o L \in Seq(Mine)
  <2> HIDE DEF I, D, L, Mine
  <2> QED BY <1>3, <1>4
<1> QED BY <1>5 DEF Payloads

-----------------------------------------------------------------------------
(* The inductive invariant.                                                  *)

(* Rows of an agent whose lines its own sessions taught it.                  *)
Home(a) == {r \in Row : /\ r.agent = a
                        /\ r.invariants \subseteq learned[a].invariants
                        /\ r.derived \subseteq learned[a].derived}

(* What an agent may be told.                                                *)
MayTell(a, told) ==
    /\ told.derived \subseteq learned[a].derived
    /\ told.invariants \subseteq learned[a].invariants \cup learned["main"].invariants

HomeOK ==
    /\ \A r \in rows : r \in Home(r.agent)
    /\ \A a \in Agents : /\ ender[a].todo \in Seq(Home(a))
                         /\ MayTell(a, cache[a])
                         /\ MayTell(a, recaller[a].block)

(* A recall that has seen no session end runs beside none, so that nothing is *)
(* written between its reads and its write of the cache.                      *)
FreshOK ==
    \A a \in Agents :
        /\ (recaller[a].pc # "idle" /\ ~recaller[a].dirty) => ~Locked(a)
        /\ (recaller[a].pc = "store" /\ ~recaller[a].dirty /\ ~recaller[a].block.dirty)
              => recaller[a].block.saw = written[a]
        /\ (cache[a].held /\ ~cache[a].dirty /\ ~Locked(a)) => cache[a].saw = written[a]

(* The processes between the end of a job and its record.                     *)
Recording(j) == {a \in Agents : ender[a].pc \in {"open", "record"} /\ ender[a].job = j}

Ended(j) == tally[j].whole + tally[j].short

RecordOK == \A j \in Jobs : tally[j].recorded + Cardinality(Recording(j)) <= Ended(j)

IInv == TypeOK /\ HomeOK /\ FreshOK /\ RecordOK

-----------------------------------------------------------------------------
LEMMA ConstantsType ==
    Idle \in EndCall /\ NoBlock \in Block /\ NoRecall \in RecallCall
BY DEF Idle, EndCall, EnderPlaces, NoBlock, Block, NoRecall, RecallCall

LEMMA GotoType ==
    ASSUME TypeOK, NEW a \in Agents, NEW place \in EnderPlaces, Goto(a, place)
    PROVE  ender' \in [Agents -> EndCall]
<1>1. [ender[a] EXCEPT !.pc = place] \in EndCall
  BY DEF TypeOK, EndCall
<1> QED BY <1>1 DEF Goto, TypeOK

LEMMA AfterJobType == ASSUME NEW a \in Agents PROVE AfterJob(a) \in EndCall
<1>1. [Idle EXCEPT !.pc = "check", !.job = "compact"] \in EndCall
  BY ConstantsType DEF EndCall, EnderPlaces, Jobs
<1> QED BY <1>1, ConstantsType DEF AfterJob

(* What is read is there, and the agent's to read.                           *)
LEMMA ReadsOwned ==
    ASSUME NEW a \in Agents, NEW read \in Reads(a)
    PROVE  read \subseteq rows /\ \A r \in read : IsOwnedByAgent(r, a)
BY DEF Reads

(* The slices are lines.                                                     *)
LEMMA SlicesType ==
    ASSUME TypeOK, NEW a \in Agents, NEW read \in Reads(a)
    PROVE  /\ LoadSlices(a, read).invariants \in SUBSET Lines
           /\ LoadSlices(a, read).derived \in SUBSET Lines
<1>0. read \subseteq rows
  BY ReadsOwned
<1>1. ASSUME NEW r \in read PROVE r.invariants \subseteq Lines /\ r.derived \subseteq Lines
  BY <1>0 DEF TypeOK, Row
<1> QED BY <1>1 DEF LoadSlices, Section, Texts, StillOpen, LegacyDerived

LEMMA InitIInv == Init => IInv
<1> SUFFICES ASSUME Init PROVE IInv
  OBVIOUS
<1>1. TypeOK
  BY ConstantsType DEF Init, TypeOK, Jobs
<1>2. HomeOK
  <2>1. \A a \in Agents : <<>> \in Seq(Home(a))
    OBVIOUS
  <2> QED BY <2>1 DEF Init, HomeOK, MayTell, Idle, NoRecall, NoBlock
<1>3. FreshOK
  BY DEF Init, FreshOK, NoRecall, NoBlock
<1>4. RecordOK
  <2> SUFFICES ASSUME NEW j \in Jobs
               PROVE  tally[j].recorded + Cardinality(Recording(j)) <= Ended(j)
    BY DEF RecordOK
  <2>1. Recording(j) = {}
    BY DEF Init, Recording, Idle
  <2> QED BY <2>1, FS_EmptySet DEF Init, Ended
<1> QED BY <1>1, <1>2, <1>3, <1>4 DEF IInv

LEMMA TypeStep == TypeOK /\ [Next]_vars => TypeOK'
<1> SUFFICES ASSUME TypeOK, [Next]_vars PROVE TypeOK'
  OBVIOUS
<1>1. ASSUME NEW a \in Agents, BeginEnd(a) PROVE TypeOK'
  <2>1. [recaller[a] EXCEPT !.dirty = TRUE] \in RecallCall
    BY DEF TypeOK, RecallCall
  <2>2. ender' \in [Agents -> EndCall]
    BY <1>1, GotoType DEF BeginEnd, EnderPlaces
  <2> QED BY <1>1, <2>1, <2>2 DEF BeginEnd, TypeOK
<1>2. ASSUME NEW a \in Agents, WriteSummary(a) PROVE TypeOK'
  <2>1. ender' \in [Agents -> EndCall]
    BY <1>2, GotoType DEF WriteSummary, EnderPlaces
  <2> QED BY <1>2, <2>1 DEF WriteSummary, TypeOK
<1>3. ASSUME NEW a \in Agents, Reflect(a) PROVE TypeOK'
  <2>1. CASE Goto(a, "clear") /\ UNCHANGED learned
    <3>1. ender' \in [Agents -> EndCall]
      BY <2>1, GotoType DEF EnderPlaces
    <3> QED BY <1>3, <2>1, <3>1 DEF Reflect, TypeOK
  <2>2. ASSUME NEW invariants \in SUBSET Lines, NEW derived \in SUBSET Lines,
               ender' = [ender EXCEPT ![a].pc = "payloads",
                                      ![a].todo = Payloads(a, invariants, derived)],
               learned' = [learned EXCEPT ![a].invariants = @ \cup invariants,
                                          ![a].derived = @ \cup derived]
        PROVE  TypeOK'
    <3>1. Payloads(a, invariants, derived) \in Seq(Row)
      <4> DEFINE Mine == {r \in Row : /\ r.agent = a
                                      /\ r.invariants \subseteq invariants
                                      /\ r.derived \subseteq derived}
      <4>1. Payloads(a, invariants, derived) \in Seq(Mine)
        BY PayloadsType
      <4>2. Mine \subseteq Row
        OBVIOUS
      <4> HIDE DEF Mine
      <4> QED BY <4>1, <4>2
    <3>2. [ender[a] EXCEPT !.pc = "payloads", !.todo = Payloads(a, invariants, derived)]
            \in EndCall
      <4>1. ender[a] \in EndCall
        BY DEF TypeOK
      <4>2. \A todo \in Seq(Row) :
               [ender[a] EXCEPT !.pc = "payloads", !.todo = todo] \in EndCall
        BY <4>1 DEF EndCall, EnderPlaces
      <4> QED BY <3>1, <4>2
    <3>3. ender' \in [Agents -> EndCall]
      BY <2>2, <3>2 DEF TypeOK
    <3>4. learned' \in [Agents -> [invariants : SUBSET Lines, derived : SUBSET Lines]]
      BY <2>2 DEF TypeOK
    <3> QED BY <1>3, <3>3, <3>4 DEF Reflect, TypeOK
  <2> QED BY <1>3, <2>1, <2>2 DEF Reflect
<1>4. ASSUME NEW a \in Agents, StorePayload(a) PROVE TypeOK'
  <2>1. ender[a].todo \in Seq(Row) /\ ender[a].todo # <<>>
    BY <1>4 DEF StorePayload, TypeOK, EndCall
  <2>2. Head(ender[a].todo) \in Row /\ Tail(ender[a].todo) \in Seq(Row)
    BY <2>1
  <2>3. [ender[a] EXCEPT !.todo = Tail(@)] \in EndCall
    BY <2>2 DEF TypeOK, EndCall
  <2>4. ender' \in [Agents -> EndCall]
    BY <1>4, <2>3 DEF StorePayload, TypeOK
  <2> QED BY <1>4, <2>2, <2>4 DEF StorePayload, TypeOK
<1>5. ASSUME NEW a \in Agents, PayloadsDone(a) PROVE TypeOK'
  <2>1. ender' \in [Agents -> EndCall]
    BY <1>5, GotoType DEF PayloadsDone, EnderPlaces
  <2> QED BY <1>5, <2>1 DEF PayloadsDone, TypeOK
<1>6. ASSUME NEW a \in Agents, ClearCache(a) PROVE TypeOK'
  <2>0. "check" \in EnderPlaces /\ "purge" \in Jobs \cup {"none"} /\ ender[a] \in EndCall
    BY DEF TypeOK, EnderPlaces, Jobs
  <2>1. [ender[a] EXCEPT !.pc = "check", !.job = "purge"] \in EndCall
    BY <2>0 DEF EndCall
  <2> QED BY <1>6, <2>1, ConstantsType DEF ClearCache, Cleared, TypeOK
<1>7. ASSUME NEW a \in Agents, CheckJob(a) PROVE TypeOK'
  <2>0. "run" \in EnderPlaces /\ ender[a] \in EndCall
    BY DEF TypeOK, EnderPlaces
  <2>1. [ender[a] EXCEPT !.pc = "run"] \in EndCall
    BY <2>0 DEF EndCall
  <2> QED BY <1>7, <2>1, AfterJobType DEF CheckJob, TypeOK
<1>8. ASSUME NEW a \in Agents, RunJob(a) PROVE TypeOK'
  <2>1. ender' \in [Agents -> EndCall]
    BY <1>8, GotoType, AfterJobType DEF RunJob, AfterFailure, EnderPlaces, TypeOK
  <2>2. tally' \in [Jobs -> [whole : Nat, short : Nat, recorded : Nat]]
    <3>1. ASSUME NEW j \in Jobs, NEW how \in {"whole", "short"}
          PROVE  [tally[j] EXCEPT ![how] = @ + 1] \in [whole : Nat, short : Nat, recorded : Nat]
      BY DEF TypeOK
    <3> QED BY <1>8, <3>1 DEF RunJob, TypeOK
  <2> QED BY <1>8, <2>1, <2>2 DEF RunJob, TypeOK
<1>9. ASSUME NEW a \in Agents, OpenStamp(a) PROVE TypeOK'
  <2>1. ender' \in [Agents -> EndCall]
    BY <1>9, GotoType DEF OpenStamp, EnderPlaces
  <2> QED BY <1>9, <2>1 DEF OpenStamp, TypeOK
<1>10. ASSUME NEW a \in Agents, WriteStamp(a) PROVE TypeOK'
  <2>1. ASSUME NEW j \in Jobs
        PROVE  [tally[j] EXCEPT !.recorded = @ + 1] \in [whole : Nat, short : Nat, recorded : Nat]
    BY DEF TypeOK
  <2>2. tally' \in [Jobs -> [whole : Nat, short : Nat, recorded : Nat]]
    BY <1>10, <2>1 DEF WriteStamp, TypeOK
  <2> QED BY <1>10, <2>2, AfterJobType DEF WriteStamp, TypeOK
<1>11. ASSUME NEW a \in Agents, LookUp(a) PROVE TypeOK'
  <2>1. Locked(a) \in BOOLEAN
    BY DEF Locked
  <2>2. [NoRecall EXCEPT !.pc = "load", !.dirty = Locked(a)] \in RecallCall
    BY <2>1, ConstantsType DEF RecallCall
  <2> QED BY <1>11, <2>2 DEF LookUp, TypeOK
<1>12. ASSUME NEW a \in Agents, LoadBlock(a) PROVE TypeOK'
  <2>0. PICK read \in Reads(a) :
           recaller' = [recaller EXCEPT ![a].pc = "store", ![a].block =
               [invariants |-> LoadSlices(a, read).invariants,
                derived |-> LoadSlices(a, read).derived,
                saw |-> written[a], held |-> TRUE, dirty |-> FALSE]]
    BY <1>12 DEF LoadBlock
  <2>1. /\ LoadSlices(a, read).invariants \in SUBSET Lines
        /\ LoadSlices(a, read).derived \in SUBSET Lines
    BY SlicesType
  <2> DEFINE block == [invariants |-> LoadSlices(a, read).invariants,
                       derived |-> LoadSlices(a, read).derived,
                       saw |-> written[a], held |-> TRUE, dirty |-> FALSE]
  <2>2. block \in Block
    BY <2>1 DEF Block, TypeOK
  <2> HIDE DEF block
  <2>3. [recaller[a] EXCEPT !.pc = "store", !.block = block] \in RecallCall
    BY <2>2 DEF TypeOK, RecallCall
  <2>4. recaller' = [recaller EXCEPT ![a] = [@ EXCEPT !.pc = "store", !.block = block]]
    BY <2>0 DEF block
  <2> QED BY <1>12, <2>3, <2>4 DEF LoadBlock, TypeOK
<1>13. ASSUME NEW a \in Agents, LoadFails(a) PROVE TypeOK'
  <2>1. [NoBlock EXCEPT !.held = TRUE] \in Block
    BY DEF NoBlock, Block
  <2>2. [recaller[a] EXCEPT !.pc = "store", !.block = [NoBlock EXCEPT !.held = TRUE]]
          \in RecallCall
    BY <2>1 DEF TypeOK, RecallCall
  <2> QED BY <1>13, <2>2 DEF LoadFails, TypeOK
<1>14. ASSUME NEW a \in Agents, StoreBlock(a) PROVE TypeOK'
  <2>1. [recaller[a].block EXCEPT !.dirty = @ \/ recaller[a].dirty] \in Block
    <3>1. recaller[a].block \in Block /\ recaller[a].dirty \in BOOLEAN
      BY DEF TypeOK, RecallCall
    <3> QED BY <3>1 DEF Block
  <2> QED BY <1>14, <2>1, ConstantsType DEF StoreBlock, TypeOK
<1>15. ASSUME NEW a \in Agents, Die(a) PROVE TypeOK'
  BY <1>15, ConstantsType DEF Die, TypeOK
<1>16. ASSUME NEW row \in rows, Resolve(row) PROVE TypeOK'
  <2>1. [row EXCEPT !.resolved = TRUE] \in Row
    BY DEF Row, TypeOK
  <2> QED BY <1>16, <2>1 DEF Resolve, TypeOK
<1>17. CASE Tick
  BY <1>17 DEF Tick, TypeOK
<1>18. CASE UNCHANGED vars
  BY <1>18 DEF vars, TypeOK
<1> QED
  BY <1>1, <1>2, <1>3, <1>4, <1>5, <1>6, <1>7, <1>8, <1>9, <1>10, <1>11, <1>12, <1>13, <1>14,
     <1>15, <1>16, <1>17, <1>18 DEF Next, EnderStep, RecallStep

-----------------------------------------------------------------------------
(* What is told is one's own.                                                *)

LEMMA SlicesHome ==
    ASSUME TypeOK, HomeOK, NEW a \in Agents, NEW read \in Reads(a)
    PROVE  MayTell(a, LoadSlices(a, read))
<1>0. read \subseteq rows /\ \A r \in read : IsOwnedByAgent(r, a)
  BY ReadsOwned
<1>1. ASSUME NEW r \in read
      PROVE  r.invariants \subseteq learned[a].invariants \cup learned["main"].invariants
  BY <1>0 DEF HomeOK, Home, IsOwnedByAgent
<1>2. ASSUME NEW r \in read, r.kind = "derived" PROVE r.derived \subseteq learned[a].derived
  BY <1>0, <1>2 DEF HomeOK, Home, IsOwnedByAgent
<1>3. ASSUME NEW r \in read PROVE LegacyDerived(r, a) \subseteq learned[a].derived
  BY <1>0 DEF HomeOK, Home, LegacyDerived
<1>4. LoadSlices(a, read).invariants \subseteq learned[a].invariants \cup learned["main"].invariants
  BY <1>1 DEF LoadSlices, Section, Texts, StillOpen
<1>5. LoadSlices(a, read).derived \subseteq learned[a].derived
  BY <1>2, <1>3 DEF LoadSlices, Section, Texts, StillOpen
<1> QED BY <1>4, <1>5 DEF MayTell

(* Learning more takes nothing away.                                         *)
LEMMA HomeGrows ==
    ASSUME TypeOK, NEW a \in Agents,
           \A b \in Agents : /\ learned[b].invariants \subseteq learned'[b].invariants
                             /\ learned[b].derived \subseteq learned'[b].derived
    PROVE  /\ Home(a) \subseteq Home(a)'
           /\ \A told : MayTell(a, told) => MayTell(a, told)'
BY SessionEndAssumption DEF Home, MayTell

(* HomeOK where only these parts change.                                     *)
LEMMA KeepsHome ==
    ASSUME HomeOK, UNCHANGED learned,
           \A r \in rows' : r \in rows \/ r \in Home(r.agent),
           \A a \in Agents : /\ ender'[a].todo = ender[a].todo \/ ender'[a].todo \in Seq(Home(a))
                             /\ cache'[a] = cache[a] \/ MayTell(a, cache'[a])
                             /\ \/ recaller'[a].block = recaller[a].block
                                \/ MayTell(a, recaller'[a].block)
    PROVE  HomeOK'
<1>1. \A a : Home(a)' = Home(a) /\ \A told : MayTell(a, told)' = MayTell(a, told)
  BY DEF Home, MayTell
<1>2. \A r \in rows' : r \in Home(r.agent)'
  BY <1>1 DEF HomeOK
<1>3. ASSUME NEW a \in Agents
      PROVE  /\ ender'[a].todo \in Seq(Home(a)')
             /\ MayTell(a, cache[a])'
             /\ MayTell(a, recaller[a].block)'
  BY <1>1 DEF HomeOK, MayTell
<1> QED BY <1>2, <1>3 DEF HomeOK

LEMMA EmptyHome ==
    /\ \A a : /\ MayTell(a, NoBlock) /\ MayTell(a, [NoBlock EXCEPT !.held = TRUE])
            /\ MayTell(a, NoRecall.block)
    /\ \A a : Idle.todo \in Seq(Home(a)) /\ AfterJob(a).todo \in Seq(Home(a))
<1>1. \A a : /\ MayTell(a, NoBlock) /\ MayTell(a, [NoBlock EXCEPT !.held = TRUE])
            /\ MayTell(a, NoRecall.block)
  BY DEF MayTell, NoBlock, NoRecall
<1>2. \A a : Idle.todo = <<>> /\ AfterJob(a).todo = <<>>
  BY DEF Idle, AfterJob
<1>3. \A a : <<>> \in Seq(Home(a))
  OBVIOUS
<1> QED BY <1>1, <1>2, <1>3

LEMMA HomeStep == TypeOK /\ HomeOK /\ [Next]_vars => HomeOK'
<1> SUFFICES ASSUME TypeOK, HomeOK, [Next]_vars PROVE HomeOK'
  OBVIOUS
<1>1. ASSUME NEW a \in Agents, BeginEnd(a) PROVE HomeOK'
  <2>1. /\ rows' = rows /\ UNCHANGED learned
        /\ \A b \in Agents : ender'[b].todo = ender[b].todo
        /\ cache' = cache /\ \A b \in Agents : recaller'[b].block = recaller[b].block
    BY <1>1 DEF BeginEnd, Goto, TypeOK, EndCall, RecallCall
  <2> QED BY <2>1, KeepsHome
<1>2. ASSUME NEW a \in Agents, WriteSummary(a) PROVE HomeOK'
  <2>1. /\ rows' = rows /\ UNCHANGED learned
        /\ \A b \in Agents : ender'[b].todo = ender[b].todo
        /\ cache' = cache /\ \A b \in Agents : recaller'[b].block = recaller[b].block
    BY <1>2 DEF WriteSummary, Goto, TypeOK, EndCall, RecallCall
  <2> QED BY <2>1, KeepsHome
<1>3. ASSUME NEW a \in Agents, Reflect(a) PROVE HomeOK'
  <2>1. CASE Goto(a, "clear") /\ UNCHANGED learned
    <3>1. /\ rows' = rows /\ UNCHANGED <<cache, recaller>>
          /\ \A b \in Agents : ender'[b].todo = ender[b].todo
      BY <1>3, <2>1 DEF Reflect, Goto, TypeOK, EndCall
    <3> QED BY <2>1, <3>1, KeepsHome
  <2>2. ASSUME NEW invariants \in SUBSET Lines, NEW derived \in SUBSET Lines,
               ender' = [ender EXCEPT ![a].pc = "payloads",
                                      ![a].todo = Payloads(a, invariants, derived)],
               learned' = [learned EXCEPT ![a].invariants = @ \cup invariants,
                                          ![a].derived = @ \cup derived]
        PROVE  HomeOK'
    <3>1. \A b \in Agents : /\ learned[b].invariants \subseteq learned'[b].invariants
                            /\ learned[b].derived \subseteq learned'[b].derived
      BY <2>2 DEF TypeOK
    <3>2. UNCHANGED <<rows, cache, recaller>>
      BY <1>3 DEF Reflect
    <3>3. ASSUME NEW r \in rows' PROVE r \in Home(r.agent)'
      <4>1. r.agent \in Agents /\ r \in Home(r.agent)
        BY <3>2 DEF HomeOK, TypeOK, Row
      <4> QED BY <3>1, <4>1, HomeGrows
    <3>4. ASSUME NEW b \in Agents PROVE ender'[b].todo \in Seq(Home(b)')
      <4>1. CASE b = a
        <5> DEFINE Mine == {r \in Row : /\ r.agent = a
                                        /\ r.invariants \subseteq invariants
                                        /\ r.derived \subseteq derived}
        <5>1. Payloads(a, invariants, derived) \in Seq(Mine)
          BY PayloadsType
        <5>2. Mine \subseteq Home(a)'
          BY <2>2 DEF Home, TypeOK
        <5>3. ender'[a].todo = Payloads(a, invariants, derived)
          BY <2>2 DEF TypeOK, EndCall
        <5> HIDE DEF Mine
        <5> QED BY <4>1, <5>1, <5>2, <5>3
      <4>2. CASE b # a
        <5>1. ender'[b].todo = ender[b].todo
          BY <2>2, <4>2 DEF TypeOK
        <5>2. ender[b].todo \in Seq(Home(b)) /\ Home(b) \subseteq Home(b)'
          BY <3>1, HomeGrows DEF HomeOK
        <5> QED BY <5>1, <5>2
      <4> QED BY <4>1, <4>2
    <3>5. ASSUME NEW b \in Agents
          PROVE  MayTell(b, cache[b])' /\ MayTell(b, recaller[b].block)'
      <4>1. MayTell(b, cache[b]) /\ MayTell(b, recaller[b].block)
        BY DEF HomeOK
      <4> QED BY <3>1, <3>2, <4>1, HomeGrows DEF MayTell
    <3> QED BY <3>3, <3>4, <3>5 DEF HomeOK
  <2> QED BY <1>3, <2>1, <2>2 DEF Reflect
<1>4. ASSUME NEW a \in Agents, StorePayload(a) PROVE HomeOK'
  <2>1. ender[a].todo \in Seq(Home(a)) /\ ender[a].todo # <<>>
    BY <1>4 DEF StorePayload, HomeOK
  <2>2. Head(ender[a].todo) \in Home(a) /\ Tail(ender[a].todo) \in Seq(Home(a))
    BY <2>1
  <2>3. Head(ender[a].todo).agent = a
    BY <2>2 DEF Home
  <2>4. UNCHANGED learned /\ \A r \in rows' : r \in rows \/ r \in Home(r.agent)
    BY <1>4, <2>2, <2>3 DEF StorePayload
  <2>5. \A b \in Agents : ender'[b].todo = ender[b].todo \/ ender'[b].todo \in Seq(Home(b))
    BY <1>4, <2>2 DEF StorePayload, TypeOK, EndCall
  <2> QED BY <1>4, <2>4, <2>5, KeepsHome DEF StorePayload
<1>5. ASSUME NEW a \in Agents, PayloadsDone(a) PROVE HomeOK'
  <2>1. /\ rows' = rows /\ UNCHANGED learned
        /\ \A b \in Agents : ender'[b].todo = ender[b].todo
        /\ cache' = cache /\ \A b \in Agents : recaller'[b].block = recaller[b].block
    BY <1>5 DEF PayloadsDone, Goto, TypeOK, EndCall, RecallCall
  <2> QED BY <2>1, KeepsHome
<1>6. ASSUME NEW a \in Agents, ClearCache(a) PROVE HomeOK'
  <2>1. /\ UNCHANGED <<rows, learned, recaller>>
        /\ \A b \in Agents : ender'[b].todo = ender[b].todo
    BY <1>6 DEF ClearCache, TypeOK, EndCall
  <2>2. \A b \in Agents : cache'[b] = cache[b] \/ MayTell(b, cache'[b])
    BY <1>6, EmptyHome DEF ClearCache, Cleared, TypeOK
  <2> QED BY <2>1, <2>2, KeepsHome
<1>7. ASSUME NEW a \in Agents, CheckJob(a) PROVE HomeOK'
  <2>1. /\ rows' = rows /\ UNCHANGED learned /\ UNCHANGED <<cache, recaller>>
        /\ \A b \in Agents : ender'[b].todo = ender[b].todo \/ ender'[b].todo \in Seq(Home(b))
    BY <1>7, EmptyHome DEF CheckJob, TypeOK, EndCall
  <2> QED BY <2>1, KeepsHome
<1>8. ASSUME NEW a \in Agents, RunJob(a) PROVE HomeOK'
  <2>1. /\ rows' = rows /\ UNCHANGED learned /\ UNCHANGED <<cache, recaller>>
        /\ \A b \in Agents : ender'[b].todo = ender[b].todo \/ ender'[b].todo \in Seq(Home(b))
    <3>1. CASE Goto(a, "open")
      BY <1>8, <3>1 DEF RunJob, Goto, TypeOK, EndCall
    <3>2. CASE ender' = [ender EXCEPT ![a] = AfterFailure(a)]
      BY <1>8, <3>2, EmptyHome DEF RunJob, AfterFailure, TypeOK
    <3> QED BY <1>8, <3>1, <3>2 DEF RunJob
  <2> QED BY <2>1, KeepsHome
<1>9. ASSUME NEW a \in Agents, OpenStamp(a) PROVE HomeOK'
  <2>1. /\ rows' = rows /\ UNCHANGED learned
        /\ \A b \in Agents : ender'[b].todo = ender[b].todo
        /\ cache' = cache /\ \A b \in Agents : recaller'[b].block = recaller[b].block
    BY <1>9 DEF OpenStamp, Goto, TypeOK, EndCall, RecallCall
  <2> QED BY <2>1, KeepsHome
<1>10. ASSUME NEW a \in Agents, WriteStamp(a) PROVE HomeOK'
  <2>1. /\ rows' = rows /\ UNCHANGED learned /\ UNCHANGED <<cache, recaller>>
        /\ \A b \in Agents : ender'[b].todo = ender[b].todo \/ ender'[b].todo \in Seq(Home(b))
    BY <1>10, EmptyHome DEF WriteStamp, TypeOK, EndCall
  <2> QED BY <2>1, KeepsHome
<1>11. ASSUME NEW a \in Agents, LookUp(a) PROVE HomeOK'
  <2>1. UNCHANGED <<rows, learned, ender, cache>>
    BY <1>11 DEF LookUp
  <2> DEFINE new == [NoRecall EXCEPT !.pc = "load", !.dirty = Locked(a)]
  <2>3. new.block = NoRecall.block
    BY DEF NoRecall
  <2>4. UNCHANGED recaller \/ recaller' = [recaller EXCEPT ![a] = new]
    BY <1>11 DEF LookUp
  <2> HIDE DEF new
  <2>2. \A b \in Agents : \/ recaller'[b].block = recaller[b].block
                          \/ MayTell(b, recaller'[b].block)
    BY <2>3, <2>4, EmptyHome DEF TypeOK
  <2> QED BY <2>1, <2>2, KeepsHome
<1>12. ASSUME NEW a \in Agents, LoadBlock(a) PROVE HomeOK'
  <2>1. UNCHANGED <<rows, learned, ender, cache>>
    BY <1>12 DEF LoadBlock
  <2>2. PICK read \in Reads(a) :
           /\ recaller'[a].block.invariants = LoadSlices(a, read).invariants
           /\ recaller'[a].block.derived = LoadSlices(a, read).derived
           /\ \A b \in Agents \ {a} : recaller'[b] = recaller[b]
    BY <1>12 DEF LoadBlock, TypeOK, RecallCall
  <2>3. MayTell(a, recaller'[a].block)
    BY <2>2, SlicesHome DEF MayTell
  <2> QED BY <2>1, <2>2, <2>3, KeepsHome
<1>13. ASSUME NEW a \in Agents, LoadFails(a) PROVE HomeOK'
  <2>1. UNCHANGED <<rows, learned, ender, cache>>
    BY <1>13 DEF LoadFails
  <2>2. \A b \in Agents : \/ recaller'[b].block = recaller[b].block
                          \/ MayTell(b, recaller'[b].block)
    BY <1>13, EmptyHome DEF LoadFails, TypeOK, RecallCall
  <2> QED BY <2>1, <2>2, KeepsHome
<1>14. ASSUME NEW a \in Agents, StoreBlock(a) PROVE HomeOK'
  <2>1. UNCHANGED <<rows, learned, ender>>
    BY <1>14 DEF StoreBlock
  <2>2. /\ cache'[a].invariants = recaller[a].block.invariants
        /\ cache'[a].derived = recaller[a].block.derived
        /\ \A b \in Agents \ {a} : cache'[b] = cache[b]
    BY <1>14 DEF StoreBlock, TypeOK, RecallCall, Block
  <2>3. MayTell(a, cache'[a])
    BY <2>2 DEF HomeOK, MayTell
  <2>4. \A b \in Agents : \/ recaller'[b].block = recaller[b].block
                          \/ MayTell(b, recaller'[b].block)
    BY <1>14, EmptyHome DEF StoreBlock, TypeOK
  <2> QED BY <2>1, <2>2, <2>3, <2>4, KeepsHome
<1>15. ASSUME NEW a \in Agents, Die(a) PROVE HomeOK'
  <2>1. UNCHANGED <<rows, learned>>
    BY <1>15 DEF Die
  <2>2. \A b \in Agents : ender'[b].todo = ender[b].todo \/ ender'[b].todo \in Seq(Home(b))
    BY <1>15, EmptyHome DEF Die, TypeOK
  <2>3. \A b \in Agents : /\ cache'[b] = cache[b] \/ MayTell(b, cache'[b])
                          /\ \/ recaller'[b].block = recaller[b].block
                             \/ MayTell(b, recaller'[b].block)
    BY <1>15, EmptyHome DEF Die, TypeOK
  <2> QED BY <2>1, <2>2, <2>3, KeepsHome
<1>16. ASSUME NEW row \in rows, Resolve(row) PROVE HomeOK'
  <2>1. [row EXCEPT !.resolved = TRUE] \in Home(row.agent)
    BY DEF HomeOK, Home, Row
  <2>2. [row EXCEPT !.resolved = TRUE].agent = row.agent
    BY DEF TypeOK, Row
  <2>3. \A r \in rows' : r \in rows \/ r \in Home(r.agent)
    BY <1>16, <2>1, <2>2 DEF Resolve
  <2> QED BY <1>16, <2>3, KeepsHome DEF Resolve
<1>17. CASE Tick \/ UNCHANGED vars
  BY <1>17, KeepsHome DEF Tick, vars
<1> QED
  BY <1>1, <1>2, <1>3, <1>4, <1>5, <1>6, <1>7, <1>8, <1>9, <1>10, <1>11, <1>12, <1>13, <1>14,
     <1>15, <1>16, <1>17 DEF Next, EnderStep, RecallStep

-----------------------------------------------------------------------------
(* A recall that overlapped no session end knows what is written.            *)

(* Where a reflection and a job leave the session end.                        *)
LEMMA ReflectMoves ==
    ASSUME TypeOK, NEW a \in Agents, Reflect(a)
    PROVE  /\ ender'[a].pc \in {"payloads", "clear"}
           /\ \A b \in Agents \ {a} : ender'[b] = ender[b]
<1>1. CASE Goto(a, "clear")
  BY <1>1 DEF Goto, TypeOK, EndCall
<1>2. ASSUME NEW invariants, NEW derived,
             ender' = [ender EXCEPT ![a].pc = "payloads",
                                    ![a].todo = Payloads(a, invariants, derived)]
      PROVE  /\ ender'[a].pc \in {"payloads", "clear"}
             /\ \A b \in Agents \ {a} : ender'[b] = ender[b]
  BY <1>2 DEF TypeOK, EndCall
<1> QED BY <1>1, <1>2 DEF Reflect

LEMMA RunMoves ==
    ASSUME TypeOK, NEW a \in Agents, RunJob(a)
    PROVE  /\ ender'[a].pc \in {"open", "check", "idle"}
           /\ \A b \in Agents \ {a} : ender'[b] = ender[b]
<1>1. CASE Goto(a, "open")
  BY <1>1 DEF Goto, TypeOK, EndCall
<1>2. CASE ender' = [ender EXCEPT ![a] = AfterJob(a)]
  <2>1. AfterJob(a).pc \in {"check", "idle"}
    BY DEF AfterJob, Idle
  <2> QED BY <1>2, <2>1 DEF TypeOK
<1> QED BY <1>1, <1>2 DEF RunJob, AfterFailure

LEMMA FreshStep == TypeOK /\ FreshOK /\ [Next]_vars => FreshOK'
<1> SUFFICES ASSUME TypeOK, FreshOK, [Next]_vars PROVE FreshOK'
  OBVIOUS
<1>1. ASSUME NEW a \in Agents, BeginEnd(a) PROVE FreshOK'
  BY <1>1 DEF BeginEnd, FreshOK, Locked, Goto, TypeOK, EndCall, RecallCall
<1>2. ASSUME NEW a \in Agents, WriteSummary(a) PROVE FreshOK'
  BY <1>2 DEF WriteSummary, FreshOK, Locked, Goto, TypeOK, EndCall, RecallCall
<1>3. ASSUME NEW a \in Agents, Reflect(a) PROVE FreshOK'
  <2>1. UNCHANGED <<recaller, cache, written>> /\ Locked(a)
    BY <1>3 DEF Reflect, Locked
  <2>2. /\ ender'[a].pc \in {"payloads", "clear"}
        /\ \A b \in Agents \ {a} : ender'[b] = ender[b]
    BY <1>3, ReflectMoves
  <2>3. \A b \in Agents : Locked(b)' = Locked(b)
    BY <2>1, <2>2 DEF Locked
  <2> QED BY <2>1, <2>3 DEF FreshOK
<1>4. ASSUME NEW a \in Agents, StorePayload(a) PROVE FreshOK'
  BY <1>4 DEF StorePayload, FreshOK, Locked, Goto, TypeOK, EndCall, RecallCall
<1>5. ASSUME NEW a \in Agents, PayloadsDone(a) PROVE FreshOK'
  BY <1>5 DEF PayloadsDone, FreshOK, Locked, Goto, TypeOK, EndCall, RecallCall
<1>6. ASSUME NEW a \in Agents, ClearCache(a) PROVE FreshOK'
  BY <1>6 DEF ClearCache, FreshOK, Locked, Goto, TypeOK, EndCall, RecallCall, Cleared, NoBlock
<1>7. ASSUME NEW a \in Agents, CheckJob(a) PROVE FreshOK'
  BY <1>7 DEF CheckJob, FreshOK, Locked, Goto, TypeOK, EndCall, RecallCall, AfterJob, Idle
<1>8. ASSUME NEW a \in Agents, RunJob(a) PROVE FreshOK'
  <2>1. UNCHANGED <<recaller, cache, written>> /\ ~Locked(a)
    BY <1>8 DEF RunJob, Locked
  <2>2. /\ ender'[a].pc \in {"open", "check", "idle"}
        /\ \A b \in Agents \ {a} : ender'[b] = ender[b]
    BY <1>8, RunMoves
  <2>3. \A b \in Agents : Locked(b)' = Locked(b)
    BY <2>1, <2>2 DEF Locked
  <2> QED BY <2>1, <2>3 DEF FreshOK
<1>9. ASSUME NEW a \in Agents, OpenStamp(a) PROVE FreshOK'
  BY <1>9 DEF OpenStamp, FreshOK, Locked, Goto, TypeOK, EndCall, RecallCall
<1>10. ASSUME NEW a \in Agents, WriteStamp(a) PROVE FreshOK'
  BY <1>10 DEF WriteStamp, FreshOK, Locked, Goto, TypeOK, EndCall, RecallCall, AfterJob, Idle
<1>11. ASSUME NEW a \in Agents, LookUp(a) PROVE FreshOK'
  <2>1. UNCHANGED <<ender, cache, written>>
    BY <1>11 DEF LookUp
  <2>2. CASE UNCHANGED recaller
    BY <2>1, <2>2 DEF FreshOK, Locked
  <2>3. CASE recaller' = [recaller EXCEPT ![a] =
                            [NoRecall EXCEPT !.pc = "load", !.dirty = Locked(a)]]
    <3>1. /\ recaller'[a].pc = "load" /\ recaller'[a].dirty = Locked(a)
          /\ \A b \in Agents \ {a} : recaller'[b] = recaller[b]
      BY <2>3 DEF TypeOK, NoRecall
    <3>2. \A b \in Agents : Locked(b)' = Locked(b)
      BY <2>1 DEF Locked
    <3> QED BY <2>1, <3>1, <3>2 DEF FreshOK
  <2> QED BY <1>11, <2>2, <2>3 DEF LookUp
<1>12. ASSUME NEW a \in Agents, LoadBlock(a) PROVE FreshOK'
  BY <1>12 DEF LoadBlock, FreshOK, Locked, Goto, TypeOK, EndCall, RecallCall
<1>13. ASSUME NEW a \in Agents, LoadFails(a) PROVE FreshOK'
  BY <1>13 DEF LoadFails, FreshOK, Locked, Goto, TypeOK, EndCall, RecallCall, NoBlock
<1>14. ASSUME NEW a \in Agents, StoreBlock(a) PROVE FreshOK'
  BY <1>14 DEF StoreBlock, FreshOK, Locked, Goto, TypeOK, EndCall, RecallCall, NoRecall, Block
<1>15. ASSUME NEW a \in Agents, Die(a) PROVE FreshOK'
  BY <1>15 DEF Die, FreshOK, Locked, Goto, TypeOK, EndCall, RecallCall, Idle, NoRecall, NoBlock
<1>16. ASSUME NEW row \in rows, Resolve(row) PROVE FreshOK'
  BY <1>16 DEF Resolve, FreshOK, Locked
<1>17. CASE Tick \/ UNCHANGED vars
  BY <1>17 DEF Tick, vars, FreshOK, Locked
<1> QED
  BY <1>1, <1>2, <1>3, <1>4, <1>5, <1>6, <1>7, <1>8, <1>9, <1>10, <1>11, <1>12, <1>13, <1>14,
     <1>15, <1>16, <1>17 DEF Next, EnderStep, RecallStep

-----------------------------------------------------------------------------
(* A record is of a run that ended.                                          *)

LEMMA RecordingFinite ==
    ASSUME NEW j PROVE IsFiniteSet(Recording(j)) /\ Cardinality(Recording(j)) \in Nat
BY SessionEndAssumption, FS_Subset, FS_CardinalityType DEF Recording

(* RecordOK where nobody more is about to record.                             *)
LEMMA KeepsRecord ==
    ASSUME TypeOK, RecordOK, UNCHANGED tally,
           \A j \in Jobs : Recording(j)' \subseteq Recording(j)
    PROVE  RecordOK'
<1> SUFFICES ASSUME NEW j \in Jobs
             PROVE  tally'[j].recorded + Cardinality(Recording(j)') <= Ended(j)'
  BY DEF RecordOK
<1>1. /\ Cardinality(Recording(j)') \in Nat
      /\ Cardinality(Recording(j)') <= Cardinality(Recording(j))
  BY RecordingFinite, FS_Subset, FS_CardinalityType
<1> QED BY <1>1, RecordingFinite DEF RecordOK, TypeOK, Ended

LEMMA RecordStep == TypeOK /\ RecordOK /\ [Next]_vars => RecordOK'
<1> SUFFICES ASSUME TypeOK, RecordOK, [Next]_vars PROVE RecordOK'
  OBVIOUS
<1>1. ASSUME NEW a \in Agents, BeginEnd(a) PROVE RecordOK'
  BY <1>1, KeepsRecord DEF BeginEnd, Recording, Goto, TypeOK, EndCall
<1>2. ASSUME NEW a \in Agents, WriteSummary(a) PROVE RecordOK'
  BY <1>2, KeepsRecord DEF WriteSummary, Recording, Goto, TypeOK, EndCall
<1>3. ASSUME NEW a \in Agents, Reflect(a) PROVE RecordOK'
  <2>1. UNCHANGED tally
    BY <1>3 DEF Reflect
  <2>2. /\ ender'[a].pc \in {"payloads", "clear"}
        /\ \A b \in Agents \ {a} : ender'[b] = ender[b]
    BY <1>3, ReflectMoves
  <2> QED BY <2>1, <2>2, KeepsRecord DEF Recording
<1>4. ASSUME NEW a \in Agents, StorePayload(a) PROVE RecordOK'
  BY <1>4, KeepsRecord DEF StorePayload, Recording, Goto, TypeOK, EndCall
<1>5. ASSUME NEW a \in Agents, PayloadsDone(a) PROVE RecordOK'
  BY <1>5, KeepsRecord DEF PayloadsDone, Recording, Goto, TypeOK, EndCall
<1>6. ASSUME NEW a \in Agents, ClearCache(a) PROVE RecordOK'
  BY <1>6, KeepsRecord DEF ClearCache, Recording, Goto, TypeOK, EndCall
<1>7. ASSUME NEW a \in Agents, CheckJob(a) PROVE RecordOK'
  BY <1>7, KeepsRecord DEF CheckJob, Recording, Goto, TypeOK, EndCall, AfterJob, Idle
<1>8. ASSUME NEW a \in Agents, OpenStamp(a) PROVE RecordOK'
  BY <1>8, KeepsRecord DEF OpenStamp, Recording, Goto, TypeOK, EndCall
<1>9. ASSUME NEW a \in Agents, LookUp(a) PROVE RecordOK'
  BY <1>9, KeepsRecord DEF LookUp, Recording, Goto, TypeOK, EndCall
<1>10. ASSUME NEW a \in Agents, LoadBlock(a) PROVE RecordOK'
  BY <1>10, KeepsRecord DEF LoadBlock, Recording, Goto, TypeOK, EndCall
<1>11. ASSUME NEW a \in Agents, LoadFails(a) PROVE RecordOK'
  BY <1>11, KeepsRecord DEF LoadFails, Recording, Goto, TypeOK, EndCall
<1>12. ASSUME NEW a \in Agents, StoreBlock(a) PROVE RecordOK'
  BY <1>12, KeepsRecord DEF StoreBlock, Recording, Goto, TypeOK, EndCall
<1>13. ASSUME NEW a \in Agents, Die(a) PROVE RecordOK'
  BY <1>13, KeepsRecord DEF Die, Recording, Goto, TypeOK, EndCall, Idle
<1>14. ASSUME NEW a \in Agents, RunJob(a) PROVE RecordOK'
  <2>1. CASE UNCHANGED tally /\ ender' = [ender EXCEPT ![a] = AfterJob(a)]
    BY <2>1, KeepsRecord DEF Recording, AfterJob, Idle, TypeOK, EndCall
  <2>2. ASSUME Goto(a, "open"), NEW how \in {"whole", "short"},
               tally' = [tally EXCEPT ![ender[a].job][how] = @ + 1]
        PROVE  RecordOK'
    <3> SUFFICES ASSUME NEW j \in Jobs
                 PROVE  tally'[j].recorded + Cardinality(Recording(j)') <= Ended(j)'
      BY DEF RecordOK
    <3>1. CASE ender[a].job = j
      <4>1. Recording(j)' = Recording(j) \cup {a}
        BY <2>2, <3>1 DEF Recording, Goto, TypeOK, EndCall
      <4>2. a \notin Recording(j)
        BY <1>14 DEF RunJob, Recording
      <4>3. Cardinality(Recording(j) \cup {a}) = Cardinality(Recording(j)) + 1
        BY <4>2, RecordingFinite, FS_AddElement
      <4>4. Ended(j)' = Ended(j) + 1 /\ tally'[j].recorded = tally[j].recorded
        <5>1. tally[j] \in [whole : Nat, short : Nat, recorded : Nat]
          BY DEF TypeOK
        <5>2. tally'[j] = [tally[j] EXCEPT ![how] = @ + 1]
          BY <2>2, <3>1 DEF TypeOK
        <5>3. CASE how = "whole"
          BY <5>1, <5>2, <5>3 DEF Ended
        <5>4. CASE how = "short"
          BY <5>1, <5>2, <5>4 DEF Ended
        <5> QED BY <2>2, <5>3, <5>4
      <4>5. Ended(j) \in Nat
        BY DEF Ended, TypeOK
      <4> QED BY <4>1, <4>3, <4>4, <4>5, RecordingFinite DEF RecordOK, TypeOK
    <3>2. CASE ender[a].job # j
      <4>1. Recording(j)' = Recording(j) /\ tally'[j] = tally[j]
        BY <2>2, <3>2 DEF Recording, Goto, TypeOK, EndCall
      <4> QED BY <4>1 DEF RecordOK, Ended
    <3> QED BY <3>1, <3>2
  <2>3. \/ UNCHANGED tally /\ ender' = [ender EXCEPT ![a] = AfterJob(a)]
        \/ \E how \in {"whole", "short"} :
              Goto(a, "open") /\ tally' = [tally EXCEPT ![ender[a].job][how] = @ + 1]
    BY <1>14 DEF RunJob, AfterFailure
  <2> QED BY <2>1, <2>2, <2>3
<1>15. ASSUME NEW a \in Agents, WriteStamp(a) PROVE RecordOK'
  <2> SUFFICES ASSUME NEW j \in Jobs
               PROVE  tally'[j].recorded + Cardinality(Recording(j)') <= Ended(j)'
    BY DEF RecordOK
  <2>1. CASE ender[a].job = j
    <3>1. a \in Recording(j) /\ Recording(j)' = Recording(j) \ {a}
      BY <1>15, <2>1 DEF WriteStamp, Recording, AfterJob, Idle, TypeOK, EndCall
    <3>2. Cardinality(Recording(j)') = Cardinality(Recording(j)) - 1
      BY <3>1, RecordingFinite, FS_RemoveElement
    <3>3. /\ tally'[j].recorded = tally[j].recorded + 1
          /\ Ended(j)' = Ended(j) /\ Ended(j) \in Nat
      BY <1>15, <2>1 DEF WriteStamp, TypeOK, Ended
    <3> QED BY <3>2, <3>3, RecordingFinite DEF RecordOK, TypeOK
  <2>2. CASE ender[a].job # j
    <3>1. Recording(j)' = Recording(j) /\ tally'[j] = tally[j]
      BY <1>15, <2>2 DEF WriteStamp, Recording, AfterJob, Idle, TypeOK, EndCall
    <3> QED BY <3>1 DEF RecordOK, Ended
  <2> QED BY <2>1, <2>2
<1>16. ASSUME NEW row \in rows, Resolve(row) PROVE RecordOK'
  BY <1>16, KeepsRecord DEF Resolve, Recording
<1>17. CASE Tick \/ UNCHANGED vars
  BY <1>17, KeepsRecord DEF Tick, vars, Recording
<1> QED
  BY <1>1, <1>2, <1>3, <1>4, <1>5, <1>6, <1>7, <1>8, <1>9, <1>10, <1>11, <1>12, <1>13, <1>14,
     <1>15, <1>16, <1>17 DEF Next, EnderStep, RecallStep

-----------------------------------------------------------------------------
(* What always holds.                                                        *)

LEMMA Inductive == Spec => []IInv
<1>1. IInv /\ [Next]_vars => IInv'
  BY TypeStep, HomeStep, FreshStep, RecordStep DEF IInv
<1> QED BY <1>1, InitIInv, PTL DEF Spec

(* The variables keep their types, for every setting.                        *)
THEOREM TypeCorrect == Spec => []TypeOK
<1>1. IInv => TypeOK
  BY DEF IInv
<1> QED BY <1>1, Inductive, PTL

(* A cached reflection block is up to date, unless the recall that made it    *)
(* overlapped the end of a session (_reflection_block of provider.py).        *)
THEOREM CacheIsFresh == Spec => []FreshBlock
<1>1. IInv => FreshBlock
  BY DEF IInv, FreshOK, FreshBlock
<1> QED BY <1>1, Inductive, PTL

(* should_run_compaction is put off only by runs that raised no error and      *)
(* whose process lived to record them.                                        *)
THEOREM RecordsAreHonest == Spec => []RecordHonest
<1>1. IInv => RecordHonest
  <2> SUFFICES ASSUME IInv, NEW j \in Jobs PROVE tally[j].recorded <= Ended(j)
    BY DEF RecordHonest, Ended
  <2>1. tally[j].recorded + Cardinality(Recording(j)) <= Ended(j)
    BY DEF IInv, RecordOK
  <2> QED BY <2>1, RecordingFinite DEF IInv, TypeOK, Ended
<1> QED BY <1>1, Inductive, PTL

(* No line named by a resolved item alone is in a slice, whatever is read.    *)
LEMMA SlicesOpen == TypeOK => ResolvedStaysAway
<1> SUFFICES ASSUME TypeOK, NEW a \in Agents, NEW read \in Reads(a)
             PROVE  LET Said(kind, resolved) == Texts({r \in read : r.resolved = resolved}, kind)
                    IN  /\ LoadSlices(a, read).derived \cap Said("derived", TRUE)
                             \subseteq Said("derived", FALSE)
                        /\ LoadSlices(a, read).invariants \cap Said("invariant", TRUE)
                             \subseteq Said("invariant", FALSE)
  BY DEF ResolvedStaysAway
<1>0. read \subseteq Row
  BY ReadsOwned DEF TypeOK
<1> DEFINE Said(kind, resolved) == Texts({r \in read : r.resolved = resolved}, kind)
           items == {r \in read : r.kind # "legacy"}
           legacy == {r \in read : r.kind = "legacy"}
           open == {r \in items : ~r.resolved}
           gone(kind) == Texts(items \ open, kind)
<1>1. ASSUME NEW kind \in {"invariant", "derived"}
      PROVE  gone(kind) = Said(kind, TRUE) /\ Texts(open, kind) = Said(kind, FALSE)
  BY <1>0 DEF Texts, Row
<1>2. LoadSlices(a, read).derived \cap gone("derived") \subseteq Texts(open, "derived")
  <2> DEFINE standIn == UNION {StillOpen(LegacyDerived(r, a), gone("derived")) : r \in legacy}
  <2>1. LoadSlices(a, read).derived \subseteq Section(Texts(open, "derived"), standIn)
    BY DEF LoadSlices
  <2> HIDE DEF legacy, open, gone
  <2>2. ASSUME NEW l \in standIn PROVE l \notin gone("derived")
    <3>1. PICK r \in legacy : l \in StillOpen(LegacyDerived(r, a), gone("derived"))
      OBVIOUS
    <3> QED BY <3>1 DEF StillOpen
  <2> HIDE DEF standIn
  <2> QED BY <2>1, <2>2 DEF Section
<1>3. LoadSlices(a, read).invariants \cap gone("invariant") \subseteq Texts(open, "invariant")
  <2> DEFINE standIn == UNION {StillOpen(r.invariants, gone("invariant")) : r \in legacy}
  <2>1. LoadSlices(a, read).invariants \subseteq Section(Texts(open, "invariant"), standIn)
    BY DEF LoadSlices
  <2> HIDE DEF legacy, open, gone
  <2>2. ASSUME NEW l \in standIn PROVE l \notin gone("invariant")
    <3>1. PICK r \in legacy : l \in StillOpen(r.invariants, gone("invariant"))
      OBVIOUS
    <3> QED BY <3>1 DEF StillOpen
  <2> HIDE DEF standIn
  <2> QED BY <2>1, <2>2 DEF Section
<1> HIDE DEF Said, open, gone
<1>4. LoadSlices(a, read).derived \cap Said("derived", TRUE) \subseteq Said("derived", FALSE)
  BY <1>1, <1>2
<1>5. LoadSlices(a, read).invariants \cap Said("invariant", TRUE) \subseteq Said("invariant", FALSE)
  BY <1>1, <1>3
<1> QED BY <1>4, <1>5 DEF Said

(* load_agent_reflection_slices and the cache tell an agent only lines of its  *)
(* own sessions and invariants of "main", whichever rows the limits leave it,  *)
(* and of what it reads none that is resolved.                                *)
THEOREM AgentsAreToldRightly == Spec => []ToldRightly
<1>1. IInv => ReflectionsStayHome
  <2> SUFFICES ASSUME IInv, NEW a \in Agents, NEW told \in {LoadSlices(a, read) : read \in Reads(a)} \cup {cache[a]}
               PROVE  MayTell(a, told)
    BY DEF ReflectionsStayHome, MayTell
  <2> QED BY SlicesHome DEF IInv, HomeOK
<1>2. IInv => ToldRightly
  BY <1>1, SlicesOpen DEF IInv, ToldRightly
<1> QED BY <1>2, Inductive, PTL

-----------------------------------------------------------------------------
(* The passes of the session compressor are functions on 0 .. N, so what they *)
(* do is proved by induction up to N.                                         *)

LEMMA LeastNumber ==
    ASSUME NEW S \in SUBSET Nat, S # {}
    PROVE  \E m \in S : \A n \in S : m <= n
<1>1. PICK m \in S : \A n \in S : ~(<<n, m>> \in OpToRel(<, Nat))
  BY NatLessThanWellFounded, WFMin
<1>2. \A n \in S : ~(<<n, m>> \in {x \in Nat \X Nat : x[1] < x[2]})
  BY <1>1 DEF OpToRel
<1>3. ASSUME NEW n \in S PROVE m <= n
  <2>1. <<n, m>> \in Nat \X Nat
    OBVIOUS
  <2>2. ~(<<n, m>>[1] < <<n, m>>[2])
    BY <1>2, <2>1
  <2> QED BY <2>1, <2>2
<1> QED BY <1>3

LEMMA InductionUpTo ==
    ASSUME NEW N \in Nat, NEW S, 0 \in S, \A n \in 1 .. N : n - 1 \in S => n \in S
    PROVE  0 .. N \subseteq S
<1> SUFFICES ASSUME (0 .. N) \ S # {} PROVE FALSE
  OBVIOUS
<1> DEFINE T == (0 .. N) \ S
<1>0. T \in SUBSET Nat /\ T # {}
  OBVIOUS
<1>1. PICK m \in T : \A n \in T : m <= n
  <2> HIDE DEF T
  <2> QED BY <1>0, LeastNumber
<1>2. m \in 1 .. N /\ m - 1 \in 0 .. N /\ m - 1 \in S
  BY <1>1
<1> QED BY <1>1, <1>2

(* What starts with a and goes from one place to the next by g.               *)
Passes(N, D, a, g) ==
    {f \in [0 .. N -> D] : f[0] = a /\ \A n \in 1 .. N : f[n] = g[<<f[n - 1], n>>]}

LEMMA Recursion ==
    ASSUME NEW N \in Nat, NEW D, NEW a \in D, NEW g \in [D \X (1 .. N) -> D]
    PROVE  Passes(N, D, a, g) # {}
<1> DEFINE S == {m \in 0 .. N : \E f \in [0 .. m -> D] :
                    f[0] = a /\ \A n \in 1 .. m : f[n] = g[<<f[n - 1], n>>]}
<1>1. 0 \in S
  <2>1. [k \in 0 .. 0 |-> a] \in [0 .. 0 -> D] /\ [k \in 0 .. 0 |-> a][0] = a
    OBVIOUS
  <2>2. \A n \in 1 .. 0 : FALSE
    OBVIOUS
  <2>3. \E f \in [0 .. 0 -> D] : f[0] = a /\ \A n \in 1 .. 0 : f[n] = g[<<f[n - 1], n>>]
    BY <2>1, <2>2, Zenon
  <2> QED BY <2>3
<1>2. ASSUME NEW m \in 1 .. N, m - 1 \in S PROVE m \in S
  <2>1. PICK f \in [0 .. m - 1 -> D] :
           f[0] = a /\ \A n \in 1 .. m - 1 : f[n] = g[<<f[n - 1], n>>]
    BY <1>2
  <2>2. m \in 0 .. N /\ m - 1 \in 0 .. m - 1 /\ g[<<f[m - 1], m>>] \in D
    BY <2>1
  <2> DEFINE h == [k \in 0 .. m |-> IF k = m THEN g[<<f[m - 1], m>>] ELSE f[k]]
  <2>3. \A k \in 0 .. m : k = m \/ k \in 0 .. m - 1
    BY <2>2
  <2>4. h \in [0 .. m -> D] /\ h[0] = a
    BY <2>1, <2>2, <2>3
  <2>5. ASSUME NEW n \in 1 .. m PROVE h[n] = g[<<h[n - 1], n>>]
    <3>1. n - 1 \in 0 .. m - 1 /\ n - 1 \in 0 .. m /\ n - 1 # m /\ n \in 0 .. m
      BY <2>2
    <3>2. h[n - 1] = f[n - 1]
      BY <3>1
    <3>3. CASE n = m
      BY <3>1, <3>2, <3>3
    <3>4. CASE n # m
      <4>1. n \in 1 .. m - 1 /\ h[n] = f[n]
        BY <2>2, <3>1, <3>4
      <4> QED BY <2>1, <3>2, <4>1
    <3> QED BY <3>3, <3>4
  <2> QED BY <2>2, <2>4, <2>5
<1>3. 0 .. N \subseteq S
  <2> HIDE DEF S
  <2> QED BY <1>1, <1>2, InductionUpTo
<1> QED BY <1>3 DEF Passes

-----------------------------------------------------------------------------
(* The length of a set of texts.                                              *)

Transcripts == Seq(Text)

Sizes(texts, kept) ==
    CHOOSE upTo : upTo = [i \in 0 .. Len(texts) |->
        IF i = 0 THEN 0 ELSE upTo[i - 1] + (IF i \in kept THEN texts[i].size ELSE 0)]

LEMMA TextsAre ==
    ASSUME NEW texts \in Transcripts
    PROVE  /\ Len(texts) \in Nat
           /\ \A i \in Indices(texts) : /\ texts[i] \in Text /\ texts[i].size \in Nat
                                        /\ Score(texts, i) \in 0 .. 100
                                        /\ texts[i].size = 0 => Score(texts, i) = 0
<1>1. Len(texts) \in Nat
  BY DEF Transcripts
<1>2. ASSUME NEW i \in Indices(texts)
      PROVE  /\ texts[i] \in Text /\ texts[i].size \in Nat
             /\ Score(texts, i) \in 0 .. 100
             /\ texts[i].size = 0 => Score(texts, i) = 0
  <2>1. texts[i] \in Text
    BY ElementOfSeq DEF Transcripts, Indices
  <2>2. \A r \in Reasons : ScoreOf[r] \in 0 .. 100
    BY DEF Reasons, ScoreOf
  <2>3. ScoreOf["empty"] = 0
    BY DEF ScoreOf
  <2> QED BY <2>1, <2>2, <2>3 DEF Text, Score
<1> QED BY <1>1, <1>2

LEMMA SizesAre ==
    ASSUME NEW texts \in Transcripts, NEW kept
    PROVE  /\ Size(texts, kept) = Sizes(texts, kept)[Len(texts)]
           /\ Sizes(texts, kept) \in [0 .. Len(texts) -> Nat]
           /\ Sizes(texts, kept)[0] = 0
           /\ \A i \in Indices(texts) : Sizes(texts, kept)[i] =
                 Sizes(texts, kept)[i - 1] + (IF i \in kept THEN texts[i].size ELSE 0)
<1> DEFINE N == Len(texts)
           part(i) == IF i \in kept THEN texts[i].size ELSE 0
           g == [p \in Nat \X (1 .. N) |-> p[1] + part(p[2])]
           IsIt(f) == f = [i \in 0 .. N |-> IF i = 0 THEN 0 ELSE f[i - 1] + part(i)]
<1>1. N \in Nat /\ \A i \in 1 .. N : part(i) \in Nat
  BY TextsAre DEF Indices
<1> HIDE DEF N, part
<1>2. g \in [Nat \X (1 .. N) -> Nat]
  BY <1>1
<1>3. \A m \in Nat : \A i \in 1 .. N : g[<<m, i>>] = m + part(i)
  BY <1>1
<1> HIDE DEF g
<1>4. PICK f \in [0 .. N -> Nat] : f[0] = 0 /\ \A n \in 1 .. N : f[n] = g[<<f[n - 1], n>>]
  <2>1. 0 \in Nat
    OBVIOUS
  <2>2. Passes(N, Nat, 0, g) # {}
    BY <1>1, <1>2, <2>1, Recursion
  <2> QED BY <2>2 DEF Passes
<1>5. ASSUME NEW n \in 1 .. N PROVE f[n] = f[n - 1] + part(n)
  <2>1. n - 1 \in 0 .. N
    BY <1>1
  <2>2. f[n - 1] \in Nat
    BY <1>4, <2>1
  <2> QED BY <1>3, <1>4, <2>2
<1>6. IsIt(f)
  <2>1. \A i \in 0 .. N : f[i] = IF i = 0 THEN 0 ELSE f[i - 1] + part(i)
    BY <1>1, <1>4, <1>5
  <2> QED BY <1>4, <2>1
<1>7. IsIt(Sizes(texts, kept))
  BY <1>6 DEF Sizes, N, part
<1>8. Size(texts, kept) = Sizes(texts, kept)[N]
  BY DEF Size, Sizes, N
<1> DEFINE s == Sizes(texts, kept)
<1> HIDE DEF s
<1>9. s[0] = 0 /\ \A i \in 1 .. N : s[i] = s[i - 1] + part(i)
  BY <1>1, <1>7 DEF s
<1>10. s \in [0 .. N -> Nat]
  <2> DEFINE S == {i \in 0 .. N : s[i] \in Nat}
  <2>1. 0 \in S
    BY <1>1, <1>9
  <2>2. \A n \in 1 .. N : n - 1 \in S => n \in S
    BY <1>1, <1>9
  <2> HIDE DEF S
  <2>3. 0 .. N \subseteq S
    BY <1>1, <2>1, <2>2, InductionUpTo
  <2>4. \A i \in 0 .. N : s[i] \in Nat
    BY <2>3 DEF S
  <2> QED BY <1>7, <2>4 DEF s
<1> QED BY <1>8, <1>9, <1>10 DEF s, N, part, Indices

LEMMA SizeNat ==
    ASSUME NEW texts \in Transcripts, NEW kept PROVE Size(texts, kept) \in Nat
BY SizesAre, TextsAre

LEMMA SizeGrows ==
    ASSUME NEW texts \in Transcripts, NEW kept, NEW more, kept \subseteq more
    PROVE  Size(texts, kept) <= Size(texts, more)
<1> DEFINE N == Len(texts)
           a == Sizes(texts, kept)
           b == Sizes(texts, more)
           S == {i \in 0 .. N : a[i] <= b[i]}
<1>1. N \in Nat /\ \A i \in 1 .. N : texts[i].size \in Nat
  BY TextsAre DEF Indices
<1>2. /\ a \in [0 .. N -> Nat] /\ a[0] = 0 /\ Size(texts, kept) = a[N]
      /\ \A i \in 1 .. N : a[i] = a[i - 1] + (IF i \in kept THEN texts[i].size ELSE 0)
  BY SizesAre DEF Indices
<1>3. /\ b \in [0 .. N -> Nat] /\ b[0] = 0 /\ Size(texts, more) = b[N]
      /\ \A i \in 1 .. N : b[i] = b[i - 1] + (IF i \in more THEN texts[i].size ELSE 0)
  BY SizesAre DEF Indices
<1> HIDE DEF N, a, b
<1>4. 0 \in S
  BY <1>1, <1>2, <1>3
<1>5. ASSUME NEW n \in 1 .. N, n - 1 \in S PROVE n \in S
  <2>1. n - 1 \in 0 .. N /\ n \in 0 .. N
    BY <1>1
  <2>2. (n \in kept => n \in more) /\ texts[n].size \in Nat
    BY <1>1
  <2>3. a[n - 1] \in Nat /\ b[n - 1] \in Nat /\ a[n - 1] <= b[n - 1]
    BY <1>2, <1>3, <1>5, <2>1
  <2> QED BY <1>2, <1>3, <2>1, <2>2, <2>3
<1> HIDE DEF S
<1>6. 0 .. N \subseteq S
  BY <1>1, <1>4, <1>5, InductionUpTo
<1> QED BY <1>1, <1>2, <1>3, <1>6 DEF S

LEMMA SizeAdds ==
    ASSUME NEW texts \in Transcripts, NEW kept, NEW k \in Indices(texts), k \notin kept
    PROVE  Size(texts, kept \cup {k}) = Size(texts, kept) + texts[k].size
<1> DEFINE N == Len(texts)
           a == Sizes(texts, kept)
           b == Sizes(texts, kept \cup {k})
           S == {i \in 0 .. N : b[i] = a[i] + (IF k <= i THEN texts[k].size ELSE 0)}
<1>1. N \in Nat /\ k \in 1 .. N /\ \A i \in 1 .. N : texts[i].size \in Nat
  BY TextsAre DEF Indices
<1>2. /\ a \in [0 .. N -> Nat] /\ a[0] = 0 /\ Size(texts, kept) = a[N]
      /\ \A i \in 1 .. N : a[i] = a[i - 1] + (IF i \in kept THEN texts[i].size ELSE 0)
  BY SizesAre DEF Indices
<1>3. /\ b \in [0 .. N -> Nat] /\ b[0] = 0 /\ Size(texts, kept \cup {k}) = b[N]
      /\ \A i \in 1 .. N : b[i] = b[i - 1] + (IF i \in kept \cup {k} THEN texts[i].size ELSE 0)
  BY SizesAre DEF Indices
<1> HIDE DEF N, a, b
<1>4. 0 \in S
  BY <1>1, <1>2, <1>3
<1>5. ASSUME NEW n \in 1 .. N, n - 1 \in S PROVE n \in S
  <2>1. n - 1 \in 0 .. N /\ n \in 0 .. N /\ texts[n].size \in Nat /\ texts[k].size \in Nat
    BY <1>1
  <2>2. b[n - 1] = a[n - 1] + (IF k <= n - 1 THEN texts[k].size ELSE 0)
    BY <1>5
  <2>3. a[n - 1] \in Nat /\ b[n - 1] \in Nat
    BY <1>2, <1>3, <2>1
  <2>4. CASE n = k
    <3>1. a[n] = a[n - 1] /\ b[n] = b[n - 1] + texts[k].size /\ b[n - 1] = a[n - 1]
      BY <1>1, <1>2, <1>3, <2>1, <2>2, <2>3, <2>4
    <3> QED BY <1>1, <2>1, <2>3, <2>4, <3>1
  <2>5. CASE n # k
    <3>1. (n \in kept \cup {k}) <=> n \in kept
      BY <2>5
    <3>2. (k <= n) <=> (k <= n - 1)
      BY <1>1, <2>5
    <3> DEFINE part == IF n \in kept THEN texts[n].size ELSE 0
               rest == IF k <= n THEN texts[k].size ELSE 0
    <3>3. part \in Nat /\ rest \in Nat
      BY <2>1
    <3>4. a[n] = a[n - 1] + part /\ b[n] = b[n - 1] + part /\ b[n - 1] = a[n - 1] + rest
      BY <1>2, <1>3, <2>2, <3>1, <3>2
    <3> HIDE DEF part, rest
    <3>5. b[n] = a[n] + rest
      BY <2>3, <3>3, <3>4
    <3> QED BY <2>1, <3>5 DEF rest
  <2> QED BY <2>4, <2>5
<1> HIDE DEF S
<1>6. 0 .. N \subseteq S
  BY <1>1, <1>4, <1>5, InductionUpTo
<1> QED BY <1>1, <1>2, <1>3, <1>6 DEF S

-----------------------------------------------------------------------------
(* The candidates are the inner texts, each at its place.                     *)

LEMMA InnerFinite ==
    ASSUME NEW texts \in Transcripts
    PROVE  /\ IsFiniteSet(Inner(texts)) /\ Cardinality(Inner(texts)) \in Nat
           /\ Inner(texts) \subseteq Indices(texts) /\ Boundaries(texts) \subseteq Indices(texts)
           /\ Indices(texts) \subseteq Nat
<1>1. IsFiniteSet(Indices(texts))
  BY TextsAre, FS_Interval DEF Indices
<1>2. Inner(texts) \in SUBSET Indices(texts)
  BY DEF Inner
<1>3. IsFiniteSet(Inner(texts))
  BY <1>1, <1>2, FS_Subset
<1> QED BY <1>2, <1>3, FS_CardinalityType DEF Boundaries, Indices

LEMMA BeforeOrders ==
    ASSUME NEW texts \in Transcripts
    PROVE  /\ \A i \in Indices(texts) : ~Before(texts, i, i)
           /\ \A i, j \in Indices(texts) :
                 i = j \/ Before(texts, i, j) \/ Before(texts, j, i)
           /\ \A i, j, k \in Indices(texts) :
                 Before(texts, i, j) /\ Before(texts, j, k) => Before(texts, i, k)
<1>1. ASSUME NEW i \in Indices(texts) PROVE Score(texts, i) \in Int /\ i \in Int
  <2>1. Score(texts, i) \in 0 .. 100 /\ i \in Nat
    BY TextsAre, InnerFinite
  <2> HIDE DEF Score
  <2> QED BY <2>1
<1> QED BY <1>1 DEF Before

LEMMA CandidatesExist ==
    ASSUME NEW texts \in Transcripts
    PROVE  \E s \in [Places(texts) -> Inner(texts)] :
              \A p, q \in Places(texts) : p < q => Before(texts, s[p], s[q])
<1> DEFINE I == Inner(texts)
           C == Cardinality(I)
           notAfter(i) == {j \in I : j = i \/ Before(texts, j, i)}
           rank == [i \in I |-> Cardinality(notAfter(i))]
<1>1. IsFiniteSet(I) /\ C \in Nat
  BY InnerFinite
<1>o. /\ \A i \in I : ~Before(texts, i, i)
      /\ \A i, j \in I : i = j \/ Before(texts, i, j) \/ Before(texts, j, i)
      /\ \A i, j, k \in I : Before(texts, i, j) /\ Before(texts, j, k) => Before(texts, i, k)
  BY InnerFinite, BeforeOrders
<1> HIDE DEF I, C
<1>2. ASSUME NEW i \in I
      PROVE  IsFiniteSet(notAfter(i)) /\ Cardinality(notAfter(i)) \in 1 .. C
  <2>1. notAfter(i) \in SUBSET I /\ i \in notAfter(i)
    OBVIOUS
  <2> HIDE DEF notAfter
  <2>2. /\ IsFiniteSet(notAfter(i)) /\ Cardinality(notAfter(i)) <= C
        /\ Cardinality(notAfter(i)) \in Nat
    BY <1>1, <2>1, FS_Subset, FS_CardinalityType DEF C
  <2>3. Cardinality(notAfter(i)) # 0
    BY <2>1, <2>2, FS_EmptySet
  <2> QED BY <1>1, <2>2, <2>3
<1>3. ASSUME NEW i \in I, NEW j \in I, Before(texts, i, j)
      PROVE  rank[i] < rank[j]
  <2>1. notAfter(i) \in SUBSET notAfter(j) /\ j \in notAfter(j) /\ j \notin notAfter(i)
    BY <1>o, <1>3
  <2> HIDE DEF notAfter
  <2>2. /\ Cardinality(notAfter(i)) <= Cardinality(notAfter(j))
        /\ Cardinality(notAfter(i)) # Cardinality(notAfter(j))
    BY <1>2, <2>1, FS_Subset
  <2>3. Cardinality(notAfter(i)) \in Nat /\ Cardinality(notAfter(j)) \in Nat
    BY <1>2
  <2> QED BY <2>2, <2>3
<1>4. rank \in [I -> 1 .. C]
  BY <1>2
<1> HIDE DEF rank
<1>5. rank \in Injection(I, 1 .. C)
  <2>1. ASSUME NEW i \in I, NEW j \in I, i # j PROVE rank[i] # rank[j]
    <3>1. rank[i] \in Int /\ rank[j] \in Int
      BY <1>4
    <3>2. Before(texts, i, j) \/ Before(texts, j, i)
      BY <1>o, <2>1
    <3>3. rank[i] < rank[j] \/ rank[j] < rank[i]
      BY <1>3, <3>2
    <3> QED BY <3>1, <3>3
  <2> QED BY <1>4, <2>1 DEF Injection, IsInjective
<1>6. IsFiniteSet(1 .. C) /\ Cardinality(1 .. C) = C
  BY <1>1, FS_Interval
<1>7. rank \in Surjection(I, 1 .. C)
  BY <1>5, <1>6, FS_Injection DEF C
<1>8. \A p \in 1 .. C : \E i \in I : rank[i] = p
  BY <1>7 DEF Surjection
<1> DEFINE s == [p \in 1 .. C |-> CHOOSE i \in I : rank[i] = p]
<1>9. \A p \in 1 .. C : s[p] \in I /\ rank[s[p]] = p
  BY <1>8
<1>10. s \in [1 .. C -> I]
  BY <1>9
<1> HIDE DEF s
<1>11. ASSUME NEW p \in 1 .. C, NEW q \in 1 .. C, p < q PROVE Before(texts, s[p], s[q])
  <2>1. s[p] # s[q]
    BY <1>9, <1>11
  <2>2. ~Before(texts, s[q], s[p])
    <3> SUFFICES ASSUME Before(texts, s[q], s[p]) PROVE FALSE
      OBVIOUS
    <3>1. rank[s[q]] < rank[s[p]]
      BY <1>3, <1>9
    <3> QED BY <1>1, <1>9, <1>11, <3>1
  <2> QED BY <1>o, <1>9, <2>1, <2>2
<1> QED BY <1>10, <1>11 DEF I, C, Places

LEMMA CandidatesAre ==
    ASSUME NEW texts \in Transcripts
    PROVE  /\ Candidates(texts) \in [Places(texts) -> Inner(texts)]
           /\ \A p, q \in Places(texts) :
                 p < q => Before(texts, Candidates(texts)[p], Candidates(texts)[q])
           /\ \A i \in Inner(texts) : \E p \in Places(texts) : Candidates(texts)[p] = i
<1> DEFINE s == Candidates(texts)
           I == Inner(texts)
           C == Cardinality(I)
<1>1. /\ s \in [Places(texts) -> I]
      /\ \A p, q \in Places(texts) : p < q => Before(texts, s[p], s[q])
  BY CandidatesExist DEF Candidates
<1>2. IsFiniteSet(I) /\ C \in Nat /\ I \subseteq Indices(texts) /\ Places(texts) = 1 .. C
  BY InnerFinite DEF Places
<1> HIDE DEF s, I, C
<1>3. s \in Injection(1 .. C, I)
  <2>1. ASSUME NEW p \in 1 .. C, NEW q \in 1 .. C, p # q PROVE s[p] # s[q]
    <3>1. Before(texts, s[p], s[q]) \/ Before(texts, s[q], s[p])
      BY <1>1, <1>2, <2>1
    <3>2. ~Before(texts, s[p], s[p])
      BY <1>1, <1>2, BeforeOrders
    <3> QED BY <3>1, <3>2
  <2> QED BY <1>1, <1>2, <2>1 DEF Injection, IsInjective
<1>4. Cardinality(1 .. C) = C
  BY <1>2, FS_Interval
<1>5. s \in Surjection(1 .. C, I)
  BY <1>2, <1>3, <1>4, FS_Injection DEF C
<1> QED BY <1>1, <1>2, <1>5 DEF Surjection, s, I

-----------------------------------------------------------------------------
(* A tool call is paired with the text after it.                              *)
LEMMA PartnersIn ==
    ASSUME NEW texts \in Transcripts, NEW i
    PROVE  /\ Partners(texts, i) \subseteq Indices(texts)
           /\ \A p \in Partners(texts, i) : Partners(texts, p) # {}
<1> DEFINE N == Len(texts)
           D == SUBSET (1 .. N - 1)
           step(S, n) == IF texts[n].reason = "tool_call" /\ n < N /\ n - 1 \notin S
                         THEN S \cup {n} ELSE S
           g == [p \in D \X (1 .. N) |-> step(p[1], p[2])]
           IsIt(f) == f = [n \in 0 .. N |-> IF n = 0 THEN {} ELSE step(f[n - 1], n)]
           h == CHOOSE upTo : IsIt(upTo)
<1>1. N \in Nat
  BY TextsAre
<1>2. PairedCalls(texts) = h[N]
  BY DEF PairedCalls
<1> HIDE DEF N
<1>3. ASSUME NEW S \in D, NEW n \in 1 .. N PROVE step(S, n) \in D
  BY <1>1
<1> HIDE DEF step
<1>4. {} \in D /\ g \in [D \X (1 .. N) -> D]
  BY <1>3
<1>5. \A S \in D : \A n \in 1 .. N : g[<<S, n>>] = step(S, n)
  OBVIOUS
<1> HIDE DEF g, D
<1>6. PICK f \in Passes(N, D, {}, g) : TRUE
  BY <1>1, <1>4, Recursion
<1>7. f \in [0 .. N -> D] /\ f[0] = {} /\ \A n \in 1 .. N : f[n] = g[<<f[n - 1], n>>]
  BY <1>6 DEF Passes
<1>8. ASSUME NEW n \in 0 .. N PROVE f[n] = IF n = 0 THEN {} ELSE step(f[n - 1], n)
  <2>1. n = 0 \/ (n \in 1 .. N /\ n - 1 \in 0 .. N)
    BY <1>1
  <2> QED BY <1>5, <1>7, <2>1
<1>9. IsIt(f)
  BY <1>7, <1>8
<1>10. IsIt(h)
  BY <1>9
<1> HIDE DEF h
<1>11. h[0] = {} /\ \A n \in 1 .. N : h[n] = step(h[n - 1], n)
  <2>1. \A n \in 0 .. N : h[n] = IF n = 0 THEN {} ELSE step(h[n - 1], n)
    BY <1>10
  <2>2. 0 \in 0 .. N /\ \A n \in 1 .. N : n \in 0 .. N /\ n # 0
    BY <1>1
  <2> QED BY <2>1, <2>2
<1>12. h[N] \in D
  <2> DEFINE S == {n \in 0 .. N : h[n] \in D}
  <2>1. 0 \in S
    BY <1>1, <1>4, <1>11
  <2>2. \A n \in 1 .. N : n - 1 \in S => n \in S
    BY <1>1, <1>3, <1>11
  <2> HIDE DEF S
  <2>3. 0 .. N \subseteq S
    BY <1>1, <2>1, <2>2, InductionUpTo
  <2> QED BY <1>1, <2>3 DEF S
<1>13. PairedCalls(texts) \subseteq 1 .. N - 1
  BY <1>2, <1>12 DEF D
<1>14. Partners(texts, i) \subseteq Indices(texts)
  BY <1>1, <1>13 DEF Partners, Indices, N
<1>15. ASSUME NEW p \in Partners(texts, i) PROVE Partners(texts, p) # {}
  <2>1. CASE i \in PairedCalls(texts) /\ p = i + 1
    <3>1. i \in Nat
      BY <1>1, <1>13, <2>1
    <3>2. i \in Partners(texts, p)
      BY <2>1, <3>1 DEF Partners
    <3> QED BY <3>2
  <2>2. CASE p \in PairedCalls(texts)
    BY <2>2 DEF Partners
  <2> QED BY <1>15, <2>1, <2>2 DEF Partners
<1> QED BY <1>14, <1>15

-----------------------------------------------------------------------------
(* What a pass adds is never taken away again, and fits the budget.           *)

Adds(texts, budget, kept, more) ==
    /\ kept \subseteq more /\ more \subseteq Indices(texts)
    /\ more = kept \/ Size(texts, more) <= budget

(* There is no room for a text beside what is kept.                           *)
NoRoom(texts, budget, kept, i) ==
    Size(texts, kept) >= budget \/ Size(texts, kept \cup {i}) > budget

LEMMA AddIndexAdds ==
    ASSUME NEW texts \in Transcripts, NEW budget \in Nat, NEW kept \in SUBSET Indices(texts),
           NEW i \in Indices(texts), NEW more, more = AddIndex(texts, kept, i, budget)
    PROVE  /\ Adds(texts, budget, kept, more) /\ more \subseteq kept \cup {i}
           /\ i \in more \/ NoRoom(texts, budget, kept, i)
<1>1. Size(texts, kept \cup {i}) \in Nat
  BY SizeNat
<1> QED BY <1>1 DEF AddIndex, Adds, NoRoom

LEMMA TryNextAdds ==
    ASSUME NEW texts \in Transcripts, NEW budget \in Nat, NEW kept \in SUBSET Indices(texts),
           NEW i \in Indices(texts), NEW more, more = TryNext(texts, kept, i, budget)
    PROVE  /\ Adds(texts, budget, kept, more)
           /\ \A k \in more \ kept : k = i \/ Partners(texts, k) # {}
           /\ i \in more \/ NoRoom(texts, budget, kept, i)
<1>1. CASE Size(texts, kept) >= budget \/ i \in kept
  BY <1>1 DEF TryNext, Adds, NoRoom
<1>2. CASE ~(Size(texts, kept) >= budget \/ i \in kept)
  <2> DEFINE with == AddIndex(texts, kept, i, budget)
             p == CHOOSE p \in Partners(texts, i) : TRUE
  <2>1. more = AddWithPartner(texts, kept, i, budget)
    BY <1>2 DEF TryNext
  <2>2. /\ Adds(texts, budget, kept, with) /\ with \subseteq kept \cup {i}
        /\ i \in with \/ NoRoom(texts, budget, kept, i)
    BY AddIndexAdds
  <2>3. CASE with = kept \/ Partners(texts, i) = {}
    <3>1. more = with
      BY <2>1, <2>3 DEF AddWithPartner
    <3> QED BY <2>2, <3>1
  <2>4. CASE ~(with = kept \/ Partners(texts, i) = {})
    <3>1. more = AddIndex(texts, with, p, budget)
      BY <2>1, <2>4 DEF AddWithPartner
    <3>2. p \in Partners(texts, i)
      BY <2>4
    <3>3. p \in Indices(texts) /\ Partners(texts, p) # {}
      BY <3>2, PartnersIn
    <3>4. with \in SUBSET Indices(texts)
      BY <2>2 DEF Adds
    <3> HIDE DEF with, p
    <3>5. Adds(texts, budget, with, more) /\ more \subseteq with \cup {p}
      BY <3>1, <3>3, <3>4, AddIndexAdds
    <3>6. Adds(texts, budget, kept, more)
      BY <2>2, <3>5 DEF Adds
    <3> QED BY <2>2, <3>3, <3>5, <3>6 DEF Adds
  <2> QED BY <2>3, <2>4
<1> QED BY <1>1, <1>2

LEMMA FillUpAdds ==
    ASSUME NEW texts \in Transcripts, NEW budget \in Nat, NEW kept \in SUBSET Indices(texts),
           NEW i \in Indices(texts), NEW more, more = FillUp(texts, kept, i, budget)
    PROVE  Adds(texts, budget, kept, more)
<1>1. CASE more = kept
  BY <1>1 DEF Adds
<1>2. CASE more = AddIndex(texts, kept, i, budget)
  BY <1>2, AddIndexAdds
<1> QED BY <1>1, <1>2 DEF FillUp

(* A pass adds at one of its places whatever it adds.                         *)
LEMMA PassGrows ==
    ASSUME NEW N \in Nat, NEW f, \A n \in 1 .. N : f[n - 1] \subseteq f[n]
    PROVE  /\ \A m, n \in 0 .. N : m <= n => f[m] \subseteq f[n]
           /\ \A k \in f[N] \ f[0] : \E n \in 1 .. N : k \in f[n] \ f[n - 1]
<1>1. ASSUME NEW m \in 0 .. N PROVE \A n \in 0 .. N : m <= n => f[m] \subseteq f[n]
  <2> DEFINE S == {n \in 0 .. N : m <= n => f[m] \subseteq f[n]}
  <2>1. 0 \in S
    BY <1>1
  <2>2. ASSUME NEW n \in 1 .. N, n - 1 \in S PROVE n \in S
    <3>1. n \in 0 .. N /\ (m <= n => m = n \/ m <= n - 1)
      OBVIOUS
    <3>2. m <= n - 1 => f[m] \subseteq f[n - 1]
      BY <2>2
    <3>3. f[n - 1] \subseteq f[n]
      OBVIOUS
    <3> QED BY <3>1, <3>2, <3>3
  <2> HIDE DEF S
  <2>3. 0 .. N \subseteq S
    BY <2>1, <2>2, InductionUpTo
  <2> QED BY <2>3 DEF S
<1>2. ASSUME NEW k \in f[N] \ f[0], \A n \in 1 .. N : k \in f[n] => k \in f[n - 1]
      PROVE  FALSE
  <2> DEFINE S == {n \in 0 .. N : k \notin f[n]}
  <2>1. 0 \in S
    OBVIOUS
  <2>2. ASSUME NEW n \in 1 .. N, n - 1 \in S PROVE n \in S
    BY <1>2, <2>2
  <2> HIDE DEF S
  <2>3. 0 .. N \subseteq S
    BY <2>1, <2>2, InductionUpTo
  <2> QED BY <2>3 DEF S
<1> QED BY <1>1, <1>2

(* The greedy pass, candidate by candidate.                                   *)
GreedyPass(texts, budget, f) ==
    LET N == Cardinality(Inner(texts)) IN
    /\ f \in [0 .. N -> SUBSET Indices(texts)]
    /\ f[0] = Boundaries(texts) /\ f[N] = Greedy(texts, budget)
    /\ \A n \in 1 .. N : f[n] = TryNext(texts, f[n - 1], Candidates(texts)[n], budget)

LEMMA GreedyIs ==
    ASSUME NEW texts \in Transcripts, NEW budget \in Nat
    PROVE  \E f : GreedyPass(texts, budget, f)
<1> DEFINE N == Cardinality(Inner(texts))
           D == SUBSET Indices(texts)
           a == Boundaries(texts)
           step(S, n) == TryNext(texts, S, Candidates(texts)[n], budget)
           g == [p \in D \X (1 .. N) |-> step(p[1], p[2])]
           IsIt(f) == f = [n \in 0 .. N |-> IF n = 0 THEN a ELSE step(f[n - 1], n)]
           h == CHOOSE after : IsIt(after)
<1>1. N \in Nat
  BY InnerFinite
<1>2. Greedy(texts, budget) = h[N]
  BY DEF Greedy
<1>3. ASSUME NEW S \in D, NEW n \in 1 .. N PROVE step(S, n) \in D
  <2>1. Candidates(texts)[n] \in Indices(texts)
    BY CandidatesAre, InnerFinite DEF Places
  <2>2. Adds(texts, budget, S, step(S, n))
    BY <2>1, TryNextAdds
  <2> QED BY <2>2 DEF Adds
<1>4. a \in D
  BY InnerFinite
<1> HIDE DEF step, N, D, a
<1>5. g \in [D \X (1 .. N) -> D] /\ \A S \in D : \A n \in 1 .. N : g[<<S, n>>] = step(S, n)
  BY <1>3
<1> HIDE DEF g
<1>6. PICK f \in Passes(N, D, a, g) : TRUE
  BY <1>1, <1>4, <1>5, Recursion
<1>7. f \in [0 .. N -> D] /\ f[0] = a /\ \A n \in 1 .. N : f[n] = g[<<f[n - 1], n>>]
  BY <1>6 DEF Passes
<1>8. ASSUME NEW n \in 0 .. N PROVE f[n] = IF n = 0 THEN a ELSE step(f[n - 1], n)
  <2>1. n = 0 \/ (n \in 1 .. N /\ n - 1 \in 0 .. N)
    BY <1>1
  <2> QED BY <1>5, <1>7, <2>1
<1>9. IsIt(f)
  BY <1>7, <1>8
<1>10. IsIt(h)
  BY <1>9
<1> HIDE DEF h
<1>11. h[0] = a /\ \A n \in 1 .. N : h[n] = step(h[n - 1], n)
  <2>1. \A n \in 0 .. N : h[n] = IF n = 0 THEN a ELSE step(h[n - 1], n)
    BY <1>10
  <2>2. 0 \in 0 .. N /\ \A n \in 1 .. N : n \in 0 .. N /\ n # 0
    BY <1>1
  <2> QED BY <2>1, <2>2
<1>12. \A n \in 0 .. N : h[n] \in D
  <2> DEFINE S == {n \in 0 .. N : h[n] \in D}
  <2>1. 0 \in S
    BY <1>1, <1>4, <1>11
  <2>2. \A n \in 1 .. N : n - 1 \in S => n \in S
    BY <1>1, <1>3, <1>11
  <2> HIDE DEF S
  <2>3. 0 .. N \subseteq S
    BY <1>1, <2>1, <2>2, InductionUpTo
  <2> QED BY <2>3 DEF S
<1>13. h \in [0 .. N -> D]
  BY <1>10, <1>12
<1> QED BY <1>2, <1>11, <1>13 DEF GreedyPass, N, D, a, step

(* The texts that fill up what the greedy pass kept, from the latest on.      *)
FillPass(texts, kept, budget, f) ==
    LET N == Len(texts) IN
    /\ f \in [0 .. N -> SUBSET Indices(texts)]
    /\ f[0] = kept
    /\ \A n \in 1 .. N : f[n] = FillUp(texts, f[n - 1], N + 1 - n, budget)

LEMMA FallbackIs ==
    ASSUME NEW texts \in Transcripts, NEW kept \in SUBSET Indices(texts), NEW budget \in Nat
    PROVE  \/ Fallback(texts, kept, budget) = kept
           \/ \E f : /\ FillPass(texts, kept, budget, f)
                     /\ Fallback(texts, kept, budget) = f[Len(texts)]
<1> DEFINE N == Len(texts)
           D == SUBSET Indices(texts)
           step(S, n) == FillUp(texts, S, N + 1 - n, budget)
           g == [p \in D \X (1 .. N) |-> step(p[1], p[2])]
           IsIt(f) == f = [n \in 0 .. N |-> IF n = 0 THEN kept ELSE step(f[n - 1], n)]
           h == CHOOSE after : IsIt(after)
<1>1. N \in Nat
  BY TextsAre
<1>2. Fallback(texts, kept, budget) \in {kept, h[N]}
  BY DEF Fallback
<1>3. ASSUME NEW S \in D, NEW n \in 1 .. N PROVE step(S, n) \in D
  <2>1. N + 1 - n \in Indices(texts)
    BY <1>1 DEF Indices
  <2>2. Adds(texts, budget, S, step(S, n))
    BY <2>1, FillUpAdds
  <2> QED BY <2>2 DEF Adds
<1> HIDE DEF step, N, D
<1>4. kept \in D
  BY DEF D
<1>5. g \in [D \X (1 .. N) -> D] /\ \A S \in D : \A n \in 1 .. N : g[<<S, n>>] = step(S, n)
  BY <1>3
<1> HIDE DEF g
<1>6. PICK f \in Passes(N, D, kept, g) : TRUE
  BY <1>1, <1>4, <1>5, Recursion
<1>7. f \in [0 .. N -> D] /\ f[0] = kept /\ \A n \in 1 .. N : f[n] = g[<<f[n - 1], n>>]
  BY <1>6 DEF Passes
<1>8. ASSUME NEW n \in 0 .. N PROVE f[n] = IF n = 0 THEN kept ELSE step(f[n - 1], n)
  <2>1. n = 0 \/ (n \in 1 .. N /\ n - 1 \in 0 .. N)
    BY <1>1
  <2> QED BY <1>5, <1>7, <2>1
<1>9. IsIt(f)
  BY <1>7, <1>8
<1>10. IsIt(h)
  BY <1>9
<1> HIDE DEF h
<1>11. h[0] = kept /\ \A n \in 1 .. N : h[n] = step(h[n - 1], n)
  <2>1. \A n \in 0 .. N : h[n] = IF n = 0 THEN kept ELSE step(h[n - 1], n)
    BY <1>10
  <2>2. 0 \in 0 .. N /\ \A n \in 1 .. N : n \in 0 .. N /\ n # 0
    BY <1>1
  <2> QED BY <2>1, <2>2
<1>12. \A n \in 0 .. N : h[n] \in D
  <2> DEFINE S == {n \in 0 .. N : h[n] \in D}
  <2>1. 0 \in S
    BY <1>1, <1>4, <1>11
  <2>2. \A n \in 1 .. N : n - 1 \in S => n \in S
    BY <1>1, <1>3, <1>11
  <2> HIDE DEF S
  <2>3. 0 .. N \subseteq S
    BY <1>1, <2>1, <2>2, InductionUpTo
  <2> QED BY <2>3 DEF S
<1>13. h \in [0 .. N -> D]
  BY <1>10, <1>12
<1>14. FillPass(texts, kept, budget, h)
  BY <1>11, <1>13 DEF FillPass, N, D, step
<1> QED BY <1>2, <1>14 DEF N

-----------------------------------------------------------------------------
(* A text that found no room gives way only to shorter ones.                  *)
LEMMA GaveWay ==
    ASSUME NEW texts \in Transcripts, NEW budget \in Nat, NEW kept, NEW more,
           NEW d \in Indices(texts), NEW k \in Indices(texts),
           NoRoom(texts, budget, kept, d), d \notin more, k \in more, k \notin kept,
           kept \subseteq more, Size(texts, more) <= budget, Score(texts, d) > Score(texts, k)
    PROVE  texts[d].size > texts[k].size
<1>1. Size(texts, kept \cup {d}) = Size(texts, kept) + texts[d].size
  BY SizeAdds
<1>2. Size(texts, kept \cup {k}) = Size(texts, kept) + texts[k].size
  BY SizeAdds
<1>3. Size(texts, kept \cup {k}) <= Size(texts, more)
  BY SizeGrows
<1>4. /\ Size(texts, kept) \in Nat /\ Size(texts, more) \in Nat
      /\ texts[d].size \in Nat /\ texts[k].size \in Nat
  BY SizeNat, TextsAre
<1>5. texts[d].size = 0 => FALSE
  <2>1. Score(texts, d) \in 0 .. 100 /\ Score(texts, k) \in 0 .. 100
    BY TextsAre
  <2>2. texts[d].size = 0 => Score(texts, d) = 0
    BY TextsAre
  <2> HIDE DEF Score
  <2> QED BY <2>1, <2>2
<1> HIDE DEF Size
<1> QED BY <1>1, <1>2, <1>3, <1>4, <1>5 DEF NoRoom

(* What CompressTexts keeps has the boundaries, fits, and is worth the most.  *)
LEMMA CompressKeeps ==
    ASSUME NEW texts \in Transcripts, NEW budget \in Nat,
           NEW kept, kept = CompressTexts(texts, budget)
    PROVE  /\ Boundaries(texts) \subseteq kept /\ kept \subseteq Indices(texts)
           /\ kept = Boundaries(texts) \/ Size(texts, kept) <= budget
           /\ \A d \in Indices(texts) \ kept, k \in kept \ Boundaries(texts) :
                 Score(texts, d) > Score(texts, k) =>
                    texts[d].size > texts[k].size \/ Partners(texts, k) # {}
<1>1. CASE Size(texts, Indices(texts)) <= budget
  <2>1. kept = Indices(texts)
    BY <1>1 DEF CompressTexts
  <2> QED BY <1>1, <2>1, InnerFinite
<1>2. CASE ~(Size(texts, Indices(texts)) <= budget)
  <2> DEFINE N == Cardinality(Inner(texts))
             M == Len(texts)
             s == Candidates(texts)
             B == Boundaries(texts)
             I == Indices(texts)
             G == Greedy(texts, budget)
  <2>1. kept = Fallback(texts, G, budget)
    BY <1>2 DEF CompressTexts
  <2>2. PICK f : GreedyPass(texts, budget, f)
    BY GreedyIs
  <2>3. /\ f \in [0 .. N -> SUBSET I] /\ f[0] = B /\ f[N] = G
        /\ \A n \in 1 .. N : f[n] = TryNext(texts, f[n - 1], s[n], budget)
    BY <2>2 DEF GreedyPass
  <2>4. N \in Nat /\ M \in Nat /\ I = B \cup Inner(texts) /\ B \subseteq I
    BY InnerFinite, TextsAre DEF Inner
  <2>s. /\ s \in [1 .. N -> Inner(texts)]
        /\ \A p, q \in 1 .. N : p < q => Before(texts, s[p], s[q])
        /\ \A i \in Inner(texts) : \E p \in 1 .. N : s[p] = i
    BY CandidatesAre DEF Places
  <2> HIDE DEF N, M, s, B, G
  <2>5. ASSUME NEW n \in 1 .. N
        PROVE  /\ Adds(texts, budget, f[n - 1], f[n])
               /\ \A k \in f[n] \ f[n - 1] : k = s[n] \/ Partners(texts, k) # {}
               /\ s[n] \in f[n] \/ NoRoom(texts, budget, f[n - 1], s[n])
    <3>1. s[n] \in I /\ f[n - 1] \in SUBSET I
      <4>1. n - 1 \in 0 .. N
        BY <2>4
      <4> QED BY <2>3, <2>4, <2>s, <4>1
    <3>2. f[n] = TryNext(texts, f[n - 1], s[n], budget)
      BY <2>3
    <3> QED BY <3>1, <3>2, TryNextAdds
  <2>6. /\ \A m, n \in 0 .. N : m <= n => f[m] \subseteq f[n]
        /\ \A k \in G \ B : \E n \in 1 .. N : k \in f[n] \ f[n - 1]
    <3>1. \A n \in 1 .. N : f[n - 1] \subseteq f[n]
      BY <2>5 DEF Adds
    <3> QED BY <2>3, <2>4, <3>1, PassGrows
  (* the fallback *)
  <2>7. PICK h : /\ h \in [0 .. M -> SUBSET I] /\ h[0] = G /\ kept = h[M]
                 /\ \A n \in 1 .. M : Adds(texts, budget, h[n - 1], h[n])
    <3>0. G \in SUBSET I
      BY <2>3, <2>4
    <3>1. CASE kept = G
      <4> DEFINE h == [n \in 0 .. M |-> G]
      <4>1. h \in [0 .. M -> SUBSET I] /\ h[0] = G /\ kept = h[M]
        BY <2>4, <3>0, <3>1
      <4>2. \A n \in 1 .. M : h[n - 1] = G /\ h[n] = G
        BY <2>4
      <4> HIDE DEF h
      <4>3. \A n \in 1 .. M : Adds(texts, budget, h[n - 1], h[n])
        BY <3>0, <4>2 DEF Adds
      <4> QED BY <4>1, <4>3
    <3>2. CASE \E h : FillPass(texts, G, budget, h) /\ kept = h[M]
      <4>1. PICK h : FillPass(texts, G, budget, h) /\ kept = h[M]
        BY <3>2
      <4>2. /\ h \in [0 .. M -> SUBSET I] /\ h[0] = G
            /\ \A n \in 1 .. M : h[n] = FillUp(texts, h[n - 1], M + 1 - n, budget)
        BY <4>1 DEF FillPass, M
      <4>3. ASSUME NEW n \in 1 .. M PROVE Adds(texts, budget, h[n - 1], h[n])
        <5>1. h[n - 1] \in SUBSET I
          <6>1. n - 1 \in 0 .. M
            BY <2>4
          <6> QED BY <4>2, <6>1
        <5>2. M + 1 - n \in I
          BY <2>4 DEF Indices, M
        <5>3. h[n] = FillUp(texts, h[n - 1], M + 1 - n, budget)
          BY <4>2
        <5> QED BY <5>1, <5>2, <5>3, FillUpAdds
      <4> QED BY <4>1, <4>2, <4>3
    <3> QED BY <2>1, <3>0, <3>1, <3>2, FallbackIs DEF M
  <2>8. /\ \A m, n \in 0 .. M : m <= n => h[m] \subseteq h[n]
        /\ \A k \in kept \ G : \E n \in 1 .. M : k \in h[n] \ h[n - 1]
    <3>1. \A n \in 1 .. M : h[n - 1] \subseteq h[n]
      BY <2>7 DEF Adds
    <3> QED BY <2>4, <2>7, <3>1, PassGrows
  <2>9. B \subseteq G /\ G \subseteq kept /\ kept \subseteq I
    BY <2>3, <2>4, <2>6, <2>7, <2>8
  <2> DEFINE fits(K) == K = B \/ Size(texts, K) <= budget
  <2>10. fits(G)
    <3> DEFINE S == {n \in 0 .. N : fits(f[n])}
    <3>1. 0 \in S
      BY <2>3, <2>4
    <3>2. ASSUME NEW n \in 1 .. N, n - 1 \in S PROVE n \in S
      <4>1. fits(f[n - 1])
        BY <3>2
      <4>2. f[n] = f[n - 1] \/ Size(texts, f[n]) <= budget
        BY <2>5 DEF Adds
      <4>3. n \in 0 .. N
        BY <2>4
      <4> QED BY <4>1, <4>2, <4>3
    <3> HIDE DEF S
    <3>3. 0 .. N \subseteq S
      BY <2>4, <3>1, <3>2, InductionUpTo
    <3> QED BY <2>3, <2>4, <3>3 DEF S
  <2>11. fits(kept)
    <3> DEFINE S == {n \in 0 .. M : fits(h[n])}
    <3>1. 0 \in S
      BY <2>4, <2>7, <2>10
    <3>2. ASSUME NEW n \in 1 .. M, n - 1 \in S PROVE n \in S
      <4>1. fits(h[n - 1])
        BY <3>2
      <4>2. h[n] = h[n - 1] \/ Size(texts, h[n]) <= budget
        BY <2>7 DEF Adds
      <4>3. n \in 0 .. M
        BY <2>4
      <4> QED BY <4>1, <4>2, <4>3
    <3> HIDE DEF S
    <3>3. 0 .. M \subseteq S
      BY <2>4, <3>1, <3>2, InductionUpTo
    <3> QED BY <2>4, <2>7, <3>3 DEF S
  <2>12. ASSUME NEW d \in I \ kept, NEW k \in kept \ B,
                Score(texts, d) > Score(texts, k), Partners(texts, k) = {}
         PROVE  texts[d].size > texts[k].size
    <3>1. d \in Inner(texts) /\ d \in I /\ k \in I /\ d # k
      BY <2>4, <2>9
    <3>2. PICK p \in 1 .. N : s[p] = d
      BY <2>s, <3>1
    <3>3. p \in 0 .. N /\ p - 1 \in 0 .. N /\ N \in 0 .. N /\ p <= N /\ p - 1 <= N
      BY <2>4
    <3>4. f[p] \subseteq G /\ f[p - 1] \subseteq G
      BY <2>3, <2>6, <3>3
    <3>5. NoRoom(texts, budget, f[p - 1], d)
      BY <2>5, <2>9, <3>2, <3>4
    <3>6. CASE k \in G
      <4>1. PICK n \in 1 .. N : k \in f[n] \ f[n - 1]
        BY <2>6, <3>6
      <4>2. k = s[n] /\ Size(texts, f[n]) <= budget
        BY <2>5, <2>12, <4>1 DEF Adds
      <4>3. p < n
        <5>1. ~Before(texts, k, d)
          <6>1. Score(texts, d) \in 0 .. 100 /\ Score(texts, k) \in 0 .. 100
            BY <3>1, TextsAre
          <6> HIDE DEF Score
          <6> QED BY <2>12, <6>1 DEF Before
        <5>2. ~(n < p)
          BY <2>s, <3>2, <4>2, <5>1
        <5> QED BY <2>4, <3>1, <3>2, <4>2, <5>2
      <4>4. n \in 0 .. N /\ n - 1 \in 0 .. N /\ p - 1 <= n - 1 /\ p - 1 <= n /\ n <= N
        BY <2>4, <4>3
      <4>5. f[p - 1] \subseteq f[n - 1] /\ f[p - 1] \subseteq f[n] /\ f[n] \subseteq G
        BY <2>3, <2>6, <3>3, <4>4
      <4> QED BY <2>9, <2>12, <3>1, <3>5, <4>1, <4>2, <4>5, GaveWay
    <3>7. CASE k \notin G
      <4>1. PICK n \in 1 .. M : k \in h[n] \ h[n - 1]
        BY <2>8, <3>7
      <4>2. Size(texts, h[n]) <= budget
        BY <2>7, <4>1 DEF Adds
      <4>3. /\ n \in 0 .. M /\ n - 1 \in 0 .. M /\ 0 \in 0 .. M /\ M \in 0 .. M
            /\ 0 <= n - 1 /\ 0 <= n /\ n <= M
        BY <2>4
      <4>4. G \subseteq h[n - 1] /\ G \subseteq h[n] /\ h[n] \subseteq kept
        BY <2>7, <2>8, <4>3
      <4>5. f[p - 1] \subseteq h[n] /\ k \notin f[p - 1] /\ d \notin h[n]
        BY <3>4, <4>1, <4>4
      <4> QED BY <2>12, <3>1, <3>5, <4>1, <4>2, <4>5, GaveWay
    <3> QED BY <3>6, <3>7
  <2>13. \A d \in I \ kept, k \in kept \ B :
            Score(texts, d) > Score(texts, k) =>
               texts[d].size > texts[k].size \/ Partners(texts, k) # {}
    BY <2>12
  <2> QED BY <2>9, <2>11, <2>13 DEF B
<1> QED BY <1>1, <1>2

-----------------------------------------------------------------------------
(* The summary of a session.                                                  *)

(* The settings are fixed, and the last summary is one CompressTexts made.    *)
SummaryOK == setting \in Setting /\ SummarySound

LEMMA WrittenSound ==
    ASSUME SummaryOK, NEW a \in Agents, WriteSummary(a) PROVE SummaryOK'
<1>1. setting' = setting /\ setting \in Setting
  BY DEF WriteSummary, SummaryOK
<1>2. CASE UNCHANGED summary
  BY <1>1, <1>2 DEF SummaryOK, SummarySound, SummaryFits, SummaryKeepsTheBest
<1>3. CASE \E texts \in setting.transcripts :
              LET kept == CompressTexts(texts, setting.budget)
                  size == Size(texts, kept) + Cardinality(kept) - 1
              IN /\ Len(texts) >= setting.least /\ kept # {}
                 /\ summary' = [texts |-> texts, kept |-> kept,
                                size |-> IF size > 2 * setting.budget
                                         THEN 2 * setting.budget ELSE size]
  <2>1. PICK texts \in setting.transcripts :
           summary'.texts = texts /\ summary'.kept = CompressTexts(texts, setting.budget)
    BY <1>3
  <2> DEFINE kept == CompressTexts(texts, setting.budget)
             B == Boundaries(texts)
  <2>2. texts \in Transcripts /\ setting.budget \in Nat
    BY <1>1 DEF Setting, Transcripts
  <2> HIDE DEF kept
  <2>3. /\ B \subseteq kept
        /\ kept = B \/ Size(texts, kept) <= setting.budget
        /\ \A d \in Indices(texts) \ kept, k \in kept \ B :
              Score(texts, d) > Score(texts, k) =>
                 texts[d].size > texts[k].size \/ Partners(texts, k) # {}
    BY <2>2, CompressKeeps DEF kept
  <2>4. SummaryFits'
    <3>1. kept = B => kept = {i \in kept : i \in B \/ texts[i].size = 0}
      OBVIOUS
    <3> QED BY <1>1, <2>1, <2>3, <3>1 DEF SummaryFits, kept
  <2>5. SummaryKeepsTheBest'
    BY <2>1, <2>3 DEF SummaryKeepsTheBest, kept
  <2> QED BY <1>1, <2>4, <2>5 DEF SummaryOK, SummarySound
<1> QED BY <1>2, <1>3 DEF WriteSummary

LEMMA SummaryInit == Init => SummaryOK
<1> SUFFICES ASSUME Init PROVE SummaryOK
  OBVIOUS
<1>1. setting \in Setting /\ summary.texts = << >> /\ summary.kept = {}
  BY SessionEndAssumption DEF Init
<1>2. Indices(summary.texts) = {} /\ Boundaries(summary.texts) = {}
  BY <1>1 DEF Indices, Boundaries
<1>3. SummaryFits
  BY <1>1, <1>2 DEF SummaryFits
<1>4. SummaryKeepsTheBest
  BY <1>1, <1>2 DEF SummaryKeepsTheBest
<1> QED BY <1>1, <1>3, <1>4 DEF SummaryOK, SummarySound

LEMMA SummaryStep == SummaryOK /\ [Next]_vars => SummaryOK'
<1> SUFFICES ASSUME SummaryOK, [Next]_vars PROVE SummaryOK'
  OBVIOUS
<1>1. CASE UNCHANGED <<setting, summary>>
  BY <1>1 DEF SummaryOK, SummarySound, SummaryFits, SummaryKeepsTheBest
<1>2. ASSUME NEW a \in Agents, EnderStep(a), ~WriteSummary(a)
      PROVE  UNCHANGED <<setting, summary>>
  BY <1>2 DEF EnderStep, BeginEnd, Reflect, StorePayload, PayloadsDone, ClearCache, CheckJob,
     RunJob, OpenStamp, WriteStamp
<1>3. ASSUME NEW a \in Agents, RecallStep(a) \/ Die(a) PROVE UNCHANGED <<setting, summary>>
  BY <1>3 DEF RecallStep, LookUp, LoadBlock, LoadFails, StoreBlock, Die
<1>4. (\E row \in rows : Resolve(row)) \/ Tick \/ UNCHANGED vars => UNCHANGED <<setting, summary>>
  BY DEF Resolve, Tick, vars
<1> QED BY <1>1, <1>2, <1>3, <1>4, WrittenSound DEF Next

(* A summary of compress_texts has the first and the last text and keeps to   *)
(* its budget unless these two alone exceed it, and a text it drops was worth *)
(* no more than each text it kept, or longer, or that one is half of a call.  *)
THEOREM SummariesAreSound == Spec => []SummarySound
<1>1. SummaryOK => SummarySound
  BY DEF SummaryOK
<1> QED BY <1>1, SummaryInit, SummaryStep, PTL DEF Spec
=============================================================================
