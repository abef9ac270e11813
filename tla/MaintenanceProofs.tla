------------------------- MODULE MaintenanceProofs -------------------------
(***************************************************************************)
(* Theorems about OptimizeGate and StoreStart, and about Curation: how a   *)
(* process comes by its store and has its fragments compacted, and what    *)
(* extraction and compaction make of the memories in it.                   *)
(*                                                                         *)
(* The gate, for every set of writers, threshold and number of writes:     *)
(* every threshold crossing elects exactly one writer, and compactions do  *)
(* not overlap.  IInv is inductive: it adds to the properties that each    *)
(* lock is held exactly by the writer its program counter says.            *)
(*                                                                         *)
(* The start, for every set of threads and bound: there is one store with  *)
(* one model, and the threads that got it behave as the writers of the     *)
(* gate, so that what is shown of the gate holds of them.                  *)
(*                                                                         *)
(* Curation, for every set of facts, every text a model may extract, every *)
(* setting and bound: no fact is lost and every candidate is counted; and  *)
(* there is one profile as long as a search has room for every memory.     *)
(* CurationIInv and ProfileOK are inductive.                               *)
(***************************************************************************)
EXTENDS StoreStart, Curation, FiniteSetTheorems, SequenceTheorems, TLAPS

-----------------------------------------------------------------------------
(* The gate. *)

LEMMA InitIInv == Init => IInv
<1> SUFFICES ASSUME Init PROVE IInv
  OBVIOUS
<1>1. TypeOK
  BY DEF Init, TypeOK, Now
<1>2. ElectionsExact
  <2>1. Every \in Nat \ {0}
    BY GateAssumption
  <2>2. 0 = 0 * Every + 0 /\ 0 < Every
    BY <2>1
  <2> QED BY <2>2 DEF Init, ElectionsExact
<1>3. LocksOK
  BY NobodyAssumption DEF Init, LocksOK
<1>4. BacklogOK
  <2>1. Due = {} /\ Writing = {} /\ Cardinality({}) = 0
    BY FS_EmptySet DEF Init, Due, Writing
  <2>2. merged.added = 0 /\ merged.missed = 0 /\ added = 0 /\ missed = 0 /\ count = 0
    BY DEF Init, Now
  <2>3. Every * 0 = 0
    BY GateAssumption
  <2>4. PiledUp(merged, 0)
    BY <2>1, <2>2, <2>3 DEF PiledUp
  <2>5. runLock = Nobody
    BY DEF Init
  <2> QED BY <2>4, <2>5 DEF BacklogOK
<1> QED BY <1>1, <1>2, <1>3, <1>4 DEF IInv

-----------------------------------------------------------------------------
(* The backlog. *)

Moment == [added : Nat, missed : Nat]

LEMMA GateSets ==
    /\ IsFiniteSet(Due) /\ Cardinality(Due) \in Nat
    /\ IsFiniteSet(Writing) /\ Cardinality(Writing) \in Nat
BY GateAssumption, FS_Subset, FS_CardinalityType DEF Due, Writing

(* What piled up stays bounded over a step that is through with as many       *)
(* crossings as before, or has one more of them due.                          *)
LEMMA PileKeeps ==
    ASSUME TypeOK, TypeOK', NEW x \in Moment, NEW done \in Nat, PiledUp(x, done),
           NEW y \in Moment, NEW due \in Nat, NEW more \in {0, 1},
           y.added = x.added,
           (missed' - y.missed) + Cardinality(Due') - due
              = (missed - x.missed) + Cardinality(Due) - done + more,
           added' - (count' + Cardinality(Writing'))
              <= added - (count + Cardinality(Writing)) + Every * more
    PROVE  added' - y.added <=
              Every * ((missed' - y.missed) + Cardinality(Due') - due)
                 + count' + Cardinality(Writing')
<1> DEFINE k == (missed - x.missed) + Cardinality(Due) - done
           m == (missed' - y.missed) + Cardinality(Due') - due
<1>1. k \in Int /\ m = k + more
  BY GateSets DEF TypeOK, Moment
<1>2. IsFiniteSet(Writing') /\ Cardinality(Writing') \in Nat
  BY GateAssumption, FS_Subset, FS_CardinalityType DEF Writing
<1>3. /\ added \in Nat /\ count \in Nat /\ added' \in Nat /\ count' \in Nat
      /\ x.added \in Nat /\ Cardinality(Writing) \in Nat /\ y.added = x.added
  BY GateSets DEF TypeOK, Moment
<1>4. added - x.added <= Every * k + count + Cardinality(Writing)
  BY DEF PiledUp
<1> HIDE DEF k, m
<1>5. Every * m = Every * k + Every * more /\ Every * k \in Int /\ Every * more \in Int
  <2>1. CASE more = 0
    BY <1>1, <2>1, GateAssumption
  <2>2. CASE more = 1
    <3>1. Every * (k + 1) = Every * k + Every /\ Every * 1 = Every
      BY <1>1, GateAssumption
    <3> QED BY <1>1, <2>2, <3>1, GateAssumption
  <2> QED BY <2>1, <2>2
<1>6. added' - y.added <= Every * m + count' + Cardinality(Writing')
  BY <1>2, <1>3, <1>4, <1>5
<1> QED BY <1>6 DEF m

(* Where a writer comes to w's place or leaves it.                            *)
LEMMA OneMore ==
    ASSUME NEW S, NEW T, IsFiniteSet(S), NEW w, w \notin S, T = S \cup {w}
    PROVE  Cardinality(T) = Cardinality(S) + 1
BY FS_AddElement

LEMMA OneLess ==
    ASSUME NEW S, NEW T, IsFiniteSet(S), NEW w \in S, T = S \ {w}
    PROVE  Cardinality(T) = Cardinality(S) - 1
BY FS_RemoveElement

LEMMA BacklogStep ==
    ASSUME IInv, TypeOK', NEW w \in Writers, Step(w) PROVE BacklogOK'
<1> DEFINE D == Cardinality(Due)
           W == Cardinality(Writing)
<1>1. /\ TypeOK /\ PiledUp(merged, 0) /\ (runLock # Nobody => PiledUp(start, 1))
      /\ merged \in Moment /\ start \in Moment
  BY DEF IInv, BacklogOK, TypeOK, Moment
<1>2. /\ added \in Nat /\ missed \in Nat /\ count \in Nat /\ D \in Nat /\ W \in Nat
      /\ merged.missed \in Nat /\ start.missed \in Nat /\ Every * 0 = 0 /\ Every * 1 = Every
      /\ Every \in Nat
  BY <1>1, GateSets, GateAssumption DEF TypeOK, Moment
<1>3. pc \in [Writers -> {"idle", "count", "counting", "elected", "compact"}]
  BY <1>1 DEF TypeOK
(* A step that leaves the history of the compactions alone.                   *)
<1>4. ASSUME UNCHANGED <<merged, start>>, runLock' = runLock,
             NEW more \in {0, 1}, missed' + Cardinality(Due') = missed + D + more,
             added' - (count' + Cardinality(Writing')) <= added - (count + W) + Every * more
      PROVE  BacklogOK'
  <2>1. missed' \in Nat /\ Cardinality(Due') \in Nat
    BY GateAssumption, FS_Subset, FS_CardinalityType DEF TypeOK, Due
  <2>2. PiledUp(merged, 0)'
    <3>1. (missed' - merged.missed) + Cardinality(Due') - 0
            = (missed - merged.missed) + Cardinality(Due) - 0 + more
      <4>1. PICK d \in Nat : d = Cardinality(Due')
        BY <2>1
      <4>2. missed' + d = missed + D + more /\ merged.missed \in Nat /\ more \in Nat
        BY <1>2, <1>4, <4>1
      <4> QED BY <1>2, <2>1, <4>1, <4>2
    <3> HIDE DEF PiledUp
    <3>2. added' - merged.added <=
            Every * ((missed' - merged.missed) + Cardinality(Due') - 0)
               + count' + Cardinality(Writing')
      BY <1>1, <1>4, <3>1, PileKeeps
    <3> QED BY <1>4, <3>2 DEF PiledUp
  <2>3. ASSUME runLock' # Nobody PROVE PiledUp(start, 1)'
    <3>1. (missed' - start.missed) + Cardinality(Due') - 1
            = (missed - start.missed) + Cardinality(Due) - 1 + more
      <4>1. PICK d \in Nat : d = Cardinality(Due')
        BY <2>1
      <4>2. missed' + d = missed + D + more /\ start.missed \in Nat /\ more \in Nat
        BY <1>2, <1>4, <4>1
      <4> QED BY <1>2, <2>1, <4>1, <4>2
    <3>2. added' - start.added <=
            Every * ((missed' - start.missed) + Cardinality(Due') - 1)
               + count' + Cardinality(Writing')
      BY <1>1, <1>4, <2>3, <3>1, PileKeeps
    <3> QED BY <1>4, <3>2 DEF PiledUp
  <2> QED BY <2>2, <2>3 DEF BacklogOK
<1>5. CASE Add(w)
  <2>1. Due' = Due
    BY <1>3, <1>5 DEF Add, Goto, Due
  <2>2. w \notin Writing /\ Writing' = Writing \cup {w}
    BY <1>3, <1>5 DEF Add, Goto, Writing
  <2>3. Cardinality(Writing') = W + 1
    BY <2>2, GateSets, OneMore
  <2>4. /\ added' = added + 1 /\ count' = count /\ missed' = missed /\ runLock' = runLock
        /\ UNCHANGED <<merged, start>>
    BY <1>5 DEF Add, backlog
  <2> HIDE DEF D, W
  <2>5. missed' + Cardinality(Due') = missed + D + 0
    BY <1>2, <2>1, <2>4 DEF D
  <2>6. added' - (count' + Cardinality(Writing')) <= added - (count + W) + Every * 0
    BY <1>2, <2>3, <2>4
  <2> QED BY <1>4, <2>4, <2>5, <2>6
<1>6. CASE Enter(w)
  <2>1. Due' = Due /\ Writing' = Writing
    BY <1>3, <1>6 DEF Enter, Goto, Due, Writing
  <2>2. /\ added' = added /\ count' = count /\ missed' = missed /\ runLock' = runLock
        /\ UNCHANGED <<merged, start>>
    BY <1>6 DEF Enter, backlog, counters
  <2> HIDE DEF D, W
  <2>3. missed' + Cardinality(Due') = missed + D + 0
    BY <1>2, <2>1, <2>2 DEF D
  <2>4. added' - (count' + Cardinality(Writing')) <= added - (count + W) + Every * 0
    BY <1>2, <2>1, <2>2 DEF W
  <2> QED BY <1>4, <2>2, <2>3, <2>4
<1>7. CASE Count(w)
  <2>1. pc[w] = "counting" /\ read[w] = count /\ count < Every
    BY <1>7 DEF Count, IInv, LocksOK, ElectionsExact
  <2>2. w \in Writing /\ w \notin Due
    BY <2>1 DEF Writing, Due
  <2>3. /\ added' = added /\ missed' = missed /\ runLock' = runLock
        /\ UNCHANGED <<merged, start>>
    BY <1>7 DEF Count, backlog
  <2>4. CASE Crosses(read[w] + 1)
    <3>1. count' = 0 /\ Goto(w, "elected") /\ count = Every - 1
      BY <1>2, <1>7, <2>1, <2>4 DEF Count, Crosses
    <3>2. Writing' = Writing \ {w} /\ Due' = Due \cup {w}
      BY <1>3, <3>1 DEF Goto, Writing, Due
    <3>3. Cardinality(Writing') = W - 1 /\ Cardinality(Due') = D + 1
      BY <2>2, <3>2, GateSets, OneMore, OneLess
    <3> HIDE DEF D, W
    <3>4. missed' + Cardinality(Due') = missed + D + 1
      BY <1>2, <2>3, <3>3
    <3>5. added' - (count' + Cardinality(Writing')) <= added - (count + W) + Every * 1
      BY <1>2, <2>3, <3>1, <3>3
    <3> QED BY <1>4, <2>3, <3>4, <3>5
  <2>5. CASE ~Crosses(read[w] + 1)
    <3>1. count' = count + 1 /\ Goto(w, "idle")
      BY <1>7, <2>1, <2>5 DEF Count
    <3>2. Writing' = Writing \ {w} /\ Due' = Due
      BY <1>3, <2>1, <3>1 DEF Goto, Writing, Due
    <3>3. Cardinality(Writing') = W - 1
      BY <2>2, <3>2, GateSets, OneLess
    <3> HIDE DEF D, W
    <3>4. missed' + Cardinality(Due') = missed + D + 0
      BY <1>2, <2>3, <3>2 DEF D
    <3>5. added' - (count' + Cardinality(Writing')) <= added - (count + W) + Every * 0
      BY <1>2, <2>3, <3>1, <3>3
    <3> QED BY <1>4, <2>3, <3>4, <3>5
  <2> QED BY <2>4, <2>5
<1>8. ASSUME pc[w] \in {"elected", "compact"}, Goto(w, "idle") \/ Goto(w, "compact"),
             UNCHANGED <<added, count>>
      PROVE  /\ Writing' = Writing
             /\ Goto(w, "compact") => Due' = Due
             /\ Goto(w, "idle") => Cardinality(Due') = D - 1
  <2>1. Writing' = Writing
    BY <1>3, <1>8 DEF Goto, Writing
  <2>2. Goto(w, "compact") => Due' = Due
    BY <1>3, <1>8 DEF Goto, Due
  <2>3. ASSUME Goto(w, "idle") PROVE Cardinality(Due') = D - 1
    <3>1. w \in Due /\ Due' = Due \ {w}
      BY <1>3, <1>8, <2>3 DEF Goto, Due
    <3> QED BY <3>1, GateSets, OneLess
  <2> QED BY <2>1, <2>2, <2>3
<1>9. CASE Compact(w)
  <2>1. pc[w] = "elected" /\ UNCHANGED <<added, count, merged>>
    BY <1>9 DEF Compact, counters
  <2>2. CASE runLock = Nobody
    <3>1. Goto(w, "compact") /\ start' = Now /\ missed' = missed
      BY <1>9, <2>2 DEF Compact
    <3>2. Writing' = Writing /\ Due' = Due /\ w \in Due
      BY <1>8, <2>1, <3>1 DEF Due
    <3>3. PiledUp(merged, 0)'
      BY <1>1, <2>1, <3>1, <3>2 DEF PiledUp
    <3>4. D >= 1
      BY <1>2, <3>2, GateSets, FS_EmptySet
    <3>5. start'.added = added /\ start'.missed = missed
      BY <3>1 DEF Now
    <3>6. Every * (D - 1) >= 0
      BY <1>2, <3>4
    <3>7. PiledUp(start, 1)'
      <4>1. added' - start'.added = 0 /\ (missed' - start'.missed) + D - 1 = D - 1
        BY <1>2, <2>1, <3>1, <3>5
      <4>2. Cardinality(Due') = D /\ Cardinality(Writing') = W /\ count' = count
        BY <2>1, <3>2
      <4> HIDE DEF D, W
      <4>3. Every * (D - 1) \in Int
        BY <1>2
      <4>4. 0 <= Every * (D - 1) + count + W
        BY <1>2, <3>6, <4>3
      <4> QED BY <4>1, <4>2, <4>4 DEF PiledUp
    <3> QED BY <3>3, <3>7 DEF BacklogOK
  <2>3. CASE runLock # Nobody
    <3>1. /\ Goto(w, "idle") /\ missed' = missed + 1 /\ runLock' = runLock
          /\ UNCHANGED <<merged, start>>
      BY <1>9, <2>3 DEF Compact
    <3>2. Writing' = Writing /\ Cardinality(Due') = D - 1
      BY <1>8, <2>1, <3>1
    <3> HIDE DEF D, W
    <3>3. missed' + Cardinality(Due') = missed + D + 0
      BY <1>2, <3>1, <3>2
    <3>4. added' - (count' + Cardinality(Writing')) <= added - (count + W) + Every * 0
      BY <1>2, <2>1, <3>2 DEF W
    <3> QED BY <1>4, <3>1, <3>3, <3>4
  <2> QED BY <2>2, <2>3
<1>10. CASE Compacted(w)
  <2>1. /\ pc[w] = "compact" /\ Goto(w, "idle") /\ merged' = start /\ runLock' = Nobody
        /\ UNCHANGED <<added, count, missed, start>>
    BY <1>10 DEF Compacted, counters
  <2>2. runLock = w /\ runLock # Nobody
    BY <2>1, NobodyAssumption DEF IInv, LocksOK
  <2>3. Writing' = Writing /\ Cardinality(Due') = D - 1
    BY <1>8, <2>1
  <2>4. (missed' - start.missed) + Cardinality(Due') - 0
          = (missed - start.missed) + Cardinality(Due) - 1 + 0
    BY <1>2, <2>1, <2>3
  <2>5. added' - (count' + Cardinality(Writing')) <= added - (count + W) + Every * 0
    BY <1>2, <2>1, <2>3
  <2>6. added' - start.added <=
          Every * ((missed' - start.missed) + Cardinality(Due') - 0)
             + count' + Cardinality(Writing')
    BY <1>1, <2>2, <2>4, <2>5, PileKeeps
  <2> QED BY <2>1, <2>6 DEF BacklogOK, PiledUp
<1>11. CASE OptimizeFails(w)
  <2>1. /\ pc[w] = "compact" /\ Goto(w, "idle") /\ missed' = missed + 1 /\ runLock' = Nobody
        /\ UNCHANGED <<added, count, merged>>
    BY <1>11 DEF OptimizeFails, counters
  <2>2. Writing' = Writing /\ Cardinality(Due') = D - 1
    BY <1>8, <2>1
  <2>3. (missed' - merged.missed) + Cardinality(Due') - 0
          = (missed - merged.missed) + Cardinality(Due) - 0 + 0
    BY <1>2, <2>1, <2>2
  <2>4. added' - (count' + Cardinality(Writing')) <= added - (count + W) + Every * 0
    BY <1>2, <2>1, <2>2
  <2>5. added' - merged.added <=
          Every * ((missed' - merged.missed) + Cardinality(Due') - 0)
             + count' + Cardinality(Writing')
    BY <1>1, <2>3, <2>4, PileKeeps
  <2> QED BY <2>1, <2>5 DEF BacklogOK, PiledUp
<1> QED BY <1>5, <1>6, <1>7, <1>9, <1>10, <1>11 DEF Step, Finish

-----------------------------------------------------------------------------
(* What each action does to the invariant. *)
LEMMA AddPreserves ==
    ASSUME IInv, NEW w \in Writers, Add(w) PROVE IInv'
<1>1. TypeOK'
  BY DEF IInv, TypeOK, Add, Goto, counters, backlog, Now
<1>2. ElectionsExact'
  BY DEF IInv, ElectionsExact, Add, counters, backlog
<1>3. LocksOK'
  BY DEF IInv, TypeOK, LocksOK, Add, Goto
<1>4. BacklogOK'
  BY <1>1, BacklogStep DEF Step, Finish
<1> QED BY <1>1, <1>2, <1>3, <1>4 DEF IInv

LEMMA EnterPreserves ==
    ASSUME IInv, NEW w \in Writers, Enter(w) PROVE IInv'
<1>1. TypeOK'
  BY DEF IInv, TypeOK, Enter, Goto, counters, backlog, Now
<1>2. ElectionsExact'
  BY DEF IInv, ElectionsExact, Enter, counters, backlog
<1>3. LocksOK'
  BY NobodyAssumption DEF IInv, TypeOK, LocksOK, Enter, Goto
<1>4. BacklogOK'
  BY <1>1, BacklogStep DEF Step, Finish
<1> QED BY <1>1, <1>2, <1>3, <1>4 DEF IInv

(* The writer in "counting" has read the present value, so the new value is *)
(* one more, and crossing means that it has just reached Every.             *)
LEMMA CountPreserves ==
    ASSUME IInv, NEW w \in Writers, Count(w) PROVE IInv'
<1> DEFINE n == read[w] + 1
<1>1. pc[w] = "counting" /\ counterLock = w /\ read[w] = count /\ n = count + 1
  BY DEF Count, IInv, LocksOK
<1>2. count \in Nat /\ elected \in Nat /\ counted \in Nat
  BY DEF IInv, TypeOK
<1>3. count < Every /\ counted = elected * Every + count /\ Every \in Nat \ {0}
  BY GateAssumption DEF IInv, ElectionsExact
<1>4. CASE Crosses(n)
  <2>1. n = Every
    BY <1>1, <1>2, <1>3, <1>4 DEF Crosses
  <2>2. count' = 0 /\ elected' = elected + 1 /\ counted' = counted + 1
    BY <1>4 DEF Count
  <2>3. (elected + 1) * Every = elected * Every + Every
    BY <1>2, <1>3
  <2>4. elected * Every \in Nat
    BY <1>2, <1>3
  <2>5. ElectionsExact'
    BY <1>1, <1>2, <1>3, <2>1, <2>2, <2>3, <2>4 DEF ElectionsExact
  <2>6. TypeOK'
    BY <1>4 DEF IInv, TypeOK, Count, Goto, backlog
  <2>7. LocksOK'
    BY <1>4, NobodyAssumption DEF IInv, TypeOK, LocksOK, Count, Goto
  <2>8. BacklogOK'
    BY <2>6, BacklogStep DEF Step, Finish
  <2> QED BY <2>5, <2>6, <2>7, <2>8 DEF IInv
<1>5. CASE ~Crosses(n)
  <2>1. n < Every
    BY <1>1, <1>2, <1>3, <1>5 DEF Crosses
  <2>2. count' = n /\ elected' = elected /\ counted' = counted + 1
    BY <1>5 DEF Count
  <2>4. elected * Every \in Nat
    BY <1>2, <1>3
  <2>5. ElectionsExact'
    BY <1>1, <1>2, <1>3, <2>1, <2>2, <2>4 DEF ElectionsExact
  <2>6. TypeOK'
    BY <1>5, <2>2, <1>1, <1>2 DEF IInv, TypeOK, Count, Goto, backlog
  <2>7. LocksOK'
    <3>2. \A v \in Writers : pc'[v] = "counting" => counterLock' = v /\ read'[v] = count'
      BY <1>5, <1>1 DEF IInv, TypeOK, LocksOK, Count, Goto
    <3>3. \A v \in Writers : pc'[v] = "compact" <=> runLock' = v
      BY <1>5, <1>1 DEF IInv, TypeOK, LocksOK, Count, Goto
    <3> QED BY <3>2, <3>3 DEF LocksOK
  <2>8. BacklogOK'
    BY <2>6, BacklogStep DEF Step, Finish
  <2> QED BY <2>5, <2>6, <2>7, <2>8 DEF IInv
<1> QED BY <1>4, <1>5

LEMMA CompactPreserves ==
    ASSUME IInv, NEW w \in Writers, Compact(w) PROVE IInv'
<1>1. TypeOK'
  BY DEF IInv, TypeOK, Compact, Goto, counters, backlog, Now
<1>2. ElectionsExact'
  BY DEF IInv, ElectionsExact, Compact, counters, backlog
<1>3. LocksOK'
  BY NobodyAssumption DEF IInv, TypeOK, LocksOK, Compact, Goto
<1>4. BacklogOK'
  BY <1>1, BacklogStep DEF Step, Finish
<1> QED BY <1>1, <1>2, <1>3, <1>4 DEF IInv

LEMMA CompactedPreserves ==
    ASSUME IInv, NEW w \in Writers, Compacted(w) PROVE IInv'
<1>1. TypeOK'
  BY DEF IInv, TypeOK, Compacted, Goto, counters, backlog, Now
<1>2. ElectionsExact'
  BY DEF IInv, ElectionsExact, Compacted, counters, backlog
<1>3. LocksOK'
  BY NobodyAssumption DEF IInv, TypeOK, LocksOK, Compacted, Goto
<1>4. BacklogOK'
  BY <1>1, BacklogStep DEF Step, Finish
<1> QED BY <1>1, <1>2, <1>3, <1>4 DEF IInv

LEMMA OptimizeFailsPreserves ==
    ASSUME IInv, NEW w \in Writers, OptimizeFails(w) PROVE IInv'
<1>1. TypeOK'
  BY DEF IInv, TypeOK, OptimizeFails, Goto, counters, backlog, Now
<1>2. ElectionsExact'
  BY DEF IInv, ElectionsExact, OptimizeFails, counters, backlog
<1>3. LocksOK'
  BY NobodyAssumption DEF IInv, TypeOK, LocksOK, OptimizeFails, Goto
<1>4. BacklogOK'
  BY <1>1, BacklogStep DEF Step, Finish
<1> QED BY <1>1, <1>2, <1>3, <1>4 DEF IInv

LEMMA StepPreserves == IInv /\ [Next]_vars => IInv'
<1> SUFFICES ASSUME IInv, [Next]_vars PROVE IInv'
  OBVIOUS
<1>1. ASSUME NEW w \in Writers, Step(w) PROVE IInv'
  BY <1>1, AddPreserves, EnterPreserves, CountPreserves, CompactPreserves,
     CompactedPreserves, OptimizeFailsPreserves DEF Step, Finish
<1>2. CASE UNCHANGED vars
  <2>1. UNCHANGED <<pc, count, read, counterLock, runLock, counters, backlog>>
    BY <1>2 DEF vars
  <2>2. TypeOK' /\ ElectionsExact' /\ LocksOK'
    BY <2>1 DEF IInv, TypeOK, ElectionsExact, LocksOK, counters, backlog
  <2>3. BacklogOK'
    BY <2>1 DEF IInv, BacklogOK, PiledUp, Due, Writing, counters, backlog
  <2> QED BY <2>2, <2>3 DEF IInv
<1> QED BY <1>1, <1>2 DEF Next, Finished

LEMMA Inductive == Spec => []IInv
BY InitIInv, StepPreserves, PTL DEF Spec

(* The counter's values and program counters stay in their ranges. *)
THEOREM TypeCorrect == Spec => []TypeOK
<1>1. IInv => TypeOK
  BY DEF IInv
<1> QED BY <1>1, Inductive, PTL

(* No write is lost by the counter of _maybe_optimize and each crossing of   *)
(* the threshold elects exactly one writer, however the writers interleave.  *)
THEOREM EveryCrossingElects == Spec => []ElectionsExact
<1>1. IInv => ElectionsExact
  BY DEF IInv
<1> QED BY <1>1, Inductive, PTL

(* Compactions started by writes never overlap. *)
THEOREM CompactionsExclude == Spec => []SingleFlight
<1>1. IInv => SingleFlight
  BY DEF IInv, LocksOK, SingleFlight
<1> QED BY <1>1, Inductive, PTL

(* For every number of writers: what has piled up in the table since the last *)
(* compaction of it that succeeded began is less than AUTO_OPTIMIZE_EVERY      *)
(* writes, and as many for each crossing of _maybe_optimize that was skipped,  *)
(* failed or is not through (store.py:508-514, 540-544).                       *)
THEOREM BacklogStaysBounded == Spec => []BacklogBounded
<1>1. IInv => BacklogBounded
  <2> SUFFICES ASSUME IInv PROVE BacklogBounded
    OBVIOUS
  <2> DEFINE k == (missed - merged.missed) + Cardinality(Due) - 0
  <2>1. added - merged.added <= Every * k + count + Cardinality(Writing)
    BY DEF IInv, BacklogOK, PiledUp
  <2>2. /\ k \in Int /\ added \in Nat /\ merged.added \in Nat /\ count \in Nat
        /\ Cardinality(Writing) \in Nat /\ count < Every /\ Every \in Nat
    BY GateSets, GateAssumption DEF IInv, TypeOK, ElectionsExact
  <2>3. 1 + (missed - merged.missed) + Cardinality(Due) = k + 1
    BY GateSets DEF IInv, TypeOK
  <2> HIDE DEF k
  <2>4. Every * (k + 1) = Every * k + Every /\ Every * k \in Int
    BY <2>2
  <2>5. added - merged.added < Every * (k + 1) + Cardinality(Writing)
    BY <2>1, <2>2, <2>4
  <2> QED BY <2>3, <2>5 DEF BacklogBounded
<1> QED BY <1>1, Inductive, PTL

-----------------------------------------------------------------------------
(* The start. *)

(* Every step of a starting or writing thread is a step of the gate, or none. *)
LEMMA StepIsGateStep == [StartNext]_allVars => [Next]_vars
<1> SUFFICES ASSUME [StartNext]_allVars PROVE [Next]_vars
  OBVIOUS
<1>1. CASE \E w \in Writers : Write(w)
  BY <1>1 DEF Write, Next, Step
<1>2. CASE UNCHANGED vars
  BY <1>2
<1>3. CASE Finished
  BY <1>3 DEF Next
<1> QED BY <1>1, <1>2, <1>3 DEF StartNext, allVars

(* The threads of a process that share the store go through its gate as       *)
(* OptimizeGate says: the composition implements the gate's specification.    *)
THEOREM StartImplementsGate == StartSpec => Spec
<1>1. StartInit => Init
  BY DEF StartInit
<1> QED BY <1>1, StepIsGateStep, PTL DEF StartSpec, Spec

(* So the counter elects one writer per crossing here too.                    *)
THEOREM StartedWritersElect == StartSpec => []ElectionsExact
BY StartImplementsGate, EveryCrossingElects, PTL

LEMMA StartInitIInv == StartInit => StartIInv
BY StartAssumption DEF StartInit, Init, StartIInv, StartTypeOK, NoStore, Opened

LEMMA GetInstancePreserves ==
    ASSUME StartIInv, NEW w \in Writers, GetInstance(w), UNCHANGED vars PROVE StartIInv'
<1> USE DEF NoStore, Opened
<1>1. CASE registered # NoStore
  <2>1. StartTypeOK'
    BY <1>1 DEF StartIInv, StartTypeOK, GetInstance, Advance
  <2> QED BY <1>1, <2>1 DEF StartIInv, StartTypeOK, GetInstance, Advance, vars
<1>2. CASE registered = NoStore
  <2>1. StartTypeOK'
    BY <1>2, StartAssumption DEF StartIInv, StartTypeOK, GetInstance, Advance
  <2>2. instLock = Nobody
    BY DEF GetInstance, InstancesFree
  <2>3. \A v \in Writers : at[v] # "ensure"
    BY <2>2, NobodyAssumption DEF StartIInv
  <2> QED BY <1>2, <2>1, <2>3, StartAssumption DEF StartIInv, StartTypeOK, GetInstance, Advance, vars
<1> QED BY <1>1, <1>2

LEMMA EnsureTablePreserves ==
    ASSUME StartIInv, NEW w \in Writers, EnsureTable(w), UNCHANGED vars PROVE StartIInv'
<1> USE DEF NoStore, Opened
<1>1. at[w] = "ensure" /\ instLock = w /\ registered = NoStore /\ holds[w] # NoStore
  BY DEF StartIInv, EnsureTable, Advance
<1>2. \A v \in Writers \ {w} : at[v] = "new"
  BY <1>1 DEF StartIInv, StartTypeOK
<1>3. StartTypeOK'
  BY <1>1 DEF StartIInv, StartTypeOK, EnsureTable, Advance
<1> QED BY <1>1, <1>2, <1>3 DEF StartIInv, StartTypeOK, EnsureTable, Advance, vars

LEMMA InitialiseFailsPreserves ==
    ASSUME StartIInv, NEW w \in Writers, InitialiseFails(w), UNCHANGED vars PROVE StartIInv'
<1> USE DEF NoStore, Opened
<1>1. at[w] = "ensure" /\ instLock = w /\ registered = NoStore
  BY DEF StartIInv, InitialiseFails, Advance
<1>2. \A v \in Writers \ {w} : at[v] = "new"
  BY <1>1 DEF StartIInv, StartTypeOK
<1>3. StartTypeOK'
  BY <1>1, StartAssumption DEF StartIInv, StartTypeOK, InitialiseFails, Advance
<1> QED BY <1>1, <1>2, <1>3 DEF StartIInv, StartTypeOK, InitialiseFails, Advance, vars

LEMMA CheckEmbedderPreserves ==
    ASSUME StartIInv, NEW w \in Writers, CheckEmbedder(w), UNCHANGED vars PROVE StartIInv'
<1> USE DEF NoStore, Opened
<1>1. StartTypeOK'
  BY DEF StartIInv, StartTypeOK, CheckEmbedder
<1> QED BY <1>1 DEF StartIInv, StartTypeOK, CheckEmbedder, vars

LEMMA LockEmbedderPreserves ==
    ASSUME StartIInv, NEW w \in Writers, LockEmbedder(w), UNCHANGED vars PROVE StartIInv'
<1> USE DEF NoStore, Opened
<1>1. at[w] = "wait" /\ holds[w] = registered /\ registered \in 1 .. MaxStores
  BY StartAssumption DEF StartIInv, StartTypeOK, LockEmbedder, Advance
<1>2. embedLock[registered] = Nobody
  BY <1>1 DEF LockEmbedder
<1>3. \A v \in Writers : at[v] \notin {"recheck", "load"}
  BY <1>2, NobodyAssumption DEF StartIInv
<1>4. StartTypeOK'
  BY <1>1 DEF StartIInv, StartTypeOK, LockEmbedder, Advance
<1>5. embedLock'[registered] = w
  BY <1>1 DEF StartIInv, StartTypeOK, LockEmbedder
<1> QED BY <1>1, <1>3, <1>4, <1>5 DEF StartIInv, StartTypeOK, LockEmbedder, Advance, vars

(* Only one thread is between the lock and its release.                       *)
LEMMA OneLoader ==
    ASSUME StartIInv, NEW w \in Writers, at[w] \in {"recheck", "load"}
    PROVE  /\ holds[w] = registered /\ registered \in 1 .. MaxStores
           /\ \A v \in Writers \ {w} : at[v] \notin {"recheck", "load"}
<1>1. holds[w] = registered /\ registered \in 1 .. MaxStores
  BY StartAssumption DEF StartIInv, StartTypeOK, NoStore, Opened
<1>2. \A v \in Writers : at[v] \in {"recheck", "load"} => v = w
  BY DEF StartIInv
<1> QED BY <1>1, <1>2

LEMMA RecheckPreserves ==
    ASSUME StartIInv, NEW w \in Writers, Recheck(w), UNCHANGED vars PROVE StartIInv'
<1> USE DEF NoStore, Opened
<1>1. /\ at[w] = "recheck" /\ holds[w] = registered /\ registered \in 1 .. MaxStores
      /\ \A v \in Writers \ {w} : at[v] \notin {"recheck", "load"}
  BY OneLoader DEF Recheck
<1>2. CASE MustLoad(w)
  <2>1. embedders = {}
    BY <1>1, <1>2 DEF StartIInv, StartTypeOK, MustLoad
  <2>2. StartTypeOK'
    BY <1>1, <1>2 DEF StartIInv, StartTypeOK, Recheck
  <2> QED BY <1>1, <1>2, <2>1, <2>2 DEF StartIInv, StartTypeOK, Recheck, vars
<1>3. CASE ~MustLoad(w)
  <2>1. registered \in embedders
    BY <1>1, <1>3 DEF MustLoad
  <2>2. StartTypeOK'
    BY <1>1, <1>3 DEF StartIInv, StartTypeOK, Recheck
  <2> QED BY <1>1, <1>3, <2>1, <2>2 DEF StartIInv, StartTypeOK, Recheck, vars
<1> QED BY <1>2, <1>3

LEMMA LoadEmbedderPreserves ==
    ASSUME StartIInv, NEW w \in Writers, LoadEmbedder(w), UNCHANGED vars PROVE StartIInv'
<1> USE DEF NoStore, Opened
<1>1. /\ at[w] = "load" /\ holds[w] = registered /\ registered \in 1 .. MaxStores
      /\ \A v \in Writers \ {w} : at[v] \notin {"recheck", "load"}
  BY OneLoader DEF LoadEmbedder
<1>2. embedders = {} /\ loads = 0
  BY <1>1 DEF StartIInv
<1>3. CASE at' = [at EXCEPT ![w] = "ready"] /\ embedders' = embedders \cup {holds[w]} /\ loads' = loads + 1
  <2>1. StartTypeOK'
    BY <1>1, <1>2, <1>3 DEF StartIInv, StartTypeOK, LoadEmbedder
  <2>2. \A v \in Writers : at[v] \notin {"ready"}
    BY <1>2 DEF StartIInv
  <2> QED BY <1>1, <1>2, <1>3, <2>1, <2>2 DEF StartIInv, StartTypeOK, LoadEmbedder, vars
<1>4. CASE at' = [at EXCEPT ![w] = "check"] /\ UNCHANGED <<embedders, loads>>
  <2>1. StartTypeOK'
    BY <1>1, <1>4 DEF StartIInv, StartTypeOK, LoadEmbedder
  <2> QED BY <1>1, <1>4, <2>1 DEF StartIInv, StartTypeOK, LoadEmbedder, vars
<1> QED BY <1>3, <1>4 DEF LoadEmbedder

(* The gate leaves the start alone, and is entered only from "ready".         *)
LEMMA WritePreserves ==
    ASSUME StartIInv, TypeOK, NEW w \in Writers, Write(w), UNCHANGED startVars PROVE StartIInv'
<1>1. StartTypeOK'
  BY DEF StartIInv, StartTypeOK, startVars
<1>2. \A v \in Writers : pc'[v] # "idle" => at[v] = "ready"
  BY DEF StartIInv, TypeOK, Write, Add, Finish, Enter, Count, Compact, Compacted, OptimizeFails, Goto
<1> QED BY <1>1, <1>2 DEF StartIInv, startVars

LEMMA StartStepPreserves == StartIInv /\ TypeOK /\ [StartNext]_allVars => StartIInv'
<1> SUFFICES ASSUME StartIInv, TypeOK, [StartNext]_allVars PROVE StartIInv'
  OBVIOUS
<1>1. ASSUME NEW w \in Writers, Start(w), UNCHANGED vars PROVE StartIInv'
  BY <1>1, GetInstancePreserves, EnsureTablePreserves, InitialiseFailsPreserves,
     CheckEmbedderPreserves, LockEmbedderPreserves, RecheckPreserves,
     LoadEmbedderPreserves DEF Start
<1>2. CASE CreateElsewhere /\ UNCHANGED vars
  BY <1>2 DEF CreateElsewhere, StartIInv, StartTypeOK, Opened, vars
<1>3. ASSUME NEW w \in Writers, Write(w), UNCHANGED startVars PROVE StartIInv'
  BY <1>3, WritePreserves
<1>4. CASE UNCHANGED allVars
  BY <1>4 DEF allVars, vars, startVars, StartIInv, StartTypeOK
<1>5. CASE Finished /\ UNCHANGED startVars
  BY <1>5 DEF Finished, vars, startVars, StartIInv, StartTypeOK
<1> QED BY <1>1, <1>2, <1>3, <1>4, <1>5 DEF StartNext

(* However the threads interleave and whatever fails, they get one store,     *)
(* after its table was opened, and its model is loaded once, before any row   *)
(* is added.                                                                  *)
THEOREM StartsOnce == StartSpec => []StartOnce
<1>1. StartIInv => StartOnce
  BY DEF StartIInv, StartTypeOK, StartOnce, Opened
<1>2. StartSpec => []TypeOK
  BY StartImplementsGate, TypeCorrect, PTL
<1> QED BY <1>1, <1>2, StartInitIInv, StartStepPreserves, PTL DEF StartSpec

-----------------------------------------------------------------------------
(* Curation: its inductive invariant. *)

JobPlaces == {"none", "wait", "search", "merge_read", "merge_write", "supersede", "store",
              "count", "counting", "done"}
Job == [pc : JobPlaces, match : Ids \cup {NoId}, read : SUBSET Facts, outcome : Outcomes,
        tally : Nat]

CurationTypeOK ==
    /\ setting \in Setting
    /\ rows \in [Ids -> Row \cup {NoRow}]
    /\ stored \in 0 .. MaxRows
    /\ turn \in [state : {"none", "running"},
                 cands : {s \in Seq(Facts) : Len(s) <= MaxCands}, legacy : BOOLEAN]
    /\ job \in [Jobs -> Job]
    /\ stats \in [Outcomes -> Nat]
    /\ lock \in Jobs \cup {NoId}
    /\ comp \in [pc : {"idle", "store", "forget"}, plans : SUBSET SUBSET Ids,
                 snap : [Ids -> SUBSET Facts], todo : SUBSET Ids]
    /\ known \subseteq Facts /\ replaced \subseteq Facts

(* Rows are stored in the order of their numbers; a chain leads upwards.      *)
RowsOK ==
    /\ \A i \in Ids : i > stored => rows[i] = NoRow
    /\ \A i \in Ids : Exists(i) /\ rows[i].archived => rows[i].next \in Ids /\ rows[i].next > i

(* Who may be at what: only the turn's candidates are processed, those of the *)
(* fallback are just stored, one worker has one candidate, and without overlap*)
(* a turn and a compaction exclude each other.                                *)
WorkOK ==
    /\ turn.state = "none" => Cands = {}
    /\ \A k \in Jobs : job[k].pc # "none" => k \in Cands
    /\ turn.legacy => \A k \in Jobs :
          job[k].pc \notin {"search", "merge_read", "merge_write", "supersede"}
    /\ setting.workers = 1 => \A j, k \in Jobs : Busy(j) /\ Busy(k) => j = k
    /\ comp.pc = "idle" => comp.plans = {} /\ comp.todo = {}
    /\ ~setting.overlap => turn.state = "none" \/ comp.pc = "idle"
    /\ \A k \in Jobs :
          job[k].pc \in {"merge_read", "merge_write", "supersede"} => job[k].match \in Ids

(* The statistics count exactly the candidates that are over; the lock keeps  *)
(* what its holder has read from changing.                                    *)
Over(k) == job[k].pc \in {"none", "done"}

CountOK ==
    /\ turn.state = "running" => Total(stats) = Cardinality({k \in Cands : Over(k)})
    /\ \A k \in Jobs : job[k].pc = "counting" => lock = k /\ job[k].tally = stats[job[k].outcome]

(* What a merge is written from is still what the match states.               *)
ReadOK(k) ==
    job[k].pc = "merge_write" /\ Reach(job[k].match) # NoId =>
        rows[Reach(job[k].match)].facts = job[k].read

(* What the compactor relies on: a member is as it was scanned, and the facts *)
(* of a member still to be forgotten are stated by a row that stays.          *)
Intact(i) == Live(i) /\ rows[i].facts = comp.snap[i]
Stated(facts) ==
    \E r \in Visible : r \notin comp.todo \cup UNION comp.plans /\ facts \subseteq rows[r].facts

CompactOK ==
    /\ \A C, D \in comp.plans : C # D => C \cap D = {}
    /\ \A C \in comp.plans : C \cap comp.todo = {} /\ \A i \in C : Intact(i)
    /\ \A m \in comp.todo : Intact(m) /\ Stated(comp.snap[m])

(* All of this where facts have to survive.                                   *)
FactsOK ==
    setting.workers = 1 /\ ~setting.overlap =>
        FactsKept /\ CompactOK /\ \A k \in Jobs : ReadOK(k)

(* A candidate about to store a profile found none; one about to be merged    *)
(* holds the only one, or that was deleted since.                             *)
Profiles == {i \in Visible : rows[i].profile}
ProfileJobOK(k) ==
    Kind(k) = "profile" /\ ~turn.legacy =>
       /\ job[k].pc = "store" => Profiles = {}
       /\ job[k].pc \in {"merge_read", "merge_write"} =>
             Profiles \subseteq {job[k].match} /\ (Exists(job[k].match) => Live(job[k].match))
       /\ job[k].pc # "supersede"
ProfileOK ==
    setting.workers = 1 /\ ~setting.faulty =>
        /\ \A i, j \in Profiles : i = j
        /\ \A k \in Cands : ProfileJobOK(k)

(* ProfileOK is kept apart: only with room in the search is it inductive.     *)
CurationIInv == CurationTypeOK /\ RowsOK /\ WorkOK /\ CountOK /\ FactsOK

-----------------------------------------------------------------------------
(* Chains. *)

LEMMA LeastNumber ==
    ASSUME NEW S \in SUBSET Nat, S # {}
    PROVE  \E m \in S : \A n \in S : m <= n
<1>1. PICK m \in S : \A n \in S : ~(<<n, m>> \in OpToRel(<, Nat))
  BY NatLessThanWellFounded, WFMin
<1>2. \A n \in S : ~(<<n, m>> \in {x \in Nat \X Nat : x[1] < x[2]})
  BY <1>1 DEF OpToRel
<1>3. ASSUME NEW n \in S PROVE m <= n
  <2>1. <<n, m>> \in Nat \X Nat
    OBVIOUS
  <2>2. ~(<<n, m>>[1] < <<n, m>>[2])
    BY <1>2, <2>1
  <2> QED BY <2>1, <2>2
<1> QED BY <1>3

LEMMA InductionUpTo ==
    ASSUME NEW N \in Nat, NEW S, 0 \in S, \A n \in 1 .. N : n - 1 \in S => n \in S
    PROVE  0 .. N \subseteq S
<1> SUFFICES ASSUME (0 .. N) \ S # {} PROVE FALSE
  OBVIOUS
<1> DEFINE T == (0 .. N) \ S
<1>0. T \in SUBSET Nat /\ T # {}
  OBVIOUS
<1>1. PICK m \in T : \A n \in T : m <= n
  <2> HIDE DEF T
  <2> QED BY <1>0, LeastNumber
<1>2. m \in 1 .. N /\ m - 1 \in 0 .. N /\ m - 1 \in S
  BY <1>1
<1> QED BY <1>1, <1>2

(* Where a chain leads, given where it leads from the rows after this one.   *)
Follow(walk, j) ==
    IF ~Exists(j) THEN NoId ELSE IF rows[j].archived THEN walk[rows[j].next] ELSE j

LEMMA WalkExists ==
    ASSUME CurationTypeOK, RowsOK
    PROVE  \E walk : walk = [j \in Ids |-> Follow(walk, j)]
<1>0. MaxRows \in Nat
  BY CurationAssumption
<1> DEFINE Later(n) == {j \in Ids : j > MaxRows - n}
           S == {n \in 0 .. MaxRows : \E w \in [Ids -> Ids \cup {NoId}] :
                    \A j \in Later(n) : w[j] = Follow(w, j)}
<1>1. 0 \in S
  <2>1. Later(0) = {}
    BY <1>0 DEF Ids
  <2>2. [j \in Ids |-> NoId] \in [Ids -> Ids \cup {NoId}]
    OBVIOUS
  <2> HIDE DEF Later
  <2>3. \E w \in [Ids -> Ids \cup {NoId}] : \A j \in Later(0) : w[j] = Follow(w, j)
    BY <2>1, <2>2
  <2> QED BY <1>0, <2>3
<1>2. ASSUME NEW n \in 1 .. MaxRows, n - 1 \in S PROVE n \in S
  <2>1. PICK w \in [Ids -> Ids \cup {NoId}] : \A j \in Later(n - 1) : w[j] = Follow(w, j)
    BY <1>2
  <2> DEFINE m == MaxRows + 1 - n
             v == [w EXCEPT ![m] = Follow(w, m)]
  <2>2. m \in Ids /\ n \in 0 .. MaxRows
    BY <1>0 DEF Ids
  <2>3. \A j \in Later(n) : j \in Ids /\ (j = m \/ j \in Later(n - 1))
    BY <1>0 DEF Ids
  <2>4. ASSUME NEW j \in Ids, j >= m, Exists(j), rows[j].archived
        PROVE  rows[j].next \in Ids /\ rows[j].next # m
    BY <1>0, <2>2, <2>4 DEF RowsOK, Ids
  <2> HIDE DEF m
  <2>5. Follow(w, m) \in Ids \cup {NoId}
    BY <2>1, <2>2, <2>4 DEF Follow, Ids
  <2>6. v \in [Ids -> Ids \cup {NoId}]
    BY <2>1, <2>5
  <2>7. ASSUME NEW j \in Later(n) PROVE v[j] = Follow(v, j)
    <3>1. j >= m
      BY <1>0, <2>3, <2>7 DEF m, Ids
    <3>2. Follow(v, j) = Follow(w, j)
      BY <2>1, <2>3, <2>4, <3>1 DEF Follow
    <3>3. CASE j = m
      BY <2>1, <2>2, <3>2, <3>3
    <3>4. CASE j # m
      BY <2>1, <2>3, <3>2, <3>4
    <3> QED BY <3>3, <3>4
  <2> QED BY <2>2, <2>6, <2>7
<1>3. 0 .. MaxRows \subseteq S
  <2> HIDE DEF S
  <2> QED BY <1>0, <1>1, <1>2, InductionUpTo
<1>4. PICK w \in [Ids -> Ids \cup {NoId}] : \A j \in Later(MaxRows) : w[j] = Follow(w, j)
  BY <1>0, <1>3
<1>5. \A j \in Ids : j \in Later(MaxRows)
  BY <1>0 DEF Ids
<1>6. w = [j \in Ids |-> Follow(w, j)]
  BY <1>4, <1>5
<1> QED BY <1>6

LEMMA ReachIs ==
    ASSUME CurationTypeOK, RowsOK, NEW i \in Ids
    PROVE  /\ Reach(i) \in Visible \cup {NoId}
           /\ Live(i) => Reach(i) = i
           /\ ~Exists(i) => Reach(i) = NoId
<1> DEFINE w == CHOOSE walk : walk = [j \in Ids |-> Follow(walk, j)]
<1>1. w = [j \in Ids |-> Follow(w, j)]
  BY WalkExists
<1>2. Reach(i) = w[i]
  BY DEF Reach, Follow
<1> HIDE DEF w
<1>3. \A j \in Ids : w[j] = Follow(w, j)
  BY <1>1
<1>4. MaxRows \in Nat
  BY CurationAssumption
<1>5. \A j \in Ids : w[j] \in Visible \cup {NoId}
  <2> DEFINE S == {n \in 0 .. MaxRows :
                     \A j \in Ids : j > MaxRows - n => w[j] \in Visible \cup {NoId}}
  <2>1. 0 \in S
    BY <1>4 DEF Ids
  <2>2. ASSUME NEW n \in 1 .. MaxRows, n - 1 \in S PROVE n \in S
    <3> SUFFICES ASSUME NEW j \in Ids, j > MaxRows - n
                 PROVE  w[j] \in Visible \cup {NoId}
      BY <1>4
    <3>1. CASE ~Exists(j)
      BY <1>3, <3>1 DEF Follow
    <3>2. CASE Exists(j) /\ ~rows[j].archived
      BY <1>3, <3>2 DEF Follow, Visible, Live
    <3>3. CASE Exists(j) /\ rows[j].archived
      <4>1. rows[j].next \in Ids /\ rows[j].next > j
        BY <3>3 DEF RowsOK
      <4>2. rows[j].next > MaxRows - (n - 1)
        BY <1>4, <4>1 DEF Ids
      <4>3. w[rows[j].next] \in Visible \cup {NoId}
        BY <2>2, <4>1, <4>2
      <4> QED BY <1>3, <3>3, <4>3 DEF Follow
    <3> QED BY <3>1, <3>2, <3>3
  <2> HIDE DEF S
  <2>3. 0 .. MaxRows \subseteq S
    BY <1>4, <2>1, <2>2, InductionUpTo
  <2>4. MaxRows \in S
    BY <1>4, <2>3
  <2> QED BY <1>4, <2>4 DEF S, Ids
<1> QED BY <1>2, <1>3, <1>5 DEF Follow, Live

-----------------------------------------------------------------------------
(* Types. *)

LEMMA CandsAre ==
    ASSUME CurationTypeOK
    PROVE  /\ MaxCands \in Nat /\ Cands \subseteq Jobs /\ Cands = 1 .. Len(turn.cands)
           /\ Len(turn.cands) \in Nat
           /\ \A k \in Cands : Fact(k) \in Facts /\ Kind(k) \in Categories
<1>1. turn.cands \in Seq(Facts) /\ Len(turn.cands) <= MaxCands /\ MaxCands \in Nat
  BY CurationAssumption DEF CurationTypeOK
<1>2. Cands = 1 .. Len(turn.cands) /\ Len(turn.cands) \in Nat
  BY <1>1 DEF Cands
<1>3. ASSUME NEW k \in Cands PROVE Fact(k) \in Facts
  BY <1>1, <1>2, <1>3, ElementOfSeq DEF Fact
<1>4. setting.category \in [Facts -> Categories]
  BY DEF CurationTypeOK, Setting
<1> QED BY <1>1, <1>2, <1>3, <1>4 DEF Jobs, Kind

LEMMA ConstantsOK ==
    /\ MaxRows \in Nat /\ NoJob \in Job /\ NoStats \in [Outcomes -> Nat]
    /\ NoRun \in [pc : {"idle", "store", "forget"}, plans : SUBSET SUBSET Ids,
                  snap : [Ids -> SUBSET Facts], todo : SUBSET Ids]
    /\ NoTurn \in [state : {"none", "running"},
                   cands : {s \in Seq(Facts) : Len(s) <= MaxCands}, legacy : BOOLEAN]
    /\ NoRow \notin Row
<1>1. MaxRows \in Nat /\ MaxCands \in Nat
  BY CurationAssumption
<1>2. NoJob \in Job
  BY DEF NoJob, Job, JobPlaces, Outcomes
<1>3. NoStats \in [Outcomes -> Nat]
  BY DEF NoStats
<1>4. NoRun \in [pc : {"idle", "store", "forget"}, plans : SUBSET SUBSET Ids,
                  snap : [Ids -> SUBSET Facts], todo : SUBSET Ids]
  BY DEF NoRun
<1>5. NoTurn \in [state : {"none", "running"},
                   cands : {s \in Seq(Facts) : Len(s) <= MaxCands}, legacy : BOOLEAN]
  <2>1. << >> \in Seq(Facts) /\ Len(<< >>) = 0
    OBVIOUS
  <2> QED BY <1>1, <2>1 DEF NoTurn
<1>6. NoRow \notin Row
  <2>1. \A r \in Row : DOMAIN r = {"facts", "profile", "archived", "next"}
    BY DEF Row
  <2>2. DOMAIN NoRow = {"facts"}
    BY DEF NoRow
  <2> QED BY <2>1, <2>2
<1> QED BY <1>1, <1>2, <1>3, <1>4, <1>5, <1>6

LEMMA RowFields ==
    ASSUME CurationTypeOK, NEW i \in Ids
    PROVE  /\ rows[i].facts \in SUBSET Facts
           /\ Exists(i) => rows[i] \in Row
           /\ Live(i) => rows[i] \in Row /\ ~rows[i].archived
           /\ i \in Visible <=> Live(i)
<1>1. rows[i] \in Row \cup {NoRow}
  BY DEF CurationTypeOK
<1> QED BY <1>1 DEF Row, NoRow, Exists, Live, Visible

(* What a call on the store does to the table. *)
LEMMA StoreRowDoes ==
    ASSUME CurationTypeOK, RowsOK, NEW facts \in SUBSET Facts, NEW profile \in BOOLEAN,
           StoreRow(facts, profile)
    PROVE  /\ stored' \in Ids /\ stored' = stored + 1 /\ stored' \in 0 .. MaxRows
           /\ rows' \in [Ids -> Row \cup {NoRow}] /\ ~Exists(stored')
           /\ rows'[stored'] = [facts |-> facts, profile |-> profile, archived |-> FALSE,
                                next |-> NoId]
           /\ \A i \in Ids : i # stored' => rows'[i] = rows[i]
           /\ known' = known \cup facts /\ replaced' = replaced \ facts
           /\ RowsOK'
<1>1. /\ stored \in 0 .. MaxRows /\ MaxRows \in Nat /\ stored < MaxRows /\ stored' = stored + 1
      /\ rows \in [Ids -> Row \cup {NoRow}]
      /\ known' = known \cup facts /\ replaced' = replaced \ facts
  BY ConstantsOK DEF StoreRow, States, CurationTypeOK
<1> DEFINE new == [facts |-> facts, profile |-> profile, archived |-> FALSE, next |-> NoId]
<1>2. rows' = [rows EXCEPT ![stored'] = new]
  BY DEF StoreRow
<1>3. stored' \in Ids /\ stored' \in 0 .. MaxRows
  BY <1>1 DEF Ids
<1>4. new \in Row /\ ~new.archived
  BY DEF Row
<1>5. ~Exists(stored')
  BY <1>1, <1>3 DEF RowsOK, Exists
<1> HIDE DEF new
<1>6. rows' \in [Ids -> Row \cup {NoRow}] /\ rows'[stored'] = new
  BY <1>1, <1>2, <1>3, <1>4
<1>7. \A i \in Ids : i # stored' => rows'[i] = rows[i]
  BY <1>1, <1>2
<1>8. RowsOK'
  <2>1. ASSUME NEW i \in Ids, i > stored' PROVE rows'[i] = NoRow
    BY <1>1, <1>7, <2>1 DEF RowsOK, Ids
  <2>2. ASSUME NEW i \in Ids, Exists(i)', rows'[i].archived
        PROVE  rows'[i].next \in Ids /\ rows'[i].next > i
    <3>1. i # stored'
      BY <1>4, <1>6, <2>2
    <3> QED BY <1>7, <2>2, <3>1 DEF RowsOK, Exists
  <2> QED BY <2>1, <2>2 DEF RowsOK
<1> QED BY <1>1, <1>3, <1>5, <1>6, <1>7, <1>8 DEF new

LEMMA SupersedeDoes ==
    ASSUME CurationTypeOK, RowsOK, NEW i \in Visible, NEW facts \in SUBSET Facts,
           NEW profile \in BOOLEAN, Supersede(i, facts, profile)
    PROVE  /\ stored' \in Ids /\ stored' = stored + 1 /\ stored' \in 0 .. MaxRows
           /\ rows' \in [Ids -> Row \cup {NoRow}] /\ ~Exists(stored') /\ stored' # i
           /\ rows'[stored'] = [facts |-> facts, profile |-> profile, archived |-> FALSE,
                                next |-> NoId]
           /\ Exists(i)' /\ rows'[i].archived
           /\ \A j \in Ids : j # stored' /\ j # i => rows'[j] = rows[j]
           /\ known' = known \cup facts
           /\ RowsOK'
<1>1. /\ stored \in 0 .. MaxRows /\ MaxRows \in Nat /\ stored < MaxRows /\ stored' = stored + 1
      /\ rows \in [Ids -> Row \cup {NoRow}]
      /\ known' = known \cup facts
  BY ConstantsOK DEF Supersede, States, CurationTypeOK
<1> DEFINE new == [facts |-> facts, profile |-> profile, archived |-> FALSE, next |-> NoId]
           old == [rows[i] EXCEPT !.archived = TRUE, !.next = stored']
<1>2. rows' = [rows EXCEPT ![i].archived = TRUE, ![i].next = stored', ![stored'] = new]
  BY DEF Supersede
<1>3. stored' \in Ids /\ stored' \in 0 .. MaxRows /\ i \in Ids
  BY <1>1 DEF Ids, Visible
<1>4. new \in Row /\ ~new.archived
  BY DEF Row
<1>5. ~Exists(stored')
  BY <1>1, <1>3 DEF RowsOK, Exists
<1>6. rows[i] \in Row /\ Exists(i)
  BY <1>3, RowFields DEF Visible, Live
<1>7. old \in Row /\ old.archived /\ old.next = stored'
  BY <1>3, <1>6 DEF Row
<1>8. i # stored' /\ i < stored'
  BY <1>1, <1>3, <1>5, <1>6 DEF RowsOK, Exists, Ids
<1> HIDE DEF new
<1>9. rows'[stored'] = new /\ rows'[i] = old /\ rows' \in [Ids -> Row \cup {NoRow}]
  <2>1. rows' = [rows EXCEPT ![i] = old, ![stored'] = new]
    BY <1>1, <1>2, <1>3, <1>6, <1>8 DEF Row
  <2> HIDE DEF old
  <2> QED BY <1>1, <1>3, <1>4, <1>7, <1>8, <2>1
<1> HIDE DEF old
<1>10. \A j \in Ids : j # stored' /\ j # i => rows'[j] = rows[j]
  BY <1>1, <1>2
<1>11. Exists(i)'
  BY <1>7, <1>9, ConstantsOK DEF Exists
<1>12. RowsOK'
  <2>1. ASSUME NEW j \in Ids, j > stored' PROVE rows'[j] = NoRow
    BY <1>1, <1>3, <1>8, <1>10, <2>1 DEF RowsOK, Ids
  <2>2. ASSUME NEW j \in Ids, Exists(j)', rows'[j].archived
        PROVE  rows'[j].next \in Ids /\ rows'[j].next > j
    <3>1. j # stored'
      BY <1>4, <1>9, <2>2
    <3>2. CASE j = i
      BY <1>3, <1>7, <1>8, <1>9, <3>2 DEF Ids
    <3>3. CASE j # i
      BY <1>10, <2>2, <3>1, <3>3 DEF RowsOK, Exists
    <3> QED BY <3>2, <3>3
  <2> QED BY <2>1, <2>2 DEF RowsOK
<1> QED BY <1>1, <1>3, <1>5, <1>7, <1>8, <1>9, <1>10, <1>11, <1>12 DEF new

LEMMA JobMoves ==
    ASSUME CurationTypeOK, NEW k \in Jobs, NEW place \in JobPlaces
    PROVE  /\ JobGoto(k, place) => job' \in [Jobs -> Job]
           /\ \A o \in Outcomes : Outcome(k, place, o) => job' \in [Jobs -> Job]
           /\ \A o \in Outcomes, i \in Ids : Target(k, place, o, i) => job' \in [Jobs -> Job]
<1>1. job \in [Jobs -> Job] /\ job[k] \in Job
  BY DEF CurationTypeOK
<1>2. [job[k] EXCEPT !.pc = place] \in Job
  BY <1>1 DEF Job
<1>3. \A o \in Outcomes : [job[k] EXCEPT !.pc = place, !.outcome = o] \in Job
  BY <1>1 DEF Job
<1>4. \A o \in Outcomes, i \in Ids :
         [job[k] EXCEPT !.pc = place, !.outcome = o, !.match = i] \in Job
  BY <1>1 DEF Job
<1>5. JobGoto(k, place) => job' \in [Jobs -> Job]
  BY <1>1, <1>2 DEF JobGoto
<1>6. \A o \in Outcomes : Outcome(k, place, o) => job' \in [Jobs -> Job]
  BY <1>1, <1>3 DEF Outcome
<1>7. ASSUME NEW o \in Outcomes, NEW i \in Ids, Target(k, place, o, i)
      PROVE  job' \in [Jobs -> Job]
  <2> DEFINE new == [job[k] EXCEPT !.pc = place, !.outcome = o, !.match = i]
  <2>1. job' = [job EXCEPT ![k] = new]
    BY <1>1, <1>7 DEF Target
  <2>2. new \in Job
    BY <1>4
  <2> HIDE DEF new
  <2> QED BY <1>1, <2>1, <2>2
<1> QED BY <1>5, <1>6, <1>7

LEMMA TypeStep ==
    CurationTypeOK /\ RowsOK /\ WorkOK /\ [CurationNext]_curationVars =>
        CurationTypeOK' /\ RowsOK'
<1> SUFFICES ASSUME CurationTypeOK, RowsOK, WorkOK, [CurationNext]_curationVars
             PROVE  CurationTypeOK' /\ RowsOK'
  OBVIOUS
<1>c. /\ MaxCands \in Nat /\ Cands \subseteq Jobs
      /\ \A k \in Cands : Fact(k) \in Facts /\ Kind(k) \in Categories
  BY CandsAre
<1>p. /\ {"none", "wait", "search", "merge_read", "merge_write", "supersede", "store",
          "count", "counting", "done"} = JobPlaces
      /\ {"created", "merged", "skipped", "rejected", "supported", "failed"} = Outcomes
  BY DEF JobPlaces, Outcomes
<1>r. ASSUME UNCHANGED <<rows, stored>> PROVE RowsOK'
  BY <1>r DEF RowsOK, Exists
<1>1. CASE BeginTurn
  <2>1. PICK s \in Extractions, legacy \in {FALSE, setting.limited} :
           /\ turn' = [state |-> "running", cands |-> s, legacy |-> legacy]
           /\ \E dropped \in Dropped(s, legacy) :
                /\ job' = [k \in Jobs |->
                             IF k \in DOMAIN s \ dropped
                             THEN [NoJob EXCEPT !.pc = "wait"] ELSE NoJob]
                /\ stats' = [NoStats EXCEPT !["skipped"] = Cardinality(dropped)]
    BY <1>1 DEF BeginTurn
  <2>2. s \in Seq(Facts) /\ Len(s) <= MaxCands /\ legacy \in BOOLEAN
    BY CurationAssumption DEF CurationTypeOK, Setting
  <2>3. PICK dropped \in Dropped(s, legacy) :
           /\ job' = [k \in Jobs |-> IF k \in DOMAIN s \ dropped
                                     THEN [NoJob EXCEPT !.pc = "wait"] ELSE NoJob]
           /\ stats' = [NoStats EXCEPT !["skipped"] = Cardinality(dropped)]
    BY <2>1
  <2>4. dropped \in SUBSET (1 .. Len(s)) /\ Len(s) \in Nat
    BY <2>2 DEF Dropped, Duplicates
  <2>5. Cardinality(dropped) \in Nat
    <3>1. IsFiniteSet(1 .. Len(s))
      BY <2>4, FS_Interval
    <3> QED BY <2>4, <3>1, FS_Subset, FS_CardinalityType
  <2>6. stats' \in [Outcomes -> Nat]
    BY <2>3, <2>5, ConstantsOK
  <2>7. NoJob \in Job /\ [NoJob EXCEPT !.pc = "wait"] \in Job
    BY ConstantsOK, <1>p DEF Job
  <2>8. job' \in [Jobs -> Job]
    BY <2>3, <2>7
  <2> QED BY <1>1, <1>r, <2>1, <2>2, <2>6, <2>8 DEF BeginTurn, CurationTypeOK
<1>2. CASE EndTurn
  <2>1. turn' = NoTurn /\ job' = [k \in Jobs |-> NoJob] /\ stats' = NoStats
    BY <1>2 DEF EndTurn
  <2>2. job' \in [Jobs -> Job]
    BY <2>1, ConstantsOK
  <2> QED BY <1>2, <1>r, <2>1, <2>2, ConstantsOK DEF EndTurn, CurationTypeOK
<1>3. CASE Die
  <2>1. turn' = NoTurn /\ job' = [k \in Jobs |-> NoJob] /\ stats' = NoStats /\ comp' = NoRun
    BY <1>3 DEF Die
  <2>2. job' \in [Jobs -> Job]
    BY <2>1, ConstantsOK
  <2> QED BY <1>3, <1>r, <2>1, <2>2, ConstantsOK DEF Die, CurationTypeOK
(* Steps of a candidate. *)
<1>j. ASSUME NEW k \in Cands, JobStep(k), job' \in [Jobs -> Job], stats' \in [Outcomes -> Nat],
             lock' \in Jobs \cup {NoId}, stored' \in 0 .. MaxRows,
             rows' \in [Ids -> Row \cup {NoRow}],
             known' \subseteq Facts, replaced' \subseteq Facts
      PROVE  CurationTypeOK'
  <2>1. UNCHANGED <<setting, turn, comp>>
    BY <1>j DEF JobStep, StartJob, ProfileSearch, DedupSearch, MergeRead, MergeWrite,
       SupersedeWrite, StoreWrite, CountRead, CountWrite, others
  <2> QED BY <1>j, <2>1 DEF CurationTypeOK
<1>q. ASSUME NEW k \in Cands, JobStep(k), job' \in [Jobs -> Job],
             UNCHANGED <<rows, stored, known, replaced, stats, lock>>
      PROVE  CurationTypeOK' /\ RowsOK'
  <2>1. stats' \in [Outcomes -> Nat] /\ lock' \in Jobs \cup {NoId} /\ stored' \in 0 .. MaxRows
        /\ rows' \in [Ids -> Row \cup {NoRow}]
        /\ known' \subseteq Facts /\ replaced' \subseteq Facts
    BY <1>q DEF CurationTypeOK
  <2> QED BY <1>j, <1>q, <1>r, <2>1
<1>4. ASSUME NEW k \in Cands, StartJob(k) PROVE CurationTypeOK' /\ RowsOK'
  <2>1. job' \in [Jobs -> Job]
    BY <1>4, <1>c, <1>p, JobMoves DEF StartJob
  <2> QED BY <1>4, <1>q, <2>1 DEF StartJob, others, JobStep
<1>5. ASSUME NEW k \in Cands, ProfileSearch(k) PROVE CurationTypeOK' /\ RowsOK'
  <2>1. \A S \in Similar : ProfilesIn(S) \subseteq Ids
    BY DEF Similar, ProfilesIn, Visible
  <2>2. job' \in [Jobs -> Job]
    BY <1>5, <1>c, <1>p, <2>1, JobMoves DEF ProfileSearch
  <2> QED BY <1>5, <1>q, <2>2 DEF ProfileSearch, others, JobStep
<1>6. ASSUME NEW k \in Cands, DedupSearch(k) PROVE CurationTypeOK' /\ RowsOK'
  <2>1. \A S \in Similar : S \subseteq Ids
    BY DEF Similar, Visible
  <2>2. job' \in [Jobs -> Job]
    BY <1>6, <1>c, <1>p, <2>1, JobMoves DEF DedupSearch
  <2> QED BY <1>6, <1>q, <2>2 DEF DedupSearch, others, JobStep
<1>7. ASSUME NEW k \in Cands, MergeRead(k) PROVE CurationTypeOK' /\ RowsOK'
  <2> DEFINE i == Reach(job[k].match)
  <2>1. job' \in [Jobs -> Job]
    <3>1. CASE JobGoto(k, "store") \/ JobGoto(k, "count")
      BY <1>c, <1>p, <3>1, JobMoves
    <3>2. CASE i # NoId /\ job' = [job EXCEPT ![k].pc = "merge_write", ![k].read = rows[i].facts]
      <4>1. job[k].match \in Ids /\ k \in Jobs
        BY <1>7, <1>c DEF WorkOK, MergeRead
      <4>2. i \in Ids
        BY <3>2, <4>1, ReachIs DEF Visible
      <4>3. rows[i].facts \in SUBSET Facts
        BY <4>2, RowFields
      <4>o. job[k] \in Job /\ "merge_write" \in JobPlaces
        BY <1>p, <4>1 DEF CurationTypeOK
      <4> HIDE DEF i
      <4>4. [job[k] EXCEPT !.pc = "merge_write", !.read = rows[i].facts] \in Job
        BY <4>3, <4>o DEF Job
      <4> QED BY <3>2, <4>4 DEF CurationTypeOK
    <3> QED BY <1>7, <3>1, <3>2 DEF MergeRead
  <2> QED BY <1>7, <1>q, <2>1 DEF MergeRead, others, JobStep
<1>8. ASSUME NEW k \in Cands, MergeWrite(k) PROVE CurationTypeOK' /\ RowsOK'
  <2> DEFINE i == Reach(job[k].match)
             facts == job[k].read \cup {Fact(k)}
  <2>1. /\ job' \in [Jobs -> Job] /\ UNCHANGED <<stats, lock>> /\ job[k].match \in Ids
        /\ facts \in SUBSET Facts
    <3>1. job[k].read \in SUBSET Facts /\ Fact(k) \in Facts /\ k \in Jobs
      BY <1>c DEF CurationTypeOK, Job
    <3> QED BY <1>8, <1>c, <1>p, <3>1, JobMoves DEF MergeWrite, others, WorkOK
  <2>2. stats' \in [Outcomes -> Nat] /\ lock' \in Jobs \cup {NoId}
    BY <2>1 DEF CurationTypeOK
  <2>3. CASE i # NoId /\ Supersede(i, facts, Kind(k) = "profile") /\ replaced' = replaced \ facts
    <3>1. i \in Visible /\ (Kind(k) = "profile") \in BOOLEAN
      BY <2>1, <2>3, ReachIs
    <3> HIDE DEF i, facts
    <3>2. /\ stored' \in 0 .. MaxRows /\ rows' \in [Ids -> Row \cup {NoRow}]
          /\ known' = known \cup facts /\ RowsOK'
      BY <2>1, <2>3, <3>1, SupersedeDoes
    <3>3. known' \subseteq Facts /\ replaced' \subseteq Facts
      BY <2>1, <2>3, <3>2 DEF CurationTypeOK
    <3> QED BY <1>8, <1>j, <2>1, <2>2, <3>2, <3>3 DEF JobStep
  <2>4. CASE Unwritten
    BY <1>8, <1>q, <2>1, <2>4 DEF Unwritten, JobStep
  <2> QED BY <1>8, <2>3, <2>4 DEF MergeWrite
<1>9. ASSUME NEW k \in Cands, SupersedeWrite(k) PROVE CurationTypeOK' /\ RowsOK'
  <2> DEFINE i == Reach(job[k].match)
  <2>1. /\ job' \in [Jobs -> Job] /\ UNCHANGED <<stats, lock>> /\ job[k].match \in Ids
        /\ {Fact(k)} \in SUBSET Facts
    BY <1>9, <1>c, <1>p, JobMoves DEF SupersedeWrite, others, WorkOK
  <2>2. stats' \in [Outcomes -> Nat] /\ lock' \in Jobs \cup {NoId}
    BY <2>1 DEF CurationTypeOK
  <2>3. CASE /\ i # NoId /\ Supersede(i, {Fact(k)}, FALSE)
             /\ replaced' = (replaced \cup rows[i].facts) \ {Fact(k)}
    <3>1. i \in Visible /\ FALSE \in BOOLEAN /\ i \in Ids
      BY <2>1, <2>3, ReachIs DEF Visible
    <3> HIDE DEF i
    <3>2. /\ stored' \in 0 .. MaxRows /\ rows' \in [Ids -> Row \cup {NoRow}]
          /\ known' = known \cup {Fact(k)} /\ RowsOK'
      BY <2>1, <2>3, <3>1, SupersedeDoes
    <3>3. known' \subseteq Facts /\ replaced' \subseteq Facts
      BY <2>1, <2>3, <3>1, <3>2, RowFields DEF CurationTypeOK
    <3> QED BY <1>9, <1>j, <2>1, <2>2, <3>2, <3>3 DEF JobStep
  <2>4. CASE Unwritten
    BY <1>9, <1>q, <2>1, <2>4 DEF Unwritten, JobStep
  <2> QED BY <1>9, <2>3, <2>4 DEF SupersedeWrite
<1>10. ASSUME NEW k \in Cands, StoreWrite(k) PROVE CurationTypeOK' /\ RowsOK'
  <2> DEFINE profile == ~turn.legacy /\ Kind(k) = "profile"
  <2>1. /\ job' \in [Jobs -> Job] /\ UNCHANGED <<stats, lock>>
        /\ {Fact(k)} \in SUBSET Facts /\ profile \in BOOLEAN
    BY <1>10, <1>c, <1>p, JobMoves DEF StoreWrite, others
  <2>2. stats' \in [Outcomes -> Nat] /\ lock' \in Jobs \cup {NoId}
    BY <2>1 DEF CurationTypeOK
  <2>3. CASE StoreRow({Fact(k)}, profile)
    <3> HIDE DEF profile
    <3>2. /\ stored' \in 0 .. MaxRows /\ rows' \in [Ids -> Row \cup {NoRow}]
          /\ known' = known \cup {Fact(k)} /\ replaced' = replaced \ {Fact(k)} /\ RowsOK'
      BY <2>1, <2>3, StoreRowDoes
    <3>3. known' \subseteq Facts /\ replaced' \subseteq Facts
      BY <2>1, <3>2 DEF CurationTypeOK
    <3> QED BY <1>10, <1>j, <2>1, <2>2, <3>2, <3>3 DEF JobStep
  <2>4. CASE Unwritten
    BY <1>10, <1>q, <2>1, <2>4 DEF Unwritten, JobStep
  <2> QED BY <1>10, <2>3, <2>4 DEF StoreWrite
<1>11. ASSUME NEW k \in Cands, CountRead(k) PROVE CurationTypeOK' /\ RowsOK'
  <2>1. k \in Jobs /\ job[k] \in Job /\ stats[job[k].outcome] \in Nat /\ "counting" \in JobPlaces
    BY <1>c, <1>p DEF CurationTypeOK, Job
  <2>2. [job[k] EXCEPT !.pc = "counting", !.tally = stats[job[k].outcome]] \in Job
    BY <2>1 DEF Job
  <2>3. job' \in [Jobs -> Job]
    BY <1>11, <2>2 DEF CountRead, CurationTypeOK
  <2> QED BY <1>11, <1>j, <1>r, <2>1, <2>3 DEF CountRead, CurationTypeOK, JobStep
<1>12. ASSUME NEW k \in Cands, CountWrite(k) PROVE CurationTypeOK' /\ RowsOK'
  <2>1. k \in Jobs /\ job[k].tally + 1 \in Nat /\ job[k].outcome \in Outcomes
    BY <1>c DEF CurationTypeOK, Job
  <2>2. job' \in [Jobs -> Job]
    BY <1>12, <1>c, <1>p, JobMoves DEF CountWrite
  <2>3. stats' \in [Outcomes -> Nat]
    BY <1>12, <2>1 DEF CountWrite, CurationTypeOK
  <2> QED BY <1>12, <1>j, <1>r, <2>2, <2>3 DEF CountWrite, CurationTypeOK, JobStep
(* Steps of the compactor. *)
<1>13. CASE CompactScan
  <2>1. PICK P \in Plans(Visible) \ {{}} :
           comp' = [pc |-> "store", plans |-> P, snap |-> [i \in Ids |-> rows[i].facts],
                    todo |-> {}]
    BY <1>13 DEF CompactScan
  <2>2. P \in SUBSET SUBSET Ids
    BY DEF Plans, Visible
  <2>3. [i \in Ids |-> rows[i].facts] \in [Ids -> SUBSET Facts]
    BY RowFields
  <2> QED BY <1>13, <1>r, <2>1, <2>2, <2>3 DEF CompactScan, CurationTypeOK
<1>14. CASE CompactStore
  <2>1. PICK C \in comp.plans :
          \/ /\ StoreRow(Merged(C), FALSE)
             /\ comp' = [comp EXCEPT !.plans = @ \ {C}, !.pc = "forget", !.todo = C]
          \/ /\ comp' = [comp EXCEPT !.plans = @ \ {C}]
             /\ Unwritten
    BY <1>14 DEF CompactStore
  <2>2. C \in SUBSET Ids /\ Merged(C) \in SUBSET Facts
    BY DEF Merged, CurationTypeOK
  <2>3. comp' \in [pc : {"idle", "store", "forget"}, plans : SUBSET SUBSET Ids,
                   snap : [Ids -> SUBSET Facts], todo : SUBSET Ids]
    <3>1. CASE comp' = [comp EXCEPT !.plans = @ \ {C}, !.pc = "forget", !.todo = C]
      BY <2>2, <3>1 DEF CurationTypeOK
    <3>2. CASE comp' = [comp EXCEPT !.plans = @ \ {C}]
      BY <2>2, <3>2 DEF CurationTypeOK
    <3> QED BY <2>1, <3>1, <3>2
  <2>4. CASE StoreRow(Merged(C), FALSE)
    <3>1. /\ stored' \in 0 .. MaxRows /\ rows' \in [Ids -> Row \cup {NoRow}]
          /\ known' = known \cup Merged(C) /\ replaced' = replaced \ Merged(C) /\ RowsOK'
      BY <2>2, <2>4, StoreRowDoes
    <3> QED BY <1>14, <2>2, <2>3, <3>1 DEF CompactStore, CurationTypeOK
  <2>5. CASE Unwritten
    BY <1>14, <1>r, <2>3, <2>5 DEF CompactStore, CurationTypeOK, Unwritten
  <2> QED BY <2>1, <2>4, <2>5
<1>15. CASE CompactForget
  <2>1. PICK m \in comp.todo :
          /\ comp' = [comp EXCEPT !.todo = @ \ {m}]
          /\ LET i == Reach(m) IN
             \/ i # NoId /\ rows' = [rows EXCEPT ![i] = NoRow]
             \/ (i = NoId \/ setting.faulty) /\ UNCHANGED rows
    BY <1>15 DEF CompactForget
  <2>2. comp' \in [pc : {"idle", "store", "forget"}, plans : SUBSET SUBSET Ids,
                   snap : [Ids -> SUBSET Facts], todo : SUBSET Ids]
    BY <2>1 DEF CurationTypeOK
  <2>3. CASE rows' = [rows EXCEPT ![Reach(m)] = NoRow]
    <3>1. rows' \in [Ids -> Row \cup {NoRow}]
      BY <2>3 DEF CurationTypeOK
    <3>2. \A i \in Ids : rows'[i] = NoRow \/ rows'[i] = rows[i]
      BY <2>3 DEF CurationTypeOK
    <3>3. RowsOK'
      BY <1>15, <3>2 DEF RowsOK, Exists, CompactForget
    <3> QED BY <1>15, <2>2, <3>1, <3>3 DEF CompactForget, CurationTypeOK
  <2>4. CASE UNCHANGED rows
    BY <1>15, <1>r, <2>2, <2>4 DEF CompactForget, CurationTypeOK
  <2> QED BY <2>1, <2>3, <2>4
<1>16. CASE CompactNext
  BY <1>16, <1>r DEF CompactNext, CurationTypeOK
<1>17. CASE CompactDone
  BY <1>17, <1>r, ConstantsOK DEF CompactDone, CurationTypeOK
<1>18. CASE UNCHANGED curationVars
  BY <1>18, <1>r DEF curationVars, CurationTypeOK
<1> QED BY <1>1, <1>2, <1>3, <1>4, <1>5, <1>6, <1>7, <1>8, <1>9, <1>10, <1>11, <1>12, <1>13,
        <1>14, <1>15, <1>16, <1>17, <1>18 DEF CurationNext, JobStep

-----------------------------------------------------------------------------
(* Who works at what. *)

Chosen == {"search", "merge_read", "merge_write", "supersede"}

LEMMA JobFrame ==
    ASSUME CurationTypeOK, NEW k \in Cands, JobStep(k)
    PROVE  /\ UNCHANGED <<setting, turn, comp, turns, runs>>
           /\ k \in Jobs /\ \A j \in Jobs \ {k} : job'[j] = job[j]
           /\ (job[k].pc = "wait" /\ MayStart(k)) \/ Busy(k)
<1>1. UNCHANGED <<setting, turn, comp, turns, runs>>
  BY DEF JobStep, StartJob, ProfileSearch, DedupSearch, MergeRead, MergeWrite,
     SupersedeWrite, StoreWrite, CountRead, CountWrite, others
<1>2. k \in Jobs
  BY CandsAre
<1>j. job \in [Jobs -> Job]
  BY DEF CurationTypeOK
<1>3. ASSUME NEW j \in Jobs \ {k} PROVE job'[j] = job[j]
  <2> USE <1>j
  <2>1. CASE StartJob(k) \/ ProfileSearch(k) \/ DedupSearch(k)
    BY <2>1 DEF StartJob, ProfileSearch, DedupSearch, JobGoto, Outcome, Target
  <2>2. CASE MergeRead(k) \/ MergeWrite(k) \/ SupersedeWrite(k) \/ StoreWrite(k)
    BY <2>2 DEF MergeRead, MergeWrite, SupersedeWrite, StoreWrite, JobGoto, Outcome
  <2>3. CASE CountRead(k) \/ CountWrite(k)
    BY <2>3 DEF CountRead, CountWrite, JobGoto
  <2> QED BY <2>1, <2>2, <2>3 DEF JobStep
<1>4. (job[k].pc = "wait" /\ MayStart(k)) \/ Busy(k)
  BY DEF JobStep, StartJob, ProfileSearch, DedupSearch, MergeRead, MergeWrite,
     SupersedeWrite, StoreWrite, CountRead, CountWrite, MayStart, Busy
<1> QED BY <1>1, <1>2, <1>3, <1>4

(* A text of the fallback is only stored; a match is a row.                   *)
LEMMA JobChoice ==
    ASSUME CurationTypeOK, WorkOK, NEW k \in Cands, JobStep(k), job'[k].pc \in Chosen
    PROVE  /\ ~turn.legacy
           /\ job'[k].pc # "search" => job'[k].match \in Ids
<1>j. k \in Jobs /\ job \in [Jobs -> Job] /\ job[k] \in Job
  BY CandsAre DEF CurationTypeOK
<1>1. CASE StartJob(k)
  <2>1. JobGoto(k, "search") => job'[k].pc = "search"
    BY <1>j DEF JobGoto, Job
  <2>2. Outcome(k, "count", "rejected") => job'[k].pc = "count"
    BY <1>j DEF Outcome, Job
  <2>3. Outcome(k, "store", "created") => job'[k].pc = "store"
    BY <1>j DEF Outcome, Job
  <2> QED BY <1>1, <2>1, <2>2, <2>3 DEF StartJob, Chosen
<1>2. CASE ProfileSearch(k)
  <2>1. ~turn.legacy
    BY <1>2, <1>j DEF ProfileSearch, WorkOK
  <2>2. PICK S \in Similar :
          IF ProfilesIn(S) = {} THEN Outcome(k, "store", "created")
          ELSE \E i \in ProfilesIn(S) : Target(k, "merge_read", "merged", i)
    BY <1>2 DEF ProfileSearch
  <2>3. CASE Outcome(k, "store", "created")
    BY <1>j, <2>3 DEF Outcome, Job, Chosen
  <2>4. CASE \E i \in ProfilesIn(S) : Target(k, "merge_read", "merged", i)
    <3>1. PICK i \in ProfilesIn(S) : Target(k, "merge_read", "merged", i)
      BY <2>4
    <3>2. i \in Ids
      BY DEF ProfilesIn, Similar, Visible
    <3>3. job'[k].match = i
      BY <1>j, <3>1 DEF Target, Job
    <3> QED BY <2>1, <3>2, <3>3
  <2> QED BY <2>2, <2>3, <2>4
<1>3. CASE DedupSearch(k)
  <2>1. ~turn.legacy
    BY <1>3, <1>j DEF DedupSearch, WorkOK
  <2>2. ASSUME NEW i, NEW place, NEW o, Target(k, place, o, i) PROVE job'[k].match = i
    BY <1>j, <2>2 DEF Target, Job
  <2>3. ASSUME NEW o, NEW place, Outcome(k, place, o) PROVE job'[k].pc = place
    BY <1>j, <2>3 DEF Outcome, Job
  <2>4. \A S \in Similar : S \subseteq Ids
    BY DEF Similar, Visible
  <2>5. CASE \E place \in {"store", "count"} : job'[k].pc = place
    BY <2>5 DEF Chosen
  <2>6. CASE \E S \in Similar : \E i \in S : job'[k].match = i
    BY <2>1, <2>4, <2>6
  <2> QED
    <3>1. \/ Outcome(k, "store", "created")
          \/ \E S \in Similar : \E i \in S :
                \/ \E place, o : Target(k, place, o, i)
                \/ \E o : Outcome(k, "count", o)
      BY <1>3 DEF DedupSearch
    <3> QED BY <2>2, <2>3, <2>5, <2>6, <3>1
<1>4. CASE MergeRead(k)
  <2>1. ~turn.legacy /\ job[k].match \in Ids
    BY <1>4, <1>j DEF MergeRead, WorkOK
  <2>2. JobGoto(k, "store") \/ JobGoto(k, "count") => job'[k].pc \notin Chosen
    BY <1>j DEF JobGoto, Job, Chosen
  <2>3. ASSUME NEW text, job' = [job EXCEPT ![k].pc = "merge_write", ![k].read = text]
        PROVE  job'[k].match = job[k].match
    BY <1>j, <2>3 DEF Job
  <2> QED BY <1>4, <2>1, <2>2, <2>3 DEF MergeRead
<1>5. CASE MergeWrite(k) \/ SupersedeWrite(k)
  BY <1>5, <1>j DEF MergeWrite, SupersedeWrite, JobGoto, Job, Chosen
<1>6. CASE StoreWrite(k)
  BY <1>6, <1>j DEF StoreWrite, JobGoto, Outcome, Job, Chosen
<1>7. CASE CountRead(k) \/ CountWrite(k)
  BY <1>7, <1>j DEF CountRead, CountWrite, JobGoto, Job, Chosen
<1> QED BY <1>1, <1>2, <1>3, <1>4, <1>5, <1>6, <1>7 DEF JobStep

(* One worker starts a candidate only when it has no other.                   *)
LEMMA LoneStart ==
    ASSUME CurationTypeOK, NEW k \in Cands, MayStart(k), setting.workers = 1
    PROVE  \A j \in Jobs : ~Busy(j)
<1>1. IsFiniteSet(Jobs)
  BY CandsAre, FS_Interval DEF Jobs
<1> DEFINE B == {j \in Jobs : Busy(j)}
<1>2. Cardinality(B) < 1
  BY DEF MayStart
<1> HIDE DEF B
<1>3. B \in SUBSET Jobs
  BY DEF B
<1>4. IsFiniteSet(B) /\ Cardinality(B) \in Nat
  BY <1>1, <1>3, FS_Subset, FS_CardinalityType
<1>5. B = {}
  BY <1>2, <1>4, FS_EmptySet
<1> QED BY <1>5 DEF B

LEMMA WorkStep ==
    CurationTypeOK /\ WorkOK /\ [CurationNext]_curationVars => WorkOK'
<1> SUFFICES ASSUME CurationTypeOK, WorkOK, [CurationNext]_curationVars PROVE WorkOK'
  OBVIOUS
<1>n. NoTurn.state = "none" /\ DOMAIN NoTurn.cands = {} /\ ~NoTurn.legacy
      /\ NoJob.pc = "none" /\ NoRun.pc = "idle" /\ NoRun.plans = {} /\ NoRun.todo = {}
      /\ [NoJob EXCEPT !.pc = "wait"].pc = "wait"
  BY DEF NoTurn, NoJob, NoRun
<1>1. CASE BeginTurn
  <2>1. PICK s \in Extractions, legacy \in {FALSE, setting.limited} :
           /\ turn' = [state |-> "running", cands |-> s, legacy |-> legacy]
           /\ \E dropped \in Dropped(s, legacy) :
                /\ job' = [k \in Jobs |->
                             IF k \in DOMAIN s \ dropped
                             THEN [NoJob EXCEPT !.pc = "wait"] ELSE NoJob]
                /\ stats' = [NoStats EXCEPT !["skipped"] = Cardinality(dropped)]
    BY <1>1 DEF BeginTurn
  <2>2. \A k \in Jobs : job'[k].pc \in {"none", "wait"} /\ (job'[k].pc = "wait" => k \in DOMAIN s)
    BY <1>n, <2>1
  <2>3. turn'.state = "running" /\ Cands' = DOMAIN s
    BY <2>1 DEF Cands
  <2>4. \A k \in Jobs : ~Busy(k)'
    BY <2>2 DEF Busy
  <2> QED BY <1>1, <2>2, <2>3, <2>4 DEF WorkOK, BeginTurn
<1>2. CASE EndTurn \/ Die
  <2>1. turn' = NoTurn /\ job' = [k \in Jobs |-> NoJob] /\ setting' = setting
    BY <1>2 DEF EndTurn, Die
  <2>2. \A k \in Jobs : job'[k].pc = "none" /\ ~Busy(k)'
    BY <1>n, <2>1 DEF Busy
  <2>3. comp' = NoRun \/ comp' = comp
    BY <1>2 DEF EndTurn, Die
  <2> QED BY <1>n, <2>1, <2>2, <2>3 DEF WorkOK, Cands
<1>3. ASSUME NEW k \in Cands, JobStep(k) PROVE WorkOK'
  <2>1. /\ UNCHANGED <<setting, turn, comp>>
        /\ k \in Jobs /\ \A j \in Jobs \ {k} : job'[j] = job[j]
        /\ (job[k].pc = "wait" /\ MayStart(k)) \/ Busy(k)
    BY <1>3, JobFrame
  <2>2. job'[k].pc \in Chosen =>
           ~turn.legacy /\ (job'[k].pc # "search" => job'[k].match \in Ids)
    BY <1>3, JobChoice
  <2>3. \A j \in Jobs \ {k} : Busy(j)' <=> Busy(j)
    BY <2>1 DEF Busy
  <2>4. setting.workers = 1 => \A i, j \in Jobs : Busy(i)' /\ Busy(j)' => i = j
    BY <2>1, <2>3, LoneStart DEF WorkOK
  <2>5. Cands' = Cands
    BY <2>1 DEF Cands
  <2>6. \A j \in Jobs : job'[j].pc # "none" => j \in Cands
    BY <2>1 DEF WorkOK
  <2>7. turn.legacy => \A j \in Jobs : job'[j].pc \notin Chosen
    BY <2>1, <2>2 DEF WorkOK, Chosen
  <2>8. \A j \in Jobs :
          job'[j].pc \in {"merge_read", "merge_write", "supersede"} => job'[j].match \in Ids
    BY <2>1, <2>2 DEF WorkOK, Chosen
  <2> QED BY <2>1, <2>4, <2>5, <2>6, <2>7, <2>8 DEF WorkOK, Chosen
<1>4. ASSUME UNCHANGED <<setting, turn, job>>,
             comp'.pc = "idle" => comp'.plans = {} /\ comp'.todo = {},
             comp'.pc # "idle" => comp.pc # "idle" \/ setting.overlap \/ turn.state = "none"
      PROVE  WorkOK'
  <2>1. Cands' = Cands /\ \A j \in Jobs : Busy(j)' <=> Busy(j)
    BY <1>4 DEF Cands, Busy
  <2> QED BY <1>4, <2>1 DEF WorkOK
<1>5. CASE CompactScan
  BY <1>4, <1>5 DEF CompactScan
<1>6. CASE CompactStore
  <2>1. comp.pc = "store" /\ comp'.pc \in {"store", "forget"} /\ UNCHANGED <<setting, turn, job>>
    <3>1. comp.pc = "store" /\ UNCHANGED <<setting, turn, job>>
      BY <1>6 DEF CompactStore
    <3>2. PICK C \in comp.plans :
             \/ comp' = [comp EXCEPT !.plans = @ \ {C}, !.pc = "forget", !.todo = C]
             \/ comp' = [comp EXCEPT !.plans = @ \ {C}]
      BY <1>6 DEF CompactStore
    <3> QED BY <3>1, <3>2 DEF CurationTypeOK
  <2> QED BY <1>4, <2>1
<1>7. CASE CompactForget
  <2>1. comp.pc = "forget" /\ UNCHANGED <<setting, turn, job>>
    BY <1>7 DEF CompactForget
  <2>2. PICK m \in comp.todo : comp' = [comp EXCEPT !.todo = @ \ {m}]
    BY <1>7 DEF CompactForget
  <2>3. comp'.pc = "forget"
    BY <2>1, <2>2 DEF CurationTypeOK
  <2> QED BY <1>4, <2>1, <2>3
<1>8. CASE CompactNext
  <2>1. comp.pc = "forget" /\ comp'.pc = "store" /\ UNCHANGED <<setting, turn, job>>
    BY <1>8 DEF CompactNext, CurationTypeOK
  <2> QED BY <1>4, <2>1
<1>9. CASE CompactDone
  BY <1>4, <1>9, <1>n DEF CompactDone
<1>10. CASE UNCHANGED curationVars
  BY <1>4, <1>10 DEF curationVars, WorkOK
<1> QED BY <1>1, <1>2, <1>3, <1>5, <1>6, <1>7, <1>8, <1>9, <1>10 DEF CurationNext

-----------------------------------------------------------------------------
(* The statistics. *)

LEMMA TotalOneMore ==
    ASSUME NEW s \in [Outcomes -> Nat], NEW o \in Outcomes, NEW t, t = [s EXCEPT ![o] = s[o] + 1]
    PROVE  Total(t) = Total(s) + 1 /\ Total(s) \in Nat
<1> DEFINE names == {"created", "merged", "skipped", "rejected", "supported", "failed"}
<1>1. /\ \A x \in names : s[x] \in Nat /\ t[x] = IF x = o THEN s[x] + 1 ELSE s[x]
      /\ o \in names
  BY DEF Outcomes
<1> QED BY <1>1 DEF Total

LEMMA TotalSkipped ==
    ASSUME NEW n \in Nat PROVE Total([NoStats EXCEPT !["skipped"] = n]) = n
BY DEF Total, NoStats, Outcomes

LEMMA CandsFinite ==
    ASSUME CurationTypeOK, NEW S \in SUBSET Cands
    PROVE  IsFiniteSet(S) /\ Cardinality(S) \in Nat
<1>1. IsFiniteSet(Cands)
  BY CandsAre, FS_Interval
<1> QED BY <1>1, FS_Subset, FS_CardinalityType

LEMMA CountStep ==
    CurationTypeOK /\ WorkOK /\ CountOK /\ [CurationNext]_curationVars => CountOK'
<1> SUFFICES ASSUME CurationTypeOK, WorkOK, CountOK, [CurationNext]_curationVars PROVE CountOK'
  OBVIOUS
<1>n. /\ NoTurn.state = "none" /\ NoJob.pc = "none" /\ [NoJob EXCEPT !.pc = "wait"].pc = "wait"
      /\ job \in [Jobs -> Job]
  BY DEF NoTurn, NoJob, CurationTypeOK
<1>1. CASE BeginTurn
  <2>1. PICK s \in Extractions, legacy \in {FALSE, setting.limited} :
           /\ turn' = [state |-> "running", cands |-> s, legacy |-> legacy]
           /\ \E dropped \in Dropped(s, legacy) :
                /\ job' = [k \in Jobs |->
                             IF k \in DOMAIN s \ dropped
                             THEN [NoJob EXCEPT !.pc = "wait"] ELSE NoJob]
                /\ stats' = [NoStats EXCEPT !["skipped"] = Cardinality(dropped)]
    BY <1>1 DEF BeginTurn
  <2>2. PICK dropped \in Dropped(s, legacy) :
           /\ job' = [k \in Jobs |-> IF k \in DOMAIN s \ dropped
                                     THEN [NoJob EXCEPT !.pc = "wait"] ELSE NoJob]
           /\ stats' = [NoStats EXCEPT !["skipped"] = Cardinality(dropped)]
    BY <2>1
  <2>3. s \in Seq(Facts) /\ Len(s) <= MaxCands /\ MaxCands \in Nat
    BY CurationAssumption
  <2>4. dropped \in SUBSET DOMAIN s /\ DOMAIN s = 1 .. Len(s) /\ DOMAIN s \subseteq Jobs
    BY <2>3 DEF Dropped, Duplicates, Jobs
  <2>5. Cands' = DOMAIN s
    BY <2>1 DEF Cands
  <2>6. {k \in Cands : Over(k)}' = dropped
    BY <1>n, <2>2, <2>4, <2>5 DEF Over
  <2>7. Cardinality(dropped) \in Nat
    <3>1. IsFiniteSet(1 .. Len(s))
      BY <2>3, FS_Interval
    <3> QED BY <2>3, <2>4, <3>1, FS_Subset, FS_CardinalityType
  <2>8. Total(stats') = Cardinality(dropped)
    BY <2>2, <2>7, TotalSkipped
  <2>9. \A k \in Jobs : job'[k].pc # "counting"
    BY <1>n, <2>2
  <2> QED BY <2>6, <2>8, <2>9 DEF CountOK
<1>2. CASE EndTurn \/ Die
  <2>1. turn' = NoTurn /\ \A k \in Jobs : job'[k] = NoJob
    BY <1>2 DEF EndTurn, Die
  <2> QED BY <1>n, <2>1 DEF CountOK
(* A candidate that is not counted yet is neither over before nor after.      *)
<1>3. ASSUME NEW k \in Cands, JobStep(k), job'[k].pc \notin {"none", "done"},
             UNCHANGED stats,
             \A j \in Jobs : job'[j].pc = "counting" =>
                lock' = j /\ job'[j].tally = stats[job'[j].outcome]
      PROVE  CountOK'
  <2>1. /\ UNCHANGED turn /\ k \in Jobs /\ \A j \in Jobs \ {k} : job'[j] = job[j]
        /\ job[k].pc \notin {"none", "done"}
    BY <1>3, JobFrame DEF Busy
  <2>2. Cands' = Cands /\ Cands \subseteq Jobs
    BY <2>1, CandsAre DEF Cands
  <2>3. {j \in Cands : Over(j)}' = {j \in Cands : Over(j)}
    BY <1>3, <2>1, <2>2 DEF Over
  <2> QED BY <1>3, <2>1, <2>3 DEF CountOK, Total
<1>4. ASSUME NEW k \in Cands, JobStep(k), UNCHANGED <<stats, lock>>,
             job'[k].pc \notin {"none", "counting", "done"}
      PROVE  CountOK'
  <2>1. k \in Jobs /\ \A j \in Jobs \ {k} : job'[j] = job[j]
    BY <1>4, JobFrame
  <2>2. \A j \in Jobs : job'[j].pc = "counting" =>
           lock' = j /\ job'[j].tally = stats[job'[j].outcome]
    BY <1>4, <2>1 DEF CountOK
  <2> QED BY <1>3, <1>4, <2>2
<1>5. ASSUME NEW k \in Cands, StartJob(k) \/ ProfileSearch(k) \/ DedupSearch(k) \/ MergeRead(k)
      PROVE  CountOK'
  <2>1. k \in Jobs /\ UNCHANGED <<stats, lock>>
    BY <1>5, CandsAre DEF StartJob, ProfileSearch, DedupSearch, MergeRead, others
  <2>2. ASSUME NEW i, NEW place, NEW o, Target(k, place, o, i) PROVE job'[k].pc = place
    BY <1>n, <2>1, <2>2 DEF Target, Job
  <2>3. ASSUME NEW o, NEW place, Outcome(k, place, o) PROVE job'[k].pc = place
    BY <1>n, <2>1, <2>3 DEF Outcome, Job
  <2>4. ASSUME NEW place, JobGoto(k, place) PROVE job'[k].pc = place
    BY <1>n, <2>1, <2>4 DEF JobGoto, Job
  <2>5. ASSUME NEW text, job' = [job EXCEPT ![k].pc = "merge_write", ![k].read = text]
        PROVE  job'[k].pc = "merge_write"
    BY <1>n, <2>1, <2>5 DEF Job
  <2>6. job'[k].pc \in {"search", "count", "store", "merge_read", "merge_write", "supersede"}
    <3>1. CASE StartJob(k)
      BY <2>3, <2>4, <3>1 DEF StartJob
    <3>2. CASE ProfileSearch(k)
      BY <2>2, <2>3, <3>2 DEF ProfileSearch
    <3>3. CASE DedupSearch(k)
      BY <2>2, <2>3, <3>3 DEF DedupSearch
    <3>4. CASE MergeRead(k)
      BY <2>4, <2>5, <3>4 DEF MergeRead
    <3> QED BY <1>5, <3>1, <3>2, <3>3, <3>4
  <2> QED BY <1>4, <1>5, <2>1, <2>6 DEF JobStep
<1>6. ASSUME NEW k \in Cands, MergeWrite(k) \/ SupersedeWrite(k) \/ StoreWrite(k)
      PROVE  CountOK'
  <2>1. k \in Jobs /\ UNCHANGED <<stats, lock>>
    BY <1>6, CandsAre DEF MergeWrite, SupersedeWrite, StoreWrite, others
  <2>2. job'[k].pc = "count"
    <3>1. JobGoto(k, "count") => job'[k].pc = "count"
      BY <1>n, <2>1 DEF JobGoto, Job
    <3>2. Outcome(k, "count", "failed") => job'[k].pc = "count"
      BY <1>n, <2>1 DEF Outcome, Job
    <3> QED BY <1>6, <3>1, <3>2 DEF MergeWrite, SupersedeWrite, StoreWrite
  <2> QED BY <1>4, <1>6, <2>1, <2>2 DEF JobStep
<1>7. ASSUME NEW k \in Cands, CountRead(k) PROVE CountOK'
  <2>1. /\ k \in Jobs /\ lock' = k /\ lock = NoId /\ UNCHANGED stats
        /\ \A j \in Jobs \ {k} : job'[j] = job[j]
    BY <1>7, JobFrame DEF CountRead, JobStep
  <2>2. /\ job'[k].pc = "counting" /\ job'[k].outcome = job[k].outcome
        /\ job'[k].tally = stats[job[k].outcome]
    BY <1>7, <1>n, <2>1 DEF CountRead, Job
  <2>3. \A j \in Jobs \ {k} : job'[j].pc # "counting"
    BY <2>1 DEF CountOK, NoId, Jobs
  <2> QED BY <1>3, <1>7, <2>1, <2>2, <2>3 DEF JobStep
<1>8. ASSUME NEW k \in Cands, CountWrite(k) PROVE CountOK'
  <2>1. /\ k \in Jobs /\ UNCHANGED turn /\ \A j \in Jobs \ {k} : job'[j] = job[j]
        /\ job[k].pc = "counting" /\ turn.state = "running"
    BY <1>8, JobFrame DEF CountWrite, JobStep, WorkOK, CurationTypeOK
  <2>2. job'[k].pc = "done" /\ lock = k /\ job[k].tally = stats[job[k].outcome]
    BY <1>8, <1>n, <2>1 DEF CountWrite, JobGoto, Job, CountOK
  <2>3. job[k].outcome \in Outcomes /\ stats \in [Outcomes -> Nat]
    BY <2>1 DEF CurationTypeOK, Job
  <2>4. stats' = [stats EXCEPT ![job[k].outcome] = stats[job[k].outcome] + 1]
    BY <1>8, <2>2 DEF CountWrite
  <2>5. Total(stats') = Total(stats) + 1
    BY <2>3, <2>4, TotalOneMore
  <2> DEFINE over == {j \in Cands : Over(j)}
  <2>6. over' = over \cup {k} /\ k \notin over
    <3>1. Cands' = Cands /\ Cands \subseteq Jobs
      BY <2>1, CandsAre DEF Cands
    <3> QED BY <2>1, <2>2, <3>1 DEF Over
  <2>7. over \in SUBSET Cands
    OBVIOUS
  <2>8. Total(stats) = Cardinality(over)
    BY <2>1 DEF CountOK
  <2> HIDE DEF over
  <2>9. Cardinality(over') = Cardinality(over) + 1
    BY <2>6, <2>7, CandsFinite, FS_AddElement
  <2>10. \A j \in Jobs : job'[j].pc # "counting"
    BY <2>1, <2>2 DEF CountOK
  <2> QED BY <2>5, <2>8, <2>9, <2>10 DEF CountOK, over
<1>9. ASSUME UNCHANGED <<turn, job, stats, lock>> PROVE CountOK'
  <2>1. {k \in Cands : Over(k)}' = {k \in Cands : Over(k)}
    BY <1>9 DEF Cands, Over
  <2> QED BY <1>9, <2>1 DEF CountOK, Total
<1>10. CASE CompactScan \/ CompactStore \/ CompactForget \/ CompactNext \/ CompactDone
            \/ UNCHANGED curationVars
  BY <1>9, <1>10 DEF CompactScan, CompactStore, CompactForget, CompactNext, CompactDone,
     curationVars
<1> QED BY <1>1, <1>2, <1>5, <1>6, <1>7, <1>8, <1>10 DEF CurationNext, JobStep

-----------------------------------------------------------------------------
(* No fact is lost. *)

LEMMA StoringKeeps ==
    ASSUME CurationTypeOK, RowsOK, FactsKept, NEW facts \in SUBSET Facts,
           NEW profile \in BOOLEAN, StoreRow(facts, profile)
    PROVE  FactsKept'
<1> SUFFICES ASSUME NEW f \in known', f \notin replaced'
             PROVE  \E i \in Visible' : f \in rows'[i].facts
  BY DEF FactsKept
<1>1. /\ stored' \in Ids /\ ~Exists(stored')
      /\ rows'[stored'] = [facts |-> facts, profile |-> profile, archived |-> FALSE,
                           next |-> NoId]
      /\ \A i \in Ids : i # stored' => rows'[i] = rows[i]
      /\ known' = known \cup facts /\ replaced' = replaced \ facts
  BY StoreRowDoes
<1>2. CASE f \in facts
  <2>1. stored' \in Visible'
    <3>1. rows'[stored'] \in Row /\ ~rows'[stored'].archived
      BY <1>1 DEF Row
    <3> QED BY <1>1, <3>1, ConstantsOK DEF Visible, Live, Exists
  <2> QED BY <1>1, <1>2, <2>1
<1>3. CASE f \notin facts
  <2>1. PICK i \in Visible : f \in rows[i].facts
    BY <1>1, <1>3 DEF FactsKept
  <2>2. i \in Ids /\ Live(i) /\ i # stored'
    BY <1>1 DEF Visible, Live
  <2>3. rows'[i] = rows[i] /\ i \in Visible'
    BY <1>1, <2>2 DEF Visible, Live, Exists
  <2> QED BY <2>1, <2>3
<1> QED BY <1>2, <1>3

(* A new version keeps what the old one said, or it is replaced.              *)
LEMMA SupersedingKeeps ==
    ASSUME CurationTypeOK, RowsOK, FactsKept, NEW i \in Visible, NEW facts \in SUBSET Facts,
           NEW profile \in BOOLEAN, Supersede(i, facts, profile),
           replaced \ facts \subseteq replaced', rows[i].facts \subseteq facts \cup replaced'
    PROVE  FactsKept'
<1> SUFFICES ASSUME NEW f \in known', f \notin replaced'
             PROVE  \E j \in Visible' : f \in rows'[j].facts
  BY DEF FactsKept
<1>1. /\ stored' \in Ids /\ ~Exists(stored')
      /\ rows'[stored'] = [facts |-> facts, profile |-> profile, archived |-> FALSE,
                           next |-> NoId]
      /\ \A j \in Ids : j # stored' /\ j # i => rows'[j] = rows[j]
      /\ known' = known \cup facts
  BY SupersedeDoes
<1>2. CASE f \in facts
  <2>1. stored' \in Visible'
    <3>1. rows'[stored'] \in Row /\ ~rows'[stored'].archived
      BY <1>1 DEF Row
    <3> QED BY <1>1, <3>1, ConstantsOK DEF Visible, Live, Exists
  <2> QED BY <1>1, <1>2, <2>1
<1>3. CASE f \notin facts
  <2>1. PICK j \in Visible : f \in rows[j].facts
    BY <1>1, <1>3 DEF FactsKept
  <2>2. j \in Ids /\ Live(j) /\ j # stored' /\ j # i
    BY <1>1, <1>3, <2>1 DEF Visible, Live
  <2>3. rows'[j] = rows[j] /\ j \in Visible'
    BY <1>1, <2>2 DEF Visible, Live, Exists
  <2> QED BY <2>1, <2>3
<1> QED BY <1>2, <1>3

LEMMA FactsStep ==
    ASSUME CurationTypeOK, RowsOK, WorkOK, FactsOK, [CurationNext]_curationVars,
           setting.workers = 1, ~setting.overlap
    PROVE  FactsKept' /\ CompactOK' /\ \A k \in Jobs : ReadOK(k)'
<1>0. FactsKept /\ CompactOK /\ \A k \in Jobs : ReadOK(k)
  BY DEF FactsOK
<1>n. NoJob.pc = "none" /\ [NoJob EXCEPT !.pc = "wait"].pc = "wait"
      /\ NoRun.plans = {} /\ NoRun.todo = {} /\ job \in [Jobs -> Job]
  BY DEF NoJob, NoRun, CurationTypeOK
<1>k. UNCHANGED <<rows, known, replaced>> => FactsKept'
  BY <1>0 DEF FactsKept, Visible, Live, Exists
<1>c. (UNCHANGED <<rows, comp>> \/ (comp'.plans = {} /\ comp'.todo = {})) => CompactOK'
  BY <1>0 DEF CompactOK, Intact, Stated, Visible, Live, Exists
<1>1. CASE BeginTurn
  <2>1. UNCHANGED <<rows, known, replaced, comp>>
    BY <1>1 DEF BeginTurn
  <2>2. \A k \in Jobs : job'[k].pc \in {"none", "wait"}
    <3>1. PICK S : job' = [k \in Jobs |-> IF k \in S THEN [NoJob EXCEPT !.pc = "wait"]
                                          ELSE NoJob]
      BY <1>1 DEF BeginTurn
    <3> QED BY <1>n, <3>1
  <2> QED BY <1>k, <1>c, <2>1, <2>2 DEF ReadOK
<1>2. CASE EndTurn \/ Die
  <2>1. UNCHANGED <<rows, known, replaced>> /\ (comp' = comp \/ comp' = NoRun)
        /\ \A k \in Jobs : job'[k] = NoJob
    BY <1>2 DEF EndTurn, Die
  <2> QED BY <1>n, <1>k, <1>c, <2>1 DEF ReadOK
(* Steps of a candidate: no other is under way, and the compactor is idle.    *)
<1>3. ASSUME NEW k \in Cands, JobStep(k)
      PROVE  /\ k \in Jobs /\ CompactOK'
             /\ \A j \in Jobs \ {k} : ReadOK(j)'
  <2>1. /\ UNCHANGED comp /\ k \in Jobs /\ \A j \in Jobs \ {k} : job'[j] = job[j]
        /\ (job[k].pc = "wait" /\ MayStart(k)) \/ Busy(k)
    BY <1>3, JobFrame
  <2>2. comp.plans = {} /\ comp.todo = {}
    <3>1. turn.state # "none"
      BY DEF WorkOK
    <3> QED BY <3>1 DEF WorkOK
  <2>3. \A j \in Jobs \ {k} : ~Busy(j)
    BY <2>1, LoneStart DEF WorkOK
  <2>4. \A j \in Jobs \ {k} : job'[j].pc # "merge_write"
    BY <2>1, <2>3 DEF Busy
  <2> QED BY <1>c, <2>1, <2>2, <2>4 DEF ReadOK
<1>4. ASSUME NEW k \in Cands, JobStep(k), FactsKept', job'[k].pc # "merge_write"
      PROVE  FactsKept' /\ CompactOK' /\ \A j \in Jobs : ReadOK(j)'
  BY <1>3, <1>4 DEF ReadOK
<1>g. ASSUME NEW k \in Cands, NEW place, JobGoto(k, place) PROVE job'[k].pc = place
  BY <1>n, <1>g, CandsAre DEF JobGoto, Job
<1>o. ASSUME NEW k \in Cands, NEW place, NEW o, Outcome(k, place, o) PROVE job'[k].pc = place
  BY <1>n, <1>o, CandsAre DEF Outcome, Job
<1>t. ASSUME NEW k \in Cands, NEW place, NEW o, NEW i, Target(k, place, o, i) PROVE job'[k].pc = place
  BY <1>n, <1>t, CandsAre DEF Target, Job
<1>5. ASSUME NEW k \in Cands, StartJob(k)
      PROVE  FactsKept' /\ CompactOK' /\ \A j \in Jobs : ReadOK(j)'
  <2>1. job'[k].pc # "merge_write"
    BY <1>5, <1>g, <1>o DEF StartJob
  <2> QED BY <1>4, <1>5, <1>k, <2>1 DEF StartJob, JobStep
<1>6. ASSUME NEW k \in Cands, ProfileSearch(k)
      PROVE  FactsKept' /\ CompactOK' /\ \A j \in Jobs : ReadOK(j)'
  <2>1. job'[k].pc # "merge_write"
    BY <1>6, <1>t, <1>o DEF ProfileSearch
  <2> QED BY <1>4, <1>6, <1>k, <2>1 DEF ProfileSearch, JobStep
<1>7. ASSUME NEW k \in Cands, DedupSearch(k)
      PROVE  FactsKept' /\ CompactOK' /\ \A j \in Jobs : ReadOK(j)'
  <2>1. job'[k].pc # "merge_write"
    BY <1>7, <1>t, <1>o DEF DedupSearch
  <2> QED BY <1>4, <1>7, <1>k, <2>1 DEF DedupSearch, JobStep
<1>8. ASSUME NEW k \in Cands, MergeRead(k)
      PROVE  FactsKept' /\ CompactOK' /\ \A j \in Jobs : ReadOK(j)'
  <2> DEFINE i == Reach(job[k].match)
  <2>1. k \in Jobs /\ UNCHANGED <<rows, known, replaced>>
    BY <1>8, CandsAre DEF MergeRead
  <2>2. CASE JobGoto(k, "store") \/ JobGoto(k, "count")
    <3>1. job'[k].pc # "merge_write"
      BY <1>g, <2>2
    <3> QED BY <1>4, <1>8, <1>k, <2>1, <3>1 DEF JobStep
  <2>3. CASE job' = [job EXCEPT ![k].pc = "merge_write", ![k].read = rows[i].facts]
    <3>1. job'[k].match = job[k].match /\ job'[k].read = rows[i].facts
      BY <1>n, <2>1, <2>3 DEF Job
    <3>2. Reach(job[k].match)' = i
      <4>1. ASSUME NEW m PROVE Reach(m)' = Reach(m)
        BY <2>1 DEF Reach, Exists
      <4> QED BY <3>1, <4>1
    <3>3. ReadOK(k)'
      BY <2>1, <3>1, <3>2 DEF ReadOK
    <3> QED BY <1>3, <1>8, <1>k, <2>1, <3>3 DEF JobStep
  <2> QED BY <1>8, <2>2, <2>3 DEF MergeRead
<1>9. ASSUME NEW k \in Cands, MergeWrite(k)
      PROVE  FactsKept' /\ CompactOK' /\ \A j \in Jobs : ReadOK(j)'
  <2> DEFINE i == Reach(job[k].match)
             facts == job[k].read \cup {Fact(k)}
  <2>1. k \in Jobs /\ job'[k].pc # "merge_write" /\ job[k].match \in Ids
        /\ facts \in SUBSET Facts /\ job[k].pc = "merge_write"
    BY <1>9, <1>g, <1>n, CandsAre DEF MergeWrite, WorkOK, Job
  <2>2. CASE i # NoId /\ Supersede(i, facts, Kind(k) = "profile") /\ replaced' = replaced \ facts
    <3>1. i \in Visible /\ rows[i].facts = job[k].read /\ (Kind(k) = "profile") \in BOOLEAN
      BY <1>0, <2>1, <2>2, ReachIs DEF ReadOK
    <3>2. rows[i].facts \subseteq facts
      BY <3>1
    <3> HIDE DEF i, facts
    <3>3. FactsKept'
      BY <1>0, <2>1, <2>2, <3>1, <3>2, SupersedingKeeps
    <3> QED BY <1>4, <1>9, <2>1, <3>3 DEF JobStep
  <2>3. CASE Unwritten
    BY <1>4, <1>9, <1>k, <2>1, <2>3 DEF Unwritten, JobStep
  <2> QED BY <1>9, <2>2, <2>3 DEF MergeWrite
<1>10. ASSUME NEW k \in Cands, SupersedeWrite(k)
       PROVE  FactsKept' /\ CompactOK' /\ \A j \in Jobs : ReadOK(j)'
  <2> DEFINE i == Reach(job[k].match)
             facts == {Fact(k)}
  <2>1. k \in Jobs /\ job'[k].pc # "merge_write" /\ job[k].match \in Ids
        /\ facts \in SUBSET Facts
    BY <1>10, <1>g, CandsAre DEF SupersedeWrite, WorkOK
  <2>2. CASE /\ i # NoId /\ Supersede(i, facts, FALSE)
             /\ replaced' = (replaced \cup rows[i].facts) \ facts
    <3>1. i \in Visible /\ FALSE \in BOOLEAN
      BY <2>1, <2>2, ReachIs
    <3>2. rows[i].facts \subseteq facts \cup replaced' /\ replaced \ facts \subseteq replaced'
      BY <2>2
    <3> HIDE DEF i, facts
    <3>3. FactsKept'
      BY <1>0, <2>1, <2>2, <3>1, <3>2, SupersedingKeeps
    <3> QED BY <1>4, <1>10, <2>1, <3>3 DEF JobStep
  <2>3. CASE Unwritten
    BY <1>4, <1>10, <1>k, <2>1, <2>3 DEF Unwritten, JobStep
  <2> QED BY <1>10, <2>2, <2>3 DEF SupersedeWrite
<1>11. ASSUME NEW k \in Cands, StoreWrite(k)
       PROVE  FactsKept' /\ CompactOK' /\ \A j \in Jobs : ReadOK(j)'
  <2> DEFINE profile == ~turn.legacy /\ Kind(k) = "profile"
  <2>1. job'[k].pc # "merge_write" /\ {Fact(k)} \in SUBSET Facts /\ profile \in BOOLEAN
    BY <1>11, <1>g, <1>o, CandsAre DEF StoreWrite
  <2>2. FactsKept'
    <3>1. CASE StoreRow({Fact(k)}, profile)
      <4> HIDE DEF profile
      <4> QED BY <1>0, <2>1, <3>1, StoringKeeps
    <3>2. CASE Unwritten
      BY <1>k, <3>2 DEF Unwritten
    <3> QED BY <1>11, <3>1, <3>2 DEF StoreWrite
  <2> QED BY <1>4, <1>11, <2>1, <2>2 DEF JobStep
<1>12. ASSUME NEW k \in Cands, CountRead(k) \/ CountWrite(k)
       PROVE  FactsKept' /\ CompactOK' /\ \A j \in Jobs : ReadOK(j)'
  <2>1. k \in Jobs
    BY CandsAre
  <2>2. CASE CountRead(k)
    <3>1. job'[k].pc = "counting"
      BY <1>n, <2>1, <2>2 DEF CountRead, Job
    <3> QED BY <1>4, <1>k, <2>2, <3>1 DEF CountRead, JobStep
  <2>3. CASE CountWrite(k)
    <3>1. job'[k].pc = "done"
      BY <1>g, <2>3 DEF CountWrite
    <3> QED BY <1>4, <1>k, <2>3, <3>1 DEF CountWrite, JobStep
  <2> QED BY <1>12, <2>2, <2>3
<1>13. CASE UNCHANGED curationVars
  <2>1. UNCHANGED <<rows, known, replaced, comp, job>>
    BY <1>13 DEF curationVars
  <2>2. \A k \in Jobs : ReadOK(k)'
    <3>1. ASSUME NEW k \in Jobs PROVE ReadOK(k)'
      <4>1. Reach(job[k].match)' = Reach(job[k].match)
        BY <2>1 DEF Reach, Exists
      <4> QED BY <1>0, <2>1, <4>1 DEF ReadOK
    <3> QED BY <3>1
  <2> QED BY <1>k, <1>c, <2>1, <2>2
(* Steps of the compactor: no turn is being extracted.                        *)
<1>14. ASSUME turn.state = "none", UNCHANGED job
       PROVE  \A k \in Jobs : ReadOK(k)'
  BY <1>14 DEF ReadOK, WorkOK
<1>15. CASE CompactScan
  <2>1. UNCHANGED <<rows, known, replaced, job>> /\ turn.state = "none"
    BY <1>15 DEF CompactScan
  <2>2. PICK P \in Plans(Visible) :
           comp' = [pc |-> "store", plans |-> P, snap |-> [i \in Ids |-> rows[i].facts],
                    todo |-> {}]
    BY <1>15 DEF CompactScan
  <2>3. /\ comp'.plans = P /\ comp'.todo = {} /\ \A i \in Ids : comp'.snap[i] = rows[i].facts
        /\ \A C \in P : C \subseteq Visible
        /\ \A C, D \in P : C # D => C \cap D = {}
    BY <2>2 DEF Plans
  <2>4. CompactOK'
    BY <2>1, <2>3 DEF CompactOK, Intact, Visible, Live, Exists
  <2> QED BY <1>14, <1>k, <2>1, <2>4
<1>16. CASE CompactNext \/ CompactDone
  <2>1. UNCHANGED <<rows, known, replaced, job>> /\ turn.state = "none"
    BY <1>16 DEF CompactNext, CompactDone, WorkOK
  <2>2. CompactOK'
    <3>1. CASE CompactNext
      <4>1. comp'.plans = comp.plans /\ comp'.todo = comp.todo /\ comp'.snap = comp.snap
        BY <3>1 DEF CompactNext, CurationTypeOK
      <4> QED BY <1>0, <2>1, <4>1 DEF CompactOK, Intact, Stated, Visible, Live, Exists
    <3>2. CASE CompactDone
      BY <1>c, <1>n, <3>2 DEF CompactDone
    <3> QED BY <1>16, <3>1, <3>2
  <2>3. \A k \in Jobs : ReadOK(k)'
    BY <1>14, <2>1
  <2> QED BY <1>k, <2>1, <2>2, <2>3
<1>17. CASE CompactStore
  <2>1. UNCHANGED job /\ turn.state = "none"
    BY <1>17 DEF CompactStore, WorkOK
  <2>2. PICK C \in comp.plans :
           \/ /\ StoreRow(Merged(C), FALSE)
              /\ comp' = [comp EXCEPT !.plans = @ \ {C}, !.pc = "forget", !.todo = C]
           \/ comp' = [comp EXCEPT !.plans = @ \ {C}] /\ Unwritten
    BY <1>17 DEF CompactStore
  <2>3. /\ C \in SUBSET Ids /\ \A D \in comp.plans : D \in SUBSET Ids
        /\ comp.snap \in [Ids -> SUBSET Facts] /\ Merged(C) \in SUBSET Facts
    BY DEF CurationTypeOK, Merged
  <2>4. CASE /\ StoreRow(Merged(C), FALSE)
             /\ comp' = [comp EXCEPT !.plans = @ \ {C}, !.pc = "forget", !.todo = C]
    <3>1. comp'.plans = comp.plans \ {C} /\ comp'.todo = C /\ comp'.snap = comp.snap
      BY <2>4 DEF CurationTypeOK
    <3>2. /\ stored' \in Ids /\ ~Exists(stored')
          /\ rows'[stored'] = [facts |-> Merged(C), profile |-> FALSE, archived |-> FALSE,
                               next |-> NoId]
          /\ \A i \in Ids : i # stored' => rows'[i] = rows[i]
          /\ FactsKept'
      <4>1. FALSE \in BOOLEAN
        OBVIOUS
      <4>2. FactsKept'
        BY <1>0, <2>3, <2>4, <4>1, StoringKeeps
      <4> QED BY <2>3, <2>4, <4>1, <4>2, StoreRowDoes
    <3>3. \A D \in comp.plans : \A i \in D : i \in Ids /\ Intact(i) /\ i # stored'
      BY <1>0, <2>3, <3>2 DEF CompactOK, Intact, Live
    <3>4. \A D \in comp.plans : \A i \in D : Intact(i)'
      BY <3>1, <3>2, <3>3 DEF Intact, Live, Exists
    <3>5. stored' \in Visible' /\ rows'[stored'].facts = Merged(C)
      <4>1. rows'[stored'] \in Row /\ ~rows'[stored'].archived
        BY <2>3, <3>2 DEF Row
      <4> QED BY <3>2, <4>1, ConstantsOK DEF Visible, Live, Exists
    <3>6. stored' \notin comp'.todo \cup UNION comp'.plans
      BY <3>1, <3>3
    <3>7. ASSUME NEW m \in C PROVE Stated(comp.snap[m])'
      <4>1. comp.snap[m] \subseteq Merged(C)
        BY DEF Merged
      <4> QED BY <3>1, <3>5, <3>6, <4>1 DEF Stated
    <3>8. CompactOK'
      <4>1. \A D, F \in comp'.plans : D # F => D \cap F = {}
        BY <1>0, <3>1 DEF CompactOK
      <4>2. \A D \in comp'.plans : D \cap comp'.todo = {} /\ \A i \in D : Intact(i)'
        BY <1>0, <3>1, <3>4 DEF CompactOK
      <4>3. \A m \in comp'.todo : Intact(m)' /\ Stated(comp.snap[m])'
        BY <3>1, <3>4, <3>7
      <4> QED BY <4>1, <4>2, <4>3 DEF CompactOK
    <3>9. \A k \in Jobs : ReadOK(k)'
      BY <1>14, <2>1
    <3> QED BY <3>2, <3>8, <3>9
  <2>5. CASE comp' = [comp EXCEPT !.plans = @ \ {C}] /\ Unwritten
    <3>1. comp'.plans = comp.plans \ {C} /\ comp'.todo = comp.todo /\ comp'.snap = comp.snap
      BY <2>5 DEF CurationTypeOK
    <3>2. UNCHANGED <<rows, known, replaced>>
      BY <2>5 DEF Unwritten
    <3>3. CompactOK'
      BY <1>0, <3>1, <3>2 DEF CompactOK, Intact, Stated, Visible, Live, Exists
    <3>4. \A k \in Jobs : ReadOK(k)'
      BY <1>14, <2>1
    <3> QED BY <1>k, <3>2, <3>3, <3>4
  <2> QED BY <2>2, <2>4, <2>5
<1>18. CASE CompactForget
  <2>1. UNCHANGED <<job, known, replaced>> /\ turn.state = "none"
    BY <1>18 DEF CompactForget, WorkOK
  <2>2. PICK m \in comp.todo :
           /\ comp' = [comp EXCEPT !.todo = @ \ {m}]
           /\ \/ rows' = [rows EXCEPT ![Reach(m)] = NoRow]
              \/ UNCHANGED rows
    BY <1>18 DEF CompactForget
  <2>3. /\ comp'.plans = comp.plans /\ comp'.todo = comp.todo \ {m} /\ comp'.snap = comp.snap
        /\ comp.todo \in SUBSET Ids /\ comp.plans \in SUBSET SUBSET Ids
        /\ rows \in [Ids -> Row \cup {NoRow}]
    BY <2>2 DEF CurationTypeOK
  <2>4. m \in Ids /\ Intact(m) /\ Stated(comp.snap[m]) /\ Reach(m) = m
    <3>1. m \in Ids /\ Intact(m) /\ Stated(comp.snap[m])
      BY <1>0, <2>3 DEF CompactOK
    <3> QED BY <3>1, ReachIs DEF Intact
  <2>5. \A i \in Ids : i # m => rows'[i] = rows[i]
    BY <2>2, <2>3, <2>4
  <2>6. ASSUME NEW i \in Visible, i # m PROVE i \in Visible' /\ rows'[i] = rows[i]
    BY <2>5, <2>6 DEF Visible, Live, Exists
  <2>7. CASE UNCHANGED rows
    <3>1. CompactOK'
      BY <1>0, <2>3, <2>7 DEF CompactOK, Intact, Stated, Visible, Live, Exists
    <3>2. \A k \in Jobs : ReadOK(k)'
      BY <1>14, <2>1
    <3> QED BY <1>k, <2>1, <2>7, <3>1, <3>2
  <2>8. FactsKept'
    <3> SUFFICES ASSUME NEW f \in known, f \notin replaced
                 PROVE  \E i \in Visible' : f \in rows'[i].facts
      BY <2>1 DEF FactsKept
    <3>1. PICK i \in Visible : f \in rows[i].facts
      BY <1>0 DEF FactsKept
    <3>2. PICK r \in Visible : r \notin comp.todo /\ comp.snap[m] \subseteq rows[r].facts
      BY <2>4 DEF Stated
    <3>3. CASE i = m
      <4>1. r # m /\ f \in rows[r].facts
        BY <2>4, <3>1, <3>2, <3>3 DEF Intact
      <4> QED BY <2>6, <4>1
    <3> QED BY <2>6, <3>1, <3>3
  <2>9. CompactOK'
    <3>1. \A C, D \in comp'.plans : C # D => C \cap D = {}
      BY <1>0, <2>3 DEF CompactOK
    <3>2. ASSUME NEW i \in Ids, i # m, Intact(i) PROVE Intact(i)'
      BY <2>3, <2>5, <3>2 DEF Intact, Live, Exists
    <3>3. \A C \in comp'.plans : C \cap comp'.todo = {} /\ \A i \in C : Intact(i)'
      BY <1>0, <2>3, <3>2 DEF CompactOK
    <3>4. ASSUME NEW n \in comp'.todo PROVE Intact(n)' /\ Stated(comp.snap[n])'
      <4>1. n \in comp.todo /\ n \in Ids /\ n # m /\ Intact(n) /\ Stated(comp.snap[n])
        BY <1>0, <2>3 DEF CompactOK
      <4>2. PICK r \in Visible : /\ r \notin comp.todo \cup UNION comp.plans
                                 /\ comp.snap[n] \subseteq rows[r].facts
        BY <4>1 DEF Stated
      <4>3. r \in Visible' /\ rows'[r] = rows[r]
        BY <2>6, <4>2
      <4>4. Stated(comp.snap[n])'
        BY <2>3, <4>2, <4>3 DEF Stated
      <4> QED BY <3>2, <4>1, <4>4
    <3> QED BY <3>1, <3>3, <3>4 DEF CompactOK
  <2>10. \A k \in Jobs : ReadOK(k)'
    BY <1>14, <2>1
  <2> QED BY <2>8, <2>9, <2>10
<1>19. ASSUME NEW k \in Cands, JobStep(k)
       PROVE  FactsKept' /\ CompactOK' /\ \A j \in Jobs : ReadOK(j)'
  BY <1>5, <1>6, <1>7, <1>8, <1>9, <1>10, <1>11, <1>12, <1>19 DEF JobStep
<1> QED
  BY <1>1, <1>2, <1>13, <1>15, <1>16, <1>17, <1>18, <1>19 DEF CurationNext

-----------------------------------------------------------------------------
(* The profile. *)

LEMMA TimesAtLeastOne ==
    ASSUME NEW m \in Nat, NEW n \in Nat \ {0} PROVE m * n \in Nat /\ m <= m * n
<1>1. PICK j \in Nat : n = j + 1
  <2>1. n - 1 \in Nat /\ n = (n - 1) + 1
    OBVIOUS
  <2> QED BY <2>1
<1>2. m * j \in Nat /\ m * n = m * j + m
  BY <1>1
<1> QED BY <1>2

(* A search has room for every visible memory, and fetches so many rows that  *)
(* the archived ones leave them their places.                                 *)
SearchHasRoom ==
    /\ Cardinality(Visible) <= SearchLimit
    /\ Cardinality(Visible) + Cardinality(Archived) <= SearchLimit * Overfetch

LEMMA TableFinite ==
    ASSUME CurationTypeOK
    PROVE  /\ IsFiniteSet(Visible) /\ IsFiniteSet(Archived)
           /\ Cardinality(Visible) \in Nat /\ Cardinality(Archived) \in Nat
           /\ Cardinality(Visible) + Cardinality(Archived) <= MaxRows
<1>1. MaxRows \in Nat
  BY CurationAssumption
<1>2. IsFiniteSet(Ids) /\ Cardinality(Ids) = MaxRows
  <2>1. 1 \in Int /\ MaxRows \in Int
    BY <1>1
  <2>2. IsFiniteSet(1 .. MaxRows)
    BY <2>1, FS_Interval
  <2>3. Cardinality(1 .. MaxRows) = IF 1 > MaxRows THEN 0 ELSE MaxRows - 1 + 1
    BY <2>1, FS_Interval
  <2> QED BY <1>1, <2>2, <2>3 DEF Ids
<1>3. Visible \in SUBSET Ids /\ Archived \in SUBSET Ids /\ Visible \cap Archived = {}
  BY DEF Visible, Archived, Live
<1>4. IsFiniteSet(Visible) /\ IsFiniteSet(Archived)
  BY <1>2, <1>3, FS_Subset
<1>5. Cardinality(Visible) \in Nat /\ Cardinality(Archived) \in Nat
  BY <1>4, FS_CardinalityType
<1>6. Cardinality(Visible \cup Archived) = Cardinality(Visible) + Cardinality(Archived)
  <2>1. Cardinality(Visible \cup Archived) =
           Cardinality(Visible) + Cardinality(Archived) - Cardinality(Visible \cap Archived)
    BY <1>4, FS_Union
  <2>2. Cardinality(Visible \cap Archived) = 0
    BY <1>3, FS_EmptySet
  <2> QED BY <1>5, <2>1, <2>2
<1>7. Cardinality(Visible \cup Archived) <= MaxRows
  <2>1. Visible \cup Archived \in SUBSET Ids
    BY <1>3
  <2> QED BY <1>2, <2>1, FS_Subset
<1> QED BY <1>4, <1>5, <1>6, <1>7

(* With room a search that does not fail returns every visible memory.        *)
LEMMA SimilarIsAll ==
    ASSUME SearchHasRoom, CurationTypeOK, ~setting.faulty, NEW S \in Similar
    PROVE  S = Visible
<1> DEFINE n == SearchLimit * Overfetch
<1>1. SearchLimit \in Nat /\ n \in Nat
  BY CurationAssumption, TimesAtLeastOne
<1>2. /\ IsFiniteSet(Visible)
      /\ Cardinality(Visible) \in Nat /\ Cardinality(Archived) \in Nat
  BY TableFinite
<1>3. Cardinality(Visible) <= SearchLimit /\ Cardinality(Visible) + Cardinality(Archived) <= n
  BY DEF SearchHasRoom
<1>4. Fetched = Cardinality(Visible) + Cardinality(Archived)
  <2>1. Fetched = Least(n, Cardinality(Visible) + Cardinality(Archived))
    BY DEF Fetched
  <2> HIDE DEF n
  <2> QED BY <1>1, <1>2, <1>3, <2>1 DEF Least
<1>5. S \in SUBSET Visible /\ Cardinality(S) >= Least(SearchLimit, Fetched - Cardinality(Archived))
  BY DEF Similar
<1>6. Cardinality(S) \in Nat /\ Cardinality(S) <= Cardinality(Visible)
  BY <1>2, <1>5, FS_Subset, FS_CardinalityType
<1>7. Cardinality(S) = Cardinality(Visible)
  BY <1>1, <1>2, <1>3, <1>4, <1>5, <1>6 DEF Least
<1> QED BY <1>2, <1>5, <1>7, FS_Subset

(* With one worker only the candidate of the step can upset the invariant.    *)
LEMMA ProfileFrame ==
    ASSUME CurationTypeOK, WorkOK, ProfileOK, setting.workers = 1,
           NEW k \in Cands, JobStep(k),
           \A i, j \in Profiles' : i = j,
           \/ ProfileJobOK(k)'
           \/ job'[k].pc \notin {"store", "merge_read", "merge_write", "supersede"}
    PROVE  ProfileOK'
<1>1. /\ UNCHANGED <<setting, turn>> /\ k \in Jobs
      /\ \A j \in Jobs \ {k} : job'[j] = job[j]
      /\ (job[k].pc = "wait" /\ MayStart(k)) \/ Busy(k)
  BY JobFrame
<1>2. \A j \in Jobs \ {k} : ~Busy(j)
  BY <1>1, LoneStart DEF WorkOK
<1>3. \A j \in Jobs \ {k} : ProfileJobOK(j)'
  BY <1>1, <1>2 DEF ProfileJobOK, Busy
<1>4. ProfileJobOK(k)'
  BY DEF ProfileJobOK
<1>5. Cands' = Cands /\ Cands \subseteq Jobs
  BY <1>1, CandsAre DEF Cands
<1> QED BY <1>3, <1>4, <1>5 DEF ProfileOK

(* What adds no profile, archives nothing and moves no candidate.             *)
LEMMA ProfileKept ==
    ASSUME CurationTypeOK, WorkOK, ProfileOK, setting.workers = 1, ~setting.faulty,
           UNCHANGED <<setting, turn, job>>, Profiles' \subseteq Profiles,
           \A i \in Ids : (Exists(i) => Live(i)) /\ Exists(i)' => Live(i)'
    PROVE  ProfileOK'
<1>0. (\A i, j \in Profiles : i = j) /\ \A k \in Cands : ProfileJobOK(k)
  BY DEF ProfileOK
<1>1. ASSUME NEW k \in Cands PROVE ProfileJobOK(k)'
  <2> SUFFICES ASSUME Kind(k) = "profile", ~turn.legacy PROVE ProfileJobOK(k)'
    BY DEF ProfileJobOK, Kind, Fact
  <2>1. k \in Jobs /\ ProfileJobOK(k) /\ job[k].pc # "supersede"
    BY <1>0, CandsAre DEF ProfileJobOK
  <2>2. job[k].pc = "store" => Profiles' = {}
    BY <2>1 DEF ProfileJobOK
  <2>3. ASSUME job[k].pc \in {"merge_read", "merge_write"}
        PROVE  /\ Profiles' \subseteq {job[k].match}
               /\ Exists(job[k].match)' => Live(job[k].match)'
    <3>1. job[k].match \in Ids /\ job'[k] = job[k]
      BY <2>1, <2>3 DEF WorkOK
    <3>2. Profiles \subseteq {job[k].match} /\ (Exists(job[k].match) => Live(job[k].match))
      BY <2>1, <2>3 DEF ProfileJobOK
    <3>3. \A i \in Ids : i = job[k].match /\ Exists(i)' => Live(i)'
      BY <3>2
    <3> QED BY <3>1, <3>2, <3>3 DEF Exists, Live
  <2> QED BY <2>1, <2>2, <2>3 DEF ProfileJobOK
<1>2. Cands' = Cands
  BY DEF Cands
<1> QED BY <1>0, <1>1, <1>2 DEF ProfileOK

LEMMA ProfileRows ==
    ASSUME CurationTypeOK, RowsOK, NEW facts \in SUBSET Facts, NEW profile \in BOOLEAN
    PROVE  /\ StoreRow(facts, profile) =>
                 /\ Profiles' = Profiles \cup (IF profile THEN {stored'} ELSE {})
                 /\ \A i \in Ids : (Exists(i) => Live(i)) /\ Exists(i)' => Live(i)'
           /\ \A i \in Visible : Supersede(i, facts, profile) =>
                 Profiles' = (Profiles \ {i}) \cup (IF profile THEN {stored'} ELSE {})
<1>1. ASSUME StoreRow(facts, profile)
      PROVE  /\ Profiles' = Profiles \cup (IF profile THEN {stored'} ELSE {})
             /\ \A i \in Ids : (Exists(i) => Live(i)) /\ Exists(i)' => Live(i)'
  <2>1. /\ stored' \in Ids /\ ~Exists(stored')
        /\ rows'[stored'] = [facts |-> facts, profile |-> profile, archived |-> FALSE,
                             next |-> NoId]
        /\ \A j \in Ids : j # stored' => rows'[j] = rows[j]
    BY <1>1, StoreRowDoes
  <2>0. PICK new : new = stored'
    OBVIOUS
  <2>2. Live(new)' /\ rows'[new].profile = profile
    <3>1. rows'[new] \in Row /\ ~rows'[new].archived
      BY <2>0, <2>1 DEF Row
    <3>2. rows'[new] # NoRow
      BY <3>1, ConstantsOK
    <3>3. rows'[new].profile = profile
      BY <2>0, <2>1
    <3> QED BY <3>1, <3>2, <3>3 DEF Live, Exists
  <2>3. \A j \in Ids : j # stored' => (Live(j)' <=> Live(j)) /\ (Exists(j)' <=> Exists(j))
    BY <2>1 DEF Live, Exists
  <2> QED BY <2>0, <2>1, <2>2, <2>3 DEF Profiles, Visible, Live
<1>2. ASSUME NEW i \in Visible, Supersede(i, facts, profile)
      PROVE  Profiles' = (Profiles \ {i}) \cup (IF profile THEN {stored'} ELSE {})
  <2>1. /\ stored' \in Ids /\ ~Exists(stored') /\ stored' # i
        /\ rows'[stored'] = [facts |-> facts, profile |-> profile, archived |-> FALSE,
                             next |-> NoId]
        /\ rows'[i].archived
        /\ \A j \in Ids : j # stored' /\ j # i => rows'[j] = rows[j]
    BY <1>2, SupersedeDoes
  <2>0. PICK new : new = stored'
    OBVIOUS
  <2>2. Live(new)' /\ rows'[new].profile = profile
    <3>1. rows'[new] \in Row /\ ~rows'[new].archived
      BY <2>0, <2>1 DEF Row
    <3>2. rows'[new] # NoRow
      BY <3>1, ConstantsOK
    <3>3. rows'[new].profile = profile
      BY <2>0, <2>1
    <3> QED BY <3>1, <3>2, <3>3 DEF Live, Exists
  <2>3. ~Live(i)' /\ ~Live(stored')
    BY <2>1 DEF Live
  <2>4. \A j \in Ids : j # stored' /\ j # i => (Live(j)' <=> Live(j))
    BY <2>1 DEF Live, Exists
  <2> QED BY <2>0, <2>1, <2>2, <2>3, <2>4 DEF Profiles, Visible
<1> QED BY <1>1, <1>2

LEMMA ProfileJobStep ==
    ASSUME SearchHasRoom, CurationTypeOK, RowsOK, WorkOK, ProfileOK,
           setting.workers = 1, ~setting.faulty, NEW k \in Cands, JobStep(k)
    PROVE  ProfileOK'
<1>0. (\A i, j \in Profiles : i = j) /\ ProfileJobOK(k)
  BY DEF ProfileOK
<1>j. k \in Jobs /\ job \in [Jobs -> Job] /\ job[k] \in Job /\ Fact(k) \in Facts
  BY CandsAre DEF CurationTypeOK
<1>f. ASSUME \A i, j \in Profiles' : i = j,
             \/ ProfileJobOK(k)'
             \/ job'[k].pc \notin {"store", "merge_read", "merge_write", "supersede"}
      PROVE  ProfileOK'
  BY <1>f, ProfileFrame
<1>s. Kind(k)' = Kind(k) /\ turn' = turn
  BY JobFrame DEF Kind, Fact
<1>u. UNCHANGED rows => Profiles' = Profiles
  BY DEF Profiles, Visible, Live, Exists
<1>g. ASSUME NEW place, JobGoto(k, place) PROVE job'[k].pc = place /\ job'[k].match = job[k].match
  BY <1>j, <1>g DEF JobGoto, Job
<1>o. ASSUME NEW place, NEW o, Outcome(k, place, o) PROVE job'[k].pc = place
  BY <1>j, <1>o DEF Outcome, Job
<1>t. ASSUME NEW place, NEW o, NEW i, Target(k, place, o, i) PROVE job'[k].pc = place /\ job'[k].match = i
  BY <1>j, <1>t DEF Target, Job
<1>n. ASSUME Kind(k) # "profile" \/ turn.legacy PROVE ProfileJobOK(k)'
  BY <1>n, <1>s DEF ProfileJobOK
<1>1. CASE StartJob(k)
  <2>1. UNCHANGED rows /\ (job'[k].pc \in {"search", "count"} \/ turn.legacy)
    BY <1>1, <1>g, <1>o DEF StartJob
  <2> QED BY <1>0, <1>f, <1>n, <1>u, <2>1
<1>2. CASE ProfileSearch(k)
  <2>1. PICK S \in Similar :
          IF ProfilesIn(S) = {} THEN Outcome(k, "store", "created")
          ELSE \E i \in ProfilesIn(S) : Target(k, "merge_read", "merged", i)
    BY <1>2 DEF ProfileSearch
  <2>2. ProfilesIn(S) = Profiles /\ UNCHANGED rows
    BY <1>2, SimilarIsAll DEF ProfilesIn, Profiles, ProfileSearch
  <2>3. CASE Profiles = {} /\ Outcome(k, "store", "created")
    BY <1>0, <1>f, <1>o, <1>u, <2>2, <2>3 DEF ProfileJobOK
  <2>4. CASE \E i \in Profiles : Target(k, "merge_read", "merged", i)
    <3>1. PICK i \in Profiles : Target(k, "merge_read", "merged", i)
      BY <2>4
    <3>2. job'[k].pc = "merge_read" /\ job'[k].match = i
      BY <1>t, <3>1
    <3>3. Profiles \subseteq {i} /\ Live(i)
      BY <1>0 DEF Profiles, Visible
    <3>4. Profiles' \subseteq {i} /\ Live(i)'
      BY <1>u, <2>2, <3>3 DEF Live, Exists
    <3>5. ProfileJobOK(k)'
      BY <3>2, <3>4 DEF ProfileJobOK, Live
    <3> QED BY <1>0, <1>f, <1>u, <2>2, <3>5
  <2> QED BY <2>1, <2>2, <2>3, <2>4
<1>3. CASE DedupSearch(k)
  BY <1>0, <1>3, <1>f, <1>n, <1>u DEF DedupSearch
<1>4. CASE MergeRead(k)
  <2>1. UNCHANGED rows /\ job[k].pc = "merge_read" /\ job[k].match \in Ids
    BY <1>4, <1>j DEF MergeRead, WorkOK
  <2>2. CASE Kind(k) # "profile" \/ turn.legacy
    BY <1>0, <1>f, <1>n, <1>u, <2>1, <2>2
  <2>3. CASE Kind(k) = "profile" /\ ~turn.legacy
    <3>1. Profiles \subseteq {job[k].match} /\ (Exists(job[k].match) => Live(job[k].match))
      BY <1>0, <2>1, <2>3 DEF ProfileJobOK
    <3>2. CASE Reach(job[k].match) = NoId /\ JobGoto(k, "store")
      <4>1. ~Live(job[k].match)
        BY <2>1, <3>2, ReachIs DEF Ids, NoId
      <4>2. Profiles = {}
        BY <3>1, <4>1 DEF Profiles, Visible
      <4>3. ProfileJobOK(k)'
        BY <1>g, <1>u, <2>1, <3>2, <4>2 DEF ProfileJobOK
      <4> QED BY <1>0, <1>f, <1>u, <2>1, <4>3
    <3>3. CASE job' = [job EXCEPT ![k].pc = "merge_write",
                                  ![k].read = rows[Reach(job[k].match)].facts]
      <4>1. job'[k].pc = "merge_write" /\ job'[k].match = job[k].match
        BY <1>j, <3>3 DEF Job
      <4>2. Profiles' \subseteq {job[k].match}
        BY <1>u, <2>1, <3>1
      <4>3. Exists(job[k].match)' => Live(job[k].match)'
        BY <2>1, <3>1, <4>1 DEF Live, Exists
      <4>4. ProfileJobOK(k)'
        BY <4>1, <4>2, <4>3 DEF ProfileJobOK
      <4> QED BY <1>0, <1>f, <1>u, <2>1, <4>4
    <3>4. CASE JobGoto(k, "count")
      BY <1>0, <1>f, <1>g, <1>u, <2>1, <3>4
    <3> QED BY <1>4, <3>2, <3>3, <3>4 DEF MergeRead
  <2> QED BY <2>2, <2>3
<1>5. CASE MergeWrite(k)
  <2> DEFINE i == Reach(job[k].match)
             facts == job[k].read \cup {Fact(k)}
             profile == Kind(k) = "profile"
  <2>1. /\ job'[k].pc = "count" /\ job[k].pc = "merge_write" /\ job[k].match \in Ids
        /\ facts \in SUBSET Facts /\ profile \in BOOLEAN /\ ~turn.legacy
    BY <1>5, <1>g, <1>j DEF MergeWrite, WorkOK, Job
  <2>2. CASE i # NoId /\ Supersede(i, facts, profile)
    <3>1. i \in Visible
      BY <2>1, <2>2, ReachIs
    <3>2. Profiles' = (Profiles \ {i}) \cup (IF profile THEN {stored'} ELSE {})
      <4> HIDE DEF i, facts, profile
      <4> QED BY <2>1, <2>2, <3>1, ProfileRows
    <3>3. profile => Profiles \subseteq {i}
      BY <1>0, <2>1, <2>2, ReachIs DEF ProfileJobOK
    <3>4. \A m, n \in Profiles' : m = n
      BY <1>0, <3>2, <3>3
    <3> QED BY <1>f, <2>1, <3>4
  <2>3. CASE Unwritten
    BY <1>0, <1>f, <1>u, <2>1, <2>3 DEF Unwritten
  <2> QED BY <1>5, <2>2, <2>3 DEF MergeWrite
<1>6. CASE SupersedeWrite(k)
  <2> DEFINE i == Reach(job[k].match)
  <2>1. job'[k].pc = "count" /\ job[k].match \in Ids /\ {Fact(k)} \in SUBSET Facts
        /\ FALSE \in BOOLEAN
    BY <1>6, <1>g, <1>j DEF SupersedeWrite, WorkOK
  <2>2. CASE i # NoId /\ Supersede(i, {Fact(k)}, FALSE)
    <3>1. i \in Visible
      BY <2>1, <2>2, ReachIs
    <3>2. Profiles' = (Profiles \ {i}) \cup (IF FALSE THEN {stored'} ELSE {})
      <4> HIDE DEF i
      <4> QED BY <2>1, <2>2, <3>1, ProfileRows
    <3> QED BY <1>0, <1>f, <2>1, <3>2
  <2>3. CASE Unwritten
    BY <1>0, <1>f, <1>u, <2>1, <2>3 DEF Unwritten
  <2> QED BY <1>6, <2>2, <2>3 DEF SupersedeWrite
<1>7. CASE StoreWrite(k)
  <2> DEFINE profile == ~turn.legacy /\ Kind(k) = "profile"
  <2>1. /\ job'[k].pc = "count" /\ job[k].pc = "store" /\ {Fact(k)} \in SUBSET Facts
        /\ profile \in BOOLEAN /\ StoreRow({Fact(k)}, profile)
    BY <1>7, <1>g, <1>j DEF StoreWrite
  <2>2. Profiles' = Profiles \cup (IF profile THEN {stored'} ELSE {})
    <3> HIDE DEF profile
    <3> QED BY <2>1, ProfileRows
  <2>3. profile => Profiles = {}
    BY <1>0, <2>1 DEF ProfileJobOK
  <2>4. \A m, n \in Profiles' : m = n
    BY <1>0, <2>2, <2>3
  <2> QED BY <1>f, <2>1, <2>4
<1>8. CASE CountRead(k)
  <2>1. job'[k].pc = "counting" /\ UNCHANGED rows
    BY <1>8, <1>j DEF CountRead, Job
  <2> QED BY <1>0, <1>f, <1>u, <2>1
<1>9. CASE CountWrite(k)
  <2>1. job'[k].pc = "done" /\ UNCHANGED rows
    BY <1>9, <1>g DEF CountWrite
  <2> QED BY <1>0, <1>f, <1>u, <2>1
<1> QED BY <1>1, <1>2, <1>3, <1>4, <1>5, <1>6, <1>7, <1>8, <1>9 DEF JobStep

LEMMA ProfileStep ==
    ASSUME SearchHasRoom, CurationTypeOK, RowsOK, WorkOK, ProfileOK,
           [CurationNext]_curationVars, setting.workers = 1, ~setting.faulty
    PROVE  ProfileOK'
<1>0. (\A i, j \in Profiles : i = j) /\ \A k \in Cands : ProfileJobOK(k)
  BY DEF ProfileOK
<1>u. UNCHANGED rows => /\ Profiles' = Profiles
                        /\ \A i \in Ids : (Exists(i) => Live(i)) /\ Exists(i)' => Live(i)'
  BY DEF Profiles, Visible, Live, Exists
<1>1. CASE BeginTurn \/ EndTurn
  <2>1. UNCHANGED rows /\ \A k \in Jobs : job'[k].pc \in {"none", "wait"}
    <3>1. NoJob.pc = "none" /\ [NoJob EXCEPT !.pc = "wait"].pc = "wait"
      BY DEF NoJob
    <3>2. /\ UNCHANGED rows
          /\ \/ \E S : job' = [k \in Jobs |-> IF k \in S THEN [NoJob EXCEPT !.pc = "wait"]
                                             ELSE NoJob]
             \/ job' = [k \in Jobs |-> NoJob]
      BY <1>1 DEF BeginTurn, EndTurn
    <3> QED BY <3>1, <3>2
  <2>2. Cands' \subseteq Jobs
    <3>1. CurationTypeOK'
      BY TypeStep
    <3>2. MaxCands \in Nat /\ turn'.cands \in Seq(Facts) /\ Len(turn'.cands) <= MaxCands
      BY <3>1, CurationAssumption DEF CurationTypeOK
    <3> QED BY <3>2 DEF Cands, Jobs
  <2>3. \A k \in Cands' : ProfileJobOK(k)'
    BY <2>1, <2>2 DEF ProfileJobOK
  <2> QED BY <1>0, <1>u, <2>1, <2>3 DEF ProfileOK
<1>2. CASE \E k \in Cands : JobStep(k)
  BY <1>2, ProfileJobStep
<1>3. CASE CompactScan \/ CompactNext \/ CompactDone \/ UNCHANGED curationVars
  <2>1. UNCHANGED <<setting, turn, job, rows>>
    BY <1>3 DEF CompactScan, CompactNext, CompactDone, curationVars
  <2> QED BY <1>u, <2>1, ProfileKept
<1>4. CASE CompactStore
  <2>1. UNCHANGED <<setting, turn, job>>
    BY <1>4 DEF CompactStore
  <2>2. PICK C \in comp.plans : StoreRow(Merged(C), FALSE)
    BY <1>4 DEF CompactStore
  <2>3. Merged(C) \in SUBSET Facts /\ FALSE \in BOOLEAN
    BY DEF CurationTypeOK, Merged
  <2>4. /\ Profiles' = Profiles \cup (IF FALSE THEN {stored'} ELSE {})
        /\ \A i \in Ids : (Exists(i) => Live(i)) /\ Exists(i)' => Live(i)'
    BY <2>2, <2>3, ProfileRows
  <2>5. Profiles' \subseteq Profiles
    BY <2>4
  <2> QED BY <2>1, <2>4, <2>5, ProfileKept
<1>5. CASE CompactForget
  <2>1. UNCHANGED <<setting, turn, job>>
    BY <1>5 DEF CompactForget
  <2>2. PICK m \in comp.todo :
           rows' = [rows EXCEPT ![Reach(m)] = NoRow] \/ UNCHANGED rows
    BY <1>5 DEF CompactForget
  <2>3. CASE UNCHANGED rows
    BY <1>u, <2>1, <2>3, ProfileKept
  <2>4. CASE rows' = [rows EXCEPT ![Reach(m)] = NoRow]
    <3>1. \A i \in Ids : rows'[i] = rows[i] \/ rows'[i] = NoRow
      BY <2>4 DEF CurationTypeOK
    <3>2. \A i \in Ids : (Exists(i)' => rows'[i] = rows[i] /\ Exists(i)) /\ (Live(i)' => Live(i))
      BY <3>1 DEF Live, Exists
    <3>3. Profiles' \subseteq Profiles
      BY <3>2 DEF Profiles, Visible, Live
    <3>4. \A i \in Ids : (Exists(i) => Live(i)) /\ Exists(i)' => Live(i)'
      BY <3>2 DEF Live
    <3> QED BY <2>1, <3>3, <3>4, ProfileKept
  <2> QED BY <2>2, <2>3, <2>4
<1> QED BY <1>1, <1>2, <1>3, <1>4, <1>5 DEF CurationNext, Die

-----------------------------------------------------------------------------
(* The invariant, and what it says. *)

LEMMA CurationInitIInv == CurationInit => CurationIInv /\ ProfileOK
<1> SUFFICES ASSUME CurationInit PROVE CurationIInv /\ ProfileOK
  OBVIOUS
<1>1. /\ setting \in Settings /\ rows = [i \in Ids |-> NoRow] /\ stored = 0 /\ turn = NoTurn
      /\ job = [k \in Jobs |-> NoJob] /\ stats = NoStats /\ lock = NoId /\ comp = NoRun
      /\ known = {} /\ replaced = {}
  BY DEF CurationInit
<1>2. /\ turn.state = "none" /\ turn.cands = << >> /\ ~turn.legacy
      /\ comp.pc = "idle" /\ comp.plans = {} /\ comp.todo = {}
      /\ \A k \in Jobs : job[k].pc = "none"
  BY <1>1 DEF NoTurn, NoRun, NoJob
<1>3. Cands = {} /\ (\A k \in Jobs : ~Busy(k)) /\ \A i \in Ids : ~Exists(i) /\ ~Live(i)
  BY <1>1, <1>2 DEF Cands, Busy, Exists, Live
<1>4. Visible = {} /\ Profiles = {}
  BY <1>3 DEF Visible, Profiles
<1>5. CurationTypeOK
  BY <1>1, ConstantsOK, CurationAssumption DEF CurationTypeOK
<1>6. RowsOK
  BY <1>1, <1>3 DEF RowsOK
<1>7. WorkOK
  BY <1>2, <1>3 DEF WorkOK
<1>8. CountOK
  BY <1>2 DEF CountOK
<1>9. FactsOK
  BY <1>1, <1>2 DEF FactsOK, FactsKept, CompactOK, ReadOK
<1>10. ProfileOK
  BY <1>3, <1>4 DEF ProfileOK
<1> QED BY <1>5, <1>6, <1>7, <1>8, <1>9, <1>10 DEF CurationIInv

LEMMA SettingStays == [CurationNext]_curationVars => setting' = setting
<1>1. \A k \in Cands : JobStep(k) => setting' = setting
  BY DEF JobStep, StartJob, ProfileSearch, DedupSearch, MergeRead, MergeWrite,
         SupersedeWrite, StoreWrite, CountRead, CountWrite, others
<1> QED BY <1>1 DEF CurationNext, BeginTurn, EndTurn, CompactScan, CompactStore, CompactForget,
                    CompactNext, CompactDone, Die, curationVars

LEMMA CurationInductive == CurationIInv /\ [CurationNext]_curationVars => CurationIInv'
<1> SUFFICES ASSUME CurationIInv, [CurationNext]_curationVars PROVE CurationIInv'
  OBVIOUS
<1>1. CurationTypeOK /\ RowsOK /\ WorkOK /\ CountOK /\ FactsOK
  BY DEF CurationIInv
<1>2. CurationTypeOK' /\ RowsOK' /\ WorkOK' /\ CountOK'
  BY <1>1, TypeStep, WorkStep, CountStep
<1>3. FactsOK'
  <2> SUFFICES ASSUME setting'.workers = 1, ~setting'.overlap
               PROVE  FactsKept' /\ CompactOK' /\ \A k \in Jobs : ReadOK(k)'
    BY DEF FactsOK
  <2> QED BY <1>1, SettingStays, FactsStep
<1> QED BY <1>2, <1>3 DEF CurationIInv

LEMMA ProfileInductive ==
    CurationIInv /\ ProfileOK /\ SearchHasRoom /\ [CurationNext]_curationVars => ProfileOK'
<1> SUFFICES ASSUME CurationIInv, ProfileOK, SearchHasRoom, [CurationNext]_curationVars
             PROVE  ProfileOK'
  OBVIOUS
<1>1. CASE setting.workers = 1 /\ ~setting.faulty
  BY <1>1, ProfileStep DEF CurationIInv
<1>2. CASE ~(setting.workers = 1 /\ ~setting.faulty)
  BY <1>2, SettingStays DEF ProfileOK
<1> QED BY <1>1, <1>2

(* The types of the variables.                                                *)
THEOREM CurationTypesAreCorrect == CurationSpec => []CurationTypeOK
<1>1. CurationInit => CurationIInv
  BY CurationInitIInv
<1>2. CurationIInv => CurationTypeOK
  BY DEF CurationIInv
<1> QED BY <1>1, <1>2, CurationInductive, PTL DEF CurationSpec

(* When every candidate is over, those counted are all of them.               *)
LEMMA AllCounted == CurationIInv => CandidatesCounted
<1> SUFFICES ASSUME CurationIInv, turn.state = "running",
                    \A k \in Jobs : job[k].pc \in {"none", "done"}
             PROVE  Total(stats) = Len(turn.cands)
  BY DEF CandidatesCounted
<1>1. Cands \subseteq Jobs /\ Cands = 1 .. Len(turn.cands) /\ Len(turn.cands) \in Nat
  BY CandsAre DEF CurationIInv
<1>2. {k \in Cands : Over(k)} = 1 .. Len(turn.cands)
  BY <1>1 DEF Over
<1>3. Total(stats) = Cardinality(1 .. Len(turn.cands))
  BY <1>2 DEF CurationIInv, CountOK
<1>4. PICK n \in Nat : n = Len(turn.cands)
  BY <1>1
<1>5. Cardinality(1 .. n) = n
  <2>1. Cardinality(1 .. n) = IF 1 > n THEN 0 ELSE n - 1 + 1
    BY FS_Interval
  <2> QED BY <2>1
<1> QED BY <1>3, <1>4, <1>5

(* However many memories, turns and compactions there are, and wherever the   *)
(* processes fail or die: no fact is lost and no candidate is left out of the *)
(* statistics.                                                                *)
THEOREM FactsSurvive == CurationSpec => [](CurationKeepsFacts /\ CandidatesCounted)
<1>1. CurationInit => CurationIInv
  BY CurationInitIInv
<1>2. CurationIInv => CurationKeepsFacts /\ CandidatesCounted
  BY AllCounted DEF CurationIInv, FactsOK, CurationKeepsFacts
<1> QED BY <1>1, <1>2, CurationInductive, PTL DEF CurationSpec

LEMMA ProfileIsOne == CurationIInv /\ ProfileOK => OneProfile
<1> SUFFICES ASSUME CurationIInv, ProfileOK, setting.workers = 1, ~setting.faulty
             PROVE  Cardinality(Profiles) <= 1
  BY DEF OneProfile, Profiles
<1>1. \A i, j \in Profiles : i = j
  BY DEF ProfileOK
<1>2. CASE Profiles = {}
  BY <1>2, FS_EmptySet
<1>3. CASE Profiles # {}
  <2>1. PICK i \in Profiles : TRUE
    BY <1>3
  <2>2. Profiles = {i}
    BY <1>1, <2>1
  <2>3. Cardinality({i}) = 1
    BY FS_Singleton
  <2> QED BY <2>2, <2>3
<1> QED BY <1>2, <1>3

(* Besides, as long as a search has room for every memory (so that no profile *)
(* can hide behind other memories, or behind its own archived versions), there*)
(* is one profile: what the turns and the compactions leave behind is sound.  *)
THEOREM CurationIsSound == CurationSpec /\ []SearchHasRoom => []CurationSound
<1>1. CurationInit => CurationIInv /\ ProfileOK
  BY CurationInitIInv
<1>2. CurationIInv /\ ProfileOK /\ SearchHasRoom /\ [CurationNext]_curationVars =>
         (CurationIInv /\ ProfileOK)'
  BY CurationInductive, ProfileInductive
<1>3. CurationIInv /\ ProfileOK => CurationSound
  BY ProfileIsOne, AllCounted DEF CurationIInv, FactsOK, CurationKeepsFacts, CurationSound
<1> QED BY <1>1, <1>2, <1>3, PTL DEF CurationSpec
=============================================================================
