------------------------- MODULE ProviderTurnsProofs -------------------------
(***************************************************************************)
(* ProviderTurns, for every set of host threads and every number of calls:  *)
(* turns are written one after the other, the end of a session is a        *)
(* barrier, and a recall is credited soundly.                              *)
(***************************************************************************)
EXTENDS ProviderTurns, FiniteSetTheorems, TLAPS

Places == {"idle", "p_flush", "p_recall", "u_match", "s_lock", "s_join", "w_flush", "w_drop",
           "e_lock", "e_join", "e_summary", "d_join"}
WithSession == {"p_flush", "p_recall", "u_match", "s_lock", "s_join", "w_flush", "w_drop"}

Call == [pc : Places, session : Sessions \cup {"none"}, on : 0 .. MaxCalls]
Work == [pc : {"none", "write", "pop", "mark", "done"}, session : Sessions \cup {"none"},
         popped : 0 .. MaxCalls]

TypeOK ==
    /\ setting \in Setting
    /\ calls \in Nat /\ calls <= setting.bound
    /\ caller \in [Hosts -> Call]
    /\ \A h \in Hosts : caller[h].pc \in WithSession => caller[h].session \in Sessions
    /\ lock \in Hosts \cup {Free}
    /\ syncThread \in 0 .. MaxCalls /\ turns \in 0 .. MaxCalls
    /\ thread \in [Turns -> Work]
    /\ \A t \in Turns : Begun(t) => thread[t].session \in Sessions
    /\ sessionId \in Sessions
    /\ pending \in [Sessions -> 0 .. MaxCalls]
    /\ recalls \in 0 .. MaxCalls
    /\ answering \in [Hosts -> 0 .. MaxCalls]
    /\ confirmed \subseteq Recalls
    /\ credits \in [Recalls -> Nat]

(* A call starts at most one thread or makes one recall, and then returns.   *)
InCall == {h \in Hosts : caller[h].pc # "idle"}
BudgetOK == turns + recalls + Cardinality(InCall) <= calls

-----------------------------------------------------------------------------
(* The inductive invariant.                                                  *)

(* What _dispatch_lock protects: who holds it waits for the last thread that *)
(* was started, so no other starts meanwhile.                                *)
Holding == {"s_join", "e_join", "e_summary"}
AllDone == \A t \in Turns : Begun(t) => thread[t].pc = "done"

OrderOK ==
    /\ syncThread = turns
    /\ \A t \in Turns : Begun(t) <=> t <= turns
    /\ \A h \in Hosts : caller[h].pc \in Holding <=> lock = h
    /\ \A h \in Hosts : caller[h].pc \in {"s_join", "e_join"} => caller[h].on = turns
    /\ ~setting.slow =>
          /\ \A t \in Turns : t < turns => thread[t].pc = "done"
          /\ \A h \in Hosts : caller[h].pc = "e_summary" => AllDone

(* A prefetch waits for, or has waited for, a thread that was started.       *)
FlushOK ==
    \A h \in Hosts :
        /\ caller[h].pc \in {"p_flush", "p_recall"} => caller[h].on <= turns
        /\ ~setting.slow /\ caller[h].pc = "p_recall" =>
              \A t \in Turns : t <= caller[h].on => thread[t].pc = "done"

(* A recall that is yet to be credited is in one place: pending for a        *)
(* session, with one call of on_recall_used or with one thread.              *)
Matching(h, r) == caller[h].pc = "u_match" /\ caller[h].on = r
Marking(t, r) == thread[t].pc = "mark" /\ thread[t].popped = r
Open(r) == r <= recalls /\ credits[r] = 0

OnePlace(r) ==
    /\ \A s \in Sessions : pending[s] = r =>
          /\ Open(r)
          /\ \A z \in Sessions : pending[z] = r => z = s
          /\ \A h \in Hosts : ~Matching(h, r)
          /\ \A t \in Turns : ~Marking(t, r)
    /\ \A h \in Hosts : Matching(h, r) =>
          /\ Open(r)
          /\ \A q \in Hosts : Matching(q, r) => q = h
          /\ \A t \in Turns : ~Marking(t, r)
    /\ \A t \in Turns : Marking(t, r) =>
          /\ Open(r)
          /\ \A u \in Turns : Marking(u, r) => u = t

PlacesOK ==
    \A r \in Recalls : OnePlace(r) /\ credits[r] <= 1 /\ (credits[r] > 0 => r <= recalls)

HostsOK == \A h \in Hosts : caller[h].pc # "idle" => h \in setting.hosts

(* A lone host: what is pending is of the session it is in, and is confirmed *)
(* only as long as a thread is about to take it.                             *)
SessionOf(h) == IF caller[h].pc = "w_drop" THEN caller[h].session ELSE sessionId

CallerOK(h) ==
    /\ caller[h].pc \in {"p_flush", "p_recall", "s_lock", "s_join", "w_flush"} =>
          caller[h].session = sessionId
    /\ caller[h].pc \in {"p_flush", "w_flush"} => caller[h].on = turns
    /\ caller[h].pc \in {"p_flush", "p_recall", "s_lock", "s_join"} => answering[h] = Nothing
    /\ caller[h].pc = "u_match" => caller[h].on \in confirmed
    /\ answering[h] <= recalls /\ \A r \in confirmed : r <= recalls

QuietOK(h) == caller[h].pc \in {"p_recall", "w_drop"} \/ answering[h] # Nothing => AllDone

ThreadsOK ==
    \A t \in Turns : /\ thread[t].pc \in {"write", "pop"} => thread[t].session = sessionId
                     /\ thread[t].pc = "mark" => thread[t].popped \in confirmed

CreditsOK == \A r \in Recalls : credits[r] > 0 => r \in confirmed

About(h) == caller[h].pc \in {"s_lock", "s_join"} \/ \E t \in Turns : thread[t].pc \in {"write", "pop"}

PendingOK(h) ==
    \A s \in Sessions :
        /\ pending[s] # Nothing => s = SessionOf(h) /\ pending[s] \in confirmed \cup {answering[h]}
        /\ pending[s] \in confirmed => About(h)

LoneOK(h) == CallerOK(h) /\ QuietOK(h) /\ ThreadsOK /\ CreditsOK /\ PendingOK(h)

LonersOK == Orderly => \A h \in setting.hosts : LoneOK(h)

IInv == TypeOK /\ BudgetOK /\ OrderOK /\ FlushOK /\ PlacesOK /\ HostsOK /\ LonersOK

-----------------------------------------------------------------------------
(* Types, and the numbers of threads and recalls.                            *)

LEMMA Constants == TypeOK => MaxCalls \in Nat /\ setting.bound \in 0 .. MaxCalls
BY TurnsAssumption DEF TypeOK, Setting

LEMMA InCallFinite == IsFiniteSet(InCall) /\ Cardinality(InCall) \in Nat
<1> InCall \in SUBSET Hosts
  BY DEF InCall
<1> QED BY TurnsAssumption, FS_Subset, FS_CardinalityType

LEMMA CallBegins ==
    ASSUME TypeOK, BudgetOK, NEW h \in Hosts, caller[h].pc = "idle", caller'[h].pc # "idle",
           \A q \in Hosts \ {h} : caller'[q].pc = caller[q].pc,
           calls' = calls + 1, UNCHANGED <<turns, recalls>>
    PROVE  BudgetOK'
<1>1. InCall' = InCall \cup {h} /\ h \notin InCall
  BY DEF InCall
<1>2. Cardinality(InCall') = Cardinality(InCall) + 1
  BY <1>1, InCallFinite, FS_AddElement
<1> QED BY <1>2, InCallFinite DEF TypeOK, BudgetOK

LEMMA CallGoesOn ==
    ASSUME TypeOK, BudgetOK, \A q \in Hosts : caller'[q].pc = "idle" <=> caller[q].pc = "idle",
           UNCHANGED <<calls, turns, recalls>>
    PROVE  BudgetOK'
<1> InCall' = InCall
  BY DEF InCall
<1> QED BY DEF BudgetOK

LEMMA CallReturns ==
    ASSUME TypeOK, BudgetOK, NEW h \in Hosts, caller[h].pc # "idle", caller'[h].pc = "idle",
           \A q \in Hosts \ {h} : caller'[q].pc = caller[q].pc, calls' = calls,
           \/ turns' = turns /\ recalls' = recalls
           \/ turns' = turns + 1 /\ recalls' = recalls
           \/ turns' = turns /\ recalls' = recalls + 1
    PROVE  BudgetOK'
<1>1. InCall' = InCall \ {h} /\ h \in InCall
  BY DEF InCall
<1>2. Cardinality(InCall') = Cardinality(InCall) - 1
  BY <1>1, InCallFinite, FS_RemoveElement
<1> QED BY <1>2, InCallFinite DEF TypeOK, BudgetOK

(* What a step adds to the histories, the ledger and a thread is of its type. *)
LEMMA ConfirmedType ==
    ASSUME TypeOK, NEW h \in Hosts, confirmed' = confirmed \cup ({answering[h]} \ {Nothing})
    PROVE  confirmed' \subseteq Recalls
<1>1. answering[h] \in 0 .. MaxCalls /\ confirmed \subseteq Recalls
  BY DEF TypeOK
<1>2. answering[h] # Nothing => answering[h] \in Recalls
  BY <1>1, Constants DEF Recalls, Nothing
<1> QED BY <1>1, <1>2

LEMMA CreditType ==
    ASSUME TypeOK, NEW r, Credit(r)
    PROVE  credits' \in [Recalls -> Nat]
<1>1. credits \in [Recalls -> Nat]
  BY DEF TypeOK
<1>2. CASE r \in Recalls
  <2>1. credits[r] + 1 \in Nat
    BY <1>1, <1>2
  <2> QED BY <1>1, <2>1 DEF Credit
<1>3. CASE r \notin Recalls
  BY <1>1, <1>3 DEF Credit
<1> QED BY <1>2, <1>3

LEMMA PopType ==
    ASSUME TypeOK, NEW s, PopUsed(s)
    PROVE  pending' \in [Sessions -> 0 .. MaxCalls]
<1>1. pending \in [Sessions -> 0 .. MaxCalls] /\ 0 \in 0 .. MaxCalls
  BY Constants DEF TypeOK
<1> QED BY <1>1 DEF PopUsed, Nothing

LEMMA WorkType ==
    ASSUME NEW w \in Work, NEW pc \in {"pop", "mark", "done"}, NEW popped \in 0 .. MaxCalls
    PROVE  /\ [w EXCEPT !.pc = pc, !.popped = popped] \in Work
           /\ [w EXCEPT !.pc = pc, !.popped = popped].session = w.session
BY DEF Work

(* A call in progress has its thread or its recall still to spend.           *)
LEMMA OneToSpend ==
    ASSUME TypeOK, BudgetOK, NEW h \in Hosts, caller[h].pc # "idle"
    PROVE  turns + recalls + 1 <= MaxCalls
<1>1. h \in InCall
  BY DEF InCall
<1>2. Cardinality(InCall) # 0
  BY <1>1, InCallFinite, FS_EmptySet
<1> QED BY <1>2, InCallFinite, Constants DEF TypeOK, BudgetOK

LEMMA TypeStep == TypeOK /\ BudgetOK /\ [Next]_vars => TypeOK' /\ BudgetOK'
<1> SUFFICES ASSUME TypeOK, BudgetOK, [Next]_vars PROVE TypeOK' /\ BudgetOK'
  OBVIOUS
<1> USE Constants
<1>1. ASSUME NEW h \in Hosts, BeginPrefetch(h) PROVE TypeOK' /\ BudgetOK'
  <2>1. TypeOK'
    BY <1>1 DEF BeginPrefetch, MayCall, TypeOK, Call, Places, WithSession, Begun, Nothing
  <2> QED BY <1>1, <2>1, CallBegins DEF BeginPrefetch, MayCall, TypeOK
<1>2. ASSUME NEW h \in Hosts, PrefetchFlushed(h) PROVE TypeOK' /\ BudgetOK'
  <2>1. TypeOK'
    BY <1>2 DEF PrefetchFlushed, Goto, TypeOK, Call, Places, WithSession, Begun
  <2> QED BY <1>2, <2>1, CallGoesOn DEF PrefetchFlushed, Goto, TypeOK
<1>3. ASSUME NEW h \in Hosts, RecallFound(h) PROVE TypeOK' /\ BudgetOK'
  <2>1. recalls + 1 \in 0 .. MaxCalls
    BY <1>3, OneToSpend DEF RecallFound, TypeOK
  <2>2. TypeOK'
    BY <1>3, <2>1 DEF RecallFound, Return, Idle, Nothing, TypeOK, Call, Places, WithSession, Begun
  <2> QED BY <1>3, <2>2, CallReturns DEF RecallFound, Return, Idle, TypeOK
<1>4. ASSUME NEW h \in Hosts, RecallEmpty(h) PROVE TypeOK' /\ BudgetOK'
  <2>1. TypeOK'
    BY <1>4 DEF RecallEmpty, Return, Idle, Nothing, TypeOK, Call, Places, WithSession, Begun
  <2> QED BY <1>4, <2>1, CallReturns DEF RecallEmpty, Return, Idle, TypeOK
<1>5. ASSUME NEW h \in Hosts, BeginUsed(h) PROVE TypeOK' /\ BudgetOK'
  <2>1. confirmed' \subseteq Recalls
    BY <1>5, ConfirmedType DEF BeginUsed
  <2>2. caller' \in [Hosts -> Call] /\ pending' \in [Sessions -> 0 .. MaxCalls]
    BY <1>5 DEF BeginUsed, PopUsed, TypeOK, Call, Places, Nothing
  <2>3. TypeOK'
    BY <1>5, <2>1, <2>2 DEF BeginUsed, MayCall, TypeOK, WithSession, Begun
  <2> QED BY <1>5, <2>3, CallBegins DEF BeginUsed, MayCall, TypeOK
<1>6. ASSUME NEW h \in Hosts, UsedMatched(h) PROVE TypeOK' /\ BudgetOK'
  <2>1. credits' \in [Recalls -> Nat]
    BY <1>6, CreditType DEF UsedMatched, TypeOK
  <2>2. TypeOK'
    BY <1>6, <2>1 DEF UsedMatched, Return, Idle, Nothing, TypeOK, Call, Places, WithSession, Begun
  <2> QED BY <1>6, <2>2, CallReturns DEF UsedMatched, Return, Idle, TypeOK
<1>7. ASSUME NEW h \in Hosts, BeginSync(h) PROVE TypeOK' /\ BudgetOK'
  <2>1. confirmed' \subseteq Recalls
    BY <1>7, ConfirmedType DEF BeginSync
  <2>2. caller' \in [Hosts -> Call] /\ answering' \in [Hosts -> 0 .. MaxCalls]
    BY <1>7 DEF BeginSync, TypeOK, Call, Places, Nothing
  <2>3. TypeOK'
    BY <1>7, <2>1, <2>2 DEF BeginSync, MayCall, TypeOK, WithSession, Begun
  <2> QED BY <1>7, <2>3, CallBegins DEF BeginSync, MayCall, TypeOK
<1>8. ASSUME NEW h \in Hosts, SyncLocked(h) PROVE TypeOK' /\ BudgetOK'
  <2>1. TypeOK'
    BY <1>8 DEF SyncLocked, TypeOK, Call, Places, WithSession, Begun
  <2> QED BY <1>8, <2>1, CallGoesOn DEF SyncLocked, TypeOK
<1>9. ASSUME NEW h \in Hosts, SyncStart(h) PROVE TypeOK' /\ BudgetOK'
  <2>1. turns + 1 \in 1 .. MaxCalls
    BY <1>9, OneToSpend DEF SyncStart, TypeOK
  <2>2. thread' \in [Turns -> Work] /\ \A t \in Turns : Begun(t)' => thread'[t].session \in Sessions
    BY <1>9, <2>1 DEF SyncStart, TypeOK, Work, WithSession, Begun, Nothing, Turns
  <2>3. TypeOK'
    BY <1>9, <2>1, <2>2 DEF SyncStart, Return, Idle, Nothing, TypeOK, Call, Places, WithSession
  <2> QED BY <1>9, <2>3, CallReturns DEF SyncStart, Return, Idle, TypeOK
<1>10. ASSUME NEW t \in Turns, ThreadStep(t) PROVE TypeOK' /\ BudgetOK'
  <2>1. CASE ThreadWritten(t)
    BY <2>1, CallGoesOn DEF ThreadWritten, TypeOK, Work, Begun
  <2>2. CASE ThreadPop(t)
    <3>1. thread[t].session \in Sessions /\ pending[thread[t].session] \in 0 .. MaxCalls
      BY <2>2 DEF ThreadPop, TypeOK, Begun
    <3>2. PICK pc \in {"mark", "done"} :
             thread' = [thread EXCEPT ![t] = [@ EXCEPT !.pc = pc, !.popped = pending[thread[t].session]]]
      BY <2>2 DEF ThreadPop
    <3>3. /\ thread' \in [Turns -> Work]
          /\ \A u \in Turns : Begun(u)' => thread'[u].session \in Sessions
      <4>1. thread \in [Turns -> Work] /\ thread[t] \in Work
        BY DEF TypeOK
      <4>2. thread' \in [Turns -> Work] /\ thread'[t].session = thread[t].session
        <5> DEFINE w == [thread[t] EXCEPT !.pc = pc, !.popped = pending[thread[t].session]]
        <5>1. w \in Work /\ w.session = thread[t].session
          BY <3>1, <4>1, WorkType
        <5>2. thread' = [thread EXCEPT ![t] = w]
          BY <3>2
        <5> HIDE DEF w
        <5> QED BY <4>1, <5>1, <5>2
      <4> QED BY <2>2, <3>1, <3>2, <4>1, <4>2 DEF TypeOK, Begun
    <3>4. pending' \in [Sessions -> 0 .. MaxCalls]
      BY <2>2, PopType DEF ThreadPop
    <3>5. TypeOK'
      BY <2>2, <3>3, <3>4 DEF ThreadPop, TypeOK
    <3> QED BY <2>2, <3>5, CallGoesOn DEF ThreadPop
  <2>3. CASE ThreadMark(t)
    <3>1. credits' \in [Recalls -> Nat]
      BY <2>3, CreditType DEF ThreadMark
    <3>2. /\ thread' \in [Turns -> Work]
          /\ \A u \in Turns : Begun(u)' => thread'[u].session \in Sessions
      BY <2>3 DEF ThreadMark, TypeOK, Work, Begun
    <3>3. TypeOK'
      BY <2>3, <3>1, <3>2 DEF ThreadMark, TypeOK
    <3> QED BY <2>3, <3>3, CallGoesOn DEF ThreadMark
  <2> QED BY <1>10, <2>1, <2>2, <2>3 DEF ThreadStep
<1>11. ASSUME NEW h \in Hosts, BeginSwitch(h) \/ BeginEnd(h) \/ BeginShutdown(h)
       PROVE  TypeOK' /\ BudgetOK'
  <2>1. TypeOK'
    BY <1>11 DEF BeginSwitch, BeginEnd, BeginShutdown, MayCall, TypeOK, Call, Places, WithSession,
                 Begun
  <2>2. /\ caller[h].pc = "idle" /\ caller'[h].pc # "idle"
        /\ \A q \in Hosts \ {h} : caller'[q].pc = caller[q].pc
        /\ calls' = calls + 1 /\ UNCHANGED <<turns, recalls>>
    <3>1. caller \in [Hosts -> Call]
      BY DEF TypeOK
    <3>2. CASE BeginSwitch(h)
      BY <3>1, <3>2 DEF BeginSwitch, MayCall
    <3>3. CASE BeginEnd(h)
      BY <3>1, <3>3 DEF BeginEnd, MayCall, Call
    <3>4. CASE BeginShutdown(h)
      BY <3>1, <3>4 DEF BeginShutdown, MayCall, Call
    <3> QED BY <1>11, <3>2, <3>3, <3>4
  <2> QED BY <2>1, <2>2, CallBegins
<1>12. ASSUME NEW h \in Hosts, SwitchRotate(h) PROVE TypeOK' /\ BudgetOK'
  <2>1. TypeOK'
    BY <1>12 DEF SwitchRotate, Goto, TypeOK, Call, Places, WithSession, Begun
  <2> QED BY <1>12, <2>1, CallGoesOn DEF SwitchRotate, Goto, TypeOK
<1>13. ASSUME NEW h \in Hosts, SwitchDrop(h) PROVE TypeOK' /\ BudgetOK'
  <2>1. pending' \in [Sessions -> 0 .. MaxCalls]
    BY <1>13 DEF SwitchDrop, PopUsed, TypeOK, Nothing
  <2>2. TypeOK'
    BY <1>13, <2>1 DEF SwitchDrop, Return, Idle, Nothing, TypeOK, Call, Places, WithSession, Begun
  <2> QED BY <1>13, <2>2, CallReturns DEF SwitchDrop, Return, Idle, TypeOK
<1>14. ASSUME NEW h \in Hosts, EndLocked(h) \/ EndJoined(h) PROVE TypeOK' /\ BudgetOK'
  <2>1. TypeOK'
    BY <1>14 DEF EndLocked, EndJoined, Goto, TypeOK, Call, Places, WithSession, Begun
  <2>2. /\ \A q \in Hosts : caller'[q].pc = "idle" <=> caller[q].pc = "idle"
        /\ UNCHANGED <<calls, turns, recalls>>
    <3>1. caller \in [Hosts -> Call]
      BY DEF TypeOK
    <3>2. CASE EndLocked(h)
      BY <3>1, <3>2 DEF EndLocked, Call
    <3>3. CASE EndJoined(h)
      BY <3>1, <3>3 DEF EndJoined, Goto, Call
    <3> QED BY <1>14, <3>2, <3>3
  <2> QED BY <2>1, <2>2, CallGoesOn
<1>15. ASSUME NEW h \in Hosts, EndClear(h) \/ ShutdownClear(h) PROVE TypeOK' /\ BudgetOK'
  <2>1. TypeOK'
    BY <1>15 DEF EndClear, ShutdownClear, Return, Idle, Nothing, TypeOK, Call, Places, WithSession,
                 Begun
  <2> QED BY <1>15, <2>1, CallReturns DEF EndClear, ShutdownClear, Return, Idle, TypeOK
<1>16. CASE UNCHANGED vars
  BY <1>16, CallGoesOn DEF vars, TypeOK, Begun
<1> QED BY <1>1, <1>2, <1>3, <1>4, <1>5, <1>6, <1>7, <1>8, <1>9, <1>10, <1>11, <1>12, <1>13,
           <1>14, <1>15, <1>16 DEF Next, BeginCall, ContinueCall, Finished

-----------------------------------------------------------------------------
(* The turns.                                                                *)

LEMMA Joined ==
    ASSUME TypeOK, OrderOK, ~setting.slow, JoinOver(turns)
    PROVE  AllDone
<1> SUFFICES ASSUME NEW t \in Turns, Begun(t) PROVE thread[t].pc = "done"
  BY DEF AllDone
<1>1. t <= turns /\ t \in Nat /\ t # 0 /\ turns \in Nat
  BY Constants DEF OrderOK, TypeOK, Turns
<1>2. CASE t < turns
  BY <1>2 DEF OrderOK
<1>3. CASE t = turns
  BY <1>1, <1>3 DEF JoinOver, Alive, Nothing
<1> QED BY <1>1, <1>2, <1>3

(* A step of a call that neither starts a thread nor ends the barrier, and    *)
(* leaves the lock with who is between SyncLocked and SyncStart, or between   *)
(* EndLocked and EndClear.                                                   *)
LEMMA OrderKept ==
    ASSUME TypeOK, OrderOK, UNCHANGED <<setting, syncThread, thread, turns, lock>>,
           NEW h \in Hosts, \A q \in Hosts \ {h} : caller'[q] = caller[q],
           caller[h].pc \notin Holding, caller'[h].pc \notin Holding
    PROVE  OrderOK'
BY DEF OrderOK, AllDone, Begun, Holding

LEMMA OrderStep == TypeOK /\ BudgetOK /\ OrderOK /\ [Next]_vars => OrderOK'
<1> SUFFICES ASSUME TypeOK, BudgetOK, OrderOK, [Next]_vars PROVE OrderOK'
  OBVIOUS
<1>c. caller \in [Hosts -> Call] /\ thread \in [Turns -> Work]
  BY DEF TypeOK
<1>1. ASSUME NEW h \in Hosts, BeginCall(h) PROVE OrderOK'
  <2>1. /\ UNCHANGED <<setting, syncThread, thread, turns, lock>> /\ caller[h].pc = "idle"
        /\ \A q \in Hosts \ {h} : caller'[q] = caller[q]
        /\ caller'[h].pc \notin Holding
    BY <1>1, <1>c DEF BeginCall, BeginPrefetch, BeginUsed, BeginSync, BeginSwitch, BeginEnd,
                      BeginShutdown, MayCall, Holding, Call
  <2> QED BY <2>1, OrderKept DEF Holding
<1>2. ASSUME NEW h \in Hosts, PrefetchFlushed(h) \/ SwitchRotate(h) PROVE OrderOK'
  BY <1>2, <1>c, OrderKept DEF PrefetchFlushed, SwitchRotate, Goto, Holding, Call
<1>3. ASSUME NEW h \in Hosts,
             RecallFound(h) \/ RecallEmpty(h) \/ UsedMatched(h) \/ SwitchDrop(h) \/ ShutdownClear(h)
      PROVE  OrderOK'
  BY <1>3, <1>c, OrderKept DEF RecallFound, RecallEmpty, UsedMatched, SwitchDrop, ShutdownClear,
                               Return, Idle, Holding
<1>4. ASSUME NEW h \in Hosts, SyncLocked(h) \/ EndLocked(h) PROVE OrderOK'
  <2>1. /\ lock = Free /\ lock' = h /\ UNCHANGED <<setting, syncThread, thread, turns>>
        /\ caller'[h].pc \in {"s_join", "e_join"} /\ caller'[h].on = syncThread
        /\ \A q \in Hosts \ {h} : caller'[q] = caller[q]
    BY <1>4, <1>c DEF SyncLocked, EndLocked, Call
  <2>2. \A q \in Hosts : caller[q].pc \notin Holding
    BY <2>1, TurnsAssumption DEF OrderOK
  <2> QED BY <2>1, <2>2 DEF OrderOK, AllDone, Begun, Holding
<1>5. ASSUME NEW h \in Hosts, SyncStart(h) PROVE OrderOK'
  <2>1. lock = h /\ caller[h].on = turns /\ JoinOver(turns)
    BY <1>5 DEF SyncStart, OrderOK, Holding
  <2>2. \A q \in Hosts \ {h} : caller[q].pc \notin Holding /\ caller'[q] = caller[q]
    BY <1>5, <1>c, <2>1 DEF SyncStart, Return, OrderOK
  <2>3. /\ caller'[h].pc \notin Holding /\ lock' = Free /\ syncThread' = turns'
        /\ setting' = setting
    BY <1>5, <1>c DEF SyncStart, Return, Idle, Holding
  <2>4. turns' = turns + 1 /\ turns' \in Turns /\ turns \in Nat
    BY <1>5, OneToSpend, Constants DEF SyncStart, TypeOK, Turns
  <2>5. /\ thread'[turns'].pc = "write"
        /\ \A t \in Turns : t # turns' => thread'[t] = thread[t]
    BY <1>5, <1>c, <2>4 DEF SyncStart
  <2>6. \A t \in Turns : Begun(t)' <=> t <= turns'
    BY <2>4, <2>5 DEF OrderOK, Begun, Turns
  <2>7. ~setting.slow => \A t \in Turns : t < turns' => thread'[t].pc = "done"
    BY <2>1, <2>4, <2>5, Joined DEF OrderOK, AllDone, Turns
  <2>8. \A q \in Hosts : caller'[q].pc \notin Holding
    BY <2>2, <2>3
  <2>9. Free \notin Hosts
    BY TurnsAssumption
  <2> QED BY <2>3, <2>6, <2>7, <2>8, <2>9 DEF OrderOK, Holding
<1>6. ASSUME NEW h \in Hosts, EndJoined(h) PROVE OrderOK'
  <2>1. /\ caller[h].pc = "e_join" /\ JoinOver(caller[h].on) /\ caller'[h].pc = "e_summary"
        /\ \A q \in Hosts \ {h} : caller'[q] = caller[q]
        /\ UNCHANGED <<setting, syncThread, thread, turns, lock>>
    BY <1>6, <1>c DEF EndJoined, Goto, Call
  <2>2. ~setting.slow => AllDone
    BY <2>1, Joined DEF OrderOK
  <2> QED BY <2>1, <2>2 DEF OrderOK, AllDone, Begun, Holding
<1>7. ASSUME NEW h \in Hosts, EndClear(h) PROVE OrderOK'
  <2>1. lock = h /\ lock' = Free /\ UNCHANGED <<setting, syncThread, thread, turns>>
    BY <1>7 DEF EndClear, OrderOK, Holding
  <2>2. caller'[h].pc = "idle" /\ \A q \in Hosts \ {h} : caller'[q] = caller[q]
    BY <1>7, <1>c DEF EndClear, Return, Idle
  <2>3. \A q \in Hosts : caller'[q].pc \notin Holding
    BY <2>1, <2>2 DEF OrderOK, Holding
  <2> QED BY <2>1, <2>3, TurnsAssumption DEF OrderOK, Begun, Holding
<1>8. ASSUME NEW t \in Turns, ThreadStep(t) PROVE OrderOK'
  <2>1. /\ thread[t].pc \in {"write", "pop", "mark"} /\ thread'[t].pc # "none"
        /\ \A u \in Turns \ {t} : thread'[u] = thread[u]
        /\ UNCHANGED <<setting, syncThread, turns, lock, caller>>
    BY <1>8, <1>c DEF ThreadStep, ThreadWritten, ThreadPop, ThreadMark, Work
  <2>2. \A u \in Turns : /\ Begun(u)' <=> Begun(u)
                         /\ thread[u].pc = "done" => thread'[u].pc = "done"
    BY <2>1 DEF Begun
  <2> QED BY <2>1, <2>2 DEF OrderOK, AllDone
<1>9. CASE UNCHANGED vars
  BY <1>9 DEF vars, OrderOK, AllDone, Begun
<1> QED BY <1>1, <1>2, <1>3, <1>4, <1>5, <1>6, <1>7, <1>8, <1>9
        DEF Next, ContinueCall, Finished

LEMMA FlushStep == TypeOK /\ BudgetOK /\ OrderOK /\ FlushOK /\ [Next]_vars => FlushOK'
<1> SUFFICES ASSUME TypeOK, BudgetOK, OrderOK, FlushOK, [Next]_vars PROVE FlushOK'
  OBVIOUS
<1>c. /\ caller \in [Hosts -> Call] /\ thread \in [Turns -> Work]
      /\ turns \in Nat /\ \A h \in Hosts : caller[h].on \in Nat
  BY Constants DEF TypeOK, Call
<1> DEFINE At(h) == caller'[h].pc \in {"p_flush", "p_recall"}
           Kept(h) == caller'[h].pc = caller[h].pc /\ caller'[h].on = caller[h].on
           StillDone == \A t \in Turns : t <= turns /\ thread[t].pc = "done" => thread'[t].pc = "done"
<1>0. ASSUME turns' = turns \/ turns' = turns + 1, setting' = setting, StillDone,
             \A h \in Hosts : At(h) => Kept(h)
      PROVE  FlushOK'
  BY <1>0, <1>c DEF FlushOK, Turns
<1>1. ASSUME NEW h \in Hosts, BeginPrefetch(h) PROVE FlushOK'
  <2>1. /\ caller'[h].pc = "p_flush" /\ caller'[h].on = turns
        /\ \A q \in Hosts \ {h} : caller'[q] = caller[q]
        /\ UNCHANGED <<setting, thread, turns>>
    BY <1>1, <1>c DEF BeginPrefetch, OrderOK
  <2> QED BY <2>1, <1>c DEF FlushOK
<1>2. ASSUME NEW h \in Hosts, PrefetchFlushed(h) PROVE FlushOK'
  <2>1. /\ caller[h].pc = "p_flush" /\ JoinOver(caller[h].on) /\ caller'[h].on = caller[h].on
        /\ \A q \in Hosts \ {h} : caller'[q] = caller[q]
        /\ UNCHANGED <<setting, thread, turns>>
    BY <1>2, <1>c DEF PrefetchFlushed, Goto, Call
  <2>2. caller[h].on <= turns
    BY <2>1 DEF FlushOK
  <2>3. ASSUME ~setting.slow, NEW t \in Turns, t <= caller[h].on PROVE thread[t].pc = "done"
    <3>1. t \in Nat /\ t # 0
      BY Constants DEF Turns
    <3>2. CASE t < turns
      BY <2>3, <3>2 DEF OrderOK
    <3>3. CASE t = caller[h].on
      BY <2>1, <2>3, <3>1, <3>3 DEF JoinOver, Alive, Nothing
    <3> QED BY <1>c, <2>2, <2>3, <3>1, <3>2, <3>3
  <2> QED BY <1>c, <2>1, <2>2, <2>3 DEF FlushOK
<1>3. ASSUME NEW h \in Hosts,
             BeginUsed(h) \/ BeginSync(h) \/ BeginSwitch(h) \/ BeginEnd(h) \/ BeginShutdown(h)
      PROVE  FlushOK'
  <2>1. /\ caller'[h].pc \notin {"p_flush", "p_recall"} /\ \A q \in Hosts \ {h} : caller'[q] = caller[q]
        /\ UNCHANGED <<setting, thread, turns>>
    BY <1>3, <1>c DEF BeginUsed, BeginSync, BeginSwitch, BeginEnd, BeginShutdown, MayCall, Call
  <2> QED BY <2>1, <1>0
<1>4. ASSUME NEW h \in Hosts,
             SyncLocked(h) \/ EndLocked(h) \/ EndJoined(h) \/ SwitchRotate(h)
      PROVE  FlushOK'
  <2>1. /\ caller'[h].pc \notin {"p_flush", "p_recall"} /\ \A q \in Hosts \ {h} : caller'[q] = caller[q]
        /\ UNCHANGED <<setting, thread, turns>>
    BY <1>4, <1>c DEF SyncLocked, EndLocked, EndJoined, SwitchRotate, Goto, Call
  <2> QED BY <2>1, <1>0
<1>5. ASSUME NEW h \in Hosts,
             \/ RecallFound(h) \/ RecallEmpty(h) \/ UsedMatched(h) \/ SwitchDrop(h)
             \/ EndClear(h) \/ ShutdownClear(h)
      PROVE  FlushOK'
  <2>1. /\ caller'[h].pc \notin {"p_flush", "p_recall"} /\ \A q \in Hosts \ {h} : caller'[q] = caller[q]
        /\ UNCHANGED <<setting, thread, turns>>
    BY <1>5, <1>c DEF RecallFound, RecallEmpty, UsedMatched, SwitchDrop, EndClear, ShutdownClear,
                      Return, Idle
  <2> QED BY <2>1, <1>0
<1>6. ASSUME NEW h \in Hosts, SyncStart(h) PROVE FlushOK'
  <2>1. /\ caller'[h].pc = "idle" /\ \A q \in Hosts \ {h} : caller'[q] = caller[q]
        /\ setting' = setting /\ turns' = turns + 1
    BY <1>6, <1>c DEF SyncStart, Return, Idle
  <2>2. \A t \in Turns : t # turns' => thread'[t] = thread[t]
    BY <1>6, <1>c DEF SyncStart
  <2>3. StillDone
    BY <2>1, <2>2, <1>c DEF Turns
  <2> QED BY <2>1, <2>3, <1>0
<1>7. ASSUME NEW t \in Turns, ThreadStep(t) PROVE FlushOK'
  <2>1. /\ thread[t].pc # "done" /\ \A u \in Turns \ {t} : thread'[u] = thread[u]
        /\ UNCHANGED <<setting, turns, caller>>
    BY <1>7, <1>c DEF ThreadStep, ThreadWritten, ThreadPop, ThreadMark
  <2> QED BY <2>1, <1>0
<1>8. CASE UNCHANGED vars
  BY <1>8, <1>0 DEF vars
<1> QED BY <1>1, <1>2, <1>3, <1>4, <1>5, <1>6, <1>7, <1>8
        DEF Next, BeginCall, ContinueCall, Finished

-----------------------------------------------------------------------------
(* The crediting.                                                            *)

(* Nobody claims a recall who did not before.                                *)
LEMMA FewerClaims ==
    ASSUME PlacesOK, UNCHANGED <<credits, recalls>>,
           \A r \in Recalls :
               /\ \A s \in Sessions : pending'[s] = r => pending[s] = r
               /\ \A h \in Hosts : Matching(h, r)' => Matching(h, r)
               /\ \A t \in Turns : Marking(t, r)' => Marking(t, r)
    PROVE  PlacesOK'
BY DEF PlacesOK, OnePlace, Open

(* The one who claims r, and no longer does, has credited it.                *)
LEMMA Credited ==
    ASSUME TypeOK, PlacesOK, NEW r \in Recalls, Credit(r), Open(r), UNCHANGED recalls,
           \A q \in Recalls :
               /\ \A s \in Sessions : pending'[s] = q => pending[s] = q /\ q # r
               /\ \A h \in Hosts : Matching(h, q)' => Matching(h, q) /\ q # r
               /\ \A t \in Turns : Marking(t, q)' => Marking(t, q) /\ q # r
    PROVE  PlacesOK'
<1>1. credits'[r] = 1 /\ \A q \in Recalls \ {r} : credits'[q] = credits[q]
  BY DEF Credit, Open, TypeOK
<1>2. OnePlace(r)' /\ r <= recalls'
  BY DEF OnePlace, Open
<1>3. ASSUME NEW q \in Recalls \ {r}
      PROVE  OnePlace(q)' /\ credits'[q] <= 1 /\ (credits'[q] > 0 => q <= recalls')
  BY <1>1 DEF PlacesOK, OnePlace, Open
<1> QED BY <1>1, <1>2, <1>3 DEF PlacesOK

LEMMA PlacesStep == TypeOK /\ BudgetOK /\ PlacesOK /\ [Next]_vars => PlacesOK'
<1> SUFFICES ASSUME TypeOK, BudgetOK, PlacesOK, [Next]_vars PROVE PlacesOK'
  OBVIOUS
<1>c. /\ caller \in [Hosts -> Call] /\ thread \in [Turns -> Work]
      /\ pending \in [Sessions -> 0 .. MaxCalls] /\ credits \in [Recalls -> Nat]
      /\ Nothing \notin Recalls
  BY DEF TypeOK, Nothing, Recalls
<1> DEFINE NotMatching(h) == caller'[h].pc # "u_match" /\ \A q \in Hosts \ {h} : caller'[q] = caller[q]
<1>0. ASSUME NEW h \in Hosts, NotMatching(h), UNCHANGED <<thread, credits, recalls>>,
             \A s \in Sessions : pending'[s] \in {pending[s], Nothing}
      PROVE  PlacesOK'
  BY <1>0, <1>c, FewerClaims DEF Matching, Marking
<1>1. ASSUME NEW h \in Hosts,
             BeginPrefetch(h) \/ BeginSync(h) \/ BeginSwitch(h) \/ BeginEnd(h) \/ BeginShutdown(h)
      PROVE  PlacesOK'
  <2>1. NotMatching(h) /\ UNCHANGED <<thread, credits, recalls, pending>>
    BY <1>1, <1>c DEF BeginPrefetch, BeginSync, BeginSwitch, BeginEnd, BeginShutdown, Call
  <2> QED BY <2>1, <1>0
<1>2. ASSUME NEW h \in Hosts,
             \/ PrefetchFlushed(h) \/ SyncLocked(h) \/ SwitchRotate(h) \/ EndLocked(h)
             \/ EndJoined(h) \/ RecallEmpty(h)
      PROVE  PlacesOK'
  <2>1. NotMatching(h) /\ UNCHANGED <<thread, credits, recalls, pending>>
    BY <1>2, <1>c DEF PrefetchFlushed, SyncLocked, SwitchRotate, EndLocked, EndJoined, RecallEmpty,
                      Goto, Return, Idle, Call
  <2> QED BY <2>1, <1>0
<1>3. ASSUME NEW h \in Hosts, SwitchDrop(h) \/ EndClear(h) \/ ShutdownClear(h) PROVE PlacesOK'
  <2>1. NotMatching(h) /\ UNCHANGED <<thread, credits, recalls>>
    BY <1>3, <1>c DEF SwitchDrop, EndClear, ShutdownClear, Return, Idle
  <2>2. \A s \in Sessions : pending'[s] \in {pending[s], Nothing}
    BY <1>3, <1>c DEF SwitchDrop, EndClear, ShutdownClear, PopUsed
  <2> QED BY <2>1, <2>2, <1>0
<1>4. ASSUME NEW h \in Hosts, RecallFound(h) PROVE PlacesOK'
  <2>1. PICK n : n = recalls + 1
    OBVIOUS
  <2>2. /\ NotMatching(h) /\ UNCHANGED <<thread, credits>> /\ recalls' = n
        /\ \A s \in Sessions : pending'[s] = IF s = caller[h].session THEN n ELSE pending[s]
    BY <1>4, <1>c, <2>1 DEF RecallFound, Return, Idle
  <2>3. n \in Recalls /\ n <= n /\ ~(n <= recalls) /\ \A r \in Recalls : r <= recalls => r <= n
    <3>1. recalls \in Nat /\ turns \in Nat /\ MaxCalls \in Nat
      BY Constants DEF TypeOK
    <3>2. turns + recalls + 1 <= MaxCalls
      BY <1>4, OneToSpend DEF RecallFound
    <3>3. n \in Nat /\ 1 <= n /\ n <= MaxCalls
      BY <2>1, <3>1, <3>2
    <3> QED BY <2>1, <3>1, <3>3 DEF Recalls
  <2>4. credits[n] = 0 /\ OnePlace(n)
    BY <1>c, <2>3 DEF PlacesOK
  <2>5. /\ \A s \in Sessions : pending[s] # n
        /\ \A q \in Hosts : ~Matching(q, n)
        /\ \A t \in Turns : ~Marking(t, n)
    BY <2>3, <2>4 DEF OnePlace, Open
  <2>6. OnePlace(n)'
    <3>1. Open(n)'
      BY <2>2, <2>3, <2>4 DEF Open
    <3>2. /\ \A q \in Hosts : ~Matching(q, n)'
          /\ \A t \in Turns : ~Marking(t, n)'
      BY <2>2, <2>5 DEF Matching, Marking
    <3>3. \A s \in Sessions : pending'[s] = n => s = caller[h].session
      BY <2>2, <2>5
    <3> QED BY <3>1, <3>2, <3>3 DEF OnePlace
  <2>7. ASSUME NEW r \in Recalls, r # n PROVE OnePlace(r)'
    <3>1. \A s \in Sessions : pending'[s] = r => pending[s] = r
      BY <2>2, <2>7
    <3>2. \A q \in Hosts : Matching(q, r)' => Matching(q, r)
      BY <2>2 DEF Matching
    <3>3. \A t \in Turns : Marking(t, r)' => Marking(t, r)
      BY <2>2 DEF Marking
    <3>4. Open(r) => Open(r)'
      BY <2>2, <2>3 DEF Open
    <3>5. OnePlace(r)
      BY DEF PlacesOK
    <3> QED BY <3>1, <3>2, <3>3, <3>4, <3>5 DEF OnePlace
  <2>8. \A r \in Recalls : credits'[r] <= 1 /\ (credits'[r] > 0 => r <= recalls')
    BY <2>2, <2>3 DEF PlacesOK
  <2> QED BY <2>6, <2>7, <2>8 DEF PlacesOK
<1>5. ASSUME NEW h \in Hosts, BeginUsed(h) PROVE PlacesOK'
  <2>1. /\ caller'[h].pc = "u_match" /\ caller'[h].on = pending[sessionId]
        /\ \A q \in Hosts \ {h} : caller'[q] = caller[q]
        /\ UNCHANGED <<thread, credits, recalls>>
        /\ pending'[sessionId] = Nothing
        /\ \A s \in Sessions \ {sessionId} : pending'[s] = pending[s]
        /\ sessionId \in Sessions
    BY <1>5, <1>c DEF BeginUsed, PopUsed, TypeOK
  <2>2. ASSUME NEW r \in Recalls PROVE OnePlace(r)'
    <3>1. CASE r = pending[sessionId]
      <4>1. /\ Open(r) /\ \A z \in Sessions : pending[z] = r => z = sessionId
            /\ \A q \in Hosts : ~Matching(q, r)
            /\ \A t \in Turns : ~Marking(t, r)
        BY <2>1, <3>1 DEF PlacesOK, OnePlace
      <4>2. \A s \in Sessions : pending'[s] # r
        BY <1>c, <2>1, <4>1
      <4>3. Open(r)' /\ \A t \in Turns : ~Marking(t, r)'
        BY <2>1, <4>1 DEF Open, Marking
      <4>4. \A q \in Hosts : Matching(q, r)' => q = h
        BY <2>1, <4>1 DEF Matching
      <4> QED BY <4>2, <4>3, <4>4 DEF OnePlace
    <3>2. CASE r # pending[sessionId]
      <4>1. \A s \in Sessions : pending'[s] = r => pending[s] = r
        BY <1>c, <2>1
      <4>2. \A q \in Hosts : Matching(q, r)' => Matching(q, r)
        BY <2>1, <3>2 DEF Matching
      <4>3. Open(r)' = Open(r) /\ \A t \in Turns : Marking(t, r)' = Marking(t, r)
        BY <2>1 DEF Open, Marking
      <4> QED BY <4>1, <4>2, <4>3 DEF PlacesOK, OnePlace
    <3> QED BY <3>1, <3>2
  <2> QED BY <2>1, <2>2 DEF PlacesOK
<1>6. ASSUME NEW h \in Hosts, UsedMatched(h) PROVE PlacesOK'
  <2>1. NotMatching(h) /\ UNCHANGED <<thread, recalls, pending>> /\ caller[h].pc = "u_match"
    BY <1>6, <1>c DEF UsedMatched, Return, Idle
  <2>2. CASE UNCHANGED credits
    BY <2>1, <2>2, <1>0
  <2>3. CASE Credit(caller[h].on)
    <3>0. PICK r : r = caller[h].on
      OBVIOUS
    <3>1. CASE r \in Recalls
      <4>1. Matching(h, r)
        BY <2>1, <3>0 DEF Matching
      <4>2. /\ Open(r) /\ \A s \in Sessions : pending[s] # r
            /\ \A q \in Hosts \ {h} : ~Matching(q, r)
            /\ \A t \in Turns : ~Marking(t, r)
        BY <3>1, <4>1 DEF PlacesOK, OnePlace
      <4>3. ASSUME NEW q \in Recalls
            PROVE  /\ \A s \in Sessions : pending'[s] = q => pending[s] = q /\ q # r
                   /\ \A z \in Hosts : Matching(z, q)' => Matching(z, q) /\ q # r
                   /\ \A t \in Turns : Marking(t, q)' => Marking(t, q) /\ q # r
        <5>1. \A z \in Sessions : pending'[z] = q => pending[z] = q /\ q # r
          BY <2>1, <4>2
        <5>2. ASSUME NEW z \in Hosts, Matching(z, q)' PROVE Matching(z, q) /\ q # r
          <6>1. z \in Hosts \ {h} /\ caller'[z] = caller[z]
            BY <2>1, <5>2 DEF Matching
          <6> QED BY <4>2, <5>2, <6>1 DEF Matching
        <5>3. ASSUME NEW t \in Turns, Marking(t, q)' PROVE Marking(t, q) /\ q # r
          <6>1. Marking(t, q)
            BY <2>1, <5>3 DEF Marking
          <6> QED BY <4>2, <6>1
        <5> QED BY <5>1, <5>2, <5>3
      <4>4. Credit(r)
        BY <2>3, <3>0 DEF Credit
      <4> QED BY <2>1, <3>1, <4>2, <4>3, <4>4, Credited
    <3>2. CASE r \notin Recalls
      <4>1. UNCHANGED credits
        BY <2>3, <3>0, <3>2, <1>c DEF Credit
      <4> QED BY <2>1, <4>1, <1>0
    <3> QED BY <3>1, <3>2
  <2> QED BY <1>6, <2>2, <2>3 DEF UsedMatched
<1>7. ASSUME NEW h \in Hosts, SyncStart(h) PROVE PlacesOK'
  <2>1. NotMatching(h) /\ UNCHANGED <<credits, recalls, pending>>
    BY <1>7, <1>c DEF SyncStart, Return, Idle
  <2>2. \A t \in Turns : thread'[t].pc = "write" \/ thread'[t] = thread[t]
    BY <1>7, <1>c DEF SyncStart
  <2> QED BY <2>1, <2>2, FewerClaims DEF Matching, Marking
<1>8. ASSUME NEW t \in Turns, ThreadWritten(t) PROVE PlacesOK'
  <2>1. UNCHANGED <<caller, credits, recalls, pending>>
    BY <1>8 DEF ThreadWritten
  <2>2. \A u \in Turns : thread'[u].pc = "pop" \/ thread'[u] = thread[u]
    BY <1>8, <1>c DEF ThreadWritten, Work
  <2> QED BY <2>1, <2>2, FewerClaims DEF Matching, Marking
<1>9. ASSUME NEW t \in Turns, ThreadPop(t) PROVE PlacesOK'
  <2>0. PICK home : home = thread[t].session
    OBVIOUS
  <2>1. /\ home \in Sessions /\ UNCHANGED <<caller, credits, recalls>>
        /\ pending'[home] = Nothing /\ \A z \in Sessions \ {home} : pending'[z] = pending[z]
    BY <1>9, <1>c, <2>0 DEF ThreadPop, PopUsed, TypeOK, Begun
  <2>2. /\ thread'[t].popped = pending[home] /\ \A u \in Turns \ {t} : thread'[u] = thread[u]
    BY <1>9, <1>c, <2>0 DEF ThreadPop, Work
  <2>3. ASSUME NEW r \in Recalls PROVE OnePlace(r)'
    <3>1. CASE r = pending[home]
      <4>1. /\ Open(r) /\ \A z \in Sessions : pending[z] = r => z = home
            /\ \A q \in Hosts : ~Matching(q, r)
            /\ \A u \in Turns : ~Marking(u, r)
        BY <2>1, <3>1 DEF PlacesOK, OnePlace
      <4>2. \A z \in Sessions : pending'[z] # r
        BY <1>c, <2>1, <4>1
      <4>3. Open(r)' /\ \A q \in Hosts : ~Matching(q, r)'
        BY <2>1, <4>1 DEF Open, Matching
      <4>4. \A u \in Turns : Marking(u, r)' => u = t
        <5> SUFFICES ASSUME NEW u \in Turns, u # t, Marking(u, r)' PROVE FALSE
          OBVIOUS
        <5>1. thread'[u] = thread[u]
          BY <2>2
        <5>2. Marking(u, r)
          BY <5>1 DEF Marking
        <5> QED BY <4>1, <5>2
      <4> QED BY <4>2, <4>3, <4>4 DEF OnePlace
    <3>2. CASE r # pending[home]
      <4>1. \A z \in Sessions : pending'[z] = r => pending[z] = r
        BY <1>c, <2>1
      <4>2. \A u \in Turns : Marking(u, r)' => Marking(u, r)
        BY <2>2, <3>2 DEF Marking
      <4>3. Open(r)' = Open(r) /\ \A q \in Hosts : Matching(q, r)' = Matching(q, r)
        BY <2>1 DEF Open, Matching
      <4> QED BY <4>1, <4>2, <4>3 DEF PlacesOK, OnePlace
    <3> QED BY <3>1, <3>2
  <2> QED BY <2>1, <2>3 DEF PlacesOK
<1>10. ASSUME NEW t \in Turns, ThreadMark(t) PROVE PlacesOK'
  <2>1. /\ thread[t].pc = "mark" /\ thread'[t].pc = "done" /\ Credit(thread[t].popped)
        /\ \A u \in Turns \ {t} : thread'[u] = thread[u]
        /\ UNCHANGED <<caller, recalls, pending>>
    BY <1>10, <1>c DEF ThreadMark, Work
  <2>0. PICK r : r = thread[t].popped
    OBVIOUS
  <2>2. CASE r \in Recalls
    <3>1. Marking(t, r)
      BY <2>1, <2>0 DEF Marking
    <3>2. /\ Open(r) /\ \A s \in Sessions : pending[s] # r
          /\ \A h \in Hosts : ~Matching(h, r)
          /\ \A u \in Turns \ {t} : ~Marking(u, r)
      BY <2>2, <3>1 DEF PlacesOK, OnePlace
    <3>3. ASSUME NEW q \in Recalls
          PROVE  /\ \A s \in Sessions : pending'[s] = q => pending[s] = q /\ q # r
                 /\ \A h \in Hosts : Matching(h, q)' => Matching(h, q) /\ q # r
                 /\ \A u \in Turns : Marking(u, q)' => Marking(u, q) /\ q # r
      <4>1. \A z \in Sessions : pending'[z] = q => pending[z] = q /\ q # r
        BY <2>1, <3>2
      <4>2. ASSUME NEW h \in Hosts, Matching(h, q)' PROVE Matching(h, q) /\ q # r
        <5>1. Matching(h, q)
          BY <2>1, <4>2 DEF Matching
        <5> QED BY <3>2, <5>1
      <4>3. ASSUME NEW u \in Turns, Marking(u, q)' PROVE Marking(u, q) /\ q # r
        <5>1. u \in Turns \ {t} /\ thread'[u] = thread[u]
          BY <2>1, <4>3 DEF Marking
        <5> QED BY <3>2, <4>3, <5>1 DEF Marking
      <4> QED BY <4>1, <4>2, <4>3
    <3>4. Credit(r)
      BY <2>0, <2>1 DEF Credit
    <3> QED BY <2>1, <2>2, <3>2, <3>3, <3>4, Credited
  <2>3. CASE r \notin Recalls
    <3>1. UNCHANGED credits
      BY <2>0, <2>1, <2>3, <1>c DEF Credit
    <3> QED BY <2>1, <3>1, FewerClaims DEF Matching, Marking
  <2> QED BY <2>2, <2>3
<1>11. CASE UNCHANGED vars
  BY <1>11, FewerClaims DEF vars, Matching, Marking
<1> QED BY <1>1, <1>2, <1>3, <1>4, <1>5, <1>6, <1>7, <1>8, <1>9, <1>10, <1>11
        DEF Next, BeginCall, ContinueCall, ThreadStep, Finished

-----------------------------------------------------------------------------
(* The lone host.                                                            *)

LEMMA HostsStep == TypeOK /\ HostsOK /\ [Next]_vars => HostsOK'
<1> SUFFICES ASSUME TypeOK, HostsOK, [Next]_vars PROVE HostsOK'
  OBVIOUS
<1>c. caller \in [Hosts -> Call]
  BY DEF TypeOK
<1>1. ASSUME NEW h \in Hosts, BeginCall(h) PROVE HostsOK'
  <2>1. h \in setting.hosts /\ setting' = setting /\ \A q \in Hosts \ {h} : caller'[q] = caller[q]
    BY <1>1, <1>c DEF BeginCall, BeginPrefetch, BeginUsed, BeginSync, BeginSwitch, BeginEnd,
                      BeginShutdown, MayCall
  <2> QED BY <2>1 DEF HostsOK
<1>2. ASSUME NEW h \in Hosts, ContinueCall(h) PROVE HostsOK'
  <2>1. /\ caller[h].pc # "idle" /\ setting' = setting
        /\ \A q \in Hosts \ {h} : caller'[q] = caller[q]
    BY <1>2, <1>c DEF ContinueCall, PrefetchFlushed, RecallFound, RecallEmpty, UsedMatched,
                      SyncLocked, SyncStart, SwitchRotate, SwitchDrop, EndLocked, EndJoined,
                      EndClear, ShutdownClear, Goto, Return
  <2> QED BY <2>1 DEF HostsOK
<1>3. ASSUME NEW t \in Turns, ThreadStep(t) PROVE HostsOK'
  BY <1>3 DEF ThreadStep, ThreadWritten, ThreadPop, ThreadMark, HostsOK
<1> QED BY <1>1, <1>2, <1>3 DEF Next, Finished, vars, HostsOK

LEMMA LoneHost ==
    ASSUME TypeOK, HostsOK, Orderly
    PROVE  \E h \in Hosts : /\ setting.hosts = {h}
                            /\ \A q \in Hosts : caller[q].pc # "idle" \/ MayCall(q) => q = h
<1>1. setting.hosts \in SUBSET Hosts
  BY DEF TypeOK, Setting
<1>2. PICK h : setting.hosts = {h}
  BY <1>1, TurnsAssumption, FS_Subset, FS_Singleton DEF Orderly
<1> QED BY <1>1, <1>2 DEF HostsOK, MayCall

(* A step of the lone host that leaves threads, credits and counts alone.    *)
LEMMA LoneKept ==
    ASSUME NEW h \in Hosts, LoneOK(h),
           UNCHANGED <<thread, turns, sessionId, credits, recalls>>,
           CallerOK(h)', QuietOK(h)', PendingOK(h)', confirmed \subseteq confirmed'
    PROVE  LoneOK(h)'
BY DEF LoneOK, ThreadsOK, CreditsOK

LEMMA NothingConfirmed == TypeOK => Nothing \notin confirmed
BY Constants DEF TypeOK, Recalls, Nothing

LEMMA Emptied ==
    ASSUME TypeOK', NEW h \in Hosts, \A s \in Sessions : pending'[s] = Nothing
    PROVE  PendingOK(h)'
<1>1. Nothing \notin confirmed'
  BY DEF TypeOK, Recalls, Nothing
<1> QED BY <1>1 DEF PendingOK

(* Between two turns nothing is pending any more.                            *)
LEMMA BetweenTurns ==
    ASSUME TypeOK, NEW h \in Hosts, PendingOK(h), AllDone, answering[h] = Nothing,
           caller[h].pc \notin {"s_lock", "s_join"}
    PROVE  \A s \in Sessions : pending[s] = Nothing
<1>1. ~About(h)
  BY DEF About, AllDone, Begun
<1> QED BY <1>1, NothingConfirmed DEF PendingOK

LEMMA SettingFixed == [Next]_vars => UNCHANGED setting
BY DEF Next, Finished, vars, BeginCall, BeginPrefetch, BeginUsed, BeginSync, BeginSwitch, BeginEnd,
       BeginShutdown, ContinueCall, PrefetchFlushed, RecallFound, RecallEmpty, UsedMatched,
       SyncLocked, SyncStart, SwitchRotate, SwitchDrop, EndLocked, EndJoined, EndClear,
       ShutdownClear, ThreadStep, ThreadWritten, ThreadPop, ThreadMark

LEMMA LonerStep ==
    ASSUME TypeOK, TypeOK', OrderOK, HostsOK, LonersOK, [Next]_vars
    PROVE  LonersOK'
<1>1. UNCHANGED setting
  BY SettingFixed
<1> SUFFICES ASSUME Orderly PROVE \A h \in setting.hosts : LoneOK(h)'
  BY <1>1 DEF LonersOK, Orderly
<1>2. PICK h \in Hosts : /\ setting.hosts = {h}
                         /\ \A q \in Hosts : caller[q].pc # "idle" \/ MayCall(q) => q = h
  BY LoneHost
<1>3. LoneOK(h)
  BY <1>2 DEF LonersOK
<1> SUFFICES LoneOK(h)'
  BY <1>2
<1> USE <1>3 DEF LoneOK
<1>4. ~setting.slow /\ ~setting.interrupts /\ ~setting.orphans
  BY DEF Orderly
<1>c. /\ caller \in [Hosts -> Call] /\ thread \in [Turns -> Work]
      /\ pending \in [Sessions -> 0 .. MaxCalls] /\ answering \in [Hosts -> 0 .. MaxCalls]
      /\ sessionId \in Sessions
  BY DEF TypeOK
<1>5. ASSUME BeginPrefetch(h) PROVE LoneOK(h)'
  <2>1. /\ UNCHANGED <<thread, turns, sessionId, credits, recalls, pending, confirmed>>
        /\ caller[h].pc = "idle" /\ caller'[h].pc = "p_flush" /\ caller'[h].session = sessionId
        /\ caller'[h].on = turns /\ answering[h] = Nothing /\ answering'[h] = Nothing
    BY <1>4, <1>5, <1>c DEF BeginPrefetch, MayCall, OrderOK
  <2>2. CallerOK(h)' /\ QuietOK(h)'
    BY <2>1 DEF CallerOK, QuietOK
  <2>3. PendingOK(h)'
    BY <2>1 DEF PendingOK, SessionOf, About
  <2> QED BY <2>1, <2>2, <2>3, LoneKept
<1>6. ASSUME PrefetchFlushed(h) PROVE LoneOK(h)'
  <2>1. /\ UNCHANGED <<thread, turns, sessionId, credits, recalls, pending, confirmed, answering>>
        /\ caller[h].pc = "p_flush" /\ caller'[h].pc = "p_recall"
        /\ caller'[h].session = caller[h].session /\ JoinOver(turns)
    BY <1>6, <1>c DEF PrefetchFlushed, Goto, Call, CallerOK
  <2>2. AllDone'
    BY <1>4, <2>1, Joined DEF AllDone, Begun
  <2>3. CallerOK(h)' /\ QuietOK(h)'
    BY <2>1, <2>2 DEF CallerOK, QuietOK
  <2>4. PendingOK(h)'
    BY <2>1 DEF PendingOK, SessionOf, About
  <2> QED BY <2>1, <2>3, <2>4, LoneKept
<1>7. ASSUME RecallFound(h) PROVE LoneOK(h)'
  <2>1. /\ UNCHANGED <<thread, turns, sessionId, credits, confirmed>> /\ recalls' = recalls + 1
        /\ caller[h].pc = "p_recall" /\ caller'[h].pc = "idle" /\ answering'[h] = recalls'
        /\ \A s \in Sessions : s # caller[h].session => pending'[s] = pending[s]
        /\ pending' = [pending EXCEPT ![caller[h].session] = recalls']
    BY <1>7, <1>c DEF RecallFound, Return, Idle
  <2>2. caller[h].session = sessionId /\ answering[h] = Nothing /\ AllDone
    BY <2>1 DEF CallerOK, QuietOK
  <2>3. recalls \in Nat /\ recalls' \in Nat
    BY <2>1, Constants DEF TypeOK
  <2>4. recalls' \notin confirmed /\ \A r \in confirmed : r <= recalls'
    <3>1. confirmed \subseteq Nat /\ \A r \in confirmed : r <= recalls
      BY DEF CallerOK, TypeOK, Recalls
    <3>2. \A r \in Nat : r <= recalls => r <= recalls' /\ r # recalls'
      BY <2>1, <2>3
    <3> QED BY <3>1, <3>2
  <2>5. \A s \in Sessions : pending[s] = Nothing
    BY <2>1, <2>2, BetweenTurns
  <2>6. CallerOK(h)'
    BY <2>1, <2>3, <2>4 DEF CallerOK
  <2>7. AllDone' /\ ThreadsOK' /\ CreditsOK'
    BY <2>1, <2>2 DEF AllDone, Begun, ThreadsOK, CreditsOK
  <2>8. \A s \in Sessions : pending'[s] = (IF s = sessionId THEN recalls' ELSE Nothing)
    BY <1>c, <2>1, <2>2, <2>5
  <2>9. PendingOK(h)'
    BY <2>1, <2>4, <2>8, NothingConfirmed DEF PendingOK, SessionOf
  <2> QED BY <2>6, <2>7, <2>9 DEF QuietOK
<1>8. ASSUME RecallEmpty(h) PROVE LoneOK(h)'
  <2>1. /\ UNCHANGED <<thread, turns, sessionId, credits, recalls, pending, confirmed, answering>>
        /\ caller[h].pc = "p_recall" /\ caller'[h].pc = "idle"
    BY <1>8, <1>c DEF RecallEmpty, Return, Idle
  <2>2. CallerOK(h)' /\ QuietOK(h)'
    BY <2>1 DEF CallerOK, QuietOK, AllDone, Begun
  <2>3. PendingOK(h)'
    BY <2>1 DEF PendingOK, SessionOf, About
  <2> QED BY <2>1, <2>2, <2>3, LoneKept
<1>9. ASSUME BeginUsed(h) PROVE LoneOK(h)'
  <2>1. /\ UNCHANGED <<thread, turns, sessionId, credits, recalls, answering>>
        /\ caller[h].pc = "idle" /\ pending[sessionId] # Nothing
        /\ caller'[h].pc = "u_match" /\ caller'[h].on = pending[sessionId]
        /\ confirmed' = confirmed \cup ({answering[h]} \ {Nothing})
        /\ pending' = [pending EXCEPT ![sessionId] = Nothing]
    BY <1>9, <1>c DEF BeginUsed, MayCall, PopUsed
  <2>2. pending[sessionId] \in confirmed'
    BY <1>c, <2>1 DEF PendingOK
  <2>3. \A s \in Sessions : s # sessionId => pending[s] = Nothing
    BY <2>1 DEF PendingOK, SessionOf
  <2>4. CallerOK(h)' /\ QuietOK(h)'
    BY <2>1, <2>2 DEF CallerOK, QuietOK, AllDone, Begun
  <2>5. PendingOK(h)'
    BY <1>c, <2>1, <2>3, Emptied
  <2> QED BY <2>1, <2>4, <2>5, LoneKept
<1>10. ASSUME UsedMatched(h) PROVE LoneOK(h)'
  <2>1. /\ UNCHANGED <<thread, turns, sessionId, recalls, pending, confirmed, answering>>
        /\ caller[h].pc = "u_match" /\ caller'[h].pc = "idle"
        /\ Credit(caller[h].on) \/ UNCHANGED credits
    BY <1>10, <1>c DEF UsedMatched, Return, Idle
  <2>2. CallerOK(h)' /\ QuietOK(h)' /\ ThreadsOK'
    BY <2>1 DEF CallerOK, QuietOK, AllDone, Begun, ThreadsOK
  <2>3. PendingOK(h)'
    BY <2>1 DEF PendingOK, SessionOf, About
  <2>4. caller[h].on \in confirmed
    BY <2>1 DEF CallerOK
  <2>5. CreditsOK'
    BY <2>1, <2>4 DEF CreditsOK, Credit, TypeOK
  <2> QED BY <2>2, <2>3, <2>5
<1>11. ASSUME BeginSync(h) PROVE LoneOK(h)'
  <2>1. /\ UNCHANGED <<thread, turns, sessionId, credits, recalls, pending>>
        /\ caller[h].pc = "idle" /\ caller'[h].pc = "s_lock" /\ caller'[h].session = sessionId
        /\ confirmed' = confirmed \cup ({answering[h]} \ {Nothing}) /\ answering'[h] = Nothing
    BY <1>11, <1>c DEF BeginSync, MayCall
  <2>2. CallerOK(h)' /\ QuietOK(h)'
    <3>1. Nothing <= recalls'
      BY <2>1, Constants DEF TypeOK, Nothing
    <3> QED BY <2>1, <3>1 DEF CallerOK, QuietOK
  <2>3. PendingOK(h)'
    BY <2>1 DEF PendingOK, SessionOf, About
  <2> QED BY <2>1, <2>2, <2>3, LoneKept
<1>12. ASSUME SyncLocked(h) PROVE LoneOK(h)'
  <2>1. /\ UNCHANGED <<thread, turns, sessionId, credits, recalls, pending, confirmed, answering>>
        /\ caller[h].pc = "s_lock" /\ caller'[h].pc = "s_join"
        /\ caller'[h].session = caller[h].session
    BY <1>12, <1>c DEF SyncLocked, Call
  <2>2. CallerOK(h)' /\ QuietOK(h)'
    BY <2>1 DEF CallerOK, QuietOK, AllDone, Begun
  <2>3. PendingOK(h)'
    BY <2>1 DEF PendingOK, SessionOf, About
  <2> QED BY <2>1, <2>2, <2>3, LoneKept
<1>13. ASSUME SyncStart(h) PROVE LoneOK(h)'
  <2>1. /\ UNCHANGED <<sessionId, credits, recalls, pending, confirmed, answering>>
        /\ caller[h].pc = "s_join" /\ caller'[h].pc = "idle"
        /\ turns' = turns + 1
        /\ thread' = [thread EXCEPT ![turns'] =
                        [pc |-> "write", session |-> caller[h].session, popped |-> Nothing]]
    BY <1>13, <1>c DEF SyncStart, Return, Idle
  <2>2. turns' \in Turns
    BY <2>1, Constants DEF TypeOK, Turns
  <2>3. answering[h] = Nothing /\ caller[h].session = sessionId
    BY <2>1 DEF CallerOK
  <2>4. /\ thread'[turns'].pc = "write" /\ thread'[turns'].session = sessionId
        /\ \A t \in Turns : t # turns' => thread'[t] = thread[t]
    BY <1>c, <2>1, <2>2, <2>3
  <2>5. CallerOK(h)' /\ QuietOK(h)' /\ CreditsOK'
    BY <2>1, <2>3 DEF CallerOK, QuietOK, CreditsOK
  <2>6. ThreadsOK'
    BY <2>1, <2>4 DEF ThreadsOK
  <2>7. PendingOK(h)'
    BY <2>1, <2>2, <2>4 DEF PendingOK, SessionOf, About
  <2> QED BY <2>5, <2>6, <2>7
<1>14. ASSUME NEW t \in Turns, ThreadStep(t) PROVE LoneOK(h)'
  <2>1. /\ UNCHANGED <<caller, turns, sessionId, recalls, answering, confirmed>>
        /\ thread[t].pc \in {"write", "pop", "mark"}
        /\ \A u \in Turns \ {t} : thread'[u] = thread[u]
    BY <1>14, <1>c DEF ThreadStep, ThreadWritten, ThreadPop, ThreadMark
  <2>2. ~AllDone
    BY <2>1 DEF AllDone, Begun
  <2>3. CallerOK(h)' /\ QuietOK(h)' /\ answering[h] = Nothing /\ caller[h].pc # "w_drop"
    BY <2>1, <2>2 DEF CallerOK, QuietOK
  <2>4. CASE ThreadWritten(t)
    <3>1. /\ UNCHANGED <<credits, pending>> /\ thread[t].pc = "write"
          /\ thread'[t].pc = "pop" /\ thread'[t].session = thread[t].session
      BY <2>4, <1>c DEF ThreadWritten, Work
    <3>2. ThreadsOK' /\ CreditsOK'
      BY <2>1, <3>1 DEF ThreadsOK, CreditsOK
    <3>3. PendingOK(h)'
      BY <2>1, <3>1 DEF PendingOK, SessionOf, About
    <3> QED BY <2>3, <3>2, <3>3
  <2>5. CASE ThreadPop(t)
    <3>1. thread[t].session = sessionId
      BY <2>5 DEF ThreadPop, ThreadsOK
    <3>2. /\ UNCHANGED credits /\ pending' = [pending EXCEPT ![sessionId] = Nothing]
          /\ thread'[t].popped = pending[sessionId]
          /\ thread'[t].pc = IF pending[sessionId] = Nothing THEN "done" ELSE "mark"
      BY <2>5, <3>1, <1>c DEF ThreadPop, PopUsed, Work
    <3>3. \A s \in Sessions : s # sessionId => pending[s] = Nothing
      BY <2>3 DEF PendingOK, SessionOf
    <3>4. PendingOK(h)'
      BY <1>c, <3>2, <3>3, Emptied
    <3>5. pending[sessionId] # Nothing => pending[sessionId] \in confirmed
      BY <1>c, <2>3 DEF PendingOK
    <3>6. ThreadsOK' /\ CreditsOK'
      BY <2>1, <3>2, <3>5 DEF ThreadsOK, CreditsOK
    <3> QED BY <2>3, <3>4, <3>6
  <2>6. CASE ThreadMark(t)
    <3>1. /\ UNCHANGED pending /\ thread[t].pc = "mark" /\ thread'[t].pc = "done"
          /\ Credit(thread[t].popped)
      BY <2>6, <1>c DEF ThreadMark, Work
    <3>2. thread[t].popped \in confirmed
      BY <3>1 DEF ThreadsOK
    <3>3. CreditsOK'
      BY <2>1, <3>1, <3>2 DEF CreditsOK, Credit, TypeOK
    <3>4. ThreadsOK'
      BY <2>1, <3>1 DEF ThreadsOK
    <3>5. PendingOK(h)'
      BY <2>1, <3>1 DEF PendingOK, SessionOf, About
    <3> QED BY <2>3, <3>3, <3>4, <3>5
  <2> QED BY <1>14, <2>4, <2>5, <2>6 DEF ThreadStep
<1>15. ASSUME BeginSwitch(h) \/ BeginEnd(h) \/ BeginShutdown(h) PROVE LoneOK(h)'
  <2>1. /\ UNCHANGED <<thread, turns, sessionId, credits, recalls, pending, confirmed, answering>>
        /\ caller[h].pc = "idle" /\ caller'[h].pc \in {"w_flush", "e_lock", "d_join"}
        /\ caller'[h].pc = "w_flush" => caller'[h].session = sessionId /\ caller'[h].on = turns
    BY <1>15, <1>c DEF BeginSwitch, BeginEnd, BeginShutdown, MayCall, Call, OrderOK
  <2>2. CallerOK(h)' /\ QuietOK(h)'
    BY <2>1 DEF CallerOK, QuietOK, AllDone, Begun
  <2>3. PendingOK(h)'
    BY <2>1 DEF PendingOK, SessionOf, About
  <2> QED BY <2>1, <2>2, <2>3, LoneKept
<1>16. ASSUME SwitchRotate(h) PROVE LoneOK(h)'
  <2>1. /\ UNCHANGED <<thread, turns, credits, recalls, pending, confirmed, answering>>
        /\ caller[h].pc = "w_flush" /\ caller'[h].pc = "w_drop"
        /\ caller'[h].session = caller[h].session /\ JoinOver(turns)
    BY <1>16, <1>c DEF SwitchRotate, Goto, Call, CallerOK
  <2>2. AllDone'
    BY <1>4, <2>1, Joined DEF AllDone, Begun
  <2>3. CallerOK(h)' /\ QuietOK(h)' /\ CreditsOK'
    BY <2>1, <2>2 DEF CallerOK, QuietOK, CreditsOK
  <2>4. ThreadsOK'
    BY <2>1, <2>2 DEF ThreadsOK, AllDone, Begun
  <2>5. caller[h].session = sessionId
    BY <2>1 DEF CallerOK
  <2>6. PendingOK(h)'
    BY <2>1, <2>5 DEF PendingOK, SessionOf, About
  <2> QED BY <2>3, <2>4, <2>6
<1>17. ASSUME SwitchDrop(h) PROVE LoneOK(h)'
  <2>1. /\ UNCHANGED <<thread, turns, sessionId, credits, recalls, confirmed, answering>>
        /\ caller[h].pc = "w_drop" /\ caller'[h].pc = "idle"
        /\ pending' = [pending EXCEPT ![caller[h].session] = Nothing]
    BY <1>4, <1>17, <1>c DEF SwitchDrop, Return, Idle, PopUsed
  <2>2. \A s \in Sessions : s # caller[h].session => pending[s] = Nothing
    BY <2>1 DEF PendingOK, SessionOf
  <2>3. PendingOK(h)'
    BY <1>c, <2>1, <2>2, Emptied
  <2>4. CallerOK(h)' /\ QuietOK(h)'
    BY <2>1 DEF CallerOK, QuietOK, AllDone, Begun
  <2> QED BY <2>1, <2>3, <2>4, LoneKept
<1>18. ASSUME EndLocked(h) \/ EndJoined(h) PROVE LoneOK(h)'
  <2>1. /\ UNCHANGED <<thread, turns, sessionId, credits, recalls, pending, confirmed, answering>>
        /\ caller[h].pc \in {"e_lock", "e_join"} /\ caller'[h].pc \in {"e_join", "e_summary"}
    BY <1>18, <1>c DEF EndLocked, EndJoined, Goto, Call
  <2>2. CallerOK(h)' /\ QuietOK(h)'
    BY <2>1 DEF CallerOK, QuietOK, AllDone, Begun
  <2>3. PendingOK(h)'
    BY <2>1 DEF PendingOK, SessionOf, About
  <2> QED BY <2>1, <2>2, <2>3, LoneKept
<1>19. ASSUME EndClear(h) \/ ShutdownClear(h) PROVE LoneOK(h)'
  <2>1. /\ UNCHANGED <<thread, turns, sessionId, credits, recalls, confirmed, answering>>
        /\ caller'[h].pc = "idle" /\ \A s \in Sessions : pending'[s] = Nothing
    BY <1>19, <1>c DEF EndClear, ShutdownClear, Return, Idle
  <2>2. CallerOK(h)' /\ QuietOK(h)'
    BY <2>1 DEF CallerOK, QuietOK, AllDone, Begun
  <2>3. PendingOK(h)'
    BY <2>1, Emptied
  <2> QED BY <2>1, <2>2, <2>3, LoneKept
<1>20. CASE UNCHANGED vars
  BY <1>20 DEF vars, CallerOK, QuietOK, ThreadsOK, CreditsOK, PendingOK, SessionOf, About, AllDone,
               Begun
<1>21. ASSUME NEW q \in Hosts, BeginCall(q) PROVE q = h
  BY <1>2, <1>21 DEF BeginCall, BeginPrefetch, BeginUsed, BeginSync, BeginSwitch, BeginEnd,
                     BeginShutdown
<1>22. ASSUME NEW q \in Hosts, ContinueCall(q) PROVE q = h
  BY <1>2, <1>22 DEF ContinueCall, PrefetchFlushed, RecallFound, RecallEmpty, UsedMatched,
                     SyncLocked, SyncStart, SwitchRotate, SwitchDrop, EndLocked, EndJoined,
                     EndClear, ShutdownClear
<1>23. BeginCall(h) => LoneOK(h)'
  BY <1>5, <1>9, <1>11, <1>15 DEF BeginCall
<1>24. ContinueCall(h) => LoneOK(h)'
  BY <1>6, <1>7, <1>8, <1>10, <1>12, <1>13, <1>16, <1>17, <1>18, <1>19 DEF ContinueCall
<1> HIDE DEF LoneOK
<1> QED BY <1>14, <1>20, <1>21, <1>22, <1>23, <1>24 DEF Next, Finished

-----------------------------------------------------------------------------
LEMMA InitIInv == Init => IInv
<1> SUFFICES ASSUME Init PROVE IInv
  OBVIOUS
<1>1. TypeOK
  BY TurnsAssumption DEF Init, TypeOK, Setting, Call, Places, WithSession, Idle, Nothing, Work,
                         NotStarted, Begun, Recalls
<1>2. BudgetOK
  <2>1. InCall = {}
    BY DEF Init, InCall, Idle
  <2> QED BY <2>1, FS_EmptySet DEF Init, BudgetOK
<1>3. OrderOK
  BY TurnsAssumption DEF Init, OrderOK, Idle, NotStarted, Begun, Holding, Turns, Nothing
<1>4. PlacesOK
  BY <1>1 DEF Init, PlacesOK, OnePlace, Matching, Marking, Idle, NotStarted, Nothing, Recalls
<1>5. HostsOK
  BY DEF Init, HostsOK, Idle
<1>6. LonersOK
  <2> SUFFICES ASSUME NEW h \in Hosts PROVE LoneOK(h)
    BY <1>1 DEF LonersOK, TypeOK, Setting
  <2> QED BY DEF Init, LoneOK, CallerOK, QuietOK, ThreadsOK, CreditsOK, PendingOK, Idle, NotStarted,
                 Nothing
<1>7. FlushOK
  BY DEF Init, FlushOK, Idle
<1> QED BY <1>1, <1>2, <1>3, <1>4, <1>5, <1>6, <1>7 DEF IInv

LEMMA Inductive == Spec => []IInv
<1>1. IInv /\ [Next]_vars => IInv'
  BY TypeStep, OrderStep, FlushStep, PlacesStep, HostsStep, LonerStep DEF IInv
<1> QED BY <1>1, InitIInv, PTL DEF Spec

(* The threads, the lock, the calls and the ledger are well typed.           *)
THEOREM TypeCorrect == Spec => []TypeOK
<1>1. IInv => TypeOK
  BY DEF IInv
<1> QED BY <1>1, Inductive, PTL

(* sync_turn: a turn starts being written only when every earlier one is      *)
(* through, unless a thread outlives a join.                                 *)
THEOREM TurnsInOrder == Spec => []WritesOrdered
<1>1. IInv => WritesOrdered
  <2> SUFFICES ASSUME IInv, ~setting.slow, NEW t \in Turns, NEW u \in Turns, t < u, Begun(u)
               PROVE  thread[t].pc = "done"
    BY DEF WritesOrdered
  <2>1. u <= turns /\ t \in Nat /\ u \in Nat /\ turns \in Nat
    BY Constants DEF IInv, OrderOK, TypeOK, Turns
  <2>2. t < turns
    BY <2>1
  <2> QED BY <2>2 DEF IInv, OrderOK
<1> QED BY <1>1, Inductive, PTL

(* prefetch: a recall is made when every turn begun before it is written,     *)
(* unless a thread outlives a join.                                          *)
THEOREM RecallsSeeTurns == Spec => []RecallSeesTurns
<1>1. IInv => RecallSeesTurns
  BY DEF IInv, FlushOK, RecallSeesTurns
<1> QED BY <1>1, Inductive, PTL

(* on_session_end: when the summary is written no turn is being written.     *)
THEOREM EndsAreBarriers == Spec => []EndIsBarrier
<1>1. IInv => EndIsBarrier
  BY DEF IInv, OrderOK, AllDone, EndIsBarrier
<1> QED BY <1>1, Inductive, PTL

(* sync_turn and on_recall_used: a recall is credited once, for an answer     *)
(* that was given, and with its own turn.                                    *)
THEOREM CreditsAreSound == Spec => []CreditSound
<1>1. IInv => NoDoubleCredit
  BY DEF IInv, PlacesOK, NoDoubleCredit
<1>2. IInv => OnlyConfirmedCredited /\ NothingLeftPending
  <2> SUFFICES ASSUME IInv, Orderly
               PROVE  /\ \A r \in Recalls : credits[r] > 0 => r \in confirmed
                      /\ Quiet => \A s \in Sessions : pending[s] \notin confirmed
    BY DEF OnlyConfirmedCredited, NothingLeftPending
  <2>1. PICK h \in Hosts : setting.hosts = {h}
    BY LoneHost DEF IInv
  <2>2. LoneOK(h)
    BY <2>1 DEF IInv, LonersOK
  <2>3. Quiet => ~About(h)
    <3> SUFFICES ASSUME Quiet PROVE ~About(h)
      OBVIOUS
    <3>1. \A t \in Turns : thread[t].pc \in {"none", "done"}
      BY DEF Quiet, IInv, OrderOK, Begun
    <3> QED BY <3>1 DEF Quiet, About
  <2> QED BY <2>2, <2>3 DEF LoneOK, CreditsOK, PendingOK
<1>3. IInv => CreditSound
  BY <1>1, <1>2 DEF CreditSound
<1> QED BY <1>3, Inductive, PTL
=============================================================================
