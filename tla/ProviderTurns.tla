--------------------------- MODULE ProviderTurns ---------------------------
(***************************************************************************)
(* The turn pipeline of provider.py: host threads call the memory provider *)
(* and every completed turn is persisted by a daemon thread.               *)
(*                                                                         *)
(* A turn is  prefetch (recall, whose ids become pending for the session)  *)
(* -> the model answers -> on_recall_used, where the host has that hook    *)
(* -> sync_turn, which starts the thread that writes the turn and credits  *)
(* the pending recall.  Every join has a time limit, so a thread may       *)
(* outlive the wait of any caller.                                         *)
(***************************************************************************)
EXTENDS Integers, FiniteSets

CONSTANTS
    Hosts,        \* host threads that call the provider
    Sessions,     \* session ids
    MaxCalls,     \* bound: calls the hosts make in any behaviour
    Settings      \* the circumstances of a behaviour, see Setting

(* hosts: the host threads there are; slow: a turn thread may outlive the    *)
(* time limit of a join; interrupts: a turn may be abandoned after its       *)
(* prefetch; orphans: a session switch need not name the parent session;      *)
(* bound: the number of calls in such a behaviour.                           *)
Setting ==
    [hosts : SUBSET Hosts, slow : BOOLEAN, interrupts : BOOLEAN, orphans : BOOLEAN,
     bound : 0 .. MaxCalls]

Free == "free"      \* nobody holds _dispatch_lock

ASSUME TurnsAssumption ==
    /\ MaxCalls \in Nat /\ Settings \subseteq Setting
    /\ IsFiniteSet(Hosts) /\ Free \notin Hosts

Turns == 1 .. MaxCalls
Recalls == 1 .. MaxCalls
Nothing == 0        \* no thread, no recall

VARIABLES
    setting,     \* chosen at the start, then fixed
    calls,       \* number of calls begun
    caller,      \* the provider call each host thread is in
    lock,        \* holder of _dispatch_lock
    syncThread,  \* _sync_thread: the turn whose thread was started last
    thread,      \* each turn's daemon thread
    turns,       \* number of turn threads started
    sessionId,   \* _session_id
    pending,     \* _pending_used_ids: the recall pending for each session
    recalls,     \* number of recalls that found something
    (* history: *)
    answering,   \* the recall each host's current turn put before the model
    confirmed,   \* recalls whose turn got its answer (sync_turn was called)
    credits      \* how often each recall was credited (mark_recall_used)

vars == <<setting, calls, caller, lock, syncThread, thread, turns, sessionId, pending, recalls,
          answering, confirmed, credits>>

Idle == [pc |-> "idle", session |-> "none", on |-> Nothing]
NotStarted == [pc |-> "none", session |-> "none", popped |-> Nothing]

Init ==
    /\ setting \in Settings
    /\ calls = 0
    /\ caller = [h \in Hosts |-> Idle]
    /\ lock = Free
    /\ syncThread = Nothing
    /\ thread = [t \in Turns |-> NotStarted]
    /\ turns = 0
    /\ sessionId \in Sessions            \* initialize(session_id)
    /\ pending = [s \in Sessions |-> Nothing]
    /\ recalls = 0
    /\ answering = [h \in Hosts |-> Nothing]
    /\ confirmed = {}
    /\ credits = [r \in Recalls |-> 0]

Goto(h, pc) == caller' = [caller EXCEPT ![h].pc = pc]
Return(h) == caller' = [caller EXCEPT ![h] = Idle]

(* A host thread makes one call at a time. *)
MayCall(h) ==
    /\ h \in setting.hosts
    /\ caller[h].pc = "idle"
    /\ calls < setting.bound
    /\ calls' = calls + 1

Alive(t) == t # Nothing /\ thread[t].pc # "done"

(* Mutant: join() without a time limit. *)
JoinForever(t) == ~Alive(t)

(* thread.join(timeout): over when the thread is, or when the time is up. *)
JoinOver(t) == ~Alive(t) \/ setting.slow

Credit(r) == credits' = [credits EXCEPT ![r] = @ + 1]

-----------------------------------------------------------------------------
(* prefetch: _flush_pending_write, then _do_recall.  The flush joins the    *)
(* thread that was current when it started.                                 *)
BeginPrefetch(h) ==
    /\ MayCall(h)
    /\ answering[h] # Nothing => setting.interrupts
    /\ caller' = [caller EXCEPT ![h] =
                    [pc |-> "p_flush", session |-> sessionId, on |-> syncThread]]
    /\ answering' = [answering EXCEPT ![h] = Nothing]
    /\ UNCHANGED <<setting, lock, syncThread, thread, turns, sessionId, pending, recalls,
                   confirmed, credits>>

PrefetchFlushed(h) ==
    /\ caller[h].pc = "p_flush"
    /\ JoinOver(caller[h].on)
    /\ Goto(h, "p_recall")
    /\ UNCHANGED <<setting, calls, lock, syncThread, thread, turns, sessionId, pending, recalls,
                   answering, confirmed, credits>>

RecallFound(h) ==
    /\ caller[h].pc = "p_recall"
    /\ recalls' = recalls + 1
    /\ pending' = [pending EXCEPT ![caller[h].session] = recalls']
    /\ answering' = [answering EXCEPT ![h] = recalls']
    /\ Return(h)
    /\ UNCHANGED <<setting, calls, lock, syncThread, thread, turns, sessionId, confirmed, credits>>

(* A recall without results leaves the pending ids as they are. *)
RecallEmpty(h) ==
    /\ caller[h].pc = "p_recall"
    /\ Return(h)
    /\ UNCHANGED <<setting, calls, lock, syncThread, thread, turns, sessionId, pending, recalls,
                   answering, confirmed, credits>>

-----------------------------------------------------------------------------
(* on_recall_used: takes the pending ids, credits those the answer cites. *)

(* Mutant: get() for pop(). *)
GetUsed(s) == pending' = pending

PopUsed(s) == pending' = [pending EXCEPT ![s] = Nothing]

BeginUsed(h) ==
    /\ MayCall(h)
    /\ pending[sessionId] # Nothing
    /\ caller' = [caller EXCEPT ![h] =
                    [pc |-> "u_match", session |-> sessionId, on |-> pending[sessionId]]]
    /\ PopUsed(sessionId)
    /\ confirmed' = confirmed \cup ({answering[h]} \ {Nothing})
    /\ UNCHANGED <<setting, lock, syncThread, thread, turns, sessionId, recalls, answering, credits>>

UsedMatched(h) ==
    /\ caller[h].pc = "u_match"
    /\ \/ Credit(caller[h].on)
       \/ UNCHANGED credits          \* the answer cites none of them
    /\ Return(h)
    /\ UNCHANGED <<setting, calls, lock, syncThread, thread, turns, sessionId, pending, recalls,
                   answering, confirmed>>

-----------------------------------------------------------------------------
(* sync_turn: under _dispatch_lock, join the previous thread, start the    *)
(* next one.  The session is captured before the lock is taken.            *)
BeginSync(h) ==
    /\ MayCall(h)
    /\ caller' = [caller EXCEPT ![h] =
                    [pc |-> "s_lock", session |-> sessionId, on |-> Nothing]]
    /\ confirmed' = confirmed \cup ({answering[h]} \ {Nothing})
    /\ answering' = [answering EXCEPT ![h] = Nothing]
    /\ UNCHANGED <<setting, lock, syncThread, thread, turns, sessionId, pending, recalls, credits>>

(* Mutant: the join+create+start sequence is not serialised. *)
SyncUnlocked(h) ==
    /\ caller[h].pc = "s_lock"
    /\ caller' = [caller EXCEPT ![h].pc = "s_join", ![h].on = syncThread]
    /\ UNCHANGED <<setting, calls, lock, syncThread, thread, turns, sessionId, pending, recalls,
                   answering, confirmed, credits>>

SyncLocked(h) ==
    /\ caller[h].pc = "s_lock"
    /\ lock = Free
    /\ lock' = h
    /\ caller' = [caller EXCEPT ![h].pc = "s_join", ![h].on = syncThread]
    /\ UNCHANGED <<setting, calls, syncThread, thread, turns, sessionId, pending, recalls,
                   answering, confirmed, credits>>

SyncStart(h) ==
    /\ caller[h].pc = "s_join"
    /\ JoinOver(caller[h].on)
    /\ turns' = turns + 1
    /\ thread' = [thread EXCEPT ![turns'] =
                    [pc |-> "write", session |-> caller[h].session, popped |-> Nothing]]
    /\ syncThread' = turns'
    /\ lock' = Free
    /\ Return(h)
    /\ UNCHANGED <<setting, calls, sessionId, pending, recalls, answering, confirmed, credits>>

-----------------------------------------------------------------------------
(* The turn thread: persist the turn, then take the session's pending ids  *)
(* and credit them.                                                        *)
ThreadWritten(t) ==
    /\ thread[t].pc = "write"
    /\ thread' = [thread EXCEPT ![t].pc = "pop"]
    /\ UNCHANGED <<setting, calls, caller, lock, syncThread, turns, sessionId, pending, recalls,
                   answering, confirmed, credits>>

ThreadPop(t) ==
    /\ thread[t].pc = "pop"
    /\ LET s == thread[t].session IN
          /\ thread' = [thread EXCEPT
                          ![t].pc = IF pending[s] = Nothing THEN "done" ELSE "mark",
                          ![t].popped = pending[s]]
          /\ PopUsed(s)
    /\ UNCHANGED <<setting, calls, caller, lock, syncThread, turns, sessionId, recalls, answering,
                   confirmed, credits>>

ThreadMark(t) ==
    /\ thread[t].pc = "mark"
    /\ Credit(thread[t].popped)
    /\ thread' = [thread EXCEPT ![t].pc = "done"]
    /\ UNCHANGED <<setting, calls, caller, lock, syncThread, turns, sessionId, pending, recalls,
                   answering, confirmed>>

-----------------------------------------------------------------------------
(* on_session_switch: flush, rotate the session id, drop what is pending   *)
(* for the parent session.  Context compression makes this call in the     *)
(* middle of a turn.                                                       *)
BeginSwitch(h) ==
    /\ MayCall(h)
    /\ caller' = [caller EXCEPT ![h] =
                    [pc |-> "w_flush", session |-> sessionId, on |-> syncThread]]
    /\ UNCHANGED <<setting, lock, syncThread, thread, turns, sessionId, pending, recalls,
                   answering, confirmed, credits>>

SwitchRotate(h) ==
    /\ caller[h].pc = "w_flush"
    /\ JoinOver(caller[h].on)
    /\ sessionId' \in Sessions \ {caller[h].session}
    /\ Goto(h, "w_drop")
    /\ UNCHANGED <<setting, calls, lock, syncThread, thread, turns, pending, recalls, answering,
                   confirmed, credits>>

SwitchDrop(h) ==
    /\ caller[h].pc = "w_drop"
    /\ \/ PopUsed(caller[h].session)
       \/ setting.orphans /\ UNCHANGED pending
    /\ Return(h)
    /\ UNCHANGED <<setting, calls, lock, syncThread, thread, turns, sessionId, recalls, answering,
                   confirmed, credits>>

-----------------------------------------------------------------------------
(* on_session_end: the whole barrier under _dispatch_lock. *)
BeginEnd(h) ==
    /\ MayCall(h)
    /\ caller' = [caller EXCEPT ![h].pc = "e_lock"]
    /\ UNCHANGED <<setting, lock, syncThread, thread, turns, sessionId, pending, recalls,
                   answering, confirmed, credits>>

(* Mutant: the end of a session only waits, and does not keep others out. *)
EndUnlocked(h) ==
    /\ caller[h].pc = "e_lock"
    /\ caller' = [caller EXCEPT ![h].pc = "e_join", ![h].on = syncThread]
    /\ UNCHANGED <<setting, calls, lock, syncThread, thread, turns, sessionId, pending, recalls,
                   answering, confirmed, credits>>

EndLocked(h) ==
    /\ caller[h].pc = "e_lock"
    /\ lock = Free
    /\ lock' = h
    /\ caller' = [caller EXCEPT ![h].pc = "e_join", ![h].on = syncThread]
    /\ UNCHANGED <<setting, calls, syncThread, thread, turns, sessionId, pending, recalls,
                   answering, confirmed, credits>>

EndJoined(h) ==
    /\ caller[h].pc = "e_join"
    /\ JoinOver(caller[h].on)
    /\ Goto(h, "e_summary")
    /\ UNCHANGED <<setting, calls, lock, syncThread, thread, turns, sessionId, pending, recalls,
                   answering, confirmed, credits>>

(* Summary and reflection are written, every pending recall is dropped. *)
EndClear(h) ==
    /\ caller[h].pc = "e_summary"
    /\ pending' = [s \in Sessions |-> Nothing]
    /\ lock' = IF lock = h THEN Free ELSE lock
    /\ Return(h)
    /\ UNCHANGED <<setting, calls, syncThread, thread, turns, sessionId, recalls, answering,
                   confirmed, credits>>

(* shutdown: joins without the dispatch lock, then drops what is pending. *)
BeginShutdown(h) ==
    /\ MayCall(h)
    /\ caller' = [caller EXCEPT ![h].pc = "d_join", ![h].on = syncThread]
    /\ UNCHANGED <<setting, lock, syncThread, thread, turns, sessionId, pending, recalls,
                   answering, confirmed, credits>>

ShutdownClear(h) ==
    /\ caller[h].pc = "d_join"
    /\ JoinOver(caller[h].on)
    /\ pending' = [s \in Sessions |-> Nothing]
    /\ Return(h)
    /\ UNCHANGED <<setting, calls, lock, syncThread, thread, turns, sessionId, recalls, answering,
                   confirmed, credits>>

-----------------------------------------------------------------------------
BeginCall(h) ==
    BeginPrefetch(h) \/ BeginUsed(h) \/ BeginSync(h) \/ BeginSwitch(h)
    \/ BeginEnd(h) \/ BeginShutdown(h)

ContinueCall(h) ==
    \/ PrefetchFlushed(h) \/ RecallFound(h) \/ RecallEmpty(h)
    \/ UsedMatched(h)
    \/ SyncLocked(h) \/ SyncStart(h)
    \/ SwitchRotate(h) \/ SwitchDrop(h)
    \/ EndLocked(h) \/ EndJoined(h) \/ EndClear(h)
    \/ ShutdownClear(h)

ThreadStep(t) == ThreadWritten(t) \/ ThreadPop(t) \/ ThreadMark(t)

Quiet ==
    /\ \A h \in Hosts : caller[h].pc = "idle"
    /\ \A t \in Turns : t <= turns => thread[t].pc = "done"

(* The bound on calls is reached and nothing is left to do. *)
Finished == calls = setting.bound /\ Quiet /\ UNCHANGED vars

Next ==
    \/ \E h \in Hosts : BeginCall(h) \/ ContinueCall(h)
    \/ \E t \in Turns : ThreadStep(t)
    \/ Finished

Spec == Init /\ [][Next]_vars

(* A host thread inside a call goes on; whether it calls is its own affair. *)
HostsGoOn == \A h \in Hosts : WF_vars(ContinueCall(h))

(* Where threads are not slow they finish their model calls and writes; a    *)
(* slow one may hang for ever.                                               *)
ThreadsGoOn == \A t \in Turns : WF_vars(~setting.slow /\ ThreadStep(t))

FairSpec == Spec /\ HostsGoOn /\ ThreadsGoOn

-----------------------------------------------------------------------------
(* Properties. *)

(* "so writes remain ordered per session": two turns are never written at    *)
(* the same time, and a turn starts being written only when every earlier    *)
(* one is through -- while no thread outlives a join.                        *)
Begun(t) == thread[t].pc # "none"

WritesOrdered ==
    ~setting.slow =>
        \A t, u \in Turns : t < u /\ Begun(u) => thread[t].pc = "done"

(* prefetch flushes "so that the previous turn's memories are visible to the *)
(* upcoming recall".  It joins only the thread started last: that every turn *)
(* begun before it is written too rests on the order sync_turn keeps, and on *)
(* no turn started meanwhile being mistaken for one that was waited for.     *)
RecallSeesTurns ==
    ~setting.slow =>
        \A h \in Hosts : caller[h].pc = "p_recall" =>
            \A t \in Turns : t <= caller[h].on => thread[t].pc = "done"

(* on_session_end "holds _dispatch_lock for the whole barrier so a           *)
(* concurrent sync_turn cannot launch a new write thread between our join    *)
(* and the summary write".                                                   *)
EndIsBarrier ==
    ~setting.slow =>
        \A h \in Hosts : caller[h].pc = "e_summary" =>
            \A t \in Turns : Begun(t) => thread[t].pc = "done"

(* on_recall_used consumes the ledger "so sync_turn's legacy crediting       *)
(* becomes a no-op (no double-credit)": whoever comes first, and however     *)
(* late a thread is, a recall is credited once.                              *)
NoDoubleCredit == \A r \in Recalls : credits[r] <= 1

(* One host thread, no thread outliving a join, every turn answered: what    *)
(* the two properties below need.                                            *)
Orderly ==
    /\ Cardinality(setting.hosts) = 1
    /\ ~setting.slow /\ ~setting.interrupts /\ ~setting.orphans

(* Recalled ids are credited "only when we actually forwarded the recall to  *)
(* the LLM and got a response back".                                         *)
OnlyConfirmedCredited ==
    Orderly => \A r \in Recalls : credits[r] > 0 => r \in confirmed

(* A completed turn's recall is not left to a later turn: once no call is    *)
(* running and no turn is being answered, nothing confirmed is pending.      *)
NothingLeftPending ==
    Orderly /\ Quiet => \A s \in Sessions : pending[s] \notin confirmed

(* What a recall brought is credited once, for an answer that was given, and   *)
(* with the turn it was made for.                                             *)
CreditSound == NoDoubleCredit /\ OnlyConfirmedCredited /\ NothingLeftPending

(* "hermes-agent must not be blocked by the write path": every call returns, *)
(* even when a turn's thread hangs.                                          *)
CallsReturn == \A h \in Hosts : caller[h].pc # "idle" ~> caller[h].pc = "idle"
=============================================================================
