--------------------------- MODULE SessionAnchors ---------------------------
(***************************************************************************)
(* The recovery anchors of provider.py: an active_task memory per          *)
(* conversation that tells the model, after a context compression, that it *)
(* is in the middle of a session.  Many conversations share one store.     *)
(*                                                                         *)
(* An anchor is written by the turn thread and by on_pre_compress, both by *)
(* "list the active_task memories, store one if there is none"; a reset    *)
(* lists them and archives its own.  Nothing locks the list against the    *)
(* write.  A provider's host makes one call at a time.                     *)
(***************************************************************************)
EXTENDS Integers, FiniteSets

CONSTANTS
    Providers,    \* the provider instances, numbered: one host thread each
    MaxRows,      \* bound: active_task memories stored
    MaxTurns,     \* bound: turns completed
    MaxConvs,     \* bound: conversation ids
    ListLimit,    \* limit of list_memories (20)
    FetchLimit,   \* rows list_memories fetches before it filters (60)
    Settings      \* the circumstances of a behaviour, see Setting

(* anonymous: the providers initialized with an empty session id; slow: a    *)
(* turn thread may outlive the time limit of a flush or join; faulty: a call *)
(* on the store may raise, which the code swallows.                          *)
Setting == [anonymous : SUBSET Providers, slow : BOOLEAN, faulty : BOOLEAN]

ASSUME AnchorsAssumption ==
    /\ MaxRows \in Nat /\ MaxTurns \in Nat /\ MaxConvs \in Nat
    /\ \E n \in 0 .. MaxConvs : Providers = 1 .. n
    /\ ListLimit \in Nat /\ FetchLimit \in Nat
    /\ Settings \subseteq Setting

NoConv == 0           \* the empty conversation id
Conversations == NoConv .. MaxConvs
Ids == 1 .. MaxRows
Turns == 1 .. MaxTurns
NoTurn == 0

(* An active_task memory; a formal pin is one with a state_path. *)
Row == [conv : Conversations, pin : BOOLEAN, archived : BOOLEAN]
NoRow == [conv |-> NoConv]

VARIABLES
    setting,   \* chosen at the start, then fixed
    rows,      \* the active_task memories of the store
    stored,    \* number of rows ever stored
    conv,      \* _conversation_id of each provider
    convs,     \* number of conversation ids handed out
    host,      \* the provider call each host is in
    turn,      \* each turn's daemon thread
    turns,     \* number of turn threads started
    last,      \* _sync_thread of each provider
    (* history: *)
    ended,     \* conversations a reset has ended
    covered    \* providers whose conversation was compressed and goes on, and
               \* for which no pin has been removed since

vars == <<setting, rows, stored, conv, convs, host, turn, turns, last, ended, covered>>

Exists(i) == rows[i] # NoRow
Live(i) == Exists(i) /\ ~rows[i].archived

IdleHost == [pc |-> "idle", targets |-> {}]
NotStarted == [pc |-> "none", conv |-> NoConv]

(* initialize(session_id) seeds the conversation id. *)
Init ==
    /\ setting \in Settings
    /\ rows = [i \in Ids |-> NoRow]
    /\ stored = 0
    /\ conv = [p \in Providers |-> IF p \in setting.anonymous THEN NoConv ELSE p]
    /\ convs = Cardinality(Providers)
    /\ host = [p \in Providers |-> IdleHost]
    /\ turn = [t \in Turns |-> NotStarted]
    /\ turns = 0
    /\ last = [p \in Providers |-> NoTurn]
    /\ ended = {}
    /\ covered = {}

Goto(p, pc) == host' = [host EXCEPT ![p].pc = pc]
Alive(t) == t # NoTurn /\ turn[t].pc # "done"

(* Mutant: nobody waits for the turn thread. *)
NoFlush(p) == TRUE

(* _flush_pending_write, and the join in sync_turn. *)
Flushed(p) == ~Alive(last[p]) \/ setting.slow

-----------------------------------------------------------------------------
(* list_memories(limit, category="active_task"): a fetch of so many rows,   *)
(* archived ones included, in no order of its own; then the archived ones   *)
(* are dropped and the rest is cut to the limit.                            *)
Least(m, n) == IF m < n THEN m ELSE n

Listings ==
    LET all == {i \in Ids : Exists(i)}
        fetches == {S \in SUBSET all :
                      Cardinality(S) = Least(FetchLimit, Cardinality(all))}
    IN UNION {LET live == {i \in S : Live(i)}
              IN {L \in SUBSET live : Cardinality(L) = Least(ListLimit, Cardinality(live))}
              : S \in fetches}

(* Mutant: an anchor of any conversation is taken for one's own. *)
BelongsAnyway(r, c) == TRUE

(* _anchor_belongs *)
Belongs(r, c) == r.pin \/ c = NoConv \/ r.conv = c

(* _auto_anchor_session_if_needed writes an anchor unless a formal pin or an *)
(* anchor of the conversation is listed, or the listing fails.               *)
Needed(listing, c) ==
    \A i \in listing : ~rows[i].pin /\ ~Belongs(rows[i], c)

Verdicts(c) == {Needed(listing, c) : listing \in Listings} \cup (IF setting.faulty THEN {FALSE} ELSE {})

StoreRow(r) ==
    \/ /\ stored < MaxRows    \* bound: the rows of the instance
       /\ stored' = stored + 1
       /\ rows' = [rows EXCEPT ![stored'] = r]
    \/ setting.faulty /\ UNCHANGED <<rows, stored>>

Anchor(c) == [conv |-> c, pin |-> FALSE, archived |-> FALSE]

-----------------------------------------------------------------------------
(* sync_turn: waits for the last turn's thread and starts the next one,     *)
(* which keeps the conversation id of the moment.                           *)
SyncTurn(p) ==
    /\ host[p].pc = "idle"
    /\ turns < MaxTurns
    /\ Flushed(p)
    /\ turns' = turns + 1
    /\ turn' = [turn EXCEPT ![turns'] = [pc |-> "check", conv |-> conv[p]]]
    /\ last' = [last EXCEPT ![p] = turns']
    /\ UNCHANGED <<setting, rows, stored, conv, convs, host, ended, covered>>

TurnCheck(t) ==
    /\ turn[t].pc = "check"
    /\ \E needed \in Verdicts(turn[t].conv) :
          turn' = [turn EXCEPT ![t].pc = IF needed THEN "store" ELSE "done"]
    /\ UNCHANGED <<setting, rows, stored, conv, convs, host, turns, last, ended, covered>>

TurnStore(t) ==
    /\ turn[t].pc = "store"
    /\ StoreRow(Anchor(turn[t].conv))
    /\ turn' = [turn EXCEPT ![t].pc = "done"]
    /\ UNCHANGED <<setting, conv, convs, host, turns, last, ended, covered>>

-----------------------------------------------------------------------------
(* on_pre_compress: flush, then make sure there is an anchor. *)
Compress(p) ==
    /\ host[p].pc = "idle"
    /\ Flushed(p)
    /\ Goto(p, "c_check")
    /\ UNCHANGED <<setting, rows, stored, conv, convs, turn, turns, last, ended, covered>>

CompressCheck(p) ==
    /\ host[p].pc = "c_check"
    /\ \E needed \in Verdicts(conv[p]) :
          IF needed
          THEN Goto(p, "c_store") /\ UNCHANGED covered
          ELSE Goto(p, "idle") /\ covered' = covered \cup {p}
    /\ UNCHANGED <<setting, rows, stored, conv, convs, turn, turns, last, ended>>

CompressStore(p) ==
    /\ host[p].pc = "c_store"
    /\ StoreRow(Anchor(conv[p]))
    /\ Goto(p, "idle")
    /\ covered' = covered \cup {p}
    /\ UNCHANGED <<setting, conv, convs, turn, turns, last, ended>>

-----------------------------------------------------------------------------
(* on_session_switch(reset=True): flush, archive the conversation's anchors *)
(* row by row, take the new session's id as the conversation.               *)
Reset(p) ==
    /\ host[p].pc = "idle"
    /\ convs < MaxConvs
    /\ Flushed(p)
    /\ Goto(p, "r_list")
    /\ UNCHANGED <<setting, rows, stored, conv, convs, turn, turns, last, ended, covered>>

(* Mutant: every auto-anchor is archived. *)
AnyAnchor(r, c) == ~r.pin

OwnAnchor(r, c) == ~r.pin /\ (c = NoConv \/ r.conv = c)

ResetList(p) ==
    /\ host[p].pc = "r_list"
    /\ \E listing \in Listings \cup (IF setting.faulty THEN {{}} ELSE {}) :
          host' = [host EXCEPT ![p] =
                     [pc |-> "r_archive",
                      targets |-> {i \in listing : OwnAnchor(rows[i], conv[p])}]]
    /\ UNCHANGED <<setting, rows, stored, conv, convs, turn, turns, last, ended, covered>>

ResetArchive(p) ==
    /\ host[p].pc = "r_archive"
    /\ \E i \in host[p].targets :
          /\ \/ rows' = IF Exists(i) THEN [rows EXCEPT ![i].archived = TRUE] ELSE rows
             \/ setting.faulty /\ UNCHANGED rows
          /\ host' = [host EXCEPT ![p].targets = @ \ {i}]
    /\ UNCHANGED <<setting, stored, conv, convs, turn, turns, last, ended, covered>>

ResetDone(p) ==
    /\ host[p].pc = "r_archive" /\ host[p].targets = {}
    /\ convs < MaxConvs    \* bound: the conversation ids of the instance
    /\ convs' = convs + 1
    /\ conv' = [conv EXCEPT ![p] = convs']
    /\ ended' = ended \cup {conv[p]}
    /\ covered' = covered \ {p}
    /\ Goto(p, "idle")
    /\ UNCHANGED <<setting, rows, stored, turn, turns, last>>

(* initialize() for another session: no flush, nothing archived. *)
Initialize(p) ==
    /\ host[p].pc = "idle"
    /\ convs < MaxConvs
    /\ convs' = convs + 1
    /\ conv' = [conv EXCEPT ![p] = convs']
    /\ covered' = covered \ {p}
    /\ UNCHANGED <<setting, rows, stored, host, turn, turns, last, ended>>

-----------------------------------------------------------------------------
(* "task pin" of the CLI stores a formal pin; the task GC forgets it. *)
Pin ==
    /\ StoreRow([conv |-> NoConv, pin |-> TRUE, archived |-> FALSE])
    /\ UNCHANGED <<setting, conv, convs, host, turn, turns, last, ended, covered>>

Unpin ==
    /\ \E i \in Ids : Live(i) /\ rows[i].pin /\ rows' = [rows EXCEPT ![i] = NoRow]
    /\ covered' = {}
    /\ UNCHANGED <<setting, stored, conv, convs, host, turn, turns, last, ended>>

HostStep(p) ==
    \/ SyncTurn(p)
    \/ Compress(p) \/ CompressCheck(p) \/ CompressStore(p)
    \/ Reset(p) \/ ResetList(p) \/ ResetArchive(p) \/ ResetDone(p)
    \/ Initialize(p)

Next ==
    \/ \E p \in Providers : HostStep(p)
    \/ \E t \in Turns : TurnCheck(t) \/ TurnStore(t)
    \/ Pin \/ Unpin

Spec == Init /\ [][Next]_vars

-----------------------------------------------------------------------------
(* Properties. *)

AnchorsOf(c) == {i \in Ids : Live(i) /\ ~rows[i].pin /\ rows[i].conv = c}

(* "Idempotent": a turn thread and a compression cannot "both pass the 'no   *)
(* anchor exists' check and create duplicate anchors" -- while the flush     *)
(* really waits for the thread.                                              *)
OneAnchor ==
    ~setting.slow =>
        \A c \in Conversations : Cardinality(AnchorsOf(c)) <= 1

(* A reset "can reliably see (and archive) its auto-anchor": an ended        *)
(* conversation has no live anchor, not even one written by its last turn.   *)
ResetLeavesNone ==
    ~setting.slow /\ ~setting.faulty =>
        \A c \in ended : AnchorsOf(c) = {}

(* "A reset in one conversation must not disturb other conversations         *)
(* sharing the same store": an anchor is archived only by the provider whose *)
(* conversation it belongs to (or one that has no conversation id).          *)
OthersUndisturbed ==
    [][\A i \in Ids : Live(i) /\ rows'[i] # NoRow /\ rows'[i].archived
          => /\ ~rows[i].pin
             /\ \E p \in Providers : /\ host[p].pc = "r_archive"
                                     /\ conv[p] \in {rows[i].conv, NoConv}]_vars

(* on_pre_compress is "the last safe moment to guarantee system_prompt_block *)
(* will have an active-task breadcrumb to surface afterwards": until the     *)
(* conversation is reset there is a pin or an anchor it may see, whatever    *)
(* the other conversations do and however late the turn threads are.  (A     *)
(* provider without a conversation id resets everybody's anchors.)           *)
RecoveryStays ==
    ~setting.faulty /\ setting.anonymous = {} =>
        \A p \in covered : host[p].pc \notin {"r_list", "r_archive"} =>
            \E i \in Ids : Live(i) /\ Belongs(rows[i], conv[p])
=============================================================================
