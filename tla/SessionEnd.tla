----------------------------- MODULE SessionEnd -----------------------------
(***************************************************************************)
(* The end of a session: on_session_end of provider.py with the session    *)
(* summary (session_compressor.py), the reflection it writes and recalls   *)
(* replay (reflection/), and the maintenance it starts, gated by the       *)
(* cooldown files of memory_compactor.py.                                  *)
(*                                                                         *)
(* Each agent is a process with one provider; all share one store.  In a   *)
(* process a recall may run beside a session end: the recall's reflection  *)
(* block is computed outside _reflection_lock.                             *)
(***************************************************************************)
EXTENDS SessionCompressor, SequencesExt

CONSTANTS
    Agents,        \* agent ids; "main" is the default one
    Lines,         \* texts of reflection lines
    Settings       \* the circumstances of a behaviour, see Setting

Jobs == {"purge", "compact"}        \* each has a cooldown file of its own

(* agents: who runs; ends, recalls: session ends and recalls there are;       *)
(* resolves: lines that get resolved; deaths: processes that die; cooldown:   *)
(* the hours of both jobs, 0 turns them off; clock: ticks of time; learns: an *)
(* LLM is configured; crowded: the store has more reflection rows than a recall  *)
(* reads; transcripts: what the sessions may have been, least and budget:        *)
(* MEMORY_SESSION_SUMMARY_MIN_MESSAGES and _MAX_CHARS, 0 turns it off.           *)
Setting ==
    [agents : SUBSET Agents, ends : Nat, recalls : Nat, resolves : Nat, deaths : Nat,
     cooldown : Nat, clock : Nat, learns : BOOLEAN, crowded : BOOLEAN, least : Nat,
     budget : Nat, transcripts : SUBSET Seq(Text)]

ASSUME SessionEndAssumption ==
    "main" \in Agents /\ IsFiniteSet(Agents) /\ IsFiniteSet(Lines) /\ Settings \subseteq Setting

(* A reflection row: an item for one line, or the combined legacy row, which  *)
(* names all lines of its session.  (Event rows are never loaded.)            *)
Row == [kind : {"invariant", "derived", "legacy"}, agent : Agents,
        invariants : SUBSET Lines, derived : SUBSET Lines, resolved : BOOLEAN]

NoTime == -1      \* a missing or malformed cooldown file
NoBlock == [invariants |-> {}, derived |-> {}, saw |-> 0, dirty |-> TRUE, held |-> FALSE]

VARIABLES
    setting,       \* chosen at the start, then fixed
    count,         \* ends, recalls, resolves and deaths so far
    rows,          \* the reflection rows of the store
    ender,         \* the session end of each process
    recaller,      \* the recall of each process
    cache,         \* _reflection_cache
    stamp,         \* the cooldown file of each job
    clock,         \* time.time()
    summary,       \* the last session summary: its transcript and what was kept
    (* history: *)
    learned,       \* the lines each agent's own sessions taught it
    written,       \* number of rows each process has written
    tally          \* how often each job did its work, fell short of it, and was recorded

vars == <<setting, count, rows, ender, recaller, cache, stamp, clock, summary, learned,
          written, tally>>

Idle == [pc |-> "idle", todo |-> <<>>, job |-> "none"]
NoRecall == [pc |-> "idle", block |-> NoBlock, dirty |-> FALSE]

Init ==
    /\ setting \in Settings
    /\ count = [ends |-> 0, recalls |-> 0, resolves |-> 0, deaths |-> 0]
    /\ rows = {}
    /\ ender = [a \in Agents |-> Idle]
    /\ recaller = [a \in Agents |-> NoRecall]
    /\ cache = [a \in Agents |-> NoBlock]
    /\ stamp = [j \in Jobs |-> NoTime]
    /\ clock = 0
    /\ summary = [texts |-> <<>>, kept |-> {}, size |-> 0]
    /\ learned = [a \in Agents |-> [invariants |-> {}, derived |-> {}]]
    /\ written = [a \in Agents |-> 0]
    /\ tally = [j \in Jobs |-> [whole |-> 0, short |-> 0, recorded |-> 0]]

(* One more of something the setting bounds. *)
Spend(what) ==
    /\ count[what] < setting[what]
    /\ count' = [count EXCEPT ![what] = @ + 1]

Goto(a, pc) == ender' = [ender EXCEPT ![a].pc = pc]

-----------------------------------------------------------------------------
(* The reflection of a session. *)

ItemRow(a, kind, line) ==
    [kind |-> kind, agent |-> a, resolved |-> FALSE,
     invariants |-> IF kind = "invariant" THEN {line} ELSE {},
     derived |-> IF kind = "derived" THEN {line} ELSE {}]

(* build_reflection_store_payloads: an item per line, then the legacy row. *)
Payloads(a, invariants, derived) ==
    SetToSeq({ItemRow(a, "invariant", l) : l \in invariants})
      \o SetToSeq({ItemRow(a, "derived", l) : l \in derived})
      \o IF invariants \cup derived = {} THEN <<>>
         ELSE <<[kind |-> "legacy", agent |-> a, invariants |-> invariants,
                 derived |-> derived, resolved |-> FALSE]>>

(* is_owned_by_agent: derived items only of the agent itself, all else also   *)
(* of "main".                                                                 *)
IsOwnedByAgent(row, a) ==
    row.agent = a \/ (row.kind # "derived" /\ row.agent = "main")

(* Mutant: a legacy row shows its derived lines to everyone who may see it.   *)
LegacyDerivedToAll(row, a) == row.derived

(* Derived lines of a legacy row are for the agent that wrote it, and never   *)
(* come from "main".                                                          *)
LegacyDerived(row, a) ==
    IF row.agent = "main" \/ row.agent # a THEN {} ELSE row.derived

Texts(items, kind) ==
    UNION {IF kind = "invariant" THEN r.invariants ELSE r.derived :
             r \in {i \in items : i.kind = kind}}

(* What of a legacy row has not been resolved as an item.                     *)
StillOpen(lines, gone) == lines \ gone

(* Unresolved items of a section; without any, the legacy rows stand in.      *)
Section(open, fallback) == IF open # {} THEN open ELSE fallback

(* list_memories fetches 200 rows in no order, the loader keeps the newest    *)
(* 160 of those it owns: of more rows than that, any may be left out.         *)
Reads(a) ==
    LET mine == {r \in rows : IsOwnedByAgent(r, a)}
    IN IF setting.crowded THEN SUBSET mine ELSE {mine}

(* load_agent_reflection_slices_from_entries, of the rows it has read.        *)
LoadSlices(a, read) ==
    LET items  == {r \in read : r.kind # "legacy"}
        legacy == {r \in read : r.kind = "legacy"}
        open   == {r \in items : ~r.resolved}
        gone(kind) == Texts(items \ open, kind)
        unique == \E r \in legacy : \/ StillOpen(r.invariants, gone("invariant")) # {}
                                    \/ StillOpen(r.derived, gone("derived")) # {}
        suppress == items # {} /\ open = {} /\ ~unique
    IN IF suppress THEN [invariants |-> {}, derived |-> {}]
       ELSE [invariants |-> Section(Texts(open, "invariant"),
                 UNION {StillOpen(r.invariants, gone("invariant")) : r \in legacy}),
             derived |-> Section(Texts(open, "derived"),
                 UNION {StillOpen(LegacyDerived(r, a), gone("derived")) : r \in legacy})]

-----------------------------------------------------------------------------
(* on_session_end.  _dispatch_lock is held until the pending ledger is clear; *)
(* the join of the turn thread and that ledger are in ProviderTurns.          *)
Locked(a) == ender[a].pc \in {"summary", "reflect", "payloads", "clear"}

BeginEnd(a) ==
    /\ a \in setting.agents /\ ender[a].pc = "idle"
    /\ Spend("ends")
    /\ Goto(a, "summary")
    /\ recaller' = [recaller EXCEPT ![a].dirty = TRUE]
    /\ UNCHANGED <<setting, rows, cache, stamp, clock, summary, learned, written, tally>>

(* _write_session_summary: short sessions have none; the stored text is cut    *)
(* at twice the budget; an error leaves it unwritten.                          *)
WriteSummary(a) ==
    /\ ender[a].pc = "summary"
    /\ Goto(a, "reflect")
    /\ \/ UNCHANGED summary
       \/ /\ setting.budget > 0
          /\ \E texts \in setting.transcripts :
                LET kept == CompressTexts(texts, setting.budget)
                    size == Size(texts, kept) + Cardinality(kept) - 1
                IN /\ Len(texts) >= setting.least /\ kept # {}
                   /\ summary' = [texts |-> texts, kept |-> kept,
                                  size |-> IF size > 2 * setting.budget
                                           THEN 2 * setting.budget ELSE size]
    /\ UNCHANGED <<setting, count, rows, recaller, cache, stamp, clock, learned, written, tally>>

(* _maybe_write_reflection: the model's lines, after sanitising; no model, an  *)
(* error or no answer ends it.                                                 *)
Reflect(a) ==
    /\ ender[a].pc = "reflect"
    /\ \/ Goto(a, "clear") /\ UNCHANGED learned
       \/ /\ setting.learns
          /\ \E invariants, derived \in SUBSET Lines :
                /\ ender' = [ender EXCEPT ![a].pc = "payloads",
                                         ![a].todo = Payloads(a, invariants, derived)]
                /\ learned' = [learned EXCEPT ![a].invariants = @ \cup invariants,
                                             ![a].derived = @ \cup derived]
    /\ UNCHANGED <<setting, count, rows, recaller, cache, stamp, clock, summary, written, tally>>

(* store_reflection_to_lancedb: one payload after the other; one that cannot   *)
(* be embedded or stored, and a legacy row much like another row, is left out. *)
StorePayload(a) ==
    /\ ender[a].pc = "payloads" /\ ender[a].todo # <<>>
    /\ ender' = [ender EXCEPT ![a].todo = Tail(@)]
    /\ \/ UNCHANGED <<rows, written>>
       \/ /\ rows' = rows \cup {Head(ender[a].todo)}
          /\ written' = [written EXCEPT ![a] = @ + 1]
    /\ UNCHANGED <<setting, count, recaller, cache, stamp, clock, summary, learned, tally>>

(* The pending ledger is cleared and _dispatch_lock released.                  *)
PayloadsDone(a) ==
    /\ ender[a].pc = "payloads" /\ ender[a].todo = <<>>
    /\ Goto(a, "clear")
    /\ UNCHANGED <<setting, count, rows, recaller, cache, stamp, clock, summary, learned, written,
                   tally>>

(* Mutant: the cached block is kept.                                           *)
Kept(a) == cache

(* _reflection_cache.clear()                                                   *)
Cleared(a) == [cache EXCEPT ![a] = NoBlock]

ClearCache(a) ==
    /\ ender[a].pc = "clear"
    /\ cache' = Cleared(a)
    /\ ender' = [ender EXCEPT ![a].pc = "check", ![a].job = "purge"]
    /\ UNCHANGED <<setting, count, rows, recaller, stamp, clock, summary, learned, written, tally>>

-----------------------------------------------------------------------------
(* _maybe_auto_purge, then _maybe_auto_compact.                                *)

AfterJob(a) ==
    IF ender[a].job = "purge" THEN [Idle EXCEPT !.pc = "check", !.job = "compact"] ELSE Idle

(* should_run_compaction: a missing or malformed file counts as never run.    *)
Due(j) ==
    /\ setting.cooldown > 0
    /\ stamp[j] = NoTime \/ clock - stamp[j] >= setting.cooldown

CheckJob(a) ==
    /\ ender[a].pc = "check"
    /\ ender' = [ender EXCEPT ![a] = IF Due(ender[a].job) THEN [@ EXCEPT !.pc = "run"]
                                                         ELSE AfterJob(a)]
    /\ UNCHANGED <<setting, count, rows, recaller, cache, stamp, clock, summary, learned, written,
                   tally>>

(* Mutant: a run that failed is recorded too.                                  *)
AfterFailureRecord(a) == [ender[a] EXCEPT !.pc = "open"]

(* The run is not recorded: the next session end tries again.                  *)
AfterFailure(a) == AfterJob(a)

(* The work is done; or less of it, and nobody is told: a scan that fails       *)
(* finds no rows, a cluster that cannot be stored merged is given up, a member  *)
(* that cannot be forgotten is left; or an error comes through.                 *)
RunJob(a) ==
    /\ ender[a].pc = "run"
    /\ \/ /\ Goto(a, "open")
          /\ \E how \in {"whole", "short"} : tally' = [tally EXCEPT ![ender[a].job][how] = @ + 1]
       \/ /\ ender' = [ender EXCEPT ![a] = AfterFailure(a)]
          /\ UNCHANGED tally
    /\ UNCHANGED <<setting, count, rows, recaller, cache, stamp, clock, summary, learned, written>>

(* record_compaction_run: open(..., "w") empties the file, then it is written. *)
OpenStamp(a) ==
    /\ ender[a].pc = "open"
    /\ stamp' = [stamp EXCEPT ![ender[a].job] = NoTime]
    /\ Goto(a, "record")
    /\ UNCHANGED <<setting, count, rows, recaller, cache, clock, summary, learned, written, tally>>

WriteStamp(a) ==
    /\ ender[a].pc = "record"
    /\ stamp' = [stamp EXCEPT ![ender[a].job] = clock]
    /\ tally' = [tally EXCEPT ![ender[a].job].recorded = @ + 1]
    /\ ender' = [ender EXCEPT ![a] = AfterJob(a)]
    /\ UNCHANGED <<setting, count, rows, recaller, cache, clock, summary, learned, written>>

-----------------------------------------------------------------------------
(* _reflection_block of a recall.                                              *)

(* The cached block, if there is one.                                          *)
LookUp(a) ==
    /\ a \in setting.agents /\ recaller[a].pc = "idle"
    /\ Spend("recalls")
    /\ IF cache[a].held THEN UNCHANGED recaller
       ELSE recaller' = [recaller EXCEPT ![a] =
                           [NoRecall EXCEPT !.pc = "load", !.dirty = Locked(a)]]
    /\ UNCHANGED <<setting, rows, ender, cache, stamp, clock, summary, learned, written, tally>>

(* _compute_reflection_block; an error gives an empty block.                   *)
LoadBlock(a) ==
    /\ recaller[a].pc = "load"
    /\ \E read \in Reads(a) :
          LET slices == LoadSlices(a, read) IN
          recaller' = [recaller EXCEPT ![a].pc = "store", ![a].block =
              [invariants |-> slices.invariants, derived |-> slices.derived,
               saw |-> written[a], held |-> TRUE, dirty |-> FALSE]]
    /\ UNCHANGED <<setting, count, rows, ender, cache, stamp, clock, summary, learned, written,
                   tally>>

LoadFails(a) ==
    /\ recaller[a].pc = "load"
    /\ recaller' = [recaller EXCEPT ![a].pc = "store", ![a].block = [NoBlock EXCEPT !.held = TRUE]]
    /\ UNCHANGED <<setting, count, rows, ender, cache, stamp, clock, summary, learned, written,
                   tally>>

StoreBlock(a) ==
    /\ recaller[a].pc = "store"
    /\ cache' = [cache EXCEPT ![a] =
                   [recaller[a].block EXCEPT !.dirty = @ \/ recaller[a].dirty]]
    /\ recaller' = [recaller EXCEPT ![a] = NoRecall]
    /\ UNCHANGED <<setting, count, rows, ender, stamp, clock, summary, learned, written, tally>>

-----------------------------------------------------------------------------
(* A process dies and is started again.                                        *)
Die(a) ==
    /\ a \in setting.agents /\ Spend("deaths")
    /\ ender' = [ender EXCEPT ![a] = Idle]
    /\ recaller' = [recaller EXCEPT ![a] = NoRecall]
    /\ cache' = [cache EXCEPT ![a] = NoBlock]
    /\ UNCHANGED <<setting, rows, stamp, clock, summary, learned, written, tally>>

(* Another tool marks an item as resolved; the plugin only reads the mark.     *)
Resolve(row) ==
    /\ row.kind # "legacy" /\ ~row.resolved
    /\ Spend("resolves")
    /\ rows' = (rows \ {row}) \cup {[row EXCEPT !.resolved = TRUE]}
    /\ UNCHANGED <<setting, ender, recaller, cache, stamp, clock, summary, learned, written, tally>>

Tick ==
    /\ clock < setting.clock
    /\ clock' = clock + 1
    /\ UNCHANGED <<setting, count, rows, ender, recaller, cache, stamp, summary, learned, written,
                   tally>>

EnderStep(a) ==
    \/ BeginEnd(a) \/ WriteSummary(a) \/ Reflect(a) \/ StorePayload(a) \/ PayloadsDone(a)
    \/ ClearCache(a) \/ CheckJob(a) \/ RunJob(a) \/ OpenStamp(a) \/ WriteStamp(a)
RecallStep(a) == LookUp(a) \/ LoadBlock(a) \/ LoadFails(a) \/ StoreBlock(a)

Next ==
    \/ \E a \in Agents : EnderStep(a) \/ RecallStep(a) \/ Die(a)
    \/ \E row \in rows : Resolve(row)
    \/ Tick

Spec == Init /\ [][Next]_vars

-----------------------------------------------------------------------------
(* Properties.                                                                 *)

(* What an agent is told at recall was learned in its own sessions, or is an   *)
(* invariant of "main": no derived line reaches another agent, whichever of    *)
(* the writes of a reflection failed and whichever rows the recall reads.      *)
ReflectionsStayHome ==
    \A a \in Agents : \A told \in {LoadSlices(a, read) : read \in Reads(a)} \cup {cache[a]} :
        /\ told.derived \subseteq learned[a].derived
        /\ told.invariants \subseteq learned[a].invariants \cup learned["main"].invariants

(* Of the rows a recall reads, a line that was resolved is not revived: it is  *)
(* told only where an unresolved one of them says it too, never because a      *)
(* legacy row still names it.  (Where the store is not crowded these are all   *)
(* rows of the agent.  A crowded store may keep the resolved item from the     *)
(* recall and show it the legacy row: then the line comes back.)               *)
ResolvedStaysAway ==
    \A a \in Agents : \A read \in Reads(a) :
        LET told == LoadSlices(a, read)
            Said(kind, resolved) == Texts({r \in read : r.resolved = resolved}, kind)
        IN /\ told.derived \cap Said("derived", TRUE) \subseteq Said("derived", FALSE)
           /\ told.invariants \cap Said("invariant", TRUE) \subseteq Said("invariant", FALSE)

(* What an agent is told is its own to be told, and not what it reads of as    *)
(* resolved.                                                                   *)
ToldRightly == ReflectionsStayHome /\ ResolvedStaysAway

(* Once a session end has returned, a cached block knows everything its        *)
(* process has written, unless the recall that made the block overlapped the   *)
(* end of a session or could not read the rows.                                *)
FreshBlock ==
    \A a \in Agents :
        (cache[a].held /\ ~cache[a].dirty /\ ~Locked(a)) => cache[a].saw = written[a]

(* Every recorded purge or compaction is a run of its own that came to its     *)
(* end: one that raised an error, or whose process died before it was through, *)
(* does not put off the next.  (A run that swallowed its errors is recorded    *)
(* like any other, so this does not say that the work was done.)               *)
RecordHonest == \A j \in Jobs : tally[j].recorded <= tally[j].whole + tally[j].short

(* A summary has the first and the last text and fits the budget, unless these *)
(* two alone do not.                                                           *)
SummaryFits ==
    LET boundaries == Boundaries(summary.texts)
    IN /\ boundaries \subseteq summary.kept
       /\ \/ Size(summary.texts, summary.kept) <= setting.budget
          \/ summary.kept = {i \in summary.kept :
                                i \in boundaries \/ summary.texts[i].size = 0}

(* What a summary drops is worth less than what it keeps, or is longer: a text *)
(* gives way to one with a lower score only where it did not fit, or where the *)
(* other one is half of a tool call.                                           *)
SummaryKeepsTheBest ==
    LET texts == summary.texts IN
    \A d \in Indices(texts) \ summary.kept, k \in summary.kept \ Boundaries(texts) :
        Score(texts, d) > Score(texts, k) =>
            texts[d].size > texts[k].size \/ Partners(texts, k) # {}

(* A summary keeps to its budget, and spends it on the best.                   *)
SummarySound == SummaryFits /\ SummaryKeepsTheBest
=============================================================================
