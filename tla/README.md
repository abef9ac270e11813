# hermes-memory-lancedb-pro in TLA+

A verification development of `src/hermes_memory_lancedb_pro`: a long-term
memory plugin for an agent host.  Memories are rows of a LanceDB table; the
plugin recalls them before a turn, writes turns and facts after it, keeps
recovery anchors across context compressions, reflects on a session at its end,
and keeps a durable ledger of long tasks.  The modules here model the parts
whose correctness depends on the order in which threads and processes do
things, or on rules that interact; the text processing around them is not
modelled.

All paths below are under `src/src/hermes_memory_lancedb_pro/` unless said
otherwise.

## 1. Inventory of the system

| Component | State | Operations | What it touches | What makes it hard | What makes it correct |
|---|---|---|---|---|---|
| Memory table (`store.py`, `_sql.py`) | rows with a metadata JSON (state, superseded_by, counters, promotion ledger, valid_until) | store, store_many, store_raw, update, supersede, forget, increment_access_count, mark_recall_used, purge_archived, purge_expired, searches | every other component | no lock: each call is read, change the copy, write back by id; several threads and processes | a memory keeps its current version; chains lead to it; hidden rows stay hidden; counters are earned |
| Compaction gate (`store.py:476-544`) | a counter, two locks | `_table_add`, `_maybe_optimize`, `optimize` | every write path | counter under one lock, compaction under another that nobody waits for | one writer per threshold crossing; no overlap; a backlog bounded by the compactions missed |
| Store singleton, embedder (`store.py:296-470`) | instance map, table, model | get_instance, `_ensure_table`, `_load_embedder` | all threads; other processes create the same table | double-checked locks, failed attempts | one store per path; its model loaded once, and before it is used |
| Provider, turns (`provider.py`) | `_sync_thread`, `_dispatch_lock`, pending recalls per session, session id | initialize, prefetch, sync_turn, on_recall_used, on_session_switch, on_pre_compress, on_session_end, shutdown | the table, the extractor, the host | a daemon thread per turn, joins with a time limit, several host threads | turns ordered, and seen by the next recall; session end a barrier; a recall credited once; no call blocks for ever |
| Provider, anchors (`provider.py:944-1073`) | `active_task` rows, conversation id | anchor if needed, archive the own ones | the table, shared by conversations | list, then store; turn thread against compression and reset | one anchor, none after a reset, always one after a compression |
| Task ledger (`task_ledger.py`, CLI) | a directory per task: `state.json`, `results.jsonl`, `events.jsonl` | create, advance, complete, hold, unhold, pin | the file system, the table (pins) | no lock, two files, processes that die | no result lost; completion sticks |
| Task GC (`task_gc.py`, `provider.py:857-941`) | `archive/`, cooldown file | collect, purge the archive, remove pins | the ledger, the table | decides on what it read earlier | no running task goes; no pin dangles |
| Provider, recall text (`_do_recall` of `provider.py`) | none of its own | search, time window, session anchors, guardrails | retriever, table | several reads of a table that others change | what is injected may be; the task framing is among it |
| Session summary, reflection (`provider.py`, `reflection/`) | reflection rows, a cache per session in the provider | summarise and reflect at session end, load, filter by owner | table, LLM, compressor | rows written one by one, any may fail; the cache is filled outside its lock | every agent is told its own lines; the cache is not older than the last session end |
| Session-end maintenance (`provider.py:565-598, 820-854`) | cooldown files | purge, compact, GC, at most once per cooldown | table, ledger | check, work, record; processes that die | a run that raised or died is not recorded |
| Compactor (`memory_compactor.py`) | none of its own | snapshot, cluster, store merged, forget members | the table | works on a snapshot; several writes | no fact lost |
| Smart extractor (`smart_extractor.py`, `batch_dedup.py`) | rate limiter, statistics | extract, dedup, create / merge / supersede / support | LLM, table, admission control | parallel workers | no duplicates from one turn; every candidate accounted for |
| Admission control (`admission_control.py`) | rejection audit | evaluate a candidate | table | none (a score) | decision follows the thresholds |
| Retriever, decay (`retriever.py`, `decay.py`) | a call counter, the reranker's kill switch, the full-text index | retrieve, fuse, rerank, tier evaluation every N calls | table | counter and switch shared by threads without a lock; a stale index | core is earned; no ghost row; a refused reranker is left alone |
| Smart metadata (`smart_metadata.py`) | none | normalise, support counters | callers | none | bounded counters, idempotent normalisation |
| Session compressor (`session_compressor.py`) | none | pick the texts that fit | provider | none | budget kept, order kept |
| Retry, LLM client (`reflection/retry.py`, `llm_client.py`) | OAuth token | one retry after a transient failure | network | none | at most two attempts |
| Backup, restore, set-up (`_cli.py`, `store.salvage_scan`) | an export file | export, salvage, import, init, reset | the table and its versions on disk | several writes, files that get lost, processes that die | a backup is one table, up to its limit, or refused; a restore gives it back; init spares a table that opens |
| CLI, host integration (`_cli.py`, `__init__.py`, `task_skill.py`, `jmunch.py`) | none | argument parsing and printing around the above | everything | a process of its own beside the host | - |

Interactions: the host calls the provider (one thread per conversation); the
provider recalls synchronously and writes through a daemon thread per turn;
that thread stores turns (or runs the extractor), credits the recall and
writes the anchor, all by calls on the table; session end joins the thread,
writes the summary and the reflection, and runs purge, compaction and task GC.
The CLI is another process on the same table and ledger.  `PROJECT.json` lists
the hazards, each at its line, with the properties that would show it going
wrong, or the reason there is none.

## 2. Modules

| Module | Models | State and actions against the code |
|---|---|---|
| `MemoryStore` | every call that changes the table | `rows` is the table, `op[c]` the locals of the call client `c` is in.  One action per table operation: `Begin`/`WalkHop`/`WalkEnd` are `get_by_id`; `SupersedeAdd`/`SupersedeArchive` the two writes of `_supersede`; `UpdateWrite`, `RetireWrite`, `ForgetDelete`, `IncrementWrite` the one write of each call; `MarkRead`/`MarkWrite` and `PurgeScan`/`PurgeDelete` the batch calls.  `Abort` is an exception or the death of the process between two of them.  `origin`, `gone`, `usedIn` are history |
| `VersionedMemory` | what the table promises | one current version per memory, replaced only by a later one or given up |
| `MemoryStoreRefinement` | the table implements the promise | refinement mapping: the newest version of a lineage is current while it is stored and not archived |
| `MCMemoryStore` | TLC instance | symmetry of clients and of session ids |
| `OptimizeGate` | `_table_add`, `_maybe_optimize`, `optimize` | the counter is read and written in two steps, so the lock matters; `start` and `merged` say what the running and the last successful compaction began with, `missed` counts the crossings skipped or failed (history) |
| `StoreStart` | `get_instance`, `_ensure_table`, `_load_embedder` composed with the gate | `at[w]` is how far thread `w` has come; only a thread that holds an opened store with a model takes a step of `OptimizeGate` |
| `ProviderTurns`, `MCProviderTurns` | the turn pipeline of the provider | `caller[h]` is the provider call of host thread `h`, `thread[t]` the daemon thread of turn `t`; `lock` is `_dispatch_lock`, `pending` is `_pending_used_ids` |
| `SessionAnchors`, `MCSessionAnchors` | the recovery anchors | `host[p]` is the call of provider `p`, `turn[t]` a turn thread on its way to the anchor; `Listings` is what `list_memories` may return |
| `Recall`, `MCRecall` | `_do_recall`, the retrieval pipeline, tier rules | `rd[r]` is the recall reader `r` is in, `rows` and `index` the table and the state of it the full-text index has, `disabled` the reranker's kill switch, `callCount` the lifecycle counter |
| `SessionCompressor` | `compress_texts` | a function from a transcript (reasons and lengths) to the set of the indices kept |
| `SessionEnd`, `MCSessionEnd` | session end, reflection, cooldowns; EXTENDS `SessionCompressor` | `ender[a]` and `recaller[a]` are the session end and the recall of process `a`, `cache[a]` its `_reflection_cache`, `Reads(a)` the rows the row limits may leave it, `stamp[j]` the cooldown file of job `j` |
| `Transfer`, `MCTransfer` | export, salvage, import, init, reset | `db[s]` is a table as LanceDB keeps it, a few versions of which may have lost fragments; `cmd` is the command that runs, `file` the export file; `AtMost` is what a scan with a limit may return |
| `Curation`, `MCCuration` | the smart extractor and the compactor | a row is the set of facts its text states; `job[k]` is the processing of candidate `k`, `comp` the compaction run, `turn` the extraction, `stats` the `ExtractionStats`; `known`, `replaced` are history |
| `TaskLedger` | ledger, GC, pins | `op[c]` is the operation of process `c` with the state it loaded; `dir`, `archive` the directories; `taken`, `purged`, `logged`, `completed`, `stale` are history |

Proofs are in modules of their own: `MemoryStoreProofs` (also that of the
refinement), `MaintenanceProofs` (those of `OptimizeGate`, `StoreStart` and `Curation`),
`ProviderTurnsProofs`, `SessionAnchorsProofs`, `RecallProofs`,
`SessionEndProofs`, `TransferProofs` and `TaskLedgerProofs` (section 4).

How they fit.  A call on the table is one step everywhere but in `MemoryStore`,
which takes it apart, and in `Recall`, which takes the reads apart.
`ProviderTurns`, `SessionAnchors`, `Recall` and `SessionEnd` are views of one
program: the first has the threads, the dispatch lock and the crediting of
recalls, and that a session end waits for the last turn; the second the anchors
the same threads write; the third what a recall returns; the fourth what a
session end does once it has waited.  None needs the detail of another: the
anchor step is part of `ThreadWritten`, crediting does not touch anchors, and a
recall only reads.  `StoreStart` composes with `OptimizeGate` (the store a
thread got is the store whose gate it writes through), and `SessionEnd` with
`SessionCompressor`.

Where a property holds only under a circumstance (no thread outlives its join,
nothing raises, one process at a time), the circumstance is a constant record
chosen at the start of a behaviour (`setting`, `overlaps`), so that one run has
all of them and the property names the one it needs.

In `Curation` a text is the set of facts it states, and a model may answer
anything but merge two texts into one that states less.  The searches of
`curation` return every visible memory, as they do in a store of few;
`second_profile` is about the other case.

Abstractions.  A text is its row's id; ids are numbers in creation order (the
code draws uuids).  Times are ticks.  A model call, an embedding and a search
change nothing and are left out.  `update` without text is one action whatever
field it changes.  `mark_recall_used` reads one snapshot of all ids.  In
`TaskLedger` a directory is moved or removed in one step; a dry run changes
nothing and is left out; `updated_at` is not tracked (see `PastGrace`).  In
`Recall` a ranking is a set: which rows a search, a score or a limit keeps is a
choice among those the code lets through, and a decay score is one of the five
ranges the tier rules tell apart, for which importance, age and count leave
certain ones open.  Categories beyond those the guardrails name, and scopes,
are left out.  In `SessionEnd` the ranking, the age and the number of the lines
told only drop lines of the rows that were read, and are left out.  The limits
on rows (200 scanned, `provider.py:1499`; 160 kept, `reflection/store.py:661`)
are not: a resolved item that is left out no longer keeps its line away, so in
a crowded store (`setting.crowded`) a recall reads any of its rows.  A run of the
maintenance does its work, falls short of it unnoticed, or raises.  In
`Transfer` a fragment holds one row, and `has_id` and `store_raw` are one step
(nothing else writes that id).

## 3. What is checked

| Run | Instance | Shows |
|---|---|---|
| `store_overlap` | 2 clients, 4 calls, 2 sessions, 2 ticks, calls may die anywhere; all calls but retire | `ChainsForward`, `NewestSurvives`, `CallersReachLive`, `OneCountPerCooldown`, `PromotionEarned`, and that the table implements `VersionedMemory` (`ImplementsPromise`) |
| `store_alone` | 1 client, 6 calls, undisturbed; all calls but increment and purge_expired | `OneVisibleVersion`, `ForgottenStaysForgotten`, `ArchivedStaysHidden`, `PromotedWhenEarned` |
| `optimize_gate` | 3 threads, every 2nd write, 7 writes, 2 stores made, the table there or not, compactions that fail | `ElectionsExact`, `SingleFlight`, `BacklogBounded`, `StartOnce`; liveness `RunLockFreed` |
| `provider_turns` | 1 host with 7 calls; 2 hosts with 4; 2 hosts with slow threads, interrupted turns and orphan switches | `WritesOrdered`, `EndIsBarrier`, `CreditSound`, `RecallSeesTurns`; liveness `CallsReturn` |
| `session_anchors` | 2 conversations, 3 rows, 2 turns, 3 conversation ids; smooth with a provider without session id, faulty, slow | `OneAnchor`, `ResetLeavesNone`, `RecoveryStays`, `OthersUndisturbed` |
| `recall` | 3 memories, 2 readers, 2 sessions, an evaluation every 2 recalls, thresholds 1 and 2, 1 anchor; settings for the tier rules, for shared sessions, for a refused reranker and for a table that changes meanwhile | `RightlyInjected`, `FramingKept`, `RefusalIsFinal`, `EvalsOnTime` |
| `session_end` | 2 agents, 1 line; reflections that fail, agents told of one another's, stores with more rows than a recall reads, overlaps, maintenance with deaths, and every transcript of at most 5 texts against a budget of 5 | `ToldRightly`, `FreshBlock`, `RecordHonest`, `SummarySound` |
| `transfer` | 2 stores, 2 texts, 1 seed, 5 rows, 3 versions kept, an init that fetches 2 rows; copying, whole or one row of it, salvaging one row, rescuing with or without pylance, init and reset of tables an init does not see all of; reads that fail | `ExportHonest`, `RestoreExact`, `InitSpares` |
| `task_ledger` | 2 processes, 1 task, 5 operations, 3 ticks, both GC modes; alone and overlapping with deaths | `ProgressKept`, `NoResultLost`, `RunningNeverTouched`, `PinsResolve` |
| `curation` | 2 facts, 2 turns of at most 2 candidates, 5 rows, 1 compaction; one by one with failures and deaths; one by one without, also beside the compactor; 2 workers beside the compactor | `CurationSound` |
| `store_hidden_increment` | 1 client, 3 calls | violated: an increment by an old id unarchives the old version (`ArchivedStaysHidden`) |
| `second_profile` | the profile alone, 5 turns, a search that fetches 3 rows and returns 1 | violated: its archived versions crowd the profile out of the search (`OneProfile`) |

Why the bounds are enough.  Two callers and four calls are what the table's
races need: a memory, two overlapping calls about it, and one more that sees
the result; what is proved in section 4 has no bound.  Six calls alone make a
chain of three versions, an old id, and a call by it.  The constants of the
code are scaled to the instance and keep their relation to it: the hop limit
exceeds any chain (as 32 does), cooldown and retention are one tick, the
promotion threshold is 2 of 2 sessions, the compaction threshold is crossed
three times.  Two stores made are one that failed to open and one that did.
`session_anchors` has lists long enough for all rows, as 20 is for a handful of
conversations.  In `recall` three memories are the session's
framing, a memory of another session and the newest one, which is in turn a
running task, a private note, noise and one that is shared; two readers are the least that can pass one
another at the kill switch and at the counter; counts stop at the core
threshold, above which nothing is told apart.  In `session_end` one line owned
by two agents is the least in which one agent's line can reach the other, and
five texts are two boundaries, a pair and one more.  In `transfer` two stores
are a source and a target, and tables of up to five rows are larger than the
limit of an export (1) and the fetch of an init (2), as real ones are than 33.
Two candidates, two facts and a compaction are the
least in which a merge, a supersede and a deletion meet on one memory; five
rows let both turns store or merge both and the compaction add its memory.
Every property has a mutant of the code in its module (marked `Mutant`) under
which its run fails.

Deadlock is checked in `provider_turns`, `optimize_gate` and `recall`, where a
blocked thread would be an error and reaching the bound is a step of its own;
the other components have no blocking operation, and their runs simply stop at
the bound.

Fairness.  `ProviderTurns`: a host thread inside a call goes on (a live thread
is scheduled; every wait in the code has a time limit or is for a lock whose
holder goes on), and where the setting says that threads are not slow a turn
thread goes on; a slow thread may hang for ever and `CallsReturn` must hold
nevertheless.  `StoreStart` (`FairStartSpec`): a writer inside `_table_add` goes
on and a compaction ends, one way or the other.  Nobody is obliged to make a call.

What the code does not promise, found while stating the properties:

- Two overlapping marks of one memory lose one of the sessions, so
  `PromotedWhenEarned` is for a lone caller; only `PromotionEarned` holds under
  overlap.  A recall credited after its row was superseded counts for the
  archived row.
- A metadata update that overlaps a supersede or a retirement brings the
  archived row back (as a second visible version, or a retired anchor);
  `ImplementsPromise` still holds for the former because the newest version
  stays the current one, and `store_overlap` leaves the latter (`retire`) out.
- A forget that overlaps a supersede deletes the old version only.
- `get_by_id` stops after 32 hops and returns an archived row as if it were
  live.
- A process that dies between creating the table and its full-text index leaves
  a table without one.
- A flush that gives up after two seconds lets a reset miss an anchor written
  afterwards, and a compression write a second one: `OneAnchor` and
  `ResetLeavesNone` are for threads that end in time.  Beyond 20 listed
  active-task memories a conversation may get a second anchor too, and two
  providers without a session id share the empty conversation: they may have an
  anchor each, and a reset of one archives every anchor.
- A turn that is interrupted after its recall leaves the recall pending; the
  next turn of the session credits it.
- The "first" anchors of a recall are the oldest rows it may see, so other
  sessions' core memories, active-task rows and noise use up their places.
- The floors of the decay score for core and working memories exceed the
  thresholds of a demotion by score; a peripheral memory may become core in one
  step; and a verdict reached on an earlier read overwrites a newer tier.
- The lifecycle counter misses or doubles an evaluation when recalls overlap:
  `EvalsOnTime` is for recalls that do not.  The vector hit farthest away is
  dropped by the minimum score, whatever the query.
- A crossing of the compaction threshold is skipped while a compaction runs,
  and one whose `optimize` fails is not tried again before the next: each may
  cost another cycle of fragments, so the backlog has no bound but the one
  `BacklogBounded` gives in terms of these.
- A reflection that could not be loaded is cached as an empty block for the
  session, and a recall that overlaps a session end caches the block from before
  it.
- A line that was resolved comes back where the agent has more reflection rows
  than the 200 scanned (`provider.py:1499`, in no order) or the 160 kept
  (`reflection/store.py:661`): the resolved item is left out, the legacy row
  that names the line is not.  `ToldRightly` is about the rows a recall reads.  A
  line stored in the legacy row only is hidden when another item of that reflection
  was stored.
- A purge or compaction is recorded also when its work failed: a scan that
  fails finds no rows (`store.py:1658-1665`), and a cluster that cannot be
  stored or a member that cannot be forgotten is skipped
  (`memory_compactor.py:302-316`), so no exception comes to `provider.py:853`,
  and the next try is a day or a week later.  `RecordHonest` is about errors
  that do come, and deaths.
- `should_run_compaction` is outside the `try`, so a cooldown file that is JSON
  but no object raises out of the session end; a record truncates its file
  before it writes, and another process may read it in between as "never run".
- In `compress_texts` a result that is kept also brings its call, though the
  documentation says that pairing only fires for calls; where all texts are
  worthless the fallback may stop short of the minimum, for the budget.
- Import does not look at `metadata.source_id`: importing a file twice into
  another store duplicates every row, and so does a round trip.  A reset seeds
  MEMORY.md again, so a later import doubles the seeds.  `superseded_by` names
  rows that are not imported under their ids.  `--limit` (100000
  rows unless given) cuts an export off silently, so `ExportHonest` says "up to
  the limit".
- A salvage goes on where a read fails: to an older version
  (`store.py:1699-1702`), to single fragments, or, where the versions cannot
  even be listed (`store.py:1687-1691`) and there is no pylance, to nothing,
  and returns 0 each time; with nothing readable it overwrites an older export
  with an empty file.  It prefers an old version that reads cleanly to newer
  fragments that are readable too.  `ExportHonest` asks of it rows of one
  version, and the newest only where nothing failed.
- `init` takes a table whose first 33 rows are archived for an empty one and
  seeds it again, and removes the directory on any error of opening it, a
  passing one included.  `InitSpares` is about tables that open, and promises
  that nothing is seeded only where fewer rows are archived than it fetches;
  without that condition `transfer` violates it.
- A late advance of one process reopens a task completed by another, and two
  collectors may take a task that was re-created in between.  A hold set
  between the collector's read (`task_gc.py:203`) and its move
  (`task_gc.py:236`) does not count, although `task_ledger.py:288` says that
  held tasks are never collected; the promise that does hold under overlap is
  that no running task is collected (`RunningNeverTouched`), and it needs that
  its state was not saved from an old copy, as by an `advance` that began before
  the task was completed.
- A collector that dies before the pins are removed leaves a pin without its
  state; `_refresh_active_task_memories` tolerates it.
- `purge_archived` makes one pass though its documentation speaks of pages.
- Two workers that merge into one memory lose a fact: each makes its text from
  the version it read, and the second update supersedes the first.  Two
  workers with a profile each create one.
- A compaction beside a turn deletes, through the chain, a version newer than
  the one its merged memory contains.
- A merge for which the model has no answer drops the candidate and counts it
  as merged; so does an update that raises.
- Any memory may be the match of a merge: a pattern merged into the profile
  makes the row a pattern.
- `last_successful_iteration` is set by failing iterations too.
- `run_with_reflection_transient_retry_once` is called by nothing.

## 4. What is proved

Every theorem is for all values of the constants that satisfy the modules'
assumptions: any number of threads, providers, memories, agents, calls.  The
assumptions (`BoundsAssumption`, `WorkloadAssumption`, `GateAssumption`,
`NobodyAssumption`, `StartAssumption`, `TurnsAssumption`, `AnchorsAssumption`,
`RecallAssumption`, `CurationAssumption`, `SessionEndAssumption`, `TransferAssumption`,
`LedgerAssumption`) are evaluated by TLC in the runs.
Each proof has an inductive invariant, `IInv` (for the composition of
`StoreStart`, `StartIInv`; for `Curation`, `CurationIInv` and `ProfileOK`), that TLC checked before it was proved, and a step
per action.

`MemoryStoreProofs`: `TypeCorrect`, `ChainsRunForward` (`ChainsForward`),
`NothingIsLost` (`NewestSurvives`).  `NewestSurvives` is not inductive: a call
in flight holds a copy that it will write back, and nothing in the table says
that doing so is harmless.  `IInv` adds it: every copy is of a row of the
lineage its call was given, names only a later stored version (`ForwardFrom`),
and is archived only if its row may be (`MayArchive`: a later version exists,
or somebody retired it; a row may vanish, `MayVanish`, also when its lineage
was given up).  `MayArchive` never becomes false again, which is the lemma
`StaysSafe`; a supersede archives only after it has added, which is `RowCallOK`;
a purge deletes only rows whose copies were archived, which is `BatchOK`.

A second invariant of the same module, `HonestOK`, is about what rows say of
their own history: `ChainsLeadToLive` (`CallersReachLive`), `CountsAreThrottled`
(`OneCountPerCooldown`), `PromotionsAreEarned` (`PromotionEarned`).  A row is
`Honest` with respect to the sessions that used its memory and a time.  A copy
is so as of the time its call read the clock, and both only grow, so it may be
written back at any later time and on any row of the lineage, which is what
`increment_access_count` does.  That walks end is proved by taking the last row
for which they would not (`LeastNumber`), since chains run forward.

There too, the refinement: `PromiseIsKept`, `Spec => ImplementsPromise` for
workloads without `retire`.  A lineage is named by its first version and has a
newest one (`LineageOK`); each step of the table is a write of a later version,
a giving up, or a stutter of `VersionedMemory`.  The assumption is needed: a
late metadata update after a retirement revives a memory that was given up.

And what a lone caller is promised: `OneVersionShows` (`OneVisibleVersion`),
`ArchivedRowsStayHidden` (`ArchivedStaysHidden`), `PromotionsCome`
(`PromotedWhenEarned`) and `ForgettingLasts` (`ForgottenStaysForgotten`).  They
assume `LoneCaller`: one client, whose calls are not cut off, who does not call
`increment_access_count` (it writes to the id it was given, which
`store_hidden_increment` shows to be wrong), and who makes no longer chain than
`get_by_id` walks; a purge of expired rows, which `store_alone` leaves out, is
included.  `LoneOK` says that an older version is archived and points onwards
except between the two writes of a supersede (`LoneTable`), that a call's copies
are what is stored and are of the newest version (`LoneCall`), and that a row not
promoted yet has every session that used it in its ledger, which is shorter than
the threshold and so was never cut (`LoneLedgers`).  `PromotionsCome` needs a
threshold above 0, which turns promotion off.

`MaintenanceProofs`, the gate: `TypeCorrect`, `EveryCrossingElects` (`ElectionsExact`),
`CompactionsExclude` (`SingleFlight`), `BacklogStaysBounded`
(`BacklogBounded`).  The strengthening `LocksOK` says that the counter still has
the value its lock holder read, and that the run lock is held exactly by the
compacting writer; `BacklogOK` counts, by cardinality, what has piled up
(`PiledUp`) since the last successful compaction began, and since the one that
runs did, which is what the first becomes when it succeeds.

`MaintenanceProofs`, the start: `StartImplementsGate` (the composition implements
`OptimizeGate`: a step is one of the gate or leaves its variables alone),
`StartedWritersElect` (so the gate's theorems hold of it) and `StartsOnce`
(`StartOnce`).  The invariant says that who opens a store, or loads a model,
holds the lock of it, and that only registered stores are given to threads.

`MaintenanceProofs`, curation: `CurationTypesAreCorrect`, `FactsSurvive` (of
`CurationSound` that facts are kept and candidates counted, without any
assumption) and `CurationIsSound` (`CurationSound`).
That facts are kept is not inductive, because a merge writes a text made
earlier and the compactor deletes what it scanned earlier.  `FactsOK` adds what
makes both harmless: the match of a merge still states what was read (`ReadOK`),
every planned or doomed member is as it was scanned (`Intact`), and what a doomed
member states is stated by a row that is neither (`Stated`).  For this one
candidate at a time is processed and none beside a compaction, which `WorkOK`
derives from the pool and the setting.  `CountOK` says that the statistics count the
candidates that are over, and that a worker holding `stats_lock` has read the
present value.  `ReachIs` is the lemma about chains: since they lead upwards
(`RowsOK`), the recursive function that follows one exists (`WalkExists`), ends at
a visible row or nowhere, and leaves a visible row where it is.

One profile is an invariant only where the profile is always found.
`CurationIsSound` is about behaviours in which `SearchHasRoom` throughout: a
search may return as many memories as are visible (5 in the code), and fetches as
many rows as there are, archived ones included (15 in the code).  Without room the claim is false, which is the finding of
`second_profile`.  `ProfileOK` adds that a candidate about to store a profile
found none, and that one to be merged holds the only profile, or one that a
compaction has deleted since.

`ProviderTurnsProofs`: `TypeCorrect`, `TurnsInOrder` (`WritesOrdered`),
`RecallsSeeTurns` (`RecallSeesTurns`), `EndsAreBarriers` (`EndIsBarrier`),
`CreditsAreSound` (`CreditSound`).
`BudgetOK` bounds turns and recalls by the calls made, counting the calls in
progress.  `OrderOK` says that only the holder of the dispatch lock starts
turns and that it waits for the one started last; `FlushOK` that a recall
whose join is over has every turn up to the one it joined behind it.  `PlacesOK` says that a
recall not yet credited is in one place: the pending recall of one session, an
`on_recall_used` call, or a turn thread; and `LonersOK` that with one orderly
host what is pending belongs to its session, and is confirmed only while a
thread is about to take it.

`SessionAnchorsProofs`: without any assumption about time, `TypeCorrect`,
`RecoveryIsKept` (`RecoveryStays`) and `OthersAreLeftAlone`
(`OthersUndisturbed`).  They rest on `ConvsOK`, a conversation id is handed out
once, and `TargetsOK`, a reset only goes for its own anchors, whose ids are not
used again.  `OneAnchorEach` (`OneAnchor`) and `ResetsAreClean`
(`ResetLeavesNone`) assume `LongLists` (the listings hold every row) and
`FewAnonymous` (at most one provider without a session id), both of which the
code needs (section 3).  Their invariant is `InTime`: a running thread is its
provider's last one, nothing else of that provider is going on, and nobody else
has its conversation (`RunnersOK`), so that who has found no anchor is the only
one who may write it (`AnchorsOK`), and a reset's targets are all there are
(`ResetsOK`).

`RecallProofs`: `TypeCorrect`, `InjectsRightly` (`RightlyInjected`),
`FramingStays` (`FramingKept`), `RefusedOnce` (`RefusalIsFinal`),
`TiersEvaluatedOnTime` (`EvalsOnTime`).  `TierOK` says that nothing is core
that has not earned it; the histories bound what a reader may still hold;
`RefusalOK` counts, by cardinality, the readers that may still send once or
twice; and `CountOK` that a lone reader has the counter to itself.

`SessionEndProofs`: `TypeCorrect`, `AgentsAreToldRightly` (`ToldRightly`),
`CacheIsFresh` (`FreshBlock`), `RecordsAreHonest` (`RecordHonest`).  `HomeOK`
says that a row, in the table or still to be written, only names lines its
owner's sessions taught it, and so does what a recall or a cache holds; `FreshOK` that a recall which has seen no session end runs beside none, so that
what it caches has seen every row of its process; `RecordOK` counts, by
cardinality, the processes between the end of a job and its record.  That
resolved lines stay away is a fact about `LoadSlices` for any set of rows read
(`SlicesOpen`), and `ReadsOwned` says that these are the agent's.

Also there, `SummariesAreSound` (`SummarySound`), for every transcript and
budget.  The passes of `compress_texts` are functions on `0 .. N`; that each
exists is proved once (`Recursion`), and what each does by induction up to `N`
(`InductionUpTo`).  The lemmas say what the length of a set of texts is when one
is added (`SizeAdds`, `SizeGrows`); that a sorted list of the candidates exists,
by counting those not after each (`CandidatesExist`), and has them all; that
either half of a tool call has the other as its partner; and that a pass only
adds, and only what fits (`TryNextAdds`, `FillUpAdds`).  A text that found no room then
gives way only to shorter ones (`GaveWay`), because what was kept when it was
tried is kept for good.  `SessionEndAssumption` says that the circumstances are
in `Setting`: only an empty text has no length, and it scores nothing.

`TransferProofs`: `ExportsAreHonest` (`ExportHonest`), `RestoresAreExact`
(`RestoreExact`) and `InitsSpare` (`InitSpares`).  `HistoryOK` is about the rows:
a uuid names one text wherever a version, a lost fragment or a line of the file
still has it (`RowsOK`); a row is in one table, and what is visible was never
archived (`OwnRows`); and a memory has one id until something is imported
(`WrittenOnce`).  From these follow `ExportOK`, that what an export is about to
write or has written is a table of the command up to the limit (`Cuts`), and for
a salvage at least rows of one version (`Kept`), and that a table that read when
the command began still reads when it is scanned, whatever the agent did
meanwhile; `ImportOK`, that a line no longer pending is shown by a row or was
retired, and that only the line's own id can stand in its way on a first import;
and `InitOK`, that nothing changed before the seeding.  Tables may be of any
size: that a fetch which returns no visible row has returned archived ones only,
of which there would have to be `InitFetch`, is a matter of counting.  The
assumptions are that the entries of MEMORY.md are finitely many and told apart
from what the agent remembers.

`TaskLedgerProofs`: `TypeCorrect`, `ProgressIsKept` (`ProgressKept`),
`RunningAreSpared` (`RunningNeverTouched`), `NoPinDangles` (`PinsResolve`)
and `NoLineIsLost` (`NoResultLost`).  `LoggedOK` says that the state an
operation has loaded, however old by now, counts only iterations whose lines are
there, and before a save also the line of the iteration to be saved.  `LoneOK`
is about processes that take turns: the loaded state is still the stored one,
and a pinned task that is gone is one the
collection in progress still has to unpin.  `TakenOK` is about any
overlap: a task that was found complete by a collector is complete until it
is taken, unless a save came from an old copy or it was created anew.
`NoResultLost` counts the lines of
an archive by a recursive function, so its proof is by induction: that the
function exists (`CountExists`), is the only one, and changes by what an append
or a purge changes (`CountArchived`, `CountPurged`).  Induction over the natural
numbers is taken from the well-foundedness of their order, in set form
(`LeastNumber`, `Induction`).

Model-checked only: liveness (`CallsReturn`, `RunLockFreed`),
which needs fairness.

## 5. Not modelled

- Admission control (`admission_control.py`): a floating-point score and a log
  of rejections; it keeps no state, and its verdict is a free choice in
  `Curation`.
- Smart metadata (`smart_metadata.py`): field by field defaults and support
  counters; the fields the other modules depend on are modelled where they are
  written.
- Retry and LLM client (`reflection/retry.py`, `llm_client.py`): the retry is
  called by nothing, the client is HTTP, OAuth token files and JSON repair.  Its
  failures are choices of the steps that call it.
- Argument parsing, printing and installation (`_cli.py`, `__init__.py`,
  `task_skill.py`, `jmunch.py`), except export, import, init and reset.
- Scores as numbers, similarity, prompts, envelope stripping, classifiers, the
  injection guard and the extraction of lines from a model's text: what a model
  answers and what is similar are arbitrary choices.

## 6. Plan

Done, in this order: `MemoryStore` with its promise and refinement; its proofs;
`OptimizeGate` and its proofs; `ProviderTurns`; `SessionAnchors`; `TaskLedger`;
`Curation`; `Recall`, `SessionEnd` with `SessionCompressor`, `Transfer`,
`StoreStart`; the proofs of the refinement, of `StoreStart`, `ProviderTurns`,
`SessionAnchors`, `Recall`, `SessionEnd`, `TaskLedger`, a lone caller of the
table, `Transfer`, `SessionCompressor` and `Curation`.

Left: the support counters and the normalisation of
smart metadata against a reference definition, if a property is found that a
unit test would not reach.
