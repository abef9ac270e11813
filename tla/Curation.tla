------------------------------ MODULE Curation ------------------------------
(***************************************************************************)
(* What rewrites the memories on its own: the extractor of                 *)
(* smart_extractor.py, which stores the facts of a turn or merges them     *)
(* into memories it finds, and the compactor of memory_compactor.py, which *)
(* replaces similar memories by one.  A memory is the set of facts its     *)
(* text states.                                                            *)
(*                                                                         *)
(* The candidates of a turn are processed one after the other or by a      *)
(* thread pool.  Each searches, asks the model, then writes; the compactor *)
(* works on a scan.  A call on the store is one step here (MemoryStore has *)
(* its table operations); what the model answers is arbitrary, except that *)
(* a merged text states what both texts state.                             *)
(***************************************************************************)
EXTENDS Integers, FiniteSets, Sequences

CONSTANTS
    Facts,         \* what there is to remember
    Extractions,   \* the candidates a model may extract from a turn: sequences of facts
    MaxCands,      \* MAX_MEMORIES_PER_EXTRACTION
    MaxRows,       \* bound: memories ever stored
    MaxTurns,      \* bound: turns extracted
    MaxRuns,       \* bound: compaction runs
    SearchLimit,   \* MAX_SIMILAR_FOR_PROMPT
    Overfetch,     \* SEARCH_OVERFETCH_MULTIPLIER
    MinCluster,    \* min_cluster_size
    Settings       \* the circumstances of a behaviour, see Setting

(* profile: always merged; versioned: preferences and entities; pattern:     *)
(* may be merged; plain: cases and events.                                   *)
Categories == {"profile", "versioned", "pattern", "plain"}

(* category: what the model calls each fact; workers: dedup_max_workers;     *)
(* limited: the rate limiter may hold the model back; overlap: the compactor *)
(* runs beside a turn; faulty: calls may raise and processes die.            *)
Setting == [category : [Facts -> Categories], workers : Nat \ {0}, limited : BOOLEAN,
            overlap : BOOLEAN, faulty : BOOLEAN]

ASSUME CurationAssumption ==
    /\ MaxRows \in Nat /\ MaxTurns \in Nat /\ MaxRuns \in Nat
    /\ SearchLimit \in Nat \ {0} /\ Overfetch \in Nat \ {0} /\ MinCluster \in Nat \ {0, 1}
    /\ MaxCands \in Nat
    /\ Extractions \subseteq {s \in Seq(Facts) : Len(s) <= MaxCands}
    /\ Settings \subseteq Setting

Ids == 1 .. MaxRows
NoId == 0

Row == [facts : SUBSET Facts, profile : BOOLEAN, archived : BOOLEAN, next : Ids \cup {NoId}]
NoRow == [facts |-> {}]

Outcomes == {"created", "merged", "skipped", "rejected", "supported", "failed"}

VARIABLES
    setting,   \* chosen at the start, then fixed
    rows,      \* the table
    stored,    \* number of rows ever stored
    turn,      \* the candidates of the turn being extracted
    job,       \* where the processing of each candidate is
    stats,     \* ExtractionStats; superseded counts in addition to created
    lock,      \* holder of stats_lock
    comp,      \* the compaction run
    turns,     \* number of turns extracted, bounded by MaxTurns
    runs,      \* number of compaction runs, bounded by MaxRuns
    (* history: *)
    known,     \* facts some visible memory has stated
    replaced   \* of these, the ones a supersede has replaced since

curationVars == <<setting, rows, stored, turn, job, stats, lock, comp, turns, runs, known, replaced>>
others == <<setting, turn, lock, comp, turns, runs>>

Exists(i) == rows[i] # NoRow
Live(i) == Exists(i) /\ ~rows[i].archived
Visible == {i \in Ids : Live(i)}

(* get_by_id: the end of the chain, or NoId when a row is gone. *)
Reach(i) ==
    LET walk[j \in Ids] ==
            IF ~Exists(j) THEN NoId
            ELSE IF rows[j].archived THEN walk[rows[j].next]
            ELSE j
    IN walk[i]

NoTurn == [state |-> "none", cands |-> <<>>, legacy |-> FALSE]
NoJob == [pc |-> "none", match |-> NoId, read |-> {}, outcome |-> "failed", tally |-> 0]
NoRun == [pc |-> "idle", plans |-> {}, snap |-> [i \in Ids |-> {}], todo |-> {}]
NoStats == [o \in Outcomes |-> 0]

Cands == DOMAIN turn.cands
Fact(k) == turn.cands[k]
Kind(k) == setting.category[Fact(k)]

Jobs == 1 .. MaxCands

CurationInit ==
    /\ setting \in Settings
    /\ rows = [i \in Ids |-> NoRow]
    /\ stored = 0
    /\ turn = NoTurn
    /\ job = [k \in Jobs |-> NoJob]
    /\ stats = NoStats
    /\ lock = NoId
    /\ comp = NoRun
    /\ turns = 0 /\ runs = 0
    /\ known = {} /\ replaced = {}

JobGoto(k, pc) == job' = [job EXCEPT ![k].pc = pc]
Outcome(k, pc, o) == job' = [job EXCEPT ![k].pc = pc, ![k].outcome = o]
Target(k, pc, o, i) == job' = [job EXCEPT ![k].pc = pc, ![k].outcome = o, ![k].match = i]

-----------------------------------------------------------------------------
(* Calls on the store. *)

States(facts) == known' = known \cup facts

(* store() *)
StoreRow(facts, profile) ==
    /\ stored < MaxRows    \* bound: the rows of the instance
    /\ stored' = stored + 1
    /\ rows' = [rows EXCEPT ![stored'] =
                  [facts |-> facts, profile |-> profile, archived |-> FALSE, next |-> NoId]]
    /\ States(facts)
    /\ replaced' = replaced \ facts

(* update(i, text = ...): a new version in front of the live one. *)
Supersede(i, facts, profile) ==
    /\ stored < MaxRows
    /\ stored' = stored + 1
    /\ rows' = [rows EXCEPT
                  ![i].archived = TRUE, ![i].next = stored',
                  ![stored'] = [facts |-> facts, profile |-> profile,
                                archived |-> FALSE, next |-> NoId]]
    /\ States(facts)

Unwritten == UNCHANGED <<rows, stored, known, replaced>>

-----------------------------------------------------------------------------
(* extract_and_persist.  Without a model, or over its rate limit, it stores *)
(* the two texts of the turn as they are; otherwise the model extracts      *)
(* candidates, of which near-duplicates are dropped and counted as skipped. *)
Duplicates(s) == {k \in DOMAIN s : \E j \in 1 .. k - 1 : s[j] = s[k]}

Dropped(s, legacy) == IF legacy THEN {{}} ELSE {{}, Duplicates(s)}

BeginTurn ==
    /\ turn.state = "none"
    /\ setting.overlap \/ comp.pc = "idle"
    /\ turns < MaxTurns
    /\ turns' = turns + 1
    /\ \E s \in Extractions, legacy \in {FALSE, setting.limited} :
          /\ turn' = [state |-> "running", cands |-> s, legacy |-> legacy]
          /\ \E dropped \in Dropped(s, legacy) :
                /\ job' = [k \in Jobs |->
                             IF k \in DOMAIN s \ dropped
                             THEN [NoJob EXCEPT !.pc = "wait"] ELSE NoJob]
                /\ stats' = [NoStats EXCEPT !["skipped"] = Cardinality(dropped)]
    /\ UNCHANGED <<setting, rows, stored, lock, comp, runs, known, replaced>>

Busy(k) == job[k].pc \notin {"none", "wait", "done"}

(* The next candidate, when a worker is free. *)
MayStart(k) ==
    /\ job[k].pc = "wait"
    /\ \A j \in 1 .. k - 1 : job[j].pc # "wait"
    /\ Cardinality({j \in Jobs : Busy(j)}) < (IF turn.legacy THEN 1 ELSE setting.workers)

(* Admission control may reject a candidate; one without an embedding, and  *)
(* a text of the fallback, is stored as it is.                              *)
StartJob(k) ==
    /\ MayStart(k)
    /\ \/ ~turn.legacy /\ JobGoto(k, "search")
       \/ ~turn.legacy /\ Outcome(k, "count", "rejected")
       \/ /\ turn.legacy \/ (setting.faulty /\ Kind(k) # "profile")
          /\ Outcome(k, "store", "created")
    /\ UNCHANGED <<rows, stored, stats, known, replaced>> /\ UNCHANGED others

(* search_by_vector fetches the rows nearest to the candidate, archived ones *)
(* among them, Overfetch times as many as are wanted, and returns the first  *)
(* visible ones.  Which rows are near is arbitrary; a failed search is empty.*)
Least(m, n) == IF m < n THEN m ELSE n
Archived == {i \in Ids : Exists(i) /\ rows[i].archived}
Fetched == Least(SearchLimit * Overfetch, Cardinality(Visible) + Cardinality(Archived))

Similar ==
    {S \in SUBSET Visible :
        /\ Cardinality(S) <= SearchLimit
        /\ Cardinality(S) >= Least(SearchLimit, Fetched - Cardinality(Archived))}
        \cup (IF setting.faulty THEN {{}} ELSE {})

ProfilesIn(S) == {i \in S : rows[i].profile}

(* _handle_profile_merge: into the profile among them, else a new one. *)
ProfileSearch(k) ==
    /\ job[k].pc = "search" /\ Kind(k) = "profile"
    /\ \E S \in Similar :
          IF ProfilesIn(S) = {}
          THEN Outcome(k, "store", "created")
          ELSE \E i \in ProfilesIn(S) : Target(k, "merge_read", "merged", i)
    /\ UNCHANGED <<rows, stored, stats, known, replaced>> /\ UNCHANGED others

Mergeable(kind) == kind \in {"versioned", "pattern"}

(* _deduplicate: the model says what the candidate is to one of them;       *)
(* "create" when there are none, or the answer makes no sense.              *)
DedupSearch(k) ==
    /\ job[k].pc = "search" /\ Kind(k) # "profile"
    /\ \/ Outcome(k, "store", "created")  \* create, contextualize, contradict
       \/ \E S \in Similar : \E i \in S :
             \/ Mergeable(Kind(k)) /\ Target(k, "merge_read", "merged", i)
             \/ Outcome(k, "count", "skipped")
             \/ Outcome(k, "count", "supported")    \* only the match's counters change
             \/ Kind(k) = "versioned" /\ Target(k, "supersede", "created", i)
    /\ UNCHANGED <<rows, stored, stats, known, replaced>> /\ UNCHANGED others

(* _handle_merge reads the match and asks the model for one text of both;   *)
(* a match that is gone makes a new memory, an empty answer none.           *)
MergeRead(k) ==
    /\ job[k].pc = "merge_read"
    /\ LET i == Reach(job[k].match) IN
       IF i = NoId THEN JobGoto(k, "store")
       ELSE \/ job' = [job EXCEPT ![k].pc = "merge_write", ![k].read = rows[i].facts]
            \/ JobGoto(k, "count")
    /\ UNCHANGED <<rows, stored, stats, known, replaced>> /\ UNCHANGED others

(* ... and updates it.  A failed update is logged. *)
MergeWrite(k) ==
    /\ job[k].pc = "merge_write"
    /\ LET i == Reach(job[k].match)
           facts == job[k].read \cup {Fact(k)}
       IN \/ /\ i # NoId
             /\ Supersede(i, facts, Kind(k) = "profile")
             /\ replaced' = replaced \ facts
          \/ (i = NoId \/ setting.faulty) /\ Unwritten
    /\ JobGoto(k, "count")
    /\ UNCHANGED stats /\ UNCHANGED others

(* _handle_supersede: the candidate takes the place of the match. *)
SupersedeWrite(k) ==
    /\ job[k].pc = "supersede"
    /\ LET i == Reach(job[k].match) IN
       \/ /\ i # NoId
          /\ Supersede(i, {Fact(k)}, FALSE)
          /\ replaced' = (replaced \cup rows[i].facts) \ {Fact(k)}
       \/ (i = NoId \/ setting.faulty) /\ Unwritten
    /\ JobGoto(k, "count")
    /\ UNCHANGED stats /\ UNCHANGED others

(* _store_candidate; when it raises the candidate is logged, not counted. *)
StoreWrite(k) ==
    /\ job[k].pc = "store"
    /\ \/ /\ StoreRow({Fact(k)}, ~turn.legacy /\ Kind(k) = "profile")
          /\ JobGoto(k, "count")
       \/ /\ setting.faulty
          /\ Outcome(k, "count", "failed")
          /\ Unwritten
    /\ UNCHANGED stats /\ UNCHANGED others

(* with stats_lock: stats.created += local.created, and so on. *)
CountRead(k) ==
    /\ job[k].pc = "count"
    /\ lock = NoId
    /\ lock' = k
    /\ job' = [job EXCEPT ![k].pc = "counting", ![k].tally = stats[job[k].outcome]]
    /\ UNCHANGED <<setting, rows, stored, turn, stats, comp, turns, runs, known, replaced>>

CountWrite(k) ==
    /\ job[k].pc = "counting"
    /\ stats' = [stats EXCEPT ![job[k].outcome] = job[k].tally + 1]
    /\ lock' = NoId
    /\ JobGoto(k, "done")
    /\ UNCHANGED <<setting, rows, stored, turn, comp, turns, runs, known, replaced>>

EndTurn ==
    /\ turn.state = "running"
    /\ \A k \in Jobs : job[k].pc \in {"none", "done"}
    /\ turn' = NoTurn
    /\ job' = [k \in Jobs |-> NoJob]
    /\ stats' = NoStats
    /\ UNCHANGED <<setting, rows, stored, lock, comp, turns, runs, known, replaced>>

-----------------------------------------------------------------------------
(* run_compaction: a scan, then for every cluster of similar memories one   *)
(* merged memory and the deletion of the members.  Which memories are old   *)
(* enough, and similar, is arbitrary.                                       *)
Plans(S) ==
    {P \in SUBSET {C \in SUBSET S : Cardinality(C) >= MinCluster} :
        \A C, D \in P : C # D => C \cap D = {}}

(* build_merged_entry: every line of the members, once. *)
Merged(C) == UNION {comp.snap[i] : i \in C}

CompactScan ==
    /\ comp.pc = "idle"
    /\ setting.overlap \/ turn.state = "none"
    /\ runs < MaxRuns
    /\ runs' = runs + 1
    /\ \E P \in Plans(Visible) \ {{}} :
          comp' = [pc |-> "store", plans |-> P, snap |-> [i \in Ids |-> rows[i].facts],
                   todo |-> {}]
    /\ UNCHANGED <<setting, rows, stored, turn, job, stats, lock, turns, known, replaced>>

(* Mutant: the members go even when the merged memory was not stored. *)
CompactStoreOrNot ==
    /\ comp.pc = "store"
    /\ \E C \in comp.plans :
          /\ comp' = [comp EXCEPT !.plans = @ \ {C}, !.pc = "forget", !.todo = C]
          /\ \/ StoreRow(Merged(C), FALSE)
             \/ setting.faulty /\ Unwritten
    /\ UNCHANGED <<setting, turn, job, stats, lock, turns, runs>>

(* A cluster whose merged memory cannot be stored is left alone. *)
CompactStore ==
    /\ comp.pc = "store"
    /\ \E C \in comp.plans :
          \/ /\ StoreRow(Merged(C), FALSE)
             /\ comp' = [comp EXCEPT !.plans = @ \ {C}, !.pc = "forget", !.todo = C]
          \/ /\ setting.faulty
             /\ comp' = [comp EXCEPT !.plans = @ \ {C}]
             /\ Unwritten
    /\ UNCHANGED <<setting, turn, job, stats, lock, turns, runs>>

(* forget(member): what the chain leads to by now is deleted.  A failure is *)
(* logged and the next member is taken.                                     *)
CompactForget ==
    /\ comp.pc = "forget"
    /\ \E m \in comp.todo :
          /\ comp' = [comp EXCEPT !.todo = @ \ {m}]
          /\ LET i == Reach(m) IN
             \/ i # NoId /\ rows' = [rows EXCEPT ![i] = NoRow]
             \/ (i = NoId \/ setting.faulty) /\ UNCHANGED rows
    /\ UNCHANGED <<setting, stored, turn, job, stats, lock, turns, runs, known, replaced>>

CompactNext ==
    /\ comp.pc = "forget" /\ comp.todo = {}
    /\ comp' = [comp EXCEPT !.pc = "store"]
    /\ UNCHANGED <<setting, rows, stored, turn, job, stats, lock, turns, runs, known, replaced>>

CompactDone ==
    /\ comp.pc = "store" /\ comp.plans = {}
    /\ comp' = NoRun
    /\ UNCHANGED <<setting, rows, stored, turn, job, stats, lock, turns, runs, known, replaced>>

(* The process dies, with the turn's daemon thread and the compaction. *)
Die ==
    /\ setting.faulty
    /\ turn.state = "running" \/ comp.pc # "idle"
    /\ turn' = NoTurn /\ comp' = NoRun
    /\ job' = [k \in Jobs |-> NoJob]
    /\ stats' = NoStats
    /\ lock' = NoId
    /\ UNCHANGED <<setting, rows, stored, turns, runs, known, replaced>>

JobStep(k) ==
    \/ StartJob(k) \/ ProfileSearch(k) \/ DedupSearch(k)
    \/ MergeRead(k) \/ MergeWrite(k) \/ SupersedeWrite(k) \/ StoreWrite(k)
    \/ CountRead(k) \/ CountWrite(k)

CurationNext ==
    \/ BeginTurn \/ EndTurn
    \/ \E k \in Cands : JobStep(k)
    \/ CompactScan \/ CompactStore \/ CompactForget \/ CompactNext \/ CompactDone
    \/ Die

CurationSpec == CurationInit /\ [][CurationNext]_curationVars

-----------------------------------------------------------------------------
(* Properties. *)

(* Every fact the memory has once stated it states still, unless the model  *)
(* has had it replaced.                                                     *)
FactsKept == \A f \in known \ replaced : \E i \in Visible : f \in rows[i].facts

(* Neither a merge nor a compaction loses a fact, wherever it fails or dies *)
(* ("failed to write merged entry" leaves the members alone), as long as    *)
(* the candidates are processed one by one and no compaction runs beside    *)
(* them.                                                                    *)
CurationKeepsFacts == setting.workers = 1 /\ ~setting.overlap => FactsKept

(* "a single user has one profile, even when discussed across many          *)
(* sessions": a candidate is merged into the profile there is, by one       *)
(* worker and when no search fails, also after the profile was compacted.   *)
OneProfile ==
    setting.workers = 1 /\ ~setting.faulty =>
        Cardinality({i \in Visible : rows[i].profile}) <= 1

(* "an ExtractionStats describing what happened": every candidate of the    *)
(* turn is counted under one outcome or was logged as failed, whichever     *)
(* workers count at the same time.                                          *)
Total(s) ==
    s["created"] + s["merged"] + s["skipped"] + s["rejected"] + s["supported"] + s["failed"]

CandidatesCounted ==
    turn.state = "running" /\ (\A k \in Jobs : job[k].pc \in {"none", "done"}) =>
        Total(stats) = Len(turn.cands)

(* What the turns and the compactions leave behind: no fact lost, one profile,*)
(* no candidate unaccounted for.                                              *)
CurationSound == CurationKeepsFacts /\ OneProfile /\ CandidatesCounted
=============================================================================
