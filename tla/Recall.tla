------------------------------- MODULE Recall -------------------------------
(***************************************************************************)
(* How a recall finds what it injects: _do_recall of provider.py, the      *)
(* retrieval pipeline and its lifecycle hooks in retriever.py, the scoring *)
(* and tier rules of decay.py and the reads of store.py they make.         *)
(*                                                                         *)
(* Readers share one MemoryRetriever (its reranker switch and its call     *)
(* counter have no lock) and a table that other callers change between two *)
(* reads of one recall.  Rankings are abstracted to sets: which rows a     *)
(* search, a score or a limit keeps is a nondeterministic choice among the *)
(* rows the code lets through.                                             *)
(***************************************************************************)
EXTENDS Integers, FiniteSets

CONSTANTS
    Readers,       \* threads that recall
    Memories,      \* numbers in the order the rows were written (timestamp)
    Sessions,      \* session ids a recall is made for; NoSession is ""
    Settings,      \* the circumstances of a behaviour, see Setting
    EvalEvery,     \* TIER_EVAL_FREQUENCY
    WorkingAccess, CoreAccess,    \* working_ and core_access_threshold
    AnchorLimit    \* the limit of first_ and recent_for_session (2)

NoSession == "none"
Tiers == {"peripheral", "working", "core"}

(* What never changes of a row: its session, whether it is flagged           *)
(* cross_session, its category ("fact", "active_task", or "never" for one in  *)
(* MEMORY_RECALL_NEVER_CATEGORIES), whether its timestamp lies in the window  *)
(* a query may name, whether it reads as noise, its importance, its age and   *)
(* whether it is a session summary.                                           *)
Catalog ==
    [Memories -> [session : Sessions, cross : BOOLEAN,
                  category : {"fact", "active_task", "never"},
                  inWindow : BOOLEAN, noise : BOOLEAN, important : BOOLEAN, old : BOOLEAN,
                  summary : BOOLEAN]]

(* readers and sessions: who recalls, and for which sessions; recalls and     *)
(* events: how many recalls and changes by others there are; start: the rows  *)
(* there are to begin with; online: a reranker may be configured.             *)
Setting == [readers : SUBSET Readers, sessions : SUBSET (Sessions \cup {NoSession}),
            recalls : Nat, events : Nat, start : SUBSET Memories, online : BOOLEAN,
            catalog : Catalog]

ASSUME RecallAssumption ==
    /\ Memories \subseteq Nat
    /\ Settings \subseteq Setting
    /\ EvalEvery \in Nat \ {0} /\ AnchorLimit \in Nat \ {0}
    /\ WorkingAccess \in Nat /\ CoreAccess \in Nat
    /\ IsFiniteSet(Readers) /\ Readers # {}

Row == [state : {"absent", "live", "archived", "deleted"}, tier : Tiers,
        count : 0 .. CoreAccess]    \* bound: counts above the threshold tell nothing

VARIABLES
    setting,             \* chosen at the start, then fixed
    reranker,            \* _active_reranker
    rows,                \* the table
    index,               \* the rows as the full-text index last saw them
    expired,             \* memories whose valid_until has passed
    callCount,           \* _lifecycle_call_count
    disabled,            \* _langsearch_disabled or _google_disabled
    rd,                  \* each reader's call
    answer,              \* what each reader's last recall injected
    recalls, events,     \* number of recalls and of changes by others so far
    (* history, read by no action: *)
    present,             \* what was stored and not archived during the call
    steady,              \* what could be recalled all through the call
    cored,               \* memories somebody set to the core tier by hand
    late,                \* requests sent to the reranker after it was disabled
    tally                \* lifecycles begun, evaluations made, and whether two overlapped

vars == <<setting, reranker, rows, index, expired, callCount, disabled, rd, answer,
          recalls, events, present, steady, cored, late, tally>>
table == <<rows, index, expired, cored>>
history == <<present, steady, cored, late, tally>>

catalog == setting.catalog

-----------------------------------------------------------------------------
(* Which rows a recall may see. *)

(* match_session: no session given, cross_session, a core row, or its own.   *)
MatchSession(m, tier, s) ==
    s = NoSession \/ catalog[m].cross \/ tier = "core" \/ catalog[m].session = s

(* _post_filter: not archived, not expired, of the session.                  *)
Passes(m, row, s) ==
    row.state = "live" /\ m \notin expired /\ MatchSession(m, row.tier, s)

Recallable(s) == {m \in Memories : Passes(m, rows[m], s)}

(* The full-text index answers from what it last saw of a row.               *)
Indexed(s) == {m \in Memories : Passes(m, index[m], s)}

(* check_ids: those that exist and are not archived.                         *)
CheckIds(ids) == {m \in ids : rows[m].state = "live"}

(* The AnchorLimit oldest, or most recently written, of a set of memories.    *)
Oldest(ids) == {m \in ids : Cardinality({k \in ids : k < m}) < AnchorLimit}
MostRecent(ids) == {m \in ids : Cardinality({k \in ids : k > m}) < AnchorLimit}

(* first_for_session and recent_for_session.                                 *)
FirstForSession(s) == Oldest(Recallable(s))
RecentForSession(s) == MostRecent(Recallable(s))

-----------------------------------------------------------------------------
(* decay.py: a composite score lies between two thresholds of the tier rules: *)
(* 1 below .15, 2 below .2, 3 below .4, 4 below .7, 5 from there on.          *)
Composite == 1 .. 5

(* compute_decay_score lifts it to the floor of the row's tier: .45 for core, *)
(* .2 for working.                                                            *)
Floor(tier) == CASE tier = "core" -> 4 [] tier = "working" -> 3 [] OTHER -> 1
ComputeDecayScore(row) == {c \in Composite : c >= Floor(row.tier)}

(* Mutant: the importance of the memory is not asked for.                     *)
EvaluateTierByAccess(m, row, composite) ==
    IF row.count >= CoreAccess /\ composite >= 5 THEN "core" ELSE row.tier

EvaluateTier(m, row, composite) ==
    CASE catalog[m].summary -> row.tier
      [] row.count >= CoreAccess /\ composite >= 5 /\ catalog[m].important -> "core"
      [] row.tier = "core" /\ composite <= 2 /\ row.count < 2 -> "working"
      [] row.tier # "core" /\ (composite <= 1 \/ (catalog[m].old /\ row.count < 2)) -> "peripheral"
      [] row.tier = "peripheral" /\ row.count >= WorkingAccess /\ composite >= 4 -> "working"
      [] OTHER -> row.tier

(* evaluate_all_tiers over list_memories(TIER_EVAL_BATCH), expired rows among  *)
(* them: the rows whose tier is to change, with the new tier.                 *)
Changes(score) ==
    LET verdict == [m \in DOMAIN score |-> EvaluateTier(m, rows[m], score[m])]
    IN {<<m, verdict[m]>> : m \in {k \in DOMAIN score : verdict[k] # rows[k].tier}}

Listed == {m \in Memories : rows[m].state = "live"}

AllChanges ==
    {Changes(score) : score \in {f \in [Listed -> Composite] :
                                   \A m \in Listed : f[m] \in ComputeDecayScore(rows[m])}}

-----------------------------------------------------------------------------
(* _resolve_reranker: which backend the keys and MEMORY_RERANKER choose.      *)
ResolveReranker(langsearch, google, choice) ==
    CASE choice = "langsearch" /\ langsearch -> "langsearch"
      [] choice = "google" /\ google -> "google"
      [] choice = "auto" /\ langsearch /\ ~google -> "langsearch"
      [] choice = "auto" /\ google /\ ~langsearch -> "google"
      [] OTHER -> "none"

Choices == {"disabled", "langsearch", "google", "auto"}

NoCall == [pc |-> "idle", session |-> NoSession, hits |-> {}, more |-> {}, tries |-> 0,
           loaded |-> 0, changes |-> {}]
NoAnswer == [ids |-> {}, session |-> NoSession, cut |-> TRUE]

Init ==
    /\ setting \in Settings
    /\ \E langsearch, google \in BOOLEAN, choice \in Choices :
          reranker = IF setting.online THEN ResolveReranker(langsearch, google, choice)
                                       ELSE "none"
    /\ rows = [m \in Memories |->
                [state |-> IF m \in setting.start THEN "live" ELSE "absent",
                 tier |-> "working", count |-> 0]]
    /\ index = rows
    /\ expired = {}
    /\ callCount = 0
    /\ disabled = FALSE
    /\ rd = [r \in Readers |-> NoCall]
    /\ answer = [r \in Readers |-> NoAnswer]
    /\ recalls = 0 /\ events = 0
    /\ present = [r \in Readers |-> {}] /\ steady = [r \in Readers |-> {}]
    /\ cored = {}
    /\ late = 0
    /\ tally = [lifecycles |-> 0, evals |-> 0, overlap |-> FALSE]

Busy(r) == rd[r].pc # "idle"

(* History: what every running recall could have met so far.  *)
Watch ==
    /\ present' = [r \in Readers |->
                     IF Busy(r) THEN present[r] \cup {m \in Memories : rows'[m].state = "live"}
                     ELSE present[r]]
    /\ steady' = [r \in Readers |->
                    IF Busy(r) THEN {m \in steady[r] : m \in Recallable(rd[r].session)'}
                    ELSE steady[r]]

Goto(r, pc) == rd' = [rd EXCEPT ![r].pc = pc]

-----------------------------------------------------------------------------
(* retrieve(): vector search, then full-text search, each limited to a pool.  *)
Begin(r) ==
    /\ ~Busy(r) /\ r \in setting.readers
    /\ recalls < setting.recalls
    /\ recalls' = recalls + 1
    /\ \E s \in setting.sessions :
          /\ rd' = [rd EXCEPT ![r] = [NoCall EXCEPT !.pc = "vector", !.session = s]]
          /\ steady' = [steady EXCEPT ![r] = Recallable(s)]
    /\ present' = [present EXCEPT ![r] = {m \in Memories : rows[m].state = "live"}]
    /\ answer' = [answer EXCEPT ![r] = NoAnswer]
    /\ UNCHANGED <<setting, reranker, table, callCount, disabled, events, late, tally>>

VectorSearch(r) ==
    /\ rd[r].pc = "vector"
    /\ \E hits \in SUBSET Recallable(rd[r].session) :
          rd' = [rd EXCEPT ![r].pc = "bm25", ![r].hits = hits]
    /\ UNCHANGED <<setting, reranker, table, callCount, disabled, answer, recalls,
                   events, history>>

(* Only what the vector search did not find needs checking.                   *)
Bm25Search(r) ==
    /\ rd[r].pc = "bm25"
    /\ \E more \in SUBSET (Indexed(rd[r].session) \ rd[r].hits) :
          rd' = [rd EXCEPT ![r].pc = "fuse", ![r].more = more]
    /\ UNCHANGED <<setting, reranker, table, callCount, disabled, answer, recalls,
                   events, history>>

(* An exception of a search: _do_recall goes on with no results.              *)
SearchFails(r) ==
    /\ rd[r].pc \in {"vector", "bm25", "fuse"}
    /\ rd' = [rd EXCEPT ![r].pc = "first", ![r].hits = {}, ![r].more = {}]
    /\ UNCHANGED <<setting, reranker, table, callCount, disabled, answer, recalls,
                   events, history>>

(* _filter_bm25_ghosts, then the fusion of both lists.                        *)
FusedHits(r) == rd[r].hits \cup CheckIds(rd[r].more)

(* Noise is dropped; entity boost and scores only order the hits, for what    *)
(* the hard minimum drops see Cut.  Nothing found ends retrieve before its     *)
(* lifecycle hooks.                                                            *)
Fuse(r) ==
    /\ rd[r].pc = "fuse"
    /\ LET fused == FusedHits(r) IN
       rd' = [rd EXCEPT ![r].pc = IF fused = {} THEN "first" ELSE "rerank",
                        ![r].hits = {m \in fused : ~catalog[m].noise}, ![r].more = {}]
    /\ UNCHANGED <<setting, reranker, table, callCount, disabled, answer, recalls,
                   events, history>>

-----------------------------------------------------------------------------
(* _rerank: one or no result, no backend, or a disabled one leave the order.  *)

(* Mutant: the switch is not looked at.                                       *)
WantsRerankAlways(r) == reranker # "none" /\ Cardinality(rd[r].hits) > 1

WantsRerank(r) == reranker # "none" /\ ~disabled /\ Cardinality(rd[r].hits) > 1

Rerank(r) ==
    /\ rd[r].pc = "rerank"
    /\ Goto(r, IF ~WantsRerank(r) THEN "cut"
               ELSE IF reranker = "google" THEN "token" ELSE "post")
    /\ UNCHANGED <<setting, reranker, table, callCount, disabled, answer, recalls,
                   events, history>>

(* _get_google_auth_token: no library, no credentials or no refresh disables  *)
(* the backend.                                                               *)
GoogleToken(r) ==
    /\ rd[r].pc = "token"
    /\ \/ Goto(r, "post") /\ UNCHANGED disabled
       \/ Goto(r, "cut") /\ disabled' = TRUE
    /\ UNCHANGED <<setting, reranker, table, callCount, answer, recalls, events,
                   history>>

(* for attempt in range(2): the second one is the last.                       *)
MayRetry(r) == rd[r].tries = 0

(* Outcomes of one request: an answer, good or not; refused (401, 403, 429,   *)
(* from Google also 404); a 5xx, a lost connection or a timeout, retried once. *)
Post(r, outcome) ==
    /\ rd[r].pc = "post"
    /\ late' = IF disabled THEN late + 1 ELSE late
    /\ IF outcome = "unreachable" /\ MayRetry(r)
       THEN rd' = [rd EXCEPT ![r].tries = @ + 1]
       ELSE rd' = [rd EXCEPT ![r].pc = "cut", ![r].tries = 0]
    /\ disabled' = (disabled \/ outcome = "refused")
    /\ UNCHANGED <<setting, reranker, table, callCount, answer, recalls, events,
                   present, steady, cored, tally>>

(* The diversity filter reorders; the minimum scores and the limit drop some.  *)
Cut(r) ==
    /\ rd[r].pc = "cut"
    /\ \E kept \in SUBSET rd[r].hits :
          rd' = [rd EXCEPT ![r].pc = "load", ![r].hits = kept]
    /\ UNCHANGED <<setting, reranker, table, callCount, disabled, answer, recalls,
                   events, history>>

-----------------------------------------------------------------------------
(* _run_recall_lifecycle.  self._lifecycle_call_count += 1 is a read and a    *)
(* write; the increments follow, then the count is read again.                *)
InLifecycle(r) == rd[r].pc \in {"store", "count", "due"}

LoadCount(r) ==
    /\ rd[r].pc = "load"
    /\ rd' = [rd EXCEPT ![r].pc = "store", ![r].loaded = callCount]
    /\ tally' = [tally EXCEPT !.lifecycles = @ + 1,
                              !.overlap = @ \/ \E q \in Readers : InLifecycle(q)]
    /\ UNCHANGED <<setting, reranker, table, callCount, disabled, answer, recalls,
                   events, present, steady, cored, late>>

StoreCount(r) ==
    /\ rd[r].pc = "store"
    /\ callCount' = rd[r].loaded + 1
    /\ rd' = [rd EXCEPT ![r].pc = "count", ![r].loaded = 0, ![r].more = rd[r].hits]
    /\ UNCHANGED <<setting, reranker, table, disabled, answer, recalls, events,
                   history>>

(* increment_access_count of one result; the cooldown or an error may skip it. *)
Increment(r, m) ==
    /\ rd[r].pc = "count" /\ m \in rd[r].more
    /\ rd' = [rd EXCEPT ![r].more = @ \ {m}]
    /\ \/ UNCHANGED rows
       \/ /\ rows[m].state # "deleted" /\ rows[m].count < CoreAccess
          /\ rows' = [rows EXCEPT ![m].count = @ + 1]
    /\ UNCHANGED <<setting, reranker, index, expired, callCount, disabled, answer,
                   recalls, events, history>>

Incremented(r) ==
    /\ rd[r].pc = "count" /\ rd[r].more = {}
    /\ Goto(r, "due")
    /\ UNCHANGED <<setting, reranker, table, callCount, disabled, answer, recalls,
                   events, history>>

(* Mutant: an evaluation after every EvalEvery-th and the next recall.        *)
DueOffByOne == callCount % EvalEvery <= 1

Due == callCount % EvalEvery = 0

CheckDue(r) ==
    /\ rd[r].pc = "due"
    /\ Goto(r, IF Due THEN "list" ELSE "first")
    /\ tally' = IF Due THEN [tally EXCEPT !.evals = @ + 1] ELSE tally
    /\ UNCHANGED <<setting, reranker, table, callCount, disabled, answer, recalls,
                   events, present, steady, cored, late>>

(* Every listed row is scored and judged on the copy just read.               *)
Evaluate(r) ==
    /\ rd[r].pc = "list"
    /\ \E changes \in AllChanges :
          rd' = [rd EXCEPT ![r].pc = "retier", ![r].changes = changes]
    /\ UNCHANGED <<setting, reranker, table, callCount, disabled, answer, recalls,
                   events, history>>

(* update(id, tier=...): whatever the tier is by now.  An error skips it.     *)
Retier(r, change) ==
    /\ rd[r].pc = "retier" /\ change \in rd[r].changes
    /\ rd' = [rd EXCEPT ![r].changes = @ \ {change}]
    /\ UNCHANGED <<setting, reranker, index, expired, callCount, disabled, answer,
                   recalls, events, cored, late, tally>>
    /\ \/ UNCHANGED <<rows, present, steady>>
       \/ /\ rows[change[1]].state # "deleted"
          /\ rows' = [rows EXCEPT ![change[1]].tier = change[2]]
          /\ Watch

Evaluated(r) ==
    /\ rd[r].pc \in {"list", "retier"} /\ rd[r].changes = {}
    /\ Goto(r, "first")
    /\ UNCHANGED <<setting, reranker, table, callCount, disabled, answer, recalls,
                   events, history>>

-----------------------------------------------------------------------------
(* Back in _do_recall.                                                        *)

(* A query that names a time keeps the results of that window, or all of them *)
(* when there are none.                                                       *)
TemporalFilter(hits, named) ==
    LET kept == {m \in hits : catalog[m].inWindow}
    IN IF named /\ kept # {} THEN kept ELSE hits

(* Mutant: an anchor the search had found before the time window was applied  *)
(* counts as being among the results.                                         *)
KnownBeforeFilter(hits, kept) == hits

(* existing_ids: the results an anchor need not be added to.                  *)
Known(hits, kept) == kept

(* The temporal filter, then the oldest memories of the session.              *)
FirstAnchors(r) ==
    /\ rd[r].pc = "first" /\ rd[r].session # NoSession
    /\ \E named \in BOOLEAN :
          LET kept == TemporalFilter(rd[r].hits, named) IN
          rd' = [rd EXCEPT ![r].pc = "recent", ![r].hits = kept,
                   ![r].more = FirstForSession(rd[r].session) \ Known(rd[r].hits, kept)]
    /\ UNCHANGED <<setting, reranker, table, callCount, disabled, answer, recalls,
                   events, history>>

(* Short or noisy anchors are not injected.                                   *)
Readable(ids) == {m \in ids : ~catalog[m].noise}

(* active_task memories belong to the system prompt, and some categories are  *)
(* never injected.                                                            *)
Guarded(hits, anchors) == {m \in hits \cup anchors : catalog[m].category = "fact"}

Inject(r, anchors, complete) ==
    LET guarded == Guarded(rd[r].hits, anchors) IN
    /\ \E kept \in SUBSET guarded :      \* the character budget keeps a first item
          /\ guarded # {} => kept # {}
          /\ answer' = [answer EXCEPT ![r] =
                          [ids |-> kept, session |-> rd[r].session,
                           cut |-> kept # guarded \/ ~complete]]
    /\ rd' = [rd EXCEPT ![r] = NoCall]
    /\ UNCHANGED <<setting, reranker, table, callCount, disabled, recalls, events,
                   history>>

(* The most recent ones, then the guardrails; the answer is injected.         *)
RecentAnchors(r) ==
    /\ rd[r].pc = "recent"
    /\ Inject(r, Readable(rd[r].more \cup RecentForSession(rd[r].session)), TRUE)

(* A read that fails finds no anchors; without a session none are looked up.  *)
FewerAnchors(r) ==
    \/ /\ rd[r].pc = "first" /\ rd[r].session = NoSession
       /\ Inject(r, {}, FALSE)
    \/ /\ rd[r].pc = "recent"
       /\ \E anchors \in {{}, rd[r].more, RecentForSession(rd[r].session)} :
             Inject(r, Readable(anchors), FALSE)

-----------------------------------------------------------------------------
(* Meanwhile other callers change the table, and the index follows it late.   *)
Change(m, row) ==
    /\ events < setting.events
    /\ events' = events + 1
    /\ rows' = [rows EXCEPT ![m] = row]
    /\ UNCHANGED <<setting, reranker, callCount, disabled, rd, answer, recalls, late,
                   tally>>

Write(m) ==
    /\ rows[m].state = "absent"
    /\ Change(m, [rows[m] EXCEPT !.state = "live"])
    /\ UNCHANGED <<index, expired, cored>>
    /\ Watch

Retire(m, state) ==
    /\ rows[m].state = "live"
    /\ Change(m, [rows[m] EXCEPT !.state = state])
    /\ UNCHANGED <<index, expired, cored>>
    /\ Watch

(* A user sets the tier by hand.                                              *)
SetTier(m, tier) ==
    /\ rows[m].state = "live" /\ rows[m].tier # tier
    /\ Change(m, [rows[m] EXCEPT !.tier = tier])
    /\ cored' = IF tier = "core" THEN cored \cup {m} ELSE cored
    /\ UNCHANGED <<index, expired>>
    /\ Watch

Expire(m) ==
    /\ rows[m].state = "live" /\ m \notin expired
    /\ Change(m, rows[m])
    /\ expired' = expired \cup {m}
    /\ UNCHANGED <<index, cored>>
    /\ Watch

Reindex ==
    /\ index # rows
    /\ index' = rows
    /\ UNCHANGED <<setting, reranker, rows, expired, callCount, disabled, rd, answer,
                   recalls, events, history>>

(* Every recall the behaviour has is over: nothing more happens.              *)
Done ==
    /\ recalls = setting.recalls /\ \A r \in Readers : ~Busy(r)
    /\ UNCHANGED vars

Outcomes == {"answered", "refused", "unreachable"}

ReaderStep(r) ==
    \/ Begin(r) \/ VectorSearch(r) \/ Bm25Search(r) \/ SearchFails(r) \/ Fuse(r)
    \/ Rerank(r) \/ GoogleToken(r) \/ (\E o \in Outcomes : Post(r, o)) \/ Cut(r)
    \/ LoadCount(r) \/ StoreCount(r) \/ (\E m \in Memories : Increment(r, m)) \/ Incremented(r)
    \/ CheckDue(r) \/ Evaluate(r) \/ (\E c \in rd[r].changes : Retier(r, c)) \/ Evaluated(r)
    \/ FirstAnchors(r) \/ RecentAnchors(r) \/ FewerAnchors(r)

Next ==
    \/ \E r \in Readers : ReaderStep(r)
    \/ \E m \in Memories :
          \/ Write(m) \/ Retire(m, "archived") \/ Retire(m, "deleted")
          \/ (\E tier \in Tiers : SetTier(m, tier)) \/ Expire(m)
    \/ Reindex
    \/ Done

Spec == Init /\ [][Next]_vars

-----------------------------------------------------------------------------
(* Properties.                                                                *)

(* Once the reranker is disabled only the recalls that were already past the  *)
(* check of the switch still send, each its request and one retry.            *)
RefusalIsFinal == late <= 2 * (Cardinality(Readers) - 1)

(* As long as no two recalls are in their lifecycle hooks at once, every      *)
(* EvalEvery-th one evaluates the tiers: none is skipped and none is doubled. *)
EvalsOnTime ==
    (~tally.overlap /\ \A r \in Readers : ~InLifecycle(r))
       => tally.evals = tally.lifecycles \div EvalEvery

EarnedCore(m) == m \in cored \/ (catalog[m].important /\ rows[m].count = CoreAccess)

(* A memory that was archived or deleted all through a recall, by whatever    *)
(* the stale full-text index still says of it, is not injected by it.         *)
NoGhosts == \A r \in Readers : answer[r].ids \subseteq present[r]

(* A memory of another session is injected only when it is flagged            *)
(* cross_session or has been in the core tier: because somebody put it there, *)
(* or because it is important and was accessed often enough.                  *)
ForeignEarned ==
    \A r \in Readers : \A m \in answer[r].ids :
        \/ answer[r].session \in {NoSession, catalog[m].session}
        \/ catalog[m].cross
        \/ EarnedCore(m)

(* Whatever the search, the time window and the anchors bring in, active_task *)
(* memories and the never-injected categories do not reach the prompt.        *)
NeverInjected ==
    \A r \in Readers : \A m \in answer[r].ids : catalog[m].category = "fact"

(* What a recall injects is there to be recalled, for this session and in a   *)
(* prompt: no ghost of the full-text index, no row of another session that    *)
(* did not earn it, nothing the guardrails keep out.                          *)
RightlyInjected == NoGhosts /\ ForeignEarned /\ NeverInjected

(* The task framing stays: a readable memory that was the oldest one the      *)
(* session could recall all through the recall is injected, whatever the      *)
(* search found and whatever time the query names, unless the budget cut the  *)
(* block or the anchors could not be read.                                    *)
FramingKept ==
    \A r \in Readers :
        LET Visible(k) == MatchSession(k, "working", answer[r].session) \/ EarnedCore(k)
            framing == {m \in steady[r] : /\ catalog[m].category = "fact" /\ ~catalog[m].noise
                                          /\ \A k \in present[r] : k < m => ~Visible(k)}
        IN (~Busy(r) /\ ~answer[r].cut) => framing \subseteq answer[r].ids
=============================================================================
