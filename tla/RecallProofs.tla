----------------------------- MODULE RecallProofs -----------------------------
(***************************************************************************)
(* Recall, for every set of readers and memories and every setting: what a *)
(* recall may inject and what it must, that a refused reranker is left      *)
(* alone, and that tiers are evaluated on time.                            *)
(***************************************************************************)
EXTENDS Recall, FiniteSetTheorems, TLAPS

Places == {"idle", "vector", "bm25", "fuse", "rerank", "token", "post", "cut", "load", "store",
           "count", "due", "list", "retier", "first", "recent"}

Call == [pc : Places, session : Sessions \cup {NoSession}, hits : SUBSET Memories,
         more : SUBSET Memories, tries : {0, 1}, loaded : Nat,
         changes : SUBSET (Memories \X Tiers)]
Answer == [ids : SUBSET Memories, session : Sessions \cup {NoSession}, cut : BOOLEAN]

TypeOK ==
    /\ setting \in Setting
    /\ rows \in [Memories -> Row] /\ index \in [Memories -> Row]
    /\ expired \subseteq Memories /\ cored \subseteq Memories
    /\ callCount \in Nat /\ disabled \in BOOLEAN
    /\ rd \in [Readers -> Call]
    /\ answer \in [Readers -> Answer]
    /\ present \in [Readers -> SUBSET Memories] /\ steady \in [Readers -> SUBSET Memories]
    /\ late \in Nat
    /\ tally \in [lifecycles : Nat, evals : Nat, overlap : BOOLEAN]

-----------------------------------------------------------------------------
(* The inductive invariant.                                                  *)

(* Nothing is of the core tier, or about to be, that has not earned it.      *)
TierOK ==
    /\ \A m \in Memories : /\ rows[m].tier = "core" => EarnedCore(m)
                           /\ index[m].tier = "core" => EarnedCore(m)
    /\ \A r \in Readers : \A c \in rd[r].changes : c[2] = "core" => EarnedCore(c[1])

(* m may be shown to session s, for good.                                    *)
MayShow(m, s) ==
    s \in {NoSession, catalog[m].session} \/ catalog[m].cross \/ EarnedCore(m)

(* What a running recall has found so far: it may be shown, and has been      *)
(* there, but for what the full-text index alone says.                       *)
FoundBy(r) ==
    /\ \A m \in rd[r].hits \cup rd[r].more : MayShow(m, rd[r].session)
    /\ rd[r].hits \subseteq present[r]
    /\ rd[r].pc # "fuse" => rd[r].more \subseteq present[r]

(* The histories of a running recall bound the table.                        *)
Watched(r) ==
    Busy(r) => Listed \subseteq present[r] /\ steady[r] \subseteq Recallable(rd[r].session)

(* The memories FramingKept is about.                                        *)
Framing(r, s) ==
    {m \in steady[r] :
        /\ catalog[m].category = "fact" /\ ~catalog[m].noise
        /\ \A k \in present[r] : k < m => ~(MatchSession(k, "working", s) \/ EarnedCore(k))}

FramingFound(r) ==
    rd[r].pc = "recent" => Framing(r, rd[r].session) \subseteq rd[r].hits \cup rd[r].more

RecallOK == \A r \in Readers : FoundBy(r) /\ Watched(r) /\ FramingFound(r)

(* The requests a reader may still send without looking at the switch again. *)
MaySend == {r \in Readers : rd[r].pc \in {"token", "post"}}
MaySendTwice == {r \in MaySend : rd[r].tries = 0}

RefusalOK ==
    /\ \A r \in Readers : rd[r].pc # "post" => rd[r].tries = 0
    /\ IF disabled
       THEN late + Cardinality(MaySend) + Cardinality(MaySendTwice)
              <= 2 * (Cardinality(Readers) - 1)
       ELSE late = 0

(* The lone reader in its lifecycle hooks has the count to itself.           *)
CountOK ==
    ~tally.overlap =>
        /\ \A r, q \in Readers : InLifecycle(r) /\ InLifecycle(q) => r = q
        /\ \A r \in Readers : InLifecycle(r) =>
              /\ tally.lifecycles > 0
              /\ tally.evals = (tally.lifecycles - 1) \div EvalEvery
              /\ rd[r].pc = "store" => rd[r].loaded + 1 = tally.lifecycles
              /\ rd[r].pc \in {"count", "due"} => callCount = tally.lifecycles
        /\ (\A r \in Readers : ~InLifecycle(r)) =>
              /\ callCount = tally.lifecycles
              /\ tally.evals = tally.lifecycles \div EvalEvery

(* RightlyInjected and FramingKept of one reader.                             *)
InjectedRightly(r) ==
    \A m \in answer[r].ids :
        /\ m \in present[r] /\ catalog[m].category = "fact"
        /\ MayShow(m, answer[r].session)

KeepsFraming(r) ==
    (~Busy(r) /\ ~answer[r].cut) => Framing(r, answer[r].session) \subseteq answer[r].ids

AnswerOK == \A r \in Readers : InjectedRightly(r) /\ KeepsFraming(r)

IInv == TypeOK /\ TierOK /\ RecallOK /\ AnswerOK /\ RefusalOK /\ CountOK

-----------------------------------------------------------------------------
(* What is earned stays earned, and what follows from it.                    *)

LEMMA EarnedGrows ==
    ASSUME TypeOK, UNCHANGED setting, cored \subseteq cored',
           \A m \in Memories : rows[m].count = CoreAccess => rows'[m].count = CoreAccess
    PROVE  \A m \in Memories : EarnedCore(m) => EarnedCore(m)'
BY DEF EarnedCore, catalog

LEMMA ShownGrows ==
    ASSUME UNCHANGED setting, \A m \in Memories : EarnedCore(m) => EarnedCore(m)'
    PROVE  \A m \in Memories : \A s : MayShow(m, s) => MayShow(m, s)'
BY DEF MayShow, catalog

LEMMA FramingShrinks ==
    ASSUME TypeOK, UNCHANGED setting, \A m \in Memories : EarnedCore(m) => EarnedCore(m)',
           NEW r \in Readers, present[r] \subseteq present'[r], steady'[r] \subseteq steady[r]
    PROVE  \A s : Framing(r, s)' \subseteq Framing(r, s)
<1> SUFFICES ASSUME NEW s, NEW m \in Framing(r, s)' PROVE m \in Framing(r, s)
  OBVIOUS
<1>1. m \in steady[r] /\ catalog[m].category = "fact" /\ ~catalog[m].noise
  BY DEF Framing, catalog
<1>2. ASSUME NEW k \in present[r], k < m
      PROVE  ~(MatchSession(k, "working", s) \/ EarnedCore(k))
  <2>1. k \in Memories /\ k \in present'[r]
    BY DEF TypeOK
  <2>2. ~(MatchSession(k, "working", s) \/ EarnedCore(k))'
    BY <1>2, <2>1 DEF Framing
  <2> QED BY <2>1, <2>2 DEF MatchSession, catalog
<1> QED BY <1>1, <1>2 DEF Framing

(* A step that ends no call and changes what was found of none but r, where   *)
(* the histories follow the table.                                           *)
LEMMA Keeps ==
    ASSUME TypeOK, RecallOK, AnswerOK, UNCHANGED <<setting, answer>>, NEW r \in Readers,
           \A m \in Memories : EarnedCore(m) => EarnedCore(m)',
           \A q \in Readers :
               /\ present[q] \subseteq present'[q] /\ steady'[q] \subseteq steady[q]
               /\ Watched(q)' /\ Busy(q)' = Busy(q)
               /\ rd'[q].session = rd[q].session
               /\ q # r => /\ rd'[q].pc = rd[q].pc
                           /\ rd'[q].hits = rd[q].hits /\ rd'[q].more = rd[q].more,
           FoundBy(r)', FramingFound(r)'
    PROVE  RecallOK' /\ AnswerOK'
<1>1. ASSUME NEW q \in Readers, q # r PROVE FoundBy(q)'
  <2>1. FoundBy(q)
    BY DEF RecallOK
  <2>2. rd[q].hits \cup rd[q].more \subseteq Memories
    BY DEF TypeOK, Call
  <2> QED BY <1>1, <2>1, <2>2, ShownGrows DEF FoundBy
<1>2. ASSUME NEW q \in Readers, q # r PROVE FramingFound(q)'
  <2>1. FramingFound(q)
    BY DEF RecallOK
  <2>2. Framing(q, rd[q].session)' \subseteq Framing(q, rd[q].session)
    BY FramingShrinks DEF Framing
  <2> QED BY <1>2, <2>1, <2>2 DEF FramingFound
<1>3. ASSUME NEW q \in Readers PROVE InjectedRightly(q)'
  <2>1. InjectedRightly(q)
    BY DEF AnswerOK
  <2>2. answer[q].ids \subseteq Memories
    BY DEF TypeOK, Answer
  <2> QED BY <2>1, <2>2, ShownGrows DEF InjectedRightly, catalog
<1>4. ASSUME NEW q \in Readers PROVE KeepsFraming(q)'
  <2>1. KeepsFraming(q)
    BY DEF AnswerOK
  <2>2. Framing(q, answer[q].session)' \subseteq Framing(q, answer[q].session)
    BY FramingShrinks DEF Framing
  <2> QED BY <2>1, <2>2 DEF KeepsFraming
<1> QED BY <1>1, <1>2, <1>3, <1>4 DEF RecallOK, AnswerOK

-----------------------------------------------------------------------------
(* The types.                                                                *)

LEMMA SearchTypes ==
    ASSUME TypeOK, NEW s
    PROVE  /\ Recallable(s) \subseteq Memories /\ Indexed(s) \subseteq Memories
           /\ FirstForSession(s) \subseteq Memories /\ RecentForSession(s) \subseteq Memories
BY DEF Recallable, Indexed, FirstForSession, RecentForSession, Oldest, MostRecent

LEMMA VerdictType ==
    ASSUME TypeOK, NEW m \in Memories, NEW c \in Composite
    PROVE  /\ EvaluateTier(m, rows[m], c) \in Tiers
           /\ EvaluateTier(m, rows[m], c) = "core" => rows[m].tier = "core" \/ EarnedCore(m)
<1>1. rows[m] \in Row /\ rows[m].tier \in Tiers /\ rows[m].count \in 0 .. CoreAccess
  BY DEF TypeOK, Row
<1> QED BY <1>1, RecallAssumption DEF EvaluateTier, Tiers, EarnedCore

LEMMA ChangesType ==
    ASSUME TypeOK, NEW changes \in AllChanges
    PROVE  /\ changes \subseteq Memories \X Tiers
           /\ \A c \in changes : c[2] = "core" => rows[c[1]].tier = "core" \/ EarnedCore(c[1])
<1>1. PICK score \in [Listed -> Composite] : changes = Changes(score)
  BY DEF AllChanges
<1>2. ASSUME NEW c \in changes
      PROVE  \E m \in Listed : c = <<m, EvaluateTier(m, rows[m], score[m])>>
  BY <1>1 DEF Changes
<1>3. ASSUME NEW c \in changes
      PROVE  /\ c \in Memories \X Tiers
             /\ c[2] = "core" => rows[c[1]].tier = "core" \/ EarnedCore(c[1])
  <2>1. PICK m \in Listed : c = <<m, EvaluateTier(m, rows[m], score[m])>>
    BY <1>2
  <2>2. m \in Memories /\ score[m] \in Composite
    BY DEF Listed
  <2> QED BY <2>1, <2>2, VerdictType
<1> QED BY <1>3

LEMMA WatchType == ASSUME TypeOK, Watch
    PROVE  /\ present' \in [Readers -> SUBSET Memories] /\ steady' \in [Readers -> SUBSET Memories]
           /\ \A q \in Readers : present[q] \subseteq present'[q] /\ steady'[q] \subseteq steady[q]
           /\ \A q \in Readers : Busy(q) =>
                 /\ {m \in Memories : rows'[m].state = "live"} \subseteq present'[q]
                 /\ steady'[q] \subseteq Recallable(rd[q].session)'
BY DEF Watch, TypeOK

LEMMA DivStep ==
    ASSUME NEW n \in Nat \ {0}, NEW d \in Nat \ {0}
    PROVE  n \div d = IF n % d = 0 THEN (n - 1) \div d + 1 ELSE (n - 1) \div d
OBVIOUS

(* A call some of whose fields are set is a call.                            *)
LEMMA Updated ==
    ASSUME NEW c \in Call, NEW pc \in Places
    PROVE  /\ [c EXCEPT !.pc = pc] \in Call
           /\ \A ids \in SUBSET Memories :
                 /\ [c EXCEPT !.pc = pc, !.hits = ids] \in Call
                 /\ [c EXCEPT !.more = ids] \in Call
                 /\ [c EXCEPT !.pc = pc, !.more = ids] \in Call
                 /\ [c EXCEPT !.pc = pc, !.loaded = 0, !.more = ids] \in Call
           /\ \A ids, more \in SUBSET Memories :
                 [c EXCEPT !.pc = pc, !.hits = ids, !.more = more] \in Call
           /\ \A n \in {0, 1} : [c EXCEPT !.tries = n] \in Call
           /\ [c EXCEPT !.pc = pc, !.tries = 0] \in Call
           /\ \A n \in Nat : [c EXCEPT !.pc = pc, !.loaded = n] \in Call
           /\ \A changes \in SUBSET (Memories \X Tiers) :
                 /\ [c EXCEPT !.pc = pc, !.changes = changes] \in Call
                 /\ [c EXCEPT !.changes = changes] \in Call
<1>1. [c EXCEPT !.pc = pc] \in Call /\ [c EXCEPT !.pc = pc, !.tries = 0] \in Call
  BY DEF Call
<1>2. ASSUME NEW ids \in SUBSET Memories
      PROVE  /\ [c EXCEPT !.pc = pc, !.hits = ids] \in Call
             /\ [c EXCEPT !.more = ids] \in Call
             /\ [c EXCEPT !.pc = pc, !.more = ids] \in Call
             /\ [c EXCEPT !.pc = pc, !.loaded = 0, !.more = ids] \in Call
  BY DEF Call
<1>3. ASSUME NEW ids \in SUBSET Memories, NEW more \in SUBSET Memories
      PROVE  [c EXCEPT !.pc = pc, !.hits = ids, !.more = more] \in Call
  BY DEF Call
<1>4. ASSUME NEW n \in {0, 1} PROVE [c EXCEPT !.tries = n] \in Call
  BY DEF Call
<1>5. ASSUME NEW n \in Nat PROVE [c EXCEPT !.pc = pc, !.loaded = n] \in Call
  BY DEF Call
<1>6. ASSUME NEW changes \in SUBSET (Memories \X Tiers)
      PROVE  /\ [c EXCEPT !.pc = pc, !.changes = changes] \in Call
             /\ [c EXCEPT !.changes = changes] \in Call
  BY DEF Call
<1> QED BY <1>1, <1>2, <1>3, <1>4, <1>5, <1>6

LEMMA CallOf ==
    ASSUME TypeOK, NEW r \in Readers
    PROVE  /\ rd[r] \in Call
           /\ rd[r].hits \in SUBSET Memories /\ rd[r].more \in SUBSET Memories
           /\ rd[r].changes \in SUBSET (Memories \X Tiers)
           /\ rd[r].tries \in {0, 1} /\ rd[r].loaded \in Nat
BY DEF TypeOK, Call

LEMMA TypeStep == TypeOK /\ [Next]_vars => TypeOK'
<1> SUFFICES ASSUME TypeOK, [Next]_vars PROVE TypeOK'
  OBVIOUS
<1>1. ASSUME NEW r \in Readers, Begin(r) PROVE TypeOK'
  <2>1. PICK s \in setting.sessions :
           /\ rd' = [rd EXCEPT ![r] = [NoCall EXCEPT !.pc = "vector", !.session = s]]
           /\ steady' = [steady EXCEPT ![r] = Recallable(s)]
    BY <1>1 DEF Begin
  <2>2. s \in Sessions \cup {NoSession}
    BY DEF TypeOK, Setting
  <2>3. [NoCall EXCEPT !.pc = "vector", !.session = s] \in Call
    BY <2>2 DEF NoCall, Call, Places
  <2>4. rd' \in [Readers -> Call]
    BY <2>1, <2>3 DEF TypeOK
  <2>5. answer' \in [Readers -> Answer]
    BY <1>1 DEF Begin, TypeOK, NoAnswer, Answer
  <2> QED BY <1>1, <2>1, <2>4, <2>5, SearchTypes DEF Begin, TypeOK, table
<1>2. ASSUME NEW r \in Readers, VectorSearch(r) PROVE TypeOK'
  <2>1. PICK hits \in SUBSET Recallable(rd[r].session) :
           rd' = [rd EXCEPT ![r].pc = "bm25", ![r].hits = hits]
    BY <1>2 DEF VectorSearch
  <2>2. hits \in SUBSET Memories
    BY CallOf, SearchTypes
  <2>3. [rd[r] EXCEPT !.pc = "bm25", !.hits = hits] \in Call
    BY <2>2, CallOf, Updated DEF Places
  <2>4. rd' \in [Readers -> Call]
    BY <2>1, <2>3 DEF TypeOK
  <2> QED BY <1>2, <2>4 DEF VectorSearch, TypeOK, table, history
<1>3. ASSUME NEW r \in Readers, Bm25Search(r) PROVE TypeOK'
  <2>1. PICK more \in SUBSET (Indexed(rd[r].session) \ rd[r].hits) :
           rd' = [rd EXCEPT ![r].pc = "fuse", ![r].more = more]
    BY <1>3 DEF Bm25Search
  <2>2. more \in SUBSET Memories
    BY CallOf, SearchTypes
  <2>3. [rd[r] EXCEPT !.pc = "fuse", !.more = more] \in Call
    BY <2>2, CallOf, Updated DEF Places
  <2>4. rd' \in [Readers -> Call]
    BY <2>1, <2>3 DEF TypeOK
  <2> QED BY <1>3, <2>4 DEF Bm25Search, TypeOK, table, history
<1>4. ASSUME NEW r \in Readers, SearchFails(r) PROVE TypeOK'
  <2>1. rd' \in [Readers -> Call]
    BY <1>4, CallOf, Updated DEF SearchFails, Goto, TypeOK, Places
  <2> QED BY <1>4, <2>1 DEF SearchFails, TypeOK, table, history
<1>5. ASSUME NEW r \in Readers, Fuse(r) PROVE TypeOK'
  <2> DEFINE next == IF FusedHits(r) = {} THEN "first" ELSE "rerank"
             hits == {m \in FusedHits(r) : ~catalog[m].noise}
  <2>1. hits \in SUBSET Memories /\ {} \in SUBSET Memories /\ next \in Places
    BY CallOf DEF FusedHits, CheckIds, Places
  <2>2. rd' = [rd EXCEPT ![r].pc = next, ![r].hits = hits, ![r].more = {}]
    BY <1>5 DEF Fuse
  <2> HIDE DEF next, hits
  <2>3. [rd[r] EXCEPT !.pc = next, !.hits = hits, !.more = {}] \in Call
    BY <2>1, CallOf, Updated
  <2>4. rd' \in [Readers -> Call]
    BY <2>2, <2>3 DEF TypeOK
  <2> QED BY <1>5, <2>4 DEF Fuse, TypeOK, table, history
<1>6. ASSUME NEW r \in Readers, Rerank(r) PROVE TypeOK'
  <2>1. rd' \in [Readers -> Call]
    BY <1>6, CallOf, Updated DEF Rerank, Goto, TypeOK, Places
  <2> QED BY <1>6, <2>1 DEF Rerank, TypeOK, table, history
<1>7. ASSUME NEW r \in Readers, GoogleToken(r) PROVE TypeOK'
  <2>1. PICK pc \in Places : rd' = [rd EXCEPT ![r].pc = pc]
    BY <1>7 DEF GoogleToken, Goto, Places
  <2>4. [rd[r] EXCEPT !.pc = pc] \in Call
    BY CallOf, Updated
  <2>2. rd' \in [Readers -> Call]
    BY <2>1, <2>4 DEF TypeOK
  <2>3. disabled' \in BOOLEAN
    BY <1>7 DEF GoogleToken, TypeOK
  <2> QED BY <1>7, <2>2, <2>3 DEF GoogleToken, TypeOK, table, history
<1>8. ASSUME NEW r \in Readers, Cut(r) PROVE TypeOK'
  <2>1. PICK kept \in SUBSET rd[r].hits :
           rd' = [rd EXCEPT ![r].pc = "load", ![r].hits = kept]
    BY <1>8 DEF Cut
  <2>2. kept \in SUBSET Memories
    BY CallOf
  <2>3. [rd[r] EXCEPT !.pc = "load", !.hits = kept] \in Call
    BY <2>2, CallOf, Updated DEF Places
  <2>4. rd' \in [Readers -> Call]
    BY <2>1, <2>3 DEF TypeOK
  <2> QED BY <1>8, <2>4 DEF Cut, TypeOK, table, history
<1>9. ASSUME NEW r \in Readers, Incremented(r) PROVE TypeOK'
  <2>1. rd' \in [Readers -> Call]
    BY <1>9, CallOf, Updated DEF Incremented, Goto, TypeOK, Places
  <2> QED BY <1>9, <2>1 DEF Incremented, TypeOK, table, history
<1>10. ASSUME NEW r \in Readers, Evaluated(r) PROVE TypeOK'
  <2>1. rd' \in [Readers -> Call]
    BY <1>10, CallOf, Updated DEF Evaluated, Goto, TypeOK, Places
  <2> QED BY <1>10, <2>1 DEF Evaluated, TypeOK, table, history
<1>11. ASSUME NEW r \in Readers, FirstAnchors(r) PROVE TypeOK'
  <2>1. PICK named \in BOOLEAN :
           LET kept == TemporalFilter(rd[r].hits, named)
           IN  rd' = [rd EXCEPT ![r].pc = "recent", ![r].hits = kept,
                        ![r].more = FirstForSession(rd[r].session) \ Known(rd[r].hits, kept)]
    BY <1>11 DEF FirstAnchors
  <2> DEFINE kept == TemporalFilter(rd[r].hits, named)
             more == FirstForSession(rd[r].session) \ Known(rd[r].hits, kept)
  <2>2. kept \in SUBSET Memories /\ more \in SUBSET Memories
    BY CallOf, SearchTypes DEF TemporalFilter
  <2>3. rd' = [rd EXCEPT ![r].pc = "recent", ![r].hits = kept, ![r].more = more]
    BY <2>1
  <2> HIDE DEF kept, more
  <2>4. [rd[r] EXCEPT !.pc = "recent", !.hits = kept, !.more = more] \in Call
    BY <2>2, CallOf, Updated DEF Places
  <2>5. rd' \in [Readers -> Call]
    BY <2>3, <2>4 DEF TypeOK
  <2> QED BY <1>11, <2>5 DEF FirstAnchors, TypeOK, table, history
<1>12. ASSUME NEW r \in Readers, StoreCount(r) PROVE TypeOK'
  <2>1. [rd[r] EXCEPT !.pc = "count", !.loaded = 0, !.more = rd[r].hits] \in Call
    BY CallOf, Updated DEF Places
  <2>2. rd' \in [Readers -> Call]
    BY <1>12, <2>1 DEF StoreCount, TypeOK
  <2>3. callCount' \in Nat
    BY <1>12, CallOf DEF StoreCount
  <2> QED BY <1>12, <2>2, <2>3 DEF StoreCount, TypeOK, table, history
<1>13. ASSUME NEW r \in Readers, LoadCount(r) PROVE TypeOK'
  <2>1. [rd[r] EXCEPT !.pc = "store", !.loaded = callCount] \in Call
    BY CallOf, Updated DEF Places, TypeOK
  <2>2. rd' \in [Readers -> Call]
    BY <1>13, <2>1 DEF LoadCount, TypeOK
  <2>3. tally' \in [lifecycles : Nat, evals : Nat, overlap : BOOLEAN]
    <3>1. PICK overlap \in BOOLEAN :
             tally' = [tally EXCEPT !.lifecycles = @ + 1, !.overlap = overlap]
      BY <1>13 DEF LoadCount, TypeOK
    <3> DEFINE n == tally.lifecycles + 1
    <3>2. n \in Nat
      BY DEF TypeOK
    <3>3. tally' = [tally EXCEPT !.lifecycles = n, !.overlap = overlap]
      BY <3>1
    <3> HIDE DEF n
    <3> QED BY <3>2, <3>3 DEF TypeOK
  <2> QED BY <1>13, <2>2, <2>3 DEF LoadCount, TypeOK, table, history
<1>14. ASSUME NEW r \in Readers, CheckDue(r) PROVE TypeOK'
  <2>1. rd' \in [Readers -> Call]
    BY <1>14, CallOf, Updated DEF CheckDue, Goto, TypeOK, Places
  <2> QED BY <1>14, <2>1 DEF CheckDue, TypeOK, table, history
<1>15. ASSUME NEW r \in Readers, Evaluate(r) PROVE TypeOK'
  <2>1. PICK changes \in AllChanges :
           rd' = [rd EXCEPT ![r].pc = "retier", ![r].changes = changes]
    BY <1>15 DEF Evaluate
  <2>2. changes \in SUBSET (Memories \X Tiers)
    BY CallOf, ChangesType
  <2>3. [rd[r] EXCEPT !.pc = "retier", !.changes = changes] \in Call
    BY <2>2, CallOf, Updated DEF Places
  <2>4. rd' \in [Readers -> Call]
    BY <2>1, <2>3 DEF TypeOK
  <2> QED BY <1>15, <2>4 DEF Evaluate, TypeOK, table, history
<1>16. ASSUME NEW r \in Readers, NEW o \in Outcomes, Post(r, o) PROVE TypeOK'
  <2>1. \/ rd' = [rd EXCEPT ![r].tries = 1] /\ rd[r].tries = 0
        \/ rd' = [rd EXCEPT ![r].pc = "cut", ![r].tries = 0]
    BY <1>16 DEF Post, MayRetry
  <2>2. /\ rd[r].tries = 0 => [rd[r] EXCEPT !.tries = 1] \in Call
        /\ [rd[r] EXCEPT !.pc = "cut", !.tries = 0] \in Call
    BY CallOf, Updated DEF Places
  <2>3. rd' \in [Readers -> Call]
    BY <2>1, <2>2 DEF TypeOK
  <2> QED BY <1>16, <2>3 DEF Post, TypeOK, table
<1>17. ASSUME NEW r \in Readers, NEW m \in Memories, Increment(r, m) PROVE TypeOK'
  <2>1. [rd[r] EXCEPT !.more = @ \ {m}] \in Call
    BY CallOf DEF Call
  <2>2. rd' \in [Readers -> Call]
    BY <1>17, <2>1 DEF Increment, TypeOK
  <2>3. rows' \in [Memories -> Row]
    BY <1>17, RecallAssumption DEF Increment, TypeOK, Row
  <2> QED BY <1>17, <2>2, <2>3 DEF Increment, TypeOK, history
<1>18. ASSUME NEW r \in Readers, NEW c \in rd[r].changes, Retier(r, c) PROVE TypeOK'
  <2>1. [rd[r] EXCEPT !.changes = @ \ {c}] \in Call
    BY CallOf DEF Call
  <2>2. rd' \in [Readers -> Call]
    BY <1>18, <2>1 DEF Retier, TypeOK
  <2>3. c \in Memories \X Tiers
    BY CallOf
  <2>4. rows' \in [Memories -> Row]
    BY <1>18, <2>3 DEF Retier, TypeOK, Row
  <2> QED BY <1>18, <2>2, <2>4, WatchType DEF Retier, TypeOK
<1>19. ASSUME NEW r \in Readers, RecentAnchors(r) \/ FewerAnchors(r) PROVE TypeOK'
  <2>1. ASSUME NEW anchors \in SUBSET Memories, NEW complete \in BOOLEAN,
               Inject(r, anchors, complete)
        PROVE  TypeOK'
    <3>1. rd' \in [Readers -> Call]
      BY <2>1 DEF Inject, NoCall, TypeOK, Call, Places
    <3>2. Guarded(rd[r].hits, anchors) \subseteq Memories
      BY CallOf DEF Guarded
    <3>3. answer' \in [Readers -> Answer]
      <4>1. PICK kept \in SUBSET Guarded(rd[r].hits, anchors) :
               answer' = [answer EXCEPT ![r] =
                            [ids |-> kept, session |-> rd[r].session,
                             cut |-> kept # Guarded(rd[r].hits, anchors) \/ ~complete]]
        BY <2>1 DEF Inject
      <4> QED BY <3>2, <4>1 DEF TypeOK, Call, Answer
    <3> QED BY <2>1, <3>1, <3>3 DEF Inject, TypeOK, table, history
  <2>2. \A ids \in SUBSET Memories : Readable(ids) \in SUBSET Memories
    BY DEF Readable
  <2>3. CASE RecentAnchors(r)
    BY <2>1, <2>2, <2>3, CallOf, SearchTypes DEF RecentAnchors
  <2>4. CASE FewerAnchors(r)
    BY <2>1, <2>2, <2>4, CallOf, SearchTypes DEF FewerAnchors
  <2> QED BY <1>19, <2>3, <2>4
<1>20. ASSUME NEW m \in Memories, Write(m) PROVE TypeOK'
  <2>1. rows' \in [Memories -> Row]
    BY <1>20 DEF Write, Change, TypeOK, Row
  <2> QED BY <1>20, <2>1, WatchType DEF Write, Change, TypeOK
<1>21. ASSUME NEW m \in Memories, NEW state \in {"archived", "deleted"}, Retire(m, state) PROVE TypeOK'
  <2>1. rows' \in [Memories -> Row]
    BY <1>21 DEF Retire, Change, TypeOK, Row
  <2> QED BY <1>21, <2>1, WatchType DEF Retire, Change, TypeOK
<1>22. ASSUME NEW m \in Memories, NEW tier \in Tiers, SetTier(m, tier) PROVE TypeOK'
  <2>1. rows' \in [Memories -> Row]
    BY <1>22 DEF SetTier, Change, TypeOK, Row
  <2> QED BY <1>22, <2>1, WatchType DEF SetTier, Change, TypeOK
<1>23. ASSUME NEW m \in Memories, Expire(m) PROVE TypeOK'
  <2>1. rows' \in [Memories -> Row]
    BY <1>23 DEF Expire, Change, TypeOK, Row
  <2> QED BY <1>23, <2>1, WatchType DEF Expire, Change, TypeOK
<1>24. CASE Reindex \/ Done \/ UNCHANGED vars
  BY <1>24 DEF Reindex, Done, vars, TypeOK, history, table
<1> QED
  BY <1>1, <1>2, <1>3, <1>4, <1>5, <1>6, <1>7, <1>8, <1>9, <1>10, <1>11, <1>12, <1>13, <1>14, <1>15, <1>16, <1>17, <1>18, <1>19, <1>20, <1>21, <1>22, <1>23, <1>24
     DEF Next, ReaderStep

-----------------------------------------------------------------------------
(* What is injected: one call moves on, the table and the histories stay.    *)

SafeOK == TierOK /\ RecallOK /\ AnswerOK

LEMMA LocalKeeps ==
    ASSUME TypeOK, SafeOK, UNCHANGED <<setting, table, answer, present, steady>>,
           NEW r \in Readers, \A q \in Readers \ {r} : rd'[q] = rd[q],
           rd[r].pc # "idle", rd'[r].pc # "idle", rd'[r].session = rd[r].session,
           \A c \in rd'[r].changes : c \in rd[r].changes \/ (c[2] = "core" => EarnedCore(c[1])),
           \A m \in rd'[r].hits \cup rd'[r].more : MayShow(m, rd[r].session),
           rd'[r].hits \subseteq present[r],
           rd'[r].pc # "fuse" => rd'[r].more \subseteq present[r],
           rd'[r].pc = "recent" =>
               Framing(r, rd[r].session) \subseteq rd'[r].hits \cup rd'[r].more
    PROVE  SafeOK'
<1>1. \A m : EarnedCore(m)' = EarnedCore(m)
  BY DEF EarnedCore, catalog, table
<1>2. \A m, s : MayShow(m, s)' = MayShow(m, s)
  BY <1>1 DEF MayShow, catalog
<1>3. \A s : Framing(r, s)' = Framing(r, s)
  BY <1>1 DEF Framing, MatchSession, catalog
<1>4. Listed' = Listed /\ \A s : Recallable(s)' = Recallable(s)
  BY DEF Listed, Recallable, Passes, MatchSession, catalog, table
<1>5. TierOK'
  <2>1. \A q \in Readers : \A c \in rd'[q].changes : c[2] = "core" => EarnedCore(c[1])
    BY DEF SafeOK, TierOK
  <2>2. \A m \in Memories : /\ rows[m].tier = "core" => EarnedCore(m)
                            /\ index[m].tier = "core" => EarnedCore(m)
    BY DEF SafeOK, TierOK
  <2> QED BY <1>1, <2>1, <2>2 DEF TierOK, table
<1>6. FoundBy(r)'
  BY <1>2 DEF FoundBy
<1>7. FramingFound(r)'
  BY <1>3 DEF FramingFound
<1>8. ASSUME NEW q \in Readers PROVE Watched(q)' /\ Busy(q)' = Busy(q)
  <2>1. Busy(q)' = Busy(q) /\ rd'[q].session = rd[q].session
    BY DEF Busy
  <2>2. Watched(q)
    BY DEF SafeOK, RecallOK
  <2> QED BY <1>4, <2>1, <2>2 DEF Watched
<1>9. \A q \in Readers : /\ rd'[q].session = rd[q].session
                         /\ q # r => /\ rd'[q].pc = rd[q].pc
                                     /\ rd'[q].hits = rd[q].hits /\ rd'[q].more = rd[q].more
  OBVIOUS
<1>10. RecallOK' /\ AnswerOK'
  BY <1>1, <1>6, <1>7, <1>8, <1>9, Keeps DEF SafeOK
<1> QED BY <1>5, <1>10 DEF SafeOK

(* A call that goes on with no more than it has found.                        *)
LEMMA GoesOn ==
    ASSUME TypeOK, SafeOK, UNCHANGED <<setting, table, answer, present, steady>>,
           NEW r \in Readers, \A q \in Readers \ {r} : rd'[q] = rd[q],
           rd[r].pc # "idle", rd'[r].pc \notin {"idle", "fuse", "recent"},
           rd'[r].session = rd[r].session,
           rd'[r].changes \subseteq rd[r].changes,
           rd'[r].hits \subseteq rd[r].hits,
           rd'[r].more \subseteq rd[r].hits \cup (IF rd[r].pc = "fuse" THEN {} ELSE rd[r].more)
    PROVE  SafeOK'
<1>1. FoundBy(r)
  BY DEF SafeOK, RecallOK
<1>2. /\ \A m \in rd'[r].hits \cup rd'[r].more : MayShow(m, rd[r].session)
      /\ rd'[r].hits \subseteq present[r] /\ rd'[r].more \subseteq present[r]
  BY <1>1 DEF FoundBy
<1> QED BY <1>2, LocalKeeps

(* What a search lets through may be shown.                                  *)
LEMMA SearchShows ==
    ASSUME TypeOK, SafeOK, NEW s
    PROVE  /\ Recallable(s) \subseteq Listed
           /\ \A m \in Recallable(s) \cup Indexed(s) : MayShow(m, s)
<1>1. Recallable(s) \subseteq Listed
  BY DEF Recallable, Passes, Listed
<1>2. ASSUME NEW m \in Memories, NEW tier, MatchSession(m, tier, s), tier = "core" => EarnedCore(m)
      PROVE  MayShow(m, s)
  BY <1>2 DEF MatchSession, MayShow
<1>3. \A m \in Memories : /\ rows[m].tier = "core" => EarnedCore(m)
                          /\ index[m].tier = "core" => EarnedCore(m)
  BY DEF SafeOK, TierOK
<1>4. ASSUME NEW m \in Recallable(s) \cup Indexed(s) PROVE MayShow(m, s)
  BY <1>2, <1>3 DEF Recallable, Indexed, Passes
<1> QED BY <1>1, <1>4

(* The framing of a running recall is the oldest memory of its session.       *)
LEMMA FramingIsFirst ==
    ASSUME TypeOK, SafeOK, NEW r \in Readers, Busy(r)
    PROVE  Framing(r, rd[r].session) \subseteq FirstForSession(rd[r].session)
<1> DEFINE s == rd[r].session
<1> SUFFICES ASSUME NEW m \in Framing(r, s) PROVE m \in FirstForSession(s)
  OBVIOUS
<1>1. m \in Recallable(s)
  BY DEF Framing, SafeOK, RecallOK, Watched
<1>2. ASSUME NEW k \in Recallable(s), k < m PROVE FALSE
  <2>1. k \in Memories /\ k \in present[r]
    BY SearchShows DEF SafeOK, RecallOK, Watched, Listed
  <2>2. MatchSession(k, rows[k].tier, s)
    BY DEF Recallable, Passes
  <2>3. rows[k].tier = "core" => EarnedCore(k)
    BY <2>1 DEF SafeOK, TierOK
  <2>4. ~MatchSession(k, "working", s) /\ ~EarnedCore(k)
    BY <1>2, <2>1 DEF Framing
  <2> QED BY <2>2, <2>3, <2>4 DEF MatchSession
<1>3. {k \in Recallable(s) : k < m} = {}
  BY <1>2
<1>4. Cardinality({k \in Recallable(s) : k < m}) < AnchorLimit
  BY <1>3, FS_EmptySet, RecallAssumption
<1> QED BY <1>1, <1>4 DEF FirstForSession, Oldest

(* The guardrails and the budget are all that keeps a find out of the answer. *)
LEMMA InjectSafe ==
    ASSUME TypeOK, SafeOK, NEW r \in Readers, rd[r].pc \in {"first", "recent"},
           NEW anchors \in SUBSET Memories, NEW complete \in BOOLEAN,
           Inject(r, anchors, complete),
           \A m \in anchors : MayShow(m, rd[r].session) /\ m \in present[r],
           complete => Framing(r, rd[r].session) \subseteq rd[r].hits \cup anchors
    PROVE  SafeOK'
<1> DEFINE guarded == Guarded(rd[r].hits, anchors)
<1>1. PICK kept \in SUBSET guarded :
         answer' = [answer EXCEPT ![r] = [ids |-> kept, session |-> rd[r].session,
                                          cut |-> kept # guarded \/ ~complete]]
  BY DEF Inject
<1>2. /\ rd' = [rd EXCEPT ![r] = NoCall]
      /\ UNCHANGED <<setting, rows, index, expired, cored, present, steady>>
  BY DEF Inject, table, history
<1>3. /\ answer'[r].ids = kept /\ answer'[r].session = rd[r].session
      /\ answer'[r].cut = (kept # guarded \/ ~complete)
      /\ \A q \in Readers \ {r} : answer'[q] = answer[q] /\ rd'[q] = rd[q]
      /\ rd'[r] = NoCall
  BY <1>1, <1>2 DEF TypeOK
<1>4. \A m : EarnedCore(m)' = EarnedCore(m)
  BY <1>2 DEF EarnedCore, catalog
<1>5. \A m, s : MayShow(m, s)' = MayShow(m, s)
  BY <1>2, <1>4 DEF MayShow, catalog
<1>6. \A q, s : Framing(q, s)' = Framing(q, s)
  BY <1>2, <1>4 DEF Framing, MatchSession, catalog
<1>7. Listed' = Listed /\ \A s : Recallable(s)' = Recallable(s)
  BY <1>2 DEF Listed, Recallable, Passes, MatchSession, catalog
<1>8. TierOK'
  <2>1. \A q \in Readers : rd'[q].changes \subseteq rd[q].changes
    BY <1>3 DEF NoCall
  <2> QED BY <1>2, <1>4, <2>1 DEF SafeOK, TierOK
<1>9. ASSUME NEW q \in Readers PROVE FoundBy(q)' /\ Watched(q)' /\ FramingFound(q)'
  <2>1. CASE q = r
    BY <1>3, <2>1 DEF FoundBy, Watched, FramingFound, Busy, NoCall
  <2>2. CASE q # r
    <3>1. FoundBy(q) /\ Watched(q) /\ FramingFound(q)
      BY DEF SafeOK, RecallOK
    <3>2. rd'[q] = rd[q] /\ present'[q] = present[q] /\ steady'[q] = steady[q]
      BY <1>2, <1>3, <2>2
    <3> QED BY <1>5, <1>6, <1>7, <3>1, <3>2 DEF FoundBy, Watched, FramingFound, Busy
  <2> QED BY <2>1, <2>2
<1>10. ASSUME NEW q \in Readers PROVE InjectedRightly(q)' /\ KeepsFraming(q)'
  <2>1. CASE q = r
    <3>1. FoundBy(r) /\ rd[r].pc # "fuse"
      BY DEF SafeOK, RecallOK
    <3>2. \A m \in kept : /\ m \in present[r] /\ catalog[m].category = "fact"
                          /\ MayShow(m, rd[r].session)
      BY <3>1 DEF Guarded, FoundBy
    <3>3. InjectedRightly(r)'
      BY <1>2, <1>3, <1>5, <3>2 DEF InjectedRightly, catalog
    <3>4. complete => Framing(r, rd[r].session) \subseteq guarded
      BY DEF Framing, Guarded
    <3>5. KeepsFraming(r)'
      BY <1>3, <1>6, <3>4 DEF KeepsFraming
    <3> QED BY <2>1, <3>3, <3>5
  <2>2. CASE q # r
    <3>1. InjectedRightly(q) /\ KeepsFraming(q)
      BY DEF SafeOK, AnswerOK
    <3>2. rd'[q] = rd[q] /\ answer'[q] = answer[q] /\ present'[q] = present[q]
      BY <1>2, <1>3, <2>2
    <3> QED BY <1>2, <1>5, <1>6, <3>1, <3>2 DEF InjectedRightly, KeepsFraming, Busy, catalog
  <2> QED BY <2>1, <2>2
<1> QED BY <1>8, <1>9, <1>10 DEF SafeOK, RecallOK, AnswerOK

(* A change of the table that the histories follow.                          *)
LEMMA TableKeeps ==
    ASSUME TypeOK, SafeOK, UNCHANGED <<setting, answer>>,
           \A m \in Memories : EarnedCore(m) => EarnedCore(m)',
           \A m \in Memories :
               /\ rows'[m].tier = "core" => rows[m].tier = "core" \/ EarnedCore(m)'
               /\ index'[m].tier = "core" => index[m].tier = "core" \/ rows[m].tier = "core",
           \A q \in Readers :
               /\ present[q] \subseteq present'[q] /\ steady'[q] \subseteq steady[q]
               /\ Watched(q)'
               /\ rd'[q].pc = rd[q].pc /\ rd'[q].session = rd[q].session
               /\ rd'[q].hits = rd[q].hits /\ rd'[q].changes \subseteq rd[q].changes,
           NEW r \in Readers, \A q \in Readers \ {r} : rd'[q].more = rd[q].more,
           \/ rd'[r].more = rd[r].more
           \/ rd'[r].more \subseteq rd[r].more /\ rd[r].pc # "recent"
    PROVE  SafeOK'
<1>1. TierOK'
  <2>1. \A m \in Memories : /\ rows[m].tier = "core" => EarnedCore(m)
                            /\ index[m].tier = "core" => EarnedCore(m)
    BY DEF SafeOK, TierOK
  <2>2. ASSUME NEW q \in Readers, NEW c \in rd'[q].changes, c[2] = "core" PROVE EarnedCore(c[1])'
    <3>1. c \in rd[q].changes /\ c[1] \in Memories
      BY CallOf
    <3>2. EarnedCore(c[1])
      BY <2>2, <3>1 DEF SafeOK, TierOK
    <3> QED BY <3>1, <3>2
  <2> QED BY <2>1, <2>2 DEF TierOK
<1>2. FoundBy(r)'
  <2>1. FoundBy(r)
    BY DEF SafeOK, RecallOK
  <2>2. rd[r].hits \cup rd[r].more \subseteq Memories
    BY CallOf
  <2>3. rd'[r].more \subseteq rd[r].more
    OBVIOUS
  <2> QED BY <2>1, <2>2, <2>3, ShownGrows DEF FoundBy
<1>3. FramingFound(r)'
  <2>1. FramingFound(r)
    BY DEF SafeOK, RecallOK
  <2>2. Framing(r, rd[r].session)' \subseteq Framing(r, rd[r].session)
    BY FramingShrinks DEF Framing
  <2> QED BY <2>1, <2>2 DEF FramingFound
<1>4. \A q \in Readers : Busy(q)' = Busy(q)
  BY DEF Busy
<1>5. RecallOK' /\ AnswerOK'
  BY <1>2, <1>3, <1>4, Keeps DEF SafeOK
<1> QED BY <1>1, <1>5 DEF SafeOK

LEMMA WatchedNow ==
    ASSUME TypeOK, Watch, \A q \in Readers : rd'[q].pc = rd[q].pc /\ rd'[q].session = rd[q].session
    PROVE  \A q \in Readers : Watched(q)'
<1> SUFFICES ASSUME NEW q \in Readers, Busy(q)' PROVE /\ Listed' \subseteq present'[q]
                                                     /\ steady'[q] \subseteq Recallable(rd[q].session)'
  BY DEF Watched
<1>1. Busy(q)
  BY DEF Busy
<1>2. Listed' = {m \in Memories : rows'[m].state = "live"}
  BY DEF Listed
<1> QED BY <1>1, <1>2, WatchType

(* Others change a row, but neither its count nor, unless they earn it by     *)
(* hand, make it core.                                                       *)
LEMMA ChangeKeeps ==
    ASSUME TypeOK, SafeOK, NEW m \in Memories, NEW row, Change(m, row), Watch, UNCHANGED index,
           row.count = rows[m].count, cored \subseteq cored',
           row.tier = "core" => rows[m].tier = "core" \/ m \in cored'
    PROVE  SafeOK'
<1>1. UNCHANGED <<setting, answer, rd>> /\ rows' = [rows EXCEPT ![m] = row]
  BY DEF Change
<1>2. \A k \in Memories : rows'[k].count = rows[k].count
  BY <1>1 DEF TypeOK
<1>3. \A k \in Memories : EarnedCore(k) => EarnedCore(k)'
  BY <1>1, <1>2, EarnedGrows
<1>4. \A k \in Memories : rows'[k].tier = "core" => rows[k].tier = "core" \/ EarnedCore(k)'
  BY <1>1 DEF TypeOK, EarnedCore
<1>5. PICK r \in Readers : TRUE
  BY RecallAssumption
<1> QED BY <1>1, <1>3, <1>4, <1>5, WatchedNow, WatchType, TableKeeps

LEMMA SafeStep == TypeOK /\ SafeOK /\ [Next]_vars => SafeOK'
<1> SUFFICES ASSUME TypeOK, SafeOK, [Next]_vars PROVE SafeOK'
  OBVIOUS
<1> USE DEF history
<1> DEFINE Onward(r) ==
             /\ rd[r].pc \notin {"idle", "fuse"} /\ rd'[r].pc \notin {"idle", "fuse", "recent"}
             /\ rd'[r].hits = rd[r].hits /\ rd'[r].more \subseteq rd[r].hits \cup rd[r].more
             /\ rd'[r].session = rd[r].session /\ rd'[r].changes = rd[r].changes
             /\ \A q \in Readers \ {r} : rd'[q] = rd[q]
<1>1. ASSUME NEW r \in Readers, Begin(r) PROVE SafeOK'
  <2>1. PICK s \in setting.sessions :
           /\ rd' = [rd EXCEPT ![r] = [NoCall EXCEPT !.pc = "vector", !.session = s]]
           /\ steady' = [steady EXCEPT ![r] = Recallable(s)]
    BY <1>1 DEF Begin
  <2>2. /\ UNCHANGED <<setting, rows, index, expired, cored>> /\ ~Busy(r)
        /\ present' = [present EXCEPT ![r] = Listed]
        /\ answer' = [answer EXCEPT ![r] = NoAnswer]
    BY <1>1 DEF Begin, table, Listed
  <2>3. /\ rd'[r].pc = "vector" /\ rd'[r].session = s
        /\ rd'[r].hits = {} /\ rd'[r].more = {} /\ rd'[r].changes = {}
        /\ present'[r] = Listed /\ steady'[r] = Recallable(s)
        /\ answer'[r].ids = {} /\ answer'[r].cut
        /\ \A q \in Readers \ {r} : /\ rd'[q] = rd[q] /\ answer'[q] = answer[q]
                                    /\ present'[q] = present[q] /\ steady'[q] = steady[q]
    BY <2>1, <2>2 DEF TypeOK, NoCall, NoAnswer
  <2>4. \A m : EarnedCore(m)' = EarnedCore(m)
    BY <2>2 DEF EarnedCore, catalog
  <2>5. \A m, t : MayShow(m, t)' = MayShow(m, t)
    BY <2>2, <2>4 DEF MayShow, catalog
  <2>6. Listed' = Listed /\ \A t : Recallable(t)' = Recallable(t)
    BY <2>2 DEF Listed, Recallable, Passes, MatchSession, catalog
  <2>7. TierOK'
    BY <2>2, <2>3, <2>4 DEF SafeOK, TierOK
  <2>8. ASSUME NEW q \in Readers
        PROVE  /\ FoundBy(q)' /\ Watched(q)' /\ FramingFound(q)'
               /\ InjectedRightly(q)' /\ KeepsFraming(q)'
    <3>1. CASE q = r
      BY <2>3, <2>6, <3>1
      DEF FoundBy, Watched, FramingFound, InjectedRightly, KeepsFraming
    <3>2. CASE q # r
      <4>1. /\ FoundBy(q) /\ Watched(q) /\ FramingFound(q)
            /\ InjectedRightly(q) /\ KeepsFraming(q)
        BY DEF SafeOK, RecallOK, AnswerOK
      <4>2. \A t : Framing(q, t)' = Framing(q, t)
        BY <2>2, <2>3, <2>4, <3>2 DEF Framing, MatchSession, catalog
      <4>3. rd'[q] = rd[q] /\ answer'[q] = answer[q] /\ present'[q] = present[q] /\ steady'[q] = steady[q]
        BY <2>3, <3>2
      <4>4. FoundBy(q)' /\ Watched(q)' /\ FramingFound(q)'
        BY <2>5, <2>6, <4>1, <4>2, <4>3 DEF FoundBy, Watched, FramingFound, Busy
      <4>5. InjectedRightly(q)' /\ KeepsFraming(q)'
        BY <2>2, <2>5, <4>1, <4>2, <4>3 DEF InjectedRightly, KeepsFraming, Busy, catalog
      <4> QED BY <4>4, <4>5
    <3> QED BY <3>1, <3>2
  <2> QED BY <2>7, <2>8 DEF SafeOK, RecallOK, AnswerOK
<1>2. ASSUME NEW r \in Readers, VectorSearch(r) PROVE SafeOK'
  <2>1. PICK hits \in SUBSET Recallable(rd[r].session) :
           rd' = [rd EXCEPT ![r].pc = "bm25", ![r].hits = hits]
    BY <1>2 DEF VectorSearch
  <2>2. FoundBy(r) /\ Listed \subseteq present[r] /\ rd[r].pc = "vector"
    BY <1>2 DEF SafeOK, RecallOK, Watched, Busy, VectorSearch
  <2>3. /\ rd'[r].pc = "bm25" /\ rd'[r].hits = hits /\ rd'[r].session = rd[r].session
        /\ rd'[r].more = rd[r].more /\ rd'[r].changes = rd[r].changes
        /\ \A q \in Readers \ {r} : rd'[q] = rd[q]
    BY <2>1 DEF TypeOK, Call
  <2>4. hits \subseteq present[r] /\ \A m \in hits : MayShow(m, rd[r].session)
    BY <2>2, SearchShows
  <2>5. UNCHANGED <<setting, table, answer, present, steady>>
    BY <1>2 DEF VectorSearch
  <2> QED BY <2>2, <2>3, <2>4, <2>5, LocalKeeps DEF FoundBy
<1>3. ASSUME NEW r \in Readers, Bm25Search(r) PROVE SafeOK'
  <2>1. PICK more \in SUBSET (Indexed(rd[r].session) \ rd[r].hits) :
           rd' = [rd EXCEPT ![r].pc = "fuse", ![r].more = more]
    BY <1>3 DEF Bm25Search
  <2>2. FoundBy(r) /\ rd[r].pc = "bm25"
    BY <1>3 DEF SafeOK, RecallOK, Bm25Search
  <2>3. /\ rd'[r].pc = "fuse" /\ rd'[r].hits = rd[r].hits /\ rd'[r].session = rd[r].session
        /\ rd'[r].more = more /\ rd'[r].changes = rd[r].changes
        /\ \A q \in Readers \ {r} : rd'[q] = rd[q]
    BY <2>1 DEF TypeOK, Call
  <2>4. \A m \in more : MayShow(m, rd[r].session)
    BY SearchShows
  <2>5. UNCHANGED <<setting, table, answer, present, steady>>
    BY <1>3 DEF Bm25Search
  <2> QED BY <2>2, <2>3, <2>4, <2>5, LocalKeeps DEF FoundBy
<1>4. ASSUME NEW r \in Readers, Fuse(r) PROVE SafeOK'
  <2>1. FoundBy(r) /\ Listed \subseteq present[r] /\ rd[r].pc = "fuse"
    BY <1>4 DEF SafeOK, RecallOK, Watched, Busy, Fuse
  <2>2. FusedHits(r) \subseteq present[r] /\ \A m \in FusedHits(r) : MayShow(m, rd[r].session)
    BY <2>1, CallOf DEF FusedHits, CheckIds, FoundBy, Listed
  <2> DEFINE next == IF FusedHits(r) = {} THEN "first" ELSE "rerank"
             hits == {m \in FusedHits(r) : ~catalog[m].noise}
  <2>5. rd' = [rd EXCEPT ![r].pc = next, ![r].hits = hits, ![r].more = {}]
    BY <1>4 DEF Fuse
  <2>6. hits \subseteq FusedHits(r) /\ next \in {"first", "rerank"}
    OBVIOUS
  <2> HIDE DEF next, hits
  <2>3. /\ rd'[r].pc \in {"first", "rerank"} /\ rd'[r].hits \subseteq FusedHits(r)
        /\ rd'[r].session = rd[r].session
        /\ rd'[r].more = {} /\ rd'[r].changes = rd[r].changes
        /\ \A q \in Readers \ {r} : rd'[q] = rd[q]
    BY <2>5, <2>6 DEF TypeOK, Call
  <2>4. UNCHANGED <<setting, table, answer, present, steady>>
    BY <1>4 DEF Fuse
  <2> QED BY <2>1, <2>2, <2>3, <2>4, LocalKeeps
<1>5. ASSUME NEW r \in Readers, SearchFails(r) PROVE SafeOK'
  <2>1. /\ rd'[r].pc = "first" /\ rd'[r].hits = {} /\ rd'[r].more = {}
        /\ rd'[r].session = rd[r].session /\ rd'[r].changes = rd[r].changes
        /\ \A q \in Readers \ {r} : rd'[q] = rd[q]
    BY <1>5 DEF SearchFails, TypeOK, Call
  <2> QED BY <1>5, <2>1, GoesOn DEF SearchFails
<1>6. ASSUME NEW r \in Readers, Rerank(r) PROVE SafeOK'
  <2>1. Onward(r)
    BY <1>6 DEF Rerank, Goto, TypeOK, Call
  <2> QED BY <1>6, <2>1, GoesOn DEF Rerank
<1>7. ASSUME NEW r \in Readers, Cut(r) PROVE SafeOK'
  <2>1. PICK kept \in SUBSET rd[r].hits : rd' = [rd EXCEPT ![r].pc = "load", ![r].hits = kept]
    BY <1>7 DEF Cut
  <2>2. /\ rd'[r].pc = "load" /\ rd'[r].hits \subseteq rd[r].hits /\ rd'[r].more = rd[r].more
        /\ rd'[r].session = rd[r].session /\ rd'[r].changes = rd[r].changes
        /\ \A q \in Readers \ {r} : rd'[q] = rd[q]
    BY <2>1 DEF TypeOK, Call
  <2> QED BY <1>7, <2>2, GoesOn DEF Cut
<1>8. ASSUME NEW r \in Readers, LoadCount(r) PROVE SafeOK'
  <2>1. Onward(r)
    BY <1>8 DEF LoadCount, Goto, TypeOK, Call
  <2> QED BY <1>8, <2>1, GoesOn DEF LoadCount
<1>9. ASSUME NEW r \in Readers, StoreCount(r) PROVE SafeOK'
  <2>1. Onward(r)
    BY <1>9 DEF StoreCount, Goto, TypeOK, Call
  <2> QED BY <1>9, <2>1, GoesOn DEF StoreCount
<1>10. ASSUME NEW r \in Readers, Incremented(r) PROVE SafeOK'
  <2>1. Onward(r)
    BY <1>10 DEF Incremented, Goto, TypeOK, Call
  <2> QED BY <1>10, <2>1, GoesOn DEF Incremented
<1>11. ASSUME NEW r \in Readers, CheckDue(r) PROVE SafeOK'
  <2>1. Onward(r)
    BY <1>11 DEF CheckDue, Goto, TypeOK, Call
  <2> QED BY <1>11, <2>1, GoesOn DEF CheckDue
<1>12. ASSUME NEW r \in Readers, Evaluated(r) PROVE SafeOK'
  <2>1. Onward(r)
    BY <1>12 DEF Evaluated, Goto, TypeOK, Call
  <2> QED BY <1>12, <2>1, GoesOn DEF Evaluated
<1>13. ASSUME NEW r \in Readers, GoogleToken(r) PROVE SafeOK'
  <2>1. ASSUME NEW pc \in {"post", "cut"}, Goto(r, pc) PROVE Onward(r)
    BY <1>13, <2>1 DEF GoogleToken, Goto, TypeOK, Call
  <2>2. Onward(r)
    BY <1>13, <2>1 DEF GoogleToken
  <2> QED BY <1>13, <2>2, GoesOn DEF GoogleToken
<1>14. ASSUME NEW r \in Readers, NEW o \in Outcomes, Post(r, o) PROVE SafeOK'
  <2>1. /\ rd'[r].pc \in {"post", "cut"} /\ rd'[r].hits = rd[r].hits /\ rd'[r].more = rd[r].more
        /\ rd'[r].session = rd[r].session /\ rd'[r].changes = rd[r].changes
        /\ \A q \in Readers \ {r} : rd'[q] = rd[q]
    BY <1>14 DEF Post, TypeOK, Call
  <2> QED BY <1>14, <2>1, GoesOn DEF Post
<1>15. ASSUME NEW r \in Readers, Evaluate(r) PROVE SafeOK'
  <2>1. PICK changes \in AllChanges : rd' = [rd EXCEPT ![r].pc = "retier", ![r].changes = changes]
    BY <1>15 DEF Evaluate
  <2>2. FoundBy(r) /\ rd[r].pc = "list"
    BY <1>15 DEF SafeOK, RecallOK, Evaluate
  <2>3. /\ rd'[r].pc = "retier" /\ rd'[r].hits = rd[r].hits /\ rd'[r].session = rd[r].session
        /\ rd'[r].more = rd[r].more /\ rd'[r].changes = changes
        /\ \A q \in Readers \ {r} : rd'[q] = rd[q]
    BY <2>1 DEF TypeOK, Call
  <2>4. ASSUME NEW c \in changes, c[2] = "core" PROVE EarnedCore(c[1])
    <3>1. c[1] \in Memories /\ (rows[c[1]].tier = "core" \/ EarnedCore(c[1]))
      BY <2>4, ChangesType
    <3> QED BY <3>1 DEF SafeOK, TierOK
  <2>5. UNCHANGED <<setting, table, answer, present, steady>>
    BY <1>15 DEF Evaluate
  <2> QED BY <2>2, <2>3, <2>4, <2>5, LocalKeeps DEF FoundBy
<1>16. ASSUME NEW r \in Readers, FirstAnchors(r) PROVE SafeOK'
  <2> DEFINE s == rd[r].session
             first == FirstForSession(s)
  <2>1. PICK named \in BOOLEAN :
           LET kept == TemporalFilter(rd[r].hits, named)
           IN  rd' = [rd EXCEPT ![r].pc = "recent", ![r].hits = kept,
                        ![r].more = FirstForSession(rd[r].session) \ Known(rd[r].hits, kept)]
    BY <1>16 DEF FirstAnchors
  <2> DEFINE kept == TemporalFilter(rd[r].hits, named)
  <2>2. /\ rd'[r].pc = "recent" /\ rd'[r].hits = kept /\ rd'[r].session = s
        /\ rd'[r].more = first \ kept /\ rd'[r].changes = rd[r].changes
        /\ \A q \in Readers \ {r} : rd'[q] = rd[q]
    BY <2>1 DEF TypeOK, Call, Known
  <2>3. FoundBy(r) /\ Listed \subseteq present[r] /\ rd[r].pc = "first" /\ Busy(r)
    BY <1>16 DEF SafeOK, RecallOK, Watched, Busy, FirstAnchors
  <2>4. kept \subseteq rd[r].hits
    BY DEF TemporalFilter
  <2>5. first \subseteq Recallable(s)
    BY DEF FirstForSession, Oldest
  <2>6. first \subseteq present[r] /\ \A m \in first : MayShow(m, s)
    BY <2>3, <2>5, SearchShows
  <2>7. Framing(r, s) \subseteq first
    BY <2>3, FramingIsFirst
  <2>8. UNCHANGED <<setting, table, answer, present, steady>>
    BY <1>16 DEF FirstAnchors
  <2> HIDE DEF first, kept
  <2> QED BY <2>2, <2>3, <2>4, <2>6, <2>7, <2>8, LocalKeeps DEF FoundBy
<1>17. ASSUME NEW r \in Readers, RecentAnchors(r) \/ FewerAnchors(r) PROVE SafeOK'
  <2> DEFINE s == rd[r].session
             recent == RecentForSession(s)
  <2>1. FoundBy(r) /\ FramingFound(r) /\ Listed \subseteq present[r] /\ rd[r].pc \in {"first", "recent"}
    BY <1>17 DEF SafeOK, RecallOK, Watched, Busy, RecentAnchors, FewerAnchors
  <2>2. recent \subseteq present[r] /\ \A m \in recent : MayShow(m, s)
    BY <2>1, SearchShows DEF RecentForSession, MostRecent
  <2>3. rd[r].more \subseteq present[r] /\ \A m \in rd[r].more : MayShow(m, s)
    BY <2>1 DEF FoundBy
  <2>4. \A ids : Readable(ids) \subseteq ids
    BY DEF Readable
  <2>5. rd[r].more \in SUBSET Memories /\ recent \in SUBSET Memories
    BY CallOf, SearchTypes
  <2> HIDE DEF recent
  <2>6. CASE RecentAnchors(r)
    <3>1. Inject(r, Readable(rd[r].more \cup recent), TRUE) /\ rd[r].pc = "recent"
      BY <2>6 DEF RecentAnchors, recent
    <3>2. Framing(r, s) \subseteq rd[r].hits \cup Readable(rd[r].more \cup recent)
      BY <2>1, <3>1 DEF FramingFound, Framing, Readable
    <3>3. Readable(rd[r].more \cup recent) \in SUBSET Memories
      BY <2>4, <2>5
    <3> QED BY <2>1, <2>2, <2>3, <2>4, <3>1, <3>2, <3>3, InjectSafe
  <2>7. CASE FewerAnchors(r)
    <3>1. PICK anchors \in {{}, rd[r].more, recent} :
             \/ Inject(r, {}, FALSE)
             \/ Inject(r, Readable(anchors), FALSE)
      BY <2>7 DEF FewerAnchors, recent
    <3>2. Readable(anchors) \in SUBSET Memories /\ {} \in SUBSET Memories
      BY <2>4, <2>5, <3>1
    <3>3. \A m \in Readable(anchors) : MayShow(m, s) /\ m \in present[r]
      BY <2>2, <2>3, <2>4, <3>1
    <3> QED BY <2>1, <3>1, <3>2, <3>3, InjectSafe
  <2> QED BY <1>17, <2>6, <2>7
<1>18. ASSUME NEW r \in Readers, NEW m \in Memories, Increment(r, m) PROVE SafeOK'
  <2>1. /\ UNCHANGED <<setting, answer, index, expired, cored, present, steady>>
        /\ rd' = [rd EXCEPT ![r].more = @ \ {m}] /\ rd[r].pc = "count"
    BY <1>18 DEF Increment
  <2>2. \A k \in Memories : /\ rows'[k].state = rows[k].state /\ rows'[k].tier = rows[k].tier
                            /\ rows[k].count = CoreAccess => rows'[k].count = CoreAccess
    BY <1>18, RecallAssumption DEF Increment, TypeOK, Row
  <2>3. /\ \A q \in Readers : /\ rd'[q].pc = rd[q].pc /\ rd'[q].session = rd[q].session
                              /\ rd'[q].hits = rd[q].hits /\ rd'[q].changes = rd[q].changes
        /\ \A q \in Readers \ {r} : rd'[q].more = rd[q].more
        /\ rd'[r].more \subseteq rd[r].more
    BY <2>1 DEF TypeOK, Call
  <2>4. Listed' = Listed /\ \A s : Recallable(s)' = Recallable(s)
    BY <2>1, <2>2 DEF Listed, Recallable, Passes, MatchSession, catalog
  <2>5. \A q \in Readers : Watched(q)'
    BY <2>1, <2>3, <2>4 DEF SafeOK, RecallOK, Watched, Busy
  <2>6. \A k \in Memories : EarnedCore(k) => EarnedCore(k)'
    BY <2>1, <2>2, EarnedGrows
  <2> QED BY <2>1, <2>2, <2>3, <2>5, <2>6, TableKeeps
<1>19. ASSUME NEW r \in Readers, NEW c \in rd[r].changes, Retier(r, c) PROVE SafeOK'
  <2>1. /\ UNCHANGED <<setting, answer, index, expired, cored>>
        /\ rd' = [rd EXCEPT ![r].changes = @ \ {c}] /\ rd[r].pc = "retier"
    BY <1>19 DEF Retier
  <2>2. /\ \A q \in Readers : /\ rd'[q].pc = rd[q].pc /\ rd'[q].session = rd[q].session
                              /\ rd'[q].hits = rd[q].hits /\ rd'[q].more = rd[q].more
        /\ \A q \in Readers : rd'[q].changes \subseteq rd[q].changes
    BY <2>1 DEF TypeOK, Call
  <2>3. c \in Memories \X Tiers /\ (c[2] = "core" => EarnedCore(c[1]))
    BY CallOf DEF SafeOK, TierOK
  <2>4. CASE UNCHANGED <<rows, present, steady>>
    <3>1. Listed' = Listed /\ \A s : Recallable(s)' = Recallable(s)
      BY <2>1, <2>4 DEF Listed, Recallable, Passes, MatchSession, catalog
    <3>2. \A q \in Readers : Watched(q)'
      BY <2>2, <2>4, <3>1 DEF SafeOK, RecallOK, Watched, Busy
    <3>3. \A k \in Memories : EarnedCore(k) => EarnedCore(k)'
      BY <2>1, <2>4, EarnedGrows
    <3> QED BY <2>1, <2>2, <2>4, <3>2, <3>3, TableKeeps
  <2>5. CASE Watch /\ rows' = [rows EXCEPT ![c[1]].tier = c[2]]
    <3>1. \A k \in Memories : rows'[k].count = rows[k].count
      BY <2>3, <2>5 DEF TypeOK, Row
    <3>2. \A k \in Memories : EarnedCore(k) => EarnedCore(k)'
      BY <2>1, <3>1, EarnedGrows
    <3>3. ASSUME NEW k \in Memories, rows'[k].tier = "core"
          PROVE  rows[k].tier = "core" \/ EarnedCore(k)'
      <4>1. rows[k].tier = "core" \/ (k = c[1] /\ c[2] = "core")
        BY <2>3, <2>5, <3>3 DEF TypeOK, Row
      <4> QED BY <2>3, <3>2, <4>1
    <3> QED BY <2>1, <2>2, <2>5, <3>2, <3>3, WatchedNow, WatchType, TableKeeps
  <2> QED BY <1>19, <2>4, <2>5 DEF Retier
<1>20. ASSUME NEW m \in Memories, Write(m) PROVE SafeOK'
  BY <1>20, ChangeKeeps DEF Write, TypeOK, Row
<1>21. ASSUME NEW m \in Memories, NEW state \in {"archived", "deleted"}, Retire(m, state) PROVE SafeOK'
  BY <1>21, ChangeKeeps DEF Retire, TypeOK, Row
<1>22. ASSUME NEW m \in Memories, NEW tier \in Tiers, SetTier(m, tier) PROVE SafeOK'
  BY <1>22, ChangeKeeps DEF SetTier, TypeOK, Row
<1>23. ASSUME NEW m \in Memories, Expire(m) PROVE SafeOK'
  BY <1>23, ChangeKeeps DEF Expire, TypeOK, Row
<1>24. CASE Reindex
  <2>1. UNCHANGED <<setting, rows, expired, cored, rd, answer, present, steady>> /\ index' = rows
    BY <1>24 DEF Reindex
  <2>2. \A q \in Readers : Watched(q)'
    BY <2>1 DEF SafeOK, RecallOK, Watched, Busy, Listed, Recallable, Passes, MatchSession, catalog
  <2>3. \A k \in Memories : EarnedCore(k) => EarnedCore(k)'
    BY <2>1, EarnedGrows
  <2>4. PICK r \in Readers : TRUE
    BY RecallAssumption
  <2> QED BY <2>1, <2>2, <2>3, <2>4, TableKeeps
<1>25. CASE Done \/ UNCHANGED vars
  BY <1>25 DEF Done, vars, SafeOK, TierOK, RecallOK, AnswerOK, FoundBy, Watched, FramingFound, Framing,
     InjectedRightly, KeepsFraming, MayShow, EarnedCore, Busy, Listed, Recallable, Passes,
     MatchSession, catalog
<1> QED
  BY <1>1, <1>2, <1>3, <1>4, <1>5, <1>6, <1>7, <1>8, <1>9, <1>10, <1>11, <1>12, <1>13, <1>14, <1>15, <1>16, <1>17, <1>18, <1>19, <1>20, <1>21, <1>22, <1>23, <1>24, <1>25
     DEF Next, ReaderStep

-----------------------------------------------------------------------------
(* The refused reranker.                                                     *)

LEMMA SendersFinite ==
    ASSUME TypeOK
    PROVE  /\ IsFiniteSet(MaySend) /\ Cardinality(MaySend) \in Nat
           /\ IsFiniteSet(MaySendTwice) /\ Cardinality(MaySendTwice) \in Nat
<1>1. MaySend \subseteq Readers /\ MaySendTwice \subseteq Readers
  BY DEF MaySend, MaySendTwice
<1> QED BY <1>1, RecallAssumption, FS_Subset, FS_CardinalityType

(* Where the switch stays and nobody is under way to the reranker anew.      *)
LEMMA SendersFewer ==
    ASSUME TypeOK, RefusalOK, UNCHANGED <<disabled, late>>,
           \A q \in Readers : rd'[q].pc # "post" => rd'[q].tries = 0,
           disabled => MaySend' \subseteq MaySend /\ MaySendTwice' \subseteq MaySendTwice
    PROVE  RefusalOK'
<1>1. CASE disabled
  <2>1. /\ Cardinality(MaySend') \in Nat /\ Cardinality(MaySend') <= Cardinality(MaySend)
        /\ Cardinality(MaySendTwice') \in Nat
        /\ Cardinality(MaySendTwice') <= Cardinality(MaySendTwice)
    BY <1>1, SendersFinite, FS_Subset, FS_CardinalityType
  <2>2. late + Cardinality(MaySend) + Cardinality(MaySendTwice) <= 2 * (Cardinality(Readers) - 1)
    BY <1>1 DEF RefusalOK
  <2>3. late \in Nat /\ Cardinality(Readers) \in Nat
    BY RecallAssumption, FS_CardinalityType DEF TypeOK
  <2>4. late + Cardinality(MaySend') + Cardinality(MaySendTwice') <= 2 * (Cardinality(Readers) - 1)
    BY <2>1, <2>2, <2>3, SendersFinite
  <2> QED BY <1>1, <2>4 DEF RefusalOK
<1>2. CASE ~disabled
  BY <1>2 DEF RefusalOK
<1> QED BY <1>1, <1>2

(* Whoever disables it is itself done with it.                               *)
LEMMA OthersSend ==
    ASSUME TypeOK, RefusalOK, ~disabled, late' = 0, NEW r \in Readers, r \notin MaySend',
           \A q \in Readers : rd'[q].pc # "post" => rd'[q].tries = 0
    PROVE  RefusalOK'
<1>1. MaySend' \subseteq Readers \ {r} /\ MaySendTwice' \subseteq Readers \ {r}
  BY DEF MaySend, MaySendTwice
<1>2. IsFiniteSet(Readers \ {r}) /\ Cardinality(Readers \ {r}) = Cardinality(Readers) - 1
  BY RecallAssumption, FS_RemoveElement
<1>3. /\ Cardinality(MaySend') \in Nat /\ Cardinality(MaySend') <= Cardinality(Readers) - 1
      /\ Cardinality(MaySendTwice') \in Nat /\ Cardinality(MaySendTwice') <= Cardinality(Readers) - 1
  BY <1>1, <1>2, FS_Subset, FS_CardinalityType
<1>4. Cardinality(Readers) \in Nat
  BY RecallAssumption, FS_CardinalityType
<1>5. late' + Cardinality(MaySend') + Cardinality(MaySendTwice') <= 2 * (Cardinality(Readers) - 1)
  BY <1>3, <1>4
<1> QED BY <1>5 DEF RefusalOK

(* One of those under way sends: the request it sends is one it may send     *)
(* no more.                                                                  *)
LEMMA OneSent ==
    ASSUME TypeOK, RefusalOK, disabled, disabled', late' = late + 1, NEW r \in MaySend,
           \/ MaySend' = MaySend \ {r} /\ MaySendTwice' \subseteq MaySendTwice
           \/ MaySend' = MaySend /\ r \in MaySendTwice /\ MaySendTwice' = MaySendTwice \ {r},
           \A q \in Readers : rd'[q].pc # "post" => rd'[q].tries = 0
    PROVE  RefusalOK'
<1>1. late + Cardinality(MaySend) + Cardinality(MaySendTwice) <= 2 * (Cardinality(Readers) - 1)
  BY DEF RefusalOK
<1>2. late \in Nat /\ Cardinality(Readers) \in Nat
  BY RecallAssumption, FS_CardinalityType DEF TypeOK
<1>3. /\ Cardinality(MaySend') \in Nat /\ Cardinality(MaySendTwice') \in Nat
      /\ Cardinality(MaySend') + Cardinality(MaySendTwice')
           <= Cardinality(MaySend) + Cardinality(MaySendTwice) - 1
  <2>1. CASE MaySend' = MaySend \ {r} /\ MaySendTwice' \subseteq MaySendTwice
    <3>1. Cardinality(MaySend') = Cardinality(MaySend) - 1 /\ Cardinality(MaySend') \in Nat
      BY <2>1, SendersFinite, FS_RemoveElement, FS_CardinalityType
    <3>2. Cardinality(MaySendTwice') \in Nat /\ Cardinality(MaySendTwice') <= Cardinality(MaySendTwice)
      BY <2>1, SendersFinite, FS_Subset, FS_CardinalityType
    <3> QED BY <3>1, <3>2, SendersFinite
  <2>2. CASE MaySend' = MaySend /\ r \in MaySendTwice /\ MaySendTwice' = MaySendTwice \ {r}
    <3>1. Cardinality(MaySendTwice') = Cardinality(MaySendTwice) - 1 /\ Cardinality(MaySendTwice') \in Nat
      BY <2>2, SendersFinite, FS_RemoveElement, FS_CardinalityType
    <3> QED BY <2>2, <3>1, SendersFinite
  <2> QED BY <2>1, <2>2
<1>4. late' + Cardinality(MaySend') + Cardinality(MaySendTwice') <= 2 * (Cardinality(Readers) - 1)
  BY <1>1, <1>2, <1>3, SendersFinite
<1> QED BY <1>4 DEF RefusalOK

LEMMA RefusalStep == TypeOK /\ RefusalOK /\ [Next]_vars => RefusalOK'
<1> SUFFICES ASSUME TypeOK, RefusalOK, [Next]_vars PROVE RefusalOK'
  OBVIOUS
<1> DEFINE Calm(q) == rd'[q].pc # "post" /\ rd'[q].pc # "token" /\ rd'[q].tries = 0
<1>0. ASSUME NEW r \in Readers, UNCHANGED <<disabled, late>>, Calm(r),
             \A q \in Readers \ {r} : rd'[q].pc = rd[q].pc /\ rd'[q].tries = rd[q].tries
      PROVE  RefusalOK'
  <2>1. MaySend' \subseteq MaySend /\ MaySendTwice' \subseteq MaySendTwice
    BY <1>0 DEF MaySend, MaySendTwice
  <2>2. \A q \in Readers : rd'[q].pc # "post" => rd'[q].tries = 0
    BY <1>0 DEF RefusalOK
  <2> QED BY <1>0, <2>1, <2>2, SendersFewer
<1>1. ASSUME NEW r \in Readers,
             \/ Begin(r) \/ VectorSearch(r) \/ Bm25Search(r) \/ SearchFails(r) \/ Fuse(r)
             \/ Cut(r) \/ LoadCount(r) \/ StoreCount(r) \/ Incremented(r) \/ CheckDue(r)
             \/ Evaluate(r) \/ Evaluated(r) \/ FirstAnchors(r) \/ RecentAnchors(r)
             \/ FewerAnchors(r) \/ (\E m \in Memories : Increment(r, m))
             \/ (\E c \in rd[r].changes : Retier(r, c))
      PROVE  RefusalOK'
  <2>0. rd[r].pc # "post" => rd[r].tries = 0
    BY DEF RefusalOK
  <2>1. UNCHANGED <<disabled, late>>
    BY <1>1 DEF Begin, VectorSearch, Bm25Search, SearchFails, Fuse, Cut, LoadCount, StoreCount,
       Incremented, CheckDue, Evaluate, Evaluated, FirstAnchors, RecentAnchors, FewerAnchors,
       Increment, Retier, Inject, history
  <2>2. \A q \in Readers \ {r} : rd'[q] = rd[q]
    BY <1>1 DEF Begin, VectorSearch, Bm25Search, SearchFails, Fuse, Cut, LoadCount, StoreCount,
       Incremented, CheckDue, Evaluate, Evaluated, FirstAnchors, RecentAnchors, FewerAnchors,
       Increment, Retier, Inject, Goto, TypeOK
  <2>3. Calm(r)
    <3>0. rd \in [Readers -> Call]
      BY DEF TypeOK
    <3>1. CASE Begin(r)
      <4>1. PICK s : rd'[r] = [NoCall EXCEPT !.pc = "vector", !.session = s]
        BY <3>0, <3>1 DEF Begin
      <4> QED BY <4>1 DEF NoCall
    <3>2. CASE RecentAnchors(r) \/ FewerAnchors(r)
      <4>1. rd'[r] = NoCall
        BY <3>0, <3>2 DEF RecentAnchors, FewerAnchors, Inject
      <4> QED BY <4>1 DEF NoCall
    <3>3. CASE VectorSearch(r) \/ Bm25Search(r) \/ Cut(r)
      BY <2>0, <3>0, <3>3 DEF VectorSearch, Bm25Search, Cut, Call
    <3>4. CASE SearchFails(r)
      BY <2>0, <3>0, <3>4 DEF SearchFails, Call
    <3>5. CASE Fuse(r)
      <4>1. rd'[r].tries = rd[r].tries /\ rd'[r].pc \in {"first", "rerank"} /\ rd[r].pc = "fuse"
        BY <3>0, <3>5 DEF Fuse, Call
      <4> QED BY <2>0, <4>1
    <3>6. CASE FirstAnchors(r)
      BY <2>0, <3>0, <3>6 DEF FirstAnchors, Call
    <3>7. CASE LoadCount(r) \/ StoreCount(r) \/ Incremented(r)
      BY <2>0, <3>0, <3>7 DEF LoadCount, StoreCount, Incremented, Goto, Call
    <3>8. CASE CheckDue(r)
      <4>1. rd'[r].tries = rd[r].tries /\ rd'[r].pc \in {"first", "list"} /\ rd[r].pc = "due"
        BY <3>0, <3>8 DEF CheckDue, Goto, Call
      <4> QED BY <2>0, <4>1
    <3>9. CASE Evaluate(r) \/ Evaluated(r)
      BY <2>0, <3>0, <3>9 DEF Evaluate, Evaluated, Goto, Call
    <3>10. CASE \E m \in Memories : Increment(r, m)
      <4>1. rd'[r].tries = rd[r].tries /\ rd'[r].pc = rd[r].pc /\ rd[r].pc = "count"
        BY <3>0, <3>10 DEF Increment, Call
      <4> QED BY <2>0, <4>1
    <3>11. CASE \E c \in rd[r].changes : Retier(r, c)
      <4>1. rd'[r].tries = rd[r].tries /\ rd'[r].pc = rd[r].pc /\ rd[r].pc = "retier"
        BY <3>0, <3>11 DEF Retier, Call
      <4> QED BY <2>0, <4>1
    <3> QED BY <1>1, <3>1, <3>2, <3>3, <3>4, <3>5, <3>6, <3>7, <3>8, <3>9, <3>10, <3>11
  <2> QED BY <1>0, <2>1, <2>2, <2>3
<1>2. ASSUME NEW r \in Readers, Rerank(r) PROVE RefusalOK'
  <2>1. /\ UNCHANGED <<disabled, late>> /\ rd'[r].tries = 0
        /\ rd'[r].pc \in {"cut", "token", "post"} /\ (disabled => rd'[r].pc = "cut")
        /\ \A q \in Readers \ {r} : rd'[q] = rd[q]
    BY <1>2 DEF Rerank, WantsRerank, Goto, TypeOK, Call, RefusalOK, history
  <2>2. \A q \in Readers : rd'[q].pc # "post" => rd'[q].tries = 0
    BY <2>1 DEF RefusalOK
  <2>3. disabled => MaySend' \subseteq MaySend /\ MaySendTwice' \subseteq MaySendTwice
    BY <2>1 DEF MaySend, MaySendTwice
  <2> QED BY <2>1, <2>2, <2>3, SendersFewer
<1>3. ASSUME NEW r \in Readers, GoogleToken(r) PROVE RefusalOK'
  <2>1. /\ rd[r].pc = "token" /\ rd'[r].tries = 0 /\ late' = late
        /\ \/ rd'[r].pc = "post" /\ disabled' = disabled
           \/ rd'[r].pc = "cut" /\ disabled'
        /\ \A q \in Readers \ {r} : rd'[q] = rd[q]
    BY <1>3 DEF GoogleToken, Goto, TypeOK, Call, RefusalOK, history
  <2>2. \A q \in Readers : rd'[q].pc # "post" => rd'[q].tries = 0
    BY <2>1 DEF RefusalOK
  <2>3. MaySend' \subseteq MaySend /\ MaySendTwice' \subseteq MaySendTwice
    BY <1>3, <2>1 DEF MaySend, MaySendTwice, RefusalOK
  <2>4. CASE disabled' = disabled
    BY <2>1, <2>2, <2>3, <2>4, SendersFewer
  <2>5. CASE ~disabled /\ disabled'
    <3>1. r \notin MaySend' /\ late' = 0
      BY <2>1, <2>5 DEF MaySend, RefusalOK
    <3> QED BY <2>2, <2>5, <3>1, OthersSend
  <2> QED BY <2>1, <2>4, <2>5 DEF TypeOK
<1>4. ASSUME NEW r \in Readers, NEW o \in Outcomes, Post(r, o) PROVE RefusalOK'
  <2>1. /\ rd[r].pc = "post" /\ late' = (IF disabled THEN late + 1 ELSE late)
        /\ \A q \in Readers \ {r} : rd'[q] = rd[q]
        /\ disabled' = (disabled \/ o = "refused")
    BY <1>4 DEF Post, TypeOK
  <2>2. \/ /\ rd[r].tries = 0 /\ rd'[r].pc = "post" /\ rd'[r].tries = 1 /\ o # "refused"
        \/ rd'[r].pc = "cut" /\ rd'[r].tries = 0
    BY <1>4 DEF Post, MayRetry, TypeOK, Call
  <2>3. \A q \in Readers : rd'[q].pc # "post" => rd'[q].tries = 0
    BY <2>1, <2>2 DEF RefusalOK
  <2>4. CASE disabled
    <3>1. r \in MaySend
      BY <2>1 DEF MaySend
    <3>2. CASE rd'[r].pc = "cut"
      <4>1. MaySend' = MaySend \ {r} /\ MaySendTwice' \subseteq MaySendTwice
        BY <2>1, <3>2 DEF MaySend, MaySendTwice
      <4> QED BY <2>1, <2>3, <2>4, <3>1, <4>1, OneSent
    <3>3. CASE rd[r].tries = 0 /\ rd'[r].pc = "post" /\ rd'[r].tries = 1
      <4>1. MaySend' = MaySend /\ r \in MaySendTwice /\ MaySendTwice' = MaySendTwice \ {r}
        BY <2>1, <3>1, <3>3 DEF MaySend, MaySendTwice
      <4> QED BY <2>1, <2>3, <2>4, <3>1, <4>1, OneSent
    <3> QED BY <2>2, <3>2, <3>3
  <2>5. CASE ~disabled /\ o = "refused"
    <3>1. r \notin MaySend' /\ late' = 0
      BY <2>1, <2>2, <2>5 DEF MaySend, RefusalOK
    <3> QED BY <2>3, <2>5, <3>1, OthersSend
  <2>6. CASE ~disabled /\ o # "refused"
    BY <2>1, <2>3, <2>6 DEF RefusalOK
  <2> QED BY <2>4, <2>5, <2>6
<1>5. ASSUME UNCHANGED <<disabled, late, rd>> PROVE RefusalOK'
  BY <1>5 DEF RefusalOK, MaySend, MaySendTwice
<1>6. ASSUME NEW m \in Memories,
             \/ Write(m) \/ Retire(m, "archived") \/ Retire(m, "deleted")
             \/ (\E tier \in Tiers : SetTier(m, tier)) \/ Expire(m)
      PROVE  RefusalOK'
  BY <1>5, <1>6 DEF Write, Retire, SetTier, Expire, Change
<1>7. CASE Reindex \/ Done \/ UNCHANGED vars
  BY <1>5, <1>7 DEF Reindex, Done, vars, history
<1> QED BY <1>1, <1>2, <1>3, <1>4, <1>6, <1>7 DEF Next, ReaderStep

-----------------------------------------------------------------------------
(* The evaluations.                                                          *)

(* Steps that leave the lifecycle hooks alone.                               *)
LEMMA CountSame ==
    ASSUME CountOK, UNCHANGED <<callCount, tally>>,
           \A q \in Readers :
               \/ rd'[q].pc = rd[q].pc /\ rd'[q].loaded = rd[q].loaded
               \/ ~InLifecycle(q) /\ ~InLifecycle(q)'
    PROVE  CountOK'
<1>1. \A q \in Readers : InLifecycle(q)' = InLifecycle(q)
  BY DEF InLifecycle
<1>2. \A q \in Readers : InLifecycle(q) => rd'[q].pc = rd[q].pc /\ rd'[q].loaded = rd[q].loaded
  OBVIOUS
<1> QED BY <1>1, <1>2 DEF CountOK

LEMMA CountStep == TypeOK /\ CountOK /\ [Next]_vars => CountOK'
<1> SUFFICES ASSUME TypeOK, CountOK, [Next]_vars PROVE CountOK'
  OBVIOUS
<1>0. rd \in [Readers -> Call] /\ tally \in [lifecycles : Nat, evals : Nat, overlap : BOOLEAN]
  BY DEF TypeOK
<1>1. ASSUME NEW r \in Readers, UNCHANGED <<callCount, tally>>,
             \A q \in Readers \ {r} : rd'[q] = rd[q],
             \/ rd'[r].pc = rd[r].pc /\ rd'[r].loaded = rd[r].loaded
             \/ ~InLifecycle(r) /\ ~InLifecycle(r)'
      PROVE  CountOK'
  BY <1>1, CountSame
<1>2. ASSUME NEW r \in Readers, Begin(r) PROVE CountOK'
  <2>1. PICK s : rd' = [rd EXCEPT ![r] = [NoCall EXCEPT !.pc = "vector", !.session = s]]
    BY <1>2 DEF Begin
  <2>2. rd'[r].pc = "vector" /\ rd[r].pc = "idle" /\ \A q \in Readers \ {r} : rd'[q] = rd[q]
    BY <1>0, <1>2, <2>1 DEF NoCall, Begin, Busy
  <2> QED BY <1>1, <1>2, <2>2 DEF Begin, InLifecycle
<1>3. ASSUME NEW r \in Readers,
             VectorSearch(r) \/ Bm25Search(r) \/ SearchFails(r) \/ Fuse(r) \/ Rerank(r)
      PROVE  CountOK'
  <2>1. /\ rd'[r].pc \in {"bm25", "fuse", "first", "rerank", "cut", "token", "post"}
        /\ rd[r].pc \in {"vector", "bm25", "fuse", "rerank"}
        /\ \A q \in Readers \ {r} : rd'[q] = rd[q]
    <3>1. CASE VectorSearch(r) \/ Bm25Search(r)
      BY <1>0, <3>1 DEF VectorSearch, Bm25Search, Call
    <3>2. CASE SearchFails(r)
      BY <1>0, <3>2 DEF SearchFails, Call
    <3>3. CASE Fuse(r)
      BY <1>0, <3>3 DEF Fuse, Call
    <3>4. CASE Rerank(r)
      BY <1>0, <3>4 DEF Rerank, Goto, Call
    <3> QED BY <1>3, <3>1, <3>2, <3>3, <3>4
  <2>2. UNCHANGED <<callCount, tally>>
    BY <1>3 DEF VectorSearch, Bm25Search, SearchFails, Fuse, Rerank, history
  <2> QED BY <1>1, <2>1, <2>2 DEF InLifecycle
<1>4. ASSUME NEW r \in Readers, GoogleToken(r) \/ (\E o \in Outcomes : Post(r, o)) \/ Cut(r)
      PROVE  CountOK'
  <2>1. /\ rd'[r].pc \in {"cut", "post", "load"} /\ rd[r].pc \in {"token", "post", "cut"}
        /\ \A q \in Readers \ {r} : rd'[q] = rd[q]
    BY <1>0, <1>4 DEF GoogleToken, Post, Cut, Goto, Call
  <2>2. UNCHANGED <<callCount, tally>>
    BY <1>4 DEF GoogleToken, Post, Cut, history
  <2> QED BY <1>1, <2>1, <2>2 DEF InLifecycle
<1>5. ASSUME NEW r \in Readers, LoadCount(r) PROVE CountOK'
  <2>1. /\ rd[r].pc = "load" /\ rd'[r].pc = "store" /\ rd'[r].loaded = callCount
        /\ tally'.lifecycles = tally.lifecycles + 1 /\ tally'.evals = tally.evals
        /\ callCount' = callCount
        /\ \A q \in Readers \ {r} : rd'[q] = rd[q]
    BY <1>0, <1>5 DEF LoadCount, Call
  <2>2. tally'.overlap = (tally.overlap \/ \E q \in Readers : InLifecycle(q))
    BY <1>0, <1>5 DEF LoadCount
  <2> SUFFICES ASSUME ~tally'.overlap
               PROVE  /\ \A q \in Readers : InLifecycle(q)' <=> q = r
                      /\ tally'.lifecycles > 0
                      /\ tally'.evals = (tally'.lifecycles - 1) \div EvalEvery
                      /\ rd'[r].loaded + 1 = tally'.lifecycles
    BY <2>1 DEF CountOK, InLifecycle
  <2>3. ~tally.overlap /\ \A q \in Readers : ~InLifecycle(q)
    BY <2>2
  <2>4. callCount = tally.lifecycles /\ tally.evals = tally.lifecycles \div EvalEvery
    BY <2>3 DEF CountOK
  <2>5. \A q \in Readers : InLifecycle(q)' <=> q = r
    BY <2>1, <2>3 DEF InLifecycle
  <2>6. tally.lifecycles \in Nat
    BY <1>0
  <2> QED BY <2>1, <2>4, <2>5, <2>6
<1>6. ASSUME NEW r \in Readers, StoreCount(r) PROVE CountOK'
  <2>1. /\ rd[r].pc = "store" /\ rd'[r].pc = "count" /\ callCount' = rd[r].loaded + 1
        /\ tally' = tally /\ \A q \in Readers \ {r} : rd'[q] = rd[q]
    BY <1>0, <1>6 DEF StoreCount, Call, history
  <2>2. \A q \in Readers : InLifecycle(q)' = InLifecycle(q)
    BY <2>1 DEF InLifecycle
  <2> QED BY <2>1, <2>2 DEF CountOK, InLifecycle
<1>7. ASSUME NEW r \in Readers, Incremented(r) PROVE CountOK'
  <2>1. /\ rd[r].pc = "count" /\ rd'[r].pc = "due" /\ callCount' = callCount
        /\ tally' = tally /\ \A q \in Readers \ {r} : rd'[q] = rd[q]
    BY <1>0, <1>7 DEF Incremented, Goto, Call, history
  <2>2. \A q \in Readers : InLifecycle(q)' = InLifecycle(q)
    BY <2>1 DEF InLifecycle
  <2> QED BY <2>1, <2>2 DEF CountOK, InLifecycle
<1>8. ASSUME NEW r \in Readers, CheckDue(r) PROVE CountOK'
  <2>1. /\ rd[r].pc = "due" /\ rd'[r].pc \in {"list", "first"} /\ callCount' = callCount
        /\ \A q \in Readers \ {r} : rd'[q] = rd[q]
    BY <1>0, <1>8 DEF CheckDue, Goto, Call
  <2>2. /\ tally'.lifecycles = tally.lifecycles
        /\ tally'.evals = IF callCount % EvalEvery = 0 THEN tally.evals + 1 ELSE tally.evals
    BY <1>0, <1>8 DEF CheckDue, Due
  <2>3. tally'.overlap = tally.overlap
    BY <1>0, <1>8 DEF CheckDue
  <2> SUFFICES ASSUME ~tally.overlap
               PROVE  /\ \A q \in Readers : ~InLifecycle(q)'
                      /\ callCount = tally.lifecycles
                      /\ tally'.evals = tally.lifecycles \div EvalEvery
    BY <2>1, <2>2, <2>3 DEF CountOK
  <2>4. \A q \in Readers : InLifecycle(q) => q = r
    BY <2>1 DEF CountOK, InLifecycle
  <2>5. \A q \in Readers : ~InLifecycle(q)'
    BY <2>1, <2>4 DEF InLifecycle
  <2>6. /\ tally.lifecycles > 0 /\ tally.evals = (tally.lifecycles - 1) \div EvalEvery
        /\ callCount = tally.lifecycles
    BY <2>1 DEF CountOK, InLifecycle
  <2>7. tally.lifecycles \in Nat \ {0} /\ EvalEvery \in Nat \ {0}
    BY <1>0, <2>6, RecallAssumption
  <2>8. tally'.evals = tally.lifecycles \div EvalEvery
    BY <2>2, <2>6, <2>7, DivStep
  <2> QED BY <2>5, <2>6, <2>8
<1>9. ASSUME NEW r \in Readers, NEW m \in Memories, Increment(r, m) PROVE CountOK'
  <2>1. /\ rd'[r].pc = rd[r].pc /\ rd'[r].loaded = rd[r].loaded
        /\ \A q \in Readers \ {r} : rd'[q] = rd[q]
        /\ UNCHANGED <<callCount, tally>>
    BY <1>0, <1>9 DEF Increment, Call, history
  <2> QED BY <1>1, <2>1
<1>10. ASSUME NEW r \in Readers, NEW c \in rd[r].changes, Retier(r, c) PROVE CountOK'
  <2>1. /\ rd'[r].pc = rd[r].pc /\ rd'[r].loaded = rd[r].loaded
        /\ \A q \in Readers \ {r} : rd'[q] = rd[q]
        /\ UNCHANGED <<callCount, tally>>
    BY <1>0, <1>10 DEF Retier, Call
  <2> QED BY <1>1, <2>1
<1>11. ASSUME NEW r \in Readers, Evaluate(r) \/ Evaluated(r) \/ FirstAnchors(r) PROVE CountOK'
  <2>1. UNCHANGED <<callCount, tally>>
    BY <1>11 DEF Evaluate, Evaluated, FirstAnchors, history
  <2>2. /\ rd'[r].pc \in {"retier", "first", "recent"} /\ rd[r].pc \in {"list", "retier", "first"}
        /\ \A q \in Readers \ {r} : rd'[q] = rd[q]
    <3>1. CASE Evaluate(r)
      BY <1>0, <3>1 DEF Evaluate, Call
    <3>2. CASE Evaluated(r)
      BY <1>0, <3>2 DEF Evaluated, Goto, Call
    <3>3. CASE FirstAnchors(r)
      BY <1>0, <3>3 DEF FirstAnchors, Call
    <3> QED BY <1>11, <3>1, <3>2, <3>3
  <2> QED BY <1>1, <2>1, <2>2 DEF InLifecycle
<1>12. ASSUME NEW r \in Readers, RecentAnchors(r) \/ FewerAnchors(r) PROVE CountOK'
  <2>1. /\ rd'[r] = NoCall /\ rd[r].pc \in {"first", "recent"}
        /\ \A q \in Readers \ {r} : rd'[q] = rd[q]
        /\ UNCHANGED <<callCount, tally>>
    BY <1>0, <1>12 DEF RecentAnchors, FewerAnchors, Inject, history
  <2> QED BY <1>1, <2>1 DEF InLifecycle, NoCall
<1>13. ASSUME UNCHANGED <<callCount, tally, rd>> PROVE CountOK'
  BY <1>13, CountSame
<1>14. ASSUME NEW m \in Memories,
              \/ Write(m) \/ Retire(m, "archived") \/ Retire(m, "deleted")
              \/ (\E tier \in Tiers : SetTier(m, tier)) \/ Expire(m)
       PROVE  CountOK'
  BY <1>13, <1>14 DEF Write, Retire, SetTier, Expire, Change
<1>15. CASE Reindex \/ Done \/ UNCHANGED vars
  BY <1>13, <1>15 DEF Reindex, Done, vars, history
<1> QED
  BY <1>2, <1>3, <1>4, <1>5, <1>6, <1>7, <1>8, <1>9, <1>10, <1>11, <1>12, <1>14, <1>15
     DEF Next, ReaderStep

-----------------------------------------------------------------------------
(* The theorems.                                                             *)

LEMMA InitIInv == Init => IInv
<1> SUFFICES ASSUME Init PROVE IInv
  OBVIOUS
<1>1. NoCall \in Call /\ NoAnswer \in Answer
  BY DEF NoCall, Call, NoAnswer, Answer, Places
<1>2. \A m \in Memories : rows[m].tier = "working" /\ rows[m] \in Row
  BY RecallAssumption DEF Init, Row, Tiers
<1>3. TypeOK
  <2>1. rows \in [Memories -> Row] /\ index \in [Memories -> Row]
    BY <1>2 DEF Init
  <2>2. rd \in [Readers -> Call] /\ answer \in [Readers -> Answer]
    BY <1>1 DEF Init
  <2>3. setting \in Setting
    BY RecallAssumption DEF Init
  <2> QED BY <2>1, <2>2, <2>3 DEF Init, TypeOK
<1>4. \A r \in Readers : /\ rd[r].pc = "idle" /\ rd[r].hits = {} /\ rd[r].more = {}
                          /\ rd[r].changes = {} /\ rd[r].tries = 0
                          /\ answer[r].ids = {} /\ answer[r].cut
  BY DEF Init, NoCall, NoAnswer
<1>5. TierOK
  BY <1>2, <1>4 DEF Init, TierOK
<1>6. RecallOK /\ AnswerOK
  BY <1>4 DEF RecallOK, AnswerOK, FoundBy, Watched, FramingFound, InjectedRightly, KeepsFraming, Busy
<1>7. RefusalOK
  BY <1>4 DEF Init, RefusalOK
<1>8. CountOK
  <2>1. 0 = 0 \div EvalEvery
    BY RecallAssumption
  <2> QED BY <1>4, <2>1 DEF Init, CountOK, InLifecycle
<1> QED BY <1>3, <1>5, <1>6, <1>7, <1>8 DEF IInv

LEMMA Inductive == Spec => []IInv
<1>1. IInv /\ [Next]_vars => IInv'
  BY TypeStep, SafeStep, RefusalStep, CountStep DEF IInv, SafeOK
<1> QED BY InitIInv, <1>1, PTL DEF Spec

(* Whatever readers, memories and settings there are, every variable stays   *)
(* in its set: a call is at one of its places, a ranking holds only memories *)
(* and a tier change names a tier.                                           *)
THEOREM TypeCorrect == Spec => []TypeOK
<1>1. IInv => TypeOK
  BY DEF IInv
<1> QED BY Inductive, <1>1, PTL

(* No recall injects a memory that was archived all through it, one of       *)
(* another session that never earned the core tier, or one the guardrails    *)
(* keep out, however many recalls, tier evaluations and changes interleave.  *)
THEOREM InjectsRightly == Spec => []RightlyInjected
<1>1. IInv => RightlyInjected
  BY DEF IInv, AnswerOK, InjectedRightly, MayShow,
     RightlyInjected, NoGhosts, ForeignEarned, NeverInjected
<1> QED BY Inductive, <1>1, PTL

(* The oldest memory a session could recall all through a recall is          *)
(* injected, unless the block was cut short.                                 *)
THEOREM FramingStays == Spec => []FramingKept
<1>1. IInv => FramingKept
  BY DEF IInv, AnswerOK, KeepsFraming, Framing, FramingKept
<1> QED BY Inductive, <1>1, PTL

(* However many readers share the reranker, after it is disabled each of the *)
(* others sends at most two more requests.                                   *)
THEOREM RefusedOnce == Spec => []RefusalIsFinal
<1>1. ASSUME IInv PROVE RefusalIsFinal
  <2>1. late \in Nat /\ Cardinality(Readers) \in Nat /\ Cardinality(Readers) # 0
    BY <1>1, RecallAssumption, FS_CardinalityType, FS_EmptySet DEF IInv, TypeOK
  <2>2. CASE disabled
    BY <1>1, <2>1, <2>2, SendersFinite DEF IInv, RefusalOK, RefusalIsFinal
  <2>3. CASE ~disabled
    BY <1>1, <2>1, <2>3 DEF IInv, RefusalOK, RefusalIsFinal
  <2> QED BY <2>2, <2>3
<1> QED BY Inductive, <1>1, PTL

(* As long as no two recalls are in their lifecycle hooks at once, exactly   *)
(* every EvalEvery-th one evaluates the tiers, for every EvalEvery.          *)
THEOREM TiersEvaluatedOnTime == Spec => []EvalsOnTime
<1>1. IInv => EvalsOnTime
  BY DEF IInv, CountOK, EvalsOnTime
<1> QED BY Inductive, <1>1, PTL
==============================================================================
