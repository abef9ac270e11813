------------------------- MODULE SessionCompressor --------------------------
(***************************************************************************)
(* session_compressor.py: which texts of a transcript a session summary    *)
(* keeps.  A text is what score_text saw in it and its length; a summary   *)
(* is the set of the indices kept.                                         *)
(***************************************************************************)
EXTENDS Integers, Sequences, FiniteSets

(* score_text, in hundredths.                                              *)
ScoreOf ==
    [tool_call |-> 100, tool_result |-> 100, correction |-> 95, decision |-> 85,
     substantive |-> 70, short_question |-> 50, short_statement |-> 40,
     system_xml |-> 30, greeting |-> 10, acknowledgment |-> 10, empty |-> 0]
Reasons == DOMAIN ScoreOf

(* A transcript; of the texts only an empty one has no length.             *)
Text == {t \in [reason : Reasons, size : Nat] : t.size = 0 => t.reason = "empty"}

Score(texts, i) == ScoreOf[texts[i].reason]

MinTexts == 3         \* _DEFAULT_MIN_TEXTS
MinScoreToKeep == 30

Indices(texts) == 1 .. Len(texts)
Boundaries(texts) == {i \in Indices(texts) : i \in {1, Len(texts)}}

(* total_chars of the texts at these indices. *)
Size(texts, kept) ==
    LET upTo[i \in 0 .. Len(texts)] ==
          IF i = 0 THEN 0
          ELSE upTo[i - 1] + (IF i \in kept THEN texts[i].size ELSE 0)
    IN upTo[Len(texts)]

(* Mutant: low scores first. *)
WorstFirst(texts, i, j) ==
    \/ Score(texts, i) < Score(texts, j)
    \/ Score(texts, i) = Score(texts, j) /\ i < j

(* Best score first, then by position. *)
Before(texts, i, j) ==
    \/ Score(texts, i) > Score(texts, j)
    \/ Score(texts, i) = Score(texts, j) /\ i < j

(* All but the first and last text, in this order. *)
Inner(texts) == Indices(texts) \ Boundaries(texts)
Places(texts) == 1 .. Cardinality(Inner(texts))

Candidates(texts) ==
    CHOOSE s \in [Places(texts) -> Inner(texts)] :
        \A p, q \in Places(texts) : p < q => Before(texts, s[p], s[q])

(* The calls that are paired with the text after them, unless an earlier      *)
(* pair has taken the call.                                                   *)
PairedCalls(texts) ==
    LET upTo[i \in 0 .. Len(texts)] ==
          IF i = 0 THEN {}
          ELSE IF /\ texts[i].reason = "tool_call"
                  /\ i < Len(texts)
                  /\ i - 1 \notin upTo[i - 1]
               THEN upTo[i - 1] \cup {i}
               ELSE upTo[i - 1]
    IN upTo[Len(texts)]

Partners(texts, i) ==
    {i + 1 : c \in PairedCalls(texts) \cap {i}}
      \cup {c \in PairedCalls(texts) : c = i - 1}

(* add_index: nothing is added that does not fit. *)
AddIndex(texts, kept, i, budget) ==
    IF Size(texts, kept \cup {i}) > budget THEN kept ELSE kept \cup {i}

(* A candidate that was added brings its partner, if there is one. *)
AddWithPartner(texts, kept, i, budget) ==
    LET with == AddIndex(texts, kept, i, budget)
    IN IF with = kept \/ Partners(texts, i) = {} THEN with
       ELSE AddIndex(texts, with, CHOOSE p \in Partners(texts, i) : TRUE, budget)

(* The greedy pass over the candidates, until the budget is used up. *)
TryNext(texts, kept, i, budget) ==
    IF Size(texts, kept) >= budget \/ i \in kept THEN kept
    ELSE AddWithPartner(texts, kept, i, budget)

Greedy(texts, budget) ==
    LET candidates == Candidates(texts)
        after[n \in 0 .. Cardinality(Inner(texts))] ==
          IF n = 0 THEN Boundaries(texts)
          ELSE TryNext(texts, after[n - 1], candidates[n], budget)
    IN after[Cardinality(Inner(texts))]

(* When nothing scored, the latest texts fill up the minimum, if they fit. *)
FillUp(texts, kept, i, budget) ==
    IF Cardinality(kept) >= MinTexts \/ Cardinality(kept) >= Len(texts) \/ i \in kept THEN kept
    ELSE AddIndex(texts, kept, i, budget)

Fallback(texts, kept, budget) ==
    LET after[n \in 0 .. Len(texts)] ==
          IF n = 0 THEN kept
          ELSE FillUp(texts, after[n - 1], Len(texts) + 1 - n, budget)
    IN IF \E i \in Indices(texts) : Score(texts, i) >= MinScoreToKeep THEN kept
       ELSE after[Len(texts)]

CompressTexts(texts, budget) ==
    IF Size(texts, Indices(texts)) <= budget THEN Indices(texts)
    ELSE Fallback(texts, Greedy(texts, budget), budget)
=============================================================================
