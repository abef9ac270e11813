----------------------------- MODULE MCCuration -----------------------------
(* The circumstances under which Curation is checked. *)
EXTENDS Curation, TLC

CONSTANTS f1, f2

TwoFacts == {f1, f2}
OneFact == {f1}

(* One fact, two facts, the same fact twice. *)
Turns2 == {<<f1>>, <<f1, f2>>, <<f2, f2>>}
Turns1 == {<<f1>>}

Called(a, b) == (f1 :> a) @@ (f2 :> b)

Serial == [workers |-> 1, limited |-> TRUE, overlap |-> FALSE, faulty |-> FALSE,
           category |-> Called("profile", "profile")]

(* One by one with failures, for each kind of memory; smoothly, for the     *)
(* profile, also beside the compactor; in parallel beside the compactor.    *)
AllSettings ==
    {[Serial EXCEPT !.faulty = TRUE, !.category = c] :
        c \in {Called("versioned", "pattern"), Called("profile", "plain")}}
    \cup {Serial, [Serial EXCEPT !.category = Called("profile", "pattern")],
          [Serial EXCEPT !.overlap = TRUE, !.category = Called("pattern", "profile")]}
    \cup {[Serial EXCEPT !.workers = 2, !.overlap = TRUE,
                         !.category = Called("pattern", "versioned")]}

(* Nothing but the profile, which is written again and again. *)
ProfileOnly == {[Serial EXCEPT !.limited = FALSE, !.category = (f1 :> "profile")]}
=============================================================================
