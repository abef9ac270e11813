------------------------------ MODULE MCRecall ------------------------------
(* The memories and the circumstances under which Recall is checked. *)
EXTENDS Recall, TLC

CONSTANTS r1, r2, s1, s2

Fact(session) ==
    [session |-> session, cross |-> FALSE, category |-> "fact", inWindow |-> TRUE,
     noise |-> FALSE, important |-> TRUE, old |-> FALSE, summary |-> FALSE]

(* The framing of the session, outside the window a query names; a memory of  *)
(* another session; the newest one, of the session: its running task, a       *)
(* private note or a summary that reads as noise.                            *)
Memory(newest) ==
    1 :> [Fact(s1) EXCEPT !.inWindow = FALSE]
    @@ 2 :> Fact(s2)
    @@ 3 :> newest

Running == Memory([Fact(s1) EXCEPT !.category = "active_task"])
Private == Memory([Fact(s1) EXCEPT !.category = "never"])
Plain == Memory([Fact(s1) EXCEPT !.noise = TRUE, !.summary = TRUE])

(* Two memories of another session: one that is not important, one important. *)
Foreign ==
    1 :> [Fact(s2) EXCEPT !.important = FALSE]
    @@ 2 :> Fact(s2)
    @@ 3 :> [Fact(s1) EXCEPT !.cross = TRUE, !.old = TRUE]

(* One reader, long enough for the memories to earn another tier.             *)
Learning == [readers |-> {r1}, sessions |-> {s1, s2}, recalls |-> 3, events |-> 0,
             start |-> {1, 2}, online |-> FALSE, catalog |-> Foreign]
(* One reader and a table that changes meanwhile.                             *)
Changing(memories) ==
    [readers |-> {r1}, sessions |-> {s1, s2, NoSession}, recalls |-> 1, events |-> 2,
     start |-> {1, 2}, online |-> FALSE, catalog |-> memories]
(* Two readers that share the switch and the counter.                         *)
Shared == [readers |-> {r1, r2}, sessions |-> {NoSession}, recalls |-> 2, events |-> 0,
           start |-> {1, 2}, online |-> TRUE, catalog |-> Plain]
(* One reader whose reranker may be refused early.                            *)
Refused == [Shared EXCEPT !.readers = {r1}, !.recalls = 3]
AllSettings == {Learning, Shared, Refused} \cup {Changing(c) : c \in {Running, Private, Plain, Foreign}}
BothReaders == {r1, r2}
=============================================================================
