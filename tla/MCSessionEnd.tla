---------------------------- MODULE MCSessionEnd ----------------------------
(* The circumstances under which SessionEnd is checked. *)
EXTENDS SessionEnd

Quiet ==
    [agents |-> {"main"}, ends |-> 1, recalls |-> 0, resolves |-> 0, deaths |-> 0,
     cooldown |-> 0, clock |-> 0, learns |-> FALSE, crowded |-> FALSE, least |-> 2,
     budget |-> 0, transcripts |-> {}]

(* Two agents learn; rows are resolved and writes fail ...                    *)
Learning ==
    [Quiet EXCEPT !.agents = {"main", "sub"}, !.ends = 3, !.resolves = 1, !.learns = TRUE]
(* ... in a store with more rows than a recall reads ...                      *)
Crowded == [Learning EXCEPT !.ends = 2, !.resolves = 2, !.crowded = TRUE]
(* ... and one of them recalls meanwhile, or there is one agent only.         *)
Telling == [Crowded EXCEPT !.recalls = 1, !.resolves = 0]
Alone == [Telling EXCEPT !.agents = {"sub"}, !.resolves = 1]
(* One agent whose sessions and recalls overlap.                              *)
Overlapping == [Quiet EXCEPT !.ends = 2, !.recalls = 3, !.deaths = 1, !.learns = TRUE]
(* Two processes over one pair of cooldown files.                             *)
Maintaining ==
    [Quiet EXCEPT !.agents = {"main", "sub"}, !.ends = 3, !.deaths = 1, !.cooldown = 2,
                  !.clock = 3]
(* Transcripts of up to five texts of different worth and length, and short   *)
(* ones in which nothing is worth keeping.                                    *)
Entry(reason, size) == [reason |-> reason, size |-> size]
Worthy == {Entry("tool_call", 2), Entry("substantive", 1), Entry("substantive", 3),
           Entry("greeting", 1)}
Idle4 == {Entry("greeting", 1), Entry("greeting", 4), Entry("empty", 0)}
Summarising ==
    [Quiet EXCEPT !.budget = 5,
                  !.transcripts = UNION {[1 .. n -> Worthy] : n \in 1 .. 5}
                                    \cup UNION {[1 .. n -> Idle4] : n \in 1 .. 4}]
AllSettings == {Learning, Crowded, Telling, Alone, Overlapping, Maintaining, Summarising}
=============================================================================
