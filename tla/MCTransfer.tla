----------------------------- MODULE MCTransfer -----------------------------
(* The circumstances under which Transfer is checked. *)
EXTENDS Transfer

None == [stores |-> {"here"}, commands |-> 3, events |-> 2, damages |-> 0, ops |-> {},
         limit |-> MaxRows, pylance |-> FALSE]

(* A backup and its import, into the same store or the other one, while the   *)
(* agent remembers and retires.                                               *)
Copying == [None EXCEPT !.stores = Stores, !.commands = 2, !.events = 3, !.ops = {"export", "import"}]
(* The same where the export is asked for one row only.                       *)
Limited == [Copying EXCEPT !.limit = 1, !.events = 2]
(* A damaged store: salvaged, set up afresh, filled again.                    *)
Rescuing(pylance) ==
    [None EXCEPT !.damages = 1, !.pylance = pylance,
                 !.ops = {"export", "salvage", "import", "init", "reset"}]
(* The backup of such a store, one row of it.                                 *)
Salvaging ==
    [Rescuing(TRUE) EXCEPT !.commands = 2, !.events = 3, !.limit = 1,
                           !.ops = {"export", "salvage"}]
(* Tables with more rows than an init looks at.                               *)
Reseeding == [Rescuing(FALSE) EXCEPT !.events = 3, !.ops = {"init", "reset"}]
AllSettings ==
    {Copying, Limited, Salvaging, Reseeding} \cup {Rescuing(p) : p \in BOOLEAN}
=============================================================================
