------------------------------ MODULE Transfer ------------------------------
(***************************************************************************)
(* How memories leave and enter a store: the commands export, import, init *)
(* and reset of _cli.py, and what of store.py they call (salvage_scan,     *)
(* has_id, store_raw, store_many).                                         *)
(*                                                                         *)
(* A table is kept as LanceDB keeps it: every write makes a new version of *)
(* fragment files, older versions stay for a while, and a version reads    *)
(* cleanly only if all its fragments are there.  A fragment is abstracted  *)
(* to a row.  One command runs at a time, in a process of its own that may *)
(* die; the agent writes to the stores meanwhile, files may get lost.      *)
(***************************************************************************)
EXTENDS Integers, Sequences, FiniteSets

CONSTANTS
    Stores,          \* database directories
    Texts,           \* what the agent may remember, each of them once
    Seeds,           \* the entries of MEMORY.md, told apart from the agent's
    InitFetch,       \* rows list_memories(limit=1) fetches (33)
    Settings,        \* the circumstances of a behaviour, see Setting
    MaxRows,         \* bound: rows ever stored
    KeepVersions,    \* bound: versions a table keeps (older ones are cleaned up)
    NoFile           \* there is no export file: no set of lines is this

(* stores: those in use; commands, events, damages: how many there are; ops:  *)
(* the commands given; limit: the rows an export asks for (--limit); pylance: *)
(* whether single fragments can be read.                                      *)
Setting == [stores : SUBSET Stores, commands : Nat, events : Nat, damages : Nat,
            ops : SUBSET {"export", "salvage", "import", "init", "reset"},
            limit : Nat, pylance : BOOLEAN]

(* A row, or its line in an export file: the id is a uuid, a number here.     *)
Row == [id : 1 .. MaxRows, text : Texts \cup Seeds, state : {"live", "archived"}]

ASSUME TransferAssumption ==
    /\ Settings \subseteq Setting
    /\ InitFetch \in Nat /\ MaxRows \in Nat /\ KeepVersions \in Nat \ {0}
    /\ IsFiniteSet(Seeds) /\ Texts \cap Seeds = {}
    /\ NoFile \notin SUBSET Row

VARIABLES
    setting,    \* chosen at the start, then fixed
    db,         \* of each store: its versions, and whether the table can be opened
    lost,       \* fragments whose file is gone
    ids,        \* number of ids given out
    file,       \* the export file: its complete lines
    cmd,        \* the command that runs, or the last one
    written,    \* texts the agent has remembered
    commands, events, damages,    \* how many there have been
    (* history, read by no action: *)
    before,     \* file, table and versions when the command began
    seen,       \* the tables there were during the command
    stumbled,   \* whether a read failed though its files are there
    gone,       \* texts retired since the command began
    imports     \* number of imports so far

vars == <<setting, db, lost, ids, file, cmd, written, commands, events, damages,
          before, seen, stumbled, gone, imports>>
history == <<before, seen, stumbled, gone, imports>>
bounds == <<commands, events, damages>>

Live(table) == {r \in table : r.state = "live"}
Latest(s) == db[s].versions[Len(db[s].versions)]
Reads(table) == table \cap lost = {}
Versions(s) == {db[s].versions[i] : i \in DOMAIN db[s].versions}

(* search().limit(n): n rows, in no order one may count on, or all of them.   *)
AtMost(table, n) ==
    {rows \in SUBSET table :
        Cardinality(rows) = n \/ (Cardinality(rows) < n /\ rows = table)}

FreshTable == [versions |-> <<{}>>, opens |-> TRUE]

(* A write makes a new version.                                               *)
NewVersion(s, table) ==
    LET all == Append(db[s].versions, table)
        first == IF Len(all) > KeepVersions THEN Len(all) - KeepVersions + 1 ELSE 1
    IN db' = [db EXCEPT ![s].versions = SubSeq(all, first, Len(all))]

Idle == [op |-> "none", store |-> CHOOSE s \in Stores : TRUE, pc |-> "idle", lines |-> {},
         flag |-> FALSE, result |-> "none"]

Init ==
    /\ setting \in Settings
    /\ db = [s \in Stores |-> FreshTable]
    /\ lost = {} /\ ids = 0 /\ file = NoFile
    /\ cmd = Idle
    /\ written = {}
    /\ commands = 0 /\ events = 0 /\ damages = 0
    /\ before = [file |-> NoFile, table |-> {}, kept |-> {{}}, opens |-> TRUE, reads |-> TRUE]
    /\ seen = {} /\ stumbled = FALSE /\ gone = {} /\ imports = 0

Running == cmd.pc # "idle"
End(result) == cmd' = [cmd EXCEPT !.pc = "idle", !.lines = {}, !.result = result]

-----------------------------------------------------------------------------
(* The command line: flag is include_archived of an export, allow_existing of *)
(* an import.  Opening the store fails where the table cannot be opened.      *)
Start(op, s, flag) ==
    /\ ~Running /\ op \in setting.ops
    /\ commands < setting.commands
    /\ commands' = commands + 1
    /\ before' = [file |-> file, table |-> Latest(s), kept |-> Versions(s),
                  opens |-> db[s].opens, reads |-> Reads(Latest(s))]
    /\ seen' = {Latest(s)} /\ stumbled' = FALSE /\ gone' = {}
    /\ UNCHANGED <<setting, db, lost, ids, file, written, events, damages>>

Begin(op, s, pc, lines, flag) ==
    cmd' = [op |-> op, store |-> s, pc |-> pc, lines |-> lines, flag |-> flag,
            result |-> "none"]

BeginExport(op, s, flag) ==
    /\ op \in {"export", "salvage"}
    /\ Start(op, s, flag)
    /\ Begin(op, s, IF db[s].opens THEN "scan" ELSE "failing", {}, flag)
    /\ UNCHANGED imports

(* salvage_scan: the newest version that scans cleanly.  If none does, what   *)
(* is left of the latest one's fragments, where they can be read one by one.  *)
(* It stumbles where a read fails, be it of a version, of the list of         *)
(* versions or of a fragment, whose files are there.                          *)
SalvageScan(s, stumbles) ==
    LET versions == db[s].versions
        Fails(i) == stumbles \/ ~Reads(versions[i])
        newest == {i \in DOMAIN versions : \A j \in DOMAIN versions : j > i => Fails(j)}
        left == Latest(s) \ lost
    IN {rows \in UNION {AtMost(versions[i], setting.limit) : i \in newest} : Reads(rows)}
       \cup {rows \in SUBSET left :
               /\ \A i \in DOMAIN versions : Fails(i)
               /\ \/ rows = {} /\ (stumbles \/ ~setting.pylance)
                  \/ setting.pylance /\ rows \in AtMost(left, setting.limit)
                  \/ setting.pylance /\ stumbles /\ Cardinality(rows) <= setting.limit}

(* Mutant: a scan that fails is taken for a short one.                        *)
ScanSoftly(rows) == TRUE

(* _scan_all(strict=True) raises where a row does not read.                   *)
ScanAll(rows) == Reads(rows)

Scanned(rows) == cmd' = [cmd EXCEPT !.pc = "open", !.lines = rows \ lost]

(* The scan comes before the file is opened.                                  *)
Scan ==
    /\ cmd.pc = "scan"
    /\ \/ /\ cmd.op = "export"
          /\ \E rows \in AtMost(Latest(cmd.store), setting.limit) :
                \/ ScanAll(rows) /\ Scanned(rows)
                \/ ~ScanAll(rows) /\ cmd' = [cmd EXCEPT !.pc = "failing"]
       \/ /\ cmd.op = "salvage"
          /\ \E rows \in SalvageScan(cmd.store, FALSE) : Scanned(rows)
    /\ UNCHANGED <<setting, db, lost, ids, file, written, bounds, history>>

(* A read fails for reasons of its own.  The export gives up; the salvage     *)
(* goes on to what it can still read, if only to nothing, and gives up where  *)
(* even the list of the fragments fails.                                      *)
ScanFails ==
    /\ cmd.pc = "scan"
    /\ stumbled' = TRUE
    /\ \/ /\ cmd.op = "export" \/ setting.pylance
          /\ cmd' = [cmd EXCEPT !.pc = "failing"]
       \/ /\ cmd.op = "salvage"
          /\ \E rows \in SalvageScan(cmd.store, TRUE) : Scanned(rows)
    /\ UNCHANGED <<setting, db, lost, ids, file, written, bounds, before, seen, gone, imports>>

(* Return code 1, or an exception.                                            *)
Failed ==
    /\ cmd.pc = "failing"
    /\ End("failed")
    /\ UNCHANGED <<setting, db, lost, ids, file, written, bounds, history>>

Included(lines) == IF cmd.flag THEN lines ELSE Live(lines)

(* open(out_path, "w") empties the file.                                      *)
OpenFile ==
    /\ cmd.pc = "open"
    /\ file' = {}
    /\ cmd' = [cmd EXCEPT !.pc = "write", !.lines = Included(@)]
    /\ UNCHANGED <<setting, db, lost, ids, written, bounds, history>>

(* In no order that matters.                                                  *)
WriteLine ==
    /\ cmd.pc = "write"
    /\ \E line \in cmd.lines :
          /\ file' = file \cup {line}
          /\ cmd' = [cmd EXCEPT !.lines = @ \ {line}]
    /\ UNCHANGED <<setting, db, lost, ids, written, bounds, history>>

EndExport ==
    /\ cmd.pc = "write" /\ cmd.lines = {}
    /\ End("ok")
    /\ UNCHANGED <<setting, db, lost, ids, file, written, bounds, history>>

-----------------------------------------------------------------------------
(* Import: line by line; a line that was cut off is skipped with a warning.   *)
BeginImport(s, flag) ==
    /\ Start("import", s, flag)
    /\ IF db[s].opens /\ file # NoFile
       THEN /\ Begin("import", s, "line", file, flag)
            /\ imports' = imports + 1
       ELSE /\ Begin("import", s, "failing", {}, flag)
            /\ UNCHANGED imports

(* Mutant: an archived row counts as present.                                 *)
HasIdAtAll(s, id) == \E r \in Latest(s) : r.id = id

(* has_id: stored and not archived.                                           *)
HasId(s, id) == \E r \in Live(Latest(s)) : r.id = id

(* store_raw gives the row a fresh id and keeps its metadata, the state       *)
(* included; the id of the line is noted in them, where has_id does not look. *)
StoreRaw(s, line) ==
    /\ ids < MaxRows
    /\ ids' = ids + 1
    /\ NewVersion(s, Latest(s) \cup {[line EXCEPT !.id = ids + 1]})

(* The agent may act between has_id and store_raw, but an id that is not      *)
(* there or archived stays so: the two are one step here.                     *)
ImportLine(line) ==
    /\ cmd.pc = "line" /\ line \in cmd.lines
    /\ IF ~HasId(cmd.store, line.id)
       THEN /\ StoreRaw(cmd.store, line)
            /\ cmd' = [cmd EXCEPT !.lines = @ \ {line}]
            /\ seen' = seen \cup {Latest(cmd.store)'}
       ELSE /\ cmd' = IF cmd.flag THEN [cmd EXCEPT !.lines = @ \ {line}]
                                  ELSE [cmd EXCEPT !.pc = "failing"]
            /\ UNCHANGED <<db, ids, seen>>
    /\ UNCHANGED <<setting, lost, file, written, bounds, before, stumbled, gone, imports>>

EndImport ==
    /\ cmd.pc = "line" /\ cmd.lines = {}
    /\ End("ok")
    /\ UNCHANGED <<setting, db, lost, ids, file, written, bounds, history>>

-----------------------------------------------------------------------------
(* init and reset; the answer to their question is yes.                       *)
BeginInit(op, s) ==
    /\ op \in {"init", "reset"}
    /\ Start(op, s, FALSE)
    /\ Begin(op, s, IF op = "reset" THEN "wipe" ELSE "initialise", {}, FALSE)
    /\ UNCHANGED imports

(* rmtree removes one file after the other.                                   *)
Unlink ==
    /\ cmd.pc = "wipe"
    /\ \/ \E r \in Latest(cmd.store) \ lost : lost' = lost \cup {r} /\ UNCHANGED db
       \/ /\ db[cmd.store].opens
          /\ db' = [db EXCEPT ![cmd.store].opens = FALSE]
          /\ UNCHANGED lost
    /\ UNCHANGED <<setting, ids, file, cmd, written, bounds, history>>

Wiped ==
    /\ cmd.pc = "wipe"
    /\ db' = [db EXCEPT ![cmd.store] = FreshTable]
    /\ cmd' = [cmd EXCEPT !.pc = "initialise"]
    /\ UNCHANGED <<setting, lost, ids, file, written, bounds, history>>

(* Mutant: a table that does not read is taken for one that cannot be opened. *)
UsableIfRead(s) == db[s].opens /\ Reads(Latest(s))

(* Opening the table and stats(), which makes do with what it can read.       *)
Usable(s) == db[s].opens

Initialise ==
    /\ cmd.pc = "initialise"
    /\ cmd' = [cmd EXCEPT !.pc = IF Usable(cmd.store) THEN "look" ELSE "wipe"]
    /\ UNCHANGED <<setting, db, lost, ids, file, written, bounds, history>>

(* list_memories(limit=1): InitFetch rows, of which one must not be archived. *)
Look ==
    /\ cmd.pc = "look"
    /\ \E rows \in AtMost(Latest(cmd.store), InitFetch) :
          cmd' = [cmd EXCEPT !.pc = IF ~Reads(rows) THEN "failing"
                                    ELSE IF Live(rows) # {} THEN "done" ELSE "seed"]
    /\ UNCHANGED <<setting, db, lost, ids, file, written, bounds, history>>

(* store_many: all the entries in one transaction.                            *)
StoreMany(s, texts) ==
    /\ ids + Cardinality(texts) <= MaxRows
    /\ \E number \in [texts -> 1 .. Cardinality(texts)] :
          /\ \A t, u \in texts : number[t] = number[u] => t = u
          /\ NewVersion(s, Latest(s) \cup
                {[id |-> ids + number[t], text |-> t, state |-> "live"] : t \in texts})
    /\ ids' = ids + Cardinality(texts)

Seed ==
    /\ cmd.pc = "seed"
    /\ StoreMany(cmd.store, Seeds)
    /\ cmd' = [cmd EXCEPT !.pc = "done"]
    /\ seen' = seen \cup {Latest(cmd.store)'}
    /\ UNCHANGED <<setting, lost, file, written, bounds, before, stumbled, gone, imports>>

EndInit ==
    /\ cmd.pc = "done"
    /\ End("ok")
    /\ UNCHANGED <<setting, db, lost, ids, file, written, bounds, history>>

(* The process dies, the disk is full, the embedder fails, the user gives up. *)
Die ==
    /\ Running
    /\ End("died")
    /\ UNCHANGED <<setting, db, lost, ids, file, written, bounds, history>>

-----------------------------------------------------------------------------
(* Meanwhile the agent writes (not to a store that is being set up).          *)
AgentWrites(s, table) ==
    /\ events < setting.events /\ events' = events + 1
    /\ db[s].opens
    /\ Running => cmd.op \notin {"init", "reset"}
    /\ NewVersion(s, table)
    /\ seen' = IF Running /\ s = cmd.store THEN seen \cup {table} ELSE seen
    /\ UNCHANGED <<setting, lost, file, cmd, commands, damages, before, stumbled, imports>>

Remember(s, t) ==
    /\ t \notin written /\ ids < MaxRows
    /\ AgentWrites(s, Latest(s) \cup {[id |-> ids + 1, text |-> t, state |-> "live"]})
    /\ written' = written \cup {t} /\ ids' = ids + 1
    /\ UNCHANGED gone

(* update and _supersede archive a row, forget deletes one.                   *)
Retire(s, r, archived) ==
    /\ r \in Live(Latest(s)) \ lost
    /\ AgentWrites(s, (Latest(s) \ {r})
                        \cup (IF archived THEN {[r EXCEPT !.state = "archived"]} ELSE {}))
    /\ gone' = gone \cup {r.text}
    /\ UNCHANGED <<written, ids>>

(* A fragment file, or the manifest of the table, is lost.                    *)
Damage(s) ==
    /\ ~Running
    /\ damages < setting.damages /\ damages' = damages + 1
    /\ \/ \E r \in UNION Versions(s) \ lost :
             lost' = lost \cup {r} /\ UNCHANGED db
       \/ /\ db[s].opens
          /\ db' = [db EXCEPT ![s].opens = FALSE]
          /\ UNCHANGED lost
    /\ UNCHANGED <<setting, ids, file, cmd, written, commands, events, history>>

Next ==
    \/ \E s \in setting.stores, flag \in BOOLEAN :
          \/ BeginExport("export", s, flag) \/ BeginExport("salvage", s, flag)
          \/ BeginImport(s, flag)
    \/ Scan \/ ScanFails \/ Failed \/ OpenFile \/ WriteLine \/ EndExport
    \/ (\E line \in cmd.lines : ImportLine(line)) \/ EndImport
    \/ \E s \in setting.stores : BeginInit("init", s) \/ BeginInit("reset", s)
    \/ Unlink \/ Wiped \/ Initialise \/ Look \/ Seed \/ EndInit
    \/ Die
    \/ \E s \in setting.stores :
          \/ \E t \in Texts : Remember(s, t)
          \/ \E r \in Latest(s), archived \in BOOLEAN : Retire(s, r, archived)
          \/ Damage(s)

Spec == Init /\ [][Next]_vars

-----------------------------------------------------------------------------
(* Properties.                                                                *)

Ended(op, result) == ~Running /\ cmd.op = op /\ cmd.result = result

(* Whatever fails before the file is opened leaves the previous export as it  *)
(* was.  An export that reports success holds what one table of the command   *)
(* showed, the whole of it unless the limit cut it off, and never what is     *)
(* left of a damaged one; so does a salvage of a table that was sound all     *)
(* along, if no read of it failed.  Any other salvage that reports success    *)
(* holds rows of one version, not of several.                                 *)
ExportHonest ==
    /\ \A op \in {"export", "salvage"} : Ended(op, "failed") => file = before.file
    /\ (Ended("export", "ok") \/ (Ended("salvage", "ok") /\ before.reads /\ ~stumbled))
          => \E table \in seen : \E rows \in AtMost(table, setting.limit) :
                file = Included(rows)
    /\ Ended("salvage", "ok") =>
          \E table \in before.kept \cup seen : file \subseteq Included(table)

(* Once an import has succeeded every memory the file shows is visible in the *)
(* store, unless it was retired meanwhile, and no memory the file has as       *)
(* archived has come back; a first import shows no memory twice (entries of    *)
(* MEMORY.md apart, which a reset has seeded again).                           *)
RestoreExact ==
    /\ Ended("import", "ok") =>
          LET TextsOf(rows) == {r.text : r \in rows}
              shown == TextsOf(Live(before.file))
              now == TextsOf(Live(Latest(cmd.store)))
          IN /\ shown \subseteq now \cup gone
             /\ now \cap TextsOf(before.file) \subseteq shown \cup TextsOf(Live(before.table))
    /\ imports <= 1 =>
          \A s \in Stores : \A r, q \in Live(Latest(s)) :
              r.text = q.text /\ r.text \in Texts => r = q

(* An init that finds a table to open removes no row of it, readable or not,  *)
(* and adds none where a memory is visible and fewer rows are archived than   *)
(* it fetches; with more of them the rows it looks at may all be archived.    *)
InitSpares ==
    (Running /\ cmd.op = "init" /\ before.opens) =>
        /\ db[cmd.store].opens
        /\ before.table \subseteq Latest(cmd.store)
        /\ (/\ Live(before.table) # {}
            /\ Cardinality(before.table \ Live(before.table)) < InitFetch)
               => Latest(cmd.store) = before.table
=============================================================================
