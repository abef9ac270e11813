--------------------------- MODULE TransferProofs ---------------------------
(***************************************************************************)
(* Theorems about Transfer, for any stores, memories, settings and number  *)
(* of commands: what a successful export holds, what an import brings back *)
(* and that an init spares what is there.                                  *)
(***************************************************************************)
EXTENDS Transfer, TLAPS, FiniteSetTheorems, SequenceTheorems

-----------------------------------------------------------------------------
(* The type invariant.                                                      *)

Commands == {"export", "salvage", "import", "init", "reset"}
Exports == {"export", "salvage"}

CmdType ==
    [op : Commands \cup {"none"}, store : Stores \cup {Idle.store},
     pc : {"idle", "scan", "failing", "open", "write", "line", "wipe", "initialise", "look",
           "seed", "done"},
     lines : SUBSET Row, flag : BOOLEAN, result : {"none", "failed", "ok", "died"}]

(* Which command may be at which point.                                     *)
CmdOK ==
    /\ cmd \in CmdType
    /\ cmd.op = "none" => cmd.pc = "idle" /\ cmd.result = "none"
    /\ cmd.pc = "idle" => cmd.lines = {}
    /\ cmd.op # "none" => cmd.store \in Stores
    /\ cmd.pc \in {"scan", "open", "write"} => cmd.op \in Exports
    /\ cmd.pc = "line" => cmd.op = "import"
    /\ cmd.pc \in {"wipe", "initialise", "look", "seed", "done"} => cmd.op \in {"init", "reset"}

DbType == [Stores -> [versions : Seq(SUBSET Row), opens : BOOLEAN]]

DbOK == db \in DbType /\ \A s \in Stores : Len(db[s].versions) >= 1

TypeOK ==
    /\ setting \in Setting
    /\ DbOK
    /\ lost \in SUBSET Row
    /\ ids \in 0 .. MaxRows
    /\ file \in {NoFile} \cup SUBSET Row
    /\ CmdOK
    /\ before.table \in SUBSET Row
    /\ seen \in SUBSET SUBSET Row
    /\ imports \in Nat
    /\ cmd.pc = "write" => file \in SUBSET Row

LEMMA LatestIsTable ==
  ASSUME DbOK, NEW s \in Stores
  PROVE  /\ Latest(s) \in Versions(s)
         /\ \A table \in Versions(s) : table \in SUBSET Row
BY DEF DbOK, DbType, Latest, Versions

(* A write adds one table to the versions and may clean up old ones.        *)
LEMMA WriteShape ==
  ASSUME DbOK, NEW s \in Stores, NEW table \in SUBSET Row, NewVersion(s, table)
  PROVE  /\ DbOK'
         /\ Latest(s)' = table
         /\ db'[s].opens = db[s].opens
         /\ \A t \in Stores \ {s} : db'[t] = db[t]
         /\ \A other \in Versions(s)' : other \in Versions(s) \/ other = table
<1> DEFINE all == Append(db[s].versions, table)
           first == IF Len(all) > KeepVersions THEN Len(all) - KeepVersions + 1 ELSE 1
           kept == SubSeq(all, first, Len(all))
<1>1. db' = [db EXCEPT ![s].versions = kept]
  BY DEF NewVersion
<1>2. PICK q \in Seq(SUBSET Row) : q = db[s].versions
  BY DEF DbOK, DbType
<1>3. /\ all \in Seq(SUBSET Row) /\ Len(all) = Len(q) + 1 /\ Len(q) \in Nat
      /\ all[Len(all)] = table
      /\ \A i \in 1 .. Len(q) : all[i] = q[i]
  BY <1>2
<1>4. first \in 1 .. Len(all) /\ first \in Nat /\ Len(all) \in Nat
  BY <1>3, TransferAssumption
<1> HIDE DEF all, first
<1>5. /\ kept \in Seq(SUBSET Row) /\ Len(kept) = Len(all) - first + 1
      /\ \A i \in 1 .. Len(kept) : kept[i] = all[i + first - 1]
  BY <1>3, <1>4
<1>6. /\ Len(kept) >= 1 /\ Len(kept) \in Nat /\ kept[Len(kept)] = table
      /\ \A i \in 1 .. Len(kept) : kept[i] = table \/ kept[i] \in Versions(s)
  <2>1. Len(kept) >= 1 /\ Len(kept) \in Nat /\ kept[Len(kept)] = all[Len(all)]
    BY <1>4, <1>5
  <2>2. ASSUME NEW i \in 1 .. Len(kept) PROVE kept[i] = table \/ kept[i] \in Versions(s)
    <3>1. PICK j \in 1 .. Len(all) : kept[i] = all[j]
      BY <1>4, <1>5
    <3>2. CASE j = Len(all)
      BY <1>3, <3>1, <3>2
    <3>3. CASE j \in 1 .. Len(q)
      <4>1. q[j] \in Versions(s)
        BY <1>2, <3>3 DEF Versions
      <4> QED BY <1>3, <3>1, <3>3, <4>1
    <3>4. j = Len(all) \/ j \in 1 .. Len(q)
      <4>1. PICK m \in Nat : m = Len(q) /\ Len(all) = m + 1
        BY <1>3
      <4> QED BY <4>1
    <3> QED BY <3>2, <3>3, <3>4
  <2> QED BY <1>3, <2>1, <2>2
<1> HIDE DEF kept
<1>7. /\ db'[s].versions = kept /\ db'[s].opens = db[s].opens /\ db' \in DbType
      /\ \A t \in Stores \ {s} : db'[t] = db[t]
  BY <1>1, <1>5 DEF DbOK, DbType
<1>8. DbOK'
  BY <1>6, <1>7 DEF DbOK
<1>9. Latest(s)' = table
  BY <1>6, <1>7 DEF Latest
<1>10. \A other \in Versions(s)' : other \in Versions(s) \/ other = table
  BY <1>5, <1>6, <1>7 DEF Versions
<1> QED BY <1>7, <1>8, <1>9, <1>10

LEMMA TypeInit == Init => TypeOK
<1> SUFFICES ASSUME Init PROVE TypeOK
  OBVIOUS
<1>1. FreshTable.versions \in Seq(SUBSET Row) /\ Len(FreshTable.versions) = 1
  BY DEF FreshTable
<1>2. DbOK
  <2>1. FreshTable \in [versions : Seq(SUBSET Row), opens : BOOLEAN]
    BY <1>1 DEF FreshTable
  <2>2. db = [s \in Stores |-> FreshTable]
    BY DEF Init
  <2> QED BY <1>1, <2>1, <2>2 DEF DbOK, DbType
<1>3. CmdOK /\ cmd.pc = "idle"
  BY DEF Init, CmdOK, CmdType, Idle
<1> QED BY <1>2, <1>3, TransferAssumption DEF Init, TypeOK

(* A command that ends, and one that goes on with other lines.              *)
LEMMA EndType ==
  ASSUME CmdOK, Running, NEW result \in {"failed", "ok", "died"}, End(result)
  PROVE  /\ CmdOK' /\ cmd'.pc = "idle" /\ cmd'.result = result /\ cmd'.lines = {}
         /\ cmd'.op = cmd.op /\ cmd'.store = cmd.store /\ cmd'.flag = cmd.flag
BY DEF CmdOK, CmdType, End, Running

LEMMA GoesOn ==
  ASSUME CmdOK, Running, NEW pc \in {"open", "write"}, NEW lines \in SUBSET Row,
         cmd.op \in Exports, cmd' = [cmd EXCEPT !.pc = pc, !.lines = lines]
  PROVE  /\ CmdOK' /\ cmd'.pc = pc /\ cmd'.lines = lines /\ cmd'.result = cmd.result
         /\ cmd'.op = cmd.op /\ cmd'.store = cmd.store /\ cmd'.flag = cmd.flag
BY DEF CmdOK, CmdType, Running, Exports

LEMMA PcMoves ==
  ASSUME CmdOK, Running, NEW pc,
         pc \in {"scan", "open", "write"} => cmd.op \in Exports,
         pc = "line" => cmd.op = "import",
         pc \in {"wipe", "initialise", "look", "seed", "done"} => cmd.op \in {"init", "reset"},
         pc \in {"scan", "failing", "open", "write", "line", "wipe", "initialise", "look",
                 "seed", "done"},
         cmd' = [cmd EXCEPT !.pc = pc]
  PROVE  /\ CmdOK' /\ cmd'.pc = pc /\ cmd'.lines = cmd.lines /\ cmd'.result = cmd.result
         /\ cmd'.op = cmd.op /\ cmd'.store = cmd.store /\ cmd'.flag = cmd.flag
BY DEF CmdOK, CmdType, Running

LEMMA LinesMove ==
  ASSUME CmdOK, Running, NEW lines \in SUBSET Row, cmd' = [cmd EXCEPT !.lines = lines]
  PROVE  /\ CmdOK' /\ cmd'.pc = cmd.pc /\ cmd'.lines = lines /\ cmd'.result = cmd.result
         /\ cmd'.op = cmd.op /\ cmd'.store = cmd.store /\ cmd'.flag = cmd.flag
BY DEF CmdOK, CmdType, Running

LEMMA BeginType ==
  ASSUME NEW op \in Commands, NEW s \in Stores, NEW pc, NEW lines \in SUBSET Row,
         NEW flag \in BOOLEAN, Begin(op, s, pc, lines, flag),
         \/ pc = "failing"
         \/ pc = "scan" /\ op \in Exports
         \/ pc = "line" /\ op = "import"
         \/ pc \in {"wipe", "initialise"} /\ op \in {"init", "reset"}
  PROVE  /\ CmdOK' /\ cmd'.pc = pc /\ cmd'.lines = lines /\ cmd'.result = "none"
         /\ cmd'.op = op /\ cmd'.store = s /\ cmd'.flag = flag
BY DEF Begin, CmdOK, CmdType, Commands, Exports

(* The rows of the versions of the tables, and all the rows there are.      *)
DbRows == {r \in Row : r \in lost \/ \E s \in Stores : \E table \in Versions(s) : r \in table}
FileLines == IF file = NoFile THEN {} ELSE file
Known == DbRows \cup FileLines \cup cmd.lines

LEMMA SeedRows ==
  ASSUME ids \in 0 .. MaxRows, ids + Cardinality(Seeds) <= MaxRows,
         NEW number \in [Seeds -> 1 .. Cardinality(Seeds)],
         \A t, u \in Seeds : number[t] = number[u] => t = u,
         NEW new, new = {[id |-> ids + number[t], text |-> t, state |-> "live"] : t \in Seeds}
  PROVE  /\ new \in SUBSET Row
         /\ ids + Cardinality(Seeds) \in 0 .. MaxRows
         /\ \A r \in new : ids < r.id /\ r.id <= ids + Cardinality(Seeds) /\ r.text \in Seeds
         /\ \A r, q \in new : r.id = q.id => r = q
<1>1. PICK n \in Nat : n = Cardinality(Seeds)
  BY TransferAssumption, FS_CardinalityType
<1>2. \A t \in Seeds : number[t] \in 1 .. n
  BY <1>1
<1>3. new \in SUBSET Row
  BY <1>1, <1>2, TransferAssumption DEF Row
<1>4. \A r \in new : ids < r.id /\ r.id <= ids + n /\ r.text \in Seeds
  BY <1>1, <1>2
<1>5. \A r, q \in new : r.id = q.id => r = q
  BY <1>1, <1>2
<1> QED BY <1>1, <1>3, <1>4, <1>5, TransferAssumption

(* salvage_scan returns rows of one version that read, and up to the limit  *)
(* of the latest if that reads and no read fails.                           *)
LEMMA SalvageRows ==
  ASSUME DbOK, NEW s \in Stores, NEW stumbles, NEW rows \in SalvageScan(s, stumbles)
  PROVE  /\ Reads(rows)
         /\ \E table \in Versions(s) : rows \subseteq table
         /\ Reads(Latest(s)) /\ ~stumbles => rows \in AtMost(Latest(s), setting.limit)
<1> DEFINE versions == db[s].versions
           Fails(i) == stumbles \/ ~Reads(versions[i])
           newest == {i \in DOMAIN versions : \A j \in DOMAIN versions : j > i => Fails(j)}
           left == Latest(s) \ lost
<1>1. PICK n \in Nat : n = Len(versions) /\ n >= 1 /\ DOMAIN versions = 1 .. n
  BY DEF DbOK, DbType
<1>2. Latest(s) = versions[n] /\ n \in DOMAIN versions /\ Latest(s) \in Versions(s)
  BY <1>1 DEF Latest, Versions
<1>3. \/ rows \in UNION {AtMost(versions[i], setting.limit) : i \in newest} /\ Reads(rows)
      \/ rows \in SUBSET left /\ \A i \in DOMAIN versions : Fails(i)
  BY DEF SalvageScan
<1>4. CASE rows \in UNION {AtMost(versions[i], setting.limit) : i \in newest} /\ Reads(rows)
  <2>1. PICK i \in newest : rows \in AtMost(versions[i], setting.limit)
    BY <1>4
  <2>2. versions[i] \in Versions(s) /\ rows \subseteq versions[i]
    BY <2>1 DEF AtMost, Versions
  <2>3. ASSUME Reads(Latest(s)), ~stumbles PROVE i = n
    <3>1. ~(n > i)
      BY <1>2, <2>3
    <3> QED BY <1>1, <3>1
  <2> QED BY <1>2, <1>4, <2>1, <2>2, <2>3
<1>5. CASE rows \in SUBSET left /\ \A i \in DOMAIN versions : Fails(i)
  BY <1>2, <1>5 DEF Reads
<1> QED BY <1>3, <1>4, <1>5

LEMMA ScannedRows ==
  ASSUME DbOK, CmdOK, Scan \/ ScanFails
  PROVE  /\ cmd.store \in Stores /\ Running /\ cmd.op \in Exports
         /\ \/ cmd' = [cmd EXCEPT !.pc = "failing"]
            \/ \E lines \in SUBSET Row :
                  /\ cmd' = [cmd EXCEPT !.pc = "open", !.lines = lines]
                  /\ \E table \in Versions(cmd.store) : lines \subseteq table
                  /\ \/ Scan /\ (cmd.op = "export" \/ Reads(Latest(cmd.store)))
                            /\ lines \in AtMost(Latest(cmd.store), setting.limit)
                     \/ cmd.op = "salvage" /\ ~(Scan /\ Reads(Latest(cmd.store)))
<1>1. cmd.store \in Stores /\ Running /\ cmd.op \in Exports
  BY DEF Scan, ScanFails, CmdOK, Running
<1>2. PICK s \in Stores : s = cmd.store
  BY <1>1
<1>3. Latest(s) \in Versions(s) /\ \A table \in Versions(s) : table \in SUBSET Row
  BY LatestIsTable
<1>4. ASSUME NEW rows, Reads(rows) PROVE rows \ lost = rows
  BY <1>4 DEF Reads
<1>5. ASSUME NEW rows \in AtMost(Latest(s), setting.limit), ScanAll(rows), Scanned(rows),
             Scan, cmd.op = "export"
      PROVE  \E lines \in SUBSET Row :
                  /\ cmd' = [cmd EXCEPT !.pc = "open", !.lines = lines]
                  /\ \E table \in Versions(s) : lines \subseteq table
                  /\ lines \in AtMost(Latest(s), setting.limit)
  <2>1. rows \subseteq Latest(s) /\ rows \ lost = rows
    BY <1>4, <1>5 DEF AtMost, ScanAll
  <2>2. cmd' = [cmd EXCEPT !.pc = "open", !.lines = rows]
    BY <1>5, <2>1 DEF Scanned
  <2> QED BY <1>3, <1>5, <2>1, <2>2
<1>6. ASSUME NEW stumbles \in BOOLEAN, NEW rows \in SalvageScan(s, stumbles), Scanned(rows)
      PROVE  \E lines \in SUBSET Row :
                  /\ cmd' = [cmd EXCEPT !.pc = "open", !.lines = lines]
                  /\ \E table \in Versions(s) : lines \subseteq table
                  /\ Reads(Latest(s)) /\ ~stumbles => lines \in AtMost(Latest(s), setting.limit)
  <2>1. /\ Reads(rows)
        /\ \E table \in Versions(s) : rows \subseteq table
        /\ Reads(Latest(s)) /\ ~stumbles => rows \in AtMost(Latest(s), setting.limit)
    BY <1>6, SalvageRows
  <2>2. cmd' = [cmd EXCEPT !.pc = "open", !.lines = rows]
    BY <1>4, <1>6, <2>1 DEF Scanned
  <2> QED BY <1>3, <2>1, <2>2
<1>7. CASE Scan /\ cmd.op = "export"
  BY <1>1, <1>2, <1>5, <1>7 DEF Scan
<1>8. CASE Scan /\ cmd.op = "salvage"
  <2>1. PICK rows \in SalvageScan(s, FALSE) : Scanned(rows)
    BY <1>2, <1>8 DEF Scan
  <2> QED BY <1>1, <1>2, <1>6, <1>8, <2>1
<1>9. CASE ~Scan
  <2>1. CASE cmd' = [cmd EXCEPT !.pc = "failing"]
    BY <1>1, <2>1
  <2>2. CASE cmd.op = "salvage" /\ \E rows \in SalvageScan(s, TRUE) : Scanned(rows)
    BY <1>1, <1>2, <1>6, <1>9, <2>2
  <2> QED BY <1>2, <1>9, <2>1, <2>2 DEF ScanFails
<1> QED BY <1>1, <1>7, <1>8, <1>9 DEF Exports

LEMMA TypeStep ==
  ASSUME TypeOK, [Next]_vars
  PROVE  TypeOK'
<1>t. CmdOK /\ DbOK
  BY DEF TypeOK
<1>s. setting.stores \in SUBSET Stores
  BY DEF TypeOK, Setting
<1>l. \A s \in Stores : Latest(s) \in SUBSET Row
  BY <1>t, LatestIsTable
<1>b. ASSUME NEW op \in Commands, NEW s \in Stores, NEW flag, Start(op, s, flag)
      PROVE  /\ setting' = setting /\ DbOK' /\ lost' = lost /\ ids' = ids /\ file' = file
             /\ before'.table \in SUBSET Row /\ seen' \in SUBSET SUBSET Row
  BY <1>b, <1>l, <1>t DEF Start, DbOK
<1>u. UNCHANGED db => DbOK'
  BY <1>t DEF DbOK
<1>1. ASSUME NEW op, NEW s \in Stores, NEW flag \in BOOLEAN,
             BeginExport(op, s, flag)
      PROVE  TypeOK'
  <2>1. PICK pc \in {"scan", "failing"} : Begin(op, s, pc, {}, flag)
    BY <1>1 DEF BeginExport
  <2>2. op \in Commands /\ op \in Exports /\ Start(op, s, flag) /\ imports' = imports
    BY <1>1 DEF BeginExport, Commands, Exports
  <2>3. CmdOK' /\ cmd'.pc # "write"
    BY <2>1, <2>2, BeginType
  <2> QED BY <1>b, <2>2, <2>3 DEF TypeOK
<1>2. ASSUME NEW s \in Stores, NEW flag \in BOOLEAN, BeginImport(s, flag)
      PROVE  TypeOK'
  <2>1. "import" \in Commands
    BY DEF Commands
  <2>2. Start("import", s, flag) /\ imports' \in {imports, imports + 1}
    BY <1>2 DEF BeginImport
  <2>3. CmdOK' /\ cmd'.pc # "write"
    <3>1. CASE file # NoFile /\ Begin("import", s, "line", file, flag)
      BY <2>1, <3>1, BeginType DEF TypeOK
    <3>2. CASE Begin("import", s, "failing", {}, flag)
      BY <2>1, <3>2, BeginType
    <3> QED BY <1>2, <3>1, <3>2 DEF BeginImport
  <2> QED BY <1>b, <2>1, <2>2, <2>3 DEF TypeOK
<1>3. ASSUME NEW op, NEW s \in Stores, BeginInit(op, s)
      PROVE  TypeOK'
  <2>1. op \in {"init", "reset"} /\ op \in Commands
    BY <1>3 DEF BeginInit, Commands
  <2>2. PICK pc \in {"wipe", "initialise"} : Begin(op, s, pc, {}, FALSE)
    BY <1>3 DEF BeginInit
  <2>3. CmdOK' /\ cmd'.pc # "write"
    BY <2>1, <2>2, BeginType
  <2>4. Start(op, s, FALSE) /\ imports' = imports
    BY <1>3 DEF BeginInit
  <2> QED BY <1>b, <2>1, <2>3, <2>4 DEF TypeOK
<1>4. ASSUME Scan \/ ScanFails PROVE TypeOK'
  <2>1. cmd.op \in Exports /\ Running
    BY <1>4, <1>t, ScannedRows
  <2>2. CmdOK' /\ cmd'.pc # "write"
    <3>1. ASSUME NEW lines \in SUBSET Row, cmd' = [cmd EXCEPT !.pc = "open", !.lines = lines]
          PROVE  CmdOK' /\ cmd'.pc # "write"
      BY <1>t, <2>1, <3>1, GoesOn
    <3>2. CASE cmd' = [cmd EXCEPT !.pc = "failing"]
      BY <1>t, <2>1, <3>2, PcMoves
    <3> QED BY <1>4, <1>t, <3>1, <3>2, ScannedRows
  <2>3. /\ UNCHANGED <<setting, db, lost, ids, file, imports>>
        /\ UNCHANGED <<before, seen>>
    BY <1>4 DEF Scan, ScanFails, history
  <2> QED BY <1>u, <2>2, <2>3 DEF TypeOK
<1>5. ASSUME NEW result \in {"failed", "ok", "died"}, End(result), Running,
             UNCHANGED <<setting, db, lost, ids, file, history>>
      PROVE  TypeOK'
  <2>1. CmdOK' /\ cmd'.pc # "write"
    BY <1>5, <1>t, EndType
  <2> QED BY <1>5, <1>u, <2>1 DEF TypeOK, history
<1>6. ASSUME OpenFile \/ WriteLine PROVE TypeOK'
  <2>1. cmd.lines \in SUBSET Row /\ Running /\ cmd.op \in Exports
    BY <1>6, <1>t DEF OpenFile, WriteLine, CmdOK, CmdType, Running
  <2>2. CASE OpenFile
    <3>1. Included(cmd.lines) \in SUBSET Row
      BY <2>1 DEF Included, Live
    <3>2. cmd' = [cmd EXCEPT !.pc = "write", !.lines = Included(cmd.lines)]
      BY <2>2 DEF OpenFile
    <3>3. CmdOK'
      BY <1>t, <2>1, <3>1, <3>2, GoesOn
    <3> QED BY <1>u, <2>2, <3>3 DEF OpenFile, TypeOK, history
  <2>3. CASE WriteLine
    <3>1. PICK line \in cmd.lines : /\ file' = file \cup {line}
                                    /\ cmd' = [cmd EXCEPT !.lines = @ \ {line}]
      BY <2>3 DEF WriteLine
    <3>2. CmdOK'
      BY <1>t, <2>1, <3>1, LinesMove
    <3> QED
      <4>1. file' \in SUBSET Row
        BY <2>1, <2>3, <3>1 DEF TypeOK, WriteLine
      <4> QED BY <1>u, <2>3, <3>2, <4>1 DEF WriteLine, TypeOK, history
  <2> QED BY <1>6, <2>2, <2>3
<1>7. ASSUME NEW line, ImportLine(line) PROVE TypeOK'
  <2>1. PICK s \in Stores : s = cmd.store
    BY <1>7, <1>t DEF ImportLine, CmdOK
  <2>2. Running /\ cmd.op = "import" /\ line \in Row /\ cmd.lines \in SUBSET Row
    BY <1>7, <1>t DEF ImportLine, CmdOK, CmdType, Running
  <2>3. CASE /\ StoreRaw(s, line)
             /\ cmd' = [cmd EXCEPT !.lines = @ \ {line}]
             /\ seen' = seen \cup {Latest(s)'}
    <3> DEFINE table == Latest(s) \cup {[line EXCEPT !.id = ids + 1]}
    <3>1. ids + 1 \in 1 .. MaxRows /\ ids' = ids + 1
      BY <2>3, TransferAssumption DEF StoreRaw, TypeOK
    <3>2. table \in SUBSET Row /\ NewVersion(s, table)
      BY <1>l, <2>2, <2>3, <3>1 DEF StoreRaw, Row
    <3> HIDE DEF table
    <3>3. DbOK' /\ Latest(s)' = table
      BY <1>t, <3>2, WriteShape
    <3>4. CmdOK' /\ cmd'.pc = cmd.pc
      BY <1>t, <2>2, <2>3, LinesMove
    <3>5. seen' \in SUBSET SUBSET Row
      BY <2>3, <3>2, <3>3 DEF TypeOK
    <3>6. ids' \in 0 .. MaxRows
      BY <3>1, TransferAssumption
    <3> QED BY <1>7, <3>3, <3>4, <3>5, <3>6 DEF ImportLine, TypeOK
  <2>4. CASE /\ cmd' = IF cmd.flag THEN [cmd EXCEPT !.lines = @ \ {line}]
                                   ELSE [cmd EXCEPT !.pc = "failing"]
             /\ UNCHANGED <<db, ids, seen>>
    <3>1. CmdOK' /\ cmd'.pc # "write"
      <4>1. CASE cmd' = [cmd EXCEPT !.lines = @ \ {line}]
        BY <1>t, <1>7, <2>2, <4>1, LinesMove DEF ImportLine
      <4>2. CASE cmd' = [cmd EXCEPT !.pc = "failing"]
        BY <1>t, <2>2, <4>2, PcMoves
      <4> QED BY <2>4, <4>1, <4>2
    <3> QED BY <1>7, <1>u, <2>4, <3>1 DEF ImportLine, TypeOK
  <2>5. seen' = seen \cup {Latest(cmd.store)'} /\ cmd' = [cmd EXCEPT !.lines = @ \ {line}]
        => seen' = seen \cup {Latest(s)'}
    BY <1>t, <2>1 DEF Latest, CmdOK, CmdType
  <2> QED BY <1>7, <2>1, <2>3, <2>4, <2>5 DEF ImportLine
<1>8. ASSUME Unlink PROVE TypeOK'
  <2>1. PICK s \in Stores : s = cmd.store
    BY <1>8, <1>t DEF Unlink, CmdOK
  <2>2. CASE (\E r \in Latest(s) \ lost : lost' = lost \cup {r}) /\ UNCHANGED db
    <3>1. lost' \in SUBSET Row
      BY <1>l, <2>2 DEF TypeOK
    <3> QED BY <1>8, <1>t, <1>u, <2>2, <3>1 DEF Unlink, TypeOK, CmdOK, history
  <2>3. CASE db' = [db EXCEPT ![s].opens = FALSE] /\ UNCHANGED lost
    <3>1. DbOK'
      BY <1>t, <2>3 DEF DbOK, DbType
    <3> QED BY <1>8, <1>t, <2>3, <3>1 DEF Unlink, TypeOK, CmdOK, history
  <2> QED BY <1>8, <2>1, <2>2, <2>3 DEF Unlink
<1>9. ASSUME Wiped PROVE TypeOK'
  <2>1. PICK s \in Stores : s = cmd.store
    BY <1>9, <1>t DEF Wiped, CmdOK
  <2>2. FreshTable \in [versions : Seq(SUBSET Row), opens : BOOLEAN] /\ Len(FreshTable.versions) = 1
    <3>1. FreshTable.versions \in Seq(SUBSET Row) /\ Len(FreshTable.versions) = 1
      BY DEF FreshTable
    <3> QED BY <3>1 DEF FreshTable
  <2>3. DbOK'
    <3>1. PICK fresh \in [versions : Seq(SUBSET Row), opens : BOOLEAN] :
             fresh = FreshTable /\ Len(fresh.versions) = 1
      BY <2>2
    <3>2. db' = [db EXCEPT ![s] = fresh]
      BY <1>9, <2>1, <3>1 DEF Wiped
    <3>3. db' \in DbType
      BY <1>t, <3>1, <3>2 DEF DbOK, DbType
    <3>4. \A t \in Stores : Len(db'[t].versions) >= 1
      <4>1. \A t \in Stores : db'[t] = IF t = s THEN fresh ELSE db[t]
        BY <1>t, <3>2 DEF DbOK, DbType
      <4> QED BY <1>t, <3>1, <4>1 DEF DbOK
    <3> QED BY <3>3, <3>4 DEF DbOK
  <2>4. CmdOK' /\ cmd'.pc # "write"
    BY <1>9, <1>t, PcMoves DEF Wiped, Running, CmdOK
  <2> QED BY <1>9, <2>3, <2>4 DEF Wiped, TypeOK, history
<1>10. ASSUME Initialise \/ Look PROVE TypeOK'
  <2>1. Running /\ cmd.op \in {"init", "reset"}
    BY <1>10, <1>t DEF Initialise, Look, CmdOK, Running
  <2>2. PICK pc \in {"look", "wipe", "failing", "done", "seed"} : cmd' = [cmd EXCEPT !.pc = pc]
    BY <1>10 DEF Initialise, Look
  <2>3. CmdOK' /\ cmd'.pc # "write"
    BY <1>t, <2>1, <2>2, PcMoves
  <2> QED BY <1>10, <1>u, <2>3 DEF Initialise, Look, TypeOK, history
<1>11. ASSUME Seed PROVE TypeOK'
  <2>1. PICK s \in Stores : s = cmd.store
    BY <1>11, <1>t DEF Seed, CmdOK
  <2>2. PICK number \in [Seeds -> 1 .. Cardinality(Seeds)] :
           /\ \A t, u \in Seeds : number[t] = number[u] => t = u
           /\ NewVersion(s, Latest(s) \cup
                 {[id |-> ids + number[t], text |-> t, state |-> "live"] : t \in Seeds})
    BY <1>11, <2>1 DEF Seed, StoreMany
  <2>3. PICK new : new = {[id |-> ids + number[t], text |-> t, state |-> "live"] : t \in Seeds}
    OBVIOUS
  <2>4. ids + Cardinality(Seeds) <= MaxRows /\ ids' = ids + Cardinality(Seeds)
    BY <1>11 DEF Seed, StoreMany
  <2>5. new \in SUBSET Row /\ ids' \in 0 .. MaxRows
    BY <2>2, <2>3, <2>4, SeedRows DEF TypeOK
  <2> DEFINE table == Latest(s) \cup new
  <2>6. table \in SUBSET Row /\ NewVersion(s, table)
    BY <1>l, <2>2, <2>3, <2>5
  <2> HIDE DEF table
  <2>7. DbOK' /\ Latest(s)' = table
    BY <1>t, <2>6, WriteShape
  <2>8. CmdOK' /\ cmd'.pc # "write"
    BY <1>11, <1>t, PcMoves DEF Seed, Running, CmdOK
  <2>9. seen' \in SUBSET SUBSET Row
    BY <1>11, <2>1, <2>6, <2>7 DEF Seed, TypeOK
  <2> QED BY <1>11, <2>5, <2>7, <2>8, <2>9 DEF Seed, TypeOK
<1>a. ASSUME NEW s \in Stores, NEW table \in SUBSET Row, AgentWrites(s, table), ids' \in 0 .. MaxRows
      PROVE  TypeOK'
  <2>1. DbOK'
    BY <1>a, <1>t, WriteShape DEF AgentWrites
  <2>2. seen' \in SUBSET SUBSET Row
    BY <1>a DEF AgentWrites, TypeOK
  <2> QED BY <1>a, <1>t, <2>1, <2>2 DEF AgentWrites, TypeOK, CmdOK
<1>12. ASSUME NEW s \in Stores, NEW t \in Texts, Remember(s, t) PROVE TypeOK'
  <2>1. ids + 1 \in 1 .. MaxRows /\ ids' = ids + 1 /\ ids' \in 0 .. MaxRows
    BY <1>12, TransferAssumption DEF Remember, TypeOK
  <2>2. [id |-> ids + 1, text |-> t, state |-> "live"] \in Row
    BY <2>1 DEF Row
  <2> QED BY <1>12, <1>a, <1>l, <2>1, <2>2 DEF Remember
<1>13. ASSUME NEW s \in Stores, NEW r \in Latest(s), NEW archived \in BOOLEAN,
              Retire(s, r, archived)
       PROVE  TypeOK'
  <2>1. r \in Row /\ [r EXCEPT !.state = "archived"] \in Row
    BY <1>l DEF Row
  <2> QED BY <1>13, <1>a, <1>l, <2>1 DEF Retire, TypeOK
<1>14. ASSUME NEW s \in Stores, Damage(s) PROVE TypeOK'
  <2>1. CASE UNCHANGED db /\
             \E r \in UNION Versions(s) \ lost : lost' = lost \cup {r}
    <3>1. lost' \in SUBSET Row
      BY <1>t, <2>1, LatestIsTable DEF TypeOK
    <3> QED BY <1>14, <1>t, <1>u, <2>1, <3>1 DEF Damage, TypeOK, CmdOK, history
  <2>2. CASE db' = [db EXCEPT ![s].opens = FALSE] /\ UNCHANGED lost
    <3>1. DbOK'
      BY <1>t, <2>2 DEF DbOK, DbType
    <3> QED BY <1>14, <1>t, <2>2, <3>1 DEF Damage, TypeOK, CmdOK, history
  <2> QED BY <1>14, <2>1, <2>2 DEF Damage
<1>15. CASE UNCHANGED vars
  BY <1>15, <1>t, <1>u DEF vars, TypeOK, CmdOK
<1>16. Failed \/ EndExport \/ EndImport \/ EndInit \/ Die => TypeOK'
  BY <1>5 DEF Failed, EndExport, EndImport, EndInit, Die, Running
<1> QED
  BY <1>s, <1>1, <1>2, <1>3, <1>4, <1>6, <1>7, <1>8, <1>9, <1>10, <1>11, <1>12, <1>13, <1>14,
     <1>15, <1>16 DEF Next

LEMMA TypeAlways == Spec => []TypeOK
BY TypeInit, TypeStep, PTL DEF Spec

-----------------------------------------------------------------------------
(* What is known of the rows: a uuid names one row of a table, wherever a   *)
(* version or a line of it still is, and nothing carries an id that was not *)
(* given out or a text that was not written.                                *)
Numbered(table) == \A r, q \in table : r.id = q.id => r = q

RowsOK ==
    /\ \A r \in Known : r.id <= ids /\ (r.text \in Texts => r.text \in written)
    /\ \A r, q \in Known : r.id = q.id => r.text = q.text
    /\ \A s \in Stores : \A table \in Versions(s) : Numbered(table)
    /\ Numbered(FileLines) /\ Numbered(cmd.lines)
    /\ cmd.pc = "write" => Numbered(file \cup cmd.lines)

(* A row is in one table, and one that is visible was never archived.       *)
OwnRows ==
    /\ \A s, t \in Stores : s # t => \A r \in Latest(s), q \in Latest(t) : r.id # q.id
    /\ \A s \in Stores : \A r \in Live(Latest(s)) : \A q \in DbRows : q.id = r.id => q = r

(* A memory has one id until something is imported, and a first import      *)
(* leaves it visible once.                                                  *)
WrittenOnce ==
    /\ imports = 0 =>
          \A r, q \in Known : r.text = q.text /\ r.text \in Texts => r.id = q.id
    /\ imports <= 1 =>
          \A s \in Stores : \A r, q \in Live(Latest(s)) :
              r.text = q.text /\ r.text \in Texts => r = q

HistoryOK == RowsOK /\ OwnRows /\ WrittenOnce

LEMMA LatestKnown ==
  ASSUME DbOK, NEW s \in Stores
  PROVE  Latest(s) \subseteq DbRows /\ DbRows \subseteq Known /\ Known \subseteq Row \cup FileLines \cup cmd.lines
BY LatestIsTable DEF DbRows, Known

LEMMA NoNewRows ==
  ASSUME DbOK, DbOK', imports \in Nat, imports' \in Nat, HistoryOK, DbRows' \subseteq DbRows, Known' \subseteq Known,
         \A s \in Stores : Latest(s)' \subseteq Latest(s),
         \A s \in Stores : \A table \in Versions(s)' : Numbered(table),
         ids' = ids, written' = written, imports <= imports',
         Numbered(FileLines)', Numbered(cmd.lines)',
         cmd'.pc = "write" => Numbered(file' \cup cmd'.lines)
  PROVE  HistoryOK'
<1>1. RowsOK'
  BY DEF HistoryOK, RowsOK
<1>2. \A s \in Stores : Live(Latest(s))' \subseteq Live(Latest(s))
  BY DEF Live
<1>3. OwnRows'
  BY <1>2 DEF HistoryOK, OwnRows
<1>4. WrittenOnce'
  BY <1>2 DEF HistoryOK, WrittenOnce
<1> QED BY <1>1, <1>3, <1>4 DEF HistoryOK

LEMMA DbAfterWrite ==
  ASSUME DbOK, NEW s \in Stores, NEW table \in SUBSET Row, NewVersion(s, table), lost' = lost
  PROVE  \A r \in DbRows' : r \in DbRows \/ r \in table
<1>1. \A t \in Stores : \A other \in Versions(t)' : other \in Versions(t) \/ other = table
  BY WriteShape DEF Versions
<1> QED BY <1>1 DEF DbRows

LEMMA NewRows ==
  ASSUME TypeOK, HistoryOK, NEW s \in Stores, NEW new \in SUBSET Row,
         NewVersion(s, Latest(s) \cup new), UNCHANGED <<lost, file, imports>>,
         cmd'.lines \subseteq cmd.lines,
         cmd'.pc = "write" => cmd.pc = "write",
         ids' \in Nat, ids <= ids', \A r \in new : ids < r.id /\ r.id <= ids', Numbered(new),
         written \subseteq written', \A r \in new : r.text \in Texts => r.text \in written',
         imports = 0 => \A r, q \in new : r.text \in Texts =>
             r.text \notin written /\ (q.text = r.text => q = r),
         imports = 1 => \A r \in new : r.text \in Texts /\ r.state = "live" =>
             /\ \A q \in Live(Latest(s)) : q.text # r.text
             /\ \A q \in new : q.text = r.text => q = r
  PROVE  HistoryOK'
<1> DEFINE table == Latest(s) \cup new
<1>t. DbOK /\ Latest(s) \in SUBSET Row /\ table \in SUBSET Row /\ NewVersion(s, table)
  BY LatestIsTable DEF TypeOK
<1>1. /\ DbOK' /\ Latest(s)' = table
      /\ \A t \in Stores \ {s} : db'[t] = db[t]
      /\ \A other \in Versions(s)' : other \in Versions(s) \/ other = table
  <2> HIDE DEF table
  <2> QED BY <1>t, WriteShape
<1>2. \A t \in Stores \ {s} : Latest(t)' = Latest(t) /\ Versions(t)' = Versions(t)
  BY <1>1 DEF Latest, Versions
<1>3. \A r \in DbRows' : r \in DbRows \/ r \in new
  <2>1. \A r \in DbRows' : r \in DbRows \/ r \in table
    <3> HIDE DEF table
    <3> QED BY <1>t, DbAfterWrite
  <2> QED BY <1>t, <2>1, LatestKnown
<1>4. \A r \in Known' : r \in Known \/ r \in new
  BY <1>3 DEF Known, FileLines
<1>5. \A r \in Known : r.id <= ids
  BY DEF HistoryOK, RowsOK
<1>6. Latest(s) \subseteq Known /\ \A t \in Stores : Latest(t) \subseteq DbRows
  BY <1>t, LatestKnown
<1>i. ids \in Nat /\ (\A r \in new : r.id \in Nat) /\ \A r \in DbRows : r.id \in Nat
  BY TransferAssumption DEF TypeOK, Row, DbRows
<1>f. \A r \in Known, q \in new : r.id # q.id
  <2>1. \A r \in Known : r.id \in Nat
    BY DEF TypeOK, CmdOK, CmdType, Known, DbRows, FileLines, Row
  <2> QED BY <1>5, <1>i, <2>1
<1>7. RowsOK'
  <2>1. \A r \in Known' : r.id <= ids' /\ (r.text \in Texts => r.text \in written')
    <3>1. \A r \in Known : r.id \in Nat
      BY DEF TypeOK, CmdOK, CmdType, Known, DbRows, FileLines, Row
    <3> QED BY <1>4, <1>5, <1>i, <3>1 DEF HistoryOK, RowsOK
  <2>2. \A r, q \in Known' : r.id = q.id => r.text = q.text
    BY <1>4, <1>f DEF HistoryOK, RowsOK, Numbered
  <2>3. Numbered(table)
    <3>1. Numbered(Latest(s))
      BY <1>t, LatestIsTable DEF HistoryOK, RowsOK
    <3> QED BY <1>6, <1>f, <3>1 DEF Numbered
  <2>4. \A t \in Stores : \A other \in Versions(t)' : Numbered(other)
    BY <1>1, <1>2, <2>3 DEF HistoryOK, RowsOK
  <2>5. /\ Numbered(FileLines)' /\ Numbered(cmd.lines)'
        /\ cmd'.pc = "write" => Numbered(file' \cup cmd'.lines)
    BY DEF HistoryOK, RowsOK, Numbered, FileLines
  <2> QED BY <2>1, <2>2, <2>4, <2>5 DEF RowsOK
<1>8. OwnRows'
  <2>1. ASSUME NEW t \in Stores, NEW u \in Stores, t # u,
               NEW r \in Latest(t)', NEW q \in Latest(u)'
        PROVE  r.id # q.id
    <3>1. /\ r \in Latest(t) \/ (t = s /\ r \in new)
          /\ q \in Latest(u) \/ (u = s /\ q \in new)
      BY <1>1, <1>2, <2>1
    <3>2. Latest(t) \subseteq Known /\ Latest(u) \subseteq Known
      BY <1>t, LatestKnown
    <3> QED BY <1>f, <2>1, <3>1, <3>2 DEF HistoryOK, OwnRows
  <2>2. ASSUME NEW t \in Stores, NEW r \in Live(Latest(t))', NEW q \in DbRows', q.id = r.id
        PROVE  q = r
    <3>1. r \in Live(Latest(t)) \/ r \in new
      BY <1>1, <1>2, <2>2 DEF Live
    <3>2. Live(Latest(t)) \subseteq Known /\ DbRows \subseteq Known
      BY <1>t, LatestKnown DEF Live
    <3> QED BY <1>3, <1>f, <2>2, <3>1, <3>2 DEF HistoryOK, OwnRows, Numbered
  <2> QED BY <2>1, <2>2 DEF OwnRows
<1>9. WrittenOnce'
  <2>1. ASSUME imports = 0, NEW r \in Known', NEW q \in Known', r.text = q.text, r.text \in Texts
        PROVE  r.id = q.id
    BY <1>4, <2>1 DEF HistoryOK, RowsOK, WrittenOnce
  <2>2. ASSUME imports <= 1, NEW t \in Stores,
               NEW r \in Live(Latest(t))', NEW q \in Live(Latest(t))',
               r.text = q.text, r.text \in Texts
        PROVE  r = q
    <3>1. /\ r.state = "live" /\ q.state = "live"
          /\ r \in Live(Latest(t)) \/ (t = s /\ r \in new)
          /\ q \in Live(Latest(t)) \/ (t = s /\ q \in new)
      BY <1>1, <1>2, <2>2 DEF Live
    <3>2. CASE imports = 0
      <4>1. \A x \in Live(Latest(t)) : x.text \in Texts => x.text \in written
        BY <1>t, LatestKnown DEF Live, HistoryOK, RowsOK
      <4> QED BY <2>2, <3>1, <3>2, <4>1 DEF HistoryOK, WrittenOnce
    <3>3. CASE imports = 1
      BY <2>2, <3>1, <3>3 DEF HistoryOK, WrittenOnce
    <3> QED BY <2>2, <3>2, <3>3 DEF TypeOK
  <2> QED BY <2>1, <2>2 DEF WrittenOnce
<1> QED BY <1>7, <1>8, <1>9 DEF HistoryOK

LEMMA RetiredRow ==
  ASSUME TypeOK, HistoryOK, NEW s \in Stores, NEW r \in Live(Latest(s)),
         NEW old \in SUBSET {[r EXCEPT !.state = "archived"]},
         NewVersion(s, (Latest(s) \ {r}) \cup old),
         UNCHANGED <<lost, file, cmd, ids, written, imports>>
  PROVE  HistoryOK'
<1> DEFINE table == (Latest(s) \ {r}) \cup old
<1>t. DbOK /\ Latest(s) \in SUBSET Row /\ r \in Latest(s)
  BY LatestIsTable DEF TypeOK, Live
<1>o. \A o \in old : o \in Row /\ o.id = r.id /\ o.text = r.text /\ o.state = "archived"
  BY <1>t DEF Row
<1>a. table \in SUBSET Row /\ NewVersion(s, table)
  BY <1>t, <1>o
<1>1. /\ DbOK' /\ Latest(s)' = table
      /\ \A t \in Stores \ {s} : db'[t] = db[t]
      /\ \A other \in Versions(s)' : other \in Versions(s) \/ other = table
  <2> HIDE DEF table
  <2> QED BY <1>t, <1>a, WriteShape
<1>2. \A t \in Stores \ {s} : Latest(t)' = Latest(t) /\ Versions(t)' = Versions(t)
  BY <1>1 DEF Latest, Versions
<1>3. \A q \in DbRows' : q \in DbRows \/ q \in old
  <2>1. \A q \in DbRows' : q \in DbRows \/ q \in table
    <3> HIDE DEF table
    <3> QED BY <1>t, <1>a, DbAfterWrite
  <2> QED BY <1>t, <2>1, LatestKnown
<1>4. \A q \in Known' : q \in Known \/ q \in old
  BY <1>3 DEF Known, FileLines
<1>5. r \in Known /\ r \in DbRows /\ \A t \in Stores : Latest(t) \subseteq DbRows /\ DbRows \subseteq Known
  BY <1>t, LatestKnown
<1>6. \A t \in Stores : Live(Latest(t))' \subseteq Live(Latest(t))
  BY <1>1, <1>2, <1>o DEF Live
<1>n. Numbered(Latest(s))
  BY <1>t, LatestIsTable DEF HistoryOK, RowsOK
<1>7. RowsOK'
  <2>1. \A q \in Known' : \E k \in Known : k.id = q.id /\ k.text = q.text
    BY <1>4, <1>5, <1>o
  <2>2. \A q \in Known' : q.id <= ids' /\ (q.text \in Texts => q.text \in written')
    BY <2>1 DEF HistoryOK, RowsOK
  <2>3. \A x, q \in Known' : x.id = q.id => x.text = q.text
    BY <2>1 DEF HistoryOK, RowsOK
  <2>4. Numbered(table)
    BY <1>t, <1>n, <1>o DEF Numbered
  <2>5. \A t \in Stores : \A other \in Versions(t)' : Numbered(other)
    BY <1>1, <1>2, <2>4 DEF HistoryOK, RowsOK
  <2>6. /\ Numbered(FileLines)' /\ Numbered(cmd.lines)'
        /\ cmd'.pc = "write" => Numbered(file' \cup cmd'.lines)
    BY DEF HistoryOK, RowsOK, Numbered, FileLines
  <2> QED BY <2>2, <2>3, <2>5, <2>6 DEF RowsOK
<1>8. OwnRows'
  <2>1. ASSUME NEW t \in Stores, NEW u \in Stores, t # u,
               NEW x \in Latest(t)', NEW q \in Latest(u)'
        PROVE  x.id # q.id
    <3>1. \A v \in Stores : \A y \in Latest(v)' : \E k \in Latest(v) : k.id = y.id
      BY <1>1, <1>2, <1>o, <1>t
    <3> QED BY <2>1, <3>1 DEF HistoryOK, OwnRows
  <2>2. ASSUME NEW t \in Stores, NEW x \in Live(Latest(t))', NEW q \in DbRows', q.id = x.id
        PROVE  q = x
    <3>1. x \in Live(Latest(t)) /\ x \in Latest(t)
      BY <1>6, <2>2 DEF Live
    <3>2. CASE q \in DbRows
      BY <2>2, <3>1, <3>2 DEF HistoryOK, OwnRows
    <3>3. CASE q \in old
      <4>1. x.id = r.id
        BY <1>o, <2>2, <3>3
      <4>2. t = s
        BY <1>t, <3>1, <4>1 DEF HistoryOK, OwnRows
      <4>3. x = r
        BY <1>t, <1>n, <3>1, <4>1, <4>2 DEF Numbered
      <4>4. x \in table /\ x.state = "live"
        BY <1>1, <2>2, <4>2 DEF Live
      <4> QED BY <1>o, <4>3, <4>4
    <3> QED BY <1>3, <2>2, <3>2, <3>3
  <2> QED BY <2>1, <2>2 DEF OwnRows
<1>9. WrittenOnce'
  <2>1. \A q \in Known' : \E k \in Known : k.id = q.id /\ k.text = q.text
    BY <1>4, <1>5, <1>o
  <2> QED BY <1>6, <2>1 DEF HistoryOK, WrittenOnce
<1> QED BY <1>7, <1>8, <1>9 DEF HistoryOK
LEMMA FileStep ==
  ASSUME TypeOK, TypeOK', HistoryOK, UNCHANGED <<db, lost, ids, written>>, imports <= imports',
         FileLines' \cup cmd'.lines \subseteq DbRows \cup FileLines \cup cmd.lines,
         Numbered(FileLines)', Numbered(cmd.lines)',
         cmd'.pc = "write" => Numbered(file' \cup cmd'.lines)
  PROVE  HistoryOK'
<1>1. DbRows' = DbRows /\ \A s \in Stores : Latest(s)' = Latest(s) /\ Versions(s)' = Versions(s)
  BY DEF DbRows, Latest, Versions
<1>2. Known' \subseteq Known
  BY <1>1 DEF Known
<1> QED BY <1>1, <1>2, NoNewRows DEF TypeOK, HistoryOK, RowsOK

LEMMA DamageStep ==
  ASSUME TypeOK, TypeOK', HistoryOK, UNCHANGED <<file, cmd, ids, written, imports>>,
         \A s \in Stores : db'[s].versions = db[s].versions,
         NEW r \in DbRows, lost' \subseteq lost \cup {r}
  PROVE  HistoryOK'
<1>1. \A s \in Stores : Latest(s)' = Latest(s) /\ Versions(s)' = Versions(s)
  BY DEF Latest, Versions
<1>2. DbRows' \subseteq DbRows
  BY <1>1 DEF DbRows
<1>3. Known' \subseteq Known
  BY <1>2 DEF Known, FileLines
<1>4. Numbered(FileLines)' /\ Numbered(cmd.lines)' /\ (cmd'.pc = "write" => Numbered(file' \cup cmd'.lines))
  BY DEF HistoryOK, RowsOK, FileLines, Numbered
<1> QED BY <1>1, <1>2, <1>3, <1>4, NoNewRows DEF TypeOK, HistoryOK, RowsOK

-----------------------------------------------------------------------------
(* Where an import stands: the file is the one it began with, each visible  *)
(* line of it is still pending, shown by a live row or retired meanwhile,   *)
(* what is shown of the file comes from a visible line or was shown before, *)
(* and as long as it is the first import a pending line that a live row     *)
(* shows is present under its own id.                                       *)
ImportOK ==
    cmd.op = "import" =>
        /\ file = before.file
        /\ cmd.pc = "line" \/ cmd.result = "ok" =>
              /\ file # NoFile /\ imports >= 1 /\ cmd.lines \subseteq file
              /\ \A line \in Live(file) \ cmd.lines :
                    \/ \E r \in Live(Latest(cmd.store)) : r.text = line.text
                    \/ line.text \in gone
              /\ \A r \in Live(Latest(cmd.store)), line \in file : r.text = line.text =>
                    \E q \in Live(file) \cup Live(before.table) : q.text = r.text
        /\ cmd.pc = "line" /\ imports = 1 =>
              /\ \A line, other \in cmd.lines :
                    line.text = other.text /\ line.text \in Texts => line = other
              /\ \A line \in cmd.lines, r \in Live(Latest(cmd.store)) :
                    r.text = line.text /\ r.text \in Texts => r.id = line.id

(* A line is stored only if no live row has its id.                         *)
LEMMA ImportedRow ==
  ASSUME TypeOK, HistoryOK, ImportOK, NEW line \in cmd.lines, ImportLine(line),
         ~HasId(cmd.store, line.id), NEW s \in Stores, s = cmd.store,
         NEW new, new = [line EXCEPT !.id = ids + 1]
  PROVE  /\ new \in Row /\ new.text = line.text /\ new.state = line.state /\ new.id = ids + 1
         /\ NewVersion(s, Latest(s) \cup {new})
         /\ ids' = ids + 1 /\ ids' \in 0 .. MaxRows
         /\ CmdOK' /\ cmd'.pc = "line" /\ cmd'.op = "import" /\ cmd'.store = s
         /\ cmd'.lines = cmd.lines \ {line} /\ cmd'.result = cmd.result
<1>1. line \in Row /\ cmd.pc = "line" /\ cmd.op = "import"
  BY DEF TypeOK, CmdOK, CmdType, ImportLine
<1>2. StoreRaw(s, line) /\ cmd' = [cmd EXCEPT !.lines = @ \ {line}]
  BY DEF ImportLine
<1>3. ids + 1 \in 1 .. MaxRows
  BY <1>2, TransferAssumption DEF TypeOK, StoreRaw
<1>4. new \in Row /\ new.text = line.text /\ new.state = line.state /\ new.id = ids + 1
  BY <1>1, <1>3 DEF Row
<1>5. CmdOK' /\ cmd'.pc = "line" /\ cmd'.op = "import" /\ cmd'.store = s
      /\ cmd'.lines = cmd.lines \ {line} /\ cmd'.result = cmd.result
  <2>1. cmd.lines \ {line} \in SUBSET Row /\ cmd' = [cmd EXCEPT !.lines = cmd.lines \ {line}]
    BY <1>2 DEF TypeOK, CmdOK, CmdType
  <2>2. CmdOK
    BY DEF TypeOK
  <2> QED BY <1>1, <2>1, <2>2, LinesMove DEF Running
<1> QED BY <1>2, <1>3, <1>4, <1>5, TransferAssumption DEF StoreRaw

LEMMA ImportHistory ==
  ASSUME TypeOK, HistoryOK, ImportOK, NEW line \in cmd.lines, ImportLine(line),
         ~HasId(cmd.store, line.id)
  PROVE  HistoryOK'
<1>1. PICK s \in Stores : s = cmd.store
  BY DEF TypeOK, CmdOK, ImportLine
<1>2. PICK new : new = [line EXCEPT !.id = ids + 1]
  OBVIOUS
<1>3. /\ new \in Row /\ new.text = line.text /\ new.state = line.state /\ new.id = ids + 1
      /\ NewVersion(s, Latest(s) \cup {new})
      /\ ids' = ids + 1 /\ ids' \in 0 .. MaxRows
      /\ cmd'.pc = "line" /\ cmd'.lines = cmd.lines \ {line}
  BY <1>1, <1>2, ImportedRow
<1>4. /\ UNCHANGED <<lost, file, imports, written>> /\ cmd.pc = "line" /\ cmd.op = "import"
      /\ ids \in Nat /\ imports \in Nat
  BY TransferAssumption DEF ImportLine, TypeOK, CmdOK
<1>5. imports >= 1
  BY <1>4 DEF ImportOK
<1>6. line.text \in Texts => line.text \in written
  BY DEF HistoryOK, RowsOK, Known
<1>7. ASSUME imports = 1, line.text \in Texts, NEW q \in Live(Latest(s)), q.text = line.text PROVE FALSE
  BY <1>1, <1>4, <1>7 DEF ImportOK, HasId
<1>8. {new} \in SUBSET Row /\ Numbered({new})
  BY <1>3 DEF Numbered
<1>9. \A r \in {new} : ids < r.id /\ r.id <= ids' /\ (r.text \in Texts => r.text \in written')
  BY <1>3, <1>4, <1>6
<1>10. imports = 1 => \A r \in {new} : r.text \in Texts /\ r.state = "live" =>
             /\ \A q \in Live(Latest(s)) : q.text # r.text
             /\ \A q \in {new} : q.text = r.text => q = r
  BY <1>3, <1>7
<1>11. imports # 0 /\ ids' \in Nat /\ ids <= ids'
  BY <1>3, <1>4, <1>5
<1>12. cmd'.lines \subseteq cmd.lines /\ (cmd'.pc = "write" => cmd.pc = "write")
  BY <1>3
<1> QED BY <1>3, <1>4, <1>8, <1>9, <1>10, <1>11, <1>12, NewRows

LEMMA SeedHistory ==
  ASSUME TypeOK, HistoryOK, Seed
  PROVE  HistoryOK'
<1>1. PICK s \in Stores : s = cmd.store
  BY DEF TypeOK, CmdOK, Seed
<1>2. PICK number \in [Seeds -> 1 .. Cardinality(Seeds)] :
         /\ \A t, u \in Seeds : number[t] = number[u] => t = u
         /\ NewVersion(s, Latest(s) \cup
               {[id |-> ids + number[t], text |-> t, state |-> "live"] : t \in Seeds})
  BY <1>1 DEF Seed, StoreMany
<1>3. PICK new : new = {[id |-> ids + number[t], text |-> t, state |-> "live"] : t \in Seeds}
  OBVIOUS
<1>4. ids + Cardinality(Seeds) <= MaxRows /\ ids' = ids + Cardinality(Seeds)
  BY DEF Seed, StoreMany
<1>5. ids \in 0 .. MaxRows /\ CmdOK
  BY DEF TypeOK
<1>6. /\ new \in SUBSET Row /\ ids' \in 0 .. MaxRows
      /\ \A r \in new : ids < r.id /\ r.id <= ids' /\ r.text \in Seeds
      /\ \A r, q \in new : r.id = q.id => r = q
  BY <1>2, <1>3, <1>4, <1>5, SeedRows
<1>7. NewVersion(s, Latest(s) \cup new)
  BY <1>2, <1>3
<1>8. cmd'.lines = cmd.lines /\ cmd'.pc # "write"
  BY <1>5, PcMoves DEF Seed, Running, CmdOK
<1>9. \A r \in new : r.text \notin Texts
  BY <1>6, TransferAssumption
<1>10. ids' \in Nat /\ ids <= ids'
  <2>1. Cardinality(Seeds) \in Nat
    BY TransferAssumption, FS_CardinalityType
  <2> QED BY <1>4, <1>5, <2>1, TransferAssumption
<1>11. UNCHANGED <<lost, file, imports, written>>
  BY DEF Seed
<1> QED BY <1>6, <1>7, <1>8, <1>9, <1>10, <1>11, NewRows DEF Numbered

LEMMA RememberHistory ==
  ASSUME TypeOK, HistoryOK, NEW s \in Stores, NEW t \in Texts, Remember(s, t)
  PROVE  HistoryOK'
<1>1. PICK new : new = [id |-> ids + 1, text |-> t, state |-> "live"]
  OBVIOUS
<1>2. ids + 1 \in 1 .. MaxRows /\ ids \in Nat
  BY TransferAssumption DEF TypeOK, Remember
<1>3. new \in Row /\ new.id = ids + 1 /\ new.text = t
  BY <1>1, <1>2 DEF Row
<1>4. /\ NewVersion(s, Latest(s) \cup {new}) /\ ids' = ids + 1
      /\ UNCHANGED <<lost, file, imports, cmd>> /\ written' = written \cup {t} /\ t \notin written
  BY <1>1 DEF Remember, AgentWrites
<1>5. {new} \in SUBSET Row /\ Numbered({new})
  BY <1>3 DEF Numbered
<1>6. \A r \in {new} : ids < r.id /\ r.id <= ids' /\ r.text \in written' /\ r.text \notin written
  BY <1>2, <1>3, <1>4
<1>7. ids' \in Nat /\ ids <= ids'
  BY <1>2, <1>4
<1>8. \A q \in Live(Latest(s)) : q.text \in Texts => q.text \in written
  BY LatestKnown DEF TypeOK, Live, HistoryOK, RowsOK
<1>9. imports = 1 => \A r \in {new} : r.text \in Texts /\ r.state = "live" =>
             /\ \A q \in Live(Latest(s)) : q.text # r.text
             /\ \A q \in {new} : q.text = r.text => q = r
  BY <1>3, <1>4, <1>8
<1> QED BY <1>4, <1>5, <1>6, <1>7, <1>9, NewRows

LEMMA HistoryStep == TypeOK /\ TypeOK' /\ HistoryOK /\ ImportOK /\ [Next]_vars => HistoryOK'
<1> SUFFICES ASSUME TypeOK, TypeOK', HistoryOK, ImportOK, [Next]_vars PROVE HistoryOK'
  OBVIOUS
<1>t. DbOK /\ CmdOK /\ CmdOK' /\ setting \in Setting /\ imports \in Nat
  BY DEF TypeOK
<1>s. setting.stores \subseteq Stores
  BY <1>t DEF Setting
<1>n. Numbered(FileLines) /\ Numbered(cmd.lines) /\ Numbered({})
  BY DEF HistoryOK, RowsOK, Numbered
<1>b. ASSUME NEW op \in Commands, NEW s \in Stores, NEW flag \in BOOLEAN, NEW pc, NEW lines \in SUBSET Row,
             Start(op, s, flag), Begin(op, s, pc, lines, flag), lines \subseteq FileLines,
             pc # "write", imports' \in {imports, imports + 1}
      PROVE  HistoryOK'
  <2>1. cmd'.lines = lines /\ cmd'.pc = pc /\ UNCHANGED <<db, lost, ids, file, written>>
    BY <1>b DEF Begin, Start
  <2>2. FileLines' = FileLines /\ Numbered(lines)
    BY <1>b, <1>n, <2>1 DEF FileLines, Numbered
  <2>3. imports <= imports'
    BY <1>b, <1>t
  <2>4. Numbered(FileLines)' /\ Numbered(cmd.lines)'
    BY <1>n, <2>1, <2>2 DEF Numbered
  <2> QED BY <1>b, <2>1, <2>2, <2>3, <2>4, FileStep
<1>1. ASSUME NEW s \in Stores, NEW flag \in BOOLEAN, NEW op \in Exports, BeginExport(op, s, flag)
      PROVE  HistoryOK'
  BY <1>1, <1>b DEF BeginExport, Exports, Commands
<1>2. ASSUME NEW s \in Stores, NEW flag \in BOOLEAN, BeginImport(s, flag)
      PROVE  HistoryOK'
  <2>1. "import" \in Commands /\ Start("import", s, flag) /\ {} \subseteq FileLines
    BY <1>2 DEF BeginImport, Commands
  <2>2. CASE db[s].opens /\ file # NoFile
    <3>1. file \in SUBSET Row /\ file \subseteq FileLines
      BY <2>2 DEF TypeOK, FileLines
    <3>2. Begin("import", s, "line", file, flag) /\ imports' = imports + 1
      BY <1>2, <2>2 DEF BeginImport
    <3> QED BY <1>b, <2>1, <3>1, <3>2
  <2>3. CASE ~(db[s].opens /\ file # NoFile)
    <3>1. Begin("import", s, "failing", {}, flag) /\ imports' = imports
      BY <1>2, <2>3 DEF BeginImport
    <3> QED BY <1>b, <2>1, <3>1
  <2> QED BY <2>2, <2>3
<1>3. ASSUME NEW s \in Stores, NEW op \in {"init", "reset"}, BeginInit(op, s)
      PROVE  HistoryOK'
  <2>1. PICK pc \in {"wipe", "initialise"} : Begin(op, s, pc, {}, FALSE)
    BY <1>3 DEF BeginInit
  <2>2. op \in Commands /\ Start(op, s, FALSE) /\ imports' = imports
    BY <1>3 DEF BeginInit, Commands
  <2>3. {} \in SUBSET Row /\ {} \subseteq FileLines /\ pc # "write" /\ FALSE \in BOOLEAN
    OBVIOUS
  <2>4. imports' \in {imports, imports + 1}
    BY <2>2
  <2> QED BY <1>b, <2>1, <2>2, <2>3, <2>4
<1>e. ASSUME Running, NEW result \in {"failed", "ok", "died"}, End(result),
             UNCHANGED <<setting, db, lost, ids, file, written, bounds, history>>
      PROVE  HistoryOK'
  <2>1. cmd'.lines = {} /\ cmd'.pc = "idle"
    BY <1>e, <1>t, EndType
  <2>2. FileLines' = FileLines /\ imports' = imports
    BY <1>e DEF FileLines, history
  <2>3. Numbered(FileLines)' /\ Numbered(cmd.lines)'
    BY <1>n, <2>1, <2>2 DEF Numbered
  <2> QED BY <1>e, <1>t, <2>1, <2>2, <2>3, FileStep
<1>p. ASSUME NEW pc, pc # "write", cmd'.pc = pc, cmd'.lines \in {cmd.lines, {}},
             UNCHANGED <<db, lost, ids, file, written, imports>>
      PROVE  HistoryOK'
  <2>1. FileLines' = FileLines /\ Numbered(FileLines)' /\ Numbered(cmd.lines)'
    BY <1>p, <1>n DEF FileLines, Numbered
  <2> QED BY <1>p, <1>t, <2>1, FileStep
<1>4. CASE Scan \/ ScanFails
  <2>1. UNCHANGED <<db, lost, ids, file, written, imports>>
    BY <1>4 DEF Scan, ScanFails, history
  <2>2. Running /\ cmd.op \in Exports /\ cmd.store \in Stores
    BY <1>4, <1>t, ScannedRows
  <2>3. CASE cmd' = [cmd EXCEPT !.pc = "failing"]
    <3>1. cmd'.pc = "failing" /\ cmd'.lines = cmd.lines
      BY <1>t, <2>2, <2>3, PcMoves
    <3> QED BY <1>p, <2>1, <3>1
  <2>4. ASSUME NEW lines \in SUBSET Row, cmd' = [cmd EXCEPT !.pc = "open", !.lines = lines],
               NEW table \in Versions(cmd.store), lines \subseteq table
        PROVE  HistoryOK'
    <3>1. lines \in SUBSET DbRows
      BY <2>2, <2>4 DEF DbRows
    <3>2. Numbered(lines)
      BY <2>2, <2>4 DEF HistoryOK, RowsOK, Numbered
    <3>3. cmd'.lines = lines /\ cmd'.pc = "open"
      BY <1>t, <2>2, <2>4, GoesOn
    <3>4. FileLines' = FileLines
      BY <2>1 DEF FileLines
    <3>5. Numbered(FileLines)' /\ Numbered(cmd.lines)'
      BY <1>n, <3>2, <3>3, <3>4 DEF Numbered
    <3> QED BY <1>t, <2>1, <3>1, <3>3, <3>4, <3>5, FileStep
  <2> QED BY <1>4, <1>t, <2>3, <2>4, ScannedRows
<1>6. CASE OpenFile
  <2>1. cmd.op \in Exports /\ Running
    BY <1>6, <1>t DEF OpenFile, CmdOK, Running
  <2>2. Included(cmd.lines) \in SUBSET Row /\ Included(cmd.lines) \subseteq cmd.lines
    BY <1>t DEF Included, Live, CmdOK, CmdType
  <2>3. cmd' = [cmd EXCEPT !.pc = "write", !.lines = Included(cmd.lines)]
    BY <1>6, <1>t DEF OpenFile, CmdOK, CmdType
  <2>4. cmd'.lines = Included(cmd.lines) /\ cmd'.lines \subseteq cmd.lines
    BY <1>t, <2>1, <2>2, <2>3, GoesOn
  <2>5. file' = {} /\ UNCHANGED <<db, lost, ids, written, imports>>
    BY <1>6 DEF OpenFile, history
  <2>6. FileLines' = {}
    BY <2>5 DEF FileLines
  <2>7. Numbered(cmd.lines)' /\ Numbered(FileLines)' /\ Numbered(file' \cup cmd'.lines)
    BY <1>n, <2>4, <2>5, <2>6 DEF Numbered
  <2> QED BY <1>t, <2>4, <2>5, <2>6, <2>7, FileStep
<1>7. CASE WriteLine
  <2>1. PICK line \in cmd.lines : /\ file' = file \cup {line}
                                  /\ cmd' = [cmd EXCEPT !.lines = cmd.lines \ {line}]
    BY <1>7, <1>t DEF WriteLine, CmdOK, CmdType
  <2>2. cmd.lines \ {line} \in SUBSET Row
    BY <1>t DEF CmdOK, CmdType
  <2>3. cmd'.lines = cmd.lines \ {line}
    BY <1>t, <2>1, <2>2, LinesMove
  <2>4. UNCHANGED <<db, lost, ids, written, imports>> /\ cmd.pc = "write"
    BY <1>7 DEF WriteLine, history
  <2>5. Numbered(file \cup cmd.lines)
    BY <2>4 DEF HistoryOK, RowsOK
  <2>6. file \in SUBSET Row
    BY <2>4 DEF TypeOK
  <2>7. FileLines' \subseteq FileLines \cup cmd.lines /\ FileLines' \subseteq file \cup cmd.lines
    <3>1. CASE file' = NoFile
      BY <3>1 DEF FileLines
    <3>2. CASE file' # NoFile /\ file # NoFile
      BY <2>1, <3>2 DEF FileLines
    <3>3. CASE file' # NoFile /\ file = NoFile
      BY <2>6, <3>3, TransferAssumption
    <3> QED BY <3>1, <3>2, <3>3
  <2>8. Numbered(cmd.lines)' /\ Numbered(FileLines)' /\ Numbered(file' \cup cmd'.lines)
    BY <2>1, <2>3, <2>5, <2>7 DEF Numbered
  <2> QED BY <1>t, <2>3, <2>4, <2>7, <2>8, FileStep
<1>8. ASSUME NEW line \in cmd.lines, ImportLine(line) PROVE HistoryOK'
  <2>1. CASE ~HasId(cmd.store, line.id)
    BY <1>8, <2>1, ImportHistory
  <2>2. CASE HasId(cmd.store, line.id)
    <3>1. UNCHANGED <<db, lost, ids, file, written, imports>> /\ cmd.pc = "line"
      BY <1>8, <2>2 DEF ImportLine
    <3>2. cmd'.pc # "write" /\ cmd'.lines \subseteq cmd.lines
      BY <1>8, <2>2, <1>t, <3>1 DEF ImportLine, CmdOK, CmdType
    <3>3. FileLines' = FileLines /\ Numbered(FileLines)' /\ Numbered(cmd.lines)'
      BY <1>n, <3>1, <3>2 DEF FileLines, Numbered
    <3> QED BY <1>t, <3>1, <3>2, <3>3, FileStep
  <2> QED BY <2>1, <2>2
<1>9. CASE Unlink
  <2>1. PICK s \in Stores : s = cmd.store
    BY <1>9, <1>t DEF Unlink, CmdOK
  <2>2. UNCHANGED <<file, cmd, ids, written, imports>>
    BY <1>9 DEF Unlink, history
  <2>3. CASE \E r \in Latest(cmd.store) \ lost : lost' = lost \cup {r} /\ UNCHANGED db
    <3>1. PICK r \in Latest(s) : lost' = lost \cup {r} /\ UNCHANGED db
      BY <2>1, <2>3
    <3>2. r \in DbRows
      BY <1>t, LatestKnown
    <3> QED BY <2>2, <3>1, <3>2, DamageStep
  <2>4. CASE db' = [db EXCEPT ![cmd.store].opens = FALSE] /\ UNCHANGED lost
    <3>1. \A t \in Stores : db'[t].versions = db[t].versions
      BY <1>t, <2>1, <2>4 DEF DbOK, DbType
    <3>2. \A t \in Stores : Latest(t)' = Latest(t) /\ Versions(t)' = Versions(t)
      BY <3>1 DEF Latest, Versions
    <3>3. DbRows' = DbRows /\ FileLines' = FileLines
      BY <2>2, <2>4, <3>2 DEF DbRows, FileLines
    <3>4. Known' = Known
      BY <2>2, <3>3 DEF Known
    <3>5. Numbered(FileLines)' /\ Numbered(cmd.lines)' /\ cmd'.pc # "write"
      BY <1>9, <1>n, <2>2, <3>3 DEF Numbered, Unlink
    <3> QED BY <1>t, <2>2, <3>2, <3>3, <3>4, <3>5, NoNewRows DEF TypeOK, HistoryOK, RowsOK
  <2> QED BY <1>9, <2>3, <2>4 DEF Unlink
<1>10. CASE Wiped
  <2>1. PICK s \in Stores : s = cmd.store
    BY <1>10, <1>t DEF Wiped, CmdOK
  <2>2. UNCHANGED <<lost, file, ids, written, imports>> /\ db' = [db EXCEPT ![s] = FreshTable]
    BY <1>10, <2>1 DEF Wiped, history
  <2>3. cmd'.lines = cmd.lines /\ cmd'.pc = "initialise"
    BY <1>10, <1>t, PcMoves DEF Wiped, Running, CmdOK
  <2>4. db'[s] = FreshTable /\ \A t \in Stores \ {s} : db'[t] = db[t]
    BY <1>t, <2>2 DEF DbOK, DbType
  <2>5. Latest(s)' = {} /\ \A table \in Versions(s)' : table = {}
    BY <2>4 DEF Latest, Versions, FreshTable
  <2>6. \A t \in Stores \ {s} : Latest(t)' = Latest(t) /\ Versions(t)' = Versions(t)
    BY <2>4 DEF Latest, Versions
  <2>7. DbRows' \subseteq DbRows
    <3>1. ASSUME NEW r \in DbRows' PROVE r \in DbRows
      <4>1. r \in Row /\ (r \in lost \/ \E t \in Stores : \E table \in Versions(t)' : r \in table)
        BY <2>2 DEF DbRows
      <4> QED BY <2>5, <2>6, <4>1 DEF DbRows
    <3> QED BY <3>1
  <2>8. FileLines' = FileLines
    BY <2>2 DEF FileLines
  <2>9. Known' \subseteq Known
    BY <2>3, <2>7, <2>8 DEF Known
  <2>10. \A t \in Stores : \A table \in Versions(t)' : Numbered(table)
    BY <2>5, <2>6 DEF HistoryOK, RowsOK, Numbered
  <2>11. \A t \in Stores : Latest(t)' \subseteq Latest(t)
    BY <2>5, <2>6
  <2>12. Numbered(FileLines)' /\ Numbered(cmd.lines)'
    BY <1>n, <2>3, <2>8 DEF Numbered
  <2> QED BY <1>t, <2>2, <2>3, <2>7, <2>9, <2>10, <2>11, <2>12, NoNewRows DEF TypeOK
<1>11. CASE Initialise
  <2>1. PICK pc \in {"look", "wipe"} : cmd' = [cmd EXCEPT !.pc = pc]
    BY <1>11 DEF Initialise
  <2>2. cmd'.pc = pc /\ cmd'.lines = cmd.lines
    BY <1>11, <1>t, <2>1 DEF CmdOK, CmdType
  <2> QED BY <1>11, <1>p, <2>2 DEF Initialise, history
<1>12. CASE Look
  <2>1. PICK pc \in {"failing", "done", "seed"} : cmd' = [cmd EXCEPT !.pc = pc]
    BY <1>12 DEF Look
  <2>2. cmd'.pc = pc /\ cmd'.lines = cmd.lines
    BY <1>12, <1>t, <2>1 DEF CmdOK, CmdType
  <2> QED BY <1>12, <1>p, <2>2 DEF Look, history
<1>13. ASSUME NEW s \in Stores, NEW r \in Latest(s), NEW archived \in BOOLEAN, Retire(s, r, archived)
       PROVE  HistoryOK'
  <2>1. PICK old \in SUBSET {[r EXCEPT !.state = "archived"]} :
            old = IF archived THEN {[r EXCEPT !.state = "archived"]} ELSE {}
    OBVIOUS
  <2>2. /\ r \in Live(Latest(s)) /\ NewVersion(s, (Latest(s) \ {r}) \cup old)
        /\ UNCHANGED <<lost, file, cmd, ids, written, imports>>
    BY <1>13, <2>1 DEF Retire, AgentWrites
  <2> QED BY <2>2, RetiredRow
<1>14. ASSUME NEW s \in Stores, Damage(s) PROVE HistoryOK'
  <2>2. UNCHANGED <<file, cmd, ids, written, imports>>
    BY <1>14 DEF Damage, history
  <2>3. CASE \E r \in UNION Versions(s) \ lost :
                lost' = lost \cup {r} /\ UNCHANGED db
    <3>1. PICK r \in UNION Versions(s) : lost' = lost \cup {r} /\ UNCHANGED db
      BY <2>3
    <3>2. r \in DbRows
      BY <1>t, LatestIsTable DEF DbRows
    <3> QED BY <2>2, <3>1, <3>2, DamageStep
  <2>4. CASE db' = [db EXCEPT ![s].opens = FALSE] /\ UNCHANGED lost
    <3>1. \A t \in Stores : db'[t].versions = db[t].versions
      BY <1>t, <2>4 DEF DbOK, DbType
    <3>2. \A t \in Stores : Latest(t)' = Latest(t) /\ Versions(t)' = Versions(t)
      BY <3>1 DEF Latest, Versions
    <3>3. DbRows' = DbRows /\ FileLines' = FileLines
      BY <2>2, <2>4, <3>2 DEF DbRows, FileLines
    <3>4. Known' = Known
      BY <2>2, <3>3 DEF Known
    <3>5. Numbered(FileLines)' /\ Numbered(cmd.lines)' /\ cmd'.pc # "write"
      BY <1>14, <1>n, <2>2, <3>3 DEF Numbered, Damage, Running
    <3> QED BY <1>t, <2>2, <3>2, <3>3, <3>4, <3>5, NoNewRows DEF TypeOK, HistoryOK, RowsOK
  <2> QED BY <1>14, <2>3, <2>4 DEF Damage
<1>15. CASE UNCHANGED vars
  <2>1. UNCHANGED <<db, lost, ids, file, written, cmd, imports>>
    BY <1>15 DEF vars
  <2>2. FileLines' = FileLines
    BY <2>1 DEF FileLines
  <2>3. Numbered(FileLines)' /\ Numbered(cmd.lines)' /\ (cmd'.pc = "write" => Numbered(file' \cup cmd'.lines))
    BY <1>n, <2>1, <2>2 DEF Numbered, HistoryOK, RowsOK
  <2> QED BY <1>t, <2>1, <2>2, <2>3, FileStep
<1>16. Failed \/ EndExport \/ EndImport \/ EndInit \/ Die => HistoryOK'
  BY <1>e DEF Failed, EndExport, EndImport, EndInit, Die, Running
<1> QED
  BY <1>s, <1>1, <1>2, <1>3, <1>4, <1>6, <1>7, <1>8, <1>9, <1>10, <1>11, <1>12, <1>13, <1>14,
     <1>15, <1>16, SeedHistory, RememberHistory DEF Next, Exports

(* What moves an import on, or leaves it as it is.                          *)
LEMMA ImportRests ==
  ASSUME TypeOK, HistoryOK, ImportOK, UNCHANGED <<db, file, before, imports, gone>>,
         cmd'.op = cmd.op, cmd'.store = cmd.store,
         \/ cmd'.pc \notin {"line"} /\ cmd'.result # "ok"
         \/ cmd'.pc = cmd.pc /\ cmd'.lines = cmd.lines /\ cmd'.result = cmd.result
         \/ cmd.pc = "line" /\ cmd'.pc # "line" /\ cmd'.lines = cmd.lines
  PROVE  ImportOK'
<1>1. PICK s : s = cmd.store /\ cmd'.store = s
  OBVIOUS
<1>2. Latest(s)' = Latest(s)
  BY DEF Latest
<1>3. Live(Latest(cmd.store))' = Live(Latest(s)) /\ Live(Latest(cmd.store)) = Live(Latest(s))
  BY <1>1, <1>2 DEF Live, Latest
<1>4. Live(file)' = Live(file) /\ Live(before.table)' = Live(before.table)
  BY DEF Live
<1> QED BY <1>3, <1>4 DEF ImportOK

LEMMA ImportBegins ==
  ASSUME TypeOK, HistoryOK, NEW s \in Stores, NEW flag \in BOOLEAN, BeginImport(s, flag)
  PROVE  ImportOK'
<1>1. /\ file' = file /\ db' = db /\ before'.file = file /\ before'.table = Latest(s)
      /\ Latest(s)' = Latest(s)
  BY DEF BeginImport, Start, Latest
<1>2. CASE db[s].opens /\ file # NoFile
  <2>1. cmd'.op = "import" /\ cmd'.store = s /\ cmd'.lines = file /\ cmd'.pc = "line" /\ imports' = imports + 1
    BY <1>2 DEF BeginImport, Begin
  <2>2. imports' >= 1 /\ (imports' = 1 => imports = 0)
    BY <2>1 DEF TypeOK
  <2>3. Live(Latest(cmd.store))' = Live(Latest(s)) /\ Live(before.table)' = Live(Latest(s))
    BY <1>1, <2>1 DEF Latest, Live
  <2>4. file \subseteq Known /\ Live(Latest(s)) \subseteq Known /\ Numbered(file)
    <3>1. Latest(s) \subseteq Known
      BY LatestKnown DEF TypeOK
    <3> QED BY <1>2, <3>1 DEF Known, FileLines, Live, HistoryOK, RowsOK
  <2>5. imports = 0 => \A x, y \in Known : x.text = y.text /\ x.text \in Texts => x.id = y.id
    BY DEF HistoryOK, WrittenOnce
  <2>6. Live(file)' \ cmd'.lines = {}
    BY <1>1, <2>1 DEF Live
  <2> QED BY <1>1, <1>2, <2>1, <2>2, <2>3, <2>4, <2>5, <2>6 DEF ImportOK, Numbered
<1>3. CASE ~(db[s].opens /\ file # NoFile)
  <2>1. cmd'.pc = "failing" /\ cmd'.result = "none"
    BY <1>3 DEF BeginImport, Begin
  <2> QED BY <1>1, <2>1 DEF ImportOK
<1> QED BY <1>2, <1>3

LEMMA ImportStores ==
  ASSUME TypeOK, HistoryOK, ImportOK, NEW line \in cmd.lines, ImportLine(line),
         ~HasId(cmd.store, line.id)
  PROVE  ImportOK'
<1>1. PICK s \in Stores : s = cmd.store
  BY DEF TypeOK, CmdOK, ImportLine
<1>2. PICK new : new = [line EXCEPT !.id = ids + 1]
  OBVIOUS
<1>3. /\ new \in Row /\ new.text = line.text /\ new.state = line.state /\ new.id = ids + 1
      /\ NewVersion(s, Latest(s) \cup {new})
      /\ cmd'.pc = "line" /\ cmd'.op = "import" /\ cmd'.store = s
      /\ cmd'.lines = cmd.lines \ {line} /\ cmd'.result = cmd.result
  BY <1>1, <1>2, ImportedRow
<1>4. UNCHANGED <<file, before, gone, imports>> /\ cmd.pc = "line" /\ cmd.op = "import"
  BY DEF ImportLine, TypeOK, CmdOK
<1>5. Latest(s)' = Latest(s) \cup {new}
  <2>1. DbOK /\ Latest(s) \cup {new} \in SUBSET Row
    BY <1>3, LatestIsTable DEF TypeOK
  <2> QED BY <1>3, <2>1, WriteShape
<1>6. Latest(cmd.store)' = Latest(s) \cup {new} /\ Latest(cmd.store) = Latest(s)
  BY <1>1, <1>3, <1>5 DEF Latest
<1> DEFINE now == Live(Latest(cmd.store))
<1>7. /\ now \subseteq now' /\ (new.state = "live" => new \in now')
      /\ \A r \in now' : r \in now \/ (r = new /\ r.state = "live")
  BY <1>6 DEF Live
<1>8. Live(file)' = Live(file) /\ Live(before.table)' = Live(before.table)
  BY <1>4 DEF Live
<1>9. /\ file = before.file /\ file # NoFile /\ imports >= 1 /\ cmd.lines \subseteq file
      /\ \A x \in Live(file) \ cmd.lines : (\E r \in now : r.text = x.text) \/ x.text \in gone
      /\ \A r \in now, x \in file : r.text = x.text => \E q \in Live(file) \cup Live(before.table) : q.text = r.text
      /\ imports = 1 =>
              /\ \A x, other \in cmd.lines : x.text = other.text /\ x.text \in Texts => x = other
              /\ \A x \in cmd.lines, r \in now : r.text = x.text /\ r.text \in Texts => r.id = x.id
  BY <1>4 DEF ImportOK
<1> HIDE DEF now
<1>10. \A x \in Live(file) \ cmd'.lines : (\E r \in now' : r.text = x.text) \/ x.text \in gone
  <2>1. ASSUME NEW x \in Live(file) \ cmd'.lines PROVE (\E r \in now' : r.text = x.text) \/ x.text \in gone
    <3>1. CASE x = line
      <4>1. new.state = "live"
        BY <1>3, <3>1 DEF Live
      <4> QED BY <1>3, <1>7, <3>1, <4>1
    <3>2. CASE x # line
      BY <1>3, <1>7, <1>9, <3>2
    <3> QED BY <3>1, <3>2
  <2> QED BY <2>1
<1>11. \A r \in now', x \in file : r.text = x.text =>
          \E q \in Live(file) \cup Live(before.table) : q.text = r.text
  <2>1. new.state = "live" => line \in Live(file)
    BY <1>3, <1>9 DEF Live
  <2> QED BY <1>3, <1>7, <1>9, <2>1
<1>12. imports = 1 =>
         /\ \A x, other \in cmd'.lines : x.text = other.text /\ x.text \in Texts => x = other
         /\ \A x \in cmd'.lines, r \in now' : r.text = x.text /\ r.text \in Texts => r.id = x.id
  BY <1>3, <1>7, <1>9
<1>13. cmd'.lines \subseteq file
  BY <1>3, <1>9
<1> QED BY <1>3, <1>4, <1>8, <1>9, <1>10, <1>11, <1>12, <1>13 DEF ImportOK, now

LEMMA ImportSkips ==
  ASSUME TypeOK, HistoryOK, ImportOK, NEW line \in cmd.lines, ImportLine(line),
         HasId(cmd.store, line.id)
  PROVE  ImportOK'
<1>1. PICK s \in Stores : s = cmd.store
  BY DEF TypeOK, CmdOK, ImportLine
<1>2. UNCHANGED <<db, file, before, gone, imports>> /\ cmd.pc = "line" /\ cmd.op = "import"
  BY DEF ImportLine, TypeOK, CmdOK
<1>3. CASE cmd' = [cmd EXCEPT !.pc = "failing"]
  <2>1. /\ cmd'.pc = "failing" /\ cmd'.lines = cmd.lines /\ cmd'.result = cmd.result
        /\ cmd'.op = cmd.op /\ cmd'.store = cmd.store
    BY <1>3 DEF TypeOK, CmdOK, CmdType
  <2> QED BY <1>2, <2>1, ImportRests
<1>4. CASE cmd' = [cmd EXCEPT !.lines = @ \ {line}]
  <2>1. /\ cmd'.pc = "line" /\ cmd'.lines = cmd.lines \ {line} /\ cmd'.result = cmd.result
        /\ cmd'.op = "import" /\ cmd'.store = s
    BY <1>1, <1>2, <1>4 DEF TypeOK, CmdOK, CmdType
  <2>2. PICK r \in Live(Latest(s)) : r.id = line.id
    BY <1>1 DEF HasId
  <2>3. r.text = line.text
    <3>1. r \in Known /\ line \in Known
      BY <2>2, LatestKnown DEF TypeOK, Live, Known
    <3> QED BY <2>2, <3>1 DEF HistoryOK, RowsOK
  <2>4. Live(Latest(cmd.store))' = Live(Latest(s)) /\ Live(Latest(cmd.store)) = Live(Latest(s))
    BY <1>1, <1>2, <2>1 DEF Live, Latest
  <2>5. Live(file)' = Live(file) /\ Live(before.table)' = Live(before.table)
    BY <1>2 DEF Live
  <2>6. cmd.lines \subseteq file
    BY <1>2 DEF ImportOK
  <2> QED BY <1>2, <2>1, <2>2, <2>3, <2>4, <2>5, <2>6 DEF ImportOK
<1> QED BY <1>3, <1>4 DEF ImportLine

LEMMA ImportMeanwhile ==
  ASSUME TypeOK, HistoryOK, ImportOK, NEW s \in Stores, NEW table \in SUBSET Row,
         AgentWrites(s, table), gone \subseteq gone',
         \A r \in Live(Latest(s)) : r \in table \/ r.text \in gone',
         \A r \in Live(table) : r \in Live(Latest(s)) \/ (r.text \notin written /\ r.text \in Texts)
  PROVE  ImportOK'
<1> SUFFICES ASSUME cmd.op = "import" PROVE ImportOK'
  BY DEF ImportOK, AgentWrites
<1>1. PICK c \in Stores : c = cmd.store
  BY DEF TypeOK, CmdOK
<1>2. UNCHANGED <<cmd, file, before, imports>> /\ NewVersion(s, table)
  BY DEF AgentWrites
<1>3. Latest(s)' = table /\ \A t \in Stores \ {s} : Latest(t)' = Latest(t)
  BY <1>2, WriteShape DEF TypeOK, Latest
<1>4. Latest(cmd.store)' = Latest(c)' /\ Latest(cmd.store) = Latest(c)
  BY <1>1, <1>2 DEF Latest
<1> DEFINE now == Live(Latest(cmd.store))
<1>5. \A r \in now : r \in now' \/ r.text \in gone'
  BY <1>1, <1>3, <1>4 DEF Live
<1>6. \A r \in now' : r \in now \/ (r.text \notin written /\ r.text \in Texts)
  BY <1>1, <1>3, <1>4 DEF Live
<1>7. Live(file)' = Live(file) /\ Live(before.table)' = Live(before.table)
  BY <1>2 DEF Live
<1>8. file # NoFile => \A x \in file : x.text \in Texts => x.text \in written
  BY DEF HistoryOK, RowsOK, Known, FileLines
<1>9. \A x \in cmd.lines : x.text \in Texts => x.text \in written
  BY DEF HistoryOK, RowsOK, Known
<1>10. /\ file = before.file
       /\ (cmd.pc = "line" \/ cmd.result = "ok") =>
          /\ file # NoFile /\ imports >= 1 /\ cmd.lines \subseteq file
          /\ \A x \in Live(file) \ cmd.lines : (\E r \in now : r.text = x.text) \/ x.text \in gone
          /\ \A r \in now, x \in file : r.text = x.text =>
                \E q \in Live(file) \cup Live(before.table) : q.text = r.text
       /\ cmd.pc = "line" /\ imports = 1 =>
              /\ \A x, other \in cmd.lines : x.text = other.text /\ x.text \in Texts => x = other
              /\ \A x \in cmd.lines, r \in now : r.text = x.text /\ r.text \in Texts => r.id = x.id
  BY DEF ImportOK
<1> HIDE DEF now
<1>11. ASSUME cmd.pc = "line" \/ cmd.result = "ok"
       PROVE  /\ \A x \in Live(file) \ cmd.lines : (\E r \in now' : r.text = x.text) \/ x.text \in gone'
              /\ \A r \in now', x \in file : r.text = x.text =>
                    \E q \in Live(file) \cup Live(before.table) : q.text = r.text
  <2>1. ASSUME NEW x \in Live(file) \ cmd.lines
        PROVE  (\E r \in now' : r.text = x.text) \/ x.text \in gone'
    BY <1>5, <1>10, <1>11
  <2>2. ASSUME NEW r \in now', NEW x \in file, r.text = x.text
        PROVE  \E q \in Live(file) \cup Live(before.table) : q.text = r.text
    <3>1. r \in now
      BY <1>6, <1>8, <1>10, <1>11, <2>2
    <3> QED BY <1>10, <1>11, <2>2, <3>1
  <2> QED BY <2>1, <2>2
<1>12. ASSUME cmd.pc = "line", imports = 1, NEW x \in cmd.lines, NEW r \in now',
              r.text = x.text, r.text \in Texts
       PROVE  r.id = x.id
  BY <1>6, <1>9, <1>10, <1>12
<1> QED BY <1>2, <1>7, <1>10, <1>11, <1>12 DEF ImportOK, now

LEMMA ImportStep == TypeOK /\ TypeOK' /\ HistoryOK /\ ImportOK /\ [Next]_vars => ImportOK'
<1> SUFFICES ASSUME TypeOK, TypeOK', HistoryOK, ImportOK, [Next]_vars PROVE ImportOK'
  OBVIOUS
<1>t. DbOK /\ CmdOK /\ CmdOK' /\ setting \in Setting
  BY DEF TypeOK
<1>s. setting.stores \subseteq Stores
  BY <1>t DEF Setting
<1>o. cmd'.op # "import" => ImportOK'
  BY DEF ImportOK
<1>1. ASSUME NEW s \in Stores, NEW flag \in BOOLEAN, NEW op \in Exports, BeginExport(op, s, flag)
      PROVE  ImportOK'
  BY <1>1, <1>o DEF BeginExport, Begin, Exports
<1>2. ASSUME NEW s \in Stores, NEW op \in {"init", "reset"}, BeginInit(op, s) PROVE ImportOK'
  BY <1>2, <1>o DEF BeginInit, Begin
<1>3. Scan \/ ScanFails \/ OpenFile \/ WriteLine \/ Unlink \/ Wiped \/ Initialise \/ Look \/ Seed
        => ImportOK'
  <2>1. ASSUME Scan \/ ScanFails \/ OpenFile \/ WriteLine PROVE cmd'.op = cmd.op /\ cmd.op \in Exports
    BY <2>1, <1>t DEF Scan, ScanFails, Scanned, OpenFile, WriteLine, CmdOK, CmdType
  <2>2. ASSUME Unlink \/ Wiped \/ Initialise \/ Look \/ Seed
        PROVE  cmd'.op = cmd.op /\ cmd.op \in {"init", "reset"}
    BY <2>2, <1>t DEF Unlink, Wiped, Initialise, Look, Seed, CmdOK, CmdType
  <2> QED BY <1>o, <2>1, <2>2 DEF Exports
<1>e. ASSUME Running, NEW result \in {"failed", "ok", "died"}, End(result), result # "ok",
             UNCHANGED <<setting, db, lost, ids, file, written, bounds, history>>
      PROVE  ImportOK'
  <2>1. /\ cmd'.pc = "idle" /\ cmd'.result = result
        /\ cmd'.op = cmd.op /\ cmd'.store = cmd.store
    BY <1>e, <1>t, EndType
  <2> QED BY <1>e, <2>1, ImportRests DEF history
<1>4. Failed \/ Die => ImportOK'
  BY <1>e DEF Failed, Die, Running
<1>5. EndExport \/ EndInit => ImportOK'
  <2>1. ASSUME EndExport \/ EndInit PROVE cmd'.op = cmd.op /\ cmd.op # "import"
    BY <2>1, <1>t DEF EndExport, EndInit, End, CmdOK, CmdType, Exports
  <2> QED BY <1>o, <2>1
<1>6. CASE EndImport
  <2>1. /\ cmd'.pc = "idle" /\ cmd'.lines = cmd.lines /\ cmd'.op = cmd.op /\ cmd'.store = cmd.store
        /\ cmd.pc = "line"
    BY <1>6, <1>t, EndType DEF EndImport, Running
  <2> QED BY <1>6, <2>1, ImportRests DEF EndImport, history
<1>7. ASSUME NEW s \in Stores, NEW t \in Texts, Remember(s, t) PROVE ImportOK'
  <2>1. PICK new : new = [id |-> ids + 1, text |-> t, state |-> "live"]
    OBVIOUS
  <2>2. new \in Row /\ new.text = t
    BY <1>7, <2>1, TransferAssumption DEF Remember, TypeOK, Row
  <2>3. AgentWrites(s, Latest(s) \cup {new}) /\ gone' = gone /\ t \notin written
    BY <1>7, <2>1 DEF Remember
  <2>4. Latest(s) \cup {new} \in SUBSET Row
    BY <1>t, <2>2, LatestIsTable
  <2>5. \A r \in Live(Latest(s)) : r \in Latest(s) \cup {new}
    BY DEF Live
  <2>6. \A r \in Live(Latest(s) \cup {new}) :
          r \in Live(Latest(s)) \/ (r.text \notin written /\ r.text \in Texts)
    BY <2>2, <2>3 DEF Live
  <2> QED BY <2>3, <2>4, <2>5, <2>6, ImportMeanwhile
<1>8. ASSUME NEW s \in Stores, NEW r \in Latest(s), NEW archived \in BOOLEAN, Retire(s, r, archived)
      PROVE  ImportOK'
  <2>1. PICK old \in SUBSET {[r EXCEPT !.state = "archived"]} :
            old = IF archived THEN {[r EXCEPT !.state = "archived"]} ELSE {}
    OBVIOUS
  <2>2. r \in Row /\ \A o \in old : o \in Row /\ o.state = "archived"
    BY <1>t, LatestIsTable DEF Row
  <2> DEFINE table == (Latest(s) \ {r}) \cup old
  <2>3. AgentWrites(s, table) /\ gone' = gone \cup {r.text}
    BY <1>8, <2>1 DEF Retire
  <2>4. table \in SUBSET Row
    BY <1>t, <2>2, LatestIsTable
  <2>5. \A q \in Live(Latest(s)) : q \in table \/ q.text \in gone'
    BY <2>3 DEF Live
  <2>6. \A q \in Live(table) : q \in Live(Latest(s))
    BY <2>2 DEF Live
  <2> HIDE DEF table
  <2> QED BY <2>3, <2>4, <2>5, <2>6, ImportMeanwhile
<1>9. ASSUME NEW s \in Stores, Damage(s) PROVE ImportOK'
  <2>1. UNCHANGED <<file, cmd, before, imports, gone>>
    BY <1>9 DEF Damage, history
  <2>2. \A t \in Stores : db'[t].versions = db[t].versions
    <3>1. db' = db \/ db' = [db EXCEPT ![s].opens = FALSE]
      BY <1>9 DEF Damage
    <3> QED BY <1>t, <3>1 DEF DbOK, DbType
  <2>3. \A t \in Stores : Latest(t)' = Latest(t)
    BY <2>2 DEF Latest
  <2>4. ASSUME cmd.op = "import" PROVE ImportOK'
    <3>1. PICK c \in Stores : c = cmd.store
      BY <2>4, <1>t DEF CmdOK
    <3>2. Live(Latest(cmd.store))' = Live(Latest(c)) /\ Live(Latest(cmd.store)) = Live(Latest(c))
      BY <2>1, <2>3, <3>1 DEF Live, Latest
    <3>3. Live(file)' = Live(file) /\ Live(before.table)' = Live(before.table)
      BY <2>1 DEF Live
    <3> QED BY <2>1, <3>2, <3>3 DEF ImportOK
  <2> QED BY <1>o, <2>1, <2>4
<1>10. CASE UNCHANGED vars
  BY <1>10, ImportRests DEF vars
<1> QED
  BY <1>s, <1>1, <1>2, <1>3, <1>4, <1>5, <1>6, <1>7, <1>8, <1>9, <1>10,
     ImportBegins, ImportStores, ImportSkips DEF Next, Exports

-----------------------------------------------------------------------------
(* Where an export stands: until it opens the file that is as before; what  *)
(* it is about to write, or has written, is what a scan of one table there  *)
(* was meanwhile returned, or in a salvage rows of one version.  A table    *)
(* that read when a salvage began still does when it is scanned.            *)
Sound == cmd.op = "export" \/ (before.reads /\ ~stumbled)
Cuts == UNION {AtMost(table, setting.limit) : table \in seen}
Kept == before.kept \cup seen

ExportOK ==
    cmd.op \in Exports =>
        /\ Running => Latest(cmd.store) \in seen
        /\ cmd.pc \in {"scan", "open", "failing"} \/ (cmd.pc = "idle" /\ cmd.result = "failed")
              => file = before.file
        /\ cmd.pc = "scan" => Versions(cmd.store) \subseteq Kept
        /\ cmd.op = "salvage" /\ cmd.pc = "scan" /\ before.reads => Reads(Latest(cmd.store))
        /\ Sound =>
              /\ cmd.pc = "open" => cmd.lines \in Cuts
              /\ cmd.pc = "write" => \E rows \in Cuts : file \cup cmd.lines = Included(rows)
              /\ cmd.pc = "idle" /\ cmd.result = "ok" => \E rows \in Cuts : file = Included(rows)
        /\ cmd.pc = "open" => \E table \in Kept : cmd.lines \subseteq table
        /\ cmd.pc = "write" => \E table \in Kept : file \cup cmd.lines \subseteq Included(table)
        /\ cmd.pc = "idle" /\ cmd.result = "ok" => \E table \in Kept : file \subseteq Included(table)

LEMMA ExportBegins ==
  ASSUME TypeOK, NEW s \in Stores, NEW flag \in BOOLEAN, NEW op \in Exports, BeginExport(op, s, flag)
  PROVE  ExportOK'
<1>1. /\ cmd'.op = op /\ cmd'.store = s /\ cmd'.pc \in {"scan", "failing"} /\ cmd'.result = "none"
      /\ file' = file /\ db' = db /\ lost' = lost /\ seen' = {Latest(s)}
      /\ before'.file = file /\ before'.reads = Reads(Latest(s)) /\ before'.kept = Versions(s)
  BY DEF BeginExport, Start, Begin
<1>2. /\ Latest(cmd.store)' = Latest(s) /\ Reads(Latest(cmd.store))' = Reads(Latest(s))
      /\ Versions(cmd.store)' = Versions(s)
  BY <1>1 DEF Latest, Reads, Versions
<1>3. Versions(s) \subseteq Kept'
  BY <1>1 DEF Kept
<1> QED BY <1>1, <1>2, <1>3 DEF ExportOK

LEMMA ExportScans ==
  ASSUME TypeOK, ExportOK, Scan \/ ScanFails
  PROVE  ExportOK'
<1>1. CmdOK /\ DbOK /\ cmd.store \in Stores /\ cmd.op \in Exports /\ Running
  BY ScannedRows DEF TypeOK
<1>2. PICK s \in Stores : s = cmd.store
  BY <1>1
<1>3. /\ UNCHANGED <<setting, db, lost, file, before, seen>> /\ cmd.pc = "scan"
      /\ (Scan => stumbled' = stumbled) /\ (ScanFails => stumbled' = TRUE)
  BY DEF Scan, ScanFails, history
<1>4. /\ Latest(s) \in seen /\ file = before.file
      /\ Versions(s) \subseteq Kept
      /\ cmd.op = "salvage" /\ before.reads => Reads(Latest(s))
  BY <1>1, <1>2, <1>3 DEF ExportOK
<1>5. Kept' = Kept /\ Cuts' = Cuts
  BY <1>3 DEF Kept, Cuts, AtMost
<1>6. CASE cmd' = [cmd EXCEPT !.pc = "failing"]
  <2>1. cmd'.pc = "failing" /\ cmd'.op = cmd.op /\ cmd'.store = s
    BY <1>1, <1>2, <1>6 DEF CmdOK, CmdType
  <2>2. Latest(cmd.store)' = Latest(s)
    BY <1>3, <2>1 DEF Latest
  <2> QED BY <1>1, <1>3, <1>4, <2>1, <2>2 DEF ExportOK
<1>7. ASSUME NEW lines \in SUBSET Row, cmd' = [cmd EXCEPT !.pc = "open", !.lines = lines],
             NEW table \in Versions(s), lines \subseteq table,
             \/ Scan /\ (cmd.op = "export" \/ Reads(Latest(s)))
                     /\ lines \in AtMost(Latest(s), setting.limit)
             \/ cmd.op = "salvage" /\ ~(Scan /\ Reads(Latest(s)))
      PROVE  ExportOK'
  <2>1. cmd'.pc = "open" /\ cmd'.op = cmd.op /\ cmd'.store = s /\ cmd'.lines = lines
    BY <1>1, <1>2, <1>7 DEF CmdOK, CmdType
  <2>2. Latest(cmd.store)' = Latest(s)
    BY <1>3, <2>1 DEF Latest
  <2>3. Sound' => lines \in Cuts
    <3>1. CASE lines \in AtMost(Latest(s), setting.limit)
      BY <1>4, <3>1 DEF Cuts
    <3>2. CASE cmd.op = "salvage" /\ ~(Scan /\ Reads(Latest(s)))
      BY <1>3, <1>4, <2>1, <3>2 DEF Sound
    <3> QED BY <1>7, <3>1, <3>2
  <2>4. table \in Kept
    BY <1>4, <1>7
  <2> QED BY <1>1, <1>3, <1>4, <1>5, <1>7, <2>1, <2>2, <2>3, <2>4 DEF ExportOK
<1> QED BY <1>1, <1>2, <1>6, <1>7, ScannedRows DEF TypeOK

LEMMA ExportWrites ==
  ASSUME TypeOK, ExportOK, OpenFile \/ WriteLine
  PROVE  ExportOK'
<1>1. PICK s \in Stores : s = cmd.store
  BY DEF OpenFile, WriteLine, TypeOK, CmdOK
<1>2. UNCHANGED <<setting, db, before, seen, stumbled>> /\ cmd.pc \in {"open", "write"} /\ Running
  BY DEF OpenFile, WriteLine, history, Running
<1>3. cmd.op \in Exports /\ CmdOK
  BY <1>2 DEF TypeOK, CmdOK
<1>4. /\ Latest(s) \in seen
      /\ Sound => /\ cmd.pc = "open" => cmd.lines \in Cuts
                  /\ cmd.pc = "write" => \E rows \in Cuts : file \cup cmd.lines = Included(rows)
      /\ cmd.pc = "open" => \E table \in Kept : cmd.lines \subseteq table
      /\ cmd.pc = "write" => \E table \in Kept : file \cup cmd.lines \subseteq Included(table)
  BY <1>1, <1>2, <1>3 DEF ExportOK
<1>5. /\ cmd'.pc = "write" /\ cmd'.op = cmd.op /\ cmd'.store = s /\ cmd'.flag = cmd.flag
  <2>1. CASE OpenFile
    BY <1>1, <1>3, <2>1 DEF OpenFile, CmdOK, CmdType
  <2>2. CASE WriteLine
    BY <1>1, <1>3, <2>2 DEF WriteLine, CmdOK, CmdType
  <2> QED BY <2>1, <2>2
<1>6. Latest(cmd.store)' = Latest(s) /\ (Sound' => Sound) /\ Cuts' = Cuts /\ Kept' = Kept
  BY <1>2, <1>5 DEF Latest, Sound, Cuts, Kept, AtMost
<1>7. \A table : Included(table)' = Included(table)
  BY <1>5 DEF Included, Live
<1>8. /\ Sound => \E rows \in Cuts : file' \cup cmd'.lines = Included(rows)
      /\ \E table \in Kept : file' \cup cmd'.lines \subseteq Included(table)
  <2>1. CASE OpenFile
    <3>1. cmd'.lines = Included(cmd.lines) /\ file' = {} /\ cmd.pc = "open"
      BY <1>3, <2>1 DEF OpenFile, CmdOK, CmdType
    <3>2. \A table : cmd.lines \subseteq table => Included(cmd.lines) \subseteq Included(table)
      BY DEF Included, Live
    <3> QED BY <1>4, <3>1, <3>2
  <2>2. CASE WriteLine
    <3>1. file' \cup cmd'.lines = file \cup cmd.lines
      BY <1>3, <2>2 DEF WriteLine, CmdOK, CmdType
    <3> QED BY <1>4, <2>2, <3>1 DEF WriteLine
  <2> QED BY <2>1, <2>2
<1>9. /\ Sound' => \E rows \in Cuts' : file' \cup cmd'.lines = Included(rows)'
      /\ \E table \in Kept' : file' \cup cmd'.lines \subseteq Included(table)'
  BY <1>6, <1>7, <1>8
<1> QED BY <1>2, <1>3, <1>4, <1>5, <1>6, <1>9 DEF ExportOK

LEMMA ExportMeanwhile ==
  ASSUME TypeOK, ExportOK, NEW s \in Stores, NEW table \in SUBSET Row, AgentWrites(s, table),
         Reads(Latest(s)) => Reads(table)
  PROVE  ExportOK'
<1> SUFFICES ASSUME cmd.op \in Exports PROVE ExportOK'
  BY DEF ExportOK, AgentWrites
<1>1. PICK c \in Stores : c = cmd.store
  BY DEF TypeOK, CmdOK, Exports
<1>2. UNCHANGED <<setting, cmd, file, before, stumbled, lost>> /\ NewVersion(s, table)
  BY DEF AgentWrites
<1>3. /\ Latest(s)' = table /\ \A t \in Stores \ {s} : Latest(t)' = Latest(t)
      /\ Versions(s)' \subseteq Versions(s) \cup {table}
      /\ \A t \in Stores \ {s} : Versions(t)' = Versions(t)
  <2>1. /\ Latest(s)' = table /\ \A t \in Stores \ {s} : db'[t] = db[t]
        /\ \A other \in Versions(s)' : other \in Versions(s) \/ other = table
    BY <1>2, WriteShape DEF TypeOK
  <2>2. \A t \in Stores \ {s} : Latest(t)' = Latest(t) /\ Versions(t)' = Versions(t)
    BY <2>1 DEF Latest, Versions
  <2> QED BY <2>1, <2>2
<1>4. /\ Latest(cmd.store)' = Latest(c)' /\ Latest(cmd.store) = Latest(c)
      /\ Versions(cmd.store)' = Versions(c)' /\ Versions(cmd.store) = Versions(c)
  BY <1>1, <1>2 DEF Latest, Versions
<1>5. seen \subseteq seen' /\ (Running /\ s = c => table \in seen')
  BY <1>1 DEF AgentWrites
<1>6. Running' = Running /\ Sound' = Sound /\ Cuts \subseteq Cuts' /\ Kept \subseteq Kept'
  BY <1>2, <1>5 DEF Running, Sound, Cuts, Kept, AtMost
<1>7. (Running => Latest(cmd.store) \in seen) => (Running => Latest(cmd.store)' \in seen')
  BY <1>1, <1>3, <1>4, <1>5
<1>8. Reads(Latest(cmd.store)) => Reads(Latest(cmd.store))'
  BY <1>1, <1>2, <1>3, <1>4 DEF Reads
<1>9. \A other : Included(other)' = Included(other)
  BY <1>2 DEF Included, Live
<1>10. Running /\ Versions(cmd.store) \subseteq Kept => Versions(cmd.store)' \subseteq Kept'
  <2>1. Running /\ s = c => table \in Kept'
    BY <1>5 DEF Kept
  <2> QED BY <1>1, <1>3, <1>4, <1>6, <2>1
<1>11. cmd.pc = "scan" => Running
  BY DEF Running
<1>12. /\ (\E rows \in Cuts : file \cup cmd.lines = Included(rows))
              => \E rows \in Cuts' : file' \cup cmd'.lines = Included(rows)'
       /\ (\E rows \in Cuts : file = Included(rows))
              => \E rows \in Cuts' : file' = Included(rows)'
       /\ (\E other \in Kept : cmd.lines \subseteq other)
              => \E other \in Kept' : cmd'.lines \subseteq other
       /\ (\E other \in Kept : file \cup cmd.lines \subseteq Included(other))
              => \E other \in Kept' : file' \cup cmd'.lines \subseteq Included(other)'
       /\ (\E other \in Kept : file \subseteq Included(other))
              => \E other \in Kept' : file' \subseteq Included(other)'
  BY <1>2, <1>6, <1>9
<1>13. cmd.lines \in Cuts => cmd'.lines \in Cuts'
  BY <1>2, <1>6
<1> QED BY <1>2, <1>6, <1>7, <1>8, <1>10, <1>11, <1>12, <1>13 DEF ExportOK

LEMMA ExportRests ==
  ASSUME TypeOK, ExportOK, UNCHANGED <<setting, db, file, before, stumbled, seen>>,
         cmd.op \in Exports,
         cmd'.op = cmd.op, cmd'.store = cmd.store, cmd'.flag = cmd.flag, Running,
         \/ cmd'.pc = "idle" /\ cmd'.result = "failed" /\ cmd.pc = "failing"
         \/ cmd'.pc = "idle" /\ cmd'.result = "died"
         \/ cmd'.pc = "idle" /\ cmd'.result = "ok" /\ cmd.pc = "write" /\ cmd.lines = {}
  PROVE  ExportOK'
<1>1. Latest(cmd.store)' = Latest(cmd.store) /\ Sound' = Sound /\ Cuts' = Cuts /\ Kept' = Kept
  BY DEF Latest, Sound, Cuts, Kept, AtMost
<1>2. \A other : Included(other)' = Included(other)
  BY DEF Included, Live
<1>3. cmd.lines = {} => file \cup cmd.lines = file
  OBVIOUS
<1> QED BY <1>1, <1>2, <1>3 DEF ExportOK, Running

(* What the agent writes can be read if the table it writes to could be.    *)
LEMMA RememberReads ==
  ASSUME TypeOK, HistoryOK, NEW s \in Stores, NEW new, new.id = ids + 1, Reads(Latest(s))
  PROVE  Reads(Latest(s) \cup {new})
<1>1. \A r \in lost : r.id <= ids /\ r.id \in Nat
  BY TransferAssumption DEF HistoryOK, RowsOK, Known, DbRows, TypeOK, Row
<1>2. ids \in Nat
  BY TransferAssumption DEF TypeOK
<1> QED BY <1>1, <1>2 DEF Reads

LEMMA RetireReads ==
  ASSUME TypeOK, HistoryOK, NEW s \in Stores, NEW r \in Live(Latest(s)),
         NEW old \in SUBSET {[r EXCEPT !.state = "archived"]}, Reads(Latest(s))
  PROVE  Reads((Latest(s) \ {r}) \cup old)
<1>1. r \in Row /\ r.state = "live"
  BY LatestIsTable DEF TypeOK, Live
<1>2. ASSUME NEW o \in old PROVE o \notin lost
  <2>1. o.id = r.id /\ o # r
    BY <1>1, <1>2 DEF Row
  <2>2. o \in lost => o \in DbRows
    BY DEF TypeOK, DbRows
  <2> QED BY <2>1, <2>2 DEF HistoryOK, OwnRows
<1> QED BY <1>2 DEF Reads

LEMMA ExportStep == TypeOK /\ TypeOK' /\ HistoryOK /\ ExportOK /\ [Next]_vars => ExportOK'
<1> SUFFICES ASSUME TypeOK, TypeOK', HistoryOK, ExportOK, [Next]_vars PROVE ExportOK'
  OBVIOUS
<1>t. DbOK /\ CmdOK /\ CmdOK' /\ setting \in Setting
  BY DEF TypeOK
<1>s. setting.stores \subseteq Stores
  BY <1>t DEF Setting
<1>o. cmd'.op \notin Exports => ExportOK'
  BY DEF ExportOK
<1>1. ASSUME NEW s \in Stores, NEW flag \in BOOLEAN, BeginImport(s, flag) PROVE ExportOK'
  <2>1. cmd'.op = "import"
    BY <1>1 DEF BeginImport, Begin
  <2> QED BY <1>o, <2>1 DEF Exports
<1>2. ASSUME NEW s \in Stores, NEW op \in {"init", "reset"}, BeginInit(op, s) PROVE ExportOK'
  <2>1. cmd'.op = op
    BY <1>2 DEF BeginInit, Begin
  <2> QED BY <1>o, <2>1 DEF Exports
<1>3. Unlink \/ Wiped \/ Initialise \/ Look \/ Seed => ExportOK'
  <2>1. ASSUME Unlink \/ Wiped \/ Initialise \/ Look \/ Seed
        PROVE  cmd'.op = cmd.op /\ cmd.op \in {"init", "reset"}
    BY <2>1, <1>t DEF Unlink, Wiped, Initialise, Look, Seed, CmdOK, CmdType
  <2> QED BY <1>o, <2>1 DEF Exports
<1>4. ASSUME NEW line \in cmd.lines, ImportLine(line) PROVE ExportOK'
  <2>1. cmd'.op = "import"
    BY <1>4, <1>t DEF ImportLine, CmdOK, CmdType
  <2> QED BY <1>o, <2>1 DEF Exports
<1>e. ASSUME Running, NEW result \in {"failed", "ok", "died"}, End(result),
             \/ result = "failed" /\ cmd.pc = "failing"
             \/ result = "died"
             \/ result = "ok" /\ (cmd.op \in Exports => cmd.pc = "write" /\ cmd.lines = {}),
             UNCHANGED <<setting, db, lost, ids, file, written, bounds, history>>
      PROVE  ExportOK'
  <2>1. /\ cmd'.pc = "idle" /\ cmd'.result = result
        /\ cmd'.op = cmd.op /\ cmd'.store = cmd.store /\ cmd'.flag = cmd.flag
    BY <1>e, <1>t, EndType
  <2>2. UNCHANGED <<setting, db, file, before, stumbled, seen>>
    BY <1>e DEF history
  <2>3. CASE cmd.op \in Exports
    BY <1>e, <2>1, <2>2, <2>3, ExportRests
  <2> QED BY <1>o, <2>1, <2>3
<1>6. Failed \/ Die => ExportOK'
  BY <1>e DEF Failed, Die, Running
<1>7. EndExport => ExportOK'
  BY <1>e DEF EndExport, Running
<1>8. EndImport \/ EndInit => ExportOK'
  <2>1. ASSUME EndImport \/ EndInit PROVE cmd.op \notin Exports /\ Running
    BY <2>1, <1>t DEF EndImport, EndInit, CmdOK, Exports, Running
  <2> QED BY <1>e, <2>1 DEF EndImport, EndInit
<1>9. ASSUME NEW s \in Stores, NEW t \in Texts, Remember(s, t) PROVE ExportOK'
  <2>1. PICK new : new = [id |-> ids + 1, text |-> t, state |-> "live"]
    OBVIOUS
  <2>2. new \in Row /\ new.id = ids + 1
    BY <1>9, <2>1, TransferAssumption DEF Remember, TypeOK, Row
  <2>3. AgentWrites(s, Latest(s) \cup {new})
    BY <1>9, <2>1 DEF Remember
  <2>4. Latest(s) \cup {new} \in SUBSET Row
    BY <1>t, <2>2, LatestIsTable
  <2>5. Reads(Latest(s)) => Reads(Latest(s) \cup {new})
    BY <2>2, RememberReads
  <2> QED BY <2>3, <2>4, <2>5, ExportMeanwhile
<1>10. ASSUME NEW s \in Stores, NEW r \in Latest(s), NEW archived \in BOOLEAN, Retire(s, r, archived)
       PROVE  ExportOK'
  <2>1. PICK old \in SUBSET {[r EXCEPT !.state = "archived"]} :
            old = IF archived THEN {[r EXCEPT !.state = "archived"]} ELSE {}
    OBVIOUS
  <2>2. \A o \in old : o \in Row
    BY <1>t, LatestIsTable DEF Row
  <2> DEFINE table == (Latest(s) \ {r}) \cup old
  <2>3. AgentWrites(s, table) /\ r \in Live(Latest(s))
    BY <1>10, <2>1 DEF Retire
  <2>4. table \in SUBSET Row
    BY <1>t, <2>2, LatestIsTable
  <2>5. Reads(Latest(s)) => Reads(table)
    BY <2>3, RetireReads
  <2> HIDE DEF table
  <2> QED BY <2>3, <2>4, <2>5, ExportMeanwhile
<1>11. ASSUME NEW s \in Stores, Damage(s) PROVE ExportOK'
  <2>1. UNCHANGED <<setting, file, cmd, before, stumbled, seen>> /\ cmd.pc = "idle"
    BY <1>11 DEF Damage, history, Running
  <2>2. /\ Sound' = Sound /\ Cuts' = Cuts /\ Kept' = Kept
        /\ \A other : Included(other)' = Included(other)
    BY <2>1 DEF Included, Live, Sound, Cuts, Kept, AtMost
  <2> QED BY <2>1, <2>2 DEF ExportOK, Running
<1>12. CASE UNCHANGED vars
  <2>1. UNCHANGED <<setting, db, lost, file, cmd, before, stumbled, seen>>
    BY <1>12 DEF vars
  <2>2. /\ Sound' = Sound /\ Cuts' = Cuts /\ Kept' = Kept
        /\ Latest(cmd.store)' = Latest(cmd.store) /\ Versions(cmd.store)' = Versions(cmd.store)
        /\ Reads(Latest(cmd.store))' = Reads(Latest(cmd.store))
    BY <2>1 DEF Latest, Versions, Sound, Cuts, Kept, AtMost, Reads
  <2>3. \A other : Included(other)' = Included(other)
    BY <2>1 DEF Included, Live
  <2> QED BY <2>1, <2>2, <2>3 DEF ExportOK, Running
<1>13. ASSUME NEW s \in Stores, NEW flag \in BOOLEAN, NEW op \in Exports, BeginExport(op, s, flag) PROVE ExportOK'
  BY <1>13, ExportBegins
<1> QED
  BY <1>s, <1>1, <1>2, <1>3, <1>4, <1>6, <1>7, <1>8, <1>9, <1>10, <1>11, <1>12, <1>13,
     ExportScans, ExportWrites DEF Next, Exports

-----------------------------------------------------------------------------
(* Where an init stands: it has found a table it can open, so it does not   *)
(* wipe; until it seeds the table is as it was, and it seeds only if every  *)
(* row it fetched is archived, which some are not if it fetched more rows   *)
(* than there are archived ones.                                            *)
Shows(table) == Live(table) # {} /\ Cardinality(table \ Live(table)) < InitFetch

InitOK ==
    (Running /\ cmd.op = "init" /\ before.opens) =>
        /\ cmd.pc \in {"initialise", "look", "seed", "done", "failing"}
        /\ db[cmd.store].opens
        /\ before.table \subseteq Latest(cmd.store)
        /\ cmd.pc \in {"initialise", "look", "seed"} => Latest(cmd.store) = before.table
        /\ Shows(before.table) => /\ cmd.pc # "seed"
                                  /\ Latest(cmd.store) = before.table

(* The ids of its rows tell that a table is finite.                         *)
LEMMA TableFinite ==
  ASSUME NEW table \in SUBSET Row, Numbered(table)
  PROVE  IsFiniteSet(table)
<1> DEFINE id == [r \in table |-> r.id]
<1>1. id \in Injection(table, 1 .. MaxRows)
  <2>1. id \in [table -> 1 .. MaxRows]
    BY DEF Row
  <2>2. \A r, q \in table : id[r] = id[q] => r = q
    BY DEF Numbered
  <2> QED BY <2>1, <2>2 DEF Injection, IsInjective
<1> HIDE DEF id
<1>2. IsFiniteSet(1 .. MaxRows)
  BY TransferAssumption, FS_Interval
<1> QED BY <1>1, <1>2, FS_Injection

LEMMA FetchShows ==
  ASSUME NEW table, IsFiniteSet(table), Shows(table), NEW rows \in AtMost(table, InitFetch)
  PROVE  Live(rows) # {}
<1>1. rows \subseteq table /\ Live(table) # {}
  BY DEF AtMost, Shows
<1>2. CASE Cardinality(rows) = InitFetch
  <2> DEFINE rest == table \ Live(table)
  <2>1. IsFiniteSet(rest)
    <3>1. rest \subseteq table
      OBVIOUS
    <3> QED BY <3>1, FS_Subset
  <2>2. Cardinality(rest) < InitFetch
    BY DEF Shows
  <2>3. rows \subseteq rest => Cardinality(rows) <= Cardinality(rest)
    <3> HIDE DEF rest
    <3> QED BY <2>1, FS_Subset
  <2>4. Cardinality(rest) \in Nat
    <3> HIDE DEF rest
    <3> QED BY <2>1, FS_CardinalityType
  <2>5. ~(rows \subseteq rest)
    <3> HIDE DEF rest
    <3> QED BY <1>2, <2>2, <2>3, <2>4, TransferAssumption
  <2> QED BY <1>1, <2>5 DEF Live
<1>3. CASE rows = table
  BY <1>1, <1>3
<1> QED BY <1>2, <1>3 DEF AtMost

LEMMA InitMoves ==
  ASSUME TypeOK, HistoryOK, InitOK, Running, UNCHANGED <<db, before>>,
         cmd'.op = cmd.op, cmd'.store = cmd.store,
         \/ cmd'.pc = "idle"
         \/ cmd'.pc = cmd.pc
         \/ cmd.pc = "initialise" /\ cmd'.pc = IF Usable(cmd.store) THEN "look" ELSE "wipe"
         \/ /\ cmd.pc = "look"
            /\ \E rows \in AtMost(Latest(cmd.store), InitFetch) :
                  cmd'.pc = IF ~Reads(rows) THEN "failing" ELSE IF Live(rows) # {} THEN "done" ELSE "seed"
  PROVE  InitOK'
<1> SUFFICES ASSUME cmd.op = "init", before.opens PROVE InitOK'
  BY DEF InitOK
<1>1. PICK s \in Stores : s = cmd.store
  BY DEF TypeOK, CmdOK
<1>2. Latest(cmd.store)' = Latest(s) /\ Latest(cmd.store) = Latest(s) /\ Shows(before.table)' = Shows(before.table)
  BY <1>1 DEF Latest, Live, Shows
<1>3. db[s].opens /\ before.table \subseteq Latest(s)
  BY <1>1, <1>2 DEF InitOK
<1>4. CASE cmd'.pc = "idle"
  BY <1>4 DEF InitOK, Running
<1>5. CASE cmd'.pc = cmd.pc
  BY <1>1, <1>2, <1>5 DEF InitOK
<1>6. CASE cmd.pc = "initialise" /\ cmd'.pc = IF Usable(cmd.store) THEN "look" ELSE "wipe"
  <2>1. cmd'.pc = "look"
    BY <1>1, <1>3, <1>6 DEF Usable
  <2> QED BY <1>1, <1>2, <1>6, <2>1 DEF InitOK
<1>7. CASE /\ cmd.pc = "look"
           /\ \E rows \in AtMost(Latest(cmd.store), InitFetch) :
                 cmd'.pc = IF ~Reads(rows) THEN "failing" ELSE IF Live(rows) # {} THEN "done" ELSE "seed"
  <2>1. PICK rows \in AtMost(Latest(s), InitFetch) :
              cmd'.pc = IF ~Reads(rows) THEN "failing" ELSE IF Live(rows) # {} THEN "done" ELSE "seed"
    BY <1>1, <1>7
  <2>2. Latest(s) = before.table
    BY <1>2, <1>7 DEF InitOK
  <2>3. cmd'.pc \in {"failing", "done", "seed"} /\ (cmd'.pc = "seed" => Live(rows) = {})
    BY <2>1
  <2>4. Shows(before.table) => cmd'.pc # "seed"
    <3>1. Latest(s) \in SUBSET Row /\ Numbered(Latest(s))
      BY LatestIsTable DEF TypeOK, HistoryOK, RowsOK
    <3> QED BY <2>1, <2>2, <2>3, <3>1, TableFinite, FetchShows
  <2> QED BY <1>1, <1>2, <1>3, <2>2, <2>3, <2>4 DEF InitOK
<1> QED BY <1>4, <1>5, <1>6, <1>7

LEMMA InitSeeds ==
  ASSUME TypeOK, InitOK, Seed
  PROVE  InitOK'
<1>1. PICK s \in Stores : s = cmd.store
  BY DEF Seed, TypeOK, CmdOK
<1>2. cmd.pc = "seed" /\ before' = before /\ Running
  BY DEF Seed, Running
<1>3. cmd'.op = cmd.op /\ cmd'.store = s /\ cmd'.pc = "done"
  BY <1>1 DEF Seed, TypeOK, CmdOK, CmdType
<1> SUFFICES ASSUME cmd.op = "init", before.opens PROVE InitOK'
  BY <1>2, <1>3 DEF InitOK
<1>4. PICK number \in [Seeds -> 1 .. Cardinality(Seeds)] :
         /\ \A t, u \in Seeds : number[t] = number[u] => t = u
         /\ NewVersion(s, Latest(s) \cup
               {[id |-> ids + number[t], text |-> t, state |-> "live"] : t \in Seeds})
  BY <1>1 DEF Seed, StoreMany
<1>5. PICK new : new = {[id |-> ids + number[t], text |-> t, state |-> "live"] : t \in Seeds}
  OBVIOUS
<1>6. ids + Cardinality(Seeds) <= MaxRows /\ ids \in 0 .. MaxRows
  BY DEF Seed, StoreMany, TypeOK
<1>7. new \in SUBSET Row
  BY <1>4, <1>5, <1>6, SeedRows
<1>8. NewVersion(s, Latest(s) \cup new)
  BY <1>4, <1>5
<1>9. Latest(s)' = Latest(s) \cup new /\ db'[s].opens = db[s].opens
  <2>1. DbOK /\ Latest(s) \cup new \in SUBSET Row
    BY <1>7, LatestIsTable DEF TypeOK
  <2> QED BY <1>8, <2>1, WriteShape
<1>10. Latest(cmd.store)' = Latest(s) \cup new /\ Latest(cmd.store) = Latest(s)
  BY <1>1, <1>3, <1>9 DEF Latest
<1>11. Shows(before.table)' = Shows(before.table)
  BY <1>2 DEF Shows, Live
<1> QED BY <1>1, <1>2, <1>3, <1>9, <1>10, <1>11 DEF InitOK

LEMMA InitStep == TypeOK /\ TypeOK' /\ HistoryOK /\ InitOK /\ [Next]_vars => InitOK'
<1> SUFFICES ASSUME TypeOK, TypeOK', HistoryOK, InitOK, [Next]_vars PROVE InitOK'
  OBVIOUS
<1>t. DbOK /\ CmdOK /\ CmdOK' /\ setting \in Setting
  BY DEF TypeOK
<1>s. setting.stores \subseteq Stores
  BY <1>t DEF Setting
<1>o. cmd'.op # "init" => InitOK'
  BY DEF InitOK
<1>1. ASSUME NEW s \in Stores, NEW flag \in BOOLEAN, NEW op \in Exports, BeginExport(op, s, flag)
      PROVE  InitOK'
  BY <1>1, <1>o DEF BeginExport, Begin, Exports
<1>2. ASSUME NEW s \in Stores, NEW flag \in BOOLEAN, BeginImport(s, flag) PROVE InitOK'
  <2>1. cmd'.op = "import"
    BY <1>2 DEF BeginImport, Begin
  <2> QED BY <1>o, <2>1
<1>3. ASSUME NEW s \in Stores, BeginInit("init", s) PROVE InitOK'
  <2>1. /\ cmd'.store = s /\ cmd'.pc = "initialise" /\ db' = db
        /\ before'.table = Latest(s) /\ before'.opens = db[s].opens
    BY <1>3 DEF BeginInit, Begin, Start
  <2>2. Latest(cmd.store)' = Latest(s)
    BY <2>1 DEF Latest
  <2> QED BY <2>1, <2>2 DEF InitOK
<1>4. ASSUME NEW s \in Stores, BeginInit("reset", s) PROVE InitOK'
  BY <1>4, <1>o DEF BeginInit, Begin
<1>5. Scan \/ ScanFails \/ OpenFile \/ WriteLine => InitOK'
  <2>1. ASSUME Scan \/ ScanFails \/ OpenFile \/ WriteLine PROVE cmd'.op = cmd.op /\ cmd.op \in Exports
    BY <2>1, <1>t DEF Scan, ScanFails, Scanned, OpenFile, WriteLine, CmdOK, CmdType
  <2> QED BY <1>o, <2>1 DEF Exports
<1>6. ASSUME NEW line \in cmd.lines, ImportLine(line) PROVE InitOK'
  <2>1. cmd'.op = "import"
    BY <1>6, <1>t DEF ImportLine, CmdOK, CmdType
  <2> QED BY <1>o, <2>1
<1>7. Unlink \/ Wiped => InitOK'
  <2>1. ASSUME Unlink \/ Wiped PROVE cmd'.op = cmd.op /\ before' = before /\ cmd.pc = "wipe"
    BY <2>1, <1>t DEF Unlink, Wiped, CmdOK, CmdType, history
  <2> QED BY <2>1 DEF InitOK, Running
<1>8. CASE Initialise
  <2>1. /\ cmd'.op = cmd.op /\ cmd'.store = cmd.store /\ UNCHANGED <<db, before>> /\ Running
        /\ cmd.pc = "initialise" /\ cmd'.pc = IF Usable(cmd.store) THEN "look" ELSE "wipe"
    BY <1>8, <1>t DEF Initialise, CmdOK, CmdType, history, Running
  <2> QED BY <2>1, InitMoves
<1>9. CASE Look
  <2>1. PICK rows \in AtMost(Latest(cmd.store), InitFetch) :
          cmd' = [cmd EXCEPT !.pc = IF ~Reads(rows) THEN "failing"
                                    ELSE IF Live(rows) # {} THEN "done" ELSE "seed"]
    BY <1>9 DEF Look
  <2>2. /\ cmd'.op = cmd.op /\ cmd'.store = cmd.store
        /\ cmd'.pc = IF ~Reads(rows) THEN "failing" ELSE IF Live(rows) # {} THEN "done" ELSE "seed"
    BY <1>t, <2>1 DEF CmdOK, CmdType
  <2>3. UNCHANGED <<db, before>> /\ Running /\ cmd.pc = "look"
    BY <1>9 DEF Look, history, Running
  <2> QED BY <2>2, <2>3, InitMoves
<1>10. Failed \/ EndExport \/ EndImport \/ EndInit \/ Die => InitOK'
  <2>1. ASSUME Failed \/ EndExport \/ EndImport \/ EndInit \/ Die PROVE cmd'.pc = "idle"
    BY <2>1, <1>t, EndType DEF Failed, EndExport, EndImport, EndInit, Die, Running
  <2> QED BY <2>1 DEF InitOK, Running
<1>11. ASSUME NEW s \in Stores, NEW table, AgentWrites(s, table) PROVE InitOK'
  BY <1>11 DEF AgentWrites, InitOK, Running
<1>12. ASSUME NEW s \in Stores, Damage(s) PROVE InitOK'
  BY <1>12 DEF Damage, InitOK, Running
<1>13. CASE UNCHANGED vars
  <2>1. UNCHANGED <<db, cmd, before>>
    BY <1>13 DEF vars
  <2> QED BY <2>1 DEF InitOK, Running, Latest, Live, Shows
<1>14. ASSUME NEW s \in Stores, NEW t \in Texts, Remember(s, t) PROVE InitOK'
  BY <1>11, <1>14 DEF Remember
<1>15. ASSUME NEW s \in Stores, NEW r \in Latest(s), NEW archived \in BOOLEAN, Retire(s, r, archived)
       PROVE  InitOK'
  BY <1>11, <1>15 DEF Retire
<1> QED
  BY <1>s, <1>1, <1>2, <1>3, <1>4, <1>5, <1>6, <1>7, <1>8, <1>9, <1>10, <1>12, <1>13, <1>14, <1>15,
     InitSeeds DEF Next, Exports

-----------------------------------------------------------------------------
(* The theorems.                                                            *)
Inv == TypeOK /\ HistoryOK /\ ExportOK /\ ImportOK /\ InitOK

LEMMA InvInit == Init => Inv
<1> SUFFICES ASSUME Init PROVE Inv
  OBVIOUS
<1>1. TypeOK
  BY TypeInit
<1>2. \A s \in Stores : Latest(s) = {} /\ \A table \in Versions(s) : table = {}
  <2>1. FreshTable.versions = <<{}>> /\ \A s \in Stores : db[s] = FreshTable
    BY DEF Init, FreshTable
  <2>2. Len(<<{}>>) = 1 /\ DOMAIN <<{}>> = {1} /\ <<{}>>[1] = {}
    OBVIOUS
  <2> QED BY <2>1, <2>2 DEF Latest, Versions
<1>3. FileLines = {} /\ cmd.lines = {} /\ cmd.pc = "idle" /\ cmd.op = "none" /\ lost = {}
  BY DEF Init, Idle, FileLines
<1>4. Known = {} /\ DbRows = {}
  BY <1>2, <1>3 DEF Known, DbRows
<1>5. HistoryOK
  BY <1>2, <1>3, <1>4 DEF HistoryOK, RowsOK, OwnRows, WrittenOnce, Numbered, Live
<1> QED BY <1>1, <1>3, <1>5 DEF Inv, ExportOK, ImportOK, InitOK, Exports, Running

LEMMA InvAlways == Spec => []Inv
<1>1. Inv /\ [Next]_vars => Inv'
  BY TypeStep, HistoryStep, ExportStep, ImportStep, InitStep DEF Inv
<1> QED BY InvInit, <1>1, PTL DEF Spec

(* ExportHonest, whatever the limit and whatever is written, lost or killed *)
(* meanwhile: an export that succeeds holds one table up to the limit and   *)
(* one that fails spares the previous file; a salvage that succeeds holds   *)
(* rows of one version, the newest if that was sound and no read failed     *)
(* (_cli.py, _cmd_export; store.py, salvage_scan).                          *)
THEOREM ExportsAreHonest == Spec => []ExportHonest
<1>1. Inv => ExportHonest
  <2> SUFFICES ASSUME Inv PROVE ExportHonest
    OBVIOUS
  <2>1. ASSUME NEW op \in Exports, Ended(op, "failed") PROVE file = before.file
    BY <2>1 DEF Inv, ExportOK, Ended, Running
  <2>2. ASSUME Ended("export", "ok") \/ (Ended("salvage", "ok") /\ before.reads /\ ~stumbled)
        PROVE  \E table \in seen : \E rows \in AtMost(table, setting.limit) :
                  file = Included(rows)
    <3>1. \E rows \in Cuts : file = Included(rows)
      BY <2>2 DEF Inv, ExportOK, Ended, Running, Exports, Sound
    <3> QED BY <3>1 DEF Cuts
  <2>3. ASSUME Ended("salvage", "ok")
        PROVE  \E table \in before.kept \cup seen : file \subseteq Included(table)
    BY <2>3 DEF Inv, ExportOK, Ended, Running, Exports, Kept
  <2> QED BY <2>1, <2>2, <2>3 DEF ExportHonest, Exports
<1> QED BY InvAlways, <1>1, PTL

(* RestoreExact, for any number of imports, exports and writes in between:  *)
(* a successful import brings back what the file shows and nothing that is  *)
(* archived there, and the first one no memory twice (_cli.py, cmd_import;  *)
(* store.py, has_id and store_raw).                                         *)
THEOREM RestoresAreExact == Spec => []RestoreExact
<1>1. Inv => RestoreExact
  <2> SUFFICES ASSUME Inv PROVE RestoreExact
    OBVIOUS
  <2>1. imports <= 1 =>
          \A s \in Stores : \A r, q \in Live(Latest(s)) :
              r.text = q.text /\ r.text \in Texts => r = q
    BY DEF Inv, HistoryOK, WrittenOnce
  <2>2. ASSUME Ended("import", "ok")
        PROVE  LET TextsOf(rows) == {r.text : r \in rows}
                   shown == TextsOf(Live(before.file))
                   now == TextsOf(Live(Latest(cmd.store)))
               IN /\ shown \subseteq now \cup gone
                  /\ now \cap TextsOf(before.file) \subseteq shown \cup TextsOf(Live(before.table))
    <3>1. cmd.op = "import" /\ cmd.pc = "idle" /\ cmd.result = "ok"
      BY <2>2 DEF Ended, Running
    <3>2. cmd.lines = {}
      BY <3>1 DEF Inv, TypeOK, CmdOK
    <3>3. /\ file = before.file
          /\ \A line \in Live(file) :
                    \/ \E r \in Live(Latest(cmd.store)) : r.text = line.text
                    \/ line.text \in gone
          /\ \A r \in Live(Latest(cmd.store)), line \in file : r.text = line.text =>
                    \E q \in Live(file) \cup Live(before.table) : q.text = r.text
      BY <3>1, <3>2 DEF Inv, ImportOK
    <3> QED BY <3>3
  <2> QED BY <2>1, <2>2 DEF RestoreExact
<1> QED BY InvAlways, <1>1, PTL

(* InitSpares, however many rows were ever stored: an init that finds a     *)
(* table to open keeps it open, removes no row of it, readable or not, and  *)
(* adds none where a memory is visible and fewer rows are archived than it  *)
(* fetches (_cli.py, _cmd_init; store.py, list_memories).                   *)
THEOREM InitsSpare == Spec => []InitSpares
<1>1. Inv => InitSpares
  BY DEF Inv, InitOK, InitSpares, Shows
<1> QED BY InvAlways, <1>1, PTL
=============================================================================
