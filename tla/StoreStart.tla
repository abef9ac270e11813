----------------------------- MODULE StoreStart -----------------------------
(***************************************************************************)
(* How the threads of a process come by the one MemoryStore of a path      *)
(* before they write through its compaction gate: get_instance creates it  *)
(* under _instances_lock and opens or creates the table, which another     *)
(* process may be creating too; the embedding model is loaded on first use *)
(* behind a check, _embedder_lock and a second check.  Only then does a    *)
(* thread add rows, as OptimizeGate has it.                                *)
(***************************************************************************)
EXTENDS OptimizeGate

CONSTANT MaxStores    \* bound: MemoryStore objects made, counting those that failed to open

ASSUME StartAssumption == MaxStores \in Nat \ {0}

NoStore == 0

VARIABLES
    at,           \* how far each thread has come
    holds,        \* the store each thread got: a number, in order of creation
    instLock,     \* holder of _instances_lock
    embedLock,    \* holder of each store's _embedder_lock
    registered,   \* _instances[path]
    created,      \* MemoryStore objects made for the path
    table,        \* the memories table exists
    embedders,    \* stores whose _embedder is set
    loads         \* history: models loaded

startVars == <<at, holds, instLock, embedLock, registered, created, table,
               embedders, loads>>
allVars == <<vars, startVars>>

StartInit ==
    /\ Init
    /\ at = [w \in Writers |-> "new"]
    /\ holds = [w \in Writers |-> NoStore]
    /\ instLock = Nobody
    /\ embedLock = [s \in 1 .. MaxStores |-> Nobody]
    /\ registered = NoStore /\ created = 0
    /\ table \in BOOLEAN
    /\ embedders = {} /\ loads = 0

Advance(w, here, there) ==
    /\ at[w] = here
    /\ at' = [at EXCEPT ![w] = there]

InstancesFree == instLock = Nobody

(* with cls._instances_lock: a store that is registered is returned, else a   *)
(* new one is made ...                                                        *)
GetInstance(w) ==
    /\ InstancesFree
    /\ IF registered # NoStore
       THEN /\ Advance(w, "new", "check")
            /\ holds' = [holds EXCEPT ![w] = registered]
            /\ UNCHANGED <<instLock, created>>
       ELSE /\ created < MaxStores
            /\ Advance(w, "new", "ensure")
            /\ instLock' = w
            /\ created' = created + 1
            /\ holds' = [holds EXCEPT ![w] = created + 1]
    /\ UNCHANGED <<embedLock, registered, table, embedders, loads>>

(* ... _ensure_table opens the table, or creates it, or finds that it "already *)
(* exists" since it looked; the store is registered, the lock given back.     *)
EnsureTable(w) ==
    /\ Advance(w, "ensure", "check")
    /\ table' = TRUE
    /\ registered' = holds[w]
    /\ instLock' = Nobody
    /\ UNCHANGED <<holds, embedLock, created, embedders, loads>>

(* Connecting, listing, opening or creating raises: nothing is registered.    *)
InitialiseFails(w) ==
    /\ created < MaxStores
    /\ Advance(w, "ensure", "new")
    /\ holds' = [holds EXCEPT ![w] = NoStore]
    /\ instLock' = Nobody
    /\ UNCHANGED <<embedLock, registered, created, table, embedders, loads>>

(* Another process has the table created.                                     *)
CreateElsewhere ==
    /\ ~table
    /\ table' = TRUE
    /\ UNCHANGED <<at, holds, instLock, embedLock, registered, created, embedders, loads>>

(* _load_embedder: the check without the lock ...                             *)
CheckEmbedder(w) ==
    /\ at[w] = "check"
    /\ at' = [at EXCEPT ![w] = IF holds[w] \in embedders THEN "ready" ELSE "wait"]
    /\ UNCHANGED <<holds, instLock, embedLock, registered, created, table, embedders,
                   loads>>

LockEmbedder(w) ==
    /\ Advance(w, "wait", "recheck")
    /\ embedLock[holds[w]] = Nobody
    /\ embedLock' = [embedLock EXCEPT ![holds[w]] = w]
    /\ UNCHANGED <<holds, instLock, registered, created, table, embedders, loads>>

(* Mutant: no second check.                                                   *)
MustLoadAlways(w) == TRUE

(* ... and the check under it.                                                *)
MustLoad(w) == holds[w] \notin embedders

Recheck(w) ==
    /\ at[w] = "recheck"
    /\ IF MustLoad(w)
       THEN at' = [at EXCEPT ![w] = "load"] /\ UNCHANGED embedLock
       ELSE /\ at' = [at EXCEPT ![w] = "ready"]
            /\ embedLock' = [embedLock EXCEPT ![holds[w]] = Nobody]
    /\ UNCHANGED <<holds, instLock, registered, created, table, embedders, loads>>

(* The model is set once it is complete; loading it may fail.                 *)
LoadEmbedder(w) ==
    /\ at[w] = "load"
    /\ embedLock' = [embedLock EXCEPT ![holds[w]] = Nobody]
    /\ \/ /\ at' = [at EXCEPT ![w] = "ready"]
          /\ embedders' = embedders \cup {holds[w]}
          /\ loads' = loads + 1
       \/ /\ at' = [at EXCEPT ![w] = "check"]
          /\ UNCHANGED <<embedders, loads>>
    /\ UNCHANGED <<holds, instLock, registered, created, table>>

Start(w) ==
    \/ GetInstance(w) \/ EnsureTable(w) \/ InitialiseFails(w)
    \/ CheckEmbedder(w) \/ LockEmbedder(w) \/ Recheck(w) \/ LoadEmbedder(w)

(* The text is encoded before its row is added.                               *)
Write(w) ==
    \/ at[w] = "ready" /\ Add(w)
    \/ Finish(w)

StartNext ==
    \/ (\E w \in Writers : Start(w)) /\ UNCHANGED vars
    \/ CreateElsewhere /\ UNCHANGED vars
    \/ (\E w \in Writers : Write(w)) /\ UNCHANGED startVars
    \/ Finished /\ UNCHANGED startVars

StartSpec == StartInit /\ [][StartNext]_allVars

(* What is begun goes on: the threads of the gate run, a compaction ends.     *)
FairStartSpec ==
    StartSpec /\ \A w \in Writers : WF_vars(Finish(w))

-----------------------------------------------------------------------------
(* Properties.                                                                *)

Opened == {"check", "wait", "recheck", "load", "ready"}

(* "Return a path-keyed singleton, initialised on first use": all threads get *)
(* the same store, after its table was opened; its model is loaded once, and  *)
(* no row is added before it is there.  So there is one gate per table.       *)
StartOnce ==
    /\ loads <= 1
    /\ \A w \in Writers :
          /\ at[w] \in Opened => table /\ holds[w] = registered /\ registered # NoStore
          /\ pc[w] # "idle" => holds[w] \in embedders

StartTypeOK ==
    /\ at \in [Writers -> {"new", "ensure"} \cup Opened]
    /\ holds \in [Writers -> 0 .. MaxStores]
    /\ instLock \in Writers \cup {Nobody}
    /\ embedLock \in [1 .. MaxStores -> Writers \cup {Nobody}]
    /\ registered \in 0 .. MaxStores /\ created \in 0 .. MaxStores
    /\ table \in BOOLEAN
    /\ embedders \subseteq {registered} \ {NoStore}
    /\ loads \in {0, 1}

(* Whoever opens a store holds the lock and is the only one, and whoever is    *)
(* about to load a model holds its lock and has seen that there is none.      *)
StartIInv ==
    /\ StartTypeOK
    /\ \A w \in Writers :
          /\ at[w] = "ensure" =>
                instLock = w /\ registered = NoStore /\ holds[w] # NoStore
          /\ at[w] \in Opened => table /\ holds[w] = registered /\ registered # NoStore
          /\ at[w] \in {"recheck", "load"} => embedLock[registered] = w
          /\ at[w] = "load" => embedders = {}
          /\ at[w] = "ready" => registered \in embedders
          /\ pc[w] # "idle" => at[w] = "ready"
    /\ registered # NoStore => table
    /\ embedders = {} => loads = 0
=============================================================================
