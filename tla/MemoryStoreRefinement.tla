----------------------- MODULE MemoryStoreRefinement -----------------------
(***************************************************************************)
(* The memory table implements VersionedMemory: the newest version of a    *)
(* lineage is its current one while it is stored and not archived.         *)
(***************************************************************************)
EXTENDS MemoryStore

NewestOf(l) == CHOOSE i \in Versions(l) : \A j \in Versions(l) : j <= i

CurrentVersion ==
    [l \in Ids |-> IF Versions(l) # {} /\ Live(NewestOf(l)) THEN NewestOf(l) ELSE NoId]

Promise == INSTANCE VersionedMemory WITH
    MaxVersions <- MaxCalls, current <- CurrentVersion, fresh <- nextId, givenUp <- gone

(* Every step of the table, with calls overlapping and dying anywhere, is  *)
(* a step the promise allows: no update loses a memory, no late write      *)
(* brings back an older text as the current one.                           *)
ImplementsPromise == Promise!ASpec
=============================================================================
