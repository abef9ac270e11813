-------------------------- MODULE VersionedMemory --------------------------
(***************************************************************************)
(* What the memory store promises its callers: every memory has one        *)
(* current version; writing a text makes a version that never existed      *)
(* before the current one; a version stays current until a later one       *)
(* replaces it or somebody gives the memory up.                            *)
(***************************************************************************)
EXTENDS Integers

CONSTANT MaxVersions    \* bound: versions ever written, a natural number

VARIABLES
    current,    \* current[m]: the current version of memory m, 0 if there is none
    fresh,      \* the next version number; a memory is named by its first version
    givenUp     \* memories somebody gave up

avars == <<current, fresh, givenUp>>

Memories == 1 .. MaxVersions

AInit ==
    /\ current = [m \in Memories |-> 0]
    /\ fresh = 1
    /\ givenUp = {}

(* A new memory (m = fresh), or a new version of an older one. *)
Write(m) ==
    /\ m <= fresh /\ fresh <= MaxVersions
    /\ current' = [current EXCEPT ![m] = fresh]
    /\ fresh' = fresh + 1
    /\ UNCHANGED givenUp

GiveUp(m) ==
    /\ m < fresh
    /\ current' = [current EXCEPT ![m] = 0]
    /\ givenUp' = givenUp \cup {m}
    /\ UNCHANGED fresh

ANext == \E m \in Memories : Write(m) \/ GiveUp(m)

ASpec == AInit /\ [][ANext]_avars
=============================================================================
