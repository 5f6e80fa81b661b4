---------------------------- MODULE SharedMemory ----------------------------
(***************************************************************************)
(* One key of the SDK's SharedMemory                                       *)
(* (oxicode-sdk/src/coordination/shared_memory.rs), and users that read    *)
(* its entry and later write it with the version they have seen. Values    *)
(* are left out: what matters of an entry is which change made it.         *)
(***************************************************************************)
EXTENDS Integers

CONSTANTS
  Users,
  MaxChanges    \* bounds how often the key is changed

ASSUME MemoryAssumption == MaxChanges \in Nat

VARIABLES
  version,  \* of the entry, 0 if there is none
  changes,  \* how often the key was changed: for the properties only
  deleted,  \* the change that deleted it last, 0 if none did: likewise
  seen      \* of a user: the version it has read and the changes by then

memoryVars == <<version, changes, deleted, seen>>

NotRead == [version |-> -1, changes |-> 0]

MemoryInit ==
  /\ version = 0 /\ changes = 0 /\ deleted = 0
  /\ seen = [u \in Users |-> NotRead]

ReadEntry(u) ==
  /\ seen[u] = NotRead
  /\ seen' = [seen EXCEPT ![u] = [version |-> version, changes |-> changes]]
  /\ UNCHANGED <<version, changes, deleted>>

Change(v) ==
  /\ changes < MaxChanges
  /\ version' = v
  /\ changes' = changes + 1

\* A write without a version; also increment.
Overwrite ==
  /\ Change(version + 1)
  /\ UNCHANGED <<deleted, seen>>

NotOlder(u) == seen[u].version <= version                      \* (mutant)
\* A key that is not there has the version 0.
Matches(u) == seen[u].version = version

WriteSeen(u) ==
  /\ seen[u] # NotRead /\ Matches(u)
  /\ Change(version + 1)
  /\ seen' = [seen EXCEPT ![u] = NotRead]
  /\ UNCHANGED deleted

\* VersionConflict.
Conflict(u) ==
  /\ seen[u] # NotRead /\ ~Matches(u)
  /\ seen' = [seen EXCEPT ![u] = NotRead]
  /\ UNCHANGED <<version, changes, deleted>>

\* The next entry starts over with version 1.
Delete ==
  /\ version > 0 /\ Change(0)
  /\ deleted' = changes'
  /\ UNCHANGED seen

MemoryNext ==
  \/ Overwrite \/ Delete
  \/ \E u \in Users : ReadEntry(u) \/ WriteSeen(u) \/ Conflict(u)

----------------------------------------------------------------------------
(* Properties.                                                             *)

\* Every variable has its type, a version counts the changes since the last
\* deletion, and a user has seen what there was.
MemoryTypeOK ==
  /\ changes \in 0..MaxChanges /\ deleted \in 0..changes
  /\ version = changes - deleted
  /\ seen \in [Users -> [version : -1..MaxChanges, changes : 0..MaxChanges]]
  /\ \A u \in Users : /\ seen[u].changes <= changes
                      /\ seen[u].version >= 0 => seen[u].version <= seen[u].changes
                      /\ seen[u].version = -1 => seen[u].changes = 0

\* A write with a version overwrites no change its author has not seen. The
\* exception is a key that was deleted since: its versions are used again,
\* although "Monotonically increasing version" (shared_memory.rs:32).
NothingOverwritten ==
  [][\A u \in Users : seen[u] # NotRead /\ seen'[u] = NotRead /\ changes' # changes =>
       seen[u].changes = changes \/ deleted > seen[u].changes]_memoryVars
=============================================================================
