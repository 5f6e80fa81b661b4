------------------------- MODULE FileMutationQueue --------------------------
(***************************************************************************)
(* FileMutationQueue (oxicode-agent/src/tools/file_mutation_queue.rs): the *)
(* tools of a process that change files take a lock for the file's         *)
(* canonical path from a map, create it if there is none, and run while    *)
(* they hold it. A file that does not exist has no canonical path and goes *)
(* by the path the caller gave, so callers who spell it differently take   *)
(* different locks. The map is kept small: locks of files that do not exist *)
(* are dropped every CLEANUP_INTERVAL operations, and any lock at all when *)
(* it is full, whether somebody holds it or not.                           *)
(***************************************************************************)
EXTENDS Selection, FiniteSets

CONSTANTS
  Tasks,        \* callers of with_queue
  Files,
  Paths,        \* the ways to spell their names
  FileOf,       \* the file a path leads to
  Canonical,    \* the path canonicalize answers for a file
  MaxEntries,   \* MAX_ENTRIES
  NoPath

ASSUME QueueAssumption ==
  /\ IsFiniteSet(Tasks) /\ IsFiniteSet(Paths)
  /\ FileOf \in [Paths -> Files] /\ Canonical \in [Files -> Paths]
  /\ \A f \in Files : FileOf[Canonical[f]] = f
  /\ MaxEntries \in Nat \ {0}
  /\ NoPath \notin Paths

VARIABLES
  exists,   \* the files there are
  queues,   \* the keys in the map, each with its lock
  waiting,  \* the tasks on each lock in their order, the holder first
  pc,       \* out, removing, naming, taking, evicting, queued
  stale,    \* the keys a cleanup has found and not yet removed
  key,      \* the path the task is called with, then the one it found
  lock,     \* the lock it took
  parted    \* keys that may get a second lock: for the properties only

taskVars == <<pc, stale, key, lock>>
queueVars == <<exists, queues, waiting, taskVars, parted>>

\* Locks that somebody holds have numbers; in the map all others are alike.
Locks == 1..Cardinality(Tasks)
NoLock == 0
FreeLock == -1

InMap(k) == queues[k] # NoLock
Size(map) == Cardinality({k \in Paths : map[k] # NoLock})
Without(map, keys) == [k \in Paths |-> IF k \in keys THEN NoLock ELSE map[k]]

QueueInit ==
  /\ exists \in SUBSET Files
  /\ queues = [k \in Paths |-> NoLock]
  /\ waiting = [l \in Locks |-> <<>>]
  /\ pc = [t \in Tasks |-> "out"]
  /\ stale = [t \in Tasks |-> {}]
  /\ key = [t \in Tasks |-> NoPath]
  /\ lock = [t \in Tasks |-> NoLock]
  /\ parted = {}

Holds(t) == pc[t] = "queued" /\ Head(waiting[lock[t]]) = t

\* Somebody holds the lock of the key or waits for it.
InUse(k) == \E t \in Tasks : pc[t] = "queued" /\ lock[t] = queues[k]

\* The keys that leave the map while in use.
Parting(keys) == {k \in keys : InMap(k) /\ InUse(k)}

----------------------------------------------------------------------------
(* with_queue.                                                             *)

\* canonicalize fails for a file that is not there: the path is left as it is.
KeyOf(path) == IF FileOf[path] \in exists THEN Canonical[FileOf[path]] ELSE path

\* The keys in the map whose files are not there.
Gone == {k \in Paths : InMap(k) /\ FileOf[k] \notin exists}

Request(t, path) ==
  /\ pc[t] = "out"
  /\ pc' = [pc EXCEPT ![t] = "taking"]
  /\ key' = [key EXCEPT ![t] = KeyOf(path)]
  /\ UNCHANGED <<exists, queues, waiting, stale, lock, parted>>

\* One operation in CLEANUP_INTERVAL begins with cleanup_stale, which looks
\* at the files while the map is unlocked ...
RequestAndClean(t, path) ==
  /\ pc[t] = "out"
  /\ pc' = [pc EXCEPT ![t] = "removing"]
  /\ key' = [key EXCEPT ![t] = path]
  /\ stale' = [stale EXCEPT ![t] = Gone]
  /\ UNCHANGED <<exists, queues, waiting, lock, parted>>

\* ... and then removes what it found.
RemoveStale(t) ==
  /\ pc[t] = "removing"
  /\ pc' = [pc EXCEPT ![t] = "naming"]
  /\ queues' = Without(queues, stale[t])
  /\ parted' = parted \cup Parting(stale[t])
  /\ stale' = [stale EXCEPT ![t] = {}]
  /\ UNCHANGED <<exists, waiting, key, lock>>

Canonicalize(t) ==
  /\ pc[t] = "naming"
  /\ pc' = [pc EXCEPT ![t] = "taking"]
  /\ key' = [key EXCEPT ![t] = KeyOf(key[t])]
  /\ UNCHANGED <<exists, queues, waiting, stale, lock, parted>>

Full(map) == Size(map) >= MaxEntries

\* The first pass of the capacity check looks for such keys with the map
\* unlocked and removes each under the lock.
Scan(t) ==
  /\ pc[t] = "taking" /\ Full(queues)
  /\ pc' = [pc EXCEPT ![t] = "evicting"]
  /\ stale' = [stale EXCEPT ![t] = Gone]
  /\ UNCHANGED <<exists, queues, waiting, key, lock, parted>>

EvictGone(t) ==
  /\ pc[t] = "evicting"
  /\ \E k \in stale[t] :
       /\ queues' = Without(queues, {k})
       /\ parted' = parted \cup Parting({k})
       /\ stale' = [stale EXCEPT ![t] = @ \ {k}]
  /\ UNCHANGED <<exists, waiting, pc, key, lock>>

\* What the second pass may remove: any keys, until the map is not full.
Evictions ==
  {m \in SUBSET {k \in Paths : InMap(k)} :
     /\ ~Full(Without(queues, m))
     /\ \A k \in m : Full(Without(queues, m \ {k}))}

\* The number for a lock that is about to be held.
Fresh == CHOOSE l \in Locks : waiting[l] = <<>> /\ \A m \in 1..l - 1 : waiting[m] # <<>>

FreshLock(map, k) == Fresh                                     \* (mutant)
\* entry(..).or_insert_with(..)
LockFor(map, k) == IF map[k] \in Locks THEN map[k] ELSE Fresh

JoinedFront(line, t) ==                                        \* (mutant)
  IF line = <<>> THEN <<t>> ELSE <<Head(line), t>> \o Tail(line)
\* tokio's Mutex is fair.
Joined(line, t) == Append(line, t)

Take(t) ==
  /\ \/ pc[t] = "taking" /\ ~Full(queues)
     \/ pc[t] = "evicting" /\ stale[t] = {}
  /\ \E removed \in Evictions :
       LET map == Without(queues, removed)
           l == LockFor(map, key[t])
       IN /\ queues' = [map EXCEPT ![key[t]] = l]
          /\ waiting' = [waiting EXCEPT ![l] = Joined(@, t)]
          /\ lock' = [lock EXCEPT ![t] = l]
          /\ parted' = parted \cup Parting(removed)
  /\ pc' = [pc EXCEPT ![t] = "queued"]
  /\ UNCHANGED <<exists, stale, key>>

Freed(map, line) ==
  [k \in Paths |-> IF map[k] \in Locks /\ line[map[k]] = <<>> THEN FreeLock
                                                           ELSE map[k]]

EveryoneStays(line, t) == line                                 \* (mutant)
\* Whoever is done or dropped leaves the line of its lock.
Others(line, t) == Picked(line, {i \in DOMAIN line : line[i] # t})

\* A key is as good as ever when nobody is left on a lock that is not in the
\* map for it.
StillParted(map, t) ==
  {k \in parted :
     \E u \in Tasks \ {t} : pc[u] = "queued" /\ key[u] = k /\ lock[u] # map[k]}

Out(t) ==
  /\ pc' = [pc EXCEPT ![t] = "out"]
  /\ stale' = [stale EXCEPT ![t] = {}]
  /\ key' = [key EXCEPT ![t] = NoPath]
  /\ lock' = [lock EXCEPT ![t] = NoLock]
  /\ waiting' = [l \in Locks |-> Others(waiting[l], t)]
  /\ queues' = Freed(queues, waiting')
  /\ parted' = StillParted(queues', t)
  /\ UNCHANGED exists

\* The operation is over.
Leave(t) == Holds(t) /\ Out(t)

\* The tool call is dropped, wherever it is.
Abandon(t) == pc[t] # "out" /\ Out(t)

\* Files are made and deleted, by operations of these tasks or by others.
Create(f) ==
  /\ f \notin exists
  /\ exists' = exists \cup {f}
  /\ UNCHANGED <<queues, waiting, taskVars, parted>>

Delete(f) ==
  /\ f \in exists
  /\ exists' = exists \ {f}
  /\ UNCHANGED <<queues, waiting, taskVars, parted>>

----------------------------------------------------------------------------
Advance(t) ==
  \/ RemoveStale(t) \/ Canonicalize(t) \/ Scan(t) \/ EvictGone(t) \/ Take(t) \/ Leave(t)

QueueNext ==
  \/ \E t \in Tasks : \/ \E path \in Paths : Request(t, path) \/ RequestAndClean(t, path)
                      \/ Advance(t) \/ Abandon(t)
  \/ \E f \in Files : Create(f) \/ Delete(f)

QueueSpec == QueueInit /\ [][QueueNext]_queueVars

----------------------------------------------------------------------------
(* Properties.                                                             *)

\* Every variable has its type, a task is in the line of its lock alone and
\* there once, and the map does not outgrow its limit, although it is unlocked
\* in the middle of the capacity check.
QueueTypeOK ==
  /\ exists \in SUBSET Files /\ parted \in SUBSET Paths
  /\ queues \in [Paths -> Locks \cup {NoLock, FreeLock}]
  /\ waiting \in [Locks -> Seq(Tasks)]
  /\ pc \in [Tasks -> {"out", "removing", "naming", "taking", "evicting", "queued"}]
  /\ stale \in [Tasks -> SUBSET Paths]
  /\ key \in [Tasks -> Paths \cup {NoPath}]
  /\ lock \in [Tasks -> Locks \cup {NoLock}]
  /\ \A t \in Tasks, l \in Locks :
       Cardinality({i \in DOMAIN waiting[l] : waiting[l][i] = t})
         = IF pc[t] = "queued" /\ lock[t] = l THEN 1 ELSE 0
  /\ Size(queues) <= MaxEntries

\* Two operations that came to the same path do not overlap - and operations
\* that found the file there all come to its canonical path - whoever asks for
\* it in the course of cleanups, evictions of other locks, and the file being
\* made and deleted meanwhile, as long as the path's own lock was not removed
\* from the map while in use.
Serialized ==
  \A t, u \in Tasks :
    t # u /\ Holds(t) /\ Holds(u) /\ key[t] = key[u] => key[t] \in parted

\* What the module's first line says, "serializes concurrent writes to the
\* same file", does not hold, even with no lock removed: a new file has a
\* lock for each way it is spelled, and gets one more when it is made.
SameFileSerialized ==
  \A t, u \in Tasks :
    t # u /\ Holds(t) /\ Holds(u) /\ FileOf[key[t]] = FileOf[key[u]] =>
       key[t] \in parted

Ahead(t) == {waiting[lock[t]][i] : i \in
              {j \in DOMAIN waiting[lock[t]] :
                 \E n \in DOMAIN waiting[lock[t]] : j < n /\ waiting[lock[t]][n] = t}}

\* Nobody is overtaken: of those who ask for a file after a task does, none
\* gets before it, though others are dropped while they wait or hold.
NoOvertaking ==
  [][\A t \in Tasks : pc[t] = "queued" /\ pc'[t] = "queued" =>
                          Ahead(t)' \subseteq Ahead(t)]_queueVars
=============================================================================
