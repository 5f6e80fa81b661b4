---------------------- MODULE FileMutationQueueProofs -----------------------
(***************************************************************************)
(* Edits that came to one path exclude each other, for every number of     *)
(* tasks, files, spellings of their paths and entries of the map.          *)
(***************************************************************************)
EXTENDS FileMutationQueue, SequenceLemmas

----------------------------------------------------------------------------
(* The inductive invariant.                                                *)

PlainTypes ==
  /\ exists \in SUBSET Files /\ parted \in SUBSET Paths
  /\ queues \in [Paths -> Locks \cup {NoLock, FreeLock}]
  /\ waiting \in [Locks -> Seq(Tasks)]
  /\ pc \in [Tasks -> {"out", "removing", "naming", "taking", "evicting", "queued"}]
  /\ stale \in [Tasks -> SUBSET Paths]
  /\ key \in [Tasks -> Paths \cup {NoPath}]
  /\ lock \in [Tasks -> Locks \cup {NoLock}]
  /\ Size(queues) <= MaxEntries

\* Who is in a line is queued for its lock and is there once, and who is
\* queued is in the line.
InLine(t, l) == \E i \in DOMAIN waiting[l] : waiting[l][i] = t
LineOf(l) ==
  /\ \A i \in DOMAIN waiting[l] : pc[waiting[l][i]] = "queued" /\ lock[waiting[l][i]] = l
  /\ \A i, j \in DOMAIN waiting[l] : waiting[l][i] = waiting[l][j] => i = j
Lines ==
  /\ \A l \in Locks : LineOf(l)
  /\ \A t \in Tasks : pc[t] = "queued" => lock[t] \in Locks /\ InLine(t, lock[t])

\* A task has a path, and the lock the map has for that, unless the path may
\* have got a second one.
NamedOK(t) ==
  /\ pc[t] # "out" => key[t] \in Paths
  /\ pc[t] = "queued" /\ key[t] \notin parted => lock[t] = queues[key[t]]
Named == \A t \in Tasks : NamedOK(t)

QueueInv == PlainTypes /\ Lines /\ Named

----------------------------------------------------------------------------
(* The operators of the model.                                             *)

LEMMA LocksType ==
  /\ Cardinality(Tasks) \in Nat /\ Locks \subseteq Nat \ {0}
  /\ NoLock \notin Locks /\ FreeLock \notin Locks /\ IsFiniteSet(Paths)
<1>1. Cardinality(Tasks) \in Nat
  BY QueueAssumption, FS_CardinalityType
<1> QED BY <1>1, QueueAssumption DEF Locks, NoLock, FreeLock

\* A map with no other keys is not larger.
LEMMA SizeShrinks ==
  ASSUME NEW map, NEW map2, \A k \in Paths : map2[k] # NoLock => map[k] # NoLock
  PROVE  Size(map2) \in Nat /\ Size(map) \in Nat /\ Size(map2) <= Size(map)
<1> DEFINE A == {k \in Paths : map[k] # NoLock}
           B == {k \in Paths : map2[k] # NoLock}
<1>1. IsFiniteSet(A)
  BY LocksType, FS_Subset
<1>2. B \in SUBSET A
  OBVIOUS
<1>3. IsFiniteSet(B) /\ Cardinality(B) <= Cardinality(A)
  <2> HIDE DEF A, B
  <2> QED BY <1>1, <1>2, FS_Subset
<1>4. Cardinality(A) \in Nat /\ Cardinality(B) \in Nat
  <2> HIDE DEF A, B
  <2> QED BY <1>1, <1>3, FS_CardinalityType
<1> QED BY <1>3, <1>4 DEF Size

\* One key makes a map larger by one at most.
LEMMA SizeGrows ==
  ASSUME NEW map, NEW map2, NEW x, \A k \in Paths \ {x} : map2[k] # NoLock => map[k] # NoLock
  PROVE  Size(map2) \in Nat /\ Size(map) \in Nat /\ Size(map2) <= Size(map) + 1
<1> DEFINE A == {k \in Paths : map[k] # NoLock}
           B == {k \in Paths : map2[k] # NoLock}
<1>1. IsFiniteSet(A)
  BY LocksType, FS_Subset
<1>2. B \in SUBSET (A \cup {x})
  OBVIOUS
<1> HIDE DEF A, B
<1>3. Cardinality(A) \in Nat
  BY <1>1, FS_CardinalityType
<1>4. /\ IsFiniteSet(A \cup {x}) /\ Cardinality(A \cup {x}) \in Nat
      /\ Cardinality(A \cup {x}) <= Cardinality(A) + 1
  BY <1>1, <1>3, FS_AddElement
<1>5. IsFiniteSet(B) /\ Cardinality(B) <= Cardinality(A \cup {x})
  BY <1>2, <1>4, FS_Subset
<1>6. Cardinality(B) \in Nat
  BY <1>5, FS_CardinalityType
<1> QED BY <1>3, <1>4, <1>5, <1>6 DEF Size, A, B

\* There is a line for a task that is in none.
LEMMA FreshLine ==
  ASSUME PlainTypes, Lines, NEW t \in Tasks, pc[t] # "queued"
  PROVE  Fresh \in Locks /\ waiting[Fresh] = <<>>
<1> DEFINE Empty == {l \in Locks : waiting[l] = <<>>}
<1>1. Empty # {}
  <2> SUFFICES ASSUME \A l \in Locks : waiting[l] # <<>>
               PROVE  FALSE
    OBVIOUS
  <2> DEFINE Rest == Tasks \ {t}
             f == [l \in Locks |-> waiting[l][1]]
  <2>1. ASSUME NEW l \in Locks
        PROVE  f[l] \in Rest /\ lock[f[l]] = l
    <3>1. waiting[l] \in Seq(Tasks) /\ waiting[l] # <<>>
      BY DEF PlainTypes
    <3>2. 1 \in DOMAIN waiting[l] /\ waiting[l][1] \in Tasks
      BY <3>1
    <3>3. pc[waiting[l][1]] = "queued" /\ lock[waiting[l][1]] = l
      BY <3>2 DEF Lines, LineOf
    <3> QED BY <3>2, <3>3
  <2>2. f \in Injection(Locks, Rest)
    <3>1. f \in [Locks -> Rest]
      BY <2>1
    <3>2. \A l, m \in Locks : f[l] = f[m] => l = m
      BY <2>1
    <3> HIDE DEF f
    <3> QED BY <3>1, <3>2 DEF Injection, IsInjective
  <2>3. IsFiniteSet(Rest) /\ Cardinality(Rest) = Cardinality(Tasks) - 1
    BY QueueAssumption, FS_RemoveElement
  <2>4. Cardinality(Locks) = Cardinality(Tasks)
    <3>1. Cardinality(Tasks) \in Nat
      BY LocksType
    <3>2. Cardinality(1..Cardinality(Tasks))
            = IF 1 > Cardinality(Tasks) THEN 0 ELSE Cardinality(Tasks) - 1 + 1
      BY <3>1, FS_Interval
    <3> QED BY <3>1, <3>2 DEF Locks
  <2>5. Cardinality(Locks) <= Cardinality(Rest)
    <3> HIDE DEF f, Rest
    <3> QED BY <2>2, <2>3, FS_Injection
  <2> QED BY <2>3, <2>4, <2>5, LocksType
<1>2. Empty \subseteq Nat
  BY LocksType
<1>3. PICK l \in Empty : \A m \in Empty : l <= m
  <2> HIDE DEF Empty
  <2> QED BY <1>1, <1>2, Least
<1>4. \A m \in 1..l - 1 : waiting[m] # <<>>
  <2> SUFFICES ASSUME NEW m \in 1..l - 1, waiting[m] = <<>>
               PROVE  FALSE
    OBVIOUS
  <2>1. m \in Empty /\ m < l
    BY LocksType, <1>3 DEF Locks
  <2> QED BY <2>1, <1>2, <1>3
<1>5. \E m \in Locks : waiting[m] = <<>> /\ \A n \in 1..m - 1 : waiting[n] # <<>>
  BY <1>3, <1>4
<1> QED BY <1>5 DEF Fresh

\* What is left of a line.
LEMMA OthersLine ==
  ASSUME NEW line \in Seq(Tasks), NEW t
  PROVE  /\ Others(line, t) \in Seq(Tasks \ {t})
         /\ \A i \in DOMAIN line : line[i] # t =>
              \E j \in DOMAIN Others(line, t) : Others(line, t)[j] = line[i]
         /\ \E at \in [DOMAIN Others(line, t) -> DOMAIN line] :
              /\ \A i \in DOMAIN Others(line, t) : Others(line, t)[i] = line[at[i]]
              /\ \A i, j \in DOMAIN Others(line, t) : i < j => at[i] < at[j]
              /\ \A i, j \in DOMAIN Others(line, t) : at[i] = at[j] => i = j
<1> DEFINE K == {i \in DOMAIN line : line[i] # t}
           r == Others(line, t)
<1>1. Len(line) \in Nat /\ DOMAIN line = 1..Len(line) /\ K \cap 1..Len(line) = K
  OBVIOUS
<1>2. r = Picked(line, K)
  BY DEF Others
<1> HIDE DEF r
<1>3. PICK at : Picks(at, r, line, K)
  <2> HIDE DEF K
  <2> QED BY <1>1, <1>2, PickedPicks
<1>4. /\ DOMAIN r = 1..Len(r)
      /\ \A k \in K \cap 1..Len(line) : \E i \in DOMAIN r : r[i] = line[k]
      /\ \A i, j \in 1..Len(r) : at[i] = at[j] => i = j
  <2> HIDE DEF K
  <2> QED BY <1>1, <1>3, PicksFacts
<1>5. /\ r \in Seq({line[k] : k \in K}) /\ at \in [1..Len(r) -> K]
      /\ \A i \in 1..Len(r) : r[i] = line[at[i]]
      /\ \A i, j \in 1..Len(r) : i < j => at[i] < at[j]
  <2> HIDE DEF K
  <2> QED BY <1>1, <1>3 DEF Picks
<1>6. {line[k] : k \in K} \subseteq Tasks \ {t}
  OBVIOUS
<1>7. r \in Seq(Tasks \ {t})
  <2> DEFINE E == {line[k] : k \in K}
  <2>1. E \subseteq Tasks \ {t} /\ r \in Seq(E)
    BY <1>5, <1>6
  <2> HIDE DEF E
  <2> QED BY <2>1, SeqMonotonic
<1>8. at \in [DOMAIN r -> DOMAIN line]
  BY <1>4, <1>5
<1>9. ASSUME NEW i \in DOMAIN line, line[i] # t
      PROVE  \E j \in DOMAIN r : r[j] = line[i]
  BY <1>1, <1>4, <1>9
<1>10. \E to \in [DOMAIN r -> DOMAIN line] :
         /\ \A i \in DOMAIN r : r[i] = line[to[i]]
         /\ \A i, j \in DOMAIN r : i < j => to[i] < to[j]
         /\ \A i, j \in DOMAIN r : to[i] = to[j] => i = j
  <2> HIDE DEF K
  <2> QED BY <1>4, <1>5, <1>8
<1> QED BY <1>7, <1>9, <1>10 DEF r

----------------------------------------------------------------------------
(* Types, and the size of the map.                                         *)

LEMMA InitInv == QueueInit => QueueInv
<1> SUFFICES ASSUME QueueInit PROVE QueueInv
  OBVIOUS
<1>1. Size(queues) = 0
  <2>1. {k \in Paths : queues[k] # NoLock} = {}
    BY DEF QueueInit
  <2> QED BY <2>1, FS_EmptySet DEF Size
<1>2. PlainTypes
  <2>1. Size(queues) <= MaxEntries
    BY <1>1, QueueAssumption
  <2> QED BY <2>1 DEF PlainTypes, QueueInit
<1>3. Lines /\ Named
  BY DEF QueueInit, Lines, LineOf, Named, NamedOK
<1> QED BY <1>2, <1>3 DEF QueueInv

LEMMA KeyType ==
  ASSUME NEW path \in Paths
  PROVE  KeyOf(path) \in Paths
BY QueueAssumption DEF KeyOf

LEMMA WithoutType ==
  ASSUME PlainTypes, NEW keys
  PROVE  /\ Without(queues, keys) \in [Paths -> Locks \cup {NoLock, FreeLock}]
         /\ Size(Without(queues, keys)) <= MaxEntries
<1>1. Size(queues) <= MaxEntries /\ queues \in [Paths -> Locks \cup {NoLock, FreeLock}]
  BY DEF PlainTypes
<1>2. /\ Size(Without(queues, keys)) <= Size(queues) /\ Size(queues) \in Nat
      /\ Size(Without(queues, keys)) \in Nat
  <2>1. \A k \in Paths : Without(queues, keys)[k] # NoLock => queues[k] # NoLock
    BY DEF Without
  <2> QED BY <2>1, SizeShrinks
<1>3. Without(queues, keys) \in [Paths -> Locks \cup {NoLock, FreeLock}]
  BY <1>1 DEF Without
<1> QED BY <1>1, <1>2, <1>3, QueueAssumption

\* What Take makes of the map and the lines.
LEMMA TakeType ==
  ASSUME PlainTypes, Lines, NEW t \in Tasks, pc[t] # "queued", key[t] \in Paths,
         NEW removed \in Evictions, NEW map, map = Without(queues, removed),
         NEW l, l = LockFor(map, key[t])
  PROVE  /\ l \in Locks
         /\ [map EXCEPT ![key[t]] = l] \in [Paths -> Locks \cup {NoLock, FreeLock}]
         /\ Size([map EXCEPT ![key[t]] = l]) <= MaxEntries
         /\ [waiting EXCEPT ![l] = Joined(@, t)] \in [Locks -> Seq(Tasks)]
         /\ Parting(removed) \subseteq Paths
<1>1. l \in Locks
  BY FreshLine DEF LockFor
<1>2. map \in [Paths -> Locks \cup {NoLock, FreeLock}]
  BY WithoutType
<1> DEFINE map2 == [map EXCEPT ![key[t]] = l]
<1>3. map2 \in [Paths -> Locks \cup {NoLock, FreeLock}]
      /\ \A k \in Paths \ {key[t]} : map2[k] = map[k]
  BY <1>1, <1>2
<1>4. Size(map) < MaxEntries /\ Size(map) \in Nat
  <2>1. ~Full(map)
    BY DEF Evictions
  <2>2. Size(map) \in Nat
    BY SizeShrinks
  <2> QED BY <2>1, <2>2, QueueAssumption DEF Full
<1>5. Size(map2) <= MaxEntries
  <2> HIDE DEF map2
  <2>1. Size(map2) \in Nat /\ Size(map2) <= Size(map) + 1
    BY <1>3, SizeGrows
  <2> QED BY <2>1, <1>4, QueueAssumption
<1>6. [waiting EXCEPT ![l] = Joined(@, t)] \in [Locks -> Seq(Tasks)]
  BY <1>1 DEF PlainTypes, Joined
<1>7. Parting(removed) \subseteq Paths
  BY DEF Evictions, Parting
<1> QED BY <1>1, <1>3, <1>5, <1>6, <1>7

LEMMA OutType ==
  ASSUME PlainTypes, NEW t \in Tasks, Out(t)
  PROVE  PlainTypes'
<1>1. waiting' \in [Locks -> Seq(Tasks)]
  <2>1. ASSUME NEW l \in Locks PROVE Others(waiting[l], t) \in Seq(Tasks)
    <3>1. waiting[l] \in Seq(Tasks)
      BY DEF PlainTypes
    <3>2. Others(waiting[l], t) \in Seq(Tasks \ {t})
      BY <3>1, OthersLine
    <3> QED BY <3>2, SeqMonotonic
  <2> QED BY <2>1 DEF Out
<1>2. queues' \in [Paths -> Locks \cup {NoLock, FreeLock}]
  BY DEF Out, Freed, PlainTypes
<1>3. Size(queues') <= MaxEntries
  <2>1. \A k \in Paths : queues'[k] # NoLock => queues[k] # NoLock
    BY LocksType DEF Out, Freed
  <2>2. Size(queues') \in Nat /\ Size(queues) \in Nat /\ Size(queues') <= Size(queues)
    BY <2>1, SizeShrinks
  <2> QED BY <2>2, QueueAssumption DEF PlainTypes
<1>4. Size(queues)' = Size(queues')
  BY DEF Size
<1>5. exists' \in SUBSET Files /\ parted' \in SUBSET Paths
  BY DEF Out, StillParted, PlainTypes
<1>6. /\ pc' \in [Tasks -> {"out", "removing", "naming", "taking", "evicting", "queued"}]
      /\ stale' \in [Tasks -> SUBSET Paths]
      /\ key' \in [Tasks -> Paths \cup {NoPath}]
      /\ lock' \in [Tasks -> Locks \cup {NoLock}]
  BY DEF Out, PlainTypes
<1> QED BY <1>1, <1>2, <1>3, <1>4, <1>5, <1>6 DEF PlainTypes

LEMMA NextTypes ==
  ASSUME QueueInv, [QueueNext]_queueVars
  PROVE  PlainTypes'
<1> USE DEF QueueInv, PlainTypes
<1>1. ASSUME NEW t \in Tasks, NEW path \in Paths, Request(t, path) PROVE PlainTypes'
  BY <1>1, KeyType DEF Request, Size
<1>2. ASSUME NEW t \in Tasks, NEW path \in Paths, RequestAndClean(t, path) PROVE PlainTypes'
  BY <1>2 DEF RequestAndClean, Gone, Size
<1>3. ASSUME NEW t \in Tasks, RemoveStale(t) PROVE PlainTypes'
  <2>1. queues' \in [Paths -> Locks \cup {NoLock, FreeLock}] /\ Size(queues') <= MaxEntries
    BY <1>3, WithoutType DEF RemoveStale
  <2>2. Parting(stale[t]) \subseteq Paths
    BY DEF Parting
  <2> QED BY <1>3, <2>1, <2>2 DEF RemoveStale, Size
<1>4. ASSUME NEW t \in Tasks, Canonicalize(t) PROVE PlainTypes'
  <2>1. key[t] \in Paths
    BY <1>4 DEF Canonicalize, Named, NamedOK
  <2> QED BY <1>4, <2>1, KeyType DEF Canonicalize, Size
<1>5. ASSUME NEW t \in Tasks, Scan(t) PROVE PlainTypes'
  BY <1>5 DEF Scan, Gone, Size
<1>6. ASSUME NEW t \in Tasks, EvictGone(t) PROVE PlainTypes'
  <2>1. PICK k \in stale[t] : /\ queues' = Without(queues, {k})
                              /\ parted' = parted \cup Parting({k})
                              /\ stale' = [stale EXCEPT ![t] = @ \ {k}]
    BY <1>6 DEF EvictGone
  <2>2. queues' \in [Paths -> Locks \cup {NoLock, FreeLock}] /\ Size(queues') <= MaxEntries
    BY <2>1, WithoutType
  <2>3. Parting({k}) \subseteq Paths
    BY <2>1 DEF Parting
  <2> QED BY <1>6, <2>1, <2>2, <2>3 DEF EvictGone, Size
<1>7. ASSUME NEW t \in Tasks, Take(t) PROVE PlainTypes'
  <2>1. pc[t] # "queued" /\ key[t] \in Paths
    BY <1>7 DEF Take, Named, NamedOK
  <2>2. PICK removed \in Evictions :
          LET map == Without(queues, removed)
              l == LockFor(map, key[t])
          IN /\ queues' = [map EXCEPT ![key[t]] = l]
             /\ waiting' = [waiting EXCEPT ![l] = Joined(@, t)]
             /\ lock' = [lock EXCEPT ![t] = l]
             /\ parted' = parted \cup Parting(removed)
    BY <1>7 DEF Take
  <2>3. LockFor(Without(queues, removed), key[t]) \in Locks
    BY <2>1, TakeType
  <2>4. /\ queues' \in [Paths -> Locks \cup {NoLock, FreeLock}]
        /\ Size(queues') <= MaxEntries
        /\ waiting' \in [Locks -> Seq(Tasks)]
        /\ Parting(removed) \subseteq Paths
    BY <2>1, <2>2, TakeType
  <2> QED BY <1>7, <2>2, <2>3, <2>4 DEF Take, Size
<1>8. ASSUME NEW t \in Tasks, Leave(t) \/ Abandon(t) PROVE PlainTypes'
  <2>1. Out(t)
    BY <1>8 DEF Leave, Abandon
  <2> QED BY <2>1, OutType
<1>9. ASSUME NEW f \in Files, Create(f) \/ Delete(f) PROVE PlainTypes'
  BY <1>9 DEF Create, Delete, taskVars, Size
<1>10. CASE UNCHANGED queueVars
  BY <1>10 DEF queueVars, taskVars, Size
<1> QED BY <1>1, <1>2, <1>3, <1>4, <1>5, <1>6, <1>7, <1>8, <1>9, <1>10
        DEF QueueNext, Advance

----------------------------------------------------------------------------
(* The lines.                                                              *)

LEMMA LinesKept ==
  ASSUME PlainTypes, Lines, UNCHANGED <<waiting, lock>>, PlainTypes',
         \A t \in Tasks : pc[t] = "queued" <=> pc'[t] = "queued"
  PROVE  Lines'
<1>1. ASSUME NEW l \in Locks PROVE LineOf(l)'
  <2>1. \A i \in DOMAIN waiting[l] : waiting[l][i] \in Tasks
    BY DEF PlainTypes
  <2> QED BY <2>1 DEF Lines, LineOf
<1> QED BY <1>1 DEF Lines, InLine

LEMMA JoinLines ==
  ASSUME PlainTypes, Lines, NEW t \in Tasks, NEW l \in Locks, pc[t] # "queued",
         pc' = [pc EXCEPT ![t] = "queued"], lock' = [lock EXCEPT ![t] = l],
         waiting' = [waiting EXCEPT ![l] = Joined(@, t)]
  PROVE  Lines'
<1>1. /\ waiting \in [Locks -> Seq(Tasks)] /\ DOMAIN pc = Tasks
      /\ lock \in [Tasks -> Locks \cup {NoLock}]
  BY DEF PlainTypes
<1>2. ASSUME NEW m \in Locks, NEW i \in DOMAIN waiting[m]
      PROVE  waiting[m][i] \in Tasks \ {t}
  BY <1>1 DEF Lines, LineOf
<1> DEFINE line == waiting[l]
           n == Len(line)
<1>3. /\ n \in Nat /\ DOMAIN line = 1..n /\ DOMAIN waiting'[l] = 1..n + 1
      /\ waiting'[l][n + 1] = t /\ \A i \in 1..n : waiting'[l][i] = line[i]
  BY <1>1 DEF Joined
<1>4. \A m \in Locks \ {l} : waiting'[m] = waiting[m]
  BY <1>1
<1>5. \A u \in Tasks \ {t} : pc'[u] = pc[u] /\ lock'[u] = lock[u]
  BY <1>1
<1>6. pc'[t] = "queued" /\ lock'[t] = l
  BY <1>1
<1>7. ASSUME NEW m \in Locks PROVE LineOf(m)'
  <2>1. CASE m # l
    BY <1>2, <1>4, <1>5, <2>1 DEF Lines, LineOf
  <2>2. CASE m = l
    <3>1. ASSUME NEW i \in 1..n + 1
          PROVE  pc'[waiting'[l][i]] = "queued" /\ lock'[waiting'[l][i]] = l
      <4>1. CASE i = n + 1
        BY <4>1, <1>3, <1>6
      <4>2. CASE i # n + 1
        <5>1. i \in 1..n /\ waiting'[l][i] = line[i] /\ line[i] \in Tasks \ {t}
          BY <4>2, <1>2, <1>3
        <5> QED BY <5>1, <1>3, <1>5 DEF Lines, LineOf
      <4> QED BY <4>1, <4>2
    <3>2. ASSUME NEW i \in 1..n + 1, NEW j \in 1..n + 1, waiting'[l][i] = waiting'[l][j]
          PROVE  i = j
      <4>1. \A k \in 1..n : waiting'[l][k] = line[k] /\ line[k] # t
        BY <1>2, <1>3
      <4>2. \A k \in 1..n + 1 : k \in 1..n \/ k = n + 1
        BY <1>3
      <4>3. \A k, h \in 1..n : line[k] = line[h] => k = h
        BY <1>3 DEF Lines, LineOf
      <4> QED BY <3>2, <4>1, <4>2, <4>3, <1>3
    <3> QED BY <2>2, <3>1, <3>2, <1>3 DEF LineOf
  <2> QED BY <2>1, <2>2
<1>8. ASSUME NEW u \in Tasks, pc'[u] = "queued"
      PROVE  lock'[u] \in Locks /\ InLine(u, lock[u])'
  <2>1. CASE u = t
    BY <2>1, <1>3, <1>6 DEF InLine
  <2>2. CASE u # t
    <3>1. lock'[u] = lock[u] /\ lock[u] \in Locks
      BY <1>5, <1>8, <2>2 DEF Lines
    <3>2. PICK i \in DOMAIN waiting[lock[u]] : waiting[lock[u]][i] = u
      BY <1>5, <1>8, <2>2 DEF Lines, InLine
    <3>3. i \in DOMAIN waiting'[lock[u]] /\ waiting'[lock[u]][i] = u
      <4>1. CASE lock[u] = l
        BY <4>1, <3>2, <1>3
      <4>2. CASE lock[u] # l
        BY <4>2, <3>1, <3>2, <1>4
      <4> QED BY <4>1, <4>2
    <3> QED BY <3>1, <3>3 DEF InLine
  <2> QED BY <2>1, <2>2
<1> QED BY <1>7, <1>8 DEF Lines

LEMMA OutLines ==
  ASSUME PlainTypes, Lines, NEW t \in Tasks, Out(t)
  PROVE  Lines'
<1>1. /\ waiting \in [Locks -> Seq(Tasks)] /\ DOMAIN pc = Tasks
      /\ lock \in [Tasks -> Locks \cup {NoLock}]
  BY DEF PlainTypes
<1>2. \A l \in Locks : waiting'[l] = Others(waiting[l], t)
  BY DEF Out
<1>3. pc'[t] = "out" /\ \A u \in Tasks \ {t} : pc'[u] = pc[u] /\ lock'[u] = lock[u]
  BY <1>1 DEF Out
<1>4. ASSUME NEW l \in Locks PROVE LineOf(l)'
  <2> DEFINE line == waiting[l]
             r == waiting'[l]
  <2>1. line \in Seq(Tasks) /\ r = Others(line, t)
    BY <1>1, <1>2
  <2>2. r \in Seq(Tasks \ {t})
    BY <2>1, OthersLine
  <2>3. PICK at \in [DOMAIN r -> DOMAIN line] :
          /\ \A i \in DOMAIN r : r[i] = line[at[i]]
          /\ \A i, j \in DOMAIN r : at[i] = at[j] => i = j
    <3>1. \E at \in [DOMAIN Others(line, t) -> DOMAIN line] :
            /\ \A i \in DOMAIN Others(line, t) : Others(line, t)[i] = line[at[i]]
            /\ \A i, j \in DOMAIN Others(line, t) : at[i] = at[j] => i = j
      <4> HIDE DEF line
      <4> QED BY ZenonT(60), <2>1, OthersLine
    <3> HIDE DEF line, r
    <3> QED BY <2>1, <3>1
  <2>4. ASSUME NEW i \in DOMAIN r PROVE pc'[r[i]] = "queued" /\ lock'[r[i]] = l
    <3>1. r[i] \in Tasks \ {t}
      BY <2>2
    <3>2. at[i] \in DOMAIN line /\ r[i] = line[at[i]]
      BY <2>3
    <3>3. pc[r[i]] = "queued" /\ lock[r[i]] = l
      BY <3>2 DEF Lines, LineOf
    <3> QED BY <1>3, <3>1, <3>3
  <2>5. ASSUME NEW i \in DOMAIN r, NEW j \in DOMAIN r, r[i] = r[j] PROVE i = j
    <3>1. at[i] \in DOMAIN line /\ at[j] \in DOMAIN line /\ line[at[i]] = line[at[j]]
      BY <2>3, <2>5
    <3>2. at[i] = at[j]
      BY <3>1 DEF Lines, LineOf
    <3> QED BY <2>3, <3>2
  <2> QED BY <2>4, <2>5 DEF LineOf
<1>5. ASSUME NEW u \in Tasks, pc'[u] = "queued"
      PROVE  lock'[u] \in Locks /\ InLine(u, lock[u])'
  <2>1. u # t /\ pc[u] = "queued" /\ lock'[u] = lock[u] /\ lock[u] \in Locks
    BY <1>3, <1>5 DEF Lines
  <2> DEFINE line == waiting[lock[u]]
  <2>2. PICK i \in DOMAIN line : line[i] = u
    BY <2>1 DEF Lines, InLine
  <2>3. line \in Seq(Tasks) /\ waiting'[lock[u]] = Others(line, t)
    BY <1>1, <1>2, <2>1
  <2>4. \E j \in DOMAIN Others(line, t) : Others(line, t)[j] = line[i]
    <3> HIDE DEF line
    <3> QED BY ZenonT(60), <2>1, <2>2, <2>3, OthersLine
  <2> QED BY <2>1, <2>2, <2>3, <2>4 DEF InLine
<1> QED BY <1>4, <1>5 DEF Lines

\* The steps that put nobody into a line and take nobody out.
Aside ==
  /\ UNCHANGED <<waiting, lock>>
  /\ \A t \in Tasks : pc[t] = "queued" <=> pc'[t] = "queued"

LEMMA StepKinds ==
  ASSUME QueueInv, [QueueNext]_queueVars
  PROVE  \/ Aside
         \/ \E t \in Tasks : Take(t) \/ (Out(t) /\ pc[t] # "out")
<1> USE DEF QueueInv, PlainTypes
<1>1. ASSUME NEW t \in Tasks, NEW path \in Paths, Request(t, path) \/ RequestAndClean(t, path)
      PROVE  Aside
  BY <1>1 DEF Request, RequestAndClean, Aside
<1>2. ASSUME NEW t \in Tasks, RemoveStale(t) \/ Canonicalize(t) \/ Scan(t) \/ EvictGone(t)
      PROVE  Aside
  BY <1>2 DEF RemoveStale, Canonicalize, Scan, EvictGone, Aside
<1>3. ASSUME NEW t \in Tasks, Leave(t) \/ Abandon(t)
      PROVE  Out(t) /\ pc[t] # "out"
  BY <1>3 DEF Leave, Abandon, Holds
<1>4. ASSUME NEW f \in Files, Create(f) \/ Delete(f) PROVE Aside
  BY <1>4 DEF Create, Delete, taskVars, Aside
<1>5. CASE UNCHANGED queueVars
  BY <1>5 DEF queueVars, taskVars, Aside
<1> QED BY <1>1, <1>2, <1>3, <1>4, <1>5 DEF QueueNext, Advance

LEMMA NextLines ==
  ASSUME QueueInv, [QueueNext]_queueVars
  PROVE  Lines'
<1>1. CASE Aside
  BY <1>1, NextTypes, LinesKept DEF Aside, QueueInv
<1>2. ASSUME NEW t \in Tasks, Take(t) PROVE Lines'
  <2>1. pc[t] # "queued" /\ key[t] \in Paths
    BY <1>2 DEF Take, QueueInv, Named, NamedOK
  <2>2. PICK removed \in Evictions :
          LET map == Without(queues, removed)
              l == LockFor(map, key[t])
          IN /\ waiting' = [waiting EXCEPT ![l] = Joined(@, t)]
             /\ lock' = [lock EXCEPT ![t] = l]
    BY <1>2 DEF Take
  <2>3. LockFor(Without(queues, removed), key[t]) \in Locks
    BY <2>1, TakeType DEF QueueInv
  <2>4. pc' = [pc EXCEPT ![t] = "queued"]
    BY <1>2 DEF Take
  <2> QED BY <2>1, <2>2, <2>3, <2>4, JoinLines DEF QueueInv
<1>3. ASSUME NEW t \in Tasks, Out(t) PROVE Lines'
  BY <1>3, OutLines DEF QueueInv
<1> QED BY <1>1, <1>2, <1>3, StepKinds

----------------------------------------------------------------------------
(* The locks of paths.                                                     *)

\* A lock that leaves the map while its line is not empty parts its path.
LEMMA RemovedParts ==
  ASSUME PlainTypes, Lines, NEW u \in Tasks, NamedOK(u), pc[u] = "queued",
         key[u] \notin parted, NEW keys, key[u] \notin Parting(keys)
  PROVE  key[u] \notin keys
<1>1. lock[u] = queues[key[u]] /\ lock[u] \in Locks
  BY DEF NamedOK, Lines
<1>2. InMap(key[u]) /\ InUse(key[u])
  BY <1>1, LocksType DEF InMap, InUse
<1> QED BY <1>2 DEF Parting

LEMMA NamedStays ==
  ASSUME QueueInv, NEW u \in Tasks,
         pc'[u] = pc[u], key'[u] = key[u], lock'[u] = lock[u],
         pc[u] = "queued" /\ key[u] \notin parted' =>
           key[u] \notin parted /\ queues'[key[u]] = queues[key[u]]
  PROVE  NamedOK(u)'
BY DEF QueueInv, Named, NamedOK

LEMMA RemoveNamed ==
  ASSUME QueueInv, NEW keys, queues' = Without(queues, keys),
         parted' = parted \cup Parting(keys),
         NEW u \in Tasks, pc'[u] = pc[u], key'[u] = key[u], lock'[u] = lock[u]
  PROVE  NamedOK(u)'
<1>1. ASSUME pc[u] = "queued", key[u] \notin parted'
      PROVE  queues'[key[u]] = queues[key[u]]
  <2>1. key[u] \notin keys
    BY <1>1, RemovedParts DEF QueueInv, Named
  <2>2. key[u] \in Paths
    BY <1>1 DEF QueueInv, Named, NamedOK
  <2> QED BY <2>1, <2>2 DEF Without
<1> QED BY <1>1, NamedStays

LEMMA AskNamed ==
  ASSUME QueueInv, NEW t \in Tasks, NEW path \in Paths,
         \/ Request(t, path) \/ RequestAndClean(t, path) \/ Canonicalize(t) \/ Scan(t)
  PROVE  Named'
<1> SUFFICES ASSUME NEW u \in Tasks PROVE NamedOK(u)'
  BY DEF Named
<1> USE DEF QueueInv, PlainTypes
<1>1. /\ UNCHANGED <<queues, lock, parted>>
      /\ \A x \in Tasks \ {t} : pc'[x] = pc[x] /\ key'[x] = key[x]
  BY DEF Request, RequestAndClean, Canonicalize, Scan
<1>2. CASE u # t
  BY <1>1, <1>2, NamedStays
<1>3. CASE u = t
  <2>1. CASE Request(t, path)
    BY <1>3, <2>1, KeyType DEF Request, NamedOK
  <2>2. CASE RequestAndClean(t, path)
    BY <1>3, <2>2 DEF RequestAndClean, NamedOK
  <2>3. CASE Canonicalize(t)
    <3>1. key[t] \in Paths
      BY <2>3 DEF Canonicalize, Named, NamedOK
    <3> QED BY <1>3, <2>3, <3>1, KeyType DEF Canonicalize, NamedOK
  <2>4. CASE Scan(t)
    BY <1>3, <2>4 DEF Scan, Named, NamedOK
  <2> QED BY <2>1, <2>2, <2>3, <2>4
<1> QED BY <1>2, <1>3

LEMMA CleanNamed ==
  ASSUME QueueInv, NEW t \in Tasks, RemoveStale(t) \/ EvictGone(t)
  PROVE  Named'
<1> SUFFICES ASSUME NEW u \in Tasks PROVE NamedOK(u)'
  BY DEF Named
<1>1. CASE RemoveStale(t)
  <2>1. CASE u = t
    BY <1>1, <2>1 DEF RemoveStale, QueueInv, PlainTypes, Named, NamedOK
  <2>2. CASE u # t
    <3>1. pc'[u] = pc[u]
      BY <1>1, <2>2 DEF RemoveStale, QueueInv, PlainTypes
    <3> QED BY <1>1, <3>1, RemoveNamed DEF RemoveStale
  <2> QED BY <2>1, <2>2
<1>2. CASE EvictGone(t)
  BY <1>2, RemoveNamed DEF EvictGone
<1> QED BY <1>1, <1>2

LEMMA TakeNamed ==
  ASSUME QueueInv, NEW t \in Tasks, Take(t)
  PROVE  Named'
<1> SUFFICES ASSUME NEW u \in Tasks PROVE NamedOK(u)'
  BY DEF Named
<1>1. pc[t] # "queued" /\ key[t] \in Paths
  BY DEF Take, QueueInv, Named, NamedOK
<1>2. PICK removed \in Evictions :
        LET map == Without(queues, removed)
            l == LockFor(map, key[t])
        IN /\ queues' = [map EXCEPT ![key[t]] = l]
           /\ lock' = [lock EXCEPT ![t] = l]
           /\ parted' = parted \cup Parting(removed)
  BY DEF Take
<1> DEFINE map == Without(queues, removed)
           l == LockFor(map, key[t])
<1>3. UNCHANGED <<exists, key>> /\ pc' = [pc EXCEPT ![t] = "queued"]
  BY DEF Take
<1>4. DOMAIN map = Paths /\ DOMAIN pc = Tasks /\ DOMAIN lock = Tasks
  BY DEF Without, QueueInv, PlainTypes
<1>5. CASE u = t
  <2>1. queues'[key[t]] = l /\ lock'[t] = l /\ pc'[t] = "queued"
    BY <1>1, <1>2, <1>3, <1>4
  <2> QED BY <1>1, <1>3, <1>5, <2>1 DEF NamedOK
<1>6. CASE u # t
  <2>1. pc'[u] = pc[u] /\ lock'[u] = lock[u]
    BY <1>2, <1>3, <1>4, <1>6
  <2>2. ASSUME pc[u] = "queued", key[u] \notin parted'
        PROVE  queues'[key[u]] = queues[key[u]]
    <3>1. NamedOK(u) /\ key[u] \notin parted /\ key[u] \notin Parting(removed)
      BY <1>2, <2>2 DEF QueueInv, Named
    <3>2. key[u] \notin removed
      BY <2>2, <3>1, RemovedParts DEF QueueInv
    <3>3. key[u] \in Paths /\ lock[u] = queues[key[u]] /\ lock[u] \in Locks
      BY <2>2, <3>1 DEF NamedOK, QueueInv, Lines
    <3>4. map[key[u]] = queues[key[u]]
      BY <3>2, <3>3 DEF Without
    <3>5. CASE key[u] = key[t]
      <4>1. l = queues[key[u]]
        BY <3>3, <3>4, <3>5 DEF LockFor
      <4> QED BY <4>1, <3>5, <1>1, <1>2, <1>4
    <3>6. CASE key[u] # key[t]
      <4>1. queues'[key[u]] = map[key[u]]
        BY <3>3, <3>6, <1>2, <1>4
      <4> QED BY <4>1, <3>4
    <3> QED BY <3>5, <3>6
  <2>3. parted \subseteq parted'
    BY <1>2
  <2> QED BY <1>3, <2>1, <2>2, <2>3, NamedStays
<1> QED BY <1>5, <1>6

LEMMA OutNamed ==
  ASSUME QueueInv, NEW t \in Tasks, Out(t)
  PROVE  Named'
<1> SUFFICES ASSUME NEW u \in Tasks PROVE NamedOK(u)'
  BY DEF Named
<1> USE DEF QueueInv, PlainTypes
<1>1. CASE u = t
  BY <1>1 DEF Out, NamedOK
<1>2. CASE u # t
  <2>1. pc'[u] = pc[u] /\ key'[u] = key[u] /\ lock'[u] = lock[u]
    BY <1>2 DEF Out
  <2>2. ASSUME pc[u] = "queued", key[u] \notin parted'
        PROVE  lock[u] = queues'[key[u]]
    <3>1. CASE key[u] \in parted
      BY <1>2, <2>2, <3>1 DEF Out, StillParted
    <3>2. CASE key[u] \notin parted
      <4>1. key[u] \in Paths /\ lock[u] = queues[key[u]] /\ lock[u] \in Locks
        BY <2>2, <3>2 DEF Named, NamedOK, Lines
      <4>2. InLine(u, lock[u])'
        BY <2>1, <2>2, OutLines DEF Lines
      <4>3. waiting'[lock[u]] # <<>>
        BY <4>2, <2>1 DEF InLine
      <4> QED BY <4>1, <4>3 DEF Out, Freed
    <3> QED BY <3>1, <3>2
  <2> QED BY <2>1, <2>2 DEF Named, NamedOK
<1> QED BY <1>1, <1>2

LEMMA NextNamed ==
  ASSUME QueueInv, [QueueNext]_queueVars
  PROVE  Named'
<1>1. ASSUME NEW f \in Files, Create(f) \/ Delete(f) PROVE Named'
  BY <1>1 DEF Create, Delete, taskVars, QueueInv, Named, NamedOK
<1>2. ASSUME NEW t \in Tasks, Leave(t) \/ Abandon(t) PROVE Named'
  BY <1>2, OutNamed DEF Leave, Abandon
<1>3. ASSUME NEW t \in Tasks, Canonicalize(t) \/ Scan(t) PROVE Named'
  <2>1. \E path : path \in Paths
    BY <1>3 DEF Canonicalize, Scan, QueueInv, Named, NamedOK
  <2> QED BY <1>3, <2>1, AskNamed
<1>4. CASE UNCHANGED queueVars
  BY <1>4 DEF queueVars, taskVars, QueueInv, Named, NamedOK
<1> QED BY <1>1, <1>2, <1>3, <1>4, AskNamed, CleanNamed, TakeNamed
        DEF QueueNext, Advance

----------------------------------------------------------------------------
LEMMA Invariance == QueueSpec => []QueueInv
<1>1. QueueInv /\ [QueueNext]_queueVars => QueueInv'
  BY NextTypes, NextLines, NextNamed DEF QueueInv
<1> QED BY <1>1, InitInv, PTL DEF QueueSpec

\* Every variable has its type, who is queued is in the line of its lock and in
\* no other, and once, and the map keeps to its limit.
THEOREM QueueType == QueueSpec => []QueueTypeOK
<1>1. ASSUME QueueInv PROVE QueueTypeOK
  <2>1. ASSUME NEW t \in Tasks, NEW l \in Locks
        PROVE  Cardinality({i \in DOMAIN waiting[l] : waiting[l][i] = t})
                 = IF pc[t] = "queued" /\ lock[t] = l THEN 1 ELSE 0
    <3> DEFINE places == {i \in DOMAIN waiting[l] : waiting[l][i] = t}
    <3>1. CASE pc[t] = "queued" /\ lock[t] = l
      <4>1. PICK i \in DOMAIN waiting[l] : waiting[l][i] = t
        BY <1>1, <3>1 DEF QueueInv, Lines, InLine
      <4>2. places = {i}
        BY <1>1, <4>1 DEF QueueInv, Lines, LineOf
      <4>3. Cardinality({i}) = 1
        BY FS_Singleton
      <4> QED BY <3>1, <4>2, <4>3
    <3>2. CASE ~(pc[t] = "queued" /\ lock[t] = l)
      <4>1. places = {}
        BY <1>1, <3>2 DEF QueueInv, Lines, LineOf
      <4> QED BY <3>2, <4>1, FS_EmptySet
    <3> QED BY <3>1, <3>2
  <2> QED BY <1>1, <2>1 DEF QueueInv, PlainTypes, QueueTypeOK
<1> QED BY <1>1, Invariance, PTL

\* Two tasks that hold locks for one path hold the same lock, unless the map
\* lost the path's lock in use: what the cleanup and the evictions of other
\* paths do, and files that are made and deleted, never part a path.
THEOREM EditsExclude == QueueSpec => []Serialized
<1>1. ASSUME QueueInv PROVE Serialized
  <2> SUFFICES ASSUME NEW t \in Tasks, NEW u \in Tasks, Holds(t), Holds(u),
                      key[t] = key[u], key[t] \notin parted
               PROVE  t = u
    BY DEF Serialized
  <2>1. lock[t] = lock[u]
    BY <1>1 DEF QueueInv, Named, NamedOK, Holds
  <2> QED BY <2>1 DEF Holds
<1> QED BY <1>1, Invariance, PTL

----------------------------------------------------------------------------
(* The order of a line.                                                    *)

LEMMA StepAhead ==
  ASSUME QueueInv, [QueueNext]_queueVars, NEW t \in Tasks,
         pc[t] = "queued", pc'[t] = "queued"
  PROVE  Ahead(t)' \subseteq Ahead(t)
<1> DEFINE line == waiting[lock[t]]
<1>1. lock[t] \in Locks /\ line \in Seq(Tasks)
  BY DEF QueueInv, Lines, PlainTypes
<1>2. DOMAIN lock = Tasks /\ DOMAIN pc = Tasks /\ DOMAIN waiting = Locks
  BY DEF QueueInv, PlainTypes
<1>3. CASE Aside
  BY <1>3 DEF Aside, Ahead
<1>4. ASSUME NEW u \in Tasks, Take(u) PROVE Ahead(t)' \subseteq Ahead(t)
  <2>1. u # t
    BY <1>4 DEF Take
  <2>2. lock'[t] = lock[t]
    BY <1>2, <1>4, <2>1 DEF Take
  <2>3. waiting'[lock[t]] \in {line, Append(line, u)}
    BY <1>1, <1>2, <1>4 DEF Take, Joined
  <2>4. CASE waiting'[lock[t]] = line
    BY <2>2, <2>4 DEF Ahead
  <2>5. CASE waiting'[lock[t]] = Append(line, u)
    <3> HIDE DEF line
    <3>1. /\ DOMAIN line = 1..Len(line) /\ DOMAIN Append(line, u) = 1..Len(line) + 1
          /\ Len(line) \in Nat /\ Append(line, u)[Len(line) + 1] = u
          /\ \A i \in 1..Len(line) : Append(line, u)[i] = line[i]
      BY <1>1
    <3>2. ASSUME NEW j \in 1..Len(line) + 1, NEW n \in 1..Len(line) + 1, j < n,
                 Append(line, u)[n] = t
          PROVE  j \in 1..Len(line) /\ n \in 1..Len(line)
      BY <2>1, <3>1, <3>2
    <3> QED BY ZenonT(60), <2>2, <2>5, <3>1, <3>2 DEF Ahead, line
  <2> QED BY <2>3, <2>4, <2>5
<1>5. ASSUME NEW u \in Tasks, Out(u) PROVE Ahead(t)' \subseteq Ahead(t)
  <2>1. u # t
    BY <1>2, <1>5 DEF Out
  <2>2. lock'[t] = lock[t] /\ waiting'[lock[t]] = Others(line, u)
    BY <1>1, <1>2, <1>5, <2>1 DEF Out
  <2> DEFINE r == Others(line, u)
  <2>3. PICK at \in [DOMAIN r -> DOMAIN line] :
          /\ \A i \in DOMAIN r : r[i] = line[at[i]]
          /\ \A i, j \in DOMAIN r : i < j => at[i] < at[j]
    <3> HIDE DEF line
    <3> QED BY <1>1, OthersLine
  <2> HIDE DEF r
  <2>4. ASSUME NEW j \in DOMAIN r, NEW n \in DOMAIN r, j < n, r[n] = t
        PROVE  r[j] \in Ahead(t)
    <3>1. /\ at[j] \in DOMAIN line /\ at[n] \in DOMAIN line /\ at[j] < at[n]
          /\ line[at[n]] = t /\ r[j] = line[at[j]]
      BY <2>3, <2>4
    <3> QED BY <3>1 DEF Ahead
  <2> QED BY <2>2, <2>4 DEF Ahead, r
<1> QED BY <1>3, <1>4, <1>5, StepKinds

\* Whoever waits for a lock has nobody new before it, whatever happens to the
\* others of its line.
THEOREM NobodyOvertakes == QueueSpec => NoOvertaking
<1>1. QueueInv /\ [QueueNext]_queueVars =>
        [\A t \in Tasks : pc[t] = "queued" /\ pc'[t] = "queued" =>
                             Ahead(t)' \subseteq Ahead(t)]_queueVars
  BY StepAhead
<1> QED BY <1>1, Invariance, PTL DEF QueueSpec, NoOvertaking
=============================================================================
