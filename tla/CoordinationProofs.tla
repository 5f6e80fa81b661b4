-------------------------- MODULE CoordinationProofs ------------------------
(***************************************************************************)
(* What a work queue, a shared memory, a group of agents and their votes   *)
(* guarantee for any number of agents, items, retries, users and values.   *)
(***************************************************************************)
EXTENDS CoordinatedGroup, Consensus, SequenceLemmas

----------------------------------------------------------------------------
(* The work queue.                                                         *)

QueueOK == QueueTypeOK /\ OneWorkerPerAttempt

USE QueueAssumption DEF Statuses, Items, Jobs

LEMMA InitQueue == QueueInit => QueueOK
BY DEF QueueInit, QueueOK, QueueTypeOK, OneWorkerPerAttempt, Holds, Out

LEMMA ItemOfQueue ==
  ASSUME items \in Seq(Items), NEW i \in DOMAIN items
  PROVE  /\ items[i] \in Items /\ i \in Nat /\ 1 <= i /\ i <= Len(items)
         /\ Len(items) \in Nat
<1>1. DOMAIN items = 1..Len(items) /\ Len(items) \in Nat
  BY LenProperties
<1>2. items[i] \in Items
  BY <1>1, ElementOfSeq
<1> QED BY <1>1, <1>2

\* A change of one item.
LEMMA ChangeItem ==
  ASSUME items \in Seq(Items), NEW i \in DOMAIN items, NEW e \in Items,
         items' = [items EXCEPT ![i] = e]
  PROVE  /\ items' \in Seq(Items) /\ Len(items') = Len(items)
         /\ DOMAIN items' = DOMAIN items /\ items'[i] = e
         /\ \A j \in DOMAIN items \ {i} : items'[j] = items[j]
BY ExceptSeq, ItemOfQueue, LenProperties

\* New items leave the others as they are.
LEMMA AppendItems ==
  ASSUME items \in Seq(Items), NEW n \in Nat, NEW p \in Priorities,
         items' = items \o Added(n, p), Len(items) + n <= MaxItems
  PROVE  /\ items' \in Seq(Items) /\ Len(items') <= MaxItems
         /\ DOMAIN items \subseteq DOMAIN items'
         /\ \A i \in DOMAIN items : items'[i] = items[i]
<1>1. Added(n, p) \in Seq(Items) /\ Len(Added(n, p)) = n
  BY DEF Added
<1> QED BY <1>1

LEMMA EnqueueQueue ==
  ASSUME QueueOK, NEW p \in Priorities, Enqueue(p)
  PROVE  QueueOK'
<1> USE DEF QueueOK, QueueTypeOK, OneWorkerPerAttempt, Holds
<1>1. items' = items \o Added(1, p) /\ Len(items) + 1 <= MaxItems /\ job' = job
  BY DEF Enqueue
<1>2. /\ items' \in Seq(Items) /\ Len(items') <= MaxItems
      /\ DOMAIN items \subseteq DOMAIN items'
      /\ \A i \in DOMAIN items : items'[i] = items[i]
  BY <1>1, AppendItems
<1>3. QueueTypeOK'
  BY <1>1, <1>2
<1>4. OneWorkerPerAttempt'
  BY <1>1, <1>2
<1> QED BY <1>3, <1>4

\* All tasks are new and have no item yet.
LEMMA FanOutQueue ==
  ASSUME QueueOK, NEW n \in Nat, FanOut(n)
  PROVE  QueueOK'
<1> USE DEF QueueOK, QueueTypeOK, OneWorkerPerAttempt, Holds, Out
<1>1. items' \in Seq(Items) /\ Len(items') <= MaxItems
  BY AppendItems DEF FanOut
<1>2. job' \in [Agents -> Jobs] /\ \A a \in Agents : job'[a].pc = "claim"
  BY DEF FanOut
<1> QED BY <1>1, <1>2

\* The item was pending: nobody has reached its attempt.
LEMMA ClaimQueue ==
  ASSUME QueueOK, NEW a \in Agents, NEW i \in DOMAIN items, Claim(a, i)
  PROVE  QueueOK'
<1> USE DEF QueueOK, QueueTypeOK, OneWorkerPerAttempt, Holds
<1>1. items[i].status = "pending" /\ items[i] \in Items /\ i \in 1..MaxItems
  BY ItemOfQueue DEF Claim, Best, IsPending
<1>2. /\ items' \in Seq(Items) /\ DOMAIN items' = DOMAIN items /\ Len(items') = Len(items)
      /\ \A j \in DOMAIN items : items'[j].retries = items[j].retries
      /\ items'[i].status = "claimed"
      /\ \A j \in DOMAIN items \ {i} : items'[j] = items[j]
  <2>1. [items[i] EXCEPT !.status = "claimed"] \in Items
    BY <1>1
  <2>2. items' = [items EXCEPT ![i] = [items[i] EXCEPT !.status = "claimed"]]
    BY DEF Claim
  <2> QED BY <1>1, <2>1, <2>2, ChangeItem
<1>3. /\ job' \in [Agents -> Jobs]
      /\ job'[a] = [pc |-> "start", item |-> i, attempt |-> items[i].retries]
      /\ \A b \in Agents \ {a} : job'[b] = job[b]
  BY <1>1 DEF Claim
<1>4. QueueTypeOK'
  <2>1. ASSUME NEW b \in Agents, Holds(b)'
        PROVE  job'[b].item \in DOMAIN items /\ job'[b].attempt <= items[job'[b].item].retries
    <3>1. CASE b = a
      BY <1>1, <1>3, <3>1
    <3>2. CASE b # a
      BY <1>3, <2>1, <3>2
    <3> QED BY <3>1, <3>2
  <2> QED BY <1>2, <1>3, <2>1
<1>5. \A b \in Agents \ {a} : Holds(b) /\ job[b].item = i => job[b].attempt # items[i].retries
  BY <1>1
<1>6. OneWorkerPerAttempt'
  <2>1. ASSUME NEW b \in Agents, Holds(b)', job'[b].attempt = items'[job'[b].item].retries
        PROVE  items'[job'[b].item].status # "pending"
    <3>1. CASE job'[b].item = i
      BY <1>2, <3>1
    <3>2. CASE job'[b].item # i
      <4>1. b # a
        BY <1>3, <3>2
      <4>2. Holds(b) /\ job[b] = job'[b]
        BY <1>3, <2>1, <4>1
      <4> QED BY SMTT(30), <1>2, <2>1, <3>2, <4>2
    <3> QED BY <3>1, <3>2
  <2>2. ASSUME NEW b \in Agents, NEW c \in Agents \ {b}, Holds(b)', Holds(c)',
               job'[c].item = job'[b].item
        PROVE  job'[c].attempt # job'[b].attempt
    <3>1. CASE b = a
      BY <1>3, <1>5, <2>2, <3>1
    <3>2. CASE c = a
      BY <1>3, <1>5, <2>2, <3>2
    <3>3. CASE b # a /\ c # a
      BY <1>3, <2>2, <3>3
    <3> QED BY <3>1, <3>2, <3>3
  <2> QED BY <2>1, <2>2
<1> QED BY <1>4, <1>6

\* The further steps of a worker.
LEMMA WorkerQueue ==
  ASSUME QueueOK, NEW a \in Agents, ClaimNone(a) \/ Start(a) \/ Complete(a)
  PROVE  QueueOK'
<1> USE DEF QueueOK, QueueTypeOK, OneWorkerPerAttempt, Holds
<1>1. CASE ClaimNone(a)
  <2>1. /\ items' = items /\ job' \in [Agents -> Jobs] /\ job'[a].pc = "end"
        /\ \A b \in Agents \ {a} : job'[b] = job[b]
    BY <1>1 DEF ClaimNone
  <2> QED BY <2>1
<1>2. CASE Start(a)
  <2> DEFINE i == job[a].item
  <2>1. i \in DOMAIN items /\ items[i] \in Items
    BY <1>2, ItemOfQueue DEF Start
  <2>2. /\ items' \in Seq(Items) /\ DOMAIN items' = DOMAIN items /\ Len(items') = Len(items)
        /\ \A j \in DOMAIN items : items'[j].retries = items[j].retries
        /\ \A j \in DOMAIN items : items'[j].status = "pending" => items[j].status = "pending"
    <3>1. CASE Startable(i)
      <4>1. [items[i] EXCEPT !.status = "started"] \in Items
        BY <2>1
      <4>2. items' = [items EXCEPT ![i] = [items[i] EXCEPT !.status = "started"]]
        BY <1>2, <3>1 DEF Start
      <4> QED BY <2>1, <4>1, <4>2, ChangeItem
    <3>2. CASE ~Startable(i)
      BY <1>2, <3>2 DEF Start
    <3> QED BY <3>1, <3>2
  <2>3. /\ job' \in [Agents -> Jobs]
        /\ \A b \in Agents : job'[b].item = job[b].item /\ job'[b].attempt = job[b].attempt
        /\ \A b \in Agents : job'[b].pc \in {"start", "run"} => Holds(b)
    BY <1>2 DEF Start
  <2> QED BY SMTT(30), <2>2, <2>3
<1>3. CASE Complete(a)
  <2> DEFINE i == job[a].item
  <2>1. i \in DOMAIN items /\ items[i] \in Items
    BY <1>3, ItemOfQueue DEF Complete
  <2>2. /\ items' \in Seq(Items) /\ DOMAIN items' = DOMAIN items /\ Len(items') = Len(items)
        /\ \A j \in DOMAIN items : items'[j].retries = items[j].retries
        /\ \A j \in DOMAIN items : items'[j].status = "pending" => items[j].status = "pending"
    <3>1. [items[i] EXCEPT !.status = "completed"] \in Items
      BY <2>1
    <3>2. items' = [items EXCEPT ![i] = [items[i] EXCEPT !.status = "completed"]]
      BY <1>3 DEF Complete
    <3> QED BY <2>1, <3>1, <3>2, ChangeItem
  <2>3. /\ job' \in [Agents -> Jobs]
        /\ \A b \in Agents : job'[b].item = job[b].item /\ job'[b].attempt = job[b].attempt
        /\ \A b \in Agents : job'[b].pc \in {"start", "run"} => Holds(b)
    BY <1>3 DEF Complete
  <2> QED BY <2>2, <2>3
<1> QED BY <1>1, <1>2, <1>3

\* A retry starts an attempt that no worker has reached.
LEMMA RetryQueue ==
  ASSUME QueueOK, NEW i \in DOMAIN items, Retry(i)
  PROVE  QueueOK'
<1> USE DEF QueueOK, QueueTypeOK, OneWorkerPerAttempt, Holds
<1>1. items[i] \in Items /\ items[i].retries + 1 \in 0..MaxRetries
  BY ItemOfQueue DEF Retry, MayRetry
<1>2. /\ items' \in Seq(Items) /\ DOMAIN items' = DOMAIN items /\ Len(items') = Len(items)
      /\ items'[i].retries = items[i].retries + 1 /\ job' = job
      /\ \A j \in DOMAIN items \ {i} : items'[j] = items[j]
  <2> DEFINE e == [items[i] EXCEPT !.retries = items[i].retries + 1, !.status = "pending"]
  <2>1. e \in Items /\ e.retries = items[i].retries + 1
    BY <1>1
  <2>2. items' = [items EXCEPT ![i] = e] /\ job' = job
    BY <1>1 DEF Retry
  <2> HIDE DEF e
  <2> QED BY <2>1, <2>2, ChangeItem
<1>3. ASSUME NEW a \in Agents, Holds(a)
      PROVE  /\ job[a].item \in DOMAIN items /\ job[a].attempt \in Nat
             /\ job[a].attempt <= items'[job[a].item].retries
             /\ job[a].item = i => job[a].attempt < items'[i].retries
  <2>1. job[a].item \in DOMAIN items /\ job[a].attempt \in Nat /\ items[i].retries \in Nat
    BY <1>1, <1>3
  <2>2. CASE job[a].item = i
    BY <1>2, <1>3, <2>1, <2>2
  <2>3. CASE job[a].item # i
    BY <1>2, <1>3, <2>1, <2>3
  <2> QED BY <2>1, <2>2, <2>3
<1>4. QueueTypeOK'
  BY <1>2, <1>3
<1>5. OneWorkerPerAttempt'
  <2>1. ASSUME NEW a \in Agents, Holds(a), job[a].attempt = items'[job[a].item].retries
        PROVE  items'[job[a].item].status # "pending"
    <3>1. job[a].item \in DOMAIN items \ {i}
      BY <1>2, <1>3, <2>1
    <3> QED BY <1>2, <2>1, <3>1
  <2> QED BY <1>2, <2>1
<1> QED BY <1>4, <1>5

LEMMA CancelQueue ==
  ASSUME QueueOK, NEW i \in DOMAIN items, Cancel(i)
  PROVE  QueueOK'
<1> USE DEF QueueOK, QueueTypeOK, OneWorkerPerAttempt, Holds
<1>1. items[i] \in Items
  BY ItemOfQueue
<1>2. /\ items' \in Seq(Items) /\ DOMAIN items' = DOMAIN items /\ Len(items') = Len(items)
      /\ \A j \in DOMAIN items : items'[j].retries = items[j].retries
      /\ \A j \in DOMAIN items : items'[j].status = "pending" => items[j].status = "pending"
      /\ job' = job
  <2>1. [items[i] EXCEPT !.status = "cancelled"] \in Items
    BY <1>1
  <2>2. items' = [items EXCEPT ![i] = [items[i] EXCEPT !.status = "cancelled"]] /\ job' = job
    BY DEF Cancel
  <2> QED BY <1>1, <2>1, <2>2, ChangeItem
<1> QED BY <1>2

LEMMA MeddleQueue ==
  ASSUME QueueOK, NEW i \in DOMAIN items, NEW status \in Statuses, Meddle(i, status)
  PROVE  QueueOK'
<1> USE DEF QueueOK, QueueTypeOK, OneWorkerPerAttempt, Holds
<1>1. items[i] \in Items
  BY ItemOfQueue
<1>2. /\ items' \in Seq(Items) /\ DOMAIN items' = DOMAIN items /\ Len(items') = Len(items)
      /\ \A j \in DOMAIN items : items'[j].retries = items[j].retries
      /\ \A j \in DOMAIN items : items'[j].status = "pending" => items[j].status = "pending"
      /\ job' = job
  <2> DEFINE e == [items[i] EXCEPT !.status = status]
  <2>1. /\ e \in Items /\ e.retries = items[i].retries
        /\ e.status = "pending" => items[i].status = "pending"
    BY <1>1 DEF Meddle
  <2>2. items' = [items EXCEPT ![i] = e] /\ job' = job
    BY DEF Meddle
  <2> HIDE DEF e
  <2> QED BY <1>1, <2>1, <2>2, ChangeItem
<1> QED BY <1>2
----------------------------------------------------------------------------
(* The shared memory.                                                      *)

USE MemoryAssumption

\* What a user has seen of an entry that was not deleted since.
SeenFits ==
  \A u \in Users : seen[u] # NotRead /\ deleted <= seen[u].changes =>
    seen[u].version = seen[u].changes - deleted

MemoryOK == MemoryTypeOK /\ SeenFits

LEMMA InitMemory == MemoryInit => MemoryOK
BY DEF MemoryInit, MemoryOK, MemoryTypeOK, SeenFits, NotRead

LEMMA NextMemory == MemoryOK /\ [MemoryNext]_memoryVars => MemoryOK'
<1> SUFFICES ASSUME MemoryOK, [MemoryNext]_memoryVars PROVE MemoryOK'
  OBVIOUS
<1> USE DEF MemoryOK, MemoryTypeOK, SeenFits, NotRead, Change
<1>1. CASE Overwrite
  BY <1>1 DEF Overwrite
<1>2. CASE Delete
  BY <1>2 DEF Delete
<1>3. CASE \E u \in Users : ReadEntry(u)
  BY <1>3 DEF ReadEntry
<1>4. CASE \E u \in Users : WriteSeen(u)
  BY <1>4 DEF WriteSeen
<1>5. CASE \E u \in Users : Conflict(u)
  BY <1>5 DEF Conflict
<1>6. CASE UNCHANGED memoryVars
  BY <1>6 DEF memoryVars
<1> QED BY <1>1, <1>2, <1>3, <1>4, <1>5, <1>6 DEF MemoryNext

\* What NothingOverwritten says of a step.
Unforced ==
  \A u \in Users : seen[u] # NotRead /\ seen'[u] = NotRead /\ changes' # changes =>
    seen[u].changes = changes \/ deleted > seen[u].changes

LEMMA StepUnforced == MemoryOK /\ [MemoryNext]_memoryVars => Unforced
<1> SUFFICES ASSUME MemoryOK, [MemoryNext]_memoryVars, NEW u \in Users,
                    seen[u] # NotRead, seen'[u] = NotRead, changes' # changes
             PROVE  seen[u].changes = changes \/ deleted > seen[u].changes
  BY DEF Unforced
<1> USE DEF MemoryOK, MemoryTypeOK, SeenFits
<1>1. WriteSeen(u)
  <2>1. CASE \E w \in Users : WriteSeen(w)
    BY <2>1 DEF WriteSeen
  <2>2. CASE ~\E w \in Users : WriteSeen(w)
    BY <2>2 DEF MemoryNext, Overwrite, Delete, ReadEntry, Conflict, memoryVars
  <2> QED BY <2>1, <2>2
<1>2. seen[u].version = changes - deleted
  BY <1>1 DEF WriteSeen, Matches
<1> QED BY <1>2

----------------------------------------------------------------------------
(* The group.                                                              *)

GroupInv == QueueOK /\ MemoryOK /\ GroupTypeOK

\* A step of the group is one of the queue, of the memory, or of neither.
LEMMA QueueOrMemory ==
  ASSUME GroupInv, [GroupNext]_groupVars
  PROVE  QueueOK' /\ [MemoryNext]_memoryVars
<1> USE DEF GroupInv
<1>1. CASE Distribute
  <2>1. PICK n \in 0..MaxPayloads : FanOut(n)
    BY <1>1 DEF Distribute
  <2>2. QueueOK'
    BY <2>1, FanOutQueue, GroupAssumption
  <2> QED BY <1>1, <2>2 DEF Distribute
<1>2. CASE Collect
  <2>1. QueueOK'
    BY <1>2 DEF Collect, QueueOK, QueueTypeOK, OneWorkerPerAttempt, Holds, Out
  <2> QED BY <1>2, <2>1 DEF Collect
<1>3. CASE Store
  <2>1. QueueOK'
    BY <1>3 DEF Store, queueVars, QueueOK, QueueTypeOK, OneWorkerPerAttempt, Holds
  <2> QED BY <1>3, <2>1 DEF Store, MemoryNext
<1>4. CASE Interfere /\ UNCHANGED <<memoryVars, stage, collected>>
  <2>1. QueueOK'
    BY <1>4, EnqueueQueue, RetryQueue, CancelQueue, MeddleQueue DEF Interfere
  <2> QED BY <1>4, <2>1
<1>5. CASE MemoryNext /\ UNCHANGED <<queueVars, stage, collected>>
  <2>1. QueueOK'
    BY <1>5 DEF queueVars, QueueOK, QueueTypeOK, OneWorkerPerAttempt, Holds
  <2> QED BY <1>5, <2>1
<1>6. CASE \E a \in Agents : Agent(a)
  <2>1. QueueOK'
    BY <1>6, ClaimQueue, WorkerQueue DEF Agent, Work
  <2> QED BY <1>6, <2>1 DEF Agent
<1>7. CASE UNCHANGED groupVars
  <2>1. QueueOK'
    BY <1>7 DEF groupVars, queueVars, QueueOK, QueueTypeOK, OneWorkerPerAttempt, Holds
  <2> QED BY <1>7, <2>1 DEF groupVars
<1> QED BY <1>1, <1>2, <1>3, <1>4, <1>5, <1>6, <1>7 DEF GroupNext, Others

\* The first attempt at an item, once over, is not taken up again.
Settled(i) == items[i].retries = 0 => items[i].status \in {"completed", "cancelled"}
StaysSettled(i) == i \in DOMAIN items' /\ (Settled(i) => Settled(i)')

LEMMA ChangeSettled ==
  ASSUME items \in Seq(Items), NEW j \in DOMAIN items, NEW e \in Items,
         items' = [items EXCEPT ![j] = e],
         Settled(j) /\ e.retries = 0 => e.status \in {"completed", "cancelled"},
         NEW i \in DOMAIN items
  PROVE  StaysSettled(i)
<1>1. /\ DOMAIN items' = DOMAIN items /\ items'[j] = e
      /\ \A k \in DOMAIN items \ {j} : items'[k] = items[k]
  BY ChangeItem
<1>2. CASE i = j
  BY <1>1, <1>2 DEF StaysSettled, Settled
<1>3. CASE i # j
  BY <1>1, <1>3 DEF StaysSettled, Settled
<1> QED BY <1>2, <1>3

LEMMA AppendSettled ==
  ASSUME items \in Seq(Items), NEW n \in Nat, NEW p \in Priorities,
         items' = items \o Added(n, p), Len(items) + n <= MaxItems,
         NEW i \in DOMAIN items
  PROVE  StaysSettled(i)
BY AppendItems DEF StaysSettled, Settled

LEMMA WorkSettled ==
  ASSUME QueueOK, NEW a \in Agents, Work(a), NEW i \in DOMAIN items
  PROVE  StaysSettled(i)
<1> USE DEF QueueOK, QueueTypeOK
<1>1. CASE \E j \in DOMAIN items : Claim(a, j)
  <2>1. PICK j \in DOMAIN items : Claim(a, j)
    BY <1>1
  <2>2. items[j] \in Items /\ items[j].status = "pending"
    BY <2>1, ItemOfQueue DEF Claim, Best, IsPending
  <2> DEFINE e == [items[j] EXCEPT !.status = "claimed"]
  <2>3. e \in Items /\ e.retries = items[j].retries
    BY <2>2
  <2>4. items' = [items EXCEPT ![j] = e]
    BY <2>1 DEF Claim
  <2>5. Settled(j) => e.retries # 0
    BY <2>2, <2>3 DEF Settled
  <2> HIDE DEF e
  <2> QED BY <2>3, <2>4, <2>5, ChangeSettled
<1>2. CASE ClaimNone(a)
  BY <1>2 DEF ClaimNone, StaysSettled, Settled
<1>3. CASE Start(a)
  <2> DEFINE j == job[a].item  e == [items[j] EXCEPT !.status = "started"]
  <2>1. j \in DOMAIN items /\ items[j] \in Items
    BY <1>3, ItemOfQueue DEF Start, Holds
  <2>2. CASE Startable(j)
    <3>1. e \in Items /\ e.retries = items[j].retries
      BY <2>1
    <3>2. items' = [items EXCEPT ![j] = e]
      BY <1>3, <2>2 DEF Start
    <3>3. Settled(j) => e.retries # 0
      BY <2>2, <3>1 DEF Settled, Startable
    <3> HIDE DEF e, j
    <3> QED BY <2>1, <3>1, <3>2, <3>3, ChangeSettled
  <2>3. CASE ~Startable(j)
    BY <1>3, <2>3 DEF Start, StaysSettled, Settled
  <2> QED BY <2>2, <2>3
<1>4. CASE Complete(a)
  <2> DEFINE j == job[a].item  e == [items[j] EXCEPT !.status = "completed"]
  <2>1. j \in DOMAIN items /\ items[j] \in Items
    BY <1>4, ItemOfQueue DEF Complete, Holds
  <2>2. e \in Items /\ e.status = "completed"
    BY <2>1
  <2>3. items' = [items EXCEPT ![j] = e]
    BY <1>4 DEF Complete
  <2> HIDE DEF e, j
  <2> QED BY <2>1, <2>2, <2>3, ChangeSettled
<1> QED BY <1>1, <1>2, <1>3, <1>4 DEF Work

LEMMA InterfereSettled ==
  ASSUME QueueOK, Interfere, NEW i \in DOMAIN items
  PROVE  StaysSettled(i)
<1> USE DEF QueueOK, QueueTypeOK
<1>1. CASE \E p \in Priorities : Enqueue(p)
  <2>1. PICK p \in Priorities : Enqueue(p)
    BY <1>1
  <2>2. items' = items \o Added(1, p) /\ Len(items) + 1 <= MaxItems
    BY <2>1 DEF Enqueue
  <2> QED BY <2>2, AppendSettled
<1>2. CASE \E j \in DOMAIN items : Retry(j)
  <2>1. PICK j \in DOMAIN items : Retry(j)
    BY <1>2
  <2> DEFINE e == [items[j] EXCEPT !.retries = items[j].retries + 1, !.status = "pending"]
  <2>2. e \in Items /\ e.retries # 0
    <3>1. items[j] \in Items /\ items[j].retries + 1 \in 0..MaxRetries
      BY <2>1, ItemOfQueue DEF Retry, MayRetry
    <3>2. e \in Items /\ e.retries = items[j].retries + 1
      BY <3>1
    <3>3. items[j].retries \in Nat
      BY <3>1
    <3> HIDE DEF e
    <3> QED BY <3>2, <3>3
  <2>3. items' = [items EXCEPT ![j] = e]
    BY <2>1 DEF Retry
  <2> HIDE DEF e
  <2> QED BY <2>2, <2>3, ChangeSettled
<1>3. CASE \E j \in DOMAIN items : Cancel(j)
  <2>1. PICK j \in DOMAIN items : Cancel(j)
    BY <1>3
  <2> DEFINE e == [items[j] EXCEPT !.status = "cancelled"]
  <2>2. e \in Items /\ e.status = "cancelled"
    BY ItemOfQueue
  <2>3. items' = [items EXCEPT ![j] = e]
    BY <2>1 DEF Cancel
  <2> HIDE DEF e
  <2> QED BY <2>2, <2>3, ChangeSettled
<1>4. CASE \E j \in DOMAIN items : \E status \in Statuses : Meddle(j, status)
  <2>1. PICK j \in DOMAIN items, status \in Statuses : Meddle(j, status)
    BY <1>4
  <2> DEFINE e == [items[j] EXCEPT !.status = status]
  <2>2. e \in Items /\ e.status = status /\ e.retries = items[j].retries
    BY ItemOfQueue
  <2>3. Settled(j) /\ e.retries = 0 => e.status \in {"completed", "cancelled"}
    BY <2>1, <2>2 DEF Settled, Meddle, Best, IsPending, Startable
  <2>4. items' = [items EXCEPT ![j] = e]
    BY <2>1 DEF Meddle
  <2> HIDE DEF e
  <2> QED BY <2>2, <2>3, <2>4, ChangeSettled
<1> QED BY <1>1, <1>2, <1>3, <1>4 DEF Interfere

LEMMA StepSettled ==
  ASSUME GroupInv, [GroupNext]_groupVars, NEW i \in DOMAIN items
  PROVE  StaysSettled(i)
<1>1. CASE Distribute
  <2>1. PICK n \in 0..MaxPayloads : FanOut(n)
    BY <1>1 DEF Distribute
  <2>2. items' = items \o Added(n, 0) /\ Len(items) + n <= MaxItems /\ n \in Nat
    BY <2>1, GroupAssumption DEF FanOut
  <2> QED BY <2>2, AppendSettled DEF GroupInv, QueueOK, QueueTypeOK
<1>2. CASE UNCHANGED items
  BY <1>2 DEF StaysSettled, Settled
<1>3. CASE Interfere \/ \E a \in Agents : Work(a)
  BY <1>3, InterfereSettled, WorkSettled DEF GroupInv
<1> QED BY <1>1, <1>2, <1>3
      DEF GroupNext, Others, Agent, Collect, Store, groupVars, queueVars

\* What the group's tasks have ended with, and what a call has returned.
Harvest ==
  /\ \A a \in Agents : job[a].pc = "claim" => job[a].item = 0
  /\ \A a \in Agents : job[a].pc = "end" /\ job[a].item # 0 =>
       job[a].item \in DOMAIN items /\ Settled(job[a].item)
  /\ \A i \in collected : i \in DOMAIN items /\ Settled(i)

GroupStages ==
  /\ stage \in {"idle", "collecting", "storing"}
  /\ \A a \in Agents : (job[a].pc # "out") = (stage = "collecting")

Inv == QueueOK /\ MemoryOK /\ GroupStages /\ Harvest

LEMMA InvImplies == Inv => GroupInv /\ ReturnedIsSettled
BY DEF Inv, GroupInv, GroupStages, Harvest, Settled, GroupTypeOK, QueueOK, MemoryOK,
       ReturnedIsSettled

LEMMA InitInv == GroupInit => Inv
<1> SUFFICES ASSUME GroupInit PROVE Inv
  OBVIOUS
<1>1. QueueOK /\ MemoryOK
  BY InitQueue, InitMemory DEF GroupInit
<1>2. GroupStages /\ Harvest
  BY DEF GroupInit, QueueInit, GroupStages, Harvest, Out
<1> QED BY <1>1, <1>2 DEF Inv

LEMMA StepStages ==
  ASSUME Inv, [GroupNext]_groupVars
  PROVE  GroupStages'
<1> USE DEF Inv, GroupStages, QueueOK, QueueTypeOK
<1>1. CASE Distribute
  BY <1>1 DEF Distribute, FanOut, Out
<1>2. CASE Collect
  BY <1>2 DEF Collect, Out
<1>3. CASE Store
  BY <1>3 DEF Store, queueVars
<1>4. CASE Others
  BY <1>4 DEF Others, Interfere, Enqueue, Retry, Cancel, Meddle, queueVars
<1>5. CASE \E a \in Agents : Agent(a)
  <2>1. PICK a \in Agents : Agent(a)
    BY <1>5
  <2>2. /\ job[a].pc # "out" /\ job'[a].pc # "out" /\ stage' = stage
        /\ \A b \in Agents \ {a} : job'[b] = job[b]
    BY SMTT(30), <2>1 DEF Agent, Work, Claim, ClaimNone, Start, Complete
  <2> QED BY <2>2
<1>6. CASE UNCHANGED groupVars
  BY <1>6 DEF groupVars, queueVars
<1> QED BY <1>1, <1>2, <1>3, <1>4, <1>5, <1>6 DEF GroupNext

LEMMA StepHarvest ==
  ASSUME Inv, [GroupNext]_groupVars
  PROVE  Harvest'
<1> USE DEF Inv, Harvest, GroupStages, QueueOK, QueueTypeOK
<1>1. \A i \in DOMAIN items : StaysSettled(i)
  BY StepSettled, InvImplies
<1>2. CASE Distribute
  BY <1>2 DEF Distribute, FanOut, Out
<1>3. CASE Collect
  <2>1. items' = items /\ \A a \in Agents : job'[a] = Out
    BY <1>3 DEF Collect
  <2>2. ASSUME NEW i \in collected' PROVE i \in DOMAIN items /\ Settled(i)
    BY <1>3, <2>2 DEF Collect, Ended
  <2> QED BY <2>1, <2>2 DEF Settled, Out
<1>4. CASE job' = job /\ collected' = collected
  BY <1>1, <1>4 DEF StaysSettled
<1>5. CASE \E a \in Agents : Agent(a)
  <2>1. PICK a \in Agents : Agent(a)
    BY <1>5
  <2>2. collected' = collected /\ \A b \in Agents \ {a} : job'[b] = job[b]
    BY <2>1 DEF Agent, Work, Claim, ClaimNone, Start, Complete
  <2>3. CASE Complete(a)
    <3>1. /\ job[a].item \in DOMAIN items /\ job'[a].item = job[a].item
          /\ job'[a].pc = "end"
      BY <2>3 DEF Complete, Holds
    <3>2. [items[job[a].item] EXCEPT !.status = "completed"] \in Items
      BY <3>1, ItemOfQueue
    <3>3. Settled(job[a].item)'
      BY <2>3, <3>1, <3>2, ChangeItem DEF Complete, Settled
    <3> QED BY <1>1, <2>2, <3>1, <3>3 DEF StaysSettled
  <2>4. CASE ClaimNone(a)
    <3>1. job'[a].item = 0 /\ job'[a].pc = "end"
      BY <2>4 DEF ClaimNone
    <3> QED BY <1>1, <2>2, <3>1 DEF StaysSettled
  <2>5. CASE Start(a) \/ \E i \in DOMAIN items : Claim(a, i)
    <3>1. job'[a].pc \in {"start", "run"}
      BY <2>5 DEF Start, Claim
    <3> QED BY <1>1, <2>2, <3>1 DEF StaysSettled
  <2> QED BY <2>1, <2>3, <2>4, <2>5 DEF Agent, Work
<1> QED BY <1>2, <1>3, <1>4, <1>5
      DEF GroupNext, Others, Interfere, Enqueue, Retry, Cancel, Meddle, Store, groupVars, queueVars

LEMMA NextInv == Inv /\ [GroupNext]_groupVars => Inv'
<1> SUFFICES ASSUME Inv, [GroupNext]_groupVars PROVE Inv'
  OBVIOUS
<1>1. QueueOK' /\ [MemoryNext]_memoryVars
  BY QueueOrMemory, InvImplies
<1>2. MemoryOK'
  BY <1>1, NextMemory DEF Inv
<1> QED BY <1>1, <1>2, StepStages, StepHarvest DEF Inv

LEMMA Invariance == GroupSpec => []Inv
<1> QED BY InitInv, NextInv, PTL DEF GroupSpec

\* Type correctness of the group with its queue and its memory.
THEOREM GroupType == GroupSpec => []GroupTypeOK
<1>1. Inv => GroupTypeOK
  BY InvImplies DEF GroupInv
<1> QED BY <1>1, Invariance, PTL

\* However many agents work, and whatever others retry and cancel, no two are
\* at the same attempt of an item.
THEOREM Exclusive == GroupSpec => []OneWorkerPerAttempt
<1>1. Inv => OneWorkerPerAttempt
  BY DEF Inv, QueueOK
<1> QED BY <1>1, Invariance, PTL

\* What a call has returned is not worked on any more, unless it was retried.
THEOREM Returned == GroupSpec => []ReturnedIsSettled
<1>1. Inv => ReturnedIsSettled
  BY InvImplies
<1> QED BY <1>1, Invariance, PTL

\* A write with a version overwrites no change that its author has not seen,
\* deletions excepted.
THEOREM Versions == GroupSpec => NothingOverwritten
<1>1. Inv /\ [GroupNext]_groupVars => [Unforced]_memoryVars
  <2> SUFFICES ASSUME Inv, [GroupNext]_groupVars PROVE [Unforced]_memoryVars
    OBVIOUS
  <2>1. [MemoryNext]_memoryVars
    BY QueueOrMemory, InvImplies
  <2> QED BY <2>1, StepUnforced DEF Inv
<1> QED BY <1>1, Invariance, PTL DEF GroupSpec, NothingOverwritten, Unforced

----------------------------------------------------------------------------
(* Votes.                                                                  *)

USE ConsensusAssumption DEF Votes, NoVotes, Voters, Ids, Callers, NoId

\* The option a response is counted for is a response too.
LEMMA MatchedType ==
  ASSUME NEW r \in Responses
  PROVE  Matched(r) \in Responses
<1>1. CASE Hits(r) = {}
  BY <1>1 DEF Matched
<1>2. CASE Hits(r) # {}
  <2>1. Hits(r) \subseteq Nat /\ \A i \in Hits(r) : Options[i] \in Responses
    BY DEF Hits
  <2>2. \E i \in Hits(r) : \A j \in Hits(r) : i <= j
    BY <1>2, <2>1, Least
  <2> QED BY <1>2, <2>1, <2>2 DEF Matched
<1> QED BY <1>1, <1>2

LEMMA ResultsType == \A session : Results(session) \subseteq Responses \cup {Silence}
BY DEF Results

LEMMA InitVotes == VoteInit => VoteTypeOK
BY DEF VoteInit, VoteTypeOK

\* A response cast as a value of the type.
LEMMA CastType ==
  ASSUME VoteTypeOK, NEW c \in Callers, NEW r \in Responses, NEW v \in Responses,
         Cast(c, r, v), decision' \in [Callers -> Responses \cup {Silence}]
  PROVE  VoteTypeOK'
<1> DEFINE a == asked[c] + 1
<1> USE DEF VoteTypeOK
<1>1. /\ poll[c] = "asking" /\ asked[c] \in 0..Size /\ asked[c] < Size
      /\ asked' = [asked EXCEPT ![c] = a] /\ UNCHANGED <<voteId, poll>>
      /\ answers' = [answers EXCEPT ![c][a] = r]
      /\ sessions' = [sessions EXCEPT ![voteId[c]].votes[a] = v]
  BY DEF Cast, Ask
<1>2. a \in Voters /\ a \in 0..Size /\ voteId[c] \in Ids
  BY <1>1
<1> HIDE DEF a
<1>3. answers' \in [Callers -> Votes]
  BY <1>1, <1>2
<1>4. sessions' \in [Ids -> [needed : Nat, votes : Votes]]
  <2>1. sessions[voteId[c]] \in [needed : Nat, votes : Votes]
    BY <1>2
  <2>2. [sessions[voteId[c]] EXCEPT !.votes[a] = v] \in [needed : Nat, votes : Votes]
    BY <1>2, <2>1
  <2>3. sessions' = [sessions EXCEPT ![voteId[c]] = [sessions[voteId[c]] EXCEPT !.votes[a] = v]]
    BY <1>1
  <2> QED BY <1>2, <2>2, <2>3
<1>5. ASSUME NEW d \in Callers, NEW b \in Voters, answers'[d][b] # Silence
      PROVE  b <= asked'[d]
  <2>1. CASE d = c /\ b = a
    BY <2>1, <1>1, <1>2
  <2>2. CASE d = c /\ b # a
    <3>1. answers'[c][b] = answers[c][b] /\ asked'[c] = asked[c] + 1
      BY <2>2, <1>1, <1>2 DEF a
    <3> QED BY <3>1, <2>2, <1>1, <1>5
  <2>3. CASE d # c
    BY <2>3, <1>1, <1>5
  <2> QED BY <2>1, <2>2, <2>3
<1> QED BY <1>1, <1>2, <1>3, <1>4, <1>5

LEMMA NextVotes == VoteTypeOK /\ [VoteNext]_voteVars => VoteTypeOK'
<1> SUFFICES ASSUME VoteTypeOK, [VoteNext]_voteVars PROVE VoteTypeOK'
  OBVIOUS
<1>1. ASSUME NEW c \in Callers, NEW id \in Ids, NEW n \in Nat, Open(c, id, n)
      PROVE  VoteTypeOK'
  BY <1>1 DEF Open, VoteTypeOK
<1>2. CASE \E g \in Groups : StartVote(g)
  <2>1. Half \in Nat
    BY DEF Half
  <2> QED BY <1>1, <1>2, <2>1 DEF StartVote, FreshIds
<1>3. CASE \E s \in Steps : StartStep(s)
  BY <1>1, <1>3 DEF StartStep
<1>4. CASE \E g \in Groups, r \in Responses : Answer(g, r)
  <2>1. decision' \in [Callers -> Responses \cup {Silence}]
    BY <1>4 DEF Answer, VoteTypeOK
  <2> QED BY <1>4, <2>1, CastType, MatchedType DEF Answer
<1>5. CASE \E s \in Steps, r \in Responses : AnswerStep(s, r)
  <2>1. decision' \in [Callers -> Responses \cup {Silence}]
    BY <1>5, ResultsType DEF AnswerStep, VoteTypeOK
  <2> QED BY <1>5, <2>1, CastType DEF AnswerStep
<1>6. CASE \E c \in Callers : Abstain(c)
  BY <1>6 DEF Abstain, Ask, VoteTypeOK
<1>7. CASE \E c \in Callers : TakeResult(c)
  BY <1>7, ResultsType DEF TakeResult, VoteTypeOK
<1>8. CASE UNCHANGED voteVars
  BY <1>8 DEF voteVars, VoteTypeOK
<1> QED BY <1>2, <1>3, <1>4, <1>5, <1>6, <1>7, <1>8 DEF VoteNext

\* What a session of a group's vote holds: the agents' responses, each as the
\* option it is counted for.
Counted(g) ==
  [a \in Voters |-> IF answers[g][a] = Silence THEN Silence ELSE Matched(answers[g][a])]

\* The session of a group's vote is nobody else's: no other group has its id,
\* and no step, whose ids are of another form. It holds what the group's agents
\* answered, and the decision is a result of it.
OwnId(g) ==
  /\ poll[g] = "new" => voteId[g] = NoId
  /\ poll[g] # "new" => /\ voteId[g] \in VoteIds
                        /\ \A c \in Callers \ {g} : voteId[c] # voteId[g]
SessionOf(g) ==
  /\ poll[g] = "new" => answers[g] = NoVotes
  /\ poll[g] # "new" => sessions[voteId[g]] = [needed |-> Half, votes |-> Counted(g)]
  /\ poll[g] # "done" => decision[g] = Silence
  /\ poll[g] = "done" => decision[g] \in Results(sessions[voteId[g]])
StepIdOK == \A s \in Steps : voteId[s] \in StepIds \cup {NoId}
OwnSession == StepIdOK /\ \A g \in Groups : OwnId(g) /\ SessionOf(g)


LEMMA InitOwn == VoteInit => OwnSession
BY DEF VoteInit, OwnSession, StepIdOK, OwnId, SessionOf

\* Whoever starts a vote takes an id that is not a group's.
LEMMA OpenOwn ==
  ASSUME VoteTypeOK, OwnSession, NEW c \in Callers, NEW id \in Ids, NEW n,
         Open(c, id, n),
         \A g \in Groups \ {c} : poll[g] # "new" => voteId[g] # id,
         c \in Groups => n = Half /\ id \in VoteIds /\ \A d \in Callers : voteId[d] # id,
         c \in Steps => id \in StepIds
  PROVE  OwnSession'
<1>1. /\ poll[c] = "new" /\ poll' = [poll EXCEPT ![c] = "asking"]
      /\ voteId' = [voteId EXCEPT ![c] = id]
      /\ sessions' = [sessions EXCEPT ![id] = [needed |-> n, votes |-> NoVotes]]
      /\ UNCHANGED <<asked, answers, decision>>
  BY DEF Open
<1>2. poll'[c] = "asking" /\ voteId'[c] = id /\ sessions'[id] = [needed |-> n, votes |-> NoVotes]
  BY <1>1 DEF VoteTypeOK
<1>3. /\ \A d \in Callers \ {c} : poll'[d] = poll[d] /\ voteId'[d] = voteId[d]
      /\ \A i \in Ids \ {id} : sessions'[i] = sessions[i]
  BY <1>1 DEF VoteTypeOK
<1>4. StepIdOK'
  BY <1>2, <1>3 DEF OwnSession, StepIdOK
<1>5. ASSUME NEW g \in Groups PROVE OwnId(g)' /\ SessionOf(g)'
  <2>1. OwnId(g) /\ SessionOf(g)
    BY DEF OwnSession
  <2>2. CASE g = c
    <3>1. OwnId(g)'
      BY <1>2, <1>3, <2>2 DEF OwnId
    <3>2. answers[g] = NoVotes /\ decision[g] = Silence
      BY <1>1, <2>1, <2>2 DEF SessionOf
    <3>3. Counted(g)' = NoVotes
      BY <1>1, <3>2 DEF Counted
    <3> QED BY <1>1, <1>2, <2>2, <3>1, <3>2, <3>3 DEF SessionOf
  <2>3. CASE g # c
    <3>1. poll'[g] = poll[g] /\ voteId'[g] = voteId[g] /\ Counted(g)' = Counted(g)
      BY <1>1, <1>3, <2>3 DEF Counted
    <3>2. poll[g] # "new" => voteId[g] \in Ids \ {id} /\ sessions'[voteId[g]] = sessions[voteId[g]]
      BY <1>3, <2>1, <2>3 DEF OwnId
    <3>3. OwnId(g)'
      BY <1>2, <1>3, <2>1, <2>3, <3>1, <3>2 DEF OwnId
    <3>4. SessionOf(g)'
      BY <1>1, <2>1, <3>1, <3>2 DEF SessionOf
    <3> QED BY <3>3, <3>4
  <2> QED BY <2>2, <2>3
<1> QED BY <1>4, <1>5 DEF OwnSession

\* A response reaches the session of its own question.
LEMMA CastOwn ==
  ASSUME VoteTypeOK, OwnSession, NEW c \in Callers, NEW r \in Responses, NEW v \in Responses,
         Cast(c, r, v), c \in Groups => v = Matched(r),
         \A g \in Groups : decision'[g] = decision[g]
  PROVE  OwnSession'
<1> DEFINE a == asked[c] + 1
<1>1. /\ poll[c] = "asking" /\ asked[c] \in 0..Size /\ asked[c] < Size
      /\ UNCHANGED <<voteId, poll>>
      /\ answers' = [answers EXCEPT ![c][a] = r]
      /\ sessions' = [sessions EXCEPT ![voteId[c]].votes[a] = v]
  BY DEF Cast, Ask, VoteTypeOK
<1>2. a \in Voters /\ voteId[c] \in Ids
  BY <1>1 DEF VoteTypeOK
<1> HIDE DEF a
<1>3. StepIdOK'
  BY <1>1 DEF OwnSession, StepIdOK
<1>4. ASSUME NEW g \in Groups PROVE OwnId(g)' /\ SessionOf(g)'
  <2>1. OwnId(g) /\ SessionOf(g)
    BY DEF OwnSession
  <2>2. OwnId(g)'
    BY <1>1, <2>1 DEF OwnId
  <2>3. CASE g = c
    <3>1. sessions[voteId[c]] = [needed |-> Half, votes |-> Counted(c)]
      BY <1>1, <2>1, <2>3 DEF SessionOf
    <3>2. sessions'[voteId[c]] = [needed |-> Half, votes |-> [Counted(c) EXCEPT ![a] = v]]
      <4>1. DOMAIN sessions = Ids
        BY DEF VoteTypeOK
      <4>2. sessions'[voteId[c]] = [sessions[voteId[c]] EXCEPT !.votes[a] = v]
        BY <1>1, <1>2, <4>1
      <4> DEFINE old == sessions[voteId[c]]
                 new == sessions'[voteId[c]]
      <4>3. new = [needed |-> old.needed, votes |-> [old.votes EXCEPT ![a] = v]]
        <5>1. old = [needed |-> old.needed, votes |-> old.votes]
          BY <3>1
        <5> HIDE DEF old
        <5> QED BY <4>2, <5>1 DEF old
      <4> QED BY <3>1, <4>3
    <3>3. Counted(c)' = [Counted(c) EXCEPT ![a] = v]
      <4>1. /\ answers'[c] = [answers[c] EXCEPT ![a] = r] /\ answers[c] \in Votes
            /\ r # Silence /\ v = Matched(r)
        BY <1>1, <2>3 DEF VoteTypeOK
      <4>2. ASSUME NEW b \in Voters
            PROVE  Counted(c)'[b] = [Counted(c) EXCEPT ![a] = v][b]
        BY <1>2, <4>1 DEF Counted
      <4> QED BY <1>2, <4>2 DEF Counted
    <3> QED BY <1>1, <2>1, <2>2, <2>3, <3>2, <3>3 DEF SessionOf
  <2>4. CASE g # c
    <3>1. Counted(g)' = Counted(g) /\ answers'[g] = answers[g]
      BY <1>1, <2>4 DEF Counted, VoteTypeOK
    <3>2. poll[g] # "new" => sessions'[voteId[g]] = sessions[voteId[g]]
      BY <1>1, <2>1, <2>4 DEF OwnId, VoteTypeOK
    <3> QED BY <1>1, <2>1, <2>2, <3>1, <3>2 DEF SessionOf
  <2> QED BY <2>3, <2>4
<1> QED BY <1>3, <1>4 DEF OwnSession

LEMMA NextOwn == VoteTypeOK /\ OwnSession /\ [VoteNext]_voteVars => OwnSession'
<1> SUFFICES ASSUME VoteTypeOK, OwnSession, [VoteNext]_voteVars PROVE OwnSession'
  OBVIOUS
<1>1. ASSUME NEW g \in Groups, StartVote(g) PROVE OwnSession'
  <2>1. PICK id \in FreshIds : Open(g, id, Half)
    BY <1>1 DEF StartVote
  <2>2. id \in VoteIds /\ \A d \in Callers : voteId[d] # id
    BY <2>1 DEF FreshIds
  <2> QED BY <2>1, <2>2, OpenOwn
<1>2. ASSUME NEW s \in Steps, StartStep(s) PROVE OwnSession'
  <2>1. StepId[s] \in StepIds /\ Open(s, StepId[s], Needed[s])
    BY <1>2 DEF StartStep
  <2>2. \A g \in Groups : poll[g] # "new" => voteId[g] # StepId[s]
    BY <2>1 DEF OwnSession, OwnId
  <2> QED BY <2>1, <2>2, OpenOwn
<1>3. ASSUME NEW g \in Groups, NEW r \in Responses, Answer(g, r) PROVE OwnSession'
  BY <1>3, CastOwn, MatchedType DEF Answer
<1>4. ASSUME NEW s \in Steps, NEW r \in Responses, AnswerStep(s, r) PROVE OwnSession'
  <2>1. \A g \in Groups : decision'[g] = decision[g]
    BY <1>4 DEF AnswerStep, VoteTypeOK
  <2> QED BY <1>4, <2>1, CastOwn DEF AnswerStep
<1>5. ASSUME NEW c \in Callers, Abstain(c) PROVE OwnSession'
  <2>1. UNCHANGED <<sessions, voteId, poll, answers, decision>>
    BY <1>5 DEF Abstain, Ask
  <2> QED BY <2>1 DEF OwnSession, StepIdOK, OwnId, SessionOf, Counted
<1>6. ASSUME NEW c \in Callers, TakeResult(c) PROVE OwnSession'
  <2>1. /\ poll[c] = "asking" /\ poll' = [poll EXCEPT ![c] = "done"]
        /\ UNCHANGED <<sessions, voteId, answers>>
    BY <1>6 DEF TakeResult
  <2>2. /\ c \in Groups => decision'[c] \in Results(sessions[voteId[c]])
        /\ \A g \in Groups \ {c} : decision'[g] = decision[g]
    BY <1>6 DEF TakeResult, VoteTypeOK
  <2>3. poll'[c] = "done" /\ \A d \in Callers \ {c} : poll'[d] = poll[d]
    BY <2>1 DEF VoteTypeOK
  <2>4. StepIdOK'
    BY <2>1 DEF OwnSession, StepIdOK
  <2>5. ASSUME NEW g \in Groups PROVE OwnId(g)' /\ SessionOf(g)'
    <3>1. OwnId(g) /\ SessionOf(g)
      BY DEF OwnSession
    <3>2. OwnId(g)'
      BY <2>1, <2>3, <3>1 DEF OwnId
    <3>3. Counted(g)' = Counted(g)
      BY <2>1 DEF Counted
    <3>4. Results(sessions[voteId[g]])' = Results(sessions[voteId[g]])
      BY <2>1
    <3> QED BY <2>1, <2>2, <2>3, <3>1, <3>2, <3>3, <3>4 DEF SessionOf
  <2> QED BY <2>4, <2>5 DEF OwnSession
<1>7. CASE UNCHANGED voteVars
  BY <1>7 DEF voteVars, OwnSession, StepIdOK, OwnId, SessionOf, Counted
<1> QED BY <1>1, <1>2, <1>3, <1>4, <1>5, <1>6, <1>7 DEF VoteNext

\* Half of the agents, rounded up, are half of them at least.
LEMMA HalfIsHalf == Half \in Nat /\ 2 * Half >= Size
<1>1. \A n \in Nat : (n + 1) \div 2 \in Nat /\ 2 * ((n + 1) \div 2) >= n
  OBVIOUS
<1> QED BY <1>1 DEF Half

\* What is counted for a value are the agents whose response it is made of.
LEMMA TallyIsFor ==
  ASSUME VoteTypeOK, NEW g \in Groups, NEW v \in Responses
  PROVE  /\ Tally(Counted(g), v) = Cardinality(For(g, v))
         /\ Cardinality(For(g, v)) \in Nat
<1>1. \A a \in Voters : Counted(g)[a] = v <=> a \in For(g, v)
  BY DEF Counted, For
<1>2. {a \in Voters : Counted(g)[a] = v} = For(g, v)
  BY <1>1 DEF For
<1>3. IsFiniteSet(Voters) /\ For(g, v) \subseteq Voters
  BY FS_Interval DEF For
<1>4. IsFiniteSet(For(g, v))
  BY <1>3, FS_Subset
<1> QED BY <1>2, <1>4, FS_CardinalityType DEF Tally

LEMMA ResultsDecide == VoteTypeOK /\ OwnSession => DecidedByAnswers
<1> SUFFICES ASSUME VoteTypeOK, OwnSession, NEW g \in Groups, decision[g] # Silence
             PROVE  /\ 2 * Cardinality(For(g, decision[g])) >= Size
                    /\ \A v \in Responses :
                         Cardinality(For(g, v)) <= Cardinality(For(g, decision[g]))
  BY DEF DecidedByAnswers
<1> DEFINE d == decision[g]
<1>1. d \in Results(sessions[voteId[g]]) /\ d # Silence /\ poll[g] = "done"
  BY DEF OwnSession, SessionOf, VoteTypeOK
<1>2. sessions[voteId[g]] = [needed |-> Half, votes |-> Counted(g)]
  BY <1>1 DEF OwnSession, SessionOf
<1>3. /\ d \in Responses
      /\ \A v \in Responses : Tally(Counted(g), v) <= Tally(Counted(g), d)
      /\ Tally(Counted(g), d) >= Half
  BY <1>1, <1>2 DEF Results
<1> HIDE DEF d
<1>4. /\ Cardinality(For(g, d)) \in Nat /\ Cardinality(For(g, d)) >= Half
      /\ \A v \in Responses : Cardinality(For(g, v)) <= Cardinality(For(g, d))
  BY <1>3, TallyIsFor
<1>5. 2 * Cardinality(For(g, d)) >= Size
  BY <1>4, HalfIsHalf
<1> QED BY <1>4, <1>5 DEF d

LEMMA VoteInvariance == VoteSpec => [](VoteTypeOK /\ OwnSession)
<1> QED BY InitVotes, NextVotes, InitOwn, NextOwn, PTL DEF VoteSpec

\* Type correctness: only agents that were asked have answered.
THEOREM VoteType == VoteSpec => []VoteTypeOK
BY VoteInvariance, PTL

\* However many groups and workflows vote at the same time, each group's vote
\* decides by what its own agents answered to its own question.
THEOREM VotesDoNotMix == VoteSpec => []DecidedByAnswers
BY VoteInvariance, ResultsDecide, PTL
=============================================================================
