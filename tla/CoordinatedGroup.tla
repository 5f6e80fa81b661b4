-------------------------- MODULE CoordinatedGroup --------------------------
(***************************************************************************)
(* CoordinatedGroup (oxicode-sdk/src/coordination/group_ext.rs): map_reduce*)
(* hands payloads to the agents of the group over a WorkQueue and, when    *)
(* all its tasks have ended, writes their results to the SharedMemory.     *)
(* The queue and the memory have other users too.                          *)
(***************************************************************************)
EXTENDS WorkQueue, SharedMemory

CONSTANT MaxPayloads  \* bounds how many payloads a call has

ASSUME GroupAssumption == MaxPayloads \in Nat

VARIABLES
  stage,    \* of the group: idle, collecting or storing
  collected \* the results of the last call: the items they are about

groupVars == <<queueVars, memoryVars, stage, collected>>

GroupInit == QueueInit /\ MemoryInit /\ stage = "idle" /\ collected = {}

\* fan_out, up to its first await.
Distribute ==
  /\ stage = "idle"
  /\ \E n \in 0..MaxPayloads : FanOut(n)
  /\ stage' = "collecting" /\ collected' = {}
  /\ UNCHANGED memoryVars

EndedOrRunning(a) == job[a].pc \in {"run", "end"}              \* (mutant)
EndedWithItem(a) == job[a].pc = "end" /\ job[a].item # 0       \* (mutant)
Ended(a) == job[a].pc = "end"

\* The results of the tasks that had an item, when all have ended. A caller
\* of fan_out gets them, map_reduce stores them.
Collect ==
  /\ stage = "collecting" /\ \A a \in Agents : Ended(a)
  /\ stage' \in {"idle", "storing"}
  /\ collected' = {job[a].item : a \in Agents} \ {0}
  /\ job' = [a \in Agents |-> Out]
  /\ UNCHANGED <<items, memoryVars>>

Store ==
  /\ stage = "storing" /\ Overwrite
  /\ stage' = "idle"
  /\ UNCHANGED <<queueVars, collected>>

Others ==
  \/ Interfere /\ UNCHANGED <<memoryVars, stage, collected>>
  \/ MemoryNext /\ UNCHANGED <<queueVars, stage, collected>>

Agent(a) == Work(a) /\ UNCHANGED <<memoryVars, stage, collected>>

GroupNext == Distribute \/ Collect \/ Store \/ Others \/ \E a \in Agents : Agent(a)

GroupSpec == GroupInit /\ [][GroupNext]_groupVars

\* Every spawned task is polled, the runs of the agents end, and the caller
\* awaits them.
FairGroupSpec ==
  /\ GroupSpec
  /\ \A a \in Agents : WF_groupVars(Agent(a))
  /\ WF_groupVars(Collect)

----------------------------------------------------------------------------
(* Properties.                                                             *)

\* Every variable has its type, and there are tasks while the group collects
\* only.
GroupTypeOK ==
  /\ QueueTypeOK /\ MemoryTypeOK
  /\ stage \in {"idle", "collecting", "storing"}
  /\ collected \subseteq DOMAIN items
  /\ \A a \in Agents : (job[a].pc # "out") = (stage = "collecting")

\* Work whose result a call has returned is over: unless it was retried,
\* nobody is at the item any more, whoever else claimed from the queue.
ReturnedIsSettled ==
  stage # "collecting" =>
    \A i \in collected : items[i].retries = 0 =>
      items[i].status \in {"completed", "cancelled"}

\* A call comes back, even if its payloads are more than the agents, or were
\* claimed, retried and cancelled by others.
GroupReturns == stage = "collecting" ~> stage # "collecting"
=============================================================================
