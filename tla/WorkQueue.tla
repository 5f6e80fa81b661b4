----------------------------- MODULE WorkQueue ------------------------------
(***************************************************************************)
(* The WorkQueue of the SDK (oxicode-sdk/src/coordination/work_queue.rs):  *)
(* every call is atomic under the lock of the items. Its workers are the   *)
(* tasks that CoordinatedGroup::fan_out (group_ext.rs) spawns, one for     *)
(* each handle: they claim an item, start it, run the agent and complete   *)
(* the item, whatever has become of it meanwhile.                          *)
(*                                                                         *)
(* Anybody else who has the queue may call the same, and retry and cancel. *)
(* Payloads, results and work types, which fan_out does not filter by, are *)
(* left out.                                                               *)
(***************************************************************************)
EXTENDS Integers, Sequences

CONSTANTS
  Agents,
  Priorities,
  MaxItems,     \* bounds how many items are enqueued
  MaxRetries    \* max_retries of an item

ASSUME QueueAssumption ==
  /\ Priorities \subseteq Int /\ 0 \in Priorities
  /\ MaxItems \in Nat /\ MaxRetries \in Nat

Statuses == {"pending", "claimed", "started", "completed", "cancelled"}
Items == [priority : Priorities, status : Statuses, retries : 0..MaxRetries]

\* Item 0 is none.
Jobs == [pc : {"out", "claim", "start", "run", "end"},
         item : 0..MaxItems, attempt : 0..MaxRetries]

VARIABLES
  items,    \* in the order of their ids
  job       \* of an agent: what its fan_out task does, on which item, and
            \* what its retry_count was when it was claimed

queueVars == <<items, job>>

Out == [pc |-> "out", item |-> 0, attempt |-> 0]

QueueInit ==
  /\ items = <<>>
  /\ job = [a \in Agents |-> Out]

Added(n, p) == [i \in 1..n |-> [priority |-> p, status |-> "pending", retries |-> 0]]

\* Another user's enqueue.
Enqueue(p) ==
  /\ Len(items) < MaxItems
  /\ items' = items \o Added(1, p)
  /\ UNCHANGED job

\* fan_out enqueues its payloads, then spawns a task for each handle.
FanOut(n) ==
  /\ Len(items) + n <= MaxItems
  /\ items' = items \o Added(n, 0)
  /\ job' = [a \in Agents |-> [Out EXCEPT !.pc = "claim"]]

Unstarted(i) == items[i].status \in {"pending", "claimed"}     \* (mutant)
IsPending(i) == items[i].status = "pending"

\* Pending, and none that is has a higher priority.
Best(i) ==
  IsPending(i) /\ \A j \in DOMAIN items :
    IsPending(j) => items[j].priority <= items[i].priority

Claim(a, i) ==
  /\ job[a].pc = "claim" /\ Best(i)
  /\ items' = [items EXCEPT ![i].status = "claimed"]
  /\ job' = [job EXCEPT ![a] =
               [pc |-> "start", item |-> i, attempt |-> items[i].retries]]

ClaimNone(a) ==
  /\ job[a].pc = "claim" /\ \A i \in DOMAIN items : ~Best(i)
  /\ job' = [job EXCEPT ![a].pc = "end"]
  /\ UNCHANGED items

\* start refuses an item that is not claimed: the worker goes on all the same.
Startable(i) == items[i].status = "claimed"

Start(a) ==
  /\ job[a].pc = "start"
  /\ job' = [job EXCEPT ![a].pc = "run"]
  /\ items' = IF Startable(job[a].item)
              THEN [items EXCEPT ![job[a].item].status = "started"] ELSE items

\* The agent has run, with success or not.
Complete(a) ==
  /\ job[a].pc = "run"
  /\ job' = [job EXCEPT ![a].pc = "end"]
  /\ items' = [items EXCEPT ![job[a].item].status = "completed"]

MayRetry(i) == items[i].retries < MaxRetries

\* Any item, also one that somebody works on.
Retry(i) ==
  /\ MayRetry(i)
  /\ items' = [items EXCEPT ![i].retries = items[i].retries + 1, ![i].status = "pending"]
  /\ UNCHANGED job

\* Likewise.
Cancel(i) ==
  /\ items[i].status # "cancelled"
  /\ items' = [items EXCEPT ![i].status = "cancelled"]
  /\ UNCHANGED job

\* Another user's claim, start and complete, in whatever order it calls them.
Meddle(i, status) ==
  /\ status \in {"claimed", "started", "completed"}
  /\ status = "claimed" => Best(i)
  /\ status = "started" => Startable(i)
  /\ items' = [items EXCEPT ![i].status = status]
  /\ UNCHANGED job

Work(a) == (\E i \in DOMAIN items : Claim(a, i)) \/ ClaimNone(a) \/ Start(a) \/ Complete(a)

Interfere ==
  \/ \E p \in Priorities : Enqueue(p)
  \/ \E i \in DOMAIN items :
       Retry(i) \/ Cancel(i) \/ \E status \in Statuses : Meddle(i, status)

----------------------------------------------------------------------------
(* Properties.                                                             *)

Holds(a) == job[a].pc \in {"start", "run"}

\* Every variable has its type, and a worker has an item that exists, in an
\* attempt it has reached.
QueueTypeOK ==
  /\ items \in Seq(Items) /\ Len(items) <= MaxItems
  /\ job \in [Agents -> Jobs]
  /\ \A a \in Agents : Holds(a) => /\ job[a].item \in DOMAIN items
                                   /\ job[a].attempt <= items[job[a].item].retries

\* Two workers are never at the same attempt of an item, and an item that
\* waits for a worker has none in its attempt: although retry and cancel ask
\* for no state, work is done twice only after a retry.
OneWorkerPerAttempt ==
  \A a \in Agents : Holds(a) =>
    LET i == job[a].item IN
    /\ job[a].attempt = items[i].retries => items[i].status # "pending"
    /\ \A b \in Agents \ {a} :
         Holds(b) /\ job[b].item = i => job[b].attempt # job[a].attempt
=============================================================================
