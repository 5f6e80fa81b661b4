----------------------------- MODULE Supervisor -----------------------------
(***************************************************************************)
(* AgentHandle and AgentSupervisor of oxicode-sdk (lifecycle/supervisor.rs)*)
(* under concurrent callers: the status word of a handle, the pool of      *)
(* agents by id, the restart log and the snapshot store.                   *)
(*                                                                         *)
(* A check and the write it guards are steps of their own, as are writes   *)
(* under different locks, so callers interleave between them; a look-up    *)
(* goes with the first check of what it found. An agent is abstracted to   *)
(* its running guard, a snapshot to its presence in the store, the restart *)
(* log of an id to the number of its entries still inside the policy's     *)
(* window.                                                                 *)
(***************************************************************************)
EXTENDS Integers, FiniteSets

CONSTANTS
  Actors,       \* the tasks that call the supervisor and its handles
  Ids,          \* agent ids
  Handles,      \* identities of AgentHandles; bounds how many are created
  MaxRestarts,  \* SupervisorPolicy::max_restarts
  NoHandle,     \* the pool has no handle for an id
  NoId          \* the call is not the supervisor's, or the handle not created

ASSUME ActorsAssumption == IsFiniteSet(Actors) /\ Actors # {}
ASSUME RestartAssumption == MaxRestarts \in Nat
ASSUME SentinelAssumption == NoHandle \notin Handles /\ NoId \notin Ids

Statuses == {"created", "running", "suspended", "terminated", "failed"}
Terminal == {"terminated", "failed"}
Runnable == {"created", "suspended"}

VARIABLES
  status,  \* AgentHandle::status
  name,    \* AgentHandle::agent_id, NoId before the handle exists
  busy,    \* Agent::is_running of the handle's agent
  pool,    \* AgentSupervisor::agents
  recent,  \* AgentSupervisor::restart_log, entries inside the window
  stored,  \* ids with a snapshot in the store
  pc,      \* where each actor is in its call
  at,      \* the handle the call is on
  on       \* the id the call is on, NoId for a call on a handle alone

handleVars == <<status, name, busy>>
poolVars == <<pool, recent, stored>>
actorVars == <<pc, at, on>>
vars == <<handleVars, poolVars, actorVars>>

Created == {h \in Handles : name[h] # NoId}

\* Labels of calls on a handle, and on an id.
RunLabels == {"enter", "running", "succeeded", "failing"}
HandleLabels == RunLabels \cup {"suspending", "saving", "notRunning",
                                "terminating"}
IdLabels == {"saving", "notRunning", "removing", "forgetting", "restart",
             "backoff", "replacing", "spawning", "loading", "inserting"}
Labels == {"idle"} \cup HandleLabels \cup IdLabels

Goto(a, label) == pc' = [pc EXCEPT ![a] = label]

\* An idle actor's call of an operation that begins at this label.
Call(a, label, h, id) ==
  /\ pc[a] = "idle"
  /\ Goto(a, label)
  /\ at' = [at EXCEPT ![a] = h]
  /\ on' = [on EXCEPT ![a] = id]

\* The next step of a call; one that returns forgets what it was on.
Step(a, from, to) ==
  /\ pc[a] = from
  /\ Goto(a, to)
  /\ at' = [at EXCEPT ![a] = IF to = "idle" THEN NoHandle ELSE @]
  /\ on' = [on EXCEPT ![a] = IF to = "idle" THEN NoId ELSE @]

Init ==
  /\ status = [h \in Handles |-> "created"]
  /\ name = [h \in Handles |-> NoId]
  /\ busy = [h \in Handles |-> FALSE]
  /\ pool = [id \in Ids |-> NoHandle]
  /\ recent = [id \in Ids |-> 0]
  /\ stored = {}
  /\ pc = [a \in Actors |-> "idle"]
  /\ at = [a \in Actors |-> NoHandle]
  /\ on = [a \in Actors |-> NoId]

----------------------------------------------------------------------------
(* AgentHandle::run.                                                       *)

\* The compare-and-swap from Created or Suspended.
Claim(h) ==
  /\ status[h] \in Runnable
  /\ status' = [status EXCEPT ![h] = "running"]
  /\ UNCHANGED <<name, busy>>

Run(a, h) ==
  /\ h \in Created
  /\ Claim(h)
  /\ Call(a, "enter", h, NoId)
  /\ UNCHANGED poolVars

EntersAlways(h) == TRUE                                        \* (mutant)
\* Agent::run_with_channel_message: "Agent is already running".
Enters(h) == ~busy[h]

Enter(a) ==
  /\ \/ /\ Step(a, "enter", "running")
        /\ Enters(at[a])
        /\ busy' = [busy EXCEPT ![at[a]] = TRUE]
     \/ /\ Step(a, "enter", "failing")
        /\ ~Enters(at[a])
        /\ UNCHANGED busy
  /\ UNCHANGED <<status, name, poolVars>>

\* The run returns; its guard clears is_running.
Leave(a) ==
  /\ \E outcome \in {"succeeded", "failing"} : Step(a, "running", outcome)
  /\ busy' = [busy EXCEPT ![at[a]] = FALSE]
  /\ UNCHANGED <<status, name, poolVars>>

SettledOnSuccess(a) ==                                         \* (mutant)
  IF pc[a] = "succeeded" THEN "created" ELSE status[at[a]]
\* The transition at the end of a run, whatever the status has become.
Settled(a) == IF pc[a] = "succeeded" THEN "created" ELSE "failed"

Settle(a, next) ==
  /\ pc[a] \in {"succeeded", "failing"}
  /\ status' = [status EXCEPT ![at[a]] = Settled(a)]
  /\ Step(a, pc[a], next)
  /\ UNCHANGED <<name, busy, poolVars>>

----------------------------------------------------------------------------
(* Suspend: AgentHandle::suspend, and the supervisor's, which saves.       *)

Suspend(a, h, id) ==
  /\ h \in Created /\ id \in {NoId} \cup {i \in Ids : pool[i] = h}
  /\ status[h] \notin Terminal
  /\ Call(a, "suspending", h, id)
  /\ UNCHANGED <<handleVars, poolVars>>

\* The snapshot is taken and the status stored, after the cancelled run was
\* given 50 ms to end.
SetSuspended(a) ==
  /\ Step(a, "suspending", IF on[a] = NoId THEN "idle" ELSE "saving")
  /\ status' = [status EXCEPT ![at[a]] = "suspended"]
  /\ UNCHANGED <<name, busy, poolVars>>

Save(a) ==
  /\ Step(a, "saving", "idle")
  /\ stored' \in {stored, stored \cup {on[a]}}
  /\ UNCHANGED <<handleVars, pool, recent>>

----------------------------------------------------------------------------
(* Terminate: AgentHandle::terminate, and the supervisor's, which forgets. *)

TerminateAgent(a, id) ==
  /\ pool[id] # NoHandle
  /\ status[pool[id]] # "running"
  /\ Call(a, "notRunning", pool[id], id)
  /\ UNCHANGED <<handleVars, poolVars>>

\* AgentHandle::terminate and its check, called directly or by the supervisor.
Terminate(a, h) ==
  /\ h \in Created
  /\ status[h] \notin Terminal
  /\ Call(a, "terminating", h, NoId)
  /\ UNCHANGED <<handleVars, poolVars>>

TerminateChecked(a) ==
  /\ Step(a, "notRunning", IF status[at[a]] \in Terminal THEN "idle"
                           ELSE "terminating")
  /\ UNCHANGED <<handleVars, poolVars>>

AlwaysForgets(a) == "removing"                                 \* (mutant)
AfterTerminate(a) == IF on[a] = NoId THEN "idle" ELSE "removing"

SetTerminated(a) ==
  /\ Step(a, "terminating", AfterTerminate(a))
  /\ status' = [status EXCEPT ![at[a]] = "terminated"]
  /\ UNCHANGED <<name, busy, poolVars>>

Remove(a, from, to) ==
  /\ Step(a, from, to)
  /\ pool' = [pool EXCEPT ![on[a]] = NoHandle]
  /\ UNCHANGED <<handleVars, recent, stored>>

ForgetRestarts(a) ==
  /\ Step(a, "forgetting", "idle")
  /\ recent' = [recent EXCEPT ![on[a]] = 0]
  /\ UNCHANGED <<handleVars, pool, stored>>

----------------------------------------------------------------------------
(* Spawn, restart and restore: a new handle for an id.                     *)

\* A new AgentHandle enters the pool, over whatever was there.
Register(id, h) ==
  /\ name[h] = NoId
  /\ name' = [name EXCEPT ![h] = id]
  /\ pool' = [pool EXCEPT ![id] = h]
  /\ UNCHANGED <<status, busy, recent, stored>>

Spawn(a, id) ==
  /\ pc[a] = "idle"
  /\ \E h \in Handles : Register(id, h)
  /\ UNCHANGED actorVars

\* The last step of restart and of restore_from_snapshot: the model or its
\* provider may not be resolved any more.
Respawn(a) ==
  /\ pc[a] \in {"spawning", "inserting"}
  /\ Step(a, pc[a], "idle")
  /\ \/ \E h \in Handles : Register(on[a], h)
     \/ UNCHANGED <<handleVars, poolVars>>

RestartAllowedOnceMore(id) == recent[id] <= MaxRestarts        \* (mutant)
\* can_restart.
RestartAllowed(id) == MaxRestarts > 0 /\ recent[id] < MaxRestarts

Restart(a, id) ==
  /\ RestartAllowed(id)
  /\ Call(a, "restart", NoHandle, id)
  /\ UNCHANGED <<handleVars, poolVars>>

\* The old handle's configuration, then the backoff delay.
FetchConfig(a) ==
  /\ Step(a, "restart", IF pool[on[a]] = NoHandle THEN "idle" ELSE "backoff")
  /\ UNCHANGED <<handleVars, poolVars>>

RecordRestart(a) ==
  /\ Step(a, "backoff", "replacing")
  /\ recent' = [recent EXCEPT ![on[a]] = @ + 1]
  /\ UNCHANGED <<handleVars, pool, stored>>

\* An entry of the restart log leaves the window.
Expire(id) ==
  /\ recent[id] > 0
  /\ recent' = [recent EXCEPT ![id] = @ - 1]
  /\ UNCHANGED <<handleVars, pool, stored, actorVars>>

Restore(a, id) ==
  /\ pool[id] = NoHandle
  /\ Call(a, "loading", NoHandle, id)
  /\ UNCHANGED <<handleVars, poolVars>>

Load(a) ==
  /\ Step(a, "loading", IF on[a] \in stored THEN "inserting" ELSE "idle")
  /\ UNCHANGED <<handleVars, poolVars>>

----------------------------------------------------------------------------
Begin(a) ==
  \/ \E h \in Handles : \/ Run(a, h) \/ Terminate(a, h)
                        \/ \E id \in Ids \cup {NoId} : Suspend(a, h, id)
  \/ \E id \in Ids : \/ TerminateAgent(a, id) \/ Spawn(a, id)
                     \/ Restart(a, id) \/ Restore(a, id)

Continue(a) ==
  \/ Enter(a) \/ Leave(a) \/ Settle(a, "idle")
  \/ SetSuspended(a) \/ Save(a)
  \/ TerminateChecked(a) \/ SetTerminated(a)
  \/ Remove(a, "removing", "forgetting") \/ ForgetRestarts(a)
  \/ FetchConfig(a) \/ RecordRestart(a) \/ Remove(a, "replacing", "spawning")
  \/ Respawn(a) \/ Load(a)

\* What nobody is obliged to do, and time.
Environment(callers) ==
  \/ \E a \in callers : Begin(a)
  \/ \E id \in Ids : Expire(id)

Next ==
  \/ Environment(Actors)
  \/ \E a \in Actors : Continue(a)

\* The runtime polls every call to its end, and the runs of the agents are taken
\* to end; nobody is obliged to make a call.
Spec == Init /\ [][Next]_vars /\ \A a \in Actors : WF_vars(Continue(a))

----------------------------------------------------------------------------
(* Properties.                                                             *)

\* What a call at each label is on.
CallsOK ==
  \A a \in Actors : /\ pc[a] \in HandleLabels => at[a] \in Created
                    /\ pc[a] \in IdLabels => on[a] \in Ids

\* The pool files a handle under its own id.
PoolOK == \A id \in Ids : pool[id] # NoHandle => name[pool[id]] = id

\* Types, no call without its handle or id, and no handle under another's id.
TypeOK ==
  /\ status \in [Handles -> Statuses]
  /\ name \in [Handles -> Ids \cup {NoId}]
  /\ busy \in [Handles -> BOOLEAN]
  /\ pool \in [Ids -> Handles \cup {NoHandle}]
  /\ recent \in [Ids -> Nat]
  /\ stored \subseteq Ids
  /\ pc \in [Actors -> Labels]
  /\ at \in [Actors -> Handles \cup {NoHandle}]
  /\ on \in [Actors -> Ids \cup {NoId}]
  /\ CallsOK /\ PoolOK

Runners(h) == {a \in Actors : at[a] = h /\ pc[a] \in RunLabels}

\* One conversation at a time: however often a handle is suspended and run
\* again while a run is under way, its agent has at most one run inside
\* (Agent's is_running guard against AgentHandle's status word).
AtMostOneRun ==
  \A a, b \in Actors :
    pc[a] = "running" /\ pc[b] = "running" /\ at[a] = at[b] => a = b

\* AgentHandle::is_running, "Whether the agent is currently running": a handle
\* whose status says so has a call of run that has yet to settle it.
RunningIsBacked == \A h \in Handles : status[h] = "running" => Runners(h) # {}

\* The restart log inside the window passes the policy's limit by the restarts
\* that were checked together at most: can_restart is read before the backoff
\* delay and the log is written after it.
RestartsBounded ==
  \A id \in Ids :
    /\ recent[id] <= MaxRestarts + Cardinality(Actors) - 1
    /\ MaxRestarts = 0 => recent[id] = 0

\* A handle does not stay Running: every run settles its status, whatever was
\* done to the handle meanwhile.
RunningSettles == \A h \in Handles : status[h] = "running" ~> status[h] # "running"

\* AgentHandle::terminate: "Terminate the agent permanently (terminal state)."
TerminatedForGood ==
  [][ \A h \in Handles : status[h] = "terminated" => status'[h] = "terminated" ]_vars
=============================================================================
