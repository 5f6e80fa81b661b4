------------------------ MODULE SubagentCoordinator ------------------------
(***************************************************************************)
(* SubagentCoordinator of oxicode-sdk (lifecycle/subagent_coordinator.rs)  *)
(* over the supervisor whose agents it runs: the tracker registry, one     *)
(* background task per tracker that races the run against a cancellation,  *)
(* and the callers that spawn, cancel and wait.                            *)
(*                                                                         *)
(* A tracker stands for its background task too, and is then an actor of   *)
(* the supervisor. The other actors keep all the supervisor's operations:  *)
(* a subagent's handle is in the pool for everyone. The depth of a spawn   *)
(* request and the texts are left out, and an agent's configured name is   *)
(* its id.                                                                 *)
(***************************************************************************)
EXTENDS Supervisor, Functions

CONSTANTS
  Trackers,   \* identities of SubagentTrackers; bounds the spawns
  NoTracker   \* the registry has no tracker for an id

ASSUME TrackersAssumption == Trackers \subseteq Actors /\ NoTracker \notin Trackers

Callers == Actors \ Trackers

VARIABLES
  state,        \* SubagentTracker::state
  cancelToken,  \* SubagentTracker::cancel_token
  registry,     \* SubagentCoordinator::trackers
  responses,    \* ids in SubagentCoordinator::last_responses
  mine,         \* the tracker a caller is spawning or waits for
  woken         \* waiting callers the tracker's Notify has woken

trackerVars == <<state, cancelToken, registry, responses>>
waitVars == <<mine, woken>>
subagentVars == <<trackerVars, waitVars>>
allVars == <<vars, subagentVars>>

Finished == {"completed", "failed", "cancelled"}
TaskLabels == {"start", "select", "completing", "erring", "notifying", "done"}
CallerLabels == {"reserved", "registered", "arming", "waiting"}

CoordinatorInit ==
  /\ Init
  /\ state = [t \in Trackers |-> "none"]
  /\ cancelToken = [t \in Trackers |-> FALSE]
  /\ registry = [id \in Ids |-> NoTracker]
  /\ responses = {}
  /\ mine = [a \in Callers |-> NoTracker]
  /\ woken = {}

SetStateUncancelled(t, s) ==                                   \* (mutant)
  /\ state' = IF s = "cancelled" THEN state ELSE [state EXCEPT ![t] = s]
  /\ UNCHANGED <<cancelToken, registry, responses, waitVars>>
SetState(t, s) ==
  /\ state' = [state EXCEPT ![t] = s]
  /\ UNCHANGED <<cancelToken, registry, responses, waitVars>>

----------------------------------------------------------------------------
(* spawn.                                                                  *)

\* The id is looked up, and the response to resume from if there is a parent;
\* the tracker is made.
SpawnSubagent(a, id, parent) ==
  /\ registry[id] = NoTracker
  /\ parent \in responses \cup {NoId}
  /\ Call(a, "reserved", NoHandle, id)
  /\ \E t \in Trackers \ Range(mine) :
       state[t] = "none" /\ mine' = [mine EXCEPT ![a] = t]
  /\ UNCHANGED <<handleVars, poolVars, trackerVars, woken>>

\* It is registered as pending.
RegisterTracker(a) ==
  /\ Step(a, "reserved", "registered")
  /\ state' = [state EXCEPT ![mine[a]] = "pending"]
  /\ registry' = [registry EXCEPT ![on[a]] = mine[a]]
  /\ UNCHANGED <<handleVars, poolVars, cancelToken, responses, waitVars>>

\* The supervisor spawns the agent and the background task starts.
SpawnTask(a) ==
  /\ pc[a] = "registered"
  /\ \E h \in Handles :
       /\ Register(on[a], h)
       /\ pc' = [pc EXCEPT ![a] = "idle", ![mine[a]] = "start"]
       /\ at' = [at EXCEPT ![a] = NoHandle, ![mine[a]] = h]
       /\ on' = [on EXCEPT ![a] = NoId, ![mine[a]] = on[a]]
  /\ mine' = [mine EXCEPT ![a] = NoTracker]
  /\ UNCHANGED <<trackerVars, woken>>

\* The supervisor rejects the spawn: the id can be used again.
SpawnRejected(a) ==
  /\ Step(a, "registered", "idle")
  /\ registry' = [registry EXCEPT ![on[a]] = NoTracker]
  /\ mine' = [mine EXCEPT ![a] = NoTracker]
  /\ UNCHANGED <<handleVars, poolVars, state, cancelToken, responses, woken>>

----------------------------------------------------------------------------
(* The background task.                                                    *)

Activate(t) ==
  /\ Step(t, "start", "select")
  /\ SetState(t, "active")
  /\ UNCHANGED <<handleVars, poolVars>>

\* The first poll of handle.run(task), which may be refused.
Poll(t) ==
  /\ \/ /\ Step(t, "select", "enter")
        /\ Claim(at[t])
     \/ /\ Step(t, "select", "erring")
        /\ status[at[t]] \notin Runnable
        /\ UNCHANGED handleVars
  /\ UNCHANGED <<poolVars, subagentVars>>

\* The run, as far as the supervisor's handle drives it.
Drive(t) ==
  /\ \/ Enter(t)
     \/ Settle(t, IF pc[t] = "succeeded" THEN "completing" ELSE "erring")
  /\ UNCHANGED subagentVars

CancellableBefore == {"select"}                                \* (mutant)
\* Where the task awaits, so that select! can drop the run.
Cancellable == {"select", "running"}

GuardKept(t) == busy                                    \* (mutant)
\* Dropping the run drops its guard, which clears is_running.
GuardDropped(t) == IF pc[t] = "running" THEN [busy EXCEPT ![at[t]] = FALSE]
                   ELSE busy

\* The cancellation wins: the run is dropped where it stands.
CancelTask(t) ==
  /\ cancelToken[t]
  /\ pc[t] \in Cancellable
  /\ Step(t, pc[t], "notifying")
  /\ busy' = GuardDropped(t)
  /\ SetState(t, "cancelled")
  /\ UNCHANGED <<status, name, poolVars>>

Complete(t) ==
  /\ Step(t, "completing", "notifying")
  /\ state' = [state EXCEPT ![t] = "completed"]
  /\ responses' = responses \cup {on[t]}
  /\ UNCHANGED <<handleVars, poolVars, cancelToken, registry, waitVars>>

Fail(t) ==
  /\ Step(t, "erring", "notifying")
  /\ SetState(t, "failed")
  /\ UNCHANGED <<handleVars, poolVars>>

\* notify_waiters: everyone whose Notified future exists by now.
Notify(t) ==
  /\ Step(t, "notifying", "done")
  /\ woken' = woken \cup {a \in Callers : pc[a] = "waiting" /\ mine[a] = t}
  /\ UNCHANGED <<handleVars, poolVars, trackerVars, mine>>

----------------------------------------------------------------------------
(* cancel and wait_for_completion.                                         *)

Cancel(id) ==
  /\ registry[id] # NoTracker
  /\ cancelToken' = [cancelToken EXCEPT ![registry[id]] = TRUE]
  /\ UNCHANGED <<vars, state, registry, responses, waitVars>>

\* The fast path: not terminal yet.
Wait(a, id) ==
  /\ registry[id] # NoTracker
  /\ state[registry[id]] \notin Finished
  /\ Call(a, "arming", NoHandle, id)
  /\ mine' = [mine EXCEPT ![a] = registry[id]]
  /\ UNCHANGED <<handleVars, poolVars, trackerVars, woken>>

\* completion.notified() is created.
Arm(a) ==
  /\ Step(a, "arming", "waiting")
  /\ UNCHANGED <<handleVars, poolVars, subagentVars>>

\* It resolves, or the timeout elapses first.
WaitReturns(a) ==
  /\ Step(a, "waiting", "idle")
  /\ mine' = [mine EXCEPT ![a] = NoTracker]
  /\ woken' = woken \ {a}
  /\ UNCHANGED <<handleVars, poolVars, trackerVars>>

----------------------------------------------------------------------------
TaskStep(t) ==
  \/ Activate(t) \/ Poll(t) \/ Drive(t) \/ CancelTask(t)
  \/ Complete(t) \/ Fail(t) \/ Notify(t)

CallerStep(a) ==
  \/ (Continue(a) /\ UNCHANGED subagentVars)
  \/ RegisterTracker(a) \/ SpawnTask(a) \/ SpawnRejected(a)
  \/ Arm(a) \/ WaitReturns(a)

CoordinatorNext ==
  \/ \E t \in Trackers : \/ TaskStep(t)
                         \/ Leave(t) /\ UNCHANGED subagentVars
  \/ \E a \in Callers : \/ CallerStep(a)
                        \/ \E id \in Ids : \/ Wait(a, id)
                                          \/ \E parent \in Ids \cup {NoId} :
                                               SpawnSubagent(a, id, parent)
  \/ \E id \in Ids : Cancel(id)
  \/ Environment(Callers) /\ UNCHANGED subagentVars

\* The runtime polls the background tasks and the calls. Nothing is assumed of
\* how long a subagent's run takes.
CoordinatorSpec ==
  /\ CoordinatorInit /\ [][CoordinatorNext]_allVars
  /\ \A t \in Trackers : WF_allVars(TaskStep(t))
  /\ \A a \in Callers : WF_allVars(CallerStep(a))

----------------------------------------------------------------------------
(* Properties.                                                             *)

\* Types, and that a task at work has a handle and an id.
CoordinatorTypeOK ==
  /\ status \in [Handles -> Statuses] /\ busy \in [Handles -> BOOLEAN]
  /\ pool \in [Ids -> Handles \cup {NoHandle}]
  /\ state \in [Trackers -> {"none", "pending", "active"} \cup Finished]
  /\ cancelToken \in [Trackers -> BOOLEAN]
  /\ registry \in [Ids -> Trackers \cup {NoTracker}]
  /\ responses \subseteq Ids
  /\ mine \in [Callers -> Trackers \cup {NoTracker}]
  /\ woken \subseteq Callers
  /\ pc \in [Actors -> Labels \cup TaskLabels \cup CallerLabels]
  /\ CallsOK /\ PoolOK
  /\ \A t \in Trackers :
       pc[t] # "idle" => at[t] \in Created /\ on[t] \in Ids

\* The promise of the module's documentation, over the same trackers.
Lifecycle == INSTANCE SubagentLifecycle WITH cancelled <- cancelToken

\* pending, active, then one terminal state, which a cancellation always brings
\* about (the background task's select! and its writes to the state).
ImplementsLifecycle == Lifecycle!Spec

\* A waiter is only woken to find a terminal state (Notify after the write).
WokenSeesEnd == \A a \in woken : state[mine[a]] \in Finished

\* The agent of a subagent has one run inside at a time, cancelled runs included
\* (the dropped run's guard clears is_running), and none once its task is over.
AgentReleased ==
  /\ AtMostOneRun
  /\ \A h \in Handles : busy[h] => \E a \in Actors : at[a] = h /\ pc[a] = "running"

\* wait_for_completion blocks "until the underlying run reaches a terminal
\* state, or `timeout` elapses": nobody is left waiting for a run that has
\* ended and notified.
NoLostWakeup ==
  \A a \in Callers : pc[a] = "waiting" /\ pc[mine[a]] = "done" => a \in woken

\* "Two spawns with the same ID collide and the second is rejected."
IdsCollide ==
  [][ \A id \in Ids : registry[id] # NoTracker
        => registry'[id] \in {registry[id], NoTracker} ]_allVars
=============================================================================
