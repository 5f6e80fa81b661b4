------------------------- MODULE SubagentLifecycle -------------------------
(***************************************************************************)
(* What the subagent coordinator promises of a tracked subagent            *)
(* (lifecycle/subagent_coordinator.rs, "Lifecycle"): pending, then active, *)
(* then one terminal state for good; a cancelled subagent that is active   *)
(* reaches one, even if its run would never end by itself.                 *)
(***************************************************************************)
CONSTANT Trackers

Outcomes == {"completed", "failed", "cancelled"}
States == {"none", "pending", "active"} \cup Outcomes

VARIABLES
  state,      \* the state of each subagent, "none" before it is registered
  cancelled   \* whether its cancellation was requested

vars == <<state, cancelled>>

Init ==
  /\ state = [t \in Trackers |-> "none"]
  /\ cancelled = [t \in Trackers |-> FALSE]

Move(t, from, to) ==
  /\ state[t] = from
  /\ state' = [state EXCEPT ![t] = to]
  /\ UNCHANGED cancelled

Register(t) == Move(t, "none", "pending")
Activate(t) == Move(t, "pending", "active")
Finish(t) == \E outcome \in Outcomes : Move(t, "active", outcome)

Cancel(t) ==
  /\ state[t] # "none"
  /\ cancelled' = [cancelled EXCEPT ![t] = TRUE]
  /\ UNCHANGED state

FinishCancelled(t) == cancelled[t] /\ Finish(t)

Next == \E t \in Trackers : Register(t) \/ Activate(t) \/ Finish(t) \/ Cancel(t)

Spec == Init /\ [][Next]_vars /\ \A t \in Trackers : WF_vars(FinishCancelled(t))
=============================================================================
