--------------------------- MODULE LifecycleProofs --------------------------
(***************************************************************************)
(* What the supervisor and its handles, and the subagent coordinator above *)
(* them, guarantee for every number of callers, trackers, ids and handles, *)
(* and every restart limit.                                                *)
(***************************************************************************)
EXTENDS SubagentCoordinator, FiniteSetTheorems, TLAPS

USE DEF Statuses, Terminal, Runnable, RunLabels, HandleLabels, IdLabels, Labels

----------------------------------------------------------------------------
(* Types.                                                                  *)

LEMMA InitType == Init => TypeOK
BY SentinelAssumption DEF Init, TypeOK, CallsOK, PoolOK

\* The beginning of a call.
LEMMA BeginType ==
  ASSUME TypeOK, NEW a \in Actors, Begin(a)
  PROVE  TypeOK'
<1> USE SentinelAssumption DEF TypeOK, CallsOK, PoolOK, Created, Call, Goto,
        handleVars, poolVars, actorVars
<1>1. CASE \E h \in Handles : Run(a, h)
  BY <1>1 DEF Run, Claim
<1>2. CASE \E h \in Handles : Terminate(a, h)
  BY <1>2 DEF Terminate
<1>3. CASE \E h \in Handles, id \in Ids \cup {NoId} : Suspend(a, h, id)
  BY <1>3 DEF Suspend
<1>4. CASE \E id \in Ids : TerminateAgent(a, id)
  BY <1>4 DEF TerminateAgent
<1>5. CASE \E id \in Ids : Spawn(a, id)
  BY <1>5 DEF Spawn, Register
<1>6. CASE \E id \in Ids : Restart(a, id)
  BY <1>6 DEF Restart
<1>7. CASE \E id \in Ids : Restore(a, id)
  BY <1>7 DEF Restore
<1> QED BY <1>1, <1>2, <1>3, <1>4, <1>5, <1>6, <1>7 DEF Begin

\* Every further step of one.
LEMMA ContinueType ==
  ASSUME TypeOK, NEW a \in Actors, Continue(a)
  PROVE  TypeOK'
<1> USE SentinelAssumption DEF TypeOK, CallsOK, PoolOK, Created, Step, Goto,
        handleVars, poolVars, actorVars
<1>1. CASE Enter(a)
  <2>1. CASE Step(a, "enter", "running")
    BY <1>1, <2>1 DEF Enter
  <2>2. CASE Step(a, "enter", "failing")
    BY <1>1, <2>2 DEF Enter
  <2> QED BY <1>1, <2>1, <2>2 DEF Enter
<1>2. CASE Leave(a)
  BY <1>2 DEF Leave
<1>3. CASE Settle(a, "idle")
  BY <1>3 DEF Settle, Settled
<1>4. CASE SetSuspended(a)
  BY <1>4 DEF SetSuspended
<1>5. CASE Save(a)
  BY <1>5 DEF Save
<1>6. CASE TerminateChecked(a)
  BY <1>6 DEF TerminateChecked
<1>7. CASE SetTerminated(a)
  BY <1>7 DEF SetTerminated, AfterTerminate
<1>8. CASE Remove(a, "removing", "forgetting") \/ Remove(a, "replacing", "spawning")
  BY <1>8 DEF Remove
<1>9. CASE ForgetRestarts(a)
  BY <1>9 DEF ForgetRestarts
<1>10. CASE FetchConfig(a)
  BY <1>10 DEF FetchConfig
<1>11. CASE RecordRestart(a)
  BY <1>11 DEF RecordRestart
<1>12. CASE Respawn(a)
  BY <1>12 DEF Respawn, Register
<1>13. CASE Load(a)
  BY <1>13 DEF Load
<1> QED BY <1>1, <1>2, <1>3, <1>4, <1>5, <1>6, <1>7, <1>8, <1>9, <1>10, <1>11,
           <1>12, <1>13 DEF Continue

LEMMA NextType == TypeOK /\ [Next]_vars => TypeOK'
<1> SUFFICES ASSUME TypeOK, [Next]_vars PROVE TypeOK'
  OBVIOUS
<1>1. CASE \E a \in Actors : Begin(a)
  BY <1>1, BeginType
<1>2. CASE \E a \in Actors : Continue(a)
  BY <1>2, ContinueType
<1>3. CASE \E id \in Ids : Expire(id)
  BY <1>3 DEF Expire, TypeOK, CallsOK, PoolOK, Created, handleVars, actorVars
<1>4. CASE UNCHANGED vars
  BY <1>4 DEF vars, TypeOK, CallsOK, PoolOK, Created, handleVars, poolVars, actorVars
<1> QED BY <1>1, <1>2, <1>3, <1>4 DEF Next, Environment

\* Every variable keeps its type, and every call the handle and the id it is on.
THEOREM TypeCorrect == Spec => []TypeOK
BY InitType, NextType, PTL DEF Spec

----------------------------------------------------------------------------
(* One run inside an agent, and none behind a status that does not say so. *)

\* The guard is taken for a run that is inside, and for that one alone.
Guarded ==
  /\ \A a \in Actors : pc[a] = "running" => busy[at[a]]
  /\ AtMostOneRun

RunsInv == Guarded /\ RunningIsBacked

\* An actor that runs a handle, before and after a step of another.
LEMMA OthersKeepRunning ==
  ASSUME TypeOK, NEW a \in Actors, NEW b \in Actors, b # a,
         Begin(a) \/ Continue(a)
  PROVE  pc'[b] = pc[b] /\ at'[b] = at[b]
<1> USE DEF TypeOK, Call, Step, Goto, actorVars
<1>1. CASE Begin(a)
  BY <1>1 DEF Begin, Run, Terminate, Suspend, TerminateAgent, Spawn, Restart,
              Restore
<1>2. CASE Continue(a)
  BY <1>2 DEF Continue, Enter, Leave, Settle, SetSuspended, Save,
              TerminateChecked, SetTerminated, Remove, ForgetRestarts, FetchConfig,
              RecordRestart, Respawn, Load
<1> QED BY <1>1, <1>2

\* What Guarded and RunningIsBacked need of a step that touches no run.
LEMMA RunsUntouched ==
  ASSUME TypeOK, RunsInv, NEW a \in Actors,
         \A b \in Actors : b # a => pc'[b] = pc[b] /\ at'[b] = at[b],
         pc[a] \notin RunLabels, pc'[a] \notin RunLabels, UNCHANGED busy,
         \A h \in Handles : status'[h] = "running" => status[h] = "running"
  PROVE  RunsInv'
<1>1. Guarded'
  BY DEF RunsInv, Guarded, AtMostOneRun
<1>2. ASSUME NEW h \in Handles, status'[h] = "running"
      PROVE  Runners(h)' # {}
  <2>1. PICK b \in Actors : b \in Runners(h)
    BY <1>2 DEF RunsInv, RunningIsBacked, Runners
  <2>2. b # a
    BY <2>1 DEF Runners
  <2>3. b \in Runners(h)'
    BY <2>1, <2>2 DEF Runners
  <2> QED BY <2>3
<1> QED BY <1>1, <1>2 DEF RunsInv, RunningIsBacked

LEMMA NextRuns == TypeOK /\ RunsInv /\ [Next]_vars => RunsInv'
<1> SUFFICES ASSUME TypeOK, RunsInv, [Next]_vars PROVE RunsInv'
  OBVIOUS
<1>1. ASSUME NEW a \in Actors, Begin(a) PROVE RunsInv'
  <2>1. CASE \E h \in Handles : Run(a, h)
    <3>1. PICK h \in Handles : Run(a, h)
      BY <2>1
    <3>2. /\ pc' = [pc EXCEPT ![a] = "enter"] /\ at' = [at EXCEPT ![a] = h]
          /\ pc[a] = "idle" /\ busy' = busy
          /\ status' = [status EXCEPT ![h] = "running"]
      BY <3>1 DEF Run, Claim, Call, Goto
    <3>3. Guarded'
      BY <3>2 DEF TypeOK, RunsInv, Guarded, AtMostOneRun
    <3>4. ASSUME NEW g \in Handles, status'[g] = "running"
          PROVE  Runners(g)' # {}
      <4>1. CASE g = h
        <5>1. a \in Runners(g)'
          BY <3>2, <4>1 DEF TypeOK, Runners
        <5> QED BY <5>1
      <4>2. CASE g # h
        <5>1. PICK b \in Actors : b \in Runners(g)
          BY <3>2, <3>4, <4>2 DEF TypeOK, RunsInv, RunningIsBacked, Runners
        <5>2. b \in Runners(g)'
          BY <3>2, <5>1 DEF TypeOK, Runners
        <5> QED BY <5>2
      <4> QED BY <4>1, <4>2
    <3> QED BY <3>3, <3>4 DEF RunsInv, RunningIsBacked
  <2>2. CASE ~\E h \in Handles : Run(a, h)
    <3>1. \/ \E h \in Handles : \/ Terminate(a, h)
                               \/ \E id \in Ids \cup {NoId} : Suspend(a, h, id)
          \/ \E id \in Ids : \/ TerminateAgent(a, id) \/ Spawn(a, id)
                            \/ Restart(a, id) \/ Restore(a, id)
      BY <1>1, <2>2 DEF Begin
    <3>2. pc[a] \notin RunLabels /\ pc'[a] \notin RunLabels
      BY <3>1 DEF TypeOK, Terminate, Suspend, TerminateAgent, Spawn, Restart,
                  Restore, Call, Goto, actorVars
    <3>3. UNCHANGED <<busy, status>>
      BY <3>1 DEF Terminate, Suspend, TerminateAgent, Spawn, Register, Restart,
                  Restore, handleVars
    <3> QED BY <1>1, <3>2, <3>3, OthersKeepRunning, RunsUntouched
  <2> QED BY <2>1, <2>2
<1>2. ASSUME NEW a \in Actors, Continue(a) PROVE RunsInv'
  <2>1. \A b \in Actors : b # a => pc'[b] = pc[b] /\ at'[b] = at[b]
    BY <1>2, OthersKeepRunning
  <2>2. CASE Enter(a)
    <3>1. /\ pc[a] = "enter" /\ pc'[a] \in {"running", "failing"}
          /\ at' = at /\ UNCHANGED status /\ at[a] \in Handles
      BY <2>2 DEF Enter, Step, Goto, TypeOK, CallsOK, Created
    <3>2. Guarded'
      <4>1. CASE Step(a, "enter", "running")
        <5>1. pc'[a] = "running"
          BY <4>1 DEF Step, Goto, TypeOK
        <5>2. ~busy[at[a]] /\ busy' = [busy EXCEPT ![at[a]] = TRUE]
          BY <2>2, <5>1 DEF Enter, Enters, Step, Goto, TypeOK
        <5>3. \A b \in Actors : b # a /\ pc[b] = "running" => at[b] # at[a]
          BY <5>2 DEF RunsInv, Guarded
        <5> QED BY <2>1, <3>1, <5>1, <5>2, <5>3
                DEF TypeOK, CallsOK, Created, RunsInv, Guarded, AtMostOneRun
      <4>2. CASE Step(a, "enter", "failing")
        BY <2>1, <2>2, <3>1, <4>2
        DEF Enter, Step, Goto, TypeOK, RunsInv, Guarded, AtMostOneRun
      <4> QED BY <2>2, <4>1, <4>2 DEF Enter
    <3>3. \A h \in Handles : Runners(h)' = Runners(h)
      BY <2>1, <3>1 DEF Runners
    <3> QED BY <3>1, <3>2, <3>3 DEF RunsInv, RunningIsBacked
  <2>3. CASE Leave(a)
    <3>1. /\ pc[a] = "running" /\ pc'[a] \in {"succeeded", "failing"}
          /\ at' = at /\ UNCHANGED status /\ at[a] \in Handles
          /\ busy' = [busy EXCEPT ![at[a]] = FALSE]
      BY <2>3 DEF Leave, Step, Goto, TypeOK, CallsOK, Created
    <3>2. Guarded'
      BY <2>1, <3>1 DEF TypeOK, CallsOK, Created, RunsInv, Guarded, AtMostOneRun
    <3>3. \A h \in Handles : Runners(h)' = Runners(h)
      BY <2>1, <3>1 DEF Runners
    <3> QED BY <3>1, <3>2, <3>3 DEF RunsInv, RunningIsBacked
  <2>4. CASE Settle(a, "idle")
    <3>1. /\ pc[a] # "running" /\ pc'[a] = "idle" /\ busy' = busy
          /\ at[a] \in Handles
          /\ status' = [status EXCEPT ![at[a]] = Settled(a)]
          /\ Settled(a) # "running"
      BY <2>4 DEF Settle, Settled, Step, Goto, TypeOK, CallsOK, Created
    <3>2. Guarded'
      BY <2>1, <3>1 DEF RunsInv, Guarded, AtMostOneRun
    <3>3. ASSUME NEW h \in Handles, status'[h] = "running"
          PROVE  Runners(h)' # {}
      <4>1. h # at[a] /\ status[h] = "running"
        BY <3>1, <3>3 DEF TypeOK
      <4>2. PICK b \in Actors : b \in Runners(h)
        BY <4>1 DEF RunsInv, RunningIsBacked, Runners
      <4>3. b \in Runners(h)'
        BY <2>1, <4>1, <4>2 DEF Runners
      <4> QED BY <4>3
    <3> QED BY <3>2, <3>3 DEF RunsInv, RunningIsBacked
  <2>5. CASE ~(Enter(a) \/ Leave(a) \/ Settle(a, "idle"))
    <3>1. pc[a] \notin RunLabels /\ pc'[a] \notin RunLabels
      BY <1>2, <2>5
      DEF Continue, SetSuspended, Save, TerminateChecked, SetTerminated,
          AfterTerminate, Remove, ForgetRestarts, FetchConfig, RecordRestart, Respawn,
          Load, Step, Goto, TypeOK
    <3>2. UNCHANGED busy
      BY <1>2, <2>5
      DEF Continue, SetSuspended, Save, TerminateChecked, SetTerminated, Remove,
          ForgetRestarts, FetchConfig, RecordRestart, Respawn, Register, Load,
          handleVars
    <3>3. \A h \in Handles : status'[h] = "running" => status[h] = "running"
      BY <1>2, <2>5
      DEF Continue, SetSuspended, Save, TerminateChecked, SetTerminated, Remove,
          ForgetRestarts, FetchConfig, RecordRestart, Respawn, Register, Load,
          handleVars, TypeOK
    <3> QED BY <2>1, <3>1, <3>2, <3>3, RunsUntouched
  <2> QED BY <2>2, <2>3, <2>4, <2>5
<1>3. CASE UNCHANGED <<status, busy, pc, at>>
  BY <1>3 DEF RunsInv, Guarded, AtMostOneRun, RunningIsBacked, Runners
<1>4. (\E id \in Ids : Expire(id)) \/ UNCHANGED vars => UNCHANGED <<status, busy, pc, at>>
  BY DEF Expire, vars, handleVars, actorVars
<1> QED BY <1>1, <1>2, <1>3, <1>4 DEF Next, Environment

LEMMA InitRuns == Init => RunsInv
BY DEF Init, RunsInv, Guarded, AtMostOneRun, RunningIsBacked

\* However a handle is suspended, run again or terminated while a run is under
\* way, its agent has at most one run inside.
THEOREM OneConversation == Spec => []AtMostOneRun
<1>1. Spec => [](TypeOK /\ RunsInv)
  BY InitType, InitRuns, NextType, NextRuns, PTL DEF Spec
<1>2. RunsInv => AtMostOneRun
  BY DEF RunsInv, Guarded
<1> QED BY <1>1, <1>2, PTL

\* A handle that says Running has a call of run that will settle it.
THEOREM RunningHasARun == Spec => []RunningIsBacked
<1>1. Spec => [](TypeOK /\ RunsInv)
  BY InitType, InitRuns, NextType, NextRuns, PTL DEF Spec
<1>2. RunsInv => RunningIsBacked
  BY DEF RunsInv
<1> QED BY <1>1, <1>2, PTL

----------------------------------------------------------------------------
(* Restarts.                                                               *)

\* The restarts of an id that passed can_restart and are not yet in the log.
Waiting(id) == {a \in Actors : on[a] = id /\ pc[a] \in {"restart", "backoff"}}

RestartsInv ==
  \A id \in Ids :
    /\ recent[id] + Cardinality(Waiting(id))
         <= MaxRestarts + Cardinality(Actors) - 1
    /\ MaxRestarts = 0 => recent[id] = 0 /\ Waiting(id) = {}

LEMMA ActorsCounted ==
  /\ Cardinality(Actors) \in Nat \ {0}
  /\ \A S \in SUBSET Actors : /\ IsFiniteSet(S)
                              /\ Cardinality(S) \in Nat
                              /\ Cardinality(S) <= Cardinality(Actors)
BY ActorsAssumption, FS_CardinalityType, FS_EmptySet, FS_Subset

\* What a step does that adds neither a restart to the log nor one that waits.
LEMMA RestartsShrink ==
  ASSUME TypeOK, RestartsInv, TypeOK',
         \A id \in Ids : /\ recent'[id] <= recent[id]
                         /\ Waiting(id)' \subseteq Waiting(id)
  PROVE  RestartsInv'
<1> SUFFICES ASSUME NEW id \in Ids
             PROVE  /\ recent'[id] + Cardinality(Waiting(id)')
                         <= MaxRestarts + Cardinality(Actors) - 1
                    /\ MaxRestarts = 0 => recent'[id] = 0 /\ Waiting(id)' = {}
  BY DEF RestartsInv
<1>1. Waiting(id) \in SUBSET Actors /\ Waiting(id)' \in SUBSET Actors
  BY DEF Waiting
<1>2. Cardinality(Waiting(id)') <= Cardinality(Waiting(id))
  BY <1>1, ActorsCounted, FS_Subset
<1>3. /\ Cardinality(Waiting(id)') \in Nat /\ Cardinality(Waiting(id)) \in Nat
      /\ Cardinality(Actors) \in Nat
  BY <1>1, ActorsCounted
<1>4. recent[id] \in Nat /\ recent'[id] \in Nat
  BY DEF TypeOK
<1> QED BY <1>2, <1>3, <1>4, RestartAssumption DEF RestartsInv

\* A restart that passed the check: the limit was not reached yet, and no more
\* than all the actors wait.
LEMMA RestartCounted ==
  ASSUME TypeOK, RestartsInv, NEW a \in Actors, NEW i \in Ids, Restart(a, i)
  PROVE  RestartsInv'
<1>1. /\ pc[a] = "idle" /\ pc' = [pc EXCEPT ![a] = "restart"]
      /\ on' = [on EXCEPT ![a] = i] /\ recent' = recent
      /\ MaxRestarts > 0 /\ recent[i] < MaxRestarts
  BY DEF Restart, RestartAllowed, Call, Goto, poolVars
<1> SUFFICES ASSUME NEW id \in Ids
             PROVE  recent'[id] + Cardinality(Waiting(id)')
                      <= MaxRestarts + Cardinality(Actors) - 1
  BY <1>1, RestartAssumption DEF RestartsInv
<1>2. Waiting(id)' \in SUBSET Actors
  BY DEF Waiting
<1>3. CASE id = i
  BY <1>1, <1>2, <1>3, ActorsCounted, RestartAssumption DEF TypeOK
<1>4. CASE id # i
  <2>1. Waiting(id)' = Waiting(id)
    BY <1>1, <1>4 DEF TypeOK, Waiting
  <2> QED BY <1>1, <2>1 DEF RestartsInv
<1> QED BY <1>3, <1>4

\* It enters the log, and waits no more.
LEMMA RecordCounted ==
  ASSUME TypeOK, RestartsInv, NEW a \in Actors, RecordRestart(a)
  PROVE  RestartsInv'
<1>1. /\ pc[a] = "backoff" /\ pc' = [pc EXCEPT ![a] = "replacing"]
      /\ on' = on /\ on[a] \in Ids
      /\ recent' = [recent EXCEPT ![on[a]] = @ + 1]
  BY DEF RecordRestart, Step, Goto, TypeOK, CallsOK
<1>2. MaxRestarts # 0
  BY <1>1 DEF RestartsInv, Waiting
<1> SUFFICES ASSUME NEW id \in Ids
             PROVE  recent'[id] + Cardinality(Waiting(id)')
                      <= MaxRestarts + Cardinality(Actors) - 1
  BY <1>2 DEF RestartsInv
<1>3. CASE id = on[a]
  <2>1. a \in Waiting(id) /\ Waiting(id)' = Waiting(id) \ {a}
    BY <1>1, <1>3 DEF TypeOK, Waiting
  <2>2. IsFiniteSet(Waiting(id)) /\ Cardinality(Waiting(id)) \in Nat
    BY ActorsCounted DEF Waiting
  <2>3. Cardinality(Waiting(id)') = Cardinality(Waiting(id)) - 1
    BY <2>1, <2>2, FS_RemoveElement
  <2>4. recent'[id] = recent[id] + 1 /\ recent[id] \in Nat
    BY <1>1, <1>3 DEF TypeOK
  <2> QED BY <2>2, <2>3, <2>4 DEF RestartsInv
<1>4. CASE id # on[a]
  <2>1. Waiting(id)' = Waiting(id) /\ recent'[id] = recent[id]
    BY <1>1, <1>4 DEF TypeOK, Waiting
  <2> QED BY <2>1 DEF RestartsInv
<1> QED BY <1>3, <1>4

\* What the other steps leave of the log, and of those who wait.
LEMMA OthersShrink ==
  ASSUME TypeOK, NEW a \in Actors, ~RecordRestart(a),
         ~\E i \in Ids : Restart(a, i), Begin(a) \/ Continue(a), NEW id \in Ids
  PROVE  recent'[id] <= recent[id] /\ Waiting(id)' \subseteq Waiting(id)
<1>1. CASE Begin(a)
  BY <1>1 DEF Begin, Run, Terminate, Suspend, TerminateAgent, Spawn, Register,
     Restore, Call, Goto, poolVars, actorVars, TypeOK, Waiting
<1>2. CASE Continue(a)
  <2>1. recent'[id] <= recent[id]
    BY <1>2 DEF Continue, Enter, Leave, Settle, SetSuspended, Save,
       TerminateChecked, SetTerminated, Remove, ForgetRestarts, FetchConfig, Respawn,
       Register, Load, poolVars, TypeOK
  <2>2. /\ \A b \in Actors : b # a => pc'[b] = pc[b] /\ on'[b] = on[b]
        /\ pc'[a] \in {"restart", "backoff"}
             => pc[a] = "restart" /\ on'[a] = on[a]
    BY <1>2 DEF Continue, Enter, Leave, Settle, SetSuspended, Save,
       TerminateChecked, SetTerminated, AfterTerminate, Remove, ForgetRestarts,
       FetchConfig, Respawn, Load, Step, Goto, TypeOK
  <2> QED BY <2>1, <2>2 DEF Waiting
<1> QED BY <1>1, <1>2

LEMMA NextRestarts == TypeOK /\ RestartsInv /\ [Next]_vars => RestartsInv'
<1> SUFFICES ASSUME TypeOK, RestartsInv, [Next]_vars PROVE RestartsInv'
  OBVIOUS
<1>1. TypeOK'
  BY NextType
<1>2. ASSUME NEW a \in Actors, Begin(a) \/ Continue(a) PROVE RestartsInv'
  <2>1. CASE RecordRestart(a)
    BY <2>1, RecordCounted
  <2>2. CASE \E i \in Ids : Restart(a, i)
    BY <2>2, RestartCounted
  <2>3. CASE ~RecordRestart(a) /\ ~\E i \in Ids : Restart(a, i)
    BY <1>1, <1>2, <2>3, OthersShrink, RestartsShrink
  <2> QED BY <2>1, <2>2, <2>3
<1>3. CASE \E i \in Ids : Expire(i)
  <2>1. \A id \in Ids : recent'[id] <= recent[id] /\ Waiting(id)' = Waiting(id)
    BY <1>3 DEF Expire, TypeOK, Waiting, actorVars
  <2> QED BY <1>1, <2>1, RestartsShrink
<1>4. CASE UNCHANGED vars
  <2>1. \A id \in Ids : recent'[id] <= recent[id] /\ Waiting(id)' = Waiting(id)
    BY <1>4 DEF vars, poolVars, actorVars, TypeOK, Waiting
  <2> QED BY <1>1, <2>1, RestartsShrink
<1> QED BY <1>2, <1>3, <1>4 DEF Next, Environment

LEMMA InitRestarts == Init => RestartsInv
<1> SUFFICES ASSUME Init, NEW id \in Ids
             PROVE  /\ recent[id] + Cardinality(Waiting(id))
                         <= MaxRestarts + Cardinality(Actors) - 1
                    /\ MaxRestarts = 0 => recent[id] = 0 /\ Waiting(id) = {}
  BY DEF RestartsInv
<1>1. recent[id] = 0 /\ Waiting(id) = {}
  BY DEF Init, Waiting
<1> QED BY <1>1, FS_EmptySet, ActorsCounted, RestartAssumption

\* The entries of the restart log inside the window pass the policy's limit by
\* the restarts that were checked together at most, which is one less than the
\* callers; with a limit of 0 there is none.
THEOREM RestartsWithinReach == Spec => []RestartsBounded
<1>1. Spec => [](TypeOK /\ RestartsInv)
  BY InitType, InitRestarts, NextType, NextRestarts, PTL DEF Spec
<1>2. TypeOK /\ RestartsInv => RestartsBounded
  <2> SUFFICES ASSUME TypeOK, RestartsInv, NEW id \in Ids
               PROVE  /\ recent[id] <= MaxRestarts + Cardinality(Actors) - 1
                      /\ MaxRestarts = 0 => recent[id] = 0
    BY DEF RestartsBounded
  <2>1. Cardinality(Waiting(id)) \in Nat /\ Cardinality(Actors) \in Nat
    BY ActorsCounted DEF Waiting
  <2> QED BY <2>1, RestartAssumption DEF TypeOK, RestartsInv
<1> QED BY <1>1, <1>2, PTL

----------------------------------------------------------------------------
(* The coordinator.                                                        *)

USE SentinelAssumption, TrackersAssumption
    DEF Statuses, Terminal, Runnable, RunLabels, HandleLabels, IdLabels, Labels,
        TaskLabels, CallerLabels, Finished, Callers

----------------------------------------------------------------------------
(* Types, and who is where.                                                *)

\* The handles, the supervisor's pool, and what every call is on.
CallTypes ==
  /\ status \in [Handles -> Statuses]
  /\ name \in [Handles -> Ids \cup {NoId}]
  /\ busy \in [Handles -> BOOLEAN]
  /\ pool \in [Ids -> Handles \cup {NoHandle}]
  /\ pc \in [Actors -> Labels \cup TaskLabels \cup CallerLabels]
  /\ at \in [Actors -> Handles \cup {NoHandle}]
  /\ on \in [Actors -> Ids \cup {NoId}]
  /\ CallsOK /\ PoolOK
  /\ \A t \in Trackers :
       /\ pc[t] \in {"idle"} \cup TaskLabels \cup RunLabels
       /\ pc[t] # "idle" => at[t] \in Created /\ on[t] \in Ids
  /\ \A a \in Callers : /\ pc[a] \in Labels \cup CallerLabels
                        /\ pc[a] \in CallerLabels => on[a] \in Ids

\* The coordinator's own variables.
TrackTypes ==
  /\ state \in [Trackers -> {"none", "pending", "active"} \cup Finished]
  /\ cancelToken \in [Trackers -> BOOLEAN]
  /\ registry \in [Ids -> Trackers \cup {NoTracker}]
  /\ responses \subseteq Ids
  /\ mine \in [Callers -> Trackers \cup {NoTracker}]
  /\ woken \subseteq Callers
  /\ \A a \in Callers : pc[a] \in CallerLabels => mine[a] \in Trackers

LEMMA InitTypes == CoordinatorInit => CallTypes /\ TrackTypes
BY DEF CoordinatorInit, Init, CallTypes, TrackTypes, CallsOK, PoolOK

\* An actor's call of the supervisor, whoever it is.
LEMMA BeginTypes ==
  ASSUME CallTypes, NEW a \in Callers, Begin(a)
  PROVE  CallTypes'
<1> USE DEF CallTypes, CallsOK, PoolOK, Created, Call, Goto, handleVars, poolVars, actorVars
<1>1. CASE \E h \in Handles : Run(a, h)
  BY <1>1 DEF Run, Claim
<1>2. CASE \E h \in Handles : Terminate(a, h)
  BY <1>2 DEF Terminate
<1>3. CASE \E h \in Handles, id \in Ids \cup {NoId} : Suspend(a, h, id)
  BY <1>3 DEF Suspend
<1>4. CASE \E id \in Ids : TerminateAgent(a, id)
  BY <1>4 DEF TerminateAgent
<1>5. CASE \E id \in Ids : Spawn(a, id)
  BY <1>5 DEF Spawn, Register
<1>6. CASE \E id \in Ids : Restart(a, id)
  BY <1>6 DEF Restart
<1>7. CASE \E id \in Ids : Restore(a, id)
  BY <1>7 DEF Restore
<1> QED BY <1>1, <1>2, <1>3, <1>4, <1>5, <1>6, <1>7 DEF Begin

LEMMA ContinueTypes ==
  ASSUME CallTypes, NEW a \in Callers, Continue(a)
  PROVE  CallTypes'
<1> USE DEF CallTypes, CallsOK, PoolOK, Created, Step, Goto, handleVars, poolVars, actorVars
<1>1. CASE Enter(a)
  <2>1. CASE Step(a, "enter", "running")
    BY ZenonT(60), <1>1, <2>1 DEF Enter
  <2>2. CASE Step(a, "enter", "failing")
    BY <1>1, <2>2 DEF Enter
  <2> QED BY <1>1, <2>1, <2>2 DEF Enter
<1>2. CASE Leave(a)
  BY <1>2 DEF Leave
<1>3. CASE Settle(a, "idle")
  BY <1>3 DEF Settle, Settled
<1>4. CASE SetSuspended(a)
  BY <1>4 DEF SetSuspended
<1>5. CASE Save(a)
  BY <1>5 DEF Save
<1>6. CASE TerminateChecked(a)
  BY <1>6 DEF TerminateChecked
<1>7. CASE SetTerminated(a)
  BY <1>7 DEF SetTerminated, AfterTerminate
<1>8. CASE Remove(a, "removing", "forgetting") \/ Remove(a, "replacing", "spawning")
  BY <1>8 DEF Remove
<1>9. CASE ForgetRestarts(a)
  BY <1>9 DEF ForgetRestarts
<1>10. CASE FetchConfig(a)
  BY <1>10 DEF FetchConfig
<1>11. CASE RecordRestart(a)
  BY <1>11 DEF RecordRestart
<1>12. CASE Respawn(a)
  BY <1>12 DEF Respawn, Register
<1>13. CASE Load(a)
  BY <1>13 DEF Load
<1> QED BY <1>1, <1>2, <1>3, <1>4, <1>5, <1>6, <1>7, <1>8, <1>9, <1>10, <1>11,
           <1>12, <1>13 DEF Continue

\* The coordinator's calls.
LEMMA CallerTypes ==
  ASSUME CallTypes, TrackTypes, NEW a \in Callers,
         \/ RegisterTracker(a) \/ SpawnTask(a) \/ SpawnRejected(a) \/ Arm(a)
         \/ WaitReturns(a)
         \/ \E id \in Ids : \/ Wait(a, id)
                            \/ \E parent \in Ids \cup {NoId} : SpawnSubagent(a, id, parent)
  PROVE  CallTypes'
<1> USE DEF CallTypes, TrackTypes, CallsOK, PoolOK, Created, Step, Call, Goto, handleVars,
        poolVars, actorVars
<1>1. CASE RegisterTracker(a)
  BY <1>1 DEF RegisterTracker
<1>2. CASE SpawnTask(a)
  <2>1. PICK h \in Handles :
          /\ Register(on[a], h)
          /\ pc' = [pc EXCEPT ![a] = "idle", ![mine[a]] = "start"]
          /\ at' = [at EXCEPT ![a] = NoHandle, ![mine[a]] = h]
          /\ on' = [on EXCEPT ![a] = NoId, ![mine[a]] = on[a]]
    BY <1>2 DEF SpawnTask
  <2>2. mine[a] \in Trackers /\ on[a] \in Ids /\ pc[a] = "registered"
    BY <1>2 DEF SpawnTask
  <2>3. name' \in [Handles -> Ids \cup {NoId}] /\ name'[h] = on[a] /\ Created \subseteq Created'
        /\ PoolOK' /\ UNCHANGED <<status, busy>>
        /\ pool' \in [Ids -> Handles \cup {NoHandle}]
    BY <2>1, <2>2 DEF Register
  <2> QED BY SMTT(30), <2>1, <2>2, <2>3
<1>3. CASE SpawnRejected(a)
  BY <1>3 DEF SpawnRejected
<1>4. CASE Arm(a)
  BY <1>4 DEF Arm
<1>5. CASE WaitReturns(a)
  BY <1>5 DEF WaitReturns
<1>6. CASE \E id \in Ids : Wait(a, id)
  BY <1>6 DEF Wait
<1>7. CASE \E id \in Ids, parent \in Ids \cup {NoId} : SpawnSubagent(a, id, parent)
  BY <1>7 DEF SpawnSubagent
<1> QED BY <1>1, <1>2, <1>3, <1>4, <1>5, <1>6, <1>7

\* The background tasks.
LEMMA TaskTypes ==
  ASSUME CallTypes, NEW t \in Trackers, TaskStep(t) \/ Leave(t)
  PROVE  CallTypes'
<1> USE DEF CallTypes, CallsOK, PoolOK, Created, Step, Goto, handleVars, poolVars, actorVars,
        vars
<1>1. CASE Activate(t)
  BY <1>1 DEF Activate
<1>2. CASE Poll(t)
  BY <1>2 DEF Poll, Claim
<1>3. CASE Enter(t)
  <2>1. CASE Step(t, "enter", "running")
    BY ZenonT(60), <1>3, <2>1 DEF Enter
  <2>2. CASE Step(t, "enter", "failing")
    BY <1>3, <2>2 DEF Enter
  <2> QED BY <1>3, <2>1, <2>2 DEF Enter
<1>4. CASE Settle(t, IF pc[t] = "succeeded" THEN "completing" ELSE "erring")
  BY <1>4 DEF Settle, Settled
<1>5. CASE CancelTask(t)
  BY <1>5 DEF CancelTask, GuardDropped, Cancellable, SetState
<1>6. CASE Complete(t)
  BY <1>6 DEF Complete
<1>7. CASE Fail(t)
  BY <1>7 DEF Fail
<1>8. CASE Notify(t)
  BY <1>8 DEF Notify
<1>9. CASE Leave(t)
  BY <1>9 DEF Leave
<1> QED BY <1>1, <1>2, <1>3, <1>4, <1>5, <1>6, <1>7, <1>8, <1>9 DEF TaskStep, Drive

LEMMA NextCallTypes ==
  CallTypes /\ TrackTypes /\ [CoordinatorNext]_allVars => CallTypes'
<1> SUFFICES ASSUME CallTypes, TrackTypes, [CoordinatorNext]_allVars PROVE CallTypes'
  OBVIOUS
<1>1. CASE \E id \in Ids : Cancel(id)
  BY <1>1 DEF Cancel, vars, handleVars, poolVars, actorVars, CallTypes, CallsOK, PoolOK, Created
<1>2. CASE \E id \in Ids : Expire(id)
  BY <1>2 DEF Expire, handleVars, actorVars, CallTypes, CallsOK, PoolOK, Created
<1>3. CASE UNCHANGED allVars
  BY <1>3 DEF allVars, vars, handleVars, poolVars, actorVars, CallTypes, CallsOK, PoolOK, Created
<1>4. CASE \E t \in Trackers : TaskStep(t) \/ Leave(t)
  BY <1>4, TaskTypes
<1>5. CASE \E a \in Callers : Begin(a) \/ Continue(a)
  BY <1>5, BeginTypes, ContinueTypes
<1> QED BY <1>1, <1>2, <1>3, <1>4, <1>5, CallerTypes
      DEF CoordinatorNext, CallerStep, Environment

\* The supervisor's own operations move a caller from label to label of theirs.
LEMMA SupervisorFrame ==
  ASSUME CallTypes, NEW a \in Callers, Begin(a) \/ Continue(a)
  PROVE  /\ pc[a] \notin CallerLabels
         /\ \E l \in Labels : pc' = [pc EXCEPT ![a] = l]
<1> USE DEF CallTypes, Call, Step, Goto
<1>1. CASE \E h \in Handles : Run(a, h)
  BY <1>1 DEF Run
<1>2. CASE \E h \in Handles : Terminate(a, h)
  BY <1>2 DEF Terminate
<1>3. CASE \E h \in Handles, id \in Ids \cup {NoId} : Suspend(a, h, id)
  BY <1>3 DEF Suspend
<1>4. CASE \E id \in Ids : TerminateAgent(a, id)
  BY <1>4 DEF TerminateAgent
<1>5. CASE \E id \in Ids : Spawn(a, id)
  <2>1. pc' = [pc EXCEPT ![a] = "idle"] /\ pc[a] = "idle"
    BY <1>5 DEF Spawn, actorVars
  <2> QED BY <2>1
<1>6. CASE \E id \in Ids : Restart(a, id)
  BY <1>6 DEF Restart
<1>7. CASE \E id \in Ids : Restore(a, id)
  BY <1>7 DEF Restore
<1>8. CASE Enter(a)
  BY <1>8 DEF Enter
<1>9. CASE Leave(a)
  BY <1>9 DEF Leave
<1>10. CASE Settle(a, "idle")
  BY <1>10 DEF Settle
<1>11. CASE SetSuspended(a) \/ Save(a) \/ TerminateChecked(a)
  BY <1>11 DEF SetSuspended, Save, TerminateChecked
<1>12. CASE SetTerminated(a)
  BY <1>12 DEF SetTerminated, AfterTerminate
<1>13. CASE \/ Remove(a, "removing", "forgetting") \/ Remove(a, "replacing", "spawning")
            \/ ForgetRestarts(a)
  BY <1>13 DEF Remove, ForgetRestarts
<1>14. CASE FetchConfig(a) \/ RecordRestart(a) \/ Load(a)
  BY <1>14 DEF FetchConfig, RecordRestart, Load
<1>15. CASE Respawn(a)
  BY <1>15 DEF Respawn
<1> QED BY <1>1, <1>2, <1>3, <1>4, <1>5, <1>6, <1>7, <1>8, <1>9, <1>10, <1>11,
           <1>12, <1>13, <1>14, <1>15 DEF Begin, Continue

LEMMA NextTrackTypes ==
  CallTypes /\ TrackTypes /\ [CoordinatorNext]_allVars => TrackTypes'
<1> SUFFICES ASSUME CallTypes, TrackTypes, [CoordinatorNext]_allVars PROVE TrackTypes'
  OBVIOUS
<1> USE DEF TrackTypes, CallTypes, trackerVars, waitVars, subagentVars
<1>1. CASE \E id \in Ids : Cancel(id)
  BY <1>1 DEF Cancel, vars, actorVars
<1>2. CASE \E id \in Ids : Expire(id) /\ UNCHANGED subagentVars
  BY <1>2 DEF Expire, actorVars
<1>3. CASE UNCHANGED allVars
  BY <1>3 DEF allVars, vars, actorVars
<1>4. CASE \E a \in Callers : (Begin(a) \/ Continue(a)) /\ UNCHANGED subagentVars
  <2>1. PICK a \in Callers : (Begin(a) \/ Continue(a)) /\ UNCHANGED subagentVars
    BY <1>4
  <2>2. pc[a] \notin CallerLabels /\ \E l \in Labels : pc' = [pc EXCEPT ![a] = l]
    BY <2>1, SupervisorFrame
  <2> QED BY <2>1, <2>2
<1>5. CASE \E t \in Trackers : TaskStep(t) \/ (Leave(t) /\ UNCHANGED subagentVars)
  <2>1. PICK t \in Trackers : TaskStep(t) \/ (Leave(t) /\ UNCHANGED subagentVars)
    BY <1>5
  <2>2. \A a \in Callers : pc'[a] = pc[a]
    BY <2>1 DEF TaskStep, Activate, Poll, Drive, Enter, Settle, Leave, CancelTask, Complete,
                Fail, Notify, Step, Goto
  <2>3. /\ UNCHANGED <<cancelToken, registry, mine>>
        /\ state' \in [Trackers -> {"none", "pending", "active"} \cup Finished]
        /\ responses' \subseteq Ids /\ woken' \subseteq Callers
    BY <2>1 DEF TaskStep, Activate, Poll, Drive, Leave, CancelTask, Complete,
                Fail, Notify, SetState, Step
  <2> QED BY <2>2, <2>3
<1>6. ASSUME NEW a \in Callers,
             \/ RegisterTracker(a) \/ SpawnTask(a) \/ SpawnRejected(a) \/ Arm(a)
             \/ WaitReturns(a)
             \/ \E id \in Ids : \/ Wait(a, id)
                                \/ \E parent \in Ids \cup {NoId} : SpawnSubagent(a, id, parent)
      PROVE  TrackTypes'
  <2> USE DEF Step, Call, Goto
  <2>1. CASE RegisterTracker(a)
    BY <2>1 DEF RegisterTracker
  <2>2. CASE SpawnTask(a)
    BY <2>2 DEF SpawnTask
  <2>3. CASE SpawnRejected(a)
    BY <2>3 DEF SpawnRejected
  <2>4. CASE Arm(a)
    BY <2>4 DEF Arm
  <2>5. CASE WaitReturns(a)
    BY <2>5 DEF WaitReturns
  <2>6. CASE \E id \in Ids : Wait(a, id)
    BY <2>6 DEF Wait
  <2>7. CASE \E id \in Ids, parent \in Ids \cup {NoId} : SpawnSubagent(a, id, parent)
    BY <2>7 DEF SpawnSubagent
  <2> QED BY <1>6, <2>1, <2>2, <2>3, <2>4, <2>5, <2>6, <2>7
<1> QED BY <1>1, <1>2, <1>3, <1>4, <1>5, <1>6
      DEF CoordinatorNext, CallerStep, Environment

----------------------------------------------------------------------------
(* How far a subagent is: its state, its task, and its spawn agree.         *)

\* The state of a tracker is the one its task has set last.
TaskStage ==
  \A t \in Trackers :
    /\ pc[t] = "idle" => state[t] \in {"none", "pending"}
    /\ pc[t] = "start" => state[t] = "pending"
    /\ pc[t] \in RunLabels \cup {"select", "completing", "erring"} => state[t] = "active"
    /\ pc[t] \in {"notifying", "done"} => state[t] \in Finished

\* A caller in the middle of a spawn has a tracker to itself, whose task has yet
\* to start.
Spawning == {a \in Callers : pc[a] \in {"reserved", "registered"}}
SpawnStage ==
  /\ \A a \in Spawning :
       /\ pc[a] = "reserved" => state[mine[a]] = "none"
       /\ pc[a] = "registered" => state[mine[a]] = "pending" /\ pc[mine[a]] = "idle"
  /\ \A a, b \in Spawning : mine[a] = mine[b] => a = b

\* What the registry and the woken waiters refer to.
Referred ==
  /\ \A id \in Ids : registry[id] # NoTracker => state[registry[id]] # "none"
  /\ \A a \in woken : pc[a] = "waiting" /\ state[mine[a]] \in Finished

Stages == TaskStage /\ SpawnStage /\ Referred

\* A step of the task moves its own tracker one stage on.
LEMMA TaskMoves ==
  ASSUME CallTypes, TrackTypes, Stages, NEW t \in Trackers,
         TaskStep(t) \/ (Leave(t) /\ UNCHANGED subagentVars)
  PROVE  /\ \E l \in RunLabels \cup TaskLabels : pc' = [pc EXCEPT ![t] = l]
         /\ pc[t] # "idle"
         /\ \/ state' = state
            \/ state[t] = "pending" /\ state' = [state EXCEPT ![t] = "active"]
            \/ state[t] = "active" /\ \E s \in Finished : state' = [state EXCEPT ![t] = s]
         /\ TaskStage'
         /\ UNCHANGED <<cancelToken, registry, mine>>
         /\ woken' \subseteq woken \cup {a \in Callers : /\ pc[a] = "waiting" /\ mine[a] = t
                                                      /\ state[t] \in Finished}
<1> USE DEF CallTypes, TrackTypes, Stages, TaskStage, Step, Goto, SetState,
            trackerVars, waitVars, subagentVars
<1>1. CASE Activate(t)
  BY <1>1 DEF Activate
<1>2. CASE Poll(t)
  BY <1>2 DEF Poll
<1>3. CASE Enter(t) /\ UNCHANGED subagentVars
  <2>1. CASE Step(t, "enter", "running") /\ UNCHANGED subagentVars
    BY <2>1
  <2>2. CASE Step(t, "enter", "failing") /\ UNCHANGED subagentVars
    BY <2>2
  <2> QED BY <1>3, <2>1, <2>2 DEF Enter
<1>4. CASE /\ Settle(t, IF pc[t] = "succeeded" THEN "completing" ELSE "erring")
           /\ UNCHANGED subagentVars
  <2>1. pc[t] \in {"succeeded", "failing"} /\ UNCHANGED subagentVars
    BY <1>4 DEF Settle
  <2>2. \E l \in {"completing", "erring"} : pc' = [pc EXCEPT ![t] = l]
    BY <1>4 DEF Settle
  <2> QED BY ZenonT(60), <2>1, <2>2
<1>5. CASE CancelTask(t)
  BY <1>5 DEF CancelTask, Cancellable
<1>6. CASE Complete(t)
  BY <1>6 DEF Complete
<1>7. CASE Fail(t)
  BY <1>7 DEF Fail
<1>8. CASE Notify(t)
  <2>1. /\ pc[t] = "notifying" /\ pc' = [pc EXCEPT ![t] = "done"]
        /\ UNCHANGED <<state, cancelToken, registry, mine>>
        /\ woken' = woken \cup {a \in Callers : pc[a] = "waiting" /\ mine[a] = t}
    BY <1>8 DEF Notify
  <2>2. state[t] \in Finished /\ TaskStage'
    BY <2>1
  <2>3. woken' \subseteq woken \cup {a \in Callers : /\ pc[a] = "waiting" /\ mine[a] = t
                                                 /\ state[t] \in Finished}
    BY <2>1, <2>2
  <2> QED BY <2>1, <2>2, <2>3
<1>9. CASE Leave(t) /\ UNCHANGED subagentVars
  <2>1. PICK l \in {"succeeded", "failing"} : Step(t, "running", l) /\ UNCHANGED subagentVars
    BY <1>9 DEF Leave
  <2>2. pc[t] = "running" /\ pc' = [pc EXCEPT ![t] = l] /\ UNCHANGED subagentVars
    BY <2>1
  <2> QED BY <2>2
<1> QED BY <1>1, <1>2, <1>3, <1>4, <1>5, <1>6, <1>7, <1>8, <1>9 DEF TaskStep, Drive

LEMMA TaskStages ==
  ASSUME CallTypes, TrackTypes, Stages, NEW t \in Trackers,
         TaskStep(t) \/ (Leave(t) /\ UNCHANGED subagentVars)
  PROVE  Stages'
<1>1. PICK l \in RunLabels \cup TaskLabels : pc' = [pc EXCEPT ![t] = l]
  BY TaskMoves
<1>2. /\ pc[t] # "idle" /\ t \notin Callers
      /\ \/ state' = state
         \/ state[t] = "pending" /\ state' = [state EXCEPT ![t] = "active"]
         \/ state[t] = "active" /\ \E s \in Finished : state' = [state EXCEPT ![t] = s]
      /\ UNCHANGED <<registry, mine>>
      /\ woken' \subseteq woken \cup {a \in Callers : /\ pc[a] = "waiting" /\ mine[a] = t
                                                   /\ state[t] \in Finished}
  BY TaskMoves
<1>3. \A a \in Callers : pc'[a] = pc[a]
  BY <1>1, <1>2 DEF CallTypes
<1>4. /\ \A u \in Trackers : state[u] # "none" => state'[u] # "none"
      /\ \A u \in Trackers : state[u] \in Finished => state'[u] \in Finished
      /\ \A u \in Trackers : pc[u] = "idle" => state'[u] = state[u] /\ pc'[u] = "idle"
  BY <1>1, <1>2 DEF CallTypes, TrackTypes
<1>5. TaskStage'
  BY TaskMoves
<1>6. SpawnStage'
  <2>1. Spawning' = Spawning
    BY <1>3 DEF Spawning
  <2>2. \A a \in Spawning : mine[a] \in Trackers /\ mine'[a] = mine[a] /\ pc'[a] = pc[a]
    BY <1>2, <1>3 DEF Spawning, TrackTypes
  <2>3. \A a \in Spawning : mine[a] # t \/ pc[a] = "reserved"
    BY <1>2 DEF Stages, SpawnStage, Spawning
  <2>4. \A a \in Spawning : pc[a] = "reserved" => state[mine[a]] = "none"
    BY DEF Stages, SpawnStage
  <2>5. state[t] # "none" \/ state' = state
    BY <1>2
  <2>6. \A a \in Spawning : pc[a] = "reserved" => state'[mine[a]] = "none"
    BY <1>2, <2>2, <2>4, <2>5 DEF TrackTypes
  <2> QED BY <1>4, <2>1, <2>2, <2>3, <2>6 DEF Stages, SpawnStage
<1>7. Referred'
  BY <1>2, <1>3, <1>4 DEF Stages, Referred, TrackTypes
<1> QED BY <1>5, <1>6, <1>7 DEF Stages

\* The supervisor's own operations leave the subagents where they are.
LEMMA SupervisorStages ==
  ASSUME CallTypes, TrackTypes, Stages, NEW a \in Callers,
         Begin(a) \/ Continue(a), UNCHANGED subagentVars
  PROVE  Stages'
<1>1. pc[a] \notin CallerLabels /\ \E l \in Labels : pc' = [pc EXCEPT ![a] = l]
  BY SupervisorFrame
<1>2. a \notin Trackers /\ UNCHANGED <<state, registry, mine, woken>>
  BY DEF subagentVars, trackerVars, waitVars
<1>3. Spawning' = Spawning /\ a \notin Spawning /\ a \notin woken
  BY <1>1, <1>2 DEF Spawning, CallTypes, Stages, Referred
<1>4. \A t \in Trackers : pc'[t] = pc[t]
  BY <1>1, <1>2 DEF CallTypes
<1>5. \A b \in Callers : b # a => pc'[b] = pc[b]
  BY <1>1 DEF CallTypes
<1>6. \A b \in Spawning : mine[b] \in Trackers
  BY DEF Spawning, TrackTypes
<1>7. TaskStage'
  BY <1>2, <1>4 DEF Stages, TaskStage
<1>8. SpawnStage'
  BY <1>2, <1>3, <1>4, <1>5, <1>6 DEF Stages, SpawnStage, Spawning
<1>9. Referred'
  BY <1>2, <1>3, <1>5 DEF Stages, Referred, TrackTypes
<1> QED BY <1>7, <1>8, <1>9 DEF Stages

\* The coordinator's calls.
LEMMA CallerStages ==
  ASSUME CallTypes, TrackTypes, Stages, NEW a \in Callers,
         \/ RegisterTracker(a) \/ SpawnTask(a) \/ SpawnRejected(a) \/ Arm(a)
         \/ WaitReturns(a)
         \/ \E id \in Ids : \/ Wait(a, id)
                            \/ \E parent \in Ids \cup {NoId} : SpawnSubagent(a, id, parent)
  PROVE  Stages'
<1> USE DEF CallTypes, TrackTypes, Stages, TaskStage, SpawnStage, Spawning, Referred,
            Step, Call, Goto, trackerVars, waitVars, subagentVars
<1>1. CASE RegisterTracker(a)
  BY <1>1 DEF RegisterTracker
<1>2. CASE SpawnTask(a)
  BY <1>2 DEF SpawnTask
<1>3. CASE SpawnRejected(a)
  BY <1>3 DEF SpawnRejected
<1>4. CASE Arm(a)
  BY <1>4 DEF Arm
<1>5. CASE WaitReturns(a)
  BY <1>5 DEF WaitReturns
<1>6. CASE \E id \in Ids : Wait(a, id)
  BY <1>6 DEF Wait
<1>7. CASE \E id \in Ids, parent \in Ids \cup {NoId} : SpawnSubagent(a, id, parent)
  BY <1>7 DEF SpawnSubagent, Range
<1> QED BY <1>1, <1>2, <1>3, <1>4, <1>5, <1>6, <1>7

LEMMA NextStages ==
  CallTypes /\ TrackTypes /\ Stages /\ [CoordinatorNext]_allVars => Stages'
<1> SUFFICES ASSUME CallTypes, TrackTypes, Stages, [CoordinatorNext]_allVars PROVE Stages'
  OBVIOUS
<1>1. CASE \E id \in Ids : Cancel(id)
  BY <1>1 DEF Cancel, vars, actorVars, waitVars, Stages, TaskStage, SpawnStage, Spawning,
             Referred
<1>2. CASE \E id \in Ids : Expire(id) /\ UNCHANGED subagentVars
  BY <1>2 DEF Expire, actorVars, subagentVars, trackerVars, waitVars, Stages, TaskStage,
             SpawnStage, Spawning, Referred
<1>3. CASE UNCHANGED allVars
  BY <1>3 DEF allVars, vars, actorVars, subagentVars, trackerVars, waitVars, Stages,
             TaskStage, SpawnStage, Spawning, Referred
<1> QED BY <1>1, <1>2, <1>3, TaskStages, SupervisorStages, CallerStages
      DEF CoordinatorNext, CallerStep, Environment

----------------------------------------------------------------------------
(* Who is inside an agent.                                                 *)

\* Agent::is_running is set while, and only while, one actor is inside the run.
Inside ==
  /\ AtMostOneRun
  /\ \A h \in Handles : busy[h] => \E a \in Actors : at[a] = h /\ pc[a] = "running"
  /\ \A a \in Actors : pc[a] = "running" => busy[at[a]]

\* A step by which nobody enters an agent or leaves one.
Quiet ==
  /\ busy' = busy
  /\ \A a \in Actors : /\ pc'[a] = "running" <=> pc[a] = "running"
                       /\ pc[a] = "running" => at'[a] = at[a]

LEMMA QuietKeepsInside ==
  ASSUME CallTypes, Inside, Quiet
  PROVE  Inside'
<1>1. \A a \in Actors : pc'[a] = "running" => pc[a] = "running" /\ at'[a] = at[a]
  BY DEF Quiet
<1>2. AtMostOneRun'
  BY <1>1 DEF Inside, AtMostOneRun
<1>3. \A h \in Handles : busy'[h] => \E a \in Actors : at'[a] = h /\ pc'[a] = "running"
  BY DEF Quiet, Inside
<1>4. \A a \in Actors : pc'[a] = "running" => busy'[at'[a]]
  BY <1>1 DEF Quiet, Inside
<1> QED BY <1>2, <1>3, <1>4 DEF Inside

\* An actor may enter where nobody is inside.
LEMMA EnterKeepsInside ==
  ASSUME CallTypes, Inside, NEW a \in Actors, Enter(a)
  PROVE  Inside'
<1>1. CASE Step(a, "enter", "failing") /\ UNCHANGED busy
  BY <1>1, QuietKeepsInside DEF Step, Goto, Quiet, CallTypes
<1>2. CASE Step(a, "enter", "running") /\ ~busy[at[a]] /\ busy' = [busy EXCEPT ![at[a]] = TRUE]
  <2>1. /\ at[a] \in Handles /\ at'[a] = at[a] /\ pc'[a] = "running"
        /\ \A b \in Actors : b # a => pc'[b] = pc[b] /\ at'[b] = at[b]
    BY <1>2 DEF Step, Goto, CallTypes, CallsOK, Created
  <2>2. \A b \in Actors : b # a /\ pc[b] = "running" => at[b] # at[a]
    BY <1>2 DEF Inside
  <2>3. AtMostOneRun'
    BY <2>1, <2>2 DEF Inside, AtMostOneRun
  <2>4. \A h \in Handles : busy'[h] => \E b \in Actors : at'[b] = h /\ pc'[b] = "running"
    <3> SUFFICES ASSUME NEW h \in Handles, busy'[h]
                 PROVE  \E b \in Actors : at'[b] = h /\ pc'[b] = "running"
      OBVIOUS
    <3>1. CASE h = at[a]
      BY <2>1, <3>1
    <3>2. CASE h # at[a]
      <4>1. busy[h]
        BY <1>2, <3>2 DEF CallTypes
      <4>2. PICK b \in Actors : at[b] = h /\ pc[b] = "running"
        BY <4>1 DEF Inside
      <4> QED BY <2>1, <3>2, <4>2
    <3> QED BY <3>1, <3>2
  <2>5. \A b \in Actors : pc'[b] = "running" => at'[b] \in Handles /\ busy'[at'[b]]
    <3> SUFFICES ASSUME NEW b \in Actors, pc'[b] = "running"
                 PROVE  at'[b] \in Handles /\ busy'[at'[b]]
      OBVIOUS
    <3>1. CASE b = a
      BY <1>2, <2>1, <3>1 DEF CallTypes
    <3>2. CASE b # a
      BY <1>2, <2>1, <3>2 DEF CallTypes, CallsOK, Created, Inside
    <3> QED BY <3>1, <3>2
  <2> QED BY <2>3, <2>4, <2>5 DEF Inside
<1> QED BY <1>1, <1>2 DEF Enter, Enters

\* Whoever is inside leaves nobody behind, whether the run ends or is dropped.
LEMMA LeaveKeepsInside ==
  ASSUME CallTypes, Inside, NEW a \in Actors, NEW l, l # "running", l # "idle",
         Step(a, "running", l), busy' = [busy EXCEPT ![at[a]] = FALSE]
  PROVE  Inside'
<1>1. /\ at[a] \in Handles /\ at' = at /\ pc[a] = "running" /\ pc'[a] # "running"
      /\ \A b \in Actors : b # a => pc'[b] = pc[b]
  BY DEF Step, Goto, CallTypes, CallsOK, Created
<1>2. \A b \in Actors : b # a /\ pc[b] = "running" => at[b] # at[a]
  BY <1>1 DEF Inside, AtMostOneRun
<1>3. AtMostOneRun'
  BY <1>1 DEF Inside, AtMostOneRun
<1>4. \A h \in Handles : busy'[h] => \E b \in Actors : at'[b] = h /\ pc'[b] = "running"
  <2> SUFFICES ASSUME NEW h \in Handles, busy'[h]
               PROVE  \E b \in Actors : at'[b] = h /\ pc'[b] = "running"
    OBVIOUS
  <2>1. h # at[a] /\ busy[h]
    BY DEF CallTypes
  <2>2. PICK b \in Actors : at[b] = h /\ pc[b] = "running"
    BY <2>1 DEF Inside
  <2> QED BY <1>1, <2>1, <2>2
<1>5. \A b \in Actors : pc'[b] = "running" => busy'[at'[b]]
  BY <1>1, <1>2 DEF Inside, CallTypes, CallsOK, Created
<1> QED BY <1>3, <1>4, <1>5 DEF Inside

LEMMA BeginQuiet ==
  ASSUME CallTypes, NEW a \in Callers, Begin(a)
  PROVE  Quiet
<1> USE DEF CallTypes, Quiet, Call, Goto, handleVars, actorVars
<1>1. CASE \E h \in Handles : Run(a, h)
  BY <1>1 DEF Run, Claim
<1>2. CASE \E h \in Handles : Terminate(a, h)
  BY <1>2 DEF Terminate
<1>3. CASE \E h \in Handles, id \in Ids \cup {NoId} : Suspend(a, h, id)
  BY <1>3 DEF Suspend
<1>4. CASE \E id \in Ids : TerminateAgent(a, id)
  BY <1>4 DEF TerminateAgent
<1>5. CASE \E id \in Ids : Spawn(a, id)
  BY <1>5 DEF Spawn, Register
<1>6. CASE \E id \in Ids : Restart(a, id)
  BY <1>6 DEF Restart
<1>7. CASE \E id \in Ids : Restore(a, id)
  BY <1>7 DEF Restore
<1> QED BY <1>1, <1>2, <1>3, <1>4, <1>5, <1>6, <1>7 DEF Begin

\* A step of an actor who neither enters nor leaves.
LEMMA StepQuiet ==
  ASSUME CallTypes, NEW a \in Actors, NEW from, NEW to, Step(a, from, to),
         from # "running", to # "running", busy' = busy
  PROVE  Quiet
BY DEF Quiet, CallTypes, Step, Goto

LEMMA ContinueInside ==
  ASSUME CallTypes, Inside, NEW a \in Callers, Continue(a)
  PROVE  Inside'
<1> USE DEF handleVars
<1>1. CASE Enter(a)
  BY <1>1, EnterKeepsInside
<1>2. CASE Leave(a)
  BY <1>2, LeaveKeepsInside DEF Leave
<1>3. CASE Settle(a, "idle")
  BY <1>3, StepQuiet, QuietKeepsInside DEF Settle
<1>4. CASE SetSuspended(a)
  BY <1>4, StepQuiet, QuietKeepsInside DEF SetSuspended
<1>5. CASE Save(a) \/ ForgetRestarts(a) \/ RecordRestart(a)
  BY <1>5, StepQuiet, QuietKeepsInside DEF Save, ForgetRestarts, RecordRestart
<1>6. CASE TerminateChecked(a)
  BY <1>6, StepQuiet, QuietKeepsInside DEF TerminateChecked
<1>7. CASE SetTerminated(a)
  BY <1>7, StepQuiet, QuietKeepsInside DEF SetTerminated, AfterTerminate
<1>8. CASE Remove(a, "removing", "forgetting") \/ Remove(a, "replacing", "spawning")
  BY <1>8, StepQuiet, QuietKeepsInside DEF Remove
<1>9. CASE FetchConfig(a) \/ Load(a)
  BY <1>9, StepQuiet, QuietKeepsInside DEF FetchConfig, Load
<1>10. CASE Respawn(a)
  BY <1>10, StepQuiet, QuietKeepsInside DEF Respawn, Register
<1> QED BY <1>1, <1>2, <1>3, <1>4, <1>5, <1>6, <1>7, <1>8, <1>9, <1>10 DEF Continue

LEMMA CallerInside ==
  ASSUME CallTypes, TrackTypes, Stages, Inside, NEW a \in Callers,
         \/ RegisterTracker(a) \/ SpawnTask(a) \/ SpawnRejected(a) \/ Arm(a)
         \/ WaitReturns(a)
         \/ \E id \in Ids : \/ Wait(a, id)
                            \/ \E parent \in Ids \cup {NoId} : SpawnSubagent(a, id, parent)
  PROVE  Inside'
<1> USE DEF handleVars
<1>1. CASE RegisterTracker(a) \/ SpawnRejected(a) \/ Arm(a) \/ WaitReturns(a)
  BY <1>1, StepQuiet, QuietKeepsInside DEF RegisterTracker, SpawnRejected, Arm, WaitReturns
<1>2. CASE SpawnTask(a)
  <2>1. pc[a] = "registered" /\ mine[a] \in Trackers /\ pc[mine[a]] = "idle"
    BY <1>2 DEF SpawnTask, TrackTypes, Stages, SpawnStage, Spawning
  <2>2. Quiet
    BY <1>2, <2>1 DEF SpawnTask, Register, Quiet, CallTypes
  <2> QED BY <2>2, QuietKeepsInside
<1>3. CASE \E id \in Ids : \/ Wait(a, id)
                          \/ \E parent \in Ids \cup {NoId} : SpawnSubagent(a, id, parent)
  <2>1. Quiet
    BY <1>3 DEF Wait, SpawnSubagent, Call, Goto, Quiet, CallTypes
  <2> QED BY <2>1, QuietKeepsInside
<1> QED BY <1>1, <1>2, <1>3

LEMMA TaskInside ==
  ASSUME CallTypes, Inside, NEW t \in Trackers, TaskStep(t) \/ Leave(t)
  PROVE  Inside'
<1> USE DEF handleVars
<1>1. CASE Activate(t) \/ Complete(t) \/ Fail(t) \/ Notify(t)
  BY <1>1, StepQuiet, QuietKeepsInside DEF Activate, Complete, Fail, Notify
<1>2. CASE Poll(t)
  BY <1>2, StepQuiet, QuietKeepsInside DEF Poll, Claim
<1>3. CASE Enter(t)
  BY <1>3, EnterKeepsInside
<1>4. CASE Settle(t, IF pc[t] = "succeeded" THEN "completing" ELSE "erring")
  BY <1>4, StepQuiet, QuietKeepsInside DEF Settle
<1>5. CASE CancelTask(t)
  <2>1. CASE pc[t] = "running"
    BY <1>5, <2>1, LeaveKeepsInside DEF CancelTask, GuardDropped
  <2>2. CASE pc[t] = "select"
    BY <1>5, <2>2, StepQuiet, QuietKeepsInside DEF CancelTask, GuardDropped
  <2> QED BY <1>5, <2>1, <2>2 DEF CancelTask, Cancellable
<1>6. CASE Leave(t)
  BY <1>6, LeaveKeepsInside DEF Leave
<1> QED BY <1>1, <1>2, <1>3, <1>4, <1>5, <1>6 DEF TaskStep, Drive

LEMMA NextInside ==
  CallTypes /\ TrackTypes /\ Stages /\ Inside /\ [CoordinatorNext]_allVars => Inside'
<1> SUFFICES ASSUME CallTypes, TrackTypes, Stages, Inside, [CoordinatorNext]_allVars
             PROVE  Inside'
  OBVIOUS
<1>1. CASE (\E id \in Ids : Cancel(id) \/ Expire(id)) \/ UNCHANGED allVars
  <2>1. Quiet
    BY <1>1 DEF Quiet, Cancel, Expire, allVars, vars, handleVars, actorVars
  <2> QED BY <2>1, QuietKeepsInside
<1>2. CASE \E a \in Callers : Begin(a)
  BY <1>2, BeginQuiet, QuietKeepsInside
<1> QED BY <1>1, <1>2, ContinueInside, CallerInside, TaskInside
      DEF CoordinatorNext, CallerStep, Environment

----------------------------------------------------------------------------
(* The theorems.                                                           *)

CoordinatorInv == CallTypes /\ TrackTypes /\ Stages /\ Inside

LEMMA InitInv == CoordinatorInit => CoordinatorInv
<1> SUFFICES ASSUME CoordinatorInit PROVE CoordinatorInv
  OBVIOUS
<1>1. CallTypes /\ TrackTypes
  BY InitTypes
<1>2. Stages
  BY DEF CoordinatorInit, Init, Stages, TaskStage, SpawnStage, Spawning, Referred
<1>3. Inside
  BY DEF CoordinatorInit, Init, Inside, AtMostOneRun
<1> QED BY <1>1, <1>2, <1>3 DEF CoordinatorInv

LEMMA Invariance == CoordinatorSpec => []CoordinatorInv
<1>1. CoordinatorInv /\ [CoordinatorNext]_allVars => CoordinatorInv'
  BY NextCallTypes, NextTrackTypes, NextStages, NextInside DEF CoordinatorInv
<1> QED BY <1>1, InitInv, PTL DEF CoordinatorSpec

\* Types, and a task at work has the handle and the id of its subagent.
THEOREM CoordinatorType == CoordinatorSpec => []CoordinatorTypeOK
<1>1. CoordinatorInv => CoordinatorTypeOK
  BY DEF CoordinatorInv, CallTypes, TrackTypes, CoordinatorTypeOK
<1> QED BY <1>1, Invariance, PTL

\* Notify follows the write of the terminal state: whoever is woken finds one.
THEOREM WokenFinished == CoordinatorSpec => []WokenSeesEnd
<1>1. CoordinatorInv => WokenSeesEnd
  BY DEF CoordinatorInv, Stages, Referred, WokenSeesEnd
<1> QED BY <1>1, Invariance, PTL

\* A subagent's agent has one run inside at a time, and is released when the run
\* ends or is dropped by a cancellation.
THEOREM Released == CoordinatorSpec => []AgentReleased
<1>1. CoordinatorInv => AgentReleased
  BY DEF CoordinatorInv, Inside, AgentReleased
<1> QED BY <1>1, Invariance, PTL

\* The safety half of ImplementsLifecycle: every step of the coordinator moves
\* each subagent as its lifecycle says, or leaves it alone.
THEOREM FollowsLifecycle ==
  CoordinatorSpec => Lifecycle!Init /\ [][Lifecycle!Next]_<<state, cancelToken>>
<1>1. CoordinatorInit => Lifecycle!Init
  BY DEF CoordinatorInit, Lifecycle!Init
<1>2. CoordinatorInv /\ [CoordinatorNext]_allVars
        => Lifecycle!Next \/ UNCHANGED <<state, cancelToken>>
  <2> SUFFICES ASSUME CoordinatorInv, [CoordinatorNext]_allVars
               PROVE  Lifecycle!Next \/ UNCHANGED <<state, cancelToken>>
    OBVIOUS
  <2> USE DEF Lifecycle!Next, Lifecycle!Register, Lifecycle!Activate, Lifecycle!Finish,
              Lifecycle!Cancel, Lifecycle!Move, Lifecycle!Outcomes
  <2>1. CASE \E t \in Trackers : TaskStep(t) \/ (Leave(t) /\ UNCHANGED subagentVars)
    <3>1. PICK t \in Trackers :
            /\ UNCHANGED cancelToken
            /\ \/ state' = state
               \/ state[t] = "pending" /\ state' = [state EXCEPT ![t] = "active"]
               \/ state[t] = "active" /\ \E s \in Finished : state' = [state EXCEPT ![t] = s]
      BY <2>1, TaskMoves DEF CoordinatorInv
    <3> QED BY <3>1
  <2>2. CASE \E id \in Ids : Cancel(id)
    <3>1. PICK id \in Ids : Cancel(id)
      BY <2>2
    <3>2. registry[id] \in Trackers /\ state[registry[id]] # "none"
      BY <3>1 DEF Cancel, CoordinatorInv, TrackTypes, Stages, Referred
    <3> QED BY <3>1, <3>2 DEF Cancel
  <2>3. CASE \E a \in Callers : RegisterTracker(a)
    <3>1. PICK a \in Callers : RegisterTracker(a)
      BY <2>3
    <3>2. mine[a] \in Trackers /\ state[mine[a]] = "none"
      BY <3>1 DEF RegisterTracker, Step, CoordinatorInv, TrackTypes, Stages, SpawnStage, Spawning
    <3> QED BY <3>1, <3>2 DEF RegisterTracker
  <2>4. CASE \E a \in Callers : SpawnTask(a) \/ SpawnRejected(a) \/ Arm(a) \/ WaitReturns(a)
    BY <2>4 DEF SpawnTask, SpawnRejected, Arm, WaitReturns, trackerVars, subagentVars
  <2>5. CASE \E a \in Callers, id \in Ids :
               \/ Wait(a, id)
               \/ \E parent \in Ids \cup {NoId} : SpawnSubagent(a, id, parent)
    BY <2>5 DEF Wait, SpawnSubagent, trackerVars
  <2>6. CASE UNCHANGED subagentVars \/ UNCHANGED allVars
    BY <2>6 DEF allVars, subagentVars, trackerVars
  <2> QED BY <2>1, <2>2, <2>3, <2>4, <2>5, <2>6 DEF CoordinatorNext, CallerStep
<1> QED BY <1>1, <1>2, Invariance, PTL DEF CoordinatorSpec
=============================================================================
