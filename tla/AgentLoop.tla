----------------------------- MODULE AgentLoop -----------------------------
(***************************************************************************)
(* The turn loop of oxicode-agent (agent_loop/mod.rs, run_loop) as         *)
(* Agent::run_with_channel drives it, together with what feeds it: the     *)
(* session's steering and follow-up queues behind the polled hooks, the    *)
(* loop's own bounded queues, and the flags that stop it.                  *)
(*                                                                         *)
(* The conversation is abstracted to the user-queued messages that have    *)
(* entered it in this run (delivered); a response of the provider to the   *)
(* outcome its stream ends with; a tool batch to whether it mutates files, *)
(* updates the todo list, asks to terminate or is cut short.               *)
(***************************************************************************)
EXTENDS Integers, Sequences, FiniteSets

CONSTANTS
  SessionSteers,   \* messages users steer with through the session (RPC steer)
  SessionFollows,  \* messages users queue as follow-ups through the session
  LoopSteers,      \* messages an embedder pushes with AgentLoop::steer
  LoopFollows,     \* messages an embedder pushes with AgentLoop::follow_up
  SteerMode,       \* QueueMode of the steering queue
  FollowMode,      \* QueueMode of the follow-up queue
  SteerCapacity,   \* STEERING_QUEUE_CAPACITY (256 in the code)
  FollowCapacity,  \* FOLLOW_UP_QUEUE_CAPACITY (64 in the code)
  AutoMode,        \* the autonomy mode: the steering hook adds a message
  Outcomes,        \* how the provider's streams may end
  Decisions,       \* what the finish_turn hook may answer
  MaxRetries,      \* auto_retry_max_attempts (3 in the code)
  NudgeThreshold,  \* MID_RUN_NUDGE_MUTATION_THRESHOLD (12 in the code)
  MaxNudges,       \* MID_RUN_NUDGE_MAX_PER_CYCLE (2 in the code)
  MaxReminders,    \* todo_reminders_max
  TodoSets,        \* the non-empty sets of open todo tasks, by signature
  InterruptCap,    \* TtsrSettings::max_retries_per_turn (3 by default)
  NoTodo           \* the todo list has no open task

Modes == {"All", "OneAtATime"}
AllOutcomes == {"text", "calls", "closed", "retryable", "fatal", "aborted",
                "error", "reordered", "interrupt", "cancelled"}
AllDecisions == {"none", "end", "continue"}

ASSUME ModeAssumption ==
  /\ SteerMode \in Modes /\ FollowMode \in Modes
  /\ AutoMode \in BOOLEAN
  \* A run with the hook's message in the queue abstracts its place there.
  /\ AutoMode => SteerMode = "All"
ASSUME OutcomeAssumption ==
  \* Any stream can be cancelled: the other endings are up to the provider.
  /\ {"cancelled"} \subseteq Outcomes /\ Outcomes \subseteq AllOutcomes
  /\ Decisions \subseteq AllDecisions
ASSUME BoundAssumption ==
  /\ SteerCapacity \in Nat \ {0} /\ FollowCapacity \in Nat \ {0}
  /\ MaxRetries \in Nat /\ NudgeThreshold \in Nat \ {0}
  /\ MaxNudges \in Nat /\ MaxReminders \in Nat /\ InterruptCap \in Nat
ASSUME MessageAssumption ==
  /\ SessionSteers \cap LoopSteers = {}
  /\ SessionFollows \cap LoopFollows = {}
  /\ NoTodo \notin TodoSets

SteerMessages == SessionSteers \cup LoopSteers
FollowMessages == SessionFollows \cup LoopFollows
Hidden == {"auto", "nudge", "reminder"}
Nothing == [steer |-> <<>>, follow |-> <<>>, hidden |-> {}]
Pcs == {"idle", "enter", "begin", "turn", "stream", "retryWait", "tools",
        "finish", "drain", "late", "follow", "final", "reminder", "ended"}

VARIABLES
  pc,             \* where run_loop is
  sessionSteer,   \* SessionState::steering
  sessionFollow,  \* SessionState::follow_up
  unsent,         \* messages nobody has submitted yet
  shouldStop,     \* SessionState::should_stop
  cancelFlag,     \* Agent::cancel_flag, the loop's cancel_signal
  externalStop,   \* AgentLoop::external_stop
  retryCancel,    \* the auto-retry cancel flag
  steerQueue,     \* AgentLoop::steering_queue
  followQueue,    \* AgentLoop::follow_up_queue
  autoQueued,     \* the steering queue holds the hook's autonomy message
  pending,        \* pending_messages of run_loop
  hasMore,        \* has_more_tool_calls
  force,          \* force_continue
  attempt,        \* auto_retry_attempt
  nudge,          \* MidRunNudgeState
  todo,           \* the open todo tasks and StopReminderState
  orphans,        \* tool calls and results of the history out of step
  ttsrMatch,      \* the text in TtsrEngine::buffers violates a rule (one whose
                  \* pattern further text cannot undo)
  accepted,       \* history: what the loop's queues accepted in this run
  delivered,      \* history: what entered the conversation in this run
  failures,       \* history: retryable errors since the last other answer
  interrupts,     \* history: rule interrupts since the last other answer
  unseenResults,  \* history: tool results the provider has not answered, of
                  \* a batch that did not ask to end the loop
  endedBy         \* history: why the last run ended

control == <<pc, hasMore, force>>
session == <<sessionSteer, sessionFollow, unsent>>
flags == <<shouldStop, cancelFlag, externalStop, retryCancel>>
queues == <<steerQueue, followQueue, autoQueued, pending, accepted, delivered>>
counters == <<attempt, nudge, todo, orphans, ttsrMatch>>
histories == <<failures, interrupts, unseenResults, endedBy>>
vars == <<control, session, flags, queues, counters, histories>>

----------------------------------------------------------------------------
(* Helpers.                                                                *)

Least(a, b) == IF a <= b THEN a ELSE b

\* drain_steering_queue / drain_follow_up_queue: the batch, and what stays.
Batch(queue, mode) ==
  IF mode = "All" \/ queue = <<>> THEN queue ELSE <<Head(queue)>>
RestClears(queue, mode) == <<>>                                \* (mutant)
Rest(queue, mode) ==
  IF mode = "All" \/ queue = <<>> THEN <<>> ELSE Tail(queue)

RoomUnbounded(queue, messages, capacity) == messages           \* (mutant)
\* What try_push lets into a queue of this capacity from a list of messages.
Room(queue, messages, capacity) ==
  SubSeq(messages, 1, Least(Len(messages), capacity - Len(queue)))

IsPending(p) == p.steer # <<>> \/ p.follow # <<>> \/ p.hidden # {}

TestUnforced(more, p, forced) ==                               \* (mutant)
  IF more \/ IsPending(p) THEN "turn" ELSE "late"
TestToolless(more, p, forced) ==                               \* (mutant)
  IF IsPending(p) \/ forced THEN "turn" ELSE "late"
\* The guard of run_loop's inner `while`.
Test(more, p, forced) ==
  IF more \/ IsPending(p) \/ forced THEN "turn" ELSE "late"

IsCancelled == externalStop \/ cancelFlag

\* The emit callback copies both stop flags into external_stop.
Propagated == externalStop \/ cancelFlag \/ shouldStop
EmitOnly == UNCHANGED externalStop                             \* (mutant)
Emit == externalStop' = Propagated

----------------------------------------------------------------------------
Init ==
  /\ pc = "idle"
  /\ sessionSteer = <<>> /\ sessionFollow = <<>>
  /\ unsent = SteerMessages \cup FollowMessages
  /\ shouldStop = FALSE /\ cancelFlag = FALSE
  /\ externalStop = FALSE /\ retryCancel = FALSE
  /\ steerQueue = <<>> /\ followQueue = <<>> /\ autoQueued = FALSE
  /\ pending = Nothing
  /\ hasMore = FALSE /\ force = FALSE
  /\ attempt = 0
  /\ nudge = [mutations |-> 0, count |-> 0]
  /\ todo \in [open : TodoSets \cup {NoTodo}, last : {NoTodo}, count : {0}]
  /\ orphans = "none"
  /\ ttsrMatch = FALSE
  /\ accepted = [steer |-> <<>>, follow |-> <<>>]
  /\ delivered = [steer |-> <<>>, follow |-> <<>>]
  /\ failures = 0 /\ interrupts = 0
  /\ unseenResults = FALSE
  /\ endedBy = "none"

----------------------------------------------------------------------------
(* The session and the embedder, concurrent with the loop.                 *)

\* AgentSession::steer_sync_message / follow_up_sync_message.
SubmitSteer(m) ==
  /\ m \in unsent \cap SessionSteers
  /\ sessionSteer' = Append(sessionSteer, m)
  /\ unsent' = unsent \ {m}
  /\ UNCHANGED <<control, sessionFollow, flags, queues, counters, histories>>

SubmitFollow(m) ==
  /\ m \in unsent \cap SessionFollows
  /\ sessionFollow' = Append(sessionFollow, m)
  /\ unsent' = unsent \ {m}
  /\ UNCHANGED <<control, sessionSteer, flags, queues, counters, histories>>

\* AgentLoop::steer / follow_up, while the loop exists.
PushSteer(m) ==
  LET room == Room(steerQueue, <<m>>, SteerCapacity) IN
  /\ pc \notin {"idle", "enter"}
  /\ m \in unsent \cap LoopSteers
  /\ steerQueue' = steerQueue \o room
  /\ accepted' = [accepted EXCEPT !.steer = @ \o room]
  /\ unsent' = unsent \ {m}
  /\ UNCHANGED <<control, sessionSteer, sessionFollow, flags, followQueue,
                 autoQueued, pending, delivered, counters, histories>>

PushFollow(m) ==
  LET room == Room(followQueue, <<m>>, FollowCapacity) IN
  /\ pc \notin {"idle", "enter"}
  /\ m \in unsent \cap LoopFollows
  /\ followQueue' = followQueue \o room
  /\ accepted' = [accepted EXCEPT !.follow = @ \o room]
  /\ unsent' = unsent \ {m}
  /\ UNCHANGED <<control, sessionSteer, sessionFollow, flags, steerQueue,
                 autoQueued, pending, delivered, counters, histories>>

\* AgentSession::abort: the TUI's Ctrl+C calls it alone, RPC abort adds
\* Agent::cancel.
Abort ==
  /\ shouldStop' = TRUE
  /\ cancelFlag' \in {cancelFlag, TRUE}
  /\ sessionSteer' = <<>> /\ sessionFollow' = <<>>
  /\ UNCHANGED <<control, unsent, externalStop, retryCancel, queues, counters,
                 histories>>

\* AgentLoop::cancel, for an embedder.
Cancel ==
  /\ pc \notin {"idle", "enter"}
  /\ externalStop' = TRUE
  /\ UNCHANGED <<control, session, shouldStop, cancelFlag, retryCancel, queues,
                 counters, histories>>

\* Agent::cancel_auto_retry.
CancelRetry ==
  /\ retryCancel' = TRUE
  /\ UNCHANGED <<control, session, shouldStop, cancelFlag, externalStop, queues,
                 counters, histories>>

----------------------------------------------------------------------------
(* Starting a run.                                                         *)

\* The host's prompt: reset_should_stop (RPC's also calls reset_cancel), then
\* the run is spawned.
Prompt ==
  /\ pc = "idle"
  /\ pc' = "enter"
  /\ shouldStop' = FALSE
  /\ cancelFlag' \in {cancelFlag, FALSE}
  /\ UNCHANGED <<hasMore, force, session, externalStop, retryCancel, queues,
                 counters, histories>>

\* RPC's prompt on a session that was swapped in while another one's run goes:
\* that session's flag does not tell of the run, so the flags the sessions share
\* are reset, and only then the running guard refuses the new run.
PromptMeanwhile ==
  /\ pc # "idle"
  /\ shouldStop' = FALSE /\ cancelFlag' = FALSE
  /\ UNCHANGED <<control, session, externalStop, retryCancel, queues, counters,
                 histories>>

\* What a poll of both hooks moves into the loop's queues; the steering hook
\* adds its own message in auto mode.
Poll(steer, follow, acc) ==
  LET roomS == Room(steer, sessionSteer, SteerCapacity)
      roomF == Room(follow, sessionFollow, FollowCapacity)
  IN  /\ steerQueue' = steer \o roomS
      /\ followQueue' = follow \o roomF
      /\ autoQueued' = (autoQueued \/ AutoMode)
      /\ sessionSteer' = <<>> /\ sessionFollow' = <<>>
      /\ accepted' = [steer |-> acc.steer \o roomS,
                      follow |-> acc.follow \o roomF]

\* Agent::run_with_channel_message: the running guard, reset_cancel, a fresh
\* AgentLoop pre-populated from the hooks, set_auto_retry_state.
Enter ==
  /\ pc = "enter"
  /\ pc' = "begin"
  /\ cancelFlag' = FALSE /\ externalStop' = FALSE /\ retryCancel' = FALSE
  /\ Poll(<<>>, <<>>, [steer |-> <<>>, follow |-> <<>>])
  /\ delivered' = [steer |-> <<>>, follow |-> <<>>]
  /\ endedBy' = "none"
  /\ UNCHANGED <<hasMore, force, unsent, shouldStop, pending, counters, failures,
                 interrupts, unseenResults>>

\* pending_messages = self.drain_steering_queue().
DrainSteering ==
  /\ pending' = [Nothing EXCEPT !.steer = Batch(steerQueue, SteerMode),
                   !.hidden = IF autoQueued THEN {"auto"} ELSE {}]
  /\ steerQueue' = Rest(steerQueue, SteerMode)
  /\ autoQueued' = FALSE

\* AgentStart, and the head of run_loop.
Begin ==
  /\ pc = "begin"
  /\ pc' = "turn"
  /\ Emit
  /\ DrainSteering
  /\ hasMore' = TRUE
  /\ UNCHANGED <<force, session, shouldStop, cancelFlag, retryCancel, followQueue,
                 accepted, delivered, counters, histories>>

----------------------------------------------------------------------------
(* One turn.                                                               *)

\* sanitize_orphaned_tool_results, before each request: a batch with some of
\* its calls answered loses its calls first and its results the next time.
Sanitized == IF orphans = "partial" THEN "stripped" ELSE "none"

\* TurnStart, process_steering_messages, poll_external_queues, and the request.
BeginTurn ==
  /\ pc = "turn"
  /\ pc' = "stream"
  /\ force' = FALSE
  /\ Emit
  /\ delivered' = [steer |-> delivered.steer \o pending.steer,
                   follow |-> delivered.follow \o pending.follow]
  /\ pending' = Nothing
  /\ Poll(steerQueue, followQueue, accepted)
  /\ orphans' = Sanitized
  /\ UNCHANGED <<hasMore, unsent, shouldStop, cancelFlag, retryCancel, attempt,
                 nudge, todo, ttsrMatch, histories>>

\* A streamed event carries the stop flags to the loop.
StreamEvent ==
  /\ pc = "stream"
  /\ externalStop # Propagated
  /\ Emit
  /\ UNCHANGED <<control, session, shouldStop, cancelFlag, retryCancel, queues,
                 counters, histories>>

\* Return from run_loop.
End(reason) == pc' = "ended" /\ endedBy' = reason

\* StreamOutcome::Complete with an ordinary answer. An answer's text passed the
\* rules; one made of tool calls alone has no text to check. A stream the
\* provider closes without Done is complete as far as it got, unchecked.
Answer(outcome) ==
  /\ outcome \in {"text", "calls", "closed"}
  /\ outcome \in {"text", "calls"} => ~IsCancelled
  /\ outcome = "text" => ~ttsrMatch
  /\ pc' \in CASE outcome = "text"   -> {"finish"}
              [] outcome = "calls"  -> {"tools"}
              [] outcome = "closed" -> {"finish", "tools"}
  /\ hasMore' = FALSE
  /\ attempt' = 0
  /\ failures' = 0 /\ interrupts' = 0
  /\ unseenResults' = FALSE
  /\ Emit
  /\ UNCHANGED <<force, retryCancel, pending, orphans, ttsrMatch, endedBy>>

RetryAllowedOnceMore(tries) == tries <= MaxRetries + 1         \* (mutant)
RetryAllowed(tries) == tries <= MaxRetries

\* Complete with StopReason::Error, and handle_retryable_error up to its wait.
RetryableError ==
  /\ ~IsCancelled
  /\ failures' = failures + 1
  /\ IF RetryAllowed(attempt + 1)
     THEN /\ attempt' = attempt + 1
          /\ pc' = "retryWait"
          /\ retryCancel' = FALSE
          /\ UNCHANGED endedBy
     ELSE /\ attempt' = 0
          /\ End("failed")
          /\ UNCHANGED retryCancel
  /\ Emit
  /\ UNCHANGED <<hasMore, force, pending, orphans, ttsrMatch, interrupts,
                 unseenResults>>

\* Every ending the loop does not come back from: an error that is not
\* retried, StopReason::Aborted, StreamOutcome::Error, Cancelled.
Failure(outcome) ==
  /\ outcome \in {"fatal", "aborted", "error", "cancelled"}
  /\ outcome \in {"fatal", "aborted"} => ~IsCancelled
  /\ outcome = "cancelled" => IsCancelled
  /\ attempt' = IF outcome = "aborted" THEN 0 ELSE attempt
  /\ End(IF outcome = "cancelled" THEN "stopped" ELSE "failed")
  /\ Emit
  /\ UNCHANGED <<hasMore, force, retryCancel, pending, orphans, ttsrMatch,
                 failures, interrupts, unseenResults>>

\* The provider rejects the order of tool messages: sanitize what is left and
\* `continue`.
Reordered ==
  /\ orphans = "stripped"
  /\ orphans' = "none"
  /\ pc' = Test(hasMore, pending, force)
  /\ Emit
  /\ UNCHANGED <<hasMore, force, retryCancel, pending, attempt, ttsrMatch,
                 failures, interrupts, unseenResults, endedBy>>

\* A rule of the TTSR engine matches its buffers: push the reminder, continue.
RuleInterrupt ==
  /\ ~IsCancelled
  /\ ttsrMatch' = TRUE
  /\ interrupts' = Least(interrupts + 1, InterruptCap + 1)
  /\ pc' = Test(hasMore, pending, force)
  /\ Emit
  /\ UNCHANGED <<hasMore, force, retryCancel, pending, attempt, orphans, failures,
                 unseenResults, endedBy>>

\* The match on the outcome of stream_assistant_response.
Stream(outcome) ==
  /\ pc = "stream"
  /\ \/ Answer(outcome)
     \/ Failure(outcome)
     \/ outcome = "retryable" /\ RetryableError
     \/ outcome = "reordered" /\ Reordered
     \/ outcome = "interrupt" /\ RuleInterrupt
  /\ UNCHANGED <<session, shouldStop, cancelFlag, steerQueue, followQueue,
                 autoQueued, accepted, delivered, nudge, todo>>

\* The retry delay is over, or cancel_auto_retry cut it short.
RetryWake ==
  /\ pc = "retryWait"
  /\ IF retryCancel
     THEN /\ attempt' = 0
          /\ End("failed")
          /\ UNCHANGED hasMore
     ELSE /\ hasMore' = TRUE
          /\ pc' = "turn"
          /\ UNCHANGED <<attempt, endedBy>>
  /\ Emit
  /\ UNCHANGED <<force, session, shouldStop, cancelFlag, retryCancel, queues,
                 nudge, todo, orphans, ttsrMatch, failures, interrupts,
                 unseenResults>>

\* MidRunNudgeState::record_tool_result; saturates at the threshold.
Recorded(kind) ==
  CASE kind = "todo"   -> 0
    [] kind = "mutate" -> Least(nudge.mutations + 1, NudgeThreshold)
    [] OTHER           -> nudge.mutations

\* MidRunNudgeState::should_nudge, for this many mutations.
NudgeDue(mutations) ==
  mutations >= NudgeThreshold /\ nudge.count < MaxNudges

\* The tool batch, its results pushed, and the mid-run nudge. kind is what the
\* batch did; a batch that mutates counts once.
RunTools(kind, terminate) ==
  LET mutations == Recorded(kind) IN
  /\ pc = "tools"
  /\ pc' = "finish"
  /\ hasMore' = ~terminate
  /\ unseenResults' = ~terminate
  /\ IF NudgeDue(mutations)
     THEN /\ pending' = [pending EXCEPT !.hidden = @ \cup {"nudge"}]
          /\ nudge' = [mutations |-> 0, count |-> nudge.count + 1]
     ELSE /\ nudge' = [nudge EXCEPT !.mutations = mutations]
          /\ UNCHANGED pending
  /\ IF kind = "todo"
     THEN \E open \in TodoSets \cup {NoTodo} : todo' = [todo EXCEPT !.open = open]
     ELSE UNCHANGED todo
  \* A cancelled batch may stop between two of its calls.
  /\ orphans' \in IF IsCancelled THEN {orphans, "partial"} ELSE {orphans}
  /\ Emit
  /\ UNCHANGED <<force, session, shouldStop, cancelFlag, retryCancel, steerQueue,
                 followQueue, autoQueued, accepted, delivered, attempt, ttsrMatch,
                 failures, interrupts, endedBy>>

\* The finish_turn hook, TurnEnd, and the first test of external_stop.
FinishTurn(decision) ==
  /\ pc = "finish"
  /\ force' = (decision = "continue")
  /\ Emit
  /\ CASE decision = "end"   -> End("finished")
       [] decision # "end" /\ Propagated -> End("stopped")
       [] OTHER -> pc' = "drain" /\ UNCHANGED endedBy
  /\ UNCHANGED <<hasMore, session, shouldStop, cancelFlag, retryCancel, queues,
                 counters, failures, interrupts, unseenResults>>

\* pending_messages = self.drain_steering_queue(), the second test of
\* external_stop, and the guard of the inner loop.
EndTurn ==
  /\ pc = "drain"
  /\ DrainSteering
  /\ IF externalStop
     THEN End("stopped")
     ELSE pc' = Test(hasMore, pending', force) /\ UNCHANGED endedBy
  /\ UNCHANGED <<hasMore, force, session, flags, followQueue, accepted, delivered,
                 counters, failures, interrupts, unseenResults>>

----------------------------------------------------------------------------
(* After the inner loop.                                                   *)

ResumeUnasked(next) == pc' = "turn" /\ hasMore' = TRUE          \* (mutant)
\* `continue` of the outer loop with a new batch, or the next check.
Resume(next) ==
  IF IsPending(pending')
  THEN pc' = "turn" /\ hasMore' = TRUE
  ELSE pc' = next /\ UNCHANGED hasMore

LateSteering ==
  /\ pc = "late"
  /\ DrainSteering
  /\ Resume("follow")
  /\ UNCHANGED <<force, session, flags, followQueue, accepted, delivered, counters,
                 histories>>

FollowUps ==
  /\ pc = "follow"
  /\ pending' = [Nothing EXCEPT !.follow = Batch(followQueue, FollowMode)]
  /\ followQueue' = Rest(followQueue, FollowMode)
  /\ Resume("final")
  /\ UNCHANGED <<force, session, flags, steerQueue, autoQueued, accepted, delivered,
                 counters, histories>>

FinalSteering ==
  /\ pc = "final"
  /\ DrainSteering
  /\ Resume("reminder")
  /\ UNCHANGED <<force, session, flags, followQueue, accepted, delivered, counters,
                 histories>>

\* build_stop_reminder: open tasks, changed since the last reminder, in budget.
ReminderDue ==
  todo.open \notin {NoTodo, todo.last} /\ todo.count < MaxReminders

StopReminder ==
  /\ pc = "reminder"
  /\ IF ReminderDue
     THEN /\ todo' = [todo EXCEPT !.last = todo.open, !.count = @ + 1]
          /\ pending' = [Nothing EXCEPT !.hidden = {"reminder"}]
          /\ pc' = "turn" /\ hasMore' = TRUE
          /\ Emit
          /\ UNCHANGED endedBy
     ELSE /\ End("natural")
          /\ UNCHANGED <<todo, pending, hasMore, externalStop>>
  /\ UNCHANGED <<force, session, shouldStop, cancelFlag, retryCancel, steerQueue,
                 followQueue, autoQueued, accepted, delivered, attempt, nudge,
                 orphans, ttsrMatch, failures, interrupts, unseenResults>>

\* AgentEnd, the state synced back, the running guard dropped with the loop.
Return ==
  /\ pc = "ended"
  /\ pc' = "idle"
  /\ hasMore' = FALSE /\ force' = FALSE
  /\ externalStop' = FALSE
  /\ steerQueue' = <<>> /\ followQueue' = <<>> /\ autoQueued' = FALSE
  /\ pending' = Nothing
  /\ accepted' = [steer |-> <<>>, follow |-> <<>>]
  /\ delivered' = [steer |-> <<>>, follow |-> <<>>]
  /\ attempt' = 0
  /\ nudge' = [mutations |-> 0, count |-> 0]
  /\ todo' = [todo EXCEPT !.last = NoTodo, !.count = 0]
  /\ failures' = 0 /\ interrupts' = 0 /\ unseenResults' = FALSE
  /\ UNCHANGED <<session, shouldStop, cancelFlag, retryCancel, orphans, ttsrMatch,
                 endedBy>>

----------------------------------------------------------------------------
BatchKinds == {"todo", "mutate", "other"}

Environment ==
  \/ \E m \in SessionSteers : SubmitSteer(m)
  \/ \E m \in SessionFollows : SubmitFollow(m)
  \/ \E m \in LoopSteers : PushSteer(m)
  \/ \E m \in LoopFollows : PushFollow(m)
  \/ Abort \/ Cancel \/ CancelRetry \/ Prompt \/ PromptMeanwhile

Loop ==
  \/ Enter \/ Begin \/ BeginTurn \/ StreamEvent
  \/ \E outcome \in Outcomes : Stream(outcome)
  \/ RetryWake
  \/ \E kind \in BatchKinds, terminate \in BOOLEAN : RunTools(kind, terminate)
  \/ \E decision \in Decisions : FinishTurn(decision)
  \/ EndTurn \/ LateSteering \/ FollowUps \/ FinalSteering \/ StopReminder
  \/ Return

Next == Environment \/ Loop

\* The runtime keeps polling a run it has started: its streams end (by their
\* idle timeout at the latest), its tools and hooks return, its sleeps elapse.
\* Nobody is obliged to prompt, to steer or to stop.
Spec == Init /\ [][Next]_vars /\ WF_vars(Loop)

----------------------------------------------------------------------------
(* Properties.                                                             *)

Queued == [steer : Seq(SteerMessages), follow : Seq(FollowMessages)]

ControlOK ==
  /\ pc \in Pcs
  /\ hasMore \in BOOLEAN /\ force \in BOOLEAN
  /\ shouldStop \in BOOLEAN /\ cancelFlag \in BOOLEAN
  /\ externalStop \in BOOLEAN /\ retryCancel \in BOOLEAN
  /\ orphans \in {"none", "partial", "stripped"}
  /\ ttsrMatch \in BOOLEAN
  /\ unseenResults \in BOOLEAN
  /\ endedBy \in {"none", "natural", "finished", "stopped", "failed"}

SessionOK ==
  /\ sessionSteer \in Seq(SessionSteers) /\ sessionFollow \in Seq(SessionFollows)
  /\ unsent \subseteq SteerMessages \cup FollowMessages

QueuesOK ==
  /\ steerQueue \in Seq(SteerMessages) /\ Len(steerQueue) <= SteerCapacity
  /\ followQueue \in Seq(FollowMessages) /\ Len(followQueue) <= FollowCapacity
  /\ autoQueued \in BOOLEAN
  /\ pending \in [steer : Seq(SteerMessages), follow : Seq(FollowMessages),
                  hidden : SUBSET Hidden]
  /\ accepted \in Queued /\ delivered \in Queued

CountersOK ==
  /\ attempt \in 0..MaxRetries
  /\ failures \in 0..(MaxRetries + 1)
  /\ interrupts \in 0..(InterruptCap + 1)
  /\ nudge \in [mutations : 0..NudgeThreshold, count : 0..MaxNudges]
  /\ todo \in [open : TodoSets \cup {NoTodo}, last : TodoSets \cup {NoTodo},
               count : 0..MaxReminders]

\* Types and bounds: the queues never outgrow their capacities, the counters
\* never their budgets.
TypeOK == ControlOK /\ SessionOK /\ QueuesOK /\ CountersOK

\* While a run lives, every message its queues accepted is in the conversation,
\* in the batch about to enter it or still queued: once, and in the order it
\* was accepted (steer, follow_up, the drains and process_steering_messages).
ExactlyOnceInOrder ==
  /\ accepted.steer = delivered.steer \o pending.steer \o steerQueue
  /\ accepted.follow = delivered.follow \o pending.follow \o followQueue

\* A follow-up is handed to the conversation only when the provider has
\* answered every tool result and no steering message shares the batch
\* (the outer loop of run_loop).
FollowUpsWait ==
  pending.follow # <<>> => ~unseenResults /\ pending.steer = <<>>

\* auto_retry_attempt counts the retryable errors in a row and nothing else, so
\* a run survives at most MaxRetries of them (handle_retryable_error against
\* the resets in run_loop).
RetryBudget ==
  /\ failures <= MaxRetries + 1
  /\ pc # "ended" => attempt = failures

Occurs(m, queue) == \E i \in DOMAIN queue : queue[i] = m

\* A run that ends of its own accord has put into the conversation everything
\* the session handed to it (the drains after the inner loop).
NaturalEndDeliversAll ==
  pc = "ended" /\ endedBy = "natural" =>
    /\ \A m \in SessionSteers :
         Occurs(m, accepted.steer) => Occurs(m, delivered.steer)
    /\ \A m \in SessionFollows :
         Occurs(m, accepted.follow) => Occurs(m, delivered.follow)

\* FinishTurnAction::Continue guarantees one more provider request: until it is
\* made the loop only ends because it is stopped.
ContinueHonoured ==
  /\ pc \in {"late", "follow", "final", "reminder"} => ~force
  /\ pc = "ended" /\ force => endedBy = "stopped"

\* A run that is asked to stop ends, whatever it was doing and whatever the
\* provider answers (Agent::cancel and AgentSession::abort), unless a prompt on
\* another session takes the request back; once an event has carried it to the
\* loop, nothing does.
StopEndsRun ==
  /\ shouldStop /\ pc # "idle" ~> pc = "idle" \/ ~shouldStop
  /\ externalStop ~> pc = "idle"

\* "Sets the `should_stop` flag which causes the agent loop to exit after the
\* current turn completes" (src/oxicode-cli/src/app/agent_session.rs:844): it
\* need not, after a PromptMeanwhile (no run checks this).
StopKept == shouldStop /\ pc # "idle" ~> pc = "idle"

\* helpers.rs, should_stop_after_turn: "The loop exits naturally when the LLM
\* stops making tool calls (text-only response)." Whatever it retries, however
\* many reminders, steering messages and follow-ups it still has to go through,
\* a run ends once the provider makes no more calls, no rule interrupts it and
\* the finish_turn hook no longer asks for another request.
LoopExitsNaturally ==
  <>[](pc # "tools" /\ interrupts = 0 /\ ~force)
    => (pc = "begin" ~> pc = "idle")

\* A mid-run reconciliation nudge that was injected reaches the conversation.
NudgeDelivered ==
  [][ "nudge" \in pending.hidden /\ "nudge" \notin pending'.hidden
      => pc = "turn" \/ pc' \in {"ended", "idle"} ]_vars

\* StreamOutcome::RuleInterrupt: the caller "should inject the rule as a system
\* reminder and retry", so a rule's interrupt is followed by another request.
InterruptRetried == [][ interrupts' > interrupts => pc' = "turn" ]_vars

\* TtsrSettings::max_retries_per_turn: "how many times a single turn can be
\* interrupted".
InterruptBudget == interrupts <= InterruptCap
============================================================================
