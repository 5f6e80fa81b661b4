-------------------------- MODULE AgentLoopProofs --------------------------
(***************************************************************************)
(* What AgentLoop guarantees for every set of messages, every capacity,    *)
(* every retry, nudge and reminder budget, both queue modes, with and      *)
(* without the autonomy message, and whatever the provider answers.        *)
(***************************************************************************)
EXTENDS AgentLoop, SequenceTheorems, TLAPS

----------------------------------------------------------------------------
(* The operators on the queues.                                            *)

LEMMA SteersAssociative ==
  \A a, b, c \in Seq(SteerMessages) : (a \o b) \o c = a \o (b \o c)
<1> SUFFICES ASSUME NEW a \in Seq(SteerMessages), NEW b \in Seq(SteerMessages),
                    NEW c \in Seq(SteerMessages)
             PROVE  (a \o b) \o c = a \o (b \o c)
  OBVIOUS
<1> QED BY ConcatAssociative

LEMMA FollowsAssociative ==
  \A a, b, c \in Seq(FollowMessages) : (a \o b) \o c = a \o (b \o c)
<1> SUFFICES ASSUME NEW a \in Seq(FollowMessages), NEW b \in Seq(FollowMessages),
                    NEW c \in Seq(FollowMessages)
             PROVE  (a \o b) \o c = a \o (b \o c)
  OBVIOUS
<1> QED BY ConcatAssociative

\* A drain splits a queue in two: nothing is lost, nothing changes place.
LEMMA DrainSplits ==
  ASSUME NEW S, NEW queue \in Seq(S), NEW mode
  PROVE  /\ Batch(queue, mode) \in Seq(S)
         /\ Rest(queue, mode) \in Seq(S)
         /\ Batch(queue, mode) \o Rest(queue, mode) = queue
         /\ Len(Rest(queue, mode)) <= Len(queue)
         /\ Batch(queue, mode) = <<>> => queue = <<>>
<1>1. CASE mode = "All" \/ queue = <<>>
  BY <1>1, EmptySeq, ConcatEmptySeq, LenProperties DEF Batch, Rest
<1>2. CASE ~(mode = "All" \/ queue = <<>>)
  <2>1. /\ Head(queue) \in S /\ Tail(queue) \in Seq(S)
        /\ Len(Tail(queue)) = Len(queue) - 1
    BY <1>2, HeadTailProperties
  <2>2. <<Head(queue)>> \o Tail(queue) = queue
    BY <1>2, <2>1
  <2> QED BY <1>2, <2>1, <2>2, LenProperties DEF Batch, Rest
<1> QED BY <1>1, <1>2

\* A push keeps the order, and the capacity.
LEMMA RoomFits ==
  ASSUME NEW S, NEW queue \in Seq(S), NEW messages \in Seq(S),
         NEW capacity \in Nat, Len(queue) <= capacity
  PROVE  /\ Room(queue, messages, capacity) \in Seq(S)
         /\ queue \o Room(queue, messages, capacity) \in Seq(S)
         /\ Len(queue \o Room(queue, messages, capacity)) <= capacity
<1> DEFINE n == Least(Len(messages), capacity - Len(queue))
<1>1. n \in Nat /\ n <= Len(messages) /\ n <= capacity - Len(queue)
  BY LenProperties DEF Least
<1>2. /\ SubSeq(messages, 1, n) \in Seq(S)
      /\ Len(SubSeq(messages, 1, n)) = n
  BY <1>1, SubSeqProperties, ElementOfSeq, LenProperties
<1> QED BY <1>1, <1>2, ConcatProperties DEF Room

----------------------------------------------------------------------------
(* Types and the retry budget, together inductive.                         *)

LEMMA TypeInit == Init => TypeOK /\ RetryBudget
<1> SUFFICES ASSUME Init PROVE TypeOK /\ RetryBudget
  OBVIOUS
<1>1. ControlOK
  BY DEF Init, ControlOK, Pcs
<1>2. SessionOK
  BY EmptySeq DEF Init, SessionOK
<1>3. QueuesOK
  <2>1. Nothing \in [steer : Seq(SteerMessages), follow : Seq(FollowMessages),
                    hidden : SUBSET Hidden]
    BY EmptySeq DEF Nothing
  <2>2. [steer |-> <<>>, follow |-> <<>>] \in Queued
    BY EmptySeq DEF Queued
  <2>3. Len(<<>>) <= SteerCapacity /\ Len(<<>>) <= FollowCapacity
    BY BoundAssumption
  <2> QED BY <2>1, <2>2, <2>3, EmptySeq DEF Init, QueuesOK
<1>4. CountersOK /\ RetryBudget
  BY BoundAssumption DEF Init, CountersOK, RetryBudget
<1> QED BY <1>1, <1>2, <1>3, <1>4 DEF TypeOK

LEMMA ControlStep == ControlOK /\ [Next]_vars => ControlOK'
<1> SUFFICES ASSUME ControlOK, [Next]_vars PROVE ControlOK'
  OBVIOUS
<1> USE DEF ControlOK, control, session, flags, queues, counters, histories
<1>1. CASE UNCHANGED vars
  BY <1>1 DEF vars
<1>2. CASE Environment
  <2>1. ASSUME NEW m, SubmitSteer(m) \/ SubmitFollow(m) PROVE ControlOK'
    BY <2>1 DEF SubmitSteer, SubmitFollow
  <2>2. ASSUME NEW m, PushSteer(m) \/ PushFollow(m) PROVE ControlOK'
    BY <2>2 DEF PushSteer, PushFollow
  <2>3. CASE Abort
    <3>1. cancelFlag' \in BOOLEAN
      BY <2>3 DEF Abort
    <3> QED BY <2>3, <3>1 DEF Abort
  <2>5. CASE Cancel
    BY <2>5 DEF Cancel
  <2>6. CASE CancelRetry
    BY <2>6 DEF CancelRetry
  <2>4. CASE Prompt
    BY <2>4 DEF Prompt, Pcs
  <2>7. CASE PromptMeanwhile
    BY <2>7 DEF PromptMeanwhile
  <2> QED BY <1>2, <2>1, <2>2, <2>3, <2>4, <2>5, <2>6, <2>7 DEF Environment
<1>3. CASE Enter
  BY <1>3 DEF Enter, Poll, Pcs
<1>4. CASE Begin
  BY <1>4 DEF Begin, Emit, Propagated, Pcs
<1>5. CASE BeginTurn
  BY <1>5 DEF BeginTurn, Poll, Emit, Propagated, Sanitized, Pcs
<1>6. CASE StreamEvent
  BY <1>6 DEF StreamEvent, Emit, Propagated
<1>7. ASSUME NEW outcome \in Outcomes, Stream(outcome) PROVE ControlOK'
  <2>1. CASE Answer(outcome)
    BY <1>7, <2>1 DEF Stream, Answer, Emit, Propagated, Pcs
  <2>2. CASE Failure(outcome)
    BY <1>7, <2>2 DEF Stream, Failure, End, Emit, Propagated, Pcs
  <2>3. CASE RetryableError
    BY ZenonT(60), <1>7, <2>3 DEF Stream, RetryableError, End, Emit, Propagated, Pcs
  <2>4. CASE Reordered \/ RuleInterrupt
    BY ZenonT(60), <1>7, <2>4 DEF Stream, Reordered, RuleInterrupt, Test, Emit, Propagated, Pcs
  <2> QED BY <1>7, <2>1, <2>2, <2>3, <2>4 DEF Stream
<1>8. CASE RetryWake
  BY <1>8 DEF RetryWake, End, Emit, Propagated, Pcs
<1>9. ASSUME NEW kind \in BatchKinds, NEW terminate \in BOOLEAN,
             RunTools(kind, terminate)
      PROVE  ControlOK'
  BY <1>9 DEF RunTools, Emit, Propagated, Pcs
<1>10. ASSUME NEW decision \in Decisions, FinishTurn(decision) PROVE ControlOK'
  BY <1>10 DEF FinishTurn, End, Emit, Propagated, Pcs
<1>11. CASE EndTurn
  BY <1>11 DEF EndTurn, DrainSteering, Test, End, Pcs
<1>12. CASE LateSteering \/ FollowUps \/ FinalSteering
  <2>1. hasMore' \in BOOLEAN /\ pc' \in {"turn", "follow", "final", "reminder"}
    BY <1>12 DEF LateSteering, FollowUps, FinalSteering, Resume
  <2> QED BY <1>12, <2>1 DEF LateSteering, FollowUps, FinalSteering, Pcs
<1>13. CASE StopReminder
  <2>1. CASE ReminderDue
    BY <1>13, <2>1 DEF StopReminder, Emit, Propagated, Pcs
  <2>2. CASE ~ReminderDue
    BY <1>13, <2>2 DEF StopReminder, End, Pcs
  <2> QED BY <2>1, <2>2
<1>14. CASE Return
  BY <1>14 DEF Return, Pcs
<1> QED BY <1>1, <1>2, <1>3, <1>4, <1>5, <1>6, <1>7, <1>8, <1>9, <1>10, <1>11,
           <1>12, <1>13, <1>14 DEF Next, Loop

LEMMA SessionStep == SessionOK /\ [Next]_vars => SessionOK'
<1> SUFFICES ASSUME SessionOK, [Next]_vars PROVE SessionOK'
  OBVIOUS
<1>1. CASE UNCHANGED session
  BY <1>1 DEF SessionOK, session
<1>2. ASSUME NEW m, SubmitSteer(m) \/ SubmitFollow(m) PROVE SessionOK'
  <2>1. CASE SubmitSteer(m)
    <3>1. m \in SessionSteers /\ sessionSteer' = Append(sessionSteer, m)
      BY <2>1 DEF SubmitSteer
    <3> QED BY <2>1, <3>1 DEF SubmitSteer, SessionOK
  <2>2. CASE SubmitFollow(m)
    <3>1. m \in SessionFollows /\ sessionFollow' = Append(sessionFollow, m)
      BY <2>2 DEF SubmitFollow
    <3> QED BY <2>2, <3>1 DEF SubmitFollow, SessionOK
  <2> QED BY <1>2, <2>1, <2>2
<1>3. ASSUME NEW m, PushSteer(m) \/ PushFollow(m) PROVE SessionOK'
  BY <1>3 DEF PushSteer, PushFollow, SessionOK
<1>4. CASE Abort \/ Enter \/ BeginTurn
  <2>1. sessionSteer' = <<>> /\ sessionFollow' = <<>> /\ unsent' = unsent
    BY <1>4 DEF Abort, Enter, BeginTurn, Poll
  <2> QED BY <2>1, EmptySeq DEF SessionOK
<1>5. \/ UNCHANGED session \/ (\E m : SubmitSteer(m) \/ SubmitFollow(m))
      \/ (\E m : PushSteer(m) \/ PushFollow(m)) \/ Abort \/ Enter \/ BeginTurn
  BY DEF Next, Environment, Loop, vars, Cancel, CancelRetry, Prompt, PromptMeanwhile, Begin,
         StreamEvent, Stream, RetryWake, RunTools, FinishTurn, EndTurn,
         LateSteering, FollowUps, FinalSteering, StopReminder, Return
<1> QED BY <1>1, <1>2, <1>3, <1>4, <1>5

LEMMA CountersStep ==
  CountersOK /\ RetryBudget /\ [Next]_vars => CountersOK' /\ RetryBudget'
<1> SUFFICES ASSUME CountersOK, RetryBudget, [Next]_vars
             PROVE  CountersOK' /\ RetryBudget'
  OBVIOUS
<1> DEFINE Quiet == /\ UNCHANGED <<attempt, failures, interrupts, nudge, todo>>
                    /\ pc = "ended" => pc' = "ended"
<1>1. CASE Quiet
  BY <1>1 DEF CountersOK, RetryBudget
<1>2. ASSUME NEW outcome, Stream(outcome) PROVE CountersOK' /\ RetryBudget'
  <2> USE DEF CountersOK, RetryBudget
  <2>1. UNCHANGED <<nudge, todo>>
    BY <1>2 DEF Stream
  <2>2. CASE Answer(outcome)
    BY <1>2, <2>1, <2>2, BoundAssumption DEF Answer
  <2>3. CASE Failure(outcome)
    BY <1>2, <2>1, <2>3, BoundAssumption DEF Failure, End
  <2>4. CASE RetryableError
    BY <1>2, <2>1, <2>4, BoundAssumption
    DEF Stream, RetryableError, RetryAllowed, End
  <2>5. CASE Reordered
    BY <1>2, <2>1, <2>5 DEF Stream, Reordered
  <2>6. CASE RuleInterrupt
    BY <1>2, <2>1, <2>6, BoundAssumption DEF Stream, RuleInterrupt, Least
  <2> QED BY <1>2, <2>2, <2>3, <2>4, <2>5, <2>6 DEF Stream
<1>3. CASE RetryWake
  BY <1>3, BoundAssumption
  DEF RetryWake, End, CountersOK, RetryBudget
<1>4. ASSUME NEW kind \in BatchKinds, NEW terminate, RunTools(kind, terminate)
      PROVE  CountersOK' /\ RetryBudget'
  <2>1. UNCHANGED <<attempt, failures, interrupts>> /\ pc = "tools" /\ pc' = "finish"
    BY <1>4 DEF RunTools
  <2>2. Recorded(kind) \in 0..NudgeThreshold
    BY BoundAssumption DEF Recorded, Least, CountersOK, BatchKinds
  <2>3. nudge' \in [mutations : 0..NudgeThreshold, count : 0..MaxNudges]
    BY <1>4, <2>2, BoundAssumption DEF RunTools, NudgeDue, CountersOK
  <2>4. todo' \in [open : TodoSets \cup {NoTodo}, last : TodoSets \cup {NoTodo},
                   count : 0..MaxReminders]
    BY <1>4 DEF RunTools, CountersOK
  <2> QED BY <2>1, <2>3, <2>4 DEF CountersOK, RetryBudget
<1>5. CASE StopReminder
  <2>1. UNCHANGED <<attempt, failures, interrupts, nudge>> /\ pc = "reminder"
    BY <1>5 DEF StopReminder
  <2>2. todo' \in [open : TodoSets \cup {NoTodo}, last : TodoSets \cup {NoTodo},
                   count : 0..MaxReminders]
    <3>1. CASE ReminderDue
      <4>1. todo.count + 1 \in 0..MaxReminders
        BY <3>1, BoundAssumption DEF ReminderDue, CountersOK
      <4>2. todo' = [todo EXCEPT !.last = todo.open, !.count = @ + 1]
        BY <1>5, <3>1 DEF StopReminder
      <4> QED BY <4>1, <4>2 DEF CountersOK
    <3>2. CASE ~ReminderDue
      BY <1>5, <3>2 DEF StopReminder, CountersOK
    <3> QED BY <3>1, <3>2
  <2> QED BY <2>1, <2>2 DEF CountersOK, RetryBudget
<1>6. CASE Return
  <2>1. /\ attempt' = 0 /\ failures' = 0 /\ interrupts' = 0
        /\ nudge' = [mutations |-> 0, count |-> 0]
        /\ todo' = [todo EXCEPT !.last = NoTodo, !.count = 0]
    BY <1>6 DEF Return
  <2>2. todo' \in [open : TodoSets \cup {NoTodo}, last : TodoSets \cup {NoTodo},
                   count : 0..MaxReminders]
    <3>1. 0 \in 0..MaxReminders /\ NoTodo \in TodoSets \cup {NoTodo}
      BY BoundAssumption
    <3> QED BY <2>1, <3>1 DEF CountersOK
  <2>3. nudge' \in [mutations : 0..NudgeThreshold, count : 0..MaxNudges]
    BY <2>1, BoundAssumption
  <2> QED BY <2>1, <2>2, <2>3, BoundAssumption DEF CountersOK, RetryBudget
<1>7. \/ Quiet \/ (\E outcome : Stream(outcome)) \/ RetryWake
      \/ (\E kind \in BatchKinds, terminate \in BOOLEAN : RunTools(kind, terminate))
      \/ StopReminder \/ Return
  <2> USE DEF control, counters, histories
  <2>1. CASE UNCHANGED vars
    BY <2>1 DEF vars
  <2>2. CASE Environment
    BY <2>2 DEF Environment, SubmitSteer, SubmitFollow, PushSteer, PushFollow,
                Abort, Cancel, CancelRetry, Prompt, PromptMeanwhile
  <2>3. CASE Loop
    BY <2>3 DEF Loop, Enter, Begin, BeginTurn, StreamEvent, FinishTurn, EndTurn,
                LateSteering, FollowUps, FinalSteering
  <2> QED BY <2>1, <2>2, <2>3 DEF Next
<1> QED BY <1>1, <1>2, <1>3, <1>4, <1>5, <1>6, <1>7

----------------------------------------------------------------------------
(* The queues: every step that moves a message, and what holds around it.  *)

\* The steps that can move a message, and the only two places of the loop in
\* which a batch can be pending.
LEMMA QueueSteps ==
  [Next]_vars =>
    \/ /\ UNCHANGED queues
       /\ pc \in {"turn", "ended"} => UNCHANGED <<pc, unseenResults>>
    \/ \E m : PushSteer(m) \/ PushFollow(m)
    \/ Enter \/ Begin \/ BeginTurn
    \/ \E kind, terminate : RunTools(kind, terminate)
    \/ EndTurn \/ LateSteering \/ FollowUps \/ FinalSteering \/ StopReminder
    \/ Return
<1> SUFFICES ASSUME [Next]_vars
             PROVE \/ /\ UNCHANGED queues
                      /\ pc \in {"turn", "ended"} => UNCHANGED <<pc, unseenResults>>
                   \/ \E m : PushSteer(m) \/ PushFollow(m)
                   \/ Enter \/ Begin \/ BeginTurn
                   \/ \E kind, terminate : RunTools(kind, terminate)
                   \/ EndTurn \/ LateSteering \/ FollowUps \/ FinalSteering
                   \/ StopReminder \/ Return
  OBVIOUS
<1>1. CASE UNCHANGED vars
  BY <1>1 DEF vars, control, histories
<1>2. CASE Environment
  BY <1>2 DEF Environment, SubmitSteer, SubmitFollow, Abort, Cancel, CancelRetry,
              Prompt, PromptMeanwhile, control, histories
<1>3. ASSUME NEW outcome, Stream(outcome)
      PROVE  UNCHANGED queues /\ pc = "stream"
  BY <1>3 DEF Stream, Answer, Failure, RetryableError, Reordered, RuleInterrupt,
              queues
<1>4. CASE StreamEvent \/ RetryWake
  BY <1>4 DEF StreamEvent, RetryWake
<1>5. ASSUME NEW decision, FinishTurn(decision)
      PROVE  UNCHANGED queues /\ pc = "finish"
  BY <1>5 DEF FinishTurn
<1> QED BY <1>1, <1>2, <1>3, <1>4, <1>5 DEF Next, Loop

\* A batch is pending only where the next turn takes it, or where a stop has
\* just dropped it.
PendingPlaced ==
  /\ pending.steer # <<>> => pc \in {"turn", "ended"}
  /\ pending.follow # <<>> => pc = "turn"

MessagesInv == QueuesOK /\ PendingPlaced /\ ExactlyOnceInOrder

LEMMA DrainPreserves ==
  ASSUME MessagesInv, pending.steer = <<>>, pending.follow = <<>>, DrainSteering,
         UNCHANGED <<followQueue, accepted, delivered>>
  PROVE  QueuesOK' /\ ExactlyOnceInOrder' /\ pending'.follow = <<>>
<1> DEFINE batch == Batch(steerQueue, SteerMode)
           rest == Rest(steerQueue, SteerMode)
<1>1. /\ steerQueue \in Seq(SteerMessages) /\ Len(steerQueue) <= SteerCapacity
      /\ delivered.steer \in Seq(SteerMessages)
      /\ delivered.follow \in Seq(FollowMessages)
      /\ followQueue \in Seq(FollowMessages)
  BY DEF MessagesInv, QueuesOK, Queued
<1>2. /\ batch \in Seq(SteerMessages) /\ rest \in Seq(SteerMessages)
      /\ batch \o rest = steerQueue /\ Len(rest) <= Len(steerQueue)
  BY <1>1, DrainSplits
<1>3. pending' = [steer |-> batch, follow |-> <<>>,
                  hidden |-> IF autoQueued THEN {"auto"} ELSE {}]
  BY DEF DrainSteering, Nothing
<1>4. steerQueue' = rest /\ autoQueued' = FALSE
  BY DEF DrainSteering
<1>5. pending' \in [steer : Seq(SteerMessages), follow : Seq(FollowMessages),
                   hidden : SUBSET Hidden]
  BY <1>2, <1>3, EmptySeq DEF Hidden
<1>6. Len(rest) <= SteerCapacity
  BY <1>1, <1>2, LenProperties, BoundAssumption
<1>7. QueuesOK'
  BY <1>2, <1>4, <1>5, <1>6 DEF MessagesInv, QueuesOK
<1>8. accepted'.steer = delivered'.steer \o pending'.steer \o steerQueue'
  <2>1. accepted.steer = delivered.steer \o (batch \o rest)
    BY <1>1, <1>2, ConcatEmptySeq DEF MessagesInv, ExactlyOnceInOrder
  <2>2. (delivered.steer \o batch) \o rest = delivered.steer \o (batch \o rest)
    BY <1>1, <1>2, SteersAssociative
  <2>3. pending'.steer = batch
    BY <1>3
  <2> QED BY <1>4, <2>1, <2>2, <2>3
<1>9. accepted'.follow = delivered'.follow \o pending'.follow \o followQueue'
  BY <1>3 DEF MessagesInv, ExactlyOnceInOrder
<1> QED BY <1>3, <1>7, <1>8, <1>9 DEF ExactlyOnceInOrder

\* A poll of the hooks takes what fits.
LEMMA PollFits ==
  ASSUME SessionOK
  PROVE  /\ \A steer \in Seq(SteerMessages) : Len(steer) <= SteerCapacity =>
              LET room == Room(steer, sessionSteer, SteerCapacity) IN
              /\ room \in Seq(SteerMessages) /\ steer \o room \in Seq(SteerMessages)
              /\ Len(steer \o room) <= SteerCapacity
         /\ \A follow \in Seq(FollowMessages) : Len(follow) <= FollowCapacity =>
              LET room == Room(follow, sessionFollow, FollowCapacity) IN
              /\ room \in Seq(FollowMessages) /\ follow \o room \in Seq(FollowMessages)
              /\ Len(follow \o room) <= FollowCapacity
<1>1. /\ sessionSteer \in Seq(SteerMessages)
      /\ sessionFollow \in Seq(FollowMessages)
  BY SeqMonotonic DEF SessionOK, SteerMessages, FollowMessages
<1> QED BY <1>1, RoomFits, BoundAssumption

LEMMA MessagesInit == Init => MessagesInv
<1> SUFFICES ASSUME Init PROVE MessagesInv
  OBVIOUS
<1>1. QueuesOK
  BY TypeInit DEF TypeOK
<1>2. PendingPlaced
  BY DEF Init, PendingPlaced, Nothing
<1>3. ExactlyOnceInOrder
  BY EmptySeq, ConcatEmptySeq DEF Init, ExactlyOnceInOrder, Nothing
<1> QED BY <1>1, <1>2, <1>3 DEF MessagesInv

LEMMA MessagesStep == TypeOK /\ MessagesInv /\ [Next]_vars => MessagesInv'
<1> SUFFICES ASSUME TypeOK, MessagesInv, [Next]_vars PROVE MessagesInv'
  OBVIOUS
<1>0. /\ steerQueue \in Seq(SteerMessages) /\ Len(steerQueue) <= SteerCapacity
      /\ followQueue \in Seq(FollowMessages) /\ Len(followQueue) <= FollowCapacity
      /\ autoQueued \in BOOLEAN
      /\ pending \in [steer : Seq(SteerMessages), follow : Seq(FollowMessages),
                      hidden : SUBSET Hidden]
      /\ pending.steer \in Seq(SteerMessages)
      /\ pending.follow \in Seq(FollowMessages)
      /\ accepted \in Queued /\ delivered \in Queued
      /\ accepted.steer \in Seq(SteerMessages)
      /\ accepted.follow \in Seq(FollowMessages)
      /\ delivered.steer \in Seq(SteerMessages)
      /\ delivered.follow \in Seq(FollowMessages)
  BY DEF MessagesInv, QueuesOK, Queued
<1>1. CASE /\ UNCHANGED queues
           /\ pc \in {"turn", "ended"} => UNCHANGED <<pc, unseenResults>>
  BY <1>1 DEF queues, MessagesInv, QueuesOK, PendingPlaced, ExactlyOnceInOrder
<1>2. ASSUME NEW m, PushSteer(m) PROVE MessagesInv'
  <2> DEFINE room == Room(steerQueue, <<m>>, SteerCapacity)
  <2>1. /\ m \in SteerMessages /\ steerQueue' = steerQueue \o room
        /\ accepted' = [accepted EXCEPT !.steer = @ \o room]
        /\ UNCHANGED <<pc, followQueue, autoQueued, pending, delivered>>
    BY <1>2 DEF PushSteer, control, SteerMessages
  <2>2. /\ room \in Seq(SteerMessages)
        /\ steerQueue \o room \in Seq(SteerMessages)
        /\ Len(steerQueue \o room) <= SteerCapacity
    <3>1. <<m>> \in Seq(SteerMessages)
      BY <2>1
    <3> QED BY <1>0, <3>1, RoomFits, BoundAssumption
  <2>3. /\ accepted'.steer = accepted.steer \o room
        /\ accepted'.follow = accepted.follow
        /\ accepted' \in Queued
    <3>1. accepted.steer \o room \in Seq(SteerMessages)
      BY <1>0, <2>2, ConcatProperties
    <3> QED BY <1>0, <2>1, <3>1 DEF Queued
  <2>4. (delivered.steer \o pending.steer) \o steerQueue \o room
           = (delivered.steer \o pending.steer) \o (steerQueue \o room)
    <3>1. delivered.steer \o pending.steer \in Seq(SteerMessages)
      BY <1>0, ConcatProperties
    <3> QED BY ZenonT(60), <1>0, <2>2, <3>1, SteersAssociative
  <2> QED BY <1>0, <2>1, <2>2, <2>3, <2>4
          DEF MessagesInv, QueuesOK, PendingPlaced, ExactlyOnceInOrder
<1>3. ASSUME NEW m, PushFollow(m) PROVE MessagesInv'
  <2> DEFINE room == Room(followQueue, <<m>>, FollowCapacity)
  <2>1. /\ m \in FollowMessages /\ followQueue' = followQueue \o room
        /\ accepted' = [accepted EXCEPT !.follow = @ \o room]
        /\ UNCHANGED <<pc, steerQueue, autoQueued, pending, delivered>>
    BY <1>3 DEF PushFollow, control, FollowMessages
  <2>2. /\ room \in Seq(FollowMessages)
        /\ followQueue \o room \in Seq(FollowMessages)
        /\ Len(followQueue \o room) <= FollowCapacity
    <3>1. <<m>> \in Seq(FollowMessages)
      BY <2>1
    <3> QED BY <1>0, <3>1, RoomFits, BoundAssumption
  <2>3. /\ accepted'.follow = accepted.follow \o room
        /\ accepted'.steer = accepted.steer
        /\ accepted' \in Queued
    <3>1. accepted.follow \o room \in Seq(FollowMessages)
      BY <1>0, <2>2, ConcatProperties
    <3> QED BY <1>0, <2>1, <3>1 DEF Queued
  <2>4. (delivered.follow \o pending.follow) \o followQueue \o room
           = (delivered.follow \o pending.follow) \o (followQueue \o room)
    <3>1. delivered.follow \o pending.follow \in Seq(FollowMessages)
      BY <1>0, ConcatProperties
    <3> QED BY ZenonT(60), <1>0, <2>2, <3>1, FollowsAssociative
  <2> QED BY <1>0, <2>1, <2>2, <2>3, <2>4
          DEF MessagesInv, QueuesOK, PendingPlaced, ExactlyOnceInOrder
<1>4. CASE Enter
  <2>1. pending' = pending /\ pending.steer = <<>> /\ pending.follow = <<>>
    BY <1>4 DEF Enter, MessagesInv, PendingPlaced
  <2>2. delivered' = [steer |-> <<>>, follow |-> <<>>] /\ delivered' \in Queued
    BY <1>4, EmptySeq DEF Enter, Queued
  <2> DEFINE roomS == Room(<<>>, sessionSteer, SteerCapacity)
             roomF == Room(<<>>, sessionFollow, FollowCapacity)
  <2>3. /\ steerQueue' = <<>> \o roomS /\ followQueue' = <<>> \o roomF
        /\ autoQueued' \in BOOLEAN
        /\ accepted' = [steer |-> <<>> \o roomS, follow |-> <<>> \o roomF]
    BY <1>4 DEF Enter, Poll
  <2>4. /\ roomS \in Seq(SteerMessages) /\ <<>> \o roomS \in Seq(SteerMessages)
        /\ Len(<<>> \o roomS) <= SteerCapacity
        /\ roomF \in Seq(FollowMessages) /\ <<>> \o roomF \in Seq(FollowMessages)
        /\ Len(<<>> \o roomF) <= FollowCapacity
    <3>1. /\ <<>> \in Seq(SteerMessages) /\ <<>> \in Seq(FollowMessages)
          /\ Len(<<>>) <= SteerCapacity /\ Len(<<>>) <= FollowCapacity
      BY EmptySeq, BoundAssumption
    <3>2. SessionOK
      BY DEF TypeOK
    <3> QED BY <3>1, <3>2, PollFits
  <2> HIDE DEF roomS, roomF
  <2>5. ExactlyOnceInOrder'
    BY <2>1, <2>2, <2>3, <2>4, ConcatEmptySeq DEF ExactlyOnceInOrder
  <2>6. accepted' \in Queued
    BY <2>3, <2>4 DEF Queued
  <2> QED BY <1>0, <2>1, <2>2, <2>3, <2>4, <2>5, <2>6
          DEF MessagesInv, QueuesOK, PendingPlaced
<1>5. CASE BeginTurn
  <2> DEFINE ds == delivered.steer \o pending.steer
             df == delivered.follow \o pending.follow
             roomS == Room(steerQueue, sessionSteer, SteerCapacity)
             roomF == Room(followQueue, sessionFollow, FollowCapacity)
  <2>0. /\ delivered' = [steer |-> ds, follow |-> df]
        /\ ds \in Seq(SteerMessages) /\ df \in Seq(FollowMessages)
        /\ accepted.steer = ds \o steerQueue /\ accepted.follow = df \o followQueue
    BY <1>0, <1>5, ConcatProperties DEF BeginTurn, MessagesInv, ExactlyOnceInOrder
  <2>1. /\ pending' = Nothing /\ pc' = "stream"
        /\ steerQueue' = steerQueue \o roomS /\ followQueue' = followQueue \o roomF
        /\ autoQueued' \in BOOLEAN
        /\ accepted' = [steer |-> accepted.steer \o roomS,
                        follow |-> accepted.follow \o roomF]
    BY <1>5 DEF BeginTurn, Poll
  <2>2. delivered' \in Queued
    BY <2>0 DEF Queued
  <2>3. SessionOK
    BY DEF TypeOK
  <2>4. /\ roomS \in Seq(SteerMessages)
        /\ steerQueue \o roomS \in Seq(SteerMessages)
        /\ Len(steerQueue \o roomS) <= SteerCapacity
        /\ roomF \in Seq(FollowMessages)
        /\ followQueue \o roomF \in Seq(FollowMessages)
        /\ Len(followQueue \o roomF) <= FollowCapacity
    BY <1>0, <2>3, PollFits
  <2> HIDE DEF ds, df, roomS, roomF
  <2>5. accepted' \in Queued
    <3>1. /\ accepted.steer \o roomS \in Seq(SteerMessages)
          /\ accepted.follow \o roomF \in Seq(FollowMessages)
      BY <1>0, <2>4, ConcatProperties
    <3> QED BY <2>1, <3>1 DEF Queued
  <2>6. /\ pending' \in [steer : Seq(SteerMessages), follow : Seq(FollowMessages),
                         hidden : SUBSET Hidden]
        /\ pending'.steer = <<>> /\ pending'.follow = <<>>
    BY <2>1, EmptySeq DEF Nothing
  <2>7. ds \o <<>> = ds /\ df \o <<>> = df
    BY <2>0, ConcatEmptySeq
  <2>8. accepted'.steer = delivered'.steer \o pending'.steer \o steerQueue'
    <3>1. (ds \o steerQueue) \o roomS = ds \o (steerQueue \o roomS)
      BY ZenonT(60), <1>0, <2>0, <2>4, SteersAssociative
    <3> QED BY <2>0, <2>1, <2>6, <2>7, <3>1
  <2>9. accepted'.follow = delivered'.follow \o pending'.follow \o followQueue'
    <3>1. (df \o followQueue) \o roomF = df \o (followQueue \o roomF)
      BY ZenonT(60), <1>0, <2>0, <2>4, FollowsAssociative
    <3> QED BY <2>0, <2>1, <2>6, <2>7, <3>1
  <2> QED BY <2>1, <2>2, <2>4, <2>5, <2>6, <2>8, <2>9
          DEF MessagesInv, QueuesOK, PendingPlaced, ExactlyOnceInOrder
<1>6. CASE Begin \/ EndTurn \/ LateSteering \/ FinalSteering
  <2>1. /\ pending.steer = <<>> /\ pending.follow = <<>> /\ DrainSteering
        /\ UNCHANGED <<followQueue, accepted, delivered>>
    BY <1>6 DEF Begin, EndTurn, LateSteering, FinalSteering, MessagesInv, PendingPlaced
  <2>2. QueuesOK' /\ ExactlyOnceInOrder' /\ pending'.follow = <<>>
    BY <2>1, DrainPreserves
  <2>3. pending'.steer # <<>> => pc' \in {"turn", "ended"}
    BY <1>6 DEF Begin, EndTurn, LateSteering, FinalSteering, Resume, Test, IsPending, End
  <2> QED BY <2>2, <2>3 DEF MessagesInv, PendingPlaced
<1>7. CASE FollowUps
  <2> DEFINE batch == Batch(followQueue, FollowMode)
             rest == Rest(followQueue, FollowMode)
  <2>1. /\ pending.steer = <<>> /\ pending.follow = <<>>
        /\ pending' = [steer |-> <<>>, follow |-> batch, hidden |-> {}]
        /\ followQueue' = rest
        /\ UNCHANGED <<steerQueue, autoQueued, accepted, delivered>>
    BY <1>7 DEF FollowUps, MessagesInv, PendingPlaced, Nothing
  <2>2. /\ batch \in Seq(FollowMessages) /\ rest \in Seq(FollowMessages)
        /\ batch \o rest = followQueue /\ Len(rest) <= Len(followQueue)
    BY <1>0, DrainSplits
  <2>3. Len(rest) <= FollowCapacity
    BY <1>0, <2>2, LenProperties, BoundAssumption
  <2>4. pending' \in [steer : Seq(SteerMessages), follow : Seq(FollowMessages),
                     hidden : SUBSET Hidden]
    BY <2>1, <2>2, EmptySeq
  <2>5. accepted'.follow = delivered'.follow \o pending'.follow \o followQueue'
    <3>1. accepted.follow = delivered.follow \o (batch \o rest)
      BY <1>0, <2>1, <2>2, ConcatEmptySeq DEF MessagesInv, ExactlyOnceInOrder
    <3>2. (delivered.follow \o batch) \o rest = delivered.follow \o (batch \o rest)
      BY <1>0, <2>2, FollowsAssociative
    <3> QED BY <2>1, <3>1, <3>2
  <2>6. accepted'.steer = delivered'.steer \o pending'.steer \o steerQueue'
    BY <2>1 DEF MessagesInv, ExactlyOnceInOrder
  <2>7. PendingPlaced'
    BY <1>7, <2>1 DEF FollowUps, Resume, IsPending, PendingPlaced
  <2> QED BY <1>0, <2>1, <2>2, <2>3, <2>4, <2>5, <2>6, <2>7
          DEF MessagesInv, QueuesOK, ExactlyOnceInOrder
<1>8. ASSUME NEW kind, NEW terminate, RunTools(kind, terminate) PROVE MessagesInv'
  <2>1. /\ pc = "tools" /\ pc' = "finish"
        /\ \/ pending' = [pending EXCEPT !.hidden = @ \cup {"nudge"}]
           \/ pending' = pending
        /\ UNCHANGED <<steerQueue, followQueue, autoQueued, accepted, delivered>>
    BY <1>8 DEF RunTools
  <2>2. /\ pending' \in [steer : Seq(SteerMessages), follow : Seq(FollowMessages),
                         hidden : SUBSET Hidden]
        /\ pending'.steer = pending.steer /\ pending'.follow = pending.follow
    BY <1>0, <2>1 DEF Hidden
  <2> QED BY <1>0, <2>1, <2>2
          DEF MessagesInv, QueuesOK, PendingPlaced, ExactlyOnceInOrder
<1>9. CASE StopReminder
  <2>1. /\ pending.steer = <<>> /\ pending.follow = <<>>
        /\ \/ pending' = [Nothing EXCEPT !.hidden = {"reminder"}]
           \/ pending' = pending
        /\ UNCHANGED <<steerQueue, followQueue, autoQueued, accepted, delivered>>
    BY <1>9 DEF StopReminder, MessagesInv, PendingPlaced
  <2>2. /\ pending' \in [steer : Seq(SteerMessages), follow : Seq(FollowMessages),
                         hidden : SUBSET Hidden]
        /\ pending'.steer = <<>> /\ pending'.follow = <<>>
    BY <1>0, <2>1, EmptySeq DEF Hidden, Nothing
  <2> QED BY <1>0, <2>1, <2>2
          DEF MessagesInv, QueuesOK, PendingPlaced, ExactlyOnceInOrder
<1>10. CASE Return
  <2>1. /\ steerQueue' = <<>> /\ followQueue' = <<>> /\ autoQueued' = FALSE
        /\ pending' = Nothing
        /\ accepted' = [steer |-> <<>>, follow |-> <<>>]
        /\ delivered' = [steer |-> <<>>, follow |-> <<>>]
    BY <1>10 DEF Return
  <2>2. /\ [steer |-> <<>>, follow |-> <<>>] \in Queued
        /\ Nothing \in [steer : Seq(SteerMessages), follow : Seq(FollowMessages),
                        hidden : SUBSET Hidden]
    BY EmptySeq DEF Queued, Nothing
  <2>3. Len(<<>>) <= SteerCapacity /\ Len(<<>>) <= FollowCapacity
    BY BoundAssumption
  <2>4. <<>> \o <<>> \o <<>> = <<>>
    BY EmptySeq, ConcatEmptySeq
  <2> QED BY <2>1, <2>2, <2>3, <2>4, EmptySeq
          DEF MessagesInv, QueuesOK, PendingPlaced, ExactlyOnceInOrder, Nothing
<1> QED BY <1>1, <1>2, <1>3, <1>4, <1>5, <1>6, <1>7, <1>8, <1>9, <1>10, QueueSteps

----------------------------------------------------------------------------
(* The end of a turn and of a run.                                         *)

\* has_more_tool_calls outlives the results it stands for, and nothing that
\* keeps the inner loop going survives its end; force_continue lives from the
\* hook to the next turn, and only a stop ends the run in between.
LoopInv ==
  /\ unseenResults => hasMore
  /\ pc \in {"late", "follow", "final", "reminder"} => ~hasMore
  /\ force => pc \in {"turn", "drain", "ended"}
  /\ pc = "ended" /\ force => endedBy = "stopped"

LEMMA LoopStep == ControlOK /\ LoopInv /\ [Next]_vars => LoopInv'
<1> SUFFICES ASSUME ControlOK, LoopInv, [Next]_vars PROVE LoopInv'
  OBVIOUS
<1> USE DEF LoopInv
<1>1. CASE UNCHANGED vars
  BY <1>1 DEF vars, control, histories
<1>2. CASE Environment
  <2>1. /\ UNCHANGED <<hasMore, force, unseenResults, endedBy>>
        /\ pc' = pc \/ (pc = "idle" /\ pc' = "enter")
    BY <1>2 DEF Environment, SubmitSteer, SubmitFollow, PushSteer, PushFollow,
                Abort, Cancel, CancelRetry, Prompt, PromptMeanwhile, control, histories
  <2> QED BY <2>1
<1>3. CASE Enter \/ Begin
  BY <1>3 DEF Enter, Begin, histories
<1>12. CASE BeginTurn
  BY <1>12 DEF BeginTurn, histories
<1>13. CASE StreamEvent
  BY <1>13 DEF StreamEvent, control, histories
<1>4. ASSUME NEW outcome, Stream(outcome) PROVE LoopInv'
  <2>1. pc = "stream" /\ ~force
    BY <1>4 DEF Stream
  <2>2. CASE Answer(outcome)
    BY <2>1, <2>2 DEF Answer
  <2>3. CASE Failure(outcome)
    BY <2>1, <2>3 DEF Failure, End
  <2>4. CASE RetryableError
    BY <2>1, <2>4 DEF RetryableError, End
  <2>5. CASE Reordered \/ RuleInterrupt
    BY <2>1, <2>5 DEF Reordered, RuleInterrupt, Test
  <2> QED BY <1>4, <2>2, <2>3, <2>4, <2>5 DEF Stream
<1>5. CASE RetryWake
  BY <1>5 DEF RetryWake, End
<1>6. ASSUME NEW kind, NEW terminate \in BOOLEAN, RunTools(kind, terminate)
      PROVE  LoopInv'
  BY <1>6 DEF RunTools
<1>7. ASSUME NEW decision, FinishTurn(decision) PROVE LoopInv'
  <2>1. /\ pc = "finish" /\ force' = (decision = "continue")
        /\ UNCHANGED <<hasMore, unseenResults>>
    BY <1>7 DEF FinishTurn
  <2>2. CASE decision = "end"
    <3>1. pc' = "ended" /\ force' = FALSE
      BY <1>7, <2>1, <2>2 DEF FinishTurn, End
    <3> QED BY <2>1, <3>1
  <2>3. CASE decision # "end" /\ Propagated
    BY <1>7, <2>1, <2>3 DEF FinishTurn, End
  <2>4. CASE decision # "end" /\ ~Propagated
    BY <1>7, <2>1, <2>4 DEF FinishTurn
  <2> QED BY <2>2, <2>3, <2>4
<1>8. CASE EndTurn
  BY <1>8 DEF EndTurn, End, Test
<1>9. CASE LateSteering \/ FollowUps \/ FinalSteering
  BY <1>9 DEF LateSteering, FollowUps, FinalSteering, Resume, histories
<1>10. CASE StopReminder
  BY <1>10 DEF StopReminder, End
<1>11. CASE Return
  BY <1>11 DEF Return
<1> QED BY <1>1, <1>2, <1>3, <1>4, <1>5, <1>6, <1>7, <1>8, <1>9, <1>10, <1>11,
           <1>12, <1>13 DEF Next, Loop

LEMMA FollowUpsWaitStep ==
  MessagesInv /\ LoopInv /\ MessagesInv' /\ FollowUpsWait /\ [Next]_vars
    => FollowUpsWait'
<1> SUFFICES ASSUME MessagesInv, LoopInv, MessagesInv', FollowUpsWait, [Next]_vars,
                    pending'.follow # <<>>
             PROVE  ~unseenResults' /\ pending'.steer = <<>>
  BY DEF FollowUpsWait
<1>1. pc' = "turn"
  BY DEF MessagesInv, PendingPlaced
<1>2. pending.follow # <<>> => pc = "turn"
  BY DEF MessagesInv, PendingPlaced
<1>3. CASE /\ UNCHANGED queues
           /\ pc \in {"turn", "ended"} => UNCHANGED <<pc, unseenResults>>
  BY <1>2, <1>3 DEF queues, FollowUpsWait
<1>4. ASSUME NEW m, PushSteer(m) \/ PushFollow(m)
      PROVE  ~unseenResults' /\ pending'.steer = <<>>
  BY <1>4 DEF PushSteer, PushFollow, histories, FollowUpsWait
<1>5. CASE Enter \/ BeginTurn \/ (\E kind, terminate : RunTools(kind, terminate))
           \/ Return
  BY <1>1, <1>5 DEF Enter, BeginTurn, RunTools, Return
<1>6. CASE Begin \/ EndTurn \/ LateSteering \/ FinalSteering
  <2>1. pending'.follow = <<>>
    BY <1>6 DEF Begin, EndTurn, LateSteering, FinalSteering, DrainSteering, Nothing
  <2> QED BY <2>1
<1>7. CASE FollowUps
  BY <1>7 DEF FollowUps, LoopInv, Nothing, histories
<1>8. CASE StopReminder
  <2>1. pending'.follow = pending.follow \/ pending'.follow = <<>>
    BY <1>8 DEF StopReminder, Nothing
  <2> QED BY <1>2, <1>8, <2>1 DEF StopReminder
<1> QED BY <1>3, <1>4, <1>5, <1>6, <1>7, <1>8, QueueSteps

----------------------------------------------------------------------------
(* The drains between the inner loop and a natural end.                    *)

LEMMA OccursInConcat ==
  ASSUME NEW S, NEW q \in Seq(S), NEW r \in Seq(S), NEW m
  PROVE  Occurs(m, q \o r) => Occurs(m, q) \/ Occurs(m, r)
<1> SUFFICES ASSUME NEW i \in DOMAIN (q \o r), (q \o r)[i] = m
             PROVE  Occurs(m, q) \/ Occurs(m, r)
  BY DEF Occurs
<1>1. /\ Len(q) \in Nat /\ Len(r) \in Nat /\ i \in 1..(Len(q) + Len(r))
      /\ DOMAIN q = 1..Len(q) /\ DOMAIN r = 1..Len(r)
      /\ (q \o r)[i] = IF i <= Len(q) THEN q[i] ELSE r[i - Len(q)]
  BY ConcatProperties, LenProperties
<1>2. CASE i <= Len(q)
  BY <1>1, <1>2 DEF Occurs
<1>3. CASE ~(i <= Len(q))
  <2>1. i - Len(q) \in DOMAIN r /\ r[i - Len(q)] = m
    BY <1>1, <1>3
  <2> QED BY <2>1 DEF Occurs
<1> QED BY <1>2, <1>3

\* What a push lets in is the message pushed.
LEMMA OccursInRoom ==
  ASSUME NEW S, NEW queue \in Seq(S), NEW capacity \in Nat, Len(queue) <= capacity,
         NEW m, NEW x, Occurs(x, Room(queue, <<m>>, capacity))
  PROVE  x = m
<1> DEFINE n == Least(Len(<<m>>), capacity - Len(queue))
<1>1. n \in 0..1
  BY LenProperties DEF Least
<1>2. Room(queue, <<m>>, capacity) = SubSeq(<<m>>, 1, n)
  BY DEF Room
<1> HIDE DEF n
<1>3. PICK i \in DOMAIN SubSeq(<<m>>, 1, n) : SubSeq(<<m>>, 1, n)[i] = x
  BY <1>2 DEF Occurs
<1>4. CASE n = 0
  <2>1. DOMAIN SubSeq(<<m>>, 1, 0) = {}
    BY SubSeqEmpty
  <2> QED BY <1>3, <1>4, <2>1
<1>5. CASE n = 1
  <2>1. SubSeq(<<m>>, 1, 1) = <<m>>
    <3>1. <<m>> \in Seq({m}) /\ Len(<<m>>) = 1
      OBVIOUS
    <3> QED BY <3>1, SubSeqFull
  <2> QED BY <1>3, <1>5, <2>1
<1> QED BY <1>1, <1>4, <1>5

NoSessionSteers == \A m \in SessionSteers : ~Occurs(m, steerQueue)
NoSessionFollows == \A m \in SessionFollows : ~Occurs(m, followQueue)
EndedNaturally == pc = "ended" /\ endedBy = "natural"

SweptInv ==
  /\ endedBy = "natural" => pc \in {"ended", "idle", "enter"}
  /\ pc \in {"follow", "final", "reminder"} \/ EndedNaturally => NoSessionSteers
  /\ pc \in {"final", "reminder"} \/ EndedNaturally => NoSessionFollows
  /\ EndedNaturally => pending.steer = <<>>

LEMMA SweptStep ==
  TypeOK /\ MessagesInv /\ SweptInv /\ [Next]_vars => SweptInv'
<1> SUFFICES ASSUME TypeOK, MessagesInv, SweptInv, [Next]_vars PROVE SweptInv'
  OBVIOUS
<1>0. /\ steerQueue \in Seq(SteerMessages) /\ Len(steerQueue) <= SteerCapacity
      /\ followQueue \in Seq(FollowMessages) /\ Len(followQueue) <= FollowCapacity
  BY DEF TypeOK, QueuesOK
<1> DEFINE Swept == {"follow", "final", "reminder"}
\* Steps that stay where they are, or that leave for a place nothing is said of.
<1>1. CASE UNCHANGED <<pc, endedBy, steerQueue, followQueue, pending>>
  BY <1>1 DEF SweptInv, NoSessionSteers, NoSessionFollows, EndedNaturally
<1>2. CASE /\ pc' \notin Swept
           /\ endedBy' = "natural" => endedBy = "natural" /\ pc' \in {"idle", "enter"}
  BY <1>2 DEF SweptInv, EndedNaturally
<1>3. ASSUME NEW m \in LoopSteers, PushSteer(m) PROVE SweptInv'
  <2>1. /\ steerQueue' = steerQueue \o Room(steerQueue, <<m>>, SteerCapacity)
        /\ UNCHANGED <<pc, endedBy, followQueue, pending>>
    BY <1>3 DEF PushSteer, control, histories
  <2>2. ASSUME NEW x \in SessionSteers, Occurs(x, steerQueue')
        PROVE  Occurs(x, steerQueue)
    <3>1. <<m>> \in Seq(SteerMessages)
      BY DEF SteerMessages
    <3>2. Room(steerQueue, <<m>>, SteerCapacity) \in Seq(SteerMessages)
      BY <1>0, <3>1, RoomFits, BoundAssumption
    <3>3. \/ Occurs(x, steerQueue)
          \/ Occurs(x, Room(steerQueue, <<m>>, SteerCapacity))
      BY <1>0, <2>1, <2>2, <3>2, OccursInConcat
    <3>4. ~Occurs(x, Room(steerQueue, <<m>>, SteerCapacity))
      BY <1>0, OccursInRoom, BoundAssumption, MessageAssumption
    <3> QED BY <3>3, <3>4
  <2> QED BY <2>1, <2>2 DEF SweptInv, NoSessionSteers, NoSessionFollows, EndedNaturally
<1>4. ASSUME NEW m \in LoopFollows, PushFollow(m) PROVE SweptInv'
  <2>1. /\ followQueue' = followQueue \o Room(followQueue, <<m>>, FollowCapacity)
        /\ UNCHANGED <<pc, endedBy, steerQueue, pending>>
    BY <1>4 DEF PushFollow, control, histories
  <2>2. ASSUME NEW x \in SessionFollows, Occurs(x, followQueue')
        PROVE  Occurs(x, followQueue)
    <3>1. <<m>> \in Seq(FollowMessages)
      BY DEF FollowMessages
    <3>2. Room(followQueue, <<m>>, FollowCapacity) \in Seq(FollowMessages)
      BY <1>0, <3>1, RoomFits, BoundAssumption
    <3>3. \/ Occurs(x, followQueue)
          \/ Occurs(x, Room(followQueue, <<m>>, FollowCapacity))
      BY <1>0, <2>1, <2>2, <3>2, OccursInConcat
    <3>4. ~Occurs(x, Room(followQueue, <<m>>, FollowCapacity))
      BY <1>0, OccursInRoom, BoundAssumption, MessageAssumption
    <3> QED BY <3>3, <3>4
  <2> QED BY <2>1, <2>2 DEF SweptInv, NoSessionSteers, NoSessionFollows, EndedNaturally
<1>5. CASE LateSteering \/ FinalSteering
  <2>1. /\ pending' = [Nothing EXCEPT !.steer = Batch(steerQueue, SteerMode),
                         !.hidden = IF autoQueued THEN {"auto"} ELSE {}]
        /\ steerQueue' = Rest(steerQueue, SteerMode)
        /\ UNCHANGED <<endedBy, followQueue>>
    BY <1>5 DEF LateSteering, FinalSteering, DrainSteering, histories
  <2>2. pending'.steer = Batch(steerQueue, SteerMode)
    BY <2>1 DEF Nothing
  <2>3. CASE IsPending(pending')
    BY <1>2, <1>5, <2>1, <2>3 DEF LateSteering, FinalSteering, Resume, SweptInv
  <2>4. CASE ~IsPending(pending')
    <3>1. steerQueue = <<>>
      BY <1>0, <2>2, <2>4, DrainSplits DEF IsPending
    <3>2. steerQueue' = <<>>
      BY <2>1, <3>1 DEF Rest
    <3>3. NoSessionSteers'
      BY <3>2 DEF NoSessionSteers, Occurs
    <3>4. \/ pc = "late" /\ pc' = "follow"
          \/ pc = "final" /\ pc' = "reminder"
      BY <1>5, <2>4 DEF LateSteering, FinalSteering, Resume
    <3> QED BY <2>1, <3>3, <3>4 DEF SweptInv, NoSessionFollows, EndedNaturally
  <2> QED BY <2>3, <2>4
<1>6. CASE FollowUps
  <2>1. /\ pending' = [Nothing EXCEPT !.follow = Batch(followQueue, FollowMode)]
        /\ followQueue' = Rest(followQueue, FollowMode)
        /\ UNCHANGED <<endedBy, steerQueue>> /\ pc = "follow"
    BY <1>6 DEF FollowUps, histories
  <2>2. pending'.follow = Batch(followQueue, FollowMode)
    BY <2>1 DEF Nothing
  <2>3. CASE IsPending(pending')
    BY <1>2, <1>6, <2>1, <2>3 DEF FollowUps, Resume, SweptInv
  <2>4. CASE ~IsPending(pending')
    <3>1. followQueue = <<>>
      BY <1>0, <2>2, <2>4, DrainSplits DEF IsPending
    <3>2. followQueue' = <<>>
      BY <2>1, <3>1 DEF Rest
    <3>3. NoSessionFollows'
      BY <3>2 DEF NoSessionFollows, Occurs
    <3>4. pc' = "final"
      BY <1>6, <2>4 DEF FollowUps, Resume
    <3> QED BY <2>1, <3>3, <3>4 DEF SweptInv, NoSessionSteers, EndedNaturally
  <2> QED BY <2>3, <2>4
<1>7. CASE StopReminder
  <2>1. UNCHANGED <<steerQueue, followQueue>> /\ pc = "reminder"
    BY <1>7 DEF StopReminder
  <2>2. pending.steer = <<>>
    BY <2>1 DEF MessagesInv, PendingPlaced
  <2>3. \/ pc' = "turn" /\ endedBy' = endedBy
        \/ pc' = "ended" /\ endedBy' = "natural" /\ pending' = pending
    BY <1>7 DEF StopReminder, End
  <2> QED BY <2>1, <2>2, <2>3
          DEF SweptInv, NoSessionSteers, NoSessionFollows, EndedNaturally
<1>8. \/ UNCHANGED <<pc, endedBy, steerQueue, followQueue, pending>>
      \/ /\ pc' \notin Swept
         /\ endedBy' = "natural" => endedBy = "natural" /\ pc' \in {"idle", "enter"}
      \/ (\E m \in LoopSteers : PushSteer(m))
      \/ (\E m \in LoopFollows : PushFollow(m))
      \/ LateSteering \/ FinalSteering \/ FollowUps \/ StopReminder
  <2> DEFINE Away ==
        /\ pc' \notin Swept
        /\ endedBy' = "natural" => endedBy = "natural" /\ pc' \in {"idle", "enter"}
  <2>1. CASE UNCHANGED vars
    BY <2>1 DEF vars, control, histories, queues
  <2>2. CASE Environment
    BY <2>2 DEF Environment, SubmitSteer, SubmitFollow, Abort, Cancel, CancelRetry,
                Prompt, PromptMeanwhile, control, histories, queues
  <2>3. CASE Enter \/ Begin
    BY <2>3 DEF Enter, Begin, SweptInv, histories
  <2>4. CASE BeginTurn
    BY <2>4 DEF BeginTurn, SweptInv, histories
  <2>5. CASE StreamEvent
    BY <2>5 DEF StreamEvent, control, histories, queues
  <2>6. ASSUME NEW outcome, Stream(outcome) PROVE Away
    <3>1. pc = "stream" /\ endedBy # "natural"
      BY <2>6 DEF Stream, SweptInv
    <3>2. CASE Answer(outcome)
      BY <3>1, <3>2 DEF Answer
    <3>3. CASE Failure(outcome)
      BY <3>1, <3>3 DEF Failure, End
    <3>4. CASE RetryableError
      BY <3>1, <3>4 DEF RetryableError, End
    <3>5. CASE Reordered \/ RuleInterrupt
      BY <3>1, <3>5 DEF Reordered, RuleInterrupt, Test
    <3> QED BY <2>6, <3>2, <3>3, <3>4, <3>5 DEF Stream
  <2>7. CASE RetryWake
    BY <2>7 DEF RetryWake, End, SweptInv
  <2>8. ASSUME NEW kind, NEW terminate, RunTools(kind, terminate) PROVE Away
    BY <2>8 DEF RunTools, SweptInv
  <2>9. ASSUME NEW decision, FinishTurn(decision) PROVE Away
    BY <2>9 DEF FinishTurn, End, SweptInv
  <2>10. CASE EndTurn
    BY <2>10 DEF EndTurn, End, Test, SweptInv
  <2>11. CASE Return
    BY <2>11 DEF Return
  <2> QED BY <2>1, <2>2, <2>3, <2>4, <2>5, <2>6, <2>7, <2>8, <2>9, <2>10, <2>11
          DEF Next, Loop
<1> QED BY <1>1, <1>2, <1>3, <1>4, <1>5, <1>6, <1>7, <1>8

----------------------------------------------------------------------------
(* The theorems.                                                           *)

IInv ==
  TypeOK /\ RetryBudget /\ MessagesInv /\ LoopInv /\ FollowUpsWait /\ SweptInv

LEMMA IInvInit == Init => IInv
<1> SUFFICES ASSUME Init PROVE IInv
  OBVIOUS
<1>1. TypeOK /\ RetryBudget
  BY TypeInit
<1>2. MessagesInv
  BY MessagesInit
<1>3. LoopInv
  BY DEF Init, LoopInv
<1>4. FollowUpsWait
  BY DEF Init, FollowUpsWait, Nothing
<1>5. SweptInv
  BY DEF Init, SweptInv, EndedNaturally
<1> QED BY <1>1, <1>2, <1>3, <1>4, <1>5 DEF IInv

LEMMA IInvStep == IInv /\ [Next]_vars => IInv'
<1> SUFFICES ASSUME IInv, [Next]_vars PROVE IInv'
  OBVIOUS
<1>1. MessagesInv'
  BY MessagesStep DEF IInv
<1>2. TypeOK' /\ RetryBudget'
  <2>1. QueuesOK'
    BY <1>1 DEF MessagesInv
  <2>2. ControlOK' /\ SessionOK' /\ CountersOK' /\ RetryBudget'
    BY ControlStep, SessionStep, CountersStep DEF IInv, TypeOK
  <2> QED BY <2>1, <2>2 DEF TypeOK
<1>3. LoopInv'
  BY LoopStep DEF IInv, TypeOK
<1>4. FollowUpsWait'
  BY <1>1, FollowUpsWaitStep DEF IInv
<1>5. SweptInv'
  BY SweptStep DEF IInv
<1> QED BY <1>1, <1>2, <1>3, <1>4, <1>5 DEF IInv

LEMMA Invariance == Spec => []IInv
<1> QED BY IInvInit, IInvStep, PTL DEF Spec

\* Every variable has its type, the two queues stay within their capacities and
\* every counter within its budget (queues.rs, retry.rs, todo.rs).
THEOREM TypeCorrect == Spec => []TypeOK
<1>1. IInv => TypeOK
  BY DEF IInv
<1> QED BY <1>1, Invariance, PTL

\* The loop's queues neither lose, nor duplicate, nor reorder a message they
\* accepted, in either queue mode, while the run lives (queues.rs, run_loop).
THEOREM QueuesFaithful == Spec => []ExactlyOnceInOrder
<1>1. IInv => ExactlyOnceInOrder
  BY DEF IInv, MessagesInv
<1> QED BY <1>1, Invariance, PTL

\* A follow-up never overtakes a steering message of its batch nor a tool
\* result the provider has still to answer (the outer loop of run_loop).
THEOREM FollowUpsComeLast == Spec => []FollowUpsWait
<1>1. IInv => FollowUpsWait
  BY DEF IInv
<1> QED BY <1>1, Invariance, PTL

\* A run survives at most MaxRetries retryable errors in a row, and its counter
\* is exactly their number (handle_retryable_error).
THEOREM RetriesBounded == Spec => []RetryBudget
<1>1. IInv => RetryBudget
  BY DEF IInv
<1> QED BY <1>1, Invariance, PTL

\* What finish_turn's Continue promises is kept unless the run is stopped.
THEOREM ContinueKept == Spec => []ContinueHonoured
<1>1. IInv => ContinueHonoured
  BY DEF IInv, LoopInv, ContinueHonoured
<1> QED BY <1>1, Invariance, PTL

\* A run that ends of its own accord has delivered everything the session handed
\* to its queues (the drains after the inner loop, and the place of the polls).
THEOREM NaturalEndComplete == Spec => []NaturalEndDeliversAll
<1>1. ASSUME IInv PROVE NaturalEndDeliversAll
  <2> SUFFICES ASSUME pc = "ended", endedBy = "natural"
               PROVE  /\ \A m \in SessionSteers :
                           Occurs(m, accepted.steer) => Occurs(m, delivered.steer)
                      /\ \A m \in SessionFollows :
                           Occurs(m, accepted.follow) => Occurs(m, delivered.follow)
    BY DEF NaturalEndDeliversAll
  <2>1. /\ delivered.steer \in Seq(SteerMessages)
        /\ delivered.follow \in Seq(FollowMessages)
        /\ steerQueue \in Seq(SteerMessages) /\ followQueue \in Seq(FollowMessages)
    BY <1>1 DEF IInv, MessagesInv, QueuesOK, Queued
  <2>2. pending.steer = <<>> /\ pending.follow = <<>>
    BY <1>1 DEF IInv, SweptInv, EndedNaturally, MessagesInv, PendingPlaced
  <2>3. /\ accepted.steer = delivered.steer \o steerQueue
        /\ accepted.follow = delivered.follow \o followQueue
    BY <1>1, <2>1, <2>2, ConcatEmptySeq DEF IInv, MessagesInv, ExactlyOnceInOrder
  <2>4. NoSessionSteers /\ NoSessionFollows
    BY <1>1 DEF IInv, SweptInv, EndedNaturally
  <2>5. ASSUME NEW m \in SessionSteers, Occurs(m, accepted.steer)
        PROVE  Occurs(m, delivered.steer)
    BY <2>1, <2>3, <2>4, <2>5, OccursInConcat DEF NoSessionSteers
  <2>6. ASSUME NEW m \in SessionFollows, Occurs(m, accepted.follow)
        PROVE  Occurs(m, delivered.follow)
    BY <2>1, <2>3, <2>4, <2>6, OccursInConcat DEF NoSessionFollows
  <2> QED BY <2>5, <2>6
<1> QED BY <1>1, Invariance, PTL
=============================================================================
