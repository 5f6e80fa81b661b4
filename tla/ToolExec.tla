------------------------------ MODULE ToolExec ------------------------------
(***************************************************************************)
(* The tool batches of an agent's run: oxicode-agent/src/agent_loop/       *)
(* tool_exec.rs, with what happens to the conversation around them: it is  *)
(* compacted and sanitized before a request, a rejected request is         *)
(* repaired and retried, an answer is cut short, a session is resumed from *)
(* what its log was told. Messages and their repair are in Transcript.     *)
(***************************************************************************)
EXTENDS Transcript, SequencesExt

CONSTANTS
  MaxMessages,  \* bound: prompts, answers and failed requests
  MaxRejected,  \* bound: requests in a row rejected for their order
  MaxCalls,     \* bound: tool calls of an answer
  KeepRecent,   \* the compactor's keep_recent, one of these
  MaxLag        \* bound: messages a crash finds not yet written

ASSUME ToolExecAssumption ==
  /\ MaxMessages \in Nat /\ MaxRejected \in Nat /\ MaxCalls \in Nat
  /\ MaxLag \in Nat
  /\ KeepRecent \subseteq Nat

VARIABLES
  parallel,   \* tool_execution: Parallel, else Sequential
  repeatIds,  \* the provider numbers the calls of each answer afresh
  history,    \* messages of run_loop, or of the agent between the runs
  told,       \* what the session log was told by MessageEnd; not in parallel
  pc,         \* idle, turn, compacted, stream or tools
  stage,      \* of each call of the batch: none, hooks, running, after, done
  closed,     \* every call of the batch is prepared, or preparing was broken off
  stops,      \* which are set: the loop's external_stop, the cancel signal
  woken,      \* calls whose Notify was fired by the poll task
  rejected,   \* requests in a row rejected for the order of their messages
  made        \* messages made so far
vars == <<parallel, repeatIds, history, told, pc, stage, closed, stops, woken,
          rejected, made>>
setting == <<parallel, repeatIds>>
batch == <<stage, closed, woken>>

Calls == 1..MaxCalls
IsCancelled == stops # {}
IdOf(n, k) == <<IF repeatIds THEN 0 ELSE n, k>>
Error == Assistant(0, TRUE, {})
Replies ==
  {Assistant(made + 1, text, {IdOf(made + 1, c) : c \in 1..k}) :
     text \in BOOLEAN, k \in 0..MaxCalls}

NoBatch == stage = [c \in Calls |-> "none"] /\ closed = FALSE /\ woken = {}
EndBatch ==
  stage' = [c \in Calls |-> "none"] /\ closed' = FALSE /\ woken' = {}

Init ==
  /\ parallel \in BOOLEAN /\ repeatIds \in BOOLEAN
  /\ history = <<>> /\ told = <<>> /\ pc = "idle"
  /\ NoBatch
  /\ stops = {} /\ rejected = 0 /\ made = 0

\* Messages join both the history and, with MessageEnd, the log. The agent of
\* the sessions runs its calls one by one.
Tell(new) == told' = IF parallel THEN told ELSE told \o new
Push(new) == history' = history \o new /\ Tell(new)
Make == made < MaxMessages /\ made' = made + 1

Prompt ==
  /\ pc = "idle" /\ Make /\ Push(<<User(made + 1)>>)
  /\ pc' = "turn" /\ stops' = {}
  /\ UNCHANGED <<setting, batch, rejected>>

Cancel ==
  /\ pc # "idle" /\ \E s \in {"external", "signal"} \ stops : stops' = stops \cup {s}
  /\ UNCHANGED <<setting, history, told, pc, batch, rejected, made>>

\* maybe_compact, when it is due and the summary is made
CompactHistory ==
  /\ pc = "turn" /\ pc' = "compacted"
  /\ \E keep \in KeepRecent : history' = Compact(history, keep)
  /\ UNCHANGED <<setting, told, batch, stops, rejected, made>>

\* stream_assistant_response up to the request
Request ==
  /\ pc \in {"turn", "compacted"} /\ pc' = "stream"
  /\ history' = Sanitize(history)
  /\ UNCHANGED <<setting, told, batch, stops, rejected, made>>

\* A provider may also answer what it could have rejected.
Answer ==
  /\ pc = "stream" /\ ~IsCancelled /\ Make
  /\ \E m \in Replies :
       Push(<<m>>) /\ pc' = IF m.calls # {} THEN "tools" ELSE "idle"
  /\ rejected' = 0
  /\ UNCHANGED <<setting, batch, stops>>

\* The stream is cancelled or stops with an error: what came of the answer
\* stays in the history, finished calls included.
Cut ==
  /\ pc = "stream" /\ Make /\ pc' = "idle" /\ rejected' = 0
  /\ \E m \in Replies : Push(<<m>>)
  /\ UNCHANGED <<setting, batch, stops>>

\* stream_idle_timeout: the log is told of an error without
\* text in place of what came.
TimeOut ==
  /\ pc = "stream" /\ Make /\ pc' = "idle" /\ rejected' = 0
  /\ \E m \in Replies, some \in BOOLEAN :
       history' = history \o (IF some THEN <<m, Error>> ELSE <<Error>>)
  /\ Tell(<<Assistant(0, FALSE, {}), Error>>)
  /\ UNCHANGED <<setting, batch, stops>>

\* The stream ends without a message, by a cancel or by an error.
Fail ==
  /\ pc = "stream" /\ Make /\ pc' = "idle"
  /\ \E tail \in {<<>>, <<Error>>, <<Error, Error>>} :
       /\ tail = <<>> => IsCancelled
       /\ Push(tail)
  /\ UNCHANGED <<setting, batch, stops, rejected>>

\* is_tool_ordering_error: an error that came over the stream is in the history
\* already. The turn is only retried when the loop's guard holds again.
Reject ==
  /\ pc = "stream" /\ ~Accepts(history) /\ rejected < MaxRejected
  /\ \E tail \in {<<>>, <<Error>>} :
       history' = Sanitize(history \o tail) /\ Tell(tail)
  /\ rejected' = rejected + 1 /\ pc' \in {"turn", "idle"}
  /\ UNCHANGED <<setting, batch, stops, made>>

\* An answer without content is no message of a resumed session.
HasContent(m) == m.kind = "assistant" => m.text \/ m.calls # {}
\* The process ends, and the session is opened again from its log.
Resume ==
  /\ ~parallel /\ made > 0 /\ pc' = "idle" /\ rejected' = 0
  /\ \E lag \in 0..MaxLag :
       told' = SubSeq(told, 1, Len(told) - lag)
  /\ history' = Picked(told', {i \in DOMAIN told' : HasContent(told'[i])})
  /\ EndBatch /\ stops' = {}
  /\ UNCHANGED <<setting, made>>
-----------------------------------------------------------------------------
Current == Last(history)
Issued == {k \in Calls : IdOf(Current.n, k) \in Current.calls}
Started == {k \in Issued : stage[k] # "none"}
Outcome(k) == Result(Current.n, IdOf(Current.n, k))

\* The loop over the calls has done its part for the call: run it, or made
\* the future that will.
PastLoopOnceStarted(k) == stage[k] # "none"                     \* (mutant)
PastLoop(k) ==
  IF parallel THEN stage[k] \in {"running", "after", "done"} ELSE stage[k] = "done"
\* A call that is done is told to the log at once when they run one by one.
Finish(k) ==
  /\ stage' = [stage EXCEPT ![k] = "done"]
  /\ Tell(<<Outcome(k)>>)
Go(k, from, to) == pc = "tools" /\ stage[k] = from /\ stage' = [stage EXCEPT ![k] = to]

StartCall(k) ==
  /\ Go(k, "none", "hooks") /\ k \in Issued /\ ~closed /\ ~IsCancelled
  /\ \A j \in 1..k - 1 : PastLoop(j)
  /\ UNCHANGED <<setting, history, told, pc, closed, stops, woken, rejected, made>>

\* check_tool_approval and prepare_tool_call let the call run
Allow(k) ==
  /\ Go(k, "hooks", "running")
  /\ UNCHANGED <<setting, history, told, pc, closed, stops, woken, rejected, made>>

\* The call is denied, unknown, invalid or blocked: its result is an error.
Refuse(k) ==
  /\ pc = "tools" /\ stage[k] = "hooks" /\ Finish(k)
  /\ UNCHANGED <<setting, history, pc, closed, stops, woken, rejected, made>>

Close ==
  /\ pc = "tools" /\ ~closed /\ closed' = TRUE
  /\ \A k \in Started : PastLoop(k)
  /\ Started = Issued \/ IsCancelled
  /\ UNCHANGED <<setting, history, told, pc, stage, stops, woken, rejected, made>>

WakeAtStart(k) ==                                              \* (mutant)
  /\ pc = "tools" /\ stage[k] = "hooks" /\ "signal" \in stops /\ k \notin woken
  /\ woken' = woken \cup {k}
  /\ UNCHANGED <<setting, history, told, pc, stage, closed, stops, rejected, made>>
\* The poll task of make_cancellation looks at the flag again and again.
Wake(k) ==
  /\ pc = "tools" /\ stage[k] = "running" /\ "signal" \in stops /\ k \notin woken
  /\ woken' = woken \cup {k}
  /\ UNCHANGED <<setting, history, told, pc, stage, closed, stops, rejected, made>>

\* Calls run once their futures are polled, at the same time only after all
\* of them were prepared.
Polled == parallel => closed
ToolEnds(k) ==
  /\ Polled /\ Go(k, "running", "after")
  /\ UNCHANGED <<setting, history, told, pc, closed, stops, woken, rejected, made>>
Interrupted(k) ==
  /\ Polled /\ k \in woken /\ Go(k, "running", "after")
  /\ UNCHANGED <<setting, history, told, pc, closed, stops, woken, rejected, made>>

\* The after_tool_call hook is over.
Settle(k) ==
  /\ pc = "tools" /\ stage[k] = "after" /\ Finish(k)
  /\ UNCHANGED <<setting, history, pc, closed, stops, woken, rejected, made>>

\* The slots that are filled, in the order of the calls.
ReadyOnceStarted(k) == stage[k] # "none"                        \* (mutant)
Ready(k) == stage[k] = "done"
Results == Picked([k \in Calls |-> Outcome(k)], {k \in Issued : Ready(k)})

\* The batch returns; calls that still run are dropped by a cancelled one.
Return ==
  /\ pc = "tools" /\ closed
  /\ (\A k \in Started : stage[k] = "done") \/ (parallel /\ IsCancelled)
  /\ history' = history \o Results
  /\ pc' \in {"turn", "idle"} /\ EndBatch
  /\ UNCHANGED <<setting, told, stops, rejected, made>>

Call(k) ==
  \/ StartCall(k) \/ Allow(k) \/ Refuse(k) \/ Wake(k)
  \/ ToolEnds(k) \/ Interrupted(k) \/ Settle(k)
Next ==
  \/ Prompt \/ Cancel \/ CompactHistory \/ Request \/ Answer \/ Cut \/ TimeOut
  \/ Fail \/ Reject \/ Resume \/ Close \/ Return
  \/ \E k \in Calls : Call(k)

\* The hooks return, the poll task and the loop go on; a tool need not end.
Spec ==
  /\ Init /\ [][Next]_vars
  /\ WF_vars(Close) /\ WF_vars(Return)
  /\ \A k \in Calls :
       /\ WF_vars(Allow(k) \/ Refuse(k)) /\ WF_vars(Wake(k))
       /\ WF_vars(Interrupted(k)) /\ WF_vars(Settle(k))
-----------------------------------------------------------------------------
\* Types, and what holds of the parts of a batch: there is one only while tools
\* run, behind its message; one by one, a call starts when those before it are
\* done.
ToolsTypeOK ==
  /\ parallel \in BOOLEAN /\ repeatIds \in BOOLEAN
  /\ stops \subseteq {"external", "signal"}
  /\ pc \in {"idle", "turn", "compacted", "stream", "tools"}
  /\ stage \in [Calls -> {"none", "hooks", "running", "after", "done"}]
  /\ woken \subseteq Calls /\ made \in 0..MaxMessages /\ rejected \in 0..MaxRejected
  /\ \A h \in {history, told} : \A i \in DOMAIN h :
       h[i].kind \in {"user", "assistant", "result"}
  /\ pc # "tools" => NoBatch
  /\ pc = "tools" => Current.kind = "assistant" /\ Issued # {}
  /\ pc = "tools" /\ ~parallel =>
       \A k \in Started : \A j \in 1..k - 1 : stage[j] = "done"

\* Two passes of the repair always suffice: one before the request, and one
\* after it was rejected. Whatever a cut answer, a broken batch, a compaction
\* or a resumed log left behind, the retried request has the order the
\* provider wants (the retry of run_loop, which has no limit of its own).
OneRejection == rejected <= 1

Whole(h, j) ==
  h[j].kind = "assistant" /\ h[j].calls # {} /\ Answered(h, j) = h[j].calls
ResultsOf(h, j) == {h[i] : i \in {i \in DOMAIN h : Answers(h, i, j)}}
Intact(h, m, results) ==
  \E j \in DOMAIN h : h[j] = m /\ results \subseteq ResultsOf(h, j)
Gone(h, n) == \A i \in DOMAIN h : h[i].n # n
Said(m) == m.kind = "user" \/ (m.kind = "assistant" /\ m.text)
Heard(h, m) == \E i \in DOMAIN h : h[i].kind = m.kind /\ h[i].n = m.n /\ Said(h[i])

\* No repair loses what was said: a message with text stays, and so do a
\* tool exchange's calls with their results. A compaction takes an
\* exchange whole or leaves it whole (align_split_boundary).
ConversationKept ==
  [][\/ Resume
     \/ \A j \in DOMAIN history :
          /\ Whole(history, j) =>
               \/ Intact(history', history[j], ResultsOf(history, j))
               \/ pc' = "compacted" /\ Gone(history', history[j].n)
          /\ Said(history[j]) => pc' = "compacted" \/ Heard(history', history[j])]_vars

\* A batch that returns adds the results of the calls that are done and of no
\* other, in the order of the calls however they ended; without a cancel that
\* is all of them, and one by one the log has just been told the same.
BatchAnswered ==
  [][pc = "tools" /\ pc' \in {"turn", "idle"} /\ ~Resume =>
       LET new == SubSeq(history', Len(history) + 1, Len(history'))
       IN /\ IsPrefix(history, history')
          /\ Range(new) = {Outcome(k) : k \in {k \in Issued : stage[k] = "done"}}
          /\ \A i, j \in DOMAIN new : i < j => new[i].id[2] < new[j].id[2]
          /\ ~IsCancelled => {m.id : m \in Range(new)} = Current.calls
          /\ ~parallel => IsSuffix(new, told')]_vars

\* A cancel signal ends the batch although a tool does not (make_cancellation);
\* external_stop alone, which is all that the terminal's Ctrl+C sets, does so
\* for calls that run at the same time.
CancelEndsBatch ==
  (pc = "tools" /\ ("signal" \in stops \/ (parallel /\ IsCancelled))) ~> (pc # "tools")

\* What the comment of sanitize_orphaned_tool_results says of one pass. The
\* results of a batch that was broken off lose their calls and stay.
RestoresAdjacency == [][Request => Accepts(history')]_vars
=============================================================================
