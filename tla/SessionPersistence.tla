------------------------- MODULE SessionPersistence -------------------------
(***************************************************************************)
(* How a conversation reaches the session under RPC: RpcHandlers           *)
(* (oxicode-cli/src/rpc_mode/handlers.rs), AgentSession                    *)
(* (oxicode-cli/src/app/agent_session.rs) and the one Agent they share.    *)
(*                                                                         *)
(* A prompt is saved by the handler and started as a task; the task's loop *)
(* works on a copy of the agent's messages and emits what it adds, a       *)
(* forwarder saves what was emitted, as long as the client is there to be  *)
(* told of it, and at the end persist_session saves what of the agent's    *)
(* messages it counts as missing. Commands that change the session do not  *)
(* wait for a run: it goes on with the session it has.                     *)
(*                                                                         *)
(* A Session here is an AgentSession with its SessionManager; the file     *)
(* below it is the subject of SessionStore.                                *)
(***************************************************************************)
EXTENDS Selection

CONSTANTS
  Sessions,     \* AgentSessions, by the order in which they are made
  MaxMessages,  \* bounds how many messages are made, less those entries
  MaxChanges,   \* bounds how many other entries are made
  KeepRecent,   \* values of keep_recent: 4 in the code, less in short runs
  NoSession     \* the agent is not running; there is no session yet

ASSUME PersistenceAssumption ==
  /\ Sessions \subseteq Nat
  /\ MaxMessages \in Nat /\ MaxChanges \in Nat /\ KeepRecent \subseteq Nat
  /\ NoSession \notin Sessions

Messages == 1..MaxMessages
Change == 0   \* an entry that is no message: a model, a thinking level, a name

Elements(seq) == {seq[i] : i \in DOMAIN seq}
From(seq, i) == SubSeq(seq, i, Len(seq))
IsMessage(entry) == entry # Change

\* The messages among these entries; recursive so that it can be proved about.
MessagesOf(log) == Picked(log, {i \in DOMAIN log : IsMessage(log[i])})

VARIABLES
  current,   \* RpcHandlers::session
  opened,    \* the sessions made so far
  entries,   \* the entries of each SessionManager
  streaming, \* AgentSession::streaming
  phase,     \* of the session's run: idle, starting, running, ending
  asked,     \* the prompt that run is to begin with
  outbox,    \* events emitted and not yet forwarded
  gone,      \* a forwarder has found the writer to stdout ended
  deaf,      \* the sessions whose forwarder ended before its run
  history,   \* Agent::state().messages
  busy,      \* whose run the agent is in, Agent::is_running
  loop,      \* the messages of that run
  snapshot,  \* what a compaction in progress works on
  made,      \* how many messages have been made
  answers,   \* those that are an assistant's
  changed,   \* how many other entries have been made
  told,      \* what each session should hold: for the properties only
  unheard,   \* what of it no forwarder came to: likewise
  strayed    \* sessions where the fallback met another history: likewise

runVars == <<busy, loop>>
lineVars == <<gone, deaf, unheard>>
ghostVars == <<told, strayed>>
persistVars == <<current, opened, entries, streaming, phase, asked, outbox,
                 history, runVars, snapshot, made, answers, changed, lineVars,
                 ghostVars>>

PersistInit ==
  /\ current = NoSession /\ opened = {}
  /\ entries = [s \in Sessions |-> <<>>]
  /\ streaming = [s \in Sessions |-> FALSE]
  /\ phase = [s \in Sessions |-> "idle"]
  /\ asked = [s \in Sessions |-> 0]
  /\ outbox = [s \in Sessions |-> <<>>]
  /\ history = <<>> /\ busy = NoSession /\ loop = <<>> /\ snapshot = <<>>
  /\ made = 0 /\ answers = {} /\ changed = 0
  /\ told = [s \in Sessions |-> <<>>]
  /\ gone = FALSE /\ deaf = {} /\ unheard = [s \in Sessions |-> {}]
  /\ strayed = {}

\* A message nobody has seen before.
New == made + 1
Make == made + changed < MaxMessages /\ made' = New

SaveInCurrent(s, new) ==                                       \* (mutant)
  entries' = [entries EXCEPT ![current] = @ \o new]
\* append_message and the like, on the manager of a handle.
Save(s, new) == entries' = [entries EXCEPT ![s] = @ \o new]

\* Commands are handled one at a time; compact is awaited.
Commanded == snapshot = <<>>

----------------------------------------------------------------------------
(* Sessions.                                                               *)

\* The session has a file: nothing is written before an answer.
OnDisk(s) == \E id \in Elements(entries[s]) : id \in answers

\* What a session begins with: new_session with no entries, switch_session
\* and clone with those of a session, fork with those from one entry on.
Beginnings ==
  {<<>>} \cup {From(entries[t], i) : t \in {u \in opened : OnDisk(u)},
                                    i \in 1..MaxMessages + MaxChanges}

\* swap_session; AgentSession::new gives the agent the messages, if there
\* are any.
Swap(s) ==
  /\ Commanded /\ s \notin opened /\ \A t \in Sessions \ opened : s <= t
  /\ \E kept \in Beginnings :
       /\ entries' = [entries EXCEPT ![s] = kept]
       /\ told' = [told EXCEPT ![s] = MessagesOf(kept)]
       /\ history' = IF MessagesOf(kept) = <<>> THEN history ELSE MessagesOf(kept)
  /\ current' = s /\ opened' = opened \cup {s}
  /\ UNCHANGED <<lineVars, streaming, phase, asked, outbox, runVars, snapshot, made,
                 answers, changed, strayed>>

\* set_model, set_thinking_level, set_session_name.
ChangeSetting ==
  /\ Commanded /\ current # NoSession /\ changed < MaxChanges
  /\ Save(current, <<Change>>)
  /\ changed' = changed + 1
  /\ UNCHANGED <<lineVars, current, opened, streaming, phase, asked, outbox, history,
                 runVars, snapshot, made, answers, ghostVars>>

----------------------------------------------------------------------------
(* A prompt and its run.                                                   *)

\* prompt: the flag is raised and the prompt saved before the task starts.
Prompt(s) ==
  /\ Commanded /\ s = current /\ ~streaming[s] /\ Make
  /\ streaming' = [streaming EXCEPT ![s] = TRUE]
  /\ phase' = [phase EXCEPT ![s] = "starting"]
  /\ asked' = [asked EXCEPT ![s] = New]
  /\ Save(s, <<New>>)
  /\ told' = [told EXCEPT ![s] = Append(@, New)]
  /\ UNCHANGED <<lineVars, current, opened, outbox, history, runVars, snapshot, answers,
                 changed, strayed>>

\* prompt with an image that cannot be read returns with the flag raised.
PromptUnreadable(s) ==
  /\ Commanded /\ s = current /\ ~streaming[s]
  /\ streaming' = [streaming EXCEPT ![s] = TRUE]
  /\ UNCHANGED <<lineVars, current, opened, entries, phase, asked, outbox, history,
                 runVars, snapshot, made, answers, changed, ghostVars>>

AdmitsAlways == TRUE                                           \* (mutant)
\* The compare_exchange of is_running.
Admits == busy = NoSession

\* run_with_channel_message: the loop gets a copy of the agent's messages,
\* which get the prompt too. The first event, AgentStart, is one for the
\* client.
Enter(s) ==
  /\ phase[s] = "starting" /\ Admits
  /\ phase' = [phase EXCEPT ![s] = "running"]
  /\ busy' = s
  /\ loop' = Append(history, asked[s])
  /\ history' = Append(history, asked[s])
  /\ asked' = [asked EXCEPT ![s] = 0]
  /\ deaf' = IF gone THEN deaf \cup {s} ELSE deaf
  /\ UNCHANGED <<gone, unheard, current, opened, entries, streaming, outbox, snapshot,
                 made, answers, changed, ghostVars>>

\* "Agent is already running".
Refused(s) ==
  /\ phase[s] = "starting" /\ ~Admits
  /\ phase' = [phase EXCEPT ![s] = "ending"]
  /\ asked' = [asked EXCEPT ![s] = 0]
  /\ UNCHANGED <<lineVars, current, opened, entries, streaming, outbox, history,
                 runVars, snapshot, made, answers, changed, ghostVars>>

\* A send to a receiver that was dropped is logged, no more.
Emit(s) ==
  /\ Make
  /\ told' = [told EXCEPT ![s] = Append(@, New)]
  /\ IF s \in deaf
     THEN unheard' = [unheard EXCEPT ![s] = @ \cup {New}] /\ UNCHANGED outbox
     ELSE outbox' = [outbox EXCEPT ![s] = Append(@, New)] /\ UNCHANGED unheard
  /\ UNCHANGED <<gone, deaf>>

\* A message of the conversation, with its MessageEnd: an answer, or the
\* result of a tool or a steering message.
Say(s) ==
  /\ busy = s /\ Emit(s)
  /\ answers' \in {answers, answers \cup {New}}
  /\ loop' = Append(loop, New)
  /\ UNCHANGED <<current, opened, entries, streaming, phase, asked, history,
                 busy, snapshot, changed, strayed>>

\* An error message that the retry takes out of the conversation again.
SayInVain(s) ==
  /\ busy = s /\ Emit(s)
  /\ answers' = answers \cup {New}
  /\ UNCHANGED <<current, opened, entries, streaming, phase, asked, history,
                 runVars, snapshot, changed, strayed>>

\* A steering message of the tool loop guard, a reminder of a required tool
\* or a rule's interruption: the conversation has it, no MessageEnd tells it.
Insert(s) ==
  /\ busy = s /\ Make
  /\ loop' = Append(loop, New)
  /\ UNCHANGED <<lineVars, current, opened, entries, streaming, phase, asked, outbox,
                 history, busy, snapshot, answers, changed, ghostVars>>

\* What the compactor makes of a conversation with more messages than it
\* keeps: a summary and the last part.
Compacted(messages) ==
  {<<New>> \o From(messages, i) :
     i \in UNION {2..Len(messages) - keep + 1 : keep \in KeepRecent}}

\* A compaction within the run; a short conversation it leaves alone.
CompactLoop(s) ==
  /\ busy = s /\ Make
  /\ \E kept \in Compacted(loop) : loop' = kept
  /\ UNCHANGED <<lineVars, current, opened, entries, streaming, phase, asked, outbox,
                 history, busy, snapshot, answers, changed, ghostVars>>

\* The run ends; unless it fails the agent's messages become the loop's.
Finish(s) ==
  /\ busy = s /\ phase[s] = "running"
  /\ history' \in {loop, history}
  /\ busy' = NoSession /\ loop' = <<>>
  /\ phase' = [phase EXCEPT ![s] = "ending"]
  /\ UNCHANGED <<lineVars, current, opened, entries, streaming, asked, outbox, snapshot,
                 made, answers, changed, ghostVars>>

\* The forwarder has an event for the client, the writer to stdout has ended,
\* so the forwarder does. A MessageEnd is no such event, but one may be at any
\* place between them. (When no MessageEnd is to come, it ends in any case.)
Deafen(s) ==
  /\ s \notin deaf /\ (phase[s] = "running" \/ outbox[s] # <<>>)
  /\ gone' = TRUE
  /\ deaf' = deaf \cup {s}
  /\ unheard' = [unheard EXCEPT ![s] = @ \cup Elements(outbox[s])]
  /\ outbox' = [outbox EXCEPT ![s] = <<>>]
  /\ UNCHANGED <<current, opened, entries, streaming, phase, asked, history, runVars,
                 snapshot, made, answers, changed, ghostVars>>

\* The forwarder and persist_event_message.
Forward(s) ==
  /\ outbox[s] # <<>>
  /\ Save(s, <<Head(outbox[s])>>)
  /\ outbox' = [outbox EXCEPT ![s] = Tail(@)]
  /\ UNCHANGED <<lineVars, current, opened, streaming, phase, asked, history, runVars,
                 snapshot, made, answers, changed, ghostVars>>

MissingAndLast(s, messages) ==                                 \* (mutant)
  From(messages, IF entries[s] = <<>> THEN 1 ELSE Len(entries[s]))
\* persist_session: by its count of entries, what messages are not saved.
Missing(s, messages) == From(messages, Len(entries[s]) + 1)
\* Nothing is under way to the session, and these messages are its own, each
\* once.
Own(s, messages) ==
  /\ outbox[s] = <<>>
  /\ Elements(messages) \subseteq Elements(told[s])
  /\ \A i, j \in DOMAIN messages : i # j => messages[i] # messages[j]

PersistSession(s, messages) ==
  /\ Save(s, Missing(s, messages))
  /\ strayed' = IF Own(s, messages) THEN strayed ELSE strayed \cup {s}

\* The forwarder has ended.
Forwarded(s) == outbox[s] = <<>>

LoweredCurrent(s) ==                                           \* (mutant)
  [streaming EXCEPT ![current] = FALSE]
\* The task lowers the flag of the session it began with.
Lowered(s) == [streaming EXCEPT ![s] = FALSE]

\* The end of the task.
Settle(s) ==
  /\ phase[s] = "ending" /\ Forwarded(s)
  /\ PersistSession(s, history)
  /\ streaming' = Lowered(s)
  /\ phase' = [phase EXCEPT ![s] = "idle"]
  /\ deaf' = deaf \ {s}
  /\ UNCHANGED <<current, opened, asked, outbox, history, runVars, snapshot, made,
                 answers, changed, gone, unheard, told>>

----------------------------------------------------------------------------
(* compact: the agent's messages are read, the summary is awaited, and the *)
(* messages are replaced by what was made of those read.                   *)

BeginCompact ==
  /\ Commanded /\ current # NoSession /\ Len(history) >= 3
  /\ snapshot' = history
  /\ UNCHANGED <<lineVars, current, opened, entries, streaming, phase, asked, outbox,
                 history, runVars, made, answers, changed, ghostVars>>

Replace(kept) == history' = kept /\ PersistSession(current, kept)

\* A conversation no longer than what is kept comes back as it was read.
EndCompact ==
  /\ snapshot # <<>>
  /\ \/ /\ \E keep \in KeepRecent : Len(snapshot) <= keep
        /\ Replace(snapshot) /\ UNCHANGED made
     \/ Make /\ \E kept \in Compacted(snapshot) : Replace(kept)
  /\ snapshot' = <<>>
  /\ UNCHANGED <<lineVars, current, opened, streaming, phase, asked, outbox, runVars,
                 answers, changed, told>>

FailCompact ==
  /\ snapshot # <<>>
  /\ snapshot' = <<>>
  /\ UNCHANGED <<lineVars, current, opened, entries, streaming, phase, asked, outbox,
                 history, runVars, made, answers, changed, ghostVars>>

----------------------------------------------------------------------------
Task(s) ==
  Enter(s) \/ Refused(s) \/ Finish(s) \/ Forward(s) \/ Deafen(s) \/ Settle(s)

SessionNext(s) ==
  \/ Swap(s) \/ Prompt(s) \/ PromptUnreadable(s) \/ Task(s)
  \/ Say(s) \/ SayInVain(s) \/ Insert(s) \/ CompactLoop(s)

PersistNext ==
  \/ \E s \in Sessions : SessionNext(s)
  \/ ChangeSetting \/ BeginCompact \/ EndCompact \/ FailCompact

PersistSpec == PersistInit /\ [][PersistNext]_persistVars

\* The tasks of a run are scheduled, and a run ends by itself (AgentLoop).
FairPersistSpec ==
  PersistSpec /\ \A s \in Sessions : WF_persistVars(Task(s))

----------------------------------------------------------------------------
(* Properties.                                                             *)

\* Every variable has its type; nothing is emitted outside a run.
PersistTypeOK ==
  /\ current \in Sessions \cup {NoSession} /\ opened \in SUBSET Sessions
  /\ entries \in [Sessions -> Seq(Messages \cup {Change})]
  /\ streaming \in [Sessions -> BOOLEAN]
  /\ phase \in [Sessions -> {"idle", "starting", "running", "ending"}]
  /\ asked \in [Sessions -> Messages \cup {0}]
  /\ outbox \in [Sessions -> Seq(Messages)]
  /\ history \in Seq(Messages) /\ loop \in Seq(Messages)
  /\ snapshot \in Seq(Messages)
  /\ busy \in Sessions \cup {NoSession}
  /\ made \in 0..MaxMessages /\ answers \in SUBSET Messages /\ changed \in 0..MaxChanges
  /\ gone \in BOOLEAN /\ deaf \in SUBSET Sessions
  /\ unheard \in [Sessions -> SUBSET Messages]
  /\ told \in [Sessions -> Seq(Messages)] /\ strayed \in SUBSET Sessions
  /\ \A s \in Sessions :
       phase[s] = "idle" \/ s \in deaf => outbox[s] = <<>>

\* The agent is in the run of the one session whose task is in its loop,
\* whatever sessions were opened and prompted while it ran.
OneRun ==
  \A s \in Sessions : phase[s] = "running" <=> busy = s

\* What is asked and said reaches the session once and in order, through a
\* prompt saved by the handler, events saved by the forwarder and the
\* fallback at the end, unless the fallback met an agent whose messages are
\* not all the session's, or events not yet saved, or a forwarder ended with
\* its client before it came to all of the events.
SavedOnceInOrder ==
  \A s \in Sessions \ strayed :
    unheard[s] = {} => MessagesOf(entries[s]) \o outbox[s] = told[s]

\* Whatever history the fallback met, nothing asked or said is lost but what
\* a forwarder that ended with its client did not come to.
NothingLost ==
  \A s \in Sessions :
    Elements(told[s]) \subseteq Elements(entries[s]) \cup Elements(outbox[s]) \cup unheard[s]

\* "append any deficit" (src/oxicode-cli/src/app/agent_session.rs:1117): the
\* fallback saves what no forwarder came to. It does not after a run that
\* failed, nor where it counts an entry that is no message (no run checks this).
DeficitAppended ==
  \A s \in Sessions :
    phase[s] = "idle" => Elements(told[s]) \subseteq Elements(entries[s])

\* The flag says that a run of the session is going. It stays raised after an
\* image that cannot be read (no run checks this).
FlagBacked == \A s \in Sessions : streaming[s] => phase[s] # "idle"

\* An accepted prompt gives the session back, also when the agent refused
\* it and when other sessions were opened meanwhile.
PromptReleased ==
  \A s \in Sessions : phase[s] # "idle" ~> (phase[s] = "idle" /\ ~streaming[s])

\* "we must **reconcile** the two counters to avoid double-writes or gaps"
\* (src/oxicode-cli/src/app/agent_session.rs:1114): no message is in a
\* session twice.
NoDoubleWrite ==
  \A s \in Sessions : \A i, j \in DOMAIN entries[s] :
    i # j /\ IsMessage(entries[s][i]) => entries[s][i] # entries[s][j]
=============================================================================
