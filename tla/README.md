# oxicode in TLA+

oxicode is an AI coding agent in Rust: a library that talks to model providers
(`oxicode-ai`), an agent runtime with a turn loop and tools (`oxicode-agent`), an
SDK that supervises and coordinates agents (`oxicode-sdk`), and a terminal and RPC
front end (`oxicode-cli`). This directory models the parts of it whose correctness
depends on the order in which things happen, checks them with TLC on small
instances, and proves what matters most with TLAPS for every instance.

## The system

| Part | State | Operations | Meets |
|---|---|---|---|
| Turn loop (`agent_loop/mod.rs`, `run_loop`) | pending messages, `has_more_tool_calls`, `force_continue`, retry counter | a turn: drain, request, stream, tools, hooks; retries; exit | everything below |
| Loop queues (`agent_loop/queues.rs`) | steering and follow-up queue, bounded | `try_push`, drain all or one at a time | hooks push, loop drains |
| Agent (`agent.rs`) | `is_running`, `cancel_flag`, hooks, todo reminders | run, cancel, cancel_auto_retry | builds a loop for every run |
| Session (`app/agent_session.rs`, `rpc_mode`, `lib.rs`) | session queues, `should_stop` | prompt, steer, follow_up, abort, clear | polled by the agent's hooks |
| TTSR rules (`agent_loop/ttsr.rs`) | text buffers | check, interrupt | runs inside the stream |
| Supervisor (`lifecycle/supervisor.rs`) | status word per handle, pool by id, restart log, snapshot store | run, suspend, restore, terminate, restart | runs agents for callers |
| Subagent coordinator (`lifecycle/subagent_coordinator.rs`) | tracker per id, one background task each | spawn, cancel, wait | drives handles of the supervisor |
| Session persistence (`app/agent_session.rs`, `rpc_mode/handlers.rs`) | the current session, its streaming flag, a forwarder per run | prompt, forward, `persist_session`, switch, fork, clone, compact | the agent, the session store |
| Session store (`store/session.rs`) | a JSONL file, a buffer, the leaf, `flushed` | open, migrate, append, branch, fork | other managers on the file, the file system |
| File mutation queue (`tools/file_mutation_queue.rs`) | a map of locks by canonical path | `with_queue`, cleanup, eviction | every tool that edits |
| Issue store (`issues/store.rs`, `issues/liveness.rs`, `tools/issue.rs`) | a file per issue, a lock file per process | start, release, close, patch, reap orphans | other processes |
| Work queue, shared memory (`coordination/*`) | items, versions | claim, start, complete, retry, cancel; read, write, delete | `fan_out` and `map_reduce` of a group |
| Consensus (`coordination/consensus.rs`) | sessions of votes | start, cast, tally | `vote` of a group, Vote steps of workflows |
| Tool batches (`agent_loop/tool_exec.rs`, `helpers.rs`) | the calls of an answer, a future or a place in the loop for each | approve, prepare, run, cancel, collect; repair the conversation | the loop, the tools, hooks |
| Compactor (`oxicode-ai`, `compaction.rs`) | none | split, summarize | the loop before a request |
| Providers (`oxicode-ai`) | circuit breaker, stream retry | stream | called by the loop |
| Front ends, editors, LSP, catalogue | views and text | rendering, parsing | the session |

Where the difficulty lies:

- **Turn loop.** Users steer and stop it from other tasks while it streams, sleeps
  in a retry or runs tools. Four flags can stop it and none of them is looked at
  everywhere. Messages cross two queues and a local batch on their way into the
  conversation. It has no turn limit: retries, nudges, reminders, steering messages
  and follow-ups all re-enter it, and together must not keep it alive for ever.
  Correct means: accepted messages enter exactly once and in order, follow-ups
  wait, budgets hold, a stop ends the run, the loop ends by itself.
- **Tool batches.** Calls are approved, run and hooked one by one or at the same time and
  may be cancelled at any of it; an answer may be cut, the history compacted, the session
  resumed from a log that lost its tail. The provider refuses a conversation with a call
  that has no result. Correct means: what is done is answered in order, a hanging tool
  does not outlive a cancel, the repair converges and takes nothing with it that was
  said or answered.
- **Supervisor.** The status word of a handle is written by whoever runs, suspends
  or terminates it, after tests that may be stale, and the agent inside has a
  running guard of its own. Correct means: one run inside an agent, no status
  without a run behind it, restarts bounded.
- **Coordinator.** A background task races a run against a cancellation; waiters
  use a notification without memory. Correct means: every subagent goes through
  the documented lifecycle and a cancellation always ends it.
- **Session persistence.** Three writers save one conversation: the handler saves the
  prompt, a forwarder saves what the run emits, a fallback saves what it believes is
  missing, by comparing two counts. Meanwhile the user opens other sessions and
  compacts. Correct means: what was asked and said reaches the session it began in,
  once and in order, and nothing is lost.
- **Session store.** Nothing is written before the first answer, then everything is;
  two managers may be on one file and a write may be torn or fail in silence. Correct
  means: no operation loses entries of an undamaged file, and files hold one tree each.
- **File mutation queue.** The map that holds the locks is pruned while they are held, and
  a file that does not exist yet goes by whatever path each caller gave. Correct means:
  edits under one path do not overlap and nobody is overtaken.
- **Issue store.** Processes share files and know of each other only by advisory
  locks, which they test, let go and act on later. Correct means: no lost update
  within a process, no living process loses its lock file or its claim.
- **Work queue, shared memory, votes.** The operations test neither state nor owner; a
  group's call collects items that others claim, retry and cancel. Correct means: one
  worker per attempt, what a call returns is settled, the call returns, votes do not
  mix.

## Modules

### AgentLoop

One run at a time of `Agent::run_with_channel_message`, from the session's prompt to
the return, with every entry point of other tasks as an action of the environment.

`pc` names the place in `run_loop`: `turn` (head of the inner loop), `stream`
(waiting for the provider), `retryWait`, `tools`, `finish` (the `finish_turn` hook),
`drain` (the end of a turn), `late`, `follow`, `final`, `reminder` (the checks after
the inner loop, in the code's order), `ended`. Each is a place where the code awaits or
takes a lock, so another task may act in between. The variables carry the names of the
code's locals and fields; `accepted`, `delivered`, `failures`, `interrupts`,
`unseenResults` and `endedBy` are history for the properties and guard nothing.

A response of the provider is the outcome its stream ends with; a tool batch is whether
it mutated files or edited the todo list, whether it asks to terminate, and whether it
was cut short. The text of the conversation is left out, but for what decides the
control: tool calls without results (`orphans`, which the message-ordering recovery
removes) and text that violates a rule (`ttsrMatch`). A rule that matched keeps matching
because the loop never clears the rule buffers.

`shouldStop` and `cancelFlag` are shared by the sessions of the process, the flag that
tells of a run in progress is not: `PromptMeanwhile` is the prompt in a session swapped in
while a run of another goes on, which resets both before the agent refuses it. It revokes a
stop, so `StopEndsRun` ends the run or finds the stop gone.

`MCAgentLoop` adds the symmetry of the session's messages.

### ToolExec, Transcript

The tool batches, and the conversation around them. `Transcript` are conversations as
sequences of messages and what is done to them: `Sanitize` is
`sanitize_orphaned_tool_results`, `Compact` the compactor's split. A message has a number;
a result carries the number of the message whose call it answers, which the properties
use and the code does not have: it goes by the ids of calls. `repeatIds` is a provider
that numbers the calls of each answer from zero (`ollama.rs:440`), so that ids repeat.
`Accepts` is the provider's check of the order, and external.

`ToolExec` follows the calls of one answer through `stage`: `none`, `hooks` (approval,
lookup, validation and the hook before), `running`, `after` (the hook after), `done`.
One by one, a call starts when the one before it is done. In parallel, all are prepared
before any runs (`closed`), the outcomes fill slots, and a cancel leaves the calls that
still run. `stops` tells the cancel signal from `external_stop`: both are looked at
between calls, only the signal wakes a running tool. `told` is what the session's log
heard by `MessageEnd`, one by one only, because that is how sessions run their agents.
Around the batch are the steps that leave the conversation in disorder or put it in
order: `Cut`, `TimeOut`, `Fail`, `CompactHistory`, `Resume`; `Request` with its repair,
`Reject` with the other. Rule interrupts, steering messages, nudges and the loop's other
decisions are `AgentLoop`'s: here a batch or a rejected request goes on or ends.

### Supervisor

`AgentHandle` and `AgentSupervisor` under several callers (`Actors`). A check and the
write it guards are separate steps, as are writes under different locks: `pc` is a caller's place, `at` and `on` the handle and the
id it works on. `status` is the handle's atomic, `busy` the agent's `is_running`, `pool`
the map of agents, `recent` the entries of the restart log still inside the window,
`stored` the ids with a snapshot. `Run`, `Enter`, `Leave`, `Settle` are
`AgentHandle::run`; `Suspend`, `SetSuspended`, `Save` the two suspends;
`TerminateAgent`, `Terminate`, `TerminateChecked`, `SetTerminated`, `Remove`,
`ForgetRestarts` the two terminates; `Restart`, `FetchConfig`, `RecordRestart`,
`Remove`, `Respawn` the restart; `Restore`, `Load`, `Respawn` the restore; `Spawn` the
spawns. How a run ends is free; a cancellation only makes it end sooner. Agents have names;
one without gets a fresh uuid at each start (`supervisor.rs:119`), so that its restarts are
logged under ids of their own and no limit stops them.

### SubagentCoordinator, SubagentLifecycle

`SubagentCoordinator` extends the supervisor: some of its actors (`Trackers`) are the
background tasks of subagents, the others call the coordinator and keep the whole
supervisor besides. A task is dropped by `CancelTask` only where it awaits (`Cancellable`).
`SubagentLifecycle` is what the coordinator's documentation promises of each tracker:
pending, active, one terminal state, and a terminal state for whoever is cancelled while
active. `ImplementsLifecycle` says that the coordinator, seen through `state` and
`cancelToken`, is such a system, its fairness included.

### SessionPersistence

What a prompt under RPC does to the session (`RpcHandlers::prompt`, `AgentSession`). A
session's run is in `phase`: `starting` (spawned, before the agent's guard), `running`
(inside), `ending` (the forwarder is awaited). `outbox` are the events emitted and not
yet saved by the forwarder, `history` is `Agent::state().messages`, `loop` the copy the
run works on, `snapshot` what a compaction in progress has read. Messages are numbered in
the order they are made; an entry of the session is a message or a `Change`. `told` is
what each session should hold, and `strayed` are the sessions where the fallback
(`persist_session`) met a history not theirs, or with events still under way: both are
for the properties alone. `MessagesOf` is what a session gives a new agent,
`Beginnings` what switch, clone and fork open.

`Deafen` is the forwarder that ends because its client's writer does (`handlers.rs:534`),
after it saved what it took: `gone` is the client, `deaf` are the sessions whose run goes
on without a forwarder, `unheard` the messages that run emits. A run begun after
that has no client: its forwarder takes the start event and ends. `Sessions` are
numbers, opened in their order.

### SessionStore, SessionLog

`SessionManager` over files. A file is its lines, `ragged` if the last one lacks its
newline; a manager has a path, a buffer, a leaf and the `flushed` flag. `Create`,
`OpenCurrent`, `OpenOld`, `OpenUnreadable` are the ways of `set_session_file`,
`AppendEntry` is `_append_entry` with `_persist`, `Crash` an append that is torn at any
place, `ForkFrom` and `BranchFromEntry` the two forks. Opens and writes of the files in
`Failing` may fail, of which `_persist` and `_rewrite_file` tell nobody: `CannotOpen` writes
nothing and leaves `flushed` as it was, `CannotWrite` writes any of the lines and sets it.
Of the migrations `Migrated` is the one from version 2. `SessionLog` is the promise of an
append-only file, less what damage excuses; `ImplementsLog` says the store keeps it.
`Readable` is `load_entries_from_file`: the lines that parse, if the first of them is a
header (`Headed`); `Loaded` the set of entries among them. `hurt` remembers the files that
were ever torn or old, or a write to which failed, for the properties.

`Picked`, in `Selection`, is `filter` and `retain` for this module and the next ones:
the elements at a set of places, by a recursive function. The library's `SelectSeq` takes
its test as an operator, and nothing could be proved about it.

### FileMutationQueue

`with_queue` with a step for each time the map is locked: cleanup looks at the files
(`RequestAndClean`) and later removes (`RemoveStale`), the capacity check looks (`Scan`)
and removes one by one (`EvictGone`), then evicts and takes the lock (`Take`). A lock is
the line of the tasks on it, its holder first. A call may be dropped anywhere
(`Abandon`). Files come and go; `KeyOf` is the canonical path of one that exists and the
path the caller gave of one that does not. `parted` are the paths whose lock left the map
while it was in use: there the code does not serialize. `Serialized` is about one path;
that two paths of one file are not serialized is `SameFileSerialized`, below.

### IssueStore

One issue, the processes of a project and their tasks. A process starts by reaping the
lock files of the dead (`ProbeFile`, `ReleaseFile`, `ReapFile`: probe, let go, age gate
and removal), then creates and locks its own (`OpenFile`, `LockFile`). A task reads the
issue under the process's mutation queue, looks at the owner's lock if it is to start
work (`Assigned`, `NoLockFile`, `Probe`, `EndProbe`) and writes what it makes of what it
read (`Write`); a patch sets any status. Processes exit and crash anywhere. A task of
`cas_retry` is one task per attempt, with the hash of that attempt's read. `Enters` takes
the queue's promise for granted; its limits are in `FileMutationQueue`.

### WorkQueue, SharedMemory, CoordinatedGroup

`WorkQueue` are its items and the tasks that `fan_out` spawns: claim, start, run,
complete. `SharedMemory` is one key, with versions that start over when it is deleted.
`CoordinatedGroup` composes them as `map_reduce` does: distribute, collect, store, while
anyone else enqueues, claims, starts, completes (`Meddle`), retries, cancels, reads, writes
and deletes. Another `fan_out` at the same time is in it only as far as its calls of the
queue are those of another user.

### Consensus

Votes that go on at the same time, of groups (`Answer`) and of workflow steps
(`AnswerStep`), in the sessions of one `Consensus`. A group's vote has an id of its own,
fresh each time; a step's is made of the process and the length of the question, so that
opening one may replace another's. Agents are asked one after the other, and one that fails
abstains. Of what an agent answers a group, the first of the listed options it contains
counts, or else the answer as it is (`Matched`); which options it contains is the constant
`Contained`. A step counts answers as they are and keeps the first decision there was. A
decision is any of the values with the most votes, if the threshold's share of all agents
gave it, which for a group is half, rounded up. The agents of a vote are taken to be
distinct.

### MC modules and proofs

`MC*` modules add symmetry or the function constants of an instance. `*Proofs` modules
hold the theorems, see below: `AgentLoopProofs`, `ToolExecProofs`, `SessionStoreProofs` and
`FileMutationQueueProofs` about the module they are named for, `LifecycleProofs` about the
supervisor and the coordinator, `CoordinationProofs` about the group and the votes,
`PersistenceProofs` about session persistence and the issue store. `SequenceLemmas` are the
facts about sequences that several of them need.

## Runs

| Run | Instance | Shows |
|---|---|---|
| `AgentLoopQueues` | 2 + 2 session messages, 1 + 1 of an embedder, capacities 2 and 1, one at a time | `TypeOK`, `ExactlyOnceInOrder`, `FollowUpsWait`, `NaturalEndDeliversAll` |
| `AgentLoopControl` | one steering message, every outcome, every decision, budgets of one or two | `RetryBudget`, `ContinueHonoured`, `StopEndsRun`, `LoopExitsNaturally` |
| `Supervisor` | 2 callers, 1 id, 2 handles, 1 restart | `TypeOK`, `AtMostOneRun`, `RunningIsBacked`, `RestartsBounded`, `RunningSettles` |
| `SubagentCoordinator` | 1 caller, 2 subagents, 1 id, 2 handles, no restarts, cancellations from outside | `WokenSeesEnd`, `AgentReleased`, `ImplementsLifecycle` |
| `SessionPersistence` | 2 sessions, 4 messages and other entries, 1 of the latter, compactions of short and long conversations, a client that may leave | `OneRun`, `SavedOnceInOrder`, `NothingLost`, `PromptReleased` |
| `SessionStore` | 2 managers, 2 files, one of an earlier version with 2 entries, one whose writes may fail, 2 more entries, torn writes | `StoreTypeOK`, `ConversationOnDisk`, `OneTree`, `ImplementsLog` |
| `FileMutationQueue` | 3 tasks, 2 files that come and go, one with 2 paths, a map of 2 | `QueueTypeOK`, `Serialized`, `NoOvertaking` |
| `IssueStore` | 2 processes, one with 2 tasks, 3 writes | `NoLostUpdate`, `HeldFileStays`, `ClaimKept` |
| `CoordinatedGroup` | 2 agents, 2 items of 2 priorities, 1 retry, other users of the queue, 1 of the memory, 3 changes of the key | `OneWorkerPerAttempt`, `ReturnedIsSettled`, `NothingOverwritten`, `GroupReturns` |
| `Consensus` | 2 votes of a group and 1 of a workflow, 2 agents, 3 options, the name of one within another's | `DecidedByAnswers` |
| `ToolExec` | 4 prompts and answers, 2 calls each, 2 rejections in a row, `keep_recent` 1 or 2, a log that lost 1 message | `ToolsTypeOK`, `OneRejection`, `ConversationKept`, `BatchAnswered`, `CancelEndsBatch` |

The type invariants of `SubagentCoordinator`, `SessionPersistence`, `IssueStore`,
`CoordinatedGroup` and `Consensus` are theorems and in no run.

Why the bounds are enough. Two messages per queue show reordering, loss and
duplication, and with capacities of two and one every queue is full at some point; the
theorems remove these bounds. Budgets of one or two let each counter reach its limit,
pass its reset and reach it again. Two callers give every pair of concurrent
operations, and two handles a handle that is replaced while its run goes on. Four
messages are two prompts with an answer each, or one prompt with three messages of which
any may be forwarded late, retried or compacted away, and two sessions a switch in the
middle of them. A change of settings counts as one of the four: what it does is to move the
count of entries by one, and three messages are enough to be counted wrongly. Conversations
of three messages stand for the short ones that a compaction returns as they are and for the
long ones it summarizes (`KeepRecent`). Four
entries leave two after the migrated file's two: one in memory before the flush, one
that flushes, and either may fail to be written. Three tasks on a map of two locks are a holder, a waiter and one whose
capacity check evicts; two spellings of one file and one of another are more paths than the
map has room for. Two tasks of one process and one of another give both kinds of
conflict, and three writes a write between a read and a write that is itself based on
another. Two items and one retry let an attempt be worked on while the next one is
claimed. A prompt, an answered batch, a
broken one and two rejections fit in the bounds of `ToolExec`, with compactions that split
before, inside and after a batch; two calls are one that is done and one that is not. With
one more message (913 000 states) the same holds. Two agents may agree, tie one to
one, which decides, be of one voice because the other failed, or both fail, in each of three
votes that go on together.

Deadlock. Handles, trackers and messages of `AgentLoop`, `Supervisor` and
`SubagentCoordinator` are never reused, so their sets bound how many are created; when
they are used up the system goes on without new ones, and these runs check for deadlock.
`SessionPersistence`, `SessionStore`, `IssueStore` and `CoordinatedGroup` may come to use
up a bound (messages, entries, writes, items and changes) where the code would go on,
and so may `ToolExec` (messages, rejections); `Consensus` ends when all votes are taken,
and the tasks of `FileMutationQueue` wait for operations that nothing obliges to end:
these runs do not.

Fairness. `AgentLoop` is weakly fair as one task: the runtime keeps polling it, a stream
ends by its idle timeout at the latest, sleeps elapse, tools and hooks return. Nobody is
obliged to prompt, steer or stop. `StopEndsRun` holds whatever the provider answers;
`LoopExitsNaturally` only once the provider makes no more calls, no rule interrupts it
and the hook no longer asks for another request. `Supervisor` is weakly fair in every call
that has begun, which includes that the agent's run ends; `SubagentCoordinator` is not,
so its cancellation must work for runs that never end. `FairPersistSpec` is weakly fair in
the spawned task of each prompt, including that a run ends, which is `AgentLoop`'s
subject. `FairGroupSpec` is weakly fair in each spawned worker and in the collecting
caller, because the runtime polls them and the agents' runs end. `ToolExec` is weakly fair in the
loop, the poll task, hooks and approvals (which the code awaits without a look at the
flags), but not in tools: a tool may hang. The other specifications
have no liveness to state.

### Runs that find a violation

| Run | Documented | What happens |
|---|---|---|
| `SessionMigrated` | sessions are append-only (`session.rs:881`) | opening a file of an earlier version rewrites it from a buffer that is still empty (`session.rs:1048`) |

### Divergences without a run

The modules define these properties, which the comments of the code suggest and the code
does not have. TLC finds each violated; they are kept as definitions, not as runs.

| Property | Documented | What happens |
|---|---|---|
| `NudgeDelivered` | a reconciliation nudge is injected (`mod.rs:1132`) | the same turn's drain assigns over it (`mod.rs:1264`) |
| `InterruptRetried` | a rule's interrupt is followed by a retry (`stream_outcome.rs:19`) | `continue` re-tests a guard that may be false (`mod.rs:930`) |
| `InterruptBudget` | a cap on the interrupts of a turn (`ttsr.rs:401`) | it is never read, and the buffers are never cleared |
| `LoopExitsNaturally` in auto mode | the loop exits on a text-only answer (`helpers.rs:48`) | the auto-mode hook adds a message at every poll (`lib.rs:437`) |
| `TerminatedForGood` | terminated is terminal (`supervisor.rs:309`) | a run that ends later stores `Created` or `Failed` (`supervisor.rs:230`) |
| `RunningIsBacked` with cancelled subagents | `is_running` says whether the agent runs (`supervisor.rs:158`) | a cancelled run never stores its last status |
| `NoLostWakeup` | a wait ends with the run (`subagent_coordinator.rs:171`) | the notification falls between the test and the wait |
| `IdsCollide` | two spawns of one id collide (`subagent_coordinator.rs:108`) | test and registration are two critical sections |
| `RestoresAdjacency` | the repair "restores a valid tool_call/tool_result adjacency" (`helpers.rs:79`) | one pass strips the calls of a broken batch and keeps its results; it takes a rejected request and a second pass |
| `StopKept` | the flag "causes the agent loop to exit after the current turn completes" (`agent_session.rs:844`) | a prompt in a session swapped in meanwhile resets it before the agent refuses the prompt (`handlers.rs:514`) |
| `SameFileSerialized` | the queue "serializes concurrent writes to the same file" (`file_mutation_queue.rs:1`) | a file that does not exist goes by the path each caller gave (`file_mutation_queue.rs:66`; `write.rs:79` and `path_security.rs:71` pass a new file's path as it is), and two spellings take two locks |
| `FlushedIsWritten` | "the same durability guarantees" (`session.rs:1294`) | a failed open or write only warns, or not even that: the entry stays in memory and is never written again, unless the open failed before the first flush (`session.rs:1302`, `1314`) |
| `DeficitAppended` | the fallback will "append any deficit" (`agent_session.rs:1117`) | it compares counts, and entries that are no messages make up for messages a forwarder that ended did not save (`handlers.rs:534`, `agent_session.rs:1119`) |
| `FlagBacked` | the streaming flag stands for a run (`handlers.rs:514`) | a prompt with an unreadable image returns after it was raised, and nothing lowers it |
| `MajorityDecides` | "simple majority", "0.5 = majority" (`consensus.rs:29`, `:46`) | half rounded up suffices (`consensus.rs:101`): of two agents who disagree, one decides |
| `OptionsCount` | "find the closest matching option" (`group_ext.rs:191`) | the first option the answer contains is taken: `unknown` counts as `no` if that is listed before it |
| `StepsDoNotMix` with two steps | a step's vote is on its own question (`workflow_engine.rs:409`) | questions of one length in one process share a session, and the later one replaces the earlier one's (`workflow_engine.rs:414`) |
| `NoDoubleWrite` | the counters are reconciled "to avoid double-writes or gaps" (`agent_session.rs:1114`) | the count of the session's entries is taken for the number of saved messages of a history that began elsewhere or was compacted (`agent_session.rs:1119`) |
| `ClaimRespected` | an issue of a live session is not reassigned (`issues/store.rs:459`) | a process whose lock was probed as it took it goes on without, and looks dead |

Softer cases. `RestartsBounded` is what holds of the restart limit: the policy's maximum
plus the restarts that were waiting together. `NothingOverwritten` excepts deletions,
because versions start over. `ReturnedIsSettled` excepts items that were retried.
`branch_from_entry` keeps the entries from the given one on, where the RPC handler's
comment says up to it; the model does what the code does. A compaction that returns a
short conversation as it was may save what the forwarder is still to save. A rewrite of a
buffer may leave identical lines in a file, once a file without an answer was opened and
appended to: `OneTree` takes them for one entry, as a load does. A cancelled
parallel batch drops the futures it says it lets finish (`tool_exec.rs:706`), and with ids
that repeat, a result that a repair left behind may answer an earlier message's call. A
rejected request's error is said not to be pushed to the history (`mod.rs:883`), where the
stream has pushed it already, and the retry is only made if the loop's guard holds.

## Proofs

`AgentLoopProofs` proves, for every set of messages, capacity, mode, budget and set of
outcomes allowed by the named assumptions of `AgentLoop` (modes and outcomes are among
the code's; capacities and the nudge threshold are positive; the queues' messages are
distinct):

- `TypeCorrect`, `QueuesFaithful`, `FollowUpsComeLast`, `RetriesBounded`,
  `ContinueKept`, `NaturalEndComplete`, each for the property its run checks.

All rest on one inductive invariant, `IInv`. The properties are not inductive alone:
`FollowUpsWait` needs to know that a batch of follow-ups only exists at a turn's head
and who left `unseenResults` behind there; `ContinueHonoured` needs that `force` is
lowered where a request is made; `NaturalEndDeliversAll` needs that what the drains after
the inner loop found empty has stayed so, up to what an embedder pushes meanwhile
(`SweptInv`); `RetryBudget` needs the places where the two counters are reset together.
`IInv` names these facts as conjuncts. The proof has a lemma per action that changes
queues or control, lemmas for the sequence algebra of drains and pushes, and a last step
per theorem that combines them.

`LifecycleProofs` proves, first, for every non-empty finite set of callers, all ids and handles and
every restart limit, what the `Supervisor` run checks but for its liveness:

- `TypeCorrect` for `TypeOK`, which is inductive once it says that the pool files a handle
  under its own id.
- `OneConversation` for `AtMostOneRun`. The handle's status cannot carry it, because a suspend
  makes a handle runnable whose run goes on; the invariant `Guarded` adds that a run inside
  has taken its agent's guard, so that another one is refused.
- `RunningHasARun` for `RunningIsBacked`, inductive by itself: whoever stores Running is in the
  call, and leaves it by storing something else. It is this step that the coordinator's
  cancellation omits.
- `RestartsWithinReach` for `RestartsBounded`. `RestartsInv` counts, for each id, the entries
  of the log and the restarts between the check and their entry (`Waiting`): a check adds
  one of at most all callers to a log still below the limit, and an entry turns one that
  waits into one that is logged.

Then it proves, for all callers, trackers, ids and handles,
`CoordinatorType`, `WokenFinished` (`WokenSeesEnd`), `Released` (`AgentReleased`) and
`FollowsLifecycle`, the safety half of `ImplementsLifecycle`. The invariant is in four
parts. `CallTypes` and `TrackTypes` are types, and who may be at which step. `Stages` ties a
tracker's state to the step its task is at, keeps a tracker that is being spawned to one
caller, and says that the registry holds no tracker without a state; without the last, a
cancellation could reach a subagent the lifecycle does not know yet. `Inside` is
`AgentReleased` with its converse, that whoever is inside has set the guard: only with
both does a cancellation that clears the guard leave nobody inside. Most steps are `Quiet`
(nobody enters or leaves), and one lemma serves for all of them.

`PersistenceProofs` proves, for all sessions and any number of messages, changes
and kept messages, and forwarders that may end with their client, `PersistType`, `RunIsOne`,
`SavedInOrder` and `NoneLost`. The invariant
`PersistInv` has, besides the two properties that are inductive only together, `Known` (no
message is anywhere before it is made) and `Phases` (a session's run, its streaming flag,
its guard and its events agree). Two arguments are not about steps:

- `MessagesOf`, by which an agent gets its history from a session's entries, is a
  `Picked`, a recursive function. Since the induction theorems of the library cannot be instantiated
  here, `Least` takes the least element of a set of numbers from well-foundedness, and
  `Climb` makes of it an induction over an interval, for a set instead of a predicate. Every
  use names the set of lengths for which a fact holds (`SelectExists`, `SelectsAgree`, in `SequenceLemmas`).
- `FallbackIdle`: where the history's messages are the session's own, each once, and nothing
  is in the outbox, the fallback has nothing to add. `Counted` is the pigeonhole step: distinct
  messages of which all are in the session are at most as many as the session's.

`CoordinationProofs` proves, for all agents, users, items and bounds, `GroupType`,
`Exclusive` (`OneWorkerPerAttempt`), `Returned` (`ReturnedIsSettled`) and `Versions`
(`NothingOverwritten`). The queue's and the memory's invariants (`QueueOK`, `MemoryOK`) are
proved for their own steps, and `QueueOrMemory` shows that a step of the group is one of
these or leaves both alone. `OneWorkerPerAttempt` is inductive with the types. The version
of an entry is a count of changes since the last deletion for whoever has read it since
(`SeenFits`), so a version that still matches has seen every change. `Harvest` follows an
item from the worker that settles it to the results of the call; `StaysSettled` says
that only a retry undoes it.

Of `Consensus` it proves `VoteType` and `VotesDoNotMix` (`DecidedByAnswers`) for any number
of agents and calls, all options and whatever answers contain. `OwnSession` is the invariant: the
session of a group holds what its answers count as, by `Matched`, and nothing else
(`SessionOf`). It needs that nobody else has a group's id (`OwnId`, `StepIdOK`), which the
fresh uuid gives; that a step's id is made otherwise is why `StepsDoNotMix` fails.

Of the issue store, `PersistenceProofs` proves `IssueType`, `Serial` (`NoLostUpdate`), `ReaperSpares`
(`HeldFileStays`) and `ClaimsStay` (`ClaimKept`) for all processes and tasks. `LocksOK`: a
file is there from the moment its process opens it, and once it is old its process has
its lock or never gets it, so what a probe of an old file found stays true until it is
removed. `ClaimsOK`: what a task read is the issue still if its hash is, and the dead
owner it found is dead for good.

`SessionStoreProofs` proves, for all managers and files and any number of entries, with
torn and failed writes and files of an earlier version or without, `StoreType`, `AnsweredOnDisk`
(`ConversationOnDisk`), `FilesAreTrees` (`OneTree`) and `LoadsOnlyGrow` (`ImplementsLog`,
the refinement of `SessionLog`, which has no fairness). The invariant `StoreInv` has five
parts, of which two carry the argument:

- `Trees`: the entries of a file *and of the buffers of all managers on it* make one tree.
  `OneTree` says so of the file alone, which is not inductive: a flush may write any of a
  buffer.
- `BuffersStored`: on a file that was never damaged and no write to which failed, a manager
  that has flushed has all of its buffer in the file, and one that has not holds no answer. `FilesWhole` goes with it: such
  a file begins with its only header, so that a load returns all of it.

Every way to open, create, migrate or fork a file is an instance of one step, `Opens`, for
which the invariant is shown once; `AppendInv` and `CrashInv` are the other two. `AppendedFile`
is where damage comes in: an append to a file without its last newline spoils the line
that was there, and to any other file it adds. What a load
reads is a `Picked`, about which `SequenceLemmas` shows, by `Climb`, that it takes exactly the
places it is given and keeps their order.

`FileMutationQueueProofs` proves, for all tasks, files and paths and every limit of the map,
`QueueType`, `EditsExclude` (`Serialized`) and `NobodyOvertakes` (`NoOvertaking`). `QueueInv` is
`PlainTypes`, `Lines` (who is in a line is queued for that lock, is there once, and who is
queued is there) and `Named` (a task that is on has a path, and whoever is queued is on the
lock the map has for it, unless the path is `parted`). `Serialized` needs only `Named`; the
rest is what keeps `Named` when tasks leave, are dropped or evict. Nothing is assumed of how
files come and go: a path says nothing of another path.

`ToolExecProofs` proves, for every number of calls, messages, kept messages and lost ones,
`ToolsType`, `Converges` (`OneRejection`), `NothingLost` (`ConversationKept`) and `BatchAnswers`
(`BatchAnswered`). The invariant `ToolsInv`:

- `Numbered`, of the history and of the log: numbers were made, what is no result has a
  number of its own, and results come behind their message with only results between. It is
  what keeps apart calls whose ids repeat: neither the code nor the repair knows the number.
- `Repair`: a request is made with a history of which no call lacks its result, and a
  rejection leaves one that is accepted. One pass of `Sanitize` does the first
  (`RepairsCalls`), a pass over what the first left does the second (`RepairsAccepts`), hence
  two always suffice, though one may not (`RestoresAdjacency`).
- `Batch` and `ToldBatch`: a batch is that of the last message, and one by one the log ends with
  that message and the results there are.

What a repair makes of a conversation is stated once, as a map of places (`Repairs`: which
stay, in which order, with or without their calls), what a compaction does as `Rest` (a
summary and a suffix), and what is pushed as a concatenation. Preservation of answers,
calls, acceptance and numbers is a lemma for each of the three, and every step of the model
is one of them or a step of the batch (`MovesInv`, `StandsInv`).

Only model-checked. Liveness, which the provers do not reach: `StopEndsRun`,
`LoopExitsNaturally`, `RunningSettles`, `PromptReleased`, `GroupReturns`, `CancelEndsBatch` and the
fairness half of `ImplementsLifecycle`. Whether these hold beyond the instances is not
shown. Every invariant and every action property of a passing run has a theorem.

## Not modelled

`PROJECT.json` has a note on every component. What is left out has one of these reasons.

- Text and pure input and output: the tools themselves, the providers' protocols and
  streams, prompts, rendering, the editor and terminal libraries, MCP and LSP transports,
  loading of extensions and packages, the model catalogue. They are the bulk of the
  repository's lines, and sequential.
- Thin wrappers: the message and event buses stand on broadcast channels, the ports and
  middleware of the SDK pass calls on.
- State nobody relies on: the history's loop guard and soft requirements append text; the
  terminal and print front ends keep no messages in the session; `cleanup` of the file
  mutation queue and the `Failed` status of work items have no caller.
- Known limits of the models: labels (which are not read back on reload), the list of and
  the search in sessions, the cache and the creation of issues, work-type filters
  (`fan_out` claims without one), a worker task that panics, switching of models, and
  `AgentLoop`'s other entry points.
- Of the session store: the migration from version 1, which gives entries fresh ids and
  makes each the parent of the next, the errors of the two forks, and `save`, `delete` and the
  cleanup of empty files.
- Not done yet: the workflow engine but for its Vote step, the circuit breaker and stream
  retry, the credentials' file lock, the restarts of unnamed agents, a second `fan_out` on
  the same queue, the steps of `cas_retry`.

## Plan

Done, each with its theorems: `AgentLoop`; `Supervisor`; `SubagentCoordinator` as a
refinement of `SubagentLifecycle`; `SessionPersistence`; `SessionStore` as a refinement of
`SessionLog`; `FileMutationQueue`; `IssueStore`; `WorkQueue` and `SharedMemory`, composed in
`CoordinatedGroup`; `Consensus`; `ToolExec` over `Transcript`.

Left, in this order:

1. Action properties that the invariants already carry but no run states, such as that a
   message never leaves the conversation of `AgentLoop`, and the refinement of a sequential
   queue by `FileMutationQueue` for files that are not parted.
2. `ToolExec` inside `AgentLoop`, whose `orphans` it would refine, with rule interrupts.
3. The workflow engine over `Consensus` and `CoordinatedGroup`: the order of steps and what
   becomes of a failed one.
4. `CircuitBreaker` with the retry of streams, and the lock of the credentials' file.
