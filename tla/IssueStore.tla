----------------------------- MODULE IssueStore -----------------------------
(***************************************************************************)
(* One issue of the FileIssueStore (oxicode-agent/src/issues/store.rs), a  *)
(* file that the processes of a project change. It may be assigned to a    *)
(* process, which keeps it for as long as it holds an advisory lock on a   *)
(* file of its own (oxicode-agent/src/issues/liveness.rs).                 *)
(*                                                                         *)
(* The tasks of a process (its agents and the issue panel) act under its   *)
(* id and take turns, by FileMutationQueue; between processes there is     *)
(* only the content hash. Ids of processes are not used again. Of an       *)
(* issue's content the status, the assignment and the number of writes is  *)
(* kept; the number stands for the hash, because a write sets updated_at.  *)
(*                                                                         *)
(* A call that is refused changes nothing and is no step: Conflict when    *)
(* the hash it expects is not the issue's, NotAssigned, or a mutator that  *)
(* leaves the issue as it was. cas_retry makes such a call again.          *)
(***************************************************************************)
EXTENDS Integers, Sequences

CONSTANTS
  Processes,
  Tasks,
  ProcessOf,    \* the process of each task
  MaxWrites,    \* bounds how often the issue is written
  Nobody        \* no process, no task

ASSUME IssueAssumption ==
  /\ ProcessOf \in [Tasks -> Processes]
  /\ MaxWrites \in Nat
  /\ Nobody \notin Processes \cup Tasks

\* patch is apply_patch for a caller; link is link_session, and apply_patch
\* without a caller.
Operations == {"start", "release", "close", "reopen", "patch", "link"}
Owners == Processes \cup {Nobody}
Contents == [hash : 0..MaxWrites, owner : Owners, closed : BOOLEAN]

VARIABLES
  life,     \* of a process: new, reaping, opening, up or dead
  guarded,  \* the processes that hold the exclusive lock on their file
  present,  \* those whose file is there
  aged,     \* those whose file is older than ORPHAN_AGE_SECS
  probed,   \* the file a starting process has a shared lock on
  doomed,   \* the file a starting process has found unlocked
  issue,    \* the content of the issue's file
  writers,  \* who wrote it, in their order: for the properties only
  pc,       \* of a task: idle, probe, probing or write
  op,       \* what it was called for
  base,     \* the content it has read
  turn      \* the task of a process that is in the issue's mutation queue

lifeVars == <<life, guarded, present, aged, probed, doomed>>
taskVars == <<pc, op, base, turn>>
issueVars == <<lifeVars, issue, writers, taskVars>>

Created == [hash |-> 0, owner |-> Nobody, closed |-> FALSE]

IssueInit ==
  /\ life = [p \in Processes |-> "new"]
  /\ guarded = {} /\ present = {} /\ aged = {}
  /\ probed = [p \in Processes |-> Nobody]
  /\ doomed = [p \in Processes |-> Nobody]
  /\ \E c \in BOOLEAN : issue = [hash |-> 0, owner |-> Nobody, closed |-> c]
  /\ writers = <<>>
  /\ pc = [t \in Tasks |-> "idle"]
  /\ op = [t \in Tasks |-> "start"]
  /\ base = [t \in Tasks |-> Created]
  /\ turn = [p \in Processes |-> Nobody]

Me(t) == ProcessOf[t]

----------------------------------------------------------------------------
(* Processes and their locks.                                              *)

\* An id is a process's own.
Fresh(p) == life[p] = "new"

\* FileIssueStore::open.
Begin(p) ==
  /\ Fresh(p)
  /\ life' = [life EXCEPT ![p] = "reaping"]
  /\ UNCHANGED <<guarded, present, aged, probed, doomed, issue, writers, taskVars>>

\* reap_orphans probes a file: the shared lock is had if no exclusive one is.
ProbeFile(p, q) ==
  /\ life[p] = "reaping" /\ probed[p] = Nobody /\ doomed[p] = Nobody
  /\ q \in present \ guarded
  /\ probed' = [probed EXCEPT ![p] = q]
  /\ UNCHANGED <<life, guarded, present, aged, doomed, issue, writers, taskVars>>

ReleaseFile(p) ==
  /\ probed[p] # Nobody
  /\ probed' = [probed EXCEPT ![p] = Nobody]
  /\ doomed' = [doomed EXCEPT ![p] = probed[p]]
  /\ UNCHANGED <<life, guarded, present, aged, issue, writers, taskVars>>

AnyAge(q) == TRUE                                              \* (mutant)
\* The age gate.
OldEnough(q) == q \in aged

ReapFile(p) ==
  /\ doomed[p] # Nobody
  /\ present' = IF OldEnough(doomed[p]) THEN present \ {doomed[p]} ELSE present
  /\ doomed' = [doomed EXCEPT ![p] = Nobody]
  /\ UNCHANGED <<life, guarded, aged, probed, issue, writers, taskVars>>

\* acquire opens the file ...
OpenFile(p) ==
  /\ life[p] = "reaping" /\ probed[p] = Nobody /\ doomed[p] = Nobody
  /\ life' = [life EXCEPT ![p] = "opening"]
  /\ present' = present \cup {p} /\ aged' = aged \ {p}
  /\ UNCHANGED <<guarded, probed, doomed, issue, writers, taskVars>>

\* Somebody has a shared lock on the file, to see whether the process lives.
Probed(q) == \/ \E p \in Processes : probed[p] = q
             \/ \E t \in Tasks : pc[t] = "probing" /\ base[t].owner = q

\* ... and tries to lock it. If it cannot the program goes on without.
LockFile(p) ==
  /\ life[p] = "opening"
  /\ life' = [life EXCEPT ![p] = "up"]
  /\ guarded' = IF Probed(p) THEN guarded ELSE guarded \cup {p}
  /\ UNCHANGED <<present, aged, probed, doomed, issue, writers, taskVars>>

\* An hour passes: not while a process opens its file and locks it, nor
\* while another looks at that file.
Age(p) ==
  /\ p \in present \ aged /\ life[p] # "opening"
  /\ \A q \in Processes : p \notin {probed[q], doomed[q]}
  /\ aged' = aged \cup {p}
  /\ UNCHANGED <<life, guarded, present, probed, doomed, issue, writers, taskVars>>

Mine(p) == {t \in Tasks : ProcessOf[t] = p}
Gone(p) ==
  /\ life' = [life EXCEPT ![p] = "dead"]
  /\ guarded' = guarded \ {p}
  /\ probed' = [probed EXCEPT ![p] = Nobody]
  /\ doomed' = [doomed EXCEPT ![p] = Nobody]
  /\ pc' = [t \in Tasks |-> IF t \in Mine(p) THEN "idle" ELSE pc[t]]
  /\ op' = [t \in Tasks |-> IF t \in Mine(p) THEN "start" ELSE op[t]]
  /\ base' = [t \in Tasks |-> IF t \in Mine(p) THEN Created ELSE base[t]]
  /\ turn' = [turn EXCEPT ![p] = Nobody]
  /\ UNCHANGED <<aged, issue, writers>>

\* AliveGuard::drop.
Exit(p) ==
  /\ life[p] = "up" /\ Gone(p)
  /\ present' = IF p \in guarded THEN present \ {p} ELSE present

\* The system releases the lock of a process that is killed.
Crash(p) ==
  /\ life[p] \in {"reaping", "opening", "up"} /\ Gone(p)
  /\ UNCHANGED present

----------------------------------------------------------------------------
(* Changes of the issue: FileIssueStore::update.                           *)

EntersAlways(t) == TRUE                                        \* (mutant)
\* The issue's mutation queue lets one task of a process in.
Enters(t) == turn[Me(t)] = Nobody

MayAlways(t, o) == TRUE                                        \* (mutant)
\* require_owner of release and close, the check of apply_patch; start and
\* reopen leave an issue that is assigned to the caller, or open, as it is.
May(t, o) ==
  CASE o \in {"release", "close"} -> issue.owner = Me(t)
    [] o = "patch" -> issue.owner \in {Me(t), Nobody}
    [] o = "start" -> issue.owner # Me(t)
    [] o = "reopen" -> issue.closed
    [] OTHER -> TRUE

\* The issue is read and its hash is the one the caller expects, if any.
\* start looks whether the owner it has read is alive, the others write.
Read(t, o) ==
  /\ pc[t] = "idle" /\ life[Me(t)] = "up" /\ Enters(t) /\ May(t, o)
  /\ op' = [op EXCEPT ![t] = o]
  /\ base' = [base EXCEPT ![t] = issue]
  /\ turn' = [turn EXCEPT ![Me(t)] = t]
  /\ pc' = [pc EXCEPT ![t] =
              IF o = "start" /\ issue.owner # Nobody THEN "probe" ELSE "write"]
  /\ UNCHANGED <<lifeVars, issue, writers>>

Return(t) ==
  /\ pc' = [pc EXCEPT ![t] = "idle"]
  /\ op' = [op EXCEPT ![t] = "start"]
  /\ base' = [base EXCEPT ![t] = Created]
  /\ turn' = [turn EXCEPT ![Me(t)] = Nobody]

\* is_session_alive: yes, if its file is there and cannot be locked.
Assigned(t) ==
  /\ pc[t] = "probe" /\ base[t].owner \in present \cap guarded
  /\ Return(t)
  /\ UNCHANGED <<lifeVars, issue, writers>>

NoLockFile(t) ==
  /\ pc[t] = "probe" /\ base[t].owner \notin present
  /\ pc' = [pc EXCEPT ![t] = "write"]
  /\ UNCHANGED <<lifeVars, issue, writers, op, base, turn>>

Probe(t) ==
  /\ pc[t] = "probe" /\ base[t].owner \in present \ guarded
  /\ pc' = [pc EXCEPT ![t] = "probing"]
  /\ UNCHANGED <<lifeVars, issue, writers, op, base, turn>>

EndProbe(t) ==
  /\ pc[t] = "probing"
  /\ pc' = [pc EXCEPT ![t] = "write"]
  /\ UNCHANGED <<lifeVars, issue, writers, op, base, turn>>

OwnerAfter(t) == CASE op[t] = "start" -> Me(t)
                   [] op[t] \in {"release", "close", "reopen"} -> Nobody
                   [] OTHER -> base[t].owner

\* A patch sets any status, with a caller or without.
StatusAfter(t) == CASE op[t] = "close" -> {TRUE}
                    [] op[t] = "reopen" -> {FALSE}
                    [] op[t] \in {"patch", "link"} -> BOOLEAN
                    [] OTHER -> {base[t].closed}

\* atomic_write replaces whatever the file holds by now.
Write(t) ==
  /\ pc[t] = "write" /\ issue.hash < MaxWrites
  /\ \E c \in StatusAfter(t) :
       issue' = [hash |-> issue.hash + 1, owner |-> OwnerAfter(t), closed |-> c]
  /\ writers' = Append(writers, Me(t))
  /\ Return(t)
  /\ UNCHANGED lifeVars

\* It fails.
FailWrite(t) ==
  /\ pc[t] = "write"
  /\ Return(t)
  /\ UNCHANGED <<lifeVars, issue, writers>>

----------------------------------------------------------------------------
ProcessNext(p) ==
  \/ Begin(p) \/ (\E q \in Processes : ProbeFile(p, q)) \/ ReleaseFile(p)
  \/ ReapFile(p) \/ OpenFile(p) \/ LockFile(p) \/ Age(p) \/ Exit(p) \/ Crash(p)

Advance(t) ==
  \/ Assigned(t) \/ NoLockFile(t) \/ Probe(t) \/ EndProbe(t)
  \/ Write(t) \/ FailWrite(t)

IssueNext ==
  \/ \E p \in Processes : ProcessNext(p)
  \/ \E t \in Tasks : Advance(t) \/ \E o \in Operations : Read(t, o)

IssueSpec == IssueInit /\ [][IssueNext]_issueVars

----------------------------------------------------------------------------
(* Properties.                                                             *)

InQueue == {"probe", "probing", "write"}

\* Every variable has its type; only running processes hold locks, and the
\* queue's turn is with the task that is between its reading and its writing.
IssueTypeOK ==
  /\ life \in [Processes -> {"new", "reaping", "opening", "up", "dead"}]
  /\ guarded \in SUBSET Processes /\ present \in SUBSET Processes
  /\ aged \in SUBSET Processes
  /\ probed \in [Processes -> Owners] /\ doomed \in [Processes -> Owners]
  /\ issue \in Contents /\ writers \in Seq(Processes)
  /\ pc \in [Tasks -> {"idle"} \cup InQueue]
  /\ op \in [Tasks -> Operations]
  /\ base \in [Tasks -> Contents]
  /\ turn \in [Processes -> Tasks \cup {Nobody}]
  /\ Len(writers) = issue.hash
  /\ \A p \in guarded : life[p] = "up"
  /\ \A t \in Tasks : pc[t] \in InQueue <=> turn[Me(t)] = t

\* No task overwrites what another task of its process wrote after it read:
\* whatever was written in between came from other processes.
NoLostUpdate ==
  \A t \in Tasks : pc[t] \in InQueue =>
    \A i \in base[t].hash + 1..issue.hash : writers[i] # Me(t)

\* The reaper, which looks for the lock, lets go of it, looks at the age and
\* then removes the file, does not remove the file of a process that has
\* locked it meanwhile, which would seem dead from then on.
HeldFileStays == guarded \subseteq present

Writes(t) == pc[t] = "write" /\ pc'[t] = "idle" /\ issue'.hash = issue.hash + 1

\* What a process that holds its lock has been assigned stays with it until
\* it gives it up: it is lost to a reopen, which asks for no ownership, and
\* to a write by another process that read the issue before the assignment.
ClaimKept ==
  [][issue.owner \in guarded /\ issue'.owner # issue.owner =>
       \E t \in Tasks : /\ Writes(t)
                        /\ \/ Me(t) = issue.owner
                           \/ op[t] = "reopen"
                           \/ base[t].hash # issue.hash]_issueVars

\* "If already assigned to a *live* session, returns [`IssueError::Assigned`]"
\* (src/oxicode-agent/src/issues/store.rs:459).
ClaimRespected ==
  \A t \in Tasks : pc[t] = "write" /\ op[t] = "start" /\ base[t].owner # Nobody =>
    life[base[t].owner] # "up"
=============================================================================
