---------------------------- MODULE SessionStore ----------------------------
(***************************************************************************)
(* SessionManager (oxicode-cli/src/store/session.rs): sessions kept as     *)
(* trees of entries in JSONL files that are only appended to. A manager    *)
(* holds the entries of its file in memory, writes none of them before     *)
(* the first assistant message, and is dropped when the program switches   *)
(* session; two managers may be on one file, because a run in flight keeps *)
(* the manager it began with.                                              *)
(*                                                                         *)
(* A file is the sequence of its lines. An entry is abstracted to its id,  *)
(* its parent and whether it is an assistant message or anything else; ids *)
(* are numbered in the order they are made.                                *)
(***************************************************************************)
EXTENDS Selection, FiniteSets

CONSTANTS
  Managers,    \* SessionManagers
  Files,       \* session file paths
  OldFiles,    \* the files an earlier version of the program left
  MaxEntries,  \* bounds how many entries are made
  Tears,       \* whether a process may die in the middle of a write
  Failing,     \* the files to open or write which may fail
  NoFile       \* the manager is not open

ASSUME StoreAssumption ==
  /\ OldFiles \subseteq Files
  /\ MaxEntries \in Nat /\ (OldFiles # {} => MaxEntries >= 2)
  /\ Failing \subseteq Files
  /\ Tears \in BOOLEAN
  /\ NoFile \notin Files

Ids == 1..MaxEntries
NoId == 0
Kinds == {"assistant", "other"}
Headers == {"header", "oldHeader"}
Unparsed == {"blank", "junk"}

Line == [kind : Kinds \cup Headers \cup Unparsed, id : Ids \cup {NoId},
         parent : Ids \cup {NoId}]

Entry(kind, id, parent) == [kind |-> kind, id |-> id, parent |-> parent]
Bare(kind) == Entry(kind, NoId, NoId)

VARIABLES
  disk,     \* the lines of each file, none if there is no file
  ragged,   \* the files whose last line lacks its newline
  hurt,     \* files ever so, or old, or a write to which failed: for the properties
  made,     \* how many entries have been made
  path,     \* SessionManager::session_file
  buffer,   \* SessionManager::file_entries
  leaf,     \* SessionManager::leaf_id
  flushed   \* SessionManager::flushed

fileVars == <<disk, ragged, hurt>>
managerVars == <<path, buffer, leaf, flushed>>
storeVars == <<fileVars, made, managerVars>>

Unused(f) == disk[f] = <<>> /\ \A m \in Managers : path[m] # f

IsEntry(line) == line.kind \in Kinds
EntriesOf(lines) == Picked(lines, {i \in DOMAIN lines : IsEntry(lines[i])})
EntrySet(lines) == {lines[i] : i \in {j \in DOMAIN lines : IsEntry(lines[j])}}
IdsOf(lines) == {e.id : e \in EntrySet(lines)}
HasAssistant(lines) == \E e \in EntrySet(lines) : e.kind = "assistant"

\* The leaf after a load: the last entry.
LastId(lines) ==
  LET entries == EntriesOf(lines)
  IN IF entries = <<>> THEN NoId ELSE entries[Len(entries)].id

Parses(line) == line.kind \notin Unparsed

ReadableStrict(lines) ==                                       \* (mutant)
  IF lines # <<>> /\ (\A i \in DOMAIN lines : Parses(lines[i]))
       /\ lines[1].kind \in Headers
  THEN lines ELSE <<>>
\* The first line that parses is a header.
Headed(lines) ==
  \E i \in DOMAIN lines : /\ lines[i].kind \in Headers
                         /\ \A j \in 1..i - 1 : ~Parses(lines[j])

\* load_entries_from_file: the lines that parse, if the first is a header.
Readable(lines) ==
  IF Headed(lines) THEN Picked(lines, {i \in DOMAIN lines : Parses(lines[i])})
                   ELSE <<>>

\* The entries among them; the set binds what is read, for TLC to read it once.
Loaded(lines) == UNION {EntrySet(read) : read \in {Readable(lines)}}

\* A file from before: a question and its answer.
OldConversation ==
  <<Bare("oldHeader"), Entry("other", 1, NoId), Entry("assistant", 2, 1)>>

StoreInit ==
  /\ disk = [f \in Files |-> IF f \in OldFiles THEN OldConversation ELSE <<>>]
  /\ ragged = {}
  /\ hurt = OldFiles
  /\ made = IF OldFiles = {} THEN 0 ELSE 2
  /\ path = [m \in Managers |-> NoFile]
  /\ buffer = [m \in Managers |-> <<>>]
  /\ leaf = [m \in Managers |-> NoId]
  /\ flushed = [m \in Managers |-> FALSE]

----------------------------------------------------------------------------
(* Opening.                                                                *)

Hold(m, f, lines, onDisk) ==
  /\ path' = [path EXCEPT ![m] = f]
  /\ buffer' = [buffer EXCEPT ![m] = lines]
  /\ leaf' = [leaf EXCEPT ![m] = LastId(lines)]
  /\ flushed' = [flushed EXCEPT ![m] = onDisk]

\* new_session: a header in memory and the name of a file to be.
Create(m) ==
  /\ \E f \in Files : Unused(f) /\ Hold(m, f, <<Bare("header")>>, FALSE)
  /\ UNCHANGED <<fileVars, made>>

\* _rewrite_file: the buffer replaces the file, or a warning says that it
\* could not; no entries leave a newline.
Rewrite(f, lines) ==
  \/ /\ disk' = [disk EXCEPT ![f] = IF lines = <<>> THEN <<Bare("blank")>> ELSE lines]
     /\ ragged' = ragged \ {f}
     /\ UNCHANGED hurt
  \/ /\ f \in Failing
     /\ hurt' = hurt \cup {f}
     /\ UNCHANGED <<disk, ragged>>

\* set_session_file on a file a load of which returns nothing.
OpenUnreadable(m, f) ==
  /\ disk[f] # <<>> /\ Readable(disk[f]) = <<>>
  /\ Rewrite(f, <<Bare("header")>>)
  /\ Hold(m, f, <<Bare("header")>>, TRUE)
  /\ UNCHANGED made

CurrentVersion(lines) == \A i \in DOMAIN lines : lines[i].kind # "oldHeader"

\* set_session_file on a file of this version.
OpenCurrent(m, f) ==
  /\ Readable(disk[f]) # <<>> /\ CurrentVersion(Readable(disk[f]))
  /\ Hold(m, f, Readable(disk[f]), TRUE)
  /\ UNCHANGED <<fileVars, made>>

\* migrate_to_current_version, on the entries of a version 2 file.
Migrated(lines) ==
  [i \in DOMAIN lines |-> IF lines[i].kind \in Headers THEN Bare("header")
                                                       ELSE lines[i]]

\* set_session_file on an older file: the file is rewritten from the new
\* manager's buffer, which the migrated entries enter after that.
OpenOld(m, f) ==
  /\ Readable(disk[f]) # <<>> /\ ~CurrentVersion(Readable(disk[f]))
  /\ Rewrite(f, <<>>)
  /\ Hold(m, f, Migrated(Readable(disk[f])), TRUE)
  /\ UNCHANGED made

----------------------------------------------------------------------------
(* Appending.                                                              *)

\* Appended lines begin after the last newline.
Joined(f, lines) ==
  IF f \notin ragged THEN disk[f] \o lines
  ELSE SubSeq(disk[f], 1, Len(disk[f]) - 1) \o <<Bare("junk")>> \o Tail(lines)

\* What _persist writes of a buffer that ends with the entry to persist.
UnwrittenLast(m, lines) == <<lines[Len(lines)]>>               \* (mutant)
Unwritten(m, lines) ==
  IF flushed[m] THEN <<lines[Len(lines)]>> ELSE lines

\* The deferred flush: nothing is written before an assistant message.
Flushes(lines) == HasAssistant(lines)

NewIdLocal(m) ==                                               \* (mutant)
  1 + Cardinality(IdsOf(buffer[m]))
\* A fresh uuid.
NewId(m) == made + 1

Ends == {"newline", "unended", "part"}

\* What a write that goes wrong leaves: these lines, and after them the
\* newline of the last, or not that, or a part of another line. A line spoilt
\* before the end counts as left out, for neither is read.
Torn(f, lines, kept, end) ==
  LET written == Picked(lines, kept) \o (IF end = "part" THEN <<Bare("junk")>> ELSE <<>>)
  IN /\ written # <<>>
     /\ disk' = [disk EXCEPT ![f] = Joined(f, written)]
     /\ ragged' = IF end = "newline" THEN ragged \ {f} ELSE ragged \cup {f}

\* The file takes the lines.
Writes(m, lines) ==
  /\ disk' = [disk EXCEPT ![path[m]] = Joined(path[m], lines)]
  /\ ragged' = ragged \ {path[m]}
  /\ flushed' = [flushed EXCEPT ![m] = TRUE]
  /\ UNCHANGED hurt

\* The file cannot be opened: a warning, and what was to be written before
\* is to be written again, but not the last entry of a file written already.
CannotOpen(m) ==
  /\ path[m] \in Failing
  /\ hurt' = hurt \cup {path[m]}
  /\ UNCHANGED <<disk, ragged, flushed>>

\* The results of writeln! and of the BufWriter's last flush are dropped.
CannotWrite(m, lines) ==
  /\ path[m] \in Failing
  /\ hurt' = hurt \cup {path[m]}
  /\ flushed' = [flushed EXCEPT ![m] = TRUE]
  /\ \/ UNCHANGED <<disk, ragged>>
     \/ \E kept \in SUBSET DOMAIN lines, end \in Ends : Torn(path[m], lines, kept, end)

\* _persist of a buffer that ends with the entry to persist.
Persist(m, lines) ==
  IF ~Flushes(lines)
  THEN flushed' = [flushed EXCEPT ![m] = FALSE] /\ UNCHANGED fileVars
  ELSE \/ Writes(m, Unwritten(m, lines))
       \/ CannotOpen(m)
       \/ CannotWrite(m, Unwritten(m, lines))

\* _append_entry.
AppendEntry(m, kind, parent) ==
  LET lines == Append(buffer[m], Entry(kind, NewId(m), parent))
  IN /\ path[m] # NoFile /\ made < MaxEntries
     /\ made' = made + 1
     /\ buffer' = [buffer EXCEPT ![m] = lines]
     /\ leaf' = [leaf EXCEPT ![m] = NewId(m)]
     /\ Persist(m, lines)
     /\ UNCHANGED path

\* append_message and the operations that append a model change, a thinking
\* level, a compaction summary, a label, a name or a custom entry.
AppendMessage(m) == \E kind \in Kinds : AppendEntry(m, kind, leaf[m])

BranchUnchecked(m) ==                                          \* (mutant)
  /\ path[m] # NoFile
  /\ \E id \in Ids \cup {NoId} : leaf' = [leaf EXCEPT ![m] = id]
  /\ UNCHANGED <<fileVars, made, path, buffer, flushed>>
\* branch, set_leaf_from_entry and reset_leaf.
Branch(m) ==
  /\ \E id \in IdsOf(buffer[m]) \cup {NoId} : leaf' = [leaf EXCEPT ![m] = id]
  /\ UNCHANGED <<fileVars, made, path, buffer, flushed>>

BranchWithSummary(m) ==
  \E id \in IdsOf(buffer[m]) \cup {NoId} : AppendEntry(m, "other", id)

\* The process dies while it appends: some of the lines are written, and
\* maybe a part of the next.
Crash(m) ==
  /\ Tears /\ path[m] # NoFile /\ made < MaxEntries
  /\ \E kind \in Kinds :
       LET lines == Append(buffer[m], Entry(kind, NewId(m), leaf[m]))
           unwritten == Unwritten(m, lines)
       IN /\ Flushes(lines)
          /\ \E whole \in 0..Len(unwritten), end \in Ends :
               /\ whole = Len(unwritten) => end = "unended"
               /\ Torn(path[m], unwritten, 1..whole, end)
  /\ hurt' = hurt \cup ragged'
  /\ made' = made + 1
  /\ path' = [n \in Managers |-> NoFile]
  /\ buffer' = [n \in Managers |-> <<>>]
  /\ leaf' = [n \in Managers |-> NoId]
  /\ flushed' = [n \in Managers |-> FALSE]

----------------------------------------------------------------------------
(* Forking.                                                                *)

\* A file is made of these entries and opened.
Materialize(m, f, entries) ==
  LET lines == <<Bare("header")>> \o entries
  IN /\ Unused(f)
     /\ disk' = [disk EXCEPT ![f] = lines]
     /\ Hold(m, f, lines, TRUE)
     /\ UNCHANGED <<ragged, hurt, made>>

\* fork_from: all the entries of a file.
ForkFrom(m) ==
  \E source, f \in Files :
    /\ Readable(disk[source]) # <<>>
    /\ Materialize(m, f, EntriesOf(Readable(disk[source])))

Rooted(entry) == Entry(entry.kind, entry.id, NoId)

\* The entries from the first with this id on; that id becomes a root.
Forked(entries, id) ==
  LET first == CHOOSE i \in DOMAIN entries :
                 entries[i].id = id /\ \A j \in 1..i - 1 : entries[j].id # id
  IN [i \in 1..Len(entries) - first + 1 |->
        IF entries[first + i - 1].id = id THEN Rooted(entries[first + i - 1])
                                          ELSE entries[first + i - 1]]

\* branch_from_entry, from what the manager's file holds.
BranchFromEntry(m) ==
  /\ path[m] # NoFile
  /\ LET entries == EntriesOf(Readable(disk[path[m]]))
     IN \E id \in IdsOf(entries), f \in Files :
          Materialize(m, f, Forked(entries, id))

----------------------------------------------------------------------------
ManagerNext(m) ==
  \/ Create(m)
  \/ \E f \in Files : OpenUnreadable(m, f) \/ OpenCurrent(m, f) \/ OpenOld(m, f)
  \/ AppendMessage(m)
  \/ Branch(m)
  \/ BranchWithSummary(m)
  \/ Crash(m)
  \/ ForkFrom(m)
  \/ BranchFromEntry(m)

StoreNext == \E m \in Managers : ManagerNext(m)

StoreSpec == StoreInit /\ [][StoreNext]_storeVars

----------------------------------------------------------------------------
(* Properties.                                                             *)

\* Every variable has its type, and the leaf, which the next entry hangs
\* from, is an entry of the manager.
StoreTypeOK ==
  /\ disk \in [Files -> Seq(Line)]
  /\ ragged \in SUBSET Files /\ hurt \in SUBSET Files
  /\ made \in 0..MaxEntries
  /\ path \in [Managers -> Files \cup {NoFile}]
  /\ buffer \in [Managers -> Seq(Line)]
  /\ leaf \in [Managers -> Ids \cup {NoId}]
  /\ flushed \in [Managers -> BOOLEAN]
  /\ \A m \in Managers : leaf[m] \in IdsOf(buffer[m]) \cup {NoId}

\* Once a conversation has an answer everything in memory is in the file:
\* the deferred flush leaves no entry behind, on whatever way the manager
\* came by its file and however often it wrote before. Files that were torn
\* or migrated are excepted, and those a write to which failed, since
\* _persist and _rewrite_file tell nobody.
ConversationOnDisk ==
  \A m \in Managers :
    path[m] # NoFile /\ HasAssistant(buffer[m]) /\ path[m] \notin hurt =>
      EntrySet(buffer[m]) \subseteq Loaded(disk[path[m]])

\* "the same durability guarantees" (src/oxicode-cli/src/store/session.rs:1294):
\* what a manager takes for written is in the file. It is not, once an append
\* failed (no run checks this).
FlushedIsWritten ==
  \A m \in Managers : path[m] # NoFile /\ flushed[m] =>
    EntrySet(buffer[m]) \subseteq Loaded(disk[path[m]])

\* Lines of one file with the same id are the same entry: a file to which a
\* buffer was written twice, or that two managers write to, still holds one
\* tree (the index keeps the last line of an id).
OneTree ==
  \A f \in Files : \A e1, e2 \in EntrySet(disk[f]) : e1.id = e2.id => e1 = e2

Damaged == {f \in Files : f \in ragged \/ ~CurrentVersion(disk[f])}

Log == INSTANCE SessionLog WITH
  Entries <- [kind : Kinds, id : Ids, parent : Ids \cup {NoId}],
  log <- [f \in Files |-> Loaded(disk[f])],
  damaged <- Damaged

\* No operation of any manager loses an entry of a file, unless a torn write
\* left the file without its last newline or its version is an old one.
ImplementsLog == Log!LogSpec

\* "append-only trees" (src/oxicode-cli/src/store/session.rs:881): whatever a
\* load of a file returned, a later load returns.
AppendOnly ==
  [][\A f \in Files : Loaded(disk[f]) \subseteq Loaded(disk'[f])]_storeVars
=============================================================================
