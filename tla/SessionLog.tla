----------------------------- MODULE SessionLog -----------------------------
(***************************************************************************)
(* What is left of the promise of SessionManager, that it "Manages         *)
(* conversation sessions as append-only trees stored in JSONL files"       *)
(* (oxicode-cli/src/store/session.rs), once files of an earlier version    *)
(* and torn writes are reckoned with: of each file only the set of entries *)
(* a load returns is seen, and none leaves it unless the file was damaged. *)
(***************************************************************************)
CONSTANTS Files, Entries

VARIABLES
  log,     \* the entries a load of each file returns
  damaged  \* the files that an operation may lose entries of

LogTypeOK ==
  /\ \A f \in Files : log[f] \subseteq Entries
  /\ damaged \subseteq Files

LogInit == LogTypeOK

\* One file changes: it gains entries, and may lose some if it was damaged.
Change(f) ==
  /\ \A g \in Files \ {f} : log'[g] = log[g]
  /\ f \in damaged \/ log[f] \subseteq log'[f]

LogNext == LogTypeOK' /\ \E f \in Files : Change(f)

LogSpec == LogInit /\ [][LogNext]_<<log, damaged>>
=============================================================================
