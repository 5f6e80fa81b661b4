-------------------------- MODULE PersistenceProofs -------------------------
(***************************************************************************)
(* What reaches a session, for every number of sessions and messages, and  *)
(* what the issue store keeps of an issue and of the files that say which  *)
(* processes are alive, for every number of processes, tasks and writes.   *)
(***************************************************************************)
EXTENDS SessionPersistence, IssueStore, SequenceLemmas

----------------------------------------------------------------------------
(* The messages among the entries of a session.                            *)

\* The messages of a session are messages, of its entries, and no more.
LEMMA MessagesType ==
  ASSUME NEW Seen, NEW log \in Seq(Seen)
  PROVE  /\ MessagesOf(log) \in Seq(Seen \ {Change})
         /\ Len(MessagesOf(log)) <= Len(log)
         /\ Elements(MessagesOf(log)) \subseteq Elements(log)
<1> DEFINE N == Len(log)
           K == {i \in DOMAIN log : IsMessage(log[i])}
<1>1. PICK f : Selects(f, log, K, N) /\ MessagesOf(log) = f[N]
  <2>1. MessagesOf(log) = Picked(log, K) /\ N \in Nat
    BY DEF MessagesOf
  <2> HIDE DEF K
  <2> QED BY <2>1, PickedSelects
<1> DEFINE Good(n, seq) == /\ seq \in Seq(Seen \ {Change}) /\ Len(seq) <= n
                           /\ \A i \in 1..Len(seq) : seq[i] \in Elements(log)
           S == {n \in 0..N : Good(n, f[n])}
<1>2. 0 \in S
  <2>1. f[0] = <<>>
    BY <1>1 DEF Selects
  <2>2. Good(0, <<>>)
    OBVIOUS
  <2> HIDE DEF Good
  <2> QED BY <2>1, <2>2
<1>3. ASSUME NEW n \in 0..N - 1, n \in S
      PROVE  n + 1 \in S
  <2>1. n + 1 \in 1..N /\ (n + 1) - 1 = n
    OBVIOUS
  <2>2. f[n + 1] = IF IsMessage(log[n + 1]) THEN Append(f[n], log[n + 1]) ELSE f[n]
    BY <1>1, <2>1 DEF Selects
  <2>3. log[n + 1] \in Seen /\ log[n + 1] \in Elements(log)
    BY <2>1 DEF Elements
  <2>4. Good(n, f[n])
    BY <1>3
  <2>5. Good(n + 1, f[n + 1])
    <3>1. CASE ~IsMessage(log[n + 1])
      BY <3>1, <2>2, <2>4
    <3>2. CASE IsMessage(log[n + 1])
      <4>1. log[n + 1] \in Seen \ {Change}
        BY <3>2, <2>3 DEF IsMessage
      <4> DEFINE e == log[n + 1]
                 seq == f[n]
      <4>2. f[n + 1] = Append(seq, e)
        BY <3>2, <2>2
      <4> HIDE DEF e, seq
      <4>3. Good(n, seq) /\ e \in Seen \ {Change} /\ e \in Elements(log)
        BY <2>4, <4>1, <2>3 DEF e, seq
      <4>4. /\ Append(seq, e) \in Seq(Seen \ {Change})
            /\ Len(Append(seq, e)) <= n + 1
            /\ \A i \in 1..Len(Append(seq, e)) : Append(seq, e)[i] \in Elements(log)
        BY <4>3
      <4> QED BY <4>2, <4>4
    <3> QED BY <3>1, <3>2
  <2> QED BY <2>1, <2>5
<1>4. \A n \in 0..N : n \in S
  <2> HIDE DEF S
  <2> QED BY <1>2, <1>3, Climb
<1>5. Good(N, f[N])
  BY <1>4
<1> QED BY <1>1, <1>5 DEF Elements

LEMMA MessagesNone == MessagesOf(<<>>) = <<>>
BY PickedNone DEF MessagesOf

\* A session grows by what is saved in it.
LEMMA MessagesAppend ==
  ASSUME NEW Seen, NEW log \in Seq(Seen), NEW e \in Seen
  PROVE  MessagesOf(Append(log, e))
           = IF IsMessage(e) THEN Append(MessagesOf(log), e) ELSE MessagesOf(log)
<1> DEFINE log2 == Append(log, e)
           K(seq) == {i \in DOMAIN seq : IsMessage(seq[i])}
<1>1. \A i \in 1..Len(log) : i \in K(log) <=> i \in K(log2)
  OBVIOUS
<1>2. Len(log) + 1 \in K(log2) <=> IsMessage(e)
  OBVIOUS
<1>3. Picked(log2, K(log2))
        = IF Len(log) + 1 \in K(log2) THEN Append(Picked(log, K(log)), e)
                                       ELSE Picked(log, K(log))
  <2> HIDE DEF K
  <2> QED BY <1>1, PickedAppend
<1> QED BY <1>2, <1>3 DEF MessagesOf

----------------------------------------------------------------------------
(* Sequences of messages.                                                  *)

\* What was a sequence of known messages stays one when there is one more.
LEMMA OneMore ==
  ASSUME NEW k \in Nat, NEW seq
  PROVE  /\ seq \in Seq(1..k) => seq \in Seq(1..k + 1)
         /\ seq \in Seq(0..k) => seq \in Seq(0..k + 1)
         /\ seq \in Seq(1..k) => seq \in Seq(0..k)
<1>1. 1..k \subseteq 1..k + 1 /\ 0..k \subseteq 0..k + 1 /\ 1..k \subseteq 0..k
  OBVIOUS
<1> QED BY <1>1, SeqMonotonic

LEMMA FromType ==
  ASSUME NEW S, NEW seq \in Seq(S), NEW i \in Nat \ {0}
  PROVE  /\ From(seq, i) \in Seq(S)
         /\ i > Len(seq) => From(seq, i) = <<>>
<1>1. \A j \in i..Len(seq) : seq[j] \in S
  OBVIOUS
<1> QED BY <1>1, SubSeqProperties, SubSeqEmpty DEF From

LEMMA CompactedType ==
  ASSUME NEW messages \in Seq(1..made), made \in Nat, NEW kept \in Compacted(messages)
  PROVE  kept \in Seq(1..made + 1)
<1>1. PICK i \in Nat \ {0} : kept = <<made + 1>> \o From(messages, i)
  <2>1. PICK i \in UNION {2..Len(messages) - keep + 1 : keep \in KeepRecent} :
          kept = <<made + 1>> \o From(messages, i)
    BY DEF Compacted, New
  <2>2. i \in Nat \ {0}
    <3>1. PICK keep \in KeepRecent : i \in 2..Len(messages) - keep + 1
      BY <2>1
    <3>2. keep \in Nat /\ Len(messages) \in Nat
      BY PersistenceAssumption
    <3> QED BY <3>1, <3>2
  <2> QED BY <2>1, <2>2
<1>2. From(messages, i) \in Seq(1..made + 1)
  BY OneMore, FromType
<1>3. <<made + 1>> \in Seq(1..made + 1)
  OBVIOUS
<1> QED BY <1>1, <1>2, <1>3, ConcatProperties

\* As many messages as a session was told, each once, are not more than its
\* entries.
LEMMA Counted ==
  ASSUME NEW K \in Nat, NEW messages \in Seq(1..K), NEW seq \in Seq(1..K),
         Elements(messages) \subseteq Elements(seq),
         \A i, j \in DOMAIN messages : i # j => messages[i] # messages[j]
  PROVE  Len(messages) <= Len(seq)
<1> DEFINE D == 1..Len(messages)
           E == 1..Len(seq)
           f == [i \in D |-> CHOOSE j \in E : seq[j] = messages[i]]
<1>1. DOMAIN messages = D /\ DOMAIN seq = E /\ Len(messages) \in Nat /\ Len(seq) \in Nat
  OBVIOUS
<1>2. ASSUME NEW i \in D
      PROVE  f[i] \in E /\ seq[f[i]] = messages[i]
  <2>1. messages[i] \in Elements(seq)
    BY <1>1 DEF Elements
  <2>2. \E j \in E : seq[j] = messages[i]
    BY <1>1, <2>1 DEF Elements
  <2> QED BY <2>2
<1>3. f \in Injection(D, E)
  <2>1. f \in [D -> E]
    BY <1>2
  <2>2. \A i, j \in D : f[i] = f[j] => i = j
    <3>1. \A i, j \in D : f[i] = f[j] => messages[i] = messages[j]
      BY <1>2
    <3> QED BY <1>1, <3>1
  <2> HIDE DEF f
  <2> QED BY <2>1, <2>2 DEF Injection, IsInjective
<1>0. 1 \in Int /\ Len(messages) \in Int /\ Len(seq) \in Int
  BY <1>1
<1>4. IsFiniteSet(E) /\ Cardinality(E) = Len(seq) /\ Cardinality(D) = Len(messages)
  <2>1. Cardinality(E) = IF 1 > Len(seq) THEN 0 ELSE Len(seq) - 1 + 1
    BY <1>0, FS_Interval
  <2>2. Cardinality(D) = IF 1 > Len(messages) THEN 0 ELSE Len(messages) - 1 + 1
    BY <1>0, FS_Interval
  <2>3. IsFiniteSet(E)
    BY <1>1, FS_Interval
  <2> QED BY <1>1, <2>1, <2>2, <2>3
<1>5. Cardinality(D) <= Cardinality(E)
  <2> HIDE DEF D, E, f
  <2> QED BY <1>3, <1>4, FS_Injection
<1> QED BY <1>4, <1>5

----------------------------------------------------------------------------
(* The inductive invariant.                                                *)

PlainOK ==
  /\ current \in Sessions \cup {NoSession} /\ opened \in SUBSET Sessions
  /\ streaming \in [Sessions -> BOOLEAN]
  /\ phase \in [Sessions -> {"idle", "starting", "running", "ending"}]
  /\ busy \in Sessions \cup {NoSession}
  /\ made \in 0..MaxMessages /\ answers \in SUBSET Messages
  /\ changed \in 0..MaxChanges /\ strayed \in SUBSET Sessions
  /\ gone \in BOOLEAN /\ deaf \in SUBSET Sessions

\* Every message there is has been made.
Known ==
  /\ entries \in [Sessions -> Seq(0..made)]
  /\ asked \in [Sessions -> 0..made]
  /\ outbox \in [Sessions -> Seq(1..made)]
  /\ told \in [Sessions -> Seq(1..made)] /\ unheard \in [Sessions -> SUBSET (1..made)]
  /\ history \in Seq(1..made) /\ loop \in Seq(1..made) /\ snapshot \in Seq(1..made)

\* What the phase of a session's run says of the rest of it.
PhaseOf(s) ==
  /\ phase[s] \in {"idle", "starting"} \/ s \in deaf => outbox[s] = <<>>
  /\ phase[s] # "idle" => s \in opened
  /\ phase[s] # "idle" => streaming[s]
  /\ phase[s] = "starting" => asked[s] # 0
  /\ phase[s] = "running" <=> busy = s

Phases ==
  /\ \A s \in Sessions : PhaseOf(s)
  /\ current \in opened \cup {NoSession}
  /\ snapshot # <<>> => current \in Sessions

PersistInv == PlainOK /\ Known /\ Phases /\ SavedOnceInOrder /\ NothingLost

LEMMA KnownTyped ==
  ASSUME PlainOK, Known, Phases
  PROVE  PersistTypeOK
<1>1. made \in Nat /\ 1..made \subseteq Messages /\ 0..made \subseteq Messages \cup {Change}
      /\ 0..made \subseteq Messages \cup {0}
  BY PersistenceAssumption DEF PlainOK, Messages, Change
<1>2. entries \in [Sessions -> Seq(Messages \cup {Change})]
  BY <1>1, SeqMonotonic DEF Known
<1>3. outbox \in [Sessions -> Seq(Messages)] /\ told \in [Sessions -> Seq(Messages)]
  BY <1>1, SeqMonotonic DEF Known
<1>4. history \in Seq(Messages) /\ loop \in Seq(Messages) /\ snapshot \in Seq(Messages)
  BY <1>1, SeqMonotonic DEF Known
<1>5. asked \in [Sessions -> Messages \cup {0}]
  BY <1>1 DEF Known
<1>6. \A s \in Sessions : phase[s] = "idle" \/ s \in deaf => outbox[s] = <<>>
  BY DEF Phases, PhaseOf
<1>7. unheard \in [Sessions -> SUBSET Messages]
  BY <1>1 DEF Known
<1> QED BY <1>2, <1>3, <1>4, <1>5, <1>6, <1>7 DEF PersistTypeOK, PlainOK

LEMMA InitInv == PersistInit => PersistInv
<1> SUFFICES ASSUME PersistInit PROVE PersistInv
  OBVIOUS
<1>1. PlainOK
  <2>1. streaming \in [Sessions -> BOOLEAN]
        /\ phase \in [Sessions -> {"idle", "starting", "running", "ending"}]
    BY DEF PersistInit
  <2>2. made \in 0..MaxMessages /\ changed \in 0..MaxChanges
    BY PersistenceAssumption DEF PersistInit
  <2>3. /\ current = NoSession /\ busy = NoSession /\ gone = FALSE
        /\ opened = {} /\ answers = {} /\ strayed = {} /\ deaf = {}
    BY DEF PersistInit
  <2> QED BY <2>1, <2>2, <2>3 DEF PlainOK
<1>1b. Phases
  <2>1. current = NoSession /\ busy = NoSession /\ snapshot = <<>> /\ deaf = {}
    BY DEF PersistInit
  <2>2. \A s \in Sessions : /\ outbox[s] = <<>> /\ phase[s] = "idle"
                            /\ busy # s
    BY PersistenceAssumption DEF PersistInit
  <2>3. \A s \in Sessions : PhaseOf(s)
    BY <2>2 DEF PhaseOf
  <2> QED BY <2>1, <2>3 DEF Phases
<1>1a. Known
  <2>1. made \in Nat /\ 0 \in 0..made
    BY DEF PersistInit
  <2>2. <<>> \in Seq(0..made) /\ <<>> \in Seq(1..made) /\ {} \in SUBSET (1..made)
    OBVIOUS
  <2> QED BY <2>1, <2>2 DEF PersistInit, Known
<1>2. SavedOnceInOrder
  <2>1. <<>> \o <<>> = <<>>
    OBVIOUS
  <2> QED BY <2>1, MessagesNone DEF PersistInit, SavedOnceInOrder
<1>3. NothingLost
  BY DEF PersistInit, NothingLost, Elements
<1> QED BY <1>1, <1>1a, <1>1b, <1>2, <1>3 DEF PersistInv

----------------------------------------------------------------------------
(* What the steps do to the plain variables and the phases.                *)

LEMMA PlainStep ==
  ASSUME PlainOK, Phases, [PersistNext]_persistVars
  PROVE  PlainOK'
<1> USE PersistenceAssumption DEF lineVars
<1>0. Make => made' \in 0..MaxMessages /\ New \in Messages
  BY DEF Make, New, PlainOK, Messages
<1>1. ASSUME NEW s \in Sessions, Swap(s) PROVE PlainOK'
  BY <1>1 DEF Swap, PlainOK, runVars
<1>2. ASSUME NEW s \in Sessions, Prompt(s) PROVE PlainOK'
  BY <1>0, <1>2 DEF Prompt, PlainOK, runVars
<1>3. ASSUME NEW s \in Sessions, PromptUnreadable(s) PROVE PlainOK'
  BY <1>3 DEF PromptUnreadable, PlainOK, runVars, ghostVars
<1>4. ASSUME NEW s \in Sessions, Enter(s) \/ Refused(s) PROVE PlainOK'
  BY <1>4 DEF Enter, Refused, PlainOK, runVars, ghostVars
<1>5. ASSUME NEW s \in Sessions, Finish(s) \/ Forward(s) PROVE PlainOK'
  BY <1>5 DEF Finish, Forward, PlainOK, runVars, ghostVars
<1>6. ASSUME NEW s \in Sessions, Settle(s) PROVE PlainOK'
  BY <1>6 DEF Settle, PersistSession, Lowered, PlainOK, runVars
<1>7. ASSUME NEW s \in Sessions, Say(s) \/ SayInVain(s) PROVE PlainOK'
  BY <1>0, <1>7 DEF Say, SayInVain, Emit, PlainOK, runVars
<1>8. ASSUME NEW s \in Sessions, Insert(s) \/ CompactLoop(s) PROVE PlainOK'
  BY <1>0, <1>8 DEF Insert, CompactLoop, PlainOK, ghostVars
<1>9. ASSUME ChangeSetting PROVE PlainOK'
  BY <1>9 DEF ChangeSetting, PlainOK, runVars, ghostVars
<1>10. ASSUME BeginCompact \/ FailCompact PROVE PlainOK'
  BY <1>10 DEF BeginCompact, FailCompact, PlainOK, runVars, ghostVars
<1>11. ASSUME EndCompact PROVE PlainOK'
  <2>1. current \in Sessions
    BY <1>11 DEF EndCompact, Phases
  <2> QED BY <1>0, <1>11, <2>1 DEF EndCompact, Replace, PersistSession, PlainOK, runVars
<1>12. ASSUME NEW s \in Sessions, Deafen(s) PROVE PlainOK'
  BY <1>12 DEF Deafen, PlainOK, runVars, ghostVars
<1>13. ASSUME UNCHANGED persistVars PROVE PlainOK'
  BY <1>13 DEF persistVars, PlainOK, runVars, ghostVars
<1> QED BY <1>1, <1>2, <1>3, <1>4, <1>5, <1>6, <1>7, <1>8, <1>9, <1>10, <1>11, <1>12,
           <1>13
        DEF PersistNext, SessionNext, Task

LEMMA PhasesStep ==
  ASSUME PlainOK, Known, Phases, [PersistNext]_persistVars
  PROVE  Phases'
<1> USE PersistenceAssumption DEF lineVars, PlainOK, Phases, PhaseOf
<1>1. ASSUME NEW s \in Sessions, Swap(s) PROVE Phases'
  BY <1>1 DEF Swap, Commanded, runVars
<1>2. ASSUME NEW s \in Sessions, Prompt(s) PROVE Phases'
  BY SMTT(30), <1>2 DEF Prompt, Known, New, runVars
<1>3. ASSUME NEW s \in Sessions, PromptUnreadable(s) PROVE Phases'
  BY <1>3 DEF PromptUnreadable, runVars, ghostVars
<1>4. ASSUME NEW s \in Sessions, Enter(s) PROVE Phases'
  BY <1>4 DEF Enter, Admits, ghostVars
<1>5. ASSUME NEW s \in Sessions, Refused(s) PROVE Phases'
  BY <1>5 DEF Refused, Admits, runVars, ghostVars
<1>6. ASSUME NEW s \in Sessions, Finish(s) PROVE Phases'
  BY <1>6 DEF Finish, ghostVars
<1>7. ASSUME NEW s \in Sessions, Forward(s) PROVE Phases'
  BY <1>7 DEF Forward, Known, runVars, ghostVars
<1>8. ASSUME NEW s \in Sessions, Settle(s) PROVE Phases'
  BY <1>8 DEF Settle, Lowered, Forwarded, runVars
<1>9. ASSUME NEW s \in Sessions, Say(s) PROVE Phases'
  BY <1>9 DEF Say, Emit, Known
<1>10. ASSUME NEW s \in Sessions, SayInVain(s) PROVE Phases'
  BY <1>10 DEF SayInVain, Emit, Known, runVars
<1>11. ASSUME NEW s \in Sessions, Insert(s) \/ CompactLoop(s) PROVE Phases'
  BY <1>11 DEF Insert, CompactLoop, ghostVars
<1>12. ASSUME ChangeSetting PROVE Phases'
  BY <1>12 DEF ChangeSetting, runVars, ghostVars
<1>13. ASSUME BeginCompact \/ FailCompact \/ EndCompact PROVE Phases'
  BY <1>13 DEF BeginCompact, FailCompact, EndCompact, runVars, ghostVars
<1>14. ASSUME NEW s \in Sessions, Deafen(s) PROVE Phases'
  BY <1>14 DEF Deafen, Known, runVars, ghostVars
<1>15. ASSUME UNCHANGED persistVars PROVE Phases'
  BY <1>15 DEF persistVars, runVars, ghostVars
<1> QED BY <1>1, <1>2, <1>3, <1>4, <1>5, <1>6, <1>7, <1>8, <1>9, <1>10, <1>11, <1>12,
           <1>13, <1>14, <1>15
        DEF PersistNext, SessionNext, Task

LEMMA Grown ==
  ASSUME PlainOK, Known, made' = made \/ made' = made + 1
  PROVE  /\ entries \in [Sessions -> Seq(0..made')]
         /\ asked \in [Sessions -> 0..made']
         /\ outbox \in [Sessions -> Seq(1..made')]
         /\ told \in [Sessions -> Seq(1..made')]
         /\ unheard \in [Sessions -> SUBSET (1..made')]
         /\ history \in Seq(1..made') /\ loop \in Seq(1..made')
         /\ snapshot \in Seq(1..made')
<1>1. made \in Nat /\ 0..made \subseteq 0..made' /\ 1..made \subseteq 1..made'
  BY PersistenceAssumption DEF PlainOK
<1>2. \A seq : /\ seq \in Seq(0..made) => seq \in Seq(0..made')
               /\ seq \in Seq(1..made) => seq \in Seq(1..made')
  BY <1>1, SeqMonotonic
<1> QED BY <1>1, <1>2 DEF Known

\* Saving adds at the end.
LEMMA SavedType ==
  ASSUME NEW K \in Nat, NEW log \in Seq(0..K), NEW new \in Seq(1..K)
  PROVE  log \o new \in Seq(0..K)
<1>1. new \in Seq(0..K)
  BY OneMore
<1> QED BY <1>1, ConcatProperties

\* What a compaction ends with are messages made by then.
LEMMA ReplacedType ==
  ASSUME PlainOK, Known, EndCompact
  PROVE  \E kept \in Seq(1..made') : Replace(kept)
<1>1. made \in Nat /\ snapshot \in Seq(1..made)
  BY PersistenceAssumption DEF PlainOK, Known
<1>2. CASE Replace(snapshot) /\ UNCHANGED made
  BY <1>1, <1>2
<1>3. CASE Make /\ \E kept \in Compacted(snapshot) : Replace(kept)
  <2>1. PICK kept \in Compacted(snapshot) : Replace(kept)
    BY <1>3
  <2>2. kept \in Seq(1..made + 1)
    BY <1>1, CompactedType
  <2>3. made' = made + 1
    BY <1>3 DEF Make, New
  <2> QED BY <2>1, <2>2, <2>3
<1> QED BY <1>2, <1>3 DEF EndCompact

LEMMA KnownStep ==
  ASSUME PlainOK, Known, Phases, [PersistNext]_persistVars
  PROVE  Known'
<1> USE DEF lineVars
<1>0. made \in Nat /\ (Make => made' = made + 1 /\ New \in 1..made' /\ made' \in Nat)
  BY PersistenceAssumption DEF PlainOK, Make, New
<1>0a. \A e : \A K \in Nat : e \in 1..K => <<e>> \in Seq(1..K)
  OBVIOUS
<1>1. ASSUME NEW s \in Sessions, Swap(s) PROVE Known'
  <2>1. PICK kept \in Beginnings :
          /\ entries' = [entries EXCEPT ![s] = kept]
          /\ told' = [told EXCEPT ![s] = MessagesOf(kept)]
          /\ history' = IF MessagesOf(kept) = <<>> THEN history ELSE MessagesOf(kept)
    BY <1>1 DEF Swap
  <2>2. kept \in Seq(0..made)
    <3>1. CASE kept = <<>>
      BY <3>1
    <3>2. ASSUME NEW t \in opened, NEW i \in 1..MaxMessages + MaxChanges,
                 kept = From(entries[t], i)
          PROVE  kept \in Seq(0..made)
      <4>1. t \in Sessions
        BY DEF PlainOK
      <4>2. entries[t] \in Seq(0..made)
        BY <4>1 DEF Known
      <4>3. i \in Nat \ {0}
        BY PersistenceAssumption
      <4> QED BY <3>2, <4>2, <4>3, FromType
    <3> QED BY <2>1, <3>1, <3>2 DEF Beginnings
  <2>3. MessagesOf(kept) \in Seq(1..made)
    <3>1. (0..made) \ {Change} = 1..made
      BY <1>0 DEF Change
    <3>2. MessagesOf(kept) \in Seq((0..made) \ {Change})
      BY <2>2, MessagesType
    <3> QED BY <3>1, <3>2
  <2>4. made' = made /\ UNCHANGED <<asked, outbox, loop, snapshot, unheard>>
    BY <1>1 DEF Swap, runVars
  <2> QED BY <2>1, <2>2, <2>3, <2>4 DEF Known
<1>2. ASSUME NEW s \in Sessions, Prompt(s) PROVE Known'
  <2>1. entries[s] \o <<New>> \in Seq(0..made')
    BY <1>0, <1>0a, <1>2, Grown, SavedType DEF Prompt
  <2>2. Append(told[s], New) \in Seq(1..made')
    BY <1>0, <1>2, Grown DEF Prompt
  <2>3. UNCHANGED <<outbox, history, loop, snapshot>>
    BY <1>2 DEF Prompt, runVars
  <2>4. entries' \in [Sessions -> Seq(0..made')]
    BY <1>0, <1>2, <2>1, Grown DEF Prompt, Save
  <2>5. told' \in [Sessions -> Seq(1..made')]
    BY <1>0, <1>2, <2>2, Grown DEF Prompt
  <2>6. New \in 0..made'
    BY <1>0, <1>2 DEF Prompt
  <2>7. asked' \in [Sessions -> 0..made']
    BY <1>0, <1>2, <2>6, Grown DEF Prompt
  <2> QED BY <1>0, <1>2, <2>3, <2>4, <2>5, <2>7, Grown DEF Prompt, Known
<1>3. ASSUME NEW s \in Sessions, PromptUnreadable(s) PROVE Known'
  BY <1>3 DEF PromptUnreadable, Known, runVars, ghostVars
<1>4. ASSUME NEW s \in Sessions, Enter(s) PROVE Known'
  <2>1. asked[s] \in 1..made
    BY <1>0, <1>4 DEF Enter, Known, Phases, PhaseOf
  <2>2. Append(history, asked[s]) \in Seq(1..made)
    BY <2>1 DEF Known
  <2>3. 0 \in 0..made
    BY <1>0
  <2> QED BY <1>4, <2>2, <2>3 DEF Enter, Known, ghostVars
<1>5. ASSUME NEW s \in Sessions, Refused(s) PROVE Known'
  <2>1. 0 \in 0..made
    BY <1>0
  <2> QED BY <1>5, <2>1 DEF Refused, Known, runVars, ghostVars
<1>6. ASSUME NEW s \in Sessions, Finish(s) PROVE Known'
  BY <1>6 DEF Finish, Known, ghostVars
<1>7. ASSUME NEW s \in Sessions, Forward(s) PROVE Known'
  <2>1. Head(outbox[s]) \in 1..made /\ Tail(outbox[s]) \in Seq(1..made)
    BY <1>7, HeadTailProperties DEF Forward, Known
  <2>2. entries[s] \o <<Head(outbox[s])>> \in Seq(0..made)
    BY <1>0, <1>0a, <2>1, SavedType DEF Known
  <2> QED BY <1>7, <2>1, <2>2 DEF Forward, Save, Known, runVars, ghostVars
<1>8. ASSUME NEW s \in Sessions, Settle(s) PROVE Known'
  <2>1. Missing(s, history) \in Seq(1..made)
    BY FromType DEF Missing, Known
  <2>2. entries[s] \o Missing(s, history) \in Seq(0..made)
    BY <1>0, <2>1, SavedType DEF Known
  <2> QED BY <1>8, <2>2 DEF Settle, PersistSession, Save, Known, runVars
<1>9. ASSUME NEW s \in Sessions, Say(s) \/ SayInVain(s) PROVE Known'
  <2>1. Append(told[s], New) \in Seq(1..made') /\ Append(outbox[s], New) \in Seq(1..made')
        /\ Append(loop, New) \in Seq(1..made')
    BY <1>0, <1>9, Grown DEF Say, SayInVain, Emit
  <2>2. unheard[s] \cup {New} \subseteq 1..made'
    BY <1>0, <1>9, Grown DEF Say, SayInVain, Emit
  <2>3. outbox' \in [Sessions -> Seq(1..made')] /\ unheard' \in [Sessions -> SUBSET (1..made')]
    BY <1>0, <1>9, <2>1, <2>2, Grown DEF Say, SayInVain, Emit
  <2> QED BY <1>0, <1>9, <2>1, <2>3, Grown DEF Say, SayInVain, Emit, Known, runVars
<1>10. ASSUME NEW s \in Sessions, Insert(s) PROVE Known'
  <2>1. Append(loop, New) \in Seq(1..made')
    BY <1>0, <1>10, Grown DEF Insert
  <2> QED BY <1>0, <1>10, <2>1, Grown DEF Insert, Known, ghostVars
<1>11. ASSUME NEW s \in Sessions, CompactLoop(s) PROVE Known'
  <2>1. loop' \in Seq(1..made')
    BY <1>0, <1>11, CompactedType DEF CompactLoop, Known
  <2> QED BY <1>0, <1>11, <2>1, Grown DEF CompactLoop, Known, ghostVars
<1>12. ASSUME ChangeSetting PROVE Known'
  <2>1. <<Change>> \in Seq(0..made)
    BY <1>0 DEF Change
  <2>2. current \in Sessions /\ entries[current] \o <<Change>> \in Seq(0..made)
    BY <1>12, <2>1, ConcatProperties DEF ChangeSetting, PlainOK, Known
  <2> QED BY <1>12, <2>2 DEF ChangeSetting, Save, Known, runVars, ghostVars
<1>13. ASSUME BeginCompact \/ FailCompact PROVE Known'
  <2>1. <<>> \in Seq(1..made)
    OBVIOUS
  <2> QED BY <1>13, <2>1 DEF BeginCompact, FailCompact, Known, runVars, ghostVars
<1>14. ASSUME EndCompact PROVE Known'
  <2>1. PICK kept \in Seq(1..made') : Replace(kept)
    BY <1>14, ReplacedType
  <2>2. made' \in Nat /\ (made' = made \/ made' = made + 1)
    BY <1>0, <1>14 DEF EndCompact
  <2>3. current \in Sessions
    BY <1>14 DEF EndCompact, Phases
  <2>4. entries[current] \in Seq(0..made')
    BY <2>2, <2>3, Grown
  <2>5. Missing(current, kept) \in Seq(1..made')
    BY <2>4, FromType DEF Missing
  <2>6. entries[current] \o Missing(current, kept) \in Seq(0..made')
    BY <2>2, <2>4, <2>5, SavedType
  <2>7. entries' \in [Sessions -> Seq(0..made')]
    BY <2>1, <2>2, <2>6, Grown DEF Replace, PersistSession, Save
  <2>8. snapshot' \in Seq(1..made')
    BY <1>14 DEF EndCompact
  <2> QED BY <1>14, <2>1, <2>2, <2>7, <2>8, Grown DEF EndCompact, Replace, Known, runVars
<1>15. ASSUME NEW s \in Sessions, Deafen(s) PROVE Known'
  <2>1. <<>> \in Seq(1..made)
    OBVIOUS
  <2>2. Elements(outbox[s]) \subseteq 1..made
    <3>1. outbox[s] \in Seq(1..made)
      BY DEF Known
    <3>2. \A i \in DOMAIN outbox[s] : outbox[s][i] \in 1..made
      <4>1. DOMAIN outbox[s] = 1..Len(outbox[s])
        BY <3>1, LenProperties
      <4> QED BY <3>1, <4>1, ElementOfSeq
    <3> QED BY <3>2 DEF Elements
  <2> QED BY <1>15, <2>1, <2>2 DEF Deafen, Known, runVars, ghostVars
<1>16. ASSUME UNCHANGED persistVars PROVE Known'
  BY <1>16 DEF persistVars, Known, runVars, ghostVars
<1> QED BY <1>1, <1>2, <1>3, <1>4, <1>5, <1>6, <1>7, <1>8, <1>9, <1>10, <1>11, <1>12,
           <1>13, <1>14, <1>15, <1>16
        DEF PersistNext, SessionNext, Task

----------------------------------------------------------------------------
(* What is asked and said reaches the session.                             *)

LEMMA Joining ==
  ASSUME NEW S, NEW x \in Seq(S), NEW y \in Seq(S), NEW e \in S
  PROVE  /\ x \o <<e>> = Append(x, e)
         /\ x \o Append(y, e) = Append(x \o y, e)
         /\ y # <<>> => Append(x, Head(y)) \o Tail(y) = x \o y
<1>1. \A i \in S : x \o <<i>> = Append(x, i)
  OBVIOUS
<1>2. x \o Append(y, e) = Append(x \o y, e)
  OBVIOUS
<1>3. ASSUME y # <<>>
      PROVE  Append(x, Head(y)) \o Tail(y) = x \o y
  BY <1>3, HeadTailProperties
<1> QED BY <1>1, <1>2, <1>3

LEMMA MessagesKnown ==
  ASSUME NEW K \in Nat, NEW log \in Seq(0..K)
  PROVE  MessagesOf(log) \in Seq(1..K) /\ Len(MessagesOf(log)) <= Len(log)
<1>1. (0..K) \ {Change} = 1..K
  BY DEF Change
<1>2. MessagesOf(log) \in Seq((0..K) \ {Change}) /\ Len(MessagesOf(log)) <= Len(log)
  BY MessagesType
<1> QED BY <1>1, <1>2

\* One entry saved.
LEMMA SavedOne ==
  ASSUME NEW K \in Nat, NEW log \in Seq(0..K), NEW e \in 0..K
  PROVE  MessagesOf(log \o <<e>>)
           = IF e = 0 THEN MessagesOf(log) ELSE Append(MessagesOf(log), e)
<1>1. log \o <<e>> = Append(log, e)
  <2> DEFINE S == 0..K
  <2>1. log \in Seq(S) /\ e \in S
    OBVIOUS
  <2> HIDE DEF S
  <2> QED BY <2>1, Joining
<1> DEFINE S == 0..K
<1>2. log \in Seq(S) /\ e \in S
  OBVIOUS
<1> HIDE DEF S
<1>3. MessagesOf(Append(log, e)) = IF IsMessage(e) THEN Append(MessagesOf(log), e) ELSE MessagesOf(log)
  BY <1>2, MessagesAppend
<1> QED BY <1>1, <1>3 DEF IsMessage, Change

\* The fallback saves nothing in a session that has its messages: it has
\* at least as many entries as it was told, unless a forwarder ended early.
LEMMA FallbackIdle ==
  ASSUME NEW K \in Nat, NEW s \in Sessions, NEW t \in Sessions, NEW messages \in Seq(1..K),
         entries \in [Sessions -> Seq(0..K)], told \in [Sessions -> Seq(1..K)],
         SavedOnceInOrder, PersistSession(s, messages), t \notin strayed', unheard[t] = {}
  PROVE  entries'[t] = entries[t] /\ t \notin strayed
<1>1. t \notin strayed
  BY DEF PersistSession
<1>2. CASE s = t
  <2>1. Own(t, messages)
    BY <1>2 DEF PersistSession
  <2>2. MessagesOf(entries[t]) \in Seq(1..K) /\ Len(MessagesOf(entries[t])) <= Len(entries[t])
    BY MessagesKnown
  <2>3. told[t] = MessagesOf(entries[t])
    <3>1. MessagesOf(entries[t]) \o outbox[t] = told[t] /\ outbox[t] = <<>>
      BY <1>1, <2>1 DEF SavedOnceInOrder, Own
    <3> QED BY <2>2, <3>1, ConcatEmptySeq
  <2>4. Len(messages) <= Len(told[t])
    BY <2>1, Counted DEF Own
  <2>5. Len(entries[t]) + 1 > Len(messages) /\ Len(entries[t]) + 1 \in Nat \ {0}
    <3>1. entries[t] \in Seq(0..K)
      OBVIOUS
    <3>2. Len(entries[t]) \in Nat /\ Len(messages) \in Nat
      BY <3>1, LenProperties
    <3> QED BY <2>2, <2>3, <2>4, <3>2
  <2>6. Missing(t, messages) = <<>>
    BY <2>5, FromType DEF Missing
  <2>7. entries'[t] = entries[t] \o <<>>
    BY <1>2, <2>6 DEF PersistSession, Save
  <2>8. entries[t] \in Seq(0..K)
    OBVIOUS
  <2> QED BY <1>1, <2>7, <2>8, ConcatEmptySeq
<1>3. CASE s # t
  BY <1>1, <1>3 DEF PersistSession, Save
<1> QED BY <1>2, <1>3

\* What no forwarder came to stays so.
LEMMA UnheardGrows ==
  ASSUME Known, [PersistNext]_persistVars, NEW t \in Sessions
  PROVE  unheard[t] \subseteq unheard'[t]
<1>1. ASSUME NEW s \in Sessions, Say(s) \/ SayInVain(s) \/ Deafen(s)
      PROVE  unheard[t] \subseteq unheard'[t]
  BY <1>1 DEF Say, SayInVain, Emit, Deafen, Known
<1>2. CASE unheard' = unheard
  BY <1>2
<1> QED BY <1>1, <1>2
        DEF PersistNext, SessionNext, Task, Swap, Prompt, PromptUnreadable, Enter, Refused,
            Finish, Forward, Settle, Insert, CompactLoop, ChangeSetting, BeginCompact,
            EndCompact, FailCompact, lineVars, persistVars

LEMMA SavedStep ==
  ASSUME PlainOK, Known, Phases, SavedOnceInOrder, [PersistNext]_persistVars
  PROVE  SavedOnceInOrder'
<1> DEFINE Ordered(t) == MessagesOf(entries[t]) \o outbox[t] = told[t]
<1> SUFFICES ASSUME NEW t \in Sessions, t \notin strayed', unheard'[t] = {}
             PROVE  Ordered(t)'
  BY DEF SavedOnceInOrder
<1>z. unheard[t] = {}
  BY UnheardGrows
<1>a. (Make => made' = made + 1 /\ New \in 1..made' /\ New \in Nat) /\ made \in Nat
  BY PersistenceAssumption DEF PlainOK, Make, New
<1>b. entries[t] \in Seq(0..made) /\ outbox[t] \in Seq(1..made) /\ told[t] \in Seq(1..made)
  BY DEF Known
<1>c. t \notin strayed => Ordered(t)
  BY <1>z DEF SavedOnceInOrder
<1>d. made' = made + 1 => /\ entries[t] \in Seq(0..made') /\ outbox[t] \in Seq(1..made')
                          /\ told[t] \in Seq(1..made')
  BY Grown
<1>0. ASSUME UNCHANGED <<entries, outbox, told, strayed>>
      PROVE  Ordered(t)'
  BY <1>0, <1>c
<1>1. ASSUME NEW s \in Sessions, Swap(s) PROVE Ordered(t)'
  <2>1. Known'
    BY <1>1, KnownStep DEF PersistNext, SessionNext
  <2>2. UNCHANGED <<outbox, strayed>>
    BY <1>1 DEF Swap
  <2>3. CASE s = t
    <3>1. outbox[t] = <<>>
      BY <1>1, <2>3 DEF Swap, Phases, PhaseOf, PlainOK
    <3>2. told'[t] = MessagesOf(entries'[t])
      BY <1>1, <2>3 DEF Swap, Known
    <3>3. told'[t] \in Seq(1..made')
      BY <2>1 DEF Known
    <3> QED BY <2>2, <3>1, <3>2, <3>3, ConcatEmptySeq
  <2>4. CASE s # t
    <3>1. entries'[t] = entries[t] /\ told'[t] = told[t]
      BY <1>1, <2>4 DEF Swap, Known
    <3> QED BY <1>c, <2>2, <3>1
  <2> QED BY <2>3, <2>4
<1>2. ASSUME NEW s \in Sessions, Prompt(s) PROVE Ordered(t)'
  <2>1. UNCHANGED <<outbox, strayed>>
    BY <1>2 DEF Prompt
  <2>2. CASE s = t
    <3>1. outbox[t] = <<>>
      BY <1>2, <2>2 DEF Prompt, Phases, PhaseOf, PlainOK
    <3>2. MessagesOf(entries[t]) = told[t]
      <4>1. MessagesOf(entries[t]) \in Seq(1..made)
        BY <1>a, <1>b, MessagesKnown
      <4> QED BY <1>c, <2>1, <3>1, <4>1, ConcatEmptySeq
    <3>3. /\ entries'[t] = entries[t] \o <<New>>
          /\ told'[t] = Append(told[t], New)
      BY <1>2, <2>2 DEF Prompt, Save, Known
    <3>4. MessagesOf(entries'[t]) = told'[t]
      <4>1. New \in 0..made' /\ New # 0 /\ made' \in Nat
        BY <1>a, <1>2 DEF Prompt
      <4>2. entries[t] \in Seq(0..made')
        BY <1>a, <1>d, <1>2 DEF Prompt
      <4> QED BY <3>2, <3>3, <4>1, <4>2, SavedOne
    <3>5. told'[t] \in Seq(1..made')
      <4>1. Known'
        BY <1>2, KnownStep DEF PersistNext, SessionNext
      <4> QED BY <4>1 DEF Known
    <3> QED BY <2>1, <3>1, <3>4, <3>5, ConcatEmptySeq
  <2>3. CASE s # t
    <3>1. entries'[t] = entries[t] /\ told'[t] = told[t]
      BY <1>2, <2>3 DEF Prompt, Save, Known
    <3> QED BY <1>c, <2>1, <3>1
  <2> QED BY <2>2, <2>3
<1>3. ASSUME NEW s \in Sessions, Forward(s) PROVE Ordered(t)'
  <2>1. UNCHANGED <<told, strayed>>
    BY <1>3 DEF Forward, ghostVars
  <2>2. CASE s = t
    <3> DEFINE e == Head(outbox[t])
    <3>1. e \in 1..made /\ e \in 0..made /\ e # 0
      <4>1. e \in 1..made
        BY <1>b, <1>3, <2>2, HeadTailProperties DEF Forward
      <4> QED BY <1>a, <4>1
    <3>2. entries'[t] = entries[t] \o <<e>> /\ outbox'[t] = Tail(outbox[t]) /\ outbox[t] # <<>>
      BY <1>3, <2>2 DEF Forward, Save, Known
    <3> HIDE DEF e
    <3>3. /\ MessagesOf(entries[t]) \in Seq(1..made)
          /\ MessagesOf(entries'[t]) = Append(MessagesOf(entries[t]), e)
      BY <1>a, <1>b, <3>1, <3>2, SavedOne, MessagesKnown
    <3>4. Append(MessagesOf(entries[t]), e) \o Tail(outbox[t])
            = MessagesOf(entries[t]) \o outbox[t]
      <4> DEFINE x == MessagesOf(entries[t])
                 S == 1..made
      <4>1. x \in Seq(S) /\ outbox[t] \in Seq(S) /\ e \in S
        BY <1>b, <3>1, <3>3
      <4> HIDE DEF x, S
      <4>2. Append(x, Head(outbox[t])) \o Tail(outbox[t]) = x \o outbox[t]
        BY <3>2, <4>1, Joining
      <4> QED BY <4>2 DEF x, e
    <3> QED BY <1>c, <2>1, <3>2, <3>3, <3>4
  <2>3. CASE s # t
    <3>1. entries'[t] = entries[t] /\ outbox'[t] = outbox[t]
      BY <1>3, <2>3 DEF Forward, Save, Known
    <3> QED BY <1>c, <2>1, <3>1
  <2> QED BY <2>2, <2>3
<1>4. ASSUME NEW s \in Sessions, Say(s) \/ SayInVain(s) PROVE Ordered(t)'
  <2>1. UNCHANGED <<entries, strayed>>
    BY <1>4 DEF Say, SayInVain
  <2>2. CASE s = t
    <3>0. ASSUME t \in deaf PROVE FALSE
      <4>1. unheard'[t] = unheard[t] \cup {New}
        BY <1>4, <2>2, <3>0 DEF Say, SayInVain, Emit, Known
      <4> QED BY <4>1
    <3>1. outbox'[t] = Append(outbox[t], New) /\ told'[t] = Append(told[t], New)
      BY <1>4, <2>2, <3>0 DEF Say, SayInVain, Emit, Known
    <3>2. made' = made + 1 /\ New \in 1..made' /\ made' \in Nat
      BY <1>a, <1>4 DEF Say, SayInVain, Emit
    <3>3. MessagesOf(entries[t]) \in Seq(1..made')
      <4>1. entries[t] \in Seq(0..made')
        BY <1>d, <3>2
      <4> QED BY <3>2, <4>1, MessagesKnown
    <3>4. MessagesOf(entries[t]) \o Append(outbox[t], New)
            = Append(MessagesOf(entries[t]) \o outbox[t], New)
      <4> DEFINE x == MessagesOf(entries[t])
                 S == 1..made'
                 e == New
      <4>1. x \in Seq(S) /\ outbox[t] \in Seq(S) /\ e \in S
        BY <1>d, <3>2, <3>3
      <4> HIDE DEF x, S, e
      <4>2. x \o Append(outbox[t], e) = Append(x \o outbox[t], e)
        BY <4>1, Joining
      <4> QED BY <4>2 DEF x, e
    <3> QED BY <1>c, <2>1, <3>1, <3>4
  <2>3. CASE s # t
    <3>1. outbox'[t] = outbox[t] /\ told'[t] = told[t]
      BY <1>4, <2>3 DEF Say, SayInVain, Emit, Known
    <3> QED BY <1>c, <2>1, <3>1
  <2> QED BY <2>2, <2>3
<1>5. ASSUME NEW s \in Sessions, Settle(s) PROVE Ordered(t)'
  <2>1. UNCHANGED <<outbox, told>> /\ PersistSession(s, history)
    BY <1>5 DEF Settle
  <2>2. entries'[t] = entries[t] /\ t \notin strayed
    BY <1>a, <1>b, <1>z, <2>1, FallbackIdle DEF Known, SavedOnceInOrder
  <2> QED BY <1>c, <2>1, <2>2
<1>6. ASSUME ChangeSetting PROVE Ordered(t)'
  <2>1. UNCHANGED <<outbox, told, strayed>>
    BY <1>6 DEF ChangeSetting, ghostVars
  <2>2. CASE current = t
    <3>1. entries'[t] = entries[t] \o <<0>>
      BY <1>6, <2>2 DEF ChangeSetting, Save, Known, Change
    <3>2. 0 \in 0..made
      BY <1>a
    <3>3. MessagesOf(entries'[t]) = MessagesOf(entries[t])
      BY <1>a, <1>b, <3>1, <3>2, SavedOne
    <3> QED BY <1>c, <2>1, <3>3
  <2>3. CASE current # t
    <3>1. entries'[t] = entries[t]
      BY <1>6, <2>3 DEF ChangeSetting, Save, Known
    <3> QED BY <1>c, <2>1, <3>1
  <2> QED BY <2>2, <2>3
<1>7. ASSUME EndCompact PROVE Ordered(t)'
  <2>1. PICK kept \in Seq(1..made') : Replace(kept)
    BY <1>7, ReplacedType
  <2>2. /\ current \in Sessions /\ PersistSession(current, kept) /\ UNCHANGED <<outbox, told>>
        /\ made' \in Nat /\ (made' = made \/ made' = made + 1)
    BY <1>a, <1>7, <2>1 DEF EndCompact, Replace, Phases
  <2>3. entries'[t] = entries[t] /\ t \notin strayed
    BY <1>z, <2>2, Grown, FallbackIdle DEF SavedOnceInOrder
  <2> QED BY <1>c, <2>2, <2>3
<1>8. ASSUME NEW s \in Sessions,
             PromptUnreadable(s) \/ Enter(s) \/ Refused(s) \/ Finish(s) \/ Insert(s) \/ CompactLoop(s)
      PROVE  Ordered(t)'
  BY <1>0, <1>8
     DEF PromptUnreadable, Enter, Refused, Finish, Insert, CompactLoop, ghostVars
<1>9. ASSUME BeginCompact \/ FailCompact \/ UNCHANGED persistVars
      PROVE  Ordered(t)'
  BY <1>0, <1>9 DEF BeginCompact, FailCompact, persistVars, ghostVars
<1>10. ASSUME NEW s \in Sessions, Deafen(s) PROVE Ordered(t)'
  <2>1. UNCHANGED <<entries, told, strayed>>
    BY <1>10 DEF Deafen, ghostVars
  <2>2. CASE s = t
    <3>1. Elements(outbox[t]) = {} /\ outbox'[t] = <<>>
      BY <1>10, <2>2 DEF Deafen, Known
    <3>2. outbox[t] = <<>>
      <4>1. \A i \in DOMAIN outbox[t] : FALSE
        BY <3>1 DEF Elements
      <4>2. DOMAIN outbox[t] = 1..Len(outbox[t]) /\ Len(outbox[t]) \in Nat
        BY <1>b, LenProperties
      <4>3. Len(outbox[t]) = 0
        BY <4>1, <4>2
      <4> DEFINE y == outbox[t]
                 S == 1..made
      <4>4. y \in Seq(S) /\ Len(y) = 0
        BY <1>b, <4>3
      <4> HIDE DEF y, S
      <4>5. y = <<>>
        BY <4>4, EmptySeq
      <4> QED BY <4>5 DEF y
    <3> QED BY <1>c, <2>1, <3>1, <3>2
  <2>3. CASE s # t
    BY <1>10, <1>c, <2>1, <2>3 DEF Deafen, Known
  <2> QED BY <2>2, <2>3
<1> HIDE DEF Ordered
<1> QED BY <1>1, <1>2, <1>3, <1>4, <1>5, <1>6, <1>7, <1>8, <1>9, <1>10
        DEF PersistNext, SessionNext, Task

----------------------------------------------------------------------------
(* Nothing of it is lost.                                                  *)

LEMMA ElementsJoined ==
  ASSUME NEW S, NEW x \in Seq(S), NEW T, NEW y \in Seq(T)
  PROVE  /\ Elements(x) \cup Elements(y) \subseteq Elements(x \o y)
         /\ \A e : Elements(Append(x, e)) = Elements(x) \cup {e}
         /\ \A e : Elements(<<e>>) = {e}
         /\ y # <<>> => Elements(y) \subseteq {Head(y)} \cup Elements(Tail(y))
<1>1. ASSUME NEW e \in Elements(x) \cup Elements(y)
      PROVE  e \in Elements(x \o y)
  <2>1. x \in Seq(S \cup T) /\ y \in Seq(S \cup T)
    BY SeqMonotonic
  <2>2. /\ x \o y \in Seq(S \cup T) /\ Len(x \o y) = Len(x) + Len(y)
        /\ \A i \in 1..Len(x) + Len(y) : (x \o y)[i] = IF i <= Len(x) THEN x[i] ELSE y[i - Len(x)]
    BY <2>1, ConcatProperties
  <2>3. /\ DOMAIN x = 1..Len(x) /\ DOMAIN y = 1..Len(y) /\ DOMAIN (x \o y) = 1..Len(x \o y)
        /\ Len(x) \in Nat /\ Len(y) \in Nat
    BY <2>1, <2>2, LenProperties
  <2>4. CASE e \in Elements(x)
    <3>1. PICK i \in 1..Len(x) : e = x[i]
      BY <2>3, <2>4 DEF Elements
    <3>2. i \in 1..Len(x) + Len(y) /\ (x \o y)[i] = e
      BY <2>2, <2>3, <3>1
    <3> QED BY <2>2, <2>3, <3>2 DEF Elements
  <2>5. CASE e \in Elements(y)
    <3>1. PICK i \in 1..Len(y) : e = y[i]
      BY <2>3, <2>5 DEF Elements
    <3>2. Len(x) + i \in 1..Len(x) + Len(y) /\ (x \o y)[Len(x) + i] = e
      BY <2>2, <2>3, <3>1
    <3> QED BY <2>2, <2>3, <3>2 DEF Elements
  <2> QED BY <1>1, <2>4, <2>5
<1>2. ASSUME NEW e
      PROVE  Elements(Append(x, e)) = Elements(x) \cup {e} /\ Elements(<<e>>) = {e}
  <2>1. /\ Len(x) \in Nat /\ DOMAIN x = 1..Len(x)
        /\ DOMAIN Append(x, e) = 1..Len(x) + 1
        /\ \A i \in 1..Len(x) : Append(x, e)[i] = x[i]
        /\ Append(x, e)[Len(x) + 1] = e
    OBVIOUS
  <2>2. 1..Len(x) + 1 = (1..Len(x)) \cup {Len(x) + 1}
    BY <2>1
  <2>3. Elements(Append(x, e)) = {Append(x, e)[i] : i \in 1..Len(x)} \cup {e}
    BY <2>1, <2>2 DEF Elements
  <2>4. {Append(x, e)[i] : i \in 1..Len(x)} = Elements(x)
    BY <2>1 DEF Elements
  <2>5. Elements(<<e>>) = {e}
    <3>1. DOMAIN <<e>> = {1} /\ <<e>>[1] = e
      OBVIOUS
    <3> QED BY <3>1 DEF Elements
  <2> QED BY <2>3, <2>4, <2>5
<1>3. ASSUME y # <<>>, NEW e \in Elements(y), e # Head(y)
      PROVE  e \in Elements(Tail(y))
  <2>1. /\ Tail(y) \in Seq(T) /\ Len(Tail(y)) = Len(y) - 1 /\ Len(y) \in Nat
        /\ \A i \in 1..Len(Tail(y)) : Tail(y)[i] = y[i + 1]
    BY <1>3, HeadTailProperties
  <2>2. PICK i \in 1..Len(y) : e = y[i]
    BY DEF Elements
  <2>3. i # 1
    BY <1>3, <2>2
  <2>4. i - 1 \in 1..Len(Tail(y)) /\ Tail(y)[i - 1] = e
    BY <2>1, <2>2, <2>3
  <2>5. i - 1 \in DOMAIN Tail(y)
    BY <2>1, <2>4, LenProperties
  <2> QED BY <2>4, <2>5 DEF Elements
<1> QED BY <1>1, <1>2, <1>3

LEMMA LostStep ==
  ASSUME PlainOK, Known, Phases, NothingLost, [PersistNext]_persistVars
  PROVE  NothingLost'
<1> DEFINE Held(t) == Elements(told[t])
                        \subseteq Elements(entries[t]) \cup Elements(outbox[t]) \cup unheard[t]
<1> USE DEF lineVars
<1> SUFFICES ASSUME NEW t \in Sessions
             PROVE  Held(t)'
  BY DEF NothingLost
<1>a. Held(t)
  BY DEF NothingLost
<1>b. /\ entries[t] \in Seq(0..made) /\ outbox[t] \in Seq(1..made) /\ told[t] \in Seq(1..made)
      /\ made \in Nat
  BY PersistenceAssumption DEF Known, PlainOK
<1>0. ASSUME UNCHANGED <<outbox, told, unheard>>,
             Elements(entries[t]) \subseteq Elements(entries'[t])
      PROVE  Held(t)'
  BY <1>0, <1>a
<1>0a. ASSUME NEW s \in Sessions, NEW T, NEW new \in Seq(T), Save(s, new)
       PROVE  /\ Elements(entries[t]) \subseteq Elements(entries'[t])
              /\ s = t => Elements(new) \subseteq Elements(entries'[t])
  <2>1. entries'[t] = IF s = t THEN entries[t] \o new ELSE entries[t]
    BY <1>0a DEF Save, Known
  <2> QED BY <1>b, <1>0a, <2>1, ElementsJoined
<1>1. ASSUME NEW s \in Sessions, Swap(s) PROVE Held(t)'
  <2>1. CASE s = t
    <3>1. told'[t] = MessagesOf(entries'[t])
      BY <1>1, <2>1 DEF Swap, Known
    <3>2. entries'[t] \in Seq(0..made')
      <4>1. Known'
        BY <1>1, KnownStep DEF PersistNext, SessionNext
      <4> QED BY <4>1 DEF Known
    <3>3. Elements(told'[t]) \subseteq Elements(entries'[t])
      BY <3>1, <3>2, MessagesType
    <3> QED BY <3>3
  <2>2. CASE s # t
    <3>1. entries'[t] = entries[t] /\ told'[t] = told[t] /\ UNCHANGED <<outbox, unheard>>
      BY <1>1, <2>2 DEF Swap, Known
    <3> QED BY <1>a, <3>1
  <2> QED BY <2>1, <2>2
<1>2. ASSUME NEW s \in Sessions, Prompt(s) PROVE Held(t)'
  <2>1. <<New>> \in Seq({New}) /\ Save(s, <<New>>) /\ UNCHANGED <<outbox, unheard>>
    BY <1>2 DEF Prompt
  <2>2. told'[t] = IF s = t THEN Append(told[t], New) ELSE told[t]
    BY <1>2 DEF Prompt, Known
  <2>3. Elements(told'[t]) \subseteq Elements(told[t]) \cup (IF s = t THEN Elements(<<New>>) ELSE {})
    BY <1>b, <2>2, ElementsJoined
  <2> QED BY <1>a, <1>0a, <2>1, <2>3
<1>3. ASSUME NEW s \in Sessions, Forward(s) PROVE Held(t)'
  <2>1. /\ <<Head(outbox[s])>> \in Seq({Head(outbox[s])}) /\ Save(s, <<Head(outbox[s])>>)
        /\ UNCHANGED <<told, unheard>>
    BY <1>3 DEF Forward, ghostVars
  <2>2. CASE s = t
    <3>1. outbox'[t] = Tail(outbox[t]) /\ outbox[t] # <<>>
      BY <1>3, <2>2 DEF Forward, Known
    <3>2. Elements(outbox[t]) \subseteq {Head(outbox[t])} \cup Elements(outbox'[t])
      BY <1>b, <3>1, ElementsJoined
    <3>3. Head(outbox[t]) \in Elements(entries'[t])
      <4>1. Elements(<<Head(outbox[s])>>) = {Head(outbox[s])}
        BY <1>b, ElementsJoined
      <4> QED BY <1>0a, <2>1, <2>2, <4>1
    <3> QED BY <1>a, <1>0a, <2>1, <3>2, <3>3
  <2>3. CASE s # t
    <3>1. outbox'[t] = outbox[t]
      BY <1>3, <2>3 DEF Forward, Known
    <3> QED BY <1>a, <1>0a, <2>1, <3>1
  <2> QED BY <2>2, <2>3
<1>4. ASSUME NEW s \in Sessions, Say(s) \/ SayInVain(s) PROVE Held(t)'
  <2>1. UNCHANGED entries
    BY <1>4 DEF Say, SayInVain
  <2>2. CASE s = t
    <3>1. told'[t] = Append(told[t], New)
      BY <1>4, <2>2 DEF Say, SayInVain, Emit, Known
    <3>2. Elements(told'[t]) = Elements(told[t]) \cup {New}
      BY <1>b, <3>1, ElementsJoined
    <3>3. CASE t \in deaf
      <4>1. outbox'[t] = outbox[t] /\ unheard'[t] = unheard[t] \cup {New}
        BY <1>4, <2>2, <3>3 DEF Say, SayInVain, Emit, Known
      <4> QED BY <1>a, <2>1, <3>2, <4>1
    <3>4. CASE t \notin deaf
      <4>1. outbox'[t] = Append(outbox[t], New) /\ unheard'[t] = unheard[t]
        BY <1>4, <2>2, <3>4 DEF Say, SayInVain, Emit, Known
      <4>2. Elements(outbox'[t]) = Elements(outbox[t]) \cup {New}
        BY <1>b, <4>1, ElementsJoined
      <4> QED BY <1>a, <2>1, <3>2, <4>1, <4>2
    <3> QED BY <3>3, <3>4
  <2>3. CASE s # t
    <3>1. outbox'[t] = outbox[t] /\ told'[t] = told[t] /\ unheard'[t] = unheard[t]
      BY <1>4, <2>3 DEF Say, SayInVain, Emit, Known
    <3> QED BY <1>a, <2>1, <3>1
  <2> QED BY <2>2, <2>3
<1>5. ASSUME NEW s \in Sessions, Settle(s) PROVE Held(t)'
  <2>1. Save(s, Missing(s, history)) /\ UNCHANGED <<outbox, told, unheard>>
    BY <1>5 DEF Settle, PersistSession
  <2>2. Missing(s, history) \in Seq(1..made)
    BY FromType DEF Missing, Known
  <2> QED BY <1>0, <1>0a, <2>1, <2>2
<1>6. ASSUME ChangeSetting PROVE Held(t)'
  <2>1. /\ current \in Sessions /\ <<Change>> \in Seq({Change}) /\ Save(current, <<Change>>)
        /\ UNCHANGED <<outbox, told, unheard>>
    BY <1>6 DEF ChangeSetting, ghostVars, PlainOK
  <2> QED BY <1>0, <1>0a, <2>1
<1>7. ASSUME EndCompact PROVE Held(t)'
  <2>1. PICK kept \in Seq(1..made') : Replace(kept)
    BY <1>7, ReplacedType
  <2>2. /\ current \in Sessions /\ Save(current, Missing(current, kept))
        /\ UNCHANGED <<outbox, told, unheard>>
    BY <1>7, <2>1 DEF EndCompact, Replace, PersistSession, Phases
  <2>3. Missing(current, kept) \in Seq(1..made')
    BY <2>2, FromType DEF Missing, Known
  <2> QED BY <1>0, <1>0a, <2>2, <2>3
<1>8. ASSUME NEW s \in Sessions,
             PromptUnreadable(s) \/ Enter(s) \/ Refused(s) \/ Finish(s) \/ Insert(s) \/ CompactLoop(s)
      PROVE  Held(t)'
  BY <1>0, <1>8
     DEF PromptUnreadable, Enter, Refused, Finish, Insert, CompactLoop, ghostVars
<1>9. ASSUME BeginCompact \/ FailCompact \/ UNCHANGED persistVars
      PROVE  Held(t)'
  BY <1>0, <1>9 DEF BeginCompact, FailCompact, persistVars, ghostVars
<1>10. ASSUME NEW s \in Sessions, Deafen(s) PROVE Held(t)'
  <2>1. UNCHANGED <<entries, told>>
    BY <1>10 DEF Deafen, ghostVars
  <2>2. CASE s = t
    <3>1. unheard'[t] = unheard[t] \cup Elements(outbox[t])
      BY <1>10, <2>2 DEF Deafen, Known
    <3> QED BY <1>a, <2>1, <3>1
  <2>3. CASE s # t
    <3>1. unheard'[t] = unheard[t] /\ outbox'[t] = outbox[t]
      BY <1>10, <2>3 DEF Deafen, Known
    <3> QED BY <1>a, <2>1, <3>1
  <2> QED BY <2>2, <2>3
<1> HIDE DEF Held
<1> QED BY <1>1, <1>2, <1>3, <1>4, <1>5, <1>6, <1>7, <1>8, <1>9, <1>10
        DEF PersistNext, SessionNext, Task

----------------------------------------------------------------------------
LEMMA PersistStep ==
  ASSUME PersistInv, [PersistNext]_persistVars
  PROVE  PersistInv'
BY PlainStep, KnownStep, PhasesStep, SavedStep, LostStep DEF PersistInv

LEMMA Invariant == PersistSpec => []PersistInv
<1>1. PersistInv /\ [PersistNext]_persistVars => PersistInv'
  BY PersistStep
<1> QED BY <1>1, InitInv, PTL DEF PersistSpec

\* Every variable has its type in every behaviour; nothing is emitted
\* outside a run.
THEOREM PersistType == PersistSpec => []PersistTypeOK
<1>1. PersistInv => PersistTypeOK
  BY KnownTyped DEF PersistInv
<1> QED BY <1>1, Invariant, PTL

\* The agent is in the run of the one session whose task is in its loop.
THEOREM RunIsOne == PersistSpec => []OneRun
<1>1. PersistInv => OneRun
  BY DEF PersistInv, Phases, PhaseOf, OneRun
<1> QED BY <1>1, Invariant, PTL

\* What is asked and said reaches the session once and in order, whatever
\* the number of sessions and messages, unless the fallback met a history
\* not the session's or a forwarder ended with its client before it came to
\* everything.
THEOREM SavedInOrder == PersistSpec => []SavedOnceInOrder
<1>1. PersistInv => SavedOnceInOrder
  BY DEF PersistInv
<1> QED BY <1>1, Invariant, PTL

\* Nothing asked or said is lost, whatever history the fallback met, but what
\* a forwarder that ended with its client did not come to.
THEOREM NoneLost == PersistSpec => []NothingLost
<1>1. PersistInv => NothingLost
  BY DEF PersistInv
<1> QED BY <1>1, Invariant, PTL
----------------------------------------------------------------------------
(* The issue store.                                                        *)

USE IssueAssumption DEF Operations, Owners, Contents, InQueue, Me

LEMMA InitType == IssueInit => IssueTypeOK
<1> SUFFICES ASSUME IssueInit PROVE IssueTypeOK
  OBVIOUS
<1>1. issue \in Contents /\ issue.hash = 0 /\ writers = <<>>
  <2>1. PICK c \in BOOLEAN : issue = [hash |-> 0, owner |-> Nobody, closed |-> c]
    BY DEF IssueInit
  <2>2. writers = <<>>
    BY DEF IssueInit
  <2> QED BY <2>1, <2>2
<1>2. Created \in Contents
  BY DEF Created
<1> QED BY <1>1, <1>2 DEF IssueInit, IssueTypeOK

\* The steps of a process, which it takes as a whole.
LEMMA ProcessType ==
  ASSUME IssueTypeOK, NEW p \in Processes, ProcessNext(p)
  PROVE  IssueTypeOK'
<1> USE DEF IssueTypeOK, taskVars
<1>1. CASE Begin(p)
  BY <1>1 DEF Begin, Fresh
<1>2. CASE \E q \in Processes : ProbeFile(p, q)
  BY <1>2 DEF ProbeFile
<1>3. CASE ReleaseFile(p)
  BY <1>3 DEF ReleaseFile
<1>4. CASE ReapFile(p)
  BY <1>4 DEF ReapFile
<1>5. CASE OpenFile(p)
  BY <1>5 DEF OpenFile
<1>6. CASE LockFile(p)
  BY <1>6 DEF LockFile
<1>7. CASE Age(p)
  BY <1>7 DEF Age
<1>8. CASE Exit(p) \/ Crash(p)
  <2>1. Gone(p) /\ present' \in SUBSET Processes
    BY <1>8 DEF Exit, Crash
  <2> QED BY <2>1 DEF Gone, Mine, Created
<1> QED BY <1>1, <1>2, <1>3, <1>4, <1>5, <1>6, <1>7, <1>8 DEF ProcessNext

\* A task that enters the queue finds nobody of its process there.
LEMMA ReadType ==
  ASSUME IssueTypeOK, NEW t \in Tasks, NEW o \in Operations, Read(t, o)
  PROVE  IssueTypeOK'
BY DEF IssueTypeOK, lifeVars, Read, Enters

LEMMA AdvanceType ==
  ASSUME IssueTypeOK, NEW t \in Tasks, Advance(t)
  PROVE  IssueTypeOK'
<1> USE DEF IssueTypeOK, lifeVars, Return, Created
<1>1. CASE Assigned(t)
  BY <1>1 DEF Assigned
<1>2. CASE NoLockFile(t)
  BY <1>2 DEF NoLockFile
<1>3. CASE Probe(t)
  BY <1>3 DEF Probe
<1>4. CASE EndProbe(t)
  BY <1>4 DEF EndProbe
<1>5. CASE Write(t)
  <2>1. issue' \in Contents /\ issue'.hash = issue.hash + 1
    <3>1. OwnerAfter(t) \in Owners
      BY DEF OwnerAfter
    <3>2. PICK c \in StatusAfter(t) :
            issue' = [hash |-> issue.hash + 1, owner |-> OwnerAfter(t), closed |-> c]
      BY <1>5 DEF Write
    <3>3. StatusAfter(t) \subseteq BOOLEAN
      <4>1. base[t].closed \in BOOLEAN
        OBVIOUS
      <4>2. ASSUME NEW d \in StatusAfter(t)
            PROVE  d = TRUE \/ d = FALSE \/ d \in BOOLEAN \/ d = base[t].closed
        BY Zenon DEF StatusAfter
      <4> QED BY <4>1, <4>2, Zenon
    <3>4. issue.hash + 1 \in 0..MaxWrites
      BY <1>5 DEF Write
    <3> QED BY <3>1, <3>2, <3>3, <3>4
  <2>2. writers' \in Seq(Processes) /\ Len(writers') = issue.hash + 1
    BY <1>5 DEF Write
  <2> QED BY <1>5, <2>1, <2>2 DEF Write
<1>6. CASE FailWrite(t)
  BY <1>6 DEF FailWrite
<1> QED BY <1>1, <1>2, <1>3, <1>4, <1>5, <1>6 DEF Advance

LEMMA NextType == IssueTypeOK /\ [IssueNext]_issueVars => IssueTypeOK'
<1> SUFFICES ASSUME IssueTypeOK, [IssueNext]_issueVars PROVE IssueTypeOK'
  OBVIOUS
<1>1. CASE UNCHANGED issueVars
  BY <1>1 DEF issueVars, lifeVars, taskVars, IssueTypeOK
<1> QED BY <1>1, ProcessType, ReadType, AdvanceType DEF IssueNext

----------------------------------------------------------------------------
(* Locks and the reaper.                                                   *)

\* A file is there from the time its process opens it, and is old only when
\* that process has got its lock or never will: so an old file that somebody
\* found unlocked stays unlocked.
LocksOK ==
  /\ guarded \subseteq present
  /\ \A p \in present : life[p] \in {"opening", "up", "dead"}
  /\ \A p \in Processes : life[p] = "opening" => p \in present
  /\ \A p \in aged : life[p] \in {"up", "dead"}
  /\ \A p, q \in Processes : q \in {probed[p], doomed[p]} /\ q \in aged => q \notin guarded

LEMMA InitLocks == IssueInit => LocksOK
BY DEF IssueInit, LocksOK

LEMMA NextLocks == IssueTypeOK /\ LocksOK /\ [IssueNext]_issueVars => LocksOK'
<1> SUFFICES ASSUME IssueTypeOK, LocksOK, [IssueNext]_issueVars PROVE LocksOK'
  OBVIOUS
<1> USE DEF IssueTypeOK, LocksOK
<1>1. CASE UNCHANGED lifeVars
  BY <1>1 DEF lifeVars
<1>2. ASSUME NEW p \in Processes, ProcessNext(p) PROVE LocksOK'
  <2>1. CASE Begin(p)
    BY <2>1 DEF Begin, Fresh
  <2>2. CASE \E q \in Processes : ProbeFile(p, q)
    BY <2>2 DEF ProbeFile
  <2>3. CASE ReleaseFile(p)
    BY <2>3 DEF ReleaseFile
  <2>4. CASE ReapFile(p)
    BY <2>4 DEF ReapFile, OldEnough
  <2>5. CASE OpenFile(p)
    BY <2>5 DEF OpenFile
  <2>6. CASE LockFile(p)
    BY <2>6 DEF LockFile
  <2>7. CASE Age(p)
    BY <2>7 DEF Age
  <2>8. CASE Exit(p)
    BY <2>8 DEF Exit, Gone
  <2>9. CASE Crash(p)
    BY <2>9 DEF Crash, Gone
  <2> QED BY <1>2, <2>1, <2>2, <2>3, <2>4, <2>5, <2>6, <2>7, <2>8, <2>9 DEF ProcessNext
<1>3. ASSUME NEW t \in Tasks, Advance(t) \/ \E o \in Operations : Read(t, o)
      PROVE  UNCHANGED lifeVars
  BY <1>3 DEF Advance, Read, Assigned, NoLockFile, Probe, EndProbe, Write, FailWrite
<1> QED BY <1>1, <1>2, <1>3 DEF IssueNext, issueVars

----------------------------------------------------------------------------
(* Writes and claims.                                                      *)

LEMMA NextNoLost ==
  IssueTypeOK /\ NoLostUpdate /\ [IssueNext]_issueVars => NoLostUpdate'
<1> SUFFICES ASSUME IssueTypeOK, NoLostUpdate, [IssueNext]_issueVars,
                    NEW u \in Tasks, (pc[u] \in InQueue)',
                    NEW i \in (base[u].hash + 1..issue.hash)'
             PROVE  writers'[i] # Me(u)
  BY DEF NoLostUpdate
<1> USE DEF IssueTypeOK, NoLostUpdate
<1>1. CASE \E p \in Processes : ProcessNext(p)
  <2>1. issue' = issue /\ writers' = writers
    BY <1>1 DEF ProcessNext, Begin, ProbeFile, ReleaseFile, ReapFile, OpenFile, LockFile,
                Age, Exit, Crash, Gone
  <2>2. pc[u] \in InQueue /\ base'[u] = base[u]
    BY <1>1 DEF ProcessNext, Begin, ProbeFile, ReleaseFile, ReapFile, OpenFile, LockFile,
                Age, Exit, Crash, Gone, taskVars
  <2> QED BY <2>1, <2>2
<1>2. CASE \E t \in Tasks : \E o \in Operations : Read(t, o)
  <2>1. PICK t \in Tasks, o \in Operations : Read(t, o)
    BY <1>2
  <2>2. CASE u = t
    BY <2>1, <2>2 DEF Read
  <2>3. CASE u # t
    BY <2>1, <2>3 DEF Read
  <2> QED BY <2>2, <2>3
<1>3. CASE \E t \in Tasks : Write(t)
  <2>1. PICK t \in Tasks : Write(t)
    BY <1>3
  <2>2. u # t /\ pc[u] \in InQueue /\ base'[u] = base[u]
    BY <2>1 DEF Write, Return
  <2>3. Me(u) # Me(t)
    BY <2>1, <2>2 DEF Write
  <2>4. writers' = Append(writers, Me(t)) /\ issue'.hash = issue.hash + 1
    BY <2>1 DEF Write
  <2>5. CASE i = issue.hash + 1
    BY <2>3, <2>4, <2>5
  <2>6. CASE i # issue.hash + 1
    <3>1. i \in base[u].hash + 1..issue.hash /\ i \in 1..Len(writers)
      BY <2>2, <2>4, <2>6
    <3> QED BY <2>2, <2>4, <3>1
  <2> QED BY <2>5, <2>6
<1>4. CASE \E t \in Tasks :
             Assigned(t) \/ NoLockFile(t) \/ Probe(t) \/ EndProbe(t) \/ FailWrite(t)
  <2>1. issue' = issue /\ writers' = writers
    BY <1>4 DEF Assigned, NoLockFile, Probe, EndProbe, FailWrite
  <2>2. pc[u] \in InQueue /\ base'[u] = base[u]
    BY <1>4 DEF Assigned, NoLockFile, Probe, EndProbe, FailWrite, Return
  <2> QED BY <2>1, <2>2
<1>5. CASE UNCHANGED issueVars
  BY <1>5 DEF issueVars, taskVars
<1> QED BY <1>1, <1>2, <1>3, <1>4, <1>5 DEF IssueNext, Advance

\* What a task has read and found out about the owner, which is a process that
\* has been up: its lock, if it has none, it never gets.
ClaimsOK ==
  /\ issue.owner # Nobody => life[issue.owner] \in {"up", "dead"}
  /\ \A t \in Tasks : pc[t] \in InQueue =>
       /\ life[Me(t)] = "up"
       /\ base[t].hash <= issue.hash
       /\ base[t].hash = issue.hash => base[t] = issue
       /\ base[t].owner # Nobody => life[base[t].owner] \in {"up", "dead"}
       /\ op[t] \in {"release", "close"} => base[t].owner = Me(t)
       /\ pc[t] \in {"probing", "write"} /\ op[t] = "start" => base[t].owner \notin guarded

LEMMA InitClaims == IssueInit => ClaimsOK
BY DEF IssueInit, ClaimsOK, Created

LEMMA ProcessClaims ==
  ASSUME IssueTypeOK, LocksOK, ClaimsOK, NEW p \in Processes, ProcessNext(p)
  PROVE  ClaimsOK'
<1> USE DEF IssueTypeOK, ClaimsOK
<1>1. CASE Begin(p)
  BY <1>1 DEF Begin, Fresh, taskVars
<1>2. CASE LockFile(p)
  BY <1>2 DEF LockFile, taskVars
<1>3. CASE OpenFile(p)
  BY <1>3 DEF OpenFile, taskVars
<1>4. CASE UNCHANGED <<life, guarded, issue, taskVars>>
  BY <1>4 DEF taskVars
<1>5. CASE Exit(p) \/ Crash(p)
  <2>1. /\ life' = [life EXCEPT ![p] = "dead"] /\ guarded' \subseteq guarded
        /\ issue' = issue
    BY <1>5 DEF Exit, Crash, Gone
  <2>2. \A t \in Tasks : pc'[t] \in InQueue =>
          /\ pc[t] \in InQueue /\ Me(t) # p
          /\ pc'[t] = pc[t] /\ base'[t] = base[t] /\ op'[t] = op[t]
    BY <1>5 DEF Exit, Crash, Gone, Mine
  <2> QED BY <2>1, <2>2
<1> QED BY <1>1, <1>2, <1>3, <1>4, <1>5
      DEF ProcessNext, ProbeFile, ReleaseFile, ReapFile, Age

LEMMA TaskClaims ==
  ASSUME IssueTypeOK, LocksOK, ClaimsOK, NEW t \in Tasks,
         Advance(t) \/ \E o \in Operations : Read(t, o)
  PROVE  ClaimsOK'
<1> USE DEF IssueTypeOK, ClaimsOK, lifeVars
<1>1. CASE \E o \in Operations : Read(t, o)
  <2>1. PICK o \in Operations : Read(t, o)
    BY <1>1
  <2>2. /\ pc'[t] = IF o = "start" /\ issue.owner # Nobody THEN "probe" ELSE "write"
        /\ op'[t] = o /\ base'[t] = issue /\ life[Me(t)] = "up"
        /\ o \in {"release", "close"} => issue.owner = Me(t)
    BY <2>1 DEF Read, May
  <2>3. /\ UNCHANGED <<life, guarded, issue>>
        /\ \A u \in Tasks \ {t} : pc'[u] = pc[u] /\ base'[u] = base[u] /\ op'[u] = op[u]
    BY <2>1 DEF Read
  <2> QED BY <2>2, <2>3
<1>2. CASE Assigned(t) \/ FailWrite(t)
  <2>1. UNCHANGED <<life, guarded, issue>> /\ pc'[t] = "idle"
    BY <1>2 DEF Assigned, FailWrite, Return
  <2>2. \A u \in Tasks \ {t} : pc'[u] = pc[u] /\ base'[u] = base[u] /\ op'[u] = op[u]
    BY <1>2 DEF Assigned, FailWrite, Return
  <2> QED BY <2>1, <2>2
<1>3. CASE NoLockFile(t)
  BY <1>3 DEF NoLockFile, LocksOK
<1>4. CASE Probe(t)
  BY <1>4 DEF Probe
<1>5. CASE EndProbe(t)
  BY <1>5 DEF EndProbe
<1>6. CASE Write(t)
  <2>1. /\ UNCHANGED <<life, guarded>> /\ pc'[t] = "idle"
        /\ issue'.hash = issue.hash + 1 /\ issue'.owner = OwnerAfter(t)
        /\ \A u \in Tasks \ {t} : pc'[u] = pc[u] /\ base'[u] = base[u] /\ op'[u] = op[u]
    BY <1>6 DEF Write, Return
  <2>2. OwnerAfter(t) # Nobody => life[OwnerAfter(t)] \in {"up", "dead"}
    BY <1>6 DEF Write, OwnerAfter
  <2> QED BY <2>1, <2>2
<1> QED BY <1>1, <1>2, <1>3, <1>4, <1>5, <1>6 DEF Advance

IssueInv == IssueTypeOK /\ LocksOK /\ NoLostUpdate /\ ClaimsOK

LEMMA InitIssue == IssueInit => IssueInv
<1>1. IssueInit => NoLostUpdate
  BY DEF IssueInit, NoLostUpdate
<1> QED BY <1>1, InitType, InitLocks, InitClaims DEF IssueInv

LEMMA NextIssue == IssueInv /\ [IssueNext]_issueVars => IssueInv'
<1> SUFFICES ASSUME IssueInv, [IssueNext]_issueVars PROVE IssueInv'
  OBVIOUS
<1>1. ClaimsOK'
  <2>1. CASE UNCHANGED issueVars
    BY <2>1 DEF IssueInv, ClaimsOK, issueVars, lifeVars, taskVars
  <2> QED BY <2>1, ProcessClaims, TaskClaims DEF IssueInv, IssueNext
<1> QED BY <1>1, NextType, NextLocks, NextNoLost DEF IssueInv

LEMMA Invariance == IssueSpec => []IssueInv
<1> QED BY InitIssue, NextIssue, PTL DEF IssueSpec

\* What ClaimKept says of a step.
KeepsClaim ==
  issue.owner \in guarded /\ issue'.owner # issue.owner =>
    \E t \in Tasks : /\ Writes(t)
                     /\ \/ Me(t) = issue.owner
                        \/ op[t] = "reopen"
                        \/ base[t].hash # issue.hash

\* Nobody can be found dead while it holds its lock, so a start that has read
\* the last content does not take an issue from its owner.
LEMMA StepClaim == IssueInv /\ [IssueNext]_issueVars => KeepsClaim
<1> SUFFICES ASSUME IssueInv, [IssueNext]_issueVars,
                    issue.owner \in guarded, issue'.owner # issue.owner
             PROVE  \E t \in Tasks : /\ Writes(t)
                                     /\ \/ Me(t) = issue.owner
                                        \/ op[t] = "reopen"
                                        \/ base[t].hash # issue.hash
  BY DEF KeepsClaim
<1> USE DEF IssueInv, IssueTypeOK
<1>1. PICK t \in Tasks : Write(t)
  BY DEF IssueNext, ProcessNext, Begin, ProbeFile, ReleaseFile, ReapFile, OpenFile, LockFile,
         Age, Exit, Crash, Gone, Read, Advance, Assigned, NoLockFile, Probe, EndProbe,
         FailWrite, issueVars
<1>2. Writes(t) /\ issue'.owner = OwnerAfter(t) /\ pc[t] = "write"
  BY <1>1 DEF Write, Writes, Return
<1>3. ASSUME Me(t) # issue.owner, op[t] # "reopen", base[t].hash = issue.hash
      PROVE  FALSE
  <2>1. base[t] = issue
    BY <1>2, <1>3 DEF ClaimsOK
  <2>2. op[t] \notin {"release", "close"}
    BY <1>2, <1>3, <2>1 DEF ClaimsOK
  <2>3. op[t] # "start"
    BY <1>2, <2>1 DEF ClaimsOK
  <2> QED BY <1>2, <1>3, <2>1, <2>2, <2>3 DEF OwnerAfter
<1> QED BY <1>2, <1>3

\* Type correctness; a task writes only while it has its process's turn.
THEOREM IssueType == IssueSpec => []IssueTypeOK
<1>1. IssueInv => IssueTypeOK
  BY DEF IssueInv
<1> QED BY <1>1, Invariance, PTL

\* No task of a process overwrites what another one wrote after it had read.
THEOREM Serial == IssueSpec => []NoLostUpdate
<1>1. IssueInv => NoLostUpdate
  BY DEF IssueInv
<1> QED BY <1>1, Invariance, PTL

\* The reaper never removes the file of a process that holds its lock.
THEOREM ReaperSpares == IssueSpec => []HeldFileStays
<1>1. IssueInv => HeldFileStays
  BY DEF IssueInv, LocksOK, HeldFileStays
<1> QED BY <1>1, Invariance, PTL

\* A process that holds its lock loses an issue only to a reopen, or to a
\* process that had read the issue before.
THEOREM ClaimsStay == IssueSpec => ClaimKept
<1>1. IssueInv /\ [IssueNext]_issueVars => [KeepsClaim]_issueVars
  BY StepClaim
<1> QED BY <1>1, Invariance, PTL DEF IssueSpec, ClaimKept, KeepsClaim
=============================================================================
