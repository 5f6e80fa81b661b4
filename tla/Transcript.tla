----------------------------- MODULE Transcript -----------------------------
(***************************************************************************)
(* Conversations with tool calls, and what is done to them before they are *)
(* sent: sanitize_orphaned_tool_results (oxicode-agent/src/agent_loop/     *)
(* helpers.rs) and the split of the compactor (oxicode-ai/src/             *)
(* compaction.rs). A message has a number; a result has the number of the  *)
(* assistant message whose call it is the outcome of, which the code does  *)
(* not have: it goes by the id of the call.                                *)
(***************************************************************************)
EXTENDS Selection

User(n) == [kind |-> "user", n |-> n]
Assistant(n, text, calls) ==
  [kind |-> "assistant", n |-> n, text |-> text, calls |-> calls]
Result(n, id) == [kind |-> "result", n |-> n, id |-> id]
Summary == Assistant(0, TRUE, {})

LargestOf(S) == CHOOSE m \in S : \A k \in S : k <= m

\* The message that opens the window a result is in, 0 if there is none.
Opener(h, i) == LargestOf({0} \cup {j \in 1..i - 1 : h[j].kind # "result"})
Answers(h, i, j) ==
  /\ h[i].kind = "result" /\ j = Opener(h, i) /\ j # 0
  /\ h[j].kind = "assistant" /\ h[i].id \in h[j].calls
Answered(h, j) == {h[i].id : i \in {i \in DOMAIN h : Answers(h, i, j)}}

StrayResult(h, i) == h[i].kind = "result" /\ ~\E j \in 1..i - 1 : Answers(h, i, j)
StrayCalls(h, j) == h[j].kind = "assistant" /\ Answered(h, j) # h[j].calls

\* What the provider asks of a conversation: every call is answered in its
\* window, and every result answers a call.
Accepts(h) == \A i \in DOMAIN h : ~StrayResult(h, i) /\ ~StrayCalls(h, i)

StaysEmptied(h, i) == ~StrayCalls(h, i) \/ h[i].text             \* (mutant)
\* An assistant message that is left without content goes.
Stays(h, i) == ~StrayResult(h, i) /\ (StrayCalls(h, i) => h[i].text)

\* sanitize_orphaned_tool_results: an assistant message one of whose calls is
\* not answered loses all of them. Which results stay is decided before.
Sanitize(h) ==
  LET stripped == [i \in DOMAIN h |->
                     IF StrayCalls(h, i) THEN [h[i] EXCEPT !.calls = {}] ELSE h[i]]
  IN Picked(stripped, {i \in DOMAIN h : Stays(h, i)})

\* is_boundary of align_split_boundary
Boundary(m) == m.kind = "user" \/ (m.kind = "assistant" /\ m.calls = {})
AlignedRaw(h, split) == split                                  \* (mutant)
\* align_split_boundary, for a split of neither none nor all.
Aligned(h, split) == LargestOf({0} \cup {i \in 1..split : Boundary(h[i])})

\* LlmCompactor::compact: a short conversation comes back as it is, and one
\* with nothing before the split is an error, after which it stays.
Compact(h, keep) ==
  IF Len(h) <= keep THEN h
  ELSE LET split == Aligned(h, Len(h) - keep)
       IN IF split = 0 THEN h ELSE <<Summary>> \o SubSeq(h, split + 1, Len(h))
=============================================================================
