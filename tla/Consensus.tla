----------------------------- MODULE Consensus ------------------------------
(***************************************************************************)
(* Votes of the SDK's agents: the sessions of Consensus                    *)
(* (oxicode-sdk/src/coordination/consensus.rs) and the two that hold votes *)
(* in them. CoordinatedGroup::vote (group_ext.rs) starts a session under   *)
(* an id of its own, asks its agents one after the other, makes of each    *)
(* answer the option it contains and takes the session's result; a Vote    *)
(* step of a workflow (workflow_engine.rs) names its session by process    *)
(* and length of the question, casts answers as they are and keeps the     *)
(* first decision. An agent that fails abstains.                           *)
(***************************************************************************)
EXTENDS Integers, Sequences, FiniteSets

CONSTANTS
  Size,         \* how many agents vote, which are asked in the order 1, 2, ...
  Groups,       \* calls of CoordinatedGroup::vote
  Steps,        \* Vote steps of workflows with the same Consensus
  VoteIds,      \* the uuids there are
  StepIds,      \* "wf-vote-{pid}-{length of the question}"
  StepId,       \* the one of each step
  Needed,       \* how many votes a step's threshold asks for
  Responses,    \* what agents answer, trimmed
  Options,      \* the options of a group's vote, as they are listed
  Contained,    \* the options whose names a response contains
  Silence       \* no response

ASSUME ConsensusAssumption ==
  /\ Size \in Nat /\ Groups \cap Steps = {}
  /\ VoteIds \cap StepIds = {} /\ StepId \in [Steps -> StepIds]
  /\ Needed \in [Steps -> Nat]
  /\ Silence \notin Responses \cup VoteIds \cup StepIds
  /\ Options \in Seq(Responses)
  /\ Contained \in [Responses -> SUBSET Responses]
  /\ \A i \in DOMAIN Options : Options[i] \in Contained[Options[i]]

Voters == 1..Size
Callers == Groups \cup Steps
Ids == VoteIds \cup StepIds
NoId == Silence
Votes == [Voters -> Responses \cup {Silence}]
NoVotes == [a \in Voters |-> Silence]

VARIABLES
  sessions, \* of each id, the votes and how many of them decide
  voteId,   \* the id of a caller's session
  asked,    \* how many agents a caller has asked
  poll,     \* of a caller: new, asking or done
  answers,  \* what they answered it: for the properties only
  decision  \* what a caller took for the decision, Silence if nothing

voteVars == <<sessions, voteId, asked, poll, answers, decision>>

VoteInit ==
  /\ sessions = [id \in Ids |-> [needed |-> 0, votes |-> NoVotes]]
  /\ voteId = [c \in Callers |-> NoId]
  /\ asked = [c \in Callers |-> 0]
  /\ poll = [c \in Callers |-> "new"]
  /\ answers = [c \in Callers |-> NoVotes]
  /\ decision = [c \in Callers |-> Silence]

----------------------------------------------------------------------------
(* Sessions.                                                               *)

Tally(votes, v) == Cardinality({a \in Voters : votes[a] = v})

\* Any of the values with the most votes, if there is a vote and they are
\* enough.
Results(session) ==
  LET best == {v \in Responses :
                 \A w \in Responses : Tally(session.votes, w) <= Tally(session.votes, v)}
      enough == {v \in best : /\ Tally(session.votes, v) >= session.needed
                              /\ Tally(session.votes, v) > 0}
  IN  IF enough = {} THEN {Silence} ELSE enough

\* ceil(0.5 * total_voters).
Half == (Size + 1) \div 2

----------------------------------------------------------------------------
(* The callers.                                                            *)

AnyId == VoteIds                                               \* (mutant)
\* A new uuid for each vote.
FreshIds == VoteIds \ {voteId[c] : c \in Callers}

\* An id that is in use gets a new session.
Open(c, id, needed) ==
  /\ poll[c] = "new"
  /\ poll' = [poll EXCEPT ![c] = "asking"]
  /\ voteId' = [voteId EXCEPT ![c] = id]
  /\ sessions' = [sessions EXCEPT ![id] = [needed |-> needed, votes |-> NoVotes]]
  /\ UNCHANGED <<asked, answers, decision>>

StartVote(g) == \E id \in FreshIds : Open(g, id, Half)
StartStep(s) == Open(s, StepId[s], Needed[s])

Hits(r) == {i \in DOMAIN Options : Options[i] \in Contained[r]}

\* The first option the response contains, or else the response itself.
Matched(r) ==
  IF Hits(r) = {} THEN r
  ELSE Options[CHOOSE i \in Hits(r) : \A j \in Hits(r) : i <= j]

Ask(c) ==
  /\ poll[c] = "asking" /\ asked[c] < Size
  /\ asked' = [asked EXCEPT ![c] = @ + 1]
  /\ UNCHANGED <<voteId, poll>>

\* The agent asked next responds with r, which counts as v.
Cast(c, r, v) ==
  /\ Ask(c)
  /\ answers' = [answers EXCEPT ![c][asked[c] + 1] = r]
  /\ sessions' = [sessions EXCEPT ![voteId[c]].votes[asked[c] + 1] = v]

Answer(g, r) == Cast(g, r, Matched(r)) /\ UNCHANGED decision

AnswerStep(s, r) ==
  /\ Cast(s, r, r)
  /\ \E d \in Results(sessions'[voteId[s]]) :
       decision' = [decision EXCEPT ![s] = IF @ = Silence THEN d ELSE @]

Abstain(c) == Ask(c) /\ UNCHANGED <<sessions, answers, decision>>

TakeResult(c) ==
  /\ poll[c] = "asking" /\ asked[c] = Size
  /\ poll' = [poll EXCEPT ![c] = "done"]
  /\ \E d \in Results(sessions[voteId[c]]) :
       decision' = IF c \in Groups THEN [decision EXCEPT ![c] = d] ELSE decision
  /\ UNCHANGED <<sessions, voteId, asked, answers>>

VoteNext ==
  \/ \E g \in Groups : StartVote(g) \/ \E r \in Responses : Answer(g, r)
  \/ \E s \in Steps : StartStep(s) \/ \E r \in Responses : AnswerStep(s, r)
  \/ \E c \in Callers : Abstain(c) \/ TakeResult(c)

VoteSpec == VoteInit /\ [][VoteNext]_voteVars

----------------------------------------------------------------------------
(* Properties.                                                             *)

\* Every variable has its type, only agents that were asked have answered,
\* and whoever votes has a session.
VoteTypeOK ==
  /\ sessions \in [Ids -> [needed : Nat, votes : Votes]]
  /\ voteId \in [Callers -> Ids \cup {NoId}]
  /\ asked \in [Callers -> 0..Size]
  /\ poll \in [Callers -> {"new", "asking", "done"}]
  /\ answers \in [Callers -> Votes]
  /\ decision \in [Callers -> Responses \cup {Silence}]
  /\ \A c \in Callers : /\ \A a \in Voters : answers[c][a] # Silence => a <= asked[c]
                        /\ poll[c] # "new" => voteId[c] \in Ids

\* The agents whose response to a group's question counts as v.
For(g, v) == {a \in Voters : answers[g][a] # Silence /\ Matched(answers[g][a]) = v}

\* A group's vote decides what half at least of all its agents named first,
\* of the options in the order they are listed, the agents that failed
\* counted, and nothing was named by more: votes of other groups and of
\* workflows that go on at the same time do not mix with it.
DecidedByAnswers ==
  \A g \in Groups : decision[g] # Silence =>
    /\ 2 * Cardinality(For(g, decision[g])) >= Size
    /\ \A v \in Responses : Cardinality(For(g, v)) <= Cardinality(For(g, decision[g]))

\* What the code's comments say and the code does not do. "Simple majority",
\* "0.5 = majority": half of the agents decide, and of two values that half
\* each named either may be the decision.
MajorityDecides ==
  \A g \in Groups :
    decision[g] # Silence => 2 * Cardinality(For(g, decision[g])) > Size

\* "Find the closest matching option": an option that contains the name of
\* one listed before it is never counted.
OptionsCount == \A i \in DOMAIN Options : Matched(Options[i]) = Options[i]

\* A step's decision comes from the answers to its own question: not when
\* another one with a question of the same length runs in the same process.
StepsDoNotMix ==
  \A s \in Steps : decision[s] # Silence =>
    Cardinality({a \in Voters : answers[s][a] = decision[s]}) >= Needed[s]
=============================================================================
