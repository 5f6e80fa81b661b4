--------------------------- MODULE ToolExecProofs ---------------------------
(***************************************************************************)
(* What the tool batches and the repair of the conversation guarantee, for *)
(* every number of calls, messages, rejections and kept messages, and      *)
(* however much of its log a resumed session has lost.                     *)
(***************************************************************************)
EXTENDS ToolExec, SequenceLemmas

----------------------------------------------------------------------------
(* Messages, and which call a result answers.                              *)

CallIds == Nat \X Nat

Messages ==
  [kind : {"user"}, n : Nat]
    \cup [kind : {"assistant"}, n : Nat, text : BOOLEAN, calls : SUBSET CallIds]
    \cup [kind : {"result"}, n : Nat, id : CallIds]

LEMMA MessageFacts ==
  ASSUME NEW m \in Messages
  PROVE  /\ m.kind \in {"user", "assistant", "result"} /\ m.n \in Nat
         /\ m.kind = "assistant" => m.text \in BOOLEAN /\ m.calls \subseteq CallIds
         /\ m.kind = "result" => m.id \in CallIds
BY DEF Messages

LEMMA MessagesMade ==
  ASSUME NEW n \in Nat
  PROVE  /\ User(n) \in Messages /\ User(n).kind = "user" /\ User(n).n = n
         /\ \A text \in BOOLEAN, calls \in SUBSET CallIds :
              LET m == Assistant(n, text, calls)
              IN /\ m \in Messages /\ m.kind = "assistant" /\ m.n = n
                 /\ m.text = text /\ m.calls = calls
         /\ \A id \in CallIds :
              LET m == Result(n, id)
              IN m \in Messages /\ m.kind = "result" /\ m.n = n /\ m.id = id
BY DEF Messages, User, Assistant, Result

\* An assistant message that loses its calls.
Bared(m) == [m EXCEPT !.calls = {}]

LEMMA BaredFacts ==
  ASSUME NEW m \in Messages, m.kind = "assistant"
  PROVE  /\ Bared(m) \in Messages /\ Bared(m).kind = "assistant" /\ Bared(m).n = m.n
         /\ Bared(m).text = m.text /\ Bared(m).calls = {}
<1>1. m \in [kind : {"assistant"}, n : Nat, text : BOOLEAN, calls : SUBSET CallIds]
  BY DEF Messages
<1> QED BY <1>1 DEF Bared, Messages

LEMMA Largest ==
  ASSUME NEW N \in Nat, NEW S, S \subseteq 0..N, S # {}
  PROVE  LargestOf(S) \in S /\ \A k \in S : k <= LargestOf(S)
<1> DEFINE T == {N - k : k \in S}
<1>1. T \subseteq Nat /\ T # {}
  <2>1. \A k \in S : N - k \in Nat
    <3>1. \A k \in S : k \in 0..N
      OBVIOUS
    <3> QED BY <3>1
  <2> QED BY <2>1
<1>2. PICK n \in T : \A m \in T : n <= m
  <2> HIDE DEF T
  <2> QED BY <1>1, Least
<1>3. PICK m \in S : n = N - m
  BY <1>2
<1>4. \A k \in S : k <= m
  <2> SUFFICES ASSUME NEW k \in S PROVE k <= m
    OBVIOUS
  <2>1. N - m <= N - k
    BY <1>2, <1>3
  <2>2. k \in Int /\ m \in Int
    OBVIOUS
  <2> QED BY <2>1, <2>2
<1> QED BY <1>4 DEF LargestOf

\* A result answers the message before it that is not a result, and it alone.
LEMMA AnswersFacts ==
  ASSUME NEW h, NEW i \in Nat \ {0}, NEW j
  PROVE  Answers(h, i, j) <=>
           /\ h[i].kind = "result" /\ j \in 1..i - 1
           /\ h[j].kind = "assistant" /\ h[i].id \in h[j].calls
           /\ \A k \in j + 1..i - 1 : h[k].kind = "result"
<1> DEFINE S == {0} \cup {k \in 1..i - 1 : h[k].kind # "result"}
           o == LargestOf(S)
<1>1. o \in S /\ \A k \in S : k <= o
  <2>1. S \subseteq 0..i - 1 /\ S # {} /\ i - 1 \in Nat
    OBVIOUS
  <2> HIDE DEF S
  <2> QED BY <2>1, Largest
<1>2. Opener(h, i) = o
  BY DEF Opener
<1> HIDE DEF o
<1>3. ASSUME j = o, j # 0
      PROVE  j \in 1..i - 1 /\ \A k \in j + 1..i - 1 : h[k].kind = "result"
  <2>1. j \in 1..i - 1
    BY <1>1, <1>3
  <2>2. ASSUME NEW k \in j + 1..i - 1, h[k].kind # "result" PROVE FALSE
    <3>1. k \in S
      BY <2>1, <2>2
    <3>2. k <= j
      BY <1>1, <1>3, <3>1
    <3> QED BY <2>1, <3>2
  <2> QED BY <2>1, <2>2
<1>4. ASSUME j \in 1..i - 1, h[j].kind = "assistant",
             \A k \in j + 1..i - 1 : h[k].kind = "result"
      PROVE  j = o /\ j # 0
  <2>1. j \in S
    BY <1>4
  <2>2. j <= o
    BY <1>1, <2>1
  <2>3. o \in 0..i - 1 /\ (o # 0 => h[o].kind # "result")
    BY <1>1
  <2>4. ~(o \in j + 1..i - 1)
    BY <1>4, <2>3
  <2> QED BY <1>4, <2>2, <2>3, <2>4
<1> QED BY <1>2, <1>3, <1>4 DEF Answers

LEMMA AnsweredFacts ==
  ASSUME NEW h \in Seq(Messages), NEW j
  PROVE  /\ \A id : id \in Answered(h, j) <=>
                      \E i \in 1..Len(h) : Answers(h, i, j) /\ id = h[i].id
         /\ Answered(h, j) \subseteq h[j].calls
         /\ StrayCalls(h, j) => h[j].kind = "assistant" /\ h[j].calls # {}
<1>1. DOMAIN h = 1..Len(h)
  OBVIOUS
<1>2. \A id : id \in Answered(h, j) <=>
                \E i \in 1..Len(h) : Answers(h, i, j) /\ id = h[i].id
  BY <1>1 DEF Answered
<1>3. Answered(h, j) \subseteq h[j].calls
  BY <1>2 DEF Answers
<1> QED BY <1>2, <1>3 DEF StrayCalls

----------------------------------------------------------------------------
(* The repair.                                                             *)

NoStrayCalls(h) == \A j \in DOMAIN h : ~StrayCalls(h, j)

Repaired(h, i) == IF StrayCalls(h, i) THEN Bared(h[i]) ELSE h[i]

\* What is left of h is r, and at says where from.
Repairs(at, r, h) ==
  /\ r \in Seq(Messages) /\ at \in [1..Len(r) -> 1..Len(h)]
  /\ \A i, j \in 1..Len(r) : i < j => at[i] < at[j]
  /\ \A i \in 1..Len(r) : Stays(h, at[i]) /\ r[i] = Repaired(h, at[i])
  /\ \A k \in 1..Len(h) : Stays(h, k) => \E i \in 1..Len(r) : at[i] = k

LEMMA RepairedFacts ==
  ASSUME NEW h \in Seq(Messages), NEW i \in 1..Len(h)
  PROVE  /\ Repaired(h, i) \in Messages
         /\ Repaired(h, i).kind = h[i].kind /\ Repaired(h, i).n = h[i].n
         /\ h[i].kind = "assistant" => /\ Repaired(h, i).text = h[i].text
                                       /\ Repaired(h, i).calls \subseteq h[i].calls
         /\ h[i].kind # "assistant" \/ ~StrayCalls(h, i) => Repaired(h, i) = h[i]
         /\ StrayCalls(h, i) => Repaired(h, i).calls = {}
<1>1. h[i] \in Messages
  OBVIOUS
<1>2. CASE StrayCalls(h, i)
  <2>1. h[i].kind = "assistant" /\ Repaired(h, i) = Bared(h[i])
    BY <1>2 DEF Repaired, StrayCalls
  <2> QED BY <1>1, <1>2, <2>1, BaredFacts
<1>3. CASE ~StrayCalls(h, i)
  BY <1>1, <1>3 DEF Repaired
<1> QED BY <1>2, <1>3

LEMMA SanitizeRepairs ==
  ASSUME NEW h \in Seq(Messages)
  PROVE  \E at : Repairs(at, Sanitize(h), h)
<1> DEFINE K == {i \in DOMAIN h : Stays(h, i)}
           s == [i \in DOMAIN h |-> Repaired(h, i)]
<1> PICK r : r = Sanitize(h)
  OBVIOUS
<1>1. DOMAIN h = 1..Len(h) /\ Len(h) \in Nat
  OBVIOUS
<1>2. r = Picked(s, K)
  BY DEF Sanitize, Repaired, Bared
<1>3. s \in Seq(Messages) /\ Len(s) = Len(h) /\ \A i \in 1..Len(h) : s[i] = Repaired(h, i)
  <2>1. \A i \in 1..Len(h) : Repaired(h, i) \in Messages
    BY RepairedFacts
  <2> QED BY <1>1, <2>1
<1>4. K \cap 1..Len(s) = K /\ \A k \in 1..Len(h) : k \in K <=> Stays(h, k)
  BY <1>1, <1>3
<1>5. K \subseteq 1..Len(h)
  BY <1>1
<1> HIDE DEF s, K
<1>6. PICK at : Picks(at, r, s, K)
  BY <1>1, <1>2, <1>3, PickedPicks
<1>7. /\ r \in Seq({s[i] : i \in K}) /\ at \in [1..Len(r) -> K]
      /\ \A i \in 1..Len(r) : r[i] = s[at[i]]
      /\ \A i, j \in 1..Len(r) : i < j => at[i] < at[j]
      /\ \A k \in K : \E i \in 1..Len(r) : at[i] = k
  BY <1>4, <1>6 DEF Picks
<1>8. r \in Seq(Messages)
  <2>1. {s[i] : i \in K} \subseteq Messages
    BY <1>3, <1>5
  <2> QED BY <1>7, <2>1, SeqMonotonic
<1>9. Repairs(at, r, h)
  BY <1>3, <1>4, <1>5, <1>7, <1>8 DEF Repairs
<1> QED BY <1>9

LEMMA RepairsFacts ==
  ASSUME NEW h \in Seq(Messages), NEW r, NEW at, Repairs(at, r, h)
  PROVE  /\ r \in Seq(Messages) /\ Len(r) \in Nat /\ Len(h) \in Nat
         /\ DOMAIN r = 1..Len(r) /\ DOMAIN h = 1..Len(h)
         /\ \A i \in 1..Len(r) :
              /\ at[i] \in 1..Len(h) /\ Stays(h, at[i])
              /\ r[i].kind = h[at[i]].kind /\ r[i].n = h[at[i]].n
              /\ h[at[i]].kind = "assistant" => /\ r[i].text = h[at[i]].text
                                                /\ r[i].calls \subseteq h[at[i]].calls
              /\ h[at[i]].kind # "assistant" \/ ~StrayCalls(h, at[i]) => r[i] = h[at[i]]
              /\ StrayCalls(h, at[i]) => r[i].calls = {}
         /\ \A i, j \in 1..Len(r) : i < j <=> at[i] < at[j]
         /\ \A k \in 1..Len(h) : Stays(h, k) => \E i \in 1..Len(r) : at[i] = k
<1>1. /\ r \in Seq(Messages) /\ at \in [1..Len(r) -> 1..Len(h)]
      /\ \A i, j \in 1..Len(r) : i < j => at[i] < at[j]
      /\ \A i \in 1..Len(r) : Stays(h, at[i]) /\ r[i] = Repaired(h, at[i])
      /\ \A k \in 1..Len(h) : Stays(h, k) => \E i \in 1..Len(r) : at[i] = k
  BY DEF Repairs
<1>2. Len(r) \in Nat /\ Len(h) \in Nat /\ DOMAIN r = 1..Len(r) /\ DOMAIN h = 1..Len(h)
  BY <1>1
<1>3. \A i \in 1..Len(r) : at[i] \in 1..Len(h) /\ r[i] = Repaired(h, at[i])
  BY <1>1
<1>4. ASSUME NEW i \in 1..Len(r)
      PROVE  /\ r[i].kind = h[at[i]].kind /\ r[i].n = h[at[i]].n
             /\ h[at[i]].kind = "assistant" => /\ r[i].text = h[at[i]].text
                                               /\ r[i].calls \subseteq h[at[i]].calls
             /\ h[at[i]].kind # "assistant" \/ ~StrayCalls(h, at[i]) => r[i] = h[at[i]]
             /\ StrayCalls(h, at[i]) => r[i].calls = {}
  BY <1>3, RepairedFacts
<1>5. ASSUME NEW i \in 1..Len(r), NEW j \in 1..Len(r), at[i] < at[j] PROVE i < j
  <2>1. at[i] \in Nat /\ at[j] \in Nat /\ i \in Nat /\ j \in Nat
    BY <1>2, <1>3
  <2>2. ~(j < i) /\ j # i
    BY <1>1, <1>5, <2>1
  <2> QED BY <2>1, <2>2
<1> QED BY <1>1, <1>2, <1>3, <1>4, <1>5

\* The results of a message that keeps its calls stay behind it.
LEMMA RepairsAnswers ==
  ASSUME NEW h \in Seq(Messages), NEW r, NEW at, Repairs(at, r, h),
         NEW i \in 1..Len(r), NEW j \in 1..Len(r),
         Answers(h, at[i], at[j]), ~StrayCalls(h, at[j])
  PROVE  Answers(r, i, j) /\ r[i] = h[at[i]] /\ r[j] = h[at[j]]
<1>1. /\ \A k \in 1..Len(r) : at[k] \in 1..Len(h) /\ r[k].kind = h[at[k]].kind
      /\ \A k, m \in 1..Len(r) : k < m <=> at[k] < at[m]
      /\ Len(r) \in Nat /\ Len(h) \in Nat
  BY RepairsFacts
<1>2. /\ h[at[i]].kind = "result" /\ at[j] \in 1..at[i] - 1
      /\ h[at[j]].kind = "assistant" /\ h[at[i]].id \in h[at[j]].calls
      /\ \A k \in at[j] + 1..at[i] - 1 : h[k].kind = "result"
  <2>1. at[i] \in Nat \ {0}
    BY <1>1
  <2> QED BY <2>1, AnswersFacts
<1>3. r[i] = h[at[i]] /\ r[j] = h[at[j]]
  BY <1>2, RepairsFacts
<1>4. j \in 1..i - 1
  BY <1>1, <1>2
<1>5. \A k \in j + 1..i - 1 : r[k].kind = "result"
  <2> SUFFICES ASSUME NEW k \in j + 1..i - 1 PROVE r[k].kind = "result"
    OBVIOUS
  <2>1. k \in 1..Len(r) /\ j < k /\ k < i
    BY <1>1, <1>4
  <2>2. at[j] < at[k] /\ at[k] < at[i] /\ at[k] \in 1..Len(h) /\ at[j] \in Nat /\ at[i] \in Nat
    BY <1>1, <2>1
  <2>3. at[k] \in at[j] + 1..at[i] - 1
    BY <2>2
  <2> QED BY <1>1, <1>2, <2>1, <2>3
<1>6. i \in Nat \ {0}
  BY <1>1
<1> QED BY SMTT(30), <1>2, <1>3, <1>4, <1>5, <1>6, AnswersFacts

\* One pass leaves no call without its result.
LEMMA RepairsCalls ==
  ASSUME NEW h \in Seq(Messages), NEW r, NEW at, Repairs(at, r, h)
  PROVE  NoStrayCalls(r)
<1> SUFFICES ASSUME NEW j \in 1..Len(r), StrayCalls(r, j) PROVE FALSE
  BY RepairsFacts DEF NoStrayCalls
<1>1. /\ r \in Seq(Messages)
      /\ at[j] \in 1..Len(h) /\ r[j].kind = h[at[j]].kind
      /\ h[at[j]].kind # "assistant" \/ ~StrayCalls(h, at[j]) => r[j] = h[at[j]]
      /\ StrayCalls(h, at[j]) => r[j].calls = {}
  BY RepairsFacts
<1>2. /\ r[j].kind = "assistant" /\ r[j].calls # {} /\ Answered(r, j) # r[j].calls
      /\ Answered(r, j) \subseteq r[j].calls
  BY <1>1, AnsweredFacts DEF StrayCalls
<1>3. ~StrayCalls(h, at[j]) /\ r[j] = h[at[j]] /\ Answered(h, at[j]) = h[at[j]].calls
  BY <1>1, <1>2 DEF StrayCalls
<1>4. PICK id \in r[j].calls : id \notin Answered(r, j)
  BY <1>2
<1>5. PICK k \in 1..Len(h) : Answers(h, k, at[j]) /\ id = h[k].id
  BY <1>3, <1>4, AnsweredFacts
<1>6. h[k].kind = "result" /\ at[j] \in 1..k - 1
  <2>1. k \in Nat \ {0}
    OBVIOUS
  <2> QED BY <1>5, <2>1, AnswersFacts
<1>7. Stays(h, k)
  BY <1>5, <1>6 DEF Stays, StrayResult, StrayCalls
<1>8. PICK i \in 1..Len(r) : at[i] = k
  BY <1>7, RepairsFacts
<1>9. Answers(r, i, j) /\ r[i] = h[at[i]]
  BY <1>3, <1>5, <1>8, RepairsAnswers
<1> QED BY <1>1, <1>4, <1>5, <1>8, <1>9, AnsweredFacts

\* And when there was none, no result without its call either.
LEMMA RepairsAccepts ==
  ASSUME NEW h \in Seq(Messages), NoStrayCalls(h), NEW r, NEW at, Repairs(at, r, h)
  PROVE  Accepts(r)
<1> SUFFICES ASSUME NEW i \in 1..Len(r), StrayResult(r, i) PROVE FALSE
  BY RepairsCalls, RepairsFacts DEF Accepts, NoStrayCalls
<1>1. /\ at[i] \in 1..Len(h) /\ Stays(h, at[i]) /\ r[i].kind = h[at[i]].kind
      /\ Len(r) \in Nat /\ DOMAIN h = 1..Len(h)
  BY RepairsFacts
<1>2. h[at[i]].kind = "result"
  BY <1>1 DEF StrayResult
<1>3. PICK j \in 1..at[i] - 1 : Answers(h, at[i], j)
  BY <1>1, <1>2 DEF Stays, StrayResult
<1>4. j \in 1..Len(h) /\ h[j].kind = "assistant" /\ ~StrayCalls(h, j)
  <2>1. at[i] \in Nat \ {0} /\ j \in 1..Len(h)
    BY <1>1
  <2> QED BY <1>1, <1>3, <2>1, AnswersFacts DEF NoStrayCalls
<1>5. Stays(h, j)
  BY <1>4 DEF Stays, StrayResult
<1>6. PICK k \in 1..Len(r) : at[k] = j
  BY <1>4, <1>5, RepairsFacts
<1>7. Answers(r, i, k)
  BY <1>3, <1>4, <1>6, RepairsAnswers
<1>8. k \in 1..i - 1
  <2>1. i \in Nat \ {0}
    BY <1>1
  <2> QED BY <1>7, <2>1, AnswersFacts
<1> QED BY <1>7, <1>8 DEF StrayResult

\* An exchange that is whole is kept whole.
LEMMA RepairsExchange ==
  ASSUME NEW h \in Seq(Messages), NEW r, NEW at, Repairs(at, r, h),
         NEW j \in 1..Len(h), Whole(h, j)
  PROVE  Intact(r, h[j], ResultsOf(h, j))
<1>1. h[j].kind = "assistant" /\ ~StrayCalls(h, j)
  BY DEF Whole, StrayCalls
<1>2. Stays(h, j)
  BY <1>1 DEF Stays, StrayResult
<1>3. PICK p \in 1..Len(r) : at[p] = j
  BY <1>2, RepairsFacts
<1>4. r[p] = h[j] /\ DOMAIN r = 1..Len(r) /\ DOMAIN h = 1..Len(h)
  BY <1>1, <1>3, RepairsFacts
<1>5. ASSUME NEW m \in ResultsOf(h, j) PROVE m \in ResultsOf(r, p)
  <2>1. PICK i \in 1..Len(h) : Answers(h, i, j) /\ m = h[i]
    BY <1>4, <1>5 DEF ResultsOf
  <2>2. h[i].kind = "result" /\ j \in 1..i - 1
    <3>1. i \in Nat \ {0}
      OBVIOUS
    <3> QED BY <2>1, <3>1, AnswersFacts
  <2>3. Stays(h, i)
    BY <2>1, <2>2 DEF Stays, StrayResult, StrayCalls
  <2>4. PICK k \in 1..Len(r) : at[k] = i
    BY <2>3, RepairsFacts
  <2>5. Answers(r, k, p) /\ r[k] = m
    BY <1>1, <1>3, <2>1, <2>4, RepairsAnswers
  <2> QED BY <1>4, <2>5 DEF ResultsOf
<1> QED BY <1>4, <1>5 DEF Intact

\* What says something is kept, with or without its calls.
LEMMA RepairsWords ==
  ASSUME NEW h \in Seq(Messages), NEW r, NEW at, Repairs(at, r, h),
         NEW j \in 1..Len(h), Said(h[j])
  PROVE  Heard(r, h[j])
<1>1. h[j].kind = "user" \/ (h[j].kind = "assistant" /\ h[j].text)
  BY DEF Said
<1>2. Stays(h, j)
  BY <1>1 DEF Stays, StrayResult, StrayCalls
<1>3. PICK p \in 1..Len(r) : at[p] = j
  BY <1>2, RepairsFacts
<1>4. /\ DOMAIN r = 1..Len(r) /\ r[p].kind = h[j].kind /\ r[p].n = h[j].n
      /\ h[j].kind = "assistant" => r[p].text = h[j].text
  BY <1>3, RepairsFacts
<1> QED BY <1>1, <1>4 DEF Heard, Said

----------------------------------------------------------------------------
(* What is appended.                                                       *)

LEMMA ConcatFacts ==
  ASSUME NEW h \in Seq(Messages), NEW t \in Seq(Messages), NEW u, u = h \o t
  PROVE  /\ u \in Seq(Messages) /\ Len(u) = Len(h) + Len(t)
         /\ Len(h) \in Nat /\ Len(t) \in Nat
         /\ DOMAIN h = 1..Len(h) /\ DOMAIN t = 1..Len(t) /\ DOMAIN u = 1..Len(u)
         /\ \A i \in 1..Len(h) : u[i] = h[i] /\ i \in 1..Len(u)
         /\ \A i \in 1..Len(t) : u[Len(h) + i] = t[i] /\ Len(h) + i \in 1..Len(u)
         /\ \A i \in 1..Len(u) : i \in 1..Len(h) \/ i - Len(h) \in 1..Len(t)
<1>1. /\ u \in Seq(Messages) /\ Len(u) = Len(h) + Len(t)
      /\ \A i \in 1..Len(h) + Len(t) : u[i] = IF i <= Len(h) THEN h[i] ELSE t[i - Len(h)]
  BY ConcatProperties
<1>2. Len(h) \in Nat /\ Len(t) \in Nat /\ DOMAIN h = 1..Len(h) /\ DOMAIN t = 1..Len(t)
  OBVIOUS
<1>3. DOMAIN u = 1..Len(u)
  BY <1>1
<1>4. ASSUME NEW i \in 1..Len(h) PROVE u[i] = h[i] /\ i \in 1..Len(u)
  <2>1. i \in 1..Len(h) + Len(t) /\ i <= Len(h)
    BY <1>2
  <2> QED BY <1>1, <2>1
<1>5. ASSUME NEW i \in 1..Len(t) PROVE u[Len(h) + i] = t[i] /\ Len(h) + i \in 1..Len(u)
  <2>1. Len(h) + i \in 1..Len(h) + Len(t) /\ ~(Len(h) + i <= Len(h)) /\ (Len(h) + i) - Len(h) = i
    BY <1>2
  <2> QED BY <1>1, <2>1
<1>6. ASSUME NEW i \in 1..Len(u) PROVE i \in 1..Len(h) \/ i - Len(h) \in 1..Len(t)
  BY <1>1, <1>2
<1> QED BY <1>1, <1>2, <1>3, <1>4, <1>5, <1>6

LEMMA ConcatLast ==
  ASSUME NEW h \in Seq(Messages), NEW m \in Messages, NEW u, u = h \o <<m>>
  PROVE  /\ u \in Seq(Messages) /\ Len(h) \in Nat /\ Len(u) = Len(h) + 1
         /\ u[Len(h) + 1] = m /\ \A i \in 1..Len(h) : u[i] = h[i]
         /\ u = Append(h, m)
<1>1. PICK t : t = <<m>>
  OBVIOUS
<1>2. t \in Seq(Messages) /\ Len(t) = 1 /\ t[1] = m
  BY <1>1
<1>3. u = h \o t
  BY <1>1
<1>4. /\ u \in Seq(Messages) /\ Len(u) = Len(h) + Len(t) /\ Len(h) \in Nat
      /\ \A i \in 1..Len(h) : u[i] = h[i]
      /\ \A i \in 1..Len(t) : u[Len(h) + i] = t[i]
  BY <1>2, <1>3, ConcatFacts
<1>5. u[Len(h) + 1] = m
  BY <1>2, <1>4
<1>6. u = Append(h, m)
  OBVIOUS
<1> QED BY <1>2, <1>4, <1>5, <1>6

\* Who answers whom depends on nothing after it.
LEMMA ConcatAnswers ==
  ASSUME NEW h \in Seq(Messages), NEW t \in Seq(Messages), NEW i \in 1..Len(h), NEW j
  PROVE  Answers(h \o t, i, j) <=> Answers(h, i, j)
<1> PICK u : u = h \o t
  OBVIOUS
<1>1. \A k \in 1..Len(h) : u[k] = h[k]
  BY ConcatFacts
<1>2. i \in Nat \ {0} /\ \A k : k \in 1..i => k \in 1..Len(h)
  OBVIOUS
<1>3. j \in 1..i - 1 => \A k \in j + 1..i - 1 : k \in 1..i
  OBVIOUS
<1>4. Answers(u, i, j) <=> Answers(h, i, j)
  <2>1. ASSUME j \in 1..i - 1
        PROVE  /\ u[i] = h[i] /\ u[j] = h[j]
               /\ \A k \in j + 1..i - 1 : u[k] = h[k]
    BY <1>1, <1>2, <1>3, <2>1
  <2>2. Answers(u, i, j) <=>
          /\ u[i].kind = "result" /\ j \in 1..i - 1
          /\ u[j].kind = "assistant" /\ u[i].id \in u[j].calls
          /\ \A k \in j + 1..i - 1 : u[k].kind = "result"
    BY ZenonT(60), <1>2, AnswersFacts
  <2>3. Answers(h, i, j) <=>
          /\ h[i].kind = "result" /\ j \in 1..i - 1
          /\ h[j].kind = "assistant" /\ h[i].id \in h[j].calls
          /\ \A k \in j + 1..i - 1 : h[k].kind = "result"
    BY <1>2, AnswersFacts
  <2> QED BY <2>1, <2>2, <2>3
<1> QED BY <1>4

LEMMA ConcatAnswered ==
  ASSUME NEW h \in Seq(Messages), NEW t \in Seq(Messages), NEW j \in 1..Len(h)
  PROVE  /\ Answered(h, j) \subseteq Answered(h \o t, j)
         /\ ResultsOf(h, j) \subseteq ResultsOf(h \o t, j)
         /\ StrayCalls(h \o t, j) => StrayCalls(h, j)
         /\ Whole(h, j) => Whole(h \o t, j)
<1> PICK u : u = h \o t
  OBVIOUS
<1>1. /\ u \in Seq(Messages) /\ DOMAIN u = 1..Len(u) /\ DOMAIN h = 1..Len(h)
      /\ \A k \in 1..Len(h) : u[k] = h[k] /\ k \in 1..Len(u)
  BY ConcatFacts
<1>2. \A i \in 1..Len(h) : Answers(u, i, j) <=> Answers(h, i, j)
  BY ConcatAnswers
<1>3. Answered(h, j) \subseteq Answered(u, j) /\ ResultsOf(h, j) \subseteq ResultsOf(u, j)
  BY <1>1, <1>2 DEF Answered, ResultsOf
<1>4. Answered(u, j) \subseteq u[j].calls /\ Answered(h, j) \subseteq h[j].calls /\ u[j] = h[j]
  BY <1>1, AnsweredFacts
<1> QED BY <1>3, <1>4 DEF StrayCalls, Whole

\* Messages without calls change nothing for those before.
LEMMA PushCalls ==
  ASSUME NEW h \in Seq(Messages), NEW t \in Seq(Messages), NoStrayCalls(h),
         \A i \in 1..Len(t) : t[i].kind = "assistant" => t[i].calls = {}
  PROVE  NoStrayCalls(h \o t)
<1> PICK u : u = h \o t
  OBVIOUS
<1>1. /\ u \in Seq(Messages) /\ DOMAIN u = 1..Len(u) /\ DOMAIN h = 1..Len(h)
      /\ \A i \in 1..Len(t) : u[Len(h) + i] = t[i]
      /\ \A i \in 1..Len(u) : i \in 1..Len(h) \/ i - Len(h) \in 1..Len(t)
      /\ Len(h) \in Nat
  BY ConcatFacts
<1>2. ASSUME NEW i \in 1..Len(u) PROVE ~StrayCalls(u, i)
  <2>1. CASE i \in 1..Len(h)
    BY <1>1, <2>1, ConcatAnswered DEF NoStrayCalls
  <2>2. CASE i - Len(h) \in 1..Len(t)
    <3>1. u[i] = t[i - Len(h)]
      <4>1. Len(h) + (i - Len(h)) = i
        BY <1>1
      <4> QED BY <1>1, <2>2, <4>1
    <3>2. u[i].kind = "assistant" => u[i].calls = {}
      BY <2>2, <3>1
    <3> QED BY <1>1, <3>2, AnsweredFacts
  <2> QED BY <1>1, <2>1, <2>2
<1> QED BY <1>1, <1>2 DEF NoStrayCalls

LEMMA PushAccepts ==
  ASSUME NEW h \in Seq(Messages), NEW t \in Seq(Messages), Accepts(h),
         \A i \in 1..Len(t) :
           t[i].kind # "result" /\ (t[i].kind = "assistant" => t[i].calls = {})
  PROVE  Accepts(h \o t)
<1> PICK u : u = h \o t
  OBVIOUS
<1>1. /\ u \in Seq(Messages) /\ DOMAIN u = 1..Len(u) /\ DOMAIN h = 1..Len(h)
      /\ \A i \in 1..Len(h) : u[i] = h[i]
      /\ \A i \in 1..Len(t) : u[Len(h) + i] = t[i]
      /\ \A i \in 1..Len(u) : i \in 1..Len(h) \/ i - Len(h) \in 1..Len(t)
      /\ Len(h) \in Nat
  BY ConcatFacts
<1>2. NoStrayCalls(u)
  <2>1. NoStrayCalls(h)
    BY DEF Accepts, NoStrayCalls
  <2> QED BY <2>1, PushCalls
<1>3. ASSUME NEW i \in 1..Len(u) PROVE ~StrayResult(u, i)
  <2>1. CASE i \in 1..Len(h)
    <3>1. ~StrayResult(h, i) /\ u[i] = h[i]
      BY <1>1, <2>1 DEF Accepts
    <3>2. \A j : Answers(u, i, j) <=> Answers(h, i, j)
      BY <2>1, ConcatAnswers
    <3> QED BY <3>1, <3>2 DEF StrayResult
  <2>2. CASE i - Len(h) \in 1..Len(t)
    <3>1. u[i] = t[i - Len(h)]
      <4>1. Len(h) + (i - Len(h)) = i
        BY <1>1
      <4> QED BY <1>1, <2>2, <4>1
    <3> QED BY <2>2, <3>1 DEF StrayResult
  <2> QED BY <1>1, <2>1, <2>2
<1> QED BY <1>1, <1>2, <1>3 DEF Accepts, NoStrayCalls

LEMMA PushKeeps ==
  ASSUME NEW h \in Seq(Messages), NEW t \in Seq(Messages), NEW j \in 1..Len(h)
  PROVE  /\ Whole(h, j) => Intact(h \o t, h[j], ResultsOf(h, j))
         /\ Said(h[j]) => Heard(h \o t, h[j])
<1> PICK u : u = h \o t
  OBVIOUS
<1>1. u[j] = h[j] /\ j \in DOMAIN u
  BY ConcatFacts
<1>2. ResultsOf(h, j) \subseteq ResultsOf(u, j)
  BY ConcatAnswered
<1> QED BY <1>1, <1>2 DEF Intact, Heard

----------------------------------------------------------------------------
(* The compaction.                                                         *)

\* c is a summary of the first s messages and the rest of h.
Rest(c, h, s) ==
  /\ c \in Seq(Messages) /\ Len(c) = 1 + Len(h) - s
  /\ c[1] = Summary
  /\ \A i \in 2..Len(c) : c[i] = h[s + i - 1]

LEMMA CompactRest ==
  ASSUME NEW h \in Seq(Messages), NEW keep \in Nat
  PROVE  \/ Compact(h, keep) = h
         \/ \E s \in 1..Len(h) : Boundary(h[s]) /\ Rest(Compact(h, keep), h, s)
<1> DEFINE split == Len(h) - keep
           S == {0} \cup {i \in 1..split : Boundary(h[i])}
           s == Aligned(h, split)
<1>1. CASE Len(h) <= keep
  BY <1>1 DEF Compact
<1>2. CASE ~(Len(h) <= keep)
  <2>1. split \in Nat /\ split <= Len(h) /\ Len(h) \in Nat
    BY <1>2
  <2>2. s \in S
    <3>1. S \subseteq 0..split /\ S # {}
      BY <2>1
    <3>2. s = LargestOf(S)
      BY DEF Aligned
    <3> HIDE DEF S, s, split
    <3> QED BY <2>1, <3>1, <3>2, Largest
  <2>3. Compact(h, keep) = IF s = 0 THEN h ELSE <<Summary>> \o SubSeq(h, s + 1, Len(h))
    BY <1>2 DEF Compact
  <2>4. CASE s = 0
    BY <2>3, <2>4
  <2>5. CASE s # 0
    <3>1. s \in 1..Len(h) /\ Boundary(h[s])
      BY <2>1, <2>2, <2>5
    <3> HIDE DEF s
    <3> PICK t : t = SubSeq(h, s + 1, Len(h))
      OBVIOUS
    <3> PICK c : c = <<Summary>> \o t
      OBVIOUS
    <3>2. /\ t \in Seq(Messages) /\ Len(t) = Len(h) - s
          /\ \A i \in 1..Len(h) - s : t[i] = h[s + i]
      <4>1. s + 1 \in Int /\ Len(h) \in Int /\ \A i \in s + 1..Len(h) : h[i] \in Messages
        BY <3>1
      <4>2. /\ t \in Seq(Messages)
            /\ Len(t) = IF s + 1 <= Len(h) THEN Len(h) - (s + 1) + 1 ELSE 0
            /\ \A i \in 1..Len(h) - (s + 1) + 1 : t[i] = h[s + 1 + i - 1]
        BY <4>1, SubSeqProperties
      <4>3. Len(t) = Len(h) - s
        BY <3>1, <4>2
      <4>4. ASSUME NEW i \in 1..Len(h) - s PROVE t[i] = h[s + i]
        <5>1. i \in 1..Len(h) - (s + 1) + 1 /\ s + 1 + i - 1 = s + i
          BY <3>1
        <5> QED BY <4>2, <5>1
      <4> QED BY <4>2, <4>3, <4>4
    <3>3. Summary \in Messages
      BY MessagesMade DEF Summary
    <3>4. /\ c \in Seq(Messages) /\ Len(c) = 1 + Len(t) /\ c[1] = Summary
          /\ \A i \in 1..Len(t) : c[1 + i] = t[i]
      <4> PICK m : m = Summary
        OBVIOUS
      <4>1. <<m>> \in Seq(Messages) /\ Len(<<m>>) = 1 /\ <<m>>[1] = m
        BY <3>3
      <4>2. c = <<m>> \o t
        OBVIOUS
      <4>3. /\ c \in Seq(Messages) /\ Len(c) = 1 + Len(t)
            /\ c[1] = <<m>>[1]
            /\ \A i \in 1..Len(t) : c[1 + i] = t[i]
        BY <3>2, <4>1, <4>2, ConcatFacts
      <4> QED BY <4>1, <4>3
    <3>5. Rest(c, h, s)
      <4>1. ASSUME NEW i \in 2..Len(c) PROVE c[i] = h[s + i - 1]
        <5>1. i - 1 \in 1..Len(t) /\ i - 1 \in 1..Len(h) - s /\ 1 + (i - 1) = i
              /\ s + (i - 1) = s + i - 1
          BY <3>1, <3>2, <3>4
        <5>2. c[1 + (i - 1)] = t[i - 1] /\ t[i - 1] = h[s + (i - 1)]
          BY <3>2, <3>4, <5>1
        <5> QED BY <5>1, <5>2
      <4>2. Len(c) = 1 + Len(h) - s
        BY <3>1, <3>2, <3>4
      <4> QED BY <3>4, <4>1, <4>2 DEF Rest
    <3> QED BY <2>3, <2>5, <3>1, <3>5
  <2> QED BY <2>4, <2>5
<1> QED BY <1>1, <1>2

\* The answers among the messages that stay are the same, and nothing that
\* stays answers what goes.
LEMMA RestAnswers ==
  ASSUME NEW h \in Seq(Messages), NEW s \in 1..Len(h), Boundary(h[s]), NEW c, Rest(c, h, s),
         NEW i \in s + 1..Len(h), NEW j
  PROVE  Answers(h, i, j) => j \in s + 1..Len(h) /\ Answers(c, i - s + 1, j - s + 1)
<1> SUFFICES ASSUME Answers(h, i, j)
             PROVE  j \in s + 1..Len(h) /\ Answers(c, i - s + 1, j - s + 1)
  OBVIOUS
<1>1. Len(c) = 1 + Len(h) - s /\ \A k \in 2..Len(c) : c[k] = h[s + k - 1]
  BY DEF Rest
<1>2. s \in Nat /\ Len(h) \in Nat /\ i \in Nat \ {0}
  OBVIOUS
<1>3. /\ h[i].kind = "result" /\ j \in 1..i - 1
      /\ h[j].kind = "assistant" /\ h[i].id \in h[j].calls
      /\ \A k \in j + 1..i - 1 : h[k].kind = "result"
  BY <1>2, AnswersFacts
<1>4. j \in s + 1..Len(h)
  <2>1. h[s].kind # "result" /\ (h[s].kind = "assistant" => h[s].calls = {})
    BY DEF Boundary
  <2>2. j # s
    BY <1>3, <2>1
  <2>3. ~(s \in j + 1..i - 1)
    BY <1>3, <2>1
  <2>4. ~(j < s)
    BY <1>2, <1>3, <2>3
  <2> QED BY <1>2, <1>3, <2>2, <2>4
<1>5. \A k \in s + 1..Len(h) : k - s + 1 \in 2..Len(c) /\ c[k - s + 1] = h[k]
  <2> SUFFICES ASSUME NEW k \in s + 1..Len(h)
               PROVE  k - s + 1 \in 2..Len(c) /\ c[k - s + 1] = h[k]
    OBVIOUS
  <2>1. k - s + 1 \in 2..Len(c) /\ s + (k - s + 1) - 1 = k
    BY <1>1, <1>2
  <2> QED BY <1>1, <2>1
<1>6. PICK i2 : i2 = i - s + 1
  OBVIOUS
<1>7. PICK j2 : j2 = j - s + 1
  OBVIOUS
<1>8. i2 \in Nat \ {0} /\ j2 \in 1..i2 - 1
  BY <1>2, <1>3, <1>4, <1>6, <1>7
<1>9. c[i2] = h[i] /\ c[j2] = h[j]
  BY <1>4, <1>5, <1>6, <1>7
<1>10. \A k \in j2 + 1..i2 - 1 : c[k].kind = "result"
  <2> SUFFICES ASSUME NEW k \in j2 + 1..i2 - 1 PROVE c[k].kind = "result"
    OBVIOUS
  <2>1. k \in Int /\ j \in Int /\ i \in Int /\ s \in Int /\ s < j /\ i <= Len(h)
        /\ j - s + 2 <= k /\ k <= i - s
    BY <1>2, <1>4, <1>6, <1>7
  <2>2. k + s - 1 \in j + 1..i - 1 /\ k + s - 1 \in s + 1..Len(h) /\ (k + s - 1) - s + 1 = k
    BY <1>2, <2>1
  <2>3. c[(k + s - 1) - s + 1] = h[k + s - 1]
    BY <1>5, <2>2
  <2> QED BY <1>3, <2>2, <2>3
<1>11. Answers(c, i2, j2)
  BY SMTT(30), <1>3, <1>8, <1>9, <1>10, AnswersFacts
<1> QED BY <1>4, <1>6, <1>7, <1>11

\* Where the messages of the rest are.
RestAt(c, h, s) ==
  /\ c \in Seq(Messages) /\ DOMAIN c = 1..Len(c) /\ 1 \in 1..Len(c)
  /\ c[1] \in Messages /\ c[1].kind = "assistant" /\ c[1].n = 0 /\ c[1].calls = {}
  /\ \A i \in s + 1..Len(h) : i - s + 1 \in 2..Len(c) /\ c[i - s + 1] = h[i]
  /\ \A i \in 2..Len(c) : s + i - 1 \in s + 1..Len(h) /\ c[i] = h[s + i - 1]
                          /\ (s + i - 1) - s + 1 = i

LEMMA RestFacts ==
  ASSUME NEW h \in Seq(Messages), NEW s \in 1..Len(h), NEW c, Rest(c, h, s)
  PROVE  RestAt(c, h, s)
<1>1. /\ c \in Seq(Messages) /\ Len(c) = 1 + Len(h) - s
      /\ c[1] = Summary
      /\ \A i \in 2..Len(c) : c[i] = h[s + i - 1]
  BY DEF Rest
<1>2. Len(h) \in Nat /\ s \in Nat /\ DOMAIN c = 1..Len(c) /\ 1 \in 1..Len(c)
  BY <1>1
<1>3. c[1] \in Messages /\ c[1].kind = "assistant" /\ c[1].n = 0 /\ c[1].calls = {}
  <2>1. Summary.kind = "assistant" /\ Summary.n = 0 /\ Summary.calls = {}
    BY DEF Summary, Assistant
  <2> QED BY <1>1, <1>2, <2>1
<1>4. ASSUME NEW i \in 2..Len(c)
      PROVE  s + i - 1 \in s + 1..Len(h) /\ c[i] = h[s + i - 1] /\ (s + i - 1) - s + 1 = i
  BY <1>1, <1>2
<1>5. ASSUME NEW i \in s + 1..Len(h)
      PROVE  i - s + 1 \in 2..Len(c) /\ c[i - s + 1] = h[i]
  <2>1. i - s + 1 \in 2..Len(c) /\ s + (i - s + 1) - 1 = i
    BY <1>1, <1>2
  <2> QED BY <1>1, <2>1
<1> QED BY <1>1, <1>2, <1>3, <1>4, <1>5 DEF RestAt

\* What a provider accepts it accepts compacted.
LEMMA RestAccepts ==
  ASSUME NEW h \in Seq(Messages), Accepts(h), NEW s \in 1..Len(h), Boundary(h[s]),
         NEW c, Rest(c, h, s)
  PROVE  Accepts(c)
<1>1. /\ c \in Seq(Messages) /\ DOMAIN c = 1..Len(c)
      /\ c[1].kind = "assistant" /\ c[1].calls = {}
      /\ \A i \in 2..Len(c) : s + i - 1 \in s + 1..Len(h) /\ c[i] = h[s + i - 1]
                              /\ (s + i - 1) - s + 1 = i
  BY RestFacts DEF RestAt
<1>2. DOMAIN h = 1..Len(h) /\ s \in Nat /\ Len(h) \in Nat
  OBVIOUS
<1>3. ~StrayResult(c, 1) /\ ~StrayCalls(c, 1)
  BY <1>1, AnsweredFacts DEF StrayResult
<1>4. ASSUME NEW i \in 2..Len(c) PROVE ~StrayResult(c, i)
  <2> SUFFICES ASSUME c[i].kind = "result"
               PROVE  \E j \in 1..i - 1 : Answers(c, i, j)
    BY DEF StrayResult
  <2>1. PICK k : k = s + i - 1
    OBVIOUS
  <2>2. k \in s + 1..Len(h) /\ h[k].kind = "result" /\ k - s + 1 = i /\ k \in DOMAIN h
    BY <1>1, <1>2, <2>1
  <2>3. PICK j \in 1..k - 1 : Answers(h, k, j)
    BY <2>2 DEF Accepts, StrayResult
  <2>4. Answers(c, k - s + 1, j - s + 1)
    BY <2>2, <2>3, RestAnswers
  <2>5. PICK j2 : j2 = j - s + 1
    OBVIOUS
  <2>6. Answers(c, i, j2)
    BY <2>2, <2>4, <2>5
  <2>7. j2 \in 1..i - 1
    <3>1. i \in Nat \ {0}
      BY <1>1
    <3> QED BY <2>6, <3>1, AnswersFacts
  <2> QED BY <2>6, <2>7
<1>5. ASSUME NEW i \in 2..Len(c) PROVE ~StrayCalls(c, i)
  <2>1. PICK k : k = s + i - 1
    OBVIOUS
  <2>2. k \in s + 1..Len(h) /\ c[i] = h[k] /\ k - s + 1 = i /\ k \in DOMAIN h
    BY <1>1, <1>2, <2>1
  <2> SUFFICES ASSUME c[i].kind = "assistant", NEW id \in c[i].calls
               PROVE  id \in Answered(c, i)
    BY <1>1, AnsweredFacts DEF StrayCalls
  <2>3. Answered(h, k) = h[k].calls
    BY <2>2 DEF Accepts, StrayCalls
  <2>4. PICK m \in 1..Len(h) : Answers(h, m, k) /\ id = h[m].id
    BY <2>2, <2>3, AnsweredFacts
  <2>5. k \in 1..m - 1
    <3>1. m \in Nat \ {0}
      OBVIOUS
    <3> QED BY <2>4, <3>1, AnswersFacts
  <2>6. m \in s + 1..Len(h)
    BY <1>2, <2>2, <2>5
  <2>7. Answers(c, m - s + 1, k - s + 1)
    BY <2>4, <2>6, RestAnswers
  <2>8. m - s + 1 \in 2..Len(c) /\ c[m - s + 1] = h[m]
    BY <2>6, RestFacts DEF RestAt
  <2>9. PICK m2 : m2 = m - s + 1
    OBVIOUS
  <2>10. m2 \in 1..Len(c) /\ c[m2].id = id /\ Answers(c, m2, i)
    BY <2>2, <2>4, <2>7, <2>8, <2>9
  <2> QED BY <1>1, <2>10, AnsweredFacts
<1>6. \A i \in 1..Len(c) : i = 1 \/ i \in 2..Len(c)
  OBVIOUS
<1> QED BY <1>1, <1>3, <1>4, <1>5, <1>6 DEF Accepts

----------------------------------------------------------------------------
(* Whose a call or a result is.                                            *)

\* Calls and results have the number of a message that was made, what is no
\* result has its own number, and results come after their message with only
\* results between.
Owned(h, k) ==
  \A i \in DOMAIN h :
    /\ h[i].n <= k
    /\ h[i].kind = "result" \/ (h[i].kind = "assistant" /\ h[i].calls # {}) => h[i].n # 0
Single(h) ==
  \A i, j \in DOMAIN h :
    h[i].kind # "result" /\ h[j].kind # "result" /\ h[i].n = h[j].n /\ h[i].n # 0 => i = j
Follow(h) ==
  \A i, j \in DOMAIN h :
    h[i].kind = "result" /\ h[j].kind = "assistant" /\ h[i].n = h[j].n =>
      j < i /\ \A m \in j + 1..i - 1 : h[m].kind = "result"
Numbered(h, k) == Owned(h, k) /\ Single(h) /\ Follow(h)

LEMMA NumberedAt ==
  ASSUME NEW h, NEW k, Numbered(h, k), DOMAIN h = 1..Len(h),
         NEW a \in 1..Len(h), NEW b \in 1..Len(h)
  PROVE  /\ h[a].n <= k
         /\ h[a].kind = "result" \/ (h[a].kind = "assistant" /\ h[a].calls # {}) => h[a].n # 0
         /\ h[a].kind # "result" /\ h[b].kind # "result" /\ h[a].n = h[b].n /\ h[a].n # 0
              => a = b
         /\ h[a].kind = "result" /\ h[b].kind = "assistant" /\ h[a].n = h[b].n
              => b < a /\ \A m \in b + 1..a - 1 : h[m].kind = "result"
<1>1. a \in DOMAIN h /\ b \in DOMAIN h
  OBVIOUS
<1> QED BY <1>1 DEF Numbered, Owned, Single, Follow

\* What is left of a conversation, with or without its calls.
Within(at, r, h) ==
  /\ Len(r) \in Nat /\ Len(h) \in Nat /\ DOMAIN r = 1..Len(r) /\ DOMAIN h = 1..Len(h)
  /\ \A i \in 1..Len(r) :
       /\ at[i] \in 1..Len(h)
       /\ r[i].kind = h[at[i]].kind /\ r[i].n = h[at[i]].n
       /\ h[at[i]].kind = "assistant" => r[i].calls \subseteq h[at[i]].calls
  /\ \A i, j \in 1..Len(r) : i < j <=> at[i] < at[j]

LEMMA NumberedWithin ==
  ASSUME NEW h, NEW k, Numbered(h, k), NEW r, NEW at, Within(at, r, h)
  PROVE  Numbered(r, k)
<1>1. /\ Len(r) \in Nat /\ Len(h) \in Nat /\ DOMAIN r = 1..Len(r) /\ DOMAIN h = 1..Len(h)
      /\ \A i \in 1..Len(r) :
           /\ at[i] \in 1..Len(h)
           /\ r[i].kind = h[at[i]].kind /\ r[i].n = h[at[i]].n
           /\ h[at[i]].kind = "assistant" => r[i].calls \subseteq h[at[i]].calls
      /\ \A i, j \in 1..Len(r) : i < j <=> at[i] < at[j]
  BY DEF Within
<1>2. Owned(r, k)
  <2> SUFFICES ASSUME NEW i \in 1..Len(r)
               PROVE  /\ r[i].n <= k
                      /\ r[i].kind = "result" \/ (r[i].kind = "assistant" /\ r[i].calls # {})
                           => r[i].n # 0
    BY <1>1 DEF Owned
  <2>1. /\ h[at[i]].n <= k
        /\ h[at[i]].kind = "result" \/ (h[at[i]].kind = "assistant" /\ h[at[i]].calls # {})
             => h[at[i]].n # 0
    BY <1>1 DEF Numbered, Owned
  <2> QED BY <1>1, <2>1
<1>3. Single(r)
  <2> SUFFICES ASSUME NEW i \in 1..Len(r), NEW j \in 1..Len(r), r[i].kind # "result",
                      r[j].kind # "result", r[i].n = r[j].n, r[i].n # 0
               PROVE  i = j
    BY <1>1 DEF Single
  <2>1. at[i] = at[j]
    BY <1>1 DEF Numbered, Single
  <2>2. ~(i < j) /\ ~(j < i)
    BY <1>1, <2>1
  <2> QED BY <1>1, <2>2
<1>4. Follow(r)
  <2> SUFFICES ASSUME NEW i \in 1..Len(r), NEW j \in 1..Len(r), r[i].kind = "result",
                      r[j].kind = "assistant", r[i].n = r[j].n
               PROVE  j < i /\ \A m \in j + 1..i - 1 : r[m].kind = "result"
    BY <1>1 DEF Follow
  <2>1. at[j] < at[i] /\ \A m \in at[j] + 1..at[i] - 1 : h[m].kind = "result"
    BY <1>1 DEF Numbered, Follow
  <2>2. j < i
    BY <1>1, <2>1
  <2>3. ASSUME NEW m \in j + 1..i - 1 PROVE r[m].kind = "result"
    <3>1. m \in 1..Len(r) /\ j < m /\ m < i
      BY <1>1, <2>2
    <3>2. at[j] < at[m] /\ at[m] < at[i] /\ at[j] \in Nat /\ at[m] \in Nat /\ at[i] \in Nat
      BY <1>1, <3>1
    <3>3. at[m] \in at[j] + 1..at[i] - 1
      BY <3>2
    <3> QED BY <1>1, <2>1, <3>1, <3>3
  <2> QED BY <2>2, <2>3
<1> QED BY <1>2, <1>3, <1>4 DEF Numbered

LEMMA NumberedRepaired ==
  ASSUME NEW h \in Seq(Messages), NEW k, Numbered(h, k), NEW r, NEW at, Repairs(at, r, h)
  PROVE  Numbered(r, k)
<1>1. Within(at, r, h)
  BY RepairsFacts DEF Within
<1> QED BY <1>1, NumberedWithin

LEMMA NumberedPrefix ==
  ASSUME NEW h \in Seq(Messages), NEW k, Numbered(h, k), NEW n \in Int, n <= Len(h)
  PROVE  SubSeq(h, 1, n) \in Seq(Messages) /\ Numbered(SubSeq(h, 1, n), k)
<1> PICK r : r = SubSeq(h, 1, n)
  OBVIOUS
<1>1. Len(h) \in Nat /\ DOMAIN h = 1..Len(h) /\ \A i \in 1..n : h[i] \in Messages
  OBVIOUS
<1>2. /\ r \in Seq(Messages)
      /\ Len(r) = IF 1 <= n THEN n - 1 + 1 ELSE 0
      /\ \A i \in 1..n - 1 + 1 : r[i] = h[1 + i - 1]
  BY <1>1, SubSeqProperties
<1>3. /\ Len(r) \in Nat /\ DOMAIN r = 1..Len(r)
      /\ \A i \in 1..Len(r) : i \in 1..Len(h) /\ r[i] = h[i]
  BY <1>1, <1>2
<1> DEFINE at == [i \in 1..Len(r) |-> i]
<1>4. \A i \in 1..Len(r) : at[i] = i
  OBVIOUS
<1> HIDE DEF at
<1>5. Within(at, r, h)
  BY <1>1, <1>3, <1>4 DEF Within
<1> QED BY <1>2, <1>5, NumberedWithin

LEMMA NumberedPicked ==
  ASSUME NEW h \in Seq(Messages), NEW k, Numbered(h, k), NEW K
  PROVE  Picked(h, K) \in Seq(Messages) /\ Numbered(Picked(h, K), k)
<1> PICK r : r = Picked(h, K)
  OBVIOUS
<1>1. Len(h) \in Nat /\ DOMAIN h = 1..Len(h) /\ \A i \in 1..Len(h) : h[i] \in Messages
  OBVIOUS
<1>2. PICK at : Picks(at, r, h, K)
  BY <1>1, PickedPicks
<1>3. /\ r \in Seq({h[i] : i \in K \cap 1..Len(h)})
      /\ at \in [1..Len(r) -> K \cap 1..Len(h)]
      /\ \A i \in 1..Len(r) : r[i] = h[at[i]]
      /\ \A i, j \in 1..Len(r) : i < j => at[i] < at[j]
  BY <1>2 DEF Picks
<1>4. r \in Seq(Messages)
  <2>1. {h[i] : i \in K \cap 1..Len(h)} \subseteq Messages
    BY <1>1
  <2> QED BY <1>3, <2>1, SeqMonotonic
<1>5. Len(r) \in Nat /\ DOMAIN r = 1..Len(r)
  BY <1>4
<1>6. ASSUME NEW i \in 1..Len(r), NEW j \in 1..Len(r), at[i] < at[j] PROVE i < j
  <2>1. at[i] \in Nat /\ at[j] \in Nat
    BY <1>3
  <2>2. ~(j < i) /\ j # i
    BY <1>3, <1>6, <2>1
  <2> QED BY <1>5, <2>2
<1>7. Within(at, r, h)
  BY <1>1, <1>3, <1>5, <1>6 DEF Within
<1> QED BY <1>4, <1>7, NumberedWithin

\* New messages: the first may have calls, under a number of its own.
Newer(t, k, k2) ==
  /\ t \in Seq(Messages)
  /\ \A i \in 1..Len(t) :
       /\ t[i].kind # "result"
       /\ \/ t[i].n = 0 /\ (t[i].kind = "assistant" => t[i].calls = {})
          \/ i = 1 /\ t[i].n \in k + 1..k2

LEMMA NumberedNewer ==
  ASSUME NEW h \in Seq(Messages), NEW k \in Nat, Numbered(h, k), NEW k2 \in Nat, k <= k2,
         NEW t, Newer(t, k, k2)
  PROVE  h \o t \in Seq(Messages) /\ Numbered(h \o t, k2)
<1>1. /\ t \in Seq(Messages)
      /\ \A i \in 1..Len(t) :
           /\ t[i].kind # "result"
           /\ \/ t[i].n = 0 /\ (t[i].kind = "assistant" => t[i].calls = {})
              \/ i = 1 /\ t[i].n \in k + 1..k2
  BY DEF Newer
<1>2. PICK u : u = h \o t
  OBVIOUS
<1>3. /\ u \in Seq(Messages) /\ Len(h) \in Nat /\ DOMAIN h = 1..Len(h) /\ DOMAIN u = 1..Len(u)
      /\ \A i \in 1..Len(h) : u[i] = h[i]
      /\ \A i \in 1..Len(t) : u[Len(h) + i] = t[i]
      /\ \A i \in 1..Len(u) : i \in 1..Len(h) \/ i - Len(h) \in 1..Len(t)
  BY <1>1, <1>2, ConcatFacts
<1>4. \A i \in 1..Len(u) :
        \/ i \in 1..Len(h) /\ u[i] = h[i]
        \/ i - Len(h) \in 1..Len(t) /\ u[i] = t[i - Len(h)]
  <2> SUFFICES ASSUME NEW i \in 1..Len(u), i - Len(h) \in 1..Len(t)
               PROVE  u[i] = t[i - Len(h)]
    BY <1>3
  <2>1. Len(h) + (i - Len(h)) = i
    BY <1>3
  <2> QED BY <1>3, <2>1
<1>5. \A i \in 1..Len(h) :
        /\ h[i].n <= k /\ h[i].n \in Nat
        /\ h[i].kind = "result" \/ (h[i].kind = "assistant" /\ h[i].calls # {}) => h[i].n # 0
  <2>1. \A i \in 1..Len(h) : h[i].n \in Nat
    BY MessageFacts
  <2> QED BY <1>3, <2>1 DEF Numbered, Owned
<1>6. \A i \in 1..Len(u) :
        \/ i \in 1..Len(h) /\ u[i] = h[i]
        \/ /\ i \notin 1..Len(h) /\ u[i].kind # "result"
           /\ \/ u[i].n = 0 /\ (u[i].kind = "assistant" => u[i].calls = {})
              \/ i = Len(h) + 1 /\ u[i].n \in k + 1..k2
  <2> SUFFICES ASSUME NEW i \in 1..Len(u), i - Len(h) \in 1..Len(t), i \notin 1..Len(h)
               PROVE  /\ u[i].kind # "result"
                      /\ \/ u[i].n = 0 /\ (u[i].kind = "assistant" => u[i].calls = {})
                         \/ i = Len(h) + 1 /\ u[i].n \in k + 1..k2
    BY <1>3, <1>4
  <2>1. u[i] = t[i - Len(h)]
    BY <1>4
  <2>2. i - Len(h) = 1 => i = Len(h) + 1
    BY <1>3
  <2> QED BY <1>1, <2>1, <2>2
<1>7. Owned(u, k2)
  <2> SUFFICES ASSUME NEW i \in 1..Len(u)
               PROVE  /\ u[i].n <= k2
                      /\ u[i].kind = "result" \/ (u[i].kind = "assistant" /\ u[i].calls # {})
                           => u[i].n # 0
    BY <1>3 DEF Owned
  <2> QED BY <1>5, <1>6
<1>8. Single(u)
  <2> SUFFICES ASSUME NEW i \in 1..Len(u), NEW j \in 1..Len(u), u[i].kind # "result",
                      u[j].kind # "result", u[i].n = u[j].n, u[i].n # 0
               PROVE  i = j
    BY <1>3 DEF Single
  <2>1. CASE i \in 1..Len(h) /\ j \in 1..Len(h)
    BY <1>3, <2>1 DEF Numbered, Single
  <2>2. CASE i \in 1..Len(h) /\ j \notin 1..Len(h)
    <3>1. u[i].n <= k /\ u[j].n \in k + 1..k2
      BY <1>3, <1>5, <1>6, <2>2
    <3> QED BY <3>1
  <2>3. CASE i \notin 1..Len(h) /\ j \in 1..Len(h)
    <3>1. u[j].n <= k /\ u[i].n \in k + 1..k2
      BY <1>3, <1>5, <1>6, <2>3
    <3> QED BY <3>1
  <2>4. CASE i \notin 1..Len(h) /\ j \notin 1..Len(h)
    BY <1>6, <2>4
  <2> QED BY <2>1, <2>2, <2>3, <2>4
<1>9. Follow(u)
  <2> SUFFICES ASSUME NEW i \in 1..Len(u), NEW j \in 1..Len(u), u[i].kind = "result",
                      u[j].kind = "assistant", u[i].n = u[j].n
               PROVE  j < i /\ \A m \in j + 1..i - 1 : u[m].kind = "result"
    BY <1>3 DEF Follow
  <2>1. i \in 1..Len(h) /\ u[i] = h[i]
    BY <1>6
  <2>2. h[i].n \in 1..k
    BY <1>5, <2>1
  <2>3. j \in 1..Len(h) /\ u[j] = h[j]
    BY <1>6, <2>1, <2>2
  <2>4. j < i /\ \A m \in j + 1..i - 1 : h[m].kind = "result"
    BY <1>3, <2>1, <2>3 DEF Numbered, Follow
  <2>5. ASSUME NEW m \in j + 1..i - 1 PROVE u[m].kind = "result"
    <3>1. m \in 1..Len(h)
      BY <1>3, <2>1, <2>3
    <3> QED BY <1>3, <2>4, <3>1
  <2> QED BY <2>4, <2>5
<1> QED BY <1>2, <1>3, <1>7, <1>8, <1>9 DEF Numbered

\* The results of the last message of its kind.
LEMMA NumberedResults ==
  ASSUME NEW h \in Seq(Messages), NEW k \in Nat, Numbered(h, k), NEW p \in 1..Len(h),
         h[p].kind = "assistant", h[p].calls # {},
         \A m \in p + 1..Len(h) : h[m].kind = "result",
         NEW t \in Seq(Messages),
         \A i \in 1..Len(t) : t[i].kind = "result" /\ t[i].n = h[p].n
  PROVE  h \o t \in Seq(Messages) /\ Numbered(h \o t, k)
<1>1. PICK u : u = h \o t
  OBVIOUS
<1>2. /\ u \in Seq(Messages) /\ Len(h) \in Nat /\ DOMAIN h = 1..Len(h) /\ DOMAIN u = 1..Len(u)
      /\ \A i \in 1..Len(h) : u[i] = h[i]
      /\ \A i \in 1..Len(t) : u[Len(h) + i] = t[i]
      /\ \A i \in 1..Len(u) : i \in 1..Len(h) \/ i - Len(h) \in 1..Len(t)
  BY <1>1, ConcatFacts
<1>3. h[p].n # 0 /\ h[p].n <= k
  BY <1>2 DEF Numbered, Owned
<1>4. \A i \in 1..Len(u) :
        \/ i \in 1..Len(h) /\ u[i] = h[i]
        \/ i \notin 1..Len(h) /\ u[i].kind = "result" /\ u[i].n = h[p].n
  <2> SUFFICES ASSUME NEW i \in 1..Len(u), i \notin 1..Len(h)
               PROVE  u[i].kind = "result" /\ u[i].n = h[p].n
    BY <1>2
  <2>1. i - Len(h) \in 1..Len(t) /\ Len(h) + (i - Len(h)) = i
    BY <1>2
  <2>2. u[i] = t[i - Len(h)]
    BY <1>2, <2>1
  <2> QED BY <2>1, <2>2
<1>5. Owned(u, k)
  <2> SUFFICES ASSUME NEW i \in 1..Len(u)
               PROVE  /\ u[i].n <= k
                      /\ u[i].kind = "result" \/ (u[i].kind = "assistant" /\ u[i].calls # {})
                           => u[i].n # 0
    BY <1>2 DEF Owned
  <2>1. CASE i \in 1..Len(h)
    BY <1>2, <2>1, NumberedAt
  <2>2. CASE i \notin 1..Len(h)
    BY <1>3, <1>4, <2>2
  <2> QED BY <2>1, <2>2
<1>6. Single(u)
  <2> SUFFICES ASSUME NEW i \in 1..Len(u), NEW j \in 1..Len(u), u[i].kind # "result",
                      u[j].kind # "result", u[i].n = u[j].n, u[i].n # 0
               PROVE  i = j
    BY <1>2 DEF Single
  <2>1. i \in 1..Len(h) /\ u[i] = h[i]
    BY <1>4
  <2>2. j \in 1..Len(h) /\ u[j] = h[j]
    BY <1>4
  <2>3. h[i].kind # "result" /\ h[j].kind # "result" /\ h[i].n = h[j].n /\ h[i].n # 0
    BY <2>1, <2>2
  <2> QED BY <1>2, <2>1, <2>2, <2>3, NumberedAt
<1>7. Follow(u)
  <2> SUFFICES ASSUME NEW i \in 1..Len(u), NEW j \in 1..Len(u), u[i].kind = "result",
                      u[j].kind = "assistant", u[i].n = u[j].n
               PROVE  j < i /\ \A m \in j + 1..i - 1 : u[m].kind = "result"
    BY <1>2 DEF Follow
  <2>1. j \in 1..Len(h) /\ u[j] = h[j]
    BY <1>4
  <2>2. CASE i \in 1..Len(h)
    <3>1. u[i] = h[i]
      BY <1>2, <2>2
    <3>2. j < i /\ \A m \in j + 1..i - 1 : h[m].kind = "result"
      <4>1. h[i].kind = "result" /\ h[j].kind = "assistant" /\ h[i].n = h[j].n
        BY <2>1, <3>1
      <4> QED BY <1>2, <2>1, <2>2, <4>1, NumberedAt
    <3>3. ASSUME NEW m \in j + 1..i - 1 PROVE u[m].kind = "result"
      <4>1. m \in 1..Len(h)
        BY <1>2, <2>1, <2>2
      <4> QED BY <1>2, <3>2, <4>1
    <3> QED BY <3>2, <3>3
  <2>3. CASE i \notin 1..Len(h)
    <3>1. h[j].n = h[p].n
      BY <1>4, <2>1, <2>3
    <3>2. j = p
      <4>1. h[j].kind # "result" /\ h[p].kind # "result"
        BY <2>1
      <4> QED BY <1>2, <1>3, <2>1, <3>1, <4>1, NumberedAt
    <3>3. j < i
      BY <1>2, <2>1, <2>3
    <3>4. ASSUME NEW m \in j + 1..i - 1 PROVE u[m].kind = "result"
      <4>1. m \in 1..Len(u) /\ (m \in 1..Len(h) => m \in p + 1..Len(h))
        BY <1>2, <2>1, <3>2
      <4> QED BY <1>4, <4>1
    <3> QED BY <3>3, <3>4
  <2> QED BY <2>2, <2>3
<1> QED BY <1>1, <1>2, <1>5, <1>6, <1>7 DEF Numbered

LEMMA NumberedRest ==
  ASSUME NEW h \in Seq(Messages), NEW k \in Nat, Numbered(h, k), NEW s \in 1..Len(h),
         NEW c, Rest(c, h, s)
  PROVE  c \in Seq(Messages) /\ Numbered(c, k)
<1>1. /\ c \in Seq(Messages) /\ DOMAIN c = 1..Len(c)
      /\ c[1].kind = "assistant" /\ c[1].n = 0 /\ c[1].calls = {}
      /\ \A i \in 2..Len(c) : s + i - 1 \in s + 1..Len(h) /\ c[i] = h[s + i - 1]
                              /\ (s + i - 1) - s + 1 = i
  BY RestFacts DEF RestAt
<1>2. DOMAIN h = 1..Len(h) /\ s \in Nat /\ Len(h) \in Nat
  OBVIOUS
<1>3. \A i \in 1..Len(c) : i = 1 \/ (i \in 2..Len(c) /\ s + i - 1 \in 1..Len(h))
  BY <1>1, <1>2
<1>4. Owned(c, k)
  <2> SUFFICES ASSUME NEW i \in 1..Len(c)
               PROVE  /\ c[i].n <= k
                      /\ c[i].kind = "result" \/ (c[i].kind = "assistant" /\ c[i].calls # {})
                           => c[i].n # 0
    BY <1>1 DEF Owned
  <2>1. CASE i = 1
    BY <1>1, <2>1
  <2>2. CASE i # 1
    BY SMTT(30), <1>1, <1>2, <1>3, <2>2 DEF Numbered, Owned
  <2> QED BY <2>1, <2>2
<1>5. Single(c)
  <2> SUFFICES ASSUME NEW i \in 1..Len(c), NEW j \in 1..Len(c), c[i].kind # "result",
                      c[j].kind # "result", c[i].n = c[j].n, c[i].n # 0
               PROVE  i = j
    BY <1>1 DEF Single
  <2>1. i \in 2..Len(c) /\ j \in 2..Len(c)
    BY <1>1, <1>3
  <2>2. PICK a : a = s + i - 1
    OBVIOUS
  <2>3. PICK b : b = s + j - 1
    OBVIOUS
  <2>4. a \in 1..Len(h) /\ b \in 1..Len(h) /\ c[i] = h[a] /\ c[j] = h[b]
    BY <1>1, <1>3, <2>1, <2>2, <2>3
  <2>5. a = b
    BY <1>2, <2>4, NumberedAt
  <2> QED BY <1>2, <2>1, <2>2, <2>3, <2>5
<1>6. Follow(c)
  <2> SUFFICES ASSUME NEW i \in 1..Len(c), NEW j \in 1..Len(c), c[i].kind = "result",
                      c[j].kind = "assistant", c[i].n = c[j].n
               PROVE  j < i /\ \A m \in j + 1..i - 1 : c[m].kind = "result"
    BY <1>1 DEF Follow
  <2>1. i \in 2..Len(c) /\ c[i].n # 0
    BY <1>1, <1>3, <1>4 DEF Owned
  <2>2. j \in 2..Len(c)
    BY <1>1, <1>3, <2>1
  <2>3. PICK a : a = s + i - 1
    OBVIOUS
  <2>4. PICK b : b = s + j - 1
    OBVIOUS
  <2>5. a \in 1..Len(h) /\ b \in 1..Len(h) /\ c[i] = h[a] /\ c[j] = h[b]
    BY <1>1, <1>3, <2>1, <2>2, <2>3, <2>4
  <2>6. b < a /\ \A m \in b + 1..a - 1 : h[m].kind = "result"
    BY <1>2, <2>5 DEF Numbered, Follow
  <2>7. j < i
    BY <1>2, <2>1, <2>2, <2>3, <2>4, <2>6
  <2>8. ASSUME NEW m \in j + 1..i - 1 PROVE c[m].kind = "result"
    <3>1. m \in Int /\ i \in Int /\ j \in Int /\ a = s + i - 1 /\ b = s + j - 1
          /\ j + 1 <= m /\ m <= i - 1 /\ 2 <= j /\ i <= Len(c) /\ Len(c) \in Int
      BY <2>1, <2>2, <2>3, <2>4
    <3>2. m \in 2..Len(c)
      BY <3>1
    <3>3. PICK x : x = s + m - 1
      OBVIOUS
    <3>4. x \in b + 1..a - 1
      BY <1>2, <3>1, <3>3
    <3>5. c[m] = h[x]
      BY <1>1, <3>2, <3>3
    <3> QED BY <2>6, <3>4, <3>5
  <2> QED BY <2>7, <2>8
<1> QED BY <1>1, <1>4, <1>5, <1>6 DEF Numbered

\* A compaction takes an exchange whole or leaves it whole.
LEMMA RestExchange ==
  ASSUME NEW h \in Seq(Messages), NEW k \in Nat, Numbered(h, k), NEW s \in 1..Len(h),
         Boundary(h[s]), NEW c, Rest(c, h, s), NEW j \in 1..Len(h), Whole(h, j)
  PROVE  Intact(c, h[j], ResultsOf(h, j)) \/ Gone(c, h[j].n)
<1>0. RestAt(c, h, s)
  BY RestFacts
<1>1. /\ c \in Seq(Messages) /\ DOMAIN c = 1..Len(c) /\ c[1].n = 0
      /\ \A i \in s + 1..Len(h) : i - s + 1 \in 2..Len(c) /\ c[i - s + 1] = h[i]
      /\ \A i \in 2..Len(c) : s + i - 1 \in s + 1..Len(h) /\ c[i] = h[s + i - 1]
  BY <1>0 DEF RestAt
<1>2. DOMAIN h = 1..Len(h) /\ s \in Nat /\ Len(h) \in Nat
  OBVIOUS
<1>3. h[j].kind = "assistant" /\ h[j].calls # {}
  BY DEF Whole
<1>4. CASE s < j
  <2>1. PICK p : p = j - s + 1
    OBVIOUS
  <2>2. j \in s + 1..Len(h)
    BY <1>2, <1>4
  <2>3. p \in DOMAIN c /\ c[p] = h[j]
    BY <1>1, <2>1, <2>2
  <2>4. ASSUME NEW m \in ResultsOf(h, j) PROVE m \in ResultsOf(c, p)
    <3>1. PICK i \in 1..Len(h) : Answers(h, i, j) /\ m = h[i]
      BY <1>2, <2>4 DEF ResultsOf
    <3>2. j \in 1..i - 1
      <4>1. i \in Nat \ {0}
        OBVIOUS
      <4> QED BY <3>1, <4>1, AnswersFacts
    <3>3. i \in s + 1..Len(h)
      BY <1>2, <1>4, <3>2
    <3>4. Answers(c, i - s + 1, j - s + 1)
      BY <3>1, <3>3, RestAnswers
    <3>5. PICK q : q = i - s + 1
      OBVIOUS
    <3>6. q \in DOMAIN c /\ c[q] = m /\ Answers(c, q, p)
      BY <1>1, <2>1, <3>1, <3>3, <3>4, <3>5
    <3> QED BY <3>6 DEF ResultsOf
  <2> QED BY <2>3, <2>4 DEF Intact
<1>5. CASE ~(s < j)
  <2>1. h[s].kind # "result" /\ (h[s].kind = "assistant" => h[s].calls = {})
    BY DEF Boundary
  <2>2. j < s
    BY <1>2, <1>3, <1>5, <2>1
  <2>3. h[j].n # 0
    BY <1>2, <1>3 DEF Numbered, Owned
  <2>4. ASSUME NEW i \in s + 1..Len(h), h[i].n = h[j].n PROVE FALSE
    <3>1. CASE h[i].kind = "result"
      <4>1. \A m \in j + 1..i - 1 : h[m].kind = "result"
        BY <1>2, <1>3, <2>4, <3>1 DEF Numbered, Follow
      <4>2. s \in j + 1..i - 1
        BY <1>2, <2>2
      <4> QED BY <2>1, <4>1, <4>2
    <3>2. CASE h[i].kind # "result"
      <4>1. i = j
        BY <1>2, <1>3, <2>3, <2>4, <3>2 DEF Numbered, Single
      <4> QED BY <1>2, <2>2, <4>1
    <3> QED BY <3>1, <3>2
  <2>5. \A i \in 1..Len(c) : i = 1 \/ i \in 2..Len(c)
    OBVIOUS
  <2>6. ASSUME NEW i \in 2..Len(c) PROVE c[i].n # h[j].n
    <3>1. PICK a : a = s + i - 1
      OBVIOUS
    <3>2. a \in s + 1..Len(h) /\ c[i] = h[a]
      BY <1>1, <3>1
    <3> QED BY <2>4, <3>2
  <2>7. Gone(c, h[j].n)
    BY <1>1, <2>3, <2>5, <2>6 DEF Gone
  <2> QED BY <2>7
<1> QED BY <1>4, <1>5

LEMMA NumberedMore ==
  ASSUME NEW h \in Seq(Messages), NEW k \in Nat, NEW k2 \in Nat, k <= k2, Numbered(h, k)
  PROVE  Numbered(h, k2)
<1>1. \A i \in DOMAIN h : h[i].n \in Nat
  BY MessageFacts
<1>2. Owned(h, k2)
  BY <1>1 DEF Numbered, Owned
<1> QED BY <1>2 DEF Numbered

LEMMA NewerFacts ==
  ASSUME NEW k \in Nat, NEW k2 \in Nat
  PROVE  /\ Newer(<<>>, k, k2)
         /\ \A m \in Messages :
              m.kind # "result" /\ m.n \in k + 1..k2 =>
                /\ Newer(<<m>>, k, k2)
                /\ Newer(<<m, Error>>, k, k2)
         /\ \A text \in BOOLEAN :
              LET e == Assistant(0, text, {})
              IN /\ Newer(<<e>>, k, k2) /\ Newer(<<e, Error>>, k, k2)
                 /\ e \in Messages /\ e.kind = "assistant" /\ e.calls = {}
<1>1. \A e, f \in Messages : /\ <<e>> \in Seq(Messages) /\ Len(<<e>>) = 1 /\ <<e>>[1] = e
                             /\ <<e, f>> \in Seq(Messages) /\ Len(<<e, f>>) = 2
                             /\ <<e, f>>[1] = e /\ <<e, f>>[2] = f
  OBVIOUS
<1>2. <<>> \in Seq(Messages) /\ Len(<<>>) = 0
  OBVIOUS
<1>3. \A text \in BOOLEAN :
        LET e == Assistant(0, text, {})
        IN e \in Messages /\ e.kind = "assistant" /\ e.n = 0 /\ e.calls = {}
  BY MessagesMade
<1>4. Error \in Messages /\ Error.kind = "assistant" /\ Error.n = 0 /\ Error.calls = {}
  BY <1>3 DEF Error
<1>5. \A i \in 1..1 : i = 1
  OBVIOUS
<1>6. \A i \in 1..2 : i = 1 \/ i = 2
  OBVIOUS
<1>7. Newer(<<>>, k, k2)
  BY <1>2 DEF Newer
<1>8. ASSUME NEW m \in Messages, m.kind # "result",
             m.n \in k + 1..k2 \/ (m.n = 0 /\ (m.kind = "assistant" => m.calls = {}))
      PROVE  Newer(<<m>>, k, k2) /\ Newer(<<m, Error>>, k, k2)
  <2>1. PICK t : t = <<m>>
    OBVIOUS
  <2>2. PICK u : u = <<m, Error>>
    OBVIOUS
  <2>3. t \in Seq(Messages) /\ Len(t) = 1 /\ t[1] = m
    BY <1>1, <2>1
  <2>4. u \in Seq(Messages) /\ Len(u) = 2 /\ u[1] = m /\ u[2] = Error
    BY <1>1, <1>4, <2>2
  <2>5. Newer(t, k, k2)
    BY <1>5, <1>8, <2>3 DEF Newer
  <2>6. Newer(u, k, k2)
    BY <1>4, <1>6, <1>8, <2>4 DEF Newer
  <2> QED BY <2>1, <2>2, <2>5, <2>6
<1> QED BY <1>3, <1>7, <1>8

\* What the log is told it keeps numbered.
LEMMA TellNumbered ==
  ASSUME told \in Seq(Messages), NEW k \in Nat, Numbered(told, k), NEW k2 \in Nat, k <= k2,
         NEW t, Newer(t, k, k2), Tell(t)
  PROVE  told' \in Seq(Messages) /\ Numbered(told', k2)
<1>1. CASE parallel
  <2>1. told' = told
    BY <1>1 DEF Tell
  <2> QED BY <2>1, NumberedMore
<1>2. CASE ~parallel
  <2>1. told' = told \o t
    BY <1>2 DEF Tell
  <2> QED BY <2>1, NumberedNewer
<1> QED BY <1>1, <1>2

----------------------------------------------------------------------------
(* The inductive invariant.                                                *)

Types ==
  /\ parallel \in BOOLEAN /\ repeatIds \in BOOLEAN
  /\ history \in Seq(Messages) /\ told \in Seq(Messages)
  /\ stops \subseteq {"external", "signal"}
  /\ pc \in {"idle", "turn", "compacted", "stream", "tools"}
  /\ stage \in [Calls -> {"none", "hooks", "running", "after", "done"}]
  /\ closed \in BOOLEAN /\ woken \subseteq Calls
  /\ made \in 0..MaxMessages /\ rejected \in 0..MaxRejected
  /\ pc # "tools" => NoBatch

\* A batch is that of the last message. One by one, a call starts when those
\* before it are done.
Batch ==
  pc = "tools" =>
    /\ history # <<>> /\ Current.kind = "assistant" /\ Issued # {}
    /\ Current.calls = {IdOf(Current.n, k) : k \in Issued}
    /\ \A k \in Calls : stage[k] # "none" => k \in Issued
    /\ closed => Started = Issued \/ IsCancelled
    /\ ~parallel => \A k \in Started : \A j \in 1..k - 1 : stage[j] = "done"

\* The log ends with the message and the results that there are.
ToldBatch ==
  pc = "tools" /\ ~parallel =>
    \E p \in 1..Len(told) : told[p] = Current /\ SubSeq(told, p + 1, Len(told)) = Results

\* A rejected request leaves a history that is accepted, and a request is made
\* with none that lacks a result.
Repair ==
  /\ rejected \in {0, 1}
  /\ rejected = 1 => Accepts(history)
  /\ pc = "stream" => NoStrayCalls(history)
  /\ pc = "tools" => rejected = 0

ToolsInv ==
  /\ Types /\ Batch /\ ToldBatch /\ Repair
  /\ Numbered(history, made) /\ Numbered(told, made)

LEMMA InitTools == Init => ToolsInv
<1> SUFFICES ASSUME Init PROVE ToolsInv
  OBVIOUS
<1>1. /\ parallel \in BOOLEAN /\ repeatIds \in BOOLEAN
      /\ history = <<>> /\ told = <<>> /\ pc = "idle"
      /\ stage = [c \in Calls |-> "none"] /\ closed = FALSE /\ woken = {}
      /\ stops = {} /\ rejected = 0 /\ made = 0
  BY DEF Init, NoBatch
<1>2. MaxMessages \in Nat /\ MaxRejected \in Nat
  BY ToolExecAssumption
<1>3. Types
  <2>1. <<>> \in Seq(Messages)
    OBVIOUS
  <2>2. history \in Seq(Messages) /\ told \in Seq(Messages)
    BY <1>1, <2>1
  <2>3. stage \in [Calls -> {"none", "hooks", "running", "after", "done"}]
    BY <1>1
  <2>4. NoBatch
    BY <1>1 DEF NoBatch
  <2>5. stops \subseteq {"external", "signal"} /\ woken \subseteq Calls
    BY <1>1
  <2>6. made \in 0..MaxMessages /\ rejected \in 0..MaxRejected
    BY <1>1, <1>2
  <2> QED BY <1>1, <2>2, <2>3, <2>4, <2>5, <2>6 DEF Types
<1>4. DOMAIN <<>> = {}
  OBVIOUS
<1>5. Numbered(<<>>, 0)
  BY <1>4 DEF Numbered, Owned, Single, Follow
<1>6. Numbered(history, made) /\ Numbered(told, made)
  BY <1>1, <1>5
<1>7. Batch /\ ToldBatch /\ Repair
  BY <1>1 DEF Batch, ToldBatch, Repair
<1> QED BY <1>3, <1>6, <1>7 DEF ToolsInv

LEMMA InvFacts ==
  ASSUME ToolsInv
  PROVE  /\ history \in Seq(Messages) /\ told \in Seq(Messages)
         /\ Numbered(history, made) /\ Numbered(told, made)
         /\ made \in Nat /\ made + 1 \in Nat /\ made <= made + 1 /\ made + 1 \in made + 1..made + 1
         /\ MaxMessages \in Nat /\ MaxRejected \in Nat /\ MaxCalls \in Nat
         /\ made \in 0..MaxMessages /\ rejected \in 0..MaxRejected
         /\ made < MaxMessages => made + 1 \in 0..MaxMessages
         /\ pc # "tools" => NoBatch
         /\ parallel \in BOOLEAN /\ repeatIds \in BOOLEAN
BY ToolExecAssumption DEF ToolsInv, Types

\* A step to a state in which no batch is.
LEMMA Outside ==
  ASSUME ToolsInv, UNCHANGED setting, pc' \in {"idle", "turn", "compacted", "stream"},
         NoBatch', stops' \subseteq {"external", "signal"}, made' \in 0..MaxMessages,
         rejected' \in 0..MaxRejected, history' \in Seq(Messages), told' \in Seq(Messages),
         Numbered(history', made'), Numbered(told', made'), Repair'
  PROVE  ToolsInv'
<1>1. parallel' \in BOOLEAN /\ repeatIds' \in BOOLEAN
  BY DEF setting, ToolsInv, Types
<1>2. /\ stage' = [c \in Calls |-> "none"] /\ closed' = FALSE /\ woken' = {}
  BY DEF NoBatch
<1>3. stage' \in [Calls -> {"none", "hooks", "running", "after", "done"}]
  BY <1>2
<1>4. closed' \in BOOLEAN /\ woken' \subseteq Calls
  BY <1>2
<1>5. Types'
  BY <1>1, <1>3, <1>4 DEF Types
<1>6. Batch' /\ ToldBatch'
  BY DEF Batch, ToldBatch
<1> QED BY <1>5, <1>6 DEF ToolsInv

LEMMA SameBatch == ASSUME NoBatch, UNCHANGED batch PROVE NoBatch'
BY DEF NoBatch, batch

\* Everything but the calls: what it does to the conversation.
LEMMA PromptInv == ASSUME ToolsInv, Prompt PROVE ToolsInv'
<1>1. /\ pc = "idle" /\ made < MaxMessages /\ made' = made + 1
      /\ history' = history \o <<User(made + 1)>> /\ Tell(<<User(made + 1)>>)
      /\ pc' = "turn" /\ stops' = {} /\ UNCHANGED setting /\ UNCHANGED batch
      /\ rejected' = rejected
  BY DEF Prompt, Make, Push, setting, batch
<1> PICK t : t = <<User(made + 1)>>
  OBVIOUS
<1>2. Newer(t, made, made')
  <2>1. /\ User(made + 1) \in Messages /\ User(made + 1).kind # "result"
        /\ User(made + 1).n = made + 1
    BY InvFacts, MessagesMade
  <2> QED BY <1>1, <2>1, InvFacts, NewerFacts
<1>3. history' \in Seq(Messages) /\ Numbered(history', made')
  BY <1>1, <1>2, InvFacts, NumberedNewer
<1>4. told' \in Seq(Messages) /\ Numbered(told', made')
  BY <1>1, <1>2, InvFacts, TellNumbered
<1>5. rejected = 1 => Accepts(history')
  <2>1. rejected = 1 => Accepts(history)
    BY DEF ToolsInv, Repair
  <2>2. t \in Seq(Messages) /\ \A i \in 1..Len(t) : t[i].kind = "user"
    <3>1. User(made + 1) \in Messages /\ User(made + 1).kind = "user"
      BY InvFacts, MessagesMade
    <3> QED BY <3>1
  <2>3. \A i \in 1..Len(t) : t[i].kind # "result" /\ (t[i].kind = "assistant" => t[i].calls = {})
    BY <2>2
  <2> QED BY <1>1, <2>1, <2>2, <2>3, InvFacts, PushAccepts
<1>6. Repair'
  BY <1>1, <1>5 DEF ToolsInv, Repair
<1>7. NoBatch'
  BY <1>1, InvFacts, SameBatch
<1>8. made' \in 0..MaxMessages /\ rejected' \in 0..MaxRejected
  BY <1>1, InvFacts
<1> QED BY <1>1, <1>3, <1>4, <1>6, <1>7, <1>8, Outside

LEMMA CompactInv == ASSUME ToolsInv, CompactHistory PROVE ToolsInv'
<1>1. PICK keep \in KeepRecent : history' = Compact(history, keep)
  BY DEF CompactHistory
<1>2. /\ pc = "turn" /\ pc' = "compacted" /\ told' = told /\ stops' = stops
      /\ UNCHANGED setting /\ UNCHANGED batch /\ rejected' = rejected /\ made' = made
  BY DEF CompactHistory, setting, batch
<1>3. keep \in Nat
  BY ToolExecAssumption
<1>4. /\ history' \in Seq(Messages) /\ Numbered(history', made)
      /\ Accepts(history) => Accepts(history')
  <2>1. \/ history' = history
        \/ \E s \in 1..Len(history) : Boundary(history[s]) /\ Rest(history', history, s)
    BY <1>1, <1>3, InvFacts, CompactRest
  <2>2. CASE history' = history
    BY <2>2, InvFacts
  <2>3. ASSUME NEW s \in 1..Len(history), Boundary(history[s]), Rest(history', history, s)
        PROVE  /\ history' \in Seq(Messages) /\ Numbered(history', made)
               /\ Accepts(history) => Accepts(history')
    <3> PICK c : c = history'
      OBVIOUS
    <3>1. Rest(c, history, s)
      BY <2>3
    <3>2. c \in Seq(Messages) /\ Numbered(c, made)
      BY <2>3, <3>1, InvFacts, NumberedRest
    <3>3. Accepts(history) => Accepts(c)
      BY <2>3, <3>1, InvFacts, RestAccepts
    <3> QED BY <3>2, <3>3
  <2> QED BY <2>1, <2>2, <2>3
<1>5. told' \in Seq(Messages) /\ Numbered(told', made')
  BY <1>2, InvFacts
<1>6. Repair'
  BY <1>2, <1>4 DEF ToolsInv, Repair
<1>7. NoBatch'
  BY <1>2, InvFacts, SameBatch
<1>8. /\ made' \in 0..MaxMessages /\ rejected' \in 0..MaxRejected
      /\ stops' \subseteq {"external", "signal"} /\ Numbered(history', made')
  BY <1>2, <1>4, InvFacts DEF ToolsInv, Types
<1> QED BY <1>2, <1>4, <1>5, <1>6, <1>7, <1>8, Outside

LEMMA RequestInv == ASSUME ToolsInv, Request PROVE ToolsInv'
<1>1. /\ pc \in {"turn", "compacted"} /\ pc' = "stream" /\ history' = Sanitize(history)
      /\ told' = told /\ stops' = stops
      /\ UNCHANGED setting /\ UNCHANGED batch /\ rejected' = rejected /\ made' = made
  BY DEF Request, setting, batch
<1>2. PICK r : r = history'
  OBVIOUS
<1>3. PICK at : Repairs(at, r, history)
  BY <1>1, <1>2, InvFacts, SanitizeRepairs
<1>4. r \in Seq(Messages) /\ Numbered(r, made)
  <2>1. r \in Seq(Messages)
    BY <1>3 DEF Repairs
  <2> QED BY <1>3, <2>1, InvFacts, NumberedRepaired
<1>5. NoStrayCalls(r)
  BY <1>3, InvFacts, RepairsCalls
<1>6. Accepts(history) => Accepts(r)
  <2>1. Accepts(history) => NoStrayCalls(history)
    BY DEF Accepts, NoStrayCalls
  <2> QED BY <1>3, <2>1, InvFacts, RepairsAccepts
<1>7. Repair'
  BY <1>1, <1>2, <1>5, <1>6 DEF ToolsInv, Repair
<1>8. NoBatch'
  BY <1>1, InvFacts, SameBatch
<1>9. /\ made' \in 0..MaxMessages /\ rejected' \in 0..MaxRejected
      /\ stops' \subseteq {"external", "signal"}
      /\ history' \in Seq(Messages) /\ Numbered(history', made')
      /\ told' \in Seq(Messages) /\ Numbered(told', made')
  BY <1>1, <1>2, <1>4, InvFacts DEF ToolsInv, Types
<1> QED BY <1>1, <1>7, <1>8, <1>9, Outside

LEMMA IdFacts ==
  ASSUME NEW n \in Nat, NEW j \in Nat, NEW k \in Nat
  PROVE  IdOf(n, k) \in CallIds /\ IdOf(n, k)[2] = k /\ (IdOf(n, j) = IdOf(n, k) => j = k)
BY DEF IdOf, CallIds

LEMMA RepliesFacts ==
  ASSUME ToolsInv, NEW m \in Replies
  PROVE  /\ m \in Messages /\ m.kind = "assistant" /\ m.n = made + 1
         /\ \E N \in 0..MaxCalls : m.calls = {IdOf(made + 1, c) : c \in 1..N}
<1> DEFINE Reply(text, k) == Assistant(made + 1, text, {IdOf(made + 1, c) : c \in 1..k})
<1>0. Replies = {Reply(text, k) : text \in BOOLEAN, k \in 0..MaxCalls}
  BY DEF Replies
<1>1. PICK text \in BOOLEAN, N \in 0..MaxCalls : m = Reply(text, N)
  <2> HIDE DEF Reply
  <2> QED BY <1>0
<1>2. PICK calls : calls = {IdOf(made + 1, c) : c \in 1..N}
  OBVIOUS
<1>3. calls \subseteq CallIds
  <2>1. \A c \in 1..N : IdOf(made + 1, c) \in CallIds
    BY InvFacts, IdFacts
  <2> QED BY <1>2, <2>1
<1>4. m \in Messages /\ m.kind = "assistant" /\ m.n = made + 1 /\ m.calls = calls
  BY SMTT(30), <1>1, <1>2, <1>3, InvFacts, MessagesMade
<1> QED BY <1>2, <1>4

\* The message of an answer is the last one, and none of its calls has started.
LEMMA AnswerInv == ASSUME ToolsInv, Answer PROVE ToolsInv'
<1>1. PICK m \in Replies :
        /\ history' = history \o <<m>> /\ Tell(<<m>>)
        /\ pc' = IF m.calls # {} THEN "tools" ELSE "idle"
  BY DEF Answer, Push
<1>2. /\ pc = "stream" /\ made < MaxMessages /\ made' = made + 1 /\ rejected' = 0
      /\ stops' = stops /\ UNCHANGED setting /\ UNCHANGED batch
  BY DEF Answer, Make, setting, batch
<1>3. /\ m \in Messages /\ m.kind = "assistant" /\ m.n = made + 1
      /\ \E N \in 0..MaxCalls : m.calls = {IdOf(made + 1, c) : c \in 1..N}
  BY RepliesFacts
<1>4. PICK t : t = <<m>>
  OBVIOUS
<1>5. Newer(t, made, made')
  BY <1>2, <1>3, <1>4, InvFacts, NewerFacts
<1>6. history' \in Seq(Messages) /\ Numbered(history', made')
  BY <1>1, <1>2, <1>4, <1>5, InvFacts, NumberedNewer
<1>7. told' \in Seq(Messages) /\ Numbered(told', made')
  BY <1>1, <1>2, <1>4, <1>5, InvFacts, TellNumbered
<1>8. Repair'
  BY <1>1, <1>2 DEF ToolsInv, Repair
<1>9. NoBatch'
  BY <1>2, InvFacts, SameBatch
<1>10. /\ made' \in 0..MaxMessages /\ rejected' \in 0..MaxRejected
       /\ stops' \subseteq {"external", "signal"}
  BY <1>2, InvFacts DEF ToolsInv, Types
<1>11. CASE m.calls = {}
  BY <1>1, <1>2, <1>6, <1>7, <1>8, <1>9, <1>10, <1>11, Outside
<1>12. CASE m.calls # {}
  <2>1. pc' = "tools"
    BY <1>1, <1>12
  <2>2. /\ stage' = [c \in Calls |-> "none"] /\ closed' = FALSE /\ woken' = {}
    BY <1>9 DEF NoBatch
  <2>3. Types'
    <3>1. parallel' \in BOOLEAN /\ repeatIds' \in BOOLEAN
      BY <1>2, InvFacts DEF setting
    <3>2. stage' \in [Calls -> {"none", "hooks", "running", "after", "done"}]
      BY <2>2
    <3>3. closed' \in BOOLEAN /\ woken' \subseteq Calls
      BY <2>2
    <3> QED BY <1>6, <1>7, <1>10, <2>1, <3>1, <3>2, <3>3 DEF Types
  <2>4. history' # <<>> /\ Current' = m
    <3>1. history \in Seq(Messages)
      BY InvFacts
    <3>2. Len(history') = Len(history) + 1 /\ history'[Len(history) + 1] = m
      BY <1>1, <1>3, <3>1, ConcatLast
    <3>3. Len(history) \in Nat
      BY <3>1
    <3> QED BY <1>6, <3>2, <3>3 DEF Current, Last
  <2>5. repeatIds' = repeatIds /\ parallel' = parallel
    BY <1>2 DEF setting
  <2>6. PICK N \in 0..MaxCalls : m.calls = {IdOf(made + 1, c) : c \in 1..N}
    BY <1>3
  <2>7. \A k : k \in Issued' <=> k \in Calls /\ IdOf(m.n, k) \in m.calls
    BY <2>4, <2>5 DEF Issued, IdOf
  <2>8. Issued' = 1..N
    <3>1. \A k \in 1..N : k \in Calls /\ IdOf(m.n, k) \in m.calls
      <4> SUFFICES ASSUME NEW k \in 1..N PROVE k \in Calls /\ IdOf(m.n, k) \in m.calls
        OBVIOUS
      <4>1. k \in Calls
        BY InvFacts DEF Calls
      <4>2. IdOf(made + 1, k) \in m.calls
        BY <2>6
      <4> QED BY <1>3, <4>1, <4>2
    <3>2. ASSUME NEW k \in Calls, IdOf(m.n, k) \in m.calls PROVE k \in 1..N
      <4>1. PICK c \in 1..N : IdOf(m.n, k) = IdOf(m.n, c)
        BY <1>3, <2>6, <3>2
      <4>2. k \in Nat /\ c \in Nat /\ m.n \in Nat
        BY <1>3, InvFacts DEF Calls
      <4>3. k = c
        BY <4>1, <4>2, IdFacts
      <4> QED BY <4>3
    <3> QED BY <2>7, <3>1, <3>2
  <2>9. \A k \in Calls : stage'[k] = "none"
    BY <2>2
  <2>10. Batch'
    <3>1. Issued' # {}
      <4>1. 1..N # {}
        BY <1>12, <2>6
      <4> QED BY <2>8, <4>1
    <3>2. Current'.calls = {IdOf(Current.n, k) : k \in Issued}'
      <4>1. {IdOf(Current.n, k) : k \in Issued}' = {IdOf(made + 1, k) : k \in 1..N}
        <5>1. \A k : IdOf(Current.n, k)' = IdOf(made + 1, k)
          BY <1>3, <2>4, <2>5 DEF IdOf
        <5> QED BY <2>8, <5>1
      <4> QED BY <2>4, <2>6, <4>1
    <3>3. Started' = {}
      <4>1. \A k \in Issued' : k \in Calls
        BY <2>7
      <4> QED BY <2>9, <4>1 DEF Started
    <3> QED BY <1>3, <2>2, <2>4, <2>9, <3>1, <3>2, <3>3 DEF Batch
  <2>11. ToldBatch'
    <3> SUFFICES ASSUME ~parallel
                 PROVE  \E p \in 1..Len(told') : /\ told'[p] = Current'
                                                 /\ SubSeq(told', p + 1, Len(told')) = Results'
      BY <2>5 DEF ToldBatch
    <3>1. told' = told \o t
      BY <1>1, <1>4 DEF Tell
    <3>2. t \in Seq(Messages) /\ Len(t) = 1 /\ t[1] = m
      BY <1>3, <1>4
    <3>3. /\ Len(told') = Len(told) + 1 /\ told'[Len(told) + 1] = m /\ Len(told) \in Nat
      <4>1. told \in Seq(Messages) /\ told' = told \o <<m>>
        BY <1>4, <3>1, InvFacts
      <4> QED BY <1>3, <4>1, ConcatLast
    <3>4. PICK p : p = Len(told')
      OBVIOUS
    <3>5. p \in 1..Len(told') /\ told'[p] = Current'
      BY <2>4, <3>3, <3>4
    <3>6. SubSeq(told', p + 1, Len(told')) = <<>>
      BY <1>7, <3>4
    <3>7. Results' = <<>>
      <4>0. PICK s : s = [k \in Calls |-> Outcome(k)]'
        OBVIOUS
      <4>1. {k \in Issued : Ready(k)}' = {}
        <5>1. \A k \in Issued' : k \in Calls
          BY <2>7
        <5> QED BY <2>9, <5>1 DEF Ready
      <4>2. Results' = Picked(s, {})
        BY <4>0, <4>1 DEF Results
      <4>3. Len(s) \in Nat
        <5>1. DOMAIN s = 1..MaxCalls
          BY <4>0 DEF Calls
        <5> QED BY <5>1, InvFacts, LenProperties
      <4>4. PICK at : Picks(at, Picked(s, {}), s, {})
        BY <4>3, PickedPicks
      <4> QED BY <4>2, <4>3, <4>4, PicksFacts
    <3> QED BY <3>5, <3>6, <3>7
  <2> QED BY <1>6, <1>7, <1>8, <2>3, <2>10, <2>11 DEF ToolsInv
<1> QED BY <1>11, <1>12

\* What ends a stream in another way leaves the run idle.
LEMMA CutInv == ASSUME ToolsInv, Cut PROVE ToolsInv'
<1>1. PICK m \in Replies : history' = history \o <<m>> /\ Tell(<<m>>)
  BY DEF Cut, Push
<1>2. /\ pc = "stream" /\ pc' = "idle" /\ made < MaxMessages /\ made' = made + 1
      /\ rejected' = 0 /\ stops' = stops /\ UNCHANGED setting /\ UNCHANGED batch
  BY DEF Cut, Make, setting, batch
<1>3. PICK t : t = <<m>>
  OBVIOUS
<1>4. Newer(t, made, made')
  BY <1>2, <1>3, InvFacts, RepliesFacts, NewerFacts
<1>5. history' \in Seq(Messages) /\ Numbered(history', made')
  BY <1>1, <1>2, <1>3, <1>4, InvFacts, NumberedNewer
<1>6. told' \in Seq(Messages) /\ Numbered(told', made')
  BY <1>1, <1>2, <1>3, <1>4, InvFacts, TellNumbered
<1>7. Repair'
  BY <1>2 DEF ToolsInv, Repair
<1>8. NoBatch'
  BY <1>2, InvFacts, SameBatch
<1>9. /\ made' \in 0..MaxMessages /\ rejected' \in 0..MaxRejected
      /\ stops' \subseteq {"external", "signal"}
  BY <1>2, InvFacts DEF ToolsInv, Types
<1> QED BY <1>2, <1>5, <1>6, <1>7, <1>8, <1>9, Outside

LEMMA TimeOutInv == ASSUME ToolsInv, TimeOut PROVE ToolsInv'
<1>1. PICK m \in Replies, some \in BOOLEAN :
        history' = history \o (IF some THEN <<m, Error>> ELSE <<Error>>)
  BY DEF TimeOut
<1>2. /\ pc = "stream" /\ pc' = "idle" /\ made < MaxMessages /\ made' = made + 1
      /\ rejected' = 0 /\ stops' = stops /\ UNCHANGED setting /\ UNCHANGED batch
      /\ Tell(<<Assistant(0, FALSE, {}), Error>>)
  BY DEF TimeOut, Make, setting, batch
<1>3. PICK t : t = IF some THEN <<m, Error>> ELSE <<Error>>
  OBVIOUS
<1>4. Newer(t, made, made')
  <2>1. Newer(<<m, Error>>, made, made')
    BY <1>2, InvFacts, RepliesFacts, NewerFacts
  <2>2. Newer(<<Error>>, made, made')
    BY <1>2, InvFacts, NewerFacts DEF Error
  <2> QED BY <1>3, <2>1, <2>2
<1>5. history' \in Seq(Messages) /\ Numbered(history', made')
  BY <1>1, <1>2, <1>3, <1>4, InvFacts, NumberedNewer
<1>6. told' \in Seq(Messages) /\ Numbered(told', made')
  <2>1. PICK e : e = <<Assistant(0, FALSE, {}), Error>>
    OBVIOUS
  <2>2. Newer(e, made, made')
    BY <1>2, <2>1, InvFacts, NewerFacts
  <2> QED BY <1>2, <2>1, <2>2, InvFacts, TellNumbered
<1>7. Repair'
  BY <1>2 DEF ToolsInv, Repair
<1>8. NoBatch'
  BY <1>2, InvFacts, SameBatch
<1>9. /\ made' \in 0..MaxMessages /\ rejected' \in 0..MaxRejected
      /\ stops' \subseteq {"external", "signal"}
  BY <1>2, InvFacts DEF ToolsInv, Types
<1> QED BY <1>2, <1>5, <1>6, <1>7, <1>8, <1>9, Outside

\* The errors that are appended have no calls.
Errors == {<<>>, <<Error>>, <<Error, Error>>}

LEMMA ErrorsFacts ==
  ASSUME NEW t \in Errors, NEW k \in Nat, NEW k2 \in Nat
  PROVE  /\ Newer(t, k, k2) /\ t \in Seq(Messages)
         /\ \A i \in 1..Len(t) : t[i].kind = "assistant" /\ t[i].calls = {}
<1>1. Newer(t, k, k2)
  <2>1. Newer(<<>>, k, k2) /\ Newer(<<Error>>, k, k2)
    BY NewerFacts DEF Error
  <2>2. Newer(<<Error, Error>>, k, k2)
    <3>1. Newer(<<Assistant(0, TRUE, {}), Error>>, k, k2)
      BY NewerFacts
    <3>2. Error = Assistant(0, TRUE, {})
      BY DEF Error
    <3> QED BY <3>1, <3>2
  <2> QED BY <2>1, <2>2 DEF Errors
<1>2. Error \in Messages /\ Error.kind = "assistant" /\ Error.calls = {}
  BY NewerFacts DEF Error
<1>3. PICK e : e = Error
  OBVIOUS
<1>4. t \in {<<>>, <<e>>, <<e, e>>}
  BY <1>3 DEF Errors
<1>5. \A i \in 1..Len(t) : t[i] = e
  <2>1. CASE t = <<>>
    BY <2>1
  <2>2. CASE t = <<e>>
    <3>1. Len(<<e>>) = 1 /\ <<e>>[1] = e /\ \A i \in 1..1 : i = 1
      OBVIOUS
    <3> QED BY <2>2, <3>1
  <2>3. CASE t = <<e, e>>
    <3>1. /\ Len(<<e, e>>) = 2 /\ <<e, e>>[1] = e /\ <<e, e>>[2] = e
          /\ \A i \in 1..2 : i = 1 \/ i = 2
      OBVIOUS
    <3> QED BY <2>3, <3>1
  <2> QED BY <1>4, <2>1, <2>2, <2>3
<1> QED BY <1>1, <1>2, <1>3, <1>5 DEF Newer

LEMMA FailInv == ASSUME ToolsInv, Fail PROVE ToolsInv'
<1>1. PICK t \in Errors : history' = history \o t /\ Tell(t)
  BY DEF Fail, Push, Errors
<1>2. /\ pc = "stream" /\ pc' = "idle" /\ made < MaxMessages /\ made' = made + 1
      /\ rejected' = rejected /\ stops' = stops /\ UNCHANGED setting /\ UNCHANGED batch
  BY DEF Fail, Make, setting, batch
<1>3. /\ Newer(t, made, made') /\ t \in Seq(Messages)
      /\ \A i \in 1..Len(t) : t[i].kind = "assistant" /\ t[i].calls = {}
  BY <1>2, InvFacts, ErrorsFacts
<1>4. history' \in Seq(Messages) /\ Numbered(history', made')
  BY <1>1, <1>2, <1>3, InvFacts, NumberedNewer
<1>5. told' \in Seq(Messages) /\ Numbered(told', made')
  BY <1>1, <1>2, <1>3, InvFacts, TellNumbered
<1>6. rejected = 1 => Accepts(history')
  <2>1. rejected = 1 => Accepts(history)
    BY DEF ToolsInv, Repair
  <2>2. \A i \in 1..Len(t) : t[i].kind # "result" /\ (t[i].kind = "assistant" => t[i].calls = {})
    BY <1>3
  <2> QED BY <1>1, <1>3, <2>1, <2>2, InvFacts, PushAccepts
<1>7. Repair'
  BY <1>2, <1>6 DEF ToolsInv, Repair
<1>8. NoBatch'
  BY <1>2, InvFacts, SameBatch
<1>9. /\ made' \in 0..MaxMessages /\ rejected' \in 0..MaxRejected
      /\ stops' \subseteq {"external", "signal"}
  BY <1>2, InvFacts DEF ToolsInv, Types
<1> QED BY <1>2, <1>4, <1>5, <1>7, <1>8, <1>9, Outside

\* A request that was made with no call that lacks its result is repaired to
\* one that is accepted: the next is not rejected.
LEMMA RejectInv == ASSUME ToolsInv, Reject PROVE ToolsInv'
<1>1. PICK t \in {<<>>, <<Error>>} : history' = Sanitize(history \o t) /\ Tell(t)
  BY DEF Reject
<1>2. /\ pc = "stream" /\ ~Accepts(history) /\ rejected < MaxRejected
      /\ rejected' = rejected + 1 /\ pc' \in {"turn", "idle"}
      /\ made' = made /\ stops' = stops /\ UNCHANGED setting /\ UNCHANGED batch
  BY DEF Reject, setting, batch
<1>3. /\ Newer(t, made, made) /\ t \in Seq(Messages)
      /\ \A i \in 1..Len(t) : t[i].kind = "assistant" /\ t[i].calls = {}
  BY InvFacts, ErrorsFacts DEF Errors
<1>4. PICK u : u = history \o t
  OBVIOUS
<1>5. u \in Seq(Messages) /\ Numbered(u, made)
  BY <1>3, <1>4, InvFacts, NumberedNewer
<1>6. NoStrayCalls(u)
  <2>1. NoStrayCalls(history)
    BY <1>2 DEF ToolsInv, Repair
  <2> QED BY <1>3, <1>4, <2>1, InvFacts, PushCalls
<1>7. PICK r : r = history'
  OBVIOUS
<1>8. PICK at : Repairs(at, r, u)
  BY <1>1, <1>4, <1>5, <1>7, SanitizeRepairs
<1>9. r \in Seq(Messages) /\ Numbered(r, made)
  <2>1. r \in Seq(Messages)
    BY <1>8 DEF Repairs
  <2> QED BY <1>5, <1>8, <2>1, NumberedRepaired
<1>10. Accepts(r)
  BY <1>5, <1>6, <1>8, RepairsAccepts
<1>11. rejected = 0
  BY <1>2 DEF ToolsInv, Repair
<1>12. Repair'
  BY <1>2, <1>7, <1>10, <1>11 DEF Repair
<1>13. told' \in Seq(Messages) /\ Numbered(told', made')
  BY <1>1, <1>2, <1>3, InvFacts, TellNumbered
<1>14. NoBatch'
  BY <1>2, InvFacts, SameBatch
<1>15. /\ made' \in 0..MaxMessages /\ rejected' \in 0..MaxRejected
       /\ stops' \subseteq {"external", "signal"}
       /\ history' \in Seq(Messages) /\ Numbered(history', made')
  BY <1>2, <1>7, <1>9, <1>11, InvFacts DEF ToolsInv, Types
<1> QED BY <1>2, <1>12, <1>13, <1>14, <1>15, Outside

LEMMA ResumeInv == ASSUME ToolsInv, Resume PROVE ToolsInv'
<1>1. PICK lag \in 0..MaxLag : told' = SubSeq(told, 1, Len(told) - lag)
  BY DEF Resume
<1>2. /\ pc' = "idle" /\ rejected' = 0 /\ EndBatch /\ stops' = {}
      /\ UNCHANGED setting /\ made' = made
      /\ history' = Picked(told', {i \in DOMAIN told' : HasContent(told'[i])})
  BY DEF Resume, setting
<1>3. told' \in Seq(Messages) /\ Numbered(told', made)
  <2>1. Len(told) \in Nat
    BY InvFacts
  <2>2. Len(told) - lag \in Int /\ Len(told) - lag <= Len(told)
    BY <2>1, ToolExecAssumption
  <2> QED BY <1>1, <2>2, InvFacts, NumberedPrefix
<1>4. history' \in Seq(Messages) /\ Numbered(history', made)
  BY <1>2, <1>3, NumberedPicked
<1>5. Repair'
  BY <1>2 DEF Repair
<1>6. NoBatch'
  BY <1>2 DEF NoBatch, EndBatch
<1>7. /\ made' \in 0..MaxMessages /\ rejected' \in 0..MaxRejected
      /\ stops' \subseteq {"external", "signal"}
      /\ Numbered(history', made') /\ Numbered(told', made')
  BY <1>2, <1>3, <1>4, InvFacts
<1> QED BY <1>2, <1>3, <1>4, <1>5, <1>6, <1>7, Outside

----------------------------------------------------------------------------
(* A batch: its message and its calls stay, and its results follow.        *)

BatchFacts ==
  /\ Current \in Messages /\ Current.kind = "assistant" /\ Current.n \in Nat
  /\ Current.calls # {} /\ Len(history) \in 1..Len(history)
  /\ history[Len(history)] = Current
  /\ \A k \in Calls : k \in Nat /\ Outcome(k) \in Messages
  /\ \A k \in Calls : Outcome(k).kind = "result" /\ Outcome(k).n = Current.n
  /\ \A k \in Calls : Outcome(k).id = IdOf(Current.n, k) /\ Outcome(k).id[2] = k
  /\ Issued \subseteq Calls

LEMMA InBatch == ASSUME ToolsInv, pc = "tools" PROVE BatchFacts
<1>1. /\ history # <<>> /\ Current.kind = "assistant" /\ Issued # {}
      /\ Current.calls = {IdOf(Current.n, k) : k \in Issued}
  BY DEF ToolsInv, Batch
<1>2. Len(history) \in 1..Len(history) /\ history[Len(history)] = Current
  BY <1>1, InvFacts DEF Current, Last
<1>3. Current \in Messages /\ Current.n \in Nat
  <2>1. Current \in Messages
    BY <1>2, InvFacts
  <2> QED BY <2>1, MessageFacts
<1>4. Current.calls # {}
  BY <1>1
<1>5. ASSUME NEW k \in Calls
      PROVE  /\ k \in Nat /\ Outcome(k) \in Messages
             /\ Outcome(k).kind = "result" /\ Outcome(k).n = Current.n
             /\ Outcome(k).id = IdOf(Current.n, k) /\ Outcome(k).id[2] = k
  <2>1. k \in Nat
    BY DEF Calls
  <2>2. IdOf(Current.n, k) \in CallIds /\ IdOf(Current.n, k)[2] = k
    BY <1>3, <2>1, IdFacts
  <2>3. PICK id : id = IdOf(Current.n, k)
    OBVIOUS
  <2>4. PICK n : n = Current.n
    OBVIOUS
  <2>5. Outcome(k) = Result(n, id)
    BY <2>3, <2>4 DEF Outcome
  <2>6. /\ Result(n, id) \in Messages /\ Result(n, id).kind = "result"
        /\ Result(n, id).n = n /\ Result(n, id).id = id
    BY <1>3, <2>2, <2>3, <2>4, MessagesMade
  <2> QED BY <2>1, <2>2, <2>3, <2>4, <2>5, <2>6
<1>6. Issued \subseteq Calls
  BY DEF Issued
<1> QED BY <1>1, <1>2, <1>3, <1>4, <1>5, <1>6 DEF BatchFacts

Done == {k \in Issued : Ready(k)}

\* The results are those of the calls that are done, in their order.
LEMMA ResultsFacts ==
  ASSUME ToolsInv, pc = "tools"
  PROVE  /\ Results \in Seq(Messages) /\ Len(Results) \in Nat
         /\ DOMAIN Results = 1..Len(Results)
         /\ \A i \in 1..Len(Results) :
              Results[i].kind = "result" /\ Results[i].n = Current.n
         /\ \E at : /\ at \in [1..Len(Results) -> Done]
                    /\ \A i \in 1..Len(Results) : Results[i] = Outcome(at[i])
                    /\ \A i, j \in 1..Len(Results) : i < j => at[i] < at[j]
                    /\ \A k \in Done : \E i \in 1..Len(Results) : at[i] = k
<1>1. PICK s : s = [k \in Calls |-> Outcome(k)]
  OBVIOUS
<1>2. PICK r : r = Results
  OBVIOUS
<1>3. r = Picked(s, Done)
  BY <1>1, <1>2 DEF Results, Done
<1>4. BatchFacts
  BY InBatch
<1>5. Done \subseteq Calls
  BY <1>4 DEF Done, BatchFacts
<1>6. Len(s) \in Nat /\ Done \cap 1..Len(s) = Done /\ \A k \in Calls : s[k] = Outcome(k)
  <2>1. DOMAIN s = 1..MaxCalls
    BY <1>1 DEF Calls
  <2>2. MaxCalls \in Nat
    BY InvFacts
  <2>3. \A k \in Calls : s[k] \in Messages
    BY <1>1, <1>4 DEF BatchFacts
  <2>4. s \in Seq(Messages)
    <3>1. s \in [1..MaxCalls -> Messages]
      BY <1>1, <1>4 DEF BatchFacts, Calls
    <3> QED BY <2>2, <3>1
  <2>5. Len(s) = MaxCalls
    BY <2>1, <2>2, <2>4
  <2> QED BY <1>1, <1>5, <2>2, <2>5 DEF Calls
<1>7. PICK at : Picks(at, r, s, Done)
  BY <1>3, <1>6, PickedPicks
<1>8. /\ r \in Seq({s[k] : k \in Done}) /\ at \in [1..Len(r) -> Done]
      /\ \A i \in 1..Len(r) : r[i] = s[at[i]]
      /\ \A i, j \in 1..Len(r) : i < j => at[i] < at[j]
      /\ \A k \in Done : \E i \in 1..Len(r) : at[i] = k
  BY <1>6, <1>7 DEF Picks
<1>9. r \in Seq(Messages)
  <2>1. {s[k] : k \in Done} \subseteq Messages
    <3>1. \A k \in Done : s[k] \in Messages
      BY <1>4, <1>5, <1>6 DEF BatchFacts
    <3> QED BY <3>1
  <2> QED BY <1>8, <2>1, SeqMonotonic
<1>10. \A i \in 1..Len(r) : r[i] = Outcome(at[i]) /\ at[i] \in Calls
  BY <1>5, <1>6, <1>8
<1>11. \A i \in 1..Len(r) : r[i].kind = "result" /\ r[i].n = Current.n
  BY <1>4, <1>10 DEF BatchFacts
<1>12. Len(r) \in Nat /\ DOMAIN r = 1..Len(r)
  BY <1>9
<1>13. \A i \in 1..Len(r) : r[i] = Outcome(at[i])
  BY <1>10
<1>14. \E f : /\ f \in [1..Len(r) -> Done]
              /\ \A i \in 1..Len(r) : r[i] = Outcome(f[i])
              /\ \A i, j \in 1..Len(r) : i < j => f[i] < f[j]
              /\ \A k \in Done : \E i \in 1..Len(r) : f[i] = k
  BY <1>8, <1>13, Zenon
<1> QED BY <1>2, <1>9, <1>11, <1>12, <1>14

LEMMA SameMessage ==
  ASSUME UNCHANGED history, UNCHANGED setting
  PROVE  /\ Current' = Current /\ Issued' = Issued
         /\ \A k : Outcome(k)' = Outcome(k)
         /\ parallel' = parallel /\ repeatIds' = repeatIds
         /\ \A n, k : IdOf(n, k)' = IdOf(n, k)
<1>1. parallel' = parallel /\ repeatIds' = repeatIds
  BY DEF setting
<1>2. Current' = Current
  BY DEF Current
<1>3. Issued' = Issued
  BY <1>1, <1>2 DEF Issued, IdOf
<1>4. \A k : Outcome(k)' = Outcome(k)
  BY <1>1, <1>2 DEF Outcome, IdOf
<1>5. \A n, k : IdOf(n, k)' = IdOf(n, k)
  BY <1>1 DEF IdOf
<1> QED BY <1>1, <1>2, <1>3, <1>4, <1>5

LEMMA SameResults ==
  ASSUME UNCHANGED history, UNCHANGED setting, Done' = Done
  PROVE  Results' = Results
<1>1. [k \in Calls |-> Outcome(k)]' = [k \in Calls |-> Outcome(k)]
  BY SameMessage
<1> QED BY <1>1 DEF Results, Done

\* One by one, the call that goes on is the last that has started.
LEMMA LastStarted ==
  ASSUME ToolsInv, pc = "tools", ~parallel, NEW k \in Calls,
         stage[k] # "none", stage[k] # "done"
  PROVE  k \in Issued /\ k \notin Done /\ \A j \in Done : j < k
<1>1. /\ \A c \in Calls : stage[c] # "none" => c \in Issued
      /\ \A c \in Started : \A j \in 1..c - 1 : stage[j] = "done"
  BY DEF ToolsInv, Batch
<1>2. ASSUME NEW j \in Done PROVE j < k
  <2>1. j \in Issued /\ stage[j] = "done"
    BY DEF Done, Ready
  <2>2. j \in Started
    BY <2>1 DEF Started
  <2>3. j \in Calls
    BY <2>1 DEF Issued
  <2>4. j \in Nat /\ k \in Nat /\ 1 <= k
    BY <2>3 DEF Calls
  <2>5. ~(k < j)
    <3> SUFFICES ASSUME k < j PROVE FALSE
      OBVIOUS
    <3>1. k \in 1..j - 1
      BY <2>4
    <3> QED BY <1>1, <2>2, <3>1
  <2>6. k # j
    BY <2>1
  <2> QED BY <2>4, <2>5, <2>6
<1>3. k \notin Done
  BY DEF Done, Ready
<1> QED BY <1>1, <1>2, <1>3

\* The stage of a call changes, and the log is told when it is done.
Moves(k, to) ==
  /\ history' = history /\ parallel' = parallel /\ repeatIds' = repeatIds
  /\ pc' = pc /\ closed' = closed /\ stops' = stops /\ woken' = woken
  /\ rejected' = rejected /\ made' = made
  /\ stage' = [stage EXCEPT ![k] = to] /\ stage[k] # "done"
  /\ \/ stage[k] # "none"
     \/ k \in Issued /\ ~closed /\ (~parallel => \A j \in 1..k - 1 : stage[j] = "done")
  /\ \/ to # "done" /\ told' = told
     \/ to = "done" /\ stage[k] # "none" /\ Tell(<<Outcome(k)>>)

LEMMA MovesSame ==
  ASSUME ToolsInv, pc = "tools", NEW k \in Calls,
         NEW to \in {"hooks", "running", "after", "done"}, Moves(k, to)
  PROVE  /\ Current' = Current /\ Issued' = Issued /\ \A c : Outcome(c)' = Outcome(c)
         /\ \A n, c : IdOf(n, c)' = IdOf(n, c)
         /\ \A c \in Calls : stage'[c] = IF c = k THEN to ELSE stage[c]
         /\ k \in Issued
         /\ Done' = IF to = "done" THEN Done \cup {k} ELSE Done
<1>1. history' = history /\ UNCHANGED setting /\ stage' = [stage EXCEPT ![k] = to]
  BY DEF Moves, setting
<1>2. /\ Current' = Current /\ Issued' = Issued /\ \A c : Outcome(c)' = Outcome(c)
      /\ \A n, c : IdOf(n, c)' = IdOf(n, c)
  BY <1>1, SameMessage
<1>3. \A c \in Calls : stage'[c] = IF c = k THEN to ELSE stage[c]
  <2>1. stage \in [Calls -> {"none", "hooks", "running", "after", "done"}]
    BY DEF ToolsInv, Types
  <2> QED BY <1>1, <2>1
<1>4. k \in Issued
  BY DEF Moves, ToolsInv, Batch
<1>5. Issued \subseteq Calls
  BY DEF Issued
<1>6. \A c : c \in Done' <=> c \in Issued /\ stage'[c] = "done"
  BY <1>2 DEF Done, Ready
<1>7. \A c : c \in Done <=> c \in Issued /\ stage[c] = "done"
  BY DEF Done, Ready
<1>8. stage[k] # "done"
  BY DEF Moves
<1>9. Done' = IF to = "done" THEN Done \cup {k} ELSE Done
  <2>1. \A c : c \in Done' <=> c \in Done \/ (to = "done" /\ c = k)
    BY <1>3, <1>4, <1>5, <1>6, <1>7, <1>8
  <2>2. CASE to = "done"
    BY <2>1, <2>2
  <2>3. CASE to # "done"
    BY <2>1, <2>3
  <2> QED BY <2>2, <2>3
<1> QED BY <1>2, <1>3, <1>4, <1>9

LEMMA MovesBatch ==
  ASSUME ToolsInv, pc = "tools", NEW k \in Calls,
         NEW to \in {"hooks", "running", "after", "done"}, Moves(k, to)
  PROVE  Batch'
<1>1. /\ Current' = Current /\ Issued' = Issued /\ \A n, c : IdOf(n, c)' = IdOf(n, c)
      /\ \A c \in Calls : stage'[c] = IF c = k THEN to ELSE stage[c]
      /\ k \in Issued
  BY MovesSame
<1>2. /\ history # <<>> /\ Current.kind = "assistant" /\ Issued # {}
      /\ Current.calls = {IdOf(Current.n, c) : c \in Issued}
      /\ \A c \in Calls : stage[c] # "none" => c \in Issued
      /\ closed => Started = Issued \/ IsCancelled
      /\ ~parallel => \A c \in Started : \A j \in 1..c - 1 : stage[j] = "done"
  BY DEF ToolsInv, Batch
<1>3. /\ history' = history /\ pc' = pc /\ closed' = closed /\ stops' = stops
      /\ parallel' = parallel /\ stage[k] # "done"
      /\ \/ stage[k] # "none"
         \/ k \in Issued /\ ~closed /\ (~parallel => \A j \in 1..k - 1 : stage[j] = "done")
  BY DEF Moves
<1>4. Issued \subseteq Calls
  BY DEF Issued
<1>5. \A c \in Issued : c \in Started' <=> c \in Started \/ c = k
  BY <1>1, <1>4 DEF Started
<1>6. Started' \subseteq Issued /\ Started \subseteq Issued
  BY <1>1 DEF Started
<1>7. Current'.calls = {IdOf(Current.n, c) : c \in Issued}'
  <2>1. \A c : IdOf(Current.n, c)' = IdOf(Current.n, c)
    BY <1>1
  <2> QED BY <1>1, <1>2, <2>1
<1>8. closed' => Started' = Issued' \/ IsCancelled'
  <2>1. closed => k \in Started
    BY <1>1, <1>3 DEF Started
  <2>2. closed => Started' = Started
    BY <1>5, <1>6, <2>1
  <2>3. IsCancelled' = IsCancelled
    BY <1>3 DEF IsCancelled
  <2> QED BY <1>1, <1>2, <1>3, <2>2, <2>3
<1>9. ASSUME ~parallel, NEW c \in Started', NEW j \in 1..c - 1 PROVE stage'[j] = "done"
  <2>1. stage[j] = "done"
    <3>1. CASE c \in Started
      BY <1>2, <1>9, <3>1
    <3>2. CASE c \notin Started
      <4>1. c = k
        BY <1>5, <1>6, <1>9, <3>2
      <4>2. stage[k] = "none"
        BY <1>1, <3>2, <4>1 DEF Started
      <4> QED BY <1>3, <1>9, <4>1, <4>2
    <3> QED BY <3>1, <3>2
  <2>2. j \in Calls
    <3>1. c \in Calls
      BY <1>4, <1>6, <1>9
    <3> QED BY <3>1, InvFacts DEF Calls
  <2> QED BY <1>1, <1>3, <2>1, <2>2
<1>10. \A c \in Calls : stage'[c] # "none" => c \in Issued'
  BY <1>1, <1>2
<1>11. ~parallel' => \A c \in Started' : \A j \in 1..c - 1 : stage'[j] = "done"
  BY <1>3, <1>9
<1> QED BY <1>1, <1>2, <1>3, <1>7, <1>8, <1>10, <1>11 DEF Batch

\* What follows a place, when one more message comes.
LEMMA TailAppend ==
  ASSUME NEW h \in Seq(Messages), NEW m \in Messages, NEW p \in 1..Len(h)
  PROVE  SubSeq(h \o <<m>>, p + 1, Len(h \o <<m>>)) = Append(SubSeq(h, p + 1, Len(h)), m)
<1>1. PICK u : u = h \o <<m>>
  OBVIOUS
<1>2. /\ u \in Seq(Messages) /\ Len(h) \in Nat /\ Len(u) = Len(h) + 1
      /\ u[Len(h) + 1] = m /\ \A i \in 1..Len(h) : u[i] = h[i]
  BY <1>1, ConcatLast
<1>3. PICK a : a = SubSeq(h, p + 1, Len(h))
  OBVIOUS
<1>4. PICK b : b = SubSeq(u, p + 1, Len(u))
  OBVIOUS
<1>5. /\ a \in Seq(Messages) /\ Len(a) = Len(h) - p
      /\ \A i \in 1..Len(h) - p : a[i] = h[p + i]
  <2>1. p + 1 \in Int /\ Len(h) \in Int /\ \A i \in p + 1..Len(h) : h[i] \in Messages
    BY <1>2
  <2>2. /\ a \in Seq(Messages)
        /\ Len(a) = IF p + 1 <= Len(h) THEN Len(h) - (p + 1) + 1 ELSE 0
        /\ \A i \in 1..Len(h) - (p + 1) + 1 : a[i] = h[p + 1 + i - 1]
    BY <1>3, <2>1, SubSeqProperties
  <2>3. Len(a) = Len(h) - p
    BY <1>2, <2>2
  <2>4. ASSUME NEW i \in 1..Len(h) - p PROVE a[i] = h[p + i]
    <3>1. i \in 1..Len(h) - (p + 1) + 1 /\ p + 1 + i - 1 = p + i
      BY <1>2
    <3> QED BY <2>2, <3>1
  <2> QED BY <2>2, <2>3, <2>4
<1>6. /\ b \in Seq(Messages) /\ Len(b) = Len(h) - p + 1
      /\ \A i \in 1..Len(h) - p + 1 : b[i] = u[p + i]
  <2>1. p + 1 \in Int /\ Len(u) \in Int /\ \A i \in p + 1..Len(u) : u[i] \in Messages
    BY <1>2
  <2>2. /\ b \in Seq(Messages)
        /\ Len(b) = IF p + 1 <= Len(u) THEN Len(u) - (p + 1) + 1 ELSE 0
        /\ \A i \in 1..Len(u) - (p + 1) + 1 : b[i] = u[p + 1 + i - 1]
    BY <1>4, <2>1, SubSeqProperties
  <2>3. Len(b) = Len(h) - p + 1
    BY <1>2, <2>2
  <2>4. ASSUME NEW i \in 1..Len(h) - p + 1 PROVE b[i] = u[p + i]
    <3>1. i \in 1..Len(u) - (p + 1) + 1 /\ p + 1 + i - 1 = p + i
      BY <1>2
    <3> QED BY <2>2, <3>1
  <2> QED BY <2>2, <2>3, <2>4
<1>7. PICK c : c = Append(a, m)
  OBVIOUS
<1>8. /\ c \in Seq(Messages) /\ Len(c) = Len(h) - p + 1
      /\ c[Len(h) - p + 1] = m /\ \A i \in 1..Len(h) - p : c[i] = a[i]
  BY <1>5, <1>7, AppendProperties
<1>9. ASSUME NEW i \in 1..Len(h) - p + 1 PROVE b[i] = c[i]
  <2>1. CASE i = Len(h) - p + 1
    <3>1. p + i = Len(h) + 1
      BY <1>2, <2>1
    <3> QED BY <1>2, <1>6, <1>8, <2>1, <3>1
  <2>2. CASE i # Len(h) - p + 1
    <3>1. i \in 1..Len(h) - p /\ p + i \in 1..Len(h)
      BY <1>2, <2>2
    <3> QED BY <1>2, <1>5, <1>6, <1>8, <3>1
  <2> QED BY <2>1, <2>2
<1>10. b = c
  BY <1>6, <1>8, <1>9, SeqEqual
<1> QED BY <1>1, <1>3, <1>4, <1>7, <1>10

LEMMA MovesTold ==
  ASSUME ToolsInv, pc = "tools", NEW k \in Calls,
         NEW to \in {"hooks", "running", "after", "done"}, Moves(k, to)
  PROVE  ToldBatch' /\ told' \in Seq(Messages) /\ Numbered(told', made)
<1>1. /\ Current' = Current /\ \A c : Outcome(c)' = Outcome(c)
      /\ Done' = IF to = "done" THEN Done \cup {k} ELSE Done
  BY MovesSame
<1>2. /\ history' = history /\ parallel' = parallel /\ UNCHANGED setting
      /\ \/ to # "done" /\ told' = told
         \/ to = "done" /\ stage[k] # "none" /\ Tell(<<Outcome(k)>>)
      /\ stage[k] # "done" /\ pc' = "tools"
  BY DEF Moves, setting
<1>3. told \in Seq(Messages) /\ Numbered(told, made)
  BY InvFacts
<1>4. CASE parallel
  <2>1. told' = told
    BY <1>2, <1>4 DEF Tell
  <2>2. ToldBatch'
    BY <1>2, <1>4 DEF ToldBatch
  <2> QED BY <1>3, <2>1, <2>2
<1>5. CASE ~parallel
  <2>1. PICK p \in 1..Len(told) : told[p] = Current /\ SubSeq(told, p + 1, Len(told)) = Results
    BY <1>5 DEF ToolsInv, ToldBatch
  <2>2. CASE to # "done"
    <3>1. told' = told /\ Results' = Results
      BY <1>1, <1>2, <2>2, SameResults
    <3>2. ToldBatch'
      BY <1>1, <2>1, <3>1 DEF ToldBatch
    <3> QED BY <1>3, <3>1, <3>2
  <2>3. CASE to = "done"
    <3>1. told' = told \o <<Outcome(k)>> /\ stage[k] # "none" /\ stage[k] # "done"
      BY <1>2, <1>5, <2>3 DEF Tell
    <3>2. k \notin Done /\ \A j \in Done : j < k
      BY <1>2, <1>5, <3>1, LastStarted
    <3>3. PICK m : m = Outcome(k)
      OBVIOUS
    <3>4. BatchFacts
      BY InBatch
    <3>5. m \in Messages /\ m.kind = "result" /\ m.n = Current.n
      BY <3>3, <3>4 DEF BatchFacts
    <3>6. Results' = Append(Results, m)
      <4>1. PICK s : s = [c \in Calls |-> Outcome(c)]
        OBVIOUS
      <4>2. [c \in Calls |-> Outcome(c)]' = s
        BY <1>1, <4>1
      <4>3. Results' = Picked(s, Done \cup {k}) /\ Results = Picked(s, Done)
        BY <1>1, <2>3, <4>1, <4>2 DEF Results, Done
      <4>4. Len(s) \in Nat /\ k \in 1..Len(s) /\ s[k] = m
        <5>1. s \in [1..MaxCalls -> Messages]
          BY <3>4, <4>1 DEF BatchFacts, Calls
        <5>2. MaxCalls \in Nat
          BY InvFacts
        <5>3. Len(s) = MaxCalls
          BY <5>1, <5>2
        <5> QED BY <3>3, <4>1, <5>2, <5>3 DEF Calls
      <4>5. \A j \in Done \cap 1..Len(s) : j < k
        BY <3>2
      <4> QED BY <4>3, <4>4, <4>5, PickedLast
    <3>7. PICK u : u = told'
      OBVIOUS
    <3>8. u = told \o <<m>>
      BY <3>1, <3>3, <3>7
    <3>9. SubSeq(u, p + 1, Len(u)) = Append(Results, m)
      BY <1>3, <2>1, <3>5, <3>8, TailAppend
    <3>10. p \in 1..Len(u) /\ u[p] = Current
      <4>1. /\ Len(u) = Len(told) + 1 /\ Len(told) \in Nat /\ \A i \in 1..Len(told) : u[i] = told[i]
        BY <1>3, <3>5, <3>8, ConcatLast
      <4> QED BY <2>1, <4>1
    <3>11. ToldBatch'
      <4>1. u[p] = Current' /\ SubSeq(u, p + 1, Len(u)) = Results'
        BY <1>1, <3>6, <3>9, <3>10
      <4>2. \E q \in 1..Len(told') : /\ told'[q] = Current'
                                     /\ SubSeq(told', q + 1, Len(told')) = Results'
        BY <3>7, <3>10, <4>1
      <4> QED BY <4>2 DEF ToldBatch
    <3>12. u \in Seq(Messages) /\ Numbered(u, made)
      <4>1. ASSUME NEW i \in p + 1..Len(told) PROVE told[i].kind = "result"
        <5>1. PICK j : j = i - p
          OBVIOUS
        <5>2. j \in 1..Len(told) - p /\ i = p + j /\ Len(told) \in Nat
          BY <1>3, <5>1
        <5>3. PICK r : r = Results
          OBVIOUS
        <5>4. j \in 1..Len(r) /\ r[j] = told[i]
          <6>1. p + 1 \in Int /\ Len(told) \in Int /\ \A c \in p + 1..Len(told) : told[c] \in Messages
            BY <1>3
          <6>2. r = SubSeq(told, p + 1, Len(told))
            BY <2>1, <5>3
          <6>3. /\ Len(r) = IF p + 1 <= Len(told) THEN Len(told) - (p + 1) + 1 ELSE 0
                /\ \A c \in 1..Len(told) - (p + 1) + 1 : r[c] = told[p + 1 + c - 1]
            BY <6>1, <6>2, SubSeqProperties
          <6>4. j \in 1..Len(told) - (p + 1) + 1 /\ p + 1 + j - 1 = i /\ p + 1 <= Len(told)
            BY <5>2
          <6>5. r[j] = told[i]
            BY <6>3, <6>4
          <6>6. j \in 1..Len(r)
            BY <6>3, <6>4
          <6> QED BY <6>5, <6>6
        <5>5. r[j].kind = "result"
          BY <5>3, <5>4, ResultsFacts
        <5> QED BY <5>4, <5>5
      <4>2. told[p].kind = "assistant" /\ told[p].calls # {} /\ told[p].n = m.n
        BY <2>1, <3>4, <3>5 DEF BatchFacts
      <4>3. PICK t : t = <<m>>
        OBVIOUS
      <4>4. t \in Seq(Messages) /\ \A i \in 1..Len(t) : t[i] = m
        <5>1. <<m>> \in Seq(Messages) /\ Len(<<m>>) = 1 /\ <<m>>[1] = m /\ \A i \in 1..1 : i = 1
          BY <3>5
        <5> QED BY <4>3, <5>1
      <4>5. \A i \in 1..Len(t) : t[i].kind = "result" /\ t[i].n = told[p].n
        BY <3>5, <4>2, <4>4
      <4>6. made \in Nat /\ u = told \o t
        BY <3>8, <4>3, InvFacts
      <4> QED BY <1>3, <4>1, <4>2, <4>4, <4>5, <4>6, NumberedResults
    <3> QED BY <3>7, <3>11, <3>12
  <2> QED BY <2>2, <2>3
<1> QED BY <1>4, <1>5

LEMMA MovesInv ==
  ASSUME ToolsInv, pc = "tools", NEW k \in Calls,
         NEW to \in {"hooks", "running", "after", "done"}, Moves(k, to)
  PROVE  ToolsInv'
<1>1. Batch' /\ ToldBatch' /\ told' \in Seq(Messages) /\ Numbered(told', made)
  BY MovesBatch, MovesTold
<1>2. /\ history' = history /\ parallel' = parallel /\ repeatIds' = repeatIds
      /\ pc' = pc /\ closed' = closed /\ stops' = stops /\ woken' = woken
      /\ rejected' = rejected /\ made' = made /\ stage' = [stage EXCEPT ![k] = to]
  BY DEF Moves
<1>3. stage' \in [Calls -> {"none", "hooks", "running", "after", "done"}]
  <2>1. stage \in [Calls -> {"none", "hooks", "running", "after", "done"}]
    BY DEF ToolsInv, Types
  <2> QED BY <1>2, <2>1
<1>4. Types'
  BY <1>1, <1>2, <1>3 DEF ToolsInv, Types
<1>5. Repair'
  BY <1>2 DEF ToolsInv, Repair
<1>6. Numbered(history', made') /\ Numbered(told', made')
  BY <1>1, <1>2, InvFacts
<1> QED BY <1>1, <1>4, <1>5, <1>6 DEF ToolsInv

\* Nothing of the conversation and of the calls changes.
LEMMA StandsInv ==
  ASSUME ToolsInv, history' = history, told' = told, pc' = pc, stage' = stage,
         rejected' = rejected, made' = made, parallel' = parallel, repeatIds' = repeatIds,
         stops \subseteq stops', stops' \subseteq {"external", "signal"},
         woken' \subseteq Calls, closed' \in BOOLEAN, pc # "tools" => NoBatch',
         pc = "tools" /\ closed' /\ ~closed => Started = Issued \/ IsCancelled
  PROVE  ToolsInv'
<1>1. UNCHANGED setting
  BY DEF setting
<1>2. /\ Current' = Current /\ Issued' = Issued /\ \A c : Outcome(c)' = Outcome(c)
      /\ \A n, c : IdOf(n, c)' = IdOf(n, c)
  BY <1>1, SameMessage
<1>3. Done' = Done /\ Started' = Started
  <2>1. Done' = Done
    BY <1>2 DEF Done, Ready
  <2>2. Started' = Started
    BY <1>2 DEF Started
  <2> QED BY <2>1, <2>2
<1>4. IsCancelled => IsCancelled'
  BY DEF IsCancelled
<1>5. Types'
  BY DEF ToolsInv, Types
<1>6. Batch'
  <2> SUFFICES ASSUME pc = "tools"
               PROVE  /\ history' # <<>> /\ Current'.kind = "assistant" /\ Issued' # {}
                      /\ Current'.calls = {IdOf(Current.n, k) : k \in Issued}'
                      /\ \A k \in Calls : stage'[k] # "none" => k \in Issued'
                      /\ closed' => Started' = Issued' \/ IsCancelled'
                      /\ ~parallel' => \A k \in Started' : \A j \in 1..k - 1 : stage'[j] = "done"
    BY DEF Batch
  <2>1. /\ history # <<>> /\ Current.kind = "assistant" /\ Issued # {}
        /\ Current.calls = {IdOf(Current.n, k) : k \in Issued}
        /\ \A k \in Calls : stage[k] # "none" => k \in Issued
        /\ closed => Started = Issued \/ IsCancelled
        /\ ~parallel => \A k \in Started : \A j \in 1..k - 1 : stage[j] = "done"
    BY DEF ToolsInv, Batch
  <2>2. Current'.calls = {IdOf(Current.n, k) : k \in Issued}'
    <3>1. \A k : IdOf(Current.n, k)' = IdOf(Current.n, k)
      BY <1>2
    <3> QED BY <1>2, <2>1, <3>1
  <2>3. closed' => Started' = Issued' \/ IsCancelled'
    BY <1>2, <1>3, <1>4, <2>1
  <2> QED BY <1>2, <1>3, <2>1, <2>2, <2>3
<1>7. ToldBatch'
  <2>1. Results' = Results
    BY <1>1, <1>3, SameResults
  <2> QED BY <1>2, <2>1 DEF ToolsInv, ToldBatch
<1>8. Repair'
  BY DEF ToolsInv, Repair
<1>9. Numbered(history', made') /\ Numbered(told', made')
  BY InvFacts
<1> QED BY <1>5, <1>6, <1>7, <1>8, <1>9 DEF ToolsInv

LEMMA CancelInv == ASSUME ToolsInv, Cancel PROVE ToolsInv'
<1>1. PICK s \in {"external", "signal"} \ stops : stops' = stops \cup {s}
  BY DEF Cancel
<1>2. /\ history' = history /\ told' = told /\ pc' = pc /\ stage' = stage
      /\ rejected' = rejected /\ made' = made /\ parallel' = parallel /\ repeatIds' = repeatIds
      /\ closed' = closed /\ woken' = woken
  BY DEF Cancel, setting, batch
<1>3. /\ stops \subseteq stops' /\ stops' \subseteq {"external", "signal"}
      /\ woken' \subseteq Calls /\ closed' \in BOOLEAN
  BY <1>1, <1>2 DEF ToolsInv, Types
<1>4. pc # "tools" => NoBatch'
  BY <1>2, InvFacts DEF NoBatch
<1> QED BY <1>2, <1>3, <1>4, StandsInv

LEMMA CloseInv == ASSUME ToolsInv, Close PROVE ToolsInv'
<1>1. /\ history' = history /\ told' = told /\ pc' = pc /\ stage' = stage
      /\ rejected' = rejected /\ made' = made /\ parallel' = parallel /\ repeatIds' = repeatIds
      /\ stops' = stops /\ woken' = woken /\ closed' = TRUE /\ pc = "tools"
      /\ (Started = Issued \/ IsCancelled)
  BY DEF Close, setting
<1>2. /\ stops' \subseteq {"external", "signal"} /\ woken' \subseteq Calls
  BY <1>1 DEF ToolsInv, Types
<1> QED BY <1>1, <1>2, StandsInv

LEMMA WakeInv == ASSUME ToolsInv, NEW k \in Calls, Wake(k) PROVE ToolsInv'
<1>1. /\ history' = history /\ told' = told /\ pc' = pc /\ stage' = stage
      /\ rejected' = rejected /\ made' = made /\ parallel' = parallel /\ repeatIds' = repeatIds
      /\ stops' = stops /\ woken' = woken \cup {k} /\ closed' = closed /\ pc = "tools"
  BY DEF Wake, setting
<1>2. /\ stops' \subseteq {"external", "signal"} /\ woken' \subseteq Calls /\ closed' \in BOOLEAN
  BY <1>1 DEF ToolsInv, Types
<1> QED BY <1>1, <1>2, StandsInv

LEMMA ReturnInv == ASSUME ToolsInv, Return PROVE ToolsInv'
<1>1. /\ pc = "tools" /\ history' = history \o Results /\ pc' \in {"turn", "idle"} /\ EndBatch
      /\ UNCHANGED setting /\ told' = told /\ stops' = stops /\ rejected' = rejected
      /\ made' = made
  BY DEF Return, setting
<1>2. BatchFacts
  BY <1>1, InBatch
<1>3. history' \in Seq(Messages) /\ Numbered(history', made)
  <2>1. PICK p : p = Len(history)
    OBVIOUS
  <2>2. PICK r : r = Results
    OBVIOUS
  <2>3. /\ p \in 1..Len(history) /\ history[p] = Current
        /\ history[p].kind = "assistant" /\ history[p].calls # {}
    BY <1>2, <2>1 DEF BatchFacts
  <2>4. \A m \in p + 1..Len(history) : history[m].kind = "result"
    BY <2>1, <2>3
  <2>5. r \in Seq(Messages) /\ \A i \in 1..Len(r) : r[i].kind = "result" /\ r[i].n = history[p].n
    BY <1>1, <2>2, <2>3, ResultsFacts
  <2>6. history' = history \o r
    BY <1>1, <2>2
  <2> QED BY <2>3, <2>4, <2>5, <2>6, InvFacts, NumberedResults
<1>4. Repair'
  BY <1>1 DEF ToolsInv, Repair
<1>5. NoBatch'
  BY <1>1 DEF NoBatch, EndBatch
<1>6. /\ made' \in 0..MaxMessages /\ rejected' \in 0..MaxRejected
      /\ stops' \subseteq {"external", "signal"} /\ Numbered(history', made')
      /\ told' \in Seq(Messages) /\ Numbered(told', made')
  BY <1>1, <1>3, InvFacts DEF ToolsInv, Types
<1> QED BY <1>1, <1>3, <1>4, <1>5, <1>6, Outside

LEMMA CallInv == ASSUME ToolsInv, NEW k \in Calls, Call(k) PROVE ToolsInv'
<1>1. pc = "tools"
  BY DEF Call, StartCall, Allow, Refuse, Wake, ToolEnds, Interrupted, Settle, Go
<1>2. CASE StartCall(k)
  <2>1. ~parallel => \A j \in 1..k - 1 : stage[j] = "done"
    BY <1>2 DEF StartCall, PastLoop
  <2>2. Moves(k, "hooks")
    BY <1>2, <2>1 DEF StartCall, Go, Moves, setting
  <2> QED BY <1>1, <2>2, MovesInv
<1>3. CASE Allow(k)
  <2>1. Moves(k, "running")
    BY <1>3 DEF Allow, Go, Moves, setting
  <2> QED BY <1>1, <2>1, MovesInv
<1>4. CASE Refuse(k)
  <2>1. Moves(k, "done")
    BY <1>4 DEF Refuse, Finish, Moves, setting
  <2> QED BY <1>1, <2>1, MovesInv
<1>5. CASE Wake(k)
  BY <1>5, WakeInv
<1>6. CASE ToolEnds(k) \/ Interrupted(k)
  <2>1. Moves(k, "after")
    BY <1>6 DEF ToolEnds, Interrupted, Go, Moves, setting
  <2> QED BY <1>1, <2>1, MovesInv
<1>7. CASE Settle(k)
  <2>1. Moves(k, "done")
    BY <1>7 DEF Settle, Finish, Moves, setting
  <2> QED BY <1>1, <2>1, MovesInv
<1> QED BY <1>2, <1>3, <1>4, <1>5, <1>6, <1>7 DEF Call

LEMMA NextTools == ToolsInv /\ [Next]_vars => ToolsInv'
<1> SUFFICES ASSUME ToolsInv, [Next]_vars PROVE ToolsInv'
  OBVIOUS
<1>1. CASE \E k \in Calls : Call(k)
  BY <1>1, CallInv
<1>2. CASE Prompt \/ Cancel \/ CompactHistory \/ Request \/ Answer \/ Cut
  BY <1>2, PromptInv, CancelInv, CompactInv, RequestInv, AnswerInv, CutInv
<1>3. CASE TimeOut \/ Fail \/ Reject \/ Resume \/ Close \/ Return
  BY <1>3, TimeOutInv, FailInv, RejectInv, ResumeInv, CloseInv, ReturnInv
<1>4. CASE UNCHANGED vars
  <2>1. /\ history' = history /\ told' = told /\ pc' = pc /\ stage' = stage
        /\ rejected' = rejected /\ made' = made /\ parallel' = parallel
        /\ repeatIds' = repeatIds /\ stops' = stops /\ woken' = woken /\ closed' = closed
    BY <1>4 DEF vars
  <2>2. /\ stops' \subseteq {"external", "signal"} /\ woken' \subseteq Calls
        /\ closed' \in BOOLEAN
    BY <2>1 DEF ToolsInv, Types
  <2>3. pc # "tools" => NoBatch'
    BY <2>1, InvFacts DEF NoBatch
  <2> QED BY <2>1, <2>2, <2>3, StandsInv
<1> QED BY <1>1, <1>2, <1>3, <1>4 DEF Next

LEMMA ToolsInvariance == Spec => []ToolsInv
<1>1. Init => ToolsInv
  BY InitTools
<1>2. ToolsInv /\ [Next]_vars => ToolsInv'
  BY NextTools
<1> QED BY <1>1, <1>2, PTL DEF Spec

----------------------------------------------------------------------------
(* The theorems.                                                           *)

LEMMA ToolsTypes == ToolsInv => ToolsTypeOK
<1> SUFFICES ASSUME ToolsInv PROVE ToolsTypeOK
  OBVIOUS
<1>1. \A h \in {history, told} : \A i \in DOMAIN h :
        h[i].kind \in {"user", "assistant", "result"}
  <2> SUFFICES ASSUME NEW h \in {history, told}, NEW i \in DOMAIN h
               PROVE  h[i].kind \in {"user", "assistant", "result"}
    OBVIOUS
  <2>1. h \in Seq(Messages)
    BY InvFacts
  <2>2. h[i] \in Messages
    BY <2>1
  <2> QED BY <2>2, MessageFacts
<1>2. /\ parallel \in BOOLEAN /\ repeatIds \in BOOLEAN
      /\ stops \subseteq {"external", "signal"}
      /\ pc \in {"idle", "turn", "compacted", "stream", "tools"}
      /\ stage \in [Calls -> {"none", "hooks", "running", "after", "done"}]
      /\ woken \subseteq Calls /\ made \in 0..MaxMessages /\ rejected \in 0..MaxRejected
      /\ pc # "tools" => NoBatch
  BY DEF ToolsInv, Types
<1>3. /\ pc = "tools" => Current.kind = "assistant" /\ Issued # {}
      /\ pc = "tools" /\ ~parallel =>
           \A k \in Started : \A j \in 1..k - 1 : stage[j] = "done"
  BY DEF ToolsInv, Batch
<1> QED BY <1>1, <1>2, <1>3 DEF ToolsTypeOK

\* Every variable has its type, there is a batch only while tools run, it is
\* that of the last message, and one by one a call starts when those before
\* it are done (the sequential loop of execute_tool_calls).
THEOREM ToolsType == Spec => []ToolsTypeOK
BY ToolsInvariance, ToolsTypes, PTL

\* A request is rejected for the order of its messages at most once in a row,
\* whatever its history has been through: the pass before a request leaves
\* no call without its result, and one more pass then leaves no result
\* without its call (sanitize_orphaned_tool_results, the retry of run_loop).
THEOREM Converges == Spec => []OneRejection
<1>1. ToolsInv => OneRejection
  <2> SUFFICES ASSUME ToolsInv PROVE OneRejection
    OBVIOUS
  <2>1. rejected \in {0, 1}
    BY DEF ToolsInv, Repair
  <2> QED BY <2>1 DEF OneRejection
<1> QED BY <1>1, ToolsInvariance, PTL

\* What a step keeps of a message of the history.
Kept(j) ==
  /\ Whole(history, j) =>
       \/ Intact(history', history[j], ResultsOf(history, j))
       \/ pc' = "compacted" /\ Gone(history', history[j].n)
  /\ Said(history[j]) => pc' = "compacted" \/ Heard(history', history[j])

LEMMA GrowthKeeps ==
  ASSUME ToolsInv, NEW j \in DOMAIN history, NEW t \in Seq(Messages), history' = history \o t
  PROVE  Kept(j)
<1>1. history \in Seq(Messages) /\ j \in 1..Len(history)
  BY InvFacts
<1>2. PICK u : u = history'
  OBVIOUS
<1>3. /\ Whole(history, j) => Intact(u, history[j], ResultsOf(history, j))
      /\ Said(history[j]) => Heard(u, history[j])
  BY <1>1, <1>2, PushKeeps
<1> QED BY <1>2, <1>3 DEF Kept

LEMMA SameKeeps == ASSUME ToolsInv, NEW j \in DOMAIN history, history' = history PROVE Kept(j)
BY DEF Kept, Intact, Heard

LEMMA CompactKeeps ==
  ASSUME ToolsInv, NEW j \in DOMAIN history, CompactHistory PROVE Kept(j)
<1>1. PICK keep \in KeepRecent : history' = Compact(history, keep)
  BY DEF CompactHistory
<1>2. keep \in Nat /\ pc' = "compacted"
  BY ToolExecAssumption DEF CompactHistory
<1>3. history \in Seq(Messages) /\ j \in 1..Len(history) /\ made \in Nat
      /\ Numbered(history, made)
  BY InvFacts
<1>4. PICK c : c = history'
  OBVIOUS
<1>5. \/ c = history
      \/ \E s \in 1..Len(history) : Boundary(history[s]) /\ Rest(c, history, s)
  BY <1>1, <1>2, <1>3, <1>4, CompactRest
<1>6. CASE c = history
  BY <1>4, <1>6, SameKeeps
<1>7. ASSUME NEW s \in 1..Len(history), Boundary(history[s]), Rest(c, history, s)
      PROVE  Kept(j)
  <2>1. Whole(history, j) =>
          Intact(c, history[j], ResultsOf(history, j)) \/ Gone(c, history[j].n)
    BY <1>3, <1>7, RestExchange
  <2> QED BY <1>2, <1>4, <2>1 DEF Kept
<1> QED BY <1>5, <1>6, <1>7

LEMMA RepairKeeps ==
  ASSUME ToolsInv, NEW j \in DOMAIN history, NEW t \in Seq(Messages),
         history' = Sanitize(history \o t)
  PROVE  Kept(j)
<1>1. history \in Seq(Messages) /\ j \in 1..Len(history)
  BY InvFacts
<1>2. PICK u : u = history \o t
  OBVIOUS
<1>3. /\ u \in Seq(Messages) /\ u[j] = history[j] /\ j \in 1..Len(u)
  BY <1>1, <1>2, ConcatFacts
<1>4. /\ ResultsOf(history, j) \subseteq ResultsOf(u, j)
      /\ Whole(history, j) => Whole(u, j)
  BY <1>1, <1>2, ConcatAnswered
<1>5. PICK r : r = history'
  OBVIOUS
<1>6. PICK at : Repairs(at, r, u)
  BY <1>2, <1>3, <1>5, SanitizeRepairs
<1>7. Whole(u, j) => Intact(r, u[j], ResultsOf(u, j))
  BY <1>3, <1>6, RepairsExchange
<1>8. Said(u[j]) => Heard(r, u[j])
  BY <1>3, <1>6, RepairsWords
<1>9. Whole(history, j) => Intact(r, history[j], ResultsOf(history, j))
  BY <1>3, <1>4, <1>7 DEF Intact
<1> QED BY <1>3, <1>5, <1>8, <1>9 DEF Kept

LEMMA StepKeeps ==
  ASSUME ToolsInv, Next, NEW j \in DOMAIN history PROVE Resume \/ Kept(j)
<1>1. <<>> \in Seq(Messages) /\ \A h \in Seq(Messages) : h \o <<>> = h
  OBVIOUS
<1>2. CASE Prompt
  <2>1. history' = history \o <<User(made + 1)>>
    BY <1>2 DEF Prompt, Push
  <2>2. PICK t : t = <<User(made + 1)>>
    OBVIOUS
  <2>3. t \in Seq(Messages)
    <3>1. User(made + 1) \in Messages
      BY InvFacts, MessagesMade
    <3> QED BY <2>2, <3>1
  <2> QED BY <2>1, <2>2, <2>3, GrowthKeeps
<1>3. CASE Answer \/ Cut
  <2>1. PICK m \in Replies : history' = history \o <<m>>
    BY <1>3 DEF Answer, Cut, Push
  <2>2. <<m>> \in Seq(Messages)
    BY RepliesFacts
  <2> QED BY <2>1, <2>2, GrowthKeeps
<1>4. CASE TimeOut
  <2>1. PICK m \in Replies, some \in BOOLEAN :
          history' = history \o (IF some THEN <<m, Error>> ELSE <<Error>>)
    BY <1>4 DEF TimeOut
  <2>2. m \in Messages /\ Error \in Messages
    BY RepliesFacts, InvFacts, NewerFacts DEF Error
  <2>3. PICK t : t = IF some THEN <<m, Error>> ELSE <<Error>>
    OBVIOUS
  <2>4. t \in Seq(Messages)
    BY <2>2, <2>3
  <2> QED BY <2>1, <2>3, <2>4, GrowthKeeps
<1>5. CASE Fail
  <2>1. PICK t \in Errors : history' = history \o t
    BY <1>5 DEF Fail, Push, Errors
  <2>2. t \in Seq(Messages)
    BY InvFacts, ErrorsFacts
  <2> QED BY <2>1, <2>2, GrowthKeeps
<1>6. CASE Return
  <2>1. history' = history \o Results /\ pc = "tools"
    BY <1>6 DEF Return
  <2>2. PICK t : t = Results
    OBVIOUS
  <2>3. t \in Seq(Messages)
    BY <2>1, <2>2, ResultsFacts
  <2> QED BY <2>1, <2>2, <2>3, GrowthKeeps
<1>7. CASE Request
  <2>1. history' = Sanitize(history \o <<>>)
    BY <1>1, <1>7, InvFacts DEF Request
  <2> QED BY <1>1, <2>1, RepairKeeps
<1>8. CASE Reject
  <2>1. PICK t \in {<<>>, <<Error>>} : history' = Sanitize(history \o t)
    BY <1>8 DEF Reject
  <2>2. t \in Seq(Messages)
    BY <2>1, InvFacts, ErrorsFacts DEF Errors
  <2> QED BY <2>1, <2>2, RepairKeeps
<1>9. CASE Cancel \/ Close
  <2>1. history' = history
    BY <1>9 DEF Cancel, Close
  <2> QED BY <2>1, SameKeeps
<1>10. ASSUME NEW k \in Calls, Call(k) PROVE Kept(j)
  <2>1. history' = history
    BY <1>10 DEF Call, StartCall, Allow, Refuse, Wake, ToolEnds, Interrupted, Settle
  <2> QED BY <2>1, SameKeeps
<1> QED
  BY <1>2, <1>3, <1>4, <1>5, <1>6, <1>7, <1>8, <1>9, <1>10, CompactKeeps DEF Next

\* What was said stays, and so does every call with its results, through
\* requests, rejections, cut answers and batches; a compaction takes an
\* exchange whole or leaves it whole (sanitize_orphaned_tool_results,
\* align_split_boundary).
THEOREM NothingLost == Spec => ConversationKept
<1>1. ToolsInv /\ [Next]_vars =>
        [Resume \/ \A j \in DOMAIN history : Kept(j)]_vars
  <2> SUFFICES ASSUME ToolsInv, [Next]_vars
               PROVE  UNCHANGED vars \/ Resume \/ \A j \in DOMAIN history : Kept(j)
    OBVIOUS
  <2> QED BY StepKeeps
<1>2. [][Resume \/ \A j \in DOMAIN history : Kept(j)]_vars => ConversationKept
  BY PTL DEF ConversationKept, Kept
<1> QED BY <1>1, <1>2, ToolsInvariance, PTL DEF Spec

LEMMA NewFacts ==
  ASSUME NEW h \in Seq(Messages), NEW r \in Seq(Messages), NEW u, u = h \o r
  PROVE  IsPrefix(h, u) /\ SubSeq(u, Len(h) + 1, Len(u)) = r
<1>1. /\ u \in Seq(Messages) /\ Len(u) = Len(h) + Len(r)
      /\ Len(h) \in Nat /\ Len(r) \in Nat
      /\ \A i \in 1..Len(h) : u[i] = h[i] /\ i \in 1..Len(u)
      /\ \A i \in 1..Len(r) : u[Len(h) + i] = r[i] /\ Len(h) + i \in 1..Len(u)
  BY ConcatFacts
<1>2. IsPrefix(h, u)
  <2>1. PICK a : a = SubSeq(u, 1, Len(h))
    OBVIOUS
  <2>2. PICK b : b = SubSeq(h, 1, Len(h))
    OBVIOUS
  <2>3. \A i \in 1..Len(h) : u[i] \in Messages /\ h[i] \in Messages
    BY <1>1
  <2>4. /\ a \in Seq(Messages) /\ Len(a) = IF 1 <= Len(h) THEN Len(h) - 1 + 1 ELSE 0
        /\ \A i \in 1..Len(h) - 1 + 1 : a[i] = u[1 + i - 1]
    BY <1>1, <2>1, <2>3, SubSeqProperties
  <2>5. /\ b \in Seq(Messages) /\ Len(b) = IF 1 <= Len(h) THEN Len(h) - 1 + 1 ELSE 0
        /\ \A i \in 1..Len(h) - 1 + 1 : b[i] = h[1 + i - 1]
    BY <1>1, <2>2, <2>3, SubSeqProperties
  <2>6. \A i \in 1..Len(a) : i \in 1..Len(h) - 1 + 1 /\ 1 + i - 1 = i /\ i \in 1..Len(h)
    BY <1>1, <2>4
  <2>7. \A i \in 1..Len(a) : a[i] = b[i]
    BY <1>1, <2>4, <2>5, <2>6
  <2>8. a = b
    BY <2>4, <2>5, <2>7, SeqEqual
  <2>9. Len(h) <= Len(u)
    BY <1>1
  <2> QED BY <2>1, <2>2, <2>8, <2>9 DEF IsPrefix
<1>3. SubSeq(u, Len(h) + 1, Len(u)) = r
  <2>1. PICK a : a = SubSeq(u, Len(h) + 1, Len(u))
    OBVIOUS
  <2>2. Len(h) + 1 \in Int /\ Len(u) \in Int /\ \A i \in Len(h) + 1..Len(u) : u[i] \in Messages
    BY <1>1
  <2>3. /\ a \in Seq(Messages)
        /\ Len(a) = IF Len(h) + 1 <= Len(u) THEN Len(u) - (Len(h) + 1) + 1 ELSE 0
        /\ \A i \in 1..Len(u) - (Len(h) + 1) + 1 : a[i] = u[Len(h) + 1 + i - 1]
    BY <2>1, <2>2, SubSeqProperties
  <2>4. Len(a) = Len(r)
    BY <1>1, <2>3
  <2>5. ASSUME NEW i \in 1..Len(a) PROVE a[i] = r[i]
    <3>1. i \in 1..Len(u) - (Len(h) + 1) + 1 /\ Len(h) + 1 + i - 1 = Len(h) + i /\ i \in 1..Len(r)
      BY <1>1, <2>4
    <3> QED BY <1>1, <2>3, <3>1
  <2>6. a = r
    BY <2>3, <2>4, <2>5, SeqEqual
  <2> QED BY <2>1, <2>6
<1> QED BY <1>2, <1>3

LEMMA SuffixFacts ==
  ASSUME NEW h \in Seq(Messages), NEW p \in 1..Len(h), NEW r, r = SubSeq(h, p + 1, Len(h))
  PROVE  IsSuffix(r, h)
<1>1. Len(h) \in Nat /\ p \in Nat /\ \A i \in 1..Len(h) : h[i] \in Messages
  OBVIOUS
<1>2. /\ r \in Seq(Messages) /\ Len(r) = Len(h) - p
      /\ \A i \in 1..Len(h) - p : r[i] = h[p + i]
  <2>1. p + 1 \in Int /\ Len(h) \in Int /\ \A i \in p + 1..Len(h) : h[i] \in Messages
    BY <1>1
  <2>2. /\ r \in Seq(Messages)
        /\ Len(r) = IF p + 1 <= Len(h) THEN Len(h) - (p + 1) + 1 ELSE 0
        /\ \A i \in 1..Len(h) - (p + 1) + 1 : r[i] = h[p + 1 + i - 1]
    BY <2>1, SubSeqProperties
  <2>3. Len(r) = Len(h) - p
    BY <1>1, <2>2
  <2>4. ASSUME NEW i \in 1..Len(h) - p PROVE r[i] = h[p + i]
    <3>1. i \in 1..Len(h) - (p + 1) + 1 /\ p + 1 + i - 1 = p + i
      BY <1>1
    <3> QED BY <2>2, <3>1
  <2> QED BY <2>2, <2>3, <2>4
<1>3. PICK n : n = Len(h)
  OBVIOUS
<1>4. PICK l : l = Len(r)
  OBVIOUS
<1>5. n \in Nat /\ l \in Nat /\ l = n - p /\ l <= n
  BY <1>1, <1>2, <1>3, <1>4
<1>6. PICK a : a = Reverse(r)
  OBVIOUS
<1>7. PICK b : b = Reverse(h)
  OBVIOUS
<1>8. /\ a \in Seq(Messages) /\ Len(a) = l
      /\ \A i \in 1..l : a[i] = r[(l - i) + 1]
  <2>1. \A i \in 1..l : (l - i) + 1 \in 1..l /\ r[(l - i) + 1] \in Messages
    <3>1. \A i \in 1..l : (l - i) + 1 \in 1..l
      BY <1>5
    <3> QED BY <1>2, <1>4, <3>1
  <2>2. a = [i \in 1..l |-> r[(l - i) + 1]]
    BY <1>4, <1>6 DEF Reverse
  <2>3. a \in [1..l -> Messages]
    BY <2>1, <2>2
  <2>4. a \in Seq(Messages) /\ Len(a) = l
    BY SMTT(30), <1>5, <2>3
  <2> QED BY <2>2, <2>4
<1>9. /\ b \in Seq(Messages) /\ Len(b) = n
      /\ \A i \in 1..n : b[i] = h[(n - i) + 1]
  <2>1. \A i \in 1..n : (n - i) + 1 \in 1..n /\ h[(n - i) + 1] \in Messages
    <3>1. \A i \in 1..n : (n - i) + 1 \in 1..n
      BY <1>5
    <3> QED BY <1>1, <1>3, <3>1
  <2>2. b = [i \in 1..n |-> h[(n - i) + 1]]
    BY <1>3, <1>7 DEF Reverse
  <2>3. b \in [1..n -> Messages]
    BY <2>1, <2>2
  <2>4. b \in Seq(Messages) /\ Len(b) = n
    BY <1>5, <2>3
  <2> QED BY <2>2, <2>4
<1>10. ASSUME NEW i \in 1..l PROVE a[i] = b[i]
  <2>1. (l - i) + 1 \in 1..Len(h) - p /\ p + ((l - i) + 1) = (n - i) + 1 /\ i \in 1..n
    BY <1>1, <1>3, <1>5
  <2> QED BY ZenonT(60), <1>2, <1>8, <1>9, <2>1
<1>11. SubSeq(a, 1, l) = SubSeq(b, 1, l)
  <2>1. PICK c : c = SubSeq(a, 1, l)
    OBVIOUS
  <2>2. PICK d : d = SubSeq(b, 1, l)
    OBVIOUS
  <2>3. \A i \in 1..l : a[i] \in Messages /\ b[i] \in Messages
    BY <1>5, <1>8, <1>9
  <2>4. /\ c \in Seq(Messages) /\ Len(c) = IF 1 <= l THEN l - 1 + 1 ELSE 0
        /\ \A i \in 1..l - 1 + 1 : c[i] = a[1 + i - 1]
    BY <1>5, <2>1, <2>3, SubSeqProperties
  <2>5. /\ d \in Seq(Messages) /\ Len(d) = IF 1 <= l THEN l - 1 + 1 ELSE 0
        /\ \A i \in 1..l - 1 + 1 : d[i] = b[1 + i - 1]
    BY <1>5, <2>2, <2>3, SubSeqProperties
  <2>6. \A i \in 1..Len(c) : i \in 1..l - 1 + 1 /\ 1 + i - 1 = i /\ i \in 1..l
    BY <1>5, <2>4
  <2>7. \A i \in 1..Len(c) : c[i] = d[i]
    BY <1>10, <2>4, <2>5, <2>6
  <2>8. c = d
    BY <2>4, <2>5, <2>7, SeqEqual
  <2> QED BY <2>1, <2>2, <2>8
<1>12. IsPrefix(a, b)
  BY <1>5, <1>8, <1>9, <1>11 DEF IsPrefix
<1> QED BY <1>6, <1>7, <1>12 DEF IsSuffix

\* What a batch adds when it returns.
Returned(new) ==
  /\ IsPrefix(history, history')
  /\ Range(new) = {Outcome(k) : k \in {k \in Issued : stage[k] = "done"}}
  /\ \A i, j \in DOMAIN new : i < j => new[i].id[2] < new[j].id[2]
  /\ ~IsCancelled => {m.id : m \in Range(new)} = Current.calls
  /\ ~parallel => IsSuffix(new, told')

LEMMA ReturnAnswers ==
  ASSUME ToolsInv, Return
  PROVE  Returned(SubSeq(history', Len(history) + 1, Len(history')))
<1>1. /\ pc = "tools" /\ closed /\ history' = history \o Results /\ told' = told
      /\ (\A k \in Started : stage[k] = "done") \/ (parallel /\ IsCancelled)
  BY DEF Return
<1>2. PICK r : r = Results
  OBVIOUS
<1>3. PICK u : u = history'
  OBVIOUS
<1>4. /\ r \in Seq(Messages) /\ Len(r) \in Nat /\ DOMAIN r = 1..Len(r)
  BY <1>1, <1>2, ResultsFacts
<1>5. PICK at : /\ at \in [1..Len(r) -> Done]
                /\ \A i \in 1..Len(r) : r[i] = Outcome(at[i])
                /\ \A i, j \in 1..Len(r) : i < j => at[i] < at[j]
                /\ \A k \in Done : \E i \in 1..Len(r) : at[i] = k
  BY <1>1, <1>2, ResultsFacts
<1>6. IsPrefix(history, u) /\ SubSeq(u, Len(history) + 1, Len(u)) = r
  BY <1>1, <1>2, <1>3, <1>4, InvFacts, NewFacts
<1>7. BatchFacts
  BY <1>1, InBatch
<1>8. Done = {k \in Issued : stage[k] = "done"} /\ Done \subseteq Calls
  BY <1>7 DEF Done, Ready, BatchFacts
<1>9. Range(r) = {Outcome(k) : k \in Done}
  <2>1. ASSUME NEW i \in 1..Len(r) PROVE r[i] \in {Outcome(k) : k \in Done}
    <3>1. at[i] \in Done /\ r[i] = Outcome(at[i])
      BY <1>5
    <3> QED BY <3>1
  <2>2. ASSUME NEW k \in Done PROVE Outcome(k) \in Range(r)
    <3>1. PICK i \in 1..Len(r) : at[i] = k
      BY <1>5
    <3>2. r[i] = Outcome(k)
      BY <1>5, <3>1
    <3> QED BY <1>4, <3>2 DEF Range
  <2>3. \A m \in Range(r) : \E i \in 1..Len(r) : m = r[i]
    BY <1>4 DEF Range
  <2>4. Range(r) \subseteq {Outcome(k) : k \in Done}
    BY <2>1, <2>3
  <2>5. {Outcome(k) : k \in Done} \subseteq Range(r)
    BY <2>2
  <2> QED BY <2>4, <2>5
<1>10. ASSUME NEW i \in DOMAIN r, NEW j \in DOMAIN r, i < j PROVE r[i].id[2] < r[j].id[2]
  <2>1. at[i] \in Calls /\ at[j] \in Calls /\ at[i] < at[j]
    BY <1>4, <1>5, <1>8, <1>10
  <2>2. r[i] = Outcome(at[i]) /\ r[j] = Outcome(at[j])
    BY <1>4, <1>5
  <2>3. Outcome(at[i]).id[2] = at[i] /\ Outcome(at[j]).id[2] = at[j]
    BY <1>7, <2>1 DEF BatchFacts
  <2> QED BY <2>1, <2>2, <2>3
<1>11. ASSUME ~IsCancelled PROVE {m.id : m \in Range(r)} = Current.calls
  <2>1. Started = Issued
    BY <1>1, <1>11 DEF ToolsInv, Batch
  <2>2. Done = Issued
    BY <1>1, <1>8, <1>11, <2>1
  <2>3. Current.calls = {IdOf(Current.n, k) : k \in Issued}
    BY <1>1 DEF ToolsInv, Batch
  <2>4. \A k \in Issued : Outcome(k).id = IdOf(Current.n, k)
    BY <1>7 DEF BatchFacts
  <2>5. ASSUME NEW m \in Range(r) PROVE m.id \in Current.calls
    <3>1. PICK k \in Issued : m = Outcome(k)
      BY <1>9, <2>2
    <3> QED BY <2>3, <2>4, <3>1
  <2>6. ASSUME NEW id \in Current.calls PROVE \E m \in Range(r) : m.id = id
    <3>1. PICK k \in Issued : id = IdOf(Current.n, k)
      BY <2>3
    <3>2. Outcome(k) \in Range(r)
      BY <1>9, <2>2
    <3> QED BY <2>4, <3>1, <3>2
  <2> QED BY <2>5, <2>6
<1>12. ASSUME ~parallel PROVE IsSuffix(r, told')
  <2>1. PICK p \in 1..Len(told) : SubSeq(told, p + 1, Len(told)) = r
    BY <1>1, <1>2, <1>12 DEF ToolsInv, ToldBatch
  <2> QED BY <1>1, <2>1, InvFacts, SuffixFacts
<1>13. Returned(r)
  BY <1>3, <1>6, <1>8, <1>9, <1>10, <1>11, <1>12 DEF Returned
<1> QED BY <1>3, <1>6, <1>13

LEMMA OnlyReturn ==
  ASSUME ToolsInv, Next, pc = "tools", pc' \in {"turn", "idle"}, ~Resume
  PROVE  Return
<1>1. CASE Prompt \/ CompactHistory \/ Request \/ Answer \/ Cut \/ TimeOut \/ Fail \/ Reject
  BY <1>1 DEF Prompt, CompactHistory, Request, Answer, Cut, TimeOut, Fail, Reject
<1>2. CASE Cancel \/ Close
  <2>1. pc' = pc
    BY <1>2 DEF Cancel, Close
  <2> QED BY <2>1
<1>3. ASSUME NEW k \in Calls, Call(k) PROVE FALSE
  <2>1. pc' = pc
    BY <1>3 DEF Call, StartCall, Allow, Refuse, Wake, ToolEnds, Interrupted, Settle
  <2> QED BY <2>1
<1> QED BY <1>1, <1>2, <1>3 DEF Next

\* A batch that returns adds the results of the calls that are done, in the
\* order of the calls; without a cancel that is all of them, and one by one
\* the log has just been told the same (execute_tool_calls).
THEOREM BatchAnswers == Spec => BatchAnswered
<1> DEFINE New == SubSeq(history', Len(history) + 1, Len(history'))
           Batched == pc = "tools" /\ pc' \in {"turn", "idle"} /\ ~Resume
<1>1. ToolsInv /\ [Next]_vars => [Batched => Returned(New)]_vars
  BY OnlyReturn, ReturnAnswers
<1>2. [][Batched => Returned(New)]_vars => BatchAnswered
  BY PTL DEF BatchAnswered, Returned
<1> QED BY <1>1, <1>2, ToolsInvariance, PTL DEF Spec
=============================================================================
