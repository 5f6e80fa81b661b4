------------------------- MODULE SessionStoreProofs -------------------------
(***************************************************************************)
(* What the session files keep, for every number of managers, files and    *)
(* entries, with or without torn writes and files of an earlier version.   *)
(***************************************************************************)
EXTENDS SessionStore, SequenceLemmas

----------------------------------------------------------------------------
(* Lines, and the entries of a sequence of them.                           *)

\* What a line can be when k entries have been made.
Lines(k) == {line \in Line : IsEntry(line) => line.id \in 1..k}

LEMMA BareLines ==
  ASSUME NEW k, NEW kind \in Headers \cup Unparsed
  PROVE  /\ Bare(kind) \in Lines(k) /\ ~IsEntry(Bare(kind)) /\ Bare(kind).kind = kind
BY DEF Bare, Entry, Lines, Line, IsEntry, Kinds, Headers, Unparsed

LEMMA NewLine ==
  ASSUME NEW k \in Nat, k < MaxEntries, NEW kind \in Kinds, NEW parent \in Ids \cup {NoId}
  PROVE  /\ Entry(kind, k + 1, parent) \in Lines(k + 1)
         /\ IsEntry(Entry(kind, k + 1, parent))
<1>1. k + 1 \in Ids /\ k + 1 \in 1..k + 1
  BY StoreAssumption DEF Ids
<1> QED BY <1>1 DEF Entry, Lines, Line, IsEntry

LEMMA LinesGrow ==
  ASSUME NEW k \in Nat
  PROVE  /\ Lines(k) \subseteq Lines(k + 1)
         /\ \A s \in Seq(Lines(k)) : s \in Seq(Lines(k + 1))
<1>1. Lines(k) \subseteq Lines(k + 1)
  BY DEF Lines
<1> QED BY <1>1, SeqMonotonic

LEMMA EntryIn ==
  ASSUME NEW S, NEW s \in Seq(S)
  PROVE  /\ \A e : e \in EntrySet(s) <=> \E i \in 1..Len(s) : e = s[i] /\ IsEntry(s[i])
         /\ EntrySet(s) \subseteq S
         /\ \A id : id \in IdsOf(s) <=> \E e \in EntrySet(s) : id = e.id
<1>1. DOMAIN s = 1..Len(s) /\ \A i \in 1..Len(s) : s[i] \in S
  OBVIOUS
<1> QED BY <1>1 DEF EntrySet, IdsOf

LEMMA EntriesOfNone == EntrySet(<<>>) = {}
BY DEF EntrySet

LEMMA EntriesOfOne ==
  ASSUME NEW e
  PROVE  EntrySet(<<e>>) = IF IsEntry(e) THEN {e} ELSE {}
<1>1. DOMAIN <<e>> = {1} /\ <<e>>[1] = e
  OBVIOUS
<1> QED BY <1>1 DEF EntrySet

LEMMA EntriesConcat ==
  ASSUME NEW S, NEW s \in Seq(S), NEW t \in Seq(S)
  PROVE  EntrySet(s \o t) = EntrySet(s) \cup EntrySet(t)
<1>1. /\ s \o t \in Seq(S) /\ Len(s \o t) = Len(s) + Len(t)
      /\ \A i \in 1..Len(s) + Len(t) :
           (s \o t)[i] = IF i <= Len(s) THEN s[i] ELSE t[i - Len(s)]
  BY ConcatProperties
<1>2. Len(s) \in Nat /\ Len(t) \in Nat
  OBVIOUS
<1> DEFINE u == s \o t
<1> HIDE DEF u
<1>3. ASSUME NEW e \in EntrySet(u) PROVE e \in EntrySet(s) \cup EntrySet(t)
  <2>1. PICK i \in 1..Len(s) + Len(t) : e = u[i] /\ IsEntry(u[i])
    BY <1>1, <1>3, EntryIn DEF u
  <2>2. CASE i <= Len(s)
    <3>1. i \in 1..Len(s) /\ u[i] = s[i]
      BY <1>1, <1>2, <2>2 DEF u
    <3> QED BY <2>1, <3>1, EntryIn
  <2>3. CASE ~(i <= Len(s))
    <3>1. i - Len(s) \in 1..Len(t) /\ u[i] = t[i - Len(s)]
      BY <1>1, <1>2, <2>3 DEF u
    <3> QED BY <2>1, <3>1, EntryIn
  <2> QED BY <2>2, <2>3
<1>4. ASSUME NEW e \in EntrySet(s) PROVE e \in EntrySet(u)
  <2>1. PICK i \in 1..Len(s) : e = s[i] /\ IsEntry(s[i])
    BY <1>4, EntryIn
  <2>2. i \in 1..Len(s) + Len(t) /\ u[i] = s[i]
    BY <1>1, <1>2 DEF u
  <2> QED BY <1>1, <2>1, <2>2, EntryIn DEF u
<1>5. ASSUME NEW e \in EntrySet(t) PROVE e \in EntrySet(u)
  <2>1. PICK i \in 1..Len(t) : e = t[i] /\ IsEntry(t[i])
    BY <1>5, EntryIn
  <2>2. i + Len(s) \in 1..Len(s) + Len(t) /\ u[i + Len(s)] = t[i]
    <3>1. i + Len(s) \in 1..Len(s) + Len(t) /\ ~(i + Len(s) <= Len(s))
          /\ (i + Len(s)) - Len(s) = i
      BY <1>2
    <3> QED BY <1>1, <3>1 DEF u
  <2> QED BY <1>1, <2>1, <2>2, EntryIn DEF u
<1> QED BY <1>3, <1>4, <1>5 DEF u

LEMMA EntriesAppend ==
  ASSUME NEW S, NEW s \in Seq(S), NEW e \in S
  PROVE  EntrySet(Append(s, e)) = EntrySet(s) \cup (IF IsEntry(e) THEN {e} ELSE {})
<1> DEFINE one == <<e>>
<1>1. Append(s, e) = s \o one /\ one \in Seq(S)
  BY AppendIsConcat
<1>2. EntrySet(one) = IF IsEntry(e) THEN {e} ELSE {}
  BY EntriesOfOne
<1> HIDE DEF one
<1>3. EntrySet(s \o one) = EntrySet(s) \cup EntrySet(one)
  BY <1>1, EntriesConcat
<1> QED BY <1>1, <1>2, <1>3

\* A part of a sequence has no other entries.
LEMMA EntriesPart ==
  ASSUME NEW S, NEW s \in Seq(S), NEW t \in Seq(S),
         \A i \in 1..Len(t) : \E j \in 1..Len(s) : t[i] = s[j]
  PROVE  EntrySet(t) \subseteq EntrySet(s)
<1> SUFFICES ASSUME NEW e \in EntrySet(t) PROVE e \in EntrySet(s)
  OBVIOUS
<1>1. PICK i \in 1..Len(t) : e = t[i] /\ IsEntry(t[i])
  BY EntryIn
<1> QED BY <1>1, EntryIn

\* What is picked from a sequence.
LEMMA PickedEntries ==
  ASSUME NEW S, NEW s \in Seq(S), NEW K \in SUBSET DOMAIN s
  PROVE  /\ Picked(s, K) \in Seq({s[i] : i \in K})
         /\ Picked(s, K) \in Seq(S)
         /\ EntrySet(Picked(s, K)) \subseteq EntrySet(s)
         /\ (\A i \in DOMAIN s : IsEntry(s[i]) => i \in K)
              => EntrySet(Picked(s, K)) = EntrySet(s)
         /\ Picked(s, K) = <<>> <=> K = {}
         /\ 1 \in K => Picked(s, K)[1] = s[1]
<1> DEFINE r == Picked(s, K)
<1>1. Len(s) \in Nat /\ DOMAIN s = 1..Len(s) /\ K \cap 1..Len(s) = K
  OBVIOUS
<1>2. PICK at : Picks(at, r, s, K)
  BY <1>1, PickedPicks
<1> HIDE DEF r
<1>3. /\ r \in Seq({s[i] : i \in K}) /\ at \in [1..Len(r) -> K]
      /\ \A i \in 1..Len(r) : r[i] = s[at[i]]
  BY <1>1, <1>2 DEF Picks
<1>4. r \in Seq(S)
  <2>1. {s[i] : i \in K} \subseteq S
    BY <1>1
  <2> QED BY <1>3, <2>1, SeqMonotonic
<1>5. EntrySet(r) \subseteq EntrySet(s)
  <2> SUFFICES ASSUME NEW e \in EntrySet(r) PROVE e \in EntrySet(s)
    OBVIOUS
  <2>1. PICK i \in 1..Len(r) : e = r[i] /\ IsEntry(r[i])
    BY <1>4, EntryIn
  <2>2. at[i] \in 1..Len(s) /\ r[i] = s[at[i]]
    BY <1>1, <1>3
  <2> QED BY <2>1, <2>2, EntryIn
<1>6. ASSUME \A i \in DOMAIN s : IsEntry(s[i]) => i \in K
      PROVE  EntrySet(s) \subseteq EntrySet(r)
  <2> SUFFICES ASSUME NEW e \in EntrySet(s) PROVE e \in EntrySet(r)
    OBVIOUS
  <2>1. PICK k \in 1..Len(s) : e = s[k] /\ IsEntry(s[k])
    BY EntryIn
  <2>2. k \in K
    BY <1>1, <1>6, <2>1
  <2>3. PICK i \in 1..Len(r) : at[i] = k
    BY <1>1, <1>2, <2>2 DEF Picks
  <2> QED BY <1>3, <1>4, <2>1, <2>3, EntryIn
<1>7. (r = <<>> <=> K = {}) /\ (r # <<>> => \A k \in K : at[1] <= k)
  BY <1>1, <1>2, PicksFacts
<1>8. ASSUME 1 \in K PROVE r[1] = s[1]
  <2>1. 1 \in 1..Len(r)
    BY <1>4, <1>7, <1>8
  <2>2. at[1] \in K /\ at[1] <= 1 /\ at[1] \in 1..Len(s)
    BY <1>1, <1>3, <1>7, <1>8, <2>1
  <2> QED BY <1>1, <1>3, <2>1, <2>2
<1> QED BY <1>3, <1>4, <1>5, <1>6, <1>7, <1>8 DEF r

----------------------------------------------------------------------------
(* Loading.                                                                *)

LEMMA KindsApart ==
  ASSUME NEW line
  PROVE  /\ IsEntry(line) => Parses(line) /\ line.kind \notin Headers
         /\ line.kind \in Headers => Parses(line)
BY DEF IsEntry, Parses, Kinds, Headers, Unparsed

\* A load returns all entries or none.
LEMMA ReadableFacts ==
  ASSUME NEW S, NEW s \in Seq(S)
  PROVE  /\ Readable(s) \in Seq(S)
         /\ EntrySet(Readable(s)) \subseteq EntrySet(s)
         /\ Loaded(s) = IF Headed(s) THEN EntrySet(s) ELSE {}
         /\ Readable(s) = <<>> <=> ~Headed(s)
         /\ CurrentVersion(s) => CurrentVersion(Readable(s))
         /\ s # <<>> /\ s[1].kind \in Headers
              => Readable(s) # <<>> /\ Headed(s) /\ Readable(s)[1] = s[1]
<1> DEFINE K == {i \in DOMAIN s : Parses(s[i])}
<1>1. K \in SUBSET DOMAIN s /\ \A i \in DOMAIN s : IsEntry(s[i]) => i \in K
  BY KindsApart
<1>2. Readable(s) = IF Headed(s) THEN Picked(s, K) ELSE <<>>
  BY DEF Readable
<1>3. Headed(s) => K # {}
  <2> SUFFICES ASSUME Headed(s) PROVE K # {}
    OBVIOUS
  <2>1. PICK i \in DOMAIN s : s[i].kind \in Headers
    BY DEF Headed
  <2> QED BY <2>1, KindsApart
<1>4. Loaded(s) = EntrySet(Readable(s))
  BY DEF Loaded
<1>5. DOMAIN s = 1..Len(s) /\ Len(s) \in Nat
  OBVIOUS
<1>6. s # <<>> /\ s[1].kind \in Headers => Headed(s) /\ 1 \in K
  <2> SUFFICES ASSUME s # <<>>, s[1].kind \in Headers PROVE Headed(s) /\ 1 \in K
    OBVIOUS
  <2>1. 1 \in DOMAIN s /\ 1..1 - 1 = {}
    OBVIOUS
  <2> QED BY <2>1, KindsApart DEF Headed
<1> HIDE DEF K
<1>7. CASE ~Headed(s)
  <2>1. Readable(s) = <<>> /\ <<>> \in Seq(S)
    BY <1>2, <1>7
  <2>2. CurrentVersion(<<>>)
    BY DEF CurrentVersion
  <2> QED BY <1>4, <1>6, <1>7, <2>1, <2>2, EntriesOfNone
<1>8. CASE Headed(s)
  <2> DEFINE r == Picked(s, K)
  <2>1. /\ r \in Seq({s[i] : i \in K}) /\ r \in Seq(S)
        /\ EntrySet(r) = EntrySet(s)
        /\ r # <<>>
        /\ 1 \in K => r[1] = s[1]
    <3>1. /\ Picked(s, K) \in Seq({s[i] : i \in K})
          /\ Picked(s, K) \in Seq(S)
          /\ EntrySet(Picked(s, K)) = EntrySet(s)
      BY <1>1, PickedEntries
    <3>2. Picked(s, K) # <<>> /\ (1 \in K => Picked(s, K)[1] = s[1])
      BY <1>1, <1>3, <1>8, PickedEntries
    <3> QED BY <3>1, <3>2
  <2>2. Readable(s) = r
    BY <1>2, <1>8
  <2> HIDE DEF r
  <2>3. CurrentVersion(s) => CurrentVersion(r)
    <3> SUFFICES ASSUME CurrentVersion(s), NEW i \in DOMAIN r PROVE r[i].kind # "oldHeader"
      BY DEF CurrentVersion
    <3>1. r[i] \in {s[j] : j \in K}
      BY <2>1
    <3>2. PICK j \in K : r[i] = s[j]
      BY <3>1
    <3> QED BY <1>1, <3>2 DEF CurrentVersion
  <2> QED BY <1>4, <1>6, <1>8, <2>1, <2>2, <2>3
<1> QED BY <1>7, <1>8

LEMMA HeaderFirst ==
  ASSUME NEW S, NEW s \in Seq(S), s # <<>>, s[1].kind \in Headers
  PROVE  Headed(s) /\ Readable(s) # <<>> /\ Readable(s)[1] = s[1]
BY ReadableFacts

\* More lines at the end take nothing from a load.
LEMMA LoadedGrows ==
  ASSUME NEW S, NEW s \in Seq(S), NEW t \in Seq(S)
  PROVE  Loaded(s) \subseteq Loaded(s \o t)
<1> SUFFICES ASSUME Headed(s) PROVE EntrySet(s) \subseteq Loaded(s \o t)
  BY ReadableFacts
<1> DEFINE u == s \o t
<1>1. /\ u \in Seq(S) /\ Len(u) = Len(s) + Len(t)
      /\ \A i \in 1..Len(s) + Len(t) :
           u[i] = IF i <= Len(s) THEN s[i] ELSE t[i - Len(s)]
  BY ConcatProperties
<1>2. EntrySet(u) = EntrySet(s) \cup EntrySet(t)
  BY EntriesConcat
<1>3. /\ Len(s) \in Nat /\ Len(t) \in Nat /\ DOMAIN s = 1..Len(s)
  OBVIOUS
<1> HIDE DEF u
<1>4. Headed(u)
  <2>1. PICK i \in DOMAIN s : /\ s[i].kind \in Headers
                              /\ \A j \in 1..i - 1 : ~Parses(s[j])
    BY DEF Headed
  <2>2. \A j \in 1..i : j \in 1..Len(s) + Len(t) /\ j <= Len(s)
    BY <1>3
  <2>3. i \in DOMAIN u /\ i \in 1..i /\ 1..i - 1 \subseteq 1..i
    BY <1>1, <1>3
  <2>4. \A j \in 1..i : u[j] = s[j]
    BY <1>1, <2>2
  <2> QED BY <2>1, <2>3, <2>4 DEF Headed
<1> QED BY <1>1, <1>2, <1>4, ReadableFacts DEF u

\* The entries of a file are its entries.
LEMMA EntriesOfFacts ==
  ASSUME NEW S, NEW s \in Seq(S)
  PROVE  /\ EntriesOf(s) \in Seq({e \in S : IsEntry(e)})
         /\ EntrySet(EntriesOf(s)) = EntrySet(s)
<1> DEFINE K == {i \in DOMAIN s : IsEntry(s[i])}
<1>1. K \in SUBSET DOMAIN s /\ {s[i] : i \in K} \subseteq {e \in S : IsEntry(e)}
  OBVIOUS
<1>2. \A i \in DOMAIN s : IsEntry(s[i]) => i \in K
  OBVIOUS
<1>3. EntriesOf(s) = Picked(s, K)
  BY DEF EntriesOf
<1> DEFINE A == {s[i] : i \in K}
           B == {e \in S : IsEntry(e)}
<1>4. A \subseteq B
  BY <1>1
<1>5. Picked(s, K) \in Seq(A)
  <2> HIDE DEF K
  <2> QED BY <1>1, PickedEntries
<1>6. EntrySet(Picked(s, K)) = EntrySet(s)
  <2> HIDE DEF K
  <2> QED BY <1>1, <1>2, PickedEntries
<1>7. Picked(s, K) \in Seq(B)
  <2> HIDE DEF K, A, B
  <2> QED BY <1>4, <1>5, SeqMonotonic
<1> QED BY <1>3, <1>6, <1>7

\* The leaf after a load is an entry.
LEMMA LastIdIn ==
  ASSUME NEW S, NEW s \in Seq(S)
  PROVE  LastId(s) \in IdsOf(s) \cup {NoId}
<1> DEFINE r == EntriesOf(s)
           B == {e \in S : IsEntry(e)}
<1>1. r \in Seq(B) /\ EntrySet(r) = EntrySet(s)
  BY EntriesOfFacts
<1>2. LastId(s) = IF r = <<>> THEN NoId ELSE r[Len(r)].id
  BY DEF LastId
<1> HIDE DEF r
<1>3. r # <<>> => r[Len(r)] \in B /\ Len(r) \in 1..Len(r)
  <2> HIDE DEF B
  <2> QED BY <1>1
<1>4. r # <<>> => r[Len(r)] \in EntrySet(r)
  <2>1. r # <<>> => IsEntry(r[Len(r)])
    BY <1>3
  <2> HIDE DEF B
  <2> QED BY <1>1, <1>3, <2>1, EntryIn
<1> QED BY <1>1, <1>2, <1>4, EntryIn

----------------------------------------------------------------------------
(* Writing and forking.                                                    *)

LEMMA FirstLines ==
  ASSUME NEW S, NEW s \in Seq(S), NEW n \in Int, n <= Len(s)
  PROVE  SubSeq(s, 1, n) \in Seq(S) /\ EntrySet(SubSeq(s, 1, n)) \subseteq EntrySet(s)
<1> DEFINE t == SubSeq(s, 1, n)
<1>1. \A i \in 1..n : s[i] \in S
  OBVIOUS
<1>2. /\ t \in Seq(S)
      /\ Len(t) = IF 1 <= n THEN n - 1 + 1 ELSE 0
      /\ \A i \in 1..n - 1 + 1 : t[i] = s[1 + i - 1]
  BY <1>1, SubSeqProperties
<1> HIDE DEF t
<1>3. \A i \in 1..Len(t) : i \in 1..Len(s) /\ t[i] = s[i]
  BY <1>2
<1>4. EntrySet(t) \subseteq EntrySet(s)
  BY <1>2, <1>3, EntriesPart
<1> QED BY <1>2, <1>4 DEF t

LEMMA TailLines ==
  ASSUME NEW S, NEW s \in Seq(S), s # <<>>
  PROVE  Tail(s) \in Seq(S) /\ EntrySet(Tail(s)) \subseteq EntrySet(s)
<1> DEFINE t == Tail(s)
<1>1. /\ t \in Seq(S) /\ Len(t) = Len(s) - 1
      /\ \A i \in 1..Len(t) : t[i] = s[i + 1]
  BY HeadTailProperties
<1> HIDE DEF t
<1>2. \A i \in 1..Len(t) : i + 1 \in 1..Len(s) /\ t[i] = s[i + 1]
  BY <1>1
<1> QED BY <1>1, <1>2, EntriesPart DEF t

\* What is appended joins a last line that lacks its newline.
LEMMA JoinedFacts ==
  ASSUME NEW S, NEW f, disk[f] \in Seq(S), NEW lines \in Seq(S), lines # <<>>,
         Bare("junk") \in S
  PROVE  /\ Joined(f, lines) \in Seq(S)
         /\ EntrySet(Joined(f, lines)) \subseteq EntrySet(disk[f]) \cup EntrySet(lines)
         /\ f \notin ragged => Joined(f, lines) = disk[f] \o lines
<1> DEFINE d == disk[f]
<1>1. d \in Seq(S)
  OBVIOUS
<1>2. Joined(f, lines) =
        IF f \notin ragged THEN d \o lines
        ELSE SubSeq(d, 1, Len(d) - 1) \o <<Bare("junk")>> \o Tail(lines)
  BY DEF Joined
<1> HIDE DEF d
<1>3. CASE f \notin ragged
  <2>1. d \o lines \in Seq(S)
    BY <1>1, ConcatProperties
  <2> QED BY <1>1, <1>2, <1>3, <2>1, EntriesConcat DEF d
<1>4. CASE f \in ragged
  <2> DEFINE a == SubSeq(d, 1, Len(d) - 1)
             b == <<Bare("junk")>>
             c == Tail(lines)
  <2>1. a \in Seq(S) /\ EntrySet(a) \subseteq EntrySet(d)
    <3>1. Len(d) - 1 \in Int /\ Len(d) - 1 <= Len(d)
      BY <1>1
    <3> QED BY <1>1, <3>1, FirstLines
  <2>2. b \in Seq(S) /\ EntrySet(b) = {}
    <3> DEFINE junk == Bare("junk")
    <3>1. ~IsEntry(junk) /\ junk \in S
      BY BareLines DEF Unparsed
    <3> HIDE DEF junk
    <3>2. <<junk>> \in Seq(S)
      BY <3>1
    <3>3. EntrySet(<<junk>>) = {}
      BY <3>1, EntriesOfOne, Zenon
    <3> QED BY <3>2, <3>3 DEF junk
  <2>3. c \in Seq(S) /\ EntrySet(c) \subseteq EntrySet(lines)
    BY TailLines
  <2>4. Joined(f, lines) = (a \o b) \o c
    BY <1>2, <1>4
  <2> HIDE DEF a, b, c
  <2>5. a \o b \in Seq(S) /\ EntrySet(a \o b) = EntrySet(a) \cup EntrySet(b)
    <3>1. a \in Seq(S) /\ b \in Seq(S)
      BY <2>1, <2>2
    <3>2. a \o b \in Seq(S)
      BY <3>1, ConcatProperties
    <3> QED BY <3>1, <3>2, EntriesConcat
  <2> DEFINE ab == a \o b
  <2> HIDE DEF ab
  <2>6. ab \in Seq(S) /\ EntrySet(ab) = EntrySet(a) \cup EntrySet(b)
    BY <2>5 DEF ab
  <2>7. ab \o c \in Seq(S) /\ EntrySet(ab \o c) = EntrySet(ab) \cup EntrySet(c)
    BY <2>6, <2>3, EntriesConcat, ConcatProperties
  <2> QED BY <1>4, <2>1, <2>2, <2>3, <2>4, <2>6, <2>7 DEF ab, d
<1> QED BY <1>3, <1>4

LEMMA UnwrittenFacts ==
  ASSUME NEW S, NEW m, NEW lines \in Seq(S), lines # <<>>
  PROVE  /\ Unwritten(m, lines) \in Seq(S)
         /\ Unwritten(m, lines) # <<>>
         /\ EntrySet(Unwritten(m, lines)) \subseteq EntrySet(lines)
<1> DEFINE e == lines[Len(lines)]
<1>1. e \in S /\ Len(lines) \in 1..Len(lines)
  OBVIOUS
<1>2. Unwritten(m, lines) = IF flushed[m] THEN <<e>> ELSE lines
  BY DEF Unwritten
<1>3. IsEntry(e) => e \in EntrySet(lines)
  BY <1>1, EntryIn
<1> HIDE DEF e
<1>4. <<e>> \in Seq(S) /\ <<e>> # <<>>
  BY <1>1
<1>5. EntrySet(<<e>>) \subseteq EntrySet(lines)
  BY <1>3, EntriesOfOne
<1> QED BY <1>2, <1>4, <1>5

LEMMA MigratedFacts ==
  ASSUME NEW k, NEW s \in Seq(Lines(k))
  PROVE  /\ Migrated(s) \in Seq(Lines(k))
         /\ EntrySet(Migrated(s)) \subseteq EntrySet(s)
<1> DEFINE t == Migrated(s)
<1>1. /\ DOMAIN s = 1..Len(s) /\ Len(s) \in Nat
      /\ \A i \in 1..Len(s) : s[i] \in Lines(k)
  OBVIOUS
<1>2. t = [i \in 1..Len(s) |-> IF s[i].kind \in Headers THEN Bare("header") ELSE s[i]]
  BY <1>1 DEF Migrated
<1>3. Bare("header") \in Lines(k) /\ ~IsEntry(Bare("header"))
  BY BareLines DEF Headers
<1> HIDE DEF t
<1>4. t \in Seq(Lines(k)) /\ Len(t) = Len(s)
  BY <1>1, <1>2, <1>3
<1>5. EntrySet(t) \subseteq EntrySet(s)
  <2> SUFFICES ASSUME NEW e \in EntrySet(t) PROVE e \in EntrySet(s)
    OBVIOUS
  <2>1. PICK i \in 1..Len(s) : e = t[i] /\ IsEntry(t[i])
    BY <1>4, EntryIn
  <2>2. t[i] = s[i]
    BY <1>2, <1>3, <2>1
  <2> QED BY <2>1, <2>2, EntryIn
<1> QED BY <1>4, <1>5 DEF t

\* The entries of a fork are those of its source, but that the one it starts
\* from has become a root.
LEMMA ForkedFacts ==
  ASSUME NEW k, NEW s \in Seq({e \in Lines(k) : IsEntry(e)}), NEW id \in IdsOf(s)
  PROVE  /\ Forked(s, id) \in Seq({e \in Lines(k) : IsEntry(e)})
         /\ \A e \in EntrySet(Forked(s, id)) :
              \E x \in EntrySet(s) : e = IF x.id = id THEN Rooted(x) ELSE x
<1> DEFINE E == {e \in Lines(k) : IsEntry(e)}
           At(i) == s[i].id = id /\ \A j \in 1..i - 1 : s[j].id # id
           first == CHOOSE i \in DOMAIN s : At(i)
           Fork(x) == IF x.id = id THEN Rooted(x) ELSE x
<1>1. /\ DOMAIN s = 1..Len(s) /\ Len(s) \in Nat
      /\ \A i \in 1..Len(s) : s[i] \in E
  OBVIOUS
<1>2. \E i \in DOMAIN s : At(i)
  <2> DEFINE T == {i \in 1..Len(s) : s[i].id = id}
  <2>1. T # {} /\ T \subseteq Nat
    <3>1. PICK e \in EntrySet(s) : id = e.id
      BY EntryIn
    <3>2. PICK i \in 1..Len(s) : e = s[i]
      BY EntryIn
    <3> QED BY <3>1, <3>2, <1>1
  <2>2. \E i \in T : \A j \in T : i <= j
    <3> HIDE DEF T
    <3> QED BY <2>1, Least
  <2>3. PICK i \in T : \A j \in T : i <= j
    BY <2>2
  <2>4. i \in DOMAIN s /\ s[i].id = id /\ i \in Nat
    BY <1>1
  <2>5. ASSUME NEW j \in 1..i - 1 PROVE s[j].id # id
    <3>1. j \in 1..Len(s) /\ ~(i <= j)
      BY <1>1, <2>4
    <3> QED BY <2>3, <3>1
  <2> QED BY <2>4, <2>5
<1>3. first \in 1..Len(s)
  BY <1>1, <1>2
<1>4. Forked(s, id) = [i \in 1..Len(s) - first + 1 |-> Fork(s[first + i - 1])]
  BY DEF Forked
<1> HIDE DEF first
<1>5. ASSUME NEW x \in E PROVE Fork(x) \in E
  <2>1. Rooted(x) = [kind |-> x.kind, id |-> x.id, parent |-> NoId]
    BY DEF Rooted, Entry
  <2>2. x \in Line /\ IsEntry(x) /\ x.id \in 1..k
    BY DEF Lines
  <2>3. Rooted(x) \in Line /\ IsEntry(Rooted(x)) /\ Rooted(x).id \in 1..k
    BY <2>1, <2>2 DEF Line, IsEntry
  <2> QED BY <2>3 DEF Lines
<1> DEFINE t == [i \in 1..Len(s) - first + 1 |-> Fork(s[first + i - 1])]
<1>6. Len(s) - first + 1 \in Nat
      /\ \A i \in 1..Len(s) - first + 1 : first + i - 1 \in 1..Len(s)
  BY <1>1, <1>3
<1> HIDE DEF E
<1>7. \A i \in 1..Len(s) - first + 1 : Fork(s[first + i - 1]) \in E
  BY <1>1, <1>5, <1>6
<1> HIDE DEF Fork
<1>8. t \in Seq(E) /\ Len(t) = Len(s) - first + 1
  BY <1>6, <1>7
<1>9. ASSUME NEW e \in EntrySet(t)
      PROVE  \E x \in EntrySet(s) : e = Fork(x)
  <2> HIDE DEF t
  <2>1. PICK i \in 1..Len(t) : e = t[i]
    BY <1>8, EntryIn
  <2>2. first + i - 1 \in 1..Len(s)
    BY <1>6, <1>8
  <2>3. t[i] = Fork(s[first + i - 1])
    BY <1>8, <2>1 DEF t
  <2>4. s[first + i - 1] \in EntrySet(s)
    <3>1. IsEntry(s[first + i - 1])
      BY <1>1, <2>2 DEF E
    <3> QED BY <2>2, <3>1, EntryIn
  <2> QED BY <2>1, <2>3, <2>4
<1> QED BY <1>4, <1>8, <1>9 DEF E, Fork

----------------------------------------------------------------------------
(* The invariant.                                                          *)

\* Every line is one that can have been made, and the leaf is in the buffer.
FilesKnown ==
  /\ made \in 0..MaxEntries
  /\ disk \in [Files -> Seq(Lines(made))]
  /\ ragged \subseteq Files /\ hurt \subseteq Files

ManagersKnown ==
  /\ path \in [Managers -> Files \cup {NoFile}]
  /\ buffer \in [Managers -> Seq(Lines(made))]
  /\ leaf \in [Managers -> Ids \cup {NoId}]
  /\ flushed \in [Managers -> BOOLEAN]
  /\ \A m \in Managers : leaf[m] \in IdsOf(buffer[m]) \cup {NoId}

\* The entries of a file and of the managers that are on it: the next flush
\* may write any of a buffer. They make one tree.
Held(f) ==
  {e \in Line : \/ e \in EntrySet(disk[f])
               \/ \E m \in Managers : path[m] = f /\ e \in EntrySet(buffer[m])}

Tree(set) == \A e1, e2 \in set : e1.id = e2.id => e1 = e2

Trees == \A f \in Files : Tree(Held(f))

\* A file that was never torn or old begins with a header of this version and
\* has no other, and so has the buffer of a manager on it. What the manager
\* has written is in the file, and what it has not is no answer.
Proper(lines) == CurrentVersion(lines) /\ (lines # <<>> => lines[1].kind = "header")

FilesWhole == \A f \in Files \ hurt : f \notin ragged /\ Proper(disk[f])

Written(lines, file) == file # <<>> /\ EntrySet(lines) \subseteq EntrySet(file)

BuffersStored ==
  \A m \in Managers : path[m] # NoFile /\ path[m] \notin hurt =>
    /\ buffer[m] # <<>> /\ Proper(buffer[m])
    /\ IF flushed[m] THEN Written(buffer[m], disk[path[m]])
                     ELSE ~HasAssistant(buffer[m])

StoreInv == FilesKnown /\ ManagersKnown /\ Trees /\ FilesWhole /\ BuffersStored

\* The lines of a state are lines, and the ids of its entries were made.
LEMMA KnownFacts ==
  ASSUME NEW k \in 0..MaxEntries, NEW s \in Seq(Lines(k))
  PROVE  /\ s \in Seq(Line)
         /\ \A e \in EntrySet(s) : e \in Line /\ IsEntry(e) /\ e.id \in 1..k /\ e.id \in Ids
         /\ IdsOf(s) \subseteq Ids
<1>1. k \in Nat /\ 1..k \subseteq Ids
  BY StoreAssumption DEF Ids
<1>2. s \in Seq(Line)
  <2>1. Lines(k) \subseteq Line
    BY DEF Lines
  <2> QED BY <2>1, SeqMonotonic
<1>3. ASSUME NEW e \in EntrySet(s)
      PROVE  e \in Line /\ IsEntry(e) /\ e.id \in 1..k /\ e.id \in Ids
  <2>1. e \in Lines(k) /\ IsEntry(e)
    BY EntryIn
  <2> QED BY <1>1, <2>1 DEF Lines
<1>4. IdsOf(s) \subseteq Ids
  BY <1>3, EntryIn
<1> QED BY <1>2, <1>3, <1>4

\* Less is a tree when more is.
LEMMA SmallerTree ==
  ASSUME NEW A, NEW B, A \subseteq B, Tree(B)
  PROVE  Tree(A)
BY DEF Tree

LEMMA InvImplies ==
  ASSUME StoreInv
  PROVE  StoreTypeOK /\ ConversationOnDisk /\ OneTree
<1>1. made \in 0..MaxEntries
  BY DEF StoreInv, FilesKnown
<1>2. \A f \in Files : disk[f] \in Seq(Lines(made)) /\ disk[f] \in Seq(Line)
  BY <1>1, KnownFacts DEF StoreInv, FilesKnown
<1>3. \A m \in Managers : buffer[m] \in Seq(Lines(made)) /\ buffer[m] \in Seq(Line)
  BY <1>1, KnownFacts DEF StoreInv, ManagersKnown
<1>4. StoreTypeOK
  BY <1>2, <1>3 DEF StoreTypeOK, StoreInv, FilesKnown, ManagersKnown
<1>5. ConversationOnDisk
  <2> SUFFICES ASSUME NEW m \in Managers, path[m] # NoFile, HasAssistant(buffer[m]),
                      path[m] \notin hurt
               PROVE  EntrySet(buffer[m]) \subseteq Loaded(disk[path[m]])
    BY DEF ConversationOnDisk
  <2>1. Written(buffer[m], disk[path[m]]) /\ path[m] \in Files
    BY DEF StoreInv, BuffersStored, ManagersKnown
  <2>2. Proper(disk[path[m]])
    BY <2>1 DEF StoreInv, FilesWhole
  <2>3. Headed(disk[path[m]])
    <3> DEFINE d == disk[path[m]]
    <3>1. d # <<>> /\ d[1].kind \in Headers /\ d \in Seq(Line)
      BY <1>2, <2>1, <2>2 DEF Written, Proper, Headers
    <3> HIDE DEF d
    <3>2. Headed(d)
      BY <3>1, HeaderFirst
    <3> QED BY <3>2 DEF d
  <2> QED BY <1>2, <2>1, <2>3, ReadableFacts DEF Written
<1>6. OneTree
  <2> SUFFICES ASSUME NEW f \in Files PROVE Tree(EntrySet(disk[f]))
    BY DEF OneTree, Tree
  <2>1. EntrySet(disk[f]) \subseteq Held(f)
    BY <1>1, <1>2, KnownFacts DEF Held
  <2> QED BY <2>1, SmallerTree DEF StoreInv, Trees
<1> QED BY <1>4, <1>5, <1>6

LEMMA InitStore == StoreInit => StoreInv
<1> SUFFICES ASSUME StoreInit PROVE StoreInv
  OBVIOUS
<1> DEFINE old == OldConversation
<1>1. /\ made \in 0..MaxEntries
      /\ OldFiles # {} => made = 2
  BY StoreAssumption DEF StoreInit
<1>2. ASSUME OldFiles # {}
      PROVE  old \in Seq(Lines(made)) /\ Tree(EntrySet(old))
  <2>1. 1 \in Ids /\ 2 \in Ids
    BY <1>2, StoreAssumption DEF Ids
  <2> DEFINE a == Bare("oldHeader")
             b == Entry("other", 1, NoId)
             c == Entry("assistant", 2, 1)
  <2>2. a \in Lines(2) /\ ~IsEntry(a)
    BY BareLines DEF Headers
  <2>3. b \in Lines(2) /\ c \in Lines(2)
    BY <2>1 DEF Entry, Lines, Line, Kinds, NoId
  <2>4. b.id = 1 /\ c.id = 2
    BY DEF Entry
  <2>5. old = <<a, b, c>>
    BY DEF OldConversation
  <2> HIDE DEF a, b, c, old
  <2>6. old \in Seq(Lines(2)) /\ Len(old) = 3
        /\ old[1] = a /\ old[2] = b /\ old[3] = c
    BY <2>2, <2>3, <2>5
  <2>7. \A e \in EntrySet(old) : e \in {b, c}
    <3> SUFFICES ASSUME NEW e \in EntrySet(old) PROVE e \in {b, c}
      OBVIOUS
    <3>1. PICK i \in 1..Len(old) : e = old[i] /\ IsEntry(old[i])
      BY <2>6, EntryIn
    <3>2. i \in {1, 2, 3}
      BY <2>6
    <3> QED BY <2>2, <2>6, <3>1, <3>2
  <2> QED BY <1>1, <1>2, <2>4, <2>6, <2>7 DEF Tree
<1>3. \A f \in Files : disk[f] = IF f \in OldFiles THEN old ELSE <<>>
  BY DEF StoreInit
<1> HIDE DEF old
<1>4. ASSUME NEW f \in Files
      PROVE  disk[f] \in Seq(Lines(made)) /\ Tree(EntrySet(disk[f]))
  <2>1. CASE f \in OldFiles
    BY <1>2, <1>3, <2>1
  <2>2. CASE f \notin OldFiles
    <3>1. disk[f] = <<>> /\ <<>> \in Seq(Lines(made))
      BY <1>3, <2>2
    <3>2. Tree(EntrySet(<<>>))
      BY EntriesOfNone DEF Tree
    <3> QED BY <3>1, <3>2
  <2> QED BY <2>1, <2>2
<1>5. FilesKnown
  <2>1. disk = [f \in Files |-> disk[f]] /\ ragged = {} /\ hurt = OldFiles
    BY DEF StoreInit
  <2> QED BY <1>1, <1>4, <2>1, StoreAssumption DEF FilesKnown
<1>6. \A m \in Managers : path[m] = NoFile /\ buffer[m] = <<>>
  BY DEF StoreInit
<1>7. ManagersKnown
  <2>1. <<>> \in Seq(Lines(made))
    OBVIOUS
  <2> QED BY <2>1 DEF StoreInit, ManagersKnown
<1>8. Trees
  <2> SUFFICES ASSUME NEW f \in Files PROVE Tree(Held(f))
    BY DEF Trees
  <2>1. Held(f) \subseteq EntrySet(disk[f])
    BY <1>6, StoreAssumption DEF Held
  <2> QED BY <1>4, <2>1, SmallerTree
<1>9. FilesWhole
  <2> SUFFICES ASSUME NEW f \in Files \ hurt PROVE f \notin ragged /\ Proper(disk[f])
    BY DEF FilesWhole
  <2>1. f \notin ragged /\ disk[f] = <<>>
    BY <1>3 DEF StoreInit
  <2>2. Proper(<<>>)
    BY DEF Proper, CurrentVersion
  <2> QED BY <2>1, <2>2
<1>10. BuffersStored
  BY <1>6 DEF BuffersStored
<1> QED BY <1>5, <1>7, <1>8, <1>9, <1>10 DEF StoreInv

----------------------------------------------------------------------------
(* Steps that open a file: the manager has these lines of it, the file     *)
(* holds those.                                                            *)

Opens(m, f, lines, onDisk, file) ==
  /\ f \in Files /\ onDisk \in BOOLEAN
  /\ lines \in Seq(Lines(made)) /\ file \in Seq(Lines(made))
  /\ Hold(m, f, lines, onDisk)
  /\ disk' = [disk EXCEPT ![f] = file] /\ UNCHANGED <<made, hurt>>
  /\ ragged' \in {ragged, ragged \ {f}}
  /\ Tree(Held(f) \cup EntrySet(lines) \cup EntrySet(file))
  /\ f \notin Damaged => Loaded(disk[f]) \subseteq Loaded(file)
  /\ f \notin hurt =>
       /\ Proper(file) /\ EntrySet(disk[f]) \subseteq EntrySet(file)
       /\ disk[f] # <<>> => file # <<>>
       /\ lines # <<>> /\ Proper(lines)
       /\ IF onDisk THEN Written(lines, file) ELSE ~HasAssistant(lines)

\* What a step leaves of the other files and of the other managers.
LEMMA OpensFrame ==
  ASSUME StoreInv, NEW m \in Managers, NEW f, NEW lines, NEW onDisk, NEW file,
         Opens(m, f, lines, onDisk, file)
  PROVE  /\ \A g \in Files : disk'[g] = IF g = f THEN file ELSE disk[g]
         /\ \A n \in Managers :
              /\ path'[n] = IF n = m THEN f ELSE path[n]
              /\ buffer'[n] = IF n = m THEN lines ELSE buffer[n]
              /\ flushed'[n] = IF n = m THEN onDisk ELSE flushed[n]
              /\ leaf'[n] = IF n = m THEN LastId(lines) ELSE leaf[n]
BY DEF StoreInv, FilesKnown, ManagersKnown, Opens, Hold

LEMMA OpensKnown ==
  ASSUME StoreInv, NEW m \in Managers, NEW f, NEW lines, NEW onDisk, NEW file,
         Opens(m, f, lines, onDisk, file)
  PROVE  FilesKnown' /\ ManagersKnown'
<1>1. FilesKnown'
  BY DEF StoreInv, FilesKnown, Opens
<1>2. LastId(lines) \in IdsOf(lines) \cup {NoId} /\ IdsOf(lines) \subseteq Ids
  <2>1. lines \in Seq(Lines(made)) /\ made \in 0..MaxEntries
    BY DEF Opens, StoreInv, FilesKnown
  <2> QED BY <2>1, LastIdIn, KnownFacts
<1>3. /\ path' \in [Managers -> Files \cup {NoFile}]
      /\ buffer' \in [Managers -> Seq(Lines(made))]
      /\ leaf' \in [Managers -> Ids \cup {NoId}]
      /\ flushed' \in [Managers -> BOOLEAN]
      /\ made' = made
  BY <1>2 DEF StoreInv, ManagersKnown, Opens, Hold
<1>4. ASSUME NEW n \in Managers
      PROVE  leaf'[n] \in IdsOf(buffer'[n]) \cup {NoId}
  <2>1. CASE n = m
    BY <1>2, <2>1, OpensFrame
  <2>2. CASE n # m
    BY <2>2, OpensFrame DEF StoreInv, ManagersKnown
  <2> QED BY <2>1, <2>2
<1>5. ManagersKnown'
  BY <1>3, <1>4 DEF ManagersKnown
<1> QED BY <1>1, <1>5

LEMMA OpensInv ==
  ASSUME StoreInv, NEW m \in Managers, NEW f, NEW lines, NEW onDisk, NEW file,
         Opens(m, f, lines, onDisk, file)
  PROVE  StoreInv'
<1>1. FilesKnown' /\ ManagersKnown'
  BY OpensKnown
<1>2. f \in Files /\ hurt' = hurt /\ ragged' \subseteq ragged
  BY DEF Opens
<1>3. Trees'
  <2> SUFFICES ASSUME NEW g \in Files PROVE Tree(Held(g)')
    BY DEF Trees, Tree
  <2>1. CASE g = f
    <3>1. Held(g)' \subseteq Held(f) \cup EntrySet(lines) \cup EntrySet(file)
      BY <2>1, OpensFrame DEF Held
    <3> QED BY <3>1, SmallerTree DEF Opens
  <2>2. CASE g # f
    <3>1. Held(g)' \subseteq Held(g)
      BY <2>2, OpensFrame DEF Held
    <3> QED BY <3>1, SmallerTree DEF StoreInv, Trees
  <2> QED BY <2>1, <2>2
<1>4. FilesWhole'
  <2> SUFFICES ASSUME NEW g \in Files \ hurt PROVE g \notin ragged' /\ Proper(disk'[g])
    BY <1>2 DEF FilesWhole, Proper, CurrentVersion
  <2>1. g \notin ragged /\ Proper(disk[g])
    BY DEF StoreInv, FilesWhole
  <2>2. g = f => Proper(file)
    BY DEF Opens
  <2> QED BY <1>2, <2>1, <2>2, OpensFrame
<1>5. BuffersStored'
  <2> SUFFICES ASSUME NEW n \in Managers, path'[n] # NoFile, path'[n] \notin hurt
               PROVE  /\ buffer'[n] # <<>> /\ Proper(buffer'[n])
                      /\ IF flushed'[n] THEN Written(buffer'[n], disk'[path'[n]])
                                        ELSE ~HasAssistant(buffer'[n])
    BY <1>2 DEF BuffersStored, Proper, CurrentVersion, Written, HasAssistant, EntrySet, IsEntry
  <2>1. CASE n = m
    <3>1. path'[n] = f /\ buffer'[n] = lines /\ flushed'[n] = onDisk /\ disk'[f] = file
      BY <1>2, <2>1, OpensFrame
    <3> QED BY <3>1 DEF Opens
  <2>2. CASE n # m
    <3>1. path'[n] = path[n] /\ buffer'[n] = buffer[n] /\ flushed'[n] = flushed[n]
      BY <2>2, OpensFrame
    <3>2. /\ buffer[n] # <<>> /\ Proper(buffer[n])
          /\ IF flushed[n] THEN Written(buffer[n], disk[path[n]])
                           ELSE ~HasAssistant(buffer[n])
      BY <3>1 DEF StoreInv, BuffersStored
    <3>3. path[n] \in Files
      BY <3>1 DEF StoreInv, ManagersKnown
    <3>4. Written(buffer[n], disk[path[n]]) => Written(buffer[n], disk'[path[n]])
      <4>1. CASE path[n] = f
        <5>1. disk'[f] = file /\ EntrySet(disk[f]) \subseteq EntrySet(file)
              /\ (disk[f] # <<>> => file # <<>>)
          <6>1. f \notin hurt /\ disk'[f] = file
            BY <1>2, <3>1, <4>1, OpensFrame
          <6> QED BY <6>1 DEF Opens
        <5> QED BY <4>1, <5>1 DEF Written
      <4>2. CASE path[n] # f
        BY <3>3, <4>2, OpensFrame
      <4> QED BY <4>1, <4>2
    <3> QED BY <3>1, <3>2, <3>4
  <2> QED BY <2>1, <2>2
<1> QED BY <1>1, <1>3, <1>4, <1>5 DEF StoreInv

LEMMA BranchInv ==
  ASSUME StoreInv, NEW m \in Managers, Branch(m)
  PROVE  StoreInv'
<1>1. PICK id \in IdsOf(buffer[m]) \cup {NoId} : leaf' = [leaf EXCEPT ![m] = id]
  BY DEF Branch
<1>2. UNCHANGED <<fileVars, made, path, buffer, flushed>>
  BY DEF Branch
<1>3. id \in Ids \cup {NoId}
  <2>1. made \in 0..MaxEntries /\ buffer[m] \in Seq(Lines(made))
    BY DEF StoreInv, FilesKnown, ManagersKnown
  <2> QED BY <2>1, KnownFacts
<1>4. ManagersKnown'
  BY <1>1, <1>2, <1>3 DEF StoreInv, ManagersKnown
<1>5. FilesKnown'
  BY <1>2 DEF StoreInv, FilesKnown, fileVars
<1>6. Trees' /\ FilesWhole' /\ BuffersStored'
  BY <1>2 DEF StoreInv, fileVars, Trees, Held, FilesWhole, BuffersStored
<1> QED BY <1>4, <1>5, <1>6 DEF StoreInv

----------------------------------------------------------------------------
(* Each of the steps that open a file.                                     *)

\* What is known of a file before it is opened.
LEMMA BeforeOpening ==
  ASSUME StoreInv, NEW f \in Files
  PROVE  /\ made \in 0..MaxEntries
         /\ disk[f] \in Seq(Lines(made)) /\ EntrySet(disk[f]) \subseteq Held(f)
         /\ Tree(Held(f))
         /\ Readable(disk[f]) \in Seq(Lines(made))
         /\ EntrySet(Readable(disk[f])) \subseteq EntrySet(disk[f])
         /\ f \notin hurt =>
              /\ f \notin ragged /\ Proper(disk[f]) /\ CurrentVersion(Readable(disk[f]))
              /\ disk[f] # <<>> =>
                   /\ Headed(disk[f]) /\ Readable(disk[f]) # <<>>
                   /\ Proper(Readable(disk[f]))
<1>1. made \in 0..MaxEntries /\ disk[f] \in Seq(Lines(made))
  BY DEF StoreInv, FilesKnown
<1>2. EntrySet(disk[f]) \subseteq Held(f)
  BY <1>1, KnownFacts DEF Held
<1>3. Tree(Held(f))
  BY DEF StoreInv, Trees
<1>4. /\ Readable(disk[f]) \in Seq(Lines(made))
      /\ EntrySet(Readable(disk[f])) \subseteq EntrySet(disk[f])
      /\ CurrentVersion(disk[f]) => CurrentVersion(Readable(disk[f]))
  BY <1>1, ReadableFacts
<1>5. f \notin hurt => f \notin ragged /\ Proper(disk[f])
  BY DEF StoreInv, FilesWhole
<1>6. ASSUME f \notin hurt, disk[f] # <<>>
      PROVE  /\ Headed(disk[f]) /\ Readable(disk[f]) # <<>>
             /\ Proper(Readable(disk[f]))
  <2>1. disk[f][1].kind = "header" /\ disk[f][1].kind \in Headers
    BY <1>5, <1>6 DEF Proper, Headers
  <2>2. Headed(disk[f]) /\ Readable(disk[f]) # <<>> /\ Readable(disk[f])[1] = disk[f][1]
    BY <1>1, <1>6, <2>1, HeaderFirst
  <2> QED BY <1>4, <1>5, <1>6, <2>1, <2>2 DEF Proper
<1> QED BY <1>1, <1>2, <1>3, <1>4, <1>5, <1>6 DEF Proper

\* The file of a header alone.
LEMMA OnlyHeader ==
  ASSUME NEW k
  PROVE  /\ <<Bare("header")>> \in Seq(Lines(k)) /\ <<Bare("header")>> # <<>>
         /\ EntrySet(<<Bare("header")>>) = {} /\ Proper(<<Bare("header")>>)
         /\ ~HasAssistant(<<Bare("header")>>)
<1> DEFINE h == Bare("header")
<1>1. h \in Lines(k) /\ ~IsEntry(h) /\ h.kind = "header"
  BY BareLines DEF Headers
<1> HIDE DEF h
<1>2. <<h>> \in Seq(Lines(k)) /\ <<h>> # <<>>
  BY <1>1
<1>3. EntrySet(<<h>>) = {}
  BY <1>1, EntriesOfOne, Zenon
<1>4. DOMAIN <<h>> = {1} /\ <<h>>[1] = h
  OBVIOUS
<1>5. Proper(<<h>>)
  BY <1>1, <1>4 DEF Proper, CurrentVersion
<1> QED BY <1>2, <1>3, <1>5 DEF h, HasAssistant

\* A file that is not used yet has no entries, nor has a manager any of it.
LEMMA UnusedFacts ==
  ASSUME NEW f, Unused(f)
  PROVE  disk[f] = <<>> /\ Held(f) = {} /\ EntrySet(disk[f]) = {} /\ Loaded(disk[f]) = {}
<1>1. disk[f] = <<>> /\ \A m \in Managers : path[m] # f
  BY DEF Unused
<1>2. EntrySet(<<>>) = {}
  BY EntriesOfNone
<1>3. Loaded(<<>>) = {}
  <2>1. <<>> \in Seq(Line)
    OBVIOUS
  <2> QED BY <1>2, <2>1, ReadableFacts
<1> QED BY <1>1, <1>2, <1>3 DEF Held

LEMMA CreateOpens ==
  ASSUME StoreInv, NEW m \in Managers, Create(m)
  PROVE  \E f, lines, onDisk, file : Opens(m, f, lines, onDisk, file)
<1> DEFINE header == <<Bare("header")>>
<1>1. PICK f \in Files : Unused(f) /\ Hold(m, f, header, FALSE)
  BY DEF Create
<1>2. UNCHANGED <<disk, ragged, hurt, made>>
  BY DEF Create, fileVars
<1>3. /\ header \in Seq(Lines(made)) /\ header # <<>>
      /\ EntrySet(header) = {} /\ Proper(header) /\ ~HasAssistant(header)
  BY OnlyHeader
<1> HIDE DEF header
<1>4. disk[f] = <<>> /\ Held(f) = {} /\ EntrySet(disk[f]) = {}
  BY <1>1, UnusedFacts
<1>5. disk[f] \in Seq(Lines(made)) /\ disk' = [disk EXCEPT ![f] = disk[f]]
  BY <1>2 DEF StoreInv, FilesKnown
<1>6. f \notin hurt => Proper(disk[f])
  BY DEF StoreInv, FilesWhole
<1>7. Tree(Held(f) \cup EntrySet(header) \cup EntrySet(disk[f]))
  BY <1>3, <1>4 DEF Tree
<1>8. Opens(m, f, header, FALSE, disk[f])
  BY <1>1, <1>2, <1>3, <1>5, <1>6, <1>7 DEF Opens
<1> QED BY <1>8

\* A file that was never torn and is not old can be read.
LEMMA UnreadableOpens ==
  ASSUME StoreInv, NEW m \in Managers, NEW f \in Files, OpenUnreadable(m, f)
  PROVE  \E lines, onDisk, file : Opens(m, f, lines, onDisk, file)
<1> DEFINE header == <<Bare("header")>>
           written == IF header = <<>> THEN <<Bare("blank")>> ELSE header
<1>1. /\ disk[f] # <<>> /\ Readable(disk[f]) = <<>> /\ made' = made
      /\ Hold(m, f, header, TRUE) /\ Rewrite(f, header)
  BY DEF OpenUnreadable
<1>2. /\ header \in Seq(Lines(made)) /\ header # <<>>
      /\ EntrySet(header) = {} /\ Proper(header)
  BY OnlyHeader
<1>3. f \in hurt
  BY <1>1, BeforeOpening
<1>4. PICK file \in {header, disk[f]} :
        /\ disk' = [disk EXCEPT ![f] = file]
        /\ ragged' \in {ragged, ragged \ {f}} /\ hurt' = hurt
  <2>1. CASE /\ disk' = [disk EXCEPT ![f] = written]
             /\ ragged' = ragged \ {f} /\ hurt' = hurt
    BY <1>2, <2>1
  <2>2. CASE f \in Failing /\ hurt' = hurt \cup {f} /\ disk' = disk /\ ragged' = ragged
    BY <1>3, <2>2 DEF StoreInv, FilesKnown
  <2> QED BY <1>1, <2>1, <2>2 DEF Rewrite
<1> HIDE DEF header
<1>5. file \in Seq(Lines(made)) /\ EntrySet(file) \subseteq Held(f) /\ Tree(Held(f))
  BY <1>2, <1>4, BeforeOpening
<1>6. Tree(Held(f) \cup EntrySet(header) \cup EntrySet(file))
  BY <1>2, <1>5 DEF Tree
<1>7. Loaded(disk[f]) = {}
  BY <1>1, BeforeOpening, ReadableFacts
<1>8. Opens(m, f, header, TRUE, file)
  BY <1>1, <1>2, <1>3, <1>4, <1>5, <1>6, <1>7 DEF Opens
<1> QED BY <1>8

LEMMA CurrentOpens ==
  ASSUME StoreInv, NEW m \in Managers, NEW f \in Files, OpenCurrent(m, f)
  PROVE  \E lines, onDisk, file : Opens(m, f, lines, onDisk, file)
<1> DEFINE lines == Readable(disk[f])
<1>1. /\ lines # <<>> /\ Hold(m, f, lines, TRUE)
      /\ UNCHANGED <<disk, ragged, hurt, made>>
  BY DEF OpenCurrent, fileVars
<1>2. /\ disk[f] \in Seq(Lines(made)) /\ EntrySet(disk[f]) \subseteq Held(f) /\ Tree(Held(f))
      /\ lines \in Seq(Lines(made)) /\ EntrySet(lines) \subseteq EntrySet(disk[f])
      /\ f \notin hurt =>
           /\ Proper(disk[f])
           /\ disk[f] # <<>> => Proper(lines)
  BY BeforeOpening
<1>3. disk[f] # <<>>
  <2>1. Readable(<<>>) = <<>>
    <3>1. <<>> \in Seq(Line) /\ ~Headed(<<>>)
      BY DEF Headed
    <3> QED BY <3>1, ReadableFacts
  <2> QED BY <1>1, <2>1
<1> HIDE DEF lines
<1>4. disk' = [disk EXCEPT ![f] = disk[f]]
  BY <1>1 DEF StoreInv, FilesKnown
<1>5. Tree(Held(f) \cup EntrySet(lines) \cup EntrySet(disk[f]))
  <2>1. Held(f) \cup EntrySet(lines) \cup EntrySet(disk[f]) \subseteq Held(f)
    BY <1>2
  <2> QED BY <1>2, <2>1, SmallerTree
<1>6. Opens(m, f, lines, TRUE, disk[f])
  BY <1>1, <1>2, <1>3, <1>4, <1>5 DEF Opens, Written
<1> QED BY <1>6

\* An old file is among the damaged ones and was hurt.
LEMMA OldOpens ==
  ASSUME StoreInv, NEW m \in Managers, NEW f \in Files, OpenOld(m, f)
  PROVE  \E lines, onDisk, file : Opens(m, f, lines, onDisk, file)
<1> DEFINE read == Readable(disk[f])
           lines == Migrated(read)
           blank == <<Bare("blank")>>
<1>1. /\ ~CurrentVersion(read) /\ Hold(m, f, lines, TRUE)
      /\ Rewrite(f, <<>>) /\ made' = made
  BY DEF OpenOld
<1>2. /\ disk[f] \in Seq(Lines(made)) /\ EntrySet(disk[f]) \subseteq Held(f) /\ Tree(Held(f))
      /\ read \in Seq(Lines(made)) /\ EntrySet(read) \subseteq EntrySet(disk[f])
      /\ f \notin hurt => CurrentVersion(read)
  BY BeforeOpening
<1>3. f \in Damaged
  <2>1. CurrentVersion(disk[f]) => CurrentVersion(read)
    BY <1>2, ReadableFacts
  <2> QED BY <1>1, <2>1 DEF Damaged
<1>4. PICK file \in {blank, disk[f]} :
        /\ disk' = [disk EXCEPT ![f] = file]
        /\ ragged' \in {ragged, ragged \ {f}} /\ hurt' = hurt
  <2>1. f \in hurt
    BY <1>1, <1>2
  <2>2. CASE /\ disk' = [disk EXCEPT ![f] = blank]
             /\ ragged' = ragged \ {f} /\ hurt' = hurt
    BY <2>2
  <2>3. CASE f \in Failing /\ hurt' = hurt \cup {f} /\ disk' = disk /\ ragged' = ragged
    BY <2>1, <2>3 DEF StoreInv, FilesKnown
  <2> QED BY <1>1, <2>2, <2>3 DEF Rewrite
<1> HIDE DEF read
<1>5. lines \in Seq(Lines(made)) /\ EntrySet(lines) \subseteq EntrySet(read)
  BY <1>2, MigratedFacts
<1>6. blank \in Seq(Lines(made)) /\ EntrySet(blank) = {}
  <2> DEFINE b == Bare("blank")
  <2>1. b \in Lines(made) /\ ~IsEntry(b)
    BY BareLines DEF Unparsed
  <2> HIDE DEF b
  <2>2. <<b>> \in Seq(Lines(made))
    BY <2>1
  <2>3. EntrySet(<<b>>) = {}
    BY <2>1, EntriesOfOne, Zenon
  <2> QED BY <2>2, <2>3 DEF b
<1> HIDE DEF lines, blank
<1>7. file \in Seq(Lines(made)) /\ EntrySet(file) \subseteq Held(f)
  BY <1>2, <1>4, <1>6
<1>8. Tree(Held(f) \cup EntrySet(lines) \cup EntrySet(file))
  <2>1. Held(f) \cup EntrySet(lines) \cup EntrySet(file) \subseteq Held(f)
    BY <1>2, <1>5, <1>7
  <2> QED BY <1>2, <2>1, SmallerTree
<1>9. f \in hurt
  BY <1>1, <1>2
<1>10. Opens(m, f, lines, TRUE, file)
  BY <1>1, <1>3, <1>4, <1>5, <1>7, <1>8, <1>9 DEF Opens
<1> QED BY <1>10

LEMMA OneAndMore ==
  ASSUME NEW S, NEW h \in Seq(S), Len(h) = 1, NEW s \in Seq(S)
  PROVE  /\ h \o s \in Seq(S) /\ Len(h \o s) = 1 + Len(s)
         /\ \A i \in 1..1 + Len(s) : (h \o s)[i] = IF i <= 1 THEN h[i] ELSE s[i - 1]
         /\ EntrySet(h \o s) = EntrySet(h) \cup EntrySet(s)
<1> DEFINE u == h \o s
<1>1. /\ u \in Seq(S) /\ Len(u) = Len(h) + Len(s)
      /\ \A i \in 1..Len(h) + Len(s) : u[i] = IF i <= Len(h) THEN h[i] ELSE s[i - Len(h)]
  BY ConcatProperties
<1>2. EntrySet(u) = EntrySet(h) \cup EntrySet(s)
  BY EntriesConcat
<1> HIDE DEF u
<1>3. Len(s) \in Nat
  OBVIOUS
<1> QED BY <1>1, <1>2, <1>3 DEF u

LEMMA MaterializeOpens ==
  ASSUME StoreInv, NEW m \in Managers, NEW f \in Files,
         NEW entries \in Seq({e \in Lines(made) : IsEntry(e)}), Tree(EntrySet(entries)),
         Materialize(m, f, entries)
  PROVE  \E lines, onDisk, file : Opens(m, f, lines, onDisk, file)
<1> DEFINE header == <<Bare("header")>>
           lines == header \o entries
           E == {e \in Lines(made) : IsEntry(e)}
<1>1. /\ Unused(f) /\ disk' = [disk EXCEPT ![f] = lines]
      /\ Hold(m, f, lines, TRUE) /\ UNCHANGED <<ragged, hurt, made>>
  BY DEF Materialize
<1>2. entries \in Seq(Lines(made)) /\ \A i \in 1..Len(entries) : entries[i] \in E
  <2>1. E \subseteq Lines(made)
    OBVIOUS
  <2>2. entries \in Seq(E)
    OBVIOUS
  <2> HIDE DEF E
  <2> QED BY <2>1, <2>2, SeqMonotonic
<1>3. /\ header \in Seq(Lines(made)) /\ Len(header) = 1
      /\ EntrySet(header) = {} /\ Proper(header) /\ header[1].kind = "header"
  <2>1. Len(header) = 1 /\ header[1] = Bare("header")
    OBVIOUS
  <2>2. header # <<>> /\ Proper(header)
    BY OnlyHeader
  <2> QED BY <2>1, <2>2, OnlyHeader DEF Proper
<1> HIDE DEF header
<1>4. /\ lines \in Seq(Lines(made)) /\ Len(lines) = 1 + Len(entries)
      /\ \A i \in 1..1 + Len(entries) :
           lines[i] = IF i <= 1 THEN header[i] ELSE entries[i - 1]
      /\ EntrySet(lines) = EntrySet(header) \cup EntrySet(entries)
  <2>1. header \in Seq(Lines(made)) /\ Len(header) = 1 /\ entries \in Seq(Lines(made))
    BY <1>2, <1>3
  <2> QED BY <2>1, OneAndMore
<1>5. EntrySet(lines) = EntrySet(entries)
  <2> HIDE DEF lines
  <2> QED BY <1>3, <1>4
<1> HIDE DEF lines
<1>6. Proper(lines) /\ lines # <<>>
  <2>1. Len(entries) \in Nat
    OBVIOUS
  <2>2. lines # <<>> /\ lines[1] = header[1] /\ DOMAIN lines = 1..1 + Len(entries)
    BY <1>4, <2>1
  <2>3. ASSUME NEW i \in 1..1 + Len(entries) PROVE lines[i].kind # "oldHeader"
    <3>1. CASE i = 1
      BY <1>3, <2>2, <3>1
    <3>2. CASE i # 1
      <4>1. i - 1 \in 1..Len(entries) /\ lines[i] = entries[i - 1]
        BY <1>4, <2>1, <3>2
      <4>2. IsEntry(entries[i - 1])
        BY <1>2, <4>1
      <4> QED BY <4>1, <4>2 DEF IsEntry, Kinds
    <3> QED BY <3>1, <3>2
  <2> QED BY <1>3, <2>2, <2>3 DEF Proper, CurrentVersion
<1>7. disk[f] = <<>> /\ Held(f) = {} /\ EntrySet(disk[f]) = {} /\ Loaded(disk[f]) = {}
  BY <1>1, UnusedFacts
<1>8. Tree(Held(f) \cup EntrySet(lines) \cup EntrySet(lines))
  BY <1>5, <1>7 DEF Tree
<1>9. Opens(m, f, lines, TRUE, lines)
  BY <1>1, <1>4, <1>6, <1>7, <1>8 DEF Opens, Written
<1> QED BY <1>9

\* What a file is forked from.
LEMMA SourceEntries ==
  ASSUME StoreInv, NEW f \in Files
  PROVE  /\ EntriesOf(Readable(disk[f])) \in Seq({e \in Lines(made) : IsEntry(e)})
         /\ Tree(EntrySet(EntriesOf(Readable(disk[f]))))
<1> DEFINE read == Readable(disk[f])
<1>1. /\ read \in Seq(Lines(made)) /\ EntrySet(read) \subseteq EntrySet(disk[f])
      /\ EntrySet(disk[f]) \subseteq Held(f) /\ Tree(Held(f))
  BY BeforeOpening
<1> HIDE DEF read
<1>2. /\ EntriesOf(read) \in Seq({e \in Lines(made) : IsEntry(e)})
      /\ EntrySet(EntriesOf(read)) = EntrySet(read)
  BY <1>1, EntriesOfFacts
<1>3. Tree(EntrySet(read))
  <2>1. EntrySet(read) \subseteq Held(f)
    BY <1>1
  <2> QED BY <1>1, <2>1, SmallerTree
<1> QED BY <1>2, <1>3 DEF read

LEMMA ForkFromOpens ==
  ASSUME StoreInv, NEW m \in Managers, ForkFrom(m)
  PROVE  \E f, lines, onDisk, file : Opens(m, f, lines, onDisk, file)
<1>1. PICK source \in Files, f \in Files : Materialize(m, f, EntriesOf(Readable(disk[source])))
  BY DEF ForkFrom
<1> DEFINE entries == EntriesOf(Readable(disk[source]))
<1>2. entries \in Seq({e \in Lines(made) : IsEntry(e)}) /\ Tree(EntrySet(entries))
  BY SourceEntries
<1> HIDE DEF entries
<1>3. Materialize(m, f, entries)
  BY <1>1 DEF entries
<1> QED BY <1>2, <1>3, MaterializeOpens

\* A fork is a tree: all lines with the id it starts from become one root.
LEMMA BranchFromEntryOpens ==
  ASSUME StoreInv, NEW m \in Managers, BranchFromEntry(m)
  PROVE  \E f, lines, onDisk, file : Opens(m, f, lines, onDisk, file)
<1> DEFINE entries == EntriesOf(Readable(disk[path[m]]))
<1>1. path[m] \in Files
  BY DEF BranchFromEntry, StoreInv, ManagersKnown
<1>2. entries \in Seq({e \in Lines(made) : IsEntry(e)}) /\ Tree(EntrySet(entries))
  BY <1>1, SourceEntries
<1>3. PICK id \in IdsOf(entries), f \in Files : Materialize(m, f, Forked(entries, id))
  BY DEF BranchFromEntry
<1> HIDE DEF entries
<1> DEFINE fork == Forked(entries, id)
<1>4. /\ fork \in Seq({e \in Lines(made) : IsEntry(e)})
      /\ \A e \in EntrySet(fork) :
           \E x \in EntrySet(entries) : e = IF x.id = id THEN Rooted(x) ELSE x
  BY <1>2, ForkedFacts
<1> HIDE DEF fork
<1>5. \A x : Rooted(x).id = x.id
  BY DEF Rooted, Entry
<1>6. Tree(EntrySet(fork))
  <2> SUFFICES ASSUME NEW e1 \in EntrySet(fork), NEW e2 \in EntrySet(fork), e1.id = e2.id
               PROVE  e1 = e2
    BY DEF Tree
  <2>1. PICK x1 \in EntrySet(entries) : e1 = IF x1.id = id THEN Rooted(x1) ELSE x1
    BY <1>4
  <2>2. PICK x2 \in EntrySet(entries) : e2 = IF x2.id = id THEN Rooted(x2) ELSE x2
    BY <1>4
  <2>3. e1.id = x1.id /\ e2.id = x2.id
    BY <1>5, <2>1, <2>2
  <2>4. x1 = x2
    BY <1>2, <2>3 DEF Tree
  <2> QED BY <2>1, <2>2, <2>4
<1>7. Materialize(m, f, fork)
  BY <1>3 DEF fork
<1> QED BY <1>4, <1>6, <1>7, MaterializeOpens

----------------------------------------------------------------------------
(* Steps that append.                                                      *)

\* The new entry fits into every tree.
LEMMA NewInTree ==
  ASSUME StoreInv, NEW f \in Files, NEW e, e.id = made + 1
  PROVE  Tree(Held(f) \cup {e})
<1>1. made \in 0..MaxEntries /\ made \in Nat
  BY StoreAssumption DEF StoreInv, FilesKnown
<1>2. \A x \in Held(f) : x.id \in 1..made
  <2>1. disk[f] \in Seq(Lines(made)) /\ \A m \in Managers : buffer[m] \in Seq(Lines(made))
    BY DEF StoreInv, FilesKnown, ManagersKnown
  <2> QED BY <1>1, <2>1, KnownFacts DEF Held
<1>3. \A x \in Held(f) : x.id # e.id
  BY <1>1, <1>2
<1> QED BY <1>3 DEF StoreInv, Trees, Tree

LEMMA ProperConcat ==
  ASSUME NEW S, NEW s \in Seq(S), NEW t \in Seq(S), t # <<>>,
         Proper(s), CurrentVersion(t), s = <<>> => t[1].kind = "header"
  PROVE  Proper(s \o t) /\ s \o t # <<>>
<1> DEFINE u == s \o t
<1>1. /\ u \in Seq(S) /\ Len(u) = Len(s) + Len(t)
      /\ \A i \in 1..Len(s) + Len(t) :
           u[i] = IF i <= Len(s) THEN s[i] ELSE t[i - Len(s)]
  BY ConcatProperties
<1>2. Len(s) \in Nat /\ Len(t) \in Nat /\ Len(t) # 0
      /\ DOMAIN s = 1..Len(s) /\ DOMAIN t = 1..Len(t) /\ (s = <<>> <=> Len(s) = 0)
  OBVIOUS
<1> HIDE DEF u
<1>3. DOMAIN u = 1..Len(s) + Len(t) /\ u # <<>>
  BY <1>1, <1>2
<1>4. ASSUME NEW i \in 1..Len(s) + Len(t) PROVE u[i].kind # "oldHeader"
  <2>1. CASE i <= Len(s)
    <3>1. i \in DOMAIN s /\ u[i] = s[i]
      BY <1>1, <1>2, <2>1
    <3> QED BY <3>1 DEF Proper, CurrentVersion
  <2>2. CASE ~(i <= Len(s))
    <3>1. i - Len(s) \in DOMAIN t /\ u[i] = t[i - Len(s)]
      BY <1>1, <1>2, <2>2
    <3> QED BY <3>1 DEF CurrentVersion
  <2> QED BY <2>1, <2>2
<1>5. u[1].kind = "header"
  <2>1. CASE s = <<>>
    <3>1. u[1] = t[1]
      BY <1>1, <1>2, <2>1
    <3> QED BY <2>1, <3>1
  <2>2. CASE s # <<>>
    <3>1. u[1] = s[1]
      BY <1>1, <1>2, <2>2
    <3> QED BY <2>2, <3>1 DEF Proper
  <2> QED BY <2>1, <2>2
<1> QED BY <1>3, <1>4, <1>5 DEF u, Proper, CurrentVersion

\* What a write leaves of a file: only old lines and new ones, and all of the
\* old ones if the last had its newline.
LEMMA AppendedFile ==
  ASSUME StoreInv, NEW f \in Files, NEW w \in Seq(Lines(made + 1)), w # <<>>
  PROVE  /\ Joined(f, w) \in Seq(Lines(made + 1))
         /\ EntrySet(Joined(f, w)) \subseteq EntrySet(disk[f]) \cup EntrySet(w)
         /\ f \notin ragged =>
              /\ Joined(f, w) = disk[f] \o w
              /\ EntrySet(Joined(f, w)) = EntrySet(disk[f]) \cup EntrySet(w)
              /\ Loaded(disk[f]) \subseteq Loaded(Joined(f, w))
<1>1. disk[f] \in Seq(Lines(made + 1))
  <2>1. disk[f] \in Seq(Lines(made)) /\ made \in Nat
    BY StoreAssumption DEF StoreInv, FilesKnown
  <2> QED BY <2>1, LinesGrow
<1>2. Bare("junk") \in Lines(made + 1)
  BY BareLines DEF Unparsed
<1>3. f \notin ragged =>
        /\ EntrySet(disk[f] \o w) = EntrySet(disk[f]) \cup EntrySet(w)
        /\ Loaded(disk[f]) \subseteq Loaded(disk[f] \o w)
  BY <1>1, EntriesConcat, LoadedGrows
<1> QED BY <1>1, <1>2, <1>3, JoinedFacts

\* An entry that is made, the buffer that ends with it, and what of the
\* buffer the file lacks.
News(m, e, lines, w) ==
  /\ made \in Nat /\ path[m] \in Files /\ made + 1 \in Ids
  /\ e \in Line /\ IsEntry(e) /\ e.id = made + 1
  /\ lines \in Seq(Lines(made + 1)) /\ lines # <<>>
  /\ EntrySet(lines) = EntrySet(buffer[m]) \cup {e}
  /\ w \in Seq(Lines(made + 1)) /\ w # <<>>
  /\ EntrySet(w) \subseteq EntrySet(lines)
  /\ path[m] \notin hurt =>
       /\ Proper(lines) /\ CurrentVersion(w)
       /\ disk[path[m]] = <<>> => w[1].kind = "header"
       /\ EntrySet(lines) \subseteq EntrySet(disk[path[m]]) \cup EntrySet(w)

LEMMA NewFacts ==
  ASSUME StoreInv, NEW m \in Managers, path[m] # NoFile, made < MaxEntries,
         NEW kind \in Kinds, NEW parent \in Ids \cup {NoId},
         NEW e, e = Entry(kind, made + 1, parent),
         NEW lines, lines = Append(buffer[m], e),
         NEW w, w = Unwritten(m, lines)
  PROVE  News(m, e, lines, w)
<1>1. made \in Nat /\ path[m] \in Files /\ made + 1 \in Ids
  BY StoreAssumption DEF StoreInv, FilesKnown, ManagersKnown, Ids
<1>2. e \in Lines(made + 1) /\ IsEntry(e) /\ e.id = made + 1 /\ e \in Line
  <2>1. e \in Lines(made + 1) /\ IsEntry(e)
    BY <1>1, NewLine
  <2> QED BY <2>1 DEF Entry, Lines
<1>3. buffer[m] \in Seq(Lines(made + 1))
  <2>1. buffer[m] \in Seq(Lines(made))
    BY DEF StoreInv, ManagersKnown
  <2> QED BY <1>1, <2>1, LinesGrow
<1>4. /\ lines \in Seq(Lines(made + 1)) /\ lines # <<>>
      /\ Len(lines) = Len(buffer[m]) + 1
      /\ \A i \in 1..Len(buffer[m]) : lines[i] = buffer[m][i]
      /\ lines[Len(buffer[m]) + 1] = e
  BY <1>2, <1>3, AppendProperties
<1>5. EntrySet(lines) = EntrySet(buffer[m]) \cup {e}
  BY <1>2, <1>3, EntriesAppend
<1>6. w \in Seq(Lines(made + 1)) /\ w # <<>> /\ EntrySet(w) \subseteq EntrySet(lines)
  BY <1>4, UnwrittenFacts
<1>7. ASSUME path[m] \notin hurt
      PROVE  /\ Proper(lines) /\ CurrentVersion(w)
             /\ disk[path[m]] = <<>> => w[1].kind = "header"
             /\ EntrySet(lines) \subseteq EntrySet(disk[path[m]]) \cup EntrySet(w)
  <2>1. /\ buffer[m] # <<>> /\ Proper(buffer[m])
        /\ IF flushed[m] THEN Written(buffer[m], disk[path[m]])
                         ELSE ~HasAssistant(buffer[m])
    BY <1>7 DEF StoreInv, BuffersStored
  <2>2. Len(buffer[m]) \in Nat \ {0} /\ DOMAIN buffer[m] = 1..Len(buffer[m])
    BY <1>3, <2>1
  <2>3. Proper(lines)
    <3>1. lines[1].kind = "header"
      BY <1>4, <2>1, <2>2 DEF Proper
    <3>2. ASSUME NEW i \in 1..Len(buffer[m]) + 1 PROVE lines[i].kind # "oldHeader"
      <4>1. CASE i \in 1..Len(buffer[m])
        BY <1>4, <2>1, <2>2, <4>1 DEF Proper, CurrentVersion
      <4>2. CASE i = Len(buffer[m]) + 1
        BY <1>2, <1>4, <4>2 DEF IsEntry, Kinds
      <4> QED BY <2>2, <4>1, <4>2
    <3>3. DOMAIN lines = 1..Len(buffer[m]) + 1
      BY <1>4
    <3> QED BY <3>1, <3>2, <3>3 DEF Proper, CurrentVersion
  <2>4. CASE ~flushed[m]
    <3>1. w = lines
      BY <2>4 DEF Unwritten
    <3> QED BY <1>4, <2>3, <3>1 DEF Proper
  <2>5. CASE flushed[m]
    <3>1. w = <<e>>
      BY <1>4, <2>5 DEF Unwritten
    <3>2. EntrySet(w) = {e}
      BY <1>2, <3>1, EntriesOfOne, Zenon
    <3>3. CurrentVersion(w)
      <4>1. DOMAIN w = {1} /\ w[1] = e
        BY <3>1
      <4> QED BY <1>2, <4>1 DEF CurrentVersion, IsEntry, Kinds
    <3>4. disk[path[m]] # <<>> /\ EntrySet(buffer[m]) \subseteq EntrySet(disk[path[m]])
      BY <2>1, <2>5 DEF Written
    <3> QED BY <1>5, <2>3, <3>2, <3>3, <3>4
  <2> QED BY <2>4, <2>5
<1> QED BY <1>1, <1>2, <1>4, <1>5, <1>6, <1>7 DEF News

\* What a torn write wrote: of each entry its own line or none.
TornTo(f, w, v) ==
  /\ v \in Seq(Lines(made + 1)) /\ v # <<>> /\ EntrySet(v) \subseteq EntrySet(w)
  /\ disk' = [disk EXCEPT ![f] = Joined(f, v)]
  /\ ragged' \in {ragged \ {f}, ragged \cup {f}}

\* A file it leaves with a last newline got none but lines that were to be
\* written, the first of them first if that was kept.
LEMMA TornFacts ==
  ASSUME made \in Nat, NEW f, NEW w \in Seq(Lines(made + 1)), NEW kept \in SUBSET DOMAIN w,
         NEW end \in Ends, Torn(f, w, kept, end)
  PROVE  \E v : /\ TornTo(f, w, v)
                /\ f \notin ragged' =>
                     /\ kept # {} /\ (1 \in kept => v[1] = w[1])
                     /\ CurrentVersion(w) => CurrentVersion(v)
<1> DEFINE S == Lines(made + 1)
           junk == Bare("junk")
<1>1. PICK whole : whole = Picked(w, kept)
  OBVIOUS
<1>2. PICK rest : rest = IF end = "part" THEN <<junk>> ELSE <<>>
  OBVIOUS
<1>3. PICK v : v = whole \o rest
  OBVIOUS
<1>4. /\ v # <<>> /\ disk' = [disk EXCEPT ![f] = Joined(f, v)]
      /\ ragged' = IF end = "newline" THEN ragged \ {f} ELSE ragged \cup {f}
  BY <1>1, <1>2, <1>3 DEF Torn
<1>5. junk \in S /\ ~IsEntry(junk)
  BY BareLines DEF Unparsed
<1>6. w \in Seq(S)
  OBVIOUS
<1> HIDE DEF S, junk
<1> DEFINE T == {w[i] : i \in kept}
<1>7. /\ whole \in Seq(T) /\ whole \in Seq(S) /\ EntrySet(whole) \subseteq EntrySet(w)
      /\ kept = {} => whole = <<>>
      /\ 1 \in kept => whole[1] = w[1]
  <2>1. Picked(w, kept) \in Seq(T)
    BY <1>6, PickedEntries
  <2>2. Picked(w, kept) \in Seq(S) /\ EntrySet(Picked(w, kept)) \subseteq EntrySet(w)
    BY <1>6, PickedEntries
  <2>3. kept = {} => Picked(w, kept) = <<>>
    BY <1>6, PickedEntries
  <2>4. 1 \in kept => Picked(w, kept)[1] = w[1]
    BY <1>6, PickedEntries
  <2> HIDE DEF T
  <2> QED BY <1>1, <2>1, <2>2, <2>3, <2>4
<1> HIDE DEF T
<1>8. rest \in Seq(S) /\ EntrySet(rest) = {}
  <2>1. <<>> \in Seq(S) /\ <<junk>> \in Seq(S)
    BY <1>5
  <2>2. EntrySet(<<junk>>) = {}
    BY <1>5, EntriesOfOne, Zenon
  <2> QED BY <1>2, <2>1, <2>2, EntriesOfNone
<1>9. v \in Seq(S) /\ EntrySet(v) \subseteq EntrySet(w)
  <2>1. whole \in Seq(S) /\ rest \in Seq(S)
    BY <1>7, <1>8
  <2>2. EntrySet(whole \o rest) = EntrySet(whole) \cup EntrySet(rest)
    BY <2>1, EntriesConcat
  <2>3. whole \o rest \in Seq(S)
    BY <2>1, ConcatProperties
  <2> QED BY <1>3, <1>7, <1>8, <2>2, <2>3, Zenon
<1>10. ASSUME f \notin ragged'
      PROVE  /\ kept # {} /\ (1 \in kept => v[1] = w[1])
             /\ CurrentVersion(w) => CurrentVersion(v)
  <2>1. rest = <<>>
    BY <1>2, <1>4, <1>10
  <2>2. v = whole
    BY <1>3, <1>7, <2>1
  <2>3. ASSUME CurrentVersion(w), NEW i \in DOMAIN v
        PROVE  v[i].kind # "oldHeader"
    <3>1. v[i] \in T
      BY <1>7, <2>2, <2>3
    <3> QED BY <2>3, <3>1 DEF CurrentVersion, T
  <2> QED BY <1>4, <1>7, <2>2, <2>3 DEF CurrentVersion
<1> QED BY <1>4, <1>9, <1>10 DEF S, TornTo

\* What becomes of an entry: kept for later, written, or, if the file can no
\* longer be trusted, maybe neither.
Persisted(m, lines, w, v) ==
  /\ v \in Seq(Lines(made + 1)) /\ v # <<>> /\ EntrySet(v) \subseteq EntrySet(w)
  /\ \/ disk' = disk /\ ragged' = ragged
     \/ /\ disk' = [disk EXCEPT ![path[m]] = Joined(path[m], v)]
        /\ ragged' \in {ragged \ {path[m]}, ragged \cup {path[m]}}
  /\ \E on \in BOOLEAN : flushed' = [flushed EXCEPT ![m] = on]
  /\ hurt' \in {hurt, hurt \cup {path[m]}}
  /\ path[m] \notin hurt' =>
       /\ flushed' = [flushed EXCEPT ![m] = HasAssistant(lines)]
       /\ IF HasAssistant(lines)
          THEN /\ disk' = [disk EXCEPT ![path[m]] = Joined(path[m], v)]
               /\ v = w /\ ragged' = ragged \ {path[m]}
          ELSE disk' = disk /\ ragged' = ragged

LEMMA PersistKinds ==
  ASSUME StoreInv, NEW m \in Managers, NEW e, NEW lines, NEW w, w = Unwritten(m, lines),
         News(m, e, lines, w), Persist(m, lines)
  PROVE  \E v : Persisted(m, lines, w, v)
<1>1. /\ made \in Nat /\ w \in Seq(Lines(made + 1)) /\ w # <<>>
      /\ flushed \in [Managers -> BOOLEAN]
  BY DEF News, StoreInv, ManagersKnown
<1>2. flushed = [flushed EXCEPT ![m] = flushed[m]] /\ flushed[m] \in BOOLEAN
  BY <1>1
<1>3. CASE ~HasAssistant(lines)
  <2>1. flushed' = [flushed EXCEPT ![m] = FALSE] /\ UNCHANGED <<disk, ragged, hurt>>
    BY <1>3 DEF Persist, Flushes, fileVars
  <2>2. HasAssistant(lines) = FALSE
    BY <1>3 DEF HasAssistant
  <2> QED BY <1>1, <1>3, <2>1, <2>2 DEF Persisted
<1>4. CASE HasAssistant(lines) /\ Writes(m, w)
  <2>1. HasAssistant(lines) = TRUE
    BY <1>4 DEF HasAssistant
  <2>2. /\ disk' = [disk EXCEPT ![path[m]] = Joined(path[m], w)]
        /\ ragged' = ragged \ {path[m]} /\ hurt' = hurt
        /\ flushed' = [flushed EXCEPT ![m] = TRUE]
    BY <1>4 DEF Writes
  <2> QED BY <1>1, <2>1, <2>2 DEF Persisted
<1>5. CASE CannotOpen(m)
  <2>1. disk' = disk /\ ragged' = ragged /\ flushed' = flushed /\ hurt' = hurt \cup {path[m]}
    BY <1>5 DEF CannotOpen
  <2> QED BY <1>1, <1>2, <2>1 DEF Persisted
<1>6. CASE CannotWrite(m, w)
  <2>1. hurt' = hurt \cup {path[m]} /\ flushed' = [flushed EXCEPT ![m] = TRUE]
    BY <1>6 DEF CannotWrite
  <2>2. CASE disk' = disk /\ ragged' = ragged
    BY <1>1, <2>1, <2>2 DEF Persisted
  <2>3. CASE \E kept \in SUBSET DOMAIN w, end \in Ends : Torn(path[m], w, kept, end)
    <3>1. PICK kept \in SUBSET DOMAIN w, end \in Ends : Torn(path[m], w, kept, end)
      BY <2>3
    <3>2. PICK v : TornTo(path[m], w, v)
      BY <1>1, <3>1, TornFacts
    <3> QED BY <2>1, <3>2 DEF Persisted, TornTo
  <2> QED BY <1>6, <2>2, <2>3 DEF CannotWrite
<1> QED BY <1>3, <1>4, <1>5, <1>6 DEF Persist, Flushes

\* An append.
LEMMA AppendInv ==
  ASSUME StoreInv, NEW m \in Managers, NEW kind \in Kinds, NEW parent \in Ids \cup {NoId},
         AppendEntry(m, kind, parent)
  PROVE  StoreInv'
<1> PICK e : e = Entry(kind, made + 1, parent)
  OBVIOUS
<1> PICK lines : lines = Append(buffer[m], e)
  OBVIOUS
<1> PICK w : w = Unwritten(m, lines)
  OBVIOUS
<1>1. /\ path[m] # NoFile /\ made < MaxEntries /\ made' = made + 1 /\ path' = path
      /\ buffer' = [buffer EXCEPT ![m] = lines]
      /\ leaf' = [leaf EXCEPT ![m] = made + 1]
      /\ Persist(m, lines)
  BY DEF AppendEntry, NewId
<1>2. News(m, e, lines, w)
  BY <1>1, NewFacts
<1> PICK v : Persisted(m, lines, w, v)
  BY <1>1, <1>2, PersistKinds
<1> DEFINE f == path[m]
           joined == Joined(f, v)
<1>3. /\ made \in Nat /\ f \in Files /\ made + 1 \in Ids
      /\ e \in Line /\ IsEntry(e) /\ e.id = made + 1
      /\ lines \in Seq(Lines(made + 1)) /\ lines # <<>>
      /\ EntrySet(lines) = EntrySet(buffer[m]) \cup {e}
      /\ w \in Seq(Lines(made + 1)) /\ w # <<>>
      /\ EntrySet(w) \subseteq EntrySet(lines)
      /\ f \notin hurt =>
           /\ Proper(lines) /\ CurrentVersion(w)
           /\ disk[f] = <<>> => w[1].kind = "header"
           /\ EntrySet(lines) \subseteq EntrySet(disk[f]) \cup EntrySet(w)
  BY <1>2 DEF News
<1>4. /\ v \in Seq(Lines(made + 1)) /\ v # <<>> /\ EntrySet(v) \subseteq EntrySet(w)
      /\ hurt' \in {hurt, hurt \cup {f}}
      /\ \/ disk' = disk /\ ragged' = ragged
         \/ /\ disk' = [disk EXCEPT ![f] = joined]
            /\ ragged' \in {ragged \ {f}, ragged \cup {f}}
      /\ \E on \in BOOLEAN : flushed' = [flushed EXCEPT ![m] = on]
      /\ f \notin hurt' =>
           /\ flushed' = [flushed EXCEPT ![m] = HasAssistant(lines)]
           /\ IF HasAssistant(lines)
              THEN disk' = [disk EXCEPT ![f] = joined] /\ v = w /\ ragged' = ragged \ {f}
              ELSE disk' = disk /\ ragged' = ragged
  BY DEF Persisted
<1>5. /\ joined \in Seq(Lines(made + 1))
      /\ EntrySet(joined) \subseteq EntrySet(disk[f]) \cup EntrySet(v)
      /\ f \notin ragged =>
           /\ joined = disk[f] \o v
           /\ EntrySet(joined) = EntrySet(disk[f]) \cup EntrySet(v)
  BY <1>3, <1>4, AppendedFile
<1>6. /\ \A g \in Files : disk[g] \in Seq(Lines(made + 1))
      /\ \A n \in Managers : buffer[n] \in Seq(Lines(made + 1))
  BY <1>3, LinesGrow DEF StoreInv, FilesKnown, ManagersKnown
<1> HIDE DEF joined
<1>7. /\ \A g \in Files : disk'[g] = disk[g] \/ (g = f /\ disk'[g] = joined)
      /\ \A g \in Files \ {f} : g \in ragged' => g \in ragged
  BY <1>4 DEF StoreInv, FilesKnown
<1>8. \A n \in Managers :
        /\ path'[n] = path[n]
        /\ buffer'[n] = IF n = m THEN lines ELSE buffer[n]
        /\ leaf'[n] = IF n = m THEN made + 1 ELSE leaf[n]
        /\ n # m => flushed'[n] = flushed[n]
  BY <1>1, <1>4 DEF StoreInv, ManagersKnown
<1>9. FilesKnown'
  <2>1. made' \in 0..MaxEntries
    BY <1>1, <1>3, StoreAssumption
  <2>2. disk' \in [Files -> Seq(Lines(made'))]
    <3>1. disk' = [g \in Files |-> disk'[g]]
      BY <1>4 DEF StoreInv, FilesKnown
    <3> QED BY <1>1, <1>5, <1>6, <1>7, <3>1
  <2>3. ragged' \subseteq Files /\ hurt' \subseteq Files
    BY <1>3, <1>4 DEF StoreInv, FilesKnown
  <2> QED BY <2>1, <2>2, <2>3 DEF FilesKnown
<1>10. ManagersKnown'
  <2>1. buffer' \in [Managers -> Seq(Lines(made'))]
    <3>1. buffer' = [n \in Managers |-> buffer'[n]]
      BY <1>1 DEF StoreInv, ManagersKnown
    <3> QED BY <1>1, <1>3, <1>6, <1>8, <3>1
  <2>2. /\ path' \in [Managers -> Files \cup {NoFile}]
        /\ leaf' \in [Managers -> Ids \cup {NoId}]
        /\ flushed' \in [Managers -> BOOLEAN]
    BY <1>1, <1>3, <1>4 DEF StoreInv, ManagersKnown
  <2>3. ASSUME NEW n \in Managers PROVE leaf'[n] \in IdsOf(buffer'[n]) \cup {NoId}
    <3>1. CASE n = m
      <4>1. e \in EntrySet(lines)
        BY <1>3
      <4>2. made + 1 \in IdsOf(lines)
        BY <1>3, <4>1 DEF IdsOf
      <4> QED BY <1>8, <3>1, <4>2
    <3>2. CASE n # m
      BY <1>8, <3>2 DEF StoreInv, ManagersKnown
    <3> QED BY <3>1, <3>2
  <2> QED BY <2>1, <2>2, <2>3 DEF ManagersKnown
<1>11. Trees'
  <2> SUFFICES ASSUME NEW g \in Files PROVE Tree(Held(g)')
    BY DEF Trees, Tree
  <2>1. EntrySet(buffer[m]) \subseteq Held(f)
    BY <1>3, <1>6, EntryIn DEF Held, Lines
  <2>2. CASE g = f
    <3>1. EntrySet(disk'[f]) \subseteq EntrySet(disk[f]) \cup EntrySet(buffer[m]) \cup {e}
      BY <1>3, <1>4, <1>5, <1>7
    <3>2. Held(g)' \subseteq Held(f) \cup {e}
      BY <1>3, <1>8, <2>1, <2>2, <3>1 DEF Held
    <3>3. Tree(Held(f) \cup {e})
      BY <1>3, NewInTree
    <3> QED BY <3>2, <3>3, SmallerTree
  <2>3. CASE g # f
    <3>1. Held(g)' \subseteq Held(g)
      BY <1>7, <1>8, <2>3 DEF Held
    <3> QED BY <3>1, SmallerTree DEF StoreInv, Trees
  <2> QED BY <2>2, <2>3
<1>12. ASSUME f \notin hurt'
       PROVE  /\ f \notin ragged' /\ Proper(disk'[f])
              /\ EntrySet(disk[f]) \subseteq EntrySet(disk'[f])
              /\ disk[f] # <<>> => disk'[f] # <<>>
              /\ HasAssistant(lines) => Written(lines, disk'[f])
  <2>1. f \notin hurt /\ f \notin ragged /\ Proper(disk[f])
    BY <1>3, <1>4, <1>12 DEF StoreInv, FilesWhole
  <2>2. CASE ~HasAssistant(lines)
    BY <1>4, <1>12, <2>1, <2>2
  <2>3. CASE HasAssistant(lines)
    <3>1. v = w /\ disk'[f] = joined /\ ragged' = ragged \ {f}
      BY <1>3, <1>4, <1>12, <2>3 DEF StoreInv, FilesKnown
    <3>2. Proper(disk[f] \o w) /\ disk[f] \o w # <<>>
      BY <1>3, <1>6, <2>1, ProperConcat
    <3>3. /\ Proper(joined) /\ joined # <<>>
          /\ EntrySet(joined) = EntrySet(disk[f]) \cup EntrySet(w)
      BY <1>5, <2>1, <3>1, <3>2
    <3> QED BY <1>3, <2>1, <3>1, <3>3 DEF Written
  <2> QED BY <2>2, <2>3
<1>13. FilesWhole'
  <2> SUFFICES ASSUME NEW g \in Files \ hurt' PROVE g \notin ragged' /\ Proper(disk'[g])
    BY DEF FilesWhole, Proper, CurrentVersion
  <2>1. CASE g = f
    BY <1>12, <2>1
  <2>2. CASE g # f
    <3>1. g \notin ragged /\ Proper(disk[g])
      BY <1>4, <2>2 DEF StoreInv, FilesWhole
    <3> QED BY <1>7, <2>2, <3>1
  <2> QED BY <2>1, <2>2
<1>14. BuffersStored'
  <2> SUFFICES ASSUME NEW n \in Managers, path[n] # NoFile, path[n] \notin hurt'
               PROVE  /\ buffer'[n] # <<>> /\ Proper(buffer'[n])
                      /\ IF flushed'[n] THEN Written(buffer'[n], disk'[path[n]])
                                        ELSE ~HasAssistant(buffer'[n])
    <3>1. path' = path
      BY <1>1
    <3> QED BY <3>1 DEF BuffersStored, Proper, CurrentVersion, Written, HasAssistant,
                       EntrySet, IsEntry
  <2>1. CASE n = m
    <3>1. path[n] = f /\ buffer'[n] = lines /\ f \notin hurt'
      BY <1>8, <2>1
    <3>2. flushed'[n] = HasAssistant(lines)
      BY <1>4, <2>1, <3>1 DEF StoreInv, ManagersKnown
    <3>3. lines # <<>> /\ Proper(lines)
      BY <1>3, <1>4, <3>1
    <3> QED BY <1>12, <3>1, <3>2, <3>3
  <2>2. CASE n # m
    <3>1. buffer'[n] = buffer[n] /\ flushed'[n] = flushed[n] /\ path[n] \notin hurt
      BY <1>4, <1>8, <2>2
    <3>2. /\ buffer[n] # <<>> /\ Proper(buffer[n])
          /\ IF flushed[n] THEN Written(buffer[n], disk[path[n]])
                           ELSE ~HasAssistant(buffer[n])
      BY <3>1 DEF StoreInv, BuffersStored
    <3>3. path[n] \in Files
      BY DEF StoreInv, ManagersKnown
    <3>4. Written(buffer[n], disk[path[n]]) => Written(buffer[n], disk'[path[n]])
      <4>1. CASE path[n] = f
        BY <1>12, <4>1 DEF Written
      <4>2. CASE path[n] # f
        BY <1>7, <3>3, <4>2
      <4> QED BY <4>1, <4>2
    <3> QED BY <3>1, <3>2, <3>4
  <2> QED BY <2>1, <2>2
<1> QED BY <1>9, <1>10, <1>11, <1>13, <1>14 DEF StoreInv

----------------------------------------------------------------------------
(* A crash.                                                                *)

LEMMA CrashInv ==
  ASSUME StoreInv, NEW m \in Managers, Crash(m)
  PROVE  StoreInv'
<1> DEFINE f == path[m]
<1>1. PICK kind \in Kinds :
        LET unwritten == Unwritten(m, Append(buffer[m], Entry(kind, made + 1, leaf[m])))
        IN \E whole \in 0..Len(unwritten), end \in Ends : Torn(f, unwritten, 1..whole, end)
  BY DEF Crash, NewId
<1>2. /\ f # NoFile /\ made < MaxEntries /\ made' = made + 1
      /\ hurt' = hurt \cup ragged'
      /\ path' = [n \in Managers |-> NoFile]
      /\ buffer' = [n \in Managers |-> <<>>]
      /\ leaf' = [n \in Managers |-> NoId]
      /\ flushed' = [n \in Managers |-> FALSE]
  BY DEF Crash
<1> PICK e : e = Entry(kind, made + 1, leaf[m])
  OBVIOUS
<1> PICK lines : lines = Append(buffer[m], e)
  OBVIOUS
<1> PICK w : w = Unwritten(m, lines)
  OBVIOUS
<1>3. News(m, e, lines, w)
  <2>1. leaf[m] \in Ids \cup {NoId}
    BY DEF StoreInv, ManagersKnown
  <2> QED BY <1>2, <2>1, NewFacts
<1>4. /\ made \in Nat /\ f \in Files /\ made + 1 \in Ids
      /\ e \in Line /\ e.id = made + 1
      /\ EntrySet(lines) = EntrySet(buffer[m]) \cup {e}
      /\ w \in Seq(Lines(made + 1)) /\ w # <<>>
      /\ EntrySet(w) \subseteq EntrySet(lines)
      /\ f \notin hurt =>
           /\ CurrentVersion(w)
           /\ disk[f] = <<>> => w[1].kind = "header"
  BY <1>3 DEF News
<1>5. PICK whole \in 0..Len(w), end \in Ends : Torn(f, w, 1..whole, end)
  BY <1>1
<1> DEFINE kept == 1..whole
<1>6. PICK v : /\ v \in Seq(Lines(made + 1)) /\ v # <<>> /\ EntrySet(v) \subseteq EntrySet(w)
               /\ disk' = [disk EXCEPT ![f] = Joined(f, v)]
               /\ ragged' \in {ragged \ {f}, ragged \cup {f}}
               /\ f \notin ragged' => v[1] = w[1] /\ (CurrentVersion(w) => CurrentVersion(v))
  <2>1. kept \in SUBSET DOMAIN w /\ (kept # {} => 1 \in kept)
    BY <1>4
  <2> HIDE DEF kept
  <2>2. Torn(f, w, kept, end)
    BY <1>5 DEF kept
  <2>3. PICK v : /\ TornTo(f, w, v)
                 /\ f \notin ragged' =>
                      /\ kept # {} /\ (1 \in kept => v[1] = w[1])
                      /\ CurrentVersion(w) => CurrentVersion(v)
    BY <1>4, <2>1, <2>2, TornFacts
  <2> QED BY <2>1, <2>3 DEF TornTo
<1> HIDE DEF kept
<1> DEFINE joined == Joined(f, v)
<1>7. /\ joined \in Seq(Lines(made + 1))
      /\ EntrySet(joined) \subseteq EntrySet(disk[f]) \cup EntrySet(v)
      /\ f \notin ragged => joined = disk[f] \o v
  BY <1>4, <1>6, AppendedFile
<1> HIDE DEF joined
<1>8. \A g \in Files : disk'[g] = IF g = f THEN joined ELSE disk[g]
  BY <1>6 DEF StoreInv, FilesKnown, joined
<1>9. \A n \in Managers : path'[n] = NoFile /\ buffer'[n] = <<>>
  BY <1>2
<1>10. \A g \in Files : disk[g] \in Seq(Lines(made + 1))
  BY <1>4, LinesGrow DEF StoreInv, FilesKnown
<1>11. FilesKnown'
  <2>1. made' \in 0..MaxEntries
    BY <1>2, <1>4, StoreAssumption
  <2>2. disk' \in [Files -> Seq(Lines(made'))]
    <3>1. disk' = [g \in Files |-> disk'[g]]
      BY <1>6 DEF StoreInv, FilesKnown
    <3> QED BY <1>2, <1>7, <1>8, <1>10, <3>1
  <2>3. ragged' \subseteq Files /\ hurt' \subseteq Files
    BY <1>2, <1>4, <1>6 DEF StoreInv, FilesKnown
  <2> QED BY <2>1, <2>2, <2>3 DEF FilesKnown
<1>12. ManagersKnown'
  <2>1. <<>> \in Seq(Lines(made'))
    OBVIOUS
  <2> QED BY <1>2, <2>1 DEF ManagersKnown
<1>13. Trees'
  <2> SUFFICES ASSUME NEW g \in Files PROVE Tree(Held(g)')
    BY DEF Trees, Tree
  <2>1. Held(g)' \subseteq EntrySet(disk'[g])
    BY <1>9, StoreAssumption DEF Held
  <2>2. CASE g = f
    <3>1. EntrySet(buffer[m]) \subseteq Held(f) /\ EntrySet(disk[f]) \subseteq Held(f)
      <4>1. made \in 0..MaxEntries /\ disk[f] \in Seq(Lines(made)) /\ buffer[m] \in Seq(Lines(made))
        BY <1>4 DEF StoreInv, FilesKnown, ManagersKnown
      <4> QED BY <4>1, KnownFacts DEF Held
    <3>2. Held(g)' \subseteq Held(f) \cup {e}
      BY <1>4, <1>6, <1>7, <1>8, <2>1, <2>2, <3>1
    <3>3. Tree(Held(f) \cup {e})
      BY <1>4, NewInTree
    <3> QED BY <3>2, <3>3, SmallerTree
  <2>3. CASE g # f
    <3>1. made \in 0..MaxEntries /\ disk[g] \in Seq(Lines(made))
      BY DEF StoreInv, FilesKnown
    <3>2. Held(g)' \subseteq Held(g)
      BY <1>8, <2>1, <2>3, <3>1, KnownFacts DEF Held
    <3> QED BY <3>2, SmallerTree DEF StoreInv, Trees
  <2> QED BY <2>2, <2>3
<1>14. FilesWhole'
  <2> SUFFICES ASSUME NEW g \in Files, g \notin hurt \cup ragged' PROVE Proper(disk'[g])
    BY <1>2 DEF FilesWhole, Proper, CurrentVersion
  <2>1. g \notin ragged /\ Proper(disk[g])
    BY DEF StoreInv, FilesWhole
  <2>2. CASE g = f
    <3>1. v[1] = w[1] /\ CurrentVersion(v) /\ (disk[f] = <<>> => v[1].kind = "header")
      BY <1>4, <1>6, <2>2
    <3>2. Proper(disk[f] \o v)
      BY <1>4, <1>6, <1>10, <2>1, <2>2, <3>1, ProperConcat
    <3> QED BY <1>7, <1>8, <2>1, <2>2, <3>2
  <2>3. CASE g # f
    BY <1>8, <2>1, <2>3
  <2> QED BY <2>2, <2>3
<1>15. BuffersStored'
  BY <1>9 DEF BuffersStored
<1> QED BY <1>11, <1>12, <1>13, <1>14, <1>15 DEF StoreInv

----------------------------------------------------------------------------
(* Every step.                                                             *)

\* A step of the store is one of these.
LEMMA StepKinds ==
  ASSUME StoreInv, NEW m \in Managers, ManagerNext(m)
  PROVE  \/ \E f, lines, onDisk, file : Opens(m, f, lines, onDisk, file)
         \/ \E kind \in Kinds, parent \in Ids \cup {NoId} : AppendEntry(m, kind, parent)
         \/ Branch(m)
         \/ Crash(m)
<1>1. leaf[m] \in Ids \cup {NoId} /\ IdsOf(buffer[m]) \subseteq Ids
  <2>1. made \in 0..MaxEntries /\ buffer[m] \in Seq(Lines(made))
    BY DEF StoreInv, FilesKnown, ManagersKnown
  <2>2. IdsOf(buffer[m]) \subseteq Ids
    BY <2>1, KnownFacts
  <2> QED BY <2>2 DEF StoreInv, ManagersKnown
<1>2. CASE Create(m)
  BY <1>2, CreateOpens
<1>3. CASE \E f \in Files : OpenUnreadable(m, f) \/ OpenCurrent(m, f) \/ OpenOld(m, f)
  BY <1>3, UnreadableOpens, CurrentOpens, OldOpens
<1>4. CASE AppendMessage(m)
  BY <1>1, <1>4 DEF AppendMessage
<1>5. CASE BranchWithSummary(m)
  <2>1. "other" \in Kinds
    BY DEF Kinds
  <2>2. PICK id \in Ids \cup {NoId} : AppendEntry(m, "other", id)
    BY <1>1, <1>5 DEF BranchWithSummary
  <2> QED BY <2>1, <2>2
<1>6. CASE ForkFrom(m)
  BY <1>6, ForkFromOpens
<1>7. CASE BranchFromEntry(m)
  BY <1>7, BranchFromEntryOpens
<1> QED BY <1>2, <1>3, <1>4, <1>5, <1>6, <1>7 DEF ManagerNext

LEMMA NextInv ==
  ASSUME StoreInv, [StoreNext]_storeVars
  PROVE  StoreInv'
<1>1. CASE UNCHANGED storeVars
  BY <1>1 DEF storeVars, fileVars, managerVars, StoreInv, FilesKnown, ManagersKnown, Trees,
              Held, FilesWhole, BuffersStored
<1>2. CASE StoreNext
  <2>1. PICK m \in Managers : ManagerNext(m)
    BY <1>2 DEF StoreNext
  <2>2. CASE \E f, lines, onDisk, file : Opens(m, f, lines, onDisk, file)
    BY <2>2, OpensInv
  <2>3. CASE \E kind \in Kinds, parent \in Ids \cup {NoId} : AppendEntry(m, kind, parent)
    BY <2>3, AppendInv
  <2>4. CASE Branch(m)
    BY <2>4, BranchInv
  <2>5. CASE Crash(m)
    BY <2>5, CrashInv
  <2> QED BY <2>1, <2>2, <2>3, <2>4, <2>5, StepKinds
<1> QED BY <1>1, <1>2

THEOREM StoreInvariance == StoreSpec => []StoreInv
<1>1. StoreInv /\ [StoreNext]_storeVars => StoreInv'
  BY NextInv
<1> QED BY <1>1, InitStore, PTL DEF StoreSpec

\* Whatever the managers do, every variable has its type, and the leaf, which
\* the next entry hangs from, is an entry of the manager.
THEOREM StoreType == StoreSpec => []StoreTypeOK
<1>1. StoreInv => StoreTypeOK
  BY InvImplies
<1> QED BY <1>1, StoreInvariance, PTL

\* A conversation that has an answer is in its file, all of it, unless the
\* file was torn or migrated or a write to it failed, which _persist and
\* _rewrite_file only log: the deferred flush, on every way a manager comes
\* by its file.
THEOREM AnsweredOnDisk == StoreSpec => []ConversationOnDisk
<1>1. StoreInv => ConversationOnDisk
  BY InvImplies
<1> QED BY <1>1, StoreInvariance, PTL

\* The lines of a file with one id are one entry, also when two managers
\* write to it or a buffer is written to it twice.
THEOREM FilesAreTrees == StoreSpec => []OneTree
<1>1. StoreInv => OneTree
  BY InvImplies
<1> QED BY <1>1, StoreInvariance, PTL

----------------------------------------------------------------------------
(* The files are append-only logs, but for the damaged ones.               *)

\* What a step does to the files as a load sees them.
Grows(f) ==
  /\ \A g \in Files \ {f} : disk'[g] = disk[g]
  /\ f \in Damaged \/ Loaded(disk[f]) \subseteq Loaded(disk'[f])

LEMMA AppendGrows ==
  ASSUME StoreInv, NEW f \in Files, NEW w \in Seq(Lines(made + 1)), w # <<>>,
         disk' = [disk EXCEPT ![f] = Joined(f, w)]
  PROVE  Grows(f)
<1>1. f \notin ragged => Loaded(disk[f]) \subseteq Loaded(Joined(f, w))
  BY AppendedFile
<1>2. f \notin Damaged => f \notin ragged
  BY DEF Damaged
<1>3. \A g \in Files : disk'[g] = IF g = f THEN Joined(f, w) ELSE disk[g]
  BY DEF StoreInv, FilesKnown
<1> QED BY <1>1, <1>2, <1>3 DEF Grows

LEMMA StepGrows ==
  ASSUME StoreInv, NEW m \in Managers, ManagerNext(m)
  PROVE  UNCHANGED <<disk, ragged>> \/ \E f \in Files : Grows(f)
<1>1. ASSUME NEW f, NEW lines, NEW onDisk, NEW file, Opens(m, f, lines, onDisk, file)
      PROVE  \E g \in Files : Grows(g)
  <2>1. \A g \in Files : disk'[g] = IF g = f THEN file ELSE disk[g]
    BY <1>1, OpensFrame
  <2>2. f \in Files /\ (f \notin Damaged => Loaded(disk[f]) \subseteq Loaded(file))
    BY <1>1 DEF Opens
  <2>3. Grows(f)
    BY <2>1, <2>2 DEF Grows
  <2> QED BY <2>2, <2>3
<1>2. ASSUME NEW kind \in Kinds, NEW parent \in Ids \cup {NoId}, AppendEntry(m, kind, parent)
      PROVE  UNCHANGED <<disk, ragged>> \/ \E f \in Files : Grows(f)
  <2> PICK e : e = Entry(kind, made + 1, parent)
    OBVIOUS
  <2> PICK lines : lines = Append(buffer[m], e)
    OBVIOUS
  <2> PICK w : w = Unwritten(m, lines)
    OBVIOUS
  <2>1. path[m] # NoFile /\ made < MaxEntries /\ Persist(m, lines)
    BY <1>2 DEF AppendEntry, NewId
  <2>2. News(m, e, lines, w)
    BY <2>1, NewFacts
  <2>3. PICK v : Persisted(m, lines, w, v)
    BY <2>1, <2>2, PersistKinds
  <2>4. /\ path[m] \in Files /\ v \in Seq(Lines(made + 1)) /\ v # <<>>
        /\ UNCHANGED <<disk, ragged>> \/ disk' = [disk EXCEPT ![path[m]] = Joined(path[m], v)]
    BY <2>2, <2>3 DEF News, Persisted
  <2> QED BY <2>4, AppendGrows
<1>3. ASSUME Crash(m)
      PROVE  \E f \in Files : Grows(f)
  <2>1. PICK kind \in Kinds :
          LET unwritten == Unwritten(m, Append(buffer[m], Entry(kind, made + 1, leaf[m])))
          IN \E whole \in 0..Len(unwritten), end \in Ends :
               Torn(path[m], unwritten, 1..whole, end)
    BY <1>3 DEF Crash, NewId
  <2> PICK e : e = Entry(kind, made + 1, leaf[m])
    OBVIOUS
  <2> PICK lines : lines = Append(buffer[m], e)
    OBVIOUS
  <2> PICK w : w = Unwritten(m, lines)
    OBVIOUS
  <2>2. path[m] # NoFile /\ made < MaxEntries
    BY <1>3 DEF Crash
  <2>3. leaf[m] \in Ids \cup {NoId}
    BY DEF StoreInv, ManagersKnown
  <2>4. News(m, e, lines, w)
    BY <2>2, <2>3, NewFacts
  <2>5. made \in Nat /\ path[m] \in Files /\ w \in Seq(Lines(made + 1)) /\ w # <<>>
    BY <2>4 DEF News
  <2>6. PICK v : TornTo(path[m], w, v)
    <3>1. PICK whole \in 0..Len(w), end \in Ends : Torn(path[m], w, 1..whole, end)
      BY <2>1
    <3>2. 1..whole \in SUBSET DOMAIN w
      BY <2>5
    <3> QED BY <2>5, <3>1, <3>2, TornFacts
  <2>7. /\ v \in Seq(Lines(made + 1)) /\ v # <<>>
        /\ disk' = [disk EXCEPT ![path[m]] = Joined(path[m], v)]
    BY <2>6 DEF TornTo
  <2> QED BY <2>5, <2>7, AppendGrows
<1>4. Branch(m) => UNCHANGED <<disk, ragged>>
  BY DEF Branch, fileVars
<1> QED BY <1>1, <1>2, <1>3, <1>4, StepKinds

LEMMA LogTypes ==
  ASSUME StoreInv
  PROVE  Log!LogTypeOK
<1>1. ASSUME NEW f \in Files
      PROVE  Loaded(disk[f]) \subseteq [kind : Kinds, id : Ids, parent : Ids \cup {NoId}]
  <2>1. made \in 0..MaxEntries /\ disk[f] \in Seq(Lines(made))
    BY DEF StoreInv, FilesKnown
  <2>2. Loaded(disk[f]) \subseteq EntrySet(disk[f])
    BY <2>1, ReadableFacts
  <2>3. \A e \in EntrySet(disk[f]) : e \in Line /\ IsEntry(e) /\ e.id \in Ids
    BY <2>1, KnownFacts
  <2> QED BY <2>2, <2>3 DEF Line, IsEntry
<1>2. Damaged \subseteq Files
  BY DEF Damaged
<1> QED BY <1>1, <1>2 DEF Log!LogTypeOK

\* The store implements the log: no step of any manager, a crash included,
\* takes an entry from what a load of a file returns, unless the file was
\* left without its last newline or is of an earlier version.
THEOREM LoadsOnlyGrow == StoreSpec => ImplementsLog
<1>1. StoreInv => Log!LogInit
  BY LogTypes DEF Log!LogInit
<1>2. StoreInv /\ StoreInv' /\ [StoreNext]_storeVars
        => Log!LogNext \/ UNCHANGED <<[f \in Files |-> Loaded(disk[f])], Damaged>>
  <2> SUFFICES ASSUME StoreInv, StoreInv', [StoreNext]_storeVars
               PROVE  Log!LogNext \/ UNCHANGED <<[f \in Files |-> Loaded(disk[f])], Damaged>>
    OBVIOUS
  <2>1. Log!LogTypeOK'
    BY LogTypes, PTL
  <2>2. CASE UNCHANGED <<disk, ragged>>
    BY <2>2 DEF Damaged, Loaded, Readable, Headed, Parses, CurrentVersion
  <2>3. CASE \E f \in Files : Grows(f)
    <3>1. PICK f \in Files : Grows(f)
      BY <2>3
    <3>2. Log!Change(f)
      BY <3>1 DEF Grows, Log!Change
    <3> QED BY <2>1, <3>2 DEF Log!LogNext
  <2> QED BY <2>2, <2>3, StepGrows DEF StoreNext, storeVars, fileVars
<1> QED BY <1>1, <1>2, InitStore, StoreInvariance, PTL DEF StoreSpec, ImplementsLog, Log!LogSpec
=============================================================================
