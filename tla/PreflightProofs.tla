--------------------------- MODULE PreflightProofs ---------------------------
(***************************************************************************)
(* Theorems about Preflight, for any texts and patterns, any dispatches a  *)
(* model may propose, any windows and any number of questions.             *)
(***************************************************************************)
EXTENDS Preflight, PlacesProofs, SequenceTheorems

-----------------------------------------------------------------------------
(* The case.  Questions are numbered in the order they were asked, also    *)
(* after a placeholder was removed from between them, and every run has    *)
(* the question it answers among its sources.                              *)

Messages == [role : {"user"}, id : Nat, text : Texts]
              \cup [role : {"helper"}, re : Nat, asks : BOOLEAN]
CaseRuns == [question : Nat, result : BOOLEAN, sources : SUBSET Nat]

WasAsked(m) == \E i \in UserMessagesOf(msgs) : msgs[i].id = m

MessagesOK ==
  /\ asked \in Nat /\ msgs \in Seq(Messages)
  /\ \A i \in UserMessagesOf(msgs) : msgs[i].id \in 1..asked
  /\ \A i, j \in UserMessagesOf(msgs) : i < j => msgs[i].id < msgs[j].id
  /\ interrupted \in Nat
  /\ interrupted # 0 => WasAsked(interrupted)
RunsOK ==
  /\ runs \in Seq(CaseRuns)
  /\ \A i \in DOMAIN runs : runs[i].question \in runs[i].sources

(* A turn.  What is resolved from question m looks back from m and forgets *)
(* what full lists forget; only what was observed is a fact.               *)
ResolvedOK(resolved, m) ==
  /\ m \in resolved.sources /\ resolved.sources \in SUBSET Nat
  /\ \A u \in resolved.sources : u <= m
  /\ \A f \in Range(resolved.facts) :
       /\ f.source \in resolved.sources /\ f.text = TextOf(f.source)
       /\ KindOf(f.text) = "facts"
  /\ \A u \in resolved.sources : Remembers(resolved, u)

QuotedOK(quoted, m) ==
  /\ \A i \in DOMAIN quoted.messages :
       quoted.messages[i].role = "user" => quoted.messages[i].id <= m
  /\ \A run \in quoted.runs : run.question <= m

ReviewOK ==
  /\ ResolvedOK(turn.resolved, turn.question)
  /\ turn.items \subseteq turn.resolved.query
AnswerOK ==
  /\ ResolvedOK(turn.request.resolved, turn.question)
  /\ QuotedOK(turn.request.quoted, turn.question)
  /\ ItemsWereReviewed

TurnOK ==
  /\ turn.pc \in {"idle", "model", "review", "answer"}
  /\ turn.pc = "idle" => turn = Idle
  /\ turn.pc # "idle" => turn.question \in Nat /\ WasAsked(turn.question)
  /\ turn.pc = "review" => ReviewOK
  /\ turn.pc = "answer" => AnswerOK

Inv == MessagesOK /\ RunsOK /\ TurnOK

-----------------------------------------------------------------------------
(* Looking back from a question. *)

LEMMA QuestionPlace ==
  ASSUME MessagesOK, NEW m, WasAsked(m)
  PROVE  /\ At(m) \in 1..Len(msgs) /\ msgs[At(m)].role = "user" /\ msgs[At(m)].id = m
         /\ m \in 1..asked
<1>1. \E i \in DOMAIN msgs : msgs[i].role = "user" /\ msgs[i].id = m
  BY DEF WasAsked, UserMessagesOf
<1>2. At(m) \in DOMAIN msgs /\ msgs[At(m)].role = "user" /\ msgs[At(m)].id = m
  BY <1>1 DEF At
<1> QED BY <1>2 DEF MessagesOK, UserMessagesOf

(* What a turn sees of the conversation ends with its own question. *)
LEMMA TurnMessagesArePast ==
  ASSUME MessagesOK, NEW m, WasAsked(m)
  PROVE  /\ Len(TurnMessages(m)) = At(m)
         /\ TurnMessages(m) \in Seq(Messages)
         /\ \A i \in 1..At(m) : TurnMessages(m)[i] = msgs[i]
         /\ \A i \in 1..At(m) : msgs[i].role = "user" => msgs[i].id <= m
<1>1. At(m) \in 1..Len(msgs) /\ msgs[At(m)].role = "user" /\ msgs[At(m)].id = m /\ m \in Nat
  BY QuestionPlace DEF MessagesOK
<1>2. /\ Len(TurnMessages(m)) = At(m) /\ TurnMessages(m) \in Seq(Messages)
      /\ \A i \in 1..At(m) : TurnMessages(m)[i] = msgs[i]
  BY <1>1 DEF TurnMessages, MessagesOK
<1>3. ASSUME NEW i \in 1..At(m), msgs[i].role = "user"
      PROVE  msgs[i].id <= m
  <2>1. i \in UserMessagesOf(msgs) /\ At(m) \in UserMessagesOf(msgs)
    BY <1>1, <1>3 DEF UserMessagesOf, MessagesOK
  <2>2. i = At(m) \/ i < At(m)
    BY <1>1
  <2>3. msgs[i].id \in Nat
    BY <2>1 DEF MessagesOK
  <2> QED BY <1>1, <2>1, <2>2, <2>3 DEF MessagesOK
<1> QED BY <1>2, <1>3

LEMMA UserIdsArePast ==
  ASSUME MessagesOK, NEW m, WasAsked(m)
  PROVE  /\ m \in UserIds(m) /\ UserIds(m) \in SUBSET Nat
         /\ \A u \in UserIds(m) : u <= m
<1>1. At(m) \in 1..Len(msgs) /\ msgs[At(m)].role = "user" /\ msgs[At(m)].id = m
  BY QuestionPlace
<1> DEFINE seen == TurnMessages(m)
<1>2. /\ DOMAIN seen = 1..At(m) /\ \A i \in 1..At(m) : seen[i] = msgs[i]
      /\ \A i \in 1..At(m) : msgs[i].role = "user" => msgs[i].id <= m
  BY TurnMessagesArePast
<1>3. UserIds(m) = {seen[i].id : i \in UserMessagesOf(seen)}
  BY DEF UserIds
<1>4. UserMessagesOf(seen) = {i \in 1..At(m) : msgs[i].role = "user"}
  BY <1>2 DEF UserMessagesOf
<1> HIDE DEF seen
<1>5. UserIds(m) = {msgs[i].id : i \in {j \in 1..At(m) : msgs[j].role = "user"}}
  BY <1>2, <1>3, <1>4
<1>6. \A i \in 1..At(m) : msgs[i].role = "user" => msgs[i].id \in Nat
  BY <1>1 DEF MessagesOK, UserMessagesOf
<1> QED BY <1>1, <1>2, <1>5, <1>6

(* The latest of a set have nothing above them to push them out. *)
LEMMA GreatestIsLatest ==
  ASSUME NEW S \in SUBSET Nat, NEW m \in S, \A x \in S : x <= m, NEW n \in Nat \ {0}
  PROVE  m \in Latest(S, n) /\ Latest(S, n) \in SUBSET S
<1>0. \A y \in S : y \in Nat /\ m \in Nat /\ ~(y > m)
  OBVIOUS
<1>1. {y \in S : y > m} = {}
  BY <1>0
<1>2. Cardinality({y \in S : y > m}) = 0
  BY <1>1, FS_EmptySet
<1> QED BY <1>2 DEF Latest

-----------------------------------------------------------------------------
(* The request. *)

LEMMA QuotedIsPast ==
  ASSUME MessagesOK, RunsOK, NEW m, WasAsked(m)
  PROVE  QuotedOK(Quoted(m), m)
<1> DEFINE seen == TurnMessages(m)
           finished == {i \in TurnRuns(m) : runs[i].result}
<1>1. /\ Len(seen) = At(m) /\ seen \in Seq(Messages) /\ At(m) \in Nat
      /\ \A i \in 1..At(m) : seen[i].role = "user" => seen[i].id <= m
  BY TurnMessagesArePast, QuestionPlace DEF MessagesOK
<1>2. /\ Quoted(m).messages = LastOf(seen, RecentWindow)
      /\ Quoted(m).runs = {runs[i] : i \in Latest(finished, RunWindow)}
  BY DEF Quoted
<1>3. \A i \in finished : runs[i].question <= m
  BY UserIdsArePast DEF TurnRuns, RunsOK
<1>4. Latest(finished, RunWindow) \subseteq finished
  BY DEF Latest
<1> HIDE DEF seen, finished
<1>5. ASSUME NEW i \in DOMAIN LastOf(seen, RecentWindow),
             LastOf(seen, RecentWindow)[i].role = "user"
      PROVE  LastOf(seen, RecentWindow)[i].id <= m
  <2>1. PICK k \in 1..(At(m) + 1) : LastOf(seen, RecentWindow) = SubSeq(seen, k, Len(seen))
    <3>1. CASE Len(seen) > RecentWindow
      <4>1. Len(seen) - RecentWindow + 1 \in 1..(At(m) + 1)
        BY <1>1, <3>1, WindowsAssumption
      <4> QED BY <3>1, <4>1 DEF LastOf
    <3>2. CASE ~(Len(seen) > RecentWindow)
      BY <1>1, <3>2 DEF LastOf
    <3> QED BY <3>1, <3>2
  <2>2. i \in 1..(At(m) - k + 1) /\ LastOf(seen, RecentWindow)[i] = seen[k + i - 1]
    BY <1>1, <1>5, <2>1
  <2> QED BY <1>1, <1>5, <2>1, <2>2
<1> QED BY <1>2, <1>3, <1>4, <1>5 DEF QuotedOK

LEMMA KindsOfStatements == \A text : KindOf(text) \in {"unknowns", "hypotheses", "facts", "claims"}
  BY DEF KindOf

(* The four lists of the local resolution.                                 *)
Lists == {"facts", "claims", "hypotheses", "unknowns"}
ListsOK(local) ==
  /\ \A kind \in Lists : local[kind] \in Said
  /\ \A kind \in Lists : \A s \in Range(local[kind]) :
       /\ s.source \in local.sources /\ s.text = TextOf(s.source)
       /\ KindOf(s.text) = kind
  /\ \A u \in local.sources : \/ IsListed(local, Statement(u))
                              \/ ~(Cardinality(Newer(local.sources, u)) < ListWindow)

(* The statements of some messages are theirs, and all but the oldest.     *)
LEMMA StatementsAre ==
  ASSUME NEW n \in Nat, NEW said \in SUBSET (1..n), \A u \in said : TextOf(u) \in Texts
  PROVE  /\ Statements(said) \in Said
         /\ \A s \in Range(Statements(said)) :
              s.source \in said /\ s.text = TextOf(s.source)
         /\ \A u \in said : \/ Statement(u) \in Range(Statements(said))
                            \/ ~(Cardinality({v \in said : v > u}) < ListWindow)
<1> DEFINE S == Latest(said, ListWindow)
           kept == Ascending(S)
           size == Cardinality(S)
           list == Statements(said)
<1>1. S \in SUBSET (1..n) /\ S \subseteq said
  BY DEF Latest
<1>2. /\ DOMAIN kept = 1..size /\ size \in Nat
      /\ \A i \in 1..size : kept[i] \in S
      /\ \A c \in S : Rank(S, c) \in 1..size /\ kept[Rank(S, c)] = c
  BY <1>1, AscendingIs, RankIsOneToOne
<1>3. \A u \in said : u \in S \/ ~(Cardinality({v \in said : v > u}) < ListWindow)
  BY DEF Latest
<1>4. list = [i \in DOMAIN kept |-> Statement(kept[i])]
  BY DEF Statements
<1> HIDE DEF S, kept, size, list
<1>5. DOMAIN list = 1..size /\ \A i \in 1..size : list[i] = Statement(kept[i])
  BY <1>2, <1>4
<1>6. \A u \in S : Statement(u) \in [text : Texts, source : Nat]
  BY <1>1 DEF Statement
<1>7. list \in Said
  <2>1. list = [i \in 1..size |-> Statement(kept[i])]
    BY <1>2, <1>4
  <2>2. \A i \in 1..size : Statement(kept[i]) \in [text : Texts, source : Nat]
    BY <1>2, <1>6
  <2> DEFINE T == [text : Texts, source : Nat]
             at == [i \in 1..size |-> Statement(kept[i])]
  <2>3. at \in [1..size -> T]
    BY <2>2
  <2> HIDE DEF T, at
  <2>4. at \in Seq(T)
    BY <1>2, <2>3
  <2> QED BY <2>1, <2>4 DEF Said, T, at
<1>8. ASSUME NEW s \in Range(list) PROVE \E u \in S : s = Statement(u)
  <2>1. PICK i \in 1..size : s = list[i]
    BY <1>5 DEF Range
  <2> QED BY <1>2, <1>5, <2>1
<1>9. ASSUME NEW u \in S PROVE Statement(u) \in Range(list)
  <2>1. PICK i \in 1..size : kept[i] = u
    BY <1>2
  <2>2. list[i] = Statement(u) /\ i \in DOMAIN list
    BY <1>5, <2>1
  <2> QED BY <2>2 DEF Range
<1>10. \A s \in Range(list) : s.source \in said /\ s.text = TextOf(s.source)
  BY <1>1, <1>8 DEF Statement
<1> QED BY <1>3, <1>7, <1>9, <1>10 DEF list

LEMMA ResolveIsSound ==
  ASSUME MessagesOK, NEW m, WasAsked(m)
  PROVE  ResolvedOK(Resolve(m), m) /\ ListsOK(Resolve(m))
<1> DEFINE users == Latest(UserIds(m), TurnWindow)
           Of(kind) == {u \in users : KindOf(TextOf(u)) = kind}
           List(kind) == Statements(Of(kind))
<1>1. m \in users /\ users \in SUBSET Nat /\ \A u \in users : u <= m
  BY UserIdsArePast, GreatestIsLatest, WindowsAssumption
<1>2. /\ Resolve(m).sources = users /\ Resolve(m).facts = List("facts")
      /\ Resolve(m).claims = List("claims") /\ Resolve(m).hypotheses = List("hypotheses")
      /\ Resolve(m).unknowns = List("unknowns")
  BY DEF Resolve
<1>3. \A u \in users : u \in 1..m /\ TextOf(u) \in Texts
  <2>1. \A u \in users : u \in UserIds(m)
    BY DEF Latest
  <2>2. \A u \in UserIds(m) : WasAsked(u)
    <3>1. At(m) \in 1..Len(msgs) /\ Len(msgs) \in Nat
      BY QuestionPlace DEF MessagesOK
    <3>2. /\ Len(TurnMessages(m)) = At(m) /\ TurnMessages(m) \in Seq(Messages)
          /\ \A i \in 1..At(m) : TurnMessages(m)[i] = msgs[i]
      BY TurnMessagesArePast
    <3>3. \A i \in UserMessagesOf(TurnMessages(m)) :
             i \in UserMessagesOf(msgs) /\ TurnMessages(m)[i].id = msgs[i].id
      BY <3>1, <3>2 DEF UserMessagesOf, MessagesOK
    <3> QED BY <3>3 DEF UserIds, WasAsked
  <2>3. \A u \in users : u \in 1..asked /\ TextOf(u) \in Texts
    <3> SUFFICES ASSUME NEW u \in users PROVE u \in 1..asked /\ TextOf(u) \in Texts
      OBVIOUS
    <3> HIDE DEF users
    <3>1. WasAsked(u)
      BY <2>1, <2>2
    <3>2. At(u) \in 1..Len(msgs) /\ msgs[At(u)].role = "user" /\ u \in 1..asked
      BY <3>1, QuestionPlace
    <3>3. msgs[At(u)] \in Messages
      BY <3>2 DEF MessagesOK
    <3> QED BY <3>2, <3>3 DEF TextOf, Messages
  <2>4. m \in Nat
    BY <1>1
  <2> HIDE DEF users
  <2> QED BY <1>1, <2>3, <2>4 DEF MessagesOK
<1> HIDE DEF users
<1>4. ASSUME NEW kind
      PROVE  /\ List(kind) \in Said
             /\ \A s \in Range(List(kind)) :
                  /\ s.source \in users /\ s.text = TextOf(s.source)
                  /\ KindOf(s.text) = kind
             /\ \A u \in Of(kind) :
                  \/ Statement(u) \in Range(List(kind))
                  \/ ~(Cardinality({v \in Of(kind) : v > u}) < ListWindow)
  <2>1. m \in Nat /\ Of(kind) \in SUBSET (1..m) /\ \A u \in Of(kind) : TextOf(u) \in Texts
    BY <1>1, <1>3
  <2>2. \A u \in Of(kind) : u \in users /\ KindOf(TextOf(u)) = kind
    OBVIOUS
  <2> HIDE DEF Of
  <2>3. /\ Statements(Of(kind)) \in Said
        /\ \A s \in Range(Statements(Of(kind))) :
             s.source \in Of(kind) /\ s.text = TextOf(s.source)
        /\ \A u \in Of(kind) : \/ Statement(u) \in Range(Statements(Of(kind)))
                               \/ ~(Cardinality({v \in Of(kind) : v > u}) < ListWindow)
    BY <2>1, StatementsAre
  <2> QED BY <2>2, <2>3
<1>5. \A u \in users : {v \in Of(KindOf(TextOf(u))) : v > u} = Newer(users, u)
  BY DEF Newer
<1>6. ASSUME NEW kind \in Lists PROVE Resolve(m)[kind] = List(kind)
  <2> HIDE DEF List
  <2>1. kind \in {"facts", "claims", "hypotheses", "unknowns"}
    BY DEF Lists
  <2> DEFINE r == Resolve(m)
  <2>2. r["facts"] = List("facts") /\ r["claims"] = List("claims")
        /\ r["hypotheses"] = List("hypotheses") /\ r["unknowns"] = List("unknowns")
    BY <1>2
  <2> HIDE DEF r
  <2> QED BY <2>1, <2>2 DEF r
<1> DEFINE local == Resolve(m)
<1>7. ASSUME NEW u \in users
      PROVE  IsListed(local, Statement(u)) \/ ~(Cardinality(Newer(users, u)) < ListWindow)
  <2> DEFINE kind == KindOf(TextOf(u))
  <2>1. kind \in Lists /\ u \in Of(kind)
    BY KindsOfStatements DEF Lists
  <2>2. \/ Statement(u) \in Range(List(kind))
        \/ ~(Cardinality({v \in Of(kind) : v > u}) < ListWindow)
    BY <1>4, <2>1
  <2> HIDE DEF List, local
  <2>3. CASE Statement(u) \in Range(List(kind))
    BY <1>2, <1>6, <2>1, <2>3 DEF IsListed, Lists, local
  <2>4. CASE ~(Cardinality({v \in Of(kind) : v > u}) < ListWindow)
    BY <1>5, <2>4
  <2> QED BY <2>2, <2>3, <2>4
<1> HIDE DEF List
<1>8. ListsOK(local)
  <2> HIDE DEF local
  <2>1. local.sources = users /\ \A kind \in Lists : local[kind] = List(kind)
    BY <1>2, <1>6 DEF local
  <2> QED BY <1>4, <1>7, <2>1 DEF ListsOK
<1>9. ResolvedOK(local, m)
  <2>1. \A f \in Range(local.facts) :
          f.source \in local.sources /\ f.text = TextOf(f.source) /\ KindOf(f.text) = "facts"
    BY <1>2, <1>4
  <2>2. \A u \in local.sources : Remembers(local, u)
    BY <1>2, <1>7 DEF Remembers
  <2> QED BY <1>1, <1>2, <2>1, <2>2 DEF ResolvedOK
<1> QED BY <1>8, <1>9

(* What is selected of a list, and how much.                               *)
LEMMA SelectedHas ==
  ASSUME NEW B, NEW list \in Seq(B), NEW S \in SUBSET DOMAIN list
  PROVE  /\ Selected(list, S) \in Seq(B) /\ Len(Selected(list, S)) = Cardinality(S)
         /\ DOMAIN Selected(list, S) = 1..Cardinality(S)
         /\ Range(Selected(list, S)) = {list[i] : i \in S}
<1> DEFINE places == Ascending(S)
           n == Len(list)
<1>1. n \in Nat /\ DOMAIN list = 1..n /\ \A i \in 1..n : list[i] \in B
  OBVIOUS
<1>2. /\ places \in Seq(S) /\ DOMAIN places = 1..Cardinality(S) /\ Cardinality(S) \in Nat
      /\ \A k \in 1..Cardinality(S) : places[k] \in S
      /\ \A c \in S : Rank(S, c) \in 1..Cardinality(S) /\ places[Rank(S, c)] = c
  BY <1>1, AscendingIs, RankIsOneToOne
<1>3. Selected(list, S) = [k \in DOMAIN places |-> list[places[k]]]
  BY DEF Selected
<1> HIDE DEF places, n
<1>4. /\ DOMAIN Selected(list, S) = 1..Cardinality(S)
      /\ \A k \in 1..Cardinality(S) : Selected(list, S)[k] = list[places[k]]
  BY <1>2, <1>3
<1>5. Selected(list, S) \in Seq(B) /\ Len(Selected(list, S)) = Cardinality(S)
  <2> DEFINE at == [k \in 1..Cardinality(S) |-> list[places[k]]]
  <2>1. at \in [1..Cardinality(S) -> B] /\ Selected(list, S) = at
    BY <1>1, <1>2, <1>3
  <2> HIDE DEF at
  <2> DEFINE size == Cardinality(S)
  <2>2. size \in Nat /\ at \in [1..size -> B]
    BY <1>2, <2>1
  <2> HIDE DEF size
  <2>3. at \in Seq(B)
    BY <2>2
  <2>4. DOMAIN at = 1..size
    BY <2>2
  <2>5. Len(at) = size
    BY <2>2, <2>3, <2>4, LenProperties
  <2> QED BY <2>1, <2>3, <2>5 DEF size
<1> DEFINE chosen == Selected(list, S)
<1> HIDE DEF chosen
<1>6. ASSUME NEW i \in S PROVE list[i] \in Range(chosen)
  <2>1. PICK k \in 1..Cardinality(S) : places[k] = i
    BY <1>2
  <2>2. k \in DOMAIN chosen /\ chosen[k] = list[i]
    BY <1>4, <2>1 DEF chosen
  <2> QED BY <2>2 DEF Range
<1>7. ASSUME NEW x \in Range(chosen) PROVE \E i \in S : x = list[i]
  <2>1. PICK k \in DOMAIN chosen : x = chosen[k]
    BY DEF Range
  <2> QED BY <1>2, <1>4, <2>1 DEF chosen
<1> USE DEF chosen
<1> QED BY <1>4, <1>5, <1>6, <1>7

(* The k latest of more than k are k.                                      *)
LEMMA LatestCount ==
  ASSUME NEW n \in Nat, NEW S \in SUBSET (1..n), NEW k \in Nat, k <= Cardinality(S)
  PROVE  Cardinality(Latest(S, k)) = k
<1> DEFINE N == Cardinality(S)
           a == Ascending(S)
           places == (N - k + 1)..N
           f == [i \in places |-> a[i]]
<1>1. /\ IsFiniteSet(S) /\ N \in Nat /\ \A c \in S : Rank(S, c) \in 1..N
      /\ \A c, d \in S : Rank(S, c) = Rank(S, d) => c = d
  BY RankIsOneToOne
<1>2. /\ \A i \in 1..N : a[i] \in S /\ Rank(S, a[i]) = i
      /\ \A c \in S : a[Rank(S, c)] = c
  BY AscendingIs
<1>3. ASSUME NEW x \in S
      PROVE  Cardinality({y \in S : y > x}) = N - Rank(S, x)
  <2> DEFINE below == {y \in S : y <= x}
  <2>0. x \in Nat /\ \A y \in S : y \in Nat /\ (y > x <=> ~(y <= x))
    OBVIOUS
  <2>1. {y \in S : y > x} = S \ below /\ S \cap below = below
    BY <2>0
  <2>2. Cardinality(S \ below) = N - Cardinality(below)
    BY <1>1, <2>1, FS_Difference
  <2> QED BY <2>1, <2>2 DEF Rank
<1>0. k <= N
  OBVIOUS
<1> HIDE DEF a, N
<1>4. \A x \in S : x \in Latest(S, k) <=> Rank(S, x) \in places
  BY <1>1, <1>3 DEF Latest
<1>5. IsFiniteSet(places) /\ Cardinality(places) = k
  <2>1. N - k + 1 \in Int /\ N \in Int
    BY <1>1
  <2>2. IsFiniteSet(places)
        /\ Cardinality(places) = IF N - k + 1 > N THEN 0 ELSE N - (N - k + 1) + 1
    BY <2>1, FS_Interval
  <2> QED BY <1>1, <2>2
<1>6. ASSUME NEW i \in places PROVE i \in 1..N /\ a[i] \in Latest(S, k)
  <2>1. i \in 1..N
    BY <1>0, <1>1
  <2> HIDE DEF places
  <2>2. a[i] \in S /\ Rank(S, a[i]) \in places
    BY <1>2, <1>6, <2>1
  <2> QED BY <1>4, <2>1, <2>2
<1>7. f \in Bijection(places, Latest(S, k))
  <2>1. f \in [places -> Latest(S, k)]
    BY <1>6
  <2>2. \A i, j \in places : f[i] = f[j] => i = j
    BY <1>2, <1>6
  <2>3. \A x \in Latest(S, k) : \E i \in places : f[i] = x
    <3>1. Latest(S, k) \subseteq S
      BY DEF Latest
    <3> QED BY <1>2, <1>4, <3>1
  <2> HIDE DEF f, places
  <2>4. f \in Injection(places, Latest(S, k))
    BY <2>1, <2>2 DEF Injection, IsInjective
  <2>5. f \in Surjection(places, Latest(S, k))
    BY <2>1, <2>3 DEF Surjection
  <2> QED BY <2>4, <2>5 DEF Bijection
<1>8. ExistsBijection(places, Latest(S, k))
  BY <1>7 DEF ExistsBijection
<1> HIDE DEF places
<1> QED BY <1>5, <1>8, FS_Bijection

(* The statements of a list are left by uniqueStatements, or it is full.   *)
LEMMA UniqueKeeps ==
  ASSUME NEW B, NEW list \in Seq(B), NEW s \in Range(list)
  PROVE  \/ s \in Range(UniqueStatements(list))
         \/ Len(UniqueStatements(list)) = ListWindow
<1> DEFINE n == Len(list)
           first == {i \in DOMAIN list : \A j \in 1..(i - 1) : list[j] # list[i]}
           last == Latest(first, ListWindow)
<1>1. n \in Nat /\ DOMAIN list = 1..n /\ ListWindow \in Nat
  BY WindowsAssumption
<1>2. first \in SUBSET (1..n) /\ last \in SUBSET DOMAIN list /\ last \subseteq first
  BY <1>1 DEF Latest
<1>3. UniqueStatements(list) = Selected(list, last)
  BY DEF UniqueStatements
<1>4. PICK i \in first : list[i] = s
  <2> DEFINE at == {i \in 1..n : list[i] = s}
  <2>1. at \in SUBSET Nat /\ at # {}
    BY <1>1 DEF Range
  <2>2. PICK i \in at : \A j \in at : i <= j
    BY <2>1, LeastNat
  <2>3. \A j \in 1..(i - 1) : j \in 1..n /\ ~(i <= j)
    BY <1>1, <2>2
  <2> QED BY <1>1, <2>2, <2>3
<1>5. /\ Len(Selected(list, last)) = Cardinality(last)
      /\ Range(Selected(list, last)) = {list[j] : j \in last}
  BY <1>2, SelectedHas
<1>6. CASE i \in last
  BY <1>3, <1>4, <1>5, <1>6
<1>7. CASE i \notin last
  <2>1. ~(Cardinality({y \in first : y > i}) < ListWindow)
    BY <1>7 DEF Latest
  <2>2. IsFiniteSet(first) /\ Cardinality(first) \in Nat
    BY <1>1, <1>2, RankIsOneToOne
  <2>3. {y \in first : y > i} \subseteq first
    OBVIOUS
  <2>4. /\ Cardinality({y \in first : y > i}) <= Cardinality(first)
        /\ Cardinality({y \in first : y > i}) \in Nat
    BY <2>2, <2>3, FS_Subset, FS_CardinalityType
  <2> HIDE DEF first, last
  <2>5. ListWindow <= Cardinality(first)
    BY <1>1, <2>1, <2>2, <2>4
  <2>6. Cardinality(last) = ListWindow
    BY <1>1, <1>2, <2>5, LatestCount DEF last
  <2> QED BY <1>3, <1>5, <2>6
<1> QED BY <1>6, <1>7

(* The facts a model leaves are facts of the user's, and what is not left  *)
(* is demoted.                                                             *)
LEMMA FactsLeftAreLocal ==
  ASSUME NEW local \in Said, NEW p \in Proposals
  PROVE  Range(FactsLeft(local, p)) \subseteq Range(local)
<1> DEFINE Saying(text) == {i \in DOMAIN local : local[i].text = text}
           some == {i \in DOMAIN p.facts : Saying(p.facts[i]) # {}}
           listed == Selected(p.facts, some)
<1>1. CASE ~p.listsFacts
  BY <1>1 DEF FactsLeft
<1>2. CASE p.listsFacts
  <2>1. FactsLeft(local, p) = [i \in DOMAIN listed |-> local[Max(Saying(listed[i]))]]
    BY <1>2 DEF FactsLeft
  <2>2. p.facts \in Seq(Texts) /\ some \in SUBSET DOMAIN p.facts
    BY ProposalsAssumption
  <2>3. Range(listed) = {p.facts[i] : i \in some}
    BY <2>2, SelectedHas
  <2>4. \A text \in Range(listed) : Saying(text) # {}
    BY <2>3
  <2>5. \A i \in DOMAIN listed : listed[i] \in Range(listed)
    BY DEF Range
  <2>6. Len(local) \in Nat /\ DOMAIN local = 1..Len(local)
    BY DEF Said
  <2>7. \A text : Saying(text) # {} => Max(Saying(text)) \in Saying(text)
    <3> SUFFICES ASSUME NEW text, Saying(text) # {} PROVE Max(Saying(text)) \in Saying(text)
      OBVIOUS
    <3>1. Saying(text) \in SUBSET (1..Len(local))
      BY <2>6
    <3> HIDE DEF Saying
    <3> QED BY <2>6, <3>1, MaxIsIn
  <2>8. \A text : Saying(text) \subseteq DOMAIN local
    OBVIOUS
  <2> HIDE DEF Saying, listed
  <2>9. \A i \in DOMAIN listed : Max(Saying(listed[i])) \in DOMAIN local
    BY <2>4, <2>5, <2>7, <2>8
  <2>10. \A x \in Range(FactsLeft(local, p)) :
            \E i \in DOMAIN listed : x = local[Max(Saying(listed[i]))]
    BY <2>1 DEF Range
  <2> QED BY <2>9, <2>10 DEF Range
<1> QED BY <1>1, <1>2

LEMMA DemotedAre ==
  ASSUME NEW local \in Said, NEW facts, NEW s \in Range(local),
         \A f \in Range(facts) : f.text # s.text
  PROVE  s \in Range(Demoted(local, facts))
<1> DEFINE gone == {i \in DOMAIN local : \A j \in DOMAIN facts : facts[j].text # local[i].text}
<1>1. Range(Selected(local, gone)) = {local[i] : i \in gone}
  BY SelectedHas DEF Said
<1>2. \A j \in DOMAIN facts : facts[j] \in Range(facts)
  BY DEF Range
<1>3. PICK i \in DOMAIN local : local[i] = s
  BY DEF Range
<1>4. i \in gone
  BY <1>2, <1>3
<1> QED BY <1>1, <1>3, <1>4 DEF Demoted

LEMMA DemotedIsSaid ==
  ASSUME NEW local \in Said, NEW facts
  PROVE  Demoted(local, facts) \in Said
<1> DEFINE gone == {i \in DOMAIN local : \A j \in DOMAIN facts : facts[j].text # local[i].text}
<1>1. Selected(local, gone) \in Said
  BY SelectedHas DEF Said
<1> QED BY <1>1 DEF Demoted

(* What is joined to a list keeps what it has.                             *)
LEMMA JoinedHas ==
  ASSUME NEW a \in Said, NEW b \in Said
  PROVE  a \o b \in Said /\ \A s : s \in Range(a) \/ s \in Range(b) => s \in Range(a \o b)
<1> DEFINE B == [text : Texts, source : Nat]
<1>1. a \in Seq(B) /\ b \in Seq(B)
  BY DEF Said
<1> HIDE DEF B
<1>2. /\ a \o b \in Seq(B) /\ Len(a \o b) = Len(a) + Len(b)
      /\ Len(a) \in Nat /\ Len(b) \in Nat
      /\ DOMAIN a = 1..Len(a) /\ DOMAIN b = 1..Len(b) /\ DOMAIN (a \o b) = 1..Len(a \o b)
      /\ \A i \in 1..Len(a) : (a \o b)[i] = a[i]
      /\ \A i \in 1..Len(b) : (a \o b)[Len(a) + i] = b[i]
  BY <1>1
<1> DEFINE c == a \o b
<1> HIDE DEF c
<1>3. ASSUME NEW i \in DOMAIN a PROVE a[i] \in Range(c)
  <2>1. i \in DOMAIN c /\ c[i] = a[i]
    BY <1>2 DEF c
  <2> QED BY <2>1 DEF Range
<1>4. ASSUME NEW i \in DOMAIN b PROVE b[i] \in Range(c)
  <2>1. Len(a) + i \in DOMAIN c /\ c[Len(a) + i] = b[i]
    BY <1>2 DEF c
  <2> QED BY <2>1 DEF Range
<1>5. \A s : s \in Range(a) \/ s \in Range(b) => s \in Range(c)
  BY <1>3, <1>4 DEF Range
<1> QED BY <1>2, <1>5 DEF c, Said, B

(* A model takes nothing away that a full list has room for, and adds no   *)
(* fact.                                                                   *)
LEMMA ReconcileIsSound ==
  ASSUME NEW m, NEW p \in Proposals, WasAsked(m), MessagesOK
  PROVE  ResolvedOK(Reconcile(Resolve(m), p), m)
<1> DEFINE local == Resolve(m)
           facts == FactsLeft(local.facts, p)
           demoted == Demoted(local.facts, facts)
           claims == local.claims \o demoted \o p.claims
           hypotheses == local.hypotheses \o p.hypotheses
           unknowns == local.unknowns \o p.unknowns
           after == Reconcile(local, p)
<1>1. ResolvedOK(local, m) /\ ListsOK(local)
  BY ResolveIsSound
<1>2. /\ after.sources = local.sources /\ after.facts = facts
      /\ after.claims = UniqueStatements(claims)
      /\ after.hypotheses = UniqueStatements(hypotheses)
      /\ after.unknowns = UniqueStatements(unknowns)
  BY DEF Reconcile, Resolve
<1> HIDE DEF local, after
<1>3. /\ local.facts \in Said /\ local.claims \in Said /\ local.hypotheses \in Said
      /\ local.unknowns \in Said
      /\ p.claims \in Said /\ p.hypotheses \in Said /\ p.unknowns \in Said
  BY <1>1, ProposalsAssumption DEF ListsOK, Lists
<1>4. /\ \A s \in Range(local.facts) : KindOf(s.text) = "facts"
      /\ \A s \in Range(local.claims) : KindOf(s.text) = "claims"
      /\ \A s \in Range(local.hypotheses) : KindOf(s.text) = "hypotheses"
      /\ \A s \in Range(local.unknowns) : KindOf(s.text) = "unknowns"
  BY <1>1 DEF ListsOK, Lists
<1>5. Range(facts) \subseteq Range(local.facts)
  BY <1>3, FactsLeftAreLocal
<1> HIDE DEF facts
<1>6. demoted \in Said
  BY <1>3, DemotedIsSaid
<1> HIDE DEF demoted
<1>7. /\ claims \in Said
      /\ \A s : s \in Range(local.claims) \/ s \in Range(demoted) => s \in Range(claims)
  <2>1. /\ local.claims \o demoted \in Said
        /\ \A s : s \in Range(local.claims) \/ s \in Range(demoted)
               => s \in Range(local.claims \o demoted)
    BY <1>3, <1>6, JoinedHas
  <2> DEFINE both == local.claims \o demoted
  <2> HIDE DEF both
  <2>2. both \o p.claims \in Said /\ \A s : s \in Range(both) => s \in Range(both \o p.claims)
    BY <1>3, <2>1, JoinedHas DEF both
  <2> QED BY <2>1, <2>2 DEF both
<1>8. /\ hypotheses \in Said /\ \A s : s \in Range(local.hypotheses) => s \in Range(hypotheses)
      /\ unknowns \in Said /\ \A s : s \in Range(local.unknowns) => s \in Range(unknowns)
  BY <1>3, JoinedHas
<1> HIDE DEF claims, hypotheses, unknowns
<1>9. \A list \in Said : \A s \in Range(list) :
         s \in Range(UniqueStatements(list)) \/ Len(UniqueStatements(list)) = ListWindow
  BY UniqueKeeps DEF Said
<1>10. ASSUME NEW u \in local.sources
       PROVE  Remembers(after, u)
  <2> DEFINE s == Statement(u)
  <2>0. s.text = TextOf(u)
    BY DEF Statement
  <2> HIDE DEF s
  <2>1. CASE s \in Range(local.facts)
    <3>1. CASE \E f \in Range(facts) : f.text = s.text
      BY <1>2, <2>0, <3>1 DEF Remembers
    <3>2. CASE \A f \in Range(facts) : f.text # s.text
      <4>1. s \in Range(claims)
        BY <1>3, <1>7, <2>1, <3>2, DemotedAre DEF demoted
      <4>2. s \in Range(after.claims) \/ Len(after.claims) = ListWindow
        BY <1>2, <1>7, <1>9, <4>1
      <4>3. ListOf(after, KindOf(TextOf(u))) = after.claims
        BY <1>4, <2>0, <2>1 DEF ListOf
      <4> QED BY <4>2, <4>3 DEF Remembers, IsListed, s
    <3> QED BY <3>1, <3>2
  <2>2. CASE s \in Range(local.claims)
    <3>1. s \in Range(after.claims) \/ Len(after.claims) = ListWindow
      BY <1>2, <1>7, <1>9, <2>2
    <3>2. ListOf(after, KindOf(TextOf(u))) = after.claims
      BY <1>4, <2>0, <2>2 DEF ListOf
    <3> QED BY <3>1, <3>2 DEF Remembers, IsListed, s
  <2>3. CASE s \in Range(local.hypotheses)
    <3>1. s \in Range(after.hypotheses) \/ Len(after.hypotheses) = ListWindow
      BY <1>2, <1>8, <1>9, <2>3
    <3>2. ListOf(after, KindOf(TextOf(u))) = after.hypotheses
      BY <1>4, <2>0, <2>3 DEF ListOf
    <3> QED BY <3>1, <3>2 DEF Remembers, IsListed, s
  <2>4. CASE s \in Range(local.unknowns)
    <3>1. s \in Range(after.unknowns) \/ Len(after.unknowns) = ListWindow
      BY <1>2, <1>8, <1>9, <2>4
    <3>2. ListOf(after, KindOf(TextOf(u))) = after.unknowns
      BY <1>4, <2>0, <2>4 DEF ListOf
    <3> QED BY <3>1, <3>2 DEF Remembers, IsListed, s
  <2>5. CASE ~(Cardinality(Newer(local.sources, u)) < ListWindow)
    BY <1>2, <2>5 DEF Remembers
  <2> QED BY <1>1, <2>1, <2>2, <2>3, <2>4, <2>5 DEF ListsOK, IsListed, s
<1>11. ResolvedOK(after, m)
  BY <1>1, <1>2, <1>5, <1>10 DEF ResolvedOK
<1> QED BY <1>11 DEF after, local

(* Asking a question puts it last and numbers it highest. *)
LEMMA AskKeepsMessages ==
  ASSUME MessagesOK, NEW text \in Texts, Ask(text)
  PROVE  MessagesOK' /\ \A m : m = asked + 1 => WasAsked(m)'
<1> DEFINE new == UserMessage(asked + 1, text)
           n == Len(msgs)
<1>1. /\ msgs \in Seq(Messages) /\ n \in Nat /\ asked \in Nat
      /\ new \in Messages /\ new.role = "user" /\ new.id = asked + 1
  BY DEF MessagesOK, UserMessage, Messages
<1>2. msgs' = Append(msgs, new) /\ asked' = asked + 1 /\ interrupted' = interrupted
  BY DEF Ask
<1> HIDE DEF new
<1>3. /\ msgs' \in Seq(Messages) /\ Len(msgs') = n + 1 /\ msgs'[n + 1] = new
      /\ \A i \in 1..n : msgs'[i] = msgs[i]
  BY <1>1, <1>2
<1>4. UserMessagesOf(msgs') = UserMessagesOf(msgs) \cup {n + 1}
  BY <1>1, <1>3 DEF UserMessagesOf
<1>5. \A i \in UserMessagesOf(msgs) : i \in 1..n /\ msgs[i].id \in 1..asked
  BY <1>1 DEF MessagesOK, UserMessagesOf
<1>6. \A i \in UserMessagesOf(msgs') : msgs'[i].id \in 1..asked'
  BY <1>1, <1>2, <1>3, <1>4, <1>5
<1>7. ASSUME NEW i \in UserMessagesOf(msgs'), NEW j \in UserMessagesOf(msgs'), i < j
      PROVE  msgs'[i].id < msgs'[j].id
  <2>1. i \in UserMessagesOf(msgs) /\ i \in 1..n
    BY <1>1, <1>4, <1>5, <1>7
  <2>2. CASE j = n + 1
    BY <1>1, <1>3, <1>5, <2>1, <2>2
  <2>3. CASE j \in UserMessagesOf(msgs)
    BY <1>3, <1>5, <1>7, <2>1, <2>3 DEF MessagesOK
  <2> QED BY <1>4, <2>2, <2>3
<1>8. \A m : WasAsked(m) => WasAsked(m)'
  BY <1>3, <1>4, <1>5 DEF WasAsked
<1>9. \A m : m = asked + 1 => WasAsked(m)'
  BY <1>1, <1>3, <1>4 DEF WasAsked
<1>10. asked' \in Nat /\ interrupted' \in Nat /\ (interrupted' # 0 => WasAsked(interrupted)')
  BY <1>1, <1>2, <1>8 DEF MessagesOK
<1> QED BY <1>3, <1>6, <1>7, <1>9, <1>10 DEF MessagesOK

(* A reply or a placeholder disturbs no question. *)
LEMMA ReplyKeepsMessages ==
  ASSUME MessagesOK, NEW m \in Nat, NEW asks \in BOOLEAN,
         msgs' = Append(msgs, HelperMessage(m, asks)), asked' = asked,
         interrupted' = interrupted \/ (interrupted' = m /\ WasAsked(m))
  PROVE  MessagesOK'
<1> DEFINE new == HelperMessage(m, asks)
           n == Len(msgs)
<1>1. /\ msgs \in Seq(Messages) /\ n \in Nat /\ asked \in Nat
      /\ new \in Messages /\ new.role = "helper"
  BY DEF MessagesOK, HelperMessage, Messages
<1> HIDE DEF new
<1>2. msgs' = Append(msgs, new)
  BY DEF new
<1>3. /\ msgs' \in Seq(Messages) /\ Len(msgs') = n + 1 /\ msgs'[n + 1] = new
      /\ \A i \in 1..n : msgs'[i] = msgs[i]
  BY <1>1, <1>2
<1>4. UserMessagesOf(msgs') = UserMessagesOf(msgs)
  BY <1>1, <1>3 DEF UserMessagesOf
<1>5. \A i \in UserMessagesOf(msgs) : msgs'[i] = msgs[i]
  BY <1>1, <1>3 DEF UserMessagesOf
<1>6. \A k : WasAsked(k) => WasAsked(k)'
  BY <1>4, <1>5 DEF WasAsked
<1> QED BY <1>3, <1>4, <1>5, <1>6 DEF MessagesOK

(* Removing the placeholder closes the gap and keeps the order. *)
LEMMA RetryKeepsMessages ==
  ASSUME MessagesOK, Retry
  PROVE  MessagesOK' /\ \A m : m = interrupted => WasAsked(m)'
<1> DEFINE n == Len(msgs)
<1>1. msgs \in Seq(Messages) /\ n \in Nat /\ WasAsked(interrupted)
  BY DEF MessagesOK, Retry
<1>2. PICK k \in 1..n : /\ msgs[k].role = "helper"
                        /\ msgs' = SubSeq(msgs, 1, k - 1) \o SubSeq(msgs, k + 1, n)
  <2>1. DOMAIN msgs = 1..n
    BY <1>1
  <2> QED BY <2>1, Zenon DEF Retry
<1>3. asked' = asked /\ interrupted' = 0
  BY DEF Retry
<1> DEFINE a == SubSeq(msgs, 1, k - 1)
           b == SubSeq(msgs, k + 1, n)
           old(i) == IF i < k THEN i ELSE i + 1
<1>4. /\ a \in Seq(Messages) /\ Len(a) = k - 1 /\ \A i \in 1..(k - 1) : a[i] = msgs[i]
      /\ b \in Seq(Messages) /\ Len(b) = n - k /\ \A i \in 1..(n - k) : b[i] = msgs[k + i]
  BY <1>1
<1>5. msgs' = a \o b
  BY <1>2
<1> HIDE DEF a, b
<1>6. msgs' \in Seq(Messages) /\ Len(msgs') = n - 1
  <2>1. msgs' \in Seq(Messages) /\ Len(msgs') = Len(a) + Len(b)
    BY <1>4, <1>5, ConcatProperties
  <2> QED BY <1>1, <1>4, <2>1
<1>7. ASSUME NEW i \in 1..(n - 1) PROVE msgs'[i] = msgs[old(i)] /\ old(i) \in 1..n
  <2>1. CASE i < k
    BY <1>1, <1>4, <1>5, <2>1
  <2>2. CASE ~(i < k)
    <3>1. i - (k - 1) \in 1..(n - k)
      BY <1>1, <2>2
    <3>2. msgs'[i] = b[i - (k - 1)]
      BY <1>1, <1>4, <1>5, <2>2
    <3> QED BY <1>1, <1>4, <2>2, <3>1, <3>2
  <2> QED BY <2>1, <2>2
<1>8. \A i \in UserMessagesOf(msgs') :
         i \in 1..(n - 1) /\ old(i) \in UserMessagesOf(msgs) /\ msgs'[i] = msgs[old(i)]
  BY <1>1, <1>6, <1>7 DEF UserMessagesOf
<1>9. \A i, j \in 1..(n - 1) : i < j => old(i) < old(j)
  OBVIOUS
<1>10. ASSUME NEW m, WasAsked(m) PROVE WasAsked(m)'
  <2>1. PICK j \in 1..n : msgs[j].role = "user" /\ msgs[j].id = m
    BY <1>1, <1>10 DEF WasAsked, UserMessagesOf
  <2>2. j # k
    BY <1>2, <2>1
  <2>3. PICK i \in 1..(n - 1) : old(i) = j
    <3>1. CASE j < k
      BY <3>1, <1>1
    <3>2. CASE j > k
      <4>1. j - 1 \in 1..(n - 1) /\ old(j - 1) = j
        BY <3>2, <1>1
      <4> QED BY <4>1
    <3> QED BY <2>2, <3>1, <3>2
  <2>4. i \in UserMessagesOf(msgs') /\ msgs'[i].id = m
    BY <1>6, <1>7, <2>1, <2>3 DEF UserMessagesOf
  <2> QED BY <2>4 DEF WasAsked
<1> HIDE DEF old
<1>11. \A i \in UserMessagesOf(msgs') : msgs'[i].id \in 1..asked'
  BY <1>3, <1>8 DEF MessagesOK
<1>12. \A i, j \in UserMessagesOf(msgs') : i < j => msgs'[i].id < msgs'[j].id
  BY <1>8, <1>9 DEF MessagesOK
<1> QED BY <1>1, <1>3, <1>6, <1>10, <1>11, <1>12 DEF MessagesOK

-----------------------------------------------------------------------------
(* The steps. *)

LEMMA TextsStay == ASSUME UNCHANGED msgs PROVE \A m : TextOf(m)' = TextOf(m) /\ WasAsked(m)' = WasAsked(m)
  BY DEF TextOf, At, WasAsked

(* A run that is recorded answers a question of its own sources. *)
LEMMA RecordKeepsRuns ==
  ASSUME RunsOK, NEW m \in Nat, NEW result \in BOOLEAN, NEW sources \in SUBSET Nat, m \in sources,
         runs' = Append(runs, [question |-> m, result |-> result, sources |-> sources])
  PROVE  RunsOK'
<1> DEFINE run == [question |-> m, result |-> result, sources |-> sources]
<1>1. run \in CaseRuns /\ run.question \in run.sources
  BY DEF CaseRuns
<1> HIDE DEF run
<1>2. runs \in Seq(CaseRuns) /\ runs' = Append(runs, run)
  BY DEF RunsOK, run
<1>3. /\ runs' \in Seq(CaseRuns) /\ DOMAIN runs' = 1..(Len(runs) + 1)
      /\ runs'[Len(runs) + 1] = run /\ \A i \in DOMAIN runs : runs'[i] = runs[i]
      /\ DOMAIN runs = 1..Len(runs) /\ Len(runs) \in Nat
  BY <1>1, <1>2
<1> QED BY <1>1, <1>3 DEF RunsOK

(* A request made from a sound resolution is as it should be. *)
LEMMA RequestIsSound ==
  ASSUME Inv, NEW m, m = turn.question, WasAsked(m), NEW resolved, ResolvedOK(resolved, m),
         NEW items, NEW review,
         items = {Direct} \/ (items \subseteq resolved.query /\ review = "complete"),
         Ready(m, Request(m, resolved, items), review),
         UNCHANGED <<msgs, runs, interrupted, asked, interrupts>>
  PROVE  Inv'
<1>1. MessagesOK' /\ RunsOK'
  BY DEF Inv, MessagesOK, RunsOK, WasAsked
<1>2. /\ turn'.pc = "answer" /\ turn'.question = m /\ turn'.review = review
      /\ turn'.request.resolved = resolved /\ turn'.request.items = items
      /\ turn'.request.quoted = Quoted(m)
  BY DEF Ready, Request
<1>3. \A u : TextOf(u)' = TextOf(u) /\ WasAsked(u)' = WasAsked(u)
  BY TextsStay
<1>4. ResolvedOK(turn.request.resolved, turn.question)'
  BY <1>2, <1>3 DEF ResolvedOK, Remembers, Newer, IsListed, Statement
<1>5. QuotedOK(turn.request.quoted, turn.question)'
  BY <1>2, QuotedIsPast DEF QuotedOK, Inv
<1>6. ItemsWereReviewed'
  BY <1>2 DEF ItemsWereReviewed, HasRequest
<1>7. turn'.question \in Nat /\ WasAsked(turn.question)'
  <2>1. m \in Nat
    BY QuestionPlace DEF Inv, MessagesOK
  <2> QED BY <1>2, <1>3, <2>1 DEF WasAsked
<1>8. TurnOK'
  BY <1>2, <1>4, <1>5, <1>6, <1>7 DEF TurnOK, AnswerOK
<1> QED BY <1>1, <1>8 DEF Inv

LEMMA InvStep == ASSUME Inv, Next PROVE Inv'
<1> USE DEF Inv
<1>1. ASSUME NEW text \in Texts, Ask(text) PROVE Inv'
  <2>1. MessagesOK' /\ \A m : m = asked + 1 => WasAsked(m)'
    BY <1>1, AskKeepsMessages
  <2>2. turn' = Turn("model", asked + 1) /\ runs' = runs /\ asked \in Nat
    BY <1>1 DEF Ask, MessagesOK
  <2>3. turn'.pc = "model" /\ turn'.question = asked + 1
    BY <2>2 DEF Turn
  <2>4. TurnOK'
    BY <2>1, <2>2, <2>3 DEF TurnOK, WasAsked
  <2> QED BY <2>1, <2>2, <2>4 DEF RunsOK
<1>2. CASE Retry
  <2>1. MessagesOK' /\ \A m : m = interrupted => WasAsked(m)'
    BY <1>2, RetryKeepsMessages
  <2>2. turn' = Turn("model", interrupted) /\ runs' = runs /\ interrupted \in Nat
    BY <1>2 DEF Retry, MessagesOK
  <2>3. turn'.pc = "model" /\ turn'.question = interrupted
    BY <2>2 DEF Turn
  <2>4. TurnOK'
    BY <2>1, <2>2, <2>3 DEF TurnOK, WasAsked
  <2> QED BY <2>1, <2>2, <2>4 DEF RunsOK
<1>3. CASE ModelDoesNotDispatch
  <2> DEFINE m == turn.question
  <2>1. WasAsked(m)
    BY <1>3 DEF ModelDoesNotDispatch, TurnOK
  <2>2. ResolvedOK(Resolve(m), m)
    BY <2>1, ResolveIsSound
  <2>3. /\ Ready(m, Request(m, Resolve(m), {Direct}), "none")
        /\ UNCHANGED <<msgs, runs, interrupted, asked, interrupts>>
    BY <1>3 DEF ModelDoesNotDispatch, LocalRequest
  <2> QED BY <2>1, <2>2, <2>3, RequestIsSound
<1>4. ASSUME NEW p \in Proposals, ModelDispatches(p) PROVE Inv'
  <2> DEFINE m == turn.question
             resolved == Reconcile(Resolve(m), p)
  <2>1. WasAsked(m) /\ m \in Nat
    BY <1>4 DEF ModelDispatches, TurnOK
  <2>2. ResolvedOK(resolved, m)
    BY <2>1, ReconcileIsSound
  <2>3. UNCHANGED <<msgs, runs, interrupted, asked, interrupts>>
    BY <1>4 DEF ModelDispatches
  <2>4. CASE InScope(p.items, resolved.query)
    <3>1. turn' = [pc |-> "review", question |-> m, resolved |-> resolved, items |-> p.items]
      BY <1>4, <2>4 DEF ModelDispatches
    <3> HIDE DEF m, resolved
    <3>2. /\ turn'.pc = "review" /\ turn'.question = m
          /\ turn'.resolved = resolved /\ turn'.items = p.items
      BY <3>1
    <3>3. \A u : TextOf(u)' = TextOf(u) /\ WasAsked(u)' = WasAsked(u)
      BY <2>3, TextsStay
    <3>4. ResolvedOK(turn.resolved, turn.question)'
      BY <2>2, <3>2, <3>3 DEF ResolvedOK, Remembers, Newer, IsListed, Statement
    <3>5. TurnOK'
      BY <2>1, <2>4, <3>2, <3>3, <3>4 DEF TurnOK, ReviewOK, InScope, WasAsked
    <3> QED BY <2>3, <3>5 DEF MessagesOK, RunsOK, WasAsked
  <2>5. CASE ~InScope(p.items, resolved.query)
    <3>1. Ready(m, Request(m, resolved, {Direct}), "none")
      BY <1>4, <2>5 DEF ModelDispatches
    <3> HIDE DEF resolved
    <3> QED BY <2>1, <2>2, <2>3, <3>1, RequestIsSound
  <2> QED BY <2>4, <2>5
<1>5. ASSUME NEW review, CompletenessReviewed(review) PROVE Inv'
  <2> DEFINE m == turn.question
             resolved == turn.resolved
             items == ItemsReviewed(turn.items, resolved.query, review)
  <2>1. WasAsked(m) /\ ReviewOK
    BY <1>5 DEF CompletenessReviewed, TurnOK
  <2>2. /\ Ready(m, Request(m, resolved, items), review)
        /\ UNCHANGED <<msgs, runs, interrupted, asked, interrupts>>
    BY <1>5 DEF CompletenessReviewed
  <2>3. items = {Direct} \/ (items \subseteq resolved.query /\ review = "complete")
    BY <2>1 DEF ItemsReviewed, MustAnswer, ReviewOK
  <2>4. ResolvedOK(resolved, m)
    BY <2>1 DEF ReviewOK
  <2> HIDE DEF items, resolved
  <2> QED BY <2>1, <2>2, <2>3, <2>4, RequestIsSound
<1>6. ASSUME NEW result \in BOOLEAN, NEW asks \in BOOLEAN, Answered(result, asks) PROVE Inv'
  <2> DEFINE m == turn.question
             sources == turn.request.resolved.sources
  <2>1. m \in Nat /\ m \in sources /\ sources \in SUBSET Nat
    BY <1>6 DEF Answered, TurnOK, AnswerOK, ResolvedOK
  <2>2. /\ runs' = Append(runs, [question |-> m, result |-> result, sources |-> sources])
        /\ msgs' = Append(msgs, HelperMessage(m, asks))
        /\ turn' = Idle /\ UNCHANGED <<interrupted, asked>>
    BY <1>6 DEF Answered
  <2> HIDE DEF m, sources
  <2>3. MessagesOK' /\ RunsOK'
    BY <2>1, <2>2, ReplyKeepsMessages, RecordKeepsRuns
  <2> QED BY <2>2, <2>3 DEF TurnOK, Idle
<1>7. ASSUME NEW recorded \in BOOLEAN, Interrupt(recorded) PROVE Inv'
  <2> DEFINE m == turn.question
             sources == turn.request.resolved.sources
  <2>1. m \in Nat /\ WasAsked(m)
    BY <1>7 DEF Interrupt, TurnOK
  <2>2. recorded => m \in sources /\ sources \in SUBSET Nat
    BY <1>7 DEF Interrupt, TurnOK, AnswerOK, ResolvedOK
  <2>3. /\ runs' = IF recorded
                   THEN Append(runs, [question |-> m, result |-> FALSE, sources |-> sources])
                   ELSE runs
        /\ msgs' = Append(msgs, HelperMessage(m, FALSE))
        /\ interrupted' = m /\ turn' = Idle /\ asked' = asked
    BY <1>7 DEF Interrupt
  <2> HIDE DEF m, sources
  <2>4. MessagesOK'
    BY <2>1, <2>3, ReplyKeepsMessages
  <2>5. RunsOK'
    <3>1. CASE recorded
      BY <2>1, <2>2, <2>3, <3>1, RecordKeepsRuns
    <3>2. CASE ~recorded
      BY <2>3, <3>2 DEF RunsOK
    <3> QED BY <3>1, <3>2
  <2> QED BY <2>3, <2>4, <2>5 DEF TurnOK, Idle
<1> QED BY <1>1, <1>2, <1>3, <1>4, <1>5, <1>6, <1>7 DEF Next

LEMMA InvHolds == Spec => []Inv
<1>1. Init => Inv
  <2> SUFFICES ASSUME Init PROVE Inv
    OBVIOUS
  <2>1. MessagesOK
    BY DEF Init, MessagesOK, UserMessagesOf
  <2>2. RunsOK
    BY DEF Init, RunsOK
  <2>3. TurnOK
    BY DEF Init, TurnOK, Idle
  <2> QED BY <2>1, <2>2, <2>3 DEF Inv
<1>2. Inv /\ [Next]_vars => Inv'
  <2> SUFFICES ASSUME Inv, [Next]_vars PROVE Inv'
    OBVIOUS
  <2>1. CASE UNCHANGED vars
    <3>1. UNCHANGED <<msgs, runs, turn, interrupted, asked>>
      BY <2>1 DEF vars
    <3>2. \A u : TextOf(u)' = TextOf(u) /\ WasAsked(u)' = WasAsked(u)
      BY <3>1, TextsStay
    <3>3. MessagesOK' /\ RunsOK'
      BY <3>1 DEF Inv, MessagesOK, RunsOK, WasAsked
    <3>4. TurnOK'
      BY <3>1, <3>2
         DEF Inv, TurnOK, ReviewOK, AnswerOK, ResolvedOK, Remembers, Newer, IsListed, Statement, QuotedOK, WasAsked,
             ItemsWereReviewed, HasRequest
    <3> QED BY <3>3, <3>4 DEF Inv
  <2> QED BY <2>1, InvStep
<1> QED BY <1>1, <1>2, PTL DEF Spec

(* The request of a turn knows only its past: no message, run or source of *)
(* a later question is in it, also when the turn was interrupted and runs  *)
(* again after later questions were asked and answered.                    *)
THEOREM RequestKnowsItsPast == Spec => []ContextIsPast
<1>1. Inv => ContextIsPast
  BY DEF Inv, TurnOK, AnswerOK, QuotedOK, ResolvedOK, ContextIsPast, HasRequest
<1> QED BY <1>1, InvHolds, PTL

(* What a request calls a fact is what the user observed, whatever the     *)
(* model proposes.                                                         *)
THEOREM FactsAreTheUsers == Spec => []FactsAreObserved
<1>1. Inv => FactsAreObserved
  BY DEF Inv, TurnOK, AnswerOK, ResolvedOK, FactsAreObserved, HasRequest
<1> QED BY <1>1, InvHolds, PTL

(* What the user said reaches the request, at least as a claim, unless the *)
(* cap of a list pushed it out, whatever the model proposes.               *)
THEOREM NothingElseForgets == Spec => []OnlyFullListsForget
<1>1. Inv => OnlyFullListsForget
  BY DEF Inv, TurnOK, AnswerOK, ResolvedOK, OnlyFullListsForget, HasRequest
<1> QED BY <1>1, InvHolds, PTL

(* The items of an answer are the model's only if each is part of the      *)
(* question and the completeness review of this turn accepted them.        *)
THEOREM ItemsAreReviewed == Spec => []ItemsWereReviewed
<1>1. Inv => ItemsWereReviewed
  BY DEF Inv, TurnOK, AnswerOK, ItemsWereReviewed, HasRequest
<1> QED BY <1>1, InvHolds, PTL
=============================================================================
