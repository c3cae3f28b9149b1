------------------------ MODULE RecommendationProofs ------------------------
(***************************************************************************)
(* Types, the order of the recommendations, the end of the table and the   *)
(* touch on a row, for all mails, categories, answers and table lengths.   *)
(***************************************************************************)
EXTENDS Recommendation, FiniteSetTheorems, TLAPS

(***************************************************************************)
(* Scores and sorting.                                                     *)
(***************************************************************************)
LEMMA ScoreType ==
  ASSUME NEW m \in Mails, NEW n \in Mails
  PROVE  Score(m, n) \in Nat
<1> DEFINE Pairs == (DOMAIN Tokens[m]) \X (DOMAIN Tokens[n])
           Same == {ij \in Pairs : Value(Tokens[m][ij[1]]) = Value(Tokens[n][ij[2]])}
<1>1. DOMAIN Tokens[m] = 1..Len(Tokens[m]) /\ Len(Tokens[m]) \in Nat
  BY TokensAssumption
<1>2. DOMAIN Tokens[n] = 1..Len(Tokens[n]) /\ Len(Tokens[n]) \in Nat
  BY TokensAssumption
<1>3. IsFiniteSet(DOMAIN Tokens[m]) /\ IsFiniteSet(DOMAIN Tokens[n])
  BY <1>1, <1>2, FS_Interval
<1>4. IsFiniteSet(Pairs)
  BY <1>3, FS_Product
<1>5. IsFiniteSet(Same)
  BY <1>4, FS_Subset
<1>6. Cardinality(Same) \in Nat
  BY <1>5, FS_CardinalityType
<1> QED
  BY <1>6 DEF Score

(* A sorted list is a list of the same mails.                              *)
LEMMA SortedList ==
  ASSUME NEW list \in Seq(Object), NEW scores, NEW sorted \in Sorted(list, scores)
  PROVE  /\ sorted \in Seq(Object)
         /\ DOMAIN sorted = DOMAIN list
         /\ Len(sorted) = Len(list)
         /\ Range(sorted) = Range(list)
         /\ \A i, j \in DOMAIN sorted : i < j => InOrder(scores[sorted[i]], scores[sorted[j]])
<1>1. PICK p \in Bijection(DOMAIN list, DOMAIN list) :
        sorted = [i \in DOMAIN list |-> list[p[i]]]
  BY DEF Sorted
<1>2. /\ p \in [DOMAIN list -> DOMAIN list]
      /\ \A t \in DOMAIN list : \E i \in DOMAIN list : p[i] = t
  BY DEF Bijection, Injection, Surjection
<1>3. DOMAIN list = 1..Len(list) /\ Len(list) \in Nat
  OBVIOUS
<1>4. sorted \in [1..Len(list) -> Object]
  BY <1>1, <1>2, <1>3
<1>5. sorted \in Seq(Object) /\ Len(sorted) = Len(list)
  BY <1>3, <1>4
<1>6. Range(sorted) = Range(list)
  BY <1>1, <1>2 DEF Range
<1> QED
  BY <1>1, <1>5, <1>6 DEF Sorted

(* The topics but 0 that two mails share: each is at one place of the      *)
(* categories of the one and of the other.                                 *)
LEMMA SharedTopics ==
  ASSUME NEW m \in Mails, NEW n \in Mails
  PROVE  LET shared == {ij \in (DOMAIN Tokens[m]) \X (DOMAIN Tokens[n]) :
                          Tokens[m][ij[1]] = Tokens[n][ij[2]] /\ Tokens[m][ij[1]] \notin {0, EmptyToken}}
         IN  IsFiniteSet(shared) /\ Cardinality(shared) = Cardinality(Common(m, n) \ {0})
<1> DEFINE Pairs == (DOMAIN Tokens[m]) \X (DOMAIN Tokens[n])
           Shared == {ij \in Pairs : Tokens[m][ij[1]] = Tokens[n][ij[2]]
                                      /\ Tokens[m][ij[1]] \notin {0, EmptyToken}}
           topic == [ij \in Shared |-> Tokens[m][ij[1]]]
<1>1. IsFiniteSet(Shared)
  <2>1. DOMAIN Tokens[m] = 1..Len(Tokens[m]) /\ Len(Tokens[m]) \in Nat
    BY TokensAssumption
  <2>2. DOMAIN Tokens[n] = 1..Len(Tokens[n]) /\ Len(Tokens[n]) \in Nat
    BY TokensAssumption
  <2>3. IsFiniteSet(DOMAIN Tokens[m]) /\ IsFiniteSet(DOMAIN Tokens[n])
    BY <2>1, <2>2, FS_Interval
  <2>4. IsFiniteSet(Pairs)
    BY <2>3, FS_Product
  <2> QED
    BY <2>4, FS_Subset
<1>2. \A k \in Mails : \A i, j \in DOMAIN Tokens[k] : Tokens[k][i] = Tokens[k][j] => i = j
  <2> SUFFICES ASSUME NEW k \in Mails, NEW i \in DOMAIN Tokens[k], NEW j \in DOMAIN Tokens[k],
                      Tokens[k][i] = Tokens[k][j]
               PROVE  i = j
    OBVIOUS
  <2>1. Tokens[k] # <<>>
    BY TokensAssumption
  <2> QED
    BY <2>1, TaggedAssumption DEF IsInjective
<1>3. \A ij \in Shared : topic[ij] \in Common(m, n) \ {0}
  BY DEF Common, Topics
<1>4. \A p, q \in Shared : topic[p] = topic[q] => p = q
  <2> SUFFICES ASSUME NEW p \in Shared, NEW q \in Shared, topic[p] = topic[q]
               PROVE  p = q
    OBVIOUS
  <2>1. Tokens[m][p[1]] = Tokens[m][q[1]] /\ Tokens[n][p[2]] = Tokens[n][q[2]]
    OBVIOUS
  <2>2. /\ p[1] \in DOMAIN Tokens[m] /\ q[1] \in DOMAIN Tokens[m]
        /\ p[2] \in DOMAIN Tokens[n] /\ q[2] \in DOMAIN Tokens[n]
        /\ p = <<p[1], p[2]>> /\ q = <<q[1], q[2]>>
    OBVIOUS
  <2>3. p[1] = q[1] /\ p[2] = q[2]
    BY <1>2, <2>1, <2>2
  <2> QED
    BY <2>2, <2>3
<1>5. \A t \in Common(m, n) \ {0} : \E ij \in Shared : topic[ij] = t
  <2> SUFFICES ASSUME NEW t \in Common(m, n) \ {0}
               PROVE  \E ij \in Shared : topic[ij] = t
    OBVIOUS
  <2>1. PICK i \in DOMAIN Tokens[m] : Tokens[m][i] = t
    BY DEF Common, Topics
  <2>2. PICK j \in DOMAIN Tokens[n] : Tokens[n][j] = t
    BY DEF Common, Topics
  <2>3. t \notin {0, EmptyToken}
    BY DEF Common, Topics
  <2>4. <<i, j>> \in Shared
    BY <2>1, <2>2, <2>3
  <2> QED
    BY <2>1, <2>4
<1> HIDE DEF Shared
<1>6. ExistsBijection(Shared, Common(m, n) \ {0})
  <2>1. topic \in [Shared -> Common(m, n) \ {0}]
    BY <1>3
  <2> HIDE DEF topic
  <2>2. topic \in Bijection(Shared, Common(m, n) \ {0})
    BY <1>4, <1>5, <2>1 DEF Bijection, Injection, Surjection, IsInjective
  <2> QED
    BY <2>2 DEF ExistsBijection
<1>7. Cardinality(Shared) = Cardinality(Common(m, n) \ {0})
  BY <1>1, <1>6, FS_Bijection
<1> QED
  BY <1>1, <1>7 DEF Shared

(* The categories of a mail whose value is 0: the empty one at the end,    *)
(* and topic 0.                                                            *)
ZeroAt(m) == {i \in DOMAIN Tokens[m] : Value(Tokens[m][i]) = 0}

LEMMA ZerosCounted ==
  ASSUME NEW m \in Mails
  PROVE  IsFiniteSet(ZeroAt(m)) /\ Cardinality(ZeroAt(m)) = Zeros(m)
<1> DEFINE last == Len(Tokens[m])
<1>1. Tokens[m] \in Seq(Nat \union {EmptyToken})
  BY TokensAssumption
<1>2. CASE Tokens[m] = <<>>
  <2>1. ZeroAt(m) = {}
    BY <1>2 DEF ZeroAt
  <2> QED
    BY <1>2, <2>1, FS_EmptySet DEF Zeros
<1>3. CASE Tokens[m] # <<>>
  <2>1. last \in DOMAIN Tokens[m] /\ Tokens[m][last] = EmptyToken
    BY <1>1, <1>3, TaggedAssumption
  <2>2. \A i, j \in DOMAIN Tokens[m] : Tokens[m][i] = Tokens[m][j] => i = j
    BY <1>3, TaggedAssumption DEF IsInjective
  <2>3. \A i \in DOMAIN Tokens[m] : i \in ZeroAt(m) <=> Tokens[m][i] = 0 \/ i = last
    BY <2>1, <2>2 DEF ZeroAt, Value
  <2> HIDE DEF last
  <2>4. CASE 0 \in Topics(m)
    <3>1. PICK i \in DOMAIN Tokens[m] : Tokens[m][i] = 0
      BY <2>4 DEF Topics
    <3>2. ZeroAt(m) = {last} \union {i}
      BY <2>1, <2>2, <2>3, <3>1 DEF ZeroAt
    <3>3. i # last
      BY <2>1, <3>1, EmptyTokenAssumption
    <3>4. IsFiniteSet({last}) /\ Cardinality({last}) = 1
      BY FS_Singleton
    <3>5. IsFiniteSet({last} \union {i}) /\ Cardinality({last} \union {i}) = 1 + 1
      BY <3>3, <3>4, FS_AddElement
    <3>6. Zeros(m) = 2
      BY <1>3, <2>4 DEF Zeros
    <3>7. Cardinality({last} \union {i}) = 2
      BY <3>5
    <3> QED
      BY <3>2, <3>5, <3>6, <3>7, Zenon
  <2>5. CASE 0 \notin Topics(m)
    <3>1. ZeroAt(m) = {last}
      BY <2>1, <2>3, <2>5, EmptyTokenAssumption DEF Topics, ZeroAt
    <3> QED
      BY <1>3, <2>5, <3>1, FS_Singleton DEF Zeros
  <2> QED
    BY <2>4, <2>5
<1> QED
  BY <1>2, <1>3

(* What the two loops over the categories count: the topics but 0 that     *)
(* both mails have, and every pair of categories whose value is 0.         *)
LEMMA ScoreIsShared ==
  ASSUME NEW m \in Mails, NEW n \in Mails
  PROVE  Score(m, n) = Cardinality(Common(m, n) \ {0}) + Zeros(m) * Zeros(n)
<1> DEFINE Pairs == (DOMAIN Tokens[m]) \X (DOMAIN Tokens[n])
           Same == {ij \in Pairs : Value(Tokens[m][ij[1]]) = Value(Tokens[n][ij[2]])}
           Shared == {ij \in Pairs : Tokens[m][ij[1]] = Tokens[n][ij[2]]
                                      /\ Tokens[m][ij[1]] \notin {0, EmptyToken}}
           Zero == ZeroAt(m) \X ZeroAt(n)
<1>1. IsFiniteSet(Shared) /\ Cardinality(Shared) = Cardinality(Common(m, n) \ {0})
  BY SharedTopics
<1>2. IsFiniteSet(Zero) /\ Cardinality(Zero) = Zeros(m) * Zeros(n)
  BY ZerosCounted, FS_Product
<1>3. Same = Shared \union Zero
  <2>1. \A i \in DOMAIN Tokens[m] : \A j \in DOMAIN Tokens[n] :
          Value(Tokens[m][i]) = Value(Tokens[n][j]) <=>
            \/ Tokens[m][i] = Tokens[n][j] /\ Tokens[m][i] \notin {0, EmptyToken}
            \/ i \in ZeroAt(m) /\ j \in ZeroAt(n)
    BY DEF Value, ZeroAt
  <2>2. ZeroAt(m) \subseteq DOMAIN Tokens[m] /\ ZeroAt(n) \subseteq DOMAIN Tokens[n]
    BY DEF ZeroAt
  <2>3. \A ij \in Same : ij \in Shared \union Zero
    BY <2>1
  <2>4. \A ij \in Shared \union Zero : ij \in Same
    BY <2>1, <2>2
  <2> QED
    BY <2>3, <2>4
<1>4. Shared \intersect Zero = {}
  BY DEF ZeroAt, Value
<1>5. Score(m, n) = Cardinality(Same)
  BY DEF Score
<1> HIDE DEF Same, Shared, Zero
<1>6. Cardinality(Same) = Cardinality(Shared) + Cardinality(Zero) - Cardinality({})
  BY <1>1, <1>2, <1>3, <1>4, FS_Union
<1>7. Cardinality(Shared) \in Nat /\ Cardinality(Zero) \in Nat
  BY <1>1, <1>2, FS_CardinalityType
<1>8. Cardinality(Same) = Cardinality(Shared) + Cardinality(Zero)
  BY <1>6, <1>7, FS_EmptySet
<1> QED
  BY <1>1, <1>2, <1>5, <1>8

LEMMA ObjectMail == \A o \in Object : o.mail \in Mails
  BY DEF Object

(***************************************************************************)
(* The inductive invariant.                                                *)
(***************************************************************************)
(* A fresh allMails has been scored against the chosen mail ...            *)
ScoresAreFresh ==
  fresh => /\ detailItem \in Object
           /\ \A o \in Range(List) : o # detailItem => score[o] = Score(o.mail, detailItem.mail)

(* ... and is sorted when the main thread is idle.                         *)
ListIsSorted ==
  Ranked => \A i, j \in DOMAIN List : i < j => InOrder(score[List[i]], score[List[j]])

(* allMails is one answer, in some order.                                  *)
WholeAnswer ==
  allMails # NoList => \E copy \in 1..Copies, answer \in Answers :
    /\ Len(answer) = Len(allMails)
    /\ Range(allMails) = {[copy |-> copy, mail |-> m] : m \in Range(answer)}

(* What a current cell shows is what its row would show now.               *)
CellsAreCurrent ==
  /\ mainStep = "idle" /\ cell.current /\ ~Raises(cell.row) => cell.item = ItemAt(cell.row)
  /\ mainStep = "idle" => \A i \in DOMAIN taps :
       taps[i].current /\ ~Raises(taps[i].row) => taps[i].item = ItemAt(taps[i].row)

(* The rows raise on a list that is too short.                             *)
RaisedOnShortList == app = "raised" => allMails # NoList /\ Len(allMails) < LastRow

IInv ==
  /\ TypeOK
  /\ ScoresAreFresh
  /\ ListIsSorted
  /\ WholeAnswer
  /\ CellsAreCurrent
  /\ RaisedOnShortList

LEMMA ListType == TypeOK => List \in Seq(Object)
  BY DEF TypeOK, List

LEMMA ItemAtType ==
  ASSUME TypeOK, NEW row \in Row, ~Raises(row)
  PROVE  ItemAt(row) \in Item
  BY NumbersAssumption DEF TypeOK, Raises, ItemAt, Item, Row

(* Sorting the property that is there.                                     *)
LEMMA SortedAllMails ==
  ASSUME TypeOK, SortAllMails
  PROVE  /\ allMails' \in Seq(Object) \union {NoList}
         /\ allMails' = NoList <=> allMails = NoList
         /\ allMails # NoList => Len(allMails') = Len(allMails) /\ Range(allMails') = Range(allMails)
         /\ Range(List') = Range(List)
         /\ \A i, j \in DOMAIN List' : i < j => InOrder(score[List'[i]], score[List'[j]])
<1>1. CASE allMails = NoList
  BY <1>1 DEF SortAllMails, List
<1>2. CASE allMails # NoList
  <2>1. allMails \in Seq(Object) /\ allMails' \in Sorted(allMails, score)
    BY <1>2 DEF SortAllMails, TypeOK
  <2>2. /\ allMails' \in Seq(Object)
        /\ Len(allMails') = Len(allMails)
        /\ Range(allMails') = Range(allMails)
        /\ \A i, j \in DOMAIN allMails' : i < j => InOrder(score[allMails'[i]], score[allMails'[j]])
    BY <2>1, SortedList
  <2>3. allMails' # NoList
    BY <2>2, NoListAssumption
  <2> QED
    BY <1>2, <2>2, <2>3 DEF List
<1> QED
  BY <1>1, <1>2

LEMMA OutdatedCell ==
  ASSUME NEW c \in Cell
  PROVE  Outdated(c) \in Cell /\ Outdated(c).current = FALSE
<1>1. c.row \in Row /\ c.item \in Item
  BY DEF Cell
<1>2. Outdated(c) \in Cell
  BY <1>1 DEF Cell, Outdated
<1>3. Outdated(c).current = FALSE
  BY DEF Outdated
<1> QED
  BY <1>2, <1>3

LEMMA OutdatedTypes ==
  ASSUME TypeOK, Outdate
  PROVE  /\ cell' \in Cell /\ cell'.current = FALSE
         /\ taps' \in Seq(Cell) /\ \A i \in DOMAIN taps' : taps'[i].current = FALSE
<1>1. cell \in Cell /\ taps \in Seq(Cell)
  BY DEF TypeOK
<1>2. cell' \in Cell /\ cell'.current = FALSE
  BY <1>1, OutdatedCell DEF Outdate
<1>3. DOMAIN taps = 1..Len(taps) /\ Len(taps) \in Nat /\ \A i \in DOMAIN taps : taps[i] \in Cell
  BY <1>1
<1>4. taps' = [i \in 1..Len(taps) |-> Outdated(taps[i])]
  BY <1>3 DEF Outdate
<1>5. \A i \in 1..Len(taps) : taps'[i] \in Cell /\ taps'[i].current = FALSE
  BY <1>3, <1>4, OutdatedCell
<1>6. taps' \in Seq(Cell)
  BY <1>3, <1>4, <1>5
<1> QED
  BY <1>2, <1>4, <1>5, <1>6

(* A launch.                                                               *)
LEMMA NothingYet ==
  /\ [o \in Object |-> NoScore] \in [Object -> Nat \union {NoScore}]
  /\ NoItem \in Item
  /\ [row |-> 0, item |-> NoItem, current |-> FALSE] \in Cell
  /\ <<>> \in Seq(Cell)
<1>1. 0 \in Row
  BY NumbersAssumption DEF Row
<1>2. NoItem \in Item
  BY DEF Item
<1> QED
  BY <1>1, <1>2 DEF Cell

LEMMA NextTypeOK == TypeOK /\ [Next]_vars => TypeOK'
<1> SUFFICES ASSUME TypeOK, [Next]_vars PROVE TypeOK'
  OBVIOUS
<1>o. Outdate => cell' \in Cell /\ taps' \in Seq(Cell)
  BY OutdatedTypes
<1>1. CASE FillAllMails
  <2>1. PICK copy \in 1..Copies, answer \in Answers :
          allMails' = [i \in DOMAIN answer |-> [copy |-> copy, mail |-> answer[i]]]
    BY <1>1 DEF FillAllMails
  <2>2. answer \in Seq(Mails)
    BY AnswersAssumption
  <2>3. DOMAIN answer = 1..Len(answer) /\ Len(answer) \in Nat /\ \A i \in DOMAIN answer : answer[i] \in Mails
    BY <2>2
  <2>4. \A i \in DOMAIN answer : [copy |-> copy, mail |-> answer[i]] \in Object
    BY <2>3 DEF Object
  <2>5. allMails' \in Seq(Object)
    BY <2>1, <2>3, <2>4
  <2> QED
    BY <1>1, <1>o, <2>5 DEF FillAllMails, TypeOK
<1>2. CASE FillRaces
  BY <1>2 DEF FillRaces, TypeOK
<1>3. ASSUME NEW item \in Object, Choose(item) PROVE TypeOK'
  <2>1. \A o \in Object : Score(o.mail, item.mail) \in Nat
    BY ScoreType, ObjectMail
  <2>2. ScoreMails(item) => score' \in [Object -> Nat \union {NoScore}]
    BY <2>1 DEF ScoreMails, TypeOK
  <2> QED
    BY <1>3, <2>2 DEF Choose, TypeOK, Item
<1>4. CASE SortAllMails
  BY <1>4, <1>o, SortedAllMails DEF SortAllMails, TypeOK
<1>5. ASSUME NEW row \in Row, Draw(row) PROVE TypeOK'
  <2>1. ItemAt(row) \in Item
    BY <1>5, ItemAtType DEF Draw
  <2>2. cell' \in Cell
    BY <1>5, <2>1 DEF Draw, Cell
  <2> QED
    BY <1>5, <2>2 DEF Draw, TypeOK
<1>6. ASSUME NEW row \in Row, DrawRaises(row) PROVE TypeOK'
  BY <1>6 DEF DrawRaises, TypeOK
<1>7. CASE Tap
  BY <1>7 DEF Tap, TypeOK, Cell
<1>8. CASE ShowTapped
  <2>1. Head(taps) \in Cell /\ taps' \in Seq(Cell)
    BY <1>8 DEF ShowTapped, TapIsDue, TypeOK
  <2>2. ItemAt(Head(taps).row) \in Item
    BY <1>8, <2>1, ItemAtType DEF ShowTapped, Cell
  <2>3. shown' \in Item
    BY <1>8, <2>2 DEF ShowTapped, OnScreen, TypeOK
  <2> QED
    BY <1>8, <2>1, <2>3 DEF ShowTapped, TypeOK
<1>9. CASE ShowTappedRaises
  BY <1>9 DEF ShowTappedRaises, TypeOK
<1>10. CASE Relaunch
  BY <1>10, NothingYet DEF Relaunch, TypeOK
<1>11. CASE UNCHANGED vars
  BY <1>11 DEF vars, TypeOK
<1> QED
  BY <1>1, <1>2, <1>3, <1>4, <1>5, <1>6, <1>7, <1>8, <1>9, <1>10, <1>11 DEF Next

LEMMA InitIInv == Init => IInv
<1> SUFFICES ASSUME Init PROVE IInv
  OBVIOUS
<1>1. TypeOK
  BY NothingYet DEF Init, TypeOK
<1> QED
  BY <1>1 DEF Init, IInv, ScoresAreFresh, ListIsSorted, Ranked, WholeAnswer, CellsAreCurrent,
              RaisedOnShortList

(* The steps that leave allMails, the scores and the chosen mail alone.    *)
LEMMA KeepsRanking ==
  ASSUME IInv, UNCHANGED <<allMails, score, detailItem, mainStep, fresh>>
  PROVE  ScoresAreFresh' /\ ListIsSorted' /\ WholeAnswer'
  BY DEF IInv, ScoresAreFresh, ListIsSorted, Ranked, WholeAnswer, List

LEMMA KeepsCells ==
  ASSUME IInv, UNCHANGED <<allMails, detailItem, mainStep, cell, taps>>
  PROVE  CellsAreCurrent'
  BY DEF IInv, CellsAreCurrent, Raises, ItemAt

LEMMA NoneIsCurrent ==
  ASSUME TypeOK, Outdate
  PROVE  CellsAreCurrent'
  BY OutdatedTypes DEF CellsAreCurrent

LEMMA FillIInv == IInv /\ FillAllMails => IInv'
<1> SUFFICES ASSUME IInv, FillAllMails PROVE IInv'
  OBVIOUS
<1>1. TypeOK' /\ TypeOK
  BY NextTypeOK DEF IInv, Next
<1>2. ~fresh'
  BY DEF FillAllMails
<1>3. ScoresAreFresh' /\ ListIsSorted'
  BY <1>2 DEF ScoresAreFresh, ListIsSorted, Ranked
<1>4. PICK copy \in 1..Copies, answer \in Answers :
        allMails' = [i \in DOMAIN answer |-> [copy |-> copy, mail |-> answer[i]]]
  BY DEF FillAllMails
<1>5. answer \in Seq(Mails)
  BY AnswersAssumption
<1>6. DOMAIN answer = 1..Len(answer) /\ Len(answer) \in Nat
  BY <1>5
<1>7. Len(answer) = Len(allMails')
  BY <1>4, <1>6
<1>8. Range(allMails') = {[copy |-> copy, mail |-> m] : m \in Range(answer)}
  BY <1>4 DEF Range
<1>9. WholeAnswer'
  BY <1>7, <1>8 DEF WholeAnswer
<1>10. CellsAreCurrent'
  BY <1>1, NoneIsCurrent DEF FillAllMails
<1>11. RaisedOnShortList'
  BY DEF FillAllMails, RaisedOnShortList
<1> QED
  BY <1>1, <1>3, <1>9, <1>10, <1>11 DEF IInv

LEMMA ChooseIInv == ASSUME NEW item \in Object PROVE IInv /\ Choose(item) => IInv'
<1> SUFFICES ASSUME IInv, Choose(item) PROVE IInv'
  OBVIOUS
<1>1. TypeOK' /\ TypeOK
  BY NextTypeOK DEF IInv, Next
<1>2. CASE item = detailItem
  <2>1. ScoresAreFresh' /\ ListIsSorted' /\ WholeAnswer'
    BY <1>2, KeepsRanking DEF Choose
  <2>2. CellsAreCurrent'
    BY <1>2, KeepsCells DEF Choose
  <2>3. RaisedOnShortList'
    BY DEF Choose, RaisedOnShortList
  <2> QED
    BY <1>1, <2>1, <2>2, <2>3 DEF IInv
<1>3. CASE item # detailItem
  <2>1. detailItem' = item /\ mainStep' = "sorting" /\ UNCHANGED allMails /\ List' = List
    BY <1>3 DEF Choose, List
  <2>2. \A o \in Range(List) : o # item => score'[o] = Score(o.mail, item.mail)
    <3>1. Range(List) \subseteq Object
      BY <1>1, ListType DEF Range
    <3> QED
      BY <1>3, <3>1 DEF Choose, ScoreMails
  <2>3. ScoresAreFresh'
    BY <2>1, <2>2 DEF ScoresAreFresh
  <2>4. ListIsSorted' /\ CellsAreCurrent'
    BY <2>1 DEF ListIsSorted, Ranked, CellsAreCurrent
  <2>5. WholeAnswer' /\ RaisedOnShortList'
    BY <2>1 DEF IInv, WholeAnswer, Choose, RaisedOnShortList
  <2> QED
    BY <1>1, <2>3, <2>4, <2>5 DEF IInv
<1> QED
  BY <1>2, <1>3

LEMMA SortIInv == IInv /\ SortAllMails => IInv'
<1> SUFFICES ASSUME IInv, SortAllMails PROVE IInv'
  OBVIOUS
<1>1. TypeOK' /\ TypeOK
  BY NextTypeOK DEF IInv, Next
<1>2. UNCHANGED <<app, score, detailItem, fresh>> /\ app = "running"
  BY DEF SortAllMails
<1>3. ScoresAreFresh'
  BY <1>1, <1>2, SortedAllMails DEF IInv, ScoresAreFresh
<1>4. ListIsSorted'
  BY <1>1, <1>2, SortedAllMails DEF ListIsSorted
<1>5. WholeAnswer'
  BY <1>1, SortedAllMails DEF IInv, WholeAnswer
<1>6. CellsAreCurrent'
  BY <1>1, NoneIsCurrent DEF SortAllMails
<1>7. RaisedOnShortList'
  BY <1>2 DEF RaisedOnShortList
<1> QED
  BY <1>1, <1>3, <1>4, <1>5, <1>6, <1>7 DEF IInv

LEMMA DrawIInv == ASSUME NEW row \in Row PROVE IInv /\ Draw(row) => IInv'
<1> SUFFICES ASSUME IInv, Draw(row) PROVE IInv'
  OBVIOUS
<1>1. TypeOK'
  BY NextTypeOK DEF IInv, Next
<1>2. ScoresAreFresh' /\ ListIsSorted' /\ WholeAnswer'
  BY KeepsRanking DEF Draw
<1>3. CellsAreCurrent'
  BY DEF Draw, IInv, CellsAreCurrent, Raises, ItemAt
<1>4. RaisedOnShortList'
  BY DEF Draw, RaisedOnShortList
<1> QED
  BY <1>1, <1>2, <1>3, <1>4 DEF IInv

LEMMA TapIInv == IInv /\ (Tap \/ ShowTapped) => IInv'
<1> SUFFICES ASSUME IInv, Tap \/ ShowTapped PROVE IInv'
  OBVIOUS
<1>1. TypeOK' /\ TypeOK
  BY NextTypeOK DEF IInv, Next
<1>2. UNCHANGED <<app, allMails, score, detailItem, mainStep, fresh, cell>> /\ app = "running"
  BY DEF Tap, ShowTapped, TapIsDue
<1>3. ScoresAreFresh' /\ ListIsSorted' /\ WholeAnswer'
  BY <1>2, KeepsRanking
<1>4. \A i \in DOMAIN taps' : taps'[i] = cell \/ \E j \in DOMAIN taps : taps'[i] = taps[j]
  <2>1. taps \in Seq(Cell)
    BY <1>1 DEF TypeOK
  <2>2. CASE Tap
    BY <2>1, <2>2 DEF Tap
  <2>3. CASE ShowTapped
    <3>1. taps # <<>> /\ taps' = Tail(taps)
      BY <2>3 DEF ShowTapped, TapIsDue
    <3>2. \A i \in DOMAIN taps' : i + 1 \in DOMAIN taps /\ taps'[i] = taps[i + 1]
      BY <2>1, <3>1
    <3> QED
      BY <3>2
  <2> QED
    BY <2>2, <2>3
<1>5. CellsAreCurrent'
  BY <1>2, <1>4 DEF IInv, CellsAreCurrent, Raises, ItemAt
<1>6. RaisedOnShortList'
  BY <1>2 DEF RaisedOnShortList
<1> QED
  BY <1>1, <1>3, <1>5, <1>6 DEF IInv

(* The application ends or stays as it is.                                 *)
LEMMA EndIInv ==
  ASSUME IInv, UNCHANGED <<allMails, score, detailItem, mainStep, fresh, shown, asked, cell, taps>>,
         \/ app' = app
         \/ app' = "raced"
         \/ app' = "raised" /\ \E row \in Row : Raises(row)
  PROVE  IInv'
<1>1. TypeOK'
  BY DEF IInv, TypeOK
<1>2. ScoresAreFresh' /\ ListIsSorted' /\ WholeAnswer' /\ CellsAreCurrent'
  BY KeepsRanking, KeepsCells
<1>3. RaisedOnShortList'
  <2>1. \A row \in Row : Raises(row) => allMails # NoList /\ Len(allMails) < LastRow
    <3> SUFFICES ASSUME NEW row \in Row, Raises(row)
                 PROVE  allMails # NoList /\ Len(allMails) < LastRow
      OBVIOUS
    <3>1. allMails \in Seq(Object)
      BY DEF IInv, TypeOK, Raises
    <3> QED
      BY <3>1, NumbersAssumption DEF Raises, Row
  <2> QED
    BY <2>1 DEF IInv, RaisedOnShortList
<1> QED
  BY <1>1, <1>2, <1>3 DEF IInv

LEMMA RelaunchIInv == IInv /\ Relaunch => IInv'
<1> SUFFICES ASSUME IInv, Relaunch PROVE IInv'
  OBVIOUS
<1>1. TypeOK'
  BY NextTypeOK DEF IInv, Next
<1> QED
  BY <1>1 DEF Relaunch, IInv, ScoresAreFresh, ListIsSorted, Ranked, WholeAnswer, CellsAreCurrent,
              RaisedOnShortList

LEMMA NextIInv == IInv /\ [Next]_vars => IInv'
<1> SUFFICES ASSUME IInv, [Next]_vars PROVE IInv'
  OBVIOUS
<1>1. CASE FillAllMails
  BY <1>1, FillIInv
<1>2. CASE FillRaces
  BY <1>2, EndIInv DEF FillRaces
<1>3. CASE \E item \in Object : Choose(item)
  BY <1>3, ChooseIInv
<1>4. CASE SortAllMails
  BY <1>4, SortIInv
<1>5. CASE \E row \in Row : Draw(row)
  BY <1>5, DrawIInv
<1>6. CASE \E row \in Row : DrawRaises(row)
  BY <1>6, EndIInv DEF DrawRaises
<1>7. CASE Tap \/ ShowTapped
  BY <1>7, TapIInv
<1>8. CASE ShowTappedRaises
  <2>1. taps \in Seq(Cell) /\ taps # <<>>
    BY <1>8 DEF IInv, TypeOK, ShowTappedRaises, TapIsDue
  <2>2. Head(taps) \in Cell
    BY <2>1
  <2>3. Head(taps).row \in Row
    BY <2>2 DEF Cell
  <2> QED
    BY <1>8, <2>3, EndIInv DEF ShowTappedRaises
<1>9. CASE Relaunch
  BY <1>9, RelaunchIInv
<1>10. CASE UNCHANGED vars
  BY <1>10, EndIInv DEF vars
<1> QED
  BY <1>1, <1>2, <1>3, <1>4, <1>5, <1>6, <1>7, <1>8, <1>9, <1>10 DEF Next

LEMMA Invariant == Spec => []IInv
  BY InitIInv, NextIInv, PTL DEF Spec

(***************************************************************************)
(* The theorems.                                                           *)
(***************************************************************************)
(* Every variable keeps its type.                                          *)
THEOREM TypeCorrect == Spec => []TypeOK
<1>1. IInv => TypeOK
  BY DEF IInv
<1> QED
  BY <1>1, Invariant, PTL

(* The order of the recommendations, for any number of mails, answers and  *)
(* scorings: no old score is left on a mail, nor a mail without one.       *)
THEOREM Resemblance == Spec => []RankedByResemblance
<1>1. IInv => RankedByResemblance
  <2> SUFFICES ASSUME IInv, Ranked, NEW i \in DOMAIN List, NEW j \in DOMAIN List,
                      i < j, detailItem \notin {List[i], List[j]}
               PROVE  Score(List[i].mail, detailItem.mail) >= Score(List[j].mail, detailItem.mail)
    BY DEF RankedByResemblance
  <2>1. List[i] \in Range(List) /\ List[j] \in Range(List)
    BY DEF Range
  <2>2. /\ detailItem \in Object
        /\ score[List[i]] = Score(List[i].mail, detailItem.mail)
        /\ score[List[j]] = Score(List[j].mail, detailItem.mail)
    BY <2>1 DEF IInv, ScoresAreFresh, Ranked
  <2>3. List[i] \in Object /\ List[j] \in Object
    BY ListType DEF IInv
  <2>4. Score(List[i].mail, detailItem.mail) \in Nat /\ Score(List[j].mail, detailItem.mail) \in Nat
    BY <2>2, <2>3, ScoreType, ObjectMail
  <2>5. InOrder(score[List[i]], score[List[j]])
    BY DEF IInv, ListIsSorted
  <2> QED
    BY <2>2, <2>4, <2>5, NilAssumption DEF InOrder
<1> QED
  BY <1>1, Invariant, PTL

(* What a mail ends with, for all categories TopicModel can write: the     *)
(* topics it shares with the chosen mail, and what the empty category      *)
(* behind the last ";" adds, which counts as topic 0.                      *)
THEOREM ScoreCounts == Spec => []ScoreCountsTopics
<1>1. IInv => ScoreCountsTopics
  <2> SUFFICES ASSUME IInv, Ranked, NEW o \in Range(List) \ {detailItem}
               PROVE  score[o] = Cardinality(Common(o.mail, detailItem.mail) \ {0})
                                 + Zeros(o.mail) * Zeros(detailItem.mail)
    BY DEF ScoreCountsTopics
  <2>1. detailItem \in Object /\ score[o] = Score(o.mail, detailItem.mail)
    BY DEF IInv, ScoresAreFresh, Ranked
  <2>2. o \in Object
    BY ListType DEF IInv, Range
  <2> QED
    BY <2>1, <2>2, ScoreIsShared, ObjectMail
<1> QED
  BY <1>1, Invariant, PTL

(* Scoring and sorting never make the table raise: only an answer of too   *)
(* few mails does.                                                         *)
THEOREM RaisesOnShort == Spec => []CrashesOnlyOnShortAnswer
<1>1. IInv => CrashesOnlyOnShortAnswer
  <2> SUFFICES ASSUME IInv, app = "raised"
               PROVE  \E copy \in 1..Copies, answer \in Answers :
                        /\ Len(answer) < LastRow
                        /\ Range(List) = {[copy |-> copy, mail |-> m] : m \in Range(answer)}
    BY DEF CrashesOnlyOnShortAnswer
  <2>1. allMails # NoList /\ Len(allMails) < LastRow
    BY DEF IInv, RaisedOnShortList
  <2>2. \E copy \in 1..Copies, answer \in Answers :
          /\ Len(answer) = Len(allMails)
          /\ Range(allMails) = {[copy |-> copy, mail |-> m] : m \in Range(answer)}
    BY <2>1 DEF IInv, WholeAnswer
  <2> QED
    BY <2>1, <2>2 DEF List
<1> QED
  BY <1>1, Invariant, PTL

(* A touch that nothing has overtaken shows the mail that was on its row.  *)
THEOREM TapShows == Spec => TapShowsItsCell
<1>1. IInv /\ [Next]_vars =>
        [ShowTapped /\ Head(taps).current => shown' = OnScreen(Head(taps).item)]_vars
  <2> SUFFICES ASSUME IInv, ShowTapped, Head(taps).current
               PROVE  shown' = OnScreen(Head(taps).item)
    OBVIOUS
  <2>1. taps \in Seq(Cell) /\ taps # <<>> /\ mainStep = "idle"
    BY DEF IInv, TypeOK, ShowTapped, TapIsDue
  <2>2. 1 \in DOMAIN taps /\ Head(taps) = taps[1]
    BY <2>1
  <2>3. Head(taps).item = ItemAt(Head(taps).row)
    BY <2>1, <2>2 DEF IInv, CellsAreCurrent, ShowTapped
  <2> QED
    BY <2>3 DEF ShowTapped
<1> QED
  BY <1>1, Invariant, PTL DEF Spec, TapShowsItsCell
=============================================================================
