--------------------------- MODULE Recommendation ---------------------------
(***************************************************************************)
(* The recommendations of DetailViewController: every mail in allMails is  *)
(* scored by the categories it shares with the chosen mail, allMails is    *)
(* sorted, and a table of a fixed number of rows shows the chosen mail     *)
(* (row 0) and then allMails.  A row is drawn some time after the table is *)
(* told to reload; a touch on it sends a block that looks the mail up      *)
(* again.  allMails is filled by the background thread of an answer, which *)
(* can happen twice when two answers come together (see MailClient).       *)
(***************************************************************************)
EXTENDS Integers, FiniteSets, SequencesExt

CONSTANTS
  Stored,      \* the mails of the Solr index, in the order of the date sort
  Tokens,      \* per mail, its categories field split at ";" (see Value)
  EmptyToken,  \* the empty string after the last ";" of that field
  Answers,     \* what requests are answered with: subsequences of Stored
  Copies,      \* the number of answers, each a new set of objects
  LastRow,     \* the table has the rows 0..LastRow: LastRow = 14 in the code
  NoItem,      \* nil, for an email
  NoScore,     \* nil, for the score of an email
  NoList,      \* nil, for allMails
  MaxTaps      \* bound: blocks of touched rows on their way

Mails == Range(Stored)

ASSUME AnswersAssumption == Answers \subseteq Seq(Mails)
ASSUME TokensAssumption == Tokens \in [Mails -> Seq(Nat \union {EmptyToken})]
ASSUME EmptyTokenAssumption == EmptyToken \notin Nat
(* TopicModel writes each topic of a mail once and ";" behind it; a mail   *)
(* it has not tagged has no field.                                         *)
ASSUME TaggedAssumption ==
  \A m \in Mails : Tokens[m] # <<>> =>
    IsInjective(Tokens[m]) /\ Tokens[m][Len(Tokens[m])] = EmptyToken
ASSUME NumbersAssumption == Copies \in Nat /\ LastRow \in Nat /\ MaxTaps \in Nat
ASSUME NilAssumption == NoScore \notin Nat

Object == [copy : 1..Copies, mail : Mails]

ASSUME NoItemAssumption == NoItem \notin Object
ASSUME NoListAssumption == NoList \notin Seq(Object)

Row == 0..LastRow

VARIABLES
  app,        \* "running", "raised" by an exception, or "raced" to its end
  allMails,   \* the mutable array the recommendations are made of
  score,      \* the property score of every object
  detailItem, \* the chosen mail
  mainStep,   \* "idle", or "sorting" between the loop and the sort
  fresh,      \* is allMails the array, and as sorted, of the last scoring?
  shown,      \* the mail on the screen
  asked,      \* the mail the user touched last, in the list or the table
  cell,       \* the cell of the row the user looks at
  taps        \* the blocks of touched rows, with the cell as it was touched

vars == <<app, allMails, score, detailItem, mainStep, fresh, shown, asked, cell, taps>>

Item == Object \union {NoItem}

(* The mail a row shows, and whether it was drawn since allMails was last  *)
(* filled or sorted.                                                       *)
Cell == [row : Row, item : Item, current : BOOLEAN]

(***************************************************************************)
(* Scoring.                                                                *)
(***************************************************************************)
(* integerValue.                                                           *)
Value(token) == IF token = EmptyToken THEN 0 ELSE token

(* Faulty variant: each category of the one mail is found at most once.    *)
ScoreOncePerToken(m, n) ==
  Cardinality({i \in DOMAIN Tokens[m] :
                 \E j \in DOMAIN Tokens[n] : Value(Tokens[m][i]) = Value(Tokens[n][j])})

(* The two loops over the categories of a mail and of the chosen one.      *)
Score(m, n) ==
  Cardinality({ij \in (DOMAIN Tokens[m]) \X (DOMAIN Tokens[n]) :
                 Value(Tokens[m][ij[1]]) = Value(Tokens[n][ij[2]])})

(* Descending, and nil is less than every number.                          *)
InOrder(a, b) == b = NoScore \/ (a # NoScore /\ a >= b)

(* Faulty variant: a mail without a score is left out.                     *)
SortedScoredOnly(list, scores) ==
  LET scored == SelectSeq(list, LAMBDA o : scores[o] # NoScore) IN
  {sorted \in {[i \in DOMAIN scored |-> scored[p[i]]] :
                 p \in Bijection(DOMAIN scored, DOMAIN scored)} :
     \A i, j \in DOMAIN scored : i < j => InOrder(scores[sorted[i]], scores[sorted[j]])}

(* sortUsingDescriptors says nothing of mails with one score.              *)
Sorted(list, scores) ==
  {sorted \in {[i \in DOMAIN list |-> list[p[i]]] : p \in Bijection(DOMAIN list, DOMAIN list)} :
     \A i, j \in DOMAIN list : i < j => InOrder(scores[sorted[i]], scores[sorted[j]])}

TypeOK ==
  /\ app \in {"running", "raised", "raced"}
  /\ allMails \in Seq(Object) \union {NoList}
  /\ score \in [Object -> Nat \union {NoScore}]
  /\ detailItem \in Item
  /\ mainStep \in {"idle", "sorting"}
  /\ fresh \in BOOLEAN
  /\ shown \in Item
  /\ asked \in Item
  /\ cell \in Cell
  /\ taps \in Seq(Cell)

Init ==
  /\ app = "running"
  /\ allMails = NoList
  /\ score = [o \in Object |-> NoScore]
  /\ detailItem = NoItem
  /\ mainStep = "idle"
  /\ fresh = FALSE
  /\ shown = NoItem
  /\ asked = NoItem
  /\ cell = [row |-> 0, item |-> NoItem, current |-> FALSE]
  /\ taps = <<>>

List == IF allMails = NoList THEN <<>> ELSE allMails

Outdated(c) == [row |-> c.row, item |-> c.item, current |-> FALSE]

(* What was drawn, and what was touched, is out of date.                   *)
Outdate ==
  /\ cell' = Outdated(cell)
  /\ taps' = [i \in DOMAIN taps |-> Outdated(taps[i])]

(* The background thread of an answer.                                     *)
FillAllMails ==
  /\ app = "running"
  /\ \E copy \in 1..Copies, answer \in Answers :
        allMails' = [i \in DOMAIN answer |-> [copy |-> copy, mail |-> answer[i]]]
  /\ fresh' = FALSE
  /\ Outdate
  /\ UNCHANGED <<app, score, detailItem, mainStep, shown, asked>>

(* The nonatomic property is set while the main thread is reading it: the  *)
(* old array may be gone.                                                  *)
FillRaces ==
  /\ app = "running" /\ allMails # NoList
  /\ app' = "raced"
  /\ UNCHANGED <<allMails, score, detailItem, mainStep, fresh, shown, asked, cell, taps>>

(***************************************************************************)
(* The main thread.                                                        *)
(***************************************************************************)
(* Faulty variant: a mail is scored once.                                  *)
ScoreMailsOnce(item) ==
  score' = [o \in Object |-> IF o \in Range(List) /\ o # item /\ score[o] = NoScore
                             THEN Score(o.mail, item.mail) ELSE score[o]]

(* The loop of scoringFuncion: a mail is passed over when its identifier   *)
(* is the very object of the chosen mail's.                                *)
ScoreMails(item) ==
  score' = [o \in Object |-> IF o \in Range(List) /\ o # item
                             THEN Score(o.mail, item.mail) ELSE score[o]]

(* setDetailItem with a mail of any answer, configureView and the loop of  *)
(* scoringFuncion: the same object changes nothing.                        *)
Choose(item) ==
  /\ app = "running" /\ mainStep = "idle"
  /\ asked' = item
  /\ \/ /\ item = detailItem
        /\ UNCHANGED <<detailItem, shown, score, mainStep, fresh>>
     \/ /\ item # detailItem
        /\ detailItem' = item
        /\ shown' = item
        /\ ScoreMails(item)
        /\ mainStep' = "sorting"
        /\ fresh' = TRUE
  /\ UNCHANGED <<app, allMails, cell, taps>>

(* The sort reads the property again.  reloadData has the rows drawn anew, *)
(* later.                                                                  *)
SortAllMails ==
  /\ app = "running" /\ mainStep = "sorting"
  /\ \/ allMails = NoList /\ UNCHANGED allMails
     \/ allMails # NoList /\ allMails' \in Sorted(allMails, score)
  /\ mainStep' = "idle"
  /\ Outdate
  /\ UNCHANGED <<app, score, detailItem, fresh, shown, asked>>

(* objectAtIndex raises beyond the end of an array; nil has nil at every   *)
(* index.                                                                  *)
Raises(row) == allMails # NoList /\ row > Len(allMails)

ItemAt(row) ==
  IF row = 0 THEN detailItem ELSE IF allMails = NoList THEN NoItem ELSE allMails[row]

(* Faulty variant: row 0 is not counted.                                   *)
DrawBelow(row) ==
  /\ app = "running" /\ mainStep = "idle"
  /\ ~Raises(row)
  /\ cell' = [row |-> row + 1, item |-> ItemAt(row), current |-> TRUE]
  /\ UNCHANGED <<app, allMails, score, detailItem, mainStep, fresh, shown, asked, taps>>

(* cellForRowAtIndexPath, after a reload or when the row scrolls in.       *)
Draw(row) ==
  /\ app = "running" /\ mainStep = "idle"
  /\ ~Raises(row)
  /\ cell' = [row |-> row, item |-> ItemAt(row), current |-> TRUE]
  /\ UNCHANGED <<app, allMails, score, detailItem, mainStep, fresh, shown, asked, taps>>

DrawRaises(row) ==
  /\ app = "running" /\ mainStep = "idle"
  /\ Raises(row)
  /\ app' = "raised"
  /\ UNCHANGED <<allMails, score, detailItem, mainStep, fresh, shown, asked, cell, taps>>

(* didSelectRowAtIndexPath sends a block.                                  *)
Tap ==
  /\ app = "running" /\ mainStep = "idle"
  /\ Len(taps) < MaxTaps
  /\ taps' = Append(taps, cell)
  /\ asked' = IF cell.item = NoItem THEN asked ELSE cell.item
  /\ UNCHANGED <<app, allMails, score, detailItem, mainStep, fresh, shown, cell>>

TapIsDue == app = "running" /\ mainStep = "idle" /\ taps # <<>>

(* showEmail does nothing with nil.                                        *)
OnScreen(item) == IF item = NoItem THEN shown ELSE item

(* Faulty variant: row 0 is forgotten.                                     *)
ShowTappedNext ==
  /\ TapIsDue
  /\ ~Raises(Head(taps).row + 1)
  /\ shown' = OnScreen(ItemAt(Head(taps).row + 1))
  /\ taps' = Tail(taps)
  /\ UNCHANGED <<app, allMails, score, detailItem, mainStep, fresh, asked, cell>>

(* The block.                                                              *)
ShowTapped ==
  /\ TapIsDue
  /\ ~Raises(Head(taps).row)
  /\ shown' = OnScreen(ItemAt(Head(taps).row))
  /\ taps' = Tail(taps)
  /\ UNCHANGED <<app, allMails, score, detailItem, mainStep, fresh, asked, cell>>

ShowTappedRaises ==
  /\ TapIsDue
  /\ Raises(Head(taps).row)
  /\ app' = "raised"
  /\ UNCHANGED <<allMails, score, detailItem, mainStep, fresh, shown, asked, cell, taps>>

(* The application is started again.                                       *)
Relaunch ==
  /\ app # "running"
  /\ app' = "running"
  /\ allMails' = NoList
  /\ score' = [o \in Object |-> NoScore]
  /\ detailItem' = NoItem
  /\ fresh' = FALSE
  /\ shown' = NoItem
  /\ asked' = NoItem
  /\ cell' = [row |-> 0, item |-> NoItem, current |-> FALSE]
  /\ taps' = <<>>
  /\ mainStep' = "idle"

Next ==
  \/ FillAllMails \/ FillRaces
  \/ \E item \in Object : Choose(item)
  \/ SortAllMails
  \/ \E row \in Row : Draw(row) \/ DrawRaises(row)
  \/ Tap
  \/ ShowTapped \/ ShowTappedRaises
  \/ Relaunch

Spec == Init /\ [][Next]_vars

-----------------------------------------------------------------------------
Topics(m) == {Tokens[m][i] : i \in DOMAIN Tokens[m]} \ {EmptyToken}
Common(m, n) == Topics(m) \intersect Topics(n)

(* Topic 0 and the empty token have one value.                             *)
Zeros(m) == IF Tokens[m] = <<>> THEN 0 ELSE IF 0 \in Topics(m) THEN 2 ELSE 1

(* The scores of the last scoring are still those of the array it sorted.  *)
Ranked == mainStep = "idle" /\ fresh

(* What a mail ends with, whatever it was scored against before, is, on    *)
(* categories as TopicModel writes them, the number of topics it shares    *)
(* with the chosen mail, and 1, 2 or 4 instead of topic 0, also when one   *)
(* of the two, or neither, has it.                                         *)
ScoreCountsTopics ==
  Ranked => \A o \in Range(List) \ {detailItem} :
    score[o] = Cardinality(Common(o.mail, detailItem.mail) \ {0})
               + Zeros(o.mail) * Zeros(detailItem.mail)

(* Whatever was chosen and scored before, of this answer or of another,    *)
(* the mails but the chosen one are in the order of their resemblance to   *)
(* it: no old score is left on any of them.                                *)
RankedByResemblance ==
  Ranked => \A i, j \in DOMAIN List :
    i < j /\ detailItem \notin {List[i], List[j]} =>
      Score(List[i].mail, detailItem.mail) >= Score(List[j].mail, detailItem.mail)

(* No history of scorings and fillings makes a row raise but an answer of  *)
(* too few mails for the table: sorting keeps every mail.                  *)
CrashesOnlyOnShortAnswer ==
  app = "raised" => \E copy \in 1..Copies, answer \in Answers :
    /\ Len(answer) < LastRow
    /\ Range(List) = {[copy |-> copy, mail |-> m] : m \in Range(answer)}

(* A touched row shows the mail that was on it, however late its block     *)
(* runs, unless allMails was filled or sorted since it was drawn.          *)
TapShowsItsCell ==
  [][ShowTapped /\ Head(taps).current => shown' = OnScreen(Head(taps).item)]_vars

(* "Update the view": a mail chosen in the list is shown.                  *)
ChosenIsShown == [][\A item \in Object : Choose(item) => shown' = item]_vars
=============================================================================
