--------------------------- MODULE MailClientProofs ---------------------------
(***************************************************************************)
(* Proofs about MailClient, for any number of requests, mails and blocks   *)
(* and every order of answers, handlers, blocks and choices.               *)
(***************************************************************************)
EXTENDS MailClient, TLAPS

(* Before the first answer there are no mails.                             *)
TypeInv == TypeOK /\ (emails.req = 0 => emails.mails = <<>>)

LEMMA StoredType == Stored \in Seq(Mails)
BY StoredAssumption DEF Mails

LEMMA AnswersType == ASSUME NEW kind PROVE Answers(kind) \subseteq Seq(Mails)
<1>1. BoundedSeq(Mails, Len(Stored)) \subseteq Seq(Mails)
  BY StoredType DEF BoundedSeq, SeqOf
<1>2. CASE kind = "all"
  <2>1. Answers(kind) = {Stored, <<>>}
    BY <1>2 DEF Answers
  <2> QED  BY <2>1, StoredType
<1>3. CASE kind # "all"
  <2>1. Answers(kind) \subseteq BoundedSeq(Mails, Len(Stored))
    BY <1>3 DEF Answers
  <2> QED  BY <1>1, <2>1
<1> QED  BY <1>2, <1>3

LEMMA SentType ==
  ASSUME NEW kind \in Kind, NEW open \in SUBSET Nat PROVE Sent(kind, open) \in Request
BY DEF Sent, Request, Status

LEMMA EndType == ASSUME NEW how \in {"crashed", "closed"}, End(how) PROVE TypeInv'
<1>1. Sent("all", {}) \in Request
  BY SentType DEF Kind
<1>2. requests' \in Seq(Request) /\ Len(requests') <= MaxRequests
  BY <1>1, BoundsAssumption DEF End
<1>3. emails' \in List
  BY BoundsAssumption DEF End, Nothing, List
<1> QED  BY <1>2, <1>3 DEF End, Nothing, TypeInv, TypeOK, MainStep

LEMMA GoType ==
  ASSUME TypeOK, NEW r \in DOMAIN requests, NEW status \in Status, Go(r, status)
  PROVE  requests' \in Seq(Request) /\ Len(requests') = Len(requests)
<1>1. requests \in Seq(Request)
  BY DEF TypeOK
<1>2. requests[r] \in Request
  BY <1>1
<1>3. [requests[r] EXCEPT !.status = status] \in Request
  BY <1>2 DEF Request
<1> QED  BY <1>1, <1>3 DEF Go

LEMMA ObjectsType ==
  ASSUME TypeInv PROVE Objects(emails) \subseteq Object
<1>1. emails.req \in 0..MaxRequests /\ emails.mails \in Seq(Mails)
  BY DEF TypeInv, TypeOK, List
<1>2. Range(emails.mails) \subseteq Mails
  BY <1>1 DEF Range
<1>3. emails.req = 0 => Range(emails.mails) = {}
  BY DEF TypeInv, Range
<1> QED  BY <1>1, <1>2, <1>3, BoundsAssumption DEF Objects, Object

LEMMA ObjectAtType ==
  ASSUME TypeInv, NEW i \in 1..Len(emails.mails)
  PROVE  ObjectAt(emails, i) \in Objects(emails)
<1>1. emails.mails \in Seq(Mails)
  BY DEF TypeInv, TypeOK, List
<1>2. emails.mails[i] \in Range(emails.mails)
  BY <1>1 DEF Range
<1> QED  BY <1>2 DEF ObjectAt, Objects

LEMMA SetDetailType ==
  ASSUME TypeInv, NEW object \in Object, SetDetailItem(object)
  PROVE  /\ detailItem' \in Object
         /\ mainQueue' \in Seq(Block)
         /\ mainStep' \in MainStep
<1>1. mainQueue \in Seq(Block)
  BY DEF TypeInv, TypeOK
<1>2. Append(mainQueue, "showHUD") \in Seq(Block)
  BY <1>1 DEF Block
<1>3. mainQueue' \in Seq(Block)
  BY <1>1, <1>2 DEF SetDetailItem
<1>4. detailItem' \in Object
  BY DEF SetDetailItem
<1>5. mainStep' \in MainStep
  BY DEF SetDetailItem, MainStep
<1> QED  BY <1>3, <1>4, <1>5

LEMMA TailType ==
  ASSUME TypeOK, NEW block, IsNextBlock(block) PROVE Tail(mainQueue) \in Seq(Block)
BY DEF TypeOK, IsNextBlock

LEMMA InitTypeInv == Init => TypeInv
<1> SUFFICES ASSUME Init PROVE TypeInv
  OBVIOUS
<1>1. Sent("all", {}) \in Request
  BY SentType DEF Kind
<1>2. requests \in Seq(Request) /\ Len(requests) <= MaxRequests
  BY <1>1, BoundsAssumption DEF Init
<1>3. emails \in List
  BY BoundsAssumption DEF Init, Nothing, List
<1> QED  BY <1>2, <1>3 DEF Init, Nothing, TypeInv, TypeOK, MainStep

LEMMA HandlerTypeInv ==
  ASSUME TypeInv, NEW r \in DOMAIN requests, Answer(r) \/ Fail(r) \/ HandlerStep(r)
  PROVE  TypeInv'
<1>0. requests \in Seq(Request) /\ r \in 1..MaxRequests /\ requests[r] \in Request
  BY BoundsAssumption DEF TypeInv, TypeOK
<1> USE DEF TypeInv, TypeOK, Status
<1>1. CASE Answer(r)
  <2>1. PICK answer \in Answers(requests[r].kind) :
          requests' = [requests EXCEPT ![r] = [@ EXCEPT !.status = "storing", !.answer = answer]]
    BY <1>1 DEF Answer
  <2>2. answer \in Seq(Mails)
    BY AnswersType
  <2>4. [requests[r] EXCEPT !.status = "storing", !.answer = answer] \in Request
    BY <1>0, <2>2 DEF Request
  <2>5. requests' \in Seq(Request) /\ Len(requests') = Len(requests)
    BY <1>0, <2>1, <2>4
  <2> QED  BY <1>1, <2>5 DEF Answer
<1>2. CASE Fail(r)
  BY <1>2, GoType DEF Fail
<1>3. CASE StoreEmails(r)
  <2>1. emails' \in List /\ emails'.req # 0
    BY <1>0, <1>3, BoundsAssumption DEF StoreEmails, List, Request
  <2>2. requests' \in Seq(Request) /\ Len(requests') = Len(requests)
    BY <1>3, GoType DEF StoreEmails
  <2> QED  BY <1>3, <2>1, <2>2 DEF StoreEmails
<1>4. CASE CheckAllMails(r)
  BY <1>4, GoType DEF CheckAllMails
<1>5. CASE FillAllMails(r)
  <2>1. requests' \in Seq(Request) /\ Len(requests') = Len(requests)
    BY <1>5, GoType DEF FillAllMails
  <2>2. allMails' \in SUBSET Object
    BY <1>5, ObjectsType DEF FillAllMails
  <2> QED  BY <1>5, <2>1, <2>2 DEF FillAllMails
<1>6. CASE DispatchReload(r)
  <2>1. requests' \in Seq(Request) /\ Len(requests') = Len(requests)
    BY <1>6, GoType DEF DispatchReload
  <2>2. mainQueue' \in Seq(Block)
    BY <1>6 DEF DispatchReload, Block
  <2> QED  BY <1>6, <2>1, <2>2 DEF DispatchReload
<1> QED  BY <1>1, <1>2, <1>3, <1>4, <1>5, <1>6 DEF HandlerStep

LEMMA MainTypeInv ==
  ASSUME TypeInv, MainThreadStep PROVE TypeInv'
<1>0. Len(emails.mails) \in Nat
  BY DEF TypeInv, TypeOK, List
<1> USE DEF TypeInv, TypeOK
<1>1. CASE FinishConfiguring
  <2>1. mainQueue' \in Seq(Block)
    BY <1>1 DEF FinishConfiguring, Block
  <2> QED  BY <1>1, <2>1 DEF FinishConfiguring, MainStep
<1>2. CASE Reload
  BY <1>0, <1>2, TailType DEF Reload, MainStep
<1>3. CASE ShowFirst
  <2>1. ObjectAt(emails, 1) \in Object
    BY <1>0, <1>3, ObjectsType, ObjectAtType DEF ShowFirst, List
  <2> QED  BY <1>3, <2>1, SetDetailType DEF ShowFirst
<1>4. CASE ShowFirstRaises
  BY <1>4, EndType DEF ShowFirstRaises, Crash
<1>5. CASE ShowHUD
  BY <1>5, TailType DEF ShowHUD
<1>6. CASE HideHUD
  BY <1>6, TailType DEF HideHUD
<1> QED  BY <1>1, <1>2, <1>3, <1>4, <1>5, <1>6 DEF MainThreadStep

LEMMA UserTypeInv ==
  ASSUME TypeInv, UserStep PROVE TypeInv'
<1> USE DEF TypeInv, TypeOK
<1>1. CASE SendRequest
  <2>1. PICK kind \in Kind : requests' = Append(requests, Sent(kind, Open))
    BY <1>1 DEF SendRequest
  <2>2. Sent(kind, Open) \in Request /\ requests \in Seq(Request)
    BY SentType DEF Open
  <2>3. requests' \in Seq(Request) /\ Len(requests') <= MaxRequests
    BY <1>1, <2>1, <2>2, BoundsAssumption DEF SendRequest
  <2> QED  BY <1>1, <2>3 DEF SendRequest
<1>2. CASE SelectRow
  <2>1. PICK row \in 1..rows : row <= Len(emails.mails) /\ SetDetailItem(ObjectAt(emails, row))
    BY <1>2 DEF SelectRow
  <2>2. row \in 1..Len(emails.mails)
    BY <2>1 DEF List
  <2>3. ObjectAt(emails, row) \in Object
    BY <2>2, ObjectsType, ObjectAtType
  <2> QED  BY <1>2, <2>1, <2>3, SetDetailType DEF SelectRow
<1>3. CASE RowRaises \/ RecommendationRaises
  BY <1>3, EndType DEF RowRaises, RecommendationRaises, Crash
<1> QED  BY <1>1, <1>2, <1>3 DEF UserStep

LEMMA NextTypeInv == TypeInv /\ [Next]_vars => TypeInv'
<1> SUFFICES ASSUME TypeInv, [Next]_vars PROVE TypeInv'
  OBVIOUS
<1>1. CASE Close
  BY <1>1, EndType DEF Close
<1>2. CASE Relaunch
  BY <1>2 DEF Relaunch, TypeInv, TypeOK
<1>3. ASSUME NEW r \in DOMAIN requests,
             Answer(r) \/ Fail(r) \/ HandlerStep(r) \/ StoreRaces(r) \/ FillRaces(r)
      PROVE  TypeInv'
  <2>1. CASE StoreRaces(r) \/ FillRaces(r)
    BY <2>1, EndType DEF StoreRaces, FillRaces, Crash
  <2> QED  BY <1>3, <2>1, HandlerTypeInv
<1>4. CASE MainThreadStep
  BY <1>4, MainTypeInv
<1>5. CASE UserStep
  BY <1>5, UserTypeInv
<1>6. CASE UNCHANGED vars
  BY <1>6 DEF vars, TypeInv, TypeOK
<1> QED  BY <1>1, <1>2, <1>3, <1>4, <1>5, <1>6 DEF Next

LEMMA AlwaysTyped == Spec => []TypeInv
BY InitTypeInv, NextTypeInv, PTL DEF Spec

(* Types, for any number of requests and mails.                            *)
THEOREM TypeCorrect == Spec => []TypeOK
<1>1. TypeInv => TypeOK
  BY DEF TypeInv
<1> QED  BY <1>1, AlwaysTyped, PTL

-----------------------------------------------------------------------------
(***************************************************************************)
(* The list and the detail view follow emails.                             *)
(***************************************************************************)
(* The block that saw a first mail still sees it, or a reload is due.      *)
FirstFollows == mainStep = "reloaded" /\ emails.mails = <<>> => ReloadDue

Follow == RowsFollowEmails /\ DetailFollowsEmails /\ FirstFollows

(* What a handler does to its request, and to the others.                  *)
LEMMA GoStatus ==
  ASSUME TypeInv, NEW r \in DOMAIN requests, NEW status, Go(r, status)
  PROVE  /\ DOMAIN requests' = DOMAIN requests
         /\ requests'[r].status = status
         /\ requests'[r].answer = requests[r].answer
         /\ \A q \in DOMAIN requests : q # r => requests'[q] = requests[q]
<1>1. requests \in Seq(Request) /\ requests[r] \in Request
  BY DEF TypeInv, TypeOK
<1> QED  BY <1>1 DEF Go, Request

LEMMA AppendContains ==
  ASSUME NEW q \in Seq(Block), NEW block \in Block
  PROVE  Contains(Append(q, block), "reload") <=> Contains(q, "reload") \/ block = "reload"
BY DEF Contains

LEMMA TailContains ==
  ASSUME NEW q \in Seq(Block), q # <<>>, Head(q) # "reload"
  PROVE  Contains(q, "reload") => Contains(Tail(q), "reload")
<1> SUFFICES ASSUME NEW i \in 1..Len(q), q[i] = "reload" PROVE Contains(Tail(q), "reload")
  BY DEF Contains
<1>1. i # 1
  OBVIOUS
<1>2. i - 1 \in 1..Len(Tail(q)) /\ Tail(q)[i - 1] = "reload"
  BY <1>1
<1> QED  BY <1>2 DEF Contains

LEMMA InitFollow == Init => Follow
BY DEF Init, Nothing, Follow, RowsFollowEmails, DetailFollowsEmails, FirstFollows

LEMMA EndFollow == ASSUME NEW how, End(how) PROVE Follow'
BY DEF End, Nothing, Follow, RowsFollowEmails, DetailFollowsEmails, FirstFollows

(* While a handler is between storing and sending, anything goes.          *)
LEMMA DueFollow == ASSUME ReloadDue' PROVE Follow'
BY DEF Follow, RowsFollowEmails, DetailFollowsEmails, FirstFollows

LEMMA HandlerFollow ==
  ASSUME TypeInv, Follow, NEW r \in DOMAIN requests, Answer(r) \/ Fail(r) \/ HandlerStep(r)
  PROVE  Follow'
<1>0. mainQueue \in Seq(Block)
  BY DEF TypeInv, TypeOK
<1>1. CASE Answer(r)
  <2>1. requests \in Seq(Request)
    BY DEF TypeInv, TypeOK
  <2>2. \A q \in DOMAIN requests : Handling(q) => q \in DOMAIN requests' /\ Handling(q)'
    BY <1>1, <2>1 DEF Answer, At, Handling
  <2>3. ReloadDue => ReloadDue'
    BY <1>1, <2>2 DEF Answer, ReloadDue
  <2> QED  BY <1>1, <2>3 DEF Answer, Follow, RowsFollowEmails, DetailFollowsEmails, FirstFollows
<1>2. CASE Fail(r)
  <2>1. \A q \in DOMAIN requests : Handling(q) => q \in DOMAIN requests' /\ Handling(q)'
    BY <1>2, GoStatus DEF Fail, At, Handling
  <2>2. ReloadDue => ReloadDue'
    BY <1>2, <2>1 DEF Fail, ReloadDue
  <2> QED  BY <1>2, <2>2 DEF Fail, Follow, RowsFollowEmails, DetailFollowsEmails, FirstFollows
<1>3. CASE StoreEmails(r) \/ CheckAllMails(r) \/ FillAllMails(r)
  <2>1. r \in DOMAIN requests' /\ Handling(r)'
    BY <1>3, GoStatus DEF StoreEmails, CheckAllMails, FillAllMails, Handling
  <2> QED  BY <2>1, DueFollow DEF ReloadDue
<1>4. CASE DispatchReload(r)
  <2>0. mainQueue' = Append(mainQueue, "reload") /\ "reload" \in Block
    BY <1>4 DEF DispatchReload, Block
  <2>1. Contains(mainQueue', "reload")
    BY <1>0, <2>0 DEF Contains
  <2> QED  BY <2>1, DueFollow DEF ReloadDue
<1> QED  BY <1>1, <1>2, <1>3, <1>4 DEF HandlerStep

LEMMA SetDetailFollow ==
  ASSUME TypeInv, Follow, NEW object \in Objects(emails), SetDetailItem(object),
         UNCHANGED <<requests, emails, rows>>
  PROVE  Follow'
<1>0. mainQueue \in Seq(Block)
  BY DEF TypeInv, TypeOK
<1>1. Contains(mainQueue', "reload") <=> Contains(mainQueue, "reload")
  <2>1. CASE mainQueue' = Append(mainQueue, "showHUD")
    <3>1. "showHUD" \in Block /\ "showHUD" # "reload"
      BY DEF Block
    <3>2. Contains(Append(mainQueue, "showHUD"), "reload")
            <=> Contains(mainQueue, "reload") \/ "showHUD" = "reload"
      BY <1>0, <3>1, AppendContains
    <3> QED  BY <2>1, <3>1, <3>2, Zenon
  <2>2. CASE mainQueue' = mainQueue
    BY <2>2
  <2> QED  BY <2>1, <2>2 DEF SetDetailItem
<1>2. ReloadDue' <=> ReloadDue
  BY <1>1 DEF ReloadDue, Handling
<1>3. detailItem' \in Objects(emails)'
  BY DEF SetDetailItem, Objects
<1>4. mainStep' # "reloaded"
  BY DEF SetDetailItem
<1> QED  BY <1>2, <1>3, <1>4 DEF Follow, RowsFollowEmails, DetailFollowsEmails, FirstFollows

LEMMA MainFollow ==
  ASSUME TypeInv, Follow, MainThreadStep PROVE Follow'
<1>0. /\ mainQueue \in Seq(Block)
      /\ emails.mails \in Seq(Mails)
  BY DEF TypeInv, TypeOK, List
<1> USE DEF Follow, RowsFollowEmails, DetailFollowsEmails, FirstFollows
<1>1. CASE FinishConfiguring
  <2>1. Contains(mainQueue', "reload") <=> Contains(mainQueue, "reload")
    BY <1>0, <1>1, AppendContains DEF FinishConfiguring, Block
  <2>2. ReloadDue' <=> ReloadDue
    BY <1>1, <2>1 DEF FinishConfiguring, ReloadDue, Handling
  <2> QED  BY <1>1, <2>2 DEF FinishConfiguring, Objects
<1>2. CASE Reload
  BY <1>0, <1>2 DEF Reload
<1>3. CASE ShowFirst
  <2>1. ObjectAt(emails, 1) \in Objects(emails)
    BY <1>0, <1>3, ObjectAtType DEF ShowFirst
  <2> QED  BY <1>3, <2>1, SetDetailFollow DEF ShowFirst
<1>4. CASE ShowFirstRaises
  BY <1>4, EndFollow DEF ShowFirstRaises, Crash
<1>5. CASE ShowHUD \/ HideHUD
  <2>1. Contains(mainQueue, "reload") => Contains(mainQueue', "reload")
    BY <1>0, <1>5, TailContains DEF ShowHUD, HideHUD, IsNextBlock
  <2>2. ReloadDue => ReloadDue'
    BY <1>5, <2>1 DEF ShowHUD, HideHUD, ReloadDue, Handling
  <2> QED  BY <1>5, <2>2 DEF ShowHUD, HideHUD, Objects
<1> QED  BY <1>1, <1>2, <1>3, <1>4, <1>5 DEF MainThreadStep

LEMMA UserFollow ==
  ASSUME TypeInv, Follow, UserStep PROVE Follow'
<1>1. CASE SendRequest
  <2>1. requests \in Seq(Request)
    BY DEF TypeInv, TypeOK
  <2>2. \A q \in DOMAIN requests : q \in DOMAIN requests' /\ requests'[q] = requests[q]
    BY <1>1, <2>1 DEF SendRequest
  <2>3. ReloadDue => ReloadDue'
    BY <1>1, <2>2 DEF SendRequest, ReloadDue, Handling
  <2> QED  BY <1>1, <2>3 DEF SendRequest, Follow, RowsFollowEmails, DetailFollowsEmails, FirstFollows
<1>2. CASE SelectRow
  <2>1. PICK row \in 1..rows : row <= Len(emails.mails) /\ SetDetailItem(ObjectAt(emails, row))
    BY <1>2 DEF SelectRow
  <2>2. row \in 1..Len(emails.mails)
    BY <2>1 DEF TypeInv, TypeOK, List
  <2>3. ObjectAt(emails, row) \in Objects(emails)
    BY <2>2, ObjectAtType
  <2> QED  BY <1>2, <2>1, <2>3, SetDetailFollow DEF SelectRow
<1>3. CASE RowRaises \/ RecommendationRaises
  BY <1>3, EndFollow DEF RowRaises, RecommendationRaises, Crash
<1> QED  BY <1>1, <1>2, <1>3 DEF UserStep

LEMMA NextFollow == TypeInv /\ Follow /\ [Next]_vars => Follow'
<1> SUFFICES ASSUME TypeInv, Follow, [Next]_vars PROVE Follow'
  OBVIOUS
<1>1. CASE Close
  BY <1>1, EndFollow DEF Close
<1>2. CASE Relaunch \/ UNCHANGED vars
  BY <1>2 DEF Relaunch, vars, Follow, RowsFollowEmails, DetailFollowsEmails, FirstFollows,
     ReloadDue, Handling, Objects
<1>3. ASSUME NEW r \in DOMAIN requests, StoreRaces(r) \/ FillRaces(r) PROVE Follow'
  BY <1>3, EndFollow DEF StoreRaces, FillRaces, Crash
<1> QED  BY <1>1, <1>2, <1>3, HandlerFollow, MainFollow, UserFollow DEF Next

LEMMA AlwaysFollow == Spec => []Follow
BY AlwaysTyped, InitFollow, NextFollow, PTL DEF Spec

(* The list view disagrees with the array behind it only while a reload is *)
(* on its way, for any number of overlapping requests.                     *)
THEOREM RowsFollow == Spec => []RowsFollowEmails
<1>1. Follow => RowsFollowEmails
  BY DEF Follow
<1> QED  BY <1>1, AlwaysFollow, PTL

(* Once no reload is due, and unless the last answer was empty, the chosen *)
(* mail is an object of the list: the controller holds on to none of an    *)
(* answer that others replaced, for any number of overlapping requests.    *)
THEOREM DetailFollows == Spec => []DetailFollowsEmails
<1>1. Follow => DetailFollowsEmails
  BY DEF Follow
<1> QED  BY <1>1, AlwaysFollow, PTL

(* What a crash finds.                                                     *)
LEMMA CrashStep ==
  ASSUME TypeInv, Follow, Next, app = "running", app' = "crashed"
  PROVE  \/ ReloadDue
         \/ RecommendationsAreShort
         \/ \E r \in DOMAIN requests : requests[r].status = "storing"
<1>1. CASE Close \/ Relaunch
  BY <1>1 DEF Close, Relaunch, End
<1>2. ASSUME NEW r \in DOMAIN requests, Answer(r) \/ Fail(r) \/ HandlerStep(r) PROVE FALSE
  BY <1>2
  DEF Answer, Fail, HandlerStep, StoreEmails, CheckAllMails, FillAllMails, DispatchReload
<1>3. ASSUME NEW r \in DOMAIN requests, StoreRaces(r)
      PROVE  \E q \in DOMAIN requests : requests[q].status = "storing"
  BY <1>3 DEF StoreRaces, At
<1>4. ASSUME NEW r \in DOMAIN requests, FillRaces(r) PROVE ReloadDue
  BY <1>4 DEF FillRaces, At, ReloadDue, Handling
<1>5. CASE MainThreadStep
  <2>1. CASE ShowFirstRaises
    BY <2>1 DEF ShowFirstRaises, Follow, FirstFollows
  <2> QED
    BY <1>5, <2>1 DEF MainThreadStep, FinishConfiguring, Reload, ShowFirst, ShowHUD, HideHUD
<1>6. CASE UserStep
  <2>1. CASE RowRaises
    <3>1. rows # Len(emails.mails)
      BY <2>1 DEF RowRaises, TypeInv, TypeOK, List
    <3> QED  BY <3>1 DEF Follow, RowsFollowEmails
  <2>2. CASE RecommendationRaises
    BY <2>2 DEF RecommendationRaises
  <2> QED  BY <1>6, <2>1, <2>2 DEF UserStep, SendRequest, SelectRow
<1> QED  BY <1>1, <1>2, <1>3, <1>4, <1>5, <1>6 DEF Next

(* The client crashes only while an answer is being stored, before the     *)
(* reload it causes, or for recommendations fewer than their table's rows. *)
THEOREM CrashesOfAnswers == Spec => CrashesComeOfAnswers
<1>1. TypeInv /\ Follow /\ [Next]_vars =>
        [app = "running" /\ app' = "crashed" =>
           \/ ReloadDue
           \/ RecommendationsAreShort
           \/ \E r \in DOMAIN requests : requests[r].status = "storing"]_vars
  BY CrashStep
<1> QED  BY <1>1, AlwaysTyped, AlwaysFollow, PTL DEF Spec, CrashesComeOfAnswers

-----------------------------------------------------------------------------
(***************************************************************************)
(* What is kept of the answers.                                            *)
(***************************************************************************)
HasStored(r) == requests[r].status \in {"stored", "copying", "dispatching", "done"}

(* emails and allMails are answers of requests whose handler stored them:  *)
(* their answers do not change any more.                                   *)
Kept ==
  /\ \A r \in DOMAIN requests : HasStored(r) => emails.req # 0
  /\ emails.req # 0 => /\ emails.req \in DOMAIN requests
                       /\ HasStored(emails.req)
                       /\ emails.mails = requests[emails.req].answer
  /\ allMails # NoList => \E r \in DOMAIN requests :
       HasStored(r) /\ allMails = Objects([req |-> r, mails |-> requests[r].answer])

LEMMA InitKept == Init => Kept
BY DEF Init, Sent, Nothing, Kept, HasStored

LEMMA EndKept == ASSUME NEW how, End(how) PROVE Kept'
BY DEF End, Sent, Nothing, Kept, HasStored

(* A step that leaves what was stored alone.                               *)
LEMMA StoredKept ==
  ASSUME Kept, UNCHANGED <<emails, allMails>>,
         \A r \in DOMAIN requests : r \in DOMAIN requests',
         \A r \in DOMAIN requests : requests'[r].answer = requests[r].answer \/ ~HasStored(r),
         \A r \in DOMAIN requests' : HasStored(r)' <=> r \in DOMAIN requests /\ HasStored(r)
  PROVE  Kept'
BY DEF Kept, Objects

LEMMA EmailsAreKept ==
  ASSUME TypeInv, Kept, emails.req # 0
  PROVE  Objects(emails) = Objects([req |-> emails.req, mails |-> requests[emails.req].answer])
BY DEF Kept, Objects

LEMMA HandlerKept ==
  ASSUME TypeInv, Kept, NEW r \in DOMAIN requests, Answer(r) \/ Fail(r) \/ HandlerStep(r)
  PROVE  Kept'
<1>0. requests \in Seq(Request)
  BY DEF TypeInv, TypeOK
<1>1. CASE Answer(r)
  <2>0. PICK answer \in Answers(requests[r].kind) :
          requests' = [requests EXCEPT
            ![r] = [requests[r] EXCEPT !.status = "storing", !.answer = answer]]
    BY <1>1 DEF Answer
  <2>a. /\ DOMAIN requests' = DOMAIN requests
        /\ \A q \in DOMAIN requests : q # r => requests'[q] = requests[q]
    BY <1>0, <2>0
  <2>b. requests'[r] = [requests[r] EXCEPT !.status = "storing", !.answer = answer]
    BY <1>0, <2>0
  <2>c. requests'[r].status = "storing"
    BY <1>0, <2>b DEF Request
  <2>d. requests[r].status = "sent"
    BY <1>1 DEF Answer, At
  <2>1. /\ DOMAIN requests' = DOMAIN requests
        /\ ~HasStored(r) /\ ~HasStored(r)'
        /\ \A q \in DOMAIN requests : q # r => requests'[q] = requests[q]
    BY <2>a, <2>c, <2>d DEF HasStored
  <2>2. \A q \in DOMAIN requests : q # r => (HasStored(q)' <=> HasStored(q))
    BY <2>1 DEF HasStored
  <2> QED  BY <1>1, <2>1, <2>2, StoredKept DEF Answer
<1>2. CASE Fail(r)
  <2>1. ~HasStored(r) /\ ~HasStored(r)'
    BY <1>2, GoStatus DEF Fail, At, HasStored
  <2>2. \A q \in DOMAIN requests : q # r => (HasStored(q)' <=> HasStored(q))
    BY <1>2, GoStatus DEF Fail, HasStored
  <2>3. \A q \in DOMAIN requests : requests'[q].answer = requests[q].answer
    BY <1>2, GoStatus DEF Fail
  <2>4. DOMAIN requests' = DOMAIN requests
    BY <1>2, GoStatus DEF Fail
  <2> QED  BY <1>2, <2>1, <2>2, <2>3, <2>4, StoredKept DEF Fail
<1>3. CASE StoreEmails(r)
  <2>1. /\ DOMAIN requests' = DOMAIN requests
        /\ requests'[r].status = "stored" /\ requests'[r].answer = requests[r].answer
        /\ \A q \in DOMAIN requests : q # r => requests'[q] = requests[q]
    BY <1>3, GoStatus DEF StoreEmails
  <2>2. emails'.req = r /\ emails'.mails = requests[r].answer
    BY <1>3 DEF StoreEmails
  <2>3. r # 0
    BY <1>0
  <2>4. HasStored(r)' /\ ~HasStored(r)
    BY <1>3, <2>1 DEF StoreEmails, At, HasStored
  <2>5. \A q \in DOMAIN requests : HasStored(q) =>
          HasStored(q)' /\ requests'[q].answer = requests[q].answer
    BY <2>1, <2>4 DEF HasStored
  <2>6. allMails' # NoList => \E q \in DOMAIN requests' :
          HasStored(q)' /\ allMails' = Objects([req |-> q, mails |-> requests'[q].answer])
    BY <1>3, <2>1, <2>5 DEF StoreEmails, Kept
  <2> QED  BY <2>1, <2>2, <2>3, <2>4, <2>6 DEF Kept, Objects
<1>4. CASE CheckAllMails(r) \/ FillAllMails(r) \/ DispatchReload(r)
  <2>1. HasStored(r)
    BY <1>4 DEF CheckAllMails, FillAllMails, DispatchReload, At, HasStored
  <2>2. HasStored(r)'
    BY <1>4, GoStatus DEF CheckAllMails, FillAllMails, DispatchReload, HasStored
  <2>3. /\ DOMAIN requests' = DOMAIN requests
        /\ \A q \in DOMAIN requests : requests'[q].answer = requests[q].answer
    BY <1>4, GoStatus DEF CheckAllMails, FillAllMails, DispatchReload
  <2>4. \A q \in DOMAIN requests : q # r => (HasStored(q)' <=> HasStored(q))
    BY <1>4, GoStatus DEF CheckAllMails, FillAllMails, DispatchReload, HasStored
  <2>5. CASE UNCHANGED allMails
    BY <1>4, <2>1, <2>2, <2>3, <2>4, <2>5, StoredKept
    DEF CheckAllMails, FillAllMails, DispatchReload
  <2>6. CASE FillAllMails(r)
    <3>1. emails' = emails /\ allMails' = Objects(emails) /\ emails.req # 0
      BY <2>1, <2>6 DEF FillAllMails, Kept
    <3>2. emails.req \in DOMAIN requests /\ HasStored(emails.req)
      BY <3>1 DEF Kept
    <3>3. HasStored(emails.req)'
      BY <2>2, <2>4, <3>1, <3>2 DEF HasStored
    <3>4. allMails' = Objects([req |-> emails.req, mails |-> requests'[emails.req].answer])
      BY <2>3, <3>1, <3>2, EmailsAreKept
    <3>5. emails'.req # 0 /\ emails'.req \in DOMAIN requests'
      BY <2>3, <3>1, <3>2
    <3>6. emails'.mails = requests'[emails'.req].answer
      BY <2>3, <3>1, <3>2 DEF Kept
    <3>7. \A q \in DOMAIN requests' : HasStored(q)' => emails'.req # 0
      BY <3>5
    <3>8. \E q \in DOMAIN requests' :
            HasStored(q)' /\ allMails' = Objects([req |-> q, mails |-> requests'[q].answer])
      BY <3>1, <3>3, <3>4, <3>5
    <3> QED  BY <3>3, <3>5, <3>6, <3>7, <3>8 DEF Kept
  <2> QED  BY <1>4, <2>5, <2>6 DEF CheckAllMails, DispatchReload
<1> QED  BY <1>1, <1>2, <1>3, <1>4 DEF HandlerStep

LEMMA SendKept == ASSUME TypeInv, Kept, SendRequest PROVE Kept'
<1>1. requests \in Seq(Request)
  BY DEF TypeInv, TypeOK
<1>2. PICK kind \in Kind : requests' = Append(requests, Sent(kind, Open))
  BY DEF SendRequest
<1>3. /\ \A r \in DOMAIN requests : r \in DOMAIN requests' /\ requests'[r] = requests[r]
      /\ \A r \in DOMAIN requests' : r \notin DOMAIN requests => requests'[r] = Sent(kind, Open)
  BY <1>1, <1>2
<1>4. \A r \in DOMAIN requests' : HasStored(r)' <=> r \in DOMAIN requests /\ HasStored(r)
  BY <1>3 DEF HasStored, Sent
<1> QED  BY <1>3, <1>4, StoredKept DEF SendRequest

LEMMA NextKept == TypeInv /\ Kept /\ [Next]_vars => Kept'
<1> SUFFICES ASSUME TypeInv, Kept, [Next]_vars PROVE Kept'
  OBVIOUS
<1>1. CASE Close
  BY <1>1, EndKept DEF Close
<1>2. CASE UNCHANGED <<requests, emails, allMails>>
  BY <1>2 DEF Kept, HasStored, Objects
<1>3. ASSUME NEW r \in DOMAIN requests, StoreRaces(r) \/ FillRaces(r) PROVE Kept'
  BY <1>3, EndKept DEF StoreRaces, FillRaces, Crash
<1>4. CASE MainThreadStep
  <2>1. CASE ShowFirstRaises
    BY <2>1, EndKept DEF ShowFirstRaises, Crash
  <2> QED
    BY <1>2, <1>4, <2>1 DEF MainThreadStep, FinishConfiguring, Reload, ShowFirst, ShowHUD, HideHUD
<1>5. CASE UserStep
  <2>1. CASE RowRaises \/ RecommendationRaises
    BY <2>1, EndKept DEF RowRaises, RecommendationRaises, Crash
  <2> QED  BY <1>2, <1>5, <2>1, SendKept DEF UserStep, SelectRow
<1> QED  BY <1>1, <1>2, <1>3, <1>4, <1>5, HandlerKept DEF Next, Relaunch, vars

LEMMA AlwaysKept == Spec => []Kept
BY AlwaysTyped, InitKept, NextKept, PTL DEF Spec

(* allMails is one answer and all of it, however many handlers fill it.    *)
THEOREM AllMailsOneAnswer == Spec => []AllMailsIsOneAnswer
<1>1. Kept => AllMailsIsOneAnswer
  BY DEF Kept, AllMailsIsOneAnswer
<1> QED  BY <1>1, AlwaysKept, PTL

-----------------------------------------------------------------------------
(***************************************************************************)
(* Questions asked while no other is open.                                 *)
(***************************************************************************)
(* When such a question was asked every request before it had ended, and   *)
(* ended it stays; so once it has stored its mails, emails can only be its *)
(* answer or a later one.                                                  *)
Patience ==
  \A r \in DOMAIN requests : requests[r].open = {} =>
    /\ \A p \in 1..(r - 1) : Ended(p)
    /\ HasStored(r) => r <= emails.req

LEMMA OneSentPatience ==
  ASSUME requests' = <<Sent("all", {})>>
  PROVE  Patience'
BY DEF Patience, Sent, HasStored

LEMMA InitPatience == Init => Patience
BY DEF Init, Patience, Sent, HasStored

LEMMA HandlerStored ==
  ASSUME TypeInv, NEW r \in DOMAIN requests, Answer(r) \/ Fail(r) \/ HandlerStep(r)
  PROVE  /\ DOMAIN requests' = DOMAIN requests
         /\ ~Ended(r)
         /\ \A q \in DOMAIN requests : q # r => requests'[q] = requests[q]
         /\ StoreEmails(r) \/ (emails' = emails /\ (HasStored(r)' => HasStored(r)))
<1>1. CASE Answer(r)
  <2>1. requests \in Seq(Request)
    BY DEF TypeInv, TypeOK
  <2>2. PICK answer \in Answers(requests[r].kind) :
          requests' = [requests EXCEPT
            ![r] = [requests[r] EXCEPT !.status = "storing", !.answer = answer]]
    BY <1>1 DEF Answer
  <2>3. /\ DOMAIN requests' = DOMAIN requests
        /\ \A q \in DOMAIN requests : q # r => requests'[q] = requests[q]
        /\ requests'[r] = [requests[r] EXCEPT !.status = "storing", !.answer = answer]
    BY <2>1, <2>2
  <2>4. requests'[r].status = "storing"
    BY <2>1, <2>3 DEF Request
  <2> QED  BY <1>1, <2>3, <2>4 DEF Answer, At, Ended, HasStored
<1>2. CASE Fail(r)
  BY <1>2, GoStatus DEF Fail, At, Ended, HasStored
<1>3. CASE StoreEmails(r)
  BY <1>3, GoStatus DEF StoreEmails, At, Ended
<1>4. CASE CheckAllMails(r) \/ FillAllMails(r) \/ DispatchReload(r)
  BY <1>4, GoStatus DEF CheckAllMails, FillAllMails, DispatchReload, At, Ended, HasStored
<1> QED  BY <1>1, <1>2, <1>3, <1>4 DEF HandlerStep

(* Answering leaves everything of a request but its status and answer.     *)
LEMMA HandlerOpen ==
  ASSUME TypeInv, NEW r \in DOMAIN requests, Answer(r) \/ Fail(r) \/ HandlerStep(r)
  PROVE  requests'[r].open = requests[r].open
<1>1. requests \in Seq(Request) /\ requests[r] \in Request
  BY DEF TypeInv, TypeOK
<1>2. CASE Answer(r)
  <2>1. PICK answer \in Answers(requests[r].kind) :
          requests' = [requests EXCEPT
            ![r] = [requests[r] EXCEPT !.status = "storing", !.answer = answer]]
    BY <1>2 DEF Answer
  <2>2. requests'[r] = [requests[r] EXCEPT !.status = "storing", !.answer = answer]
    BY <1>1, <2>1
  <2> QED  BY <1>1, <2>2 DEF Request
<1>3. ASSUME NEW status, Go(r, status) PROVE requests'[r].open = requests[r].open
  <2>1. requests'[r] = [requests[r] EXCEPT !.status = status]
    BY <1>1, <1>3 DEF Go
  <2> QED  BY <1>1, <2>1 DEF Request
<1> QED
  BY <1>2, <1>3 DEF Fail, HandlerStep, StoreEmails, CheckAllMails, FillAllMails, DispatchReload

LEMMA HandlerPatience ==
  ASSUME TypeInv, TypeInv', Patience, NEW r \in DOMAIN requests, Answer(r) \/ Fail(r) \/ HandlerStep(r)
  PROVE  Patience'
<1>1. requests \in Seq(Request) /\ r \in 1..Len(requests) /\ emails.req \in Nat
  BY DEF TypeInv, TypeOK, List
<1>2. /\ DOMAIN requests' = DOMAIN requests
      /\ ~Ended(r)
      /\ \A q \in DOMAIN requests : q # r => requests'[q] = requests[q]
      /\ StoreEmails(r) \/ (emails' = emails /\ (HasStored(r)' => HasStored(r)))
  BY HandlerStored
<1>3. \A q \in DOMAIN requests : requests'[q].open = requests[q].open
  BY <1>2, HandlerOpen
<1>4. SUFFICES ASSUME NEW q \in DOMAIN requests, requests[q].open = {}
               PROVE  /\ \A p \in 1..(q - 1) : Ended(p)'
                      /\ HasStored(q)' => q <= emails'.req
  BY <1>2, <1>3 DEF Patience
<1>5. \A p \in 1..(q - 1) : p \in DOMAIN requests /\ Ended(p)
  BY <1>1, <1>4 DEF Patience
<1>6. q <= r
  BY <1>1, <1>2, <1>4, <1>5
<1>7. \A p \in 1..(q - 1) : Ended(p)'
  BY <1>2, <1>5 DEF Ended
<1>8. HasStored(q)' => q <= emails'.req
  <2>1. CASE StoreEmails(r)
    <3>1. emails'.req = r
      BY <2>1 DEF StoreEmails
    <3> QED  BY <1>6, <3>1
  <2>2. CASE emails' = emails /\ (HasStored(r)' => HasStored(r))
    <3>1. HasStored(q)' => HasStored(q)
      BY <1>2, <2>2 DEF HasStored
    <3> QED  BY <1>4, <2>2, <3>1 DEF Patience
  <2> QED  BY <1>2, <2>1, <2>2
<1> QED  BY <1>7, <1>8

LEMMA SendPatience == ASSUME TypeInv, Patience, SendRequest PROVE Patience'
<1>1. requests \in Seq(Request)
  BY DEF TypeInv, TypeOK
<1>2. PICK kind \in Kind : requests' = Append(requests, Sent(kind, Open))
  BY DEF SendRequest
<1>3. PICK n \in Nat : n = Len(requests)
  BY <1>1
<1>4. /\ DOMAIN requests' = 1..(n + 1)
      /\ \A q \in 1..n : requests'[q] = requests[q]
      /\ requests'[n + 1] = Sent(kind, Open)
  BY <1>1, <1>2, <1>3
<1>5. SUFFICES ASSUME NEW q \in 1..(n + 1), requests'[q].open = {}
               PROVE  /\ \A p \in 1..(q - 1) : Ended(p)'
                      /\ HasStored(q)' => q <= emails'.req
  BY <1>4 DEF Patience
<1>6. DOMAIN requests = 1..n
  BY <1>1, <1>3
<1>7. CASE q = n + 1
  <2>1. Open = {}
    BY <1>4, <1>5, <1>7 DEF Sent
  <2>2. \A p \in 1..n : Ended(p)
    BY <1>6, <2>1 DEF Open
  <2>3. \A p \in 1..n : Ended(p)'
    BY <1>4, <2>2 DEF Ended
  <2>4. ~HasStored(q)'
    BY <1>4, <1>7 DEF HasStored, Sent
  <2> QED  BY <1>7, <2>3, <2>4
<1>8. CASE q \in 1..n
  <2>1. /\ \A p \in 1..(q - 1) : Ended(p)
        /\ HasStored(q) => q <= emails.req
    BY <1>4, <1>5, <1>6, <1>8 DEF Patience
  <2>2. \A p \in 1..(q - 1) : Ended(p)'
    BY <1>4, <1>8, <2>1 DEF Ended
  <2>3. HasStored(q)' => HasStored(q)
    BY <1>4, <1>8 DEF HasStored
  <2> QED  BY <2>1, <2>2, <2>3 DEF SendRequest
<1> QED  BY <1>7, <1>8

LEMMA NextPatience == TypeInv /\ TypeInv' /\ Patience /\ [Next]_vars => Patience'
<1> SUFFICES ASSUME TypeInv, TypeInv', Patience, [Next]_vars PROVE Patience'
  OBVIOUS
<1>1. CASE \E how \in {"crashed", "closed"} : End(how)
  BY <1>1, OneSentPatience DEF End
<1>2. CASE UNCHANGED <<requests, emails>>
  BY <1>2 DEF Patience, Ended, HasStored
<1>3. CASE MainThreadStep
  <2>1. CASE ShowFirstRaises
    BY <1>1, <2>1 DEF ShowFirstRaises, Crash
  <2> QED
    BY <1>2, <1>3, <2>1 DEF MainThreadStep, FinishConfiguring, Reload, ShowFirst, ShowHUD, HideHUD
<1>4. CASE UserStep
  <2>1. CASE RowRaises \/ RecommendationRaises
    BY <1>1, <2>1 DEF RowRaises, RecommendationRaises, Crash
  <2> QED  BY <1>2, <1>4, <2>1, SendPatience DEF UserStep, SelectRow
<1>5. ASSUME NEW r \in DOMAIN requests, StoreRaces(r) \/ FillRaces(r) PROVE Patience'
  BY <1>1, <1>5 DEF StoreRaces, FillRaces, Crash
<1> QED  BY <1>1, <1>2, <1>3, <1>4, <1>5, HandlerPatience DEF Next, Close, Relaunch, vars

LEMMA AlwaysPatience == Spec => []Patience
BY AlwaysTyped, InitPatience, NextPatience, PTL DEF Spec

(* A question asked while no other was open is not passed over for the     *)
(* answer to an earlier one.                                               *)
THEOREM SearchAnswered == Spec => []SearchIsAnswered
<1>1. TypeInv /\ Kept /\ Patience => SearchIsAnswered
  <2> SUFFICES ASSUME TypeInv, Kept, Patience, Open = {}
               PROVE  /\ emails.req # 0 => requests[emails.req].status = "done"
                      /\ \A r \in (emails.req + 1)..Len(requests) :
                            requests[r].open = {} => requests[r].status = "failed"
    BY DEF SearchIsAnswered
  <2>1. requests \in Seq(Request) /\ emails.req \in Nat
    BY DEF TypeInv, TypeOK, List
  <2>2. \A r \in DOMAIN requests : Ended(r)
    BY DEF Open
  <2>3. emails.req # 0 => requests[emails.req].status = "done"
    BY <2>2 DEF Kept, HasStored, Ended
  <2>4. ASSUME NEW r \in (emails.req + 1)..Len(requests), requests[r].open = {}
        PROVE  requests[r].status = "failed"
    <3>1. r \in DOMAIN requests /\ ~(r <= emails.req)
      BY <2>1, <2>4
    <3> QED  BY <2>2, <2>4, <3>1 DEF Patience, HasStored, Ended
  <2> QED  BY <2>3, <2>4
<1> QED  BY <1>1, AlwaysTyped, AlwaysKept, AlwaysPatience, PTL

-----------------------------------------------------------------------------
(***************************************************************************)
(* The HUD.                                                                *)
(***************************************************************************)
(* A block at the end changes nothing of what is shown before it.          *)
LEMMA AppendShown ==
  ASSUME TypeInv, NEW block \in Block, mainQueue' = Append(mainQueue, block), hud' = hud,
         NEW n \in Nat, n = Len(mainQueue)
  PROVE  /\ \A j \in 1..(n + 1) : Shown(j)' <=> Shown(j)
         /\ Shown(n + 2)' <=> block = "showHUD" \/ (block = "reload" /\ Shown(n + 1))
<1>1. mainQueue \in Seq(Block) /\ hud \in Nat
  BY DEF TypeInv, TypeOK
<1>2. /\ \A k \in 1..n : mainQueue'[k] = mainQueue[k]
      /\ mainQueue'[n + 1] = block
  BY <1>1
<1>3. ASSUME NEW j \in 1..(n + 1) PROVE Shown(j)' <=> Shown(j)
  <2>1. \A k \in 1..(j - 1) : mainQueue'[k] = mainQueue[k]
    <3>1. 1..(j - 1) \subseteq 1..n
      OBVIOUS
    <3> QED  BY <1>2, <3>1
  <2>2. (hud' = 1 /\ \A k \in 1..(j - 1) : mainQueue'[k] = "reload") <=>
        (hud = 1 /\ \A k \in 1..(j - 1) : mainQueue[k] = "reload")
    BY <2>1
  <2>3. ASSUME NEW i \in 1..(j - 1)
        PROVE  (mainQueue'[i] = "showHUD" /\ \A k \in (i + 1)..(j - 1) : mainQueue'[k] = "reload") <=>
               (mainQueue[i] = "showHUD" /\ \A k \in (i + 1)..(j - 1) : mainQueue[k] = "reload")
    <3>1. (i + 1)..(j - 1) \subseteq 1..(j - 1)
      OBVIOUS
    <3> QED  BY <2>1, <3>1
  <2> QED  BY <2>2, <2>3 DEF Shown
<1>4. Shown(n + 2)' <=> block = "showHUD" \/ (block = "reload" /\ Shown(n + 1))
  <2>1. (n + 2) - 1 = n + 1 /\ (n + 1) - 1 = n
    BY <1>1
  <2>2. Shown(n + 2)' <=>
          \/ \E i \in 1..(n + 1) : /\ mainQueue'[i] = "showHUD"
                                   /\ \A k \in (i + 1)..(n + 1) : mainQueue'[k] = "reload"
          \/ hud' = 1 /\ \A k \in 1..(n + 1) : mainQueue'[k] = "reload"
    BY <2>1 DEF Shown
  <2>3. Shown(n + 1) <=>
          \/ \E i \in 1..n : /\ mainQueue[i] = "showHUD"
                             /\ \A k \in (i + 1)..n : mainQueue[k] = "reload"
          \/ hud = 1 /\ \A k \in 1..n : mainQueue[k] = "reload"
    BY <2>1 DEF Shown
  <2>4. (hud' = 1 /\ \A k \in 1..(n + 1) : mainQueue'[k] = "reload") <=>
        block = "reload" /\ hud = 1 /\ \A k \in 1..n : mainQueue[k] = "reload"
    <3>1. /\ n + 1 \in 1..(n + 1)
          /\ \A k \in 1..n : k \in 1..(n + 1)
          /\ \A k \in 1..(n + 1) : k \in 1..n \/ k = n + 1
      OBVIOUS
    <3> QED  BY <1>2, <3>1
  <2>5. ASSUME NEW i \in 1..n
        PROVE  (\A k \in (i + 1)..(n + 1) : mainQueue'[k] = "reload") <=>
               block = "reload" /\ \A k \in (i + 1)..n : mainQueue[k] = "reload"
    <3>1. /\ n + 1 \in (i + 1)..(n + 1)
          /\ \A k \in (i + 1)..n : k \in (i + 1)..(n + 1) /\ k \in 1..n
          /\ \A k \in (i + 1)..(n + 1) : k \in (i + 1)..n \/ k = n + 1
      OBVIOUS
    <3> QED  BY <1>2, <3>1
  <2>6. (mainQueue'[n + 1] = "showHUD" /\ \A k \in ((n + 1) + 1)..(n + 1) : mainQueue'[k] = "reload") <=>
        block = "showHUD"
    BY <1>1, <1>2
  <2>7. (\E i \in 1..(n + 1) : /\ mainQueue'[i] = "showHUD"
                               /\ \A k \in (i + 1)..(n + 1) : mainQueue'[k] = "reload") <=>
        \/ block = "showHUD"
        \/ block = "reload" /\ \E i \in 1..n : /\ mainQueue[i] = "showHUD"
                                               /\ \A k \in (i + 1)..n : mainQueue[k] = "reload"
    <3>1. \A i \in 1..(n + 1) : i \in 1..n \/ i = n + 1
      BY <1>1
    <3>2. n + 1 \in 1..(n + 1) /\ \A i \in 1..n : i \in 1..(n + 1)
      BY <1>1
    <3> QED  BY <1>2, <2>5, <2>6, <3>1, <3>2
  <2> QED  BY <2>2, <2>3, <2>4, <2>7
<1> QED  BY <1>3, <1>4

(* When the first block has run, what was shown before the next is shown.  *)
LEMMA TailShown ==
  ASSUME TypeInv, hud <= 1, mainQueue # <<>>, mainQueue' = Tail(mainQueue),
         CASE Head(mainQueue) = "showHUD" -> hud' = 1
           [] Head(mainQueue) = "hideHUD" -> hud' = 0
           [] OTHER -> hud' = hud
  PROVE  \A j \in 1..Len(mainQueue) : Shown(j)' <=> Shown(j + 1)
<1>1. mainQueue \in Seq(Block) /\ hud \in Nat /\ Len(mainQueue) \in Nat \ {0}
  BY DEF TypeInv, TypeOK
<1>2. /\ \A k \in 1..(Len(mainQueue) - 1) : mainQueue'[k] = mainQueue[k + 1]
      /\ Head(mainQueue) = mainQueue[1] /\ mainQueue[1] \in Block
  BY <1>1
<1> SUFFICES ASSUME NEW j \in 1..Len(mainQueue) PROVE Shown(j)' <=> Shown(j + 1)
  OBVIOUS
<1>3. (j + 1) - 1 = j /\ j \in Nat /\ 1 \in 1..j
  BY <1>1
<1>4. \A i \in 1..j : i = 1 \/ (i - 1 \in 1..(j - 1) /\ (i - 1) + 1 = i)
  BY <1>1
<1>5. \A i \in 1..(j - 1) : /\ i + 1 \in 1..j /\ i + 1 # 1
                            /\ mainQueue'[i] = mainQueue[i + 1]
  BY <1>1, <1>2
<1>6. ASSUME NEW i \in 1..j
      PROVE  (\A k \in i..(j - 1) : mainQueue'[k] = "reload") <=>
             (\A k \in (i + 1)..j : mainQueue[k] = "reload")
  <2>1. \A k \in i..(j - 1) : k + 1 \in (i + 1)..j /\ mainQueue'[k] = mainQueue[k + 1]
    BY <1>1, <1>5, <1>6
  <2>2. \A k \in (i + 1)..j : k - 1 \in i..(j - 1) /\ (k - 1) + 1 = k
    BY <1>1, <1>6
  <2> QED  BY <2>1, <2>2
<1>7. (\A k \in 1..j : mainQueue[k] = "reload") <=>
      mainQueue[1] = "reload" /\ \A k \in (1 + 1)..j : mainQueue[k] = "reload"
  BY <1>1
<1>8. Shown(j + 1) <=>
        \/ \E i \in 1..j : /\ mainQueue[i] = "showHUD"
                           /\ \A k \in (i + 1)..j : mainQueue[k] = "reload"
        \/ hud = 1 /\ \A k \in 1..j : mainQueue[k] = "reload"
  BY <1>3 DEF Shown
<1>9. Shown(j)' <=>
        \/ \E i \in 1..(j - 1) : /\ mainQueue[i + 1] = "showHUD"
                                 /\ \A k \in (i + 1)..(j - 1) : mainQueue'[k] = "reload"
        \/ hud' = 1 /\ \A k \in 1..(j - 1) : mainQueue'[k] = "reload"
  BY <1>5 DEF Shown
<1>10. (\E i \in 1..(j - 1) : /\ mainQueue[i + 1] = "showHUD"
                              /\ \A k \in (i + 1)..(j - 1) : mainQueue'[k] = "reload") <=>
       \E i \in 1..j : /\ i # 1
                       /\ mainQueue[i] = "showHUD"
                       /\ \A k \in (i + 1)..j : mainQueue[k] = "reload"
  BY <1>4, <1>5, <1>6
<1>11. (hud' = 1 /\ \A k \in 1..(j - 1) : mainQueue'[k] = "reload") <=>
       \/ mainQueue[1] = "showHUD" /\ \A k \in (1 + 1)..j : mainQueue[k] = "reload"
       \/ hud = 1 /\ \A k \in 1..j : mainQueue[k] = "reload"
  <2>1. hud' = 1 <=> mainQueue[1] = "showHUD" \/ (mainQueue[1] = "reload" /\ hud = 1)
    BY <1>2 DEF Block
  <2>2. mainQueue[1] = "showHUD" => mainQueue[1] # "reload"
    OBVIOUS
  <2> QED  BY <1>3, <1>6, <1>7, <2>1, <2>2
<1> QED  BY <1>3, <1>8, <1>9, <1>10, <1>11

LEMMA UnchangedBalanced ==
  ASSUME HUDIsBalanced, mainQueue' = mainQueue, hud' = hud,
         mainStep' = "configuring" <=> mainStep = "configuring"
  PROVE  HUDIsBalanced'
BY DEF HUDIsBalanced, Shown

LEMMA NoneShown ==
  ASSUME hud = 0, mainQueue = <<>>, mainStep = "idle" PROVE HUDIsBalanced
<1>1. Len(mainQueue) = 0 /\ DOMAIN mainQueue = {}
  OBVIOUS
<1>2. ~Shown(1)
  BY DEF Shown
<1> QED  BY <1>1, <1>2 DEF HUDIsBalanced

LEMMA AppendBalanced ==
  ASSUME TypeInv, HUDIsBalanced, hud' = hud,
         NEW block \in Block, mainQueue' = Append(mainQueue, block),
         CASE block = "showHUD" -> mainStep # "configuring" /\ mainStep' = "configuring"
           [] block = "hideHUD" -> mainStep = "configuring" /\ mainStep' # "configuring"
           [] OTHER -> mainStep' = mainStep
  PROVE  HUDIsBalanced'
<1>1. mainQueue \in Seq(Block)
  BY DEF TypeInv, TypeOK
<1>2. PICK n \in Nat : n = Len(mainQueue)
  BY <1>1
<1>3. /\ \A j \in 1..(n + 1) : Shown(j)' <=> Shown(j)
      /\ Shown(n + 2)' <=> block = "showHUD" \/ (block = "reload" /\ Shown(n + 1))
  BY <1>2, AppendShown
<1>4. /\ Len(mainQueue') + 1 = n + 2 /\ n + 1 \in 1..(n + 1)
      /\ \A j \in DOMAIN mainQueue' : \/ j \in DOMAIN mainQueue /\ j \in 1..(n + 1)
                                         /\ mainQueue'[j] = mainQueue[j]
                                      \/ j = n + 1 /\ mainQueue'[j] = block
  BY <1>1, <1>2
<1>5. Shown(n + 1) <=> mainStep = "configuring"
  BY <1>2 DEF HUDIsBalanced
<1>6. \A j \in DOMAIN mainQueue' : /\ mainQueue'[j] = "showHUD" => ~Shown(j)'
                                   /\ mainQueue'[j] = "hideHUD" => Shown(j)'
  BY <1>3, <1>4, <1>5 DEF HUDIsBalanced
<1>7. Shown(n + 2)' <=> mainStep' = "configuring"
  BY <1>3, <1>5 DEF Block
<1>8. Shown(Len(mainQueue) + 1)' <=> Shown(n + 2)'
  BY <1>4 DEF Shown
<1> QED  BY <1>6, <1>7, <1>8 DEF HUDIsBalanced

LEMMA TailBalanced ==
  ASSUME TypeInv, HUDIsBalanced, mainQueue # <<>>, mainQueue' = Tail(mainQueue),
         mainStep # "configuring", mainStep' # "configuring",
         CASE Head(mainQueue) = "showHUD" -> hud' = 1
           [] Head(mainQueue) = "hideHUD" -> hud' = 0
           [] OTHER -> hud' = hud
  PROVE  HUDIsBalanced'
<1>1. mainQueue \in Seq(Block) /\ hud \in Nat /\ hud <= 1
  BY DEF TypeInv, TypeOK, HUDIsBalanced
<1>2. PICK n \in Nat \ {0} : n = Len(mainQueue)
  BY <1>1
<1>3. \A j \in 1..n : Shown(j)' <=> Shown(j + 1)
  BY <1>1, <1>2, TailShown
<1>4. /\ Len(mainQueue') + 1 = n /\ n \in 1..n
      /\ \A j \in DOMAIN mainQueue' : /\ j \in 1..n /\ j + 1 \in DOMAIN mainQueue
                                      /\ mainQueue'[j] = mainQueue[j + 1]
  BY <1>1, <1>2
<1>5. \A j \in DOMAIN mainQueue' : /\ mainQueue'[j] = "showHUD" => ~Shown(j)'
                                   /\ mainQueue'[j] = "hideHUD" => Shown(j)'
  BY <1>3, <1>4 DEF HUDIsBalanced
<1>6. ~Shown(n)'
  BY <1>2, <1>3, <1>4 DEF HUDIsBalanced
<1>7. Shown(Len(mainQueue) + 1)' <=> Shown(n)'
  BY <1>4 DEF Shown
<1>8. hud' <= 1
  BY <1>1
<1> QED  BY <1>5, <1>6, <1>7, <1>8 DEF HUDIsBalanced

(* The HUD that the first block shows is not over another.                 *)
LEMMA FirstShown ==
  ASSUME TypeInv, HUDIsBalanced, mainQueue # <<>>, Head(mainQueue) = "showHUD" PROVE hud = 0
<1>1. /\ hud \in Nat /\ hud <= 1
      /\ mainQueue \in Seq(Block) /\ 1 \in DOMAIN mainQueue /\ mainQueue[1] = "showHUD"
  BY DEF TypeInv, TypeOK, HUDIsBalanced
<1>2. \A k \in 1..(1 - 1) : mainQueue[k] = "reload"
  OBVIOUS
<1>3. hud # 1
  BY <1>1, <1>2 DEF HUDIsBalanced, Shown
<1> QED  BY <1>1, <1>3

LEMMA DetailBalanced ==
  ASSUME TypeInv, HUDIsBalanced, mainStep # "configuring", NEW object, SetDetailItem(object),
         UNCHANGED hud
  PROVE  HUDIsBalanced'
<1>1. CASE object # detailItem
  BY <1>1, AppendBalanced DEF SetDetailItem, Block
<1>2. CASE object = detailItem
  BY <1>2, UnchangedBalanced DEF SetDetailItem
<1> QED  BY <1>1, <1>2

LEMMA EndBalanced == ASSUME NEW how, End(how) PROVE HUDIsBalanced'
<1>1. Len(mainQueue') = 0 /\ DOMAIN mainQueue' = {}
  BY DEF End
<1>2. ~Shown(1)'
  BY DEF End, Shown
<1>3. Shown(Len(mainQueue) + 1)' <=> Shown(1)'
  BY <1>1 DEF Shown
<1> QED  BY <1>1, <1>2, <1>3 DEF End, HUDIsBalanced

LEMMA NextBalanced == TypeInv /\ HUDIsBalanced /\ [Next]_vars => HUDIsBalanced'
<1> SUFFICES ASSUME TypeInv, HUDIsBalanced, [Next]_vars PROVE HUDIsBalanced'
  OBVIOUS
<1>1. CASE Close
  BY <1>1, EndBalanced DEF Close
<1>2. CASE UNCHANGED <<mainQueue, mainStep, hud>>
  BY <1>2, UnchangedBalanced
<1>3. ASSUME NEW r \in DOMAIN requests, Answer(r) \/ Fail(r) \/ HandlerStep(r) PROVE HUDIsBalanced'
  <2>1. CASE DispatchReload(r)
    BY <2>1, AppendBalanced DEF DispatchReload, Block
  <2> QED
    BY <1>2, <1>3, <2>1 DEF Answer, Fail, HandlerStep, StoreEmails, CheckAllMails, FillAllMails
<1>4. ASSUME NEW r \in DOMAIN requests, StoreRaces(r) \/ FillRaces(r) PROVE HUDIsBalanced'
  BY <1>4, EndBalanced DEF StoreRaces, FillRaces, Crash
<1>5. CASE MainThreadStep
  <2>1. CASE FinishConfiguring
    BY <2>1, AppendBalanced DEF FinishConfiguring, Block
  <2>2. CASE Reload
    <3>1. mainStep' # "configuring" /\ mainStep # "configuring"
      BY <2>2 DEF Reload, IsNextBlock
    <3> QED  BY <2>2, <3>1, TailBalanced DEF Reload, IsNextBlock
  <2>3. CASE ShowFirst
    BY <2>3, DetailBalanced DEF ShowFirst
  <2>4. CASE ShowFirstRaises
    BY <2>4, EndBalanced DEF ShowFirstRaises, Crash
  <2>5. CASE ShowHUD
    <3>1. hud' = 1
      BY <2>5, FirstShown DEF ShowHUD, IsNextBlock
    <3> QED  BY <2>5, <3>1, TailBalanced DEF ShowHUD, IsNextBlock
  <2>6. CASE HideHUD
    <3>1. hud' = 0
      BY <2>6 DEF HideHUD, HUDIsBalanced, TypeInv, TypeOK
    <3> QED  BY <2>6, <3>1, TailBalanced DEF HideHUD, IsNextBlock
  <2> QED  BY <1>5, <2>1, <2>2, <2>3, <2>4, <2>5, <2>6 DEF MainThreadStep
<1>6. CASE UserStep
  <2>1. CASE RowRaises \/ RecommendationRaises
    BY <2>1, EndBalanced DEF RowRaises, RecommendationRaises, Crash
  <2>2. CASE SelectRow
    BY <2>2, DetailBalanced DEF SelectRow, UserMayAct
  <2> QED  BY <1>2, <1>6, <2>1, <2>2 DEF UserStep, SendRequest
<1> QED  BY <1>1, <1>2, <1>3, <1>4, <1>5, <1>6 DEF Next, Relaunch, vars

(* However reloads, choices and answers interleave, a HUD is shown only    *)
(* when none is up, and hidden only when one is.                           *)
THEOREM HUDBalanced == Spec => []HUDIsBalanced
<1>1. Init => HUDIsBalanced
  BY NoneShown DEF Init
<1> QED  BY <1>1, NextBalanced, AlwaysTyped, PTL DEF Spec
=============================================================================
