----------------------------- MODULE MailClient -----------------------------
(***************************************************************************)
(* The iOS mail reader while it talks to Solr: MasterViewController, the   *)
(* ServerManager and ServerCommunicator behind it, and the part of         *)
(* DetailViewController that follows the list.                             *)
(*                                                                         *)
(* Every request gets an NSOperationQueue of its own, so the completion    *)
(* handlers of several requests run on background threads, at the same     *)
(* time and in the order the answers come.  A handler stores its mails in  *)
(* a nonatomic property that the main thread reads, and sends a block to   *)
(* the FIFO main queue.  The user acts on the main thread between blocks.  *)
(***************************************************************************)
EXTENDS Naturals, FiniteSets, SequencesExt

CONSTANTS
  Stored,      \* the mails of the Solr index in the order of the date sort
  NoItem,      \* nil, for an email
  NoList,      \* nil, for allMails
  LastRow,     \* the table of recommendations has the rows 0..LastRow, 14 in the code
  MaxRequests, \* bound: requests of one launch of the application
  MaxBlocks    \* bound: the user acts only while the main queue is this short

ASSUME StoredAssumption == Stored \in Seq(Range(Stored)) /\ IsInjective(Stored)
ASSUME TableAssumption == LastRow \in Nat
ASSUME BoundsAssumption == MaxRequests \in Nat \ {0} /\ MaxBlocks \in Nat

VARIABLES
  app,        \* "running", "crashed" or "closed"
  requests,   \* the requests of this launch, oldest first
  emails,     \* the property emails, tagged with the request it answers
  allMails,   \* DetailViewController.allMails: its objects, unordered
  rows,       \* the number of rows the list view believes it has
  detailItem, \* the object DetailViewController.detailItem
  mainQueue,  \* the blocks sent to the main queue and not yet run
  mainStep,   \* where the main thread is inside a block or a user's action
  hud         \* the progress HUDs on the detail view

vars == <<app, requests, emails, allMails, rows, detailItem, mainQueue, mainStep, hud>>

(* All mails, or those a query selects, still in date order.               *)
Kind == {"all", "search"}

(* A request is sent; its handler, with the mails in hand, stores them,    *)
(* looks at allMails, perhaps fills it, and sends its block.               *)
Status == {"sent", "storing", "stored", "copying", "dispatching", "done", "failed"}

Mails == Range(Stored)

(* GroupBuilder makes new objects of every answer.                         *)
Object == [req : 1..MaxRequests, mail : Mails]
List == [req : 0..MaxRequests, mails : Seq(Mails)]

ASSUME NilAssumption == NoItem \notin Object

Objects(list) == {[req |-> list.req, mail |-> m] : m \in Range(list.mails)}
ObjectAt(list, i) == [req |-> list.req, mail |-> list.mails[i]]

InDateOrder(list) ==
  \A i, j \in DOMAIN list : i < j =>
    \E k, l \in DOMAIN Stored : k < l /\ Stored[k] = list[i] /\ Stored[l] = list[j]

(* What Solr may answer: an error page is JSON without "response" and      *)
(* gives no mails, like a search that finds nothing.                       *)
Answers(kind) ==
  IF kind = "all" THEN {Stored, <<>>}
  ELSE {list \in BoundedSeq(Mails, Len(Stored)) : InDateOrder(list)}

Block == {"reload", "showHUD", "hideHUD"}
MainStep == {"idle", "reloaded", "configuring"}

(* "open" is history: the requests without an answer when this one was     *)
(* made.                                                                   *)
Request == [kind : Kind, status : Status, answer : Seq(Mails), open : SUBSET Nat]

TypeOK ==
  /\ app \in {"running", "crashed", "closed"}
  /\ requests \in Seq(Request)
  /\ Len(requests) <= MaxRequests
  /\ emails \in List
  /\ allMails \in (SUBSET Object) \union {NoList}
  /\ rows \in Nat
  /\ detailItem \in Object \union {NoItem}
  /\ mainQueue \in Seq(Block)
  /\ mainStep \in MainStep
  /\ hud \in Nat

Sent(kind, open) == [kind |-> kind, status |-> "sent", answer |-> <<>>, open |-> open]

Nothing == [req |-> 0, mails |-> <<>>]

(* viewDidLoad has asked for all mails.                                    *)
Init ==
  /\ app = "running"
  /\ requests = <<Sent("all", {})>>
  /\ emails = Nothing
  /\ allMails = NoList
  /\ rows = 0
  /\ detailItem = NoItem
  /\ mainQueue = <<>>
  /\ mainStep = "idle"
  /\ hud = 0

(* The application ends: its memory and its connections are gone.          *)
End(how) ==
  /\ app' = how
  /\ requests' = <<Sent("all", {})>>
  /\ emails' = Nothing
  /\ allMails' = NoList
  /\ rows' = 0
  /\ detailItem' = NoItem
  /\ mainQueue' = <<>>
  /\ mainStep' = "idle"
  /\ hud' = 0

(* An uncaught exception or a bad access.                                  *)
Crash == End("crashed")

(* The user or the system closes the application.                          *)
Close == app = "running" /\ End("closed")

Relaunch ==
  /\ app # "running"
  /\ app' = "running"
  /\ UNCHANGED <<requests, emails, allMails, rows, detailItem, mainQueue, mainStep, hud>>

(***************************************************************************)
(* The network and the completion handlers, on background threads.         *)
(***************************************************************************)
At(r, status) == app = "running" /\ requests[r].status = status

Go(r, status) == requests' = [requests EXCEPT ![r].status = status]

Ended(r) == requests[r].status \in {"done", "failed"}

Open == {r \in DOMAIN requests : ~Ended(r)}

(* The answer comes, is parsed, and the handler enters didReceiveMails.    *)
Answer(r) ==
  /\ At(r, "sent")
  /\ \E answer \in Answers(requests[r].kind) :
        requests' = [requests EXCEPT ![r] = [@ EXCEPT !.status = "storing", !.answer = answer]]
  /\ UNCHANGED <<app, emails, allMails, rows, detailItem, mainQueue, mainStep, hud>>

(* A connection error, a timeout, or an answer that is no JSON: it is      *)
(* logged.                                                                 *)
Fail(r) ==
  /\ At(r, "sent")
  /\ Go(r, "failed")
  /\ UNCHANGED <<app, emails, allMails, rows, detailItem, mainQueue, mainStep, hud>>

(* Faulty variant: an empty answer is not stored.                          *)
StoreEmailsIfAny(r) ==
  /\ At(r, "storing")
  /\ emails' = IF requests[r].answer = <<>> THEN emails
               ELSE [req |-> r, mails |-> requests[r].answer]
  /\ Go(r, "stored")
  /\ UNCHANGED <<app, allMails, rows, detailItem, mainQueue, mainStep, hud>>

StoreEmails(r) ==
  /\ At(r, "storing")
  /\ emails' = [req |-> r, mails |-> requests[r].answer]
  /\ Go(r, "stored")
  /\ UNCHANGED <<app, allMails, rows, detailItem, mainQueue, mainStep, hud>>

(* The setter of a nonatomic property releases the old array without a     *)
(* lock, while another setter does too or the main thread is reading it.   *)
StoreRaces(r) ==
  /\ At(r, "storing")
  /\ emails.req # 0
  /\ Crash

(* if (!self.detailViewController.allMails)                                *)
CheckAllMails(r) ==
  /\ At(r, "stored")
  /\ Go(r, IF allMails = NoList THEN "copying" ELSE "dispatching")
  /\ UNCHANGED <<app, emails, allMails, rows, detailItem, mainQueue, mainStep, hud>>

(* Faulty variant: the mails of the answer are added to the copy.          *)
FillAllMailsAdding(r) ==
  /\ At(r, "copying")
  /\ allMails' = Objects(emails) \union Objects([req |-> r, mails |-> requests[r].answer])
  /\ Go(r, "dispatching")
  /\ UNCHANGED <<app, emails, rows, detailItem, mainQueue, mainStep, hud>>

(* The copy is of the property as it is now, not of this answer.           *)
FillAllMails(r) ==
  /\ At(r, "copying")
  /\ allMails' = Objects(emails)
  /\ Go(r, "dispatching")
  /\ UNCHANGED <<app, emails, rows, detailItem, mainQueue, mainStep, hud>>

(* allMails is nonatomic too: two handlers that found it nil release what  *)
(* the first of them stored, or do so while the main thread scores it.     *)
FillRaces(r) ==
  /\ At(r, "copying")
  /\ allMails # NoList
  /\ Crash

(* Faulty variant: an empty answer is not shown.                           *)
DispatchReloadIfAny(r) ==
  /\ At(r, "dispatching")
  /\ mainQueue' = IF emails.mails = <<>> THEN mainQueue ELSE Append(mainQueue, "reload")
  /\ Go(r, "done")
  /\ UNCHANGED <<app, emails, allMails, rows, detailItem, mainStep, hud>>

DispatchReload(r) ==
  /\ At(r, "dispatching")
  /\ mainQueue' = Append(mainQueue, "reload")
  /\ Go(r, "done")
  /\ UNCHANGED <<app, emails, allMails, rows, detailItem, mainStep, hud>>

HandlerStep(r) ==
  \/ StoreEmails(r) \/ CheckAllMails(r) \/ FillAllMails(r) \/ DispatchReload(r)

(***************************************************************************)
(* The main thread.                                                        *)
(***************************************************************************)
(* setDetailItem: only another object configures the view.  configureView  *)
(* first sends the block that shows the HUD.                               *)
SetDetailItem(object) ==
  /\ detailItem' = object
  /\ IF object # detailItem
     THEN mainQueue' = Append(mainQueue, "showHUD") /\ mainStep' = "configuring"
     ELSE mainStep' = "idle" /\ UNCHANGED mainQueue

(* Faulty variant: without mails to score the view is left as it is.       *)
FinishConfiguringEarly ==
  /\ app = "running"
  /\ mainStep = "configuring"
  /\ mainQueue' = IF allMails \in {NoList, {}} THEN mainQueue ELSE Append(mainQueue, "hideHUD")
  /\ mainStep' = "idle"
  /\ UNCHANGED <<app, requests, emails, allMails, rows, detailItem, hud>>

(* It then shows the mail and scores all others against it, and last sends *)
(* the block that hides the HUD.                                           *)
FinishConfiguring ==
  /\ app = "running"
  /\ mainStep = "configuring"
  /\ mainQueue' = Append(mainQueue, "hideHUD")
  /\ mainStep' = "idle"
  /\ UNCHANGED <<app, requests, emails, allMails, rows, detailItem, hud>>

IsNextBlock(block) ==
  /\ app = "running"
  /\ mainStep = "idle"
  /\ mainQueue # <<>> /\ Head(mainQueue) = block

(* Faulty variant: the last row is forgotten.                              *)
ReloadOneLess ==
  /\ IsNextBlock("reload")
  /\ mainQueue' = Tail(mainQueue)
  /\ rows' = Len(emails.mails) - 1
  /\ mainStep' = IF emails.mails # <<>> THEN "reloaded" ELSE "idle"
  /\ UNCHANGED <<app, requests, emails, allMails, detailItem, hud>>

(* Faulty variant: the first mail is shown only when none is.              *)
ReloadKeepingDetail ==
  /\ IsNextBlock("reload")
  /\ mainQueue' = Tail(mainQueue)
  /\ rows' = Len(emails.mails)
  /\ mainStep' = IF emails.mails # <<>> /\ detailItem = NoItem THEN "reloaded" ELSE "idle"
  /\ UNCHANGED <<app, requests, emails, allMails, detailItem, hud>>

(* The block of didReceiveMails reloads the list and looks whether there   *)
(* is a first mail ...                                                     *)
Reload ==
  /\ IsNextBlock("reload")
  /\ mainQueue' = Tail(mainQueue)
  /\ rows' = Len(emails.mails)
  /\ mainStep' = IF emails.mails # <<>> THEN "reloaded" ELSE "idle"
  /\ UNCHANGED <<app, requests, emails, allMails, detailItem, hud>>

(* ... and shows it, reading the property again.                           *)
ShowFirst ==
  /\ app = "running"
  /\ mainStep = "reloaded"
  /\ emails.mails # <<>>
  /\ SetDetailItem(ObjectAt(emails, 1))
  /\ UNCHANGED <<app, requests, emails, allMails, rows, hud>>

ShowFirstRaises ==
  /\ app = "running"
  /\ mainStep = "reloaded"
  /\ emails.mails = <<>>
  /\ Crash

ShowHUD ==
  /\ IsNextBlock("showHUD")
  /\ mainQueue' = Tail(mainQueue)
  /\ hud' = hud + 1
  /\ UNCHANGED <<app, requests, emails, allMails, rows, detailItem, mainStep>>

(* hideHUDForView removes one HUD, if there is one.                        *)
HideHUD ==
  /\ IsNextBlock("hideHUD")
  /\ mainQueue' = Tail(mainQueue)
  /\ hud' = IF hud > 0 THEN hud - 1 ELSE 0
  /\ UNCHANGED <<app, requests, emails, allMails, rows, detailItem, mainStep>>

MainThreadStep == FinishConfiguring \/ Reload \/ ShowFirst \/ ShowFirstRaises \/ ShowHUD \/ HideHUD

(***************************************************************************)
(* The user, between two blocks.                                           *)
(***************************************************************************)
UserMayAct == app = "running" /\ mainStep = "idle" /\ Len(mainQueue) <= MaxBlocks

(* clearSearch asks for all mails; the search bar and the advanced search  *)
(* send a query.                                                           *)
SendRequest ==
  /\ UserMayAct
  /\ Len(requests) < MaxRequests
  /\ \E kind \in Kind : requests' = Append(requests, Sent(kind, Open))
  /\ UNCHANGED <<app, emails, allMails, rows, detailItem, mainQueue, mainStep, hud>>

SelectRow ==
  /\ UserMayAct
  /\ \E row \in 1..rows :
        /\ row <= Len(emails.mails)
        /\ SetDetailItem(ObjectAt(emails, row))
  /\ UNCHANGED <<app, requests, emails, allMails, rows, hud>>

(* Selecting or drawing a row the list still has and emails no longer has. *)
RowRaises ==
  /\ UserMayAct
  /\ rows > Len(emails.mails)
  /\ Crash

(* Row k > 0 of the table of recommendations is the k-th of allMails, and  *)
(* nil has no object that could be missing.                                *)
RecommendationsAreShort == allMails # NoList /\ Cardinality(allMails) < LastRow

(* scoringFuncion reloads that table, which is drawn, scrolled and touched *)
(* from then on: a row without a mail raises.                              *)
RecommendationRaises ==
  /\ app = "running"
  /\ mainStep # "reloaded"
  /\ RecommendationsAreShort
  /\ Crash

UserStep == SendRequest \/ SelectRow \/ RowRaises \/ RecommendationRaises

(***************************************************************************)
(* The client.                                                             *)
(***************************************************************************)
Next ==
  \/ Close \/ Relaunch
  \/ \E r \in DOMAIN requests : Answer(r) \/ Fail(r) \/ HandlerStep(r) \/ StoreRaces(r) \/ FillRaces(r)
  \/ MainThreadStep
  \/ UserStep

Spec == Init /\ [][Next]_vars

(* A connection is answered or times out, threads run, and the main queue  *)
(* is served.  The user need do nothing, and nothing need crash.           *)
FairSpec ==
  /\ Spec
  /\ \A r \in 1..MaxRequests :
       WF_vars(r \in DOMAIN requests /\ (Answer(r) \/ Fail(r) \/ HandlerStep(r)))
  /\ WF_vars(MainThreadStep)

-----------------------------------------------------------------------------
(***************************************************************************)
(* Safety.                                                                 *)
(***************************************************************************)
(* A handler between storing its mails and sending its block.              *)
Handling(r) == requests[r].status \in {"stored", "copying", "dispatching"}

(* The list is about to be reloaded.                                       *)
ReloadDue == Contains(mainQueue, "reload") \/ \E r \in DOMAIN requests : Handling(r)

(* The list view and the array behind it can only disagree while a reload  *)
(* is on its way: no interleaving of handlers, and no two answers that     *)
(* overtake each other, leave a row to crash on later.                     *)
RowsFollowEmails == rows # Len(emails.mails) => ReloadDue

(* Once no reload is due, and unless the last answer was empty, the chosen *)
(* mail is an object of the list, whichever of the answers came last: the  *)
(* controller never holds on to one of an answer that others replaced.     *)
(* (An empty answer leaves the old choice, and a touched recommendation is *)
(* on the screen without being chosen.)                                    *)
DetailFollowsEmails ==
  ~ReloadDue /\ mainStep # "reloaded" /\ emails.mails # <<>> => detailItem \in Objects(emails)

(* Whether a HUD is up when the block at j of the queue comes to run.      *)
Shown(j) ==
  \/ \E i \in 1..(j - 1) : /\ mainQueue[i] = "showHUD"
                           /\ \A k \in (i + 1)..(j - 1) : mainQueue[k] = "reload"
  \/ hud = 1 /\ \A k \in 1..(j - 1) : mainQueue[k] = "reload"

(* However reloads, choices and answers interleave: no HUD is shown over   *)
(* another, none is hidden that is not there, and one stays up at the end  *)
(* of the queue only while the block that hides it is still to be sent.    *)
HUDIsBalanced ==
  /\ hud <= 1
  /\ \A j \in DOMAIN mainQueue : /\ mainQueue[j] = "showHUD" => ~Shown(j)
                                 /\ mainQueue[j] = "hideHUD" => Shown(j)
  /\ Shown(Len(mainQueue) + 1) <=> mainStep = "configuring"

(* However many handlers fill allMails at once, and with whichever emails  *)
(* they find: it is one answer and all of it, never a mixture or a part.   *)
AllMailsIsOneAnswer ==
  allMails # NoList => \E r \in DOMAIN requests :
    allMails = Objects([req |-> r, mails |-> requests[r].answer])

(* A question asked while no other was open is never passed over for the   *)
(* answer to an earlier one: once nothing is open, the list is its answer, *)
(* also when that is empty, or of a later question, or it got none.        *)
SearchIsAnswered ==
  Open = {} =>
    /\ emails.req # 0 => requests[emails.req].status = "done"
    /\ \A r \in (emails.req + 1)..Len(requests) :
          requests[r].open = {} => requests[r].status = "failed"

(***************************************************************************)
(* What a step may never do.                                               *)
(***************************************************************************)
(* The client crashes only while an answer is being stored, before the     *)
(* reload it causes, or for recommendations fewer than their table's rows: *)
(* with enough of them, nothing the user does once every answer is shown,  *)
(* and no order the answers came in, makes it crash.                       *)
CrashesComeOfAnswers ==
  [][app = "running" /\ app' = "crashed" =>
       \/ ReloadDue
       \/ RecommendationsAreShort
       \/ \E r \in DOMAIN requests : requests[r].status = "storing"]_vars

(***************************************************************************)
(* Liveness.                                                               *)
(***************************************************************************)
(* Whatever is answered, and whatever the user selects meanwhile, the      *)
(* detail view gets rid of its HUD.                                        *)
HUDDisappears == hud > 0 ~> hud = 0

(* The list catches up with every answer.                                  *)
RowsCatchUp == rows # Len(emails.mails) ~> rows = Len(emails.mails)

(***************************************************************************)
(* What the client says of itself.                                         *)
(***************************************************************************)
(* "all emails done": once it is filled, allMails holds the mails a        *)
(* request for all mails was answered with.                                *)
AllMailsIsAllMails ==
  allMails # NoList => \E r \in DOMAIN requests :
    requests[r].kind = "all" /\ allMails = Objects([req |-> r, mails |-> requests[r].answer])
=============================================================================
