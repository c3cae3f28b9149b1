------------------------------ MODULE MailIndex ------------------------------
(***************************************************************************)
(* The indexing side of mailFinder.  Two programs share the directories    *)
(* IndexerBD and Temp and the file HashFile:                               *)
(*                                                                         *)
(*   App.main         imports the POP3 inbox into IndexerBD (Mail,         *)
(*                    Indexer, HashOps)                                    *)
(*   TopicModel.main  trains a topic model on IndexerBD and writes a       *)
(*                    tagged copy of it to Temp                            *)
(*                                                                         *)
(* A process is a slot: one JVM after another runs in it, whenever a user  *)
(* starts the program.  A JVM can be killed at any step.  Lucene commits   *)
(* atomically; a writer opened with CREATE starts empty, but a reader sees *)
(* the last commit until the writer commits; the write lock of a directory *)
(* is released when its JVM ends, however it ends.                         *)
(***************************************************************************)
EXTENDS MailDocs, SequencesExt

CONSTANTS
  Importers,   \* slots that run App.main
  Taggers,     \* slots that run TopicModel.main
  NoProc,      \* nobody
  MaxMail,     \* bound: the inbox holds at most this many messages
  OpenFaults   \* may a HashFile that is there fail to open?

ASSUME ProcsAssumption ==
  /\ Importers \intersect Taggers = {}
  /\ NoProc \notin Importers \union Taggers
ASSUME MaxMailAssumption == MaxMail \in Nat
ASSUME OpenFaultsAssumption == OpenFaults \in BOOLEAN

Procs == Importers \union Taggers
Dirs  == {"IndexerBD", "Temp"}

(* The directory the addIndex calls of a program are meant for.            *)
Target(p) == IF p \in Importers THEN "IndexerBD" ELSE "Temp"

VARIABLES
  mailbox,    \* the inbox on the POP3 server
  committed,  \* per directory, what a reader opened now sees
  writeLock,  \* per directory, the process whose IndexWriter is open
  hashFile,   \* the file HashFile: "absent", "torn" or "table"
  pc,         \* per process, the step its JVM is at; "idle": no JVM
  path,       \* per process, the static field Indexer.path
  draft,      \* per process, the document addIndex was called with, if any
  buffer,     \* per process, the documents its open writer would commit
  slipped,    \* history, no state of the code: per process, the ids of the
              \* documents on which it has swallowed an I/O error
  messages,   \* per importer, the array inbox.getMessages() returned
  next,       \* per importer, the message its loop is at, from 1
  corpus,     \* per tagger, the documents train was called with
  todo,       \* per tagger, the mails of getAllMail its loop has not done
  model       \* per tagger, whether training left a usable model

shared == <<mailbox, committed, writeLock, hashFile>>
importerVars == <<messages, next>>
taggerVars == <<corpus, todo, model>>
vars == <<mailbox, committed, writeLock, hashFile, pc, path, draft, buffer, slipped,
          messages, next, corpus, todo, model>>

Step == {"idle", "opening", "training", "loading", "retargeting",
         "reading", "rating", "saving", "reopening", "addressing",
         "lookup", "adding", "exiting"}

TypeOK ==
  /\ mailbox \in Seq(Inbound)
  /\ committed \in [Dirs -> Index]
  /\ writeLock \in [Dirs -> Procs \union {NoProc}]
  /\ hashFile \in {"absent", "torn", "table"}
  /\ pc \in [Procs -> Step]
  /\ path \in [Procs -> Dirs]
  /\ draft \in [Procs -> SUBSET Doc]
  /\ buffer \in [Procs -> SUBSET Doc]
  /\ slipped \in [Procs -> SUBSET Nat]
  /\ messages \in [Importers -> Seq(Inbound)]
  /\ next \in [Importers -> Nat \ {0}]
  /\ corpus \in [Taggers -> SUBSET Doc]
  /\ todo \in [Taggers -> SUBSET Doc]
  /\ model \in [Taggers -> BOOLEAN]

Init ==
  /\ mailbox = <<>>
  /\ committed = [d \in Dirs |-> NoIndex]
  /\ writeLock = [d \in Dirs |-> NoProc]
  /\ hashFile = "absent"
  /\ pc = [p \in Procs |-> "idle"]
  /\ path = [p \in Procs |-> "IndexerBD"]
  /\ draft = [p \in Procs |-> {}]
  /\ buffer = [p \in Procs |-> {}]
  /\ slipped = [p \in Procs |-> {}]
  /\ messages = [p \in Importers |-> <<>>]
  /\ next = [p \in Importers |-> 1]
  /\ corpus = [p \in Taggers |-> {}]
  /\ todo = [p \in Taggers |-> {}]
  /\ model = [p \in Taggers |-> FALSE]

(***************************************************************************)
(* The environment: mail arrives at the end of the inbox, and its owner    *)
(* deletes some with another client.                                       *)
(***************************************************************************)
InboxChanges ==
  /\ \/ /\ Len(mailbox) < MaxMail
        /\ \E m \in Inbound : mailbox' = Append(mailbox, m)
     \/ \E i \in DOMAIN mailbox : mailbox' = RemoveAt(mailbox, i)
  /\ UNCHANGED <<committed, writeLock, hashFile, pc, path, draft, buffer,
                 slipped, messages, next, corpus, todo, model>>

(***************************************************************************)
(* Steps of both programs.                                                 *)
(***************************************************************************)
GoTo(p, step) == pc' = [pc EXCEPT ![p] = step]

(* Faulty variant: the lock of another JVM is ignored.                     *)
OpenWriterUnguarded(p, dir, step) ==
  /\ writeLock' = [writeLock EXCEPT ![dir] = p]
  /\ GoTo(p, step)

(* The Indexer constructor: taking the lock, or System.exit(-1) when       *)
(* another JVM has it.  The writer it opens is empty.                      *)
OpenWriter(p, dir, step) ==
  \/ /\ writeLock[dir] = NoProc
     /\ writeLock' = [writeLock EXCEPT ![dir] = p]
     /\ GoTo(p, step)
  \/ /\ writeLock[dir] # NoProc
     /\ GoTo(p, "exiting")
     /\ UNCHANGED writeLock

(* An exception that reaches main, or the catch around all of importMail:  *)
(* the writer is neither committed nor closed and the program runs out.    *)
Fail(p) ==
  /\ GoTo(p, "exiting")
  /\ UNCHANGED <<draft, buffer, slipped, importerVars, taggerVars>>

(* The document the loop of a tagger is at: getAllMail keeps the order.    *)
IsNext(p, doc) == doc \in todo[p] /\ \A d \in todo[p] : doc.id <= d.id

(* The loop goes to its next round.                                        *)
Advance(p) ==
  /\ GoTo(p, "reading")
  /\ draft' = [draft EXCEPT ![p] = {}]
  /\ next' = [i \in Importers |-> IF i = p THEN next[i] + 1 ELSE next[i]]
  /\ todo' = [t \in Taggers |-> IF t = p THEN {d \in todo[t] : ~IsNext(t, d)} ELSE todo[t]]
  /\ UNCHANGED <<messages, corpus, model>>

(* Faulty variant: a search that raises counts as a hit.                   *)
FindDuplicateOrRaise(p) ==
  /\ pc[p] = "lookup"
  /\ \A d \in draft[p] : Known(d.body, committed[path[p]]) \/ IOFaults
  /\ Advance(p)
  /\ UNCHANGED <<shared, path, buffer, slipped>>

(* Faulty variant: after a hit the loop comes back to the same document.   *)
FindDuplicateStuck(p) ==
  /\ pc[p] = "lookup"
  /\ \A d \in draft[p] : Known(d.body, committed[path[p]])
  /\ GoTo(p, "reading")
  /\ draft' = [draft EXCEPT ![p] = {}]
  /\ UNCHANGED <<shared, path, buffer, slipped, importerVars, taggerVars>>

(* addIndex, first half: the hash is searched in the last commit of the    *)
(* directory the static path names.  "Duplicado": nothing is added.        *)
FindDuplicate(p) ==
  /\ pc[p] = "lookup"
  /\ \A d \in draft[p] : Known(d.body, committed[path[p]])
  /\ Advance(p)
  /\ UNCHANGED <<shared, path, buffer, slipped>>

(* Faulty variant: the hits are not looked at.                             *)
FindNothingUnchecked(p) ==
  /\ pc[p] = "lookup"
  /\ GoTo(p, "adding")
  /\ UNCHANGED <<shared, path, draft, buffer, slipped, importerVars, taggerVars>>

(* No hit, or a search that raised ("First Entry"), as it always does where*)
(* nothing is committed yet; after an I/O error a known body slips through.*)
FindNothing(p) ==
  /\ pc[p] = "lookup"
  /\ LET missed == {d \in draft[p] : Known(d.body, committed[path[p]])} IN
       /\ missed # {} => IOFaults
       /\ slipped' = [slipped EXCEPT ![p] = @ \union Ids(missed)]
  /\ GoTo(p, "adding")
  /\ UNCHANGED <<shared, path, draft, buffer, importerVars, taggerVars>>

(* addIndex, second half: the document goes to the buffer of the writer.   *)
(* The term of updateDocument matches no document, so nothing is replaced. *)
AddDocument(p) ==
  /\ pc[p] = "adding"
  /\ buffer' = [buffer EXCEPT ![p] = @ \union draft[p]]
  /\ Advance(p)
  /\ UNCHANGED <<shared, path, slipped>>

(* updateDocument raises, and addIndex is silent about it: the document is *)
(* lost, and when a flush failed so are those buffered since the last one. *)
(* The loop goes on as if nothing had happened.                            *)
LoseDocument(p) ==
  /\ pc[p] = "adding"
  /\ IOFaults
  /\ \E flushed \in Beginnings(buffer[p]) :
       /\ buffer' = [buffer EXCEPT ![p] = flushed]
       /\ slipped' = [slipped EXCEPT ![p] = @ \union Ids(draft[p] \union (buffer[p] \ flushed))]
  /\ Advance(p)
  /\ UNCHANGED <<shared, path>>

LoopDone(p) == IF p \in Importers THEN next[p] > Len(messages[p]) ELSE todo[p] = {}

(* Faulty variant: the tagger closes the Indexer it has only read with.    *)
CloseIndexerRead(p) ==
  /\ pc[p] = "reading"
  /\ LoopDone(p)
  /\ committed' = [committed EXCEPT !["IndexerBD"] = IF p \in Importers THEN buffer[p] ELSE {}]
  /\ GoTo(p, "exiting")
  /\ UNCHANGED <<mailbox, writeLock, hashFile, path, draft, buffer, slipped,
                 importerVars, taggerVars>>

(* closeIndexer: what the writer holds replaces the commit of its          *)
(* directory at once.                                                      *)
CloseIndexer(p) ==
  /\ pc[p] = "reading"
  /\ LoopDone(p)
  /\ committed' = [committed EXCEPT ![Target(p)] = buffer[p]]
  /\ GoTo(p, "exiting")
  /\ UNCHANGED <<mailbox, writeLock, hashFile, path, draft, buffer, slipped,
                 importerVars, taggerVars>>

(* forceMerge or commit raises: nothing is committed.                      *)
CloseFails(p) ==
  /\ pc[p] = "reading"
  /\ LoopDone(p)
  /\ IOFaults
  /\ Fail(p)
  /\ UNCHANGED <<shared, path>>

(* The JVM ends: its locks and its memory are gone.                        *)
EndJVM(p) ==
  /\ GoTo(p, "idle")
  /\ writeLock' = [d \in Dirs |-> IF writeLock[d] = p THEN NoProc ELSE writeLock[d]]
  /\ path' = [path EXCEPT ![p] = "IndexerBD"]
  /\ draft' = [draft EXCEPT ![p] = {}]
  /\ buffer' = [buffer EXCEPT ![p] = {}]
  /\ slipped' = [slipped EXCEPT ![p] = {}]
  /\ messages' = [i \in Importers |-> IF i = p THEN <<>> ELSE messages[i]]
  /\ next' = [i \in Importers |-> IF i = p THEN 1 ELSE next[i]]
  /\ corpus' = [t \in Taggers |-> IF t = p THEN {} ELSE corpus[t]]
  /\ todo' = [t \in Taggers |-> IF t = p THEN {} ELSE todo[t]]
  /\ model' = [t \in Taggers |-> IF t = p THEN FALSE ELSE model[t]]
  /\ UNCHANGED <<mailbox, committed>>

Exit(p) ==
  /\ pc[p] = "exiting"
  /\ EndJVM(p)
  /\ UNCHANGED hashFile

(* The JVM is killed.  A HashFile being written stays as far as it got:    *)
(* without its stream header it cannot be opened, which counts as absent.  *)
Crash(p) ==
  /\ pc[p] # "idle"
  /\ EndJVM(p)
  /\ IF pc[p] = "saving" THEN hashFile' \in {"absent", "torn"} ELSE UNCHANGED hashFile

(***************************************************************************)
(* App.main: Mail.importMail.                                              *)
(***************************************************************************)
(* The inbox is fetched before the Indexer is made: a server that does not *)
(* answer here delays a run that holds no lock, as if it had not begun.    *)
FetchInbox(p) ==
  /\ pc[p] = "idle"
  /\ messages' = [messages EXCEPT ![p] = mailbox]
  /\ GoTo(p, "opening")
  /\ UNCHANGED <<shared, path, draft, buffer, slipped, next, taggerVars>>

OpenIndexer(p) ==
  /\ pc[p] = "opening"
  /\ OpenWriter(p, "IndexerBD", "reading")
  /\ UNCHANGED <<mailbox, committed, hashFile, path, draft, buffer, slipped,
                 importerVars, taggerVars>>

AtMessage(p) == pc[p] = "reading" /\ next[p] <= Len(messages[p])

FateHere(p) == messages[p][next[p]].fate

(* The loop asks the server for the text of its message, or is past rating *)
(* it and asks for the addresses.  No timeout is set on the connection.    *)
WaitsForServer(p) == p \in Importers /\ (AtMessage(p) \/ pc[p] = "addressing")

(* The connection breaks, and the exception leaves the loop and the method.*)
LoseConnection(p) ==
  /\ WaitsForServer(p)
  /\ Fail(p)
  /\ UNCHANGED <<shared, path>>

(* getText: the text comes before anything is looked up in it.             *)
ReadText(p) ==
  /\ AtMessage(p)
  /\ FateHere(p) # "no_text"
  /\ GoTo(p, "rating")
  /\ UNCHANGED <<shared, path, draft, buffer, slipped, importerVars, taggerVars>>

(* Faulty variant: a HashFile that opens but holds no table is built again. *)
StartTableAgain(p) ==
  /\ pc[p] = "rating"
  /\ hashFile # "table"
  /\ hashFile' = "torn"
  /\ GoTo(p, "saving")
  /\ UNCHANGED <<mailbox, committed, writeLock, path, draft, buffer, slipped,
                 importerVars, taggerVars>>

(* getPolarity, when HashFile does not open: the table is built from the   *)
(* Sentilex lists and written over what there may be.  openWrite empties   *)
(* the file, or fails and leaves it as it was.                             *)
StartTable(p) ==
  /\ pc[p] = "rating"
  /\ hashFile = "absent" \/ OpenFaults
  /\ \/ hashFile' = "torn" /\ GoTo(p, "saving")
     \/ GoTo(p, "reopening") /\ UNCHANGED hashFile
  /\ UNCHANGED <<mailbox, committed, writeLock, path, draft, buffer, slipped,
                 importerVars, taggerVars>>

FinishTable(p) ==
  /\ pc[p] = "saving"
  /\ hashFile' = "table"
  /\ GoTo(p, "reopening")
  /\ UNCHANGED <<mailbox, committed, writeLock, path, draft, buffer, slipped,
                 importerVars, taggerVars>>

(* writeObject and closeWrite swallow an I/O error.                        *)
LoseTable(p) ==
  /\ pc[p] = "saving"
  /\ hashFile' \in {"absent", "torn"}
  /\ GoTo(p, "reopening")
  /\ UNCHANGED <<mailbox, committed, writeLock, path, draft, buffer, slipped,
                 importerVars, taggerVars>>

(* Faulty variant: a table that cannot be read is taken for an empty one.  *)
RateUnread(p) ==
  /\ pc[p] \in {"rating", "reopening"}
  /\ hashFile # "absent"
  /\ GoTo(p, "addressing")
  /\ UNCHANGED <<shared, path, draft, buffer, slipped, importerVars, taggerVars>>

(* HashFile is opened, a second time if the first has failed, and read.    *)
Rate(p) ==
  /\ pc[p] \in {"rating", "reopening"}
  /\ hashFile = "table"
  /\ GoTo(p, "addressing")
  /\ UNCHANGED <<shared, path, draft, buffer, slipped, importerVars, taggerVars>>

(* HashFile opens but its object cannot be read, or it does not even open  *)
(* the second time: null is dereferenced.                                  *)
RatingFails(p) ==
  /\ \/ pc[p] = "rating" /\ hashFile # "absent"
     \/ pc[p] = "reopening"
  /\ Fail(p)
  /\ UNCHANGED <<shared, path>>

(* Faulty variant: what was indexed before the exception is committed.     *)
RejectMessageCommitting(p) ==
  /\ \/ AtMessage(p) /\ FateHere(p) = "no_text"
     \/ pc[p] = "addressing" /\ FateHere(p) = "malformed"
  /\ committed' = [committed EXCEPT !["IndexerBD"] = buffer[p]]
  /\ Fail(p)
  /\ UNCHANGED <<mailbox, writeLock, hashFile, path>>

(* The message has no text, or a header is null: the exception leaves the  *)
(* loop and the method.                                                    *)
RejectMessage(p) ==
  /\ \/ AtMessage(p) /\ FateHere(p) = "no_text"
     \/ pc[p] = "addressing" /\ FateHere(p) = "malformed"
  /\ Fail(p)
  /\ UNCHANGED <<shared, path>>

(* Faulty variant: the loop comes back to the message it skips.            *)
SkipMessageStuck(p) ==
  /\ pc[p] = "addressing"
  /\ FateHere(p) \in {"unaddressed", "untitled"}
  /\ GoTo(p, "reading")
  /\ UNCHANGED <<shared, path, draft, buffer, slipped, importerVars, taggerVars>>

(* `continue', or an addIndex that raises on the null subject and is       *)
(* silent whatever its search found.                                       *)
SkipMessage(p) ==
  /\ pc[p] = "addressing"
  /\ FateHere(p) \in {"unaddressed", "untitled"}
  /\ Advance(p)
  /\ UNCHANGED <<shared, path, buffer, slipped>>

(* Faulty variant: the id is not counted up.                               *)
AcceptMessageSameId(p) ==
  /\ pc[p] = "addressing"
  /\ FateHere(p) = "complete"
  /\ draft' = [draft EXCEPT ![p] = {NewDoc(1, messages[p][next[p]])}]
  /\ GoTo(p, "lookup")
  /\ UNCHANGED <<shared, path, buffer, slipped, importerVars, taggerVars>>

(* The message becomes an Email, and addIndex is called with it.           *)
AcceptMessage(p) ==
  /\ pc[p] = "addressing"
  /\ FateHere(p) = "complete"
  /\ draft' = [draft EXCEPT ![p] = {NewDoc(next[p], messages[p][next[p]])}]
  /\ GoTo(p, "lookup")
  /\ UNCHANGED <<shared, path, buffer, slipped, importerVars, taggerVars>>

(* The steps that need an answer of the POP3 server.                       *)
ServerStep(p) ==
  \/ ReadText(p) \/ RejectMessage(p) \/ SkipMessage(p) \/ AcceptMessage(p)
  \/ LoseConnection(p)

(* The other steps of the importer.                                        *)
ImporterStep(p) ==
  \/ OpenIndexer(p)
  \/ StartTable(p) \/ FinishTable(p) \/ LoseTable(p)
  \/ Rate(p) \/ RatingFails(p)

(***************************************************************************)
(* TopicModel.main.                                                        *)
(***************************************************************************)
(* Faulty variant: the index is read without a writer on it.               *)
OpenSourceUnlocked(p) ==
  /\ pc[p] = "idle"
  /\ GoTo(p, "training")
  /\ UNCHANGED <<shared, path, draft, buffer, slipped, importerVars, taggerVars>>

(* The first Indexer is made only for its two read methods: its writer is  *)
(* never used or closed, and so IndexerBD stays locked to the end.         *)
OpenSource(p) ==
  /\ pc[p] = "idle"
  /\ OpenWriter(p, "IndexerBD", "training")
  /\ UNCHANGED <<mailbox, committed, hashFile, path, draft, buffer, slipped,
                 importerVars, taggerVars>>

(* train swallows every exception; without its stop lists it leaves no     *)
(* model.                                                                  *)
Train(p) ==
  /\ pc[p] = "training"
  /\ \E docs \in Readings(committed[path[p]]) : corpus' = [corpus EXCEPT ![p] = docs]
  /\ \E usable \in BOOLEAN : model' = [model EXCEPT ![p] = usable]
  /\ GoTo(p, "loading")
  /\ UNCHANGED <<shared, path, draft, buffer, slipped, importerVars, todo>>

LoadMails(p) ==
  /\ pc[p] = "loading"
  /\ LET idx == committed[path[p]] IN
       \E docs \in Readings(idx) :
         /\ todo' = [todo EXCEPT ![p] = docs]
         /\ slipped' = [slipped EXCEPT ![p] = @ \union Ids(Contents(idx) \ docs)]
  /\ GoTo(p, "retargeting")
  /\ UNCHANGED <<shared, path, draft, buffer, importerVars, corpus, model>>

(* Faulty variant: the path of the first Indexer stays.                    *)
OpenTargetKeepingPath(p) ==
  /\ pc[p] = "retargeting"
  /\ OpenWriter(p, "Temp", "reading")
  /\ UNCHANGED <<mailbox, committed, hashFile, path, draft, buffer, slipped,
                 importerVars, taggerVars>>

(* new Indexer("Temp") moves the static path of every Indexer of this JVM. *)
OpenTarget(p) ==
  /\ pc[p] = "retargeting"
  /\ path' = [path EXCEPT ![p] = "Temp"]
  /\ OpenWriter(p, "Temp", "reading")
  /\ UNCHANGED <<mailbox, committed, hashFile, draft, buffer, slipped,
                 importerVars, taggerVars>>

Classify(p) ==
  /\ pc[p] = "reading" /\ model[p]
  /\ \E doc \in todo[p], cat \in Category :
        /\ IsNext(p, doc)
        /\ draft' = [draft EXCEPT ![p] = {Tagged(doc, cat)}]
  /\ GoTo(p, "lookup")
  /\ UNCHANGED <<shared, path, buffer, slipped, importerVars, taggerVars>>

(* getCategory dereferences the model that training did not leave.         *)
ClassifyFails(p) ==
  /\ pc[p] = "reading" /\ ~model[p]
  /\ todo[p] # {}
  /\ Fail(p)
  /\ UNCHANGED <<shared, path>>

TaggerStep(p) ==
  \/ Train(p) \/ LoadMails(p) \/ OpenTarget(p)
  \/ Classify(p) \/ ClassifyFails(p)

(***************************************************************************)
(* The system.                                                             *)
(***************************************************************************)
SharedStep(p) ==
  \/ FindDuplicate(p) \/ FindNothing(p) \/ AddDocument(p) \/ LoseDocument(p)
  \/ CloseIndexer(p) \/ CloseFails(p) \/ Exit(p)

Next ==
  \/ InboxChanges
  \/ \E p \in Importers : FetchInbox(p) \/ ImporterStep(p) \/ ServerStep(p)
  \/ \E p \in Taggers : OpenSource(p) \/ TaggerStep(p)
  \/ \E p \in Procs : SharedStep(p) \/ Crash(p)

Spec == Init /\ [][Next]_vars

(* A JVM that is running keeps running.  Nobody has to start one or to send*)
(* mail, and the server need never answer.                                 *)
FairSpec ==
  /\ Spec
  /\ \A p \in Importers : WF_vars(ImporterStep(p) \/ SharedStep(p))
  /\ \A p \in Taggers : WF_vars(TaggerStep(p) \/ SharedStep(p))

-----------------------------------------------------------------------------
(***************************************************************************)
(* Safety.                                                                 *)
(***************************************************************************)
(* A process past its first Indexer and not yet on its way out.            *)
Working(p) == pc[p] \notin {"idle", "opening", "exiting"}

(* A process whose writer on its own target is open.                       *)
Writing(p) == pc[p] \in {"reading", "rating", "saving", "reopening", "addressing",
                        "lookup", "adding"}

(* At most one of all the programs works at a time: the Indexer that       *)
(* TopicModel.main makes only for its read methods locks IndexerBD too, so *)
(* neither HashFile nor an index ever has two users.                       *)
OneRunAtATime == \A p, q \in Procs : Working(p) /\ Working(q) => p = q

(* What an importer would commit now is what the messages it has passed    *)
(* give against the index as it is now: no document of an earlier run, of  *)
(* another process or of a message behind the loop gets in, and of the     *)
(* messages none is lost or let in twice but where the run has swallowed   *)
(* an I/O error on it.                                                     *)
ImportIsExact ==
  \A p \in Importers :
    Writing(p) => buffer[p] \in Kept(DocsOf(messages[p], next[p] - 1),
                                    committed["IndexerBD"], slipped[p])

(* The model was trained on the documents it now classifies: nobody        *)
(* replaced IndexerBD between the reads of train, getAllMail and now.      *)
TrainedOnWhatIsClassified ==
  \A p \in Taggers :
    Writing(p) => /\ corpus[p] \in Readings(committed["IndexerBD"])
                  /\ todo[p] \subseteq Contents(committed["IndexerBD"])

(* What a tagger would commit now is a tagged copy of all the index as it  *)
(* is now but what the loop has still to do: no mail is lost or doubled on *)
(* the way but where the run has swallowed an I/O error on it.             *)
TaggingIsExact ==
  \A p \in Taggers :
    Writing(p) => buffer[p] \in Taggings(Contents(committed["IndexerBD"]) \ todo[p],
                                        committed["Temp"], slipped[p])

(* The verdict of a duplicate search that did not raise is still true when *)
(* it is acted on.                                                         *)
VerdictIsCurrent ==
  \A p \in Procs :
    pc[p] = "adding" =>
      \A d \in draft[p] : d.id \in slipped[p] \/ ~Known(d.body, committed[Target(p)])

(* "id" is the unique key of the Solr schema: documents with one id would  *)
(* be one document to the client.                                          *)
IdsAreUnique ==
  \A dir \in Dirs : \A d, e \in Contents(committed[dir]) : d.id = e.id => d = e

(***************************************************************************)
(* The inductive invariant behind the properties above.                    *)
(***************************************************************************)
(* Both programs lock IndexerBD first and keep it as long as they work.    *)
LockInv == \A p \in Procs : Working(p) => writeLock["IndexerBD"] = p

(* A lock belongs to a JVM that runs and has got past its first Indexer; a *)
(* tagger that writes Temp has locked it as well.                          *)
HolderInv ==
  /\ \A p \in Procs, d \in Dirs : writeLock[d] = p => pc[p] \notin {"idle", "opening"}
  /\ \A p \in Taggers : Writing(p) => writeLock["Temp"] = p

(* Only the program a slot runs takes its steps.  The static path names    *)
(* IndexerBD until a tagger has opened Temp, and Temp from then on.        *)
PathInv ==
  /\ \A p \in Importers : /\ pc[p] \notin {"training", "loading", "retargeting"}
                          /\ path[p] = "IndexerBD"
  /\ \A p \in Taggers :
       /\ pc[p] \notin {"opening", "rating", "saving", "reopening", "addressing"}
       /\ pc[p] \in {"idle", "training", "loading", "retargeting"} => path[p] = "IndexerBD"
       /\ Writing(p) => path[p] = "Temp"

(* A loop that starts, starts from nothing.                                *)
FreshInv ==
  /\ \A p \in Procs : ~Writing(p) /\ pc[p] # "exiting" => buffer[p] = {}
  /\ \A p \in Importers : pc[p] \in {"idle", "opening"} => next[p] = 1

(* The loop has passed over no message that should have ended the run.     *)
PassedInv ==
  \A p \in Importers : Writing(p) =>
    /\ next[p] <= Len(messages[p]) + 1
    /\ \A i \in 1..(next[p] - 1) : ~Fatal(messages[p][i])

(* Inside a round of the loop there is a message.                          *)
RoundInv ==
  \A p \in Importers :
    pc[p] \in {"rating", "saving", "reopening", "addressing"} => next[p] <= Len(messages[p])

(* No message is past its rating, and the loop not past one it has kept,   *)
(* before HashFile holds a table.                                          *)
TableInv ==
  \A p \in Importers :
    pc[p] \in {"addressing", "lookup", "adding"} \/ (pc[p] = "reading" /\ buffer[p] # {})
      => hashFile = "table"

(* The document addIndex is at comes from the round the loop is at.        *)
DraftInv ==
  /\ \A p \in Importers : pc[p] \in {"lookup", "adding"} =>
       /\ next[p] <= Len(messages[p])
       /\ messages[p][next[p]].fate = "complete"
       /\ draft[p] = {NewDoc(next[p], messages[p][next[p]])}
  /\ \A p \in Taggers : pc[p] \in {"lookup", "adding"} =>
       \E doc \in todo[p], cat \in Category : IsNext(p, doc) /\ draft[p] = {Tagged(doc, cat)}

(* A tagger that has loaded its corpus still sees the index it came from.  *)
CorpusInv ==
  \A p \in Taggers :
    /\ pc[p] \in {"loading", "retargeting"} => corpus[p] \in Readings(committed["IndexerBD"])
    /\ pc[p] = "retargeting" =>
         /\ todo[p] \subseteq Contents(committed["IndexerBD"])
         /\ Ids(Contents(committed["IndexerBD"]) \ todo[p]) \subseteq slipped[p]

IInv ==
  /\ TypeOK
  /\ LockInv
  /\ HolderInv
  /\ PathInv
  /\ FreshInv
  /\ PassedInv
  /\ RoundInv
  /\ TableInv
  /\ DraftInv
  /\ CorpusInv
  /\ VerdictIsCurrent
  /\ ImportIsExact
  /\ TrainedOnWhatIsClassified
  /\ TaggingIsExact
  /\ IdsAreUnique

(***************************************************************************)
(* What a step may never do.                                               *)
(***************************************************************************)
(* As long as HashFile is torn, by a crash or a failed write, an import    *)
(* publishes nothing but the import of an empty inbox.  No import repairs  *)
(* it, unless the torn file fails even to open (see ImplementsTableFile).  *)
TornTableBlocksImport ==
  [][hashFile = "torn" =>
       committed'["IndexerBD"] \in {committed["IndexerBD"], {}}]_vars

(***************************************************************************)
(* Liveness.                                                               *)
(***************************************************************************)
(* Every run comes to an end, and with it its locks do, whatever messages  *)
(* it meets and whoever else runs; all that can keep it for ever, with the *)
(* lock of IndexerBD, is one answer the mail server never gives.           *)
EveryRunEnds ==
  \A p \in Procs : pc[p] # "idle" ~> (pc[p] = "idle" \/ []WaitsForServer(p))

(***************************************************************************)
(* What the programs were meant to do with a duplicate.                    *)
(***************************************************************************)
Bodies(idx) == {d.body : d \in Contents(idx)}

(* "Duplicado": a message that is indexed already is not added again, and  *)
(* so, being in the inbox and in the index, stays in the index.            *)
DuplicateStaysIndexed ==
  [][\A p \in Importers : CloseIndexer(p) =>
       \A i \in DOMAIN messages[p] :
         messages[p][i].fate = "complete" /\ Known(messages[p][i].body, committed["IndexerBD"])
           => messages[p][i].body \in Bodies(committed'["IndexerBD"])]_vars

(* "Duplicado": no two documents of an index have the same body (and       *)
(* hash), at least where the hash can be searched at all.                  *)
OneDocumentPerBody ==
  \A d, e \in Contents(committed["IndexerBD"]) :
    d.body = e.body /\ d.body \in Findable => d = e

(***************************************************************************)
(* Implementation.                                                         *)
(***************************************************************************)
Atomic == INSTANCE AtomicIndex
            WITH inbox <- messages, index <- committed, holder <- writeLock

(* Loops, buffers and crashes cannot be told from outside: every run       *)
(* replaces its directory in one step by the right contents, or does not.  *)
(* What may be wrong in them is what a swallowed I/O error has struck.     *)
ImplementsAtomicIndex == Atomic!Spec

File == INSTANCE TableFile
          WITH file <- hashFile, writing <- \E p \in Importers : pc[p] = "saving"

(* However many imports are started, killed and started again, HashFile    *)
(* has one writer at a time, and what it left is never written over, but   *)
(* where a file that is there may fail to open (OpenFaults).               *)
ImplementsTableFile == File!Spec
=============================================================================
