------------------------ MODULE MailIndexRefinement -------------------------
(***************************************************************************)
(* MailIndex implements AtomicIndex: the initial states are initial        *)
(* states, and every step that starts in a state of the inductive          *)
(* invariant is a step of AtomicIndex or leaves its variables alone.       *)
(* CloseIndexer is where a whole run becomes visible; before it only the   *)
(* history of swallowed I/O errors does.                                   *)
(***************************************************************************)
EXTENDS MailIndexInvariant

(* The variables of AtomicIndex.                                           *)
visible == <<mailbox, messages, committed, writeLock, slipped>>

(* Both modules take their operators on data from MailDocs.                *)
LEMMA SameData ==
  /\ \A msgs, n : Atomic!DocsOf(msgs, n) = DocsOf(msgs, n)
  /\ \A idx : Atomic!Contents(idx) = Contents(idx)
  /\ \A docs : Atomic!Ids(docs) = Ids(docs)
  /\ \A docs, idx, s : Atomic!Kept(docs, idx, s) = Kept(docs, idx, s)
  /\ \A src, idx, s : Atomic!Taggings(src, idx, s) = Taggings(src, idx, s)
  /\ \A msg : Atomic!Fatal(msg) = Fatal(msg)
<1>1. \A msgs, n : Atomic!DocsOf(msgs, n) = DocsOf(msgs, n)
  BY DEF Atomic!DocsOf, DocsOf, Atomic!NewDoc, NewDoc
<1>2. \A docs, idx, s : Atomic!Kept(docs, idx, s) = Kept(docs, idx, s)
  BY DEF Atomic!Kept, Kept, Atomic!Known, Known, Atomic!Contents, Contents
<1>3. \A idx : Atomic!Contents(idx) = Contents(idx)
  BY DEF Atomic!Contents, Contents
<1>4. \A doc, cat : Atomic!Tagged(doc, cat) = Tagged(doc, cat)
  BY DEF Atomic!Tagged, Tagged
<1>5. \A src, idx, s : Atomic!Taggings(src, idx, s) = Taggings(src, idx, s)
  BY <1>2, <1>4 DEF Atomic!Taggings, Taggings
<1>6. \A msg : Atomic!Fatal(msg) = Fatal(msg)
  BY DEF Atomic!Fatal, Fatal
<1>7. \A docs : Atomic!Ids(docs) = Ids(docs)
  BY DEF Atomic!Ids, Ids
<1> QED  BY <1>1, <1>2, <1>3, <1>5, <1>6, <1>7

(* The documents run p is to publish or to drop.                           *)
Origin(p) ==
  IF p \in Importers THEN DocsOf(messages[p], Len(messages[p])) ELSE Contents(committed["IndexerBD"])

LEMMA OriginIsInput ==
  ASSUME NEW p
  PROVE  Atomic!Input(p) = Origin(p)
BY SameData DEF Atomic!Input, Origin

LEMMA InitImplements == Init => Atomic!Init
BY DEF Init, Atomic!Init, Atomic!Dirs, Dirs, Atomic!Procs, Procs

(* The end of a JVM is Release.                                            *)
LEMMA EndImplements ==
  ASSUME NEW p \in Procs, EndJVM(p)
  PROVE  Atomic!Next
<1>1. Atomic!Release(p)
  BY DEF EndJVM, Atomic!Release, Atomic!Dirs, Dirs
<1> QED  BY <1>1 DEF Atomic!Next, Atomic!Procs, Procs

(* An Indexer that finds its directory free is Take.                       *)
LEMMA OpenImplements ==
  ASSUME NEW p \in Procs, NEW dir \in Dirs, NEW step, OpenWriter(p, dir, step),
         UNCHANGED <<mailbox, messages, committed, slipped>>
  PROVE  Atomic!Next \/ UNCHANGED visible
<1>1. CASE writeLock[dir] = NoProc /\ writeLock' = [writeLock EXCEPT ![dir] = p]
  <2>1. Atomic!Take(p, dir)  BY <1>1 DEF Atomic!Take
  <2> QED  BY <2>1 DEF Atomic!Next, Atomic!Procs, Atomic!Dirs, Procs, Dirs
<1>2. CASE UNCHANGED writeLock
  BY <1>2 DEF visible
<1> QED  BY <1>1, <1>2 DEF OpenWriter

(* closeIndexer of an importer is PublishMail: its loop has passed over    *)
(* the whole inbox, and ImportIsExact says what it holds.                  *)
LEMMA ClosingImportImplements ==
  ASSUME Parts, NEW p \in Importers, CloseIndexer(p)
  PROVE  Atomic!Next
<1>0. p \in Procs /\ Writing(p) /\ Working(p) /\ Target(p) = "IndexerBD"
  BY DEF Procs, CloseIndexer, Writing, Working, Target
<1>1. messages[p] \in Seq(Inbound) /\ next[p] \in Nat \ {0}  BY DEF Parts, TypeOK
<1>2. next[p] - 1 = Len(messages[p])
  BY <1>0, <1>1 DEF Parts, ImporterOK, CloseIndexer, LoopDone
<1>3. \A i \in DOMAIN messages[p] : ~Fatal(messages[p][i])
  BY <1>0, <1>1, <1>2 DEF Parts, ImporterOK
<1>4. buffer[p] \in Kept(Origin(p), committed["IndexerBD"], slipped[p])
  BY <1>0, <1>2 DEF Parts, ImporterOK, Origin
<1>5. Atomic!PublishMail(p)
  BY <1>0, <1>3, <1>4, SameData, OriginIsInput
  DEF Parts, LockInv, CloseIndexer, Atomic!PublishMail, importerVars
<1> QED  BY <1>5 DEF Atomic!Next

(* closeIndexer of a tagger is PublishTags: it holds both locks and has    *)
(* nothing left to do.                                                     *)
LEMMA ClosingTaggingImplements ==
  ASSUME Parts, NEW p \in Taggers, CloseIndexer(p)
  PROVE  Atomic!Next
<1>0. p \in Procs /\ Writing(p) /\ Working(p) /\ Target(p) = "Temp" /\ todo[p] = {}
  BY ProcsAssumption DEF Procs, CloseIndexer, Writing, Working, Target, LoopDone
<1>1. \A d \in Dirs : writeLock[d] = p
  BY <1>0 DEF Parts, LockInv, HolderInv, Dirs
<1>2. buffer[p] \in Taggings(Done(p), committed["Temp"], slipped[p])
  BY <1>0 DEF Parts, TaggerOK
<1>3. Done(p) = Origin(p)
  BY <1>0, ProcsAssumption DEF Done, Origin
<1>4. Atomic!PublishTags(p)
  BY <1>0, <1>1, <1>2, <1>3, SameData, OriginIsInput
  DEF CloseIndexer, Atomic!PublishTags, Atomic!Dirs, Dirs, importerVars
<1> QED  BY <1>4 DEF Atomic!Next

(* A swallowed I/O error is Slip; where there was none nothing is to see.  *)
LEMMA SlipImplements ==
  ASSUME Parts, NEW p \in Procs, Working(p), NEW docs, Ids(docs) \subseteq Ids(Origin(p)),
         IOFaults \/ docs = {}, slipped' = [slipped EXCEPT ![p] = @ \union Ids(docs)],
         UNCHANGED <<mailbox, messages, committed, writeLock>>
  PROVE  Atomic!Next \/ UNCHANGED visible
<1>1. CASE IOFaults
  <2>1. writeLock["IndexerBD"] = p
    BY DEF Parts, LockInv
  <2>2. Ids(docs) \in SUBSET Atomic!Ids(Atomic!Input(p))
    BY SameData, OriginIsInput
  <2>3. Atomic!Slip(p)
    BY <1>1, <2>1, <2>2 DEF Atomic!Slip
  <2> QED  BY <2>3 DEF Atomic!Next, Atomic!Procs, Procs
<1>2. CASE docs = {}
  <2>1. Ids(docs) = {}  BY <1>2 DEF Ids
  <2>2. slipped' = slipped  BY <2>1 DEF Parts, TypeOK
  <2> QED  BY <2>2 DEF visible
<1> QED  BY <1>1, <1>2

(* What addIndex holds and what it has buffered comes from the input.      *)
LEMMA MemoryOfOrigin ==
  ASSUME Parts, NEW p \in Procs, pc[p] \in {"lookup", "adding"}
  PROVE  Ids(draft[p] \union buffer[p]) \subseteq Ids(Origin(p))
<1>0. Writing(p)  BY DEF Writing
<1>1. CASE p \in Importers
  <2> DEFINE m == messages[p]
  <2>1. /\ next[p] \in 1..Len(m) /\ m[next[p]].fate = "complete"
        /\ draft[p] = {NewDoc(next[p], m[next[p]])}
        /\ buffer[p] \subseteq DocsOf(m, next[p] - 1)
    BY <1>0, <1>1 DEF Parts, TypeOK, ImporterOK, Kept
  <2>2. Len(m) \in Nat  BY <1>1 DEF Parts, TypeOK
  <2> HIDE DEF m
  <2>3. DocsOf(m, next[p] - 1) \subseteq DocsOf(m, Len(m))
    BY <2>1, <2>2 DEF DocsOf
  <2>4. NewDoc(next[p], m[next[p]]) \in DocsOf(m, Len(m))
    BY <2>1, <2>2 DEF DocsOf
  <2>5. draft[p] \union buffer[p] \subseteq Origin(p)
    BY <1>1, <2>1, <2>3, <2>4 DEF Origin, m
  <2> QED  BY <2>5 DEF Ids
<1>2. CASE p \notin Importers
  <2>0. p \in Taggers  BY <1>2 DEF Procs
  <2>1. PICK doc \in todo[p], cat \in Category : draft[p] = {Tagged(doc, cat)}
    BY <2>0 DEF Parts, TaggerOK
  <2>2. /\ todo[p] \subseteq Origin(p)
        /\ buffer[p] \in Taggings(Done(p), committed["Temp"], slipped[p])
    BY <1>0, <1>2, <2>0 DEF Parts, TaggerOK, Origin
  <2>3. Origin(p) \subseteq Doc /\ Done(p) \subseteq Origin(p)
    <3>1. committed["IndexerBD"] \in Index  BY DEF Parts, TypeOK, Dirs
    <3> QED  BY <1>2, <3>1, ContentsType DEF Origin, Done
  <2>4. ASSUME NEW t \in buffer[p] PROVE t.id \in Ids(Origin(p))
    <3>1. PICK kept \in Kept(Done(p), committed["Temp"], slipped[p]) :
            buffer[p] \in {{Tagged(d, cs[d]) : d \in kept} : cs \in [kept -> Category]}
      BY <2>2 DEF Taggings
    <3>2. PICK c \in [kept -> Category] : buffer[p] = {Tagged(d, c[d]) : d \in kept}
      BY <3>1
    <3>3. PICK d \in kept : t = Tagged(d, c[d])
      BY <3>2
    <3>4. d \in Origin(p) /\ d \in Doc
      BY <2>3 DEF Kept
    <3>5. t.id = d.id
      BY <3>3, <3>4, TaggedType
    <3> QED  BY <3>4, <3>5 DEF Ids
  <2>5. ASSUME NEW t \in draft[p] PROVE t.id \in Ids(Origin(p))
    <3>1. doc \in Origin(p) /\ doc \in Doc
      BY <2>2, <2>3
    <3>2. t.id = doc.id
      BY <2>1, <3>1, TaggedType
    <3> QED  BY <3>1, <3>2 DEF Ids
  <2> QED  BY <2>4, <2>5 DEF Ids
<1> QED  BY <1>1, <1>2

LEMMA SlippingImplements ==
  ASSUME Parts, NEW p \in Procs, FindNothing(p) \/ LoseDocument(p) \/ (p \in Taggers /\ LoadMails(p))
  PROVE  Atomic!Next \/ UNCHANGED visible
<1> USE DEF shared, importerVars
<1>1. CASE FindNothing(p)
  <2> DEFINE missed == {d \in draft[p] : Known(d.body, committed[path[p]])}
  <2>1. /\ pc[p] = "lookup"
        /\ IOFaults \/ missed = {}
        /\ slipped' = [slipped EXCEPT ![p] = @ \union Ids(missed)]
        /\ UNCHANGED <<mailbox, messages, committed, writeLock>>
    BY <1>1 DEF FindNothing
  <2>2. Ids(missed) \subseteq Ids(Origin(p))
    BY <2>1, MemoryOfOrigin DEF Ids
  <2> HIDE DEF missed
  <2> QED  BY <2>1, <2>2, SlipImplements DEF Working
<1>2. CASE LoseDocument(p)
  <2>1. PICK flushed \in Beginnings(buffer[p]) :
          slipped' = [slipped EXCEPT ![p] = @ \union Ids(draft[p] \union (buffer[p] \ flushed))]
    BY <1>2 DEF LoseDocument
  <2>2. pc[p] = "adding" /\ IOFaults /\ UNCHANGED <<mailbox, messages, committed, writeLock>>
    BY <1>2 DEF LoseDocument, Advance
  <2>3. Ids(draft[p] \union (buffer[p] \ flushed)) \subseteq Ids(Origin(p))
    BY <2>2, MemoryOfOrigin DEF Ids
  <2> QED  BY <2>1, <2>2, <2>3, SlipImplements DEF Working
<1>3. CASE p \in Taggers /\ LoadMails(p)
  <2> DEFINE idx == committed["IndexerBD"]
  <2>1. path[p] = "IndexerBD" /\ Contents(idx) = Origin(p)
    BY <1>3, ProcsAssumption DEF LoadMails, Parts, TaggerOK, Origin
  <2>2. PICK docs \in Readings(idx) :
          slipped' = [slipped EXCEPT ![p] = @ \union Ids(Contents(idx) \ docs)]
    BY <1>3, <2>1 DEF LoadMails
  <2>3. pc[p] = "loading" /\ UNCHANGED <<mailbox, messages, committed, writeLock>>
    BY <1>3 DEF LoadMails
  <2>4. Ids(Contents(idx) \ docs) \subseteq Ids(Origin(p))
    BY <2>1 DEF Ids
  <2>5. IOFaults \/ Contents(idx) \ docs = {}
    BY <2>2 DEF Readings
  <2> QED  BY <2>2, <2>3, <2>4, <2>5, SlipImplements DEF Working
<1> QED  BY <1>1, <1>2, <1>3

LEMMA StepImplements ==
  ASSUME Parts, NEW p \in Procs, StepOf(p)
  PROVE  Atomic!Next \/ UNCHANGED visible
<1> USE DEF shared, importerVars, taggerVars
<1>1. CASE p \in Importers /\ FetchInbox(p)
  <2>1. \A d \in Dirs : writeLock[d] # p
    BY <1>1 DEF FetchInbox, Parts, HolderInv
  <2>2. Atomic!Fetch(p)
    BY <1>1, <2>1 DEF FetchInbox, Atomic!Fetch, Atomic!Dirs, Dirs
  <2> QED  BY <1>1, <2>2 DEF Atomic!Next
<1>2. CASE p \in Importers /\ (ImporterStep(p) \/ ServerStep(p))
  <2>1. CASE OpenIndexer(p)
    BY <2>1, OpenImplements DEF OpenIndexer, Dirs
  <2>2. CASE ImporterStep(p) /\ ~OpenIndexer(p)
    BY <2>2
    DEF visible, ImporterStep, StartTable, FinishTable, LoseTable, Rate, RatingFails, Fail
  <2>3. CASE ServerStep(p)
    BY <2>3
    DEF visible, ServerStep, ReadText, RejectMessage, SkipMessage, AcceptMessage, LoseConnection,
        Fail, Advance
  <2> QED  BY <1>2, <2>1, <2>2, <2>3
<1>3. CASE p \in Taggers /\ (OpenSource(p) \/ OpenTarget(p))
  BY <1>3, OpenImplements DEF OpenSource, OpenTarget, Dirs
<1>4. CASE p \in Taggers /\ TaggerStep(p) /\ ~OpenTarget(p) /\ ~LoadMails(p)
  BY <1>4 DEF visible, TaggerStep, Train, Classify, ClassifyFails, Fail
<1>5. CASE CloseIndexer(p)
  BY <1>5, ClosingImportImplements, ClosingTaggingImplements DEF Procs
<1>6. CASE FindDuplicate(p) \/ AddDocument(p) \/ CloseFails(p)
  BY <1>6 DEF visible, FindDuplicate, AddDocument, CloseFails, Advance, Fail
<1>7. CASE FindNothing(p) \/ LoseDocument(p) \/ (p \in Taggers /\ LoadMails(p))
  BY <1>7, SlippingImplements
<1>8. CASE Exit(p) \/ Crash(p)
  BY <1>8, EndImplements DEF Exit, Crash
<1> QED  BY <1>1, <1>2, <1>3, <1>4, <1>5, <1>6, <1>7, <1>8 DEF StepOf, SharedStep

LEMMA NextImplements == Parts /\ [Next]_vars => [Atomic!Next]_(Atomic!vars)
<1> SUFFICES ASSUME Parts, [Next]_vars PROVE Atomic!Next \/ UNCHANGED visible
  BY DEF visible, Atomic!vars
<1>1. CASE InboxChanges
  <2>1. Atomic!InboxChanges
    BY <1>1 DEF InboxChanges, Atomic!InboxChanges, RemoveAt, Atomic!RemoveAt
  <2> QED  BY <2>1 DEF Atomic!Next
<1>2. CASE UNCHANGED vars
  BY <1>2 DEF vars, visible
<1>3. ASSUME NEW p \in Procs, StepOf(p) PROVE Atomic!Next \/ UNCHANGED visible
  BY <1>3, StepImplements
<1> QED  BY <1>1, <1>2, <1>3 DEF Next, StepOf, Procs

(* Seen from outside, every run takes its directory, replaces it in one    *)
(* step by the right contents or leaves it, and gives it back.             *)
THEOREM Implements == Spec => ImplementsAtomicIndex
BY InitParts, NextParts, InitImplements, NextImplements, PTL
DEF Spec, ImplementsAtomicIndex, Atomic!Spec

-----------------------------------------------------------------------------
Saving == \E p \in Importers : pc[p] = "saving"

(* Whoever is saving is the only one at work.                              *)
LEMMA OneSaves ==
  ASSUME Parts, NEW p \in Procs, Working(p), NEW q \in Importers, pc[q] = "saving"
  PROVE  p = q
<1>1. q \in Procs /\ Working(q)
  BY DEF Procs, Working
<1> QED  BY <1>1 DEF Parts, LockInv

(* A step that leaves HashFile alone, and that nobody starts or ends in    *)
(* "saving", cannot be told.                                               *)
LEMMA SavingKept ==
  ASSUME Parts, NEW p \in Procs, NEW step, step # "saving", pc[p] # "saving",
         pc' = [pc EXCEPT ![p] = step]
  PROVE  Saving' <=> Saving
BY DEF Parts, TypeOK, Saving

(* openWrite has emptied the file, or has failed and left all as it was.   *)
LEMMA StartIsStart ==
  ASSUME Parts, NEW p \in Importers, StartTable(p)
  PROVE  File!Start \/ (UNCHANGED hashFile /\ (Saving' <=> Saving))
<1>0. p \in Procs /\ Working(p) /\ pc[p] = "rating"
  BY DEF Procs, Working, StartTable
<1>1. CASE hashFile' = "torn" /\ GoTo(p, "saving")
  <2>1. ~Saving
    BY <1>0, OneSaves DEF Saving
  <2>2. Saving'
    BY <1>0, <1>1 DEF Parts, TypeOK, GoTo, Saving
  <2> QED  BY <1>1, <2>1, <2>2 DEF StartTable, File!Start, Saving
<1>2. CASE GoTo(p, "reopening") /\ UNCHANGED hashFile
  <2>1. Saving' <=> Saving
    BY <1>0, <1>2, SavingKept DEF GoTo
  <2> QED  BY <1>2, <2>1
<1> QED  BY <1>1, <1>2 DEF StartTable

(* A JVM that stops saving leaves nobody who does.                         *)
LEMMA StopsSaving ==
  ASSUME Parts, NEW p \in Procs, pc[p] = "saving", NEW step, step # "saving",
         pc' = [pc EXCEPT ![p] = step]
  PROVE  Saving /\ ~Saving'
<1>1. p \in Importers
  BY DEF Parts, TaggerOK, Procs
<1>2. Working(p)
  BY DEF Working
<1>3. \A q \in Importers : pc[q] = "saving" => q = p
  BY <1>2, OneSaves
<1>4. \A q \in Importers : pc'[q] # "saving"
  BY <1>3 DEF Parts, TypeOK, Procs
<1> QED  BY <1>1, <1>4 DEF Saving

LEMMA NextImplementsFile ==
  ASSUME Parts, [Next]_vars PROVE File!Next \/ UNCHANGED <<hashFile, Saving>>
<1> USE DEF shared
<1>1. CASE InboxChanges
  BY <1>1 DEF InboxChanges, Saving
<1>2. ASSUME NEW p \in Importers, FetchInbox(p) \/ ImporterStep(p) \/ ServerStep(p)
      PROVE  File!Next \/ UNCHANGED <<hashFile, Saving>>
  <2>0. p \in Procs
    BY DEF Procs
  <2>1. CASE StartTable(p)
    <3>1. CASE File!Start
      BY <3>1 DEF File!Next
    <3>2. CASE UNCHANGED hashFile /\ (Saving' <=> Saving)
      BY <3>2, Zenon
    <3> QED  BY <2>1, <3>1, <3>2, StartIsStart
  <2>2. CASE FinishTable(p)
    <3>1. Saving /\ ~Saving'
      BY <2>0, <2>2, StopsSaving DEF FinishTable, GoTo
    <3>2. File!Finish
      BY <2>2, <3>1 DEF FinishTable, File!Finish, Saving
    <3> QED  BY <3>2 DEF File!Next
  <2>3. CASE LoseTable(p)
    <3>1. Saving /\ ~Saving'
      BY <2>0, <2>3, StopsSaving DEF LoseTable, GoTo
    <3>2. File!Abandon
      BY <2>3, <3>1 DEF LoseTable, File!Abandon, Saving
    <3> QED  BY <3>2 DEF File!Next
  <2>4. CASE FetchInbox(p) \/ Rate(p) \/ RatingFails(p) \/ ServerStep(p)
    <3>1. UNCHANGED hashFile
      BY <2>4 DEF FetchInbox, Rate, RatingFails, ServerStep, ReadText, RejectMessage, SkipMessage,
                  AcceptMessage, LoseConnection
    <3>2. CASE FetchInbox(p) \/ Rate(p) \/ RatingFails(p)
      <4>1. Saving' <=> Saving
        BY <2>0, <3>2, SavingKept DEF FetchInbox, Rate, RatingFails, Fail, GoTo
      <4> QED  BY <3>1, <4>1, Zenon
    <3>3. CASE ServerStep(p)
      <4>1. Saving' <=> Saving
        BY <2>0, <3>3, SavingKept
        DEF ServerStep, ReadText, RejectMessage, SkipMessage, AcceptMessage, LoseConnection,
            WaitsForServer, AtMessage, Fail, Advance, GoTo
      <4> QED  BY <3>1, <4>1, Zenon
    <3> QED  BY <2>4, <3>2, <3>3
  <2>5. CASE OpenIndexer(p)
    <3>1. UNCHANGED hashFile
      BY <2>5 DEF OpenIndexer
    <3>2. Saving' <=> Saving
      BY <2>0, <2>5, SavingKept DEF OpenIndexer, OpenWriter, GoTo
    <3> QED  BY <3>1, <3>2, Zenon
  <2> QED  BY <1>2, <2>1, <2>2, <2>3, <2>4, <2>5 DEF ImporterStep
<1>3. ASSUME NEW p \in Taggers, OpenSource(p) \/ TaggerStep(p)
      PROVE  File!Next \/ UNCHANGED <<hashFile, Saving>>
  <2>0. p \in Procs
    BY DEF Procs
  <2>1. UNCHANGED hashFile
    BY <1>3 DEF OpenSource, TaggerStep, Train, LoadMails, OpenTarget, Classify, ClassifyFails
  <2>2. CASE OpenSource(p)
    <3>1. Saving' <=> Saving
      BY <2>0, <2>2, SavingKept DEF OpenSource, OpenWriter, GoTo
    <3> QED  BY <2>1, <3>1, Zenon
  <2>3. CASE OpenTarget(p)
    <3>1. Saving' <=> Saving
      BY <2>0, <2>3, SavingKept DEF OpenTarget, OpenWriter, GoTo
    <3> QED  BY <2>1, <3>1, Zenon
  <2>4. CASE Train(p) \/ LoadMails(p) \/ Classify(p) \/ ClassifyFails(p)
    <3>1. Saving' <=> Saving
      BY <2>0, <2>4, SavingKept DEF Train, LoadMails, Classify, ClassifyFails, Fail, GoTo
    <3> QED  BY <2>1, <3>1, Zenon
  <2> QED  BY <1>3, <2>2, <2>3, <2>4 DEF TaggerStep
<1>4. ASSUME NEW p \in Procs, SharedStep(p)
      PROVE  File!Next \/ UNCHANGED <<hashFile, Saving>>
  <2>1. UNCHANGED hashFile
    BY <1>4 DEF SharedStep, FindDuplicate, FindNothing, AddDocument, LoseDocument, CloseIndexer,
                CloseFails, Exit
  <2>2. Saving' <=> Saving
    BY <1>4, SavingKept
    DEF SharedStep, FindDuplicate, FindNothing, AddDocument, LoseDocument, CloseIndexer, CloseFails,
        Fail, Exit, EndJVM, Advance, GoTo
  <2> QED  BY <2>1, <2>2, Zenon
<1>5. ASSUME NEW p \in Procs, Crash(p)
      PROVE  File!Next \/ UNCHANGED <<hashFile, Saving>>
  <2>1. CASE pc[p] = "saving"
    <3>1. Saving /\ ~Saving'
      BY <1>5, <2>1, StopsSaving DEF Crash, EndJVM, GoTo
    <3>2. File!Abandon
      BY <1>5, <2>1, <3>1 DEF Crash, File!Abandon, Saving
    <3> QED  BY <3>2 DEF File!Next
  <2>2. CASE pc[p] # "saving"
    <3>1. Saving' <=> Saving
      BY <1>5, <2>2, SavingKept DEF Crash, EndJVM, GoTo
    <3>2. UNCHANGED hashFile
      BY <1>5, <2>2 DEF Crash
    <3> QED  BY <3>1, <3>2, Zenon
  <2> QED  BY <2>1, <2>2
<1>6. CASE UNCHANGED vars
  BY <1>6 DEF vars, Saving
<1> QED  BY <1>1, <1>2, <1>3, <1>4, <1>5, <1>6 DEF Next

(* HashFile has one writer at a time, for any number of programs and       *)
(* messages; and what it left is never written over as long as a file that *)
(* is there opens (~OpenFaults).                                           *)
THEOREM ImplementsFile == Spec => ImplementsTableFile
<1>1. Init => File!Init
  BY DEF Init, File!Init, Procs
<1>2. Parts /\ [Next]_vars => [File!Next]_<<hashFile, \E p \in Importers : pc[p] = "saving">>
  BY NextImplementsFile DEF Saving
<1> QED  BY <1>1, <1>2, InitParts, NextParts, PTL DEF Spec, ImplementsTableFile, File!Spec
=============================================================================
