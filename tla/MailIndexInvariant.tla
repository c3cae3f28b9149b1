------------------------- MODULE MailIndexInvariant -------------------------
(***************************************************************************)
(* The inductive invariant of MailIndex.  Its conjuncts that speak of one  *)
(* process at a time are regrouped into what holds of one importer and of  *)
(* one tagger.  A step of a process keeps what holds of the others, since  *)
(* it touches none of their memory and replaces no index they work with    *)
(* (lemmas OthersKeep and IndexIsStable); what holds of the process itself *)
(* is followed action by action.                                           *)
(***************************************************************************)
EXTENDS MailIndexProofs

(* What IInv says of one importer.                                         *)
ImporterOK(p) ==
  /\ pc[p] \notin {"training", "loading", "retargeting"}
  /\ path[p] = "IndexerBD"
  /\ ~Writing(p) /\ pc[p] # "exiting" => buffer[p] = {}
  /\ pc[p] \in {"idle", "opening"} => next[p] = 1
  /\ pc[p] \in {"lookup", "adding"} =>
       /\ next[p] <= Len(messages[p])
       /\ messages[p][next[p]].fate = "complete"
       /\ draft[p] = {NewDoc(next[p], messages[p][next[p]])}
  /\ pc[p] \in {"addressing", "lookup", "adding"} \/ (pc[p] = "reading" /\ buffer[p] # {})
       => hashFile = "table"
  /\ pc[p] = "adding" =>
       \A d \in draft[p] : d.id \in slipped[p] \/ ~Known(d.body, committed["IndexerBD"])
  /\ Writing(p) =>
       /\ next[p] <= Len(messages[p]) + 1
       /\ \A i \in 1..(next[p] - 1) : ~Fatal(messages[p][i])
       /\ buffer[p] \in Kept(DocsOf(messages[p], next[p] - 1), committed["IndexerBD"], slipped[p])

(* What IInv says of one tagger.                                           *)
Done(p) == Contents(committed["IndexerBD"]) \ todo[p]

TaggerOK(p) ==
  /\ pc[p] \notin {"opening", "rating", "saving", "reopening", "addressing"}
  /\ pc[p] \in {"idle", "training", "loading", "retargeting"} => path[p] = "IndexerBD"
  /\ Writing(p) => path[p] = "Temp"
  /\ ~Writing(p) /\ pc[p] # "exiting" => buffer[p] = {}
  /\ pc[p] \in {"lookup", "adding"} =>
       \E doc \in todo[p], cat \in Category : IsNext(p, doc) /\ draft[p] = {Tagged(doc, cat)}
  /\ pc[p] \in {"loading", "retargeting"} => corpus[p] \in Readings(committed["IndexerBD"])
  /\ pc[p] = "retargeting" => /\ todo[p] \subseteq Contents(committed["IndexerBD"])
                              /\ Ids(Done(p)) \subseteq slipped[p]
  /\ pc[p] = "adding" =>
       \A d \in draft[p] : d.id \in slipped[p] \/ ~Known(d.body, committed["Temp"])
  /\ Writing(p) => /\ corpus[p] \in Readings(committed["IndexerBD"])
                   /\ todo[p] \subseteq Contents(committed["IndexerBD"])
                   /\ buffer[p] \in Taggings(Done(p), committed["Temp"], slipped[p])

Parts ==
  /\ TypeOK /\ RoundInv /\ LockInv /\ HolderInv /\ IdsAreUnique
  /\ \A p \in Importers : ImporterOK(p)
  /\ \A p \in Taggers : TaggerOK(p)

(* The regrouping is an equivalence.                                       *)
LEMMA PartsOfIInv == Parts <=> IInv
<1> USE DEF Parts, IInv, PathInv, FreshInv, PassedInv, TableInv, DraftInv, CorpusInv,
            VerdictIsCurrent, ImportIsExact, TrainedOnWhatIsClassified, TaggingIsExact
<1>1. ASSUME IInv, NEW p \in Importers PROVE ImporterOK(p)
  <2> p \in Procs /\ Target(p) = "IndexerBD"  BY DEF Procs, Target
  <2> QED  BY <1>1 DEF ImporterOK
<1>2. ASSUME IInv, NEW p \in Taggers PROVE TaggerOK(p)
  <2> p \in Procs /\ Target(p) = "Temp"  BY ProcsAssumption DEF Procs, Target
  <2> QED  BY <1>2 DEF TaggerOK, Done
<1>3. ASSUME TypeOK, RoundInv, LockInv, HolderInv, IdsAreUnique, \A p \in Importers : ImporterOK(p),
             \A p \in Taggers : TaggerOK(p)
      PROVE  IInv
  <2>1. PathInv  BY <1>3 DEF ImporterOK, TaggerOK
  <2>2. FreshInv  BY <1>3 DEF ImporterOK, TaggerOK, Procs
  <2>3. DraftInv  BY <1>3 DEF ImporterOK, TaggerOK
  <2>4. CorpusInv  BY <1>3 DEF TaggerOK, Done
  <2>5. VerdictIsCurrent
    <3>1. ASSUME NEW p \in Importers, pc[p] = "adding"
          PROVE  \A d \in draft[p] : d.id \in slipped[p] \/ ~Known(d.body, committed[Target(p)])
      BY <1>3, <3>1 DEF ImporterOK, Target
    <3>2. ASSUME NEW p \in Taggers, pc[p] = "adding"
          PROVE  \A d \in draft[p] : d.id \in slipped[p] \/ ~Known(d.body, committed[Target(p)])
      BY <1>3, <3>2, ProcsAssumption DEF TaggerOK, Target
    <3> QED  BY <3>1, <3>2 DEF Procs
  <2>6. ImportIsExact  BY <1>3 DEF ImporterOK
  <2>7. TrainedOnWhatIsClassified  BY <1>3 DEF TaggerOK
  <2>8. TaggingIsExact  BY <1>3 DEF TaggerOK, Done
  <2>9. PassedInv /\ TableInv  BY <1>3 DEF ImporterOK
  <2> QED  BY <1>3, <2>1, <2>2, <2>3, <2>4, <2>5, <2>6, <2>7, <2>8, <2>9
<1> QED  BY <1>1, <1>2, <1>3

(***************************************************************************)
(* The other processes.                                                    *)
(***************************************************************************)
StepOf(p) ==
  \/ p \in Importers /\ (FetchInbox(p) \/ ImporterStep(p) \/ ServerStep(p))
  \/ p \in Taggers /\ (OpenSource(p) \/ TaggerStep(p))
  \/ SharedStep(p)
  \/ Crash(p)

(* The memory of q's JVM is as it was.                                     *)
SameMemory(q) ==
  /\ pc'[q] = pc[q] /\ path'[q] = path[q] /\ draft'[q] = draft[q] /\ buffer'[q] = buffer[q]
  /\ slipped'[q] = slipped[q]
  /\ q \in Importers => messages'[q] = messages[q] /\ next'[q] = next[q]
  /\ q \in Taggers => corpus'[q] = corpus[q] /\ todo'[q] = todo[q] /\ model'[q] = model[q]

LEMMA OthersKeep ==
  ASSUME TypeOK, NEW p \in Procs, StepOf(p), NEW q \in Procs, q # p
  PROVE  SameMemory(q)
<1> USE DEF TypeOK, SameMemory, GoTo, shared, importerVars, taggerVars
<1>1. ASSUME Advance(p), UNCHANGED <<path, buffer, slipped>> PROVE SameMemory(q)
  BY <1>1 DEF Advance
<1>2. ASSUME EndJVM(p) PROVE SameMemory(q)
  BY <1>2 DEF EndJVM
<1>3. ASSUME Fail(p), UNCHANGED path PROVE SameMemory(q)
  BY <1>3 DEF Fail
<1>4. CASE p \in Importers /\ (FetchInbox(p) \/ ImporterStep(p) \/ ServerStep(p))
  <2>1. CASE FetchInbox(p)
    BY <1>4, <2>1 DEF FetchInbox
  <2>2. CASE OpenIndexer(p)
    BY <2>2 DEF OpenIndexer, OpenWriter
  <2>3. CASE StartTable(p) \/ FinishTable(p) \/ LoseTable(p) \/ Rate(p)
    BY <2>3 DEF StartTable, FinishTable, LoseTable, Rate
  <2>4. CASE ReadText(p) \/ AcceptMessage(p)
    BY <2>4 DEF ReadText, AcceptMessage
  <2>5. CASE RatingFails(p) \/ RejectMessage(p) \/ LoseConnection(p)
    BY <2>5, <1>3 DEF RatingFails, RejectMessage, LoseConnection
  <2>6. CASE SkipMessage(p)
    BY <2>6, <1>1 DEF SkipMessage
  <2> QED  BY <1>4, <2>1, <2>2, <2>3, <2>4, <2>5, <2>6 DEF ImporterStep, ServerStep
<1>5. CASE p \in Taggers /\ (OpenSource(p) \/ TaggerStep(p))
  <2>1. CASE OpenSource(p)
    BY <2>1 DEF OpenSource, OpenWriter
  <2>2. CASE OpenTarget(p)
    BY <2>2 DEF OpenTarget, OpenWriter
  <2>3. CASE Train(p)
    BY <2>3 DEF Train
  <2>4. CASE LoadMails(p)
    BY <2>4 DEF LoadMails
  <2>5. CASE Classify(p)
    BY <2>5 DEF Classify
  <2>6. CASE ClassifyFails(p)
    BY <2>6, <1>3 DEF ClassifyFails
  <2> QED  BY <1>5, <2>1, <2>2, <2>3, <2>4, <2>5, <2>6 DEF TaggerStep
<1>6. CASE SharedStep(p)
  <2>1. CASE FindDuplicate(p)
    BY <2>1, <1>1 DEF FindDuplicate
  <2>2. CASE FindNothing(p) \/ CloseIndexer(p)
    BY <2>2 DEF FindNothing, CloseIndexer
  <2>3. CASE AddDocument(p) \/ LoseDocument(p)
    BY <2>3 DEF AddDocument, LoseDocument, Advance
  <2>4. CASE CloseFails(p)
    BY <2>4, <1>3 DEF CloseFails
  <2>5. CASE Exit(p)
    BY <2>5, <1>2 DEF Exit
  <2> QED  BY <1>6, <2>1, <2>2, <2>3, <2>4, <2>5 DEF SharedStep
<1>7. CASE Crash(p)
  BY <1>7, <1>2 DEF Crash
<1> QED  BY <1>4, <1>5, <1>6, <1>7 DEF StepOf

(* Only closeIndexer replaces an index.                                    *)
LEMMA OnlyCloseCommits ==
  ASSUME NEW p \in Procs, StepOf(p)
  PROVE  UNCHANGED committed \/ CloseIndexer(p)
<1> USE DEF shared
<1>1. CASE FetchInbox(p) \/ ImporterStep(p) \/ ServerStep(p)
  BY <1>1 DEF FetchInbox, ImporterStep, OpenIndexer, StartTable, FinishTable, LoseTable, Rate,
              RatingFails, ServerStep, ReadText, RejectMessage, SkipMessage, AcceptMessage,
              LoseConnection
<1>2. CASE OpenSource(p) \/ TaggerStep(p)
  BY <1>2 DEF OpenSource, TaggerStep, Train, LoadMails, OpenTarget, Classify, ClassifyFails
<1>3. CASE SharedStep(p)
  BY <1>3 DEF SharedStep, FindDuplicate, FindNothing, AddDocument, LoseDocument, CloseFails,
              Exit, EndJVM
<1>4. CASE Crash(p)
  BY <1>4 DEF Crash, EndJVM
<1> QED  BY <1>1, <1>2, <1>3, <1>4 DEF StepOf

(* Only an importer at work writes HashFile.                               *)
LEMMA OnlyWorkersSave ==
  ASSUME NEW p \in Procs, StepOf(p)
  PROVE  UNCHANGED hashFile \/ Working(p)
<1> USE DEF shared, Working
<1>1. CASE FetchInbox(p) \/ ImporterStep(p) \/ ServerStep(p)
  BY <1>1 DEF FetchInbox, ImporterStep, OpenIndexer, StartTable, FinishTable, LoseTable, Rate,
              RatingFails, ServerStep, ReadText, RejectMessage, SkipMessage, AcceptMessage,
              LoseConnection
<1>2. CASE OpenSource(p) \/ TaggerStep(p)
  BY <1>2 DEF OpenSource, TaggerStep, Train, LoadMails, OpenTarget, Classify, ClassifyFails
<1>3. CASE SharedStep(p)
  BY <1>3 DEF SharedStep, FindDuplicate, FindNothing, AddDocument, LoseDocument, CloseIndexer,
              CloseFails, Exit
<1>4. CASE Crash(p)
  BY <1>4 DEF Crash
<1> QED  BY <1>1, <1>2, <1>3, <1>4 DEF StepOf

(* While a process works, nobody else replaces an index or HashFile.       *)
LEMMA IndexIsStable ==
  ASSUME LockInv, NEW p \in Procs, StepOf(p), NEW q \in Procs, q # p, Working(q)
  PROVE  UNCHANGED <<committed, hashFile>>
<1>1. ~Working(p)
  BY DEF LockInv
<1>2. ~CloseIndexer(p)
  BY <1>1 DEF CloseIndexer, Working
<1> QED  BY <1>1, <1>2, OnlyCloseCommits, OnlyWorkersSave

LEMMA ImporterUndisturbed ==
  ASSUME NEW q \in Importers, ImporterOK(q), SameMemory(q),
         Working(q) => UNCHANGED <<committed, hashFile>>
  PROVE  ImporterOK(q)'
BY DEF ImporterOK, SameMemory, Working, Writing

LEMMA TaggerUndisturbed ==
  ASSUME NEW q \in Taggers, TaggerOK(q), SameMemory(q), Working(q) => UNCHANGED committed
  PROVE  TaggerOK(q)'
<1>1. CASE Working(q)
  BY <1>1 DEF TaggerOK, Done, SameMemory, Working, Writing, IsNext
<1>2. CASE ~Working(q)
  BY <1>2 DEF TaggerOK, SameMemory, Working, Writing
<1> QED  BY <1>1, <1>2

(***************************************************************************)
(* The importer that takes the step.                                       *)
(***************************************************************************)
(* On its way out an importer owes nothing any more.                       *)
LEMMA ImporterLeaves ==
  ASSUME NEW p \in Importers, ImporterOK(p), pc'[p] = "exiting", UNCHANGED path
  PROVE  ImporterOK(p)'
BY DEF ImporterOK, Writing

LEMMA ImporterEnds ==
  ASSUME TypeOK, NEW p \in Importers, EndJVM(p)
  PROVE  ImporterOK(p)'
<1> p \in Procs  BY DEF Procs
<1>1. pc'[p] = "idle" /\ path'[p] = "IndexerBD" /\ buffer'[p] = {} /\ next'[p] = 1
  BY DEF TypeOK, EndJVM, GoTo
<1> QED  BY <1>1 DEF ImporterOK, Writing

(* One more round of the loop: the buffer accounts for message next[p].    *)
LEMMA ImporterAdvances ==
  ASSUME TypeOK, NEW p \in Importers, ImporterOK(p), Advance(p), UNCHANGED <<path, committed>>,
         hashFile' = "table", Writing(p), next[p] <= Len(messages[p]), ~Fatal(messages[p][next[p]]),
         buffer'[p] \in Kept(DocsOf(messages[p], next[p]), committed["IndexerBD"], slipped'[p])
  PROVE  ImporterOK(p)'
<1> p \in Procs  BY DEF Procs
<1>1. pc'[p] = "reading" /\ next'[p] = next[p] + 1 /\ messages'[p] = messages[p]
  BY DEF TypeOK, Advance, GoTo
<1>2. next'[p] - 1 = next[p]  BY <1>1 DEF TypeOK
<1>3. next'[p] <= Len(messages'[p]) + 1  BY <1>1 DEF TypeOK
<1>4. \A i \in 1..(next'[p] - 1) : ~Fatal(messages'[p][i])
  BY <1>1, <1>2 DEF ImporterOK, TypeOK
<1> QED  BY <1>1, <1>2, <1>3, <1>4 DEF ImporterOK, Writing

(* A step inside the round, before anything is added: only HashFile and    *)
(* the place in the round change.                                          *)
LEMMA ImporterStays ==
  ASSUME TypeOK, NEW p \in Importers, ImporterOK(p), Writing(p),
         pc'[p] \in {"rating", "saving", "reopening", "addressing"},
         pc'[p] = "addressing" => hashFile' = "table",
         UNCHANGED <<committed, path, buffer, slipped, messages, next>>
  PROVE  ImporterOK(p)'
BY DEF ImporterOK, Writing

LEMMA ImporterActs ==
  ASSUME TypeOK, NEW p \in Importers, ImporterOK(p), FetchInbox(p) \/ ImporterStep(p)
  PROVE  ImporterOK(p)'
<1> p \in Procs  BY DEF Procs
<1> USE DEF GoTo, shared, importerVars, taggerVars
<1>1. CASE FetchInbox(p)
  BY <1>1 DEF FetchInbox, TypeOK, ImporterOK, Writing
<1>2. CASE OpenIndexer(p)
  <2>1. CASE pc' = [pc EXCEPT ![p] = "reading"]
    <3>1. pc'[p] = "reading"  BY <2>1 DEF TypeOK
    <3>2. next[p] - 1 = 0 /\ buffer[p] = {}
      BY <1>2 DEF OpenIndexer, ImporterOK, Writing
    <3>3. Ids({}) \subseteq slipped[p]  BY DEF Ids
    <3>4. buffer[p] \in Kept(DocsOf(messages[p], next[p] - 1), committed["IndexerBD"], slipped[p])
      BY <3>2, <3>3, DocsOfNone, KeptNone
    <3> QED  BY <1>2, <3>1, <3>2, <3>4 DEF OpenIndexer, ImporterOK, Writing, TypeOK
  <2>2. CASE pc' = [pc EXCEPT ![p] = "exiting"]
    BY <1>2, <2>2, ImporterLeaves DEF OpenIndexer, TypeOK
  <2> QED  BY <1>2, <2>1, <2>2 DEF OpenIndexer, OpenWriter
<1>3. CASE StartTable(p) \/ FinishTable(p) \/ LoseTable(p) \/ Rate(p)
  <2>1. /\ pc[p] \in {"rating", "saving", "reopening"}
        /\ pc'[p] \in {"saving", "reopening", "addressing"}
        /\ pc'[p] = "addressing" => hashFile' = "table"
    BY <1>3 DEF StartTable, FinishTable, LoseTable, Rate, TypeOK
  <2>2. UNCHANGED <<committed, path, buffer, slipped, messages, next>>
    BY <1>3 DEF StartTable, FinishTable, LoseTable, Rate
  <2> QED  BY <2>1, <2>2, ImporterStays DEF Writing
<1>4. CASE RatingFails(p)
  BY <1>4, ImporterLeaves DEF RatingFails, Fail, TypeOK
<1> QED  BY <1>1, <1>2, <1>3, <1>4 DEF ImporterStep

LEMMA ImporterReads ==
  ASSUME TypeOK, RoundInv, NEW p \in Importers, ImporterOK(p), ServerStep(p)
  PROVE  ImporterOK(p)'
<1> p \in Procs  BY DEF Procs
<1> USE DEF GoTo, shared, importerVars, taggerVars
<1>1. CASE ReadText(p)
  <2>1. Writing(p) /\ pc'[p] = "rating"
    BY <1>1 DEF ReadText, AtMessage, Writing, TypeOK
  <2> QED  BY <1>1, <2>1, ImporterStays DEF ReadText
<1>2. CASE RejectMessage(p) \/ LoseConnection(p)
  BY <1>2, ImporterLeaves DEF RejectMessage, LoseConnection, Fail, TypeOK
<1>3. CASE SkipMessage(p)
  <2>1. DocsOf(messages[p], next[p]) = DocsOf(messages[p], next[p] - 1)
    BY <1>3, DocsOfSkipped DEF SkipMessage, FateHere, TypeOK
  <2>2. Writing(p) /\ hashFile = "table" /\ next[p] <= Len(messages[p])
    BY <1>3 DEF SkipMessage, Writing, ImporterOK, RoundInv
  <2>3. ~Fatal(messages[p][next[p]])
    BY <1>3 DEF SkipMessage, FateHere, Fatal
  <2>4. buffer'[p] \in Kept(DocsOf(messages[p], next[p]), committed["IndexerBD"], slipped'[p])
    BY <1>3, <2>1, <2>2 DEF SkipMessage, ImporterOK
  <2> QED  BY <1>3, <2>2, <2>3, <2>4, ImporterAdvances DEF SkipMessage
<1>4. CASE AcceptMessage(p)
  <2>1. pc'[p] = "lookup" /\ draft'[p] = {NewDoc(next[p], messages[p][next[p]])}
    BY <1>4 DEF AcceptMessage, TypeOK
  <2>2. /\ Writing(p) /\ hashFile = "table" /\ next[p] <= Len(messages[p])
        /\ messages[p][next[p]].fate = "complete"
    BY <1>4 DEF AcceptMessage, FateHere, Writing, ImporterOK, RoundInv
  <2> QED  BY <1>4, <2>1, <2>2 DEF AcceptMessage, ImporterOK, Writing
<1> QED  BY <1>1, <1>2, <1>3, <1>4 DEF ServerStep

LEMMA ImporterIndexes ==
  ASSUME TypeOK, NEW p \in Importers, ImporterOK(p), SharedStep(p)
  PROVE  ImporterOK(p)'
<1> p \in Procs  BY DEF Procs
<1> USE DEF GoTo, shared, importerVars, taggerVars
<1> DEFINE doc == NewDoc(next[p], messages[p][next[p]])
           idx == committed["IndexerBD"]
<1>a. ASSUME pc[p] \in {"lookup", "adding"}
      PROVE  /\ draft[p] = {doc}
             /\ hashFile = "table"
             /\ Writing(p) /\ next[p] <= Len(messages[p]) /\ ~Fatal(messages[p][next[p]])
             /\ buffer[p] \in Kept(DocsOf(messages[p], next[p] - 1), idx, slipped[p])
             /\ DocsOf(messages[p], next[p]) = DocsOf(messages[p], next[p] - 1) \union {doc}
  <2>1. /\ draft[p] = {doc}
        /\ hashFile = "table"
        /\ Writing(p) /\ next[p] <= Len(messages[p])
        /\ messages[p][next[p]].fate = "complete"
    BY <1>a DEF ImporterOK, Writing
  <2>2. ~Fatal(messages[p][next[p]])
    BY <2>1 DEF Fatal
  <2>3. buffer[p] \in Kept(DocsOf(messages[p], next[p] - 1), idx, slipped[p])
    BY <2>1 DEF ImporterOK
  <2>4. DocsOf(messages[p], next[p]) = DocsOf(messages[p], next[p] - 1) \union {doc}
    BY <2>1, DocsOfComplete DEF TypeOK
  <2> QED  BY <2>1, <2>2, <2>3, <2>4
<1>1. CASE FindDuplicate(p)
  <2>1. Known(doc.body, idx)
    BY <1>1, <1>a DEF FindDuplicate, ImporterOK
  <2>2. buffer[p] \in Kept(DocsOf(messages[p], next[p]), idx, slipped[p])
    BY <1>1, <1>a, <2>1, KeptDrop DEF FindDuplicate
  <2> QED  BY <1>1, <1>a, <2>2, ImporterAdvances DEF FindDuplicate
<1>2. CASE FindNothing(p)
  <2>1. pc'[p] = "adding"  BY <1>2 DEF FindNothing, TypeOK
  <2>2. slipped[p] \subseteq slipped'[p]
    BY <1>2 DEF FindNothing, TypeOK
  <2>3. \A d \in draft[p] : d.id \in slipped'[p] \/ ~Known(d.body, idx)
    BY <1>2 DEF FindNothing, TypeOK, ImporterOK, Ids
  <2>4. buffer[p] \in Kept(DocsOf(messages[p], next[p] - 1), idx, slipped'[p])
    <3>1. slipped[p] \union Ids(buffer[p] \ buffer[p]) \subseteq slipped'[p]
      BY <2>2 DEF Ids
    <3> QED  BY <1>2, <1>a, <3>1, KeptLose DEF FindNothing
  <2> QED  BY <1>2, <2>1, <2>3, <2>4 DEF FindNothing, ImporterOK, Writing
<1>3. CASE AddDocument(p)
  <2>1. doc.id \in slipped[p] \/ ~Known(doc.body, idx)
    BY <1>3, <1>a DEF AddDocument, ImporterOK
  <2>2. buffer'[p] = buffer[p] \union {doc}
    BY <1>3, <1>a DEF AddDocument, TypeOK
  <2>3. buffer'[p] \in Kept(DocsOf(messages[p], next[p]), idx, slipped[p])
    BY <1>3, <1>a, <2>1, <2>2, KeptAdd DEF AddDocument
  <2> QED  BY <1>3, <1>a, <2>3, ImporterAdvances DEF AddDocument
<1>4. CASE LoseDocument(p)
  <2>1. PICK flushed \in Beginnings(buffer[p]) :
          /\ buffer' = [buffer EXCEPT ![p] = flushed]
          /\ slipped' = [slipped EXCEPT ![p] = @ \union Ids(draft[p] \union (buffer[p] \ flushed))]
    BY <1>4 DEF LoseDocument
  <2>2. /\ flushed \in SUBSET buffer[p]
        /\ buffer'[p] = flushed
        /\ slipped[p] \union Ids(buffer[p] \ flushed) \subseteq slipped'[p]
        /\ Ids(draft[p]) \subseteq slipped'[p]
    BY <2>1, BeginningsType DEF TypeOK, Ids
  <2>3. flushed \in Kept(DocsOf(messages[p], next[p] - 1), idx, slipped'[p])
    <3>1. buffer[p] \in Kept(DocsOf(messages[p], next[p] - 1), idx, slipped[p])
      BY <1>4, <1>a DEF LoseDocument
    <3> QED  BY <2>2, <3>1, KeptLose
  <2>4. doc.id \in slipped'[p]
    BY <1>4, <1>a, <2>2 DEF LoseDocument, Ids
  <2>5. buffer'[p] \in Kept(DocsOf(messages[p], next[p]), idx, slipped'[p])
    BY <1>4, <1>a, <2>2, <2>3, <2>4, KeptDrop DEF LoseDocument
  <2> QED  BY <1>4, <1>a, <2>5, ImporterAdvances DEF LoseDocument
<1>5. CASE CloseIndexer(p) \/ CloseFails(p)
  BY <1>5, ImporterLeaves DEF CloseIndexer, CloseFails, Fail, TypeOK
<1>6. CASE Exit(p)
  BY <1>6, ImporterEnds DEF Exit
<1> QED  BY <1>1, <1>2, <1>3, <1>4, <1>5, <1>6 DEF SharedStep

(***************************************************************************)
(* The tagger that takes the step.                                         *)
(***************************************************************************)
LEMMA TaggerLeaves ==
  ASSUME NEW p \in Taggers, pc'[p] = "exiting"
  PROVE  TaggerOK(p)'
BY DEF TaggerOK, Writing

LEMMA TaggerEnds ==
  ASSUME TypeOK, NEW p \in Taggers, EndJVM(p)
  PROVE  TaggerOK(p)'
<1> p \in Procs  BY DEF Procs
<1>1. pc'[p] = "idle" /\ path'[p] = "IndexerBD" /\ buffer'[p] = {}
  BY DEF TypeOK, EndJVM, GoTo
<1> QED  BY <1>1 DEF TaggerOK, Writing

(* One more round of the loop: the mail it was at is the only one with the *)
(* least id, so exactly that mail leaves todo.                             *)
LEMMA OneMailIsDone ==
  ASSUME TypeOK, IdsAreUnique, NEW p \in Taggers, Advance(p), NEW doc \in todo[p],
         IsNext(p, doc), todo[p] \subseteq Contents(committed["IndexerBD"])
  PROVE  todo'[p] = todo[p] \ {doc}
<1>1. todo'[p] = {d \in todo[p] : ~IsNext(p, d)}
  BY DEF Advance, TypeOK
<1>2. ASSUME NEW d \in todo[p], IsNext(p, d) PROVE d = doc
  <2>1. d.id <= doc.id /\ doc.id <= d.id  BY <1>2 DEF IsNext
  <2>2. d.id \in Nat /\ doc.id \in Nat  BY DEF TypeOK, Doc
  <2>3. d.id = doc.id  BY <2>1, <2>2
  <2> QED  BY <2>3 DEF IdsAreUnique, Dirs
<1> QED  BY <1>1, <1>2

LEMMA TaggerAdvances ==
  ASSUME TypeOK, IdsAreUnique, NEW p \in Taggers, TaggerOK(p), Advance(p),
         pc[p] \in {"lookup", "adding"}, UNCHANGED <<path, committed>>,
         NEW doc \in todo[p], IsNext(p, doc),
         buffer'[p] \in Taggings(Done(p) \union {doc}, committed["Temp"], slipped'[p])
  PROVE  TaggerOK(p)'
<1> p \in Procs  BY DEF Procs
<1>1. pc'[p] = "reading" /\ corpus'[p] = corpus[p] /\ path'[p] = path[p]
  BY DEF TypeOK, Advance, GoTo
<1>2. /\ todo[p] \subseteq Contents(committed["IndexerBD"])
      /\ corpus[p] \in Readings(committed["IndexerBD"])
      /\ path[p] = "Temp"
  BY DEF TaggerOK, Writing
<1>3. todo'[p] = todo[p] \ {doc}  BY <1>2, OneMailIsDone
<1>4. Done(p) \union {doc} = Done(p)'  BY <1>2, <1>3 DEF Done
<1>5. buffer'[p] \in Taggings(Done(p)', committed'["Temp"], slipped'[p])  BY <1>4
<1>6. todo'[p] \subseteq Contents(committed["IndexerBD"])  BY <1>2, <1>3
<1> QED  BY <1>1, <1>2, <1>5, <1>6 DEF TaggerOK, Writing

LEMMA TaggerActs ==
  ASSUME TypeOK, NEW p \in Taggers, TaggerOK(p), OpenSource(p) \/ TaggerStep(p)
  PROVE  TaggerOK(p)'
<1> p \in Procs  BY DEF Procs
<1> USE DEF GoTo, shared, importerVars, taggerVars
<1>1. CASE OpenSource(p)
  <2>1. pc'[p] \in {"training", "exiting"}
    BY <1>1 DEF OpenSource, OpenWriter, TypeOK
  <2> QED  BY <1>1, <2>1 DEF OpenSource, TaggerOK, Writing
<1>2. CASE Train(p)
  <2>1. pc'[p] = "loading" /\ corpus'[p] \in Readings(committed["IndexerBD"])
    BY <1>2 DEF Train, TaggerOK, TypeOK
  <2> QED  BY <1>2, <2>1 DEF Train, TaggerOK, Writing
<1>3. CASE LoadMails(p)
  <2> DEFINE idx == committed["IndexerBD"]
  <2>1. pc'[p] = "retargeting" /\ path[p] = "IndexerBD"
    BY <1>3 DEF LoadMails, TaggerOK, TypeOK
  <2>2. PICK docs \in Readings(idx) :
          /\ todo' = [todo EXCEPT ![p] = docs]
          /\ slipped' = [slipped EXCEPT ![p] = @ \union Ids(Contents(idx) \ docs)]
    BY <1>3, <2>1 DEF LoadMails
  <2>3. todo'[p] \subseteq Contents(idx)
    <3>1. idx \in Index  BY DEF TypeOK, Dirs
    <3> QED  BY <2>2, <3>1, ReadingsType DEF TypeOK
  <2>4. Ids(Done(p))' \subseteq slipped'[p]
    BY <1>3, <2>2 DEF LoadMails, Done, TypeOK, Ids
  <2> QED  BY <1>3, <2>1, <2>3, <2>4 DEF LoadMails, TaggerOK, Writing
<1>4. CASE OpenTarget(p)
  <2>1. CASE pc' = [pc EXCEPT ![p] = "reading"]
    <3>1. pc'[p] = "reading" /\ path'[p] = "Temp"
      BY <1>4, <2>1 DEF OpenTarget, TypeOK
    <3>2. /\ corpus[p] \in Readings(committed["IndexerBD"])
          /\ todo[p] \subseteq Contents(committed["IndexerBD"])
          /\ Ids(Done(p)) \subseteq slipped[p]
          /\ buffer[p] = {}
      BY <1>4 DEF OpenTarget, TaggerOK, Writing
    <3>3. buffer[p] \in Taggings(Done(p), committed["Temp"], slipped[p])
      BY <3>2, TaggingsNone
    <3>4. buffer'[p] \in Taggings(Done(p)', committed'["Temp"], slipped'[p])
      BY <1>4, <3>3 DEF OpenTarget, Done
    <3> QED  BY <1>4, <3>1, <3>2, <3>4 DEF OpenTarget, TaggerOK, Writing
  <2>2. CASE pc' = [pc EXCEPT ![p] = "exiting"]
    BY <2>2, TaggerLeaves DEF TypeOK
  <2> QED  BY <1>4, <2>1, <2>2 DEF OpenTarget, OpenWriter
<1>5. CASE Classify(p)
  <2>1. PICK doc \in todo[p], cat \in Category :
          IsNext(p, doc) /\ draft' = [draft EXCEPT ![p] = {Tagged(doc, cat)}]
    BY <1>5 DEF Classify
  <2>2. pc'[p] = "lookup" /\ draft'[p] = {Tagged(doc, cat)} /\ todo'[p] = todo[p]
    BY <1>5, <2>1 DEF Classify, TypeOK
  <2>3. IsNext(p, doc)'  BY <2>1, <2>2 DEF IsNext
  <2>4. buffer'[p] \in Taggings(Done(p)', committed'["Temp"], slipped'[p])
    BY <1>5 DEF Classify, TaggerOK, Writing, Done
  <2> QED  BY <1>5, <2>2, <2>3, <2>4 DEF Classify, TaggerOK, Writing
<1>6. CASE ClassifyFails(p)
  BY <1>6, TaggerLeaves DEF ClassifyFails, Fail, TypeOK
<1> QED  BY <1>1, <1>2, <1>3, <1>4, <1>5, <1>6 DEF TaggerStep

LEMMA TaggerIndexes ==
  ASSUME TypeOK, IdsAreUnique, NEW p \in Taggers, TaggerOK(p), SharedStep(p)
  PROVE  TaggerOK(p)'
<1> p \in Procs  BY DEF Procs
<1> USE DEF GoTo, shared, importerVars, taggerVars
<1> DEFINE temp == committed["Temp"]
<1>a. ASSUME pc[p] \in {"lookup", "adding"}
      PROVE  \E doc \in todo[p], cat \in Category :
               /\ IsNext(p, doc)
               /\ draft[p] = {Tagged(doc, cat)}
               /\ Tagged(doc, cat).body = doc.body /\ Tagged(doc, cat).id = doc.id
  <2>1. PICK doc \in todo[p], cat \in Category : IsNext(p, doc) /\ draft[p] = {Tagged(doc, cat)}
    BY <1>a DEF TaggerOK
  <2>2. doc \in Doc  BY DEF TypeOK
  <2>3. Tagged(doc, cat).body = doc.body /\ Tagged(doc, cat).id = doc.id  BY <2>2, TaggedType
  <2> QED  BY <2>1, <2>3
<1>b. ASSUME pc[p] \in {"lookup", "adding"}
      PROVE  buffer[p] \in Taggings(Done(p), temp, slipped[p]) /\ Done(p) \in SUBSET Doc
  <2>1. committed["IndexerBD"] \in Index  BY DEF TypeOK, Dirs
  <2>2. Done(p) \in SUBSET Doc  BY <2>1, ContentsType DEF Done
  <2> QED  BY <1>b, <2>2 DEF TaggerOK, Writing
<1>1. CASE FindDuplicate(p)
  <2>1. PICK doc \in todo[p], cat \in Category :
          /\ IsNext(p, doc)
          /\ draft[p] = {Tagged(doc, cat)}
          /\ Tagged(doc, cat).body = doc.body
    BY <1>1, <1>a DEF FindDuplicate
  <2>2. Known(doc.body, temp)
    BY <1>1, <2>1 DEF FindDuplicate, TaggerOK, Writing
  <2>3. buffer[p] \in Taggings(Done(p) \union {doc}, temp, slipped[p])
    BY <1>1, <1>b, <2>2, TaggingsDrop DEF FindDuplicate
  <2> QED  BY <1>1, <2>1, <2>3, TaggerAdvances DEF FindDuplicate
<1>2. CASE FindNothing(p)
  <2>1. pc'[p] = "adding"  BY <1>2 DEF FindNothing, TypeOK
  <2>2. slipped[p] \subseteq slipped'[p]
    BY <1>2 DEF FindNothing, TypeOK
  <2>3. \A d \in draft[p] : d.id \in slipped'[p] \/ ~Known(d.body, temp)
    BY <1>2 DEF FindNothing, TypeOK, TaggerOK, Writing, Ids
  <2>4. buffer[p] \in Taggings(Done(p), temp, slipped'[p])
    <3>1. slipped[p] \union Ids(buffer[p] \ buffer[p]) \subseteq slipped'[p]
      BY <2>2 DEF Ids
    <3> QED  BY <1>2, <1>b, <3>1, TaggingsLose DEF FindNothing
  <2>5. buffer'[p] \in Taggings(Done(p)', temp', slipped'[p])
    BY <1>2, <2>4 DEF FindNothing, Done
  <2> QED  BY <1>2, <2>1, <2>3, <2>5 DEF FindNothing, TaggerOK, Writing, IsNext
<1>3. CASE AddDocument(p)
  <2>1. PICK doc \in todo[p], cat \in Category :
          /\ IsNext(p, doc)
          /\ draft[p] = {Tagged(doc, cat)}
          /\ Tagged(doc, cat).body = doc.body /\ Tagged(doc, cat).id = doc.id
    BY <1>3, <1>a DEF AddDocument
  <2>2. doc.id \in slipped[p] \/ ~Known(doc.body, temp)
    BY <1>3, <2>1 DEF AddDocument, TaggerOK
  <2>3. buffer'[p] = buffer[p] \union {Tagged(doc, cat)}
    BY <1>3, <2>1 DEF AddDocument, TypeOK
  <2>4. doc \notin Done(p)
    BY <2>1 DEF Done
  <2>5. buffer'[p] \in Taggings(Done(p) \union {doc}, temp, slipped[p])
    BY <1>3, <1>b, <2>2, <2>3, <2>4, TaggingsAdd DEF AddDocument
  <2> QED  BY <1>3, <2>1, <2>5, TaggerAdvances DEF AddDocument
<1>4. CASE LoseDocument(p)
  <2>1. PICK doc \in todo[p], cat \in Category :
          /\ IsNext(p, doc)
          /\ draft[p] = {Tagged(doc, cat)}
          /\ Tagged(doc, cat).id = doc.id
    BY <1>4, <1>a DEF LoseDocument
  <2>2. PICK flushed \in Beginnings(buffer[p]) :
          /\ buffer' = [buffer EXCEPT ![p] = flushed]
          /\ slipped' = [slipped EXCEPT ![p] = @ \union Ids(draft[p] \union (buffer[p] \ flushed))]
    BY <1>4 DEF LoseDocument
  <2>3. /\ flushed \in SUBSET buffer[p]
        /\ buffer'[p] = flushed
        /\ slipped[p] \union Ids(buffer[p] \ flushed) \subseteq slipped'[p]
        /\ Ids(draft[p]) \subseteq slipped'[p]
    BY <2>2, BeginningsType DEF TypeOK, Ids
  <2>4. flushed \in Taggings(Done(p), temp, slipped'[p])
    <3>1. buffer[p] \in Taggings(Done(p), temp, slipped[p]) /\ Done(p) \in SUBSET Doc
      BY <1>4, <1>b DEF LoseDocument
    <3> QED  BY <2>3, <3>1, TaggingsLose
  <2>5. doc.id \in slipped'[p]
    BY <2>1, <2>3 DEF Ids
  <2>6. buffer'[p] \in Taggings(Done(p) \union {doc}, temp, slipped'[p])
    BY <2>3, <2>4, <2>5, TaggingsDrop
  <2> QED  BY <1>4, <2>1, <2>6, TaggerAdvances DEF LoseDocument
<1>5. CASE CloseIndexer(p) \/ CloseFails(p)
  BY <1>5, TaggerLeaves DEF CloseIndexer, CloseFails, Fail, TypeOK
<1>6. CASE Exit(p)
  BY <1>6, TaggerEnds DEF Exit
<1> QED  BY <1>1, <1>2, <1>3, <1>4, <1>5, <1>6 DEF SharedStep

(***************************************************************************)
(* Ids: an import numbers its documents afresh, tagging keeps the ids of   *)
(* its source, and nothing else is ever committed.                         *)
(***************************************************************************)
LEMMA CloseKeepsIds ==
  ASSUME TypeOK, IdsAreUnique, NEW p \in Procs, CloseIndexer(p),
         p \in Importers => ImporterOK(p), p \in Taggers => TaggerOK(p)
  PROVE  IdsAreUnique'
<1>1. Writing(p)  BY DEF CloseIndexer, Writing
<1>2. ASSUME NEW d \in buffer[p], NEW e \in buffer[p], d.id = e.id PROVE d = e
  <2>1. CASE p \in Importers
    <3>1. buffer[p] \subseteq DocsOf(messages[p], next[p] - 1)
      BY <1>1, <2>1 DEF ImporterOK, Kept
    <3>2. next[p] - 1 \in Nat  BY <2>1 DEF TypeOK
    <3> QED  BY <1>2, <3>1, <3>2, DocsOfUnique
  <2>2. CASE p \in Taggers
    <3>1. buffer[p] \in Taggings(Done(p), committed["Temp"], slipped[p])
      BY <1>1, <2>2 DEF TaggerOK
    <3>2. committed["IndexerBD"] \in Index  BY DEF TypeOK, Dirs
    <3>3. Done(p) \in SUBSET Doc  BY <3>2, ContentsType DEF Done
    <3>4. \A x, y \in Done(p) : x.id = y.id => x = y
      BY DEF Done, IdsAreUnique, Dirs
    <3> QED  BY <1>2, <3>1, <3>3, <3>4, TaggingsUnique
  <2> QED  BY <2>1, <2>2 DEF Procs
<1>3. ASSUME NEW dir \in Dirs
      PROVE  \/ Contents(committed'[dir]) \subseteq buffer[p]
             \/ committed'[dir] = committed[dir]
  BY DEF CloseIndexer, TypeOK, Contents
<1> QED  BY <1>2, <1>3 DEF IdsAreUnique

LEMMA InitParts == Init => Parts
<1> SUFFICES ASSUME Init PROVE Parts  OBVIOUS
<1>1. LockInv  BY DEF Init, LockInv, Working
<1>2. IdsAreUnique /\ HolderInv
  <2>1. NoProc \notin Procs  BY ProcsAssumption DEF Procs
  <2> QED  BY <2>1 DEF Init, IdsAreUnique, Contents, HolderInv, Writing, Procs
<1>3. ASSUME NEW p \in Importers PROVE ImporterOK(p)
  BY DEF Init, ImporterOK, Writing, Procs
<1>4. ASSUME NEW p \in Taggers PROVE TaggerOK(p)
  BY DEF Init, TaggerOK, Writing, Procs
<1> QED  BY InitType, InitRound, <1>1, <1>2, <1>3, <1>4 DEF Parts

(* A step of one process keeps the invariant.                              *)
LEMMA StepParts ==
  ASSUME Parts, TypeOK', RoundInv', LockInv', HolderInv', NEW p \in Procs, StepOf(p)
  PROVE  Parts'
<1> USE DEF Parts
<1>1. IdsAreUnique'
  <2>1. CASE CloseIndexer(p)
    BY <2>1, CloseKeepsIds
  <2>2. CASE UNCHANGED committed
    BY <2>2 DEF IdsAreUnique
  <2> QED  BY <2>1, <2>2, OnlyCloseCommits
<1>2. ASSUME NEW q \in Importers PROVE ImporterOK(q)'
  <2> q \in Procs  BY DEF Procs
  <2>1. CASE q # p
    BY <2>1, OthersKeep, IndexIsStable, ImporterUndisturbed
  <2>2. CASE q = p
    <3>1. p \notin Taggers  BY <2>2, ProcsAssumption
    <3> QED
      BY <2>2, <3>1, ImporterActs, ImporterReads, ImporterIndexes, ImporterEnds DEF StepOf, Crash
  <2> QED  BY <2>1, <2>2
<1>3. ASSUME NEW q \in Taggers PROVE TaggerOK(q)'
  <2> q \in Procs  BY DEF Procs
  <2>1. CASE q # p
    BY <2>1, OthersKeep, IndexIsStable, TaggerUndisturbed
  <2>2. CASE q = p
    <3>1. p \notin Importers  BY <2>2, ProcsAssumption
    <3> QED  BY <2>2, <3>1, TaggerActs, TaggerIndexes, TaggerEnds DEF StepOf, Crash
  <2> QED  BY <2>1, <2>2
<1> QED  BY <1>1, <1>2, <1>3

(* A step of no process changes nothing the invariant speaks of, but for   *)
(* the inbox.                                                              *)
LEMMA IdleParts ==
  ASSUME Parts, TypeOK', RoundInv', LockInv', HolderInv',
         UNCHANGED <<committed, hashFile, pc, path, draft, buffer, slipped, messages, next,
                     corpus, todo, model>>
  PROVE  Parts'
<1> USE DEF Parts
<1>1. \A q : SameMemory(q)  BY DEF SameMemory
<1>2. IdsAreUnique'  BY DEF IdsAreUnique
<1> QED  BY <1>1, <1>2, ImporterUndisturbed, TaggerUndisturbed

LEMMA NextParts == Parts /\ [Next]_vars => Parts'
<1> SUFFICES ASSUME Parts, [Next]_vars PROVE Parts'  OBVIOUS
<1>1. TypeOK' /\ RoundInv' /\ LockInv' /\ HolderInv'
  BY NextType, NextRound, NextLock, NextHolder DEF Parts
<1>2. CASE InboxChanges
  BY <1>1, <1>2, IdleParts DEF InboxChanges
<1>3. CASE UNCHANGED vars
  BY <1>1, <1>3, IdleParts DEF vars
<1>4. ASSUME NEW p \in Procs, StepOf(p) PROVE Parts'
  BY <1>1, <1>4, StepParts
<1> QED  BY <1>2, <1>3, <1>4 DEF Next, StepOf, Procs

(* Nothing the programs do, in any number and order, leaves IInv.          *)
THEOREM Invariant == Spec => []IInv
BY InitParts, NextParts, PartsOfIInv, PTL DEF Spec

(***************************************************************************)
(* What it was strengthened for.                                           *)
(***************************************************************************)
(* An import publishes what its messages give against the index it         *)
(* replaces, and nothing else; of the documents an I/O error has struck it *)
(* may have any.                                                           *)
THEOREM ImportExact == Spec => []ImportIsExact
<1>1. IInv => ImportIsExact  BY DEF IInv
<1> QED  BY Invariant, <1>1, PTL

(* A tagging run publishes a tagged copy of the index it has locked, again *)
(* but for what an I/O error has struck.                                   *)
THEOREM TaggingExact == Spec => []TaggingIsExact
<1>1. IInv => TaggingIsExact  BY DEF IInv
<1> QED  BY Invariant, <1>1, PTL

(* The model classifies the documents it was trained on.                   *)
THEOREM TrainedOnClassified == Spec => []TrainedOnWhatIsClassified
<1>1. IInv => TrainedOnWhatIsClassified  BY DEF IInv
<1> QED  BY Invariant, <1>1, PTL

(* The duplicate search is never acted on after the index has changed.     *)
THEOREM VerdictCurrent == Spec => []VerdictIsCurrent
<1>1. IInv => VerdictIsCurrent  BY DEF IInv
<1> QED  BY Invariant, <1>1, PTL

(* No index ever holds two documents of one id.                            *)
THEOREM UniqueIds == Spec => []IdsAreUnique
<1>1. IInv => IdsAreUnique  BY DEF IInv
<1> QED  BY Invariant, <1>1, PTL

(* A torn HashFile blocks imports: what an importer commits then is empty. *)
THEOREM TornTableBlocks == Spec => TornTableBlocksImport
<1> DEFINE Step1 == hashFile = "torn" =>
                      committed'["IndexerBD"] \in {committed["IndexerBD"], {}}
<1>1. Parts /\ [Next]_vars => [Step1]_vars
  <2> SUFFICES ASSUME Parts, Next, hashFile = "torn"
               PROVE  committed'["IndexerBD"] \in {committed["IndexerBD"], {}}
    OBVIOUS
  <2>1. CASE InboxChanges
    BY <2>1 DEF InboxChanges
  <2>2. ASSUME NEW p \in Procs, StepOf(p)
        PROVE  committed'["IndexerBD"] \in {committed["IndexerBD"], {}}
    <3>1. CASE UNCHANGED committed
      BY <3>1
    <3>2. CASE CloseIndexer(p) /\ p \in Importers
      <4>1. buffer[p] = {}
        BY <3>2 DEF CloseIndexer, Parts, ImporterOK, Writing
      <4> QED  BY <3>2, <4>1 DEF CloseIndexer, Parts, TypeOK, Target
    <3>3. CASE CloseIndexer(p) /\ p \notin Importers
      BY <3>3 DEF CloseIndexer, Parts, TypeOK, Target, Dirs
    <3> QED  BY <2>2, <3>1, <3>2, <3>3, OnlyCloseCommits
  <2> QED  BY <2>1, <2>2 DEF Next, StepOf, Procs
<1> QED  BY <1>1, InitParts, NextParts, PTL DEF Spec, TornTableBlocksImport
=============================================================================
