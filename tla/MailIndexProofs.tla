--------------------------- MODULE MailIndexProofs ---------------------------
(***************************************************************************)
(* Theorems about MailIndex, for any sets of programs, messages and        *)
(* categories and any bound on the inbox.                                  *)
(***************************************************************************)
EXTENDS MailIndex, TLAPS

(***************************************************************************)
(* The data of the indexing programs: what one more message or mail does   *)
(* to the set of documents a loop has dealt with.                          *)
(***************************************************************************)
(* A reader of an index sees documents.                                    *)
LEMMA ContentsType ==
  ASSUME NEW idx \in Index
  PROVE  Contents(idx) \subseteq Doc
BY DEF Index, Contents

(* A beginning of a set of documents is a part of it.                      *)
LEMMA BeginningsType ==
  ASSUME NEW docs, NEW r \in Beginnings(docs)
  PROVE  r \subseteq docs
BY DEF Beginnings

(* getAllInfo and getAllMail return documents of the index they read.      *)
LEMMA ReadingsType ==
  ASSUME NEW idx \in Index, NEW r \in Readings(idx)
  PROVE  r \subseteq Contents(idx) /\ r \in SUBSET Doc
<1>1. r \subseteq Contents(idx)
  <2>1. CASE IOFaults
    <3>1. r \in Beginnings(Contents(idx))  BY <2>1 DEF Readings
    <3> QED  BY <3>1, BeginningsType
  <2>2. CASE ~IOFaults
    BY <2>2 DEF Readings
  <2> QED  BY <2>1, <2>2
<1> QED  BY <1>1, ContentsType

(* Ids of documents are numbers.                                           *)
LEMMA IdsType ==
  ASSUME NEW docs \in SUBSET Doc
  PROVE  Ids(docs) \in SUBSET Nat
BY DEF Ids, Doc

(* The document made of an inbox message is a document.                    *)
LEMMA NewDocType ==
  ASSUME NEW id \in Nat \ {0}, NEW msg \in Inbound
  PROVE  NewDoc(id, msg) \in Doc
BY InboundAssumption DEF NewDoc, Doc, Message

(* So is its tagged copy, and only the category differs.                   *)
LEMMA TaggedType ==
  ASSUME NEW doc \in Doc, NEW cat \in Category
  PROVE  Tagged(doc, cat) \in Doc /\ Tagged(doc, cat).id = doc.id /\ Tagged(doc, cat).body = doc.body
BY DEF Tagged, Doc

(* An import that has looked at no message has made no document.           *)
LEMMA DocsOfNone ==
  ASSUME NEW msgs
  PROVE  DocsOf(msgs, 0) = {}
BY DEF DocsOf

(* A complete message adds its document to those of the messages before.   *)
LEMMA DocsOfComplete ==
  ASSUME NEW msgs, NEW n \in Nat \ {0}, msgs[n].fate = "complete"
  PROVE  DocsOf(msgs, n) = DocsOf(msgs, n - 1) \union {NewDoc(n, msgs[n])}
<1>1. {j \in 1..n : msgs[j].fate = "complete"} =
        {j \in 1..(n - 1) : msgs[j].fate = "complete"} \union {n}
  OBVIOUS
<1> QED  BY <1>1 DEF DocsOf

(* Any other message adds nothing.                                         *)
LEMMA DocsOfSkipped ==
  ASSUME NEW msgs, NEW n \in Nat \ {0}, msgs[n].fate # "complete"
  PROVE  DocsOf(msgs, n) = DocsOf(msgs, n - 1)
<1>1. {j \in 1..n : msgs[j].fate = "complete"} =
        {j \in 1..(n - 1) : msgs[j].fate = "complete"}
  OBVIOUS
<1> QED  BY <1>1 DEF DocsOf

(* The documents of an inbox are numbered by its messages: no two share an *)
(* id.                                                                     *)
LEMMA DocsOfUnique ==
  ASSUME NEW msgs, NEW n \in Nat, NEW d \in DocsOf(msgs, n), NEW e \in DocsOf(msgs, n), d.id = e.id
  PROVE  d = e
BY DEF DocsOf, NewDoc

(* Of documents that have all slipped, none need be kept.                  *)
LEMMA KeptNone ==
  ASSUME NEW docs, NEW idx, NEW s, Ids(docs) \subseteq s
  PROVE  {} \in Kept(docs, idx, s)
BY DEF Kept, Ids

(* A document joins those kept if its search has rightly found nothing, or *)
(* an error has struck it.                                                 *)
LEMMA KeptAdd ==
  ASSUME NEW docs, NEW idx, NEW s, NEW kept \in Kept(docs, idx, s),
         NEW doc, doc.id \in s \/ ~Known(doc.body, idx)
  PROVE  kept \union {doc} \in Kept(docs \union {doc}, idx, s)
BY DEF Kept

(* A document is left out if its body is known, or an error has struck it. *)
LEMMA KeptDrop ==
  ASSUME NEW docs, NEW idx, NEW s, NEW kept \in Kept(docs, idx, s),
         NEW doc, doc.id \in s \/ Known(doc.body, idx)
  PROVE  kept \in Kept(docs \union {doc}, idx, s)
BY DEF Kept

(* What an error takes from the documents kept has slipped.                *)
LEMMA KeptLose ==
  ASSUME NEW docs, NEW idx, NEW s, NEW kept \in Kept(docs, idx, s),
         NEW left \in SUBSET kept, NEW t, s \union Ids(kept \ left) \subseteq t
  PROVE  left \in Kept(docs, idx, t)
<1>1. \A d \in kept \ left : d.id \in t  BY DEF Ids
<1> QED  BY <1>1 DEF Kept

(* Of mails that have all slipped, none need be tagged.                    *)
LEMMA TaggingsNone ==
  ASSUME NEW src, NEW idx, NEW s, Ids(src) \subseteq s
  PROVE  {} \in Taggings(src, idx, s)
<1>1. {} \in Kept(src, idx, s)  BY KeptNone
<1>2. PICK c : c \in [{} -> Category]
  <2>1. [d \in {} |-> d] \in [{} -> Category]  OBVIOUS
  <2> QED  BY <2>1
<1>3. {} = {Tagged(d, c[d]) : d \in {}}  OBVIOUS
<1>4. {} \in {{Tagged(d, cs[d]) : d \in {}} : cs \in [{} -> Category]}  BY <1>2, <1>3
<1> QED  BY <1>1, <1>4 DEF Taggings

(* A mail joins the tagged ones if its search has rightly found nothing,   *)
(* or an error has struck it.                                              *)
LEMMA TaggingsAdd ==
  ASSUME NEW src, NEW idx, NEW s, NEW tags \in Taggings(src, idx, s),
         NEW doc, doc \notin src, NEW cat \in Category, doc.id \in s \/ ~Known(doc.body, idx)
  PROVE  tags \union {Tagged(doc, cat)} \in Taggings(src \union {doc}, idx, s)
<1>a. PICK kept \in Kept(src, idx, s) :
        tags \in {{Tagged(d, cs[d]) : d \in kept} : cs \in [kept -> Category]}
  BY DEF Taggings
<1>1. PICK c \in [kept -> Category] : tags = {Tagged(d, c[d]) : d \in kept}
  BY <1>a
<1> DEFINE kept1 == kept \union {doc}
           c1 == [d \in kept1 |-> IF d = doc THEN cat ELSE c[d]]
<1>2. kept1 \in Kept(src \union {doc}, idx, s)  BY KeptAdd
<1>3. c1 \in [kept1 -> Category]  OBVIOUS
<1>4. doc \notin kept  BY DEF Kept
<1>5. tags \union {Tagged(doc, cat)} = {Tagged(d, c1[d]) : d \in kept1}
  BY <1>1, <1>4
<1> HIDE DEF kept1, c1
<1> QED  BY <1>2, <1>3, <1>5 DEF Taggings

(* A mail is left out if its body is known, or an error has struck it.     *)
LEMMA TaggingsDrop ==
  ASSUME NEW src, NEW idx, NEW s, NEW tags \in Taggings(src, idx, s),
         NEW doc, doc.id \in s \/ Known(doc.body, idx)
  PROVE  tags \in Taggings(src \union {doc}, idx, s)
<1>a. PICK kept \in Kept(src, idx, s) :
        tags \in {{Tagged(d, cs[d]) : d \in kept} : cs \in [kept -> Category]}
  BY DEF Taggings
<1>1. PICK c \in [kept -> Category] : tags = {Tagged(d, c[d]) : d \in kept}
  BY <1>a
<1>2. kept \in Kept(src \union {doc}, idx, s)  BY KeptDrop
<1> QED  BY <1>1, <1>2 DEF Taggings

(* What an error takes from the tagged mails has slipped.                  *)
LEMMA TaggingsLose ==
  ASSUME NEW src \in SUBSET Doc, NEW idx, NEW s, NEW tags \in Taggings(src, idx, s),
         NEW left \in SUBSET tags, NEW t, s \union Ids(tags \ left) \subseteq t
  PROVE  left \in Taggings(src, idx, t)
<1>a. PICK kept \in Kept(src, idx, s) :
        tags \in {{Tagged(d, cs[d]) : d \in kept} : cs \in [kept -> Category]}
  BY DEF Taggings
<1>1. PICK c \in [kept -> Category] : tags = {Tagged(d, c[d]) : d \in kept}
  BY <1>a
<1> DEFINE kept1 == {d \in kept : Tagged(d, c[d]) \in left}
           c1 == [d \in kept1 |-> c[d]]
<1>2. Ids(kept \ kept1) \subseteq t
  <2>1. ASSUME NEW d \in kept \ kept1 PROVE d.id \in t
    <3>1. d \in Doc /\ c[d] \in Category  BY DEF Kept
    <3>2. Tagged(d, c[d]).id = d.id  BY <3>1, TaggedType
    <3>3. Tagged(d, c[d]) \in tags \ left  BY <1>1
    <3> QED  BY <3>2, <3>3 DEF Ids
  <2> QED  BY <2>1 DEF Ids
<1>3. kept1 \in Kept(src, idx, t)  BY <1>2, KeptLose
<1>4. c1 \in [kept1 -> Category]  OBVIOUS
<1>5. left = {Tagged(d, c1[d]) : d \in kept1}  BY <1>1
<1> HIDE DEF kept1, c1
<1> QED  BY <1>3, <1>4, <1>5 DEF Taggings

(* Tagging keeps ids: if those of the source are unique, so are those of   *)
(* the result.                                                             *)
LEMMA TaggingsUnique ==
  ASSUME NEW src \in SUBSET Doc, NEW idx, NEW s, NEW tags \in Taggings(src, idx, s),
         \A d, e \in src : d.id = e.id => d = e,
         NEW t \in tags, NEW u \in tags, t.id = u.id
  PROVE  t = u
<1>a. PICK kept \in Kept(src, idx, s) :
        tags \in {{Tagged(d, cs[d]) : d \in kept} : cs \in [kept -> Category]}
  BY DEF Taggings
<1>1. PICK c \in [kept -> Category] : tags = {Tagged(d, c[d]) : d \in kept}
  BY <1>a
<1>2. PICK d \in kept : t = Tagged(d, c[d])  BY <1>1
<1>3. PICK e \in kept : u = Tagged(e, c[e])  BY <1>1
<1>4. d \in src /\ e \in src  BY DEF Kept
<1>5. t.id = d.id /\ u.id = e.id  BY <1>2, <1>3, <1>4, TaggedType
<1> QED  BY <1>2, <1>3, <1>4, <1>5

(***************************************************************************)
(* The inbox.                                                              *)
(***************************************************************************)
(* Mail that arrives or is deleted leaves a sequence of inbox messages.    *)
LEMMA InboxChangesType ==
  ASSUME mailbox \in Seq(Inbound), InboxChanges
  PROVE  mailbox' \in Seq(Inbound)
<1>1. ASSUME NEW m \in Inbound, mailbox' = Append(mailbox, m)
      PROVE  mailbox' \in Seq(Inbound)
  BY <1>1
<1>2. ASSUME NEW i \in DOMAIN mailbox, mailbox' = RemoveAt(mailbox, i)
      PROVE  mailbox' \in Seq(Inbound)
  <2>1. i \in 1..Len(mailbox)  OBVIOUS
  <2>2. SubSeq(mailbox, 1, i-1) \in Seq(Inbound)  BY <2>1
  <2>3. SubSeq(mailbox, i+1, Len(mailbox)) \in Seq(Inbound)  BY <2>1
  <2> QED  BY <1>2, <2>2, <2>3 DEF RemoveAt
<1> QED  BY <1>1, <1>2 DEF InboxChanges

(***************************************************************************)
(* Types.                                                                  *)
(***************************************************************************)
LEMMA InitType == Init => TypeOK
BY DEF Init, TypeOK, Index, Step, Dirs

(* The two helpers every action is built from keep their variables' types. *)
LEMMA AdvanceType ==
  ASSUME TypeOK, NEW p \in Procs, Advance(p)
  PROVE  /\ pc' \in [Procs -> Step]
         /\ draft' \in [Procs -> SUBSET Doc]
         /\ messages' \in [Importers -> Seq(Inbound)]
         /\ next' \in [Importers -> Nat \ {0}]
         /\ corpus' \in [Taggers -> SUBSET Doc]
         /\ todo' \in [Taggers -> SUBSET Doc]
         /\ model' \in [Taggers -> BOOLEAN]
<1>1. pc' \in [Procs -> Step] /\ draft' \in [Procs -> SUBSET Doc]
  BY DEF TypeOK, Advance, GoTo, Step
<1>2. next' \in [Importers -> Nat \ {0}]
  BY DEF TypeOK, Advance
<1>3. todo' \in [Taggers -> SUBSET Doc]
  <2>1. \A t \in Taggers : {d \in todo[t] : ~IsNext(t, d)} \in SUBSET Doc
    BY DEF TypeOK
  <2> QED  BY <2>1 DEF TypeOK, Advance
<1>4. UNCHANGED <<messages, corpus, model>>
  BY DEF Advance
<1> QED  BY <1>1, <1>2, <1>3, <1>4 DEF TypeOK

LEMMA EndJVMType ==
  ASSUME TypeOK, NEW p \in Procs, EndJVM(p), hashFile' \in {"absent", "torn", "table"}
  PROVE  TypeOK'
<1>1. pc' \in [Procs -> Step]
  BY DEF TypeOK, EndJVM, GoTo, Step
<1>2. path' \in [Procs -> Dirs]
  BY DEF TypeOK, EndJVM, Dirs
<1>3. writeLock' \in [Dirs -> Procs \union {NoProc}]
  BY DEF TypeOK, EndJVM
<1>4. /\ draft' \in [Procs -> SUBSET Doc]
      /\ buffer' \in [Procs -> SUBSET Doc]
      /\ slipped' \in [Procs -> SUBSET Nat]
  BY DEF TypeOK, EndJVM
<1>5. messages' \in [Importers -> Seq(Inbound)] /\ next' \in [Importers -> Nat \ {0}]
  BY DEF TypeOK, EndJVM
<1>6. /\ corpus' \in [Taggers -> SUBSET Doc]
      /\ todo' \in [Taggers -> SUBSET Doc]
      /\ model' \in [Taggers -> BOOLEAN]
  BY DEF TypeOK, EndJVM
<1> QED  BY <1>1, <1>2, <1>3, <1>4, <1>5, <1>6 DEF TypeOK, EndJVM

LEMMA OpenWriterType ==
  ASSUME TypeOK, NEW p \in Procs, NEW dir \in Dirs, NEW step \in Step, OpenWriter(p, dir, step)
  PROVE  /\ pc' \in [Procs -> Step]
         /\ writeLock' \in [Dirs -> Procs \union {NoProc}]
<1>1. pc' \in [Procs -> Step]
  <2>1. "exiting" \in Step  BY DEF Step
  <2> QED  BY <2>1 DEF TypeOK, OpenWriter, GoTo
<1>2. writeLock' \in [Dirs -> Procs \union {NoProc}]
  BY DEF TypeOK, OpenWriter
<1> QED  BY <1>1, <1>2

(* A swallowed I/O error strikes documents, and so numbers.                *)
LEMMA SlippedType ==
  ASSUME TypeOK, NEW p \in Procs, NEW docs \in SUBSET Doc,
         slipped' = [slipped EXCEPT ![p] = @ \union Ids(docs)]
  PROVE  slipped' \in [Procs -> SUBSET Nat]
<1>1. Ids(docs) \in SUBSET Nat  BY IdsType
<1> HIDE DEF Ids
<1> QED  BY <1>1 DEF TypeOK

LEMMA SharedStepType ==
  ASSUME TypeOK, NEW p \in Procs, SharedStep(p)
  PROVE  TypeOK'
<1>1. CASE FindDuplicate(p)
  BY <1>1, AdvanceType DEF TypeOK, FindDuplicate, shared
<1>2. CASE FindNothing(p)
  <2> DEFINE missed == {d \in draft[p] : Known(d.body, committed[path[p]])}
  <2>a. missed \in SUBSET Doc /\ slipped' = [slipped EXCEPT ![p] = @ \union Ids(missed)]
    BY <1>2 DEF FindNothing, TypeOK
  <2> HIDE DEF missed
  <2>1. slipped' \in [Procs -> SUBSET Nat]
    BY <2>a, SlippedType
  <2> QED  BY <1>2, <2>1 DEF TypeOK, FindNothing, GoTo, Step, shared, importerVars, taggerVars
<1>3. CASE AddDocument(p)
  BY <1>3, AdvanceType DEF TypeOK, AddDocument, shared
<1>4. CASE LoseDocument(p)
  <2>1. PICK flushed \in Beginnings(buffer[p]) :
          /\ buffer' = [buffer EXCEPT ![p] = flushed]
          /\ slipped' = [slipped EXCEPT ![p] = @ \union Ids(draft[p] \union (buffer[p] \ flushed))]
    BY <1>4 DEF LoseDocument
  <2>2. buffer[p] \subseteq Doc /\ draft[p] \subseteq Doc /\ flushed \subseteq buffer[p]
    BY BeginningsType DEF TypeOK
  <2>3. buffer' \in [Procs -> SUBSET Doc]
    BY <2>1, <2>2 DEF TypeOK
  <2>4. slipped' \in [Procs -> SUBSET Nat]
    BY <2>1, <2>2, SlippedType
  <2> QED  BY <1>4, <2>3, <2>4, AdvanceType DEF TypeOK, LoseDocument, shared
<1>5. CASE CloseIndexer(p)
  BY <1>5 DEF TypeOK, CloseIndexer, GoTo, Step, Target, Dirs, Index, importerVars, taggerVars
<1>6. CASE CloseFails(p)
  BY <1>6 DEF TypeOK, CloseFails, Fail, GoTo, Step, shared, importerVars, taggerVars
<1>7. CASE Exit(p)
  BY <1>7, EndJVMType DEF TypeOK, Exit
<1> QED  BY <1>1, <1>2, <1>3, <1>4, <1>5, <1>6, <1>7 DEF SharedStep

LEMMA ImporterStepType ==
  ASSUME TypeOK, NEW p \in Importers, FetchInbox(p) \/ ImporterStep(p)
  PROVE  TypeOK'
<1> p \in Procs  BY DEF Procs
<1> USE DEF GoTo, Fail, Step, shared, importerVars, taggerVars
<1>1. CASE FetchInbox(p)
  BY <1>1 DEF TypeOK, FetchInbox
<1>2. CASE OpenIndexer(p)
  BY <1>2, OpenWriterType DEF TypeOK, OpenIndexer, Dirs
<1>3. CASE StartTable(p)
  BY <1>3 DEF TypeOK, StartTable
<1>4. CASE FinishTable(p)
  BY <1>4 DEF TypeOK, FinishTable
<1>5. CASE LoseTable(p)
  BY <1>5 DEF TypeOK, LoseTable
<1>6. CASE Rate(p)
  BY <1>6 DEF TypeOK, Rate
<1>7. CASE RatingFails(p)
  BY <1>7 DEF TypeOK, RatingFails
<1> QED  BY <1>1, <1>2, <1>3, <1>4, <1>5, <1>6, <1>7 DEF ImporterStep

LEMMA ServerStepType ==
  ASSUME TypeOK, RoundInv, NEW p \in Importers, ServerStep(p)
  PROVE  TypeOK'
<1> p \in Procs  BY DEF Procs
<1> USE DEF GoTo, Fail, Step, shared, importerVars, taggerVars
<1>1. CASE ReadText(p)
  BY <1>1 DEF TypeOK, ReadText
<1>2. CASE RejectMessage(p)
  BY <1>2 DEF TypeOK, RejectMessage
<1>3. CASE SkipMessage(p)
  BY <1>3, AdvanceType DEF TypeOK, SkipMessage
<1>4. CASE AcceptMessage(p)
  <2>1. messages[p] \in Seq(Inbound) /\ next[p] \in 1..Len(messages[p])
    BY <1>4 DEF TypeOK, AcceptMessage, RoundInv
  <2>2. NewDoc(next[p], messages[p][next[p]]) \in Doc
    BY <2>1, NewDocType DEF TypeOK
  <2> QED  BY <1>4, <2>2 DEF TypeOK, AcceptMessage
<1>5. CASE LoseConnection(p)
  BY <1>5 DEF TypeOK, LoseConnection
<1> QED  BY <1>1, <1>2, <1>3, <1>4, <1>5 DEF ServerStep

LEMMA TaggerStepType ==
  ASSUME TypeOK, NEW p \in Taggers, OpenSource(p) \/ TaggerStep(p)
  PROVE  TypeOK'
<1> p \in Procs  BY DEF Procs
<1> USE DEF GoTo, Fail, Step, shared, importerVars, taggerVars
<1>a. committed[path[p]] \in Index  BY DEF TypeOK
<1>1. CASE OpenSource(p)
  BY <1>1, OpenWriterType DEF TypeOK, OpenSource, Dirs
<1>2. CASE Train(p)
  BY <1>2, <1>a, ReadingsType DEF TypeOK, Train
<1>3. CASE LoadMails(p)
  <2>1. PICK docs \in Readings(committed[path[p]]) :
          /\ todo' = [todo EXCEPT ![p] = docs]
          /\ slipped' = [slipped EXCEPT ![p] = @ \union Ids(Contents(committed[path[p]]) \ docs)]
    BY <1>3 DEF LoadMails
  <2>2. Contents(committed[path[p]]) \ docs \in SUBSET Doc /\ docs \in SUBSET Doc
    BY <1>a, ContentsType, ReadingsType
  <2>3. slipped' \in [Procs -> SUBSET Nat]
    BY <2>1, <2>2, SlippedType
  <2> QED  BY <1>3, <2>1, <2>2, <2>3 DEF TypeOK, LoadMails
<1>4. CASE OpenTarget(p)
  BY <1>4, OpenWriterType DEF TypeOK, OpenTarget, Dirs
<1>5. CASE Classify(p)
  <2>1. PICK doc \in todo[p], cat \in Category :
          draft' = [draft EXCEPT ![p] = {Tagged(doc, cat)}]
    BY <1>5 DEF Classify
  <2>2. Tagged(doc, cat) \in Doc  BY TaggedType DEF TypeOK
  <2> QED  BY <1>5, <2>1, <2>2 DEF TypeOK, Classify
<1>6. CASE ClassifyFails(p)
  BY <1>6 DEF TypeOK, ClassifyFails
<1> QED  BY <1>1, <1>2, <1>3, <1>4, <1>5, <1>6 DEF TaggerStep

(* TypeOK alone is not inductive: the message AcceptMessage makes into a   *)
(* document has to be there.                                               *)
LEMMA NextType == TypeOK /\ RoundInv /\ [Next]_vars => TypeOK'
<1> SUFFICES ASSUME TypeOK, RoundInv, [Next]_vars PROVE TypeOK'  OBVIOUS
<1>1. CASE InboxChanges
  BY <1>1, InboxChangesType DEF TypeOK, InboxChanges
<1>2. ASSUME NEW p \in Importers, FetchInbox(p) \/ ImporterStep(p) PROVE TypeOK'
  BY <1>2, ImporterStepType
<1>3. ASSUME NEW p \in Importers, ServerStep(p) PROVE TypeOK'
  BY <1>3, ServerStepType
<1>4. ASSUME NEW p \in Taggers, OpenSource(p) \/ TaggerStep(p) PROVE TypeOK'
  BY <1>4, TaggerStepType
<1>5. ASSUME NEW p \in Procs, SharedStep(p) PROVE TypeOK'
  BY <1>5, SharedStepType
<1>6. ASSUME NEW p \in Procs, Crash(p) PROVE TypeOK'
  BY <1>6, EndJVMType DEF Crash, TypeOK
<1>7. CASE UNCHANGED vars
  BY <1>7 DEF vars, TypeOK
<1> QED  BY <1>1, <1>2, <1>3, <1>4, <1>5, <1>6, <1>7 DEF Next

(***************************************************************************)
(* The round of the importing loop.                                        *)
(***************************************************************************)
(* A step of p that stays at its message, or enters or leaves no round.    *)
LEMMA StaysInRound ==
  ASSUME TypeOK, RoundInv, NEW p \in Procs, NEW step \in Step, GoTo(p, step),
         UNCHANGED <<messages, next>>,
         \/ step \notin {"rating", "saving", "reopening", "addressing"}
         \/ pc[p] \in {"rating", "saving", "reopening", "addressing"}
         \/ AtMessage(p)
  PROVE  RoundInv'
BY DEF TypeOK, RoundInv, GoTo, AtMessage

(* A step of p out of the round, whatever becomes of its own message.      *)
LEMMA LeavesRound ==
  ASSUME TypeOK, RoundInv, NEW p \in Procs, NEW step \in {"reading", "opening", "idle"},
         GoTo(p, step),
         \A q \in Importers : q # p => messages'[q] = messages[q] /\ next'[q] = next[q]
  PROVE  RoundInv'
<1>1. \A q \in Procs : pc'[q] = IF q = p THEN step ELSE pc[q]
  BY DEF TypeOK, GoTo
<1> QED  BY <1>1 DEF RoundInv, Procs

LEMMA NextRound == TypeOK /\ RoundInv /\ [Next]_vars => RoundInv'
<1> SUFFICES ASSUME TypeOK, RoundInv, [Next]_vars PROVE RoundInv'  OBVIOUS
<1> USE DEF Step
<1>a. ASSUME NEW p \in Procs, Advance(p) PROVE RoundInv'
  <2>1. \A q \in Importers : q # p => messages'[q] = messages[q] /\ next'[q] = next[q]
    BY <1>a DEF Advance, TypeOK
  <2> QED  BY <1>a, <2>1, LeavesRound DEF Advance
<1>b. ASSUME NEW p \in Procs, EndJVM(p) PROVE RoundInv'
  <2>1. \A q \in Importers : q # p => messages'[q] = messages[q] /\ next'[q] = next[q]
    BY <1>b DEF EndJVM, TypeOK
  <2> QED  BY <1>b, <2>1, LeavesRound DEF EndJVM
<1>c. ASSUME NEW p \in Procs, Fail(p) PROVE RoundInv'
  BY <1>c, StaysInRound DEF Fail, importerVars
<1>1. CASE InboxChanges
  BY <1>1 DEF InboxChanges, RoundInv
<1>2. ASSUME NEW p \in Importers, FetchInbox(p) \/ ImporterStep(p) PROVE RoundInv'
  <2> p \in Procs  BY DEF Procs
  <2>1. CASE FetchInbox(p)
    <3>1. \A q \in Importers : q # p => messages'[q] = messages[q] /\ next'[q] = next[q]
      BY <2>1 DEF FetchInbox, TypeOK
    <3> QED  BY <2>1, <3>1, LeavesRound DEF FetchInbox
  <2>2. CASE OpenIndexer(p)
    BY <2>2, StaysInRound DEF OpenIndexer, OpenWriter, importerVars
  <2>3. CASE StartTable(p) \/ FinishTable(p) \/ LoseTable(p) \/ Rate(p)
    BY <2>3, StaysInRound DEF StartTable, FinishTable, LoseTable, Rate, importerVars
  <2>4. CASE RatingFails(p)
    BY <2>4, <1>c DEF RatingFails
  <2> QED  BY <1>2, <2>1, <2>2, <2>3, <2>4 DEF ImporterStep
<1>3. ASSUME NEW p \in Importers, ServerStep(p) PROVE RoundInv'
  <2> p \in Procs  BY DEF Procs
  <2>1. CASE ReadText(p) \/ AcceptMessage(p)
    BY <2>1, StaysInRound DEF ReadText, AcceptMessage, importerVars
  <2>2. CASE SkipMessage(p)
    BY <2>2, <1>a DEF SkipMessage
  <2>3. CASE RejectMessage(p) \/ LoseConnection(p)
    BY <2>3, <1>c DEF RejectMessage, LoseConnection
  <2> QED  BY <1>3, <2>1, <2>2, <2>3 DEF ServerStep
<1>4. ASSUME NEW p \in Taggers, OpenSource(p) \/ TaggerStep(p) PROVE RoundInv'
  <2> p \in Procs  BY DEF Procs
  <2>1. CASE OpenSource(p) \/ OpenTarget(p)
    BY <2>1, StaysInRound DEF OpenSource, OpenTarget, OpenWriter, importerVars
  <2>2. CASE Train(p) \/ LoadMails(p) \/ Classify(p)
    BY <2>2, StaysInRound DEF Train, LoadMails, Classify, importerVars
  <2>3. CASE ClassifyFails(p)
    BY <2>3, <1>c DEF ClassifyFails
  <2> QED  BY <1>4, <2>1, <2>2, <2>3 DEF TaggerStep
<1>5. ASSUME NEW p \in Procs, SharedStep(p) PROVE RoundInv'
  <2>1. CASE FindNothing(p) \/ CloseIndexer(p)
    BY <2>1, StaysInRound DEF FindNothing, CloseIndexer, importerVars
  <2>2. CASE FindDuplicate(p) \/ AddDocument(p) \/ LoseDocument(p)
    BY <2>2, <1>a DEF FindDuplicate, AddDocument, LoseDocument
  <2>3. CASE CloseFails(p)
    BY <2>3, <1>c DEF CloseFails
  <2>4. CASE Exit(p)
    BY <2>4, <1>b DEF Exit
  <2> QED  BY <1>5, <2>1, <2>2, <2>3, <2>4 DEF SharedStep
<1>6. ASSUME NEW p \in Procs, Crash(p) PROVE RoundInv'
  BY <1>6, <1>b DEF Crash
<1>7. CASE UNCHANGED vars
  BY <1>7 DEF vars, RoundInv
<1> QED  BY <1>1, <1>2, <1>3, <1>4, <1>5, <1>6, <1>7 DEF Next

LEMMA InitRound == Init => RoundInv
BY DEF Init, RoundInv, Procs

(* Every variable keeps its type, whoever runs and whatever crashes.       *)
THEOREM TypeCorrect == Spec => []TypeOK
BY InitType, InitRound, NextType, NextRound, PTL DEF Spec

(***************************************************************************)
(* Locks: whoever works holds the lock of IndexerBD.                       *)
(***************************************************************************)
(* A step of p that opens no writer, ends no JVM and starts no work.       *)
LEMMA KeepsLock ==
  ASSUME TypeOK, LockInv, NEW p \in Procs, NEW step \in Step,
         Working(p), GoTo(p, step), UNCHANGED writeLock
  PROVE  LockInv'
BY DEF TypeOK, LockInv, Working, GoTo

LEMMA OpenWriterLock ==
  ASSUME TypeOK, LockInv, NEW p \in Procs, NEW step \in Step, NEW dir \in Dirs,
         OpenWriter(p, dir, step), dir = "IndexerBD" \/ Working(p)
  PROVE  LockInv'
<1>1. CASE writeLock' = [writeLock EXCEPT ![dir] = p] /\ writeLock[dir] = NoProc /\ GoTo(p, step)
  BY <1>1, ProcsAssumption DEF TypeOK, LockInv, Working, GoTo, Dirs, Procs
<1>2. CASE UNCHANGED writeLock /\ GoTo(p, "exiting")
  BY <1>2 DEF TypeOK, LockInv, Working, GoTo
<1> QED  BY <1>1, <1>2 DEF OpenWriter

LEMMA EndJVMLock ==
  ASSUME TypeOK, LockInv, NEW p \in Procs, EndJVM(p)
  PROVE  LockInv'
BY DEF TypeOK, LockInv, Working, EndJVM, GoTo, Dirs

LEMMA NextLock == TypeOK /\ LockInv /\ [Next]_vars => LockInv'
<1> SUFFICES ASSUME TypeOK, LockInv, [Next]_vars PROVE LockInv'  OBVIOUS
<1> USE DEF Step
<1>1. CASE InboxChanges
  BY <1>1 DEF InboxChanges, LockInv, Working
<1>2. ASSUME NEW p \in Importers, FetchInbox(p) \/ ImporterStep(p) PROVE LockInv'
  <2> p \in Procs  BY DEF Procs
  <2>1. CASE FetchInbox(p)
    BY <2>1 DEF FetchInbox, TypeOK, LockInv, Working, GoTo, shared
  <2>2. CASE OpenIndexer(p)
    BY <2>2, OpenWriterLock DEF OpenIndexer, Dirs
  <2>3. CASE StartTable(p) \/ FinishTable(p) \/ LoseTable(p)
    BY <2>3, KeepsLock DEF StartTable, FinishTable, LoseTable, Working
  <2>4. CASE Rate(p) \/ RatingFails(p)
    BY <2>4, KeepsLock DEF Rate, RatingFails, Fail, Working, shared
  <2> QED  BY <1>2, <2>1, <2>2, <2>3, <2>4 DEF ImporterStep
<1>3. ASSUME NEW p \in Importers, ServerStep(p) PROVE LockInv'
  <2> p \in Procs  BY DEF Procs
  <2>1. CASE ReadText(p) \/ LoseConnection(p)
    BY <2>1, KeepsLock
    DEF ReadText, LoseConnection, WaitsForServer, AtMessage, Fail, Working, shared
  <2>2. CASE RejectMessage(p) \/ SkipMessage(p) \/ AcceptMessage(p)
    BY <2>2, KeepsLock
    DEF RejectMessage, SkipMessage, AcceptMessage, AtMessage, Fail, Advance, Working, shared
  <2> QED  BY <1>3, <2>1, <2>2 DEF ServerStep
<1>4. ASSUME NEW p \in Taggers, OpenSource(p) \/ TaggerStep(p) PROVE LockInv'
  <2> p \in Procs  BY DEF Procs
  <2>1. CASE OpenSource(p)
    BY <2>1, OpenWriterLock DEF OpenSource, Dirs
  <2>2. CASE OpenTarget(p)
    BY <2>2, OpenWriterLock DEF OpenTarget, Dirs, Working
  <2>3. CASE Train(p) \/ LoadMails(p) \/ Classify(p) \/ ClassifyFails(p)
    BY <2>3, KeepsLock DEF Train, LoadMails, Classify, ClassifyFails, Fail, Working, shared
  <2> QED  BY <1>4, <2>1, <2>2, <2>3 DEF TaggerStep
<1>5. ASSUME NEW p \in Procs, SharedStep(p) PROVE LockInv'
  <2>1. CASE Exit(p)
    BY <2>1, EndJVMLock DEF Exit
  <2>2. CASE FindDuplicate(p) \/ FindNothing(p) \/ CloseIndexer(p) \/ CloseFails(p)
    BY <2>2, KeepsLock
    DEF FindDuplicate, FindNothing, CloseIndexer, CloseFails, Fail, Advance, Working, shared
  <2>3. CASE AddDocument(p) \/ LoseDocument(p)
    BY <2>3, KeepsLock DEF AddDocument, LoseDocument, Advance, Working, shared
  <2> QED  BY <1>5, <2>1, <2>2, <2>3 DEF SharedStep
<1>6. ASSUME NEW p \in Procs, Crash(p) PROVE LockInv'
  BY <1>6, EndJVMLock DEF Crash
<1>7. CASE UNCHANGED vars
  BY <1>7 DEF vars, LockInv, Working
<1> QED  BY <1>1, <1>2, <1>3, <1>4, <1>5, <1>6, <1>7 DEF Next

(* Of all the programs that share the directories and HashFile at most one *)
(* works at any time.                                                      *)
THEOREM OneRun == Spec => []OneRunAtATime
<1>1. Init => LockInv
  BY DEF Init, LockInv, Working
<1>2. LockInv => OneRunAtATime
  BY DEF LockInv, OneRunAtATime
<1> QED  BY InitType, InitRound, NextType, NextRound, NextLock, <1>1, <1>2, PTL DEF Spec

(***************************************************************************)
(* Locks: nobody else holds one, and a tagger that writes holds both.      *)
(***************************************************************************)
WritingStep == {"reading", "rating", "saving", "reopening", "addressing", "lookup", "adding"}

(* A step of p that neither opens a writer nor ends the JVM.               *)
LEMMA KeepsHolder ==
  ASSUME TypeOK, HolderInv, NEW p \in Procs, NEW step \in Step \ {"idle", "opening"},
         GoTo(p, step), UNCHANGED writeLock,
         p \in Importers \/ Writing(p) \/ step \notin WritingStep
  PROVE  HolderInv'
<1>1. \A q \in Procs, d \in Dirs : writeLock'[d] = q => pc'[q] \notin {"idle", "opening"}
  BY DEF TypeOK, HolderInv, GoTo
<1>2. ASSUME NEW q \in Taggers, Writing(q)' PROVE writeLock'["Temp"] = q
  <2>1. q \in Procs /\ q \notin Importers  BY ProcsAssumption DEF Procs
  <2>2. Writing(q)  BY <1>2, <2>1 DEF TypeOK, Writing, WritingStep, GoTo
  <2> QED  BY <2>2 DEF HolderInv
<1> QED  BY <1>1, <1>2 DEF HolderInv

LEMMA OpenWriterHolder ==
  ASSUME TypeOK, HolderInv, NEW p \in Procs, NEW step \in Step \ {"idle", "opening"},
         NEW dir \in Dirs, OpenWriter(p, dir, step),
         p \in Importers \/ dir = "Temp" \/ step \notin WritingStep
  PROVE  HolderInv'
<1>1. CASE writeLock' = [writeLock EXCEPT ![dir] = p] /\ writeLock[dir] = NoProc /\ GoTo(p, step)
  <2>1. \A q \in Procs, d \in Dirs : writeLock'[d] = q => pc'[q] \notin {"idle", "opening"}
    BY <1>1 DEF TypeOK, HolderInv, GoTo
  <2>2. ASSUME NEW q \in Taggers, Writing(q)' PROVE writeLock'["Temp"] = q
    <3>1. q \in Procs /\ q \notin Importers /\ q # NoProc  BY ProcsAssumption DEF Procs
    <3>2. CASE Writing(q)
      <4>1. writeLock["Temp"] = q  BY <3>2 DEF HolderInv
      <4>2. dir # "Temp"  BY <4>1, <1>1, <3>1
      <4> QED  BY <1>1, <4>1, <4>2 DEF TypeOK, Dirs
    <3>3. CASE ~Writing(q)
      <4>1. q = p /\ dir = "Temp"  BY <1>1, <2>2, <3>1, <3>3 DEF TypeOK, Writing, WritingStep, GoTo
      <4> QED  BY <1>1, <4>1 DEF TypeOK, Dirs
    <3> QED  BY <3>2, <3>3
  <2> QED  BY <2>1, <2>2 DEF HolderInv
<1>2. CASE UNCHANGED writeLock /\ GoTo(p, "exiting")
  BY <1>2, KeepsHolder DEF Step, WritingStep
<1> QED  BY <1>1, <1>2 DEF OpenWriter

LEMMA EndJVMHolder ==
  ASSUME TypeOK, HolderInv, NEW p \in Procs, EndJVM(p)
  PROVE  HolderInv'
<1>0. NoProc \notin Procs  BY ProcsAssumption DEF Procs
<1>1. \A q \in Procs, d \in Dirs : writeLock'[d] = q => pc'[q] \notin {"idle", "opening"}
  BY <1>0 DEF TypeOK, HolderInv, EndJVM, GoTo
<1>2. ASSUME NEW q \in Taggers, Writing(q)' PROVE writeLock'["Temp"] = q
  <2>1. q \in Procs  BY DEF Procs
  <2>2. q # p /\ Writing(q)  BY <1>2, <2>1 DEF TypeOK, Writing, EndJVM, GoTo
  <2> QED  BY <2>2 DEF HolderInv, EndJVM, Dirs
<1> QED  BY <1>1, <1>2 DEF HolderInv

LEMMA NextHolder == TypeOK /\ HolderInv /\ [Next]_vars => HolderInv'
<1> SUFFICES ASSUME TypeOK, HolderInv, [Next]_vars PROVE HolderInv'  OBVIOUS
<1> USE DEF Step
<1>1. CASE InboxChanges
  BY <1>1 DEF InboxChanges, HolderInv, Writing
<1>2. ASSUME NEW p \in Importers, FetchInbox(p) \/ ImporterStep(p) PROVE HolderInv'
  <2> p \in Procs  BY DEF Procs
  <2>1. CASE FetchInbox(p)
    <3>1. p \notin Taggers  BY ProcsAssumption
    <3>2. \A q \in Procs : Writing(q)' => Writing(q)
      BY <2>1 DEF FetchInbox, TypeOK, GoTo, Writing
    <3>3. \A q \in Procs, d \in Dirs : writeLock'[d] = q => pc'[q] \notin {"idle", "opening"}
      BY <2>1 DEF FetchInbox, TypeOK, HolderInv, GoTo, shared
    <3> QED  BY <2>1, <3>2, <3>3 DEF FetchInbox, HolderInv, shared, Procs
  <2>2. CASE OpenIndexer(p)
    BY <2>2, OpenWriterHolder DEF OpenIndexer, Dirs
  <2>3. CASE StartTable(p) \/ FinishTable(p) \/ LoseTable(p)
    BY <2>3, KeepsHolder DEF StartTable, FinishTable, LoseTable, Fail
  <2>4. CASE Rate(p) \/ RatingFails(p)
    BY <2>4, KeepsHolder DEF Rate, RatingFails, Fail, shared
  <2> QED  BY <1>2, <2>1, <2>2, <2>3, <2>4 DEF ImporterStep
<1>3. ASSUME NEW p \in Importers, ServerStep(p) PROVE HolderInv'
  <2> p \in Procs  BY DEF Procs
  <2>1. CASE ReadText(p) \/ LoseConnection(p)
    BY <2>1, KeepsHolder DEF ReadText, LoseConnection, Fail, shared
  <2>2. CASE RejectMessage(p) \/ SkipMessage(p) \/ AcceptMessage(p)
    BY <2>2, KeepsHolder DEF RejectMessage, SkipMessage, AcceptMessage, Fail, Advance, shared
  <2> QED  BY <1>3, <2>1, <2>2 DEF ServerStep
<1>4. ASSUME NEW p \in Taggers, OpenSource(p) \/ TaggerStep(p) PROVE HolderInv'
  <2> p \in Procs  BY DEF Procs
  <2>1. CASE OpenSource(p)
    BY <2>1, OpenWriterHolder DEF OpenSource, Dirs, WritingStep
  <2>2. CASE OpenTarget(p)
    BY <2>2, OpenWriterHolder DEF OpenTarget, Dirs
  <2>3. CASE Train(p) \/ LoadMails(p) \/ Classify(p) \/ ClassifyFails(p)
    BY <2>3, KeepsHolder DEF Train, LoadMails, Classify, ClassifyFails, Fail, Writing, WritingStep, shared
  <2> QED  BY <1>4, <2>1, <2>2, <2>3 DEF TaggerStep
<1>5. ASSUME NEW p \in Procs, SharedStep(p) PROVE HolderInv'
  <2>1. CASE Exit(p)
    BY <2>1, EndJVMHolder DEF Exit
  <2>2. CASE FindDuplicate(p) \/ FindNothing(p) \/ CloseIndexer(p) \/ CloseFails(p)
    BY <2>2, KeepsHolder
    DEF FindDuplicate, FindNothing, CloseIndexer, CloseFails, Fail, Advance, Writing, shared
  <2>3. CASE AddDocument(p) \/ LoseDocument(p)
    BY <2>3, KeepsHolder DEF AddDocument, LoseDocument, Advance, Writing, shared
  <2> QED  BY <1>5, <2>1, <2>2, <2>3 DEF SharedStep
<1>6. ASSUME NEW p \in Procs, Crash(p) PROVE HolderInv'
  BY <1>6, EndJVMHolder DEF Crash
<1>7. CASE UNCHANGED vars
  BY <1>7 DEF vars, HolderInv, Writing
<1> QED  BY <1>1, <1>2, <1>3, <1>4, <1>5, <1>6, <1>7 DEF Next
=============================================================================
