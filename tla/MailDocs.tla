------------------------------ MODULE MailDocs ------------------------------
(***************************************************************************)
(* The data the indexing programs of mailFinder exchange: the messages of  *)
(* the POP3 inbox, the documents of a Lucene index, and the pure questions *)
(* the programs ask of them (is a body known to an index? which documents  *)
(* does an inbox give?).                                                   *)
(***************************************************************************)
EXTENDS Integers, Sequences

CONSTANTS
  Body,        \* message texts; two messages may carry the same one
  Findable,    \* the bodies whose hash survives the query analyser (see Known)
  Inbound,     \* the messages that may arrive in the inbox
  Category,    \* the category strings TopicModel can produce, never empty
  NoCategory,  \* the document has no "categories" field
  NoIndex,     \* a directory without a commit: opening a reader on it raises
  IOFaults     \* may an access to an index raise: a read, a search or a write?

ASSUME FindableAssumption == Findable \subseteq Body
ASSUME NoCategoryAssumption == NoCategory \notin Category
ASSUME IOFaultsAssumption == IOFaults \in BOOLEAN

(***************************************************************************)
(* What the importing loop does with a message, decided by its headers:    *)
(*   complete     a document is made of it                                 *)
(*   no_text      getText returns null, the next line dereferences it      *)
(*   malformed    From, recipients or date are null and are dereferenced   *)
(*   unaddressed  no recipient address, or an empty From: `continue'       *)
(*   untitled     a null subject, on which addIndex raises and is silent   *)
(***************************************************************************)
Fate == {"complete", "no_text", "malformed", "unaddressed", "untitled"}

Message == [body : Body, fate : Fate]

ASSUME InboundAssumption == Inbound \subseteq Message

Doc == [id : Nat \ {0}, body : Body, categories : Category \union {NoCategory}]

Index == (SUBSET Doc) \union {NoIndex}

Contents(idx) == IF idx = NoIndex THEN {} ELSE idx

(***************************************************************************)
(* The duplicate search of addIndex: the hash is stored as one verbatim    *)
(* term, but the query goes through PortugueseAnalyzer, whose stemmer cuts *)
(* the last letter of a hash that ends in "a" or "e"; such a body is never *)
(* found.                                                                  *)
(***************************************************************************)
Known(body, idx) == body \in Findable /\ \E d \in Contents(idx) : d.body = body

(* Faulty variant: the counter is read before it is incremented.           *)
NewDocFromZero(id, msg) == [id |-> id - 1, body |-> msg.body, categories |-> NoCategory]

NewDoc(id, msg) == [id |-> id, body |-> msg.body, categories |-> NoCategory]

Tagged(doc, cat) == [doc EXCEPT !.categories = cat]

(* The messages on which importMail raises, abandoning the whole run.      *)
Fatal(msg) == msg.fate \in {"no_text", "malformed"}

(* The documents the first n messages of an inbox are made into.           *)
DocsOf(msgs, n) ==
  {NewDoc(i, msgs[i]) : i \in {j \in 1..n : msgs[j].fate = "complete"}}

Ids(docs) == {d.id : d \in docs}

(* What is to be left of docs after the duplicate search against idx: all  *)
(* but the known bodies.  Of the documents whose ids slipped through an    *)
(* I/O error, which the code swallows, nothing is said.                    *)
Kept(docs, idx, slipped) ==
  {kept \in SUBSET docs :
     \A d \in docs : d.id \notin slipped => (d \in kept <=> ~Known(d.body, idx))}

(* The results of giving one category to each document kept of src.        *)
Taggings(src, idx, slipped) ==
  UNION {{{Tagged(d, cat[d]) : d \in kept} : cat \in [kept -> Category]} :
           kept \in Kept(src, idx, slipped)}

(* What there may be of docs, in order of their ids, up to some document.  *)
Beginnings(docs) ==
  {docs} \union {{d \in docs : d.id < e.id} : e \in docs}

(***************************************************************************)
(* getAllInfo and getAllMail walk the documents in order and swallow any   *)
(* exception: on a read error they return what they have so far.           *)
(***************************************************************************)
Readings(idx) ==
  IF IOFaults THEN Beginnings(Contents(idx)) ELSE {Contents(idx)}
=============================================================================
