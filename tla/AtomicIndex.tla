----------------------------- MODULE AtomicIndex -----------------------------
(***************************************************************************)
(* What the indexing programs promise of the two index directories, with   *)
(* no loop, no buffer and no program counter: a run takes a directory for  *)
(* itself, and either replaces its contents in one step by the result      *)
(* computed from its whole input and from the contents before the run, or  *)
(* leaves them alone.  The result is exact but for the documents on which  *)
(* the run has swallowed an I/O error: of those it promises nothing, and   *)
(* without I/O errors there are none.                                      *)
(***************************************************************************)
EXTENDS MailDocs, SequencesExt

CONSTANTS Importers, Taggers, NoProc, MaxMail

Procs == Importers \union Taggers
Dirs  == {"IndexerBD", "Temp"}

VARIABLES
  mailbox,   \* the inbox on the POP3 server
  inbox,     \* per importer, the messages it fetched
  index,     \* per directory, the published contents
  holder,    \* per directory, the run that owns it
  slipped    \* per run, the ids of the documents an I/O error has struck

vars == <<mailbox, inbox, index, holder, slipped>>

Init ==
  /\ mailbox = <<>>
  /\ inbox = [p \in Importers |-> <<>>]
  /\ index = [d \in Dirs |-> NoIndex]
  /\ holder = [d \in Dirs |-> NoProc]
  /\ slipped = [p \in Procs |-> {}]

(* Mail arrives at the end of the inbox, and its owner deletes some.       *)
InboxChanges ==
  /\ \/ /\ Len(mailbox) < MaxMail
        /\ \E m \in Inbound : mailbox' = Append(mailbox, m)
     \/ \E i \in DOMAIN mailbox : mailbox' = RemoveAt(mailbox, i)
  /\ UNCHANGED <<inbox, index, holder, slipped>>

(* The inbox is read before the directory is taken, and only then.         *)
Fetch(p) ==
  /\ \A d \in Dirs : holder[d] # p
  /\ inbox' = [inbox EXCEPT ![p] = mailbox]
  /\ UNCHANGED <<mailbox, index, holder, slipped>>

Take(p, d) ==
  /\ holder[d] = NoProc
  /\ holder' = [holder EXCEPT ![d] = p]
  /\ UNCHANGED <<mailbox, inbox, index, slipped>>

(* The documents a run is to publish, or to drop as known.                 *)
Input(p) ==
  IF p \in Importers THEN DocsOf(inbox[p], Len(inbox[p])) ELSE Contents(index["IndexerBD"])

(* An I/O error strikes some of them and is swallowed.                     *)
Slip(p) ==
  /\ IOFaults
  /\ holder["IndexerBD"] = p
  /\ \E ids \in SUBSET Ids(Input(p)) : slipped' = [slipped EXCEPT ![p] = @ \union ids]
  /\ UNCHANGED <<mailbox, inbox, index, holder>>

(* Every message of the inbox was importable, and nothing is published but *)
(* the documents of this inbox that the contents before did not hold.      *)
PublishMail(p) ==
  /\ holder["IndexerBD"] = p
  /\ \A i \in DOMAIN inbox[p] : ~Fatal(inbox[p][i])
  /\ \E docs \in Kept(Input(p), index["IndexerBD"], slipped[p]) :
        index' = [index EXCEPT !["IndexerBD"] = docs]
  /\ UNCHANGED <<mailbox, inbox, holder, slipped>>

(* The tagger owns source and target: nobody replaces either meanwhile.    *)
PublishTags(p) ==
  /\ \A d \in Dirs : holder[d] = p
  /\ \E tags \in Taggings(Input(p), index["Temp"], slipped[p]) :
        index' = [index EXCEPT !["Temp"] = tags]
  /\ UNCHANGED <<mailbox, inbox, holder, slipped>>

Release(p) ==
  /\ holder' = [d \in Dirs |-> IF holder[d] = p THEN NoProc ELSE holder[d]]
  /\ inbox' = [i \in Importers |-> IF i = p THEN <<>> ELSE inbox[i]]
  /\ slipped' = [slipped EXCEPT ![p] = {}]
  /\ UNCHANGED <<mailbox, index>>

Next ==
  \/ InboxChanges
  \/ \E p \in Importers : Fetch(p) \/ PublishMail(p)
  \/ \E p \in Taggers : PublishTags(p)
  \/ \E p \in Procs : Slip(p) \/ Release(p) \/ \E d \in Dirs : Take(p, d)

Spec == Init /\ [][Next]_vars
=============================================================================
