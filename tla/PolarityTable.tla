---------------------------- MODULE PolarityTable ----------------------------
(***************************************************************************)
(* HashOps: the polarity of a body is decided by the words of it that are  *)
(* in a table, which is read from HashFile for every body.  When HashFile  *)
(* does not open, the table is first built from three lists of words and   *)
(* written.  A list that does not open, or breaks off, ends early without  *)
(* a trace.  One program runs at a time (MailIndex!OneRunAtATime); it can  *)
(* be killed at any step.                                                  *)
(***************************************************************************)
EXTENDS Integers, FiniteSets, Sequences

CONSTANTS
  Word,        \* words, as split at spaces
  Positivos,   \* the lines of Sentilex/Positivos.txt
  Neutros,     \* and of Neutros.txt
  Negativos,   \* and of Negativos.txt
  Body,        \* the bodies of messages: sequences of words
  NoBody,      \* no body is being rated
  OpenFaults   \* may a HashFile that is there fail to open?

ASSUME ListsAssumption == {Positivos, Neutros, Negativos} \subseteq Seq(Word)
ASSUME BodyAssumption == Body \subseteq Seq(Word) /\ NoBody \notin Body
ASSUME OpenFaultsAssumption == OpenFaults \in BOOLEAN

VARIABLES
  hashFile,  \* "absent", "torn" or "table"
  saved,     \* the table HashFile holds, when it holds one
  pc,        \* "idle", "reading" the lists, "saving", or "loading" HashFile
  body,      \* the body being rated
  polTable,  \* the table being built
  list,      \* the list the program is at: 1, 2, 3
  line,      \* and the line
  rated      \* the bodies rated so far, with their polarities

vars == <<hashFile, saved, pc, body, polTable, list, line, rated>>

Polarity == {1, 0, -1}
Lists == <<Positivos, Neutros, Negativos>>
PolarityOf(l) == 2 - l

Tables == UNION {[words -> Polarity] : words \in SUBSET Word}
NoWords == [w \in {} |-> 0]

(* Faulty variant: a word keeps its first polarity.                        *)
PutIfAbsent(table, word, polarity) ==
  [w \in DOMAIN table \union {word} |-> IF w \in DOMAIN table THEN table[w] ELSE polarity]

(* Hashtable.put.                                                          *)
Put(table, word, polarity) ==
  [w \in DOMAIN table \union {word} |-> IF w = word THEN polarity ELSE table[w]]

(* How many words of a body have a polarity.                               *)
Votes(table, words, polarity) ==
  Cardinality({i \in DOMAIN words : words[i] \in DOMAIN table /\ table[words[i]] = polarity})

Verdict(table, words) ==
  LET positive == Votes(table, words, 1)
      neutral  == Votes(table, words, 0)
      negative == Votes(table, words, -1)
  IN IF positive > neutral /\ positive > negative THEN 1
     ELSE IF negative > positive /\ negative > neutral THEN -1
     ELSE 0

TypeOK ==
  /\ hashFile \in {"absent", "torn", "table"}
  /\ saved \in Tables
  /\ pc \in {"idle", "reading", "saving", "loading"}
  /\ body \in Body \union {NoBody}
  /\ polTable \in Tables
  /\ list \in 1..3
  /\ line \in Nat \ {0}
  /\ rated \in SUBSET [body : Body, polarity : Polarity]

Init ==
  /\ hashFile = "absent"
  /\ saved = NoWords
  /\ pc = "idle"
  /\ body = NoBody
  /\ polTable = NoWords
  /\ list = 1
  /\ line = 1
  /\ rated = {}

(* Faulty variant: a file that opens but holds no table is built again.    *)
GetPolarityRebuilding ==
  /\ pc = "idle"
  /\ body' \in Body
  /\ pc' = IF hashFile = "table" THEN "loading" ELSE "reading"
  /\ polTable' = NoWords
  /\ list' = 1 /\ line' = 1
  /\ UNCHANGED <<hashFile, saved, rated>>

(* The next message.                                                       *)
GetPolarity ==
  /\ pc = "idle"
  /\ body' \in Body
  /\ \/ /\ hashFile # "absent"
        /\ pc' = "loading"
     \/ /\ hashFile = "absent" \/ OpenFaults
        /\ pc' = "reading"
  /\ polTable' = NoWords
  /\ list' = 1 /\ line' = 1
  /\ UNCHANGED <<hashFile, saved, rated>>

ReadLine ==
  /\ pc = "reading"
  /\ line <= Len(Lists[list])
  /\ polTable' = Put(polTable, Lists[list][line], PolarityOf(list))
  /\ line' = line + 1
  /\ UNCHANGED <<hashFile, saved, pc, body, list, rated>>

(* Faulty variant: there is a list more than there are.                    *)
EndListPast ==
  /\ pc = "reading" /\ list <= 3
  /\ list' = list + 1
  /\ line' = 1
  /\ UNCHANGED <<hashFile, saved, pc, body, polTable, rated>>

(* readLine gives null: at the end of the list, or on any error, which is  *)
(* printed.                                                                *)
EndList ==
  /\ pc = "reading" /\ list < 3
  /\ list' = list + 1
  /\ line' = 1
  /\ UNCHANGED <<hashFile, saved, pc, body, polTable, rated>>

(* openWrite empties the file, or fails and leaves it as it was.           *)
EndLastList ==
  /\ pc = "reading" /\ list = 3
  /\ \/ pc' = "saving" /\ hashFile' = "torn"
     \/ pc' = "loading" /\ UNCHANGED hashFile
  /\ UNCHANGED <<saved, body, polTable, list, line, rated>>

SaveTable ==
  /\ pc = "saving"
  /\ hashFile' = "table"
  /\ saved' = polTable
  /\ pc' = "loading"
  /\ UNCHANGED <<body, polTable, list, line, rated>>

(* The program runs out, or is killed.                                     *)
EndRun ==
  /\ pc' = "idle"
  /\ body' = NoBody
  /\ polTable' = NoWords
  /\ list' = 1 /\ line' = 1
  /\ UNCHANGED <<saved, rated>>

(* Faulty variant: the body is rated with the table just built.            *)
LoseTableRating ==
  /\ pc = "saving"
  /\ hashFile' \in {"absent", "torn"}
  /\ rated' = rated \union {[body |-> body, polarity |-> Verdict(polTable, body)]}
  /\ pc' = "idle" /\ body' = NoBody /\ polTable' = NoWords /\ list' = 1 /\ line' = 1
  /\ UNCHANGED saved

(* A write error, swallowed, and null read back; or the program is killed. *)
LoseTable ==
  /\ pc = "saving"
  /\ hashFile' \in {"absent", "torn"}
  /\ EndRun

(* The object of HashFile cannot be read, now or ever, and null is         *)
(* dereferenced; or the program is killed.                                 *)
Abort ==
  /\ pc \in {"reading", "loading"}
  /\ EndRun
  /\ UNCHANGED hashFile

Rate ==
  /\ pc = "loading"
  /\ hashFile = "table"
  /\ rated' = rated \union {[body |-> body, polarity |-> Verdict(saved, body)]}
  /\ pc' = "idle"
  /\ body' = NoBody
  /\ UNCHANGED <<hashFile, saved, polTable, list, line>>

Next ==
  \/ GetPolarity
  \/ ReadLine \/ EndList \/ EndLastList
  \/ SaveTable \/ LoseTable
  \/ Rate \/ Abort

Spec == Init /\ [][Next]_vars

-----------------------------------------------------------------------------
(* The words among the first n lines of a list.                            *)
WordsOf(lines, n) == {lines[i] : i \in 1..n}

(* Negative wins over neutral, and neutral over positive.                  *)
Merged(p, z, n) ==
  [w \in WordsOf(Positivos, p) \union WordsOf(Neutros, z) \union WordsOf(Negativos, n) |->
     IF w \in WordsOf(Negativos, n) THEN -1 ELSE IF w \in WordsOf(Neutros, z) THEN 0 ELSE 1]

FromTheLists(table) ==
  \E p \in 0..Len(Positivos), z \in 0..Len(Neutros), n \in 0..Len(Negativos) :
    table = Merged(p, z, n)

(* Whatever does not open or breaks off while a table is built, and        *)
(* however often the program is killed: a table that can be read back is   *)
(* of beginnings of the lists, and negative wins.                          *)
SavedIsFromTheLists == hashFile = "table" => FromTheLists(saved)

(* Every rating ever given is the one the table of HashFile gives now: the *)
(* same body is never rated twice in two ways, not even when a table was   *)
(* lost half way and built again from other beginnings.                    *)
RatedByTheFile ==
  \A r \in rated : hashFile = "table" /\ r.polarity = Verdict(saved, r.body)

(* Also when a file that is there fails to open and is written over, no    *)
(* rating comes from anything but beginnings of the lists.                 *)
RatedFromTheLists ==
  \A r \in rated : \E p \in 0..Len(Positivos), z \in 0..Len(Neutros), n \in 0..Len(Negativos) :
    r.polarity = Verdict(Merged(p, z, n), r.body)

(***************************************************************************)
(* Implementation.                                                         *)
(***************************************************************************)
File == INSTANCE TableFile WITH file <- hashFile, writing <- (pc = "saving")

(* HashFile is written by one run at a time, and where files that are      *)
(* there open (~OpenFaults), once, for good or ill.                        *)
ImplementsTableFile == File!Spec
=============================================================================
