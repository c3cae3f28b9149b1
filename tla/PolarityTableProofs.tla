------------------------- MODULE PolarityTableProofs -------------------------
(***************************************************************************)
(* Proofs about PolarityTable, for all lists, bodies and histories of      *)
(* faults.  The invariant follows the table being built: it is of as many  *)
(* lines of the list at hand as were read, and of a beginning of each list *)
(* before it.                                                              *)
(***************************************************************************)
EXTENDS PolarityTable, TLAPS

Built ==
  \E p \in 0..Len(Positivos), z \in 0..Len(Neutros), n \in 0..Len(Negativos) :
    /\ polTable = Merged(p, z, n)
    /\ list = 1 => p = line - 1 /\ z = 0 /\ n = 0
    /\ list = 2 => z = line - 1 /\ n = 0
    /\ list = 3 => n = line - 1

LEMMA ListsType ==
  /\ Positivos \in Seq(Word) /\ Neutros \in Seq(Word) /\ Negativos \in Seq(Word)
  /\ Len(Positivos) \in Nat /\ Len(Neutros) \in Nat /\ Len(Negativos) \in Nat
BY ListsAssumption

LEMMA LineType ==
  ASSUME NEW l \in 1..3, NEW i \in Nat \ {0}, i <= Len(Lists[l])
  PROVE  Lists[l][i] \in Word
<1>1. Lists[l] \in Seq(Word)
  BY ListsType DEF Lists
<1> QED  BY <1>1

LEMMA PolarityOfType == ASSUME NEW l \in 1..3 PROVE PolarityOf(l) \in Polarity
BY DEF PolarityOf, Polarity

LEMMA TablesAre ==
  ASSUME NEW table
  PROVE  table \in Tables <=> \E words \in SUBSET Word : table \in [words -> Polarity]
BY DEF Tables

LEMMA PutType ==
  ASSUME NEW table \in Tables, NEW word \in Word, NEW polarity \in Polarity
  PROVE  Put(table, word, polarity) \in Tables
<1>1. PICK words \in SUBSET Word : table \in [words -> Polarity]
  BY TablesAre
<1>2. Put(table, word, polarity) \in [words \union {word} -> Polarity]
  BY <1>1 DEF Put
<1> QED  BY <1>2, TablesAre

LEMMA NoWordsType == NoWords \in Tables
<1>1. NoWords \in [{} -> Polarity]  BY DEF NoWords
<1> QED  BY <1>1, TablesAre

LEMMA VerdictType ==
  ASSUME NEW table, NEW words PROVE Verdict(table, words) \in Polarity
BY DEF Verdict, Polarity

(* One more line adds its word.                                            *)
LEMMA WordsOfNext ==
  ASSUME NEW lines, NEW n \in Nat
  PROVE  WordsOf(lines, n + 1) = WordsOf(lines, n) \union {lines[n + 1]}
<1>1. 1..(n + 1) = (1..n) \union {n + 1}
  OBVIOUS
<1> QED  BY <1>1 DEF WordsOf

LEMMA NoWordsMerged == NoWords = Merged(0, 0, 0)
<1>1. \A lines : WordsOf(lines, 0) = {}
  BY DEF WordsOf
<1> QED  BY <1>1 DEF NoWords, Merged

LEMMA PutPositivo ==
  ASSUME NEW p \in Nat
  PROVE  Put(Merged(p, 0, 0), Positivos[p + 1], 1) = Merged(p + 1, 0, 0)
<1>1. WordsOf(Neutros, 0) = {} /\ WordsOf(Negativos, 0) = {}
  BY DEF WordsOf
<1>2. WordsOf(Positivos, p + 1) = WordsOf(Positivos, p) \union {Positivos[p + 1]}
  BY WordsOfNext
<1> QED  BY <1>1, <1>2 DEF Put, Merged

LEMMA PutNeutro ==
  ASSUME NEW p \in Nat, NEW z \in Nat
  PROVE  Put(Merged(p, z, 0), Neutros[z + 1], 0) = Merged(p, z + 1, 0)
<1>1. WordsOf(Negativos, 0) = {}
  BY DEF WordsOf
<1>2. WordsOf(Neutros, z + 1) = WordsOf(Neutros, z) \union {Neutros[z + 1]}
  BY WordsOfNext
<1> QED  BY <1>1, <1>2 DEF Put, Merged

LEMMA PutNegativo ==
  ASSUME NEW p \in Nat, NEW z \in Nat, NEW n \in Nat
  PROVE  Put(Merged(p, z, n), Negativos[n + 1], -1) = Merged(p, z, n + 1)
<1>1. WordsOf(Negativos, n + 1) = WordsOf(Negativos, n) \union {Negativos[n + 1]}
  BY WordsOfNext
<1> QED  BY <1>1 DEF Put, Merged

-----------------------------------------------------------------------------
(* A run has a body, and what it builds is of beginnings of the lists.     *)
Building ==
  /\ pc # "idle" => body \in Body
  /\ Built
  /\ hashFile = "table" => FromTheLists(saved)

LEMMA InitBuilding == Init => TypeOK /\ Building
<1> SUFFICES ASSUME Init PROVE TypeOK /\ Building
  OBVIOUS
<1>1. polTable = Merged(0, 0, 0)
  BY NoWordsMerged DEF Init
<1>2. Built
  BY <1>1, ListsType DEF Init, Built
<1> QED  BY <1>2, NoWordsType DEF Init, TypeOK, Building

LEMMA StartsBuilt ==
  ASSUME polTable' = NoWords, list' = 1, line' = 1 PROVE Built'
<1>1. polTable' = Merged(0, 0, 0)
  BY NoWordsMerged
<1> QED  BY <1>1, ListsType DEF Built

LEMMA ReadLineBuilds ==
  ASSUME TypeOK, Built, ReadLine PROVE Built'
<1>1. PICK p \in 0..Len(Positivos), z \in 0..Len(Neutros), n \in 0..Len(Negativos) :
        /\ polTable = Merged(p, z, n)
        /\ list = 1 => p = line - 1 /\ z = 0 /\ n = 0
        /\ list = 2 => z = line - 1 /\ n = 0
        /\ list = 3 => n = line - 1
  BY DEF Built
<1>2. /\ p \in Nat /\ z \in Nat /\ n \in Nat /\ line \in Nat \ {0} /\ list \in 1..3
      /\ line' = line + 1 /\ list' = list
  BY ListsType DEF TypeOK, ReadLine
<1>3. CASE list = 1
  <2>1. line = p + 1 /\ line <= Len(Positivos) /\ z = 0 /\ n = 0
    BY <1>1, <1>2, <1>3 DEF ReadLine, Lists
  <2>2. polTable' = Merged(p + 1, 0, 0)
    BY <1>1, <1>2, <1>3, <2>1, PutPositivo DEF ReadLine, Lists, PolarityOf
  <2>3. p + 1 \in 0..Len(Positivos)
    BY <1>2, <2>1, ListsType
  <2> QED  BY <1>2, <1>3, <2>1, <2>2, <2>3, ListsType DEF Built
<1>4. CASE list = 2
  <2>1. line = z + 1 /\ line <= Len(Neutros) /\ n = 0
    BY <1>1, <1>2, <1>4 DEF ReadLine, Lists
  <2>2. polTable' = Put(polTable, Neutros[z + 1], 0)
    BY <1>2, <1>4, <2>1 DEF ReadLine, Lists, PolarityOf
  <2>4. polTable' = Merged(p, z + 1, 0)
    BY <1>1, <1>2, <2>1, <2>2, PutNeutro
  <2>3. z + 1 \in 0..Len(Neutros)
    BY <1>2, <2>1, ListsType
  <2> QED  BY <1>2, <1>4, <2>1, <2>3, <2>4, ListsType DEF Built
<1>5. CASE list = 3
  <2>1. line = n + 1 /\ line <= Len(Negativos)
    BY <1>1, <1>2, <1>5 DEF ReadLine, Lists
  <2>2. polTable' = Put(polTable, Negativos[n + 1], -1)
    BY <1>2, <1>5, <2>1 DEF ReadLine, Lists, PolarityOf
  <2>4. polTable' = Merged(p, z, n + 1)
    BY <1>1, <1>2, <2>2, PutNegativo
  <2>3. n + 1 \in 0..Len(Negativos)
    BY <1>2, <2>1, ListsType
  <2> QED  BY <1>2, <1>5, <2>1, <2>3, <2>4 DEF Built
<1> QED  BY <1>2, <1>3, <1>4, <1>5

(* The next list starts with none of its lines read.                       *)
LEMMA EndListBuilds ==
  ASSUME TypeOK, Built, EndList PROVE Built'
<1>1. PICK p \in 0..Len(Positivos), z \in 0..Len(Neutros), n \in 0..Len(Negativos) :
        /\ polTable = Merged(p, z, n)
        /\ list = 1 => z = 0 /\ n = 0
        /\ list = 2 => n = 0
  BY DEF Built
<1>2. polTable' = Merged(p, z, n)
  BY <1>1 DEF EndList
<1>3. list \in {1, 2} /\ list' = list + 1 /\ line' = 1
  BY DEF TypeOK, EndList
<1> QED  BY <1>1, <1>2, <1>3 DEF Built

LEMMA KeepsBuilt ==
  ASSUME Built, UNCHANGED <<polTable, list, line>> PROVE Built'
BY DEF Built

LEMMA NextBuilding == TypeOK /\ Building /\ [Next]_vars => (TypeOK /\ Building)'
<1> SUFFICES ASSUME TypeOK, Building, [Next]_vars PROVE TypeOK' /\ Building'
  OBVIOUS
<1> USE NoWordsType
<1>1. CASE GetPolarity
  <2>1. Built'
    BY <1>1, StartsBuilt DEF GetPolarity
  <2> QED  BY <1>1, <2>1 DEF GetPolarity, TypeOK, Building, FromTheLists
<1>2. CASE ReadLine
  <2>1. polTable' \in Tables
    BY <1>2, LineType, PolarityOfType, PutType DEF TypeOK, ReadLine
  <2>2. Built'
    BY <1>2, ReadLineBuilds DEF Building
  <2> QED  BY <1>2, <2>1, <2>2 DEF ReadLine, TypeOK, Building, FromTheLists
<1>3. CASE EndList
  <2>1. Built'
    BY <1>3, EndListBuilds DEF Building
  <2> QED  BY <1>3, <2>1 DEF EndList, TypeOK, Building, FromTheLists
<1>4. CASE EndLastList
  <2>1. Built'
    BY <1>4, KeepsBuilt DEF EndLastList, Building
  <2> QED  BY <1>4, <2>1 DEF EndLastList, TypeOK, Building, FromTheLists
<1>5. CASE SaveTable
  <2>1. Built'
    BY <1>5, KeepsBuilt DEF SaveTable, Building
  <2>2. FromTheLists(saved)'
    BY <1>5 DEF SaveTable, Building, Built, FromTheLists
  <2> QED  BY <1>5, <2>1, <2>2 DEF SaveTable, TypeOK, Building
<1>6. CASE LoseTable
  <2>1. Built'
    BY <1>6, StartsBuilt DEF LoseTable, EndRun
  <2> QED  BY <1>6, <2>1 DEF LoseTable, EndRun, TypeOK, Building
<1>7. CASE Rate
  <2>1. body \in Body
    BY <1>7 DEF Rate, Building
  <2>2. rated' \in SUBSET [body : Body, polarity : Polarity]
    BY <1>7, <2>1, VerdictType DEF Rate, TypeOK
  <2>3. Built'
    BY <1>7, KeepsBuilt DEF Rate, Building
  <2> QED  BY <1>7, <2>2, <2>3 DEF Rate, TypeOK, Building, FromTheLists
<1>8. CASE Abort
  <2>1. Built'
    BY <1>8, StartsBuilt DEF Abort, EndRun
  <2> QED  BY <1>8, <2>1 DEF Abort, EndRun, TypeOK, Building, FromTheLists
<1>9. CASE UNCHANGED vars
  <2>1. Built'
    BY <1>9, KeepsBuilt DEF vars, Building
  <2> QED  BY <1>9, <2>1 DEF vars, TypeOK, Building, FromTheLists
<1> QED  BY <1>1, <1>2, <1>3, <1>4, <1>5, <1>6, <1>7, <1>8, <1>9 DEF Next

LEMMA AlwaysBuilding == Spec => [](TypeOK /\ Building)
BY InitBuilding, NextBuilding, PTL DEF Spec

(* Types, for all lists and bodies.                                        *)
THEOREM TypeCorrect == Spec => []TypeOK
BY AlwaysBuilding, PTL

(* A table that can be read is of beginnings of the lists, also when files *)
(* that are there fail to open.                                            *)
THEOREM SavedFromTheLists == Spec => []SavedIsFromTheLists
<1>1. TypeOK /\ Building => SavedIsFromTheLists
  BY DEF Building, SavedIsFromTheLists
<1> QED  BY <1>1, AlwaysBuilding, PTL

LEMMA NextRated ==
  ASSUME Building, RatedFromTheLists, [Next]_vars PROVE RatedFromTheLists'
<1>1. CASE Rate
  <2>1. PICK p \in 0..Len(Positivos), z \in 0..Len(Neutros), n \in 0..Len(Negativos) :
          saved = Merged(p, z, n)
    BY <1>1 DEF Rate, Building, FromTheLists
  <2>2. rated' = rated \union {[body |-> body, polarity |-> Verdict(saved, body)]}
    BY <1>1 DEF Rate
  <2> QED  BY <2>1, <2>2 DEF RatedFromTheLists
<1>2. CASE ~Rate
  <2>1. rated' = rated
    BY <1>2 DEF Next, GetPolarity, ReadLine, EndList, EndLastList, SaveTable, LoseTable,
                Abort, EndRun, vars
  <2> QED  BY <2>1 DEF RatedFromTheLists
<1> QED  BY <1>1, <1>2

(* Also when a file that is there fails to open and is written over, every *)
(* rating is of beginnings of the lists.                                   *)
THEOREM RatedFromLists == Spec => []RatedFromTheLists
<1>1. Init => RatedFromTheLists
  BY DEF Init, RatedFromTheLists
<1>2. Building /\ RatedFromTheLists /\ [Next]_vars => RatedFromTheLists'
  BY NextRated
<1> QED  BY <1>1, <1>2, AlwaysBuilding, PTL DEF Spec

-----------------------------------------------------------------------------
(* When files that are there open: the table is built only where there is  *)
(* none, and once there are ratings the table they came from stays.        *)
OneTable ==
  /\ pc = "reading" => hashFile = "absent"
  /\ pc = "saving" => hashFile = "torn"
  /\ pc \in {"reading", "saving"} => rated = {}
  /\ RatedByTheFile

LEMMA InitOneTable == Init => OneTable
BY DEF Init, OneTable, RatedByTheFile

LEMMA NextOneTable ==
  ASSUME ~OpenFaults PROVE OneTable /\ [Next]_vars => OneTable'
<1> SUFFICES ASSUME OneTable, [Next]_vars PROVE OneTable'
  OBVIOUS
<1> USE DEF OneTable, RatedByTheFile
<1>1. CASE GetPolarity
  BY <1>1 DEF GetPolarity
<1>2. CASE ReadLine \/ EndList \/ EndLastList
  BY <1>2 DEF ReadLine, EndList, EndLastList
<1>3. CASE SaveTable
  BY <1>3 DEF SaveTable
<1>4. CASE LoseTable \/ Abort
  BY <1>4 DEF LoseTable, Abort, EndRun
<1>5. CASE Rate
  BY <1>5 DEF Rate
<1>6. CASE UNCHANGED vars
  BY <1>6 DEF vars
<1> QED  BY <1>1, <1>2, <1>3, <1>4, <1>5, <1>6 DEF Next

(* Every rating is the one the table of HashFile gives now, if files that  *)
(* are there open.                                                         *)
THEOREM RatedByFile == ~OpenFaults => (Spec => []RatedByTheFile)
<1> SUFFICES ASSUME ~OpenFaults PROVE Spec => []RatedByTheFile
  OBVIOUS
<1>1. Init => OneTable  BY InitOneTable
<1>2. OneTable /\ [Next]_vars => OneTable'  BY NextOneTable
<1>3. OneTable => RatedByTheFile  BY DEF OneTable
<1> QED  BY <1>1, <1>2, <1>3, PTL DEF Spec

(* The table is built only where no file opens.                            *)
BuiltWhereNoneOpens == pc = "reading" => hashFile = "absent" \/ OpenFaults

LEMMA NextImplementsFile ==
  ASSUME BuiltWhereNoneOpens, [Next]_vars
  PROVE  BuiltWhereNoneOpens' /\ [File!Next]_<<hashFile, pc = "saving">>
<1> USE DEF BuiltWhereNoneOpens, File!Next, File!Start, File!Finish, File!Abandon
<1>1. CASE GetPolarity
  BY <1>1 DEF GetPolarity
<1>2. CASE ReadLine \/ EndList \/ EndLastList
  BY <1>2 DEF ReadLine, EndList, EndLastList
<1>3. CASE SaveTable \/ Rate
  BY <1>3 DEF SaveTable, Rate
<1>4. CASE LoseTable \/ Abort
  BY <1>4 DEF LoseTable, Abort, EndRun
<1>5. CASE UNCHANGED vars
  BY <1>5 DEF vars
<1> QED  BY <1>1, <1>2, <1>3, <1>4, <1>5 DEF Next

(* HashFile goes through no more than TableFile allows, whether or not a   *)
(* file that is there may fail to open.                                    *)
THEOREM Implements == Spec => ImplementsTableFile
<1>1. Init => BuiltWhereNoneOpens /\ File!Init
  BY DEF Init, BuiltWhereNoneOpens, File!Init
<1>2. BuiltWhereNoneOpens /\ [Next]_vars =>
        BuiltWhereNoneOpens' /\ [File!Next]_<<hashFile, pc = "saving">>
  BY NextImplementsFile
<1> QED  BY <1>1, <1>2, PTL DEF Spec, ImplementsTableFile, File!Spec
=============================================================================
