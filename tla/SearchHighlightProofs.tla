------------------------ MODULE SearchHighlightProofs ------------------------
(***************************************************************************)
(* Theorems about SearchHighlight, for any page, texts, keywords and       *)
(* letters.                                                                *)
(***************************************************************************)
EXTENDS SearchHighlight, FiniteSetTheorems, SequenceTheorems, TLAPS

(***************************************************************************)
(* Numbers.                                                                *)
(***************************************************************************)
(* Induction over the naturals rests on this: the intervals 0..n of the    *)
(* numbers n of a set are finite sets, and those are well founded.         *)
LEMMA LeastNumber ==
  ASSUME NEW T \in SUBSET Nat, T # {}
  PROVE  \E n \in T : \A m \in T : n <= m
<1> DEFINE Intervals == {0..n : n \in T}
<1>1. Intervals \subseteq FiniteSubsetsOf(Nat) /\ Intervals # {}
  <2>1. \A n \in T : IsFiniteSet(0..n) /\ 0..n \subseteq Nat  BY FS_Interval
  <2> QED  BY <2>1 DEF FiniteSubsetsOf
<1>2. PICK x \in Intervals : \A y \in Intervals : ~ (<<y, x>> \in StrictSubsetOrdering(Nat))
  <2> HIDE DEF Intervals
  <2> QED  BY <1>1, FS_StrictSubsetOrderingWellFounded, WFMin, Zenon
<1>3. PICK n \in T : x = 0..n  OBVIOUS
<1>4. ASSUME NEW m \in T, m < n  PROVE FALSE
  <2>1. n \in 0..n /\ n \notin 0..m  BY <1>4
  <2>2. 0..m \subseteq 0..n /\ 0..m # 0..n  BY <1>4, <2>1
  <2>3. <<0..m, 0..n>> \in StrictSubsetOrdering(Nat)  BY <2>2 DEF StrictSubsetOrdering
  <2> QED  BY <2>3, <1>2, <1>3
<1> QED  BY <1>4

(* Induction, for a set.                                                   *)
LEMMA SetInduction ==
  ASSUME NEW T, 0 \in T, \A n \in Nat : n \in T => n + 1 \in T
  PROVE  Nat \subseteq T
<1> SUFFICES ASSUME Nat \ T # {} PROVE FALSE  OBVIOUS
<1>1. PICK n \in Nat \ T : \A m \in Nat \ T : n <= m  BY LeastNumber
<1>2. n - 1 \in Nat /\ n - 1 \in T  BY <1>1
<1> QED  BY <1>1, <1>2

(* Min is the least.                                                       *)
LEMMA MinIsLeast ==
  ASSUME NEW T \in SUBSET Nat, T # {}
  PROVE  Min(T) \in T /\ \A n \in T : Min(T) <= n
BY LeastNumber DEF Min

(* Max is the greatest, in a set that is bounded.                          *)
LEMMA MaxIsGreatest ==
  ASSUME NEW n \in Nat, NEW T \in SUBSET (0..n), T # {}
  PROVE  Max(T) \in T /\ \A m \in T : m <= Max(T)
<1> DEFINE Below == {n - m : m \in T}
<1>0. \A m \in T : m \in Nat /\ n - m \in Nat  OBVIOUS
<1>1. Below \in SUBSET Nat /\ Below # {}  BY <1>0
<1>2. PICK b \in Below : \A c \in Below : b <= c
  <2> HIDE DEF Below
  <2> QED  BY <1>1, LeastNumber
<1>3. PICK m \in T : b = n - m  OBVIOUS
<1>4. ASSUME NEW k \in T  PROVE k <= m
  <2>1. n - m <= n - k  BY <1>2, <1>3
  <2> QED  BY <2>1, <1>0
<1> QED  BY <1>4 DEF Max

(***************************************************************************)
(* Flattening a sequence of sequences.                                     *)
(***************************************************************************)
(* The recursion of FlattenSeq.                                            *)
Flattening(seqs, f, i) == IF i = 1 THEN seqs[i] ELSE f[i - 1] \o seqs[i]

(* There is a function that solves the recursion of FlattenSeq.            *)
LEMMA FlatteningExists ==
  ASSUME NEW seqs, NEW n \in Nat
  PROVE  \E f : f = [i \in 1..n |-> Flattening(seqs, f, i)]
<1> DEFINE T == {k \in Nat : \E f : f = [i \in 1..k |-> Flattening(seqs, f, i)]}
<1>1. 0 \in T
  <2>1. \A f : [i \in 1..0 |-> seqs] = [i \in 1..0 |-> Flattening(seqs, f, i)]  OBVIOUS
  <2> QED  BY <2>1
<1>2. ASSUME NEW k \in Nat, k \in T  PROVE k + 1 \in T
  <2>1. PICK f : f = [i \in 1..k |-> Flattening(seqs, f, i)]  BY <1>2
  <2> DEFINE g == [i \in 1..(k + 1) |-> Flattening(seqs, f, i)]
  <2>2. ASSUME NEW i \in 1..(k + 1)  PROVE g[i] = Flattening(seqs, g, i)
    <3>1. CASE i = 1  BY <3>1 DEF Flattening
    <3>2. CASE i # 1
      <4>1. i - 1 \in 1..k /\ i - 1 \in 1..(k + 1)  BY <3>2
      <4>2. g[i - 1] = f[i - 1]  BY <4>1, <2>1
      <4> QED  BY <4>2, <3>2 DEF Flattening
    <3> QED  BY <3>1, <3>2
  <2>3. g = [i \in 1..(k + 1) |-> Flattening(seqs, g, i)]  BY <2>2
  <2>4. \E h : h = [i \in 1..(k + 1) |-> Flattening(seqs, h, i)]
    <3> HIDE DEF g
    <3> QED  BY <2>3
  <2> QED  BY <2>4
<1>3. Nat \subseteq T
  <2> HIDE DEF T
  <2> QED  BY <1>1, <1>2, SetInduction
<1> QED  BY <1>3

(* FlattenSeq is what such a function has at the end of the sequence.      *)
LEMMA FlattenUnfolds ==
  ASSUME NEW S, NEW seqs \in Seq(S), seqs # <<>>
  PROVE  \E f : /\ f = [i \in 1..Len(seqs) |-> Flattening(seqs, f, i)]
                /\ FlattenSeq(seqs) = f[Len(seqs)]
<1> DEFINE F == CHOOSE f : f = [i \in 1..Len(seqs) |-> Flattening(seqs, f, i)]
<1>1. F = [i \in 1..Len(seqs) |-> Flattening(seqs, F, i)]  BY FlatteningExists
<1>2. FlattenSeq(seqs) = F[Len(seqs)]  BY DEF FlattenSeq, Flattening
<1> QED  BY <1>1, <1>2

(* Nothing flattened is nothing.                                           *)
LEMMA FlattenEmpty == FlattenSeq(<<>>) = <<>>
BY DEF FlattenSeq

(* What FlattenSeq makes of sequences over S is a sequence over S.         *)
LEMMA FlattenType ==
  ASSUME NEW S, NEW seqs \in Seq(Seq(S))
  PROVE  FlattenSeq(seqs) \in Seq(S)
<1>1. CASE seqs = <<>>
  <2>1. <<>> \in Seq(S)  BY EmptySeq
  <2> QED  BY <1>1, <2>1, FlattenEmpty
<1>2. CASE seqs # <<>>
  <2>1. PICK f : /\ f = [i \in 1..Len(seqs) |-> Flattening(seqs, f, i)]
                 /\ FlattenSeq(seqs) = f[Len(seqs)]
    BY <1>2, FlattenUnfolds
  <2> DEFINE T == {n \in Nat : n \in 1..Len(seqs) => f[n] \in Seq(S)}
  <2>2. 0 \in T  OBVIOUS
  <2>3. ASSUME NEW n \in Nat, n \in T  PROVE n + 1 \in T
    <3> SUFFICES ASSUME n + 1 \in 1..Len(seqs)  PROVE f[n + 1] \in Seq(S)  OBVIOUS
    <3>0. seqs[n + 1] \in Seq(S)  OBVIOUS
    <3>1. f[n + 1] = Flattening(seqs, f, n + 1)  BY <2>1, Zenon
    <3>2. CASE n = 0  BY <3>0, <3>1, <3>2 DEF Flattening
    <3>3. CASE n # 0
      <4>1. f[n] \in Seq(S)  BY <2>3, <3>3
      <4> QED  BY <3>0, <3>1, <3>3, <4>1, ConcatProperties DEF Flattening
    <3> QED  BY <3>2, <3>3
  <2>4. Nat \subseteq T
    <3> HIDE DEF T
    <3> QED  BY <2>2, <2>3, SetInduction
  <2>5. Len(seqs) \in 1..Len(seqs)  BY <1>2, EmptySeq
  <2> QED  BY <2>1, <2>4, <2>5
<1> QED  BY <1>1, <1>2

(* One more sequence at the end is one more at the end of the result.      *)
LEMMA FlattenAppend ==
  ASSUME NEW S, NEW seqs \in Seq(Seq(S)), NEW s \in Seq(S)
  PROVE  FlattenSeq(Append(seqs, s)) = FlattenSeq(seqs) \o s
<1> DEFINE n == Len(seqs)
           more == Append(seqs, s)
<1>0. n \in Nat /\ more \in Seq(Seq(S)) /\ more # <<>> /\ Len(more) = n + 1
      /\ more[n + 1] = s /\ \A i \in 1..n : more[i] = seqs[i]
  BY AppendProperties
<1>1. PICK g : g = [i \in 1..(n + 1) |-> Flattening(more, g, i)] /\ FlattenSeq(more) = g[n + 1]
  <2> HIDE DEF more, n
  <2> QED BY <1>0, FlattenUnfolds
<1>2. CASE seqs = <<>>
  <2>1. n = 0  BY <1>2
  <2>2. g[1] = s  BY <2>1, <1>1, <1>0 DEF Flattening
  <2>3. <<>> \o s = s  BY ConcatEmptySeq
  <2> QED  BY <2>1, <2>2, <2>3, <1>1, <1>2, FlattenEmpty
<1>3. CASE seqs # <<>>
  <2>1. PICK f : f = [i \in 1..n |-> Flattening(seqs, f, i)] /\ FlattenSeq(seqs) = f[n]
    BY <1>3, FlattenUnfolds
  <2> DEFINE T == {k \in Nat : k \in 1..n => g[k] = f[k]}
  <2>2. 0 \in T  OBVIOUS
  <2>3. ASSUME NEW k \in Nat, k \in T  PROVE k + 1 \in T
    <3> SUFFICES ASSUME k + 1 \in 1..n  PROVE g[k + 1] = f[k + 1]  OBVIOUS
    <3>0. k + 1 \in 1..(n + 1)  OBVIOUS
    <3>1. g[k + 1] = Flattening(more, g, k + 1)
      <4> HIDE DEF more, n
      <4> QED  BY <1>1, <3>0, Zenon
    <3>2. f[k + 1] = Flattening(seqs, f, k + 1)  BY <2>1
    <3>3. more[k + 1] = seqs[k + 1]  BY <1>0
    <3>4. CASE k = 0  BY <3>1, <3>2, <3>3, <3>4 DEF Flattening
    <3>5. CASE k # 0
      <4>1. g[k] = f[k]  BY <2>3, <3>5
      <4> HIDE DEF more
      <4> QED  BY <3>1, <3>2, <3>3, <3>5, <4>1 DEF Flattening
    <3> QED  BY <3>4, <3>5
  <2>4. Nat \subseteq T
    <3> HIDE DEF T
    <3> QED  BY <2>2, <2>3, SetInduction
  <2>5. n \in 1..n  BY <1>3, EmptySeq
  <2>6. g[n] = f[n]  BY <2>4, <2>5
  <2>7. g[n + 1] = g[n] \o s
    <3>1. n + 1 \in 1..(n + 1) /\ n + 1 # 1 /\ (n + 1) - 1 = n  BY <2>5
    <3>2. g[n + 1] = Flattening(more, g, n + 1)
      <4> HIDE DEF more, n
      <4> QED  BY <1>1, <3>1, Zenon
    <3> HIDE DEF more, n
    <3> QED  BY <1>0, <3>1, <3>2 DEF Flattening
  <2> QED  BY <1>1, <2>1, <2>6, <2>7
<1> QED  BY <1>2, <1>3

(* The library's facts on concatenation, for all sequences over a set.     *)
LEMMA ConcatType ==
  \A S : \A a, b \in Seq(S) : a \o b \in Seq(S) /\ Len(a \o b) = Len(a) + Len(b)
BY ConcatProperties

(* Concatenation is associative.                                           *)
LEMMA ConcatRegroups ==
  \A S : \A a, b, c \in Seq(S) : (a \o b) \o c = a \o (b \o c)
BY ConcatAssociative

(* FlattenSeq of a concatenation.                                          *)
LEMMA FlattenConcat ==
  ASSUME NEW S, NEW s \in Seq(Seq(S)), NEW t \in Seq(Seq(S))
  PROVE  FlattenSeq(s \o t) = FlattenSeq(s) \o FlattenSeq(t)
<1> DEFINE Upto(n) == SubSeq(t, 1, n)
           T == {n \in Nat : n <= Len(t) =>
                   FlattenSeq(s \o Upto(n)) = FlattenSeq(s) \o FlattenSeq(Upto(n))}
<1>1. 0 \in T
  <2>1. Upto(0) = <<>>  BY SubSeqEmpty
  <2>2. s \o <<>> = s  BY ConcatEmptySeq
  <2>3. FlattenSeq(s) \o <<>> = FlattenSeq(s)  BY FlattenType, ConcatEmptySeq
  <2> QED  BY <2>1, <2>2, <2>3, FlattenEmpty
<1>2. ASSUME NEW n \in Nat, n \in T  PROVE n + 1 \in T
  <2> SUFFICES ASSUME n + 1 <= Len(t)
               PROVE FlattenSeq(s \o Upto(n + 1)) = FlattenSeq(s) \o FlattenSeq(Upto(n + 1))
    OBVIOUS
  <2>1. Upto(n) \in Seq(Seq(S)) /\ t[n + 1] \in Seq(S)  BY SubSeqProperties
  <2>2. Upto(n + 1) = Append(Upto(n), t[n + 1])
    <3>1. Upto(n + 1) = Upto(n) \o <<t[n + 1]>>  BY SubSeqRecursiveSecond
    <3> QED  BY <3>1, <2>1, AppendIsConcat
  <2> HIDE DEF Upto
  <2>3. s \o Append(Upto(n), t[n + 1]) = Append(s \o Upto(n), t[n + 1])
    <3>1. s \o (Upto(n) \o <<t[n + 1]>>) = (s \o Upto(n)) \o <<t[n + 1]>>
      BY <2>1, ConcatAssociative
    <3>2. s \o Upto(n) \in Seq(Seq(S))  BY <2>1, ConcatProperties
    <3> QED  BY <2>1, <3>1, <3>2, AppendIsConcat
  <2>4. s \o Upto(n) \in Seq(Seq(S))  BY <2>1, ConcatProperties
  <2>5. FlattenSeq(s \o Upto(n + 1)) = FlattenSeq(s \o Upto(n)) \o t[n + 1]
    BY <2>1, <2>2, <2>3, <2>4, FlattenAppend
  <2>6. FlattenSeq(Upto(n + 1)) = FlattenSeq(Upto(n)) \o t[n + 1]
    BY <2>1, <2>2, FlattenAppend
  <2>7. FlattenSeq(s \o Upto(n)) = FlattenSeq(s) \o FlattenSeq(Upto(n))  BY <1>2
  <2>8. FlattenSeq(s) \in Seq(S) /\ FlattenSeq(Upto(n)) \in Seq(S)  BY <2>1, FlattenType
  <2>9. (FlattenSeq(s) \o FlattenSeq(Upto(n))) \o t[n + 1] =
        FlattenSeq(s) \o (FlattenSeq(Upto(n)) \o t[n + 1])
    <3>1. t[n + 1] \in Seq(S)  BY <2>1
    <3>2. \A a, b, c \in Seq(S) : (a \o b) \o c = a \o (b \o c)  BY ONLY ConcatRegroups
    <3> QED  BY ONLY <3>1, <3>2, <2>8, Zenon
  <2> QED  BY <2>5, <2>6, <2>7, <2>9
<1>3. Nat \subseteq T
  <2> HIDE DEF T
  <2> QED  BY <1>1, <1>2, SetInduction
<1>4. Upto(Len(t)) = t  BY SubSeqFull
<1>5. Len(t) \in T  BY <1>3
<1> HIDE DEF Upto
<1> QED  BY <1>4, <1>5

(* FlattenSeq of a sequence of one.                                        *)
LEMMA FlattenOne ==
  ASSUME NEW S, NEW s \in Seq(S)
  PROVE  FlattenSeq(<<s>>) = s
<1>1. <<>> \in Seq(Seq(S)) /\ Append(<<>>, s) = <<s>>  OBVIOUS
<1>2. <<>> \o s = s  BY ConcatEmptySeq
<1> QED  BY <1>1, <1>2, FlattenAppend, FlattenEmpty

(***************************************************************************)
(* Texts.                                                                  *)
(***************************************************************************)
TextsOf(run) == [i \in DOMAIN run |-> run[i].text]

(* The texts of the pieces of a run.                                       *)
LEMMA TextsOfType ==
  ASSUME NEW run \in Seq(Piece)
  PROVE  /\ TextsOf(run) \in Seq(Seq(Char)) /\ Len(TextsOf(run)) = Len(run)
         /\ \A i \in 1..Len(run) : TextsOf(run)[i] = run[i].text
<1>1. ASSUME NEW i \in 1..Len(run)  PROVE run[i].text \in Seq(Char)
  <2>1. run[i] \in Piece  OBVIOUS
  <2> QED  BY <2>1 DEF Piece
<1> QED  BY <1>1 DEF TextsOf

(* The texts of two runs, one behind the other.                            *)
LEMMA TextsOfConcat ==
  ASSUME NEW r \in Seq(Piece), NEW s \in Seq(Piece)
  PROVE  TextsOf(r \o s) = TextsOf(r) \o TextsOf(s)
<1>1. r \o s \in Seq(Piece) /\ Len(r \o s) = Len(r) + Len(s)  BY ConcatProperties
<1>2. /\ TextsOf(r) \in Seq(Seq(Char)) /\ TextsOf(s) \in Seq(Seq(Char))
      /\ TextsOf(r \o s) \in Seq(Seq(Char)) /\ Len(TextsOf(r \o s)) = Len(r) + Len(s)
      /\ Len(TextsOf(r)) = Len(r) /\ Len(TextsOf(s)) = Len(s)
  BY <1>1, TextsOfType
<1>3. ASSUME NEW i \in 1..(Len(r) + Len(s))
      PROVE  TextsOf(r \o s)[i] = (TextsOf(r) \o TextsOf(s))[i]
  <2>0. Len(r) \in Nat /\ Len(s) \in Nat  OBVIOUS
  <2>1. TextsOf(r \o s)[i] = (r \o s)[i].text  BY <1>1, TextsOfType
  <2>2. CASE i <= Len(r)
    <3>1. i \in 1..Len(r)  BY <2>2
    <3>2. (r \o s)[i] = r[i]  BY <2>2, ConcatProperties
    <3>3. (TextsOf(r) \o TextsOf(s))[i] = TextsOf(r)[i]  BY <1>2, <2>2, ConcatProperties
    <3> QED  BY <2>1, <3>1, <3>2, <3>3, TextsOfType
  <2>3. CASE i > Len(r)
    <3>1. i - Len(r) \in 1..Len(s)  BY <2>3
    <3>2. (r \o s)[i] = s[i - Len(r)]  BY <2>3, ConcatProperties
    <3>3. (TextsOf(r) \o TextsOf(s))[i] = TextsOf(s)[i - Len(r)]
      BY <1>2, <2>3, ConcatProperties
    <3> QED  BY <2>1, <3>1, <3>2, <3>3, TextsOfType
  <2>4. i <= Len(r) \/ i > Len(r)  BY <2>0
  <2> QED  BY <2>2, <2>3, <2>4, Zenon
<1>4. TextsOf(r) \o TextsOf(s) \in Seq(Seq(Char))
      /\ Len(TextsOf(r) \o TextsOf(s)) = Len(r) + Len(s)
  <2>1. \A a, b \in Seq(Seq(Char)) : a \o b \in Seq(Seq(Char)) /\ Len(a \o b) = Len(a) + Len(b)
    BY ONLY ConcatType
  <2> QED  BY <1>2, <2>1, Zenon
<1> QED  BY <1>2, <1>3, <1>4, SeqEqual

(* The text of a run is a sequence of characters.                          *)
LEMMA TextOfType ==
  ASSUME NEW run \in Seq(Piece)
  PROVE  TextOf(run) \in Seq(Char)
<1>1. TextOf(run) = FlattenSeq(TextsOf(run))  BY DEF TextOf, TextsOf
<1> QED  BY <1>1, TextsOfType, FlattenType

(* The text of two runs, one behind the other.                             *)
LEMMA TextOfConcat ==
  ASSUME NEW r \in Seq(Piece), NEW s \in Seq(Piece)
  PROVE  TextOf(r \o s) = TextOf(r) \o TextOf(s)
<1>1. FlattenSeq(TextsOf(r) \o TextsOf(s)) = FlattenSeq(TextsOf(r)) \o FlattenSeq(TextsOf(s))
  BY TextsOfType, FlattenConcat
<1> QED  BY <1>1, TextsOfConcat DEF TextOf, TextsOf

(* The text of no pieces.                                                  *)
LEMMA TextOfNone == TextOf(<<>>) = <<>>
<1>1. <<>> \in Seq(Piece)  BY EmptySeq
<1>2. TextsOf(<<>>) = <<>>  BY <1>1, TextsOfType, EmptySeq
<1> QED  BY <1>2, FlattenEmpty DEF TextOf, TextsOf

(* The text of one piece.                                                  *)
LEMMA TextOfOne ==
  ASSUME NEW piece \in Piece
  PROVE  TextOf(<<piece>>) = piece.text
<1>1. <<piece>> \in Seq(Piece)  OBVIOUS
<1>2. TextsOf(<<piece>>) = <<piece.text>>  BY DEF TextsOf
<1>3. piece.text \in Seq(Char)  BY DEF Piece
<1> QED  BY <1>2, <1>3, FlattenOne DEF TextOf, TextsOf

(* What Node and Mark make.                                                *)
LEMMA NodeAndMark ==
  ASSUME NEW s \in Seq(Char)
  PROVE  /\ Node(s) \in Piece /\ Node(s).text = s /\ ~Node(s).mark
         /\ Mark(s) \in Piece /\ Mark(s).text = s /\ Mark(s).mark
BY DEF Node, Mark, Piece

(* Replacing a piece by pieces of the same text.                           *)
LEMMA SpliceKeepsText ==
  ASSUME NEW run \in Seq(Piece), NEW i \in 1..Len(run), NEW new \in Seq(Piece),
         TextOf(new) = run[i].text
  PROVE  Splice(run, i, new) \in Seq(Piece) /\ TextOf(Splice(run, i, new)) = TextOf(run)
<1> DEFINE before == SubSeq(run, 1, i - 1)
           after == SubSeq(run, i + 1, Len(run))
<1>1. before \in Seq(Piece) /\ after \in Seq(Piece) /\ run[i] \in Piece  BY SubSeqProperties
<1>2. run = (before \o <<run[i]>>) \o after
  <2>1. SubSeq(run, 1, i) = before \o <<run[i]>>  BY SubSeqRecursiveSecond
  <2>2. SubSeq(run, 1, i) \o after = SubSeq(run, 1, Len(run))  BY ConcatAdjacentSubSeq
  <2>3. SubSeq(run, 1, Len(run)) = run  BY SubSeqFull
  <2> QED  BY <2>1, <2>2, <2>3
<1> HIDE DEF before, after
<1>3. before \o <<run[i]>> \in Seq(Piece) /\ <<run[i]>> \in Seq(Piece)
      /\ before \o new \in Seq(Piece)
  BY <1>1, ConcatProperties
<1>4. TextOf(run) = (TextOf(before) \o run[i].text) \o TextOf(after)
  <2>1. TextOf((before \o <<run[i]>>) \o after) = TextOf(before \o <<run[i]>>) \o TextOf(after)
    BY <1>1, <1>3, TextOfConcat
  <2>2. TextOf(before \o <<run[i]>>) = TextOf(before) \o TextOf(<<run[i]>>)
    BY <1>1, <1>3, TextOfConcat
  <2> QED  BY <1>1, <1>2, <2>1, <2>2, TextOfOne
<1>5. TextOf((before \o new) \o after) = (TextOf(before) \o TextOf(new)) \o TextOf(after)
  <2>1. TextOf((before \o new) \o after) = TextOf(before \o new) \o TextOf(after)
    BY <1>1, <1>3, TextOfConcat
  <2> QED  BY <1>1, <2>1, TextOfConcat
<1>6. (before \o new) \o after \in Seq(Piece)  BY <1>1, <1>3, ConcatProperties
<1> QED  BY <1>4, <1>5, <1>6 DEF Splice, before, after

(* Lower case, character by character.                                     *)
LEMMA LowersType ==
  ASSUME NEW s \in Seq(Char)
  PROVE  [i \in DOMAIN s |-> Lower[s[i]]] \in Seq(Seq(Char))
<1>1. ASSUME NEW i \in 1..Len(s)  PROVE Lower[s[i]] \in Seq(Char)
  <2>1. s[i] \in Char  OBVIOUS
  <2> QED  BY <2>1, LowerAssumption
<1>2. DOMAIN s = 1..Len(s) /\ Len(s) \in Nat  OBVIOUS
<1>3. [i \in 1..Len(s) |-> Lower[s[i]]] \in [1..Len(s) -> Seq(Char)]  BY <1>1
<1> QED  BY <1>2, <1>3

(* Lower case of one more character.                                       *)
LEMMA LowercaseAppend ==
  ASSUME NEW s \in Seq(Char), NEW c \in Char
  PROVE  Lowercase(Append(s, c)) = Lowercase(s) \o Lower[c]
<1> DEFINE Lowers(t) == [i \in DOMAIN t |-> Lower[t[i]]]
<1>1. Lower[c] \in Seq(Char) /\ \A t \in Seq(Char) : Lowers(t) \in Seq(Seq(Char))
  BY LowersType, LowerAssumption
<1>2. Append(s, c) \in Seq(Char)  OBVIOUS
<1>3. Lowers(Append(s, c)) = Append(Lowers(s), Lower[c])  BY <1>1, <1>2
<1>4. FlattenSeq(Append(Lowers(s), Lower[c])) = FlattenSeq(Lowers(s)) \o Lower[c]
  <2> HIDE DEF Lowers
  <2> QED  BY <1>1, FlattenAppend
<1> QED  BY <1>3, <1>4 DEF Lowercase

(* Lower case is a text.                                                   *)
LEMMA LowercaseType ==
  ASSUME NEW s \in Seq(Char)
  PROVE  Lowercase(s) \in Seq(Char)
BY LowersType, FlattenType DEF Lowercase

(* Lower case of no text.                                                  *)
LEMMA LowercaseNone == Lowercase(<<>>) = <<>>
<1>1. [i \in DOMAIN <<>> |-> Lower[<<>>[i]]] = <<>>  OBVIOUS
<1> QED  BY <1>1, FlattenEmpty DEF Lowercase

(* A keyword does not become empty.                                        *)
LEMMA LowercaseSome ==
  ASSUME NEW s \in Seq(Char), s # <<>>
  PROVE  Lowercase(s) # <<>>
<1>1. PICK t \in Seq(Char), c \in Char : s = Append(t, c)  BY SequenceEmptyOrAppend
<1>2. Lowercase(s) = Lowercase(t) \o Lower[c]  BY <1>1, LowercaseAppend
<1>3. Lower[c] \in Seq(Char) \ {<<>>} /\ Lowercase(t) \in Seq(Char)
  BY LowerAssumption, LowercaseType
<1> QED  BY <1>2, <1>3, ConcatEqualIffEmpty

(* Where every small letter is one, lower case keeps the length.           *)
LEMMA LowercaseEven ==
  ASSUME NEW s \in Seq(Char), \A i \in 1..Len(s) : Len(Lower[s[i]]) = 1
  PROVE  Len(Lowercase(s)) = Len(s)
<1> DEFINE Upto(n) == SubSeq(s, 1, n)
           T == {n \in Nat : n <= Len(s) => Len(Lowercase(Upto(n))) = n}
<1>1. 0 \in T
  <2>1. Upto(0) = <<>>  BY SubSeqEmpty
  <2> QED  BY <2>1, LowercaseNone, EmptySeq
<1>2. ASSUME NEW n \in Nat, n \in T  PROVE n + 1 \in T
  <2> SUFFICES ASSUME n + 1 <= Len(s)  PROVE Len(Lowercase(Upto(n + 1))) = n + 1  OBVIOUS
  <2>1. Upto(n) \in Seq(Char) /\ s[n + 1] \in Char /\ n + 1 \in 1..Len(s)
    BY SubSeqProperties
  <2>2. Upto(n + 1) = Append(Upto(n), s[n + 1])
    <3>1. Upto(n + 1) = Upto(n) \o <<s[n + 1]>>  BY SubSeqRecursiveSecond
    <3> QED  BY <3>1, <2>1, AppendIsConcat
  <2>3. Len(Lowercase(Upto(n))) = n  BY <1>2
  <2> HIDE DEF Upto, T
  <2>4. Lowercase(Upto(n + 1)) = Lowercase(Upto(n)) \o Lower[s[n + 1]]
    BY <2>1, <2>2, LowercaseAppend
  <2>5. Lower[s[n + 1]] \in Seq(Char) /\ Lowercase(Upto(n)) \in Seq(Char)
    BY <2>1, LowerAssumption, LowercaseType
  <2>6. Len(Lower[s[n + 1]]) = 1  BY <2>1
  <2>7. \A a, b \in Seq(Char) : Len(a \o b) = Len(a) + Len(b)  BY ONLY ConcatType
  <2> QED  BY <2>3, <2>4, <2>5, <2>6, <2>7
<1>3. Nat \subseteq T
  <2> HIDE DEF T
  <2> QED  BY <1>1, <1>2, SetInduction
<1>4. Upto(Len(s)) = s  BY SubSeqFull
<1>5. Len(s) \in T  BY <1>3
<1> HIDE DEF Upto
<1> QED  BY <1>4, <1>5

(***************************************************************************)
(* The page.                                                               *)
(***************************************************************************)
(* A page is some tags and runs.                                           *)
LEMMA PageType ==
  /\ Page \in Seq(Tag \union {"close", "text"})
  /\ Len(Page) \in Nat \ {0} /\ DOMAIN Page = 1..Len(Page)
  /\ Texts \in SUBSET (1..Len(Page))
<1>1. Page \in Seq(Tag \union {"close", "text"}) /\ Page # <<>>  BY PageAssumption
<1>2. Len(Page) \in Nat \ {0} /\ DOMAIN Page = 1..Len(Page)  BY <1>1, EmptySeq
<1> QED  BY <1>1, <1>2 DEF Texts

(* Every run is inside the body.                                           *)
LEMMA TextsInBody ==
  ASSUME NEW k \in Texts
  PROVE  k \in Inside(1) /\ 1 < k /\ k < Len(Page)
<1>1. Page[1] # "text" /\ Page[Len(Page)] # "text" /\ EndOf(1) = Len(Page)
  BY PageAssumption DEF Tag
<1>2. k \in 1..Len(Page) /\ Page[k] = "text"  BY PageType DEF Texts
<1>3. 1 < k /\ k < Len(Page)  BY <1>1, <1>2, PageType
<1> QED  BY <1>1, <1>3 DEF Inside

(* The parent of a run is an element around it.                            *)
LEMMA ParentIsAround ==
  ASSUME NEW k \in Texts
  PROVE  /\ ParentOf(k) \in 1..Len(Page) /\ Page[ParentOf(k)] \in Tag
         /\ k \in Inside(ParentOf(k)) /\ ParentOf(k) < k
<1> DEFINE Around == {j \in DOMAIN Page : Page[j] \in Tag /\ k \in Inside(j)}
<1>1. 1 \in Around  BY PageType, TextsInBody, PageAssumption
<1>2. Around \in SUBSET (0..Len(Page))  BY PageType
<1>3. Max(Around) \in Around
  <2> HIDE DEF Around
  <2> QED  BY <1>1, <1>2, PageType, MaxIsGreatest
<1>4. ParentOf(k) \in Around  BY <1>3 DEF ParentOf
<1>5. \A j \in Around : j < k  BY DEF Inside
<1> QED  BY <1>4, <1>5, PageType

(* A run of the page as it was loaded is some text.                        *)
LEMMA OriginalType ==
  ASSUME NEW k \in Texts
  PROVE  Original[k] \in Seq(Char) /\ Original[k] # <<>>
BY PageAssumption

(***************************************************************************)
(* Searching a text.                                                       *)
(***************************************************************************)
(* The first occurrence is one.                                            *)
LEMMA FirstOccurrence ==
  ASSUME NEW word \in Seq(Char), NEW s \in Seq(Char), Occurrences(word, s) # {}
  PROVE  /\ Min(Occurrences(word, s)) \in Nat \ {0}
         /\ Min(Occurrences(word, s)) + Len(word) - 1 <= Len(s)
<1>1. Occurrences(word, s) \in SUBSET Nat  BY DEF Occurrences
<1>2. Min(Occurrences(word, s)) \in Occurrences(word, s)  BY <1>1, MinIsLeast
<1> QED  BY <1>2 DEF Occurrences

(* The keyword searched for is some text, also in lower case.              *)
LEMMA LowerKeywordType ==
  ASSUME keyword \in Keyword
  PROVE  LowerKeyword \in Seq(Char) /\ LowerKeyword # <<>> /\ Len(LowerKeyword) \in Nat \ {0}
<1>1. keyword \in Seq(Char) /\ keyword # <<>>  BY KeywordAssumption
<1>2. LowerKeyword \in Seq(Char) /\ LowerKeyword # <<>>
  BY <1>1, LowercaseType, LowercaseSome DEF LowerKeyword
<1> QED  BY <1>2, EmptySeq

EvenText(s) == \A i \in 1..Len(s) : Len(Lower[s[i]]) = 1

(* The recursion of SearchedFrom.                                          *)
Searching(word, s, f, i) ==
  LET rest == SubSeq(s, i, Len(s))
      found == Occurrences(word, Lowercase(rest))
      m == Min(found) IN
  IF found = {} THEN <<Node(rest)>>
  ELSE <<Node(SubSeq(rest, 1, m - 1)), Mark(SubSeq(rest, m, m + Len(word) - 1))>>
         \o f[i + m - 1 + Len(word)]

(* What is left of a text, and where an occurrence in it ends.             *)
LEMMA RestOfEven ==
  ASSUME NEW s \in Seq(Char), EvenText(s), NEW i \in 1..(Len(s) + 1),
         NEW word \in Seq(Char), word # <<>>
  PROVE  LET rest == SubSeq(s, i, Len(s))
             found == Occurrences(word, Lowercase(rest)) IN
         /\ rest \in Seq(Char) /\ Len(rest) = Len(s) - i + 1
         /\ Len(Lowercase(rest)) = Len(rest)
         /\ found # {} => /\ Min(found) \in Nat \ {0}
                          /\ Min(found) + Len(word) - 1 <= Len(rest)
                          /\ i + Min(found) - 1 + Len(word) \in (i + 1)..(Len(s) + 1)
<1> DEFINE rest == SubSeq(s, i, Len(s))
           found == Occurrences(word, Lowercase(rest))
<1>1. rest \in Seq(Char) /\ Len(rest) = Len(s) - i + 1
  <2>1. \A j \in i..Len(s) : s[j] \in Char  OBVIOUS
  <2> QED  BY <2>1, SubSeqProperties
<1>2. \A j \in 1..Len(rest) : Len(Lower[rest[j]]) = 1
  <2> SUFFICES ASSUME NEW j \in 1..Len(rest)  PROVE Len(Lower[rest[j]]) = 1  OBVIOUS
  <2>1. rest[j] = s[i + j - 1] /\ i + j - 1 \in 1..Len(s)  BY <1>1
  <2> QED  BY <2>1 DEF EvenText
<1>3. Len(Lowercase(rest)) = Len(rest) /\ Lowercase(rest) \in Seq(Char)
  <2> HIDE DEF rest
  <2> QED  BY <1>1, <1>2, LowercaseEven, LowercaseType
<1>4. Len(word) \in Nat \ {0}  BY EmptySeq
<1>5. ASSUME found # {}
      PROVE  Min(found) \in Nat \ {0} /\ Min(found) + Len(word) - 1 <= Len(rest)
  <2> HIDE DEF rest
  <2> QED  BY <1>3, <1>5, FirstOccurrence
<1> HIDE DEF rest, found
<1>6. ASSUME found # {}
      PROVE  i + Min(found) - 1 + Len(word) \in (i + 1)..(Len(s) + 1)
  BY <1>1, <1>4, <1>5, <1>6
<1> QED  BY <1>1, <1>3, <1>5, <1>6 DEF rest, found

(* It only looks further on in the text.                                   *)
LEMMA SearchingLooksAhead ==
  ASSUME NEW s \in Seq(Char), EvenText(s), NEW i \in 1..(Len(s) + 1),
         NEW word \in Seq(Char), word # <<>>,
         NEW f, NEW g, \A j \in (i + 1)..(Len(s) + 1) : f[j] = g[j]
  PROVE  Searching(word, s, f, i) = Searching(word, s, g, i)
BY RestOfEven DEF Searching

(* There is a function that solves the recursion of SearchedFrom.          *)
LEMMA SearchedFromUnfolds ==
  ASSUME NEW s \in Seq(Char), EvenText(s), NEW word \in Seq(Char), word # <<>>,
         NEW i \in 1..(Len(s) + 1)
  PROVE  SearchedFrom(word, s)[i] = Searching(word, s, SearchedFrom(word, s), i)
<1> DEFINE L == Len(s) + 1
           Solves(f, n) == f = [j \in (L + 1 - n)..L |-> Searching(word, s, f, j)]
           T == {n \in Nat : n <= L => \E f : Solves(f, n)}
<1>0. L \in Nat \ {0}  OBVIOUS
<1>1. 0 \in T
  <2>1. \A f : [j \in (L + 1)..L |-> s] = [j \in (L + 1)..L |-> Searching(word, s, f, j)]
    <3>1. (L + 1)..L = {}  BY <1>0
    <3> HIDE DEF L
    <3> QED  BY <3>1
  <2>2. \E f : f = [j \in (L + 1)..L |-> Searching(word, s, f, j)]  BY <2>1
  <2>3. (L + 1) - 0 = L + 1  BY <1>0
  <2> HIDE DEF L
  <2> QED  BY <2>2, <2>3
<1>2. ASSUME NEW n \in Nat, n \in T  PROVE n + 1 \in T
  <2> SUFFICES ASSUME n + 1 <= L  PROVE \E f : Solves(f, n + 1)  OBVIOUS
  <2>1. PICK f : Solves(f, n)  BY <1>2, <1>0
  <2> DEFINE lo == L + 1 - (n + 1)
             g == [j \in lo..L |-> Searching(word, s, f, j)]
  <2>2. lo \in 1..L /\ L + 1 - n = lo + 1  BY <1>0
  <2>3. f = [j \in (lo + 1)..L |-> Searching(word, s, f, j)]
    <3> HIDE DEF lo, L
    <3> QED  BY <2>1, <2>2
  <2>4. \A j \in (lo + 1)..L : g[j] = f[j]
    <3>1. \A j \in (lo + 1)..L : j \in lo..L  BY <2>2
    <3>2. \A j \in lo..L : g[j] = Searching(word, s, f, j)  OBVIOUS
    <3>3. \A j \in (lo + 1)..L : f[j] = Searching(word, s, f, j)
      <4> HIDE DEF g, lo, L
      <4> QED  BY <2>3, Zenon
    <3> HIDE DEF g, lo, L
    <3> QED  BY <3>1, <3>2, <3>3
  <2>5. ASSUME NEW j \in lo..L  PROVE Searching(word, s, f, j) = Searching(word, s, g, j)
    <3>1. j \in 1..(Len(s) + 1)  BY <2>2
    <3>2. \A k \in (j + 1)..(Len(s) + 1) : f[k] = g[k]
      <4>1. \A k \in (j + 1)..(Len(s) + 1) : k \in (lo + 1)..L  BY <2>2
      <4> HIDE DEF g, lo
      <4> QED  BY <4>1, <2>4
    <3> HIDE DEF g, lo
    <3> QED  BY <3>1, <3>2, SearchingLooksAhead
  <2>6. g = [j \in lo..L |-> Searching(word, s, g, j)]
    <3>1. g = [j \in lo..L |-> Searching(word, s, f, j)]  OBVIOUS
    <3> HIDE DEF g, lo, L
    <3> QED  BY <3>1, <2>5
  <2>7. Solves(g, n + 1)
    <3> HIDE DEF g
    <3> QED  BY <2>6
  <2> HIDE DEF g, Solves
  <2> QED  BY <2>7
<1>3. Nat \subseteq T
  <2> HIDE DEF T
  <2> QED  BY <1>1, <1>2, SetInduction
<1>4. \E f : Solves(f, L)
  <2> HIDE DEF Solves, L
  <2> QED  BY <1>0, <1>3
<1>5. L + 1 - L = 1  BY <1>0
<1>6. \E f : f = [j \in 1..L |-> Searching(word, s, f, j)]
  <2> HIDE DEF L
  <2> QED  BY <1>4, <1>5
<1> DEFINE F == CHOOSE f : f = [j \in 1..L |-> Searching(word, s, f, j)]
<1>7. F = [j \in 1..L |-> Searching(word, s, F, j)]
  <2> HIDE DEF L
  <2> QED  BY <1>6
<1>8. SearchedFrom(word, s) = F  BY DEF SearchedFrom, Searching
<1> HIDE DEF F
<1> QED  BY <1>7, <1>8

(* A part of a sequence.                                                   *)
LEMMA PartOf ==
  ASSUME NEW S, NEW s \in Seq(S), NEW i \in Nat \ {0}, NEW j \in Int, j <= Len(s)
  PROVE  /\ SubSeq(s, i, j) \in Seq(S)
         /\ Len(SubSeq(s, i, j)) = IF i <= j THEN j - i + 1 ELSE 0
<1>1. \A n \in i..j : s[n] \in S  OBVIOUS
<1> QED  BY <1>1, SubSeqProperties

(* What is shown is a run of pieces.                                       *)
LEMMA SearchedFromType ==
  ASSUME NEW s \in Seq(Char), EvenText(s), NEW word \in Seq(Char), word # <<>>
  PROVE  \A i \in 1..(Len(s) + 1) : SearchedFrom(word, s)[i] \in Seq(Piece)
<1> DEFINE L == Len(s) + 1
           F == SearchedFrom(word, s)
           T == {n \in Nat : \A i \in 1..L : i + n > L => F[i] \in Seq(Piece)}
<1>0. L \in Nat \ {0}  OBVIOUS
<1>1. 0 \in T
  <2> HIDE DEF L, F
  <2> QED  BY <1>0
<1>2. ASSUME NEW n \in Nat, n \in T  PROVE n + 1 \in T
  <2> SUFFICES ASSUME NEW i \in 1..L, i + (n + 1) > L  PROVE F[i] \in Seq(Piece)  OBVIOUS
  <2> DEFINE rest == SubSeq(s, i, Len(s))
             found == Occurrences(word, Lowercase(rest))
             m == Min(found)
             before == SubSeq(rest, 1, m - 1)
             hit == SubSeq(rest, m, m + Len(word) - 1)
             next == i + m - 1 + Len(word)
  <2>1. F[i] = IF found = {} THEN <<Node(rest)>> ELSE <<Node(before), Mark(hit)>> \o F[next]
    BY SearchedFromUnfolds DEF Searching
  <2>2. /\ rest \in Seq(Char)
        /\ found # {} => /\ m \in Nat \ {0} /\ m + Len(word) - 1 <= Len(rest)
                         /\ next \in (i + 1)..L
    BY RestOfEven
  <2> HIDE DEF F, rest, found, m
  <2>3. CASE found = {}
    <3>1. rest \in Seq(Char)  BY <2>2
    <3>2. Node(rest) \in Piece  BY <3>1, NodeAndMark
    <3> HIDE DEF next, before, hit
    <3> QED  BY <2>1, <2>3, <3>2
  <2>4. CASE found # {}
    <3>1. before \in Seq(Char) /\ hit \in Seq(Char)
      <4>1. Len(word) \in Nat /\ Len(rest) \in Nat  BY <2>2
      <4>2. m \in Nat \ {0} /\ m + Len(word) - 1 <= Len(rest)  BY <2>2, <2>4
      <4>3. m - 1 \in Int /\ m - 1 <= Len(rest) /\ m + Len(word) - 1 \in Int
        BY <4>1, <4>2
      <4>4. before \in Seq(Char)  BY <2>2, <4>3, PartOf
      <4>5. hit \in Seq(Char)  BY <2>2, <4>2, <4>3, PartOf
      <4> QED  BY <4>4, <4>5
    <3>2. <<Node(before), Mark(hit)>> \in Seq(Piece)
      <4> HIDE DEF before, hit
      <4> QED  BY <3>1, NodeAndMark
    <3>3. F[next] \in Seq(Piece)
      <4> HIDE DEF next
      <4> QED  BY <1>2, <2>2, <2>4
    <3>4. \A a, b \in Seq(Piece) : a \o b \in Seq(Piece)  BY ONLY ConcatType
    <3> HIDE DEF next, before, hit
    <3> QED  BY <2>1, <2>4, <3>2, <3>3, <3>4
  <2> QED  BY <2>3, <2>4
<1>3. Nat \subseteq T
  <2> HIDE DEF T
  <2> QED  BY <1>1, <1>2, SetInduction
<1>4. L \in T  BY <1>0, <1>3
<1> HIDE DEF F, L
<1> QED  BY <1>0, <1>4 DEF F, L

(* A run whose letters keep their length.                                  *)
LEMMA EvenRun ==
  ASSUME NEW k \in Even
  PROVE  k \in Texts /\ Original[k] \in Seq(Char) /\ EvenText(Original[k])
BY OriginalType DEF Even, EvenText, Range

(***************************************************************************)
(* The inductive invariant.                                                *)
(***************************************************************************)
Walking == phase \in {"removing", "marking"}

(* Where the walk is.                                                      *)
WalkInv ==
  /\ Walking => token \in 1..Len(Page) /\ keyword \notin Quoted
  /\ Walking /\ child > 0 =>
       token \in Texts /\ child <= element /\ element <= Len(pieces[token])
  /\ phase = "marking" => keyword # NoKeyword
  /\ phase = "marking" /\ child > 0 => ~Concealed(token)

(* A removal has unmarked what it is past, and there is no mark yet where  *)
(* the search is still to go.                                              *)
UnmarkedInv ==
  /\ phase = "removing" =>
       /\ count = 0
       /\ \A k \in Texts : k > token => MarksOf(k) = {}
       /\ token \in Texts => \A i \in MarksOf(token) : i <= child
  /\ phase = "marking" =>
       /\ \A k \in Texts : k < token => MarksOf(k) = {}
       /\ token \in Texts => \A i \in MarksOf(token) : child < i /\ i # element

Whole(k) == pieces[k] = <<Node(Original[k])>>

(* Unless a removal was stopped, what is not marked is whole, or about to  *)
(* be made whole by a normalize that is due.                               *)
WholeInv ==
  cuts = 0 =>
    /\ phase # "stopped"
    /\ \A k \in Texts :
         \/ Whole(k)
         \/ MarksOf(k) # {}
         \/ phase = "removing" /\ ParentOf(k) \in dirty /\ ParentOf(k) <= token

Shown(k) ==
  IF Concealed(k) THEN <<Node(Original[k])>> ELSE Searched(LowerKeyword, Original[k])

(* In the run at hand the search has got to its i-th character.            *)
SearchedTo(i) ==
  /\ Value = SubSeq(Original[token], i, Len(Original[token]))
  /\ SubSeq(pieces[token], 1, element - 1) \o SearchedFrom(LowerKeyword, Original[token])[i] =
       Searched(LowerKeyword, Original[token])

SearchInv ==
  cuts = 0 /\ phase = "marking" =>
    \A k \in Even :
      /\ k > token \/ (k = token /\ child = 0) => pieces[k] = Shown(k)
      /\ k < token => Whole(k)
      /\ k = token /\ child > 0 =>
           /\ child = 1 /\ element = Len(pieces[k])
           /\ \E i \in 1..(Len(Original[k]) + 1) : SearchedTo(i)

IInv ==
  /\ TypeOK /\ WalkInv /\ TextIsKept /\ CountIsMarks /\ UnmarkedInv
  /\ WholeInv /\ SearchInv /\ SearchForgetsSearches

(***************************************************************************)
(* What the steps make of the page.                                        *)
(***************************************************************************)
(* A page without marks has none to count.                                 *)
LEMMA NoMarks ==
  ASSUME \A k \in Texts : MarksOf(k) = {}
  PROVE  Marks = {} /\ Cardinality(Marks) = 0
<1>1. Marks = {}  BY DEF Marks
<1> QED  BY <1>1, FS_EmptySet

(* The page as it was loaded.                                              *)
LEMMA OriginalIsWhole ==
  ASSUME NEW k \in Texts
  PROVE  <<Node(Original[k])>> \in Seq(Piece) /\ TextOf(<<Node(Original[k])>>) = Original[k]
<1>1. Node(Original[k]) \in Piece /\ Node(Original[k]).text = Original[k]
  BY OriginalType, NodeAndMark
<1> QED  BY <1>1, TextOfOne

(* A run that is whole has one piece, and that is no mark.                 *)
LEMMA WholeIsUnmarked ==
  ASSUME NEW k \in Texts, Whole(k)
  PROVE  Len(pieces[k]) = 1 /\ MarksOf(k) = {}
<1>1. ~Node(Original[k]).mark  BY OriginalType, NodeAndMark
<1> QED  BY <1>1 DEF Whole, MarksOf

(* Where a walk is after a step to k.                                      *)
LEMMA Entering ==
  ASSUME pieces' \in [Texts -> Seq(Piece)], NEW k, EnterAt(k)
  PROVE  /\ token' = k /\ child' \in Nat /\ element' = child'
         /\ child' > 0 =>
              /\ k \in Texts /\ child' = Len(pieces'[k])
              /\ ~(phase' = "marking" /\ Concealed(k))
         /\ child' = 0 /\ k \in Texts =>
              Len(pieces'[k]) = 0 \/ (phase' = "marking" /\ Concealed(k))
<1>1. k \in Texts => Len(pieces'[k]) \in Nat  OBVIOUS
<1> QED  BY <1>1 DEF EnterAt, ToSee

(* A step to a tag.                                                        *)
LEMMA EnteringTag ==
  ASSUME NEW k, EnterAt(k), k \notin Texts
  PROVE  token' = k /\ child' = 0 /\ element' = 0
BY DEF EnterAt, ToSee

(* A run under a normalised element is whole, the others are as they were. *)
LEMMA NormalisedIsWhole ==
  ASSUME TypeOK, TextIsKept, NEW k
  PROVE  /\ Normalised(k) \in [Texts -> Seq(Piece)]
         /\ \A j \in Texts : Normalised(k)[j] =
              IF j \in Inside(k) THEN <<Node(Original[j])>> ELSE pieces[j]
<1>1. ASSUME NEW j \in Texts
      PROVE  /\ Normalised(k)[j] = IF j \in Inside(k) THEN <<Node(Original[j])>> ELSE pieces[j]
             /\ Normalised(k)[j] \in Seq(Piece)
  <2>1. TextOf(pieces[j]) = Original[j] /\ Original[j] # <<>>
    BY OriginalType DEF TextIsKept
  <2>2. Normalised(k)[j] = IF j \in Inside(k) THEN <<Node(Original[j])>> ELSE pieces[j]
    BY <2>1 DEF Normalised
  <2> QED  BY <2>2, OriginalIsWhole DEF TypeOK
<1>2. Normalised(k) = [j \in Texts |-> Normalised(k)[j]]  BY DEF Normalised
<1> QED  BY <1>1, <1>2

(* So a removal that leaves an element leaves text nodes as they were or   *)
(* makes them whole.                                                       *)
LEMMA LeavingKeepsOrHeals ==
  ASSUME TypeOK, TextIsKept, pieces' = IF token \in dirty THEN Normalised(token) ELSE pieces
  PROVE  /\ pieces' \in [Texts -> Seq(Piece)]
         /\ \A k \in Texts : pieces'[k] = pieces[k] \/ Whole(k)'
         /\ \A k \in Texts : token \in dirty /\ k \in Inside(token) => Whole(k)'
         /\ TextIsKept'
<1>1. pieces' \in [Texts -> Seq(Piece)]  BY NormalisedIsWhole DEF TypeOK
<1>2. \A k \in Texts : pieces'[k] = pieces[k] \/ Whole(k)'
  BY NormalisedIsWhole DEF Whole
<1>3. \A k \in Texts : token \in dirty /\ k \in Inside(token) => Whole(k)'
  BY NormalisedIsWhole DEF Whole
<1>4. TextIsKept'
  BY <1>2, OriginalIsWhole DEF TextIsKept, Whole
<1> QED  BY <1>1, <1>2, <1>3, <1>4

(* And it makes no marks.                                                  *)
LEMMA LeavingMarksNothing ==
  ASSUME TypeOK, TextIsKept, pieces' = IF token \in dirty THEN Normalised(token) ELSE pieces,
         NEW k \in Texts
  PROVE  /\ MarksOf(k)' \subseteq MarksOf(k)
         /\ MarksOf(k)' = MarksOf(k) \/ Whole(k)'
<1>1. CASE pieces'[k] = pieces[k]  BY <1>1 DEF MarksOf
<1>2. CASE Whole(k)'
  <2>1. ~Node(Original[k]).mark  BY OriginalType, NodeAndMark
  <2>2. MarksOf(k)' = {}  BY <1>2, <2>1 DEF Whole, MarksOf
  <2> QED  BY <1>2, <2>2
<1> QED  BY <1>1, <1>2, LeavingKeepsOrHeals

(***************************************************************************)
(* The invariant holds at the start.                                       *)
(***************************************************************************)
LEMMA InitInv == Init => IInv
<1> SUFFICES ASSUME Init  PROVE IInv  OBVIOUS
<1> USE DEF Init
<1>1. \A k \in Texts : Whole(k) /\ pieces[k] \in Seq(Piece) /\ TextOf(pieces[k]) = Original[k]
  BY OriginalIsWhole DEF InitialPieces, Whole
<1>2. TypeOK  BY <1>1, PageType, MaxCutsAssumption DEF TypeOK, InitialPieces
<1>3. \A k \in Texts : MarksOf(k) = {}  BY <1>1, WholeIsUnmarked
<1>4. CountIsMarks  BY <1>3, NoMarks DEF CountIsMarks
<1>5. WholeInv  BY <1>1 DEF WholeInv
<1>6. SearchForgetsSearches
  BY KeywordAssumption DEF SearchForgetsSearches, SearchHasEnded
<1>7. WalkInv /\ UnmarkedInv /\ SearchInv /\ TextIsKept
  BY <1>1 DEF WalkInv, Walking, UnmarkedInv, SearchInv, TextIsKept
<1> QED  BY <1>2, <1>4, <1>5, <1>6, <1>7 DEF IInv

(***************************************************************************)
(* Every step keeps it.                                                    *)
(***************************************************************************)
(* A call that starts with a removal.                                      *)
LEMMA StartKeeps ==
  ASSUME IInv, Returned, Start, keyword' \in (Keyword \union {NoKeyword}) \ Quoted
  PROVE  IInv'
<1> USE DEF IInv, Start
<1>1. /\ token' = Len(Page) /\ child' = 0 /\ element' = 0
      /\ Len(Page) \notin Texts /\ \A k \in Texts : k < Len(Page)
  BY TextsInBody, EnteringTag
<1>2. TypeOK'  BY <1>1, PageType DEF TypeOK
<1>3. WalkInv'  BY <1>1, PageType DEF WalkInv, Walking
<1>4. TextIsKept'  BY DEF TextIsKept
<1>5. UnmarkedInv'  BY <1>1, PageType DEF UnmarkedInv
<1>6. WholeInv'  BY DEF WholeInv, Whole, MarksOf, Returned
<1>7. CountIsMarks' /\ SearchInv' /\ SearchForgetsSearches'
  BY DEF CountIsMarks, SearchInv, SearchForgetsSearches, SearchHasEnded
<1> QED  BY <1>2, <1>3, <1>4, <1>5, <1>6, <1>7

LEMMA SearchKeeps == IInv /\ Search => IInv'
BY StartKeeps DEF Search

LEMMA RemoveAllKeeps == IInv /\ RemoveAll => IInv'
BY StartKeeps, KeywordAssumption DEF RemoveAll

LEMMA SearchQuotedKeeps == IInv /\ SearchQuoted => IInv'
<1> SUFFICES ASSUME IInv, SearchQuoted  PROVE IInv'  OBVIOUS
<1> USE DEF IInv, SearchQuoted, walk
<1>1. TypeOK'  BY KeywordAssumption DEF TypeOK
<1>2. TextIsKept'  BY DEF TextIsKept
<1>3. WholeInv'  BY DEF WholeInv, Whole, MarksOf
<1>4. WalkInv' /\ UnmarkedInv' /\ SearchInv'
  BY DEF WalkInv, Walking, UnmarkedInv, SearchInv, Returned
<1>5. CountIsMarks' /\ SearchForgetsSearches'
  BY DEF CountIsMarks, SearchForgetsSearches, SearchHasEnded
<1> QED  BY <1>1, <1>2, <1>3, <1>4, <1>5

(* A mark that gives its node back is none any more, and nothing else      *)
(* changes.                                                                *)
LEMMA UnwrapFacts ==
  ASSUME IInv, RemoveChild, pieces[token][child].mark
  PROVE  /\ pieces' \in [Texts -> Seq(Piece)]
         /\ Len(pieces'[token]) = Len(pieces[token])
         /\ MarksOf(token)' = MarksOf(token) \ {child}
         /\ \A k \in Texts : k # token => pieces'[k] = pieces[k]
         /\ \A k \in Texts : TextOf(pieces'[k]) = TextOf(pieces[k])
<1> DEFINE run == pieces[token]
           new == [run EXCEPT ![child].mark = FALSE]
<1>1. token \in Texts /\ child \in 1..Len(run) /\ run \in Seq(Piece)
  BY DEF IInv, WalkInv, Walking, RemoveChild, TypeOK
<1>2. pieces' = [pieces EXCEPT ![token] = new]  BY DEF RemoveChild
<1>3. new \in Seq(Piece) /\ Len(new) = Len(run) /\ DOMAIN new = DOMAIN run
      /\ \A i \in 1..Len(run) : /\ new[i].text = run[i].text
                                /\ new[i].mark <=> run[i].mark /\ i # child
  <2>1. run[child] \in Piece  BY <1>1
  <2>2. [run[child] EXCEPT !.mark = FALSE] \in Piece  BY <2>1 DEF Piece
  <2>3. \A i \in 1..Len(run) : new[i] = IF i = child THEN [run[i] EXCEPT !.mark = FALSE] ELSE run[i]
    <3>1. DOMAIN run = 1..Len(run)  BY <1>1
    <3> HIDE DEF run
    <3> QED  BY <3>1, Zenon
  <2>4. \A i \in 1..Len(run) : run[i] \in Piece  BY <1>1
  <2>5. new \in Seq(Piece) /\ Len(new) = Len(run) /\ DOMAIN new = DOMAIN run
    BY <1>1, <2>2, ExceptSeq
  <2>6. \A i \in 1..Len(run) : /\ new[i].text = run[i].text
                               /\ new[i].mark <=> run[i].mark /\ i # child
    <3> HIDE DEF new, run
    <3> QED  BY <2>3, <2>4 DEF Piece
  <2> QED  BY <2>5, <2>6
<1>4. pieces' \in [Texts -> Seq(Piece)] /\ pieces'[token] = new
      /\ \A k \in Texts : k # token => pieces'[k] = pieces[k]
  <2> HIDE DEF new
  <2> QED  BY <1>1, <1>2, <1>3 DEF IInv, TypeOK
<1> HIDE DEF new
<1>5. MarksOf(token)' = MarksOf(token) \ {child}
  <2>1. token' = token  BY DEF RemoveChild
  <2>2. DOMAIN run = 1..Len(run)  BY <1>1
  <2> QED  BY <2>1, <2>2, <1>3, <1>4 DEF MarksOf
<1>6. TextOf(new) = TextOf(run)
  <2>1. DOMAIN run = 1..Len(run)  BY <1>1
  <2>2. [i \in DOMAIN new |-> new[i].text] = [i \in DOMAIN run |-> run[i].text]
    BY <2>1, <1>3
  <2> QED  BY <2>2 DEF TextOf
<1> QED  BY <1>3, <1>4, <1>5, <1>6

LEMMA RemoveChildKeeps == IInv /\ RemoveChild => IInv'
<1> SUFFICES ASSUME IInv, RemoveChild  PROVE IInv'  OBVIOUS
<1>0. /\ phase = "removing" /\ token \in Texts /\ token \in 1..Len(Page)
      /\ keyword \notin Quoted /\ count = 0
      /\ child \in 1..Len(pieces[token]) /\ child <= element /\ element <= Len(pieces[token])
      /\ UNCHANGED <<count, phase, keyword, token, element, cuts>> /\ child' = child - 1
  BY DEF IInv, TypeOK, WalkInv, Walking, UnmarkedInv, RemoveChild
<1>1. CASE pieces[token][child].mark
  <2>1. dirty' = dirty \union {ParentOf(token)} /\ ParentOf(token) <= token
        /\ dirty' \subseteq {k \in DOMAIN Page : Page[k] \in Tag}
    BY <1>0, <1>1, ParentIsAround, PageType DEF RemoveChild, IInv, TypeOK
  <2>2. /\ pieces' \in [Texts -> Seq(Piece)] /\ Len(pieces'[token]) = Len(pieces[token])
        /\ MarksOf(token)' = MarksOf(token) \ {child}
        /\ \A k \in Texts : k # token => pieces'[k] = pieces[k]
        /\ \A k \in Texts : TextOf(pieces'[k]) = TextOf(pieces[k])
    BY <1>1, UnwrapFacts
  <2>3. \A k \in Texts : k # token => MarksOf(k)' = MarksOf(k)  BY <2>2 DEF MarksOf
  <2>4. TypeOK'  BY <1>0, <2>1, <2>2 DEF IInv, TypeOK
  <2>5. WalkInv'  BY <1>0, <2>2 DEF IInv, TypeOK, WalkInv, Walking
  <2>6. TextIsKept'  BY <2>2 DEF IInv, TextIsKept
  <2>7. UnmarkedInv'
    <3>1. \A i \in MarksOf(token) : i <= child /\ i \in Nat
      BY <1>0 DEF IInv, UnmarkedInv, MarksOf, TypeOK
    <3>2. \A k \in Texts : k > token' => MarksOf(k)' = {}
      BY <1>0, <2>3 DEF IInv, UnmarkedInv
    <3> QED  BY <1>0, <2>2, <3>1, <3>2 DEF UnmarkedInv
  <2>8. WholeInv'
    BY <1>0, <2>1, <2>2, <2>3 DEF IInv, WholeInv, Whole
  <2>9. CountIsMarks' /\ SearchInv' /\ SearchForgetsSearches'
    BY <1>0 DEF CountIsMarks, SearchInv, SearchForgetsSearches, SearchHasEnded
  <2> QED  BY <2>4, <2>5, <2>6, <2>7, <2>8, <2>9 DEF IInv
<1>2. CASE ~pieces[token][child].mark
  <2>1. UNCHANGED <<pieces, dirty>>  BY <1>2 DEF RemoveChild
  <2>2. TypeOK'  BY <1>0, <2>1 DEF IInv, TypeOK
  <2>3. WalkInv'  BY <1>0, <2>1 DEF IInv, TypeOK, WalkInv, Walking
  <2>4. TextIsKept'  BY <2>1 DEF IInv, TextIsKept
  <2>5. UnmarkedInv'
    <3>1. \A i \in MarksOf(token) : i <= child /\ i \in Nat /\ i # child
      BY <1>0, <1>2 DEF IInv, UnmarkedInv, MarksOf, TypeOK
    <3> QED  BY <1>0, <2>1, <3>1 DEF IInv, UnmarkedInv, MarksOf
  <2>6. WholeInv'  BY <1>0, <2>1 DEF IInv, WholeInv, Whole, MarksOf
  <2>7. CountIsMarks' /\ SearchInv' /\ SearchForgetsSearches'
    BY <1>0 DEF CountIsMarks, SearchInv, SearchForgetsSearches, SearchHasEnded
  <2> QED  BY <2>2, <2>3, <2>4, <2>5, <2>6, <2>7 DEF IInv
<1> QED  BY <1>1, <1>2

LEMMA RemoveLeaveKeeps == IInv /\ RemoveLeave => IInv'
<1> SUFFICES ASSUME IInv, RemoveLeave  PROVE IInv'  OBVIOUS
<1>0. /\ phase = "removing" /\ phase' = "removing" /\ child = 0 /\ token \in 1..Len(Page)
      /\ count = 0 /\ count' = 0 /\ keyword' = keyword /\ dirty' = dirty /\ cuts' = cuts
      /\ keyword \notin Quoted /\ token - 1 \in 1..Len(Page)
      /\ pieces' = IF token \in dirty THEN Normalised(token) ELSE pieces
      /\ TypeOK /\ TextIsKept
  BY DEF IInv, RemoveLeave, TypeOK, WalkInv, Walking, UnmarkedInv
<1>1. /\ pieces' \in [Texts -> Seq(Piece)] /\ TextIsKept'
      /\ \A k \in Texts : pieces'[k] = pieces[k] \/ Whole(k)'
      /\ \A k \in Texts : token \in dirty /\ k \in Inside(token) => Whole(k)'
      /\ \A k \in Texts : MarksOf(k)' \subseteq MarksOf(k)
      /\ \A k \in Texts : MarksOf(k)' = MarksOf(k) \/ Whole(k)'
  BY <1>0, LeavingKeepsOrHeals, LeavingMarksNothing
<1>2. /\ token' = token - 1 /\ child' \in Nat /\ element' = child'
      /\ child' > 0 => token' \in Texts /\ child' = Len(pieces'[token'])
      /\ child' = 0 /\ token' \in Texts => Len(pieces'[token']) = 0
  BY <1>0, <1>1, Entering DEF RemoveLeave
<1>3. TypeOK'  BY <1>0, <1>1, <1>2, PageType DEF TypeOK
<1>4. WalkInv'  BY <1>0, <1>2 DEF WalkInv, Walking
<1>5. UnmarkedInv'
  <2>1. ASSUME NEW k \in Texts, k > token'  PROVE MarksOf(k)' = {}
    <3>1. k \in Nat /\ (k = token \/ k > token)  BY <1>0, <1>2, <2>1, PageType
    <3>2. MarksOf(k) = {}
      <4>1. CASE k > token  BY <1>0, <4>1 DEF IInv, UnmarkedInv
      <4>2. CASE k = token
        <5>1. \A i \in MarksOf(k) : i <= 0 /\ i \in 1..Len(pieces[k])
          BY <1>0, <4>2 DEF IInv, UnmarkedInv, MarksOf, TypeOK
        <5>2. Len(pieces[k]) \in Nat  BY <1>0 DEF TypeOK
        <5> QED  BY <5>1, <5>2
      <4> QED  BY <3>1, <4>1, <4>2
    <3> QED  BY <1>1, <3>2
  <2>2. ASSUME token' \in Texts, NEW i \in MarksOf(token)'  PROVE i <= child'
    <3>1. i \in 1..Len(pieces'[token'])  BY <1>1, <2>2 DEF MarksOf
    <3>2. Len(pieces'[token']) \in Nat  BY <1>1, <2>2
    <3> QED  BY <1>2, <2>2, <3>1, <3>2
  <2> QED  BY <1>0, <2>1, <2>2 DEF UnmarkedInv
<1>6. WholeInv'
  <2> SUFFICES ASSUME cuts = 0, NEW k \in Texts
               PROVE  \/ Whole(k)' \/ MarksOf(k)' # {}
                      \/ ParentOf(k) \in dirty /\ ParentOf(k) <= token - 1
    BY <1>0, <1>2 DEF WholeInv
  <2>1. Whole(k) \/ MarksOf(k) # {} \/ (ParentOf(k) \in dirty /\ ParentOf(k) <= token)
    BY <1>0 DEF IInv, WholeInv
  <2>2. CASE Whole(k)  BY <1>1, <2>2 DEF Whole
  <2>3. CASE MarksOf(k) # {}  BY <1>1, <2>3
  <2>4. CASE ParentOf(k) \in dirty /\ ParentOf(k) <= token
    <3>1. ParentOf(k) \in 1..Len(Page) /\ k \in Inside(ParentOf(k))  BY ParentIsAround
    <3>2. ParentOf(k) = token \/ ParentOf(k) <= token - 1  BY <1>0, <2>4, <3>1
    <3> QED  BY <1>1, <2>4, <3>1, <3>2
  <2> QED  BY <2>1, <2>2, <2>3, <2>4
<1>7. CountIsMarks' /\ SearchInv' /\ SearchForgetsSearches'
  BY <1>0 DEF CountIsMarks, SearchInv, SearchForgetsSearches, SearchHasEnded
<1> QED  BY <1>1, <1>3, <1>4, <1>5, <1>6, <1>7 DEF IInv

(* A removal that leaves the body is past every run: no mark is left, and  *)
(* if none was stopped, every run is whole.                                *)
LEMMA RemovalEnds ==
  ASSUME IInv, RemoveLeaveBody
  PROVE  /\ pieces' \in [Texts -> Seq(Piece)] /\ TextIsKept'
         /\ \A k \in Texts : MarksOf(k)' = {}
         /\ cuts = 0 => \A k \in Texts : Whole(k)'
<1>1. /\ phase = "removing" /\ token = 1 /\ TypeOK /\ TextIsKept
      /\ pieces' = IF token \in dirty THEN Normalised(token) ELSE pieces
  BY DEF IInv, RemoveLeaveBody
<1>2. /\ pieces' \in [Texts -> Seq(Piece)] /\ TextIsKept'
      /\ \A k \in Texts : pieces'[k] = pieces[k] \/ Whole(k)'
      /\ \A k \in Texts : token \in dirty /\ k \in Inside(token) => Whole(k)'
      /\ \A k \in Texts : MarksOf(k)' \subseteq MarksOf(k)
  BY <1>1, LeavingKeepsOrHeals, LeavingMarksNothing
<1>3. \A k \in Texts : MarksOf(k) = {} /\ k \in Inside(1)
  BY <1>1, TextsInBody DEF IInv, UnmarkedInv
<1>4. ASSUME cuts = 0, NEW k \in Texts  PROVE Whole(k)'
  <2>1. Whole(k) \/ (ParentOf(k) \in dirty /\ ParentOf(k) <= 1)
    BY <1>1, <1>3, <1>4 DEF IInv, WholeInv
  <2>2. CASE Whole(k)  BY <1>2, <2>2 DEF Whole
  <2>3. CASE ParentOf(k) \in dirty /\ ParentOf(k) <= 1
    <3>1. ParentOf(k) = 1  BY <2>3, ParentIsAround, PageType
    <3> QED  BY <1>1, <1>2, <1>3, <2>3, <3>1
  <2> QED  BY <2>1, <2>2, <2>3
<1> QED  BY <1>2, <1>3, <1>4

LEMMA RemoveLeaveBodyKeeps == IInv /\ RemoveLeaveBody => IInv'
<1> SUFFICES ASSUME IInv, RemoveLeaveBody  PROVE IInv'  OBVIOUS
<1>0. /\ count' = 0 /\ keyword' = keyword /\ dirty' = dirty /\ cuts' = cuts
      /\ keyword \notin Quoted /\ TypeOK
      /\ phase' = IF keyword = NoKeyword THEN "idle" ELSE "marking"
  BY DEF IInv, RemoveLeaveBody, WalkInv, Walking, UnmarkedInv
<1>1. /\ pieces' \in [Texts -> Seq(Piece)] /\ TextIsKept'
      /\ \A k \in Texts : MarksOf(k)' = {}
      /\ cuts = 0 => \A k \in Texts : Whole(k)'
  BY RemovalEnds
<1>2. /\ token' = IF keyword = NoKeyword THEN 0 ELSE Len(Page)
      /\ token' \notin Texts /\ child' = 0 /\ element' = 0
      /\ \A k \in Texts : k < Len(Page)
  <2>1. 0 \notin Texts /\ Len(Page) \notin Texts /\ \A k \in Texts : k < Len(Page)
    BY TextsInBody, PageType
  <2>2. EnterAt(IF keyword = NoKeyword THEN 0 ELSE Len(Page))  BY DEF RemoveLeaveBody
  <2> QED  BY <2>1, <2>2, EnteringTag
<1>3. TypeOK'  BY <1>0, <1>1, <1>2, PageType DEF TypeOK
<1>4. WalkInv'  BY <1>0, <1>2, PageType DEF WalkInv, Walking
<1>5. UnmarkedInv'  BY <1>0, <1>1, <1>2 DEF UnmarkedInv
<1>6. WholeInv'  BY <1>0, <1>1 DEF WholeInv
<1>7. CountIsMarks'
  <2>1. Cardinality(Marks)' = 0
    <3>1. Marks' = {}  BY <1>1 DEF Marks
    <3> QED  BY <3>1, FS_EmptySet
  <2> QED  BY <1>0, <2>1 DEF CountIsMarks
<1>8. SearchInv'
  <2>1. ASSUME phase' = "marking", NEW k \in Texts  PROVE k # token' /\ ~(k > token')
    <3>1. token' = Len(Page)  BY <1>0, <1>2, <2>1
    <3> QED  BY <1>2, <3>1, PageType
  <2>2. Even \subseteq Texts  BY DEF Even
  <2> QED  BY <1>0, <1>1, <2>1, <2>2 DEF SearchInv
<1>9. SearchForgetsSearches'
  BY <1>0, KeywordAssumption DEF SearchForgetsSearches, SearchHasEnded
<1> QED  BY <1>1, <1>3, <1>4, <1>5, <1>6, <1>7, <1>8, <1>9 DEF IInv

(* A script that is over in the middle of its marking leaves the page as   *)
(* it is.                                                                  *)
LEMMA MarkingBreaksOff ==
  ASSUME IInv, phase = "marking", phase' = "idle", keyword' = NoKeyword,
         token' = 0, child' = 0, element' = 0, UNCHANGED <<pieces, count, dirty, cuts>>
  PROVE  IInv'
<1>1. TypeOK'  BY PageType DEF IInv, TypeOK
<1>2. TextIsKept'  BY DEF IInv, TextIsKept
<1>3. CountIsMarks'
  BY KeywordAssumption DEF IInv, WalkInv, Walking, CountIsMarks, Marks, MarksOf
<1>4. WholeInv'  BY DEF IInv, WholeInv, Whole, MarksOf
<1>5. WalkInv' /\ UnmarkedInv' /\ SearchInv'
  BY DEF WalkInv, Walking, UnmarkedInv, SearchInv
<1>6. SearchForgetsSearches'
  BY KeywordAssumption DEF SearchForgetsSearches, SearchHasEnded
<1> QED  BY <1>1, <1>2, <1>3, <1>4, <1>5, <1>6 DEF IInv

LEMMA HighlightRaisesKeeps == IInv /\ HighlightRaises => IInv'
BY MarkingBreaksOff DEF HighlightRaises, Marking

LEMMA StopKeeps == IInv /\ Stop => IInv'
<1> SUFFICES ASSUME IInv, Stop  PROVE IInv'  OBVIOUS
<1>1. CASE phase = "marking"  BY <1>1, MarkingBreaksOff DEF Stop
<1>2. CASE phase = "removing"
  <2>1. /\ cuts' = cuts + 1 /\ cuts < MaxCuts /\ cuts' # 0 /\ phase' = "stopped"
        /\ UNCHANGED <<pieces, count, dirty>>
        /\ keyword' = NoKeyword /\ token' = 0 /\ child' = 0 /\ element' = 0
    BY <1>2, MaxCutsAssumption DEF Stop, IInv, TypeOK
  <2>2. TypeOK'  BY <2>1, PageType, MaxCutsAssumption DEF IInv, TypeOK
  <2>3. TextIsKept'  BY <2>1 DEF IInv, TextIsKept
  <2>4. WholeInv'  BY <2>1 DEF WholeInv
  <2>5. WalkInv' /\ UnmarkedInv' /\ SearchInv'
    BY <2>1 DEF WalkInv, Walking, UnmarkedInv, SearchInv
  <2>6. CountIsMarks' /\ SearchForgetsSearches'
    BY <2>1 DEF CountIsMarks, SearchForgetsSearches, SearchHasEnded
  <2> QED  BY <2>2, <2>3, <2>4, <2>5, <2>6 DEF IInv
<1> QED  BY <1>1, <1>2 DEF Stop

(* Where a search is in the page.                                          *)
LEMMA MarkingFacts ==
  ASSUME IInv, Marking
  PROVE  /\ token \in Texts /\ token \in 1..Len(Page) /\ ~Concealed(token)
         /\ child \in Nat \ {0} /\ child <= element /\ element \in 1..Len(pieces[token])
         /\ pieces[token] \in Seq(Piece) /\ pieces[token][element] = Node(Value)
         /\ Value \in Seq(Char) /\ keyword \in Keyword /\ keyword \notin Quoted
<1>1. /\ token \in Texts /\ token \in 1..Len(Page) /\ ~Concealed(token)
      /\ child \in Nat \ {0} /\ child <= element /\ element \in 1..Len(pieces[token])
      /\ pieces[token] \in Seq(Piece) /\ keyword \in Keyword /\ keyword \notin Quoted
  BY DEF IInv, Marking, TypeOK, WalkInv, Walking
<1>2. pieces[token][element] \in Piece  BY <1>1
<1>3. element \notin MarksOf(token)  BY <1>1 DEF IInv, UnmarkedInv, Marking
<1>4. ~pieces[token][element].mark  BY <1>1, <1>3 DEF MarksOf
<1>5. Value \in Seq(Char)  BY <1>2 DEF Value, Piece
<1>6. pieces[token][element] = Node(Value)  BY <1>2, <1>4 DEF Value, Node, Piece
<1> QED  BY <1>1, <1>5, <1>6

(* A run in which the keyword is not found any more shows what it should.  *)
LEMMA RunIsSearched ==
  ASSUME IInv, Marking, Found = {}, cuts = 0, token \in Even
  PROVE  child = 1 /\ pieces[token] = Shown(token)
<1> DEFINE run == pieces[token]
           whole == Original[token]
           word == LowerKeyword
<1>1. /\ child = 1 /\ element = Len(run)
      /\ \E i \in 1..(Len(whole) + 1) : SearchedTo(i)
  BY MarkingFacts DEF IInv, SearchInv, Marking
<1>2. PICK i \in 1..(Len(whole) + 1) : SearchedTo(i)  BY <1>1
<1>3. word \in Seq(Char) /\ word # <<>>  BY MarkingFacts, LowerKeywordType
<1>4. whole \in Seq(Char) /\ EvenText(whole)  BY EvenRun
<1>5. SearchedFrom(word, whole)[i] = Searching(word, whole, SearchedFrom(word, whole), i)
  BY <1>3, <1>4, SearchedFromUnfolds
<1>6. SearchedFrom(word, whole)[i] = <<Node(Value)>>
  BY <1>2, <1>5 DEF Searching, SearchedTo, Found
<1>7. SubSeq(run, 1, element - 1) \o <<run[element]>> = run
  <2>1. run \in Seq(Piece) /\ element \in 1..Len(run)  BY MarkingFacts
  <2>2. 1 \in 1..Len(run)  BY <2>1
  <2> HIDE DEF run
  <2>3. SubSeq(run, 1, element) = SubSeq(run, 1, element - 1) \o <<run[element]>>
    BY <2>1, <2>2, SubSeqRecursiveSecond
  <2> QED  BY <1>1, <2>1, <2>3, SubSeqFull
<1>8. run = Searched(word, whole)
  BY <1>2, <1>6, <1>7, MarkingFacts DEF SearchedTo
<1> QED  BY <1>1, <1>8, MarkingFacts DEF Shown

LEMMA HighlightNextKeeps == IInv /\ HighlightNext => IInv'
<1> SUFFICES ASSUME IInv, HighlightNext  PROVE IInv'  OBVIOUS
<1>0. /\ Marking /\ phase = "marking" /\ Found = {}
      /\ child' = child - 1 /\ element' = child - 1
      /\ UNCHANGED <<pieces, count, phase, keyword, token, dirty, cuts>>
  BY DEF HighlightNext, Marking
<1>1. /\ token \in Texts /\ child \in Nat \ {0} /\ child <= element
      /\ element \in 1..Len(pieces[token])
  BY <1>0, MarkingFacts
<1>2. TypeOK'  BY <1>0, <1>1 DEF IInv, TypeOK
<1>3. WalkInv'
  <2>1. Len(pieces[token]) \in Nat  BY <1>1 DEF IInv, TypeOK
  <2> QED  BY <1>0, <1>1, <2>1 DEF IInv, WalkInv, Walking
<1>4. UnmarkedInv'
  <2>1. \A i \in MarksOf(token) : child < i /\ i \in Nat
    BY <1>0, <1>1 DEF IInv, UnmarkedInv, MarksOf, TypeOK
  <2>2. \A k \in Texts : MarksOf(k)' = MarksOf(k)  BY <1>0 DEF MarksOf
  <2>3. \A i \in MarksOf(token) : child - 1 < i /\ i # child - 1  BY <1>1, <2>1
  <2> QED  BY <1>0, <1>1, <2>2, <2>3 DEF IInv, UnmarkedInv
<1>5. WholeInv'  BY <1>0 DEF IInv, WholeInv, Whole, MarksOf
<1>6. CountIsMarks' /\ TextIsKept'
  BY <1>0 DEF IInv, CountIsMarks, TextIsKept, Marks, MarksOf
<1>7. SearchInv'
  <2> SUFFICES ASSUME cuts = 0, NEW k \in Even
               PROVE  /\ k > token \/ k = token => pieces[k] = Shown(k)
                      /\ k < token => Whole(k)
                      /\ k = token => child = 1
    <3>1. \A k \in Even : Whole(k)' = Whole(k) /\ Shown(k)' = Shown(k)
      BY <1>0 DEF Whole, Shown, LowerKeyword
    <3>2. child = 1 => ~(child' > 0)  BY <1>0
    <3> QED  BY <1>0, <3>1, <3>2 DEF SearchInv
  <2>1. /\ k > token => pieces[k] = Shown(k)
        /\ k < token => Whole(k)
    BY <1>0 DEF IInv, SearchInv
  <2> QED  BY <1>0, <2>1, RunIsSearched
<1>8. SearchForgetsSearches'  BY <1>0 DEF SearchForgetsSearches, SearchHasEnded
<1> QED  BY <1>2, <1>3, <1>4, <1>5, <1>6, <1>7, <1>8 DEF IInv

(* A run at which a search arrives is shown whole, or to be searched from  *)
(* its first character.                                                    *)
LEMMA ArrivingAtRun ==
  ASSUME IInv, HighlightLeave, token # 1, cuts = 0, NEW k \in Even, k = token - 1
  PROVE  /\ child' = 0 => Whole(k) /\ Shown(k) = <<Node(Original[k])>>
         /\ child' > 0 =>
              /\ child' = 1 /\ element' = Len(pieces'[k])
              /\ SearchedTo(1)'
<1>0. /\ phase = "marking" /\ phase' = "marking" /\ token \in 1..Len(Page)
      /\ keyword \in Keyword /\ keyword' = keyword /\ pieces' = pieces
      /\ pieces' \in [Texts -> Seq(Piece)] /\ EnterAt(k)
  BY DEF IInv, HighlightLeave, TypeOK, WalkInv, Walking
<1>1. k \in Texts /\ Original[k] \in Seq(Char) /\ EvenText(Original[k])  BY EvenRun
<1>2. Whole(k)  BY <1>0, <1>1, PageType DEF IInv, SearchInv
<1>3. Len(pieces'[k]) = 1 /\ pieces'[k] = <<Node(Original[k])>>
  BY <1>0, <1>1, <1>2, WholeIsUnmarked DEF Whole
<1>4. /\ token' = k /\ child' \in Nat /\ element' = child'
      /\ child' > 0 => child' = 1
      /\ child' = 0 => Concealed(k)
  <2>1. pieces' \in [Texts -> Seq(Piece)] /\ EnterAt(k)  BY <1>0
  <2>2. /\ token' = k /\ child' \in Nat /\ element' = child'
        /\ child' > 0 => child' = Len(pieces'[k])
        /\ child' = 0 /\ k \in Texts => Len(pieces'[k]) = 0 \/ Concealed(k)
    BY ONLY <2>1, Entering
  <2> QED  BY <1>1, <1>3, <2>2
<1>5. ASSUME child' > 0  PROVE SearchedTo(1)'
  <2> DEFINE whole == Original[k]
             word == LowerKeyword
  <2>1. word \in Seq(Char) /\ word # <<>> /\ LowerKeyword' = word
    BY <1>0, LowerKeywordType DEF LowerKeyword
  <2>2. Value' = whole
    <3>1. Node(whole).text = whole  BY <1>1, NodeAndMark
    <3> QED  BY <1>3, <1>4, <1>5, <3>1 DEF Value
  <2>3. SubSeq(whole, 1, Len(whole)) = whole  BY <1>1, SubSeqFull
  <2>4. 1 \in 1..(Len(whole) + 1)  BY <1>1
  <2>5. Searched(word, whole) \in Seq(Piece)
    BY <1>1, <2>1, <2>4, SearchedFromType DEF Searched
  <2>6. SubSeq(pieces'[k], 1, element' - 1) = <<>>  BY <1>4, <1>5, SubSeqEmpty
  <2>7. <<>> \o Searched(word, whole) = Searched(word, whole)  BY <2>5, ConcatEmptySeq
  <2> QED  BY <1>4, <2>1, <2>2, <2>3, <2>6, <2>7 DEF SearchedTo, Searched
<1> QED  BY <1>2, <1>3, <1>4, <1>5 DEF Shown

LEMMA HighlightLeaveKeeps == IInv /\ HighlightLeave => IInv'
<1> SUFFICES ASSUME IInv, HighlightLeave  PROVE IInv'  OBVIOUS
<1>0. /\ phase = "marking" /\ child = 0 /\ token \in 1..Len(Page)
      /\ keyword \in Keyword /\ keyword \notin Quoted
      /\ phase' = IF token = 1 THEN "idle" ELSE "marking"
      /\ UNCHANGED <<pieces, count, keyword, dirty, cuts>> /\ EnterAt(token - 1)
      /\ pieces \in [Texts -> Seq(Piece)] /\ token - 1 \in 0..Len(Page)
  BY DEF IInv, HighlightLeave, TypeOK, WalkInv, Walking
<1>1. /\ token' = token - 1 /\ child' \in Nat /\ element' = child'
      /\ child' > 0 => /\ token' \in Texts /\ child' = Len(pieces'[token'])
                       /\ ~(phase' = "marking" /\ Concealed(token'))
  BY <1>0, Entering
<1>2. TypeOK'  BY <1>0, <1>1 DEF IInv, TypeOK
<1>3. WalkInv'  BY <1>0, <1>1, KeywordAssumption DEF WalkInv, Walking
<1>4. UnmarkedInv'
  <2>1. \A k \in Texts : k < token => MarksOf(k) = {}  BY <1>0 DEF IInv, UnmarkedInv
  <2>2. \A k \in Texts : MarksOf(k)' = MarksOf(k)  BY <1>0 DEF MarksOf
  <2>3. \A k \in Texts : k <= token' => MarksOf(k)' = {}  BY <1>0, <1>1, <2>1, <2>2, PageType
  <2>4. token' <= token' /\ \A k \in Texts : k < token' => k <= token'
    BY <1>0, <1>1, PageType
  <2> QED  BY <1>0, <2>3, <2>4 DEF UnmarkedInv
<1>5. WholeInv'  BY <1>0 DEF IInv, WholeInv, Whole, MarksOf
<1>6. CountIsMarks' /\ TextIsKept'
  BY <1>0 DEF IInv, CountIsMarks, TextIsKept, Marks, MarksOf
<1>7. SearchInv'
  <2> SUFFICES ASSUME cuts = 0, token # 1, NEW k \in Even
               PROVE  /\ k > token - 1 \/ (k = token - 1 /\ child' = 0) => pieces[k] = Shown(k)
                      /\ k < token - 1 => Whole(k)
                      /\ k = token - 1 /\ child' > 0 =>
                           /\ child' = 1 /\ element' = Len(pieces[k])
                           /\ SearchedTo(1)'
    <3>1. \A k \in Even : 1 \in 1..(Len(Original[k]) + 1)  BY EvenRun
    <3> QED  BY <1>0, <1>1, <3>1 DEF SearchInv, Shown, Whole, LowerKeyword
  <2>0. k \in Nat
    <3>1. k \in Texts  BY EvenRun
    <3> QED  BY <3>1, PageType
  <2>1. /\ k > token \/ k = token => pieces[k] = Shown(k)
        /\ k < token => Whole(k)
    BY <1>0 DEF IInv, SearchInv
  <2>2. k > token - 1 => pieces[k] = Shown(k)  BY <1>0, <2>0, <2>1
  <2>3. k < token - 1 => Whole(k)  BY <1>0, <2>0, <2>1
  <2>4. k = token - 1 /\ child' = 0 => pieces[k] = Shown(k)
    BY ArrivingAtRun DEF Whole
  <2>5. k = token - 1 /\ child' > 0 =>
          child' = 1 /\ element' = Len(pieces[k]) /\ SearchedTo(1)'
    BY <1>0, ArrivingAtRun
  <2> QED  BY <2>2, <2>3, <2>4, <2>5
<1>8. SearchForgetsSearches'
  <2> SUFFICES ASSUME token = 1, cuts = 0, NEW k \in Even
               PROVE  pieces[k] = Shown(k)
    BY <1>0 DEF SearchForgetsSearches, SearchHasEnded, Shown, LowerKeyword
  <2>1. k > token  BY TextsInBody, EvenRun
  <2> QED  BY <1>0, <2>1 DEF IInv, SearchInv
<1> QED  BY <1>2, <1>3, <1>4, <1>5, <1>6, <1>7, <1>8 DEF IInv

(* Three pieces in the place of one.                                       *)
LEMMA SpliceOfThree ==
  ASSUME NEW run \in Seq(Piece), NEW e \in 1..Len(run), NEW new \in Seq(Piece), Len(new) = 3
  PROVE  /\ Splice(run, e, new) \in Seq(Piece) /\ Len(Splice(run, e, new)) = Len(run) + 2
         /\ \A i \in 1..(Len(run) + 2) :
              Splice(run, e, new)[i] = IF i < e THEN run[i]
                                       ELSE IF i <= e + 2 THEN new[i - e + 1] ELSE run[i - 2]
<1> DEFINE before == SubSeq(run, 1, e - 1)
           after == SubSeq(run, e + 1, Len(run))
<1>0. Len(run) \in Nat /\ e \in Nat \ {0} /\ e <= Len(run)  OBVIOUS
<1>1. before \in Seq(Piece) /\ Len(before) = e - 1 /\ \A i \in 1..(e - 1) : before[i] = run[i]
  <2>1. \A i \in 1..(e - 1) : run[i] \in Piece  OBVIOUS
  <2>2. /\ before \in Seq(Piece) /\ Len(before) = IF 1 <= e - 1 THEN (e - 1) - 1 + 1 ELSE 0
        /\ \A i \in 1..((e - 1) - 1 + 1) : before[i] = run[1 + i - 1]
    BY <1>0, <2>1, SubSeqProperties
  <2> HIDE DEF before
  <2> QED  BY <1>0, <2>2
<1>2. /\ after \in Seq(Piece) /\ Len(after) = Len(run) - e
      /\ \A i \in 1..(Len(run) - e) : after[i] = run[e + i]
  <2>1. \A i \in (e + 1)..Len(run) : run[i] \in Piece  OBVIOUS
  <2>2. /\ after \in Seq(Piece)
        /\ Len(after) = IF e + 1 <= Len(run) THEN Len(run) - (e + 1) + 1 ELSE 0
        /\ \A i \in 1..(Len(run) - (e + 1) + 1) : after[i] = run[(e + 1) + i - 1]
    BY <1>0, <2>1, SubSeqProperties
  <2> HIDE DEF after
  <2> QED  BY <1>0, <2>2
<1> HIDE DEF before, after
<1>3. /\ before \o new \in Seq(Piece) /\ Len(before \o new) = e + 2
      /\ \A i \in 1..(e + 2) : (before \o new)[i] = IF i < e THEN before[i] ELSE new[i - e + 1]
  <2>1. /\ before \o new \in Seq(Piece) /\ Len(before \o new) = Len(before) + Len(new)
        /\ \A i \in 1..(Len(before) + Len(new)) :
             (before \o new)[i] = IF i <= Len(before) THEN before[i] ELSE new[i - Len(before)]
    BY <1>1, ConcatProperties
  <2>2. \A i \in 1..(e + 2) : (i <= e - 1 <=> i < e) /\ i - (e - 1) = i - e + 1  BY <1>0
  <2> QED  BY <1>0, <1>1, <2>1, <2>2
<1>4. /\ (before \o new) \o after \in Seq(Piece)
      /\ Len((before \o new) \o after) = Len(run) + 2
      /\ \A i \in 1..(Len(run) + 2) :
           ((before \o new) \o after)[i] =
             IF i <= e + 2 THEN (before \o new)[i] ELSE after[i - (e + 2)]
  <2> DEFINE front == before \o new
  <2>0. front \in Seq(Piece) /\ Len(front) = e + 2  BY <1>3
  <2> HIDE DEF front
  <2>1. /\ front \o after \in Seq(Piece) /\ Len(front \o after) = Len(front) + Len(after)
        /\ \A i \in 1..(Len(front) + Len(after)) :
             (front \o after)[i] = IF i <= Len(front) THEN front[i] ELSE after[i - Len(front)]
    BY <1>2, <2>0, ConcatProperties
  <2>2. Len(front) + Len(after) = Len(run) + 2  BY <1>0, <1>2, <2>0
  <2>3. /\ front \o after \in Seq(Piece) /\ Len(front \o after) = Len(run) + 2
        /\ \A i \in 1..(Len(run) + 2) :
             (front \o after)[i] = IF i <= e + 2 THEN front[i] ELSE after[i - (e + 2)]
    BY <2>0, <2>1, <2>2
  <2> QED  BY <2>3 DEF front
<1>5. ASSUME NEW i \in 1..(Len(run) + 2)
      PROVE  ((before \o new) \o after)[i] =
               IF i < e THEN run[i] ELSE IF i <= e + 2 THEN new[i - e + 1] ELSE run[i - 2]
  <2>0. i \in Nat  BY <1>0
  <2>1. CASE i < e
    <3>1. i <= e + 2 /\ i \in 1..(e - 1) /\ i \in 1..(e + 2)  BY <1>0, <2>0, <2>1
    <3> QED  BY <1>1, <1>3, <1>4, <2>1, <3>1, Zenon
  <2>2. CASE ~(i < e) /\ i <= e + 2
    <3>1. i \in 1..(e + 2)  BY <1>0, <2>0, <2>2
    <3> QED  BY <1>3, <1>4, <2>2, <3>1, Zenon
  <2>3. CASE ~(i < e) /\ ~(i <= e + 2)
    <3>1. i - (e + 2) \in 1..(Len(run) - e) /\ e + (i - (e + 2)) = i - 2
      BY <1>0, <2>0, <2>3
    <3> QED  BY <1>2, <1>4, <2>3, <3>1
  <2> QED  BY <2>1, <2>2, <2>3, Zenon
<1> QED  BY <1>4, <1>5 DEF Splice, before, after

(* The text of three pieces.                                               *)
LEMMA TextOfThree ==
  ASSUME NEW p \in Piece, NEW q \in Piece, NEW r \in Piece
  PROVE  TextOf(<<p, q, r>>) = (p.text \o q.text) \o r.text
<1>1. <<p>> \in Seq(Piece) /\ <<q>> \in Seq(Piece) /\ <<r>> \in Seq(Piece)
      /\ <<p, q>> \in Seq(Piece) /\ <<p>> \o <<q>> = <<p, q>> /\ <<p, q>> \o <<r>> = <<p, q, r>>
  <2>1. <<p>> \in Seq(Piece) /\ <<q>> \in Seq(Piece) /\ <<r>> \in Seq(Piece)
        /\ <<p, q>> \in Seq(Piece)
    OBVIOUS
  <2>2. Append(<<p>>, q) = <<p, q>>
    <3>1. <<p, q>> \in Seq(Piece) /\ Len(<<p, q>>) = 2  OBVIOUS
    <3>2. Append(<<p>>, q) \in Seq(Piece) /\ Len(Append(<<p>>, q)) = 2  OBVIOUS
    <3>3. \A i \in 1..2 : i = 1 \/ i = 2  OBVIOUS
    <3>4. Append(<<p>>, q)[1] = p /\ Append(<<p>>, q)[2] = q  OBVIOUS
    <3>5. \A i \in 1..2 : Append(<<p>>, q)[i] = <<p, q>>[i]  BY <3>3, <3>4
    <3> QED  BY <3>1, <3>2, <3>5, SeqEqual
  <2>3. Append(<<p, q>>, r) = <<p, q, r>>
    <3>1. <<p, q, r>> \in Seq(Piece) /\ Len(<<p, q, r>>) = 3  OBVIOUS
    <3>2. Append(<<p, q>>, r) \in Seq(Piece) /\ Len(Append(<<p, q>>, r)) = 3  OBVIOUS
    <3>3. \A i \in 1..3 : i = 1 \/ i = 2 \/ i = 3  OBVIOUS
    <3>4. /\ Append(<<p, q>>, r)[1] = p /\ Append(<<p, q>>, r)[2] = q
          /\ Append(<<p, q>>, r)[3] = r
      OBVIOUS
    <3>5. \A i \in 1..3 : Append(<<p, q>>, r)[i] = <<p, q, r>>[i]  BY <3>3, <3>4
    <3> QED  BY <3>1, <3>2, <3>5, SeqEqual
  <2>4. Append(<<p>>, q) = <<p>> \o <<q>>  BY <2>1, AppendIsConcat
  <2>5. Append(<<p, q>>, r) = <<p, q>> \o <<r>>  BY <2>1, AppendIsConcat
  <2> QED  BY <2>1, <2>2, <2>3, <2>4, <2>5
<1>2. TextOf(<<p, q>>) = p.text \o q.text
  <2>1. TextOf(<<p>> \o <<q>>) = TextOf(<<p>>) \o TextOf(<<q>>)  BY <1>1, TextOfConcat
  <2> QED  BY <1>1, <2>1, TextOfOne
<1>3. TextOf(<<p, q>> \o <<r>>) = TextOf(<<p, q>>) \o TextOf(<<r>>)  BY <1>1, TextOfConcat
<1> QED  BY <1>1, <1>2, <1>3, TextOfOne

(* A text that is cut around a part of it, the part perhaps reaching       *)
(* behind the end.                                                         *)
LEMMA CutApart ==
  ASSUME NEW s \in Seq(Char), NEW m \in 1..(Len(s) + 1), NEW n \in Nat \ {0}
  PROVE  /\ SubSeq(s, 1, m - 1) \in Seq(Char)
         /\ SubSeq(s, m, Min({m + n - 1, Len(s)})) \in Seq(Char)
         /\ SubSeq(s, m + n, Len(s)) \in Seq(Char)
         /\ (SubSeq(s, 1, m - 1) \o SubSeq(s, m, Min({m + n - 1, Len(s)})))
              \o SubSeq(s, m + n, Len(s)) = s
         /\ m + n - 1 <= Len(s) => Min({m + n - 1, Len(s)}) = m + n - 1
<1> DEFINE to == Min({m + n - 1, Len(s)})
<1>0. Len(s) \in Nat /\ m \in Nat \ {0} /\ m <= Len(s) + 1  OBVIOUS
<1>1. to \in {m + n - 1, Len(s)} /\ to <= m + n - 1 /\ to <= Len(s) /\ to \in Nat
  <2>1. {m + n - 1, Len(s)} \in SUBSET Nat /\ {m + n - 1, Len(s)} # {}  BY <1>0
  <2> QED  BY <2>1, MinIsLeast
<1> HIDE DEF to
<1>2. SubSeq(s, 1, m - 1) \in Seq(Char) /\ SubSeq(s, m, to) \in Seq(Char)
      /\ SubSeq(s, m + n, Len(s)) \in Seq(Char)
  <2>1. m - 1 \in Int /\ m - 1 <= Len(s) /\ m + n \in Nat \ {0} /\ to \in Int  BY <1>0, <1>1
  <2>2. SubSeq(s, 1, m - 1) \in Seq(Char)  BY <2>1, PartOf
  <2>3. SubSeq(s, m, to) \in Seq(Char)  BY <1>0, <1>1, <2>1, PartOf
  <2>4. SubSeq(s, m + n, Len(s)) \in Seq(Char)  BY <1>0, <2>1, PartOf
  <2> QED  BY <2>2, <2>3, <2>4
<1>3. to \in (m - 1)..Len(s)  BY <1>0, <1>1
<1>4. SubSeq(s, 1, m - 1) \o SubSeq(s, m, to) = SubSeq(s, 1, to)
  <2>1. 1 \in 1..(Len(s) + 1) /\ m - 1 \in (1 - 1)..Len(s) /\ to \in (m - 1)..Len(s)
        /\ (m - 1) + 1 = m
    BY <1>0, <1>3
  <2>2. SubSeq(s, 1, m - 1) \o SubSeq(s, (m - 1) + 1, to) = SubSeq(s, 1, to)
    BY <2>1, ConcatAdjacentSubSeq
  <2> QED  BY <2>1, <2>2
<1>5. SubSeq(s, 1, to) \o SubSeq(s, m + n, Len(s)) = s
  <2>1. CASE m + n - 1 <= Len(s)
    <3>1. 1 \in 1..(Len(s) + 1) /\ to \in (1 - 1)..Len(s) /\ Len(s) \in to..Len(s)
          /\ m + n = to + 1
      BY <1>0, <1>1, <2>1
    <3>2. SubSeq(s, 1, to) \o SubSeq(s, to + 1, Len(s)) = SubSeq(s, 1, Len(s))
      BY <3>1, ConcatAdjacentSubSeq
    <3> QED  BY <3>1, <3>2, SubSeqFull
  <2>2. CASE ~(m + n - 1 <= Len(s))
    <3>1. to = Len(s) /\ Len(s) < m + n /\ m + n \in Int /\ Len(s) \in Int  BY <1>0, <1>1, <2>2
    <3>2. SubSeq(s, m + n, Len(s)) = <<>>  BY <3>1, SubSeqEmpty
    <3>3. SubSeq(s, 1, to) = s  BY <3>1, SubSeqFull
    <3> QED  BY <3>2, <3>3, ConcatEmptySeq
  <2> QED  BY <2>1, <2>2
<1>6. m + n - 1 <= Len(s) => to = m + n - 1  BY <1>0, <1>1
<1> QED  BY <1>2, <1>4, <1>5, <1>6 DEF to

(* The number of marks on the page is a number.                            *)
LEMMA MarksFinite ==
  ASSUME pieces \in [Texts -> Seq(Piece)]
  PROVE  IsFiniteSet(Marks) /\ Cardinality(Marks) \in Nat
<1>1. IsFiniteSet(Texts)
  <2>1. IsFiniteSet(1..Len(Page))  BY PageType, FS_Interval
  <2> QED  BY <2>1, PageType, FS_Subset
<1> DEFINE Rows == {{k} \X MarksOf(k) : k \in Texts}
           row == [k \in Texts |-> {k} \X MarksOf(k)]
<1>2. IsFiniteSet(Rows)
  <2>1. row \in Surjection(Texts, Rows)  BY DEF Surjection
  <2> HIDE DEF row, Rows
  <2> QED  BY <1>1, <2>1, FS_Surjection
<1>3. ASSUME NEW k \in Texts  PROVE IsFiniteSet({k} \X MarksOf(k))
  <2>1. Len(pieces[k]) \in Nat /\ MarksOf(k) \subseteq 1..Len(pieces[k])  BY DEF MarksOf
  <2>2. IsFiniteSet(1..Len(pieces[k]))  BY <2>1, FS_Interval
  <2>3. IsFiniteSet(MarksOf(k))  BY <2>1, <2>2, FS_Subset
  <2>4. IsFiniteSet({k})  BY FS_Singleton
  <2> QED  BY <2>3, <2>4, FS_Product
<1>4. \A T \in Rows : IsFiniteSet(T)  BY <1>3
<1>5. IsFiniteSet(UNION Rows)
  <2> HIDE DEF Rows
  <2> QED  BY <1>2, <1>4, FS_UNION
<1> QED  BY <1>5, FS_CardinalityType DEF Marks

(* What a round of the inner loop makes of the run at hand.                *)
LEMMA HighlightFacts ==
  ASSUME IInv, Highlight
  PROVE  /\ SplitAt(Min(Found)) \in Seq(Piece) /\ Len(SplitAt(Min(Found))) = 3
         /\ pieces' \in [Texts -> Seq(Piece)]
         /\ \A k \in Texts : k # token => pieces'[k] = pieces[k]
         /\ pieces'[token] = Splice(pieces[token], element, SplitAt(Min(Found)))
         /\ TextOf(pieces'[token]) = TextOf(pieces[token])
<1> DEFINE m == Min(Found)
           n == Len(LowerKeyword)
           len == Len(Value)
           run == pieces[token]
           before == SubSeq(Value, 1, m - 1)
           hit == SubSeq(Value, m, Min({m + n - 1, len}))
           after == SubSeq(Value, m + n, len)
<1>1. /\ token \in Texts /\ run \in Seq(Piece) /\ element \in 1..Len(run)
      /\ run[element] = Node(Value) /\ Value \in Seq(Char)
      /\ n \in Nat \ {0} /\ m \in 1..(len + 1)
  <2>1. Marking /\ Found # {} /\ m <= len + 1  BY DEF Highlight
  <2>2. /\ token \in Texts /\ run \in Seq(Piece) /\ element \in 1..Len(run)
        /\ run[element] = Node(Value) /\ Value \in Seq(Char) /\ keyword \in Keyword
    BY <2>1, MarkingFacts
  <2>3. LowerKeyword \in Seq(Char) /\ n \in Nat \ {0}  BY <2>2, LowerKeywordType
  <2>4. Lowercase(Value) \in Seq(Char)  BY <2>2, LowercaseType
  <2>5. m \in Nat \ {0}  BY <2>1, <2>3, <2>4, FirstOccurrence DEF Found
  <2>6. len \in Nat  BY <2>2
  <2> HIDE DEF m, n, len, run
  <2> QED  BY <2>1, <2>2, <2>3, <2>5, <2>6
<1>2. /\ before \in Seq(Char) /\ hit \in Seq(Char) /\ after \in Seq(Char)
      /\ (before \o hit) \o after = Value
  <2> HIDE DEF m, n
  <2> QED  BY <1>1, CutApart
<1>3. SplitAt(m) = <<Node(before), Mark(hit), Node(after)>>  BY DEF SplitAt
<1> HIDE DEF m, n, len, before, hit, after
<1>4. /\ SplitAt(m) \in Seq(Piece) /\ Len(SplitAt(m)) = 3
      /\ TextOf(SplitAt(m)) = Value
  <2>1. /\ Node(before) \in Piece /\ Node(before).text = before
        /\ Mark(hit) \in Piece /\ Mark(hit).text = hit
        /\ Node(after) \in Piece /\ Node(after).text = after
    BY <1>2, NodeAndMark
  <2>2. TextOf(<<Node(before), Mark(hit), Node(after)>>) = (before \o hit) \o after
    <3>1. TextOf(<<Node(before), Mark(hit), Node(after)>>) =
            (Node(before).text \o Mark(hit).text) \o Node(after).text
      BY ONLY <2>1, TextOfThree
    <3> QED  BY <2>1, <3>1, Zenon
  <2>3. <<Node(before), Mark(hit), Node(after)>> \in Seq(Piece)
        /\ Len(<<Node(before), Mark(hit), Node(after)>>) = 3
    BY <2>1
  <2> QED  BY <1>2, <1>3, <2>2, <2>3
<1>5. /\ Splice(run, element, SplitAt(m)) \in Seq(Piece)
      /\ TextOf(Splice(run, element, SplitAt(m))) = TextOf(run)
  <2>1. run[element].text = Value  BY <1>1, NodeAndMark
  <2> QED  BY <1>1, <1>4, <2>1, SpliceKeepsText
<1>6. pieces' = [pieces EXCEPT ![token] = Splice(run, element, SplitAt(m))]
  BY DEF Highlight, m
<1>7. pieces \in [Texts -> Seq(Piece)]  BY DEF IInv, TypeOK
<1>8. /\ pieces' \in [Texts -> Seq(Piece)]
      /\ \A k \in Texts : k # token => pieces'[k] = pieces[k]
      /\ pieces'[token] = Splice(run, element, SplitAt(m))
  <2> HIDE DEF run
  <2> QED  BY <1>1, <1>5, <1>6, <1>7
<1> QED  BY <1>4, <1>5, <1>8 DEF m

(* One mark more, right behind the node at hand: the marks before it stay, *)
(* those behind it move by two.                                            *)
LEMMA HighlightMarks ==
  ASSUME IInv, Highlight
  PROVE  /\ token \in Texts /\ token' = token /\ element \in Nat \ {0}
         /\ \A k \in Texts : k # token => MarksOf(k)' = MarksOf(k)
         /\ MarksOf(token)' = {i \in MarksOf(token) : i < element} \union {element + 1}
                                \union {i + 2 : i \in {j \in MarksOf(token) : j > element}}
         /\ element \notin MarksOf(token)
         /\ MarksOf(token) \subseteq Nat
         /\ Len(pieces'[token]) = Len(pieces[token]) + 2
<1> DEFINE run == pieces[token]
           new == SplitAt(Min(Found))
           after == Splice(run, element, new)
<1>1. /\ token \in Texts /\ run \in Seq(Piece) /\ element \in 1..Len(run)
      /\ run[element] = Node(Value) /\ Value \in Seq(Char)
      /\ token' = token
  BY MarkingFacts DEF Highlight
<1>2. /\ new \in Seq(Piece) /\ Len(new) = 3 /\ pieces'[token] = after
      /\ \A k \in Texts : k # token => pieces'[k] = pieces[k]
  BY HighlightFacts
<1>3. ~new[1].mark /\ new[2].mark /\ ~new[3].mark  BY DEF SplitAt, Node, Mark
<1>4. ~run[element].mark  BY <1>1, NodeAndMark
<1>5. /\ after \in Seq(Piece) /\ Len(after) = Len(run) + 2
      /\ \A i \in 1..(Len(run) + 2) :
           after[i] = IF i < element THEN run[i]
                      ELSE IF i <= element + 2 THEN new[i - element + 1] ELSE run[i - 2]
  <2> HIDE DEF run, new
  <2> QED  BY <1>1, <1>2, SpliceOfThree
<1>6. MarksOf(token) = {i \in 1..Len(run) : run[i].mark}
      /\ MarksOf(token)' = {i \in 1..(Len(run) + 2) : after[i].mark}
  <2>1. token' = token  BY DEF Highlight
  <2>2. DOMAIN run = 1..Len(run) /\ DOMAIN after = 1..(Len(run) + 2)  BY <1>1, <1>5
  <2> HIDE DEF after
  <2> QED  BY <1>2, <2>1, <2>2 DEF MarksOf
<1> HIDE DEF run, new, after
<1>7. Len(run) \in Nat /\ element \in Nat \ {0} /\ element <= Len(run)  BY <1>1
<1>8. ASSUME NEW i \in 1..(Len(run) + 2)
      PROVE  after[i].mark <=>
               \/ i < element /\ i \in MarksOf(token)
               \/ i = element + 1
               \/ i > element + 2 /\ i - 2 \in MarksOf(token)
  <2>0. i \in Nat  BY <1>7
  <2>1. CASE i < element
    <3>1. after[i] = run[i] /\ i \in 1..Len(run) /\ i # element + 1 /\ ~(i > element + 2)
      BY <1>5, <1>7, <2>0, <2>1
    <3> QED  BY <1>6, <2>1, <3>1
  <2>2. CASE i = element
    <3>1. after[i] = new[1]  BY <1>5, <1>7, <2>2
    <3> QED  BY <1>3, <1>7, <2>2, <3>1
  <2>3. CASE i = element + 1
    <3>1. after[i] = new[2]  BY <1>5, <1>7, <2>3
    <3> QED  BY <1>3, <2>3, <3>1
  <2>4. CASE i = element + 2
    <3>1. after[i] = new[3]  BY <1>5, <1>7, <2>4
    <3> QED  BY <1>3, <1>7, <2>4, <3>1
  <2>5. CASE i > element + 2
    <3>1. after[i] = run[i - 2] /\ i - 2 \in 1..Len(run) /\ ~(i < element) /\ i # element + 1
      BY <1>5, <1>7, <2>0, <2>5
    <3> QED  BY <1>6, <2>5, <3>1
  <2>6. i < element \/ i = element \/ i = element + 1 \/ i = element + 2 \/ i > element + 2
    BY <1>7, <2>0
  <2> QED  BY <2>1, <2>2, <2>3, <2>4, <2>5, <2>6
<1>9. MarksOf(token)' = {i \in MarksOf(token) : i < element} \union {element + 1}
                          \union {i + 2 : i \in {j \in MarksOf(token) : j > element}}
  <2>1. ASSUME NEW i \in MarksOf(token)'
        PROVE  \/ i \in MarksOf(token) /\ i < element
               \/ i = element + 1
               \/ i - 2 \in MarksOf(token) /\ i - 2 > element /\ i = (i - 2) + 2
    <3>1. i \in 1..(Len(run) + 2) /\ after[i].mark  BY <1>6
    <3>2. i > element + 2 => i - 2 > element /\ i = (i - 2) + 2  BY <1>7, <3>1
    <3> QED  BY <1>8, <3>1, <3>2
  <2>2. \A i \in MarksOf(token) : i < element => i \in MarksOf(token)'
    <3>1. \A i \in MarksOf(token) : i \in 1..(Len(run) + 2)  BY <1>6, <1>7
    <3> QED  BY <1>6, <1>8, <3>1
  <2>3. element + 1 \in MarksOf(token)'
    <3>1. element + 1 \in 1..(Len(run) + 2)  BY <1>7
    <3> QED  BY <1>6, <1>8, <3>1
  <2>4. \A i \in MarksOf(token) : i > element => i + 2 \in MarksOf(token)'
    <3> SUFFICES ASSUME NEW i \in MarksOf(token), i > element  PROVE i + 2 \in MarksOf(token)'
      OBVIOUS
    <3>1. i + 2 \in 1..(Len(run) + 2) /\ i + 2 > element + 2 /\ (i + 2) - 2 = i
      BY <1>6, <1>7
    <3> QED  BY <1>6, <1>8, <3>1
  <2> QED  BY <2>1, <2>2, <2>3, <2>4
<1>10. \A k \in Texts : k # token => MarksOf(k)' = MarksOf(k)  BY <1>2 DEF MarksOf
<1>11. element \notin MarksOf(token) /\ MarksOf(token) \subseteq Nat
  BY <1>4, <1>6
<1>12. Len(pieces'[token]) = Len(pieces[token]) + 2  BY <1>2, <1>5 DEF run
<1> QED  BY <1>1, <1>7, <1>9, <1>10, <1>11, <1>12

(* What is left of what is left of a sequence.                             *)
LEMMA RestOfRest ==
  ASSUME NEW S, NEW s \in Seq(S), NEW i \in 1..(Len(s) + 1), NEW j \in Nat \ {0}
  PROVE  SubSeq(SubSeq(s, i, Len(s)), j, Len(SubSeq(s, i, Len(s)))) =
           SubSeq(s, i + j - 1, Len(s))
<1> DEFINE rest == SubSeq(s, i, Len(s))
<1>0. Len(s) \in Nat /\ i \in Nat \ {0} /\ i <= Len(s) + 1  OBVIOUS
<1>1. /\ rest \in Seq(S) /\ Len(rest) = Len(s) - i + 1
      /\ \A k \in 1..(Len(s) - i + 1) : rest[k] = s[i + k - 1]
  <2>1. \A k \in i..Len(s) : s[k] \in S  OBVIOUS
  <2>2. /\ rest \in Seq(S) /\ Len(rest) = IF i <= Len(s) THEN Len(s) - i + 1 ELSE 0
        /\ \A k \in 1..(Len(s) - i + 1) : rest[k] = s[i + k - 1]
    BY <1>0, <2>1, SubSeqProperties
  <2> HIDE DEF rest
  <2> QED  BY <1>0, <2>2
<1> HIDE DEF rest
<1>2. CASE i + j - 1 > Len(s)
  <2>1. Len(rest) < j /\ Len(rest) \in Int  BY <1>0, <1>1, <1>2
  <2>2. SubSeq(rest, j, Len(rest)) = <<>>  BY <2>1, SubSeqEmpty
  <2>3. SubSeq(s, i + j - 1, Len(s)) = <<>>
    <3>1. i + j - 1 \in Int /\ Len(s) \in Int /\ Len(s) < i + j - 1  BY <1>0, <1>2
    <3> QED  BY <3>1, SubSeqEmpty
  <2> QED  BY <2>2, <2>3 DEF rest
<1>3. CASE ~(i + j - 1 > Len(s))
  <2> DEFINE n == Len(s) - (i + j - 1) + 1
  <2>0. n \in Nat \ {0} /\ i + j - 1 \in Nat \ {0} /\ Len(rest) - j + 1 = n /\ j <= Len(rest)
    BY <1>0, <1>1, <1>3
  <2>1. /\ SubSeq(rest, j, Len(rest)) \in Seq(S) /\ Len(SubSeq(rest, j, Len(rest))) = n
        /\ \A k \in 1..n : SubSeq(rest, j, Len(rest))[k] = rest[j + k - 1]
    <3>1. \A k \in j..Len(rest) : rest[k] \in S  BY <1>1
    <3>2. j \in Int /\ Len(rest) \in Int  BY <1>0, <1>1
    <3> HIDE DEF n
    <3> QED  BY <2>0, <3>1, <3>2, SubSeqProperties
  <2>2. /\ SubSeq(s, i + j - 1, Len(s)) \in Seq(S) /\ Len(SubSeq(s, i + j - 1, Len(s))) = n
        /\ \A k \in 1..n : SubSeq(s, i + j - 1, Len(s))[k] = s[(i + j - 1) + k - 1]
    <3>1. \A k \in (i + j - 1)..Len(s) : s[k] \in S  BY <2>0
    <3>2. i + j - 1 <= Len(s)  BY <1>0, <1>3
    <3> QED  BY <1>0, <2>0, <3>1, <3>2, SubSeqProperties
  <2>3. ASSUME NEW k \in 1..n
        PROVE  SubSeq(rest, j, Len(rest))[k] = SubSeq(s, i + j - 1, Len(s))[k]
    <3>1. j + k - 1 \in 1..(Len(s) - i + 1) /\ i + (j + k - 1) - 1 = (i + j - 1) + k - 1
      BY <1>0, <2>0
    <3>2. rest[j + k - 1] = s[i + (j + k - 1) - 1]  BY <1>1, <3>1
    <3> HIDE DEF n
    <3> QED  BY <2>1, <2>2, <3>1, <3>2
  <2>4. SubSeq(rest, j, Len(rest)) = SubSeq(s, i + j - 1, Len(s))
    <3> HIDE DEF n
    <3> QED  BY <2>1, <2>2, <2>3, SeqEqual
  <2> QED  BY <2>4 DEF rest
<1> QED  BY <1>2, <1>3

(* The pieces of a run before some place, and two more.                    *)
LEMMA PrefixOfSplice ==
  ASSUME NEW run \in Seq(Piece), NEW e \in 1..Len(run), NEW two \in Seq(Piece), Len(two) = 2,
         NEW after \in Seq(Piece), Len(after) = Len(run) + 2,
         \A j \in 1..(Len(run) + 2) : j <= e + 1 =>
           after[j] = IF j < e THEN run[j] ELSE two[j - e + 1]
  PROVE  SubSeq(after, 1, e + 1) = SubSeq(run, 1, e - 1) \o two
<1> DEFINE before == SubSeq(run, 1, e - 1)
           prefix == SubSeq(after, 1, e + 1)
<1>0. Len(run) \in Nat /\ e \in Nat \ {0} /\ e <= Len(run)  OBVIOUS
<1>1. before \in Seq(Piece) /\ Len(before) = e - 1 /\ \A i \in 1..(e - 1) : before[i] = run[i]
  <2>1. \A i \in 1..(e - 1) : run[i] \in Piece  OBVIOUS
  <2>2. /\ before \in Seq(Piece) /\ Len(before) = IF 1 <= e - 1 THEN (e - 1) - 1 + 1 ELSE 0
        /\ \A i \in 1..((e - 1) - 1 + 1) : before[i] = run[1 + i - 1]
    BY <1>0, <2>1, SubSeqProperties
  <2> HIDE DEF before
  <2> QED  BY <1>0, <2>2
<1>2. prefix \in Seq(Piece) /\ Len(prefix) = e + 1 /\ \A i \in 1..(e + 1) : prefix[i] = after[i]
  <2>1. \A i \in 1..(e + 1) : after[i] \in Piece  BY <1>0
  <2>2. /\ prefix \in Seq(Piece) /\ Len(prefix) = IF 1 <= e + 1 THEN (e + 1) - 1 + 1 ELSE 0
        /\ \A i \in 1..((e + 1) - 1 + 1) : prefix[i] = after[1 + i - 1]
    BY <1>0, <2>1, SubSeqProperties
  <2> HIDE DEF prefix
  <2> QED  BY <1>0, <2>2
<1> HIDE DEF before, prefix
<1>3. /\ before \o two \in Seq(Piece) /\ Len(before \o two) = Len(before) + Len(two)
      /\ \A i \in 1..(Len(before) + Len(two)) :
           (before \o two)[i] = IF i <= Len(before) THEN before[i] ELSE two[i - Len(before)]
  BY <1>1, ConcatProperties
<1>4. ASSUME NEW i \in 1..(e + 1)  PROVE prefix[i] = (before \o two)[i]
  <2>0. i \in 1..(Len(run) + 2) /\ i \in 1..(Len(before) + Len(two)) /\ i <= e + 1
        /\ (i < e <=> i <= Len(before)) /\ i - Len(before) = i - e + 1
    BY <1>0, <1>1
  <2>1. CASE i < e
    <3>1. i \in 1..(e - 1)  BY <1>0, <2>1
    <3> QED  BY <1>1, <1>2, <1>3, <2>0, <2>1, <3>1
  <2>2. CASE ~(i < e)  BY <1>2, <1>3, <2>0, <2>2
  <2> QED  BY <2>1, <2>2
<1>5. Len(before \o two) = e + 1  BY <1>0, <1>1, <1>3
<1>6. prefix = before \o two  BY <1>2, <1>3, <1>4, <1>5, SeqEqual
<1> QED  BY <1>6 DEF before, prefix

LEMMA HighlightCounts ==
  ASSUME IInv, Highlight
  PROVE  Cardinality(Marks)' = Cardinality(Marks) + 1
<1> DEFINE x == <<token, element + 1>>
           New == Marks' \ {x}
           Moved(k, i) == IF k = token /\ i > element THEN <<k, i + 2>> ELSE <<k, i>>
           shift == [p \in Marks |-> Moved(p[1], p[2])]
<1>0. /\ token \in Texts /\ token' = token /\ element \in Nat \ {0}
      /\ \A k \in Texts : k # token => MarksOf(k)' = MarksOf(k)
      /\ MarksOf(token)' = {i \in MarksOf(token) : i < element} \union {element + 1}
                             \union {i + 2 : i \in {j \in MarksOf(token) : j > element}}
      /\ element \notin MarksOf(token) /\ MarksOf(token) \subseteq Nat
  BY HighlightMarks
<1>1. \A p : p \in Marks <=> \E k \in Texts : \E i \in MarksOf(k) : p = <<k, i>>
  BY DEF Marks
<1>2. \A p : p \in Marks' <=> \E k \in Texts : \E i \in MarksOf(k)' : p = <<k, i>>
  BY DEF Marks
<1>3. \A k \in Texts : \A i \in MarksOf(k) : <<k, i>> \in Marks /\ shift[<<k, i>>] = Moved(k, i)
  <2> SUFFICES ASSUME NEW k \in Texts, NEW i \in MarksOf(k)
               PROVE  <<k, i>> \in Marks /\ shift[<<k, i>>] = Moved(k, i)
    OBVIOUS
  <2>1. <<k, i>> \in Marks  BY <1>1
  <2>2. <<k, i>>[1] = k /\ <<k, i>>[2] = i  OBVIOUS
  <2> HIDE DEF Moved
  <2>3. shift[<<k, i>>] = Moved(<<k, i>>[1], <<k, i>>[2])  BY <2>1, Zenon
  <2> QED  BY <2>1, <2>2, <2>3
<1> HIDE DEF shift
<1>4. ASSUME NEW k \in Texts, NEW i \in MarksOf(k)  PROVE Moved(k, i) \in New
  <2>1. CASE k = token /\ i > element
    <3>1. i + 2 \in MarksOf(token)'  BY <1>0, <1>4, <2>1
    <3>2. <<token, i + 2>> \in Marks'  BY <1>0, <1>2, <3>1
    <3>3. i + 2 # element + 1  BY <1>0, <1>4, <2>1
    <3> QED  BY <2>1, <3>2, <3>3
  <2>2. CASE k = token /\ ~(i > element)
    <3>1. i < element /\ i # element + 1  BY <1>0, <1>4, <2>2
    <3>2. i \in MarksOf(token)'  BY <1>0, <1>4, <2>2, <3>1
    <3>3. <<token, i>> \in Marks'  BY <1>0, <1>2, <3>2
    <3> QED  BY <2>2, <3>1, <3>3
  <2>3. CASE k # token
    <3>1. <<k, i>> \in Marks'  BY <1>0, <1>2, <1>4, <2>3
    <3> QED  BY <2>3, <3>1
  <2> QED  BY <2>1, <2>2, <2>3
<1>5. shift \in [Marks -> New]
  <2>1. \A p \in Marks : shift[p] \in New
    <3> HIDE DEF New, Moved
    <3> QED  BY <1>1, <1>3, <1>4
  <2> HIDE DEF New
  <2> QED  BY <2>1 DEF shift
<1>6. ASSUME NEW p \in Marks, NEW q \in Marks, shift[p] = shift[q]  PROVE p = q
  <2>0. PICK k \in Texts, l \in Texts :
          (\E i \in MarksOf(k) : p = <<k, i>>) /\ (\E j \in MarksOf(l) : q = <<l, j>>)
    BY <1>1
  <2>1. PICK i \in MarksOf(k) : p = <<k, i>>  BY <2>0
  <2>2. PICK j \in MarksOf(l) : q = <<l, j>>  BY <2>0
  <2>3. Moved(k, i) = Moved(l, j)  BY <1>3, <1>6, <2>1, <2>2
  <2>4. k = l  BY <2>3
  <2>5. CASE k # token  BY <2>1, <2>2, <2>3, <2>4, <2>5
  <2>6. CASE k = token
    <3>1. i \in Nat /\ j \in Nat /\ i # element /\ j # element  BY <1>0, <2>4, <2>6
    <3>2. i = j  BY <1>0, <2>3, <2>4, <2>6, <3>1
    <3> QED  BY <2>1, <2>2, <2>4, <3>2
  <2> QED  BY <2>5, <2>6
<1>7. ASSUME NEW p \in New  PROVE \E q \in Marks : shift[q] = p
  <2>0. PICK k \in Texts : \E i \in MarksOf(k)' : p = <<k, i>>  BY <1>2
  <2>1. PICK i \in MarksOf(k)' : p = <<k, i>>  BY <2>0
  <2>2. CASE k # token
    <3>1. i \in MarksOf(k)  BY <1>0, <2>1, <2>2
    <3>2. Moved(k, i) = p  BY <2>1, <2>2
    <3> QED  BY <1>3, <3>1, <3>2
  <2>3. CASE k = token
    <3>1. i # element + 1  BY <2>1, <2>3
    <3>2. CASE i \in MarksOf(token) /\ i < element
      <4>1. Moved(token, i) = p  BY <1>0, <2>1, <2>3, <3>2
      <4> QED  BY <1>0, <1>3, <3>2, <4>1
    <3>3. CASE \E j \in MarksOf(token) : j > element /\ i = j + 2
      <4>1. PICK j \in MarksOf(token) : j > element /\ i = j + 2  BY <3>3
      <4>2. Moved(token, j) = p  BY <2>1, <2>3, <4>1
      <4> QED  BY <1>0, <1>3, <4>1, <4>2
    <3>4. i \in MarksOf(token)'  BY <1>0, <2>1, <2>3
    <3> QED  BY <1>0, <3>1, <3>2, <3>3, <3>4
  <2> QED  BY <2>2, <2>3
<1>8. x \in Marks'
  <2>1. element + 1 \in MarksOf(token)'  BY <1>0
  <2> QED  BY <1>0, <1>2, <2>1
<1> HIDE DEF New
<1>9. ExistsBijection(Marks, New)
  <2>1. shift \in Bijection(Marks, New)
    BY <1>5, <1>6, <1>7 DEF Bijection, Injection, Surjection, IsInjective
  <2> QED  BY <2>1 DEF ExistsBijection
<1>10. IsFiniteSet(Marks) /\ Cardinality(Marks) \in Nat  BY MarksFinite DEF IInv, TypeOK
<1>11. IsFiniteSet(New) /\ Cardinality(New) = Cardinality(Marks)
  BY <1>9, <1>10, FS_Bijection
<1>12. Marks' = New \union {x} /\ x \notin New  BY <1>8 DEF New
<1>13. Cardinality(New \union {x}) = Cardinality(New) + 1
  <2> HIDE DEF x
  <2> QED  BY <1>11, <1>12, FS_AddElement
<1> QED  BY <1>11, <1>12, <1>13

(* The run at hand shows what it should, one occurrence further on.        *)
LEMMA HighlightSearches ==
  ASSUME IInv, Highlight, cuts = 0, token \in Even
  PROVE  /\ child = 1 /\ element' = Len(pieces'[token])
         /\ \E i \in 1..(Len(Original[token]) + 1) : SearchedTo(i)'
<1> DEFINE whole == Original[token]
           word == LowerKeyword
           n == Len(word)
           m == Min(Found)
           run == pieces[token]
           F == SearchedFrom(word, whole)
           Now == <<Node(SubSeq(Value, 1, m - 1)), Mark(SubSeq(Value, m, m + n - 1))>>
<1>1. /\ Marking /\ phase = "marking" /\ child > 0 /\ Found # {}
      /\ keyword' = keyword /\ token' = token /\ element' = element + 2
  BY DEF Highlight, Marking
<1>2. /\ run \in Seq(Piece) /\ element \in 1..Len(run) /\ Value \in Seq(Char)
      /\ keyword \in Keyword
  BY <1>1, MarkingFacts
<1>3. /\ child = 1 /\ element = Len(run)
      /\ \E i \in 1..(Len(whole) + 1) : SearchedTo(i)
  BY <1>1 DEF IInv, SearchInv
<1>4. PICK i \in 1..(Len(whole) + 1) : SearchedTo(i)  BY <1>3
<1>5. word \in Seq(Char) /\ word # <<>> /\ n \in Nat \ {0} /\ LowerKeyword' = word
  BY <1>1, <1>2, LowerKeywordType DEF LowerKeyword
<1>6. whole \in Seq(Char) /\ EvenText(whole)  BY EvenRun
<1> DEFINE next == i + m - 1 + n
<1>7. /\ Len(Value) = Len(whole) - i + 1 /\ m \in Nat \ {0} /\ m + n - 1 <= Len(Value)
      /\ next \in (i + 1)..(Len(whole) + 1)
  <2>1. Value = SubSeq(whole, i, Len(whole))  BY <1>4 DEF SearchedTo
  <2> QED  BY <1>1, <1>5, <1>6, <2>1, RestOfEven DEF Found
<1>8. F[i] = Now \o F[next]
  <2>1. F[i] = Searching(word, whole, F, i)  BY <1>5, <1>6, SearchedFromUnfolds
  <2>2. Value = SubSeq(whole, i, Len(whole))  BY <1>4 DEF SearchedTo
  <2> QED  BY <1>1, <2>1, <2>2 DEF Searching, Found
<1>9. F[next] \in Seq(Piece)
  <2>1. next \in 1..(Len(whole) + 1)  BY <1>7
  <2> QED  BY <1>5, <1>6, <2>1, SearchedFromType
<1> HIDE DEF m, n, F, whole, word
<1>10. SplitAt(m) = <<Now[1], Now[2], Node(SubSeq(Value, m + n, Len(Value)))>>
  <2>1. Min({m + n - 1, Len(Value)}) = m + n - 1
    <3>1. m \in 1..(Len(Value) + 1)  BY <1>2, <1>5, <1>7
    <3> QED  BY <1>2, <1>5, <1>7, <3>1, CutApart
  <2> QED  BY <2>1 DEF SplitAt, n, word
<1> DEFINE new == SplitAt(m)
           before == SubSeq(run, 1, element - 1)
<1>11. /\ new \in Seq(Piece) /\ Len(new) = 3 /\ pieces'[token] = Splice(run, element, new)
  BY HighlightFacts DEF m
<1>12. Now \in Seq(Piece) /\ Len(Now) = 2 /\ Now[1] = new[1] /\ Now[2] = new[2]
  <2>1. Now[1] = new[1] /\ Now[2] = new[2]  BY <1>10
  <2>2. Now = <<Now[1], Now[2]>>  OBVIOUS
  <2> HIDE DEF Now, new
  <2>3. new[1] \in Piece /\ new[2] \in Piece
    <3>1. 1 \in 1..Len(new) /\ 2 \in 1..Len(new)  BY <1>11
    <3> QED  BY <1>11, <3>1, ElementOfSeq
  <2>4. <<Now[1], Now[2]>> \in Seq(Piece) /\ Len(<<Now[1], Now[2]>>) = 2  BY <2>1, <2>3
  <2> QED  BY <2>1, <2>2, <2>4, Zenon
<1>13. new[3] = Node(SubSeq(Value, m + n, Len(Value)))  BY <1>10
<1> HIDE DEF new, Now
<1>14. /\ Splice(run, element, new) \in Seq(Piece)
       /\ Len(Splice(run, element, new)) = Len(run) + 2
       /\ \A j \in 1..(Len(run) + 2) :
            Splice(run, element, new)[j] =
              IF j < element THEN run[j]
              ELSE IF j <= element + 2 THEN new[j - element + 1] ELSE run[j - 2]
  <2> HIDE DEF run
  <2> QED  BY <1>2, <1>11, SpliceOfThree
<1> HIDE DEF run
<1>15. element \in Nat \ {0} /\ Len(run) \in Nat  BY <1>2
<1>16. element' = Len(pieces'[token])  BY <1>1, <1>3, <1>11, <1>14
<1>17. Value' = SubSeq(whole, next, Len(whole))
  <2>1. Splice(run, element, new)[element + 2] = new[3]  BY <1>2, <1>14, <1>15, <1>3
  <2>2. SubSeq(Value, m + n, Len(Value)) \in Seq(Char)
    <3>1. m + n \in Nat \ {0} /\ Len(Value) \in Int  BY <1>2, <1>5, <1>7
    <3> QED  BY <1>2, <3>1, PartOf
  <2>3. Value' = SubSeq(Value, m + n, Len(Value))
    BY <1>1, <1>11, <1>13, <2>1, <2>2, NodeAndMark DEF Value
  <2>4. SubSeq(Value, m + n, Len(Value)) = SubSeq(whole, next, Len(whole))
    <3>1. Value = SubSeq(whole, i, Len(whole))  BY <1>4 DEF SearchedTo, whole
    <3>2. i + (m + n) - 1 = next  BY <1>5, <1>7
    <3>3. m + n \in Nat \ {0}  BY <1>5, <1>7
    <3> QED  BY <1>6, <1>7, <3>1, <3>2, <3>3, RestOfRest
  <2> QED  BY <2>3, <2>4
<1>18. SubSeq(pieces'[token], 1, element' - 1) = before \o Now
  <2>1. \A j \in 1..(Len(run) + 2) : j <= element + 1 =>
          Splice(run, element, new)[j] = IF j < element THEN run[j] ELSE Now[j - element + 1]
    <3> SUFFICES ASSUME NEW j \in 1..(Len(run) + 2), j <= element + 1
                 PROVE  Splice(run, element, new)[j] =
                          IF j < element THEN run[j] ELSE Now[j - element + 1]
      OBVIOUS
    <3>1. ~(j < element) => j - element + 1 = 1 \/ j - element + 1 = 2  BY <1>15
    <3> QED  BY <1>12, <1>14, <1>15, <3>1
  <2>2. /\ Splice(run, element, new) \in Seq(Piece)
        /\ Len(Splice(run, element, new)) = Len(run) + 2
    BY <1>14
  <2>3. SubSeq(Splice(run, element, new), 1, element + 1) = before \o Now
    BY <1>2, <1>12, <2>1, <2>2, PrefixOfSplice
  <2> QED  BY <1>1, <1>11, <1>15, <2>3
<1>19. (before \o Now) \o F[next] = before \o (Now \o F[next])
  <2>1. before \in Seq(Piece)
    <3>1. element - 1 \in Int /\ element - 1 <= Len(run)  BY <1>2, <1>15
    <3> QED  BY <1>2, <3>1, PartOf
  <2>2. \A a, b, c \in Seq(Piece) : (a \o b) \o c = a \o (b \o c)  BY ONLY ConcatRegroups
  <2> QED  BY <1>9, <1>12, <2>1, <2>2
<1>20. before \o F[i] = Searched(word, whole)  BY <1>4 DEF SearchedTo, F, run, word, whole
<1>21. PICK j \in 1..(Len(whole) + 1) : j = next  BY <1>7
<1>22. SearchedTo(j)'
  <2>1. /\ Value' = SubSeq(whole, j, Len(whole))
        /\ SubSeq(pieces'[token], 1, element' - 1) \o F[j] = Searched(word, whole)
    BY <1>8, <1>17, <1>18, <1>19, <1>20, <1>21
  <2> QED  BY <1>1, <1>5, <2>1 DEF SearchedTo, F, whole
<1>23. (\E p \in 1..(Len(Original[token]) + 1) : SearchedTo(p)')
  BY <1>22 DEF whole
<1> QED  BY <1>3, <1>16, <1>23, <1>1

LEMMA HighlightKeeps == IInv /\ Highlight => IInv'
<1> SUFFICES ASSUME IInv, Highlight  PROVE IInv'  OBVIOUS
<1>0. /\ Marking /\ phase = "marking" /\ child > 0
      /\ element' = element + 2 /\ count' = count + 1
      /\ UNCHANGED <<phase, keyword, token, child, dirty, cuts>>
  BY DEF Highlight, Marking
<1>1. /\ token \in Texts /\ child \in Nat \ {0} /\ child <= element
      /\ element \in 1..Len(pieces[token]) /\ Len(pieces[token]) \in Nat
      /\ keyword \notin Quoted
  BY <1>0, MarkingFacts
<1>2. /\ pieces' \in [Texts -> Seq(Piece)]
      /\ \A k \in Texts : k # token => pieces'[k] = pieces[k]
      /\ TextOf(pieces'[token]) = TextOf(pieces[token])
  BY HighlightFacts
<1>3. /\ \A k \in Texts : k # token => MarksOf(k)' = MarksOf(k)
      /\ MarksOf(token)' = {i \in MarksOf(token) : i < element} \union {element + 1}
                             \union {i + 2 : i \in {j \in MarksOf(token) : j > element}}
      /\ element \notin MarksOf(token) /\ MarksOf(token) \subseteq Nat
      /\ Len(pieces'[token]) = Len(pieces[token]) + 2
  BY HighlightMarks
<1>4. TypeOK'  BY <1>0, <1>1, <1>2 DEF IInv, TypeOK
<1>5. WalkInv'  BY <1>0, <1>1, <1>3 DEF IInv, WalkInv, Walking
<1>6. TextIsKept'
  <2>1. \A k \in Texts : TextOf(pieces'[k]) = TextOf(pieces[k])  BY <1>2
  <2> QED  BY <2>1 DEF IInv, TextIsKept
<1>7. CountIsMarks'
  <2>1. count = Cardinality(Marks)  BY <1>0, <1>1 DEF IInv, CountIsMarks
  <2>2. Cardinality(Marks)' = Cardinality(Marks) + 1  BY HighlightCounts
  <2> QED  BY <1>0, <2>1, <2>2 DEF CountIsMarks
<1>8. UnmarkedInv'
  <2>1. \A i \in MarksOf(token) : child < i  BY <1>0, <1>1 DEF IInv, UnmarkedInv
  <2>2. \A i \in MarksOf(token)' : child < i /\ i # element + 2  BY <1>1, <1>3, <2>1
  <2>3. \A k \in Texts : k < token => MarksOf(k)' = {}
    <3>1. \A k \in Texts : k < token => MarksOf(k) = {} /\ k # token
      BY <1>0, <1>1, PageType DEF IInv, UnmarkedInv
    <3> QED  BY <1>3, <3>1
  <2> QED  BY <1>0, <2>2, <2>3 DEF UnmarkedInv
<1>9. WholeInv'
  <2> SUFFICES ASSUME cuts = 0, NEW k \in Texts  PROVE Whole(k)' \/ MarksOf(k)' # {}
    BY <1>0 DEF WholeInv
  <2>1. CASE k = token
    <3>1. element + 1 \in MarksOf(token)'  BY <1>3
    <3> QED  BY <1>0, <2>1, <3>1
  <2>2. CASE k # token
    <3>1. Whole(k) \/ MarksOf(k) # {}  BY <1>0 DEF IInv, WholeInv
    <3> QED  BY <1>2, <1>3, <2>2, <3>1 DEF Whole
  <2> QED  BY <2>1, <2>2
<1>10. SearchInv'
  <2>0. \A k \in Even : k \in Texts  BY EvenRun
  <2>1. \A k \in Even : Shown(k)' = Shown(k)  BY <1>0 DEF Shown, LowerKeyword
  <2>2. \A k \in Even : k # token => Whole(k)' = Whole(k) /\ pieces'[k] = pieces[k]
    BY <1>2, <2>0 DEF Whole
  <2>3. token \notin {k \in Even : k > token \/ k < token}  BY <1>1, PageType
  <2>4. cuts = 0 => \A k \in Even : (k > token => pieces[k] = Shown(k)) /\ (k < token => Whole(k))
    BY <1>0 DEF IInv, SearchInv
  <2>5. cuts = 0 /\ token \in Even =>
          /\ child = 1 /\ element' = Len(pieces'[token])
          /\ \E i \in 1..(Len(Original[token]) + 1) : SearchedTo(i)'
    BY HighlightSearches
  <2>6. child' = child /\ child # 0  BY <1>0, <1>1
  <2> QED  BY <1>0, <2>1, <2>2, <2>3, <2>4, <2>5, <2>6 DEF SearchInv
<1>11. SearchForgetsSearches'  BY <1>0 DEF SearchForgetsSearches, SearchHasEnded
<1> QED  BY <1>4, <1>5, <1>6, <1>7, <1>8, <1>9, <1>10, <1>11 DEF IInv

(* Nothing changes.                                                        *)
LEMMA StutterKeeps == IInv /\ UNCHANGED vars => IInv'
<1> SUFFICES ASSUME IInv, UNCHANGED vars  PROVE IInv'  OBVIOUS
<1> USE DEF IInv, vars
<1>1. TypeOK' /\ WalkInv'  BY DEF TypeOK, WalkInv, Walking
<1>2. TextIsKept' /\ UnmarkedInv' /\ CountIsMarks'
  BY DEF TextIsKept, UnmarkedInv, CountIsMarks, Marks, MarksOf
<1>3. WholeInv'  BY DEF WholeInv, Whole, MarksOf
<1>4. SearchInv'  BY DEF SearchInv, Shown, Whole, SearchedTo, Value, LowerKeyword
<1>5. SearchForgetsSearches'  BY DEF SearchForgetsSearches, SearchHasEnded, LowerKeyword
<1> QED  BY <1>1, <1>2, <1>3, <1>4, <1>5

LEMMA NextInv == IInv /\ [Next]_vars => IInv'
<1> SUFFICES ASSUME IInv, [Next]_vars  PROVE IInv'  OBVIOUS
<1>1. CASE Search  BY <1>1, SearchKeeps
<1>2. CASE SearchQuoted  BY <1>2, SearchQuotedKeeps
<1>3. CASE RemoveAll  BY <1>3, RemoveAllKeeps
<1>4. CASE RemoveChild  BY <1>4, RemoveChildKeeps
<1>5. CASE RemoveLeave  BY <1>5, RemoveLeaveKeeps
<1>6. CASE RemoveLeaveBody  BY <1>6, RemoveLeaveBodyKeeps
<1>7. CASE Highlight  BY <1>7, HighlightKeeps
<1>8. CASE HighlightRaises  BY <1>8, HighlightRaisesKeeps
<1>9. CASE HighlightNext  BY <1>9, HighlightNextKeeps
<1>10. CASE HighlightLeave  BY <1>10, HighlightLeaveKeeps
<1>11. CASE Stop  BY <1>11, StopKeeps
<1>12. CASE UNCHANGED vars  BY <1>12, StutterKeeps
<1> QED  BY <1>1, <1>2, <1>3, <1>4, <1>5, <1>6, <1>7, <1>8, <1>9, <1>10, <1>11, <1>12
         DEF Next, ScriptStep

LEMMA Invariance == Spec => []IInv
BY InitInv, NextInv, PTL DEF Spec

(***************************************************************************)
(* What follows.                                                           *)
(***************************************************************************)
(* The walks stay in the page and in the run they are in, whatever the     *)
(* scripts cut, unwrap and join under them.                                *)
THEOREM TypeCorrect == Spec => []TypeOK
<1>1. IInv => TypeOK  BY DEF IInv
<1> QED  BY <1>1, Invariance, PTL

(* No search, ended, raised or stopped, and no removal loses, doubles or   *)
(* moves a character of the mail.                                          *)
THEOREM TextKept == Spec => []TextIsKept
<1>1. IInv => TextIsKept  BY DEF IInv
<1> QED  BY <1>1, Invariance, PTL

(* The number the caller is given is that of the marks on the page.        *)
THEOREM CountRight == Spec => []CountIsMarks
<1>1. IInv => CountIsMarks  BY DEF IInv
<1> QED  BY <1>1, Invariance, PTL

(* A search that ends shows what it would on the page as it was loaded,    *)
(* whatever was searched for before, as long as no removal was stopped and *)
(* the letters of the text keep their length in lower case.                *)
THEOREM SearchForgets == Spec => []SearchForgetsSearches
<1>1. IInv => SearchForgetsSearches  BY DEF IInv
<1> QED  BY <1>1, Invariance, PTL

(* A removal that ends has removed every mark, and if none was stopped     *)
(* before, the page is as it was loaded.                                   *)
THEOREM RemovalComplete == Spec => RemovalIsComplete
<1>1. IInv /\ [Next]_vars =>
        [RemoveLeaveBody => /\ \A k \in Texts : MarksOf(k)' = {}
                            /\ cuts = 0 => pieces' = InitialPieces]_vars
  <2> SUFFICES ASSUME IInv, RemoveLeaveBody
               PROVE  /\ \A k \in Texts : MarksOf(k)' = {}
                      /\ cuts = 0 => pieces' = InitialPieces
    OBVIOUS
  <2>1. /\ pieces' \in [Texts -> Seq(Piece)]
        /\ \A k \in Texts : MarksOf(k)' = {}
        /\ cuts = 0 => \A k \in Texts : Whole(k)'
    BY RemovalEnds
  <2>2. ASSUME cuts = 0  PROVE pieces' = InitialPieces
    <3>1. \A k \in Texts : pieces'[k] = <<Node(Original[k])>>  BY <2>1, <2>2 DEF Whole
    <3>2. pieces' = [k \in Texts |-> pieces'[k]]  BY <2>1
    <3> QED  BY <3>1, <3>2 DEF InitialPieces
  <2> QED  BY <2>1, <2>2
<1> QED  BY <1>1, Invariance, PTL DEF Spec, RemovalIsComplete
=============================================================================
