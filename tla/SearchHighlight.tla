--------------------------- MODULE SearchHighlight ---------------------------
(***************************************************************************)
(* SearchWebView: a category of UIWebView that highlights a keyword in the *)
(* page of a mail.  Its script keeps all its state in the page: a search   *)
(* unwraps the marks of the last one, then cuts text nodes apart around    *)
(* every occurrence of the keyword.  The web view stops a script that runs *)
(* too long, at the start of a round of one of its loops, and nothing      *)
(* tells the next script how far it got.                                   *)
(*                                                                         *)
(* A page is the sequence of its tags and text runs.  A run holds the text *)
(* nodes and marks that stand between two tags; both walks go backwards.   *)
(***************************************************************************)
EXTENDS Integers, FiniteSets, SequencesExt

CONSTANTS
  Page,       \* "open" (a tag), "hidden" (a tag that hides), "close", "text"
  Original,   \* the text of every run
  Char,
  Lower,      \* toLowerCase, of one character
  Keyword,    \* what is searched for
  Quoted,     \* keywords with an apostrophe: the call is no JavaScript
  NoKeyword,  \* no search
  MaxCuts     \* bound: scripts stopped while they unwrap marks

Tag == {"open", "hidden"}
Texts == {k \in DOMAIN Page : Page[k] = "text"}

(* The end of the element that starts at k.                                *)
Opened(k, j) == Cardinality({i \in k..j : Page[i] \in Tag})
Closed(k, j) == Cardinality({i \in k..j : Page[i] = "close"})
EndOf(k) == Min({j \in DOMAIN Page : j > k /\ Opened(k, j) = Closed(k, j)})

Inside(k) == {j \in Texts : k < j /\ j < EndOf(k)}
ParentOf(j) == Max({k \in DOMAIN Page : Page[k] \in Tag /\ j \in Inside(k)})
Concealed(j) == \E k \in DOMAIN Page : Page[k] = "hidden" /\ j \in Inside(k)

(* A page is one element, the body.  The parser makes no empty text node,  *)
(* and no small letter is empty.                                           *)
ASSUME PageAssumption ==
  /\ Page \in Seq(Tag \union {"close", "text"}) \ {<<>>}
  /\ Page[1] \in Tag /\ EndOf(1) = Len(Page) /\ Page[Len(Page)] = "close"
  /\ Original \in [Texts -> Seq(Char) \ {<<>>}]
ASSUME LowerAssumption == Lower \in [Char -> Seq(Char) \ {<<>>}]
(* The loop of highlight finds an empty keyword for ever.                  *)
ASSUME KeywordAssumption ==
  /\ Keyword \subseteq Seq(Char) \ {<<>>}
  /\ Quoted \subseteq Keyword /\ NoKeyword \notin Keyword
ASSUME MaxCutsAssumption == MaxCuts \in Nat

VARIABLES
  pieces,   \* per run, its text nodes and marks
  count,    \* MyApp_SearchResultCount
  phase,    \* "idle", "removing", "marking", or "stopped" while removing
  keyword,  \* the keyword of the call that runs or, to its end, ran last
  token,    \* where the walk is in the page
  child,    \* and the child it is at there
  element,  \* highlight: the text node at hand, split off from that child
  dirty,    \* remove: the elements whose `normalize' is set
  cuts      \* the scripts stopped while they unwrapped marks

vars == <<pieces, count, phase, keyword, token, child, element, dirty, cuts>>
walk == <<token, child, element>>

Piece == [text : Seq(Char), mark : BOOLEAN]
Node(text) == [text |-> text, mark |-> FALSE]
Mark(text) == [text |-> text, mark |-> TRUE]

InitialPieces == [k \in Texts |-> <<Node(Original[k])>>]

TextOf(run) == FlattenSeq([i \in DOMAIN run |-> run[i].text])
Lowercase(s) == FlattenSeq([i \in DOMAIN s |-> Lower[s[i]]])

(* indexOf, from 1.                                                        *)
Occurrences(word, s) ==
  {i \in 1..(Len(s) - Len(word) + 1) : SubSeq(s, i, i + Len(word) - 1) = word}

TypeOK ==
  /\ pieces \in [Texts -> Seq(Piece)]
  /\ count \in Nat
  /\ phase \in {"idle", "removing", "marking", "stopped"}
  /\ keyword \in Keyword \union {NoKeyword}
  /\ token \in 0..Len(Page)
  /\ child \in Nat
  /\ element \in Nat
  /\ dirty \subseteq {k \in DOMAIN Page : Page[k] \in Tag}
  /\ cuts \in 0..MaxCuts

Init ==
  /\ pieces = InitialPieces
  /\ count = 0
  /\ phase = "idle"
  /\ keyword = NoKeyword
  /\ token = 0 /\ child = 0 /\ element = 0
  /\ dirty = {}
  /\ cuts = 0

(***************************************************************************)
(* The walks: from the last child of the body to the first.                *)
(***************************************************************************)
(* The children of the run at k that the walk is to see.                   *)
ToSee(k) ==
  IF k \notin Texts \/ (phase' = "marking" /\ Concealed(k)) THEN 0 ELSE Len(pieces'[k])

EnterAt(k) ==
  /\ token' = k
  /\ child' = ToSee(k)
  /\ element' = child'

Start ==
  /\ count' = 0
  /\ phase' = "removing"
  /\ dirty' = {}
  /\ UNCHANGED <<pieces, cuts>>
  /\ EnterAt(Len(Page))

Returned == phase \in {"idle", "stopped"}

(* highlightAllOccurencesOfString loads the script, which counts from 0,   *)
(* and calls it; it first removes all highlights.                          *)
Search ==
  /\ Returned
  /\ keyword' \in Keyword \ Quoted
  /\ Start

(* A call that does not parse does nothing, but the script was loaded.     *)
SearchQuoted ==
  /\ Returned
  /\ keyword' \in Quoted
  /\ count' = 0
  /\ UNCHANGED <<pieces, phase, walk, dirty, cuts>>

(* Faulty variant: the count of the last search stays.                     *)
RemoveAllCounting ==
  /\ Returned
  /\ keyword' = NoKeyword
  /\ phase' = "removing"
  /\ dirty' = {}
  /\ UNCHANGED <<pieces, cuts, count>>
  /\ EnterAt(Len(Page))

(* removeAllHighlights.                                                    *)
RemoveAll ==
  /\ Returned
  /\ keyword' = NoKeyword
  /\ Start

(***************************************************************************)
(* RemoveAllHighlightsForElement.                                          *)
(***************************************************************************)
(* A mark gives its text node back to its parent.                          *)
RemoveChild ==
  /\ phase = "removing" /\ child > 0
  /\ IF pieces[token][child].mark
     THEN /\ pieces' = [pieces EXCEPT ![token][child].mark = FALSE]
          /\ dirty' = dirty \union {ParentOf(token)}
     ELSE UNCHANGED <<pieces, dirty>>
  /\ child' = child - 1
  /\ UNCHANGED <<count, phase, keyword, token, element, cuts>>

(* normalize joins all text nodes under an element, which has no mark left.*)
Normalised(k) ==
  [j \in Texts |->
     IF j \notin Inside(k) THEN pieces[j]
     ELSE IF TextOf(pieces[j]) = <<>> THEN <<>>
     ELSE <<Node(TextOf(pieces[j]))>>]

(* Faulty variant: the text nodes are left as they are.                    *)
RemoveLeaveSplit ==
  /\ phase = "removing" /\ child = 0 /\ token > 1
  /\ UNCHANGED <<pieces, count, phase, keyword, dirty, cuts>>
  /\ EnterAt(token - 1)

(* The walk is past all children of a run, or at a tag: it is done with    *)
(* the element that starts there, or comes to the last child of the one    *)
(* that ends there.                                                        *)
RemoveLeave ==
  /\ phase = "removing" /\ child = 0 /\ token > 1
  /\ pieces' = IF token \in dirty THEN Normalised(token) ELSE pieces
  /\ UNCHANGED <<count, phase, keyword, dirty, cuts>>
  /\ EnterAt(token - 1)

(* The body is left, and the search can start or the call returns.         *)
RemoveLeaveBody ==
  /\ phase = "removing" /\ child = 0 /\ token = 1
  /\ pieces' = IF token \in dirty THEN Normalised(token) ELSE pieces
  /\ phase' = IF keyword = NoKeyword THEN "idle" ELSE "marking"
  /\ EnterAt(IF keyword = NoKeyword THEN 0 ELSE Len(Page))
  /\ UNCHANGED <<count, keyword, dirty, cuts>>

(***************************************************************************)
(* HighlightAllOccurencesOfStringForElement.                               *)
(***************************************************************************)
LowerKeyword == Lowercase(keyword)
Value == pieces[token][element].text
Found == Occurrences(LowerKeyword, Lowercase(Value))
Marking == phase = "marking" /\ child > 0

(* Faulty variant: the node behind the mark starts a character too late.   *)
SplitAtLate(i) ==
  LET n == Len(LowerKeyword)
      len == Len(Value) IN
  <<Node(SubSeq(Value, 1, i - 1)), Mark(SubSeq(Value, i, Min({i + n - 1, len}))),
    Node(SubSeq(Value, i + n + 1, len))>>

(* The node at hand ends before the occurrence; a mark and a new text node *)
(* go behind it, and the new node is next.                                 *)
SplitAt(i) ==
  LET n == Len(LowerKeyword)
      len == Len(Value) IN
  <<Node(SubSeq(Value, 1, i - 1)), Mark(SubSeq(Value, i, Min({i + n - 1, len}))),
    Node(SubSeq(Value, i + n, len))>>

Splice(run, i, new) == SubSeq(run, 1, i - 1) \o new \o SubSeq(run, i + 1, Len(run))

Highlight ==
  /\ Marking
  /\ Found # {} /\ Min(Found) <= Len(Value) + 1
  /\ pieces' = [pieces EXCEPT ![token] = Splice(@, element, SplitAt(Min(Found)))]
  /\ element' = element + 2
  /\ count' = count + 1
  /\ UNCHANGED <<phase, keyword, token, child, dirty, cuts>>

(* The lowercased text is longer than the text, and the occurrence is      *)
(* behind its end: deleteData raises and the script is over.               *)
HighlightRaises ==
  /\ Marking
  /\ Found # {} /\ Min(Found) > Len(Value) + 1
  /\ phase' = "idle"
  /\ keyword' = NoKeyword
  /\ token' = 0 /\ child' = 0 /\ element' = 0
  /\ UNCHANGED <<pieces, count, dirty, cuts>>

(* Faulty variant: the loop stays at the first child.                      *)
HighlightNextStuck ==
  /\ Marking /\ Found = {}
  /\ child > 1
  /\ child' = child - 1
  /\ element' = child'
  /\ UNCHANGED <<pieces, count, phase, keyword, token, dirty, cuts>>

(* The keyword is not found, or not any more.                              *)
HighlightNext ==
  /\ Marking /\ Found = {}
  /\ child' = child - 1
  /\ element' = child'
  /\ UNCHANGED <<pieces, count, phase, keyword, token, dirty, cuts>>

(* Faulty variant: the walk goes on before the first child of the body.    *)
HighlightLeaveOn ==
  /\ phase = "marking" /\ child = 0
  /\ UNCHANGED <<pieces, count, phase, keyword, dirty, cuts>>
  /\ EnterAt(token - 1)

HighlightLeave ==
  /\ phase = "marking" /\ child = 0
  /\ phase' = IF token = 1 THEN "idle" ELSE "marking"
  /\ UNCHANGED <<pieces, count, keyword, dirty, cuts>>
  /\ EnterAt(token - 1)

(* The script has taken too long and is stopped.                           *)
Stop ==
  /\ \/ phase = "removing" /\ cuts < MaxCuts /\ phase' = "stopped" /\ cuts' = cuts + 1
     \/ phase = "marking" /\ phase' = "idle" /\ UNCHANGED cuts
  /\ keyword' = NoKeyword
  /\ token' = 0 /\ child' = 0 /\ element' = 0
  /\ UNCHANGED <<pieces, count, dirty>>

ScriptStep ==
  \/ RemoveChild \/ RemoveLeave \/ RemoveLeaveBody
  \/ Highlight \/ HighlightRaises \/ HighlightNext \/ HighlightLeave

Next == Search \/ SearchQuoted \/ RemoveAll \/ ScriptStep \/ Stop

Spec == Init /\ [][Next]_vars

(* A script that was started runs.                                         *)
FairSpec == Spec /\ WF_vars(ScriptStep)

-----------------------------------------------------------------------------
(* No search, raised, stopped or repeated, loses, doubles or moves a       *)
(* character of the mail.                                                  *)
TextIsKept == \A k \in Texts : TextOf(pieces[k]) = Original[k]

MarksOf(k) == {i \in DOMAIN pieces[k] : pieces[k][i].mark}
Marks == UNION {{k} \X MarksOf(k) : k \in Texts}

(* "store the number of occurrences": whatever was searched for before,    *)
(* the number the caller is given is that of the marks on the page, unless *)
(* the script was stopped before it had removed the old ones or the last   *)
(* call was none.                                                          *)
CountIsMarks ==
  phase \in {"idle", "marking"} /\ keyword \notin Quoted => count = Cardinality(Marks)

SearchHasEnded == phase = "idle" /\ keyword \in Keyword \ Quoted

(* The runs where toLowerCase keeps the length of the text.                *)
Even == {k \in Texts : \A c \in Range(Original[k]) : Len(Lower[c]) = 1}

(* What a page that was never searched would show for a keyword, from the  *)
(* i-th character of a text on: the leftmost occurrence is marked, then    *)
(* the leftmost behind it.                                                 *)
SearchedFrom(word, s) ==
  LET from[i \in 1..(Len(s) + 1)] ==
        LET rest == SubSeq(s, i, Len(s))
            found == Occurrences(word, Lowercase(rest))
            m == Min(found) IN
        IF found = {} THEN <<Node(rest)>>
        ELSE <<Node(SubSeq(rest, 1, m - 1)), Mark(SubSeq(rest, m, m + Len(word) - 1))>>
               \o from[i + m - 1 + Len(word)]
  IN from

Searched(word, s) == SearchedFrom(word, s)[1]

(* A search that ends shows just what it would on the page as it was       *)
(* loaded: nothing is left of earlier searches, though they cut the text   *)
(* apart where the keyword may be, and though some of them raised or were  *)
(* stopped while marking.                                                  *)
SearchForgetsSearches ==
  SearchHasEnded /\ cuts = 0 =>
    \A k \in Even :
      pieces[k] = IF Concealed(k) THEN <<Node(Original[k])>>
                  ELSE Searched(LowerKeyword, Original[k])

(* A removal that ends has removed every mark, whatever was stopped        *)
(* before, and if nothing was, the page is as it was loaded.               *)
RemovalIsComplete ==
  [][RemoveLeaveBody =>
       /\ \A k \in Texts : MarksOf(k)' = {}
       /\ cuts = 0 => pieces' = InitialPieces]_vars

(* Every script ends: each round of the loops has less text before it.     *)
SearchEnds == ~Returned ~> Returned
=============================================================================
