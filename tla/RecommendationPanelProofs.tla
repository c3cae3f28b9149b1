---------------------- MODULE RecommendationPanelProofs ----------------------
(***************************************************************************)
(* The properties of RecommendationPanel hold for every number of blocks   *)
(* and every shift: each is inductive together with the types.             *)
(***************************************************************************)
EXTENDS RecommendationPanel, TLAPS

IInv ==
  /\ TypeOK
  /\ PanelStaysReachable
  /\ PanelMatchesFlag

LEMMA InitIInv == Init => IInv
  BY DEF Init, IInv, TypeOK, PanelStaysReachable, PanelMatchesFlag, Drift, Place

LEMMA NextIInv == IInv /\ [Next]_vars => IInv'
<1> SUFFICES ASSUME IInv, [Next]_vars PROVE IInv'
  OBVIOUS
<1> USE DEF IInv, TypeOK, PanelStaysReachable, PanelMatchesFlag, Drift, Place
<1>1. CASE Touch
  BY <1>1 DEF Touch, Hide
<1>2. CASE Show
  BY <1>2 DEF Show
<1>3. CASE Configure
  BY <1>3 DEF Configure, Hide
<1>4. CASE UNCHANGED vars
  BY <1>4 DEF vars
<1> QED
  BY <1>1, <1>2, <1>3, <1>4 DEF Next

LEMMA Invariant == Spec => []IInv
  BY InitIInv, NextIInv, PTL DEF Spec

(* Every variable keeps its type.                                          *)
THEOREM TypeCorrect == Spec => []TypeOK
<1>1. IInv => TypeOK
  BY DEF IInv
<1> QED
  BY <1>1, Invariant, PTL

(* Whatever is touched and chosen, and whenever the blocks run, the panel  *)
(* is where its flag says it is until somebody touches the button while a  *)
(* block is on its way.                                                    *)
THEOREM FlagMatched == Spec => []PanelMatchesFlag
<1>1. IInv => PanelMatchesFlag
  BY DEF IInv
<1> QED
  BY <1>1, Invariant, PTL

(* The panel is never to the right of where it began.                      *)
THEOREM Reachable == Spec => []PanelStaysReachable
<1>1. IInv => PanelStaysReachable
  BY DEF IInv
<1> QED
  BY <1>1, Invariant, PTL

(* No step brings a panel that is off its place back towards it.           *)
THEOREM ForGood == Spec => DriftIsForGood
<1>1. IInv /\ [Next]_vars => [Drift' >= Drift]_vars
  <2> SUFFICES ASSUME IInv, [Next]_vars PROVE [Drift' >= Drift]_vars
    OBVIOUS
  <2> USE DEF IInv, TypeOK, Drift, Place
  <2>1. CASE Touch
    BY <2>1 DEF Touch, Hide
  <2>2. CASE Show
    BY <2>2 DEF Show
  <2>3. CASE Configure
    BY <2>3 DEF Configure, Hide
  <2>4. CASE UNCHANGED vars
    BY <2>4 DEF vars
  <2> QED
    BY <2>1, <2>2, <2>3, <2>4 DEF Next
<1> QED
  BY <1>1, Invariant, PTL DEF Spec, DriftIsForGood
=============================================================================
