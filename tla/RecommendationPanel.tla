------------------------- MODULE RecommendationPanel -------------------------
(***************************************************************************)
(* The panel of DetailViewController that slides in from the right, and    *)
(* its button.  Showing is a block sent to the main queue; hiding happens  *)
(* in the call.  Both move the panel by its width from wherever it is, and *)
(* recommendationHidden is read when the button is touched but written     *)
(* when the panel is moved.                                                *)
(***************************************************************************)
EXTENDS Integers

CONSTANTS
  MaxShift,  \* bound: the button is touched only this far from the edge
  MaxBlocks  \* bound: and with fewer blocks than this on their way

ASSUME BoundsAssumption == MaxShift \in Nat /\ MaxBlocks \in Nat

VARIABLES
  flag,    \* recommendationHidden: "hidden" or "shown"
  shift,   \* how many of its widths the panel is left of its first place
  button,  \* "plain", or "selected" as when it will hide the panel
  blocks,  \* blocks of showRecommendationView not yet run
  user     \* "hasty" once the button was touched with a block on its way

vars == <<flag, shift, button, blocks, user>>

TypeOK ==
  /\ flag \in {"hidden", "shown"}
  /\ shift \in Nat
  /\ button \in {"plain", "selected"}
  /\ blocks \in Nat
  /\ user \in {"patient", "hasty"}

(* viewDidLoad.                                                            *)
Init ==
  /\ flag = "hidden"
  /\ shift = 0
  /\ button = "plain"
  /\ blocks = 0
  /\ user = "patient"

(* Faulty variant: the flag is forgotten.                                  *)
HideUnflagged ==
  /\ shift' = shift - 1
  /\ button' = "plain"
  /\ UNCHANGED <<flag, blocks>>

Hide ==
  /\ flag' = "hidden"
  /\ shift' = shift - 1
  /\ button' = "plain"
  /\ UNCHANGED blocks

(* touchRecommendation.                                                    *)
Touch ==
  /\ shift + blocks < MaxShift /\ blocks < MaxBlocks
  /\ user' = IF blocks > 0 THEN "hasty" ELSE user
  /\ \/ /\ flag = "hidden"
        /\ button' = "selected"
        /\ blocks' = blocks + 1
        /\ UNCHANGED <<flag, shift>>
     \/ /\ flag = "shown"
        /\ Hide

(* The block of showRecommendationView.                                    *)
Show ==
  /\ blocks > 0
  /\ blocks' = blocks - 1
  /\ shift' = shift + 1
  /\ flag' = "shown"
  /\ UNCHANGED <<button, user>>

(* Faulty variant: the panel is hidden without asking.                     *)
ConfigureUnguarded ==
  /\ Hide
  /\ UNCHANGED user

(* configureView: another mail hides the panel.                            *)
Configure ==
  /\ flag = "shown"
  /\ Hide
  /\ UNCHANGED user

Next == Touch \/ Show \/ Configure

Spec == Init /\ [][Next]_vars

-----------------------------------------------------------------------------
Place == IF flag = "hidden" THEN 0 ELSE 1

(* How far the panel is from where its flag says it is.                    *)
Drift == shift - Place

(* As long as no touch comes while a block is on its way, the panel is     *)
(* where its flag says it is, and when no block is on its way the button   *)
(* looks like it too, whenever other mails are chosen.                     *)
PanelMatchesFlag ==
  user = "patient" =>
    /\ Drift = 0
    /\ blocks = 0 => (button = "plain" <=> flag = "hidden")
    /\ blocks > 0 => blocks = 1 /\ flag = "hidden" /\ button = "selected"

(* The panel is never right of its first place, where no touch reaches it. *)
PanelStaysReachable == Drift >= 0

(* A hasty touch is not forgiven: once the panel is off its place, no      *)
(* touch and no other mail brings it back.                                 *)
DriftIsForGood == [][Drift' >= Drift]_vars
=============================================================================
