-------------------------- MODULE MCRecommendation --------------------------
(***************************************************************************)
(* Instances of Recommendation for TLC.                                    *)
(***************************************************************************)
EXTENDS Recommendation

CONSTANTS m1, m2

MCStored == <<m1, m2>>

(* They share a topic, and one has topic 0, which counts like the empty    *)
(* token of the other.                                                     *)
MCTokens == [m \in Mails |-> IF m = m1 THEN <<0, 1, EmptyToken>> ELSE <<1, EmptyToken>>]

(* All mails, or so few that the table raises.                             *)
MCAnswers == {Stored, <<m1>>}
=============================================================================
