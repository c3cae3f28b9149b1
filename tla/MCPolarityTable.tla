--------------------------- MODULE MCPolarityTable ---------------------------
(***************************************************************************)
(* Instances of PolarityTable for TLC.                                     *)
(***************************************************************************)
EXTENDS PolarityTable

CONSTANTS good, bad, dull, odd

(* "odd" is in every list, and "bad" is in two.                            *)
MCPositivos == <<good, odd>>
MCNeutros   == <<dull, bad, odd>>
MCNegativos == <<odd, bad>>

MCBody == {<<good>>, <<good, odd, good>>, <<bad, good>>, <<odd, dull, bad>>}
=============================================================================
