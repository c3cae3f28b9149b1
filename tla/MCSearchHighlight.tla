-------------------------- MODULE MCSearchHighlight --------------------------
(***************************************************************************)
(* Instances of SearchHighlight for TLC.                                   *)
(***************************************************************************)
EXTENDS SearchHighlight

(* A body with a run in which "I" stands for the capital letter whose      *)
(* small letter is two, "i" and "^", and behind it an element with two     *)
(* runs and, between them, an element that hides one.                      *)
MCPage ==
  <<"open", "text", "open", "text", "hidden", "text", "close", "text", "close", "close">>
MCOriginal ==
  (2 :> <<"I", "I", "I", "a">>) @@ (4 :> <<"a", "B", "a", "b">>) @@ (6 :> <<"a">>)
  @@ (8 :> <<"b", "a", "a">>)
MCQuoted == {<<"a", "'">>}
MCKeyword == {<<"a">>, <<"A", "b">>, <<"a", "a">>, <<"I">>} \union MCQuoted
MCChar == {"a", "A", "b", "B", "I", "i", "^", "'"}
MCLower ==
  [c \in MCChar |-> CASE c = "A" -> <<"a">> [] c = "B" -> <<"b">> [] c = "I" -> <<"i", "^">>
                      [] OTHER -> <<c>>]
=============================================================================
