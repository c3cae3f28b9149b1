----------------------------- MODULE MCMailIndex -----------------------------
(***************************************************************************)
(* Instances of MailIndex for TLC.                                         *)
(***************************************************************************)
EXTENDS MailIndex

(* Categories differ in nothing but their names.                           *)
MCAlike == Permutations(Category)

OfFate(fates) == [body : Body, fate : fates]

(* Only messages that are indexed: what matters is which bodies repeat.    *)
MCIndexable == OfFate({"complete"})

(* The fates the loop tells apart: "unaddressed" goes the way of           *)
(* "untitled".                                                             *)
MCEveryFate == OfFate(Fate \ {"unaddressed"})
=============================================================================
