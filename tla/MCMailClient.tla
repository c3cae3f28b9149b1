---------------------------- MODULE MCMailClient ----------------------------
(***************************************************************************)
(* Instances of MailClient for TLC.                                        *)
(***************************************************************************)
EXTENDS MailClient

CONSTANTS m1, m2, m3

MCStored == <<m1, m2, m3>>
=============================================================================
