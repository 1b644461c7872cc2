---------------------------- MODULE MCWebSession ----------------------------
(***************************************************************************)
(* Up to three boots, a ring of two bytes and one byte more than fits.     *)
(***************************************************************************)
EXTENDS WebSession

MCPatient == {}
MCKeys == {"keys"}
=============================================================================
