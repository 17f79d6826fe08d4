---------------------------- MODULE MCEpicsLink ----------------------------
(* A small instance of EpicsLink, with a page that stays open, for TLC. *)
EXTENDS EpicsLink
=============================================================================
