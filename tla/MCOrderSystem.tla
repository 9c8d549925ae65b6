--------------------------- MODULE MCOrderSystem ----------------------------
(***************************************************************************)
(* The order pipeline for TLC.                                             *)
(***************************************************************************)
EXTENDS OrderProperties
===============================================================================
