------------------------------ MODULE MCMigrate ------------------------------
(***************************************************************************)
(* Three instances of a rolling deployment: one of the old release, which  *)
(* embeds one migration, and two of the new, which embed two.              *)
(***************************************************************************)
EXTENDS Migrate

CONSTANTS old, new1, new2

MCInstances == {old, new1, new2}
MCEmbedded == [i \in MCInstances |-> IF i = old THEN 1 ELSE 2]
===============================================================================
