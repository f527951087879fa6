------------------------------ MODULE MCCrash ------------------------------
(* Two requests on the tables of MCRestore, under the ends SrrCrash adds.     *)
EXTENDS MCRestore, SrrCrash
=============================================================================
