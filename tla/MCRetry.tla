------------------------------ MODULE MCRetry ------------------------------
(* Two requests, one after the other, on the tables of MCRestore.             *)
EXTENDS MCRestore, SrrRetry
=============================================================================
