------------------------------ MODULE MCDaemon ------------------------------
(* Two messages of any subject, one unknown, for SrrDaemon.                   *)
EXTENDS SrrDaemon

CONSTANTS u1, u2

MCSubject == {"list", "save", "restore", "reset", "status"}
=============================================================================
