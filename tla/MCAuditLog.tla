----------------------------- MODULE MCAuditLog -----------------------------
(* Small instances of AuditLog: the threads of one server, and a server     *)
(* with a command line beside it.                                           *)
EXTENDS AuditLog, TLC

CONSTANTS t1, t2, server, cli

OneServer == t1 :> server @@ t2 :> server
Beside    == t1 :> server @@ t2 :> cli
=============================================================================
