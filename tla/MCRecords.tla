------------------------------ MODULE MCRecords ------------------------------
(* What the server keeps of what it did, each on a small instance: the     *)
(* journal, the files the tools change and the audit log.  None reads what *)
(* another keeps, so a behaviour moves one of them.                        *)
EXTENDS MCJournal, AuditLog, FileTools

CONSTANTS one, two, fresh, t1, t2, server

VARIABLE kept

KeptInit == /\ kept \in {"journal", "files", "audit"}
            /\ Init /\ FilesInit /\ AuditInit
            /\ kept # "journal" => use = AtOnce
            /\ kept # "files" => tree = CHOOSE start \in Starts : TRUE

KeptNext ==
  /\ UNCHANGED kept
  /\ \/ kept = "journal" /\ Next /\ UNCHANGED <<filesVars, auditVars>>
     \/ kept = "files" /\ FilesNext /\ UNCHANGED <<vars, auditVars>>
     \/ kept = "audit" /\ AuditNext /\ UNCHANGED <<vars, filesVars>>

KeptSpec == KeptInit /\ [][KeptNext]_<<kept, vars, filesVars, auditVars>>

(* Files for the tools: lines that repeat, blank lines, with and without   *)
(* the last newline, or empty; the other file absent.                      *)
Lined(text, ends) == [lines |-> text, ends |-> ends]

AllLines == {one, two, fresh, Blank, Theirs}

Olds == {Lined(<<>>, FALSE), Lined(<<Blank>>, TRUE), Lined(<<one, Blank>>, TRUE),
         Lined(<<one, two>>, FALSE), Lined(<<one, one>>, TRUE),
         Lined(<<one, two, one>>, TRUE), Lined(<<one, one, one>>, TRUE)}

FileAndNone == {f1 :> t @@ f2 :> NoFile : t \in Olds}

OurLines == {<<>>, <<one, fresh>>, <<Blank>>}
NewLine  == {<<one, fresh>>}

OneServer == t1 :> server @@ t2 :> server
=============================================================================
