------------------------------ MODULE MCJournal ------------------------------
(* Small instances of Journal: two tools of one server, which share a       *)
(* Journal object.  One file is there at first, the other is not.           *)
EXTENDS Journal, TLC

CONSTANTS w1, w2, j1, f1, f2, before, after, part

Alone   == w1 :> j1
Sharing == w1 :> j1 @@ w2 :> j1

OldAndNone == f1 :> before @@ f2 :> Absent

(* One operation at a time, two files, edits, undos and failures.           *)
Steady == [overlap |-> FALSE, limit |-> 20, files |-> {f1, f2}, ids |-> 5, users |-> 0, crashes |-> 0]

(* Retention, a crash and edits by hand between the operations.             *)
Pruned == [overlap |-> FALSE, limit |-> 2, files |-> {f1}, ids |-> 4, users |-> 1, crashes |-> 1]

(* Room for every pre-image, a crash at any step and an edit by hand.       *)
CutShort == [overlap |-> FALSE, limit |-> 20, files |-> {f1}, ids |-> 3, users |-> 1, crashes |-> 1]

(* Overlapping operations and a crash.                                      *)
AtOnce == [overlap |-> TRUE, limit |-> 6, files |-> {f1}, ids |-> 2, users |-> 0, crashes |-> 1]

Symmetry == Permutations({w1, w2})

EveryUse   == {Steady, Pruned, CutShort, AtOnce}
PrunedOnly == {Pruned}
AtOnceOnly == {AtOnce}
=============================================================================
