------------------------------ MODULE MCGateway ------------------------------
(* A small instance of Gateway: two conversations that ask for the same     *)
(* unlisted command, one of which also asks for another payload and for     *)
(* something forbidden, in a workspace that asks and in a read-only one.*)
EXTENDS Gateway, TLC

Req(session, tool, payload, tier) ==
  [session |-> session, tool |-> tool, op |-> "run", payload |-> payload, tier |-> tier,
   cmd |-> FALSE, cmdTier |-> READ, listed |-> FALSE, line |-> <<>>]

AskOne   == Req("s1", "shell", "p", EXEC_OTHER)
AskTwin  == Req("s2", "shell", "p", EXEC_OTHER)
AskOther == Req("s1", "shell", "q", EXEC_OTHER)
Wipe     == Req("s1", "shell", "w", FORBIDDEN)

Mixed == {AskOne, AskTwin, AskOther, Wipe}

ShopAndDocs == [shop |-> [mode |-> "auto_edit", push |-> FALSE],
                docs |-> [mode |-> "read_only", push |-> FALSE]]
Symmetry == Permutations(Calls)
=============================================================================
