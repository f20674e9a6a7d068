-------------------------- MODULE MCAuthorization --------------------------
(* The two halves of the authorization server, each on a small instance:   *)
(* the pairing code with its lockout, and the store of clients and tokens, *)
(* the store thrice: for a single client, with one page open at a time and *)
(* in no time; for a client that is not forgotten while others are, with   *)
(* no restart either; and for all clients, the command line and MaxShared  *)
(* numbers drawn (in no time where the command line is used).  Saves do    *)
(* not overlap in the last two.  Neither half reads what the other keeps,  *)
(* so a behaviour moves one of them.                                       *)
EXTENDS AuthStore, PairingCode, TLC

CONSTANT MaxShared

VARIABLE half

BothInit == /\ half \in {"single", "pair", "shared", "pairing"}
            /\ Init /\ PairingInit
            /\ half # "shared" => cli = Unused

Dropped == gone \cup failed \cup forgetting

Bounded ==
  /\ half = "single" => Cardinality(clients \cup Dropped) <= 1
  /\ half = "pair"   => paired \cap Dropped = {} /\ restarts = 0
  /\ half \in {"single", "pair"} => Cardinality(consents) <= 1 /\ now = 0
  /\ half = "shared" => serial <= MaxShared /\ (cli # Unused => now = 0)
  /\ half # "single" => ~crossed

BothNext == /\ UNCHANGED half
            /\ \/ half # "pairing" /\ Next /\ UNCHANGED pairingVars /\ Bounded'
               \/ half = "pairing" /\ PairingNext /\ UNCHANGED vars

BothSpec == BothInit /\ [][BothNext]_<<half, pairingVars, vars>>

Symmetry == Permutations(Clients) \cup Permutations(Handlers)
=============================================================================
