------------------------------ MODULE MCPrompts ------------------------------
(* What must come to its end on both sides of the notifier: the calls that *)
(* ask, and the prompts that are put up for them.  The queue is seen from  *)
(* the prompts only through what PromptWindows keeps of it, so a behaviour *)
(* moves one of the two.                                                   *)
EXTENDS MCApprovalQueue, PromptWindows

VARIABLE side

SidesInit == side \in {"queue", "prompts"} /\ Init /\ PromptInit

SidesNext ==
  /\ UNCHANGED side
  /\ \/ side = "queue" /\ Next /\ UNCHANGED promptVars
     \/ side = "prompts" /\ PromptNext /\ UNCHANGED vars

SidesSpec ==
  /\ SidesInit /\ [][SidesNext]_<<side, vars, promptVars>>
  /\ WF_vars(Tick)
  /\ \A a \in Asks : WF_vars(AskStep(a)) /\ WF_vars(SetEvent(a))
  /\ PromptFairness
=============================================================================
