--------------------------- MODULE ApprovalPromise ---------------------------
(***************************************************************************)
(* What the approval queue promises, to the tool call that asks and to the *)
(* owner who reads the history afterwards.                                 *)
(*                                                                         *)
(* A request is opened, gets one ruling that never changes, and only then  *)
(* gets one reply.  The reply is the ruling, or a refusal: nothing but the *)
(* ruling itself may ever come back as an approval.                        *)
(***************************************************************************)
CONSTANT Asks

VARIABLES ruling,   \* what the history shows for a request
          reply     \* what ask() returned to the caller

Approved == {"once", "session", "remember"}
Refused  == {"deny", "timed_out", "rate_limited"}
Outcomes == Approved \cup Refused

vars == <<ruling, reply>>

Init == /\ ruling = [a \in Asks |-> "none"]
        /\ reply  = [a \in Asks |-> "none"]

Open(a) == /\ ruling[a] = "none"
           /\ ruling' = [ruling EXCEPT ![a] = "open"]
           /\ UNCHANGED reply

(* A flood is ruled out and answered in one step: it is never shown.       *)
TurnAway(a) == /\ ruling[a] = "none"
               /\ ruling' = [ruling EXCEPT ![a] = "rate_limited"]
               /\ reply'  = [reply EXCEPT ![a] = "rate_limited"]

Rule(a, o) == /\ ruling[a] = "open"
              /\ ruling' = [ruling EXCEPT ![a] = o]
              /\ UNCHANGED reply

Reply(a) == /\ reply[a] = "none"
            /\ ruling[a] \in Outcomes
            /\ reply' = [reply EXCEPT ![a] = ruling[a]]
            /\ UNCHANGED ruling

(* The caller stops waiting: an open request is ruled a refusal, and one   *)
(* that was just ruled keeps its ruling although the reply is a refusal.   *)
GiveUp(a, o) ==
  /\ reply[a] = "none"
  /\ ruling[a] # "none"
  /\ ruling' = [ruling EXCEPT ![a] = IF @ = "open" THEN o ELSE @]
  /\ reply'  = [reply EXCEPT ![a] = o]

Next == \E a \in Asks :
          \/ Open(a)
          \/ TurnAway(a)
          \/ \E o \in Outcomes : Rule(a, o)
          \/ Reply(a)
          \/ \E o \in Refused : GiveUp(a, o)

Answered(a) == Reply(a) \/ \E o \in Refused : GiveUp(a, o)

Spec == Init /\ [][Next]_vars

FairSpec == Spec /\ \A a \in Asks : WF_vars(Answered(a))
=============================================================================
