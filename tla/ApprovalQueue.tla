---------------------------- MODULE ApprovalQueue ----------------------------
(***************************************************************************)
(* core/approvals.py: the queue that puts a request to the owner and       *)
(* blocks the calling thread until it is answered or expires.              *)
(*                                                                         *)
(* One element of Asks is one call of ask(), on its own worker thread, and *)
(* the request it builds.  Answers come from prompt windows and from the   *)
(* console, each on a thread of its own; the emergency stop runs deny_all  *)
(* on another.  A step is what runs between two acquisitions of the        *)
(* queue's lock, so the check of the rate limit, the insertion, the wait,  *)
(* the settlement and event.set() all interleave.                          *)
(*                                                                         *)
(* Time is kept as ages that saturate at the longest delay the code looks  *)
(* at, so that no bound on the clock is needed.                            *)
(***************************************************************************)
EXTENDS Naturals, Sequences, FiniteSets

CONSTANTS Asks,         \* calls of ask()
          Workers,      \* worker threads the server runs tool calls on
          RateLimit,    \* rate_limit_per_minute
          Minute,       \* the rate limit's window, in ticks
          Timeout,      \* timeout_sec, in ticks
          Interactive,  \* what the notifier may say when asked if it can prompt
          Choices       \* the answers somebody may choose

ASSUME AsksAssumption    == IsFiniteSet(Asks)
ASSUME WorkersAssumption == Workers \in Nat \ {0}
ASSUME LimitAssumption   == RateLimit \in Nat
ASSUME MinuteAssumption  == Minute \in Nat \ {0}
ASSUME TimeoutAssumption == Timeout \in Nat \ {0}
ASSUME InteractiveAssumption == Interactive \subseteq BOOLEAN
ASSUME ChoicesAssumption == Choices \subseteq {"once", "session", "remember", "deny"}

VARIABLES pc,        \* where each call of ask() stands
          age,       \* ticks since the call read the clock
          waited,    \* ticks since its event.wait() began
          pending,   \* _pending: the requests that can still be settled
          recent,    \* _recent: the requests whose stamps are kept
          history,   \* _history, request by request
          decision,  \* _Pending.decision
          event,     \* _Pending.event
          result,    \* what ask() returned
          sweep      \* deny_all: the ids it snapshotted, those still to do

vars == <<pc, age, waited, pending, recent, history, decision, event, result, sweep>>

Approved == {"once", "session", "remember"}
Outcome  == Approved \cup {"deny", "timed_out", "rate_limited"}

Stage == {"idle", "admitted", "refusing", "presenting", "waiting", "expired", "done"}

Horizon == IF Minute < Timeout THEN Timeout ELSE Minute

NoSweep == [on |-> FALSE, ids |-> {}, left |-> {}]

Init ==
  /\ pc       = [a \in Asks |-> "idle"]
  /\ age      = [a \in Asks |-> 0]
  /\ waited   = [a \in Asks |-> 0]
  /\ pending  = {}
  /\ recent   = {}
  /\ history  = [a \in Asks |-> <<>>]
  /\ decision = [a \in Asks |-> "none"]
  /\ event    = [a \in Asks |-> FALSE]
  /\ result   = [a \in Asks |-> "none"]
  /\ sweep    = NoSweep

InFlight == {a \in Asks : pc[a] \notin {"idle", "done"}}

-----------------------------------------------------------------------------
(* _settle: the first settlement of a request wins, a later one does       *)
(* nothing.  event.set() comes after the lock is released: SetEvent.       *)
Settle_Overwrites(a, o) ==
  /\ pending'  = pending \ {a}
  /\ decision' = [decision EXCEPT ![a] = o]
  /\ history'  = [history EXCEPT ![a] = Append(@, o)]

Settle(a, o) ==
  /\ pending'  = pending \ {a}
  /\ decision' = [decision EXCEPT ![a] = IF a \in pending THEN o ELSE @]
  /\ history'  = [history EXCEPT ![a] = IF a \in pending THEN Append(@, o) ELSE @]

(* The stamps _rate_limited keeps: those of the last minute.               *)
Fresh == {a \in recent : age[a] < Minute}

(* _rate_limited: the limit is reached.                                    *)
RateLimited_OffByOne == Cardinality(Fresh) > RateLimit

RateLimited == Cardinality(Fresh) >= RateLimit

-----------------------------------------------------------------------------
(* ask, up to the check of the rate limit.  Past the limit the request is  *)
(* recorded and refused without ever being shown.                          *)
Begin(a) ==
  /\ pc[a] = "idle"
  /\ Cardinality(InFlight) < Workers
  /\ recent' = Fresh
  /\ \/ /\ RateLimited
        /\ pc'      = [pc EXCEPT ![a] = "done"]
        /\ history' = [history EXCEPT ![a] = Append(@, "rate_limited")]
        /\ result'  = [result EXCEPT ![a] = "rate_limited"]
     \/ /\ ~RateLimited
        /\ pc' = [pc EXCEPT ![a] = "admitted"]
        /\ UNCHANGED <<history, result>>
  /\ UNCHANGED <<age, waited, pending, decision, event, sweep>>

(* The second acquisition of the lock: the request becomes visible and its *)
(* stamp is counted only now, after the check.                             *)
Enqueue_NoStamp(a) ==
  /\ pc[a] = "admitted"
  /\ pending' = pending \cup {a}
  /\ \E yes \in Interactive :
       pc' = [pc EXCEPT ![a] = IF yes THEN "presenting" ELSE "refusing"]
  /\ UNCHANGED <<age, waited, recent, history, decision, event, result, sweep>>

Enqueue(a) ==
  /\ pc[a] = "admitted"
  /\ pending' = pending \cup {a}
  /\ recent'  = recent \cup {a}
  /\ \E yes \in Interactive :
       pc' = [pc EXCEPT ![a] = IF yes THEN "presenting" ELSE "refusing"]
  /\ UNCHANGED <<age, waited, history, decision, event, result, sweep>>

(* No prompt can appear: refuse at once, whatever was settled meanwhile.   *)
RefuseUnattended(a) ==
  /\ pc[a] = "refusing"
  /\ Settle(a, "deny")
  /\ event'  = [event EXCEPT ![a] = @ \/ a \in pending]
  /\ result' = [result EXCEPT ![a] = "deny"]
  /\ pc'     = [pc EXCEPT ![a] = "done"]
  /\ UNCHANGED <<age, waited, recent, sweep>>

(* notifier.present, then event.wait begins.                               *)
Present(a) ==
  /\ pc[a] = "presenting"
  /\ pc' = [pc EXCEPT ![a] = "waiting"]
  /\ UNCHANGED <<age, waited, pending, recent, history, decision, event, result, sweep>>

(* event.wait returns True.                                                *)
Wake(a) ==
  /\ pc[a] = "waiting"
  /\ event[a]
  /\ result' = [result EXCEPT ![a] = decision[a]]
  /\ pc'     = [pc EXCEPT ![a] = "done"]
  /\ UNCHANGED <<age, waited, pending, recent, history, decision, event, sweep>>

WaitExpires_OnceSettled(a) ==
  /\ pc[a] = "waiting"
  /\ ~event[a]
  /\ waited[a] >= Timeout /\ a \notin pending
  /\ pc' = [pc EXCEPT ![a] = "expired"]
  /\ UNCHANGED <<age, waited, pending, recent, history, decision, event, result, sweep>>

(* event.wait returns False, and the prompt is withdrawn.                  *)
WaitExpires(a) ==
  /\ pc[a] = "waiting"
  /\ ~event[a]
  /\ waited[a] >= Timeout
  /\ pc' = [pc EXCEPT ![a] = "expired"]
  /\ UNCHANGED <<age, waited, pending, recent, history, decision, event, result, sweep>>

(* The timed-out branch settles its own request, ignores whether somebody  *)
(* else had settled it, and returns TIMED_OUT either way.                  *)
GiveUp_NoSettle(a) ==
  /\ pc[a] = "expired"
  /\ result' = [result EXCEPT ![a] = "timed_out"]
  /\ pc'     = [pc EXCEPT ![a] = "done"]
  /\ UNCHANGED <<age, waited, pending, recent, history, decision, event, sweep>>

GiveUp_Approves(a) ==
  /\ pc[a] = "expired"
  /\ Settle(a, "timed_out")
  /\ event'  = [event EXCEPT ![a] = @ \/ a \in pending]
  /\ result' = [result EXCEPT ![a] = "once"]
  /\ pc'     = [pc EXCEPT ![a] = "done"]
  /\ UNCHANGED <<age, waited, recent, sweep>>

GiveUp(a) ==
  /\ pc[a] = "expired"
  /\ Settle(a, "timed_out")
  /\ event'  = [event EXCEPT ![a] = @ \/ a \in pending]
  /\ result' = [result EXCEPT ![a] = "timed_out"]
  /\ pc'     = [pc EXCEPT ![a] = "done"]
  /\ UNCHANGED <<age, waited, recent, sweep>>

-----------------------------------------------------------------------------
(* respond and _respond: the owner answers from the console or a window.   *)
(* An answer to a request that is no longer pending changes nothing.       *)
Respond(a, o) ==
  /\ a \in pending
  /\ Settle(a, o)
  /\ UNCHANGED <<pc, age, waited, recent, event, result, sweep>>

(* The window's own countdown reached expires_at.                          *)
WindowExpires(a) ==
  /\ pc[a] \in {"waiting", "expired"}
  /\ a \in pending
  /\ age[a] >= Timeout
  /\ Settle(a, "timed_out")
  /\ UNCHANGED <<pc, age, waited, recent, event, result, sweep>>

(* The end of _settle, on whichever thread popped the request.             *)
SetEvent(a) ==
  /\ decision[a] # "none"
  /\ ~event[a]
  /\ event' = [event EXCEPT ![a] = TRUE]
  /\ UNCHANGED <<pc, age, waited, pending, recent, history, decision, result, sweep>>

(* deny_all: snapshot the ids under the lock, then settle them one by one. *)
DenyAll ==
  /\ ~sweep.on
  /\ sweep' = [on |-> TRUE, ids |-> pending, left |-> pending]
  /\ UNCHANGED <<pc, age, waited, pending, recent, history, decision, event, result>>

DenyOne(a) ==
  /\ a \in sweep.left
  /\ Settle(a, "deny")
  /\ sweep' = [sweep EXCEPT !.left = @ \ {a}]
  /\ UNCHANGED <<pc, age, waited, recent, event, result>>

DenyAllReturns ==
  /\ sweep.on
  /\ sweep.left = {}
  /\ sweep' = NoSweep
  /\ UNCHANGED <<pc, age, waited, pending, recent, history, decision, event, result>>

(* The clock.                                                              *)
Tick ==
  /\ age'    = [a \in Asks |-> IF pc[a] # "idle" /\ age[a] < Horizon
                               THEN age[a] + 1 ELSE age[a]]
  /\ waited' = [a \in Asks |-> IF pc[a] = "waiting" /\ waited[a] < Timeout
                               THEN waited[a] + 1 ELSE waited[a]]
  /\ UNCHANGED <<pc, pending, recent, history, decision, event, result, sweep>>

-----------------------------------------------------------------------------
(* What ask() does by itself, without anyone answering.                    *)
AskStep(a) == \/ Enqueue(a) \/ RefuseUnattended(a) \/ Present(a)
              \/ Wake(a)    \/ WaitExpires(a)      \/ GiveUp(a)

Next ==
  \/ \E a \in Asks :
       \/ Begin(a)
       \/ AskStep(a)
       \/ \E o \in Choices : Respond(a, o)
       \/ WindowExpires(a)
       \/ SetEvent(a)
       \/ DenyOne(a)
  \/ DenyAll
  \/ DenyAllReturns
  \/ Tick

Spec == Init /\ [][Next]_vars

(* Threads that can run do run, and time passes.  Nobody has to answer,    *)
(* nobody has to press stop, and no tool has to be called.                 *)
FairSpec == /\ Spec
            /\ WF_vars(Tick)
            /\ \A a \in Asks : WF_vars(AskStep(a)) /\ WF_vars(SetEvent(a))

-----------------------------------------------------------------------------
TypeOK ==
  /\ pc       \in [Asks -> Stage]
  /\ age      \in [Asks -> 0 .. Horizon]
  /\ waited   \in [Asks -> 0 .. Timeout]
  /\ pending  \subseteq Asks
  /\ recent   \subseteq Asks
  /\ history  \in [Asks -> Seq(Outcome)]
  /\ decision \in [Asks -> Outcome \cup {"none"}]
  /\ event    \in [Asks -> BOOLEAN]
  /\ result   \in [Asks -> Outcome \cup {"none"}]
  /\ sweep    \in [on : BOOLEAN, ids : SUBSET Asks, left : SUBSET Asks]

(* A request is settled once, however the timeout, the window, the console *)
(* and the emergency stop race for it, and one whose caller has gone is    *)
(* no longer offered for an answer (approvals.py:230-238).                 *)
SettledOnce ==
  \A a \in Asks : /\ Len(history[a]) <= 1
                  /\ (Len(history[a]) = 1 \/ pc[a] = "done") => a \notin pending

(* The queue fails closed: a call that came back approved is one that the  *)
(* history shows approved, with the same outcome and no other.             *)
ApprovedIsRecorded ==
  \A a \in Asks : result[a] \in Approved => history[a] = <<result[a]>>

(* The rate limit is checked in one critical section and counted in        *)
(* another, so concurrent calls overrun it, but never by more than the     *)
(* calls that were between the two (approvals.py:145-164).                 *)
BurstBound == Cardinality(Fresh) <= RateLimit + Workers - 1

(* Every call of ask() returns, whether or not anybody answers.            *)
AskReturns == \A a \in Asks : pc[a] # "idle" ~> pc[a] = "done"

(* What the module docstring says of a flood: past the limit, requests are *)
(* refused instead of asked (approvals.py:10-12).                          *)
FloodRefused == Cardinality(Fresh) <= RateLimit

(* What respond() says: its answer is accepted only while the request is   *)
(* still pending, so an accepted answer is what the caller gets            *)
(* (approvals.py:226-228).                                                 *)
AcceptedAnswerCounts ==
  \A a \in Asks : result[a] # "none" => history[a] = <<result[a]>>

-----------------------------------------------------------------------------
(* The promise, as the history and the callers see it.                     *)
Ruling == [a \in Asks |-> IF history[a] # <<>> THEN history[a][1]
                          ELSE IF a \in pending THEN "open" ELSE "none"]

Promise == INSTANCE ApprovalPromise WITH ruling <- Ruling, reply <- result

KeepsPromise == Promise!FairSpec
=============================================================================
