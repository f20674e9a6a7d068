------------------------------- MODULE Gateway -------------------------------
(***************************************************************************)
(* core/gateway.py with what it composes: the judgement of core/policy,    *)
(* the approval queue (by the promise ApprovalQueue is shown to keep), the *)
(* grants of core/workspace.py, the console's buttons and the emergency    *)
(* stop of runtime.py.                                                     *)
(*                                                                         *)
(* Each tool call runs on a worker thread of its own.  A verdict is        *)
(* computed once; the owner may take minutes to answer, and rules, grants  *)
(* and the stop button move meanwhile.                                     *)
(***************************************************************************)
EXTENDS PolicyRules, FiniteSets

CONSTANTS Calls,        \* tool calls, one worker thread each
          Requests,     \* what a call can ask for
          Workspaces,   \* aliases of the registered workspaces
          Config,       \* [Workspaces -> [mode, push]]: the configuration
          MaxStops      \* bound: how often the stop button is pressed

ASSUME StopsAssumption == MaxStops \in Nat

(* classify and the tools declare one of the tiers, the configuration one  *)
(* of the modes; "any" is a rule's word for every workspace.               *)
ASSUME RequestsAssumption == \A q \in Requests : CombinedTier(q) \in Tiers

ASSUME WorkspacesAssumption == /\ {"none", "any"} \cap Workspaces = {}
                               /\ \A w \in Workspaces : Config[w].mode \in Modes

VARIABLES ruling, reply,   \* the approval queue, see ApprovalPromise
          stage,           \* where each call stands
          request, place,  \* what it asks for, and the workspace it resolved
          verdict,         \* what the engine decided
          rules,           \* the rules the engine remembers
          elevated,        \* workspaces with a live grant of full access
          lifted,          \* history: workspaces that ever had one
          log,             \* the dispositions recorded for each call
          stop,            \* how far the emergency stop has come
          era              \* stops begun when the call was judged

Queue == INSTANCE ApprovalPromise WITH Asks <- Calls

queueVars == <<ruling, reply>>
callVars  == <<stage, request, place, verdict, log, era>>
vars == <<queueVars, callVars, rules, elevated, lifted, stop>>

NoRequest == "none"
Approved  == {"once", "session", "remember"}

Init ==
  /\ Queue!Init
  /\ stage    = [c \in Calls |-> "new"]
  /\ request  = [c \in Calls |-> NoRequest]
  /\ place    = [c \in Calls |-> "none"]
  /\ verdict  = [c \in Calls |-> [decision |-> "none", tier |-> READ, rule |-> "none"]]
  /\ rules    = <<>>
  /\ elevated = {}
  /\ lifted   = {}
  /\ log      = [c \in Calls |-> <<>>]
  /\ stop     = [count |-> 0, phase |-> "off", left |-> {}, todo |-> {}]
  /\ era      = [c \in Calls |-> 0]

Place(w) == [alias |-> w, mode |-> Config[w].mode, push |-> Config[w].push,
             elevated |-> w \in elevated]

-----------------------------------------------------------------------------
(* A refusal is recorded before the call returns.                          *)
Refuse(c, disposition) ==
  /\ stage' = [stage EXCEPT ![c] = "done"]
  /\ log'   = [log EXCEPT ![c] = Append(@, disposition)]

(* Gateway.call up to the verdict.                                         *)
Judge(c, q, w) ==
  LET v == Decide(q, Place(w), rules, 0)
  IN  /\ stage[c] = "new"
      /\ request' = [request EXCEPT ![c] = q]
      /\ place'   = [place EXCEPT ![c] = w]
      /\ verdict' = [verdict EXCEPT ![c] = v]
      /\ era'     = [era EXCEPT ![c] = stop.count]
      /\ \/ v.decision = "deny" /\ Refuse(c, "denied")
         \/ /\ v.decision # "deny"
            /\ stage' = [stage EXCEPT ![c] = IF v.decision = "ask" THEN "asking" ELSE "cleared"]
            /\ UNCHANGED log
      /\ UNCHANGED <<queueVars, rules, elevated, lifted, stop>>

(* queue.ask: the request becomes pending ...                              *)
AskOpens(c) ==
  /\ stage[c] = "asking"
  /\ Queue!Open(c)
  /\ UNCHANGED <<callVars, rules, elevated, lifted, stop>>

(* ... or meets the rate limit.                                            *)
AskTurnedAway(c) ==
  /\ stage[c] = "asking"
  /\ Queue!TurnAway(c)
  /\ Refuse(c, "rate_limited")
  /\ UNCHANGED <<request, place, verdict, rules, era, elevated, lifted, stop>>

(* queue.ask returns what was ruled, and an approval may leave a rule.     *)
AskReturns(c) ==
  /\ stage[c] = "asking"
  /\ Queue!Reply(c)
  /\ \/ /\ ruling[c] \in Approved
        /\ stage' = [stage EXCEPT ![c] = "cleared"]
        /\ rules' = IF ruling[c] = "once" THEN rules
                    ELSE RememberRule(rules, RuleFor(request[c], place[c], ruling[c]))
        /\ UNCHANGED log
     \/ /\ ruling[c] \notin Approved
        /\ Refuse(c, ruling[c])
        /\ UNCHANGED rules
  /\ UNCHANGED <<request, place, verdict, era, elevated, lifted, stop>>

(* queue.ask returns a refusal of its own: it timed out, or could not ask. *)
AskLapses_Remembers(c, o) ==
  /\ stage[c] = "asking"
  /\ Queue!GiveUp(c, o)
  /\ Refuse(c, o)
  /\ rules' = IF ruling[c] \in {"session", "remember"}
              THEN RememberRule(rules, RuleFor(request[c], place[c], ruling[c])) ELSE rules
  /\ UNCHANGED <<request, place, verdict, era, elevated, lifted, stop>>

AskLapses(c, o) ==
  /\ stage[c] = "asking"
  /\ Queue!GiveUp(c, o)
  /\ Refuse(c, o)
  /\ UNCHANGED <<request, place, verdict, rules, era, elevated, lifted, stop>>

(* Gateway._run: the tool starts; nothing is looked at again.              *)
Start(c) ==
  /\ stage[c] = "cleared"
  /\ stage' = [stage EXCEPT ![c] = "running"]
  /\ UNCHANGED <<queueVars, request, place, verdict, log, era, rules, elevated, lifted, stop>>

(* The tool returns or raises; both are recorded.                          *)
Finish_NoError(c, disposition) ==
  /\ stage[c] = "running"
  /\ stage' = [stage EXCEPT ![c] = "done"]
  /\ log'   = [log EXCEPT ![c] = IF disposition = "error" THEN @ ELSE Append(@, disposition)]
  /\ UNCHANGED <<queueVars, request, place, verdict, era, rules, elevated, lifted, stop>>

Finish(c, disposition) ==
  /\ stage[c] = "running"
  /\ stage' = [stage EXCEPT ![c] = "done"]
  /\ log'   = [log EXCEPT ![c] = Append(@, disposition)]
  /\ UNCHANGED <<queueVars, request, place, verdict, era, rules, elevated, lifted, stop>>

-----------------------------------------------------------------------------
(* The owner answers a prompt, or its window times out.                    *)
Answer(c, o) ==
  /\ Queue!Rule(c, o)
  /\ UNCHANGED <<callVars, rules, elevated, lifted, stop>>

(* grant_full_access, from the console.                                    *)
Elevate(w) ==
  /\ elevated' = elevated \cup {w}
  /\ lifted'   = lifted \cup {w}
  /\ UNCHANGED <<queueVars, callVars, rules, stop>>

(* The grant reaches its expiry, or the owner takes it back.               *)
GrantEnds(w) ==
  /\ w \in elevated
  /\ elevated' = elevated \ {w}
  /\ UNCHANGED <<queueVars, callVars, rules, lifted, stop>>

(* The owner removes a remembered rule.                                    *)
ForgetRuleAt(i) ==
  /\ rules' = ForgetRule(rules, rules[i])
  /\ UNCHANGED <<queueVars, callVars, elevated, lifted, stop>>

-----------------------------------------------------------------------------
(* Runtime.emergency_stop: deny_all snapshots the open requests ...        *)
StopBegins ==
  /\ stop.phase = "off"
  /\ stop.count < MaxStops
  /\ stop' = [count |-> stop.count + 1, phase |-> "denying", todo |-> {},
              left |-> {c \in Calls : ruling[c] = "open"}]
  /\ UNCHANGED <<queueVars, callVars, rules, elevated, lifted>>

(* ... and refuses those nobody has answered since;                        *)
StopDenies(c) ==
  /\ c \in stop.left
  /\ stop' = [stop EXCEPT !.left = @ \ {c}]
  /\ IF ruling[c] = "open" THEN Queue!Rule(c, "deny") ELSE UNCHANGED queueVars
  /\ UNCHANGED <<callVars, rules, elevated, lifted>>

(* then the processes are stopped and the browser is closed,               *)
StopKills ==
  /\ stop.phase = "denying"
  /\ stop.left = {}
  /\ stop' = [stop EXCEPT !.phase = "revoking", !.todo = Workspaces]
  /\ UNCHANGED <<queueVars, callVars, rules, elevated, lifted>>

(* the grants are revoked one workspace after the other,                   *)
StopRevokes(w) ==
  /\ w \in stop.todo
  /\ stop' = [stop EXCEPT !.todo = @ \ {w}]
  /\ elevated' = elevated \ {w}
  /\ UNCHANGED <<queueVars, callVars, rules, lifted>>

(* and the stop is recorded.                                               *)
StopEnds ==
  /\ stop.phase = "revoking"
  /\ stop.todo = {}
  /\ stop' = [stop EXCEPT !.phase = "off"]
  /\ UNCHANGED <<queueVars, callVars, rules, elevated, lifted>>

-----------------------------------------------------------------------------
(* What the thread of a call does by itself.                               *)
CallStep(c) == \/ AskOpens(c) \/ AskTurnedAway(c) \/ AskReturns(c)
               \/ \E o \in {"deny", "timed_out"} : AskLapses(c, o)
               \/ Start(c)
               \/ \E d \in {"ran", "failed", "error"} : Finish(c, d)

StopStep == \/ \E c \in Calls : StopDenies(c)
            \/ StopKills
            \/ \E w \in Workspaces : StopRevokes(w)
            \/ StopEnds

Next ==
  \/ \E c \in Calls, q \in Requests, w \in Workspaces : Judge(c, q, w)
  \/ \E c \in Calls : CallStep(c)
  \/ \E c \in Calls, o \in Approved \cup {"deny", "timed_out"} : Answer(c, o)
  \/ \E w \in Workspaces : Elevate(w) \/ GrantEnds(w)
  \/ \E i \in DOMAIN rules : ForgetRuleAt(i)
  \/ StopBegins
  \/ StopStep

Spec == Init /\ [][Next]_vars

-----------------------------------------------------------------------------
Stages == {"new", "asking", "cleared", "running", "done"}
Dispositions == {"denied", "deny", "timed_out", "rate_limited", "ran", "failed", "error"}

TypeOK ==
  /\ ruling \in [Calls -> Queue!Outcomes \cup {"none", "open"}]
  /\ reply \in [Calls -> Queue!Outcomes \cup {"none"}]
  /\ \A c \in Calls : /\ stage[c] \in Stages
                      /\ stage[c] # "new" => request[c] \in Requests /\ place[c] \in Workspaces
                      /\ \A i \in DOMAIN log[c] : log[c][i] \in Dispositions
  /\ elevated \subseteq lifted /\ lifted \subseteq Workspaces
  /\ stop.phase \in {"off", "denying", "revoking"}

(* The rule an approval of c leaves, if it leaves one.                     *)
Left(c, r) == /\ reply[c] \in {"session", "remember"}
              /\ r = RuleFor(request[c], place[c], reply[c])

(* Every remembered rule is what the owner approved for some call: its     *)
(* tool, its exact payload, its workspace, and its conversation unless the *)
(* owner said to remember it (gateway.py:74-97).                           *)
RulesEarned == \A i \in DOMAIN rules : \E c \in Calls : Left(c, rules[i])

(* A call that runs outside the modes' table runs because the owner        *)
(* approved it, or approved before, for good or in the same conversation,  *)
(* a call with the same payload in the same workspace.                     *)
Ran(c) == stage[c] = "running" \/ \E i \in DOMAIN log[c] : log[c][i] \in {"ran", "failed", "error"}

Vouches(d, c) ==
  /\ Digest(request[d]) = Digest(request[c])
  /\ place[d] = place[c]
  /\ \/ reply[d] = "remember"
     \/ reply[d] = "session" /\ request[d].session = request[c].session

(* A workspace configured read-only is only written to after the owner     *)
(* elevated it, and a forbidden call never runs at all.                    *)
ReadOnlyHolds ==
  \A c \in Calls :
    Ran(c) => /\ verdict[c].tier # FORBIDDEN
              /\ \/ Config[place[c]].mode # "read_only"
                 \/ verdict[c].tier = READ
                 \/ place[c] \in lifted

(* Every call that ended has exactly one entry, and the entry says what    *)
(* happened: a refusal carries the outcome that caused it, a run is never  *)
(* recorded as a refusal nor a refusal as a run (gateway.py:99-167).       *)
Accounted ==
  \A c \in Calls :
    /\ Len(log[c]) = (IF stage[c] = "done" THEN 1 ELSE 0)
    /\ stage[c] = "done" =>
         \/ log[c][1] = "denied" /\ verdict[c].decision = "deny"
         \/ /\ verdict[c].decision = "ask"
            /\ log[c][1] = reply[c] /\ reply[c] \notin Approved
         \/ /\ log[c][1] \in {"ran", "failed", "error"}
            /\ verdict[c].decision = "allow" \/ reply[c] \in Approved

(* What the stop says of itself: what is waiting is refused before         *)
(* processes are stopped, so nothing slips through (runtime.py:116-117).   *)
(* A call judged before the stop does not start once that is done.         *)
NothingSlipsThrough ==
  [][\A c \in Calls :
       stage[c] # "running" /\ stage'[c] = "running"
         => era[c] = stop.count \/ stop.phase = "denying"]_vars

(* What PRD 10.10 says of the stop: every project is read-only after it.   *)
StopMakesReadOnly ==
  stop.count > 0 /\ stop.phase = "off" /\ elevated = {}
    => \A w \in Workspaces : EffectiveMode(Place(w)) = "read_only"
=============================================================================
