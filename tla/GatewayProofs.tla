----------------------------- MODULE GatewayProofs -----------------------------
(***************************************************************************)
(* For any calls, workspaces and requests: every remembered rule is what   *)
(* an owner approved, a read-only workspace is only looked at until the    *)
(* owner opens it, and every call that ended has one entry that says how.  *)
(*                                                                         *)
(* The invariant follows a call: which verdict and reply it may have at    *)
(* each stage, and that nobody is asked about, and nothing cleared in, a   *)
(* workspace that was read-only all along.                                 *)
(***************************************************************************)
EXTENDS Gateway, PolicyRulesProofs

Outcomes == Approved \cup {"deny", "timed_out", "rate_limited"}

Decisions == {"none", "deny", "ask", "allow"}

TypeI ==
  /\ ruling \in [Calls -> Outcomes \cup {"none", "open"}]
  /\ reply \in [Calls -> Outcomes \cup {"none"}]
  /\ stage \in [Calls -> Stages]
  /\ request = [c \in Calls |-> request[c]]
  /\ place \in [Calls -> Workspaces \cup {"none"}]
  /\ verdict = [c \in Calls |-> verdict[c]]
  /\ \A c \in Calls : verdict[c].decision \in Decisions
  /\ log \in [Calls -> Seq(Dispositions)]
  /\ elevated \subseteq lifted
  /\ \E S : rules \in Seq(S)

(* What a call has behind it at each stage.                                *)
Staged ==
  \A c \in Calls :
    /\ stage[c] \in {"new", "asking"} => reply[c] = "none"
    /\ stage[c] = "asking" => verdict[c].decision = "ask"
    /\ stage[c] \in {"cleared", "running"} =>
         \/ verdict[c].decision = "allow" /\ reply[c] = "none"
         \/ verdict[c].decision = "ask" /\ reply[c] \in Approved
    /\ stage[c] # "new" => place[c] \in Workspaces

(* Somebody has opened the workspace, in the configuration or since.       *)
Opened(w) == Config[w].mode # "read_only" \/ w \in lifted

(* A call that may go on is not forbidden, and only looks unless its       *)
(* workspace is open; and so it was when somebody approved it.             *)
Harmless(c) == verdict[c].tier # FORBIDDEN /\ (Opened(place[c]) \/ verdict[c].tier = READ)

Permitted ==
  \A c \in Calls :
    /\ stage[c] \in {"asking", "cleared", "running"} \/ Ran(c) => Harmless(c)
    /\ stage[c] = "asking" \/ reply[c] \in Approved => Opened(place[c])

Inv == TypeI /\ Staged /\ Permitted /\ RulesEarned /\ Accounted

LEMMA InitInv == Init => Inv
<1> SUFFICES ASSUME Init PROVE Inv
  OBVIOUS
<1>1. TypeI
  <2>1. rules \in Seq({}) BY DEF Init
  <2> QED BY <2>1 DEF Init, Queue!Init, TypeI, Outcomes, Stages, Decisions
<1>2. \A c \in Calls : /\ stage[c] = "new" /\ reply[c] = "none" /\ log[c] = <<>>
                       /\ verdict[c].decision = "none"
  BY DEF Init, Queue!Init
<1>3. Staged BY <1>2 DEF Staged
<1>4. Permitted BY <1>2 DEF Permitted, Ran, Approved
<1>5. RulesEarned BY DEF Init, RulesEarned
<1>6. Accounted BY <1>2 DEF Accounted
<1> QED BY <1>1, <1>3, <1>4, <1>5, <1>6 DEF Inv

-----------------------------------------------------------------------------
(* Answers, grants and the stop leave the calls alone.                     *)
LEMMA CallsStand ==
  ASSUME Inv, TypeI', UNCHANGED <<reply, stage, request, place, verdict, log, rules>>,
         lifted \subseteq lifted'
  PROVE  Inv'
<1>1. Staged' BY DEF Inv, Staged
<1>2. \A c \in Calls : /\ Ran(c)' <=> Ran(c)
                       /\ Opened(place[c]) => Opened(place[c])'
                       /\ Harmless(c) => Harmless(c)'
  BY DEF Ran, Opened, Harmless
<1>3. Permitted' BY <1>2 DEF Inv, Permitted, Opened
<1>4. RulesEarned' BY DEF Inv, RulesEarned, Left
<1>5. Accounted' BY DEF Inv, Accounted
<1> QED BY <1>1, <1>3, <1>4, <1>5 DEF Inv

(* The log of a call that has not ended is empty, so what is put there is  *)
(* all there is.                                                           *)
LEMMA FirstEntry ==
  ASSUME Inv, NEW c \in Calls, stage[c] # "done", NEW d, log' = [log EXCEPT ![c] = Append(@, d)]
  PROVE  /\ Len(log'[c]) = 1 /\ log'[c][1] = d
         /\ \A i \in DOMAIN log'[c] : log'[c][i] = d
         /\ \A e \in Calls \ {c} : log'[e] = log[e]
<1>1. log[c] \in Seq(Dispositions) /\ Len(log[c]) = 0 BY DEF Inv, TypeI, Accounted
<1>2. log[c] = <<>> BY <1>1
<1>3. log'[c] = <<d>> BY <1>2 DEF Inv, TypeI
<1>4. \A e \in Calls \ {c} : log'[e] = log[e] BY DEF Inv, TypeI
<1>5. Len(<<d>>) = 1 /\ <<d>>[1] = d /\ \A i \in DOMAIN <<d>> : <<d>>[i] = d OBVIOUS
<1> QED BY <1>3, <1>4, <1>5

(* A rule whose approval stands is still earned.                           *)
LEMMA RulesStand ==
  ASSUME Inv,
         \A e \in Calls : reply[e] \in {"session", "remember"} =>
           reply'[e] = reply[e] /\ request'[e] = request[e] /\ place'[e] = place[e],
         \A i \in DOMAIN rules' :
           \/ \E k \in DOMAIN rules : rules'[i] = rules[k]
           \/ \E e \in Calls : /\ reply'[e] \in {"session", "remember"}
                              /\ rules'[i] = RuleFor(request'[e], place'[e], reply'[e])
  PROVE  RulesEarned'
<1> SUFFICES ASSUME NEW i \in DOMAIN rules'
             PROVE  \E e \in Calls : /\ reply'[e] \in {"session", "remember"}
                                    /\ rules'[i] = RuleFor(request'[e], place'[e], reply'[e])
  BY DEF RulesEarned, Left
<1>1. CASE \E k \in DOMAIN rules : rules'[i] = rules[k]
  <2>1. PICK e \in Calls : /\ reply[e] \in {"session", "remember"}
                           /\ rules'[i] = RuleFor(request[e], place[e], reply[e])
    BY <1>1 DEF Inv, RulesEarned, Left
  <2> QED BY <2>1
<1> QED BY <1>1

(* A call that was asked about comes back refused.                         *)
LEMMA RefusedKeeps ==
  ASSUME Inv, NEW c \in Calls, stage[c] = "asking",
         NEW o \in {"deny", "timed_out", "rate_limited"}, Refuse(c, o),
         reply' = [reply EXCEPT ![c] = o],
         ruling' \in [Calls -> Outcomes \cup {"none", "open"}],
         UNCHANGED <<request, place, verdict, rules, elevated, lifted>>
  PROVE  Inv'
<1>1. /\ stage' = [stage EXCEPT ![c] = "done"] /\ log' = [log EXCEPT ![c] = Append(@, o)]
  BY DEF Refuse
<1>2. /\ stage'[c] = "done" /\ reply'[c] = o
      /\ \A e \in Calls \ {c} : stage'[e] = stage[e] /\ reply'[e] = reply[e]
  BY <1>1 DEF Inv, TypeI
<1>3. /\ Len(log'[c]) = 1 /\ log'[c][1] = o
      /\ \A i \in DOMAIN log'[c] : log'[c][i] = o
      /\ \A e \in Calls \ {c} : log'[e] = log[e]
  BY <1>1, FirstEntry
<1>4. o \notin Approved /\ o \notin {"ran", "failed", "error"} /\ o # "none" BY DEF Approved
<1>5. TypeI'
  <2>1. o \in Dispositions BY DEF Dispositions
  <2>2. log' \in [Calls -> Seq(Dispositions)] BY <1>1, <2>1 DEF Inv, TypeI
  <2>3. reply' \in [Calls -> Outcomes \cup {"none"}] BY DEF Inv, TypeI, Outcomes
  <2>4. stage' \in [Calls -> Stages] BY <1>1 DEF Inv, TypeI, Stages
  <2> QED BY <2>2, <2>3, <2>4 DEF Inv, TypeI
<1>6. Staged' BY <1>2 DEF Inv, Staged
<1>7. ~Ran(c)' /\ \A e \in Calls \ {c} : Ran(e)' <=> Ran(e)
  BY <1>2, <1>3, <1>4 DEF Ran
<1>8. Permitted' BY <1>2, <1>4, <1>7 DEF Inv, Permitted, Harmless, Opened
<1>9. \A e \in Calls : reply[e] # "none" => reply'[e] = reply[e] BY <1>2 DEF Inv, Staged
<1>10. RulesEarned' BY <1>9, RulesStand
<1>11. verdict[c].decision = "ask" BY DEF Inv, Staged
<1>12. Accounted'
  <2> SUFFICES ASSUME NEW e \in Calls
               PROVE  /\ Len(log'[e]) = (IF stage'[e] = "done" THEN 1 ELSE 0)
                      /\ stage'[e] = "done" =>
                           \/ log'[e][1] = "denied" /\ verdict'[e].decision = "deny"
                           \/ /\ verdict'[e].decision = "ask"
                              /\ log'[e][1] = reply'[e] /\ reply'[e] \notin Approved
                           \/ /\ log'[e][1] \in {"ran", "failed", "error"}
                              /\ verdict'[e].decision = "allow" \/ reply'[e] \in Approved
    BY DEF Accounted
  <2>1. CASE e = c BY <1>2, <1>3, <1>4, <1>11, <2>1
  <2>2. CASE e # c BY <1>2, <1>3, <2>2 DEF Inv, Accounted
  <2> QED BY <2>1, <2>2
<1> QED BY <1>5, <1>6, <1>8, <1>10, <1>12 DEF Inv

(* A call that was asked about comes back approved, and may leave a rule.  *)
LEMMA ApprovedKeeps ==
  ASSUME Inv, NEW c \in Calls, stage[c] = "asking", AskReturns(c), ruling[c] \in Approved
  PROVE  Inv'
<1> DEFINE o == ruling[c]
           r == RuleFor(request[c], place[c], o)
<1>1. /\ reply' = [reply EXCEPT ![c] = o] /\ stage' = [stage EXCEPT ![c] = "cleared"]
      /\ \/ rules' = rules
         \/ o \in {"session", "remember"} /\ rules' = RememberRule(rules, r)
      /\ UNCHANGED <<ruling, request, place, verdict, log, elevated, lifted>>
  BY DEF AskReturns, Queue!Reply, Approved
<1>2. /\ stage'[c] = "cleared" /\ reply'[c] = o /\ o \in Approved /\ o # "none"
      /\ \A e \in Calls \ {c} : stage'[e] = stage[e] /\ reply'[e] = reply[e]
  BY <1>1 DEF Inv, TypeI, Approved
<1>3. r = RuleFor(request'[c], place'[c], reply'[c]) BY <1>1, <1>2
<1> HIDE DEF o, r
<1>4. (\E S : rules' \in Seq(S)) /\ \A i \in DOMAIN rules' :
         \/ \E k \in DOMAIN rules : rules'[i] = rules[k]
         \/ o \in {"session", "remember"} /\ rules'[i] = r
  <2>1. \E S : rules \in Seq(S) BY DEF Inv, TypeI
  <2>2. CASE rules' = rules BY <2>1, <2>2
  <2>3. CASE o \in {"session", "remember"} /\ rules' = RememberRule(rules, r)
    <3>1. /\ \E S : RememberRule(rules, r) \in Seq(S)
          /\ \A i \in DOMAIN RememberRule(rules, r) :
               \/ RememberRule(rules, r)[i] = r
               \/ \E k \in DOMAIN rules : RememberRule(rules, r)[i] = rules[k]
      BY <2>1, Prepend
    <3> QED BY <2>3, <3>1
  <2> QED BY <1>1, <2>2, <2>3
<1>5. TypeI' BY <1>1, <1>2, <1>4 DEF Inv, TypeI, Outcomes, Stages
<1>6. Staged' BY <1>1, <1>2 DEF Inv, Staged
<1>7. \A e \in Calls : Ran(e) => Ran(e)' /\ e # c BY <1>1, <1>2 DEF Inv, Accounted, Ran, TypeI
<1>8. \A e \in Calls \ {c} : Ran(e)' => Ran(e) BY <1>1, <1>2 DEF Ran
<1>9. Permitted' BY <1>1, <1>2, <1>8 DEF Inv, Permitted, Harmless, Opened
<1>10. \A e \in Calls : reply[e] \in {"session", "remember"} =>
         reply'[e] = reply[e] /\ request'[e] = request[e] /\ place'[e] = place[e]
  BY <1>1, <1>2 DEF Inv, Staged
<1>11. RulesEarned' BY <1>2, <1>3, <1>4, <1>10, RulesStand
<1>12. Accounted' BY <1>1, <1>2 DEF Inv, Accounted
<1> QED BY <1>5, <1>6, <1>9, <1>11, <1>12 DEF Inv

-----------------------------------------------------------------------------
(* What a verdict lets through is harmless: a rule was approved in the     *)
(* same workspace, which was open then, and is what it was.                *)
LEMMA VerdictIsHarmless ==
  ASSUME Inv, NEW q \in Requests, NEW w \in Workspaces
  PROVE  LET v == Decide(q, Place(w), rules, 0)
         IN  /\ v.decision \in {"allow", "ask", "deny"}
             /\ v.decision # "deny" => v.tier # FORBIDDEN
             /\ v.decision = "ask" => Opened(w)
             /\ v.decision = "allow" => Opened(w) \/ v.tier = READ
<1> DEFINE p == Place(w)
           d == Decide(q, p, rules, 0).decision
<1>1. CombinedTier(q) \in Tiers BY RequestsAssumption
<1>2. /\ p.alias = w
      /\ EffectiveMode(p) = IF w \in elevated THEN "full_access" ELSE Config[w].mode
  BY DEF Place, EffectiveMode
<1>3. EffectiveMode(p) \in Modes BY <1>2, WorkspacesAssumption DEF Modes
<1>4. Decide(q, p, rules, 0).tier = CombinedTier(q) BY DEF Decide
<1> HIDE DEF p
<1>5. /\ d \in {"allow", "ask", "deny"}
      /\ d = "allow" => \/ Matched(rules, "allow", q, p, 0)
                        \/ EffectiveMode(p) = "full_access"
                        \/ CombinedTier(q) = READ
                        \/ EffectiveMode(p) = "auto_edit"
      /\ d = "ask" => EffectiveMode(p) # "read_only"
      /\ d # "deny" => CombinedTier(q) # FORBIDDEN
  BY <1>1, <1>3, DecideTells
<1>6. EffectiveMode(p) # "read_only" => Opened(w) BY <1>2 DEF Opened, Inv, TypeI
<1>7. Matched(rules, "allow", q, p, 0) => Opened(w)
  <2> SUFFICES ASSUME NEW i \in DOMAIN rules, Matches(rules[i], q, p, 0) PROVE Opened(w)
    BY DEF Matched
  <2>1. PICK e \in Calls : /\ reply[e] \in {"session", "remember"}
                           /\ rules[i] = RuleFor(request[e], place[e], reply[e])
    BY DEF Inv, RulesEarned, Left
  <2>2. rules[i].workspace = place[e] BY <2>1 DEF RuleFor
  <2>3. rules[i].workspace \in {"any", w} BY <1>2 DEF Matches
  <2>4. stage[e] # "new" /\ place[e] \in Workspaces BY <2>1 DEF Inv, Staged
  <2>5. place[e] = w BY <2>2, <2>3, <2>4, WorkspacesAssumption
  <2> QED BY <2>1, <2>5 DEF Inv, Permitted, Approved
<1> HIDE DEF d
<1>8. d = "allow" => Opened(w) \/ CombinedTier(q) = READ BY <1>5, <1>6, <1>7
<1> QED BY <1>4, <1>5, <1>6, <1>8 DEF d, p

LEMMA JudgeKeeps ==
  ASSUME Inv, NEW c \in Calls, NEW q \in Requests, NEW w \in Workspaces, Judge(c, q, w)
  PROVE  Inv'
<1> DEFINE v == Decide(q, Place(w), rules, 0)
           d == v.decision
           to == IF d = "deny" THEN "done" ELSE IF d = "ask" THEN "asking" ELSE "cleared"
<1>1. /\ stage[c] = "new" /\ request' = [request EXCEPT ![c] = q]
      /\ place' = [place EXCEPT ![c] = w] /\ verdict' = [verdict EXCEPT ![c] = v]
      /\ stage' = [stage EXCEPT ![c] = to]
      /\ \/ d = "deny" /\ log' = [log EXCEPT ![c] = Append(@, "denied")]
         \/ d # "deny" /\ log' = log
      /\ UNCHANGED <<ruling, reply, rules, elevated, lifted>>
  BY DEF Judge, Refuse, queueVars
<1>2. /\ d \in {"allow", "ask", "deny"}
      /\ d # "deny" => v.tier # FORBIDDEN
      /\ d = "ask" => Opened(w)
      /\ d = "allow" => Opened(w) \/ v.tier = READ
  BY VerdictIsHarmless
<1>3. verdict'[c] = v /\ verdict'[c].decision = d BY <1>1 DEF Inv, TypeI
<1> HIDE DEF v, d
<1>4. /\ stage'[c] = to /\ place'[c] = w
      /\ \A e \in Calls \ {c} : /\ stage'[e] = stage[e] /\ place'[e] = place[e]
                               /\ verdict'[e] = verdict[e] /\ request'[e] = request[e]
  BY <1>1 DEF Inv, TypeI
<1>5. reply[c] = "none" /\ log[c] \in Seq(Dispositions) /\ Len(log[c]) = 0
  BY <1>1 DEF Inv, Staged, Accounted, TypeI
<1>6. /\ d = "deny" => Len(log'[c]) = 1 /\ log'[c][1] = "denied"
                       /\ \A i \in DOMAIN log'[c] : log'[c][i] = "denied"
      /\ d # "deny" => log'[c] = log[c]
      /\ \A e \in Calls \ {c} : log'[e] = log[e]
  BY <1>1, FirstEntry
<1>7. /\ to \in {"done", "asking", "cleared"} /\ (to = "done" <=> d = "deny")
      /\ (to = "asking" <=> d = "ask") /\ (to = "cleared" <=> d = "allow")
  BY <1>2
<1> HIDE DEF to
<1>8. TypeI'
  <2>1. log' \in [Calls -> Seq(Dispositions)]
    <3>1. "denied" \in Dispositions BY DEF Dispositions
    <3>2. CASE log' = log BY <3>2 DEF Inv, TypeI
    <3>3. CASE log' = [log EXCEPT ![c] = Append(@, "denied")] BY <3>1, <3>3 DEF Inv, TypeI
    <3> QED BY <1>1, <3>2, <3>3
  <2>2. stage' \in [Calls -> Stages] BY <1>1, <1>7 DEF Inv, TypeI, Stages
  <2>3. place' \in [Calls -> Workspaces \cup {"none"}] BY <1>1 DEF Inv, TypeI
  <2>4. \A e \in Calls : verdict'[e].decision \in Decisions
    BY <1>2, <1>3, <1>4 DEF Inv, TypeI, Decisions
  <2> QED BY <1>1, <2>1, <2>2, <2>3, <2>4 DEF Inv, TypeI
<1>9. Staged'
  <2>1. \A e \in Calls \ {c} : reply'[e] = reply[e] BY <1>1
  <2> QED BY <1>1, <1>3, <1>4, <1>5, <1>7, <2>1 DEF Inv, Staged
<1>10. ~Ran(c)' /\ \A e \in Calls \ {c} : Ran(e)' <=> Ran(e)
  BY <1>4, <1>5, <1>6, <1>7 DEF Ran
<1>11. Permitted'
  <2>1. \A e \in Calls \ {c} : (Harmless(e) => Harmless(e)') /\ (Opened(place[e]) <=> Opened(place[e])')
    BY <1>1, <1>4 DEF Harmless, Opened
  <2>2. /\ stage'[c] \in {"asking", "cleared"} => Harmless(c)'
        /\ stage'[c] = "asking" => Opened(place[c])'
        /\ stage'[c] # "running" /\ reply'[c] \notin Approved
    BY <1>1, <1>2, <1>3, <1>4, <1>5, <1>7 DEF Harmless, Opened, Approved
  <2> QED BY <1>1, <1>4, <1>10, <2>1, <2>2 DEF Inv, Permitted
<1>12. RulesEarned'
  <2>1. \A e \in Calls : reply[e] \in {"session", "remember"} =>
          reply'[e] = reply[e] /\ request'[e] = request[e] /\ place'[e] = place[e]
    BY <1>1, <1>4, <1>5
  <2> QED BY <1>1, <2>1, RulesStand
<1>13. Accounted'
  <2> SUFFICES ASSUME NEW e \in Calls
               PROVE  /\ Len(log'[e]) = (IF stage'[e] = "done" THEN 1 ELSE 0)
                      /\ stage'[e] = "done" =>
                           \/ log'[e][1] = "denied" /\ verdict'[e].decision = "deny"
                           \/ /\ verdict'[e].decision = "ask"
                              /\ log'[e][1] = reply'[e] /\ reply'[e] \notin Approved
                           \/ /\ log'[e][1] \in {"ran", "failed", "error"}
                              /\ verdict'[e].decision = "allow" \/ reply'[e] \in Approved
    BY DEF Accounted
  <2>1. CASE e = c BY <1>1, <1>3, <1>4, <1>5, <1>6, <1>7, <2>1
  <2>2. CASE e # c BY <1>1, <1>4, <1>6, <2>2 DEF Inv, Accounted
  <2> QED BY <2>1, <2>2
<1> QED BY <1>8, <1>9, <1>11, <1>12, <1>13 DEF Inv

-----------------------------------------------------------------------------
(* The tool starts, and ends.                                              *)
LEMMA StartKeeps == ASSUME Inv, NEW c \in Calls, Start(c) PROVE Inv'
<1>1. /\ stage[c] = "cleared" /\ stage' = [stage EXCEPT ![c] = "running"]
      /\ UNCHANGED <<ruling, reply, request, place, verdict, log, rules, elevated, lifted>>
  BY DEF Start, queueVars
<1>2. stage'[c] = "running" /\ \A e \in Calls \ {c} : stage'[e] = stage[e]
  BY <1>1 DEF Inv, TypeI
<1>3. TypeI' BY <1>1 DEF Inv, TypeI, Stages
<1>4. Staged' BY <1>1, <1>2 DEF Inv, Staged
<1>5. \A e \in Calls \ {c} : Ran(e)' <=> Ran(e) BY <1>1, <1>2 DEF Ran
<1>6. Permitted' BY <1>1, <1>2, <1>5 DEF Inv, Permitted, Harmless, Opened
<1>7. RulesEarned' BY <1>1 DEF Inv, RulesEarned, Left
<1>8. Accounted' BY <1>1, <1>2 DEF Inv, Accounted
<1> QED BY <1>3, <1>4, <1>6, <1>7, <1>8 DEF Inv

LEMMA FinishKeeps ==
  ASSUME Inv, NEW c \in Calls, NEW d \in {"ran", "failed", "error"}, Finish(c, d)
  PROVE  Inv'
<1>1. /\ stage[c] = "running" /\ stage' = [stage EXCEPT ![c] = "done"]
      /\ log' = [log EXCEPT ![c] = Append(@, d)]
      /\ UNCHANGED <<ruling, reply, request, place, verdict, rules, elevated, lifted>>
  BY DEF Finish, queueVars
<1>2. stage'[c] = "done" /\ \A e \in Calls \ {c} : stage'[e] = stage[e]
  BY <1>1 DEF Inv, TypeI
<1>3. /\ Len(log'[c]) = 1 /\ log'[c][1] = d
      /\ \A e \in Calls \ {c} : log'[e] = log[e]
  BY <1>1, FirstEntry
<1>4. TypeI'
  <2>1. d \in Dispositions BY DEF Dispositions
  <2>2. log' \in [Calls -> Seq(Dispositions)] BY <1>1, <2>1 DEF Inv, TypeI
  <2> QED BY <1>1, <2>2 DEF Inv, TypeI, Stages
<1>5. Staged' BY <1>1, <1>2 DEF Inv, Staged
<1>6. \A e \in Calls \ {c} : Ran(e)' <=> Ran(e) BY <1>2, <1>3 DEF Ran
<1>7. Harmless(c)' BY <1>1 DEF Inv, Permitted, Harmless, Opened
<1>8. Permitted' BY <1>1, <1>2, <1>6, <1>7 DEF Inv, Permitted, Harmless, Opened
<1>9. RulesEarned' BY <1>1 DEF Inv, RulesEarned, Left
<1>10. verdict[c].decision = "allow" \/ reply[c] \in Approved BY <1>1 DEF Inv, Staged
<1>11. Accounted' BY <1>1, <1>2, <1>3, <1>10 DEF Inv, Accounted
<1> QED BY <1>4, <1>5, <1>8, <1>9, <1>11 DEF Inv

LEMMA ForgetKeeps == ASSUME Inv, NEW i \in DOMAIN rules, ForgetRuleAt(i) PROVE Inv'
<1>1. /\ rules' = ForgetRule(rules, rules[i])
      /\ UNCHANGED <<ruling, reply, stage, request, place, verdict, log, elevated, lifted>>
  BY DEF ForgetRuleAt, queueVars, callVars
<1>2. PICK S : rules \in Seq(S) BY DEF Inv, TypeI
<1>3. /\ rules' \in Seq(S)
      /\ \A k \in DOMAIN rules' : \E n \in DOMAIN rules : rules'[k] = rules[n]
  BY <1>1, <1>2, Forgets
<1>4. TypeI' BY <1>1, <1>3 DEF Inv, TypeI
<1>5. Staged' /\ Accounted' BY <1>1 DEF Inv, Staged, Accounted
<1>6. Permitted' BY <1>1 DEF Inv, Permitted, Harmless, Opened, Ran
<1>7. RulesEarned' BY <1>1, <1>3, RulesStand
<1> QED BY <1>4, <1>5, <1>6, <1>7 DEF Inv

-----------------------------------------------------------------------------
LEMMA CallKeeps == ASSUME Inv, NEW c \in Calls, CallStep(c) PROVE Inv'
<1>1. CASE AskOpens(c)
  <2>1. /\ ruling' = [ruling EXCEPT ![c] = "open"]
        /\ UNCHANGED <<reply, stage, request, place, verdict, log, rules, elevated, lifted>>
    BY <1>1 DEF AskOpens, Queue!Open, callVars
  <2>2. TypeI' BY <2>1 DEF Inv, TypeI
  <2> QED BY <2>1, <2>2, CallsStand
<1>2. CASE AskTurnedAway(c)
  <2>1. /\ stage[c] = "asking" /\ Refuse(c, "rate_limited")
        /\ ruling' = [ruling EXCEPT ![c] = "rate_limited"]
        /\ reply' = [reply EXCEPT ![c] = "rate_limited"]
        /\ UNCHANGED <<request, place, verdict, rules, elevated, lifted>>
    BY <1>2 DEF AskTurnedAway, Queue!TurnAway
  <2>2. ruling' \in [Calls -> Outcomes \cup {"none", "open"}] BY <2>1 DEF Inv, TypeI, Outcomes
  <2> QED BY <2>1, <2>2, RefusedKeeps
<1>3. CASE AskReturns(c) /\ ruling[c] \in Approved
  BY <1>3, ApprovedKeeps DEF AskReturns
<1>4. CASE AskReturns(c) /\ ruling[c] \notin Approved
  <2>1. /\ stage[c] = "asking" /\ Refuse(c, ruling[c])
        /\ ruling[c] \in {"deny", "timed_out", "rate_limited"} /\ ruling' = ruling
        /\ reply' = [reply EXCEPT ![c] = ruling[c]]
        /\ UNCHANGED <<request, place, verdict, rules, elevated, lifted>>
    BY <1>4 DEF AskReturns, Queue!Reply, Queue!Outcomes, Queue!Approved, Queue!Refused, Approved
  <2>2. ruling' \in [Calls -> Outcomes \cup {"none", "open"}] BY <2>1 DEF Inv, TypeI
  <2> QED BY <2>1, <2>2, RefusedKeeps
<1>5. ASSUME NEW o \in {"deny", "timed_out"}, AskLapses(c, o) PROVE Inv'
  <2>1. /\ stage[c] = "asking" /\ Refuse(c, o)
        /\ ruling' = [ruling EXCEPT ![c] = IF @ = "open" THEN o ELSE @]
        /\ reply' = [reply EXCEPT ![c] = o]
        /\ UNCHANGED <<request, place, verdict, rules, elevated, lifted>>
    BY <1>5 DEF AskLapses, Queue!GiveUp
  <2>2. ruling' \in [Calls -> Outcomes \cup {"none", "open"}] BY <2>1 DEF Inv, TypeI, Outcomes
  <2> QED BY <2>1, <2>2, RefusedKeeps
<1>6. CASE Start(c) BY <1>6, StartKeeps
<1>7. CASE \E d \in {"ran", "failed", "error"} : Finish(c, d) BY <1>7, FinishKeeps
<1> QED BY <1>1, <1>2, <1>3, <1>4, <1>5, <1>6, <1>7 DEF CallStep

(* The stop touches the rulings of open requests, and takes grants back.   *)
LEMMA StopKeeps == ASSUME Inv, StopBegins \/ StopStep PROVE Inv'
<1>1. /\ UNCHANGED <<reply, stage, request, place, verdict, log, rules, lifted>>
      /\ elevated' \subseteq elevated
      /\ \/ ruling' = ruling
         \/ \E c \in Calls : ruling' = [ruling EXCEPT ![c] = "deny"]
  <2>1. CASE StopBegins BY <2>1 DEF StopBegins, queueVars, callVars
  <2>2. ASSUME NEW c \in Calls, StopDenies(c)
        PROVE  /\ UNCHANGED <<reply, stage, request, place, verdict, log, rules, lifted, elevated>>
               /\ ruling' = ruling \/ ruling' = [ruling EXCEPT ![c] = "deny"]
    BY <2>2 DEF StopDenies, Queue!Rule, queueVars, callVars
  <2>3. CASE StopKills BY <2>3 DEF StopKills, queueVars, callVars
  <2>4. CASE \E w \in Workspaces : StopRevokes(w) BY <2>4 DEF StopRevokes, queueVars, callVars
  <2>5. CASE StopEnds BY <2>5 DEF StopEnds, queueVars, callVars
  <2> QED BY <2>1, <2>2, <2>3, <2>4, <2>5 DEF StopStep
<1>2. ruling' \in [Calls -> Outcomes \cup {"none", "open"}] BY <1>1 DEF Inv, TypeI, Outcomes
<1>3. TypeI' BY <1>1, <1>2 DEF Inv, TypeI
<1> QED BY <1>1, <1>3, CallsStand

LEMMA NextKeeps == Inv /\ [Next]_vars => Inv'
<1> SUFFICES ASSUME Inv, [Next]_vars PROVE Inv'
  OBVIOUS
<1>1. ASSUME NEW c \in Calls, NEW q \in Requests, NEW w \in Workspaces, Judge(c, q, w) PROVE Inv'
  BY <1>1, JudgeKeeps
<1>2. ASSUME NEW c \in Calls, CallStep(c) PROVE Inv' BY <1>2, CallKeeps
<1>3. ASSUME NEW c \in Calls, NEW o \in Approved \cup {"deny", "timed_out"}, Answer(c, o) PROVE Inv'
  <2>1. /\ ruling' = [ruling EXCEPT ![c] = o]
        /\ UNCHANGED <<reply, stage, request, place, verdict, log, rules, elevated, lifted>>
    BY <1>3 DEF Answer, Queue!Rule, callVars
  <2>2. TypeI' BY <2>1 DEF Inv, TypeI, Outcomes
  <2> QED BY <2>1, <2>2, CallsStand
<1>4. ASSUME NEW w \in Workspaces, Elevate(w) \/ GrantEnds(w) PROVE Inv'
  <2>1. /\ UNCHANGED <<ruling, reply, stage, request, place, verdict, log, rules>>
        /\ lifted \subseteq lifted' /\ (elevated \subseteq lifted => elevated' \subseteq lifted')
    BY <1>4 DEF Elevate, GrantEnds, queueVars, callVars
  <2>2. TypeI' BY <2>1 DEF Inv, TypeI
  <2> QED BY <2>1, <2>2, CallsStand
<1>5. ASSUME NEW i \in DOMAIN rules, ForgetRuleAt(i) PROVE Inv' BY <1>5, ForgetKeeps
<1>6. CASE StopBegins \/ StopStep BY <1>6, StopKeeps
<1>7. CASE UNCHANGED vars
  <2>1. UNCHANGED <<ruling, reply, stage, request, place, verdict, log, rules, elevated, lifted>>
    BY <1>7 DEF vars, queueVars, callVars
  <2>2. TypeI' BY <2>1 DEF Inv, TypeI
  <2> QED BY <2>1, <2>2, CallsStand
<1> QED BY <1>1, <1>2, <1>3, <1>4, <1>5, <1>6, <1>7 DEF Next

-----------------------------------------------------------------------------
LEMMA Inductive == Spec => []Inv
<1> QED BY InitInv, NextKeeps, PTL DEF Spec

(* No rule is remembered but what the owner approved: that tool, payload   *)
(* and workspace, and that conversation unless it was for good             *)
(* (gateway.py:74-97).                                                     *)
THEOREM RulesAreApprovals == Spec => []RulesEarned
<1>1. Inv => RulesEarned BY DEF Inv
<1> QED BY <1>1, Inductive, PTL

(* A workspace configured read-only is only looked at until the owner      *)
(* opens it, whatever rules other approvals left; and nothing that is      *)
(* forbidden runs anywhere (engine.py:131-181, gateway.py:77-97).          *)
THEOREM ReadOnlyIsRead == Spec => []ReadOnlyHolds
<1>1. Inv => ReadOnlyHolds BY DEF Inv, Permitted, Harmless, Opened, ReadOnlyHolds
<1> QED BY <1>1, Inductive, PTL

(* Every call that ended has one entry in the log, and it says how the     *)
(* call ended, whatever answers and stops came meanwhile                   *)
(* (gateway.py:99-167).                                                    *)
THEOREM EveryCallAccounted == Spec => []Accounted
<1>1. Inv => Accounted BY DEF Inv
<1> QED BY <1>1, Inductive, PTL
=============================================================================
