-------------------------- MODULE ToolServerProofs --------------------------
(***************************************************************************)
(* For any workspaces, conversations, calls and texts: a call runs where   *)
(* it was described, in a workspace nobody guessed; in a read-only one it  *)
(* only looks; and what needs the owner has had the owner's word.          *)
(*                                                                         *)
(* The invariant says what a call carries from its description to its run, *)
(* and that every remembered rule is the answer to such a call; and while  *)
(* nobody edits what a call depends on, what runs is what was shown.       *)
(***************************************************************************)
EXTENDS ToolServer, PolicyRulesProofs

-----------------------------------------------------------------------------
(* What is offered, tool by tool.                                          *)
IsOffer(o) == o = [tool |-> o.tool, op |-> o.op, tier |-> o.tier, does |-> o.does, arg |-> o.arg]

Is(o, tool, ops, tier, does) == o.tool = tool /\ o.op \in ops /\ o.tier = tier /\ o.does = does

Known(o) ==
  \/ Is(o, "read_file", {None}, READ, "look")
  \/ Is(o, "search", {"text", "files"}, READ, "look")
  \/ Is(o, "write_file", {None}, WRITE, "write")
  \/ Is(o, "apply_patch", {"dry_run"}, READ, "look")
  \/ Is(o, "apply_patch", {None}, WRITE, "write")
  \/ Is(o, "git", {"status", "diff", "log", "show", "branches", "checkpoints"}, READ, "look")
  \/ Is(o, "git", {"add", "commit", "stash", "undo"}, WRITE, "write")
  \/ Is(o, "project", {"describe"}, READ, "look")
  \/ Is(o, "project", {"dev"}, EXEC_ALLOWED, "dev")
  \/ Is(o, "project", Tasks \cup {"deploy"}, EXEC_ALLOWED, "task")
  \/ Is(o, "shell", {None}, EXEC_OTHER, "command")
  \/ Is(o, "process", {"list", "logs"}, READ, "look")
  \/ Is(o, "process", {"stop", "stop_all"}, WRITE, "stop")
  \/ Is(o, "browser", {"snapshot", "console", "network", "screenshot"}, READ, "look")
  \/ Is(o, "browser", {"launch", "navigate", "click", "type"}, EXEC_ALLOWED, "browse")
  \/ Is(o, "browser", {"eval"}, EXEC_OTHER, "page code")
  \/ Is(o, "web_fetch", {None}, EGRESS, "fetch")
  \/ Is(o, "codex_run", {"list"}, READ, "look")
  \/ Is(o, "codex_run", {"run"}, EXEC_OTHER, "delegate")

LEMMA OfferShape ==
  ASSUME NEW tool, NEW ops, NEW tier, NEW does, NEW args, NEW o \in Offer(tool, ops, tier, does, args)
  PROVE  IsOffer(o) /\ Is(o, tool, ops, tier, does) /\ o.arg \in args
BY DEF Offer, IsOffer, Is

LEMMA OffersKnown == ASSUME NEW o \in Offers PROVE IsOffer(o) /\ Known(o)
<1>1. CASE o \in read_file_tool BY <1>1, OfferShape DEF read_file_tool, Known
<1>2. CASE o \in search_tool BY <1>2, OfferShape DEF search_tool, Known
<1>3. CASE o \in write_file_tool BY <1>3, OfferShape DEF write_file_tool, Known
<1>4. CASE o \in apply_patch_tool BY <1>4, OfferShape DEF apply_patch_tool, Known
<1>5. CASE o \in git_tool BY <1>5, OfferShape DEF git_tool, Known
<1>6. CASE o \in project_tool BY <1>6, OfferShape DEF project_tool, Known
<1>7. CASE o \in shell_tool BY <1>7, OfferShape DEF shell_tool, Known
<1>8. CASE o \in process_tool BY <1>8, OfferShape DEF process_tool, Known
<1>9. CASE o \in browser_tool BY <1>9, OfferShape DEF browser_tool, Known
<1>10. CASE o \in web_fetch_tool BY <1>10, OfferShape DEF web_fetch_tool, Known
<1>11. CASE o \in codex_run_tool BY <1>11, OfferShape DEF codex_run_tool, Known
<1> QED BY <1>1, <1>2, <1>3, <1>4, <1>5, <1>6, <1>7, <1>8, <1>9, <1>10, <1>11 DEF Offers

(* What the judgement depends on.                                          *)
LEMMA OfferFacts ==
  ASSUME NEW o \in Offers
  PROVE  /\ o.tier \in READ .. EGRESS
         /\ (o.does = "look") <=> (o.tier = READ)
         /\ o.does \in {"page code", "fetch", "delegate"} =>
              o.tier > EXEC_ALLOWED /\ o.tool # "shell" /\ o.does # "task"
         /\ o.does = "task" => o.op \in Tasks \cup {"deploy"} /\ o.tool # "shell"
<1>1. Known(o) BY OffersKnown
<1>2. o.tier \in {READ, WRITE, EXEC_ALLOWED, EXEC_OTHER, EGRESS}
  BY <1>1 DEF Known, Is
<1>6. o.tier \in READ .. EGRESS
  BY <1>2 DEF READ, WRITE, EXEC_ALLOWED, EXEC_OTHER, EGRESS
<1>7. \A t \in {EXEC_OTHER, EGRESS} : t > EXEC_ALLOWED BY DEF EXEC_ALLOWED, EXEC_OTHER, EGRESS
<1>0. READ \notin {WRITE, EXEC_ALLOWED, EXEC_OTHER, EGRESS}
  BY DEF READ, WRITE, EXEC_ALLOWED, EXEC_OTHER, EGRESS
<1>3. (o.does = "look") <=> (o.tier = READ)
  BY <1>0, <1>1 DEF Known, Is
<1>4. o.does \in {"page code", "fetch", "delegate"} =>
        o.tier \in {EXEC_OTHER, EGRESS} /\ o.tool # "shell" /\ o.does # "task"
  BY <1>1 DEF Known, Is
<1>5. o.does = "task" => o.op \in Tasks \cup {"deploy"} /\ o.tool # "shell"
  BY <1>1 DEF Known, Is
<1> QED BY <1>3, <1>4, <1>5, <1>6, <1>7

(* An offer is known by its tool, its operation and its argument.          *)
LEMMA OfferUnique ==
  ASSUME NEW o \in Offers, NEW p \in Offers, o.tool = p.tool, o.op = p.op, o.arg = p.arg
  PROVE  o = p
<1>1. o.tier = p.tier /\ o.does = p.does BY OffersKnown DEF Known, Is, Tasks, None
<1> QED BY <1>1, OffersKnown DEF IsOffer

LEMMA ShellText == ASSUME NEW o \in Offers, o.tool = "shell" PROVE o.arg \in Texts
<1>1. o \in shell_tool
  <2>1. CASE o \in read_file_tool BY <2>1, OfferShape DEF read_file_tool, Is
  <2>2. CASE o \in search_tool BY <2>2, OfferShape DEF search_tool, Is
  <2>3. CASE o \in write_file_tool BY <2>3, OfferShape DEF write_file_tool, Is
  <2>4. CASE o \in apply_patch_tool BY <2>4, OfferShape DEF apply_patch_tool, Is
  <2>5. CASE o \in git_tool BY <2>5, OfferShape DEF git_tool, Is
  <2>6. CASE o \in project_tool BY <2>6, OfferShape DEF project_tool, Is
  <2>7. CASE o \in shell_tool BY <2>7
  <2>8. CASE o \in process_tool BY <2>8, OfferShape DEF process_tool, Is
  <2>9. CASE o \in browser_tool
    <3>1. o.tool = "browser"
      <4>1. ASSUME NEW ops, NEW tier, NEW does, NEW args, o \in Offer("browser", ops, tier, does, args)
            PROVE  o.tool = "browser"
        BY <4>1, OfferShape DEF Is
      <4> QED BY <2>9, <4>1 DEF browser_tool
    <3> QED BY <3>1
  <2>10. CASE o \in web_fetch_tool BY <2>10, OfferShape DEF web_fetch_tool, Is
  <2>11. CASE o \in codex_run_tool BY <2>11, OfferShape DEF codex_run_tool, Is
  <2> QED BY <2>1, <2>2, <2>3, <2>4, <2>5, <2>6, <2>7, <2>8, <2>9, <2>10, <2>11 DEF Offers
<1> QED BY <1>1, OfferShape DEF shell_tool

-----------------------------------------------------------------------------
(* The request a description makes, given the command line it comes to.    *)
RequestOf(s, o, l) ==
  [session |-> s, tool |-> o.tool, op |-> o.op, payload |-> <<o.arg, l>>, tier |-> o.tier,
   cmd |-> l # None, cmdTier |-> Found[l].tier, listed |-> Found[l].listed, line |-> <<l>>]

Held == {"page code", "fetch", "delegate"}

LEMMA GuardedIs == \A s, o, w : Guarded(s, o, w) = RequestOf(s, o, CommandLine(o, w))
BY DEF Guarded, RequestOf

LEMMA LineIs ==
  ASSUME NEW o \in Offers, NEW w \in DOMAIN Config, Scripted(manifest[w])
  PROVE  /\ CommandLine(o, w) \in Lines \cup {None}
         /\ o.does \in Held => CommandLine(o, w) = None
<1>1. CASE o.tool = "shell"
  <2>1. CommandLine(o, w) = o.arg BY <1>1, OfferFacts DEF CommandLine
  <2>2. o.arg \in Lines BY <1>1, ShellText, FoundAssumption
  <2>3. o.does \notin Held BY <1>1, OfferFacts DEF Held
  <2> QED BY <2>1, <2>2, <2>3
<1>2. CASE o.tool # "shell" /\ o.does = "task"
  <2>1. CommandLine(o, w) = TaskLine(w, o.op) BY <1>2 DEF CommandLine
  <2>2. o.op \in Tasks \cup {"dev", "deploy"} BY <1>2, OfferFacts
  <2>3. Config[w].scripts[o.op] \in Lines /\ manifest[w].scripts[o.op] \in Lines
    BY <2>2, ConfigAssumption DEF Scripted
  <2>4. {"npm install", "pytest"} \subseteq Lines BY FoundAssumption
  <2>5. TaskLine(w, o.op) \in Lines \cup {None} BY <2>3, <2>4 DEF TaskLine
  <2> QED BY <1>2, <2>1, <2>5 DEF Held
<1>3. CASE o.tool # "shell" /\ o.does # "task" BY <1>3 DEF CommandLine
<1> QED BY <1>1, <1>2, <1>3

(* The tier it is judged by: never that of looking unless it only looks,   *)
(* and above the allowlist's when it is for the owner.                     *)
LEMMA TierIs ==
  ASSUME NEW s, NEW o \in Offers, NEW l \in Lines \cup {None}, o.does \in Held => l = None
  PROVE  LET tier == CombinedTier(RequestOf(s, o, l))
         IN  /\ tier \in Tiers
             /\ tier = READ => o.does = "look"
             /\ o.does \in Held \/ (l # None /\ Found[l].tier > EXEC_ALLOWED) => tier > EXEC_ALLOWED
<1> DEFINE q == RequestOf(s, o, l)
<1>1. /\ q.cmd <=> l # None
      /\ q.tier = o.tier /\ q.cmdTier = Found[l].tier
  BY DEF RequestOf
<1>2. /\ o.tier \in READ .. EGRESS /\ (o.tier = READ => o.does = "look")
      /\ o.does \in Held => o.tier > EXEC_ALLOWED
  BY OfferFacts DEF Held
<1> HIDE DEF q
<1>3. CASE l = None
  <2>1. CombinedTier(q) = o.tier BY <1>1, <1>3 DEF CombinedTier
  <2>2. o.tier \in Tiers BY <1>2 DEF Tiers, READ, EGRESS, FORBIDDEN
  <2> QED BY <1>2, <1>3, <2>1, <2>2 DEF q
<1>4. CASE l # None
  <2>1. Found[l].tier \in EXEC_ALLOWED .. FORBIDDEN BY <1>4, FoundAssumption DEF Lines
  <2>2. \/ CombinedTier(q) = Found[l].tier
        \/ CombinedTier(q) = o.tier /\ ~(Found[l].tier > o.tier)
    BY <1>1, <1>4 DEF CombinedTier
  <2>3. CombinedTier(q) \in Tiers /\ CombinedTier(q) >= Found[l].tier /\ CombinedTier(q) # READ
    BY <1>2, <2>1, <2>2 DEF Tiers, READ, EXEC_ALLOWED, EGRESS, FORBIDDEN
  <2>4. Found[l].tier > EXEC_ALLOWED => CombinedTier(q) > EXEC_ALLOWED
    BY <2>1, <2>3 DEF Tiers, READ, EXEC_ALLOWED, FORBIDDEN
  <2> QED BY <1>4, <2>3, <2>4 DEF q
<1> QED BY <1>3, <1>4

-----------------------------------------------------------------------------
(* The invariant.  A function is said to be one by what it is equal to.    *)
TypeI ==
  /\ registry \subseteq DOMAIN Config
  /\ \A w \in registry : Scripted(manifest[w])
  /\ DOMAIN manifest = registry
  /\ \E S : rules \in Seq(S)
  /\ active \in [Sessions -> registry \cup {None}] /\ picked \in [Sessions -> SUBSET registry]
  /\ stage \in [Calls -> {"new", "asking", "cleared", "done"}]
  /\ place \in [Calls -> registry \cup {None}]
  /\ reply \in [Calls -> Approved \cup {None, "deny"}]
  /\ session = [c \in Calls |-> session[c]] /\ offer = [c \in Calls |-> offer[c]]
  /\ named = [c \in Calls |-> named[c]] /\ request = [c \in Calls |-> request[c]]
  /\ verdict = [c \in Calls |-> verdict[c]] /\ ran = [c \in Calls |-> ran[c]]
  /\ \A c \in Calls : mayAsk[c] \subseteq Offers

(* How far a call is, and what that leaves unset.                          *)
Staged ==
  \A c \in Calls :
    /\ stage[c] = "new" => place[c] = None
    /\ stage[c] \in {"asking", "cleared"} => place[c] # None
    /\ stage[c] \in {"new", "asking"} => reply[c] = None
    /\ ran[c].where # None => stage[c] = "done" /\ place[c] # None

(* What was described of a call that has a place.                          *)
Described ==
  \A c \in Calls : place[c] # None =>
    /\ session[c] \in Sessions /\ offer[c] \in Offers
    /\ \E l \in Lines \cup {None} :
         /\ request[c] = RequestOf(session[c], offer[c], l)
         /\ offer[c].does \in Held => l = None

Chosen == \A s \in Sessions : active[s] # None => active[s] \in picked[s]

(* In a read-only workspace nobody is asked, and only looking is cleared.  *)
ReadOnly ==
  \A c \in Calls :
    stage[c] \in {"asking", "cleared"} /\ Config[place[c]].mode = "read_only"
    => stage[c] = "cleared" /\ offer[c].does = "look"

(* Every rule is what an owner said of a call where people are asked.      *)
Earned(r) ==
  \E d \in Calls : /\ reply[d] \in {"session", "remember"} /\ place[d] # None
                   /\ Config[place[d]].mode # "read_only"
                   /\ r = RuleFor(request[d], place[d], reply[d])

RulesEarned == \A i \in DOMAIN rules : Earned(rules[i])

(* The owner's word, already when the call is cleared.                     *)
Word ==
  \A c \in Calls :
    (stage[c] = "cleared" \/ ran[c].where # None) /\ NeedsOwner(c)
      /\ Config[place[c]].mode # "full_access"
    => reply[c] \in Approved \/ \E d \in Calls : Repeats(c, d)

(* The browser is where a browser call took it.                            *)
Taken ==
  /\ \A c \in Calls : place[c] # None /\ offer[c].tool = "browser" => browsing # None
  /\ browsing # None => Browsed(browsing)

Inv ==
  /\ TypeI /\ Staged /\ Described /\ Chosen /\ ReadOnly /\ RulesEarned /\ Word /\ Taken
  /\ RunsWhereAsked /\ NeverAGuess /\ ReadOnlyMeansIt

LEMMA NoneIsNoWorkspace == Inv => None \notin registry /\ "any" \notin registry
BY ConfigAssumption DEF Inv, TypeI

LEMMA InitInv == Init => Inv
<1> SUFFICES ASSUME Init PROVE Inv
  OBVIOUS
<1>1. TypeI
  <2>1. manifest \in Starts /\ registry = DOMAIN manifest BY DEF Init
  <2>2. registry \subseteq DOMAIN Config /\ \A w \in registry : Scripted(manifest[w])
    BY <2>1, ConfigAssumption
  <2>3. rules \in Seq({}) BY DEF Init
  <2>4. \A c \in Calls : mayAsk[c] \subseteq Offers BY AskedAssumption DEF Init
  <2> QED BY <2>1, <2>2, <2>3, <2>4 DEF Init, TypeI, Approved
<1>2. \A c \in Calls : /\ stage[c] = "new" /\ place[c] = None /\ reply[c] = None
                       /\ ran[c].where = None
  BY DEF Init, NotRun
<1>3. Chosen /\ RulesEarned BY DEF Init, Chosen, RulesEarned
<1>4. Taken BY <1>2 DEF Init, Taken
<1> QED BY <1>1, <1>2, <1>3, <1>4
        DEF Inv, Staged, Described, ReadOnly, Word, RunsWhereAsked, NeverAGuess, ReadOnlyMeansIt

-----------------------------------------------------------------------------
(* Choosing a workspace, and edits: no call moves.                         *)
LEMMA UseKeeps == ASSUME Inv, NEW s \in Sessions, NEW w \in registry, Use(s, w) PROVE Inv'
<1>1. /\ active' = [active EXCEPT ![s] = w] /\ picked' = [picked EXCEPT ![s] = @ \cup {w}]
      /\ UNCHANGED <<registry, browsing, manifest, rules, stage, session, offer, named, place,
                     request, verdict, reply, ran, mayAsk>>
  BY DEF Use, asks
<1>2. TypeI' BY <1>1 DEF Inv, TypeI
<1>3. Chosen' BY <1>1 DEF Inv, TypeI, Chosen
<1>4. Staged' /\ Described' /\ ReadOnly' /\ ReadOnlyMeansIt'
  BY <1>1 DEF Inv, Staged, Described, ReadOnly, ReadOnlyMeansIt
<1>10. RunsWhereAsked' /\ Taken' BY <1>1 DEF Inv, RunsWhereAsked, Taken, Browsed
<1>5. RulesEarned' BY <1>1 DEF Inv, RulesEarned, Earned
<1>6. Word' BY <1>1 DEF Inv, Word, NeedsOwner, Beyond, Repeats
<1>7. \A t \in Sessions : picked[t] \subseteq picked'[t] BY <1>1 DEF Inv, TypeI
<1>8. \A c \in Calls : place[c] # None => session[c] \in Sessions BY DEF Inv, Described
<1>9. NeverAGuess' BY <1>1, <1>7, <1>8 DEF Inv, NeverAGuess
<1> QED BY <1>2, <1>3, <1>4, <1>5, <1>6, <1>9, <1>10 DEF Inv

LEMMA EditKeeps == ASSUME Inv, NEW w \in registry, NEW m \in Manifests, Edit(w, m) PROVE Inv'
<1>1. /\ manifest' = [manifest EXCEPT ![w] = m]
      /\ UNCHANGED <<registry, active, browsing, rules, stage, session, offer, named, place,
                     request, verdict, reply, ran, picked, mayAsk>>
  BY DEF Edit, asks
<1>2. TypeI'
  <2>1. \A v \in registry : manifest'[v] = manifest[v] \/ manifest'[v] = m
    BY <1>1 DEF Inv, TypeI
  <2>2. \A v \in registry : Scripted(manifest'[v])
    BY <2>1, ConfigAssumption DEF Inv, TypeI
  <2> QED BY <1>1, <2>2 DEF Inv, TypeI
<1>3. Chosen' /\ NeverAGuess' BY <1>1 DEF Inv, Chosen, NeverAGuess
<1>4. Staged' /\ Described' /\ ReadOnly' /\ ReadOnlyMeansIt'
  BY <1>1 DEF Inv, Staged, Described, ReadOnly, ReadOnlyMeansIt
<1>10. RunsWhereAsked' /\ Taken' BY <1>1 DEF Inv, RunsWhereAsked, Taken, Browsed
<1>5. RulesEarned' BY <1>1 DEF Inv, RulesEarned, Earned
<1>6. Word' BY <1>1 DEF Inv, Word, NeedsOwner, Beyond, Repeats
<1> QED BY <1>2, <1>3, <1>4, <1>5, <1>6, <1>10 DEF Inv

-----------------------------------------------------------------------------
(* The run itself: in the place of the description, and of what was        *)
(* cleared.                                                                *)
LEMMA RunKeeps == ASSUME Inv, NEW c \in Calls, NEW m \in Manifests, Run(c, m) PROVE Inv'
<1> DEFINE what == WhatRuns(offer[c], place[c])
<1>1. /\ stage[c] = "cleared" /\ stage' = [stage EXCEPT ![c] = "done"]
      /\ ran' = [ran EXCEPT ![c] = [where |-> Where(c), what |-> what]]
      /\ manifest' = manifest \/ manifest' = [manifest EXCEPT ![place[c]] = m]
      /\ UNCHANGED <<registry, active, browsing, rules, session, offer, named, place, request, verdict,
                     reply, picked, mayAsk>>
  BY DEF Run, asks, bounds
<1> HIDE DEF what
<1>2. place[c] \in registry /\ place[c] # None BY <1>1 DEF Inv, TypeI, Staged
<1>3. /\ ran'[c].where = Where(c) /\ stage'[c] = "done"
      /\ \A d \in Calls \ {c} : ran'[d] = ran[d] /\ stage'[d] = stage[d]
  BY <1>1 DEF Inv, TypeI
<1>4. TypeI'
  <2>1. \A v \in registry : manifest'[v] = manifest[v] \/ manifest'[v] = m
    BY <1>1 DEF Inv, TypeI
  <2>2. \A v \in registry : Scripted(manifest'[v])
    BY <2>1, ConfigAssumption DEF Inv, TypeI
  <2> QED BY <1>1, <2>2 DEF Inv, TypeI
<1>5. Staged' BY <1>1, <1>2, <1>3 DEF Inv, Staged
<1>6. Described' /\ Chosen' /\ NeverAGuess' BY <1>1 DEF Inv, Described, Chosen, NeverAGuess
<1>7. ReadOnly' BY <1>1, <1>3 DEF Inv, ReadOnly
<1>8. RulesEarned' BY <1>1 DEF Inv, RulesEarned, Earned
<1>12. \A d, e \in Calls : (Repeats(d, e) => Repeats(d, e)') /\ (NeedsOwner(d)' => NeedsOwner(d))
  BY <1>1 DEF Repeats, NeedsOwner, Beyond
<1>9. Word' BY <1>1, <1>3, <1>12 DEF Inv, Word
<1>10. RunsWhereAsked'
  <2>1. \A d \in Calls : offer'[d] = offer[d] /\ place'[d] = place[d] BY <1>1
  <2>3. \/ ran'[c].where = place[c]
        \/ offer[c].tool = "browser" /\ Browsed(ran'[c].where)
    <3>1. CASE offer[c].tool = "browser"
      <4>1. browsing # None /\ Browsed(browsing) BY <1>2, <3>1 DEF Inv, Taken
      <4>2. ran'[c].where = browsing BY <1>3, <3>1 DEF Where
      <4> QED BY <3>1, <4>1, <4>2
    <3>2. CASE offer[c].tool # "browser" BY <1>3, <3>2 DEF Where
    <3> QED BY <3>1, <3>2
  <2>4. \A d \in Calls \ {c} : ran'[d].where # None =>
          \/ ran'[d].where = place[d]
          \/ offer[d].tool = "browser" /\ Browsed(ran'[d].where)
    BY <1>3 DEF Inv, RunsWhereAsked
  <2>5. \A d \in Calls : ran'[d].where # None =>
          \/ ran'[d].where = place'[d]
          \/ offer'[d].tool = "browser" /\ \E e \in Calls : offer'[e].tool = "browser" /\ place'[e] = ran'[d].where
    BY <2>1, <2>3, <2>4 DEF Browsed
  <2> QED BY <2>5 DEF RunsWhereAsked, Browsed
<1>13. Taken' BY <1>1 DEF Inv, Taken, Browsed
<1>11. ReadOnlyMeansIt' BY <1>1, <1>2, <1>3 DEF Inv, ReadOnlyMeansIt, ReadOnly
<1> QED BY <1>4, <1>5, <1>6, <1>7, <1>8, <1>9, <1>10, <1>11, <1>13 DEF Inv

-----------------------------------------------------------------------------
(* The answer, and the rule it may leave, which is put before the others.  *)
LEMMA AnswerKeeps ==
  ASSUME Inv, NEW c \in Calls, NEW outcome \in Approved \cup {"deny"}, Answer(c, outcome)
  PROVE  Inv'
<1> DEFINE to == IF outcome \in Approved THEN "cleared" ELSE "done"
           r  == RuleFor(request[c], place[c], outcome)
<1>1. /\ stage[c] = "asking" /\ stage' = [stage EXCEPT ![c] = to]
      /\ reply' = [reply EXCEPT ![c] = outcome]
      /\ \/ rules' = rules
         \/ outcome \in {"session", "remember"} /\ rules' = RememberRule(rules, r)
      /\ UNCHANGED <<registry, active, browsing, manifest, session, offer, named, place, request,
                     verdict, ran, picked, mayAsk>>
  BY DEF Answer, asks, bounds
<1>0. to \in {"cleared", "done"} /\ (to = "cleared" => outcome \in Approved) OBVIOUS
<1> HIDE DEF to
<1>2. /\ place[c] # None /\ reply[c] = None /\ ran[c].where = None
      /\ Config[place[c]].mode # "read_only"
  BY <1>1 DEF Inv, Staged, ReadOnly
<1>3. /\ reply'[c] = outcome /\ stage'[c] = to
      /\ \A d \in Calls \ {c} : reply'[d] = reply[d] /\ stage'[d] = stage[d]
  BY <1>1 DEF Inv, TypeI
<1>4. \A d \in Calls : reply[d] # None => d # c /\ reply'[d] = reply[d] BY <1>2, <1>3
<1>5. None \notin Approved /\ None # "deny" BY DEF None, Approved
<1>6. (\E S : rules' \in Seq(S)) /\ \A i \in DOMAIN rules' :
         (\E k \in DOMAIN rules : rules'[i] = rules[k])
         \/ (rules'[i] = r /\ outcome \in {"session", "remember"})
  BY <1>1, Prepend DEF Inv, TypeI
<1>7. TypeI' BY <1>0, <1>1, <1>6 DEF Inv, TypeI
<1>8. Staged' BY <1>0, <1>1, <1>2, <1>3 DEF Inv, Staged
<1>9. Described' /\ Chosen' /\ NeverAGuess' /\ ReadOnlyMeansIt'
  BY <1>1 DEF Inv, Described, Chosen, NeverAGuess, ReadOnlyMeansIt
<1>16. RunsWhereAsked' /\ Taken' BY <1>1 DEF Inv, RunsWhereAsked, Taken, Browsed
<1>10. ReadOnly' BY <1>0, <1>1, <1>2, <1>3 DEF Inv, ReadOnly
<1>11. \A x : Earned(x) => Earned(x)' BY <1>1, <1>4, <1>5 DEF Earned, Approved, None
<1>12. outcome \in {"session", "remember"} => Earned(r)'
  <2> SUFFICES ASSUME outcome \in {"session", "remember"}
               PROVE  \E d \in Calls :
                        /\ reply'[d] \in {"session", "remember"} /\ place'[d] # None
                        /\ Config[place'[d]].mode # "read_only"
                        /\ r = RuleFor(request'[d], place'[d], reply'[d])
    BY <1>1 DEF Earned
  <2> WITNESS c \in Calls
  <2> QED BY <1>1, <1>2, <1>3
<1>13. RulesEarned'
  <2> SUFFICES ASSUME NEW i \in DOMAIN rules', NEW x, x = rules'[i] PROVE Earned(x)'
    BY DEF RulesEarned, Earned
  <2>1. CASE \E k \in DOMAIN rules : rules'[i] = rules[k]
    <3>1. Earned(x) BY <2>1 DEF Inv, RulesEarned
    <3> QED BY <3>1, <1>11
  <2>2. CASE rules'[i] = r /\ outcome \in {"session", "remember"}
    <3>1. x = r /\ Earned(r)' BY <2>2, <1>12
    <3> QED BY <3>1, <1>1 DEF Earned
  <2> QED BY <1>6, <2>1, <2>2
<1>14. \A d, e \in Calls : (Repeats(d, e) => Repeats(d, e)') /\ (NeedsOwner(d)' => NeedsOwner(d))
  BY <1>1, <1>4 DEF Repeats, NeedsOwner, Beyond, None
<1>15. Word' BY <1>0, <1>1, <1>2, <1>3, <1>4, <1>5, <1>14 DEF Inv, Word
<1> QED BY <1>7, <1>8, <1>9, <1>10, <1>13, <1>15, <1>16 DEF Inv

-----------------------------------------------------------------------------
(* A rule that matches a described call is the answer to one like it.      *)
Like(d, s, o, w, l) ==
  /\ reply[d] \in {"session", "remember"} /\ place[d] = w
  /\ Config[w].mode # "read_only"
  /\ offer[d] = o /\ request[d].line = <<l>>
  /\ reply[d] = "session" => session[d] = s

LEMMA MatchRepeats ==
  ASSUME Inv, NEW s \in Sessions, NEW o \in Offers, NEW w \in registry,
         NEW l \in Lines \cup {None}, NEW ws, ws.alias = w,
         Matched(rules, "allow", RequestOf(s, o, l), ws, 0)
  PROVE  \E d \in Calls : Like(d, s, o, w, l)
<1> DEFINE q == RequestOf(s, o, l)
<1>1. PICK i \in DOMAIN rules : Matches(rules[i], q, ws, 0)
  BY DEF Matched
<1>2. PICK d \in Calls : /\ reply[d] \in {"session", "remember"} /\ place[d] # None
                         /\ Config[place[d]].mode # "read_only"
                         /\ rules[i] = RuleFor(request[d], place[d], reply[d])
  BY DEF Inv, RulesEarned, Earned
<1>3. PICK k \in Lines \cup {None} : request[d] = RequestOf(session[d], offer[d], k)
  BY <1>2 DEF Inv, Described
<1>4. offer[d] \in Offers /\ session[d] \in Sessions /\ place[d] \in registry
  BY <1>2 DEF Inv, Described, TypeI
<1>5. /\ rules[i].payload = Digest(request[d]) /\ rules[i].workspace = place[d]
      /\ rules[i].session = IF reply[d] = "session" THEN request[d].session ELSE "any"
  BY <1>2 DEF RuleFor
<1>6. Digest(request[d]) = <<offer[d].tool, offer[d].op, <<offer[d].arg, k>>>>
  BY <1>3 DEF Digest, RequestOf
<1>7. Digest(q) = <<o.tool, o.op, <<o.arg, l>>>> BY DEF Digest, RequestOf
<1> HIDE DEF q
<1>8. /\ rules[i].payload = Digest(q) /\ rules[i].workspace \in {"any", w}
      /\ rules[i].session \in {"any", q.session}
  BY <1>1, <1>5, <1>6 DEF Matches
<1>9. place[d] = w BY <1>4, <1>5, <1>8, NoneIsNoWorkspace
<1>10. offer[d].tool = o.tool /\ offer[d].op = o.op /\ offer[d].arg = o.arg /\ k = l
  BY <1>5, <1>6, <1>7, <1>8
<1>11. offer[d] = o BY <1>4, <1>10, OfferUnique
<1>12. request[d].line = <<l>> /\ request[d].session = session[d]
  BY <1>3, <1>10 DEF RequestOf
<1>13. reply[d] = "session" => session[d] = s
  <2>1. "any" \notin Sessions BY ConfigAssumption
  <2>2. q.session = s BY DEF q, RequestOf
  <2> QED BY <1>4, <1>5, <1>8, <1>12, <2>1, <2>2
<1> QED BY <1>2, <1>9, <1>11, <1>12, <1>13 DEF Like

(* A description: resolved without a guess, judged, and cleared only for a *)
(* reason.                                                                 *)
LEMMA Resolved ==
  ASSUME Inv, NEW s \in Sessions, NEW alias \in registry \cup {None}
  PROVE  LET w == Resolve(s, alias)
         IN  w \in registry \cup {None}
             /\ (w # None => w = alias \/ w \in picked[s] \/ registry = {w})
<1>1. CASE alias # None BY <1>1 DEF Resolve
<1>2. CASE alias = None
  <2>1. Resolve(s, alias) = ActiveIn(s) BY <1>2 DEF Resolve
  <2>2. CASE active[s] # None BY <2>1, <2>2 DEF ActiveIn, Inv, TypeI, Chosen
  <2>3. CASE active[s] = None /\ \E w \in registry : registry = {w}
    <3>1. PICK w \in registry : registry = {w} BY <2>3
    <3>2. ActiveIn(s) = CHOOSE v \in registry : TRUE BY <2>3 DEF ActiveIn
    <3>3. (CHOOSE v \in registry : TRUE) \in registry BY <3>1
    <3> QED BY <2>1, <3>1, <3>2, <3>3
  <2>4. CASE active[s] = None /\ ~\E w \in registry : registry = {w}
    BY <2>1, <2>4 DEF ActiveIn
  <2> QED BY <2>2, <2>3, <2>4
<1> QED BY <1>1, <1>2

LEMMA DescribeKeeps ==
  ASSUME Inv, NEW c \in Calls, NEW s \in Sessions, NEW o \in mayAsk[c],
         NEW alias \in registry \cup {None}, Describe(c, s, o, alias)
  PROVE  Inv'
<1> DEFINE w == Resolve(s, alias)
           q == Guarded(s, o, w)
           d == Judged(q, w).decision
           l == CommandLine(o, w)
<1>0. o \in Offers /\ None \notin registry /\ "any" \notin registry
  BY NoneIsNoWorkspace DEF Inv, TypeI
<1>1. /\ w \in registry \cup {None}
      /\ w # None => w = alias \/ w \in picked[s] \/ registry = {w}
  BY Resolved
<1>2. /\ stage[c] = "new" /\ session' = [session EXCEPT ![c] = s] /\ offer' = [offer EXCEPT ![c] = o]
      /\ named' = [named EXCEPT ![c] = alias]
      /\ UNCHANGED <<registry, active, manifest, rules, reply, ran, picked, mayAsk>>
  BY DEF Describe, bounds
<1>3. /\ place[c] = None /\ reply[c] = None /\ ran[c].where = None
  BY <1>2 DEF Inv, Staged
<1>4. \A e \in Calls : reply[e] # None => e # c BY <1>3
<1>5. \A e \in Calls \ {c} : session'[e] = session[e] /\ offer'[e] = offer[e] /\ named'[e] = named[e]
  BY <1>2 DEF Inv, TypeI
<1>6. session'[c] = s /\ offer'[c] = o /\ named'[c] = alias
  BY <1>2 DEF Inv, TypeI
<1>9. \A v : v # None /\ Browsed(v) => \E e \in Calls \ {c} : offer[e].tool = "browser" /\ place[e] = v
  BY <1>3 DEF Browsed
<1>7. CASE stage' = [stage EXCEPT ![c] = "done"] /\ UNCHANGED <<place, request, verdict, browsing>>
  <2>1. stage'[c] = "done" /\ \A e \in Calls \ {c} : stage'[e] = stage[e]
    BY <1>7 DEF Inv, TypeI
  <2>2. TypeI' BY <1>2, <1>7 DEF Inv, TypeI
  <2>3. Staged' BY <1>2, <1>3, <1>7, <2>1 DEF Inv, Staged
  <2>4. \A e \in Calls : place'[e] # None => e # c BY <1>3, <1>7
  <2>5. Described' BY <1>5, <1>7, <2>4 DEF Inv, Described
  <2>6. Chosen' BY <1>2 DEF Inv, Chosen
  <2>7. ReadOnly' BY <1>5, <1>7, <2>1 DEF Inv, ReadOnly
  <2>8. RulesEarned' BY <1>2, <1>7 DEF Inv, RulesEarned, Earned
  <2>9. \A e, f \in Calls \ {c} : (Repeats(e, f) => Repeats(e, f)') /\ (NeedsOwner(e)' => NeedsOwner(e))
    BY <1>2, <1>5, <1>7 DEF Repeats, NeedsOwner, Beyond
  <2>10. \A e, f \in Calls : Repeats(e, f) => f # c BY <1>3 DEF Repeats, None
  <2>11. Word' BY <1>2, <1>3, <1>7, <2>1, <2>9, <2>10 DEF Inv, Word
  <2>12. NeverAGuess' BY <1>2, <1>5, <1>7, <2>4 DEF Inv, NeverAGuess
  <2>15. \A v : v # None /\ Browsed(v) => \E e \in Calls : offer'[e].tool = "browser" /\ place'[e] = v
    BY <1>5, <1>7, <1>9
  <2>13. RunsWhereAsked'
    <3>1. \A e \in Calls : ran'[e].where # None =>
            /\ e # c
            /\ \/ ran'[e].where = place'[e]
               \/ /\ offer'[e].tool = "browser"
                  /\ \E f \in Calls : offer'[f].tool = "browser" /\ place'[f] = ran'[e].where
      BY <1>2, <1>3, <1>5, <1>7, <2>15 DEF Inv, RunsWhereAsked
    <3> QED BY <3>1 DEF RunsWhereAsked, Browsed
  <2>14. ReadOnlyMeansIt' BY <1>2, <1>3, <1>5, <1>7 DEF Inv, ReadOnlyMeansIt
  <2>16. Taken'
    <3>1. \A e \in Calls : place'[e] # None /\ offer'[e].tool = "browser" => browsing' # None
      BY <1>5, <1>7, <2>4 DEF Inv, Taken
    <3>2. browsing' # None =>
            \E e \in Calls : offer'[e].tool = "browser" /\ place'[e] = browsing'
      BY <1>7, <2>15 DEF Inv, Taken
    <3> QED BY <3>1, <3>2 DEF Taken, Browsed
  <2> QED BY <2>2, <2>3, <2>5, <2>6, <2>7, <2>8, <2>11, <2>12, <2>13, <2>14, <2>16 DEF Inv
<1>8. CASE /\ Askable(o, w)
           /\ browsing' = IF o.tool = "browser" THEN w ELSE browsing
           /\ place' = [place EXCEPT ![c] = w] /\ request' = [request EXCEPT ![c] = q]
           /\ verdict' = [verdict EXCEPT ![c] = d]
           /\ stage' = [stage EXCEPT ![c] = CASE verdict'[c] = "deny"  -> "done"
                                              [] verdict'[c] = "ask"   -> "asking"
                                              [] verdict'[c] = "allow" -> "cleared"]
  <2>1. w # None /\ w \in registry /\ w \in DOMAIN Config
    BY <1>1, <1>8 DEF Askable, Inv, TypeI
  <2>2. /\ l \in Lines \cup {None} /\ (o.does \in Held => l = None)
    BY <1>0, <2>1, LineIs DEF Inv, TypeI
  <2>3. q = RequestOf(s, o, l) BY GuardedIs
  <2> DEFINE ws == [alias |-> w, mode |-> Config[w].mode, push |-> Config[w].push, elevated |-> FALSE]
             tier == CombinedTier(q)
  <2>4. /\ tier \in Tiers /\ (tier = READ => o.does = "look")
        /\ o.does \in Held \/ (l # None /\ Found[l].tier > EXEC_ALLOWED) => tier > EXEC_ALLOWED
    BY <1>0, <2>2, <2>3, TierIs
  <2>5. EffectiveMode(ws) = Config[w].mode /\ ws.alias = w BY DEF EffectiveMode
  <2>6. Config[w].mode \in Modes BY <2>1, ConfigAssumption
  <2>7. d = Decide(q, ws, rules, 0).decision BY DEF Judged
  <2> HIDE DEF ws, q, d, l, w, tier
  <2>8. /\ d \in {"allow", "ask", "deny"}
        /\ d = "allow" => \/ Matched(rules, "allow", q, ws, 0)
                          \/ Config[w].mode = "full_access"
                          \/ tier = READ
                          \/ Config[w].mode = "auto_edit" /\ tier <= EXEC_ALLOWED
        /\ d = "ask" => Config[w].mode # "read_only"
    BY <2>4, <2>5, <2>6, <2>7, DecideTells DEF tier
  <2>9. verdict'[c] = d BY <1>8 DEF Inv, TypeI
  <2>10. /\ place'[c] = w /\ request'[c] = q
         /\ \A e \in Calls \ {c} : place'[e] = place[e] /\ request'[e] = request[e]
    BY <1>8 DEF Inv, TypeI
  <2>11. /\ stage'[c] \in {"done", "asking", "cleared"}
         /\ stage'[c] = "asking" => d = "ask"
         /\ stage'[c] = "cleared" => d = "allow"
         /\ \A e \in Calls \ {c} : stage'[e] = stage[e]
    BY <1>8, <2>8, <2>9 DEF Inv, TypeI
  <2>12. TypeI'
    <3>1. stage' \in [Calls -> {"new", "asking", "cleared", "done"}]
      BY <1>8, <2>8, <2>9 DEF Inv, TypeI
    <3>2. place' \in [Calls -> registry \cup {None}] BY <1>8, <2>1 DEF Inv, TypeI
    <3> QED BY <1>2, <1>8, <3>1, <3>2 DEF Inv, TypeI
  <2>13. Staged' BY <1>2, <1>3, <2>1, <2>10, <2>11 DEF Inv, Staged
  <2>14. Described'
    <3>1. \A e \in Calls \ {c} : place'[e] # None =>
            /\ session'[e] \in Sessions /\ offer'[e] \in Offers
            /\ \E k \in Lines \cup {None} : /\ request'[e] = RequestOf(session'[e], offer'[e], k)
                                            /\ offer'[e].does \in Held => k = None
      BY <1>5, <2>10 DEF Inv, Described
    <3>2. /\ request'[c] = RequestOf(session'[c], offer'[c], l)
          /\ offer'[c].does \in Held => l = None
      BY <1>6, <2>2, <2>3, <2>10
    <3> QED BY <1>0, <1>6, <2>2, <3>1, <3>2 DEF Described
  <2>15. Chosen' BY <1>2 DEF Inv, Chosen
  <2>16. Config[w].mode = "read_only" /\ d = "allow" => o.does = "look"
    <3>1. ~(Config[w].mode = "read_only" /\ Matched(rules, "allow", q, ws, 0))
      BY <1>0, <2>1, <2>2, <2>3, <2>5, MatchRepeats DEF Like
    <3> QED BY <2>4, <2>8, <3>1
  <2>17. ReadOnly' BY <1>5, <1>6, <2>8, <2>10, <2>11, <2>16 DEF Inv, ReadOnly
  <2>18. \A x : Earned(x) => Earned(x)' BY <1>2, <1>4, <2>10, <1>3 DEF Earned, None
  <2>19. RulesEarned'
    <3> SUFFICES ASSUME NEW i \in DOMAIN rules, NEW x, x = rules[i] PROVE Earned(x)'
      BY <1>2 DEF RulesEarned, Earned
    <3> QED BY <2>18 DEF Inv, RulesEarned
  <2>20. \A e \in Calls \ {c}, f \in Calls : /\ Repeats(e, f) => Repeats(e, f)'
                                             /\ NeedsOwner(e)' => NeedsOwner(e)
    BY <1>2, <1>3, <1>5, <2>10 DEF Repeats, NeedsOwner, Beyond, None
  <2>21. NeedsOwner(c)' /\ d = "allow" /\ Config[w].mode # "full_access" =>
           \E f \in Calls : Repeats(c, f)'
    <3> SUFFICES ASSUME NeedsOwner(c)', d = "allow", Config[w].mode # "full_access"
                 PROVE  \E f \in Calls : Repeats(c, f)'
      OBVIOUS
    <3>1. q.cmd = (l # None) /\ q.line = <<l>> /\ q.line[1] = l BY <2>3 DEF RequestOf
    <3>9. \/ offer'[c].does \in {"page code", "fetch", "delegate"}
          \/ request'[c].cmd /\ Found[request'[c].line[1]].tier > EXEC_ALLOWED
      BY DEF NeedsOwner, Beyond
    <3>2. o.does \in Held \/ (l # None /\ Found[l].tier > EXEC_ALLOWED)
      BY <1>6, <2>10, <3>1, <3>9 DEF Held
    <3>3. tier > EXEC_ALLOWED BY <2>4, <3>2
    <3>4. tier # READ /\ ~(tier <= EXEC_ALLOWED) BY <2>4, <3>3 DEF Tiers, READ, EXEC_ALLOWED, FORBIDDEN
    <3>5. Matched(rules, "allow", q, ws, 0) BY <2>8, <3>4
    <3>10. Matched(rules, "allow", RequestOf(s, o, l), ws, 0) BY <2>3, <3>5
    <3>11. PICK f \in Calls : Like(f, s, o, w, l)
      <4>1. /\ s \in Sessions /\ o \in Offers /\ w \in registry /\ l \in Lines \cup {None}
            /\ ws.alias = w
        BY <1>0, <2>1, <2>2, <2>5
      <4> QED BY <4>1, <3>10, MatchRepeats
    <3>6. /\ reply[f] \in {"session", "remember"} /\ place[f] = w
          /\ offer[f] = o /\ request[f].line = <<l>>
          /\ reply[f] = "session" => session[f] = s
      BY <3>11 DEF Like
    <3>7. f # c BY <1>3, <3>6 DEF None
    <3>8. Repeats(c, f)' BY <1>2, <1>5, <1>6, <2>10, <3>1, <3>6, <3>7 DEF Repeats
    <3> QED BY <3>8
  <2>22. Word'
    <3> SUFFICES ASSUME NEW e \in Calls, stage'[e] = "cleared" \/ ran'[e].where # None, NeedsOwner(e)',
                        Config[place'[e]].mode # "full_access"
                 PROVE  reply'[e] \in Approved \/ \E f \in Calls : Repeats(e, f)'
      BY DEF Word
    <3>1. CASE e = c BY <1>2, <1>3, <2>10, <2>11, <2>21, <3>1
    <3>2. CASE e # c
      <4>1. reply[e] \in Approved \/ \E f \in Calls : Repeats(e, f)
        BY <1>2, <2>10, <2>11, <2>20, <3>2 DEF Inv, Word
      <4> QED BY <1>2, <2>20, <3>2, <4>1
    <3> QED BY <3>1, <3>2
  <2>23. NeverAGuess' BY <1>1, <1>2, <1>5, <1>6, <2>10 DEF Inv, NeverAGuess
  <2>26. \A v : v # None /\ Browsed(v) => \E e \in Calls : offer'[e].tool = "browser" /\ place'[e] = v
    BY <1>5, <1>9, <2>10
  <2>24. RunsWhereAsked'
    <3>1. \A e \in Calls : ran'[e].where # None =>
            /\ e # c
            /\ \/ ran'[e].where = place'[e]
               \/ /\ offer'[e].tool = "browser"
                  /\ \E f \in Calls : offer'[f].tool = "browser" /\ place'[f] = ran'[e].where
      BY <1>2, <1>3, <1>5, <2>10, <2>26 DEF Inv, RunsWhereAsked
    <3> QED BY <3>1 DEF RunsWhereAsked, Browsed
  <2>27. Taken'
    <3>1. CASE o.tool = "browser"
      <4>1. browsing' = w BY <1>8, <3>1
      <4> QED BY <1>6, <2>1, <2>10, <3>1, <4>1 DEF Taken, Browsed
    <3>2. CASE o.tool # "browser"
      <4>1. browsing' = browsing BY <1>8, <3>2
      <4>2. \A e \in Calls : place'[e] # None /\ offer'[e].tool = "browser" => browsing' # None
        BY <1>5, <1>6, <2>10, <3>2, <4>1 DEF Inv, Taken
      <4>3. browsing' # None =>
              \E e \in Calls : offer'[e].tool = "browser" /\ place'[e] = browsing'
        BY <2>26, <4>1 DEF Inv, Taken
      <4> QED BY <4>2, <4>3 DEF Taken, Browsed
    <3> QED BY <3>1, <3>2
  <2>25. ReadOnlyMeansIt' BY <1>2, <1>3, <1>5, <2>10 DEF Inv, ReadOnlyMeansIt
  <2> QED BY <2>12, <2>13, <2>14, <2>15, <2>17, <2>19, <2>22, <2>23, <2>24, <2>25, <2>27 DEF Inv
<1> QED BY <1>7, <1>8 DEF Describe

LEMMA NextKeeps == Inv /\ [Next]_vars => Inv'
<1> SUFFICES ASSUME Inv, [Next]_vars PROVE Inv'
  OBVIOUS
<1>1. CASE \E s \in Sessions, w \in registry : Use(s, w) BY <1>1, UseKeeps
<1>2. ASSUME NEW c \in Calls, NEW s \in Sessions, NEW o \in mayAsk[c], NEW w \in registry \cup {None},
             Describe(c, s, o, w)
      PROVE  Inv'
  BY <1>2, DescribeKeeps
<1>3. ASSUME NEW c \in Calls, NEW outcome \in Approved \cup {"deny"}, Answer(c, outcome) PROVE Inv'
  BY <1>3, AnswerKeeps
<1>4. ASSUME NEW c \in Calls, NEW m \in Manifests, Run(c, m) PROVE Inv'
  BY <1>4, RunKeeps
<1>5. CASE \E w \in registry, m \in Manifests : Edit(w, m) BY <1>5, EditKeeps
<1>6. CASE UNCHANGED vars
  <2>1. UNCHANGED <<registry, active, browsing, manifest, rules, stage, session, offer, named,
                    place, request, verdict, reply, ran, picked, mayAsk>>
    BY <1>6 DEF vars, asks, bounds
  <2>2. TypeI' /\ Staged' /\ Chosen' BY <2>1 DEF Inv, TypeI, Staged, Chosen
  <2>3. Described' BY <2>1 DEF Inv, Described
  <2>4. ReadOnly' /\ NeverAGuess' /\ ReadOnlyMeansIt'
    BY <2>1 DEF Inv, ReadOnly, NeverAGuess, ReadOnlyMeansIt
  <2>7. RunsWhereAsked' /\ Taken' BY <2>1 DEF Inv, RunsWhereAsked, Taken, Browsed
  <2>5. RulesEarned' BY <2>1 DEF Inv, RulesEarned, Earned
  <2>6. Word' BY <2>1 DEF Inv, Word, NeedsOwner, Beyond, Repeats
  <2> QED BY <2>2, <2>3, <2>4, <2>5, <2>6, <2>7 DEF Inv
<1> QED BY <1>1, <1>2, <1>3, <1>4, <1>5, <1>6 DEF Next

-----------------------------------------------------------------------------
(* What is run is what was shown.  Of a call whose files stand as they did *)
(* the request is the one it would make now; what has run was shown.       *)
AsItStands ==
  \A c \in Calls : place[c] # None /\ ~edited[c] =>
    request[c] = RequestOf(session[c], offer[c], CommandLine(offer[c], place[c]))

ShownI == AsItStands /\ ShownIsWhatRuns

(* A request shows what would be run for it at that moment, but for what   *)
(* the package manager adds and a brief's template.                        *)
LEMMA RequestShows ==
  ASSUME NEW s, NEW o \in Offers, NEW w,
         NEW q, q = RequestOf(s, o, CommandLine(o, w))
  PROVE  \A t \in WhatRuns(o, w) :
           /\ o.does # "dev"
           /\ o.does = "task" => t \notin NpmAdds(w, o.op)
           /\ o.does = "delegate" => t # Template(w)
           => /\ t \in {q.payload[i] : i \in DOMAIN q.payload}
              /\ o.does \in {"task", "command"} => q.cmd /\ q.line = <<t>>
<1> SUFFICES ASSUME NEW t \in WhatRuns(o, w), o.does # "dev",
                    o.does = "task" => t \notin NpmAdds(w, o.op),
                    o.does = "delegate" => t # Template(w)
             PROVE  /\ t \in {q.payload[i] : i \in DOMAIN q.payload}
                    /\ o.does \in {"task", "command"} => q.cmd /\ q.line = <<t>>
  OBVIOUS
<1> DEFINE l == CommandLine(o, w)
<1>1. /\ q.payload = <<o.arg, l>> /\ q.line = <<l>>
      /\ q.cmd = (l # None)
  BY DEF RequestOf
<1>2. {o.arg, l} \subseteq {q.payload[i] : i \in DOMAIN q.payload} BY <1>1
<1>3. \/ t = l /\ l # None
      \/ t = o.arg /\ o.does \notin {"task", "command"}
  <2>1. CASE o.does = "task"
    <3>1. l = TaskLine(w, o.op) BY <2>1, OfferFacts DEF CommandLine
    <3>2. t \in TaskRuns(w, o.op) BY <2>1 DEF WhatRuns
    <3>3. TaskLine(w, o.op) # None /\ t = TaskLine(w, o.op)
      BY <2>1, <3>2 DEF TaskRuns, Started
    <3> QED BY <3>1, <3>3
  <2>2. CASE o.does = "delegate"
    <3>1. t \in DelegateRuns(w, o.arg) BY <2>2 DEF WhatRuns
    <3> QED BY <2>2, <3>1 DEF DelegateRuns
  <2>3. CASE o.does = "command"
    <3>1. o.tool = "shell" BY <2>3, OffersKnown DEF Known, Is
    <3>2. l = o.arg /\ o.arg # None
      BY <2>3, <3>1, ShellText, FoundAssumption DEF CommandLine
    <3>3. t = o.arg BY <2>3 DEF WhatRuns
    <3> QED BY <3>2, <3>3
  <2>4. CASE o.does \in {"page code", "fetch"}
    <3>1. t = o.arg BY <2>4 DEF WhatRuns
    <3> QED BY <2>4, <3>1
  <2>5. CASE o.does \notin {"task", "dev", "delegate", "command", "page code", "fetch"}
    BY <2>5 DEF WhatRuns
  <2> QED BY <2>1, <2>2, <2>3, <2>4, <2>5
<1> QED BY <1>1, <1>2, <1>3

(* A call whose files stand as they did comes to the same command line.    *)
LEMMA SameFilesSameLine ==
  ASSUME NEW c, offer'[c] = offer[c], place'[c] = place[c],
         manifest'[place[c]] = manifest[place[c]]
  PROVE  CommandLine(offer[c], place[c])' = CommandLine(offer[c], place[c])
BY DEF CommandLine, TaskLine

(* While calls only wait, nothing but their files can move.                *)
LEMMA FilesMove ==
  ASSUME Inv, AsItStands, NEW w, NoteEdit(w),
         \A v \in registry : v # w => manifest'[v] = manifest[v],
         UNCHANGED <<session, offer, place, request>>
  PROVE  /\ AsItStands'
         /\ \A c \in Calls : ~edited'[c] => ~edited[c]
         /\ \A c \in Calls : place[c] # None /\ ~edited'[c] =>
              manifest'[place[c]] = manifest[place[c]]
<1>1. ASSUME NEW c \in Calls, ~edited'[c]
      PROVE  /\ ~edited[c]
             /\ place[c] = w => manifest'[w] = manifest[w]
  <2>1. edited'[c] = (edited[c] \/ (place[c] = w /\ manifest'[w] # manifest[w]))
    BY DEF NoteEdit
  <2> QED BY <1>1, <2>1, Zenon
<1>3. ASSUME NEW c \in Calls, place[c] # None, ~edited'[c]
      PROVE  manifest'[place[c]] = manifest[place[c]]
  <2>1. place[c] \in registry BY <1>3 DEF Inv, TypeI
  <2> QED BY <1>1, <1>3, <2>1
<1>2. ASSUME NEW c \in Calls, place'[c] # None, ~edited'[c]
      PROVE  request'[c] = RequestOf(session'[c], offer'[c], CommandLine(offer[c], place[c])')
  <2>1. place[c] # None BY <1>2
  <2>2. manifest'[place[c]] = manifest[place[c]] BY <1>2, <1>3, <2>1
  <2>3. CommandLine(offer[c], place[c])' = CommandLine(offer[c], place[c])
    BY <2>2, SameFilesSameLine
  <2>4. request[c] = RequestOf(session[c], offer[c], CommandLine(offer[c], place[c]))
    BY <1>1, <1>2, <2>1 DEF AsItStands
  <2> QED BY <2>3, <2>4
<1> QED BY <1>1, <1>2, <1>3 DEF AsItStands

(* A call that has run keeps what was shown of it.                         *)
LEMMA RanStays ==
  ASSUME Inv, ShownIsWhatRuns, NEW c \in Calls, ran'[c].where # None, ~edited[c],
         ran'[c] = ran[c], offer'[c] = offer[c], request'[c] = request[c], place'[c] = place[c],
         manifest'[place[c]] = manifest[place[c]]
  PROVE  \A t \in ran'[c].what \ Unshown(c)' : AsShown(c, t)'
<1>1. \A t \in ran[c].what \ Unshown(c) : AsShown(c, t) BY DEF ShownIsWhatRuns
<1>2. NpmAdds(place[c], offer[c].op)' = NpmAdds(place[c], offer[c].op) BY DEF NpmAdds
<1>3. Unshown(c)' = Unshown(c) BY <1>2 DEF Unshown, Template
<1>4. \A t : AsShown(c, t)' = AsShown(c, t) BY DEF AsShown, Shown
<1> QED BY <1>1, <1>3, <1>4

LEMMA InitShown == Init => ShownI
<1> SUFFICES ASSUME Init PROVE ShownI
  OBVIOUS
<1>1. \A c \in Calls : place[c] = None /\ ran[c].where = None BY DEF Init, NotRun
<1> QED BY <1>1 DEF ShownI, AsItStands, ShownIsWhatRuns

(* The description puts the command line of that moment in the request.    *)
LEMMA DescribeShows ==
  ASSUME Inv, ShownI, NEW c \in Calls, NEW s \in Sessions, NEW o \in mayAsk[c],
         NEW alias \in registry \cup {None}, Describe(c, s, o, alias)
  PROVE  ShownI'
<1> DEFINE w == Resolve(s, alias)
<1>1. /\ stage[c] = "new" /\ session' = [session EXCEPT ![c] = s] /\ offer' = [offer EXCEPT ![c] = o]
      /\ UNCHANGED <<manifest, ran, edited>>
      /\ \/ UNCHANGED <<place, request>>
         \/ /\ place' = [place EXCEPT ![c] = w]
            /\ request' = [request EXCEPT ![c] = Guarded(s, o, w)]
  BY DEF Describe
<1>2. place[c] = None /\ ran[c].where = None BY <1>1 DEF Inv, Staged
<1>3. \A e \in Calls \ {c} : /\ session'[e] = session[e] /\ offer'[e] = offer[e]
                              /\ place'[e] = place[e] /\ request'[e] = request[e]
  BY <1>1 DEF Inv, TypeI
<1>4. ASSUME NEW e \in Calls, place'[e] # None, ~edited'[e]
      PROVE  request'[e] = RequestOf(session'[e], offer'[e], CommandLine(offer[e], place[e])')
  <2>1. CASE e # c
    <3>1. CommandLine(offer[e], place[e])' = CommandLine(offer[e], place[e])
      BY <1>1, <1>3, <2>1, SameFilesSameLine
    <3>2. request[e] = RequestOf(session[e], offer[e], CommandLine(offer[e], place[e]))
      BY <1>1, <1>3, <1>4, <2>1 DEF ShownI, AsItStands
    <3> QED BY <1>3, <2>1, <3>1, <3>2
  <2>2. CASE e = c
    <3>1. /\ session'[c] = s /\ offer'[c] = o /\ place'[c] = w
          /\ request'[c] = Guarded(s, o, w)
      BY <1>1, <1>2, <1>4, <2>2 DEF Inv, TypeI
    <3> HIDE DEF w
    <3>2. CommandLine(offer[c], place[c])' = CommandLine(o, w)
      <4>2. manifest' = manifest BY <1>1
      <4>1. TaskLine(place[c], offer[c].op)' = TaskLine(w, o.op) BY <3>1, <4>2 DEF TaskLine
      <4> QED BY <3>1, <4>1 DEF CommandLine
    <3>3. Guarded(s, o, w) = RequestOf(s, o, CommandLine(o, w)) BY GuardedIs
    <3> QED BY <2>2, <3>1, <3>2, <3>3
  <2> QED BY <2>1, <2>2
<1>5. ASSUME NEW e \in Calls, ran'[e].where # None, ~edited'[e]
      PROVE  \A t \in ran'[e].what \ Unshown(e)' : AsShown(e, t)'
  <2>1. e # c BY <1>1, <1>2, <1>5
  <2>2. ran'[e] = ran[e] /\ ~edited[e] /\ manifest' = manifest BY <1>1, <1>5
  <2> QED BY <1>3, <1>5, <2>1, <2>2, RanStays DEF ShownI
<1>6. AsItStands' BY <1>4 DEF AsItStands
<1>7. ShownIsWhatRuns' BY <1>5 DEF ShownIsWhatRuns
<1> QED BY <1>6, <1>7 DEF ShownI

(* The run reads the files again, which stand as they did or are marked.   *)
LEMMA RunShows ==
  ASSUME Inv, ShownI, NEW c \in Calls, NEW m \in Manifests, Run(c, m) PROVE ShownI'
<1> DEFINE w == place[c]
           what == WhatRuns(offer[c], w)
<1>1. /\ stage[c] = "cleared" /\ ran' = [ran EXCEPT ![c] = [where |-> Where(c), what |-> what]]
      /\ manifest' = manifest \/ manifest' = [manifest EXCEPT ![w] = m]
      /\ NoteEdit(w)
      /\ UNCHANGED <<session, offer, place, request>>
  BY DEF Run, asks
<1>2. w \in registry /\ w # None /\ offer[c] \in Offers
  BY <1>1 DEF Inv, TypeI, Staged, Described
<1>3. \A v \in registry : v # w => manifest'[v] = manifest[v] BY <1>1 DEF Inv, TypeI
<1> HIDE DEF what
<1>4. /\ ran'[c].what = what
      /\ \A d \in Calls \ {c} : ran'[d] = ran[d]
  BY <1>1 DEF Inv, TypeI
<1>5. /\ AsItStands'
      /\ \A d \in Calls : ~edited'[d] => ~edited[d]
      /\ \A d \in Calls : place[d] # None /\ ~edited'[d] => manifest'[place[d]] = manifest[place[d]]
  <2> HIDE DEF w
  <2> QED BY <1>1, <1>3, FilesMove DEF ShownI
<1>6. ASSUME NEW e \in Calls, ran'[e].where # None, ~edited'[e]
      PROVE  \A t \in ran'[e].what \ Unshown(e)' : AsShown(e, t)'
  <2>1. ~edited[e] BY <1>5, <1>6
  <2>2. CASE e # c
    <3>1. ran'[e] = ran[e] BY <1>4, <2>2
    <3>2. place[e] # None BY <1>6, <3>1 DEF Inv, Staged
    <3>3. manifest'[place[e]] = manifest[place[e]] BY <1>5, <1>6, <3>2
    <3> QED BY <1>1, <1>6, <2>1, <3>1, <3>3, RanStays DEF ShownI
  <2>3. CASE e = c
    <3>1. request[c] = RequestOf(session[c], offer[c], CommandLine(offer[c], w))
      BY <1>2, <2>1, <2>3 DEF ShownI, AsItStands
    <3>2. ran'[c].what = what /\ manifest'[w] = manifest[w] BY <1>2, <1>4, <1>5, <1>6, <2>3
    <3> SUFFICES ASSUME NEW t \in what, t \notin Unshown(c)' PROVE AsShown(c, t)'
      BY <2>3, <3>2
    <3>3. /\ offer[c].does # "dev"
          /\ offer[c].does = "task" => t \notin NpmAdds(w, offer[c].op)
          /\ offer[c].does = "delegate" => t # Template(w)
      <4>1. offer'[c] = offer[c] /\ place'[c] = w BY <1>1
      <4>2. NpmAdds(place[c], offer[c].op)' = NpmAdds(w, offer[c].op)
        BY <3>2, <4>1 DEF NpmAdds
      <4>3. Template(place[c])' = Template(w) BY <4>1 DEF Template
      <4> QED BY <3>2, <4>1, <4>2, <4>3 DEF Unshown
    <3>4. /\ t \in {request[c].payload[i] : i \in DOMAIN request[c].payload}
          /\ offer[c].does \in {"task", "command"} => request[c].cmd /\ request[c].line = <<t>>
      <4>1. t \in WhatRuns(offer[c], w) BY DEF what
      <4>2. offer[c] \in Offers BY <1>2
      <4> HIDE DEF w
      <4>3. \A x \in WhatRuns(offer[c], w) :
              /\ offer[c].does # "dev"
              /\ offer[c].does = "task" => x \notin NpmAdds(w, offer[c].op)
              /\ offer[c].does = "delegate" => x # Template(w)
              => /\ x \in {request[c].payload[i] : i \in DOMAIN request[c].payload}
                 /\ offer[c].does \in {"task", "command"} =>
                      request[c].cmd /\ request[c].line = <<x>>
        BY <3>1, <4>2, RequestShows
      <4> QED BY <3>3, <4>1, <4>3
    <3>5. request'[c] = request[c] /\ offer'[c] = offer[c] BY <1>1
    <3> QED BY <3>4, <3>5 DEF AsShown, Shown
  <2> QED BY <2>2, <2>3
<1>7. ShownIsWhatRuns' BY <1>6 DEF ShownIsWhatRuns
<1> QED BY <1>5, <1>7 DEF ShownI

LEMMA EditShows ==
  ASSUME Inv, ShownI, NEW w \in registry, NEW m \in Manifests, Edit(w, m) PROVE ShownI'
<1>1. /\ manifest' = [manifest EXCEPT ![w] = m] /\ NoteEdit(w)
      /\ UNCHANGED <<session, offer, place, request, ran>>
  BY DEF Edit, asks
<1>2. \A v \in registry : v # w => manifest'[v] = manifest[v] BY <1>1 DEF Inv, TypeI
<1>3. /\ AsItStands'
      /\ \A d \in Calls : ~edited'[d] => ~edited[d]
      /\ \A d \in Calls : place[d] # None /\ ~edited'[d] => manifest'[place[d]] = manifest[place[d]]
  BY <1>1, <1>2, FilesMove DEF ShownI
<1>4. ASSUME NEW e \in Calls, ran'[e].where # None, ~edited'[e]
      PROVE  \A t \in ran'[e].what \ Unshown(e)' : AsShown(e, t)'
  <2>1. ~edited[e] BY <1>3, <1>4
  <2>2. place[e] # None BY <1>1, <1>4 DEF Inv, Staged
  <2>3. manifest'[place[e]] = manifest[place[e]] BY <1>3, <1>4, <2>2
  <2> QED BY <1>1, <1>4, <2>1, <2>3, RanStays DEF ShownI
<1>5. ShownIsWhatRuns' BY <1>4 DEF ShownIsWhatRuns
<1> QED BY <1>3, <1>5 DEF ShownI

LEMMA NextShows == Inv /\ ShownI /\ [Next]_vars => ShownI'
<1> SUFFICES ASSUME Inv, ShownI, [Next]_vars PROVE ShownI'
  OBVIOUS
<1>0. ASSUME UNCHANGED <<manifest, session, offer, place, request, ran, edited>> PROVE ShownI'
  <2>1. \A c \in Calls : CommandLine(offer[c], place[c])' = CommandLine(offer[c], place[c])
    BY <1>0, SameFilesSameLine
  <2>2. AsItStands' BY <1>0, <2>1 DEF ShownI, AsItStands
  <2>3. ASSUME NEW e \in Calls, ran'[e].where # None, ~edited'[e]
        PROVE  \A t \in ran'[e].what \ Unshown(e)' : AsShown(e, t)'
    BY <1>0, <2>3, RanStays DEF ShownI
  <2>4. ShownIsWhatRuns' BY <2>3 DEF ShownIsWhatRuns
  <2> QED BY <2>2, <2>4 DEF ShownI
<1>1. ASSUME NEW s \in Sessions, NEW w \in registry, Use(s, w) PROVE ShownI'
  BY <1>0, <1>1 DEF Use, asks
<1>2. ASSUME NEW c \in Calls, NEW s \in Sessions, NEW o \in mayAsk[c], NEW w \in registry \cup {None},
             Describe(c, s, o, w)
      PROVE  ShownI'
  BY <1>2, DescribeShows
<1>3. ASSUME NEW c \in Calls, NEW outcome \in Approved \cup {"deny"}, Answer(c, outcome)
      PROVE  ShownI'
  BY <1>0, <1>3 DEF Answer, asks
<1>4. ASSUME NEW c \in Calls, NEW m \in Manifests, Run(c, m) PROVE ShownI'
  BY <1>4, RunShows
<1>5. CASE \E w \in registry, m \in Manifests : Edit(w, m) BY <1>5, EditShows
<1>6. CASE UNCHANGED vars BY <1>0, <1>6 DEF vars, asks
<1> QED BY <1>1, <1>2, <1>3, <1>4, <1>5, <1>6 DEF Next

-----------------------------------------------------------------------------
(* A call runs where it was described, though its conversation may have    *)
(* chosen another workspace while the owner thought; a browser call alone  *)
(* may run where another one took the browser (server.py:102-103, 494,     *)
(* runtime.py:91-92, workspace.py:7-9).                                    *)
THEOREM RunsInItsPlace == Spec => []RunsWhereAsked
<1>1. Inv => RunsWhereAsked BY DEF Inv
<1> QED BY InitInv, NextKeeps, <1>1, PTL DEF Spec

(* No workspace is guessed, nor taken from another conversation            *)
(* (workspace.py:149-171).                                                 *)
THEOREM NothingIsGuessed == Spec => []NeverAGuess
<1>1. Inv => NeverAGuess BY DEF Inv
<1> QED BY InitInv, NextKeeps, <1>1, PTL DEF Spec

(* In a read-only workspace calls only look, whatever is asked and         *)
(* whatever rules approvals elsewhere have left (tiers.py:14-21,           *)
(* engine.py:131-160).                                                     *)
THEOREM ReadOnlyIsKept == Spec => []ReadOnlyMeansIt
<1>1. Inv => ReadOnlyMeansIt BY DEF Inv
<1> QED BY InitInv, NextKeeps, <1>1, PTL DEF Spec

(* What is for the owner to decide, as it was judged and as it is run,     *)
(* runs only on the owner's word for this call, or for one like it where   *)
(* that was to be remembered; the development server, what a package       *)
(* manager adds to a script and files edited meanwhile apart               *)
(* (server.py:381-406, gateway.py:77-97, rules.py:66-101).                 *)
THEOREM OwnersWord == Spec => []AskedOrRemembered
<1>1. Init => Inv /\ ShownI BY InitInv, InitShown
<1>2. (Inv /\ ShownI) /\ [Next]_vars => (Inv /\ ShownI)' BY NextKeeps, NextShows
<1>3. Inv /\ ShownI => AskedOrRemembered
  <2> SUFFICES ASSUME Inv, ShownI, NEW c \in Calls, ran[c].where # None,
                      Config[place[c]].mode # "full_access", NeedsOwner(c) \/ RunsBeyond(c)
               PROVE  reply[c] \in Approved \/ \E d \in Calls : Repeats(c, d)
    BY DEF AskedOrRemembered
  <2>1. RunsBeyond(c) => NeedsOwner(c)
    <3> SUFFICES ASSUME RunsBeyond(c) PROVE NeedsOwner(c)
      OBVIOUS
    <3>1. PICK t \in ran[c].what \ Unshown(c) : Beyond(t) BY DEF RunsBeyond
    <3>2. AsShown(c, t) /\ offer[c].does \in {"task", "command"}
      BY <3>1 DEF RunsBeyond, ShownI, ShownIsWhatRuns
    <3>3. request[c].cmd /\ request[c].line[1] = t BY <3>2 DEF AsShown
    <3> QED BY <3>1, <3>3 DEF NeedsOwner
  <2>2. NeedsOwner(c) BY <2>1
  <2> QED BY <2>2 DEF Inv, Word
<1> QED BY <1>1, <1>2, <1>3, PTL DEF Spec

(* What runs is what the owner was shown, and a command what was           *)
(* classified, unless the workspace's files were edited in between; the    *)
(* development server, what a package manager adds to a script and the     *)
(* template of a delegate apart (server.py:392-405, project.py:69-103).    *)
THEOREM NothingElseRuns == Spec => []ShownIsWhatRuns
<1>1. Init => Inv /\ ShownI BY InitInv, InitShown
<1>2. (Inv /\ ShownI) /\ [Next]_vars => (Inv /\ ShownI)' BY NextKeeps, NextShows
<1>3. Inv /\ ShownI => ShownIsWhatRuns BY DEF ShownI
<1> QED BY <1>1, <1>2, <1>3, PTL DEF Spec
=============================================================================
