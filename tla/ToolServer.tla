----------------------------- MODULE ToolServer -----------------------------
(***************************************************************************)
(* mcp/server.py, with the conversations of core/workspace.py and the      *)
(* commands of core/tools/project.py and delegate.py: how a tool call      *)
(* becomes a request for the gateway, and what is run for it afterwards.   *)
(*                                                                         *)
(* A handler resolves a workspace and describes what it wants; the gateway *)
(* judges that and may wait minutes for the owner; then the handler's      *)
(* callable runs and reads the workspace again.  Meanwhile conversations   *)
(* change workspace, the files that say what a task runs are edited, and   *)
(* the one browser all calls share is pointed at another workspace.        *)
(* Handlers that go past the gateway (workspace list and info, notify,     *)
(* system) change nothing that is kept here.                               *)
(***************************************************************************)
EXTENDS PolicyRules

CONSTANTS Calls,       \* tool calls, one worker thread each
          Sessions,    \* conversations
          Starts,      \* the workspaces there may be at first, with their manifests
          Config,      \* [alias -> [mode, push, scripts, delegate]]
          Machine,     \* [delegate, installed]: the template of the whole machine, the default's
          Texts,       \* what may be given: command lines, expressions, URLs and briefs
          Found,       \* [command line -> [tier, listed]]: what classify finds
          Briefs,      \* the texts short enough for a delegate
          Manifests,   \* what a workspace's files may say of its tasks
          Mixes,       \* bound: what each call may ask for, the ways to choose from
          MaxUses,     \* bound: how often a conversation chooses
          MaxEdits     \* bound: how often a manifest is edited from outside

VARIABLES registry,    \* WorkspaceRegistry: read once, at the start
          active,      \* Sessions._active
          browsing,    \* Runtime._browser.workspace; None before the first call
          manifest,    \* package.json, lockfile and pyproject.toml of each workspace
          rules,       \* the rules the engine remembers
          stage,       \* where each call stands
          session, offer, named,   \* whose call it is, what it asks for and where
          place,       \* the workspace it resolved
          request,     \* what the gateway is shown
          verdict, reply,          \* what the engine and the owner said
          ran,         \* what was run for it, and in which workspace
          picked,      \* history: the workspaces each conversation chose
          edited,      \* history: its manifest changed since it was described
          mayAsk, uses, edits      \* what the bounds leave

asks == <<session, offer, named, place, request>>
bounds == <<mayAsk, uses, edits>>
vars == <<registry, active, browsing, manifest, rules, stage, asks, verdict, reply, ran,
          picked, edited, bounds>>

None     == "none"
Approved == {"once", "session", "remember"}

-----------------------------------------------------------------------------
(* The tools and their operations: the tier each is declared with, and     *)
(* what its callable does.                                                 *)
Offer(tool, ops, tier, does, args) ==
  {[tool |-> tool, op |-> o, tier |-> tier, does |-> does, arg |-> a] : o \in ops, a \in args}

read_file_tool == Offer("read_file", {None}, READ, "look", {None})

search_tool == Offer("search", {"text", "files"}, READ, "look", {None})

write_file_tool == Offer("write_file", {None}, WRITE, "write", {None})

apply_patch_tool_AlwaysRead ==
  Offer("apply_patch", {"dry_run"}, READ, "look", {None})
  \cup Offer("apply_patch", {None}, READ, "write", {None})

apply_patch_tool == Offer("apply_patch", {"dry_run"}, READ, "look", {None})
                    \cup Offer("apply_patch", {None}, WRITE, "write", {None})

git_tool ==
  Offer("git", {"status", "diff", "log", "show", "branches", "checkpoints"}, READ, "look", {None})
  \cup Offer("git", {"add", "commit", "stash", "undo"}, WRITE, "write", {None})

Tasks == {"test", "lint", "typecheck", "build", "install"}

project_tool == Offer("project", {"describe"}, READ, "look", {None})
                \cup Offer("project", {"dev"}, EXEC_ALLOWED, "dev", {None})
                \cup Offer("project", Tasks \cup {"deploy"}, EXEC_ALLOWED, "task", {None})

shell_tool == Offer("shell", {None}, EXEC_OTHER, "command", Texts)

process_tool == Offer("process", {"list", "logs"}, READ, "look", {None})
                \cup Offer("process", {"stop", "stop_all"}, WRITE, "stop", {None})

browser_tool ==
  Offer("browser", {"snapshot", "console", "network", "screenshot"}, READ, "look", {None})
  \cup Offer("browser", {"launch", "navigate", "click", "type"}, EXEC_ALLOWED, "browse", {None})
  \cup Offer("browser", {"eval"}, EXEC_OTHER, "page code", Texts)

web_fetch_tool == Offer("web_fetch", {None}, EGRESS, "fetch", Texts)

codex_run_tool == Offer("codex_run", {"list"}, READ, "look", {None})
                  \cup Offer("codex_run", {"run"}, EXEC_OTHER, "delegate", Texts)

Offers == UNION {read_file_tool, search_tool, write_file_tool, apply_patch_tool, git_tool,
                 project_tool, shell_tool, process_tool, browser_tool, web_fetch_tool,
                 codex_run_tool}

-----------------------------------------------------------------------------
(* What is asked is one of these.  Every command line has been classified, *)
(* with a tier no lower than classify's lowest.  "none" and "any" stand    *)
(* for what is not given, and name no workspace and no conversation.       *)
Lines == DOMAIN Found

Scripted(m) == \A task \in Tasks \cup {"dev", "deploy"} : m.scripts[task] \in Lines

ASSUME AskedAssumption == \A mix \in Mixes : \A c \in Calls : mix[c] \subseteq Offers

ASSUME FoundAssumption ==
  /\ Texts \cup {"npm install", "pytest"} \subseteq Lines /\ None \notin Texts
  /\ \A t \in Lines : Found[t].tier \in EXEC_ALLOWED .. FORBIDDEN

ASSUME ConfigAssumption ==
  /\ {None, "any"} \cap (DOMAIN Config \cup Sessions) = {}
  /\ \A w \in DOMAIN Config : Config[w].mode \in Modes /\ Scripted(Config[w])
  /\ \A m \in Manifests : Scripted(m)
  /\ \A start \in Starts : /\ DOMAIN start \subseteq DOMAIN Config
                            /\ \A w \in DOMAIN start : Scripted(start[w])

NotRun    == [where |-> None, what |-> {}]
NoOffer   == [tool |-> None, op |-> None, tier |-> READ, does |-> None, arg |-> None]
NoRequest == [session |-> None, tool |-> None, op |-> None, payload |-> <<>>, tier |-> READ,
              cmd |-> FALSE, cmdTier |-> READ, listed |-> FALSE, line |-> <<>>]

Init ==
  /\ manifest \in Starts
  /\ registry = DOMAIN manifest
  /\ active   = [s \in Sessions |-> None] /\ browsing = None
  /\ rules    = <<>>
  /\ stage    = [c \in Calls |-> "new"]
  /\ session  = [c \in Calls |-> None]
  /\ offer    = [c \in Calls |-> NoOffer]
  /\ named    = [c \in Calls |-> None]
  /\ place    = [c \in Calls |-> None]
  /\ request  = [c \in Calls |-> NoRequest]
  /\ verdict  = [c \in Calls |-> None]
  /\ reply    = [c \in Calls |-> None]
  /\ ran      = [c \in Calls |-> NotRun]
  /\ picked   = [s \in Sessions |-> {}]
  /\ edited   = [c \in Calls |-> FALSE]
  /\ mayAsk \in Mixes /\ uses = 0 /\ edits = 0

(* WorkspaceRegistry.sole and Sessions.active.                             *)
ActiveIn_First(s) == IF active[s] # None THEN active[s] ELSE CHOOSE w \in registry : TRUE

ActiveIn(s) == IF active[s] # None THEN active[s]
               ELSE IF \E w \in registry : registry = {w}
               THEN CHOOSE w \in registry : TRUE ELSE None

(* Sessions.resolve; None when it refuses rather than guesses.             *)
Resolve(s, alias) == IF alias = None THEN ActiveIn(s)
                     ELSE IF alias \in registry THEN alias ELSE None

(* Sessions.use, through workspace(op="use"); an unknown name is told so.  *)
Use(s, alias) ==
  /\ uses < MaxUses
  /\ alias \in registry
  /\ active' = [active EXCEPT ![s] = alias]
  /\ picked' = [picked EXCEPT ![s] = @ \cup {alias}]
  /\ uses'   = uses + 1
  /\ UNCHANGED <<registry, browsing, manifest, rules, stage, asks, verdict, reply, ran, edited,
                 mayAsk, edits>>

-----------------------------------------------------------------------------
(* ProjectTools.resolve with script_body: the command line a task comes    *)
(* to, a script's own text where package.json has one for it.              *)
TaskLine_TaskName(w, task) ==
  LET has == manifest[w]
  IN  IF Config[w].scripts[task] # None THEN Config[w].scripts[task]
      ELSE IF has.package /\ has.scripts[task] # None THEN "npm run"
      ELSE IF task = "install" /\ has.package THEN "npm install"
      ELSE IF task = "test" /\ has.pyproject THEN "pytest"
      ELSE None

TaskLine(w, task) ==
  LET has == manifest[w]
  IN  IF Config[w].scripts[task] # None THEN Config[w].scripts[task]
      ELSE IF has.package /\ has.scripts[task] # None THEN has.scripts[task]
      ELSE IF task = "install" /\ has.package THEN "npm install"
      ELSE IF task = "test" /\ has.pyproject THEN "pytest"
      ELSE None

(* The command line the gateway is to classify.  A browser expression, a   *)
(* URL and a brief have none: their tier is the declared one.              *)
CommandLine_TaskName(o, w) == CASE o.tool = "shell" -> o.arg
                                [] o.does = "task"  -> TaskLine_TaskName(w, o.op)
                                [] OTHER            -> None

CommandLine(o, w) == CASE o.tool = "shell" -> o.arg
                       [] o.does = "task"  -> TaskLine(w, o.op)
                       [] OTHER            -> None

(* guarded: the request, whose payload is what a prompt shows.             *)
Guarded_NoCommand(s, o, w) ==
  LET line == CommandLine(o, w)
  IN  [session |-> s, tool |-> o.tool, op |-> o.op, payload |-> <<o.arg>>,
       tier |-> o.tier, cmd |-> line # None, cmdTier |-> Found[line].tier,
       listed |-> Found[line].listed, line |-> <<line>>]

Guarded(s, o, w) ==
  LET line == CommandLine(o, w)
  IN  [session |-> s, tool |-> o.tool, op |-> o.op, payload |-> <<o.arg, line>>,
       tier |-> o.tier, cmd |-> line # None, cmdTier |-> Found[line].tier,
       listed |-> Found[line].listed, line |-> <<line>>]

Askable(o, w) == w # None /\ (o.does = "task" => TaskLine(w, o.op) # None)

(* Gateway.call up to the verdict, as Gateway models it.                   *)
Judged(q, w) ==
  Decide(q, [alias |-> w, mode |-> Config[w].mode, push |-> Config[w].push,
             elevated |-> FALSE], rules, 0)

(* A handler up to the verdict; nothing waits in between.  Without a       *)
(* workspace, or a command for the task, it answers at once and nothing is *)
(* judged.  A browser call takes the shared browser to its workspace       *)
(* first, however it is judged (Runtime.browser).                          *)
Describe(c, s, o, alias) ==
  LET w == Resolve(s, alias)
  IN  /\ stage[c] = "new"
      /\ session' = [session EXCEPT ![c] = s]
      /\ offer'   = [offer EXCEPT ![c] = o]
      /\ named'   = [named EXCEPT ![c] = alias]
      /\ \/ /\ ~Askable(o, w)
            /\ stage' = [stage EXCEPT ![c] = "done"]
            /\ UNCHANGED <<place, request, verdict, browsing>>
         \/ /\ Askable(o, w)
            /\ place'   = [place EXCEPT ![c] = w]
            /\ browsing' = IF o.tool = "browser" THEN w ELSE browsing
            /\ request' = [request EXCEPT ![c] = Guarded(s, o, w)]
            /\ verdict' = [verdict EXCEPT ![c] = Judged(Guarded(s, o, w), w).decision]
            /\ stage'   = [stage EXCEPT ![c] = CASE verdict'[c] = "deny"  -> "done"
                                                 [] verdict'[c] = "ask"   -> "asking"
                                                 [] verdict'[c] = "allow" -> "cleared"]
      /\ UNCHANGED <<registry, active, manifest, rules, reply, ran, picked, edited, bounds>>

(* The owner's answer, or the refusal that takes its place.                *)
Answer(c, outcome) ==
  /\ stage[c] = "asking"
  /\ reply' = [reply EXCEPT ![c] = outcome]
  /\ stage' = [stage EXCEPT ![c] = IF outcome \in Approved THEN "cleared" ELSE "done"]
  /\ rules' = IF outcome \in {"session", "remember"}
              THEN RememberRule(rules, RuleFor(request[c], place[c], outcome)) ELSE rules
  /\ UNCHANGED <<registry, active, browsing, manifest, asks, verdict, ran, picked, edited, bounds>>

-----------------------------------------------------------------------------
(* DelegateTools.resolved_templates, argv_for and run: the template, with  *)
(* the brief put in it.  A delegate there is no template for, or a brief   *)
(* that is empty or too long, runs nothing.                                *)
Template(w) == IF Config[w].delegate # None THEN Config[w].delegate
               ELSE IF Machine.delegate # None THEN Machine.delegate ELSE Machine.installed

DelegateRuns(w, brief) ==
  IF brief \in Briefs /\ Template(w) # None THEN {Template(w), brief} ELSE {}

(* What the package manager runs besides a task's script: the scripts      *)
(* hooked before and after it, and installing, where the task is a script  *)
(* that is called install (the argv is [manager, "install"]).              *)
NpmAdds(w, task) ==
  LET has      == manifest[w]
      scripted == has.scripts[task] # None
  IN  IF Config[w].scripts[task] = None /\ has.package /\ (scripted \/ task = "install")
      THEN has.hooks[task] \cup {t \in {"npm install"} : scripted /\ task = "install"}
      ELSE {}

Started(w, task) == IF TaskLine(w, task) = None THEN {} ELSE {TaskLine(w, task)} \cup NpmAdds(w, task)

(* ProjectTools.run: it knows its own tasks only.                          *)
TaskRuns(w, task) == IF task \in Tasks THEN Started(w, task) ELSE {}

(* What the handler's callable runs, as things stand when it is called.    *)
WhatRuns(o, w) == CASE o.does = "task"                       -> TaskRuns(w, o.op)
                    [] o.does = "dev"                        -> Started(w, "dev")
                    [] o.does = "delegate"                   -> DelegateRuns(w, o.arg)
                    [] o.does \in {"command", "page code", "fetch"} -> {o.arg}
                    [] OTHER                                 -> {}

(* Where: in the workspace its tools were made for; the browser's are made *)
(* once, and are for the workspace of the latest call.                     *)
Where(c) == IF offer[c].tool = "browser" THEN browsing ELSE place[c]

(* The calls whose manifest moves under them.                              *)
NoteEdit(w) == edited' = [c \in Calls |-> edited[c] \/ (place[c] = w /\ manifest'[w] # manifest[w])]

(* Gateway._run calls it.  What a tool writes may be what says what a task *)
(* runs; what a command writes comes as an Edit.                           *)
Run_WhereItIsNow(c, m) ==
  LET w == Resolve(session[c], named[c])
  IN  /\ stage[c] = "cleared"
      /\ stage' = [stage EXCEPT ![c] = "done"]
      /\ ran'   = [ran EXCEPT ![c] = [where |-> w, what |-> WhatRuns(offer[c], w)]]
      /\ IF offer[c].does = "write"
         THEN manifest' = [manifest EXCEPT ![w] = m] ELSE UNCHANGED manifest
      /\ NoteEdit(w)
      /\ UNCHANGED <<registry, active, browsing, rules, asks, verdict, reply, picked, bounds>>

Run(c, m) ==
  LET w == place[c]
  IN  /\ stage[c] = "cleared"
      /\ stage' = [stage EXCEPT ![c] = "done"]
      /\ ran'   = [ran EXCEPT ![c] = [where |-> Where(c), what |-> WhatRuns(offer[c], w)]]
      /\ IF offer[c].does = "write"
         THEN manifest' = [manifest EXCEPT ![w] = m] ELSE UNCHANGED manifest
      /\ NoteEdit(w)
      /\ UNCHANGED <<registry, active, browsing, rules, asks, verdict, reply, picked, bounds>>

(* The user, a command or a delegate edits a workspace's files.            *)
Edit(w, m) ==
  /\ edits < MaxEdits
  /\ manifest' = [manifest EXCEPT ![w] = m]
  /\ edits'    = edits + 1
  /\ NoteEdit(w)
  /\ UNCHANGED <<registry, active, browsing, rules, stage, asks, verdict, reply, ran, picked, mayAsk,
                 uses>>

-----------------------------------------------------------------------------
Next ==
  \/ \E s \in Sessions, w \in registry : Use(s, w)
  \/ \E c \in Calls :
       \/ stage[c] = "new" /\ \E s \in Sessions, o \in mayAsk[c], w \in registry \cup {None} :
                                Describe(c, s, o, w)
       \/ \E outcome \in Approved \cup {"deny"} : Answer(c, outcome)
       \/ \E m \in Manifests : Run(c, m)
  \/ \E w \in registry, m \in Manifests : Edit(w, m)

Spec == Init /\ [][Next]_vars

-----------------------------------------------------------------------------
(* A call runs in the workspace it was described with, and so the one the  *)
(* owner was shown, although its conversation has chosen another while it  *)
(* waited (server.py:102-103, 186-195; workspace.py:7-9).  A browser call  *)
(* alone may find the browser taken elsewhere, and then by another browser *)
(* call, to the workspace that one was described with (runtime.py:91-92).  *)
Browsed(w) == \E d \in Calls : offer[d].tool = "browser" /\ place[d] = w

RunsWhereAsked ==
  \A c \in Calls : ran[c].where # None =>
    \/ ran[c].where = place[c]
    \/ offer[c].tool = "browser" /\ Browsed(ran[c].where)

(* Without that exception, which the code does not keep and no run checks: *)
(* a launch that waits for the owner is spawned where the browser was      *)
(* taken meanwhile (server.py:494, browser.py:109).                        *)
BrowsesWhereAsked == \A c \in Calls : ran[c].where # None => ran[c].where = place[c]

(* Never a guess: the workspace a call works in was named in the call,     *)
(* chosen in the same conversation, or is the only one there is, whatever  *)
(* other conversations have chosen (workspace.py:149-171).                 *)
NeverAGuess ==
  \A c \in Calls : place[c] # None =>
    \/ place[c] = named[c]
    \/ place[c] \in picked[session[c]]
    \/ registry = {place[c]}

(* What runs is what the owner was shown, word for word, and if it is a    *)
(* command what the classifier was, unless the workspace's files were      *)
(* edited in between.  Apart from this are the development server, of      *)
(* which nothing is shown, what the package manager adds to a task's       *)
(* script, and the template a brief is put in (server.py:392-405, 583-590).*)
Shown(c) == {request[c].payload[i] : i \in DOMAIN request[c].payload}

Unshown(c) == CASE offer[c].does = "task"     -> NpmAdds(place[c], offer[c].op)
                [] offer[c].does = "delegate" -> {Template(place[c])}
                [] offer[c].does = "dev"      -> ran[c].what
                [] OTHER                      -> {}

AsShown(c, t) ==
  /\ t \in Shown(c)
  /\ offer[c].does \in {"task", "command"} => request[c].cmd /\ request[c].line = <<t>>

ShownIsWhatRuns ==
  \A c \in Calls : ran[c].where # None /\ ~edited[c] =>
    \A t \in ran[c].what \ Unshown(c) : AsShown(c, t)

(* The same with nothing apart, which the code does not keep and no run    *)
(* checks, although of a delegate delegate.py:11-12 says it.               *)
AllIsShown ==
  \A c \in Calls : ran[c].where # None /\ ~edited[c] => \A t \in ran[c].what : AsShown(c, t)

(* What was classified is what then runs, whatever is edited in between,   *)
(* as the comment at server.py:392 says.                                   *)
JudgedIsWhatRuns ==
  \A c \in Calls :
    ran[c].what # {} /\ request[c].cmd => request[c].line[1] \in ran[c].what

(* Outside full access nothing reaches a page, the network, a delegate or  *)
(* a shell with more than its allowlist unless the owner approved that     *)
(* call, or said of one like it, of the same text and the same command     *)
(* line in the same workspace, that it may be repeated: by the same        *)
(* conversation if that is what was said (server.py:381-406, 496-521,      *)
(* 578-590; gateway.py:77-97).  A command counts as it was judged, and as  *)
(* it is run unless it is one of those apart above: what package.json says *)
(* of the development server or hooks to a task runs without a word.       *)
Beyond(t) == Found[t].tier > EXEC_ALLOWED

NeedsOwner(c) == \/ offer[c].does \in {"page code", "fetch", "delegate"}
                 \/ request[c].cmd /\ Beyond(request[c].line[1])

RunsBeyond(c) == /\ offer[c].does \in {"task", "command"} /\ ~edited[c]
                 /\ \E t \in ran[c].what \ Unshown(c) : Beyond(t)

Repeats(c, d) == /\ offer[c] = offer[d] /\ request[c].line = request[d].line
                 /\ place[c] = place[d]
                 /\ \/ reply[d] = "remember"
                    \/ reply[d] = "session" /\ session[c] = session[d]

AskedOrRemembered ==
  \A c \in Calls :
    /\ ran[c].where # None /\ Config[place[c]].mode # "full_access"
    /\ NeedsOwner(c) \/ RunsBeyond(c)
    => reply[c] \in Approved \/ \E d \in Calls : Repeats(c, d)

(* The same of whatever is started, which the code does not keep and no    *)
(* run checks.                                                             *)
AllIsAsked ==
  \A c \in Calls :
    /\ ran[c].where # None /\ Config[place[c]].mode # "full_access" /\ ~edited[c]
    /\ offer[c].does \in {"dev", "task"} /\ \E t \in ran[c].what : Beyond(t)
    => reply[c] \in Approved \/ \E d \in Calls : Repeats(c, d)

(* Of a workspace configured read-only nothing asked is written, run or    *)
(* stopped, whatever tool is asked (server.py:170-590, tiers.py:14-21).    *)
ReadOnlyMeansIt ==
  \A c \in Calls :
    ran[c].where # None /\ Config[place[c]].mode = "read_only" => offer[c].does = "look"
=============================================================================
