# Pressure Harness: specifications, model checks and proofs

Pressure Harness (`ph`) lets a language model work on the owner's computer through
an MCP server: it reads and writes files, runs commands and drives a browser, and
everything risky is decided by a policy engine and, when the policy says "ask", by
the owner outside the conversation.  This directory holds TLA+ models of its parts,
the TLC runs that check them and the TLAPS proofs about them.  Source paths below
are relative to `src/src/pharness/`.

## 1. The system

One server process (`ph serve`) holds one `Runtime` (`runtime.py`): the policy
engine, the approval queue, the audit log, the process manager and the registry of
workspaces.  Tool handlers are synchronous functions that the MCP library runs on a
pool of worker threads, so **two tool calls really run at once**; the console is a
web server on another thread of the same process; every approval prompt has a
thread of its own; and `ph undo`, `ph stop`, `ph auth ...`, `ph audit` are **separate
processes** that share the files but not the memory.

| component | state | operations | talks to |
|---|---|---|---|
| approval queue `core/approvals.py` | `_pending`, `_recent`, `_history`, per-request event and decision | `ask`, `respond`, `_settle`, `deny_all` | gateway calls it, notifier and console answer it, emergency stop sweeps it |
| notifiers `adapters/shared/notifier*.py` | open windows; readers of stdin | `present`, `withdraw`, buttons, countdown | approval queue |
| gateway `core/gateway.py` | none of its own | `call` = decide, ask, run, record | policy engine, queue, audit log, tool |
| policy `core/policy/*` | remembered rules | `decide`, `remember`, `forget`, `classify` | gateway, console |
| workspaces `core/workspace.py` | grants, the active workspace of each session | `grant_full_access`, `revoke_grant`, `resolve`, `use` | gateway, console, emergency stop |
| journal `core/journal.py` | checkpoint directories, `_pending` id | `checkpoint`, `before`, commit, rollback, `undo`, `prune` | file tools, console, `ph undo` |
| file tools `core/tools/files.py`, `core/patch.py` | none | `write`, `apply_patch`, `undo` | journal |
| audit log `core/audit/log.py` | the file, cached `seq` and head | `append`, `verify`, `read`, `tail` | everything |
| OAuth store `core/auth.py`, `mcp/auth.py` | clients, codes, tokens, pairing code, failures | register, pair, approve, issue, rotate, revoke, save, load | MCP server, console, `ph auth` |
| process manager `adapters/shared/process.py` | handles, counter | `spawn`, `run`, `stop`, `stop_all`, `get` | shell and process tools, console, emergency stop |
| runtime `runtime.py` | owns the others | `emergency_stop` | all of them |
| tool server `mcp/server.py`, with `tools/project.py`, `tools/delegate.py` | the workspace each conversation chose | one handler per tool: resolve the workspace, describe the call, hand it to the gateway with a callable | workspaces, gateway, every tool |
| browser tools `core/tools/browser.py` over `core/cdp.py` | the one connection; per connection the numbers drawn, the answers not fetched, the last events | `launch`, `navigate`, `snapshot`, `console`, `screenshot`, `close`; `send`, reader loop | process manager, gateway, emergency stop |
| tunnel `core/tunnel.py` | child handle and URL | `start`/`stop` | command line |

The remaining parts (text, env, config, redaction, path jail, search, web fetch, UI
pages, platform adapters) are pure functions or I/O at the edge; section 7 says what
is left out and why.

What is hard here: races between the threads above around check-then-act sections;
verdicts, grants and rules read before a wait of minutes and used after it; a stop
button pressed while all this goes on; two processes writing one file from separate
caches; crashes between the steps of a checkpoint; retention that deletes what undo
needs; a workspace chosen, or a script edited, between the description of a call and
its run; answers of a browser that come late, to another thread, or never.

## 2. Plan

Most important first.  Modelled and checked: (1) approval queue and its promise; (2)
policy engine, command classification and gateway, composing queue, rules, grants,
emergency stop and audit dispositions; (3) journal; (4) audit log; (5) authorization
store and pairing code; (6) process manager and emergency stop; (7) file tools and
patches; (8) the tool server over the policy, with the conversations' workspaces and
the project and delegate tools; (9) the prompt windows and terminal prompts; (10) the
browser tools over their connection.  All ten have theorems (section 5).

Every safety property that holds in the runs has a theorem, but for `NeverStuck`
(section 5).  Next, in this order: the path jail with links; the console's buttons over
lists that are out of date.

## 3. The modules

| module | what it models | state and actions against the code |
|---|---|---|
| `ApprovalPromise` | what the queue promises its callers | a request is open, is ruled on once, its caller gets an answer; abstract |
| `ApprovalQueue` | `core/approvals.py` | one action per critical section of the lock: `Begin` (rate limit), `Enqueue`, `Present`, `Wake`/`WaitExpires`/`GiveUp` (the end of `event.wait`), `Respond`, `WindowExpires`, `SetEvent` (after the lock is released), `DenyAll`/`DenyOne`; `INSTANCE ApprovalPromise` is the refinement |
| `PromptWindows` | `shared/notifier_tk.py`, `shared/notifier.py` | a prompt is made, registered, shown and gone: `Presents`, `Roots`, `Registers`, `Presses`/`Ticks`/`Types`, `Withdraws` (whose order to the window may be lost), `Destroys`, `Responds`; a window's thread or the reader of a terminal dies without an answer in `Breaks` and `ReaderFails`; of the queue only what it tells a notifier |
| `PolicyRules` | `engine.py`, `rules.py`, `tiers.py` | `Decide`, `Matches`, `Matched`, `CombinedTier`, `RuleFor` as operators on records |
| `Commands` | `commands.py`, with what the POSIX parser hands it | a line is a sequence of commands; each one says how it came there (`how`: after another, in a substitution, in one in the target of a redirect, as code, inside a container), under which (`up`), and in which text, depth and scope; `Seen` is what it is taken for, `ExpandedOf` is `_expand_payloads` with its two depth limits, `Classify` is `classify`; where the parser reads less than the shell runs (targets of redirects, a wrapper's operand, `-lc`, quotes lost when a container's command is joined) so does the model |
| `PolicyEngine` | the engine over time | `rules` changes by `Remember` and `Forget`; `line` is built command by command, by the edits a person could make to a line: another command after it, a substitution, in words or in a redirect's target, code given to an interpreter, a command inside a container, a redirect, a wrapper |
| `Gateway` | `gateway.py`, the approval step, grants, `Runtime.emergency_stop` | `Judge` (decide), `AskOpens`/`AskReturns`, `Start`, `Finish`; `Elevate`/`GrantEnds`; the stop in four steps; the queue is `INSTANCE ApprovalPromise`, so the gateway is checked against what the queue promises |
| `Journal` | `journal.py` | `Reserve`, `MakeDir`; a pre-image is taken on trust (`Capture`) or written in place (`StoreBegins`, `StoreEnds`); `Write`; a record is begun, complete and closed (`Commit`, `Recorded`, `Closes`); `Fail` (rollback), `BeginUndo`, retention in `Reserve`, `Crash` between any two of them |
| `Patch` | `patch.py` | a text is its lines and whether it ends with a newline; `Locate`, `ApplyHunk`, `Hunked` and `Apply` are `_locate`, one turn of the loop over the hunks, the loop and `apply_file_patch` |
| `FileTools` | `tools/files.py` | `Read`, `BeginPatch`, `Plan` (one section from the file as it is now), `Planned`, `SavePreImage`, `WriteText`, `Done`, `Fails`, `BeginWrite`; `UserChanges` comes between any two of them |
| `AuditLog` | `audit/log.py` | `Build`, `WriteLine`, `Update` are the three steps of `append`, of threads that may overlap; `Killed` tears a line or leaves it without its newline, `Modify`/`Delete` are somebody with an editor |
| `AuthStore` | `core/auth.py`, `mcp/auth.py` | token requests in two steps (load, exchange), revocation from the console in four (`ForgetDrops`, the two copies `RebuildsAccess` and `RebuildsRefresh` during which the event loop may change what is copied, `ForgetSaves`), with an error in each (`RebuildRaises`, `SaveRaises`); a save in three (what there is, the temporary file, its replacing the file), the server's and the console's over the same temporary file, each of them stopped anywhere; the command line with a copy of the file |
| `PairingCode` | `core/auth.py:193-225` | wrong codes (each kept with its number and time), right codes, the sliding lockout, rotation, restart, save |
| `ToolServer` | `mcp/server.py`, `tools/project.py`, `tools/delegate.py`, `Sessions` of `core/workspace.py` | the tools as a table of what they offer (`read_file_tool` ... `codex_run_tool`: operation, declared tier, what the callable does); `TaskLine` is the line a task is judged by, `Started` what is run for it with what the package manager adds (`NpmAdds`), `Template` a delegate's; `Describe` (resolve, point the shared browser there, `guarded`, verdict), `Answer`, `Run`, `Use`, `Edit` |
| `Browser` | `tools/browser.py`, `core/cdp.py` | a call goes through `BeginCall`, `Launches`, `ConnectReuses`/`ConnectOpens`, `Enables`, then for each command `Draws`, `Posts`, `Receives` or `GivesUp`; `navigate` also `Clears` and `Watches`, and may leave a page whose requests then fail; what Chrome sends is `unread` until the reader thread files it (`Files`), before or after the clearing; `CloseMarks`/`CloseShuts`/`CloseForgets` are the stop, `ChromeAnswers`, `PageFails`, `ChromeDies` ... what Chrome does |
| `ProcessManager` | `shared/process.py` | `spawn` in five steps (list, check, number, start, register), `run`, `stop`, `stop_all` step by step; each stop in it succeeds, fails with an error, or leaves the process up after SIGKILL (`StopHandle`) |

The `...Proofs` modules hold the theorems of section 5.  `ApprovalProofs` is about the
queue and the prompts, `AuthorizationProofs` about the store and the lockout,
`RecordsProofs` about the audit log, the journal and the files, `ChildrenProofs` about
the processes and the browser; `PolicyRulesProofs` has the lemmas that three others
share.

The `MC...` modules give the constants.  Four of them put parts side by side that do
not read what the others keep, each part on an instance of its own, and a behaviour
moves only one of them, chosen at the start: `MCAuthorization` (`half`: the store with
one client, with one that is kept while others are revoked, with all, the pairing code), `MCRecords` (`kept`: the journal, the files, the audit log),
`MCChildren` (`part`: the processes, the browser), `MCPrompts` (`side`: the queue, the
prompts).

## 4. The runs

| run | question | instance | why it is enough |
|---|---|---|---|
| `approval_safety` | whatever races for a request, is it settled once, fails closed, and by how much is the rate limit overrun? | 3 calls, 2 threads, a limit of 1 | a third call is needed for two to pass the check together after one is counted; the theorems remove the bound |
| `approval_promise` | does every `ask` return, does the queue implement its promise, does a pending request keep its prompt unless its own display or terminal fails, does every window go? | 2 calls, fair threads and clock; 2 requests, in windows or on the terminal | two requests are needed for one to influence the other, through `_recent` and `deny_all` or through the withdrawal of a window |
| `policy_engine` | what may no rule and no disguise override, and what may a remembered approval change? | lists of up to 3 rules of 10 shapes; lines of up to 3 commands | a rule can be hidden by one before it and reached past one; three commands reach both depth limits, which are 1 and 2 here, 5 and 3 in the code |
| `gateway_safety` | what may have run, with which consent, and does the log say so? | 2 calls of 4 kinds, one read-only workspace and one that asks, 1 stop | a rule left by one call is met by the other; both take every path of `call` during a stop; the theorems remove the bound |
| `tool_server` | does what runs, and where, agree with what was described, chosen and approved? | a call of any tool, or 2 calls that bear on each other; 2 conversations, 1 or 2 projects with 3 kinds of manifest; 2 choices, 1 edit; or 2 calls of the browser | the second call is needed to leave a rule or write the file the first depends on; the other conversation to choose meanwhile |
| `tool_server_scripts` | a finding: is what gets classified what will run? | the same, no choice of workspace | |
| `records` (journal) | can writes be taken back; is nothing overwritten or lost? | four uses: in turn (5 numbers, 2 files); retention with a crash and edits by hand; the same with room; two operations at once | 5 checkpoints hold an edit, its undo, and the undo of that with an edit between; of operations at once no property holds (section 6), and the use is there for the steps only they reach |
| `records` (files) | does a diff do what it says; does other people's work survive? | one call; seven texts with repeated and blank lines, one or two hunks or sections, miscounted or not; one edit by the user; a window of 2 for 200 | texts of three lines hold repeats before and after a hunk that an earlier hunk moved |
| `records` (audit log) | does `verify` point at the first damage and nowhere else? | 2 threads of one server that may overlap, 4 appends, 2 crashes, 2 edits | damage before and after a restart, and append after each; of three overlapping appends one writes between another's line and its update |
| `journal_reuse` | a finding: is only the oldest checkpoint dropped? | retention only | |
| `audit_processes` | a finding: is the chain whole when nobody damages it? | server and a command, 3 appends | |
| `auth_store` | who can hold a token, how often, for how long; how many guesses? | 2 overlapping requests, 1 restart, any number of rotations before it: 1 client and 4 numbers drawn, with saves that overlap, or 2 clients, one of which keeps its tokens, and 4 numbers, or 2 clients, the command line or not, expiry (without the command line) and 2 numbers; 2 attempts per lockout | 4 numbers are a code and two exchanges, and one more for what a restart or a revocation should not bring back; the theorems remove the bounds |
| `auth_cli` | a finding: does `ph auth revoke` stop the tokens? | 1 client | |
| `children` (processes) | is the ceiling kept; does the stop reach all it found, and end? | 2 threads, 3 processes, ceiling 1, 1 stop | two threads between check and count; the stop works on a list that is out of date |
| `children` (browser) | does a call get its own answer, say of a page what became of it, and end? | 2 calls in 9 pairings, 2 connections, a buffer of 2; noise, a death of Chrome and a stop, as the pairing has them | two navigations share the events; a second connection is made under the first; a buffer of 2 is overrun by a page and its noise |

Runs over models whose counters are bounded, or whose calls are made once, stop there
and say `CHECK_DEADLOCK FALSE`: when every call is done, every prompt settled, every
number drawn and every append, edit and guess made, nothing need be left to do.
`NeverStuck` and the liveness properties say what must not stop before that.

Symmetry is used only over calls, clients, handlers and workers of runs that check no
liveness.

**Fairness.**  `ApprovalQueue`: the threads of a call that can go on do, and time
passes; nobody has to answer, press stop or call a tool.  Each step given fairness is
straight-line code or a wait with a timeout (`approvals.py:180`), and `Tick` is the
clock.  `PromptWindows`: the clock, the thread of each window (its countdown is a timer
of its own, `notifier_tk.py:154-164`) and the thread that waits in `ask`; nobody has to
press a button or type a line.  There one fair action stands for all of them, since a
request has at most seven such steps before it (`PromptsComeToAnEnd`) and so none can
hold off another for ever.
`ProcessManager`: the thread that stops everything runs on; every wait in it
(`_kill_tree`) is bounded.  The other modules check safety only; of the browser
`NeverStuck` says that a call always has a step of its own left, and the theorem
`CallsComeToAnEnd` that there are at most twelve of them, so that a thread that runs
comes to its end.

**Abstractions common to the models.**  Hashes are injective: the digest of a payload
or an entry is the tuple of what is hashed.  Tokens, codes and ids are numbers that are
drawn, never guessed.  Statements between two points where another thread can matter
are one action; a dictionary operation is atomic, as it is under CPython's lock.  In
`AuthStore` a code has the number of the page it was approved on, and the command line
saves in one step; going through a dictionary that another thread changes ends in an
error, or, if its size is what it was, in a copy with any of what was in it before and
since.  In `Gateway` the log is what each call appends (that appends can
collide is `AuditLog`'s matter), and the stop's call of `stop_all` returns (that it may not is
`ProcessManager`'s).  In `Journal` age is any cut-off and size is the number of
pre-images; an undo goes through the files in any order; a directory is removed, and a
rollback done, in one step, which does not itself fail half-way.  In `AuditLog` an
append reads the number and the head of its object in one step; one that came between
them would be `behind` all the same.  In `Commands` words are
already split, a program is the kind of finding it makes, what a container runs is
a command of the same line, and lost quotes are followed only into code handed to an
interpreter, where they make commands disappear.  `PolicyEngine` builds the line first and remembers rules
for it after.  In `ToolServer` a text is a model value with the tier `classify` finds in
it, a manifest says for each task which text its script is and which are hooked to it, and the engine is
`PolicyRules` without grants (those are `Gateway`'s); one delegate is named, and what a
command goes on to start by itself is its own affair, but for the scripts of
`package.json`.  In `Browser` what a page says is
a failed request, the end of a load or noise, and the commands that switch reports on
are one step; a request that fails after its page has loaded counts as one of a page
still loading, any call's navigation may leave any page, and replies are read without
regard to their place among the events.  In `FileTools` texts have one newline convention, are UTF-8, and the
words of the diff have been parsed.

## 5. What is proved

Every theorem below holds for all values of the constants that the named assumptions
admit.  TLC evaluates the assumptions on every instance it checks.

| module | theorems | assumptions |
|---|---|---|
| `ApprovalProofs` | `TypeCorrect` (`TypeOK`), `OnceOnly` (`SettledOnce`), `FailsClosed` (`ApprovedIsRecorded`), `BoundedBurst` (`BurstBound`), `ImplementsPromise` (`Spec => Promise!Spec`, the safety part of the refinement); `PromptsStand` (`PromptStands`), `PromptsComeToAnEnd` | a finite set of calls, at least one thread, natural limits and timeout; of the prompts none |
| `PolicyEngineProofs` | `NoRuleWidens` (`RememberNeverWidens`), `NothingGetsPast` (`NothingReachesPast`), `DenyIsFinal` (`DenyWins`) | none |
| the same, about lines | `NothingHides` (`HidingDoesNotHelp`), `OnlyListedGoes` (`OnlyTheListedGoesAhead`), `NothingLowers` (`DetailsNeverLower`) | `EngineAssumption`: the depths are natural and payloads have at least two, code is handed to interpreters, a mode that is written down is not full access |
| `GatewayProofs` | `RulesAreApprovals` (`RulesEarned`), `ReadOnlyIsRead` (`ReadOnlyHolds`), `EveryCallAccounted` (`Accounted`) | a request has one of the tiers, a workspace one of the modes, and no workspace is called "any" or "none" |
| `ToolServerProofs` | `RunsInItsPlace` (`RunsWhereAsked`), `NothingIsGuessed` (`NeverAGuess`), `ReadOnlyIsKept` (`ReadOnlyMeansIt`), `OwnersWord` (`AskedOrRemembered`), `NothingElseRuns` (`ShownIsWhatRuns`) | `AskedAssumption`, `FoundAssumption` (`classify` never finds less than a command), `ConfigAssumption` (the names and manifests are what the model says they are) |
| `RecordsProofs`, journal | `PreImagesStay` (`PreImagesKept`), `NothingOverwrittenIsLost` (`OverwrittenIsKept`), `WritesGoBack` (`BackToOrigin`), `UndoWorks` (`UndoPutsBack`), `CommittedStays` (`HistoryKept`) | `JournalAssumption`: every worker has a `Journal` object, the contents are finitely many |
| the same, audit log | `AlarmRings` (`AlarmIsRight`) | `AuditAssumption`, and that the threads append to one object, without which it fails (section 6) |
| the same, files | `OthersWorkStays` (`OthersWorkSurvives`), `DiffsLand` (`PlainDiffLands`) | `FilesAssumption`: what the caller writes and what is there at first is without the line that stands for the user's work; the search window is a natural number; a missing file and a refusal are no texts |
| `AuthorizationProofs` | `OnlyPairedGetIn` (`OnlyPaired`), `ExchangedOnce` (`SingleUse`), `RevokedIsOut` (`RevokedStaysOut`); `GuessingIsSlow` (`GuessesBounded`) | natural times and bounds |
| `ChildrenProofs`, processes | `CeilingHolds` (`CeilingBound`), `StoppingIsThorough` (`StopAllIsThorough`); `StopAllIsNeverStuck`, `StopAllRunsOut` | a finite set of threads, a ceiling of at least one |
| the same, browser | `AnswersAreOwn` (`OwnReply`), `FailuresAreRecent` (`ToldIsRecent`), `FailuresAreTold` (`FailureIsTold`); `CallsComeToAnEnd` | the event buffer holds at least one event |

The bounds on what is counted (calls, numbers, time, edits, restarts) are constants of
the modules, so a theorem holds for every bound and with it for every behaviour.

**Approval queue.**  None of the safety invariants is inductive.  `IInv` is `TypeOK`,
`Consistent` and `Counted`.  `Consistent` says for each call which of `pending`,
`history`, `decision`, `event` and `result` go with each stage: a call that waits is
pending or settled with what its decision says, one that is admitted has been touched
by nobody.  `SettledOnce` and `ApprovedIsRecorded` follow from it; the lemmas
`SettleEffect` and `SettleOthers` say what a settlement does to the request and that it
does nothing to the others.  `Counted` says that the counted stamps of the last minute
together with the calls between check and count are at most the limit plus the other
threads: the step that admits a call adds one to the second set only while the first is
below the limit.  The refinement maps the first entry of a request's history to its
ruling; `SettleRules` and `RulingFrame` reduce each step to what it does to that.

**Prompt windows.**  A prompt can go while its call waits in three ways only: it answers
first, it is doomed, or its own display or terminal fails it.  `DoomedByItsCall` says that only a thread that has stopped
waiting dooms its window; `GoneForAReason` that a prompt that is gone while its call
waits has an answer still to report.  `PromptLeft` counts the steps left to a request's
call, prompt and clock; a prompt reports nothing before it goes (`ReportsLast`), so
there are never more than seven, each of its steps takes one away at least, and no other
request's adds one.

**Policy.**  Two of the theorems hold of any list of rules, by the order in which
`decide` asks its questions.  The third needs that a list grows by the rule that is
remembered and nothing else (`Grows`), and that a rule put before others changes the
decision only for the calls it matches (`OneMore`).

**Gateway.**  `Staged` says which verdict and which reply go with each stage of a call.
`Permitted` carries the argument for read-only workspaces: a call that was asked about,
cleared or run is `Harmless`, that is, not forbidden, and a mere look unless its
workspace has been `Opened`.  It is inductive only together with `RulesEarned`: a rule
that lets a call through came from an approval in the same workspace, whose call was
asked about, which happens only in a workspace that was open then, and `lifted` never
shrinks.

**Lines.**  What a line is made of is recursive: which commands are judged, at which
depth, and what is found in the text of a container.  No induction theorem can be
cited for that here, so it is shown once that there is a function that is what its
equation says, if values are needed of lower places only: there is no least number up
to which there is none (`RecursionDefines`, used by `UpwardsDefines` for what a command
is nested in and by `Finding` for the containers in a line).  `WellWritten`
says how commands are nested and is inductive over the edits.  `ReadIsJudged` says that
what is nowhere among the places the parser does not read (`Overlooked`) is judged, or
the line is refused for what it stands in.  From there on the
argument is about one command at a time: one that is forbidden is found in its own text
and, text by text, at the surface (`HidingDoesNotHelp`); a line that goes ahead
unasked has one command judged on the host, and it is the first, so the others are
overlooked (`OnlyTheListedGoesAhead`); an edit that leaves everything judged (`Shows`) leaves
every finding (`DetailsNeverLower`).

**Tool server.**  `Described` ties the request of a call to the tool that made it,
`Chosen` the active workspace to one the conversation picked, `RulesEarned` every rule
to an owner's reply.  `Word` is `AskedOrRemembered` from the moment a call is cleared;
`MatchRepeats` shows that a rule made from one call matches another only if the other
repeats it.  `ShownIsWhatRuns` needs `AsItStands` beside it: while nobody has edited
the files a call depends on, its request is the one it would make now; `RequestShows`
says that this request shows what would be run for it, but for what `Unshown` names.
With it `AskedOrRemembered` follows for what is run as well as for what was judged.
The shared browser is always in the workspace of some browser call (`Taken`).

**Processes.**  A thread that passes the check has counted what the handles know of.
`Kept` says that what they do not know of is a process whose thread has yet to register
it; `Fresh` that no two threads share a number, so that no handle is written over.
`Counted` then bounds the spawned processes together with the threads between check and
start.  For `stop_all`, `Born` says that a handle is of a process that has been started,
and that process never comes back: so what the stop had before it is, at each step,
still to be stopped, or down, or one whose own stop has failed (`InOrder`).

That it ends has two halves the prover can take.  `StopGoesOn` writes out the guards of
its steps: a process can only come up with a handle of its own, so either one has been
added since the list was made, and `stop_all` raises, or all that is up has been listed
and it begins.  `StopsLeft` counts the steps before it; its own steps lower the number
and nobody else's change it.  What is left to TLC is to put the two together with the
fairness of its thread (`StopAllEnds`).

**Browser.**  `OwnReply` is about numbers: none is in the mail that its connection has
not given out (`GivenOut`), no two calls waiting on one connection have the same
(`Distinct`), and mail with the number of a waiting call is that call's (`Addressed`).
`ToldIsRecent` follows from `Seen`: once a navigation has cleared the events of its
connection, the failures in them are ones that were filed since.  `FailureIsTold`
is the converse: the failure of a page is among the events of its connection, or sent
and still to be filed (`FailsKept`), unless one of the excuses holds that the property names, and an excuse
holds for good; this needs that reports are switched on while a call still has its
connection to itself (`LinkI`), so that a page cannot load unreported (`LoadsWired`).
`CallsComeToAnEnd` gives each stage of a call the number of steps that can follow it
(`StepsLeft`): no stage leads back but for a navigation's second command, which has a
place of its own in that order.

**Authorization.**  `OnlyPaired` needs that what a request holds between its load and
its exchange, what the command line has loaded, and whatever a restart may come to load
(`Snapshots`: the file, the temporary file, what a save has put down) is for a paired
client too (`PaidFor`).  `SingleUse` is inductive with `Once`: what can still be
exchanged has been exchanged by nobody and has a number that is drawn already, so
nothing new shares it, and what the server is spending is no longer among it.  Over a
restart the same must be said of the snapshots (`SavedOnce`), and that is true until
two saves overlap: then at most one is under way, what it has written is what it put
down (`OneSaves`), and that is free of what it spends.  `Out` and `SavedOut` say so of
a client that is being forgotten, and of one whose revocation raised.  Both are said
only while the command line does not write its copy back and no restart has loaded what
overlapping saves left, and `SingleUse` only until a revocation puts a token back
(`revived`, section 6).
`GuessesBounded` counts wrong codes in any stretch of the length of the lockout; what
`failures` has dropped is too old for a stretch that ends now (`Dropped`), so the step
that compares one more code meets the bound by the check it has just passed.

**Audit log.**  `AlarmIsRight` is about the lines that are `Sure`: those before the
first whose append did not know the line it would follow, because another of the
server's threads had written and not yet told the object, or wrote in between
(`behind`, `raced`).  `Chained` says where each append stands: the object knows the
number and the hash of the last line but for the one whose thread has yet to tell it
(`Knows`), numbers grow (`Growing`), and the first damage is at the first line that is
not good (`Marked`).  A thread that is not behind builds on what the object knows and
finds no other between its line and its update (`Threaded`); once entries were removed
from the end the object has counted more lines than there are, so the next line that is
appended has too large a number and is the damage.  The lemmas go through what can be
done to a sequence of lines: add one, cut it short, change or remove one, and tear the
last.

**Journal.**  `PreImagesKept` is inductive with `InHand`: an operation that does not
overlap others finds what it has captured in its own directory, whole, and in its file
until it writes it; what is half-written there is in its hand (`Storing`).  What a kill
leaves half-written would be taken for the copy only under the same number, and numbers
come again only once retention has dropped directories, which is why a kill and
retention together are excluded (`InTurn`).  `HistoryKept` needs `InOrder`: while there
is room the directories have no gap in their numbers and the pending one is at the top
without a record, or with its own, so that no commit replaces one and no rollback
discards one.  `BackToOrigin` and `UndoPutsBack` are about following a file back
through the records: `Reversible` adds to them the file as it was before the operation
under way (`Before`) and what an undo has still to put back (`PutsBack`).

**Files.**  A theorem about any texts needs what a hunk does to any text: `HunkDone`
says that a hunk takes out the lines it names and puts in its own and nothing else, by
splitting the text at the place `_locate` finds (`Pieces`, `Located`), and `HunksDone`
carries it over any number of hunks by the same argument about first places as above
(`Stepwise`).  `OthersWork` follows the user's line from there: what the caller has seen
is without it, so no hunk takes it out; a text that is planned, and a pre-image that is
saved, has it when the file does, because a call that does not replace blindly plans
from the file as it is.  TLC checks the property with one call; the theorem is about
any number of them.

`PlainDiffLands` is about the whole text a diff makes.  `Standing` is the state of the
loop of `apply_file_patch` between two hunks: what it has is what the hunks so far mean
(`MeantUpTo`) with the rest of the file behind it, and `drift` is the difference of the
two lengths.  So the next hunk's lines stand at exactly the place that is looked at
first, and `_locate` takes it without searching (`FoundAsStated`): this is why lines
that repeat do no harm.  `LaidLands` goes through the hunks, `SectionLands` adds the
final newline and what becomes of an empty text.  Over time `Patching` says of the files
the user leaves alone that they are as they were when the call began while it plans,
and that what is planned, and later what is written, is what the section makes of the
file as it was then.  The diffs are those the model's caller makes, of one or two hunks
in one or two sections, of texts of any length.

**Only model-checked.**  Liveness (`AskReturns`, `KeepsPromise`, `WindowsGo`,
`StopAllEnds`) and `NeverStuck`, which is about ENABLED, are out of the prover's reach.
Theorems say what can be said of them without: the safety part of `KeepsPromise`
is `ImplementsPromise`, the steps of `stop_all` run out and never lack one that can be
taken (`StopAllRunsOut`, `StopAllIsNeverStuck`), and those of a browser call and of a
prompt run out (`CallsComeToAnEnd`, `PromptsComeToAnEnd`).

**The prover's encoding of lengths.**  For its SMT backend tlapm 1.4.5 takes
`Len(s) = n` and `DOMAIN s = 1 .. n` to be equivalent whatever `s` is, though of what is
no sequence the first does not say the second.  The proofs have also been checked, from
nothing, with only the direction that holds (from the domain to the length), and need
no other.

## 6. What the code says and does not do

Four runs expect a violation; `PROJECT.json` lists them as findings.

- `journal_reuse`: `_next_id` counts directories, so after retention the next number is
  one that is taken, and the newest checkpoint is overwritten (`journal.py:234`).
- `audit_processes`: the head is read once, so a server goes on from a stale head after
  another process has appended, and `verify` reports damage nobody did (`log.py:68`).
- `auth_cli`: a client revoked by `ph auth revoke` keeps its tokens in the running
  server (`cli.py:363` says they stop at once).
- `tool_server_scripts`: the tool server has the text of a script judged and approved
  (`server.py:392`: "What gets classified is what will actually run") and resolves the
  task again when it runs it (`server.py:404`), so an edit in between runs unjudged.

The modules also state the following, which the code does not keep; of these only
`ChainUnbroken` is in a run.
To see a counterexample add the definition to the module's configuration as INVARIANT
or PROPERTY.

| definition | what is said, and where | what happens |
|---|---|---|
| `ApprovalQueue!FloodRefused` | past the limit requests are refused (`approvals.py:10`) | checked and counted in two critical sections, so calls pass together; `BurstBound` is what holds |
| `ApprovalQueue!AcceptedAnswerCounts` | an answer is accepted only while pending (`approvals.py:226`) | an answer between the end of `event.wait` and the settlement of the timeout is accepted and recorded, and the call was refused |
| `Gateway!NothingSlipsThrough` | nothing slips through while processes die (`runtime.py:116`) | a call that has been judged or approved before the stop starts its tool after it |
| `Gateway!StopMakesReadOnly` | every project is read-only after a stop (PRD 10.10, `PRD.md:495`) | the stop revokes elevations; a project configured to be writable stays so |
| `Journal!AnyChangeCanBePutBack` | anything a tool changed can be put back (`README.md:132`) | the slower of two overlapping operations finds no pending number at its commit, its change is in no checkpoint |
| `Journal!HistoryAlwaysKept` | undoing is recorded as a new checkpoint rather than erasing the old one (`journal.py:271`) | between a record and the clearing of `_pending` (`journal.py:214-224`) another operation on the same object commits over the checkpoint or discards it; `HistoryKept`, for operations in turn, is what holds |
| `Journal!PreImagesAlwaysKept` | a checkpoint has the pre-images of what it changed (`journal.py:84-93`) | a kill leaves a torn pre-image, or a directory half-removed by retention; when retention has made its number come again, the next checkpoint with that number takes the torn file for its copy (`journal.py:195-200`) |
| `Journal!CanUndo` | anything a tool changed can be put back (`README.md:132`) | one torn record makes every undo raise |
| `FileTools!WorkSurvives` | a patch fails instead of reverting somebody's work (`patch.py:5`) | what is saved between planning and writing is overwritten; `OthersWorkSurvives`, for what was saved between calls, is what holds |
| `FileTools!NoHunkIsLost` | a diff is applied all or nothing (`files.py:155`) | two sections for one file are both made from the file as it was: the second write undoes the first, and the answer is "Applied" |
| `FileTools!DiffLands` | a unified diff is applied (`files.py:155`) | an insertion without context lands one line early; a diff that adds the final newline, or leaves one blank line, writes a text without it; `PlainDiffLands` is what holds |
| `AuditLog!ChainUnbroken` | each line carries the hash of the line before it (`log.py:3`) | also broken by two threads of one server, whose appends have no lock (`Overlap = TRUE`); damage after the first such line is not told from it, so `AlarmIsRight` ends there |
| `AuditLog!ReturnedIsReadable` | a half-written line is survived (`log.py:8`) | the entry written onto a line without its newline is lost with it |
| `AuthStore!SpentForGood` | refresh tokens are single-use (`auth.py:325`) | the server and the console save at once, over one temporary file (`auth.py:153-155`): what was put down before an exchange may replace what was saved after it, and the next start loads the spent token; `SingleUse` is what holds |
| `AuthStore!SpentForNow` | the same | without any restart: `forget_client` copies the refresh tokens of the other clients (`auth.py:181`) while the event loop takes one out and puts its successor in; the copy has the first and may lack the second, and a token that was revoked meanwhile may come back the same way |
| `AuthStore!RevokedForGood` | a client is revoked outright (`auth.py:176`) | the same puts the client back into the file after the owner was told, and the next start loads it; `RevokedStaysOut` is what holds.  So does an error in the copying (`RebuildRaises`), but then the owner is told of it |
| `PairingCode!PrintedCodeWorks` | new clients need the printed code (`cli.py:349`) | the running server keeps its own and saves it over the new one |
| `PairingCode!RestartGivesNewCode` | restart for a new code (`auth.py:210`) | a restart loads the same code, and pardons the failures |
| `ToolServer!BrowsesWhereAsked` | a call runs in the workspace it was asked for (`workspace.py:7-9`) | every browser call points the one browser at its workspace before it is judged (`server.py:494`, `runtime.py:91`): a launch that is judged, or waits for the owner, is then spawned in another conversation's workspace, be that read-only (`browser.py:109`); `RunsWhereAsked` is what holds |
| `ToolServer!AllIsShown` | the prompt shows the exact command of a delegate (`delegate.py:11-12`, `33-34`); what is classified is what runs (`server.py:392`) | the payload has the delegate's name and the task, not the command they come to (`server.py:587`); npm runs a script's pre and post hooks besides it, and of a script called `install` the text is judged while `npm install` runs (`project.py:81-83`); `ShownIsWhatRuns` is what holds |
| `ToolServer!AllIsAsked` | a cloned project could define a script that does anything, so its own text is what gets classified (`project.py:96-99`) | the `dev` script is started as a mere allowlisted command, without a command line to judge (`server.py:383-386`), and so are the hooks of a task; `AskedOrRemembered` is what holds |
| `Browser!ToldIsOwn` | `url` did not load (`browser.py:216-220`) | the failure may be of a page that was left, sent before the events were cleared (`browser.py:199`) or because of the navigation, and read after, or of another call's page on the same connection; `ToldIsRecent` is what holds |
| `ProcessManager!StopAllSurvives` | `stop_all` does not stop at a failure (`process.py:211`) | a process registered while the handles are gone through makes the list raise before anything is stopped |

Seen while modelling, without a definition:

- *authorization*: after the command line saved its copy of the store, a refresh token
  that had been spent works again (`SingleUse` holds without it).
- *audit log*: when the newest entries are removed `verify` sees nothing, until the
  running server appends again; after a restart it never does (`log.py:3-4`: "removing
  or editing an entry after the fact is detectable").
- *processes*: one started during a stop outlives it, a process whose leader has
  ended leaves its group running (`posix/process.py:26-44`), and one that is still up a
  second after SIGKILL (`process.py:79-82`) is counted as stopped (`process.py:215-216`).
- *commands*: not "every simple command in the line is examined"
  (`commands.py:5-7`).  Overlooked are what is substituted in the target of a redirect
  (`posix/shell.py:242-247`), code behind a wrapper or an assignment, or behind a flag
  like `-lc` (`posix/shell.py:66-77`), code whose own substitutions nest too deeply, and what
  a container runs when the container command stands behind a wrapper's operand
  (`timeout 5 docker ...`); a command behind such an operand is taken for the operand
  (`commands.py:326-332`), and of code that an interpreter runs inside a container, whose
  quotes are lost on the way (`commands.py:697`), the first command keeps its first word
  only.  The first and the third let an allowlisted line run another command unasked,
  and `>>` and `>&` let it write, where `commands.py:744-745` says that an allowlisted
  command plus a redirect is not one.  `HidingDoesNotHelp` and `OnlyTheListedGoesAhead`
  name these places (`Overlooked`, `Seen`).  The program gives `classify` no way to see that a redirect's target
  exists (`runtime.py:162`), so overwriting is never forbidden.  An allow rule with a
  command prefix covers compound lines that begin with it.
- *files*: a patched file that was not UTF-8 is written as UTF-8 throughout
  (`files.py:200`, against `text.py:73-76`).
- *browser*: a connection whose reader has ended is used again until an emergency stop
  drops it, so every call after Chrome died fails; of two navigations at once the later
  clears the failures the earlier would have reported; a page that has not loaded in
  time is reported like one that has; of two connections made at once one is never
  closed; the runtime gives the tools no path jail, so a `file:` address is always
  refused; a click reports console errors that may be older than it; the request for
  the title after a navigation may raise where the navigation itself may not; answers
  that come after their call gave up stay in `_replies`.
- *terminal prompts*: the reader of an expired prompt takes a line that is typed for a
  later one, and of two prompts at once the line may answer the other
  (`notifier.py:79`).

## 7. What is not modelled

- *Pure transformations of text*: redaction, the environment filter, clamping, reading
  the configuration, quoting and word splitting in the command parser.  They have no
  state, and their content is in the strings that the models abstract.  The Windows
  command parser is a second implementation of the port whose result `Commands` takes
  as its input.
- *The path jail*: a function of the file system with its links, which the tools ask
  before they act; next in the plan.
- *The tunnel*: the program starts one, from one thread, before anything else runs, and
  never stops it (`cli.py`); what is left is reading the output of the child.
- *The console and the command line*: what they do to the stores, the queue, the rules
  and the processes are actions of the models of those parts; routing, pages, argument
  parsing and printing are left out.
- *Search, web, git, shell and process tools*: each hands its work to one program or
  to a part that is modelled, and formats what comes back.
- *The edge*: MCP declarations, HTTP, platform adapters.

`PROJECT.json` lists every part with its status.
