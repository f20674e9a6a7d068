------------------------------- MODULE Browser -------------------------------
(***************************************************************************)
(* core/tools/browser.py over core/cdp.py: calls that drive one browser    *)
(* from several threads through one connection.                            *)
(*                                                                         *)
(* A command draws a number, is sent, and its thread waits for the answer  *)
(* with that number or until its time is up; a reader thread files answers *)
(* and events as they come.  Chrome is a process of its own: it answers    *)
(* late, in any order or never, reports what happens to a page, and dies;  *)
(* what it reports is read later, in the order it was sent.                *)
(* What a page says is only told apart as a failed request, the end of a   *)
(* load, or other noise.  The commands that switch a connection's reports  *)
(* on are sent before anything else is; they are one step, which may fail. *)
(***************************************************************************)
EXTENDS Naturals, Sequences, FiniteSets, SequencesExt

CONSTANTS Jobs,          \* calls of the tool, one thread each
          Mixes,         \* bound: what the jobs ask, and how much else may happen: noise,
                         \* deaths of Chrome, presses of the emergency stop
          Allowlist,     \* network.fetch_allowlist
          JailHolds,     \* the files the path jail lets through; the runtime gives it none
          EVENT_BUFFER,  \* how many events a connection keeps
          MaxLinks       \* bound: connections ever made

ASSUME BufferAssumption == EVENT_BUFFER \in Nat \ {0}

VARIABLES chrome,        \* "none", "starting" or "listening"
          session,       \* BrowserTools._session
          closed, wired, \* each connection: _closed, and whether the socket is up
          reports,       \* whether it was told of failed requests
          next, replies, events,   \* _next_id, _replies, _events
          wire, unread,  \* commands Chrome has not answered, and what each connection's
                         \* reader has yet to read
          page,          \* what became of the page each job asked for
          stage, ask, link, drawn, nth,  \* a job: where it is, what it asks, its
                                          \* connection, its command's number and which it is
          heard,         \* the command whose answer it took
          outcome,       \* what it says in the end
          shots,         \* the screenshots on disk, by name
          button,        \* the emergency stop: where it is, and the connection it closes
          since, told,   \* history: failures filed since a job cleared the events, those it told
          missed, pushed,      \* history: failures it did not see, and those pushed out
          spare                \* what the bounds leave of each

links   == <<session, closed, wired, reports>>
mail    == <<next, replies, wire>>
pages   == <<page, unread, events, pushed>>
told_of == <<since, told, missed>>
browserVars == <<chrome, links, mail, pages, stage, ask, link, drawn, nth, heard, outcome,
                 shots, button, told_of, spare>>

NoLink == 0
Links  == 1 .. MaxLinks
None   == "none"

BrowserInit ==
  /\ chrome \in {"none", "listening"}
  /\ session = NoLink
  /\ closed  = [s \in Links |-> FALSE] /\ wired = [s \in Links |-> FALSE]
  /\ reports = [s \in Links |-> FALSE]
  /\ next    = [s \in Links |-> 0]
  /\ replies = {} /\ wire = {}
  /\ events  = [s \in Links |-> <<>>] /\ unread = [s \in Links |-> <<>>]
  /\ page    = [j \in Jobs |-> None]
  /\ stage   = [j \in Jobs |-> "new"]
  /\ \E mix \in Mixes : /\ ask = mix.ask
                         /\ spare = [noise |-> mix.noise, deaths |-> mix.deaths,
                                     presses |-> mix.presses]
  /\ link    = [j \in Jobs |-> NoLink]
  /\ drawn  = [j \in Jobs |-> 0] /\ nth = [j \in Jobs |-> 1]
  /\ heard   = [j \in Jobs |-> {}]
  /\ outcome = [j \in Jobs |-> None]
  /\ shots   = <<>>
  /\ button  = [at |-> "up", link |-> NoLink]
  /\ since   = [j \in Jobs |-> {}] /\ told = [j \in Jobs |-> {}]
  /\ missed  = {} /\ pushed = {}

-----------------------------------------------------------------------------
(* check_url with _is_local: a scheme that is known, a file only through   *)
(* the jail, and any host but this machine only from the allowlist.        *)
ALLOWED_SCHEMES == {"http", "https", "file", "about", "data"}

IsLocal(url) == url.scheme # "file" /\ url.host \in {"localhost", "none"}

CheckUrl(url) ==
  /\ url.scheme \in ALLOWED_SCHEMES
  /\ IF url.scheme = "file" THEN url.host \in JailHolds
     ELSE url.scheme \in {"about", "data"} \/ IsLocal(url) \/ url.host \in Allowlist

Move(j, from, to) == stage[j] = from /\ stage' = [stage EXCEPT ![j] = to]

End(j, from, result) == /\ Move(j, from, "done")
                        /\ outcome' = [outcome EXCEPT ![j] = result]

jobVars == <<ask, link, drawn, nth, heard, shots>>

(* A job begins.                                                           *)
BeginCall(j) ==
  /\ stage[j] = "new"
  /\ IF ask[j].op = "navigate" /\ ~CheckUrl(ask[j].url)
     THEN End(j, "new", "refused")
     ELSE /\ Move(j, "new", IF ask[j].op = "launch" THEN "listing" ELSE "connecting")
          /\ UNCHANGED outcome
  /\ UNCHANGED <<chrome, links, mail, pages, jobVars, button, told_of, spare>>

(* launch: is one listening already?  If not one is spawned, unless there  *)
(* is none to be found or it does not start.                               *)
Launches(j) ==
  /\ \/ chrome = "listening" /\ End(j, "listing", "already") /\ UNCHANGED chrome
     \/ chrome # "listening" /\ End(j, "listing", "failed") /\ UNCHANGED chrome
     \/ chrome # "listening" /\ Move(j, "listing", "launching") /\ chrome' = "starting"
                             /\ UNCHANGED outcome
  /\ UNCHANGED <<links, mail, pages, jobVars, button, told_of, spare>>

(* It looks for the port until it opens or its time is up.                 *)
LaunchEnds(j) ==
  /\ End(j, "launching", IF chrome = "listening" THEN "started" ELSE "failed")
  /\ UNCHANGED <<chrome, links, mail, pages, jobVars, button, told_of, spare>>

-----------------------------------------------------------------------------
(* _connect: the session that is there, if nobody closed it; whether       *)
(* anything is left at its other end is not looked at.                     *)
Usable == session # NoLink /\ ~closed[session]

AfterConnect(o) == CASE o = "navigate" -> "clearing"
                     [] o = "console"  -> "looking"
                     [] OTHER          -> "sending"

ConnectReuses(j) ==
  /\ Usable
  /\ Move(j, "connecting", AfterConnect(ask[j].op))
  /\ link' = [link EXCEPT ![j] = session]
  /\ UNCHANGED <<chrome, links, mail, pages, ask, drawn, nth, heard, outcome, shots, button,
                 told_of, spare>>

Unmade == {s \in Links : next[s] = 0}

ConnectOpens(j, s) ==
  /\ ~Usable
  /\ chrome = "listening"
  /\ s \in Unmade /\ \A t \in Unmade : s <= t
  /\ Move(j, "connecting", "enabling")
  /\ link'  = [link EXCEPT ![j] = s]
  /\ wired' = [wired EXCEPT ![s] = TRUE]
  /\ next'  = [next EXCEPT ![s] = 1]
  /\ UNCHANGED <<chrome, session, closed, reports, replies, wire, pages, ask, drawn, nth,
                 heard, outcome, shots, button, told_of, spare>>

ConnectFails(j) ==
  /\ ~Usable
  /\ End(j, "connecting", "failed")
  /\ UNCHANGED <<chrome, links, mail, pages, jobVars, button, told_of, spare>>

(* Reports are switched on, or not, and the connection is kept, whatever   *)
(* another thread has put there meanwhile.                                 *)
Enables(j) ==
  /\ Move(j, "enabling", AfterConnect(ask[j].op))
  /\ session' = link[j]
  /\ \E on \in BOOLEAN : reports' = [reports EXCEPT ![link[j]] = on]
  /\ UNCHANGED <<chrome, closed, wired, mail, pages, jobVars, outcome, button, told_of, spare>>

-----------------------------------------------------------------------------
(* CdpSession.send: a closed session is refused and a number is drawn,     *)
Draws_Shared(j) ==
  /\ stage[j] = "sending"
  /\ IF closed[link[j]] THEN End(j, "sending", "failed") /\ UNCHANGED <<next, drawn>>
     ELSE /\ Move(j, "sending", "posting")
          /\ drawn' = [drawn EXCEPT ![j] = next[link[j]] + nth[j]]
          /\ next'   = [next EXCEPT ![link[j]] = @]
          /\ UNCHANGED outcome
  /\ UNCHANGED <<chrome, links, replies, wire, pages, ask, link, nth, heard, shots, button,
                 told_of, spare>>

Draws(j) ==
  /\ stage[j] = "sending"
  /\ IF closed[link[j]] THEN End(j, "sending", "failed") /\ UNCHANGED <<next, drawn>>
     ELSE /\ Move(j, "sending", "posting")
          /\ drawn' = [drawn EXCEPT ![j] = next[link[j]] + 1]
          /\ next'   = [next EXCEPT ![link[j]] = @ + 1]
          /\ UNCHANGED outcome
  /\ UNCHANGED <<chrome, links, replies, wire, pages, ask, link, nth, heard, shots, button,
                 told_of, spare>>

(* the command goes out, and with it Chrome may begin to load a page, and  *)
(* leave one that it is still loading; which connection drives which tab   *)
(* is not kept,                                                            *)
Loading == {k \in Jobs : page[k] = "loading"}

Command(j) == [link |-> link[j], number |-> drawn[j], by |-> j, nth |-> nth[j]]

Posts(j) ==
  /\ stage[j] = "posting"
  /\ IF wired[link[j]]
     THEN /\ Move(j, "posting", "waiting")
          /\ wire' = wire \cup {Command(j)}
          /\ IF ask[j].op = "navigate" /\ nth[j] = 1
             THEN \E gone \in SUBSET Loading :
                    page' = [k \in Jobs |-> IF k = j THEN "loading"
                                           ELSE IF k \in gone THEN "left" ELSE page[k]]
             ELSE UNCHANGED page
          /\ UNCHANGED outcome
     ELSE End(j, "posting", "failed") /\ UNCHANGED <<wire, page>>
  /\ UNCHANGED <<chrome, links, next, replies, unread, events, pushed, jobVars, button,
                 told_of, spare>>

(* and its answer is waited for, which may be an error.  An answer that    *)
(* comes after its time is never fetched.                                  *)
MyReplies(j) == {m \in replies : m.link = link[j] /\ m.number = drawn[j]}

AfterReply(j) == IF ask[j].op = "navigate" /\ nth[j] = 1 THEN "watching" ELSE "saving"

Receives_ThenClears(j) ==
  \E m \in MyReplies(j) :
    /\ replies' = replies \ {m}
    /\ heard'   = [heard EXCEPT ![j] = @ \cup {[by |-> m.by, nth |-> m.nth, own |-> nth[j]]}]
    /\ \/ Move(j, "waiting", AfterReply(j)) /\ UNCHANGED outcome
       \/ End(j, "waiting", "failed")
    /\ events' = [events EXCEPT ![link[j]] = <<>>]
    /\ UNCHANGED <<chrome, links, next, wire, page, unread, pushed, ask, link, drawn, nth,
                   shots, button, told_of, spare>>

Receives(j) ==
  \E m \in MyReplies(j) :
    /\ replies' = replies \ {m}
    /\ heard'   = [heard EXCEPT ![j] = @ \cup {[by |-> m.by, nth |-> m.nth, own |-> nth[j]]}]
    /\ \/ Move(j, "waiting", AfterReply(j)) /\ UNCHANGED outcome
       \/ End(j, "waiting", "failed")
    /\ UNCHANGED <<chrome, links, next, wire, pages, ask, link, drawn, nth, shots, button,
                   told_of, spare>>

GivesUp_IfCutOff(j) ==
  /\ stage[j] = "waiting" /\ MyReplies(j) = {} /\ ~wired[link[j]]
  /\ End(j, "waiting", "failed")
  /\ UNCHANGED <<chrome, links, mail, pages, jobVars, button, told_of, spare>>

GivesUp(j) ==
  /\ MyReplies(j) = {}
  /\ End(j, "waiting", "failed")
  /\ UNCHANGED <<chrome, links, mail, pages, jobVars, button, told_of, spare>>

-----------------------------------------------------------------------------
(* navigate: what is filed of earlier pages is cleared before the command, *)
Clears_Not(j) ==
  /\ Move(j, "clearing", "sending")
  /\ since' = [since EXCEPT ![j] = {}]
  /\ UNCHANGED <<chrome, links, mail, pages, jobVars, outcome, button, told, missed, spare>>

Clears(j) ==
  /\ Move(j, "clearing", "sending")
  /\ events' = [events EXCEPT ![link[j]] = <<>>]
  /\ since'  = [since EXCEPT ![j] = {}]
  /\ UNCHANGED <<chrome, links, mail, page, unread, pushed, jobVars, outcome, button, told,
                 missed, spare>>

(* the end of the load is waited for, and not for long; then the requests  *)
(* that failed are read.  None, and the title is asked for.                *)
FailuresIn(q) == {q[i].by : i \in {k \in DOMAIN q : q[k].kind = "failed"}}

Failures(s) == FailuresIn(events[s])

Watches(j) ==
  LET fails == Failures(link[j])
  IN  /\ stage[j] = "watching"
      /\ \/ fails # {} /\ End(j, "watching", "did not load") /\ UNCHANGED nth
         \/ fails = {} /\ Move(j, "watching", "sending") /\ nth' = [nth EXCEPT ![j] = 2]
                       /\ UNCHANGED outcome
      /\ told'   = [told EXCEPT ![j] = fails]
      /\ missed' = IF fails = {} /\ page[j] = "failed" /\ j \notin FailuresIn(unread[link[j]])
                   THEN missed \cup {j} ELSE missed
      /\ UNCHANGED <<chrome, links, mail, pages, ask, link, drawn, heard, shots, button, since,
                     spare>>

(* navigate's page is told as loaded.                                      *)
Tells(j) ==
  /\ ask[j].op = "navigate"
  /\ End(j, "saving", "loaded")
  /\ UNCHANGED <<chrome, links, mail, pages, jobVars, button, told_of, spare>>

(* snapshot, click, type_text and evaluate report what the page answered:  *)
(* the element may be missing, or the expression have thrown.              *)
Inspects(j) ==
  /\ ask[j].op = "inspect"
  /\ \E result \in {"ok", "failed"} : End(j, "saving", result)
  /\ UNCHANGED <<chrome, links, mail, pages, jobVars, button, told_of, spare>>

(* screenshot: the picture is written over any of its name.                *)
Saves(j) ==
  /\ ask[j].op = "screenshot"
  /\ End(j, "saving", "ok")
  /\ shots' = [n \in DOMAIN shots \cup {ask[j].name} |-> IF n = ask[j].name THEN j ELSE shots[n]]
  /\ UNCHANGED <<chrome, links, mail, pages, ask, link, drawn, nth, heard, button, told_of, spare>>

(* console and network: what is in the buffer, without asking Chrome.      *)
Looks(j) ==
  /\ End(j, "looking", "ok")
  /\ UNCHANGED <<chrome, links, mail, pages, jobVars, button, told_of, spare>>

-----------------------------------------------------------------------------
(* Chrome sends what happens to the connections that asked for it, and the *)
(* reader thread of each files it, the oldest going when there are many.   *)
Listening == {s \in Links : wired[s] /\ reports[s]}

Reports(e) ==
  /\ unread' = [s \in Links |-> IF s \in Listening THEN Append(unread[s], e) ELSE unread[s]]
  /\ UNCHANGED <<events, pushed>>

Filed(s, e) == IF Len(events[s]) < EVENT_BUFFER THEN Append(events[s], e)
               ELSE Append(Tail(events[s]), e)

Files(s) ==
  LET e == Head(unread[s])
  IN  /\ unread[s] # <<>>
      /\ unread' = [unread EXCEPT ![s] = Tail(@)]
      /\ events' = [events EXCEPT ![s] = Filed(s, e)]
      /\ pushed' = IF Len(events[s]) = EVENT_BUFFER THEN pushed \cup {Head(events[s]).by} ELSE pushed
      /\ since'  = [k \in Jobs |-> IF link[k] = s /\ e.kind = "failed" THEN since[k] \cup {e.by}
                                   ELSE since[k]]
      /\ UNCHANGED <<chrome, links, mail, page, stage, jobVars, outcome, button, told, missed, spare>>

ChromeAnswers(m) ==
  /\ m \in wire
  /\ wire' = wire \ {m}
  /\ replies' = replies \cup {m}
  /\ UNCHANGED <<chrome, links, next, pages, stage, jobVars, outcome, button, told_of, spare>>

PageLoads(j) ==
  /\ page[j] = "loading"
  /\ page' = [page EXCEPT ![j] = "loaded"]
  /\ Reports([kind |-> "load", by |-> j])
  /\ UNCHANGED <<chrome, links, mail, stage, jobVars, outcome, button, told_of, spare>>

(* A request of a page fails, or is given up because the page is left.  One*)
(* that fails when the load has ended counts as one of a page still loading*)
Unsettled == {"loading", "left"}

PageFails(j) ==
  /\ page[j] \in Unsettled
  /\ page' = [page EXCEPT ![j] = "failed"]
  /\ Reports([kind |-> "failed", by |-> j])
  /\ UNCHANGED <<chrome, links, mail, stage, jobVars, outcome, button, told_of, spare>>

PageTalks(j) ==
  /\ spare.noise > 0 /\ chrome = "listening"
  /\ page[j] # None
  /\ spare' = [spare EXCEPT !.noise = @ - 1]
  /\ Reports([kind |-> "noise", by |-> None])
  /\ UNCHANGED <<chrome, links, mail, page, stage, jobVars, outcome, button, told_of>>

ChromeListens ==
  /\ chrome = "starting"
  /\ chrome' = "listening"
  /\ UNCHANGED <<links, mail, pages, stage, jobVars, outcome, button, told_of, spare>>

(* Chrome dies, and what it had not answered with it; the readers go       *)
(* through what was sent, or end before, and nothing else is changed.      *)
ChromeDies ==
  /\ spare.deaths > 0 /\ chrome = "listening"
  /\ chrome' = "none"
  /\ wired'  = [s \in Links |-> FALSE]
  /\ wire'   = {}
  /\ page'   = [j \in Jobs |-> IF page[j] \in Unsettled THEN None ELSE page[j]]
  /\ spare' = [spare EXCEPT !.deaths = @ - 1]
  /\ UNCHANGED <<session, closed, reports, next, replies, unread, events, pushed, stage, jobVars,
                 outcome, button, told_of>>

-----------------------------------------------------------------------------
(* BrowserTools.close, from the emergency stop: the session is marked,     *)
CloseMarks ==
  /\ button.at = "up" /\ spare.presses > 0 /\ session # NoLink
  /\ button'  = [at |-> "marked", link |-> session]
  /\ closed'  = [closed EXCEPT ![session] = TRUE]
  /\ spare' = [spare EXCEPT !.presses = @ - 1]
  /\ UNCHANGED <<chrome, session, wired, reports, mail, pages, stage, jobVars, outcome, told_of>>

(* its socket shut,                                                        *)
CloseShuts ==
  /\ button.at = "marked"
  /\ button' = [button EXCEPT !.at = "shut"]
  /\ wired'  = [wired EXCEPT ![button.link] = FALSE]
  /\ wire'   = {m \in wire : m.link # button.link}
  /\ unread' = [unread EXCEPT ![button.link] = <<>>]
  /\ UNCHANGED <<chrome, session, closed, reports, next, replies, page, events, pushed, stage,
                 jobVars, outcome, told_of, spare>>

(* and whatever session is there by now is let go.                         *)
CloseForgets ==
  /\ button.at = "shut"
  /\ button'  = [at |-> "up", link |-> NoLink]
  /\ session' = NoLink
  /\ UNCHANGED <<chrome, closed, wired, reports, mail, pages, stage, jobVars, outcome, told_of, spare>>

-----------------------------------------------------------------------------
JobStep(j) ==
  \/ BeginCall(j) \/ Launches(j) \/ LaunchEnds(j)
  \/ ConnectReuses(j) \/ ConnectFails(j) \/ Enables(j)
  \/ \E s \in Links : ConnectOpens(j, s)
  \/ Draws(j) \/ Posts(j) \/ Receives(j) \/ GivesUp(j)
  \/ Clears(j) \/ Watches(j) \/ Looks(j)
  \/ Tells(j) \/ Inspects(j) \/ Saves(j)

ChromeStep ==
  \/ \E m \in wire : ChromeAnswers(m)
  \/ \E j \in Jobs : PageLoads(j) \/ PageFails(j) \/ PageTalks(j)
  \/ \E s \in Links : Files(s)
  \/ ChromeListens \/ ChromeDies

BrowserNext == \/ \E j \in Jobs : JobStep(j)
        \/ ChromeStep
        \/ CloseMarks \/ CloseShuts \/ CloseForgets

BrowserSpec == BrowserInit /\ [][BrowserNext]_browserVars

-----------------------------------------------------------------------------
(* A call gets the answer to the very command it sent, though several      *)
(* share the connection, and though answers arrive that nobody waits for   *)
(* any more (cdp.py:132-158).                                              *)
OwnReply == \A j \in Jobs : \A h \in heard[j] : h.by = j /\ h.nth = h.own

(* "Did not load" is said of failures the connection has filed since this  *)
(* call cleared them, never of one that was on file before, whatever other *)
(* calls file, push out and clear meanwhile (browser.py:199, 211-222).     *)
ToldIsRecent == \A j \in Jobs : told[j] \subseteq since[j]

(* Not kept: they may be another page's, of a call that shares the         *)
(* connection, or of the page that was left, whose failure was sent before *)
(* the clearing or because of it, and read after (README, section 6).      *)
ToldIsOwn == \A j \in Jobs : told[j] \subseteq {j}

(* A page that failed, as its connection had read while it was waited for, *)
(* is not told as loaded, but for what it takes to lose the failure: the   *)
(* connection was not told or was closed, the buffer was full, or another  *)
(* navigation cleared it away (browser.py:199-222, cdp.py:116, 160-171).   *)
FailureIsTold ==
  \A j \in missed :
    \/ ~reports[link[j]] \/ closed[link[j]]
    \/ j \in pushed
    \/ \E k \in Jobs \ {j} : ask[k].op = "navigate" /\ link[k] = link[j]

(* No call is ever stuck: Chrome may not answer, die or be closed, and     *)
(* there is still a step the call's own thread can take, and each brings   *)
(* it nearer its end (cdp.py:154-157, browser.py:111, 204).                *)
NeverStuck == \A j \in Jobs : stage[j] # "done" => ENABLED JobStep(j)
=============================================================================
