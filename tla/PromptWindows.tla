---------------------------- MODULE PromptWindows ----------------------------
(***************************************************************************)
(* adapters/shared/notifier_tk.py and notifier.py: how a request is shown, *)
(* in a window of its own thread or on the terminal, and how the prompt    *)
(* goes away again.  Of the queue behind it only what it tells a notifier  *)
(* is kept: a request is pending until somebody settles it, and withdraw   *)
(* is called by the thread that waited in vain, and by nobody else.        *)
(***************************************************************************)
EXTENDS Naturals

CONSTANTS Requests, Notifiers  \* which of "tk" and "console" there may be

VARIABLES notifier,   \* the one there is
          settled,    \* each request: "unasked", "pending" or its outcome
          asker,      \* the thread that asks: off, waiting, expired or back
          late,       \* the requests whose time is up
          prompt,     \* each prompt: none, starting, rooted, up, gone or dead
          windows,    \* TkNotifier._windows
          doomed,     \* windows that are to destroy themselves
          owed        \* the outcome a prompt is about to report

promptVars == <<notifier, settled, asker, late, prompt, windows, doomed, owed>>

Nothing  == "nothing"
Answered == "answered"   \* whatever was chosen: the prompts do not depend on it

PromptInit ==
  /\ notifier \in Notifiers
  /\ settled = [r \in Requests |-> "unasked"]
  /\ asker   = [r \in Requests |-> "off"]
  /\ late    = {}
  /\ prompt  = [r \in Requests |-> "none"]
  /\ windows = {} /\ doomed = {}
  /\ owed    = [r \in Requests |-> Nothing]

Turn(r, from, to) == prompt[r] = from /\ prompt' = [prompt EXCEPT ![r] = to]

(* ask presents the request: a thread that will make the window, or the    *)
(* text on the terminal and a thread that reads a line.                    *)
Presents(r) ==
  /\ settled[r] = "unasked"
  /\ settled' = [settled EXCEPT ![r] = "pending"]
  /\ asker'   = [asker EXCEPT ![r] = "waiting"]
  /\ Turn(r, "none", IF notifier = "tk" THEN "starting" ELSE "up")
  /\ UNCHANGED <<notifier, late, windows, doomed, owed>>

(* _show: the window is made, then registered, and only then answers; a    *)
(* first tick that finds the time up answers in its place.                 *)
Roots(r) ==
  /\ notifier = "tk" /\ Turn(r, "starting", "rooted")
  /\ UNCHANGED <<notifier, settled, asker, late, windows, doomed, owed>>

Registers(r) ==
  /\ notifier = "tk" /\ Turn(r, "rooted", "up")
  /\ windows' = windows \cup {r}
  /\ UNCHANGED <<notifier, settled, asker, late, doomed, owed>>

(* The thread of a window dies where it stands, because tkinter raises: the *)
(* display is gone, or was never to be had.  Nobody is told.               *)
Breaks(r) ==
  /\ notifier = "tk" /\ \E from \in {"starting", "rooted", "up"} : Turn(r, from, "dead")
  /\ UNCHANGED <<notifier, settled, asker, late, windows, doomed, owed>>

(* answer: the window goes before its outcome is reported.                 *)
Answers(r, outcome) ==
  /\ Turn(r, "up", "gone")
  /\ owed'    = [owed EXCEPT ![r] = outcome]
  /\ windows' = windows \ {r}
  /\ UNCHANGED <<notifier, settled, asker, late, doomed>>

(* The owner presses a button, or closes the window, which denies.         *)
Presses(r) == notifier = "tk" /\ Answers(r, Answered)

(* tick: the countdown has run out.                                        *)
Ticks_IfPending(r) == /\ notifier = "tk" /\ r \in late /\ settled[r] = "pending"
                      /\ Answers(r, "timed out")

Ticks(r) == notifier = "tk" /\ r \in late /\ Answers(r, "timed out")

(* A line typed on the terminal goes to any of the threads that read, the  *)
(* one of an expired prompt among them; at the end of the input it denies. *)
Types(r) == notifier = "console" /\ Answers(r, Answered)

(* A terminal that cannot be read ends the reader, which answers nothing.  *)
ReaderFails(r) ==
  /\ notifier = "console" /\ Turn(r, "up", "dead")
  /\ UNCHANGED <<notifier, settled, asker, late, windows, doomed, owed>>

(* respond: the first to settle a request settles it.                      *)
Responds(r) ==
  /\ owed[r] # Nothing
  /\ owed' = [owed EXCEPT ![r] = Nothing]
  /\ settled' = IF settled[r] = "pending" THEN [settled EXCEPT ![r] = owed[r]] ELSE settled
  /\ UNCHANGED <<notifier, asker, late, prompt, windows, doomed>>

(* The console page answers it, or the emergency stop refuses it; neither  *)
(* touches the prompt.                                                     *)
Elsewhere(r) ==
  /\ settled[r] = "pending"
  /\ settled' = [settled EXCEPT ![r] = Answered]
  /\ UNCHANGED <<notifier, asker, late, prompt, windows, doomed, owed>>

TimePasses(r) ==
  /\ settled[r] # "unasked" /\ r \notin late
  /\ late' = late \cup {r}
  /\ UNCHANGED <<notifier, settled, asker, prompt, windows, doomed, owed>>

(* ask comes back with what was settled;                                   *)
Returns(r) ==
  /\ asker[r] = "waiting" /\ settled[r] # "pending"
  /\ asker' = [asker EXCEPT ![r] = "back"]
  /\ UNCHANGED <<notifier, settled, late, prompt, windows, doomed, owed>>

(* or it has waited in vain and withdraws the prompt: a window that is     *)
(* registered is told to destroy itself, which may fail unnoticed (a root  *)
(* that is not in its main loop yet takes no orders), one that is not yet  *)
(* is left to its countdown; the terminal is only told,                    *)
Withdraws_All(r) ==
  /\ asker[r] = "waiting" /\ settled[r] = "pending" /\ r \in late
  /\ asker'   = [asker EXCEPT ![r] = "expired"]
  /\ windows' = {}
  /\ doomed'  = doomed \cup windows
  /\ UNCHANGED <<notifier, settled, late, prompt, owed>>

Withdraws(r) ==
  /\ asker[r] = "waiting" /\ settled[r] = "pending" /\ r \in late
  /\ asker'   = [asker EXCEPT ![r] = "expired"]
  /\ windows' = windows \ {r}
  /\ \E told \in SUBSET (windows \cap {r}) : doomed' = doomed \cup told
  /\ UNCHANGED <<notifier, settled, late, prompt, owed>>

(* and settles the request, unless an answer was quicker.                  *)
Expires(r) ==
  /\ asker[r] = "expired"
  /\ asker'   = [asker EXCEPT ![r] = "back"]
  /\ settled' = IF settled[r] = "pending" THEN [settled EXCEPT ![r] = "timed out"] ELSE settled
  /\ UNCHANGED <<notifier, late, prompt, windows, doomed, owed>>

Destroys(r) ==
  /\ r \in doomed /\ Turn(r, "up", "gone")
  /\ UNCHANGED <<notifier, settled, asker, late, windows, doomed, owed>>

-----------------------------------------------------------------------------
WindowStep(r) == Roots(r) \/ Registers(r) \/ Ticks(r) \/ Destroys(r) \/ Responds(r)
CallStep(r)    == Returns(r) \/ Withdraws(r) \/ Expires(r)

PromptNext ==
  \E r \in Requests :
    \/ Presents(r) \/ WindowStep(r) \/ CallStep(r) \/ TimePasses(r)
    \/ Presses(r) \/ Types(r) \/ Elsewhere(r) \/ Breaks(r) \/ ReaderFails(r)

PromptSpec == PromptInit /\ [][PromptNext]_promptVars

(* Time passes and the program's threads run; nobody has to press or type, *)
(* and nothing has to break.                                               *)
(* Every step ends something for good, so it is enough that one of them is *)
(* taken whenever there is one.                                            *)
PromptFairness == WF_promptVars(\E r \in Requests : TimePasses(r) \/ WindowStep(r) \/ CallStep(r))

-----------------------------------------------------------------------------
(* While a call waits on a request there is a prompt that can still answer *)
(* it, or one that is answering, or its own display or terminal has failed *)
(* it: no other request's end takes its window away (notifier_tk.py:75-81, *)
(* 104-112; notifier_tk.py:3-5).                                           *)
PromptStands ==
  \A r \in Requests :
    asker[r] = "waiting" /\ settled[r] = "pending"
    => \/ prompt[r] \in {"starting", "rooted", "up"} /\ r \notin doomed
       \/ owed[r] # Nothing
       \/ prompt[r] = "dead"

(* Every window goes away by itself, unless it dies: the one whose request *)
(* was answered on the console page and the one that came up after it was  *)
(* withdrawn too (notifier_tk.py:75-81, 154-164).                          *)
WindowsGo ==
  \A r \in Requests : notifier = "tk" /\ prompt[r] # "none" ~> prompt[r] \in {"gone", "dead"}
=============================================================================
