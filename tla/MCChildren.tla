----------------------------- MODULE MCChildren -----------------------------
(* What runs beside the server, each on a small instance: the processes it *)
(* starts and the browser it drives.  Neither reads what the other keeps,  *)
(* so a behaviour moves one of them.                                       *)
EXTENDS ProcessManager, Browser, TLC

CONSTANTS b1, b2

VARIABLE part

PartsInit == /\ part \in {"processes", "browser"}
             /\ Init /\ BrowserInit
             /\ part = "processes" => chrome = "none" /\ ask = (CHOOSE mix \in Mixes : TRUE).ask

PartsNext ==
  /\ UNCHANGED part
  /\ \/ part = "processes" /\ Next /\ UNCHANGED browserVars
     \/ part = "browser" /\ BrowserNext /\ UNCHANGED vars

PartsSpec == PartsInit /\ [][PartsNext]_<<part, vars, browserVars>> /\ WF_vars(StopStep)

(* Two calls, and what may happen while they run.                          *)
Http(h)    == [scheme |-> "http", host |-> h]
Blank      == [scheme |-> "about", host |-> "none"]
Opens(url) == [op |-> "navigate", url |-> url, name |-> "none"]
Does(o)    == [op |-> o, url |-> Blank, name |-> "page"]

Mix(x, y, n, d, p) == [ask |-> b1 :> x @@ b2 :> y, noise |-> n, deaths |-> d, presses |-> p]

MCMixes ==
  LET local == Opens(Http("localhost"))
      shot  == Does("screenshot")
  IN  {Mix(local, local, 0, 0, 0), Mix(local, shot, 0, 1, 0), Mix(shot, shot, 0, 0, 1),
       Mix(shot, local, 0, 0, 1), Mix(local, Does("launch"), 1, 1, 0),
       Mix(Does("inspect"), Opens(Http("listed")), 0, 0, 0)}
      \cup {Mix(local, o, 2, 0, 0) : o \in {Does("console"), Opens(Http("else")),
                                             Opens([scheme |-> "file", host |-> "secrets"])}}
=============================================================================
