--------------------------- MODULE ProcessManager ---------------------------
(***************************************************************************)
(* adapters/shared/process.py with the killing of posix/process.py: the    *)
(* processes tools start, the ceiling on them, and the stop button.        *)
(*                                                                         *)
(* Tools run on threads that share one adapter without a lock.  Drawing    *)
(* the number of a new process is one step: the interpreter switches       *)
(* threads at calls and loops, and there is neither between the two lines. *)
(* What a process starts in turn, and _kill_tree reaches through its       *)
(* group, is not modelled.                                                 *)
(***************************************************************************)
EXTENDS Naturals, FiniteSets

CONSTANTS Threads,      \* worker threads that spawn or run
          MaxRunning,   \* MAX_RUNNING
          MaxProcs,     \* bound: processes ever started, numbers ever drawn
          MaxStops      \* bound: how often stop_all is called

ASSUME ThreadsAssumption == IsFiniteSet(Threads)
ASSUME ProcessAssumption == {MaxProcs, MaxStops} \subseteq Nat /\ MaxRunning \in Nat \ {0}

VARIABLES state, kind,        \* each process: unborn, up or down; spawn or run
          counter, handles,   \* _counter, _handles
          pc, number, own,    \* each thread: where it stands, its number, its process
          seen,               \* how many handles there were when it began to list them
          stop                \* stop_all: its phase, the handles to stop, how often it ran,
                              \* and, for the record, whose own stop has failed

procVars == <<state, kind>>
vars == <<procVars, counter, handles, pc, number, own, seen, stop>>

Procs  == 1 .. MaxProcs
Nobody == 0

Init ==
  /\ state = [p \in Procs |-> "unborn"]
  /\ kind = [p \in Procs |-> "none"]
  /\ counter = 0
  /\ handles = [i \in Procs |-> Nobody]
  /\ pc = [t \in Threads |-> "idle"]
  /\ number = [t \in Threads |-> 0]
  /\ own = [t \in Threads |-> Nobody]
  /\ seen = [t \in Threads |-> 0]
  /\ stop = [phase |-> "off", left |-> {}, asked |-> {}, failed |-> {}, seen |-> 0, count |-> 0]

Handles == {i \in Procs : handles[i] # Nobody}

(* list_running: handles whose process is up.                              *)
Running == {i \in Handles : state[handles[i]] = "up"}

Unborn == {p \in Procs : state[p] = "unborn"}

(* A process starts.                                                       *)
Begin(p, k) ==
  /\ p = CHOOSE q \in Unborn : \A s \in Unborn : q <= s
  /\ state' = [state EXCEPT ![p] = "up"]
  /\ kind' = [kind EXCEPT ![p] = k]

At(t, from, to) == pc[t] = from /\ pc' = [pc EXCEPT ![t] = to]

-----------------------------------------------------------------------------
(* spawn goes through the handles, polling each, which takes a while; a    *)
(* handle that is added meanwhile makes the loop raise,                    *)
SpawnLists(t) ==
  /\ At(t, "idle", "listing")
  /\ seen' = [seen EXCEPT ![t] = Cardinality(Handles)]
  /\ UNCHANGED <<procVars, counter, handles, number, own, stop>>

(* the ceiling is checked,                                                 *)
SpawnChecks_OffByOne(t) ==
  /\ At(t, "listing", "checked")
  /\ seen[t] = Cardinality(Handles)
  /\ Cardinality(Running) <= MaxRunning
  /\ UNCHANGED <<procVars, counter, handles, number, own, seen, stop>>

SpawnChecks(t) ==
  /\ At(t, "listing", "checked")
  /\ seen[t] = Cardinality(Handles)
  /\ Cardinality(Running) < MaxRunning
  /\ UNCHANGED <<procVars, counter, handles, number, own, seen, stop>>

(* a number is drawn,                                                      *)
SpawnNumbers(t) ==
  /\ At(t, "checked", "numbered")
  /\ counter < MaxProcs
  /\ counter' = counter + 1
  /\ number' = [number EXCEPT ![t] = counter + 1]
  /\ UNCHANGED <<procVars, handles, own, seen, stop>>

(* the process is started,                                                 *)
SpawnStarts(t, p) ==
  /\ At(t, "numbered", "started")
  /\ Begin(p, "spawn")
  /\ own' = [own EXCEPT ![t] = p]
  /\ UNCHANGED <<counter, handles, number, seen, stop>>

(* and its handle is kept; or an error ends it on the way there.           *)
SpawnRegisters(t) ==
  /\ At(t, "started", "idle")
  /\ handles' = [handles EXCEPT ![number[t]] = own[t]]
  /\ own' = [own EXCEPT ![t] = Nobody]
  /\ UNCHANGED <<procVars, counter, number, seen, stop>>

SpawnFails(t) ==
  /\ \E at \in {"listing", "checked", "numbered"} : At(t, at, "idle")
  /\ UNCHANGED <<procVars, counter, handles, number, own, seen, stop>>

(* run: a process no handle knows of, waited for by its thread.            *)
RunStarts(t, p) ==
  /\ At(t, "idle", "running")
  /\ Begin(p, "run")
  /\ own' = [own EXCEPT ![t] = p]
  /\ UNCHANGED <<counter, handles, number, seen, stop>>

(* It ends, or its time is up and it is killed.                            *)
RunEnds(t) ==
  /\ At(t, "running", "idle")
  /\ state' = [state EXCEPT ![own[t]] = "down"]
  /\ own' = [own EXCEPT ![t] = Nobody]
  /\ UNCHANGED <<kind, counter, handles, number, seen, stop>>

(* Processes end by themselves.                                            *)
Ends(p) ==
  /\ state[p] = "up" /\ kind[p] = "spawn"
  /\ state' = [state EXCEPT ![p] = "down"]
  /\ UNCHANGED <<kind, counter, handles, pc, number, own, seen, stop>>

-----------------------------------------------------------------------------
(* BaseHandle.stop and _kill_tree: SIGTERM, and SIGKILL if it stays.  It   *)
(* may still be up a second later; or its group cannot be signalled.       *)
Results == {"exited", "up", "error"}

StopHandle(i, result) ==
  /\ state' = IF result = "exited" THEN [state EXCEPT ![handles[i]] = "down"] ELSE state
  /\ UNCHANGED kind

(* The owner or a tool stops one process.                                  *)
StopOne(i) ==
  /\ i \in Running
  /\ \E result \in Results : StopHandle(i, result)
  /\ UNCHANGED <<counter, handles, pc, number, own, seen, stop>>

(* stop_all goes through the handles;                                      *)
StopAllLists ==
  /\ stop.phase = "off" /\ stop.count < MaxStops
  /\ stop' = [phase |-> "listing", left |-> {}, asked |-> Running, failed |-> {},
              seen |-> Cardinality(Handles), count |-> stop.count + 1]
  /\ UNCHANGED <<procVars, counter, handles, pc, number, own, seen>>

(* one that is added meanwhile makes it raise;                             *)
StopAllRaises ==
  /\ stop.phase = "listing" /\ stop.seen # Cardinality(Handles)
  /\ stop' = [stop EXCEPT !.phase = "off", !.asked = {}]
  /\ UNCHANGED <<procVars, counter, handles, pc, number, own, seen>>

(* what was up when it was polled is to be stopped,                        *)
StopAllBegins ==
  /\ stop.phase = "listing" /\ stop.seen = Cardinality(Handles)
  /\ \E left \in SUBSET stop.asked :
       /\ Running \subseteq left
       /\ stop' = [stop EXCEPT !.phase = "stopping", !.left = left]
  /\ UNCHANGED <<procVars, counter, handles, pc, number, own, seen>>

(* one after the other, also after an error,                              *)
StopAllStops_InOneTry(i) ==
  /\ i \in stop.left
  /\ \E result \in Results :
       /\ StopHandle(i, result)
       /\ stop' = [stop EXCEPT !.left = IF result = "error" THEN {} ELSE @ \ {i},
                              !.failed = IF result = "exited" THEN @ ELSE @ \cup {i}]
  /\ UNCHANGED <<counter, handles, pc, number, own, seen>>

StopAllStops(i) ==
  /\ i \in stop.left
  /\ \E result \in Results :
       /\ StopHandle(i, result)
       /\ stop' = [stop EXCEPT !.left = @ \ {i},
                              !.failed = IF result = "exited" THEN @ ELSE @ \cup {i}]
  /\ UNCHANGED <<counter, handles, pc, number, own, seen>>

(* and it returns.                                                         *)
StopAllReturns_WhenAlone ==
  /\ stop.phase = "stopping" /\ Running = {}
  /\ stop' = [stop EXCEPT !.phase = "off", !.left = {}, !.asked = {}]
  /\ UNCHANGED <<procVars, counter, handles, pc, number, own, seen>>

StopAllReturns ==
  /\ stop.phase = "stopping" /\ stop.left = {}
  /\ stop' = [stop EXCEPT !.phase = "off", !.asked = {}]
  /\ UNCHANGED <<procVars, counter, handles, pc, number, own, seen>>

ThreadStep(t) ==
  \/ SpawnLists(t) \/ SpawnChecks(t) \/ SpawnNumbers(t) \/ SpawnRegisters(t)
  \/ SpawnFails(t) \/ RunEnds(t)
  \/ \E p \in Unborn : SpawnStarts(t, p) \/ RunStarts(t, p)

StopStep == \/ StopAllRaises \/ StopAllBegins \/ StopAllReturns
            \/ \E i \in Procs : StopAllStops(i)

Next == \/ \E t \in Threads : ThreadStep(t)
        \/ \E p \in Procs : Ends(p)
        \/ \E i \in Procs : StopOne(i)
        \/ StopAllLists
        \/ StopStep

Spec == Init /\ [][Next]_vars

(* The thread that stops everything runs on: every wait in it is bounded.  *)
FairSpec == Spec /\ WF_vars(StopStep)

-----------------------------------------------------------------------------
TypeOK ==
  /\ handles \in [Procs -> Procs \cup {Nobody}]
  /\ counter \in 0 .. MaxProcs
  /\ pc \in [Threads -> {"idle", "listing", "checked", "numbered", "started", "running"}]
  /\ stop.phase \in {"off", "listing", "stopping"} /\ stop.left \subseteq stop.asked
  /\ \A t \in Threads : own[t] # Nobody <=> pc[t] \in {"started", "running"}

(* The ceiling is checked in one step and counted in a later one, so       *)
(* threads overrun it together, but by less than there are threads         *)
(* (process.py:167-198).                                                   *)
Spawned == {p \in Procs : kind[p] = "spawn" /\ state[p] = "up"}

CeilingBound == Cardinality(Spawned) < MaxRunning + Cardinality(Threads)

(* When stop_all has returned, every process that could be stopped when it *)
(* began is down, or it is its own stop that failed: nobody else's failure,*)
(* and nothing that was started or stopped meanwhile, has spared it        *)
(* (process.py:210-219).                                                   *)
StopAllIsThorough ==
  [][stop.phase = "stopping" /\ stop'.phase = "off"
       => \A i \in stop.asked : state[handles[i]] = "down" \/ i \in stop.failed]_vars

(* stop_all comes to its end, while threads go on starting processes.      *)
StopAllEnds == stop.phase # "off" ~> stop.phase = "off"

(* What stop_all says of itself (process.py:211): it does not stop at the  *)
(* first failure, so it leaves nothing it could have stopped.              *)
StopAllSurvives ==
  [][stop.phase # "off" /\ stop'.phase = "off"
       => \A i \in stop.asked : state[handles[i]] = "down" \/ i \in stop.failed]_vars
=============================================================================
