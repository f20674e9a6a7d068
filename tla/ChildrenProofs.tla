---------------------------- MODULE ChildrenProofs ----------------------------
(* What runs beside the server: its processes, and then its browser.       *)
EXTENDS ProcessManager, Browser, FiniteSetTheorems, TLAPS

(***************************************************************************)
(* However many threads start processes, and whoever stops them meanwhile: *)
(* they overrun the ceiling by less than there are threads.                *)
(*                                                                         *)
(* A thread that passes the check counts what the handles know of.  What   *)
(* they do not know of is a process whose thread has not registered it,    *)
(* and no two threads share a number, so no handle is ever written over.   *)
(* The invariant therefore counts the spawned processes together with the  *)
(* threads that have passed the check and started nothing yet.             *)
(***************************************************************************)

Starting == {t \in Threads : pc[t] = "started"}
Between  == {t \in Threads : pc[t] \in {"checked", "numbered"}}
Numbered == {t \in Threads : pc[t] \in {"numbered", "started"}}

ThreadStages == {"idle", "listing", "checked", "numbered", "started", "running"}

ProcTypeI ==
  /\ state \in [Procs -> {"unborn", "up", "down"}]
  /\ kind \in [Procs -> {"none", "spawn", "run"}]
  /\ counter \in 0 .. MaxProcs
  /\ handles \in [Procs -> Procs \cup {Nobody}]
  /\ pc \in [Threads -> ThreadStages]
  /\ number \in [Threads -> 0 .. MaxProcs]
  /\ own \in [Threads -> Procs \cup {Nobody}]

(* A number that is drawn is nobody else's, and no handle's yet.           *)
Fresh ==
  /\ \A i \in Procs : i > counter => handles[i] = Nobody
  /\ \A t \in Numbered : number[t] \in 1 .. counter /\ handles[number[t]] = Nobody
  /\ \A t, u \in Numbered : t # u => number[t] # number[u]

Owned == \A t \in Starting : own[t] \in Procs

(* Every spawned process is known by a handle or by the thread that        *)
(* started it.                                                             *)
Kept == \A p \in Spawned : \/ \E i \in Running : handles[i] = p
                           \/ \E t \in Starting : own[t] = p

Counted == Cardinality(Spawned) + Cardinality(Between) < MaxRunning + Cardinality(Threads)

ProcInv == ProcTypeI /\ Fresh /\ Owned /\ Kept /\ Counted

-----------------------------------------------------------------------------
(* A set whose elements all come from another is no larger.                *)
LEMMA NoLarger ==
  ASSUME NEW S, NEW T, IsFiniteSet(T), NEW f, \A p \in S : \E i \in T : f[i] = p
  PROVE  IsFiniteSet(S) /\ Cardinality(S) <= Cardinality(T)
<1> DEFINE g == [p \in S |-> CHOOSE i \in T : f[i] = p]
<1>1. \A p \in S : g[p] \in T /\ f[g[p]] = p OBVIOUS
<1>2. g \in [S -> T] BY <1>1
<1>3. \A p, q \in S : g[p] = g[q] => p = q BY <1>1
<1>4. g \in Injection(S, T) BY <1>2, <1>3 DEF Injection, IsInjective
<1> QED BY <1>4, FS_Injection

(* Two finite sets, and their sizes.                                       *)
LEMMA Sizes ==
  ASSUME NEW S, IsFiniteSet(S), NEW T, IsFiniteSet(T)
  PROVE  /\ IsFiniteSet(S \cup T) /\ Cardinality(S \cup T) \in Nat
         /\ Cardinality(S) \in Nat /\ Cardinality(T) \in Nat
         /\ Cardinality(S \cup T) <= Cardinality(S) + Cardinality(T)
         /\ S \cap T = {} => Cardinality(S \cup T) = Cardinality(S) + Cardinality(T)
<1>1. IsFiniteSet(S \cap T) BY FS_Subset
<1>2. Cardinality(S) \in Nat /\ Cardinality(T) \in Nat /\ Cardinality(S \cap T) \in Nat
  BY <1>1, FS_CardinalityType
<1>3. /\ IsFiniteSet(S \cup T)
      /\ Cardinality(S \cup T) = Cardinality(S) + Cardinality(T) - Cardinality(S \cap T)
  BY FS_Union
<1>4. Cardinality(S \cup T) \in Nat BY <1>3, FS_CardinalityType
<1>5. S \cap T = {} => Cardinality(S \cap T) = 0 BY FS_EmptySet
<1> QED BY <1>2, <1>3, <1>4, <1>5

LEMMA Finite ==
  /\ IsFiniteSet(Procs) /\ IsFiniteSet(Threads)
  /\ IsFiniteSet(Spawned) /\ IsFiniteSet(Running)
  /\ IsFiniteSet(Starting) /\ IsFiniteSet(Between)
<1>1. IsFiniteSet(Procs) BY ProcessAssumption, FS_Interval DEF Procs
<1>2. IsFiniteSet(Threads) BY ThreadsAssumption
<1>3. Spawned \subseteq Procs /\ Running \subseteq Procs BY DEF Spawned, Running, Handles
<1>4. Starting \subseteq Threads /\ Between \subseteq Threads BY DEF Starting, Between
<1> QED BY <1>1, <1>2, <1>3, <1>4, FS_Subset

(* The handles and the starting threads between them know every spawned    *)
(* process.                                                                *)
LEMMA Known == Kept => Cardinality(Spawned) <= Cardinality(Running) + Cardinality(Starting)
<1> SUFFICES ASSUME Kept PROVE Cardinality(Spawned) <= Cardinality(Running) + Cardinality(Starting)
  OBVIOUS
<1> DEFINE A == {p \in Spawned : \E i \in Running : handles[i] = p}
           B == {p \in Spawned : \E t \in Starting : own[t] = p}
<1>1. Spawned = A \cup B BY DEF Kept
<1>2. IsFiniteSet(A) /\ Cardinality(A) <= Cardinality(Running) BY Finite, NoLarger
<1>3. IsFiniteSet(B) /\ Cardinality(B) <= Cardinality(Starting) BY Finite, NoLarger
<1>4. Cardinality(Running) \in Nat /\ Cardinality(Starting) \in Nat BY Finite, FS_CardinalityType
<1> HIDE DEF A, B
<1>5. /\ Cardinality(A \cup B) <= Cardinality(A) + Cardinality(B) /\ Cardinality(A \cup B) \in Nat
      /\ Cardinality(A) \in Nat /\ Cardinality(B) \in Nat
  BY <1>2, <1>3, Sizes
<1> QED BY <1>1, <1>2, <1>3, <1>4, <1>5

(* Fewer spawned processes and fewer threads between check and start.      *)
LEMMA Fewer ==
  ASSUME Counted, Spawned' \subseteq Spawned, Between' \subseteq Between
  PROVE  Counted'
<1>1. Cardinality(Spawned') <= Cardinality(Spawned) /\ Cardinality(Spawned') \in Nat
  BY Finite, FS_Subset, FS_CardinalityType
<1>2. Cardinality(Between') <= Cardinality(Between) /\ Cardinality(Between') \in Nat
  BY Finite, FS_Subset, FS_CardinalityType
<1>3. /\ Cardinality(Spawned) \in Nat /\ Cardinality(Between) \in Nat
      /\ Cardinality(Threads) \in Nat /\ MaxRunning \in Nat
  BY Finite, FS_CardinalityType, ProcessAssumption
<1> QED BY <1>1, <1>2, <1>3 DEF Counted

-----------------------------------------------------------------------------
LEMMA InitProcInv == Init => ProcInv
<1> SUFFICES ASSUME Init PROVE ProcInv
  OBVIOUS
<1>1. ProcTypeI BY ProcessAssumption DEF Init, ProcTypeI, ThreadStages, Nobody, Procs
<1>2. Spawned = {} /\ Between = {} /\ Starting = {} /\ Numbered = {}
  BY DEF Init, Spawned, Between, Starting, Numbered
<1>3. Fresh /\ Owned /\ Kept BY <1>2 DEF Init, Fresh, Owned, Kept
<1>4. Cardinality(Spawned) = 0 /\ Cardinality(Between) = 0 BY <1>2, FS_EmptySet
<1>5. Cardinality(Threads) \in Nat /\ MaxRunning \in Nat \ {0}
  BY Finite, FS_CardinalityType, ProcessAssumption
<1> QED BY <1>1, <1>3, <1>4, <1>5 DEF ProcInv, Counted

(* Some processes go down, and nothing else happens.                       *)
LEMMA GoesDown ==
  ASSUME ProcInv, NEW p, state' = state \/ state' = [state EXCEPT ![p] = "down"],
         UNCHANGED <<kind, counter, handles, pc, number, own>>
  PROVE  ProcInv'
<1>1. \A q \in Procs : state'[q] = "up" => state[q] = "up" BY DEF ProcInv, ProcTypeI
<1>2. ProcTypeI' /\ Fresh' /\ Owned' BY DEF ProcInv, ProcTypeI, Fresh, Owned, Numbered, Starting
<1>3. Spawned' \subseteq Spawned BY <1>1 DEF Spawned
<1>4. Kept'
  <2> SUFFICES ASSUME NEW q \in Spawned'
               PROVE  \/ \E i \in Running' : handles'[i] = q
                      \/ \E t \in Starting' : own'[t] = q
    BY DEF Kept
  <2>1. q \in Spawned /\ state'[q] = "up" BY <1>3 DEF Spawned
  <2>2. CASE \E i \in Running : handles[i] = q
    BY <2>1, <2>2 DEF Running, Handles
  <2>3. CASE \E t \in Starting : own[t] = q BY <2>3 DEF Starting
  <2> QED BY <2>1, <2>2, <2>3 DEF ProcInv, Kept
<1>5. Between' = Between BY DEF Between
<1> QED BY <1>2, <1>3, <1>4, <1>5, Fewer DEF ProcInv

(* A thread that neither has nor gets a number moves on.                   *)
LEMMA MovesOn ==
  ASSUME ProcInv, NEW t \in Threads, NEW to \in ThreadStages,
         pc' = [pc EXCEPT ![t] = to],
         pc[t] # "started", to \notin {"numbered", "started"},
         UNCHANGED <<state, kind, counter, handles, number, own>>
  PROVE  /\ ProcTypeI' /\ Fresh' /\ Owned' /\ Kept'
         /\ Spawned' = Spawned /\ Running' = Running /\ Starting' = Starting
         /\ Between' = IF to = "checked" THEN Between \cup {t} ELSE Between \ {t}
<1>1. ProcTypeI' BY DEF ProcInv, ProcTypeI
<1>2. /\ Spawned' = Spawned /\ Running' = Running
      /\ Starting' = Starting /\ Numbered' \subseteq Numbered
  BY DEF ProcInv, ProcTypeI, Spawned, Running, Handles, Starting, Numbered
<1>3. Between' = IF to = "checked" THEN Between \cup {t} ELSE Between \ {t}
  BY DEF ProcInv, ProcTypeI, Between
<1>4. Fresh' BY <1>2 DEF ProcInv, Fresh
<1>5. Owned' /\ Kept' BY <1>2 DEF ProcInv, Owned, Kept
<1> QED BY <1>1, <1>2, <1>3, <1>4, <1>5

-----------------------------------------------------------------------------
LEMMA ChecksKeeps == ASSUME ProcInv, NEW t \in Threads, SpawnChecks(t) PROVE ProcInv'
<1>1. /\ pc[t] = "listing" /\ pc' = [pc EXCEPT ![t] = "checked"]
      /\ Cardinality(Running) < MaxRunning
      /\ UNCHANGED <<state, kind, counter, handles, number, own>>
  BY DEF SpawnChecks, At, procVars
<1>2. /\ ProcTypeI' /\ Fresh' /\ Owned' /\ Kept'
      /\ Spawned' = Spawned /\ Starting' = Starting /\ Between' = Between \cup {t}
  BY <1>1, MovesOn DEF ThreadStages
<1>3. Cardinality(Spawned) <= Cardinality(Running) + Cardinality(Starting)
  BY Known DEF ProcInv
<1>4. Starting' \cap Between' = {} /\ Starting' \cup Between' \subseteq Threads
  BY DEF Starting, Between
<1>5. IsFiniteSet(Starting') /\ IsFiniteSet(Between') BY <1>2, Finite, FS_AddElement
<1>6. Cardinality(Starting' \cup Between') = Cardinality(Starting') + Cardinality(Between')
  BY <1>4, <1>5, Sizes
<1>7. Cardinality(Starting' \cup Between') <= Cardinality(Threads)
  BY <1>4, Finite, FS_Subset
<1>8. /\ Cardinality(Spawned) \in Nat /\ Cardinality(Running) \in Nat
      /\ Cardinality(Starting') \in Nat /\ Cardinality(Between') \in Nat
      /\ Cardinality(Threads) \in Nat /\ MaxRunning \in Nat
  BY <1>5, Finite, FS_CardinalityType, ProcessAssumption
<1>9. Counted' BY <1>1, <1>2, <1>3, <1>6, <1>7, <1>8 DEF Counted
<1> QED BY <1>2, <1>9 DEF ProcInv

LEMMA NumbersKeeps == ASSUME ProcInv, NEW t \in Threads, SpawnNumbers(t) PROVE ProcInv'
<1>1. /\ pc[t] = "checked" /\ pc' = [pc EXCEPT ![t] = "numbered"]
      /\ counter < MaxProcs /\ counter' = counter + 1
      /\ number' = [number EXCEPT ![t] = counter + 1]
      /\ UNCHANGED <<state, kind, handles, own>>
  BY DEF SpawnNumbers, At, procVars
<1>2. counter \in Nat /\ MaxProcs \in Nat /\ counter + 1 \in Procs
  BY <1>1, ProcessAssumption DEF ProcInv, ProcTypeI, Procs
<1>3. ProcTypeI' BY <1>1, <1>2 DEF ProcInv, ProcTypeI, ThreadStages, Procs
<1>4. /\ Spawned' = Spawned /\ Running' = Running /\ Starting' = Starting /\ Between' = Between
      /\ Numbered' = Numbered \cup {t} /\ t \notin Numbered
  BY <1>1 DEF ProcInv, ProcTypeI, Spawned, Running, Handles, Starting, Between, Numbered
<1>5. number'[t] = counter + 1 /\ \A u \in Numbered : number'[u] = number[u]
  BY <1>1, <1>4 DEF ProcInv, ProcTypeI, Numbered
<1>6. Fresh'
  <2>1. handles[counter + 1] = Nobody BY <1>2 DEF ProcInv, Fresh
  <2>2. \A i \in Procs : i > counter' => handles'[i] = Nobody
    BY <1>1, <1>2 DEF ProcInv, Fresh, Procs
  <2>3. \A u \in Numbered : number[u] \in 1 .. counter BY DEF ProcInv, Fresh
  <2>4. \A u \in Numbered' : number'[u] \in 1 .. counter' /\ handles'[number'[u]] = Nobody
    BY <1>1, <1>2, <1>4, <1>5, <2>1, <2>3 DEF ProcInv, Fresh
  <2>5. \A u, v \in Numbered' : u # v => number'[u] # number'[v]
    BY <1>2, <1>4, <1>5, <2>3 DEF ProcInv, Fresh
  <2> QED BY <2>2, <2>4, <2>5 DEF Fresh
<1>7. Owned' /\ Kept' BY <1>1, <1>4 DEF ProcInv, Owned, Kept
<1>8. Counted' BY <1>4 DEF ProcInv, Counted
<1> QED BY <1>3, <1>6, <1>7, <1>8 DEF ProcInv

LEMMA StartsKeeps ==
  ASSUME ProcInv, NEW t \in Threads, NEW p \in Unborn, SpawnStarts(t, p) PROVE ProcInv'
<1>1. /\ pc[t] = "numbered" /\ pc' = [pc EXCEPT ![t] = "started"]
      /\ state' = [state EXCEPT ![p] = "up"] /\ kind' = [kind EXCEPT ![p] = "spawn"]
      /\ own' = [own EXCEPT ![t] = p]
      /\ UNCHANGED <<counter, handles, number>>
  BY DEF SpawnStarts, Begin, At
<1>2. p \in Procs /\ state[p] = "unborn" BY DEF Unborn
<1>3. ProcTypeI' BY <1>1, <1>2 DEF ProcInv, ProcTypeI, ThreadStages
<1>4. /\ Spawned' = Spawned \cup {p} /\ p \notin Spawned
      /\ Running \subseteq Running'
      /\ Starting' = Starting \cup {t} /\ t \notin Starting
      /\ Between' = Between \ {t} /\ t \in Between
      /\ Numbered' = Numbered
  BY <1>1, <1>2 DEF ProcInv, ProcTypeI, Spawned, Running, Handles, Starting, Between, Numbered
<1>5. own'[t] = p /\ \A u \in Starting : own'[u] = own[u]
  BY <1>1, <1>4 DEF ProcInv, ProcTypeI, Starting
<1>6. Fresh' BY <1>1, <1>4 DEF ProcInv, Fresh
<1>7. Owned' BY <1>2, <1>4, <1>5 DEF ProcInv, Owned
<1>8. Kept'
  <2> SUFFICES ASSUME NEW q \in Spawned'
               PROVE  \/ \E i \in Running' : handles'[i] = q
                      \/ \E u \in Starting' : own'[u] = q
    BY DEF Kept
  <2>1. CASE q = p BY <1>4, <1>5, <2>1
  <2>2. CASE q \in Spawned BY <1>1, <1>4, <1>5, <2>2 DEF ProcInv, Kept
  <2> QED BY <1>4, <2>1, <2>2
<1>9. Counted'
  <2>1. Cardinality(Spawned') = Cardinality(Spawned) + 1 BY <1>4, Finite, FS_AddElement
  <2>2. Cardinality(Between') = Cardinality(Between) - 1 BY <1>4, Finite, FS_RemoveElement
  <2>3. Cardinality(Spawned) \in Nat /\ Cardinality(Between) \in Nat
    BY Finite, FS_CardinalityType
  <2> QED BY <2>1, <2>2, <2>3 DEF ProcInv, Counted
<1> QED BY <1>3, <1>6, <1>7, <1>8, <1>9 DEF ProcInv

LEMMA RegistersKeeps == ASSUME ProcInv, NEW t \in Threads, SpawnRegisters(t) PROVE ProcInv'
<1>1. /\ pc[t] = "started" /\ pc' = [pc EXCEPT ![t] = "idle"]
      /\ handles' = [handles EXCEPT ![number[t]] = own[t]]
      /\ own' = [own EXCEPT ![t] = Nobody]
      /\ UNCHANGED <<state, kind, counter, number>>
  BY DEF SpawnRegisters, At, procVars
<1>2. t \in Starting /\ t \in Numbered /\ own[t] \in Procs
  BY <1>1 DEF ProcInv, Owned, Starting, Numbered
<1>3. /\ number[t] \in Procs /\ number[t] <= counter /\ handles[number[t]] = Nobody
  BY <1>2, ProcessAssumption DEF ProcInv, Fresh, ProcTypeI, Procs
<1>4. ProcTypeI' BY <1>1, <1>2, <1>3 DEF ProcInv, ProcTypeI, ThreadStages
<1>5. /\ Spawned' = Spawned /\ Between' = Between
      /\ Starting' = Starting \ {t} /\ Numbered' = Numbered \ {t}
  BY <1>1 DEF ProcInv, ProcTypeI, Spawned, Starting, Between, Numbered
<1>6. handles'[number[t]] = own[t] /\ \A i \in Procs \ {number[t]} : handles'[i] = handles[i]
  BY <1>1, <1>3 DEF ProcInv, ProcTypeI
<1>7. Fresh'
  <2>1. \A i \in Procs : i > counter' => i # number[t]
    BY <1>1, <1>3 DEF ProcInv, ProcTypeI, Procs
  <2>2. \A i \in Procs : i > counter' => handles'[i] = Nobody
    BY <1>1, <1>6, <2>1 DEF ProcInv, Fresh
  <2>3. \A u \in Numbered' : number[u] # number[t] /\ number[u] \in Procs
    BY <1>2, <1>5, ProcessAssumption DEF ProcInv, Fresh, ProcTypeI, Procs
  <2>4. \A u \in Numbered' : number'[u] \in 1 .. counter' /\ handles'[number'[u]] = Nobody
    BY <1>1, <1>5, <1>6, <2>3 DEF ProcInv, Fresh
  <2> QED BY <1>1, <1>5, <2>2, <2>4 DEF ProcInv, Fresh
<1>8. \A u \in Starting' : own'[u] = own[u] BY <1>1, <1>5 DEF ProcInv, ProcTypeI, Starting
<1>9. Owned' BY <1>5, <1>8 DEF ProcInv, Owned
<1>10. Kept'
  <2> SUFFICES ASSUME NEW q \in Spawned
               PROVE  \/ \E i \in Running' : handles'[i] = q
                      \/ \E u \in Starting' : own'[u] = q
    BY <1>5 DEF Kept
  <2>1. q \in Procs /\ state'[q] = "up" BY <1>1 DEF Spawned
  <2>2. ASSUME NEW i \in Procs, handles'[i] = q PROVE i \in Running'
    BY <2>1, <2>2, ProcessAssumption DEF Running, Handles, Procs, Nobody
  <2>3. CASE \E i \in Running : handles[i] = q
    <3>1. PICK i \in Running : handles[i] = q BY <2>3
    <3>2. i \in Procs /\ i # number[t] BY <1>3, <3>1 DEF Running, Handles
    <3> QED BY <1>6, <2>2, <3>1, <3>2
  <2>4. CASE own[t] = q BY <1>3, <1>6, <2>2, <2>4
  <2>5. CASE \E u \in Starting \ {t} : own[u] = q BY <1>5, <1>8, <2>5
  <2> QED BY <2>3, <2>4, <2>5 DEF ProcInv, Kept
<1>11. Counted' BY <1>5 DEF ProcInv, Counted
<1> QED BY <1>4, <1>7, <1>9, <1>10, <1>11 DEF ProcInv

(* run: its process is no spawned one.                                     *)
LEMMA RunStartsKeeps ==
  ASSUME ProcInv, NEW t \in Threads, NEW p \in Unborn, RunStarts(t, p) PROVE ProcInv'
<1>1. /\ pc[t] = "idle" /\ pc' = [pc EXCEPT ![t] = "running"]
      /\ state' = [state EXCEPT ![p] = "up"] /\ kind' = [kind EXCEPT ![p] = "run"]
      /\ own' = [own EXCEPT ![t] = p]
      /\ UNCHANGED <<counter, handles, number>>
  BY DEF RunStarts, Begin, At
<1>2. p \in Procs /\ state[p] = "unborn" BY DEF Unborn
<1>3. ProcTypeI' BY <1>1, <1>2 DEF ProcInv, ProcTypeI, ThreadStages
<1>4. /\ Spawned' = Spawned /\ Running \subseteq Running'
      /\ Starting' = Starting /\ Between' = Between /\ Numbered' = Numbered
      /\ \A u \in Starting : own'[u] = own[u]
  BY <1>1, <1>2 DEF ProcInv, ProcTypeI, Spawned, Running, Handles, Starting, Between, Numbered
<1>5. Fresh' /\ Owned' /\ Kept' BY <1>1, <1>4 DEF ProcInv, Fresh, Owned, Kept
<1>6. Counted' BY <1>4 DEF ProcInv, Counted
<1> QED BY <1>3, <1>5, <1>6 DEF ProcInv

LEMMA RunEndsKeeps == ASSUME ProcInv, NEW t \in Threads, RunEnds(t) PROVE ProcInv'
<1>1. /\ pc[t] = "running" /\ pc' = [pc EXCEPT ![t] = "idle"]
      /\ state' = [state EXCEPT ![own[t]] = "down"]
      /\ own' = [own EXCEPT ![t] = Nobody]
      /\ UNCHANGED <<kind, counter, handles, number>>
  BY DEF RunEnds, At
<1>2. ProcTypeI' BY <1>1 DEF ProcInv, ProcTypeI, ThreadStages
<1>3. \A q \in Procs : state'[q] = "up" => state[q] = "up" BY <1>1 DEF ProcInv, ProcTypeI
<1>4. /\ Spawned' \subseteq Spawned /\ Starting' = Starting
      /\ Between' = Between /\ Numbered' = Numbered
      /\ \A u \in Starting : own'[u] = own[u]
  BY <1>1, <1>3 DEF ProcInv, ProcTypeI, Spawned, Starting, Between, Numbered
<1>5. Fresh' /\ Owned' BY <1>1, <1>4 DEF ProcInv, Fresh, Owned
<1>6. Kept'
  <2> SUFFICES ASSUME NEW q \in Spawned'
               PROVE  \/ \E i \in Running' : handles'[i] = q
                      \/ \E u \in Starting' : own'[u] = q
    BY DEF Kept
  <2>1. q \in Spawned /\ state'[q] = "up" BY <1>4 DEF Spawned
  <2>2. CASE \E i \in Running : handles[i] = q
    BY <1>1, <2>1, <2>2 DEF Running, Handles
  <2>3. CASE \E u \in Starting : own[u] = q BY <1>4, <2>3
  <2> QED BY <2>1, <2>2, <2>3 DEF ProcInv, Kept
<1>7. Counted' BY <1>4, Fewer DEF ProcInv
<1> QED BY <1>2, <1>5, <1>6, <1>7 DEF ProcInv

LEMMA FailsKeeps ==
  ASSUME ProcInv, NEW t \in Threads, NEW from \in {"idle", "listing", "checked", "numbered"},
         NEW to \in {"idle", "listing"},
         pc[t] = from, pc' = [pc EXCEPT ![t] = to],
         UNCHANGED <<state, kind, counter, handles, number, own>>
  PROVE  ProcInv'
<1>1. /\ ProcTypeI' /\ Fresh' /\ Owned' /\ Kept' /\ Spawned' = Spawned /\ Between' = Between \ {t}
  BY MovesOn DEF ThreadStages
<1> QED BY <1>1, Fewer DEF ProcInv

-----------------------------------------------------------------------------
LEMMA ThreadKeeps == ASSUME ProcInv, NEW t \in Threads, ThreadStep(t) PROVE ProcInv'
<1>1. CASE SpawnLists(t) BY <1>1, FailsKeeps DEF SpawnLists, At, procVars
<1>2. CASE SpawnChecks(t) BY <1>2, ChecksKeeps
<1>3. CASE SpawnNumbers(t) BY <1>3, NumbersKeeps
<1>4. CASE SpawnRegisters(t) BY <1>4, RegistersKeeps
<1>5. CASE SpawnFails(t) BY <1>5, FailsKeeps DEF SpawnFails, At, procVars
<1>6. CASE RunEnds(t) BY <1>6, RunEndsKeeps
<1>7. CASE \E p \in Unborn : SpawnStarts(t, p) \/ RunStarts(t, p)
  BY <1>7, StartsKeeps, RunStartsKeeps
<1> QED BY <1>1, <1>2, <1>3, <1>4, <1>5, <1>6, <1>7 DEF ThreadStep

LEMMA NextKeepsProcs == ProcInv /\ [Next]_vars => ProcInv'
<1> SUFFICES ASSUME ProcInv, [Next]_vars PROVE ProcInv'
  OBVIOUS
<1>1. CASE \E t \in Threads : ThreadStep(t) BY <1>1, ThreadKeeps
<1>2. CASE \E p \in Procs : Ends(p) BY <1>2, GoesDown DEF Ends
<1>3. CASE \E i \in Procs : StopOne(i) \/ StopAllStops(i)
  BY <1>3, GoesDown DEF StopOne, StopAllStops, StopHandle, procVars
<1>4. CASE StopAllLists \/ StopAllRaises \/ StopAllBegins \/ StopAllReturns
  BY <1>4, GoesDown DEF StopAllLists, StopAllRaises, StopAllBegins, StopAllReturns, procVars
<1>5. CASE UNCHANGED vars BY <1>5, GoesDown DEF vars, procVars
<1> QED BY <1>1, <1>2, <1>3, <1>4, <1>5 DEF Next, StopStep

(* The ceiling is overrun by less than there are threads                   *)
(* (process.py:167-198).                                                   *)
THEOREM CeilingHolds == Spec => []CeilingBound
<1>1. ProcInv => CeilingBound
  <2>1. /\ Cardinality(Spawned) \in Nat /\ Cardinality(Between) \in Nat
        /\ Cardinality(Threads) \in Nat /\ MaxRunning \in Nat
    BY Finite, FS_CardinalityType, ProcessAssumption
  <2> QED BY <2>1 DEF ProcInv, Counted, CeilingBound
<1> QED BY InitProcInv, NextKeepsProcs, <1>1, PTL DEF Spec

-----------------------------------------------------------------------------
(* Stopping everything.  A handle stays what it is and a process that is   *)
(* down stays down, so what was up at the beginning is still to be stopped,*)
(* down, or its own stop has failed, whoever starts or stops processes in  *)
(* between.                                                                *)
Born ==
  /\ \A i \in Handles : state[handles[i]] # "unborn"
  /\ \A t \in Starting : state[own[t]] # "unborn"

InOrder ==
  /\ stop = [phase |-> stop.phase, left |-> stop.left, asked |-> stop.asked,
             failed |-> stop.failed, seen |-> stop.seen, count |-> stop.count]
  /\ stop.phase # "off" => stop.asked \subseteq Handles
  /\ stop.phase = "stopping" =>
       \A i \in stop.asked : i \in stop.left \/ state[handles[i]] = "down" \/ i \in stop.failed

StopInv == Born /\ InOrder

LEMMA InitStopInv == Init => StopInv
BY DEF Init, StopInv, Born, InOrder, Handles, Starting

LEMMA ProcsStay ==
  ASSUME ProcInv, [Next]_vars
  PROVE  \A p \in Procs : /\ state[p] # "unborn" => state'[p] # "unborn"
                          /\ state[p] = "down" => state'[p] = "down"
<1>1. ASSUME NEW p, state' = [state EXCEPT ![p] = "down"]
      PROVE  \A q \in Procs : state'[q] = state[q] \/ state'[q] = "down"
  BY <1>1 DEF ProcInv, ProcTypeI
<1>2. ASSUME NEW p \in Unborn, state' = [state EXCEPT ![p] = "up"]
      PROVE  \A q \in Procs : state'[q] = state[q] \/ (state[q] = "unborn" /\ state'[q] = "up")
  <2>1. p \in Procs /\ state[p] = "unborn" BY DEF Unborn
  <2>2. state'[p] = "up" /\ \A q \in Procs \ {p} : state'[q] = state[q]
    BY <1>2, <2>1 DEF ProcInv, ProcTypeI
  <2> QED BY <2>1, <2>2
<1>3. \/ state' = state
      \/ \E p : state' = [state EXCEPT ![p] = "down"]
      \/ \E p \in Unborn : state' = [state EXCEPT ![p] = "up"]
  <2>1. CASE \E t \in Threads : ThreadStep(t)
    <3>1. PICK t \in Threads : ThreadStep(t) BY <2>1
    <3>2. CASE \E p \in Unborn : SpawnStarts(t, p) \/ RunStarts(t, p)
      BY <3>2 DEF SpawnStarts, RunStarts, Begin
    <3>3. CASE RunEnds(t) BY <3>3 DEF RunEnds
    <3> QED BY <3>1, <3>2, <3>3
            DEF ThreadStep, SpawnLists, SpawnChecks, SpawnNumbers, SpawnRegisters, SpawnFails, procVars
  <2>2. CASE \E p \in Procs : Ends(p) BY <2>2 DEF Ends
  <2>3. CASE \E i \in Procs : StopOne(i) \/ StopAllStops(i)
    BY <2>3 DEF StopOne, StopAllStops, StopHandle
  <2>4. CASE StopAllLists \/ StopAllRaises \/ StopAllBegins \/ StopAllReturns
    BY <2>4 DEF StopAllLists, StopAllRaises, StopAllBegins, StopAllReturns, procVars
  <2>5. CASE UNCHANGED vars BY <2>5 DEF vars, procVars
  <2> QED BY <2>1, <2>2, <2>3, <2>4, <2>5 DEF Next, StopStep
<1>4. CASE state' = state BY <1>4
<1>5. CASE \E p : state' = [state EXCEPT ![p] = "down"] BY <1>1, <1>5
<1>6. CASE \E p \in Unborn : state' = [state EXCEPT ![p] = "up"] BY <1>2, <1>6
<1> QED BY <1>3, <1>4, <1>5, <1>6

(* A handle is new, or what it was; a new one is of a process somebody     *)
(* has started.                                                            *)
LEMMA HandlesStay ==
  ASSUME ProcInv, StopInv, [Next]_vars
  PROVE  \A i \in Procs : \/ handles'[i] = handles[i]
                          \/ i \notin Handles /\ state[handles'[i]] # "unborn"
<1>1. ASSUME NEW t \in Threads, SpawnRegisters(t)
      PROVE  \A i \in Procs : \/ handles'[i] = handles[i]
                              \/ i \notin Handles /\ state[handles'[i]] # "unborn"
  <2>1. t \in Starting /\ t \in Numbered /\ handles' = [handles EXCEPT ![number[t]] = own[t]]
    BY <1>1 DEF SpawnRegisters, At, Starting, Numbered
  <2>2. handles[number[t]] = Nobody /\ state[own[t]] # "unborn"
    BY <2>1 DEF ProcInv, Fresh, StopInv, Born
  <2> QED BY <2>1, <2>2 DEF ProcInv, ProcTypeI, Handles
<1>2. CASE \E t \in Threads : ThreadStep(t)
  BY <1>1, <1>2
     DEF ThreadStep, SpawnLists, SpawnChecks, SpawnNumbers, SpawnFails, RunEnds, SpawnStarts, RunStarts
<1>3. CASE \E p \in Procs : Ends(p) BY <1>3 DEF Ends
<1>4. CASE \E i \in Procs : StopOne(i) \/ StopAllStops(i) BY <1>4 DEF StopOne, StopAllStops
<1>5. CASE StopAllLists \/ StopAllRaises \/ StopAllBegins \/ StopAllReturns
  BY <1>5 DEF StopAllLists, StopAllRaises, StopAllBegins, StopAllReturns
<1>6. CASE UNCHANGED vars BY <1>6 DEF vars
<1> QED BY <1>2, <1>3, <1>4, <1>5, <1>6 DEF Next, StopStep

LEMMA BornStays == ASSUME ProcInv, StopInv, [Next]_vars PROVE Born'
<1>1. ProcInv' BY NextKeepsProcs
<1>2. \A i \in Handles' : state'[handles'[i]] # "unborn"
  <2> SUFFICES ASSUME NEW i \in Handles' PROVE state'[handles'[i]] # "unborn"
    OBVIOUS
  <2>1. i \in Procs /\ handles'[i] \in Procs
    BY <1>1 DEF ProcInv, ProcTypeI, Handles
  <2>2. state[handles'[i]] # "unborn"
    <3>1. CASE handles'[i] = handles[i]
      <4>1. i \in Handles BY <2>1, <3>1 DEF Handles
      <4> QED BY <3>1, <4>1 DEF StopInv, Born
    <3>2. CASE handles'[i] # handles[i] BY <2>1, <3>2, HandlesStay
    <3> QED BY <3>1, <3>2
  <2> QED BY <2>1, <2>2, ProcsStay
<1>3. \A t \in Starting' : state'[own'[t]] # "unborn"
  <2>1. ASSUME NEW t \in Threads, NEW p \in Unborn, SpawnStarts(t, p)
        PROVE  \A u \in Starting' : (u \in Starting /\ own'[u] = own[u]) \/ state'[own'[u]] # "unborn"
    <3>1. /\ pc' = [pc EXCEPT ![t] = "started"] /\ own' = [own EXCEPT ![t] = p]
          /\ state' = [state EXCEPT ![p] = "up"] /\ p \in Procs
      BY <2>1 DEF SpawnStarts, At, Begin, Unborn
    <3>2. own'[t] = p /\ state'[p] = "up" BY <3>1 DEF ProcInv, ProcTypeI
    <3>3. \A u \in Threads \ {t} : own'[u] = own[u] /\ pc'[u] = pc[u]
      BY <3>1 DEF ProcInv, ProcTypeI
    <3> QED BY <3>2, <3>3 DEF Starting
  <2>2. ASSUME NEW t \in Threads, NEW x, NEW y,
               pc' = [pc EXCEPT ![t] = x], x # "started",
               own' = own \/ own' = [own EXCEPT ![t] = y]
        PROVE  \A u \in Starting' : u \in Starting /\ own'[u] = own[u]
    BY <2>2 DEF ProcInv, ProcTypeI, Starting
  <2>3. ASSUME pc' = pc, own' = own
        PROVE  \A u \in Starting' : u \in Starting /\ own'[u] = own[u]
    BY <2>3 DEF Starting
  <2>4. \A u \in Starting' : (u \in Starting /\ own'[u] = own[u]) \/ state'[own'[u]] # "unborn"
    <3>1. CASE \E t \in Threads : ThreadStep(t)
      <4>1. PICK t \in Threads : ThreadStep(t) BY <3>1
      <4>2. CASE \E p \in Unborn : SpawnStarts(t, p) BY <2>1, <4>2
      <4>3. CASE \E p \in Unborn : RunStarts(t, p) BY <2>2, <4>3 DEF RunStarts, At
      <4>4. CASE SpawnLists(t) BY <2>2, <4>4 DEF SpawnLists, At
      <4>5. CASE SpawnChecks(t) BY <2>2, <4>5 DEF SpawnChecks, At
      <4>6. CASE SpawnNumbers(t) BY <2>2, <4>6 DEF SpawnNumbers, At
      <4>7. CASE SpawnRegisters(t) BY <2>2, <4>7 DEF SpawnRegisters, At
      <4>8. CASE SpawnFails(t) BY <2>2, <4>8 DEF SpawnFails, At
      <4>9. CASE RunEnds(t) BY <2>2, <4>9 DEF RunEnds, At
      <4> QED BY <4>1, <4>2, <4>3, <4>4, <4>5, <4>6, <4>7, <4>8, <4>9 DEF ThreadStep
    <3>2. CASE \E p \in Procs : Ends(p) BY <2>3, <3>2 DEF Ends
    <3>3. CASE \E i \in Procs : StopOne(i) \/ StopAllStops(i)
      BY <2>3, <3>3 DEF StopOne, StopAllStops
    <3>4. CASE StopAllLists \/ StopAllRaises \/ StopAllBegins \/ StopAllReturns
      BY <2>3, <3>4 DEF StopAllLists, StopAllRaises, StopAllBegins, StopAllReturns
    <3>5. CASE UNCHANGED vars BY <2>3, <3>5 DEF vars
    <3> QED BY <3>1, <3>2, <3>3, <3>4, <3>5 DEF Next, StopStep
  <2> SUFFICES ASSUME NEW t \in Starting, own'[t] = own[t] PROVE state'[own'[t]] # "unborn"
    BY <2>4
  <2>5. own[t] \in Procs /\ state[own[t]] # "unborn" BY DEF ProcInv, Owned, StopInv, Born
  <2> QED BY <2>5, ProcsStay
<1> QED BY <1>2, <1>3 DEF Born

(* What was asked for and is down is down for good.                        *)
LEMMA AskedStays ==
  ASSUME ProcInv, StopInv, [Next]_vars
  PROVE  \A i \in Handles : /\ i \in Handles' /\ handles'[i] = handles[i]
                            /\ state[handles[i]] = "down" => state'[handles'[i]] = "down"
<1> SUFFICES ASSUME NEW i \in Handles
             PROVE  /\ i \in Handles' /\ handles'[i] = handles[i]
                    /\ state[handles[i]] = "down" => state'[handles'[i]] = "down"
  OBVIOUS
<1>1. i \in Procs /\ handles[i] \in Procs BY DEF ProcInv, ProcTypeI, Handles
<1>2. handles'[i] = handles[i] BY <1>1, HandlesStay
<1>3. i \in Handles' BY <1>1, <1>2 DEF Handles
<1> QED BY <1>1, <1>2, <1>3, ProcsStay

(* A process that is stopped is down.                                      *)
LEMMA StopsIt ==
  ASSUME ProcInv, NEW i \in Handles, StopHandle(i, "exited")
  PROVE  state'[handles[i]] = "down"
<1>1. handles[i] \in Procs BY DEF ProcInv, ProcTypeI, Handles
<1> QED BY <1>1 DEF StopHandle, ProcInv, ProcTypeI

LEMMA OrderStays == ASSUME ProcInv, StopInv, [Next]_vars PROVE InOrder'
<1>0. \A i \in Handles : /\ i \in Handles' /\ handles'[i] = handles[i]
                         /\ state[handles[i]] = "down" => state'[handles'[i]] = "down"
  BY AskedStays
<1>1. ASSUME stop' = stop PROVE InOrder'
  BY <1>0, <1>1 DEF StopInv, InOrder
<1>2. CASE \E t \in Threads : ThreadStep(t)
  BY <1>1, <1>2
     DEF ThreadStep, SpawnLists, SpawnChecks, SpawnNumbers, SpawnRegisters, SpawnFails, RunEnds,
         SpawnStarts, RunStarts
<1>3. CASE \E p \in Procs : Ends(p) BY <1>1, <1>3 DEF Ends
<1>4. CASE \E i \in Procs : StopOne(i) BY <1>1, <1>4 DEF StopOne
<1>5. CASE StopAllLists
  <2>1. stop' = [phase |-> "listing", left |-> {}, asked |-> Running, failed |-> {},
                 seen |-> Cardinality(Handles), count |-> stop.count + 1]
    BY <1>5 DEF StopAllLists
  <2>2. Running \subseteq Handles BY DEF Running
  <2> QED BY <1>0, <2>1, <2>2 DEF InOrder
<1>6. CASE StopAllRaises \/ StopAllReturns
  <2>1. stop' = [stop EXCEPT !.phase = "off", !.asked = {}]
    BY <1>6 DEF StopAllRaises, StopAllReturns
  <2> QED BY <2>1 DEF StopInv, InOrder
<1>7. CASE StopAllBegins
  <2>1. PICK left \in SUBSET stop.asked :
          /\ Running \subseteq left
          /\ stop' = [stop EXCEPT !.phase = "stopping", !.left = left]
    BY <1>7 DEF StopAllBegins
  <2>2. stop.phase = "listing" /\ UNCHANGED <<state, handles>>
    BY <1>7 DEF StopAllBegins, procVars
  <2>3. /\ stop' = [phase |-> "stopping", left |-> left, asked |-> stop.asked, failed |-> stop.failed,
                    seen |-> stop.seen, count |-> stop.count]
        /\ stop.asked \subseteq Handles
    BY <2>1, <2>2 DEF StopInv, InOrder
  <2>4. \A i \in stop.asked : i \in left \/ state[handles[i]] = "down"
    <3> SUFFICES ASSUME NEW i \in stop.asked, i \notin left PROVE state[handles[i]] = "down"
      OBVIOUS
    <3>1. i \in Handles /\ state[handles[i]] # "up" BY <2>1, <2>3 DEF Running
    <3>2. handles[i] \in Procs BY <3>1 DEF ProcInv, ProcTypeI, Handles
    <3> QED BY <3>1, <3>2 DEF ProcInv, ProcTypeI, StopInv, Born
  <2> QED BY <1>0, <2>2, <2>3, <2>4 DEF InOrder
<1>8. ASSUME NEW i \in Procs, StopAllStops(i) PROVE InOrder'
  <2>1. PICK result \in Results :
          /\ StopHandle(i, result)
          /\ stop' = [stop EXCEPT !.left = @ \ {i},
                                 !.failed = IF result = "exited" THEN @ ELSE @ \cup {i}]
    BY <1>8 DEF StopAllStops
  <2>2. i \in stop.left /\ handles' = handles BY <1>8 DEF StopAllStops
  <2>3. stop' = [phase |-> stop.phase, left |-> stop.left \ {i}, asked |-> stop.asked,
                 failed |-> IF result = "exited" THEN stop.failed ELSE stop.failed \cup {i},
                 seen |-> stop.seen, count |-> stop.count]
    BY <2>1 DEF StopInv, InOrder
  <2>4. i \in Handles => state'[handles[i]] = "down" \/ i \in stop'.failed
    BY <2>1, <2>3, StopsIt
  <2>5. stop'.phase = "stopping" =>
          \A j \in stop'.asked : \/ j \in stop'.left \/ state'[handles'[j]] = "down"
                                \/ j \in stop'.failed
    BY <1>0, <2>2, <2>3, <2>4 DEF StopInv, InOrder
  <2> QED BY <1>0, <2>3, <2>5 DEF StopInv, InOrder
<1>9. CASE UNCHANGED vars BY <1>1, <1>9 DEF vars
<1> QED BY <1>2, <1>3, <1>4, <1>5, <1>6, <1>7, <1>8, <1>9 DEF Next, StopStep

(* Only its return ends the stopping, with nothing left to stop.           *)
LEMMA ReturnsWhenDone ==
  ASSUME ProcInv, StopInv, [Next]_vars, stop.phase = "stopping", stop'.phase = "off"
  PROVE  \A i \in stop.asked : state[handles[i]] = "down" \/ i \in stop.failed
<1>1. stop' # stop OBVIOUS
<1>2. CASE StopAllReturns BY <1>2 DEF StopAllReturns, StopInv, InOrder
<1>3. CASE \E i \in Procs : StopAllStops(i)
  BY <1>3 DEF StopAllStops, StopInv, InOrder
<1>4. ~StopAllLists /\ ~StopAllRaises /\ ~StopAllBegins
  BY DEF StopAllLists, StopAllRaises, StopAllBegins
<1>5. ~(\E t \in Threads : ThreadStep(t))
  BY <1>1 DEF ThreadStep, SpawnLists, SpawnChecks, SpawnNumbers, SpawnRegisters, SpawnFails, RunEnds,
              SpawnStarts, RunStarts
<1>6. ~(\E p \in Procs : Ends(p)) /\ ~(\E i \in Procs : StopOne(i)) /\ ~UNCHANGED vars
  BY <1>1 DEF Ends, StopOne, vars
<1> QED BY <1>2, <1>3, <1>4, <1>5, <1>6 DEF Next, StopStep

(* When everything has been stopped, whatever could be stopped when that   *)
(* began is down, or its own stop has failed (process.py:210-219).         *)
THEOREM StoppingIsThorough == Spec => StopAllIsThorough
<1>1. Init => ProcInv /\ StopInv BY InitProcInv, InitStopInv
<1>2. (ProcInv /\ StopInv) /\ [Next]_vars => (ProcInv /\ StopInv)'
  BY NextKeepsProcs, BornStays, OrderStays DEF StopInv
<1>3. (ProcInv /\ StopInv) /\ [Next]_vars =>
        [stop.phase = "stopping" /\ stop'.phase = "off"
           => \A i \in stop.asked : state[handles[i]] = "down" \/ i \in stop.failed]_vars
  BY ReturnsWhenDone
<1> QED BY <1>1, <1>2, <1>3, PTL DEF Spec, StopAllIsThorough

-----------------------------------------------------------------------------
(* Stopping everything comes to its end.  What the prover can say of that  *)
(* is that it can go on from wherever it is, ...                           *)
StopGoesOn ==
  /\ stop.phase \in {"off", "listing", "stopping"}
  /\ stop.phase = "listing" => stop.seen # Cardinality(Handles) \/ Running \subseteq stop.asked
  /\ stop.left \subseteq Procs

(* (a handle that is added raises their number for good, and no handle's   *)
(* process comes up again)                                                 *)
Listed ==
  /\ stop.phase = "listing" => stop.seen \in Nat /\ stop.seen <= Cardinality(Handles)
  /\ stop.phase # "stopping" => stop.left = {}

GoesOnInv == ProcInv /\ StopInv /\ StopGoesOn /\ Listed

(* ... and that each of its steps leaves fewer, while nothing else changes *)
(* how far it is.                                                          *)
StopsLeft == CASE stop.phase = "listing"  -> MaxProcs + 2
               [] stop.phase = "stopping" -> Cardinality(stop.left) + 1
               [] OTHER                   -> 0

StopRunsOut ==
  [][stop.phase # "off" => /\ StopStep => StopsLeft' < StopsLeft
                           /\ ~StopStep => stop' = stop]_vars

LEMMA LeftFinite ==
  ASSUME NEW S \in SUBSET Procs
  PROVE  IsFiniteSet(S) /\ Cardinality(S) \in Nat /\ Cardinality(S) <= MaxProcs
<1>1. IsFiniteSet(Procs) /\ Cardinality(Procs) = MaxProcs
  <2>1. MaxProcs \in Nat BY ProcessAssumption
  <2>2. Cardinality(1 .. MaxProcs) = IF 1 > MaxProcs THEN 0 ELSE MaxProcs - 1 + 1
    BY <2>1, FS_Interval
  <2>3. IsFiniteSet(1 .. MaxProcs) BY <2>1, FS_Interval
  <2> QED BY <2>1, <2>2, <2>3 DEF Procs
<1>2. IsFiniteSet(S) /\ Cardinality(S) <= Cardinality(Procs) BY <1>1, FS_Subset
<1> QED BY <1>1, <1>2, FS_CardinalityType

LEMMA HandlesFinite == IsFiniteSet(Handles) /\ Cardinality(Handles) \in Nat
BY LeftFinite DEF Handles

(* What becomes of stop in a step, and of the handles meanwhile.           *)
LEMMA StopKinds ==
  ASSUME [Next]_vars, ~StopStep
  PROVE  \/ stop' = stop
         \/ StopAllLists
BY DEF Next, ThreadStep, SpawnLists, SpawnChecks, SpawnNumbers, SpawnRegisters, SpawnFails, RunEnds,
       SpawnStarts, RunStarts, Ends, StopOne, vars

LEMMA HandlesGrow ==
  ASSUME ProcInv, StopInv, [Next]_vars
  PROVE  /\ Handles \subseteq Handles'
         /\ Cardinality(Handles) <= Cardinality(Handles')
         /\ Cardinality(Handles') = Cardinality(Handles) => Running' \subseteq Running
<1>1. \A i \in Handles : /\ i \in Handles' /\ handles'[i] = handles[i]
                         /\ state[handles[i]] = "down" => state'[handles'[i]] = "down"
  BY AskedStays
<1>2. IsFiniteSet(Handles') /\ Cardinality(Handles') \in Nat /\ Cardinality(Handles) \in Nat
  <2>1. Handles' \subseteq Procs BY DEF Handles
  <2> QED BY <2>1, LeftFinite, HandlesFinite
<1>3. Cardinality(Handles) <= Cardinality(Handles') BY <1>1, <1>2, FS_Subset
<1>4. ASSUME Cardinality(Handles') = Cardinality(Handles) PROVE Running' \subseteq Running
  <2>1. Handles' = Handles
    BY <1>1, <1>2, <1>4, FS_Subset
  <2> SUFFICES ASSUME NEW i \in Handles, state'[handles'[i]] = "up" PROVE state[handles[i]] = "up"
    BY <2>1 DEF Running
  <2>2. handles[i] \in Procs /\ state[handles[i]] # "unborn" /\ state[handles[i]] # "down"
    BY <1>1 DEF ProcInv, ProcTypeI, Handles, StopInv, Born
  <2> QED BY <2>2 DEF ProcInv, ProcTypeI
<1> QED BY <1>1, <1>3, <1>4

LEMMA InitGoesOn == Init => GoesOnInv
BY InitProcInv, InitStopInv DEF Init, GoesOnInv, StopGoesOn, Listed

LEMMA GoesOnStays == GoesOnInv /\ [Next]_vars => GoesOnInv'
<1> SUFFICES ASSUME GoesOnInv, [Next]_vars PROVE GoesOnInv' OBVIOUS
<1>1. (ProcInv /\ StopInv)' BY NextKeepsProcs, BornStays, OrderStays DEF StopInv, GoesOnInv
<1>2. stop = [phase |-> stop.phase, left |-> stop.left, asked |-> stop.asked,
              failed |-> stop.failed, seen |-> stop.seen, count |-> stop.count]
  BY DEF GoesOnInv, StopInv, InOrder
<1>3. ASSUME stop' = stop PROVE StopGoesOn' /\ Listed'
  <2>1. /\ Cardinality(Handles) \in Nat /\ Cardinality(Handles') \in Nat
        /\ Cardinality(Handles) <= Cardinality(Handles')
        /\ Cardinality(Handles') = Cardinality(Handles) => Running' \subseteq Running
    <3>1. Handles' \subseteq Procs BY DEF Handles
    <3> QED BY <3>1, LeftFinite, HandlesFinite, HandlesGrow DEF GoesOnInv
  <2> QED BY <1>3, <2>1 DEF GoesOnInv, StopGoesOn, Listed
<1>4. CASE StopAllLists
  <2>1. /\ stop'.phase = "listing" /\ stop'.left = {} /\ stop'.asked = Running
        /\ stop'.seen = Cardinality(Handles) /\ UNCHANGED <<state, handles>>
    BY <1>4 DEF StopAllLists, procVars
  <2>2. Handles' = Handles /\ Running' = Running BY <2>1 DEF Handles, Running
  <2>3. Cardinality(Handles)' = Cardinality(Handles) BY <2>2
  <2>4. StopGoesOn' BY <2>1, <2>2 DEF StopGoesOn
  <2>5. Listed' BY <2>1, <2>3, HandlesFinite DEF Listed
  <2> QED BY <1>1, <2>4, <2>5 DEF GoesOnInv
<1>5. CASE StopStep
  <2>1. /\ stop'.phase \in {"off", "stopping"} /\ stop'.left \subseteq Procs
        /\ stop'.phase = "off" => stop'.left = {}
    <3>1. CASE StopAllRaises \/ StopAllReturns
      BY <1>2, <3>1 DEF StopAllRaises, StopAllReturns, GoesOnInv, StopGoesOn, Listed
    <3>2. CASE StopAllBegins
      <4>1. PICK left \in SUBSET stop.asked : stop' = [stop EXCEPT !.phase = "stopping", !.left = left]
        BY <3>2 DEF StopAllBegins
      <4>2. stop'.phase = "stopping" /\ stop'.left = left BY <1>2, <4>1
      <4>3. stop.asked \subseteq Procs
        BY <3>2 DEF StopAllBegins, GoesOnInv, StopInv, InOrder, Handles
      <4> QED BY <4>2, <4>3
    <3>3. CASE \E i \in Procs : StopAllStops(i)
      <4>1. PICK i \in Procs : /\ i \in stop.left
                              /\ \E F : stop' = [stop EXCEPT !.left = @ \ {i}, !.failed = F]
        BY <3>3 DEF StopAllStops
      <4>2. stop'.phase = stop.phase /\ stop'.left = stop.left \ {i} BY <1>2, <4>1
      <4> QED BY <4>1, <4>2 DEF GoesOnInv, StopGoesOn, Listed
    <3> QED BY <1>5, <3>1, <3>2, <3>3 DEF StopStep
  <2>2. stop'.phase # "listing" BY <2>1
  <2>3. StopGoesOn' BY <2>1, <2>2 DEF StopGoesOn
  <2>4. Listed' BY <2>1, <2>2 DEF Listed
  <2> QED BY <1>1, <2>3, <2>4 DEF GoesOnInv
<1> QED BY <1>1, <1>3, <1>4, <1>5, StopKinds DEF GoesOnInv

(* From wherever it is stop_all can go on, whatever is started and ends    *)
(* meanwhile: what it has listed holds all that is to be stopped, or a     *)
(* handle has been added and it raises (process.py:210-219).               *)
THEOREM StopAllIsNeverStuck == Spec => []StopGoesOn
<1>1. GoesOnInv => StopGoesOn BY DEF GoesOnInv
<1> QED BY <1>1, InitGoesOn, GoesOnStays, PTL DEF Spec

LEMMA StopStepsDown ==
  ASSUME GoesOnInv, StopStep
  PROVE  StopsLeft' < StopsLeft
<1> USE ProcessAssumption
<1>1. /\ stop = [phase |-> stop.phase, left |-> stop.left, asked |-> stop.asked,
                 failed |-> stop.failed, seen |-> stop.seen, count |-> stop.count]
      /\ MaxProcs \in Nat
      /\ IsFiniteSet(stop.left) /\ Cardinality(stop.left) \in Nat
  BY LeftFinite DEF GoesOnInv, StopInv, InOrder, StopGoesOn
<1>2. CASE StopAllRaises \/ StopAllReturns
  <2>1. stop'.phase = "off" /\ stop.phase \in {"listing", "stopping"}
    BY <1>1, <1>2 DEF StopAllRaises, StopAllReturns
  <2>2. StopsLeft' = 0 BY <2>1 DEF StopsLeft
  <2>3. StopsLeft \in Nat \ {0} BY <1>1, <2>1 DEF StopsLeft
  <2> QED BY <2>2, <2>3
<1>3. CASE StopAllBegins
  <2>1. PICK left \in SUBSET stop.asked : stop' = [stop EXCEPT !.phase = "stopping", !.left = left]
    BY <1>3 DEF StopAllBegins
  <2>2. stop.phase = "listing" /\ stop'.phase = "stopping" /\ stop'.left = left
    BY <1>1, <1>3, <2>1 DEF StopAllBegins
  <2>3. stop.asked \subseteq Procs BY <2>2 DEF GoesOnInv, StopInv, InOrder, Handles
  <2>4. Cardinality(left) \in Nat /\ Cardinality(left) <= MaxProcs BY <2>3, LeftFinite
  <2>5. StopsLeft = MaxProcs + 2 /\ StopsLeft' = Cardinality(left) + 1 BY <2>2 DEF StopsLeft
  <2> QED BY <1>1, <2>4, <2>5
<1>4. CASE \E i \in Procs : StopAllStops(i)
  <2>1. PICK i \in Procs : /\ i \in stop.left
                              /\ \E F : stop' = [stop EXCEPT !.left = @ \ {i}, !.failed = F]
    BY <1>4 DEF StopAllStops
  <2>2. stop.phase = "stopping" BY <2>1 DEF GoesOnInv, Listed
  <2>3. stop'.phase = "stopping" /\ stop'.left = stop.left \ {i} BY <1>1, <2>1, <2>2
  <2>4. Cardinality(stop.left \ {i}) = Cardinality(stop.left) - 1 BY <1>1, <2>1, FS_RemoveElement
  <2>5. StopsLeft = Cardinality(stop.left) + 1 /\ StopsLeft' = Cardinality(stop.left \ {i}) + 1
    BY <2>2, <2>3 DEF StopsLeft
  <2> QED BY <1>1, <2>4, <2>5
<1> QED BY <1>2, <1>3, <1>4 DEF StopStep

(* Each of its steps brings it nearer its end, and nothing that happens    *)
(* beside it takes it back: of MaxProcs handles it takes at most so many   *)
(* steps and two.                                                          *)
THEOREM StopAllRunsOut == Spec => StopRunsOut
<1>1. GoesOnInv /\ [Next]_vars =>
        [stop.phase # "off" => /\ StopStep => StopsLeft' < StopsLeft
                               /\ ~StopStep => stop' = stop]_vars
  <2> SUFFICES ASSUME GoesOnInv, [Next]_vars, stop.phase # "off"
               PROVE  /\ StopStep => StopsLeft' < StopsLeft
                      /\ ~StopStep => stop' = stop
    OBVIOUS
  <2>1. ~StopStep => stop' = stop BY StopKinds DEF StopAllLists
  <2> QED BY <2>1, StopStepsDown
<1> QED BY <1>1, InitGoesOn, GoesOnStays, PTL DEF Spec, StopRunsOut

-----------------------------------------------------------------------------
(***************************************************************************)
(* Whatever the number of calls and connections, and however long they     *)
(* run: a call takes the answer to its own command.  The invariant is      *)
(* about numbers.  None is in the mail that its connection has not given   *)
(* out, no two calls that wait on one connection have the same, and mail   *)
(* with a waiting call's number is that call's.                            *)
(***************************************************************************)

Message == [link : Links, number : Nat, by : Jobs, nth : Nat]
Hearing == [by : Jobs, nth : Nat, own : Nat]

Apart == {"new", "listing", "launching", "connecting", "done"}
Sent  == {"posting", "waiting"}
Stages == Apart \cup Sent \cup {"enabling", "clearing", "sending", "watching", "saving", "looking"}
Mail  == wire \cup replies

TypeI ==
  /\ session \in Links \cup {NoLink}
  /\ next \in [Links -> Nat]
  /\ wire \subseteq Message /\ replies \subseteq Message
  /\ stage \in [Jobs -> Stages]
  /\ link \in [Jobs -> Links \cup {NoLink}]
  /\ drawn \in [Jobs -> Nat] /\ nth \in [Jobs -> Nat]
  /\ heard \in [Jobs -> SUBSET Hearing]

Connected == \A j \in Jobs : stage[j] \notin Apart => link[j] \in Links

GivenOut ==
  /\ \A m \in Mail : m.number <= next[m.link]
  /\ \A j \in Jobs : stage[j] \in Sent => drawn[j] <= next[link[j]]

Distinct ==
  \A j, k \in Jobs :
    j # k /\ stage[j] \in Sent /\ stage[k] \in Sent /\ link[j] = link[k] => drawn[j] # drawn[k]

Addressed ==
  \A m \in Mail, j \in Jobs :
    stage[j] \in Sent /\ m.link = link[j] /\ m.number = drawn[j] => m.by = j /\ m.nth = nth[j]

Inv == TypeI /\ Connected /\ GivenOut /\ Distinct /\ Addressed /\ OwnReply

-----------------------------------------------------------------------------
(* A step that sends nothing, and in which nobody starts to wait, disturbs *)
(* none of this: mail may only go, and connections only give out more.     *)
LEMMA Frame ==
  ASSUME Inv, TypeI', Connected', OwnReply',
         Mail' \subseteq Mail,
         \A s \in Links : next[s] <= next'[s],
         \A k \in Jobs : stage'[k] \in Sent =>
           /\ stage[k] \in Sent
           /\ link'[k] = link[k] /\ drawn'[k] = drawn[k] /\ nth'[k] = nth[k]
  PROVE  Inv'
<1>1. \A k \in Jobs : stage[k] \in Sent => link[k] \in Links
  BY DEF Inv, Connected, Sent, Apart
<1>2. \A m \in Mail : m \in Message
  BY DEF Inv, TypeI, Mail
<1>3. GivenOut'
  <2>1. ASSUME NEW m \in Mail' PROVE m.number <= next'[m.link]
    <3>1. m \in Mail /\ m.link \in Links /\ m.number \in Nat
      BY <2>1, <1>2 DEF Message
    <3>2. m.number <= next[m.link] /\ next[m.link] <= next'[m.link]
      BY <3>1 DEF Inv, GivenOut
    <3> QED BY <3>1, <3>2 DEF Inv, TypeI
  <2>2. ASSUME NEW j \in Jobs, stage'[j] \in Sent PROVE drawn'[j] <= next'[link'[j]]
    <3>1. stage[j] \in Sent /\ link'[j] = link[j] /\ drawn'[j] = drawn[j] /\ link[j] \in Links
      BY <2>2, <1>1
    <3>2. drawn[j] <= next[link[j]] /\ next[link[j]] <= next'[link[j]]
      BY <3>1 DEF Inv, GivenOut
    <3> QED BY <3>1, <3>2 DEF Inv, TypeI
  <2> QED BY <2>1, <2>2 DEF GivenOut
<1>4. Distinct' BY DEF Inv, Distinct
<1>5. Addressed' BY DEF Inv, Addressed
<1> QED BY <1>3, <1>4, <1>5 DEF Inv

LEMMA InitInv == BrowserInit => Inv
<1> SUFFICES ASSUME BrowserInit PROVE Inv
  OBVIOUS
<1>1. TypeI BY DEF BrowserInit, TypeI, Stages, Apart
<1>2. Connected BY DEF BrowserInit, Connected, Apart
<1>3. Mail = {} /\ \A j \in Jobs : stage[j] \notin Sent
  BY DEF BrowserInit, Mail, Sent
<1>5. GivenOut /\ Distinct /\ Addressed
  BY <1>3 DEF GivenOut, Distinct, Addressed
<1>4. OwnReply BY DEF BrowserInit, OwnReply
<1> QED BY <1>1, <1>2, <1>4, <1>5 DEF Inv

-----------------------------------------------------------------------------
(* Steps that touch neither numbers nor mail, and only move a call on.     *)
LEMMA Moves ==
  ASSUME Inv, NEW j \in Jobs, NEW to \in Stages,
         stage' = [stage EXCEPT ![j] = to], to \notin Sent,
         to \notin Apart => link[j] \in Links,
         UNCHANGED <<session, next, wire, replies, link, drawn, nth, heard>>
  PROVE  Inv'
<1>1. TypeI' BY DEF Inv, TypeI
<1>2. Connected' BY DEF Inv, TypeI, Connected
<1>3. OwnReply' BY DEF Inv, OwnReply
<1>4. Mail' = Mail BY DEF Mail
<1>5. \A s \in Links : next[s] <= next'[s] BY DEF Inv, TypeI
<1>6. \A k \in Jobs : stage'[k] \in Sent =>
        /\ stage[k] \in Sent
        /\ link'[k] = link[k] /\ drawn'[k] = drawn[k] /\ nth'[k] = nth[k]
  BY DEF Inv, TypeI
<1> QED BY <1>1, <1>2, <1>3, <1>4, <1>5, <1>6, Frame

(* A call that comes to its end.                                           *)
LEMMA CallEnds ==
  ASSUME Inv, NEW j \in Jobs, NEW from, NEW result, End(j, from, result),
         UNCHANGED <<session, next, wire, replies, link, drawn, nth, heard>>
  PROVE  Inv'
<1>1. stage' = [stage EXCEPT ![j] = "done"] BY DEF End, Move
<1>2. "done" \in Stages /\ "done" \notin Sent /\ "done" \in Apart BY DEF Sent, Apart, Stages
<1> QED BY <1>1, <1>2, Moves

LEMMA NoStep == ASSUME Inv, UNCHANGED <<session, next, wire, replies, stage, link, drawn, nth, heard>>
                PROVE  Inv'
BY DEF Inv, TypeI, Connected, GivenOut, Distinct, Addressed, OwnReply, Mail

LEMMA ConnectIsApart == \A o : AfterConnect(o) \in Stages \ (Sent \cup Apart)
BY DEF AfterConnect, Sent, Apart, Stages

-----------------------------------------------------------------------------
(* Coming by a connection, or changing the one that is kept.               *)
LEMMA ReuseKeeps == ASSUME Inv, NEW j \in Jobs, ConnectReuses(j) PROVE Inv'
<1> DEFINE to == AfterConnect(ask[j].op)
<1>1. to \in Stages /\ to \notin Sent BY ConnectIsApart
<1>2. session \in Links BY DEF ConnectReuses, Usable, Inv, TypeI
<1>3. /\ stage' = [stage EXCEPT ![j] = to] /\ link' = [link EXCEPT ![j] = session]
      /\ stage[j] = "connecting"
      /\ UNCHANGED <<session, next, wire, replies, drawn, nth, heard>>
  BY DEF ConnectReuses, Move, links, mail
<1> HIDE DEF to
<1>4. TypeI' BY <1>1, <1>2, <1>3 DEF Inv, TypeI
<1>5. Connected' BY <1>2, <1>3 DEF Inv, TypeI, Connected
<1>6. OwnReply' BY <1>3 DEF Inv, OwnReply
<1>7. Mail' = Mail /\ \A s \in Links : next[s] <= next'[s]
  BY <1>3 DEF Mail, Inv, TypeI
<1>8. \A k \in Jobs : stage'[k] \in Sent =>
        /\ stage[k] \in Sent
        /\ link'[k] = link[k] /\ drawn'[k] = drawn[k] /\ nth'[k] = nth[k]
  BY <1>1, <1>3 DEF Inv, TypeI
<1> QED BY <1>4, <1>5, <1>6, <1>7, <1>8, Frame

LEMMA OpenKeeps == ASSUME Inv, NEW j \in Jobs, NEW s \in Links, ConnectOpens(j, s) PROVE Inv'
<1>1. /\ stage' = [stage EXCEPT ![j] = "enabling"] /\ link' = [link EXCEPT ![j] = s]
      /\ next' = [next EXCEPT ![s] = 1] /\ next[s] = 0
      /\ UNCHANGED <<session, wire, replies, drawn, nth, heard>>
  BY DEF ConnectOpens, Move, Unmade
<1>2. "enabling" \in Stages /\ "enabling" \notin Sent /\ "enabling" \notin Apart
  BY DEF Stages, Sent, Apart
<1>3. TypeI' BY <1>1, <1>2 DEF Inv, TypeI
<1>4. Connected' BY <1>1 DEF Inv, TypeI, Connected
<1>5. OwnReply' BY <1>1 DEF Inv, OwnReply
<1>6. Mail' = Mail /\ \A t \in Links : next[t] <= next'[t]
  BY <1>1 DEF Mail, Inv, TypeI
<1>7. \A k \in Jobs : stage'[k] \in Sent =>
        /\ stage[k] \in Sent
        /\ link'[k] = link[k] /\ drawn'[k] = drawn[k] /\ nth'[k] = nth[k]
  BY <1>1, <1>2 DEF Inv, TypeI
<1> QED BY <1>3, <1>4, <1>5, <1>6, <1>7, Frame

LEMMA EnablesKeeps == ASSUME Inv, NEW j \in Jobs, Enables(j) PROVE Inv'
<1> DEFINE to == AfterConnect(ask[j].op)
<1>1. to \in Stages /\ to \notin Sent BY ConnectIsApart
<1>2. /\ stage' = [stage EXCEPT ![j] = to] /\ stage[j] = "enabling" /\ session' = link[j]
      /\ UNCHANGED <<next, wire, replies, link, drawn, nth, heard>>
  BY DEF Enables, Move, mail, jobVars
<1> HIDE DEF to
<1>3. link[j] \in Links BY <1>2 DEF Inv, Connected, Apart
<1>4. TypeI' BY <1>1, <1>2, <1>3 DEF Inv, TypeI
<1>5. Connected' BY <1>2, <1>3 DEF Inv, TypeI, Connected
<1>6. OwnReply' BY <1>2 DEF Inv, OwnReply
<1>7. Mail' = Mail /\ \A s \in Links : next[s] <= next'[s]
  BY <1>2 DEF Mail, Inv, TypeI
<1>8. \A k \in Jobs : stage'[k] \in Sent =>
        /\ stage[k] \in Sent
        /\ link'[k] = link[k] /\ drawn'[k] = drawn[k] /\ nth'[k] = nth[k]
  BY <1>1, <1>2 DEF Inv, TypeI
<1> QED BY <1>4, <1>5, <1>6, <1>7, <1>8, Frame

LEMMA ForgetKeeps == ASSUME Inv, CloseForgets PROVE Inv'
<1>1. session' = NoLink /\ UNCHANGED <<next, wire, replies, stage, link, drawn, nth, heard>>
  BY DEF CloseForgets, mail, jobVars
<1> QED BY <1>1 DEF Inv, TypeI, Connected, GivenOut, Distinct, Addressed, OwnReply, Mail

-----------------------------------------------------------------------------
(* A number is drawn: it is beyond every one that was given out.           *)
LEMMA DrawsKeeps == ASSUME Inv, NEW j \in Jobs, Draws(j) PROVE Inv'
<1>0. link[j] \in Links /\ stage[j] = "sending"
  BY DEF Draws, Inv, Connected, Apart
<1>1. CASE closed[link[j]]
  <2>1. End(j, "sending", "failed") /\ UNCHANGED <<session, next, wire, replies, link, drawn, nth, heard>>
    BY <1>1 DEF Draws, links
  <2> QED BY <2>1, CallEnds
<1>2. CASE ~closed[link[j]]
  <2> DEFINE new == next[link[j]] + 1
  <2>1. /\ stage' = [stage EXCEPT ![j] = "posting"]
        /\ drawn' = [drawn EXCEPT ![j] = new]
        /\ next' = [next EXCEPT ![link[j]] = new]
        /\ UNCHANGED <<session, wire, replies, link, nth, heard>>
    BY <1>2 DEF Draws, Move, links
  <2>2. new \in Nat /\ new > next[link[j]] BY <1>0 DEF Inv, TypeI
  <2> HIDE DEF new
  <2>3. TypeI' BY <2>1, <2>2, <1>0 DEF Inv, TypeI, Stages, Sent
  <2>4. Connected' BY <2>1, <1>0 DEF Inv, TypeI, Connected
  <2>5. Mail' = Mail /\ \A s \in Links : next[s] <= next'[s]
    BY <2>1, <2>2 DEF Mail, Inv, TypeI
  <2>6. \A m \in Mail : m.link \in Links /\ m.number \in Nat /\ m.number <= next[m.link]
    BY DEF Inv, TypeI, GivenOut, Mail, Message
  <2>7. \A k \in Jobs \ {j} :
          /\ stage'[k] = stage[k] /\ drawn'[k] = drawn[k]
          /\ stage[k] \in Sent => link[k] \in Links /\ drawn[k] <= next[link[k]]
    BY <2>1 DEF Inv, TypeI, Connected, GivenOut, Sent, Apart
  <2>8. drawn'[j] = new /\ next'[link[j]] = new BY <2>1, <1>0 DEF Inv, TypeI
  <2>9. GivenOut'
    <3>1. \A s \in Links : next[s] \in Nat /\ next'[s] \in Nat BY <2>3 DEF Inv, TypeI
    <3>3. \A m \in Mail' : m.number <= next'[m.link]
      <4> SUFFICES ASSUME NEW m \in Mail' PROVE m.number <= next'[m.link]
        OBVIOUS
      <4>1. /\ m.link \in Links /\ m.number \in Nat /\ m.number <= next[m.link]
            /\ next[m.link] <= next'[m.link]
        BY <2>5, <2>6
      <4> QED BY <3>1, <4>1
    <3>2. \A k \in Jobs : stage'[k] \in Sent => drawn'[k] <= next'[link'[k]]
      <4> SUFFICES ASSUME NEW k \in Jobs, stage'[k] \in Sent PROVE drawn'[k] <= next'[link'[k]]
        OBVIOUS
      <4>0. CASE k = j BY <2>1, <2>2, <2>8, <4>0
      <4> SUFFICES ASSUME k # j PROVE drawn'[k] <= next'[link'[k]]
        BY <4>0
      <4>1. /\ link'[k] = link[k] /\ link[k] \in Links /\ drawn'[k] = drawn[k] /\ drawn[k] \in Nat
            /\ drawn[k] <= next[link[k]] /\ next[link[k]] <= next'[link[k]]
        BY <2>1, <2>5, <2>7 DEF Inv, TypeI
      <4> QED BY <3>1, <4>1
    <3> QED BY <3>2, <3>3 DEF GivenOut
  <2>10. \A k \in Jobs \ {j} : stage[k] \in Sent /\ link[k] = link[j] => drawn[k] # new
    <3> SUFFICES ASSUME NEW k \in Jobs \ {j}, stage[k] \in Sent, link[k] = link[j]
                 PROVE  drawn[k] # new
      OBVIOUS
    <3>1. drawn[k] <= next[link[j]] BY <2>7
    <3>2. drawn[k] \in Nat /\ next[link[j]] \in Nat BY <1>0 DEF Inv, TypeI
    <3> QED BY <2>2, <3>1, <3>2
  <2>11. Distinct' BY <2>1, <2>7, <2>8, <2>10 DEF Inv, Distinct
  <2>12. \A m \in Mail : m.link = link[j] => m.number # new
    <3> SUFFICES ASSUME NEW m \in Mail, m.link = link[j] PROVE m.number # new
      OBVIOUS
    <3>1. m.number \in Nat /\ next[link[j]] \in Nat /\ m.number <= next[link[j]]
      BY <2>6, <1>0 DEF Inv, TypeI
    <3> QED BY <2>2, <3>1
  <2>13. Addressed' BY <2>1, <2>5, <2>7, <2>8, <2>12 DEF Inv, Addressed
  <2>14. OwnReply' BY <2>1 DEF Inv, OwnReply
  <2> QED BY <2>3, <2>4, <2>9, <2>11, <2>13, <2>14 DEF Inv
<1> QED BY <1>1, <1>2

(* The command goes out under that number, which is nobody else's.         *)
LEMMA PostsKeeps == ASSUME Inv, NEW j \in Jobs, Posts(j) PROVE Inv'
<1>0. link[j] \in Links /\ stage[j] = "posting"
  BY DEF Posts, Inv, Connected, Apart
<1>1. CASE ~wired[link[j]]
  <2>1. End(j, "posting", "failed") /\ UNCHANGED <<session, next, wire, replies, link, drawn, nth, heard>>
    BY <1>1 DEF Posts, links, jobVars
  <2> QED BY <2>1, CallEnds
<1>2. CASE wired[link[j]]
  <2> DEFINE msg == Command(j)
  <2>1. /\ stage' = [stage EXCEPT ![j] = "waiting"] /\ wire' = wire \cup {msg}
        /\ UNCHANGED <<session, next, replies, link, drawn, nth, heard>>
    BY <1>2 DEF Posts, Move, links, jobVars
  <2>2. /\ msg \in Message
        /\ msg.link = link[j] /\ msg.number = drawn[j] /\ msg.by = j /\ msg.nth = nth[j]
    BY <1>0 DEF Command, Message, Inv, TypeI
  <2> HIDE DEF msg
  <2>3. Mail' = Mail \cup {msg} BY <2>1 DEF Mail
  <2>4. \A k \in Jobs : stage'[k] \in Sent <=> stage[k] \in Sent
    BY <2>1, <1>0 DEF Inv, TypeI, Sent
  <2>5. stage[j] \in Sent BY <1>0 DEF Sent
  <2>6. TypeI' BY <2>1, <2>2 DEF Inv, TypeI, Stages, Sent
  <2>7. Connected' BY <2>1, <1>0 DEF Inv, TypeI, Connected
  <2>8. GivenOut' BY <2>1, <2>2, <2>3, <2>4, <2>5 DEF Inv, GivenOut
  <2>9. Distinct' BY <2>1, <2>4 DEF Inv, Distinct
  <2>10. Addressed' BY <2>1, <2>2, <2>3, <2>4, <2>5 DEF Inv, Addressed, Distinct
  <2>11. OwnReply' BY <2>1 DEF Inv, OwnReply
  <2> QED BY <2>6, <2>7, <2>8, <2>9, <2>10, <2>11 DEF Inv
<1> QED BY <1>1, <1>2

(* An answer with its number is the one it waits for.                      *)
LEMMA ReceivesKeeps == ASSUME Inv, NEW j \in Jobs, Receives(j) PROVE Inv'
<1>0. PICK m \in MyReplies(j) :
        /\ replies' = replies \ {m}
        /\ heard' = [heard EXCEPT ![j] = @ \cup {[by |-> m.by, nth |-> m.nth, own |-> nth[j]]}]
        /\ Move(j, "waiting", AfterReply(j)) \/ End(j, "waiting", "failed")
        /\ UNCHANGED <<session, next, wire, link, drawn, nth>>
  BY DEF Receives, links
<1>1. PICK to \in {"watching", "saving", "done"} :
        stage' = [stage EXCEPT ![j] = to] /\ stage[j] = "waiting"
  BY <1>0 DEF Move, End, AfterReply
<1>2. to \in Stages /\ to \notin Sent BY DEF Stages, Sent, Apart
<1>3. m \in Mail /\ m \in Message /\ m.link = link[j] /\ m.number = drawn[j]
  BY DEF MyReplies, Mail, Inv, TypeI
<1>4. m.by = j /\ m.nth = nth[j] BY <1>1, <1>3 DEF Inv, Addressed, Sent
<1>5. link[j] \in Links BY <1>1 DEF Inv, Connected, Apart
<1>6. TypeI' BY <1>0, <1>1, <1>2, <1>3 DEF Inv, TypeI, Message, Hearing
<1>7. Connected' BY <1>0, <1>1, <1>5 DEF Inv, TypeI, Connected
<1>8. \A k \in Jobs : \A h \in heard'[k] : h.by = k /\ h.nth = h.own
  <2> SUFFICES ASSUME NEW k \in Jobs, NEW h \in heard'[k] PROVE h.by = k /\ h.nth = h.own
    OBVIOUS
  <2>1. CASE h \in heard[k] BY <2>1 DEF Inv, OwnReply
  <2>2. CASE h \notin heard[k]
    <3>1. k = j /\ h = [by |-> m.by, nth |-> m.nth, own |-> nth[j]]
      BY <2>2, <1>0 DEF Inv, TypeI
    <3> QED BY <3>1, <1>4
  <2> QED BY <2>1, <2>2
<1>9. OwnReply' BY <1>8 DEF OwnReply
<1>10. Mail' \subseteq Mail /\ \A s \in Links : next[s] <= next'[s]
  BY <1>0 DEF Mail, Inv, TypeI
<1>11. \A k \in Jobs : stage'[k] \in Sent =>
         /\ stage[k] \in Sent
         /\ link'[k] = link[k] /\ drawn'[k] = drawn[k] /\ nth'[k] = nth[k]
  BY <1>0, <1>1, <1>2 DEF Inv, TypeI
<1> QED BY <1>6, <1>7, <1>9, <1>10, <1>11, Frame

-----------------------------------------------------------------------------
(* The steps of a call.                                                    *)
LEMMA JobKeeps == ASSUME Inv, NEW j \in Jobs, JobStep(j) PROVE Inv'
<1> USE DEF links, mail, jobVars
<1>0. /\ {"listing", "launching", "connecting"} \subseteq Stages \cap Apart
      /\ {"sending", "saving", "watching"} \subseteq Stages
      /\ Apart \cap Sent = {} /\ "sending" \notin Sent
  BY DEF Stages, Apart, Sent
<1>1. CASE BeginCall(j)
  <2>1. CASE End(j, "new", "refused") BY <1>1, <2>1, CallEnds DEF BeginCall
  <2>2. CASE \E to \in {"listing", "connecting"} : Move(j, "new", to)
    <3>1. PICK to \in {"listing", "connecting"} : stage' = [stage EXCEPT ![j] = to]
      BY <2>2 DEF Move
    <3>2. to \in Stages /\ to \notin Sent /\ to \in Apart BY <1>0
    <3> QED BY <1>1, <3>1, <3>2, Moves DEF BeginCall
  <2> QED BY <1>1, <2>1, <2>2 DEF BeginCall
<1>2. CASE Launches(j)
  <2>1. CASE \E result : End(j, "listing", result) BY <1>2, <2>1, CallEnds DEF Launches
  <2>2. CASE Move(j, "listing", "launching") BY <1>0, <1>2, <2>2, Moves DEF Launches, Move
  <2> QED BY <1>2, <2>1, <2>2 DEF Launches
<1>3. CASE LaunchEnds(j) BY <1>3, CallEnds DEF LaunchEnds
<1>4. CASE ConnectReuses(j) BY <1>4, ReuseKeeps
<1>5. CASE ConnectFails(j) BY <1>5, CallEnds DEF ConnectFails
<1>6. CASE Enables(j) BY <1>6, EnablesKeeps
<1>7. CASE \E s \in Links : ConnectOpens(j, s) BY <1>7, OpenKeeps
<1>8. CASE Draws(j) BY <1>8, DrawsKeeps
<1>9. CASE Posts(j) BY <1>9, PostsKeeps
<1>10. CASE Receives(j) BY <1>10, ReceivesKeeps
<1>11. CASE GivesUp(j) BY <1>11, CallEnds DEF GivesUp
<1>12. CASE Clears(j)
  <2>1. stage[j] = "clearing" /\ stage' = [stage EXCEPT ![j] = "sending"]
    BY <1>12 DEF Clears, Move
  <2>2. link[j] \in Links BY <2>1 DEF Inv, Connected, Apart
  <2> QED BY <1>0, <1>12, <2>1, <2>2, Moves DEF Clears
<1>13. CASE Watches(j)
  <2>1. CASE End(j, "watching", "did not load") /\ UNCHANGED nth
    BY <1>13, <2>1, CallEnds DEF Watches
  <2>2. CASE Move(j, "watching", "sending") /\ nth' = [nth EXCEPT ![j] = 2]
    <3>1. /\ stage[j] = "watching" /\ stage' = [stage EXCEPT ![j] = "sending"]
          /\ nth' = [nth EXCEPT ![j] = 2]
          /\ UNCHANGED <<session, next, wire, replies, link, drawn, heard>>
      BY <1>13, <2>2 DEF Watches, Move
    <3>2. link[j] \in Links BY <3>1 DEF Inv, Connected, Apart
    <3>3. TypeI' BY <1>0, <3>1 DEF Inv, TypeI
    <3>4. Connected' BY <3>1, <3>2 DEF Inv, TypeI, Connected
    <3>5. OwnReply' BY <3>1 DEF Inv, OwnReply
    <3>6. Mail' = Mail /\ \A s \in Links : next[s] <= next'[s]
      BY <3>1 DEF Mail, Inv, TypeI
    <3>7. \A k \in Jobs : stage'[k] \in Sent =>
            /\ stage[k] \in Sent
            /\ link'[k] = link[k] /\ drawn'[k] = drawn[k] /\ nth'[k] = nth[k]
      BY <1>0, <3>1 DEF Inv, TypeI
    <3> QED BY <3>3, <3>4, <3>5, <3>6, <3>7, Frame
  <2> QED BY <1>13, <2>1, <2>2 DEF Watches
<1>14. CASE Looks(j) BY <1>14, CallEnds DEF Looks
<1>15. CASE Tells(j) BY <1>15, CallEnds DEF Tells
<1>16. CASE Inspects(j) BY <1>16, CallEnds DEF Inspects
<1>17. CASE Saves(j) BY <1>17, CallEnds DEF Saves
<1> QED BY <1>1, <1>2, <1>3, <1>4, <1>5, <1>6, <1>7, <1>8, <1>9, <1>10, <1>11, <1>12,
           <1>13, <1>14, <1>15, <1>16, <1>17 DEF JobStep

(* The steps of Chrome and of the emergency stop: mail changes hands, or   *)
(* is lost.                                                                *)
LEMMA MailMoves ==
  ASSUME Inv, wire' \subseteq wire, replies' \subseteq Mail,
         UNCHANGED <<session, next, stage, link, drawn, nth, heard>>
  PROVE  Inv'
<1>1. TypeI' BY DEF Inv, TypeI, Mail
<1>2. Connected' /\ OwnReply' BY DEF Inv, Connected, OwnReply
<1>3. Mail' \subseteq Mail /\ \A s \in Links : next[s] <= next'[s]
  BY DEF Mail, Inv, TypeI
<1> QED BY <1>1, <1>2, <1>3, Frame

LEMMA NextKeeps == ASSUME Inv, [BrowserNext]_browserVars PROVE Inv'
<1> USE DEF links, mail, jobVars
<1>1. CASE \E j \in Jobs : JobStep(j) BY <1>1, JobKeeps
<1>2. CASE \E m \in wire : ChromeAnswers(m)
  BY <1>2, MailMoves DEF ChromeAnswers, Mail
<1>3. CASE (\E j \in Jobs : PageLoads(j) \/ PageFails(j) \/ PageTalks(j)) \/ \E s \in Links : Files(s)
  BY <1>3, NoStep DEF PageLoads, PageFails, PageTalks, Files
<1>4. CASE ChromeListens BY <1>4, NoStep DEF ChromeListens
<1>5. CASE ChromeDies BY <1>5, MailMoves DEF ChromeDies, Mail
<1>6. CASE CloseMarks BY <1>6, NoStep DEF CloseMarks
<1>7. CASE CloseShuts BY <1>7, MailMoves DEF CloseShuts, Mail
<1>8. CASE CloseForgets BY <1>8, ForgetKeeps
<1>9. CASE UNCHANGED browserVars BY <1>9, NoStep DEF browserVars
<1> QED BY <1>1, <1>2, <1>3, <1>4, <1>5, <1>6, <1>7, <1>8, <1>9 DEF BrowserNext, ChromeStep

(* A call takes the answer to the very command it sent, whatever the       *)
(* number of calls on a connection and however late answers come           *)
(* (cdp.py:132-158).                                                       *)
THEOREM AnswersAreOwn == BrowserSpec => []OwnReply
<1>1. Inv => OwnReply BY DEF Inv
<1> QED BY InitInv, NextKeeps, <1>1, PTL DEF BrowserSpec

-----------------------------------------------------------------------------
(* "Did not load": from the moment a call clears the events of its         *)
(* connection, every failure among them is one filed since.                *)
Event   == [kind : {"load", "failed"}, by : Jobs] \cup [kind : {"noise"}, by : {None}]
Cleared == {"sending", "posting", "waiting", "watching"}

EventsTyped ==
  /\ events \in [Links -> Seq(Event)] /\ unread \in [Links -> Seq(Event)]
  /\ since \in [Jobs -> SUBSET Jobs] /\ told \in [Jobs -> SUBSET Jobs]

Seen ==
  \A j \in Jobs :
    ask[j].op = "navigate" /\ stage[j] \in Cleared => Failures(link[j]) \subseteq since[j]

ToldAtTheEnd == \A j \in Jobs : told[j] # {} => stage[j] = "done"

OnlyPagesWatched == \A j \in Jobs : stage[j] \in {"clearing", "watching"} => ask[j].op = "navigate"

NewInv == Inv /\ EventsTyped /\ Seen /\ ToldAtTheEnd /\ OnlyPagesWatched /\ ToldIsRecent

(* What Chrome sends is read, and what is read is filed.                   *)
LEMMA Sending ==
  ASSUME EventsTyped, NEW e \in Event, Reports(e)
  PROVE  /\ unread' \in [Links -> Seq(Event)] /\ UNCHANGED <<events, pushed>>
         /\ \A s \in Links : FailuresIn(unread[s]) \subseteq FailuresIn(unread'[s])
         /\ \A s \in Listening : e.kind = "failed" => e.by \in FailuresIn(unread'[s])
<1>1. \A s \in Links : unread[s] \in Seq(Event) BY DEF EventsTyped
<1>2. unread' \in [Links -> Seq(Event)] /\ UNCHANGED <<events, pushed>> BY <1>1 DEF Reports
<1>3. ASSUME NEW s \in Listening
      PROVE  /\ FailuresIn(unread[s]) \subseteq FailuresIn(unread'[s])
             /\ e.kind = "failed" => e.by \in FailuresIn(unread'[s])
  <2>1. unread[s] \in Seq(Event) /\ unread'[s] = Append(unread[s], e) BY <1>1, <1>3 DEF Reports, Listening
  <2>2. /\ \A i \in DOMAIN unread[s] : i \in DOMAIN unread'[s] /\ unread'[s][i] = unread[s][i]
        /\ Len(unread[s]) + 1 \in DOMAIN unread'[s] /\ unread'[s][Len(unread[s]) + 1] = e
    BY <2>1
  <2> QED BY <2>2 DEF FailuresIn
<1>4. ASSUME NEW s \in Links \ Listening PROVE unread'[s] = unread[s] BY <1>4 DEF Reports
<1> QED BY <1>2, <1>3, <1>4 DEF Listening

LEMMA Reading ==
  ASSUME EventsTyped, NEW s \in Links, unread[s] # <<>>
  PROVE  /\ Head(unread[s]) \in Event /\ Tail(unread[s]) \in Seq(Event)
         /\ \A b \in FailuresIn(unread[s]) :
              \/ b \in FailuresIn(Tail(unread[s]))
              \/ Head(unread[s]).kind = "failed" /\ Head(unread[s]).by = b
<1> DEFINE q == unread[s]
           t == Tail(q)
<1>1. q \in Seq(Event) /\ q # <<>> BY DEF EventsTyped
<1>2. /\ Head(q) \in Event /\ t \in Seq(Event) /\ Head(q) = q[1]
      /\ \A i \in DOMAIN q : i # 1 => i - 1 \in DOMAIN t /\ t[i - 1] = q[i]
  BY <1>1
<1>3. ASSUME NEW b \in FailuresIn(q)
      PROVE  b \in FailuresIn(t) \/ (Head(q).kind = "failed" /\ Head(q).by = b)
  <2> HIDE DEF q, t
  <2>1. PICK i \in DOMAIN q : q[i].kind = "failed" /\ b = q[i].by BY <1>3 DEF FailuresIn
  <2> QED BY <1>2, <2>1 DEF FailuresIn
<1> QED BY <1>2, <1>3

(* What a filed event may add to the failures of a connection.             *)
LEMMA FiledFailures ==
  ASSUME EventsTyped, NEW s \in Links, NEW e \in Event
  PROVE  /\ Filed(s, e) \in Seq(Event)
         /\ FailuresIn(Filed(s, e)) \subseteq
              Failures(s) \cup (IF e.kind = "failed" THEN {e.by} ELSE {})
<1>1. events[s] \in Seq(Event) BY DEF EventsTyped
<1>2. /\ Filed(s, e) \in Seq(Event)
      /\ \A i \in DOMAIN Filed(s, e) :
           \/ Filed(s, e)[i] = e
           \/ \E k \in DOMAIN events[s] : Filed(s, e)[i] = events[s][k]
  <2>1. CASE Len(events[s]) < EVENT_BUFFER BY <1>1, <2>1 DEF Filed
  <2>2. CASE ~(Len(events[s]) < EVENT_BUFFER)
    <3>1. events[s] # <<>> BY <1>1, <2>2, BufferAssumption
    <3>2. /\ Tail(events[s]) \in Seq(Event)
          /\ \A i \in DOMAIN Tail(events[s]) : Tail(events[s])[i] = events[s][i + 1]
          /\ \A i \in DOMAIN Tail(events[s]) : i + 1 \in DOMAIN events[s]
      BY <1>1, <3>1
    <3> QED BY <2>2, <3>2 DEF Filed
  <2> QED BY <2>1, <2>2
<1>3. ASSUME NEW b \in FailuresIn(Filed(s, e))
      PROVE  b \in Failures(s) \/ (e.kind = "failed" /\ b = e.by)
  <2>1. PICK i \in DOMAIN Filed(s, e) : Filed(s, e)[i].kind = "failed" /\ b = Filed(s, e)[i].by
    BY <1>3 DEF FailuresIn
  <2>2. CASE \E k \in DOMAIN events[s] : Filed(s, e)[i] = events[s][k]
    BY <2>1, <2>2 DEF Failures, FailuresIn
  <2>3. CASE Filed(s, e)[i] = e BY <2>1, <2>3
  <2> QED BY <1>2, <2>2, <2>3
<1> QED BY <1>2, <1>3

LEMMA EmptySeq == <<>> \in Seq(Event)
OBVIOUS

LEMMA InitNew == BrowserInit => NewInv
<1> SUFFICES ASSUME BrowserInit PROVE NewInv
  OBVIOUS
<1>1. Inv BY InitInv
<1>2. EventsTyped BY EmptySeq DEF BrowserInit, EventsTyped
<1>3. \A j \in Jobs : stage[j] = "new" /\ told[j] = {} BY DEF BrowserInit
<1>4. Seen /\ ToldAtTheEnd /\ OnlyPagesWatched /\ ToldIsRecent
  BY <1>3 DEF Seen, ToldAtTheEnd, OnlyPagesWatched, ToldIsRecent, Cleared
<1> QED BY <1>1, <1>2, <1>4 DEF NewInv

(* A step that moves one call and leaves the events alone.                 *)
LEMMA EventsRest ==
  ASSUME NewInv, NEW j \in Jobs, NEW to,
         stage' = [stage EXCEPT ![j] = to],
         UNCHANGED <<events, unread, ask, since, told>>,
         \A k \in Jobs \ {j} : link'[k] = link[k],
         to \in Cleared /\ ask[j].op = "navigate" => stage[j] \in Cleared /\ link'[j] = link[j],
         to \in {"clearing", "watching"} => ask[j].op = "navigate",
         stage[j] # "done"
  PROVE  EventsTyped' /\ Seen' /\ ToldAtTheEnd' /\ OnlyPagesWatched' /\ ToldIsRecent'
<1>1. \A k \in Jobs \ {j} : stage'[k] = stage[k] BY DEF NewInv, Inv, TypeI
<1>2. stage'[j] = to BY DEF NewInv, Inv, TypeI
<1>3. \A s : Failures(s)' = Failures(s) BY DEF Failures
<1>4. EventsTyped' BY DEF NewInv, EventsTyped
<1>5. Seen' BY <1>1, <1>2, <1>3 DEF NewInv, Seen
<1>6. ToldAtTheEnd' BY <1>1, <1>2 DEF NewInv, ToldAtTheEnd
<1>7. OnlyPagesWatched' BY <1>1, <1>2 DEF NewInv, OnlyPagesWatched
<1>8. ToldIsRecent' BY DEF NewInv, ToldIsRecent
<1> QED BY <1>4, <1>5, <1>6, <1>7, <1>8

LEMMA EventsEnd ==
  ASSUME NewInv, NEW j \in Jobs, NEW from \in Stages \ {"done"}, NEW result, End(j, from, result),
         UNCHANGED <<events, unread, ask, since, told, link>>
  PROVE  EventsTyped' /\ Seen' /\ ToldAtTheEnd' /\ OnlyPagesWatched' /\ ToldIsRecent'
<1>1. stage' = [stage EXCEPT ![j] = "done"] /\ stage[j] # "done" BY DEF End, Move
<1> QED BY <1>1, EventsRest DEF Cleared

LEMMA EventsStill ==
  ASSUME NewInv, UNCHANGED <<stage, link, ask, events, since, told>>,
         unread' \in [Links -> Seq(Event)]
  PROVE  EventsTyped' /\ Seen' /\ ToldAtTheEnd' /\ OnlyPagesWatched' /\ ToldIsRecent'
<1>1. EventsTyped' /\ ToldAtTheEnd' /\ OnlyPagesWatched' /\ ToldIsRecent'
  BY DEF NewInv, EventsTyped, ToldAtTheEnd, OnlyPagesWatched, ToldIsRecent
<1>2. \A s : Failures(s)' = Failures(s) BY DEF Failures
<1>3. Seen' BY <1>2 DEF NewInv, Seen
<1> QED BY <1>1, <1>3

(* An event is filed on the connection it was sent to.                     *)
LEMMA EventsFiled ==
  ASSUME NewInv, NEW s \in Links, Files(s)
  PROVE  EventsTyped' /\ Seen' /\ ToldAtTheEnd' /\ OnlyPagesWatched' /\ ToldIsRecent'
<1> DEFINE e == Head(unread[s])
           more == IF e.kind = "failed" THEN {e.by} ELSE {}
<1>1. /\ unread' = [unread EXCEPT ![s] = Tail(@)] /\ events' = [events EXCEPT ![s] = Filed(s, e)]
      /\ unread[s] # <<>> /\ UNCHANGED <<stage, link, ask, told>>
      /\ since' = [k \in Jobs |-> IF link[k] = s /\ e.kind = "failed" THEN since[k] \cup {e.by}
                                 ELSE since[k]]
  BY DEF Files, jobVars
<1>2. EventsTyped BY DEF NewInv
<1>3. e \in Event /\ Tail(unread[s]) \in Seq(Event) BY <1>1, <1>2, Reading
<1>4. Filed(s, e) \in Seq(Event) /\ FailuresIn(Filed(s, e)) \subseteq Failures(s) \cup more
  BY <1>2, <1>3, FiledFailures
<1>5. e.kind = "failed" => e.by \in Jobs BY <1>3 DEF Event
<1> HIDE DEF e
<1>6. \A k \in Jobs : /\ since'[k] \subseteq Jobs /\ since[k] \subseteq since'[k]
                      /\ link[k] = s => more \subseteq since'[k]
  BY <1>1, <1>2, <1>5 DEF EventsTyped
<1>7. EventsTyped'
  <2>1. since' \in [Jobs -> SUBSET Jobs] BY <1>1, <1>6
  <2> QED BY <1>1, <1>2, <1>3, <1>4, <2>1 DEF EventsTyped
<1>8. Seen'
  <2> SUFFICES ASSUME NEW j \in Jobs, ask[j].op = "navigate", stage[j] \in Cleared
               PROVE  FailuresIn(events'[link[j]]) \subseteq since'[j]
    BY <1>1 DEF Seen, Failures
  <2>1. link[j] \in Links BY DEF NewInv, Inv, Connected, Cleared, Apart
  <2>2. Failures(link[j]) \subseteq since[j] BY DEF NewInv, Seen
  <2>3. CASE link[j] = s
    <3>1. events'[s] = Filed(s, e) BY <1>1, <1>2 DEF EventsTyped
    <3>2. FailuresIn(events'[s]) \subseteq Failures(s) \cup more BY <1>4, <3>1
    <3> HIDE DEF more
    <3>3. Failures(s) \subseteq since[j] BY <2>2, <2>3
    <3> QED BY <1>6, <2>3, <3>2, <3>3
  <2>4. CASE link[j] # s
    <3>1. events'[link[j]] = events[link[j]] BY <1>1, <1>2, <2>1, <2>4 DEF EventsTyped
    <3> QED BY <1>6, <2>2, <3>1 DEF Failures
  <2> QED BY <2>3, <2>4
<1>9. ToldAtTheEnd' /\ OnlyPagesWatched' BY <1>1 DEF NewInv, ToldAtTheEnd, OnlyPagesWatched
<1>10. ToldIsRecent' BY <1>1, <1>6 DEF NewInv, ToldIsRecent
<1> QED BY <1>7, <1>8, <1>9, <1>10

LEMMA JobEvents ==
  ASSUME NewInv, NEW j \in Jobs, JobStep(j)
  PROVE  EventsTyped' /\ Seen' /\ ToldAtTheEnd' /\ OnlyPagesWatched' /\ ToldIsRecent'
<1> USE DEF links, mail, jobVars, pages, told_of
<1>0. /\ {"new", "listing", "launching", "connecting", "sending", "posting", "waiting", "watching",
          "saving", "looking"} \subseteq Stages \ {"done"}
      /\ {"listing", "launching", "connecting", "enabling"} \cap (Cleared \cup {"clearing", "done"}) = {}
  BY DEF Stages, Apart, Sent, Cleared
<1>1. CASE BeginCall(j)
  <2>1. CASE End(j, "new", "refused") BY <1>0, <1>1, <2>1, EventsEnd DEF BeginCall
  <2>2. CASE \E to \in {"listing", "connecting"} : Move(j, "new", to)
    <3>1. PICK to \in {"listing", "connecting"} : Move(j, "new", to) BY <2>2
    <3>2. to \notin Cleared \cup {"clearing", "watching"} BY <1>0 DEF Cleared
    <3> QED BY <1>1, <3>1, <3>2, EventsRest DEF BeginCall, Move
  <2> QED BY <1>1, <2>1, <2>2 DEF BeginCall
<1>2. CASE Launches(j)
  <2>1. CASE \E result : End(j, "listing", result) BY <1>0, <1>2, <2>1, EventsEnd DEF Launches
  <2>2. CASE Move(j, "listing", "launching")
    BY <1>2, <2>2, EventsRest DEF Launches, Move, Cleared
  <2> QED BY <1>2, <2>1, <2>2 DEF Launches
<1>3. CASE LaunchEnds(j) BY <1>0, <1>3, EventsEnd DEF LaunchEnds
<1>4. CASE ConnectReuses(j) \/ Enables(j)
  <2> DEFINE to == AfterConnect(ask[j].op)
  <2>1. /\ to \in Cleared /\ ask[j].op = "navigate" => FALSE
        /\ to \in {"clearing", "watching"} => ask[j].op = "navigate"
    BY DEF AfterConnect, Cleared
  <2>2. /\ stage' = [stage EXCEPT ![j] = to] /\ stage[j] # "done"
        /\ \A k \in Jobs \ {j} : link'[k] = link[k]
        /\ UNCHANGED <<events, unread, ask, since, told>>
    BY <1>4 DEF ConnectReuses, Enables, Move, NewInv, Inv, TypeI
  <2> HIDE DEF to
  <2> QED BY <2>1, <2>2, EventsRest
<1>5. CASE ConnectFails(j) BY <1>0, <1>5, EventsEnd DEF ConnectFails
<1>6. CASE \E s \in Links : ConnectOpens(j, s)
  <2>1. /\ stage' = [stage EXCEPT ![j] = "enabling"] /\ stage[j] # "done"
        /\ \A k \in Jobs \ {j} : link'[k] = link[k]
        /\ UNCHANGED <<events, unread, ask, since, told>>
    BY <1>6 DEF ConnectOpens, Move, NewInv, Inv, TypeI
  <2> QED BY <2>1, EventsRest DEF Cleared
<1>7. CASE Draws(j)
  <2>1. CASE End(j, "sending", "failed") BY <1>0, <1>7, <2>1, EventsEnd DEF Draws
  <2>2. CASE Move(j, "sending", "posting")
    BY <1>7, <2>2, EventsRest DEF Draws, Move, Cleared
  <2> QED BY <1>7, <2>1, <2>2 DEF Draws
<1>8. CASE Posts(j)
  <2>1. CASE End(j, "posting", "failed") BY <1>0, <1>8, <2>1, EventsEnd DEF Posts
  <2>2. CASE Move(j, "posting", "waiting")
    BY <1>8, <2>2, EventsRest DEF Posts, Move, Cleared
  <2> QED BY <1>8, <2>1, <2>2 DEF Posts
<1>9. CASE Receives(j)
  <2>1. UNCHANGED <<events, unread, ask, since, told, link>> BY <1>9 DEF Receives
  <2>2. CASE End(j, "waiting", "failed") BY <1>0, <2>1, <2>2, EventsEnd
  <2>3. CASE Move(j, "waiting", AfterReply(j))
    <3> DEFINE to == AfterReply(j)
    <3>1. to \in {"watching", "saving"} /\ (to = "watching" => ask[j].op = "navigate")
      BY DEF AfterReply
    <3>2. stage' = [stage EXCEPT ![j] = to] /\ stage[j] = "waiting" BY <2>3 DEF Move
    <3> HIDE DEF to
    <3> QED BY <2>1, <3>1, <3>2, EventsRest DEF Cleared
  <2> QED BY <1>9, <2>2, <2>3 DEF Receives
<1>10. CASE GivesUp(j) BY <1>0, <1>10, EventsEnd DEF GivesUp
<1>11. CASE Clears(j)
  <2>1. /\ stage[j] = "clearing" /\ stage' = [stage EXCEPT ![j] = "sending"]
        /\ events' = [events EXCEPT ![link[j]] = <<>>] /\ since' = [since EXCEPT ![j] = {}]
        /\ UNCHANGED <<ask, link, told, unread>>
    BY <1>11 DEF Clears, Move
  <2>2. link[j] \in Links /\ told[j] = {} BY <2>1 DEF NewInv, Inv, Connected, Apart, ToldAtTheEnd
  <2>3. Failures(link[j])' = {}
    <3>1. events'[link[j]] = <<>> /\ link'[j] = link[j] BY <2>1, <2>2 DEF NewInv, EventsTyped
    <3>2. DOMAIN events'[link[j]] = {} BY <3>1
    <3> QED BY <3>1, <3>2 DEF Failures, FailuresIn
  <2>5. \A k \in Jobs \ {j} : since'[k] = since[k] /\ stage'[k] = stage[k]
    BY <2>1 DEF NewInv, EventsTyped, Inv, TypeI
  <2>6. EventsTyped' BY <2>1, <2>2, EmptySeq DEF NewInv, EventsTyped
  <2>7. Seen'
    <3> SUFFICES ASSUME NEW k \in Jobs, ask[k].op = "navigate", stage'[k] \in Cleared
                 PROVE  Failures(link[k])' \subseteq since'[k]
      BY <2>1 DEF Seen, Failures
    <3>1. CASE link[k] = link[j] BY <2>1, <2>3, <3>1 DEF Failures
    <3>2. CASE link[k] # link[j]
      <4>1. k # j /\ stage[k] \in Cleared BY <2>5, <3>2
      <4>2. link[k] \in Links BY <4>1 DEF NewInv, Inv, Connected, Cleared, Apart
      <4>3. Failures(link[k]) \subseteq since[k] BY <4>1 DEF NewInv, Seen
      <4>4. Failures(link[k])' = Failures(link[k])
        BY <2>1, <2>2, <3>2, <4>2 DEF Failures, NewInv, EventsTyped
      <4> QED BY <2>5, <4>1, <4>3, <4>4
    <3> QED BY <3>1, <3>2
  <2>8. ToldAtTheEnd' BY <2>1, <2>2, <2>5 DEF NewInv, ToldAtTheEnd
  <2>9. OnlyPagesWatched' BY <2>1, <2>5 DEF NewInv, OnlyPagesWatched, Inv, TypeI
  <2>10. ToldIsRecent' BY <2>1, <2>2, <2>5 DEF NewInv, ToldIsRecent
  <2> QED BY <2>6, <2>7, <2>8, <2>9, <2>10
<1>12. CASE Watches(j)
  <2> DEFINE fails == Failures(link[j])
  <2>1. /\ stage[j] = "watching" /\ told' = [told EXCEPT ![j] = fails]
        /\ \/ fails # {} /\ stage' = [stage EXCEPT ![j] = "done"]
           \/ fails = {} /\ stage' = [stage EXCEPT ![j] = "sending"]
        /\ UNCHANGED <<events, unread, ask, since, link>>
    BY <1>12 DEF Watches, End, Move
  <2>2. fails \subseteq since[j] /\ since[j] \subseteq Jobs
    BY <2>1 DEF NewInv, Seen, OnlyPagesWatched, Cleared, EventsTyped
  <2>3. \A s : Failures(s)' = Failures(s) BY <2>1 DEF Failures
  <2> HIDE DEF fails
  <2>4. \A k \in Jobs \ {j} : told'[k] = told[k] /\ stage'[k] = stage[k]
    BY <2>1 DEF NewInv, EventsTyped, Inv, TypeI
  <2>5. EventsTyped' BY <2>1, <2>2 DEF NewInv, EventsTyped
  <2>6. stage'[j] \in Cleared => stage[j] \in Cleared BY <2>1 DEF Cleared
  <2>7. Seen' BY <2>1, <2>3, <2>4, <2>6 DEF NewInv, Seen
  <2>8. told'[j] = fails /\ (fails # {} => stage'[j] = "done") /\ stage'[j] \notin {"clearing", "watching"}
    BY <2>1 DEF NewInv, EventsTyped, Inv, TypeI
  <2>9. ToldAtTheEnd' BY <2>4, <2>8 DEF NewInv, ToldAtTheEnd
  <2>10. OnlyPagesWatched' BY <2>1, <2>4, <2>8 DEF NewInv, OnlyPagesWatched
  <2>11. ToldIsRecent' BY <2>1, <2>2, <2>4, <2>8 DEF NewInv, ToldIsRecent
  <2> QED BY <2>5, <2>7, <2>9, <2>10, <2>11
<1>13. CASE Looks(j) BY <1>0, <1>13, EventsEnd DEF Looks
<1>14. CASE Tells(j) BY <1>0, <1>14, EventsEnd DEF Tells
<1>15. CASE Inspects(j) BY <1>0, <1>15, EventsEnd DEF Inspects
<1>16. CASE Saves(j) BY <1>0, <1>16, EventsEnd DEF Saves
<1> QED BY <1>1, <1>2, <1>3, <1>4, <1>5, <1>6, <1>7, <1>8, <1>9, <1>10, <1>11, <1>12,
           <1>13, <1>14, <1>15, <1>16 DEF JobStep

LEMMA NextNew ==
  ASSUME NewInv, [BrowserNext]_browserVars
  PROVE  NewInv'
<1> USE DEF links, mail, jobVars, pages, told_of
<1>0. Inv' BY NextKeeps DEF NewInv
<1>1. CASE \E j \in Jobs : JobStep(j) BY <1>0, <1>1, JobEvents DEF NewInv
<1>2. CASE \E j \in Jobs : PageLoads(j) \/ PageFails(j) \/ PageTalks(j)
  <2>1. PICK e \in Event : Reports(e) BY <1>2 DEF PageLoads, PageFails, PageTalks, Event
  <2>2. UNCHANGED <<stage, link, ask, told, since>> BY <1>2 DEF PageLoads, PageFails, PageTalks
  <2>3. unread' \in [Links -> Seq(Event)] /\ events' = events BY <2>1, Sending DEF NewInv
  <2> QED BY <1>0, <2>2, <2>3, EventsStill DEF NewInv
<1>3. CASE \E s \in Links : Files(s) BY <1>0, <1>3, EventsFiled DEF NewInv
<1>4. unread \in [Links -> Seq(Event)] BY DEF NewInv, EventsTyped
<1>5. CASE (\E m \in wire : ChromeAnswers(m)) \/ ChromeListens
  BY <1>0, <1>4, <1>5, EventsStill DEF NewInv, ChromeAnswers, ChromeListens
<1>6. CASE ChromeDies \/ CloseMarks \/ CloseForgets
  BY <1>0, <1>4, <1>6, EventsStill DEF NewInv, ChromeDies, CloseMarks, CloseForgets
<1>7. CASE CloseShuts
  <2>1. unread' = [unread EXCEPT ![button.link] = <<>>] BY <1>7 DEF CloseShuts
  <2>2. unread' \in [Links -> Seq(Event)] BY <1>4, <2>1, EmptySeq
  <2> QED BY <1>0, <1>7, <2>2, EventsStill DEF NewInv, CloseShuts
<1>8. CASE UNCHANGED browserVars BY <1>0, <1>4, <1>8, EventsStill DEF NewInv, browserVars
<1> QED BY <1>1, <1>2, <1>3, <1>5, <1>6, <1>7, <1>8 DEF BrowserNext, ChromeStep

(* A navigation is told of failures its connection has filed since it      *)
(* cleared them, never of one that was on file before (browser.py:199,     *)
(* 211-222).                                                               *)
THEOREM FailuresAreRecent == BrowserSpec => []ToldIsRecent
<1>1. NewInv => ToldIsRecent BY DEF NewInv
<1>2. NewInv /\ [BrowserNext]_browserVars => NewInv' BY NextNew
<1> QED BY InitNew, <1>1, <1>2, PTL DEF BrowserSpec

-----------------------------------------------------------------------------
(* A failed page and what it takes to lose the failure.  A call that waits *)
(* for reports to be switched on has its connection to itself, so the      *)
(* connection of a page keeps its reports; the page's failure is among the *)
(* events of that connection, read or not, unless one of the excuses       *)
(* holds, and they hold for good.                                          *)
Early == {"new", "listing", "launching", "connecting"}

LateAt(st, n) == \/ st \in {"waiting", "watching", "saving", "done"}
                 \/ st \in {"sending", "posting"} /\ n = 2

LinkI ==
  /\ \A j \in Jobs : link[j] # NoLink => next[link[j]] # 0
  /\ session # NoLink => next[session] # 0
  /\ \A j \in Jobs : stage[j] \in Early => link[j] = NoLink
  /\ \A k \in Jobs : stage[k] = "enabling" =>
       session # link[k] /\ \A j \in Jobs \ {k} : link[j] # link[k]

Excused(j) ==
  \/ ~reports[link[j]] \/ closed[link[j]]
  \/ j \in pushed
  \/ \E k \in Jobs \ {j} : ask[k].op = "navigate" /\ link[k] = link[j]

Pages == {None, "loading", "left", "loaded", "failed"}

PageTypeI ==
  /\ closed \in [Links -> BOOLEAN] /\ wired \in [Links -> BOOLEAN] /\ reports \in [Links -> BOOLEAN]
  /\ page \in [Jobs -> Pages]
  /\ button = [at |-> button.at, link |-> button.link]
  /\ missed \subseteq Jobs
  /\ \A s \in Links : Len(events[s]) <= EVENT_BUFFER

Pressed == button.at # "up" => button.link \in Links /\ closed[button.link]

PagesLate ==
  \A j \in Jobs : page[j] # None =>
    ask[j].op = "navigate" /\ link[j] \in Links /\ LateAt(stage[j], nth[j])

LoadsWired == \A j \in Jobs : page[j] \in Unsettled => wired[link[j]] \/ closed[link[j]]

Coming(j) == j \in FailuresIn(unread[link[j]])

FailsKept == \A j \in Jobs : page[j] = "failed" => Excused(j) \/ j \in Failures(link[j]) \/ Coming(j)

MissedFailed == \A j \in missed : page[j] = "failed" /\ Excused(j)

PageI == PageTypeI /\ Pressed /\ PagesLate /\ LoadsWired /\ FailsKept /\ MissedFailed

TellInv == NewInv /\ LinkI /\ PageI

-----------------------------------------------------------------------------
(* Most steps of a call move it on, and only draw a number.                *)
QuietMove(j, to) ==
  /\ stage' = [stage EXCEPT ![j] = to] /\ to # "enabling"
  /\ to \in Early => stage[j] \in Early
  /\ LateAt(stage[j], nth[j]) => LateAt(to, nth[j])
  /\ \A s \in Links : next[s] # 0 => next'[s] # 0
  /\ UNCHANGED <<session, closed, wired, reports, page, unread, events, pushed, link, nth, ask, button,
                 missed>>

(* The others of a call.                                                   *)
LoudMove(j) ==
  \/ ConnectReuses(j) \/ (\E s \in Links : ConnectOpens(j, s)) \/ Enables(j)
  \/ wired[link[j]] /\ Posts(j)
  \/ Clears(j) \/ Watches(j)

LEMMA EndsQuiet ==
  ASSUME NEW j \in Jobs, NEW from, NEW result, End(j, from, result), next' = next,
         UNCHANGED <<session, closed, wired, reports, page, unread, events, pushed, link, nth, ask, button,
                     missed>>
  PROVE  QuietMove(j, "done")
BY DEF End, Move, QuietMove, LateAt, Early

LEMMA JobMoves ==
  ASSUME TellInv, NEW j \in Jobs, JobStep(j), ~LoudMove(j) PROVE \E to : QuietMove(j, to)
<1> USE DEF links, mail, jobVars, pages, told_of
<1>1. CASE BeginCall(j)
  <2>1. CASE End(j, "new", "refused") BY <1>1, <2>1, EndsQuiet DEF BeginCall
  <2>2. CASE \E to \in {"listing", "connecting"} : Move(j, "new", to)
    BY <1>1, <2>2 DEF BeginCall, Move, QuietMove, LateAt, Early
  <2> QED BY <1>1, <2>1, <2>2 DEF BeginCall
<1>2. CASE Launches(j)
  <2>1. CASE \E result : End(j, "listing", result) BY <1>2, <2>1, EndsQuiet DEF Launches
  <2>2. CASE Move(j, "listing", "launching")
    BY <1>2, <2>2 DEF Launches, Move, QuietMove, LateAt, Early
  <2> QED BY <1>2, <2>1, <2>2 DEF Launches
<1>3. CASE LaunchEnds(j) BY <1>3, EndsQuiet DEF LaunchEnds
<1>4. CASE ConnectFails(j) BY <1>4, EndsQuiet DEF ConnectFails
<1>5. CASE Draws(j)
  <2>1. CASE closed[link[j]] BY <1>5, <2>1, EndsQuiet DEF Draws
  <2>2. CASE ~closed[link[j]]
    <3>1. /\ stage[j] = "sending" /\ stage' = [stage EXCEPT ![j] = "posting"]
          /\ next' = [next EXCEPT ![link[j]] = @ + 1]
          /\ UNCHANGED <<session, closed, wired, reports, page, unread, events, pushed, link, nth, ask, button,
                         missed>>
      BY <1>5, <2>2 DEF Draws, Move
    <3>2. link[j] \in Links BY <3>1 DEF TellInv, NewInv, Inv, Connected, Apart
    <3>3. next[link[j]] + 1 # 0 BY <3>2 DEF TellInv, NewInv, Inv, TypeI
    <3>4. \A s \in Links : next[s] # 0 => next'[s] # 0
      BY <3>1, <3>3 DEF TellInv, NewInv, Inv, TypeI
    <3> QED BY <3>1, <3>4 DEF QuietMove, LateAt, Early
  <2> QED BY <2>1, <2>2
<1>6. CASE Posts(j)
  <2>1. ~wired[link[j]] BY <1>6 DEF LoudMove
  <2> QED BY <1>6, <2>1, EndsQuiet DEF Posts
<1>7. CASE Receives(j)
  <2>1. /\ next' = next
        /\ UNCHANGED <<session, closed, wired, reports, page, unread, events, pushed, link, nth, ask, button,
                       missed>>
    BY <1>7 DEF Receives
  <2>2. CASE End(j, "waiting", "failed") BY <2>1, <2>2, EndsQuiet
  <2>3. CASE Move(j, "waiting", AfterReply(j))
    <3> DEFINE to == AfterReply(j)
    <3>1. to \in {"watching", "saving"} BY DEF AfterReply
    <3>2. stage' = [stage EXCEPT ![j] = to] BY <2>3 DEF Move
    <3> HIDE DEF to
    <3> QED BY <2>1, <3>1, <3>2 DEF QuietMove, LateAt, Early
  <2> QED BY <1>7, <2>2, <2>3 DEF Receives
<1>8. CASE GivesUp(j) BY <1>8, EndsQuiet DEF GivesUp
<1>9. CASE Looks(j) BY <1>9, EndsQuiet DEF Looks
<1>10. CASE Tells(j) BY <1>10, EndsQuiet DEF Tells
<1>11. CASE Inspects(j) BY <1>11, EndsQuiet DEF Inspects
<1>12. CASE Saves(j) BY <1>12, EndsQuiet DEF Saves
<1> QED BY <1>1, <1>2, <1>3, <1>4, <1>5, <1>6, <1>7, <1>8, <1>9, <1>10, <1>11, <1>12
        DEF JobStep, LoudMove

(* Steps that are nobody's call.                                           *)
OtherStep == ChromeStep \/ CloseMarks \/ CloseShuts \/ CloseForgets \/ UNCHANGED browserVars

LEMMA StepKinds ==
  ASSUME TellInv, [BrowserNext]_browserVars
  PROVE  \/ \E j \in Jobs : LoudMove(j) \/ \E to : QuietMove(j, to)
         \/ OtherStep
BY JobMoves DEF BrowserNext, OtherStep

LEMMA OthersRest ==
  ASSUME OtherStep
  PROVE  /\ UNCHANGED <<stage, link, ask, nth, next, reports, missed>>
         /\ session' \in {session, NoLink}
BY DEF OtherStep, ChromeStep, ChromeAnswers, PageLoads, PageFails, PageTalks, Files, ChromeListens,
       ChromeDies, CloseMarks, CloseShuts, CloseForgets, browserVars, links, mail, jobVars, told_of

-----------------------------------------------------------------------------
(* Connections.                                                            *)
LEMMA InitLink == BrowserInit => LinkI
BY DEF BrowserInit, LinkI

LEMMA LinkKeeps == ASSUME TellInv, [BrowserNext]_browserVars PROVE LinkI'
<1> USE DEF links, mail, jobVars, pages, told_of
<1>1. ASSUME NEW j \in Jobs, NEW to, stage' = [stage EXCEPT ![j] = to], to # "enabling",
             to \in Early => stage[j] \in Early,
             \A s \in Links : next[s] # 0 => next'[s] # 0,
             UNCHANGED <<session, link>>
      PROVE  LinkI'
  <2>1. stage'[j] = to /\ \A k \in Jobs \ {j} : stage'[k] = stage[k]
    BY <1>1 DEF TellInv, NewInv, Inv, TypeI
  <2>2. \A k \in Jobs : link[k] \in Links \cup {NoLink} BY DEF TellInv, NewInv, Inv, TypeI
  <2>3. session \in Links \cup {NoLink} BY DEF TellInv, NewInv, Inv, TypeI
  <2> QED BY <1>1, <2>1, <2>2, <2>3 DEF TellInv, LinkI
<1>2. ASSUME NEW j \in Jobs, NEW to, QuietMove(j, to) PROVE LinkI'
  BY <1>1, <1>2 DEF QuietMove
<1>3. ASSUME NEW j \in Jobs, Posts(j) \/ Clears(j) \/ Watches(j) PROVE LinkI'
  <2>1. PICK to \in {"waiting", "sending", "done"} :
          stage' = [stage EXCEPT ![j] = to] /\ UNCHANGED <<session, link, next>>
    BY <1>3 DEF Posts, Clears, Watches, Move, End
  <2> QED BY <1>1, <2>1 DEF Early
<1>4. ASSUME NEW j \in Jobs, ConnectReuses(j) PROVE LinkI'
  <2> DEFINE to == AfterConnect(ask[j].op)
  <2>1. to \notin Early \cup {"enabling"} BY DEF AfterConnect, Early
  <2>2. /\ stage' = [stage EXCEPT ![j] = to] /\ link' = [link EXCEPT ![j] = session]
        /\ UNCHANGED <<session, next>> /\ session # NoLink
    BY <1>4 DEF ConnectReuses, Move, Usable
  <2> HIDE DEF to
  <2>3. /\ stage'[j] = to /\ link'[j] = session
        /\ \A k \in Jobs \ {j} : stage'[k] = stage[k] /\ link'[k] = link[k]
    BY <2>2 DEF TellInv, NewInv, Inv, TypeI
  <2> QED BY <2>1, <2>2, <2>3 DEF TellInv, LinkI
<1>5. ASSUME NEW j \in Jobs, NEW s \in Links, ConnectOpens(j, s) PROVE LinkI'
  <2>1. /\ stage' = [stage EXCEPT ![j] = "enabling"] /\ link' = [link EXCEPT ![j] = s]
        /\ next' = [next EXCEPT ![s] = 1] /\ next[s] = 0 /\ session' = session
    BY <1>5 DEF ConnectOpens, Move, Unmade
  <2>2. /\ stage'[j] = "enabling" /\ link'[j] = s
        /\ \A k \in Jobs \ {j} : stage'[k] = stage[k] /\ link'[k] = link[k]
        /\ next'[s] = 1 /\ \A t \in Links \ {s} : next'[t] = next[t]
    BY <2>1 DEF TellInv, NewInv, Inv, TypeI
  <2>3. s # NoLink BY DEF Links, NoLink
  <2>4. /\ session # s /\ session \in Links \cup {NoLink}
        /\ \A k \in Jobs : link[k] # s /\ link[k] \in Links \cup {NoLink}
    BY <2>1, <2>3 DEF TellInv, LinkI, NewInv, Inv, TypeI
  <2> QED BY <2>1, <2>2, <2>3, <2>4 DEF TellInv, LinkI, Early
<1>6. ASSUME NEW j \in Jobs, Enables(j) PROVE LinkI'
  <2> DEFINE to == AfterConnect(ask[j].op)
  <2>1. to \notin Early \cup {"enabling"} BY DEF AfterConnect, Early
  <2>2. /\ stage[j] = "enabling" /\ stage' = [stage EXCEPT ![j] = to]
        /\ session' = link[j] /\ UNCHANGED <<link, next>>
    BY <1>6 DEF Enables, Move
  <2> HIDE DEF to
  <2>3. stage'[j] = to /\ \A k \in Jobs \ {j} : stage'[k] = stage[k]
    BY <2>2 DEF TellInv, NewInv, Inv, TypeI
  <2> QED BY <2>1, <2>2, <2>3 DEF TellInv, LinkI
<1>7. CASE OtherStep
  <2>1. UNCHANGED <<stage, link, next>> /\ session' \in {session, NoLink} BY <1>7, OthersRest
  <2>2. \A k \in Jobs : stage[k] = "enabling" => link[k] # NoLink
    <3>1. NoLink \notin Links BY DEF Links, NoLink
    <3> QED BY <3>1 DEF TellInv, NewInv, Inv, Connected, Apart
  <2> QED BY <2>1, <2>2 DEF TellInv, LinkI
<1> QED BY <1>2, <1>3, <1>4, <1>5, <1>6, <1>7, StepKinds DEF LoudMove
-----------------------------------------------------------------------------
(* What stays: a page's connection, its reports, and an excuse.            *)
LEMMA PageStays ==
  ASSUME TellInv, [BrowserNext]_browserVars
  PROVE  /\ ask' = ask /\ pushed \subseteq pushed'
         /\ \A s \in Links : closed[s] => closed'[s]
         /\ \A j \in Jobs : link[j] # NoLink => link'[j] = link[j]
         /\ \A j \in Jobs : LateAt(stage[j], nth[j]) => LateAt(stage'[j], nth'[j])
<1> USE DEF links, mail, jobVars, pages, told_of
<1>1. ASSUME NEW j \in Jobs, NEW to, QuietMove(j, to)
      PROVE  /\ ask' = ask /\ pushed \subseteq pushed' /\ closed' = closed /\ link' = link
             /\ \A k \in Jobs : LateAt(stage[k], nth[k]) => LateAt(stage'[k], nth'[k])
  <2>1. stage'[j] = to /\ \A k \in Jobs \ {j} : stage'[k] = stage[k]
    BY <1>1 DEF QuietMove, TellInv, NewInv, Inv, TypeI
  <2> QED BY <1>1, <2>1 DEF QuietMove
<1>2. ASSUME NEW j \in Jobs, NEW from, NEW to, Move(j, from, to), ~LateAt(from, nth[j]), nth' = nth
      PROVE  \A k \in Jobs : LateAt(stage[k], nth[k]) => LateAt(stage'[k], nth'[k])
  BY <1>2 DEF Move, TellInv, NewInv, Inv, TypeI
<1>3. ASSUME NEW j \in Jobs, ConnectReuses(j) \/ \E s \in Links : ConnectOpens(j, s)
      PROVE  /\ ask' = ask /\ pushed \subseteq pushed' /\ closed' = closed
             /\ \A k \in Jobs : link[k] # NoLink => link'[k] = link[k]
             /\ \A k \in Jobs : LateAt(stage[k], nth[k]) => LateAt(stage'[k], nth'[k])
  <2>1. /\ ask' = ask /\ pushed \subseteq pushed' /\ closed' = closed /\ nth' = nth
        /\ stage[j] = "connecting" /\ \E to : Move(j, "connecting", to)
        /\ \E s : link' = [link EXCEPT ![j] = s]
    BY <1>3 DEF ConnectReuses, ConnectOpens, Move
  <2>2. link[j] = NoLink BY <2>1 DEF TellInv, LinkI, Early
  <2>3. ~LateAt("connecting", nth[j]) BY DEF LateAt
  <2>4. \A k \in Jobs : link[k] # NoLink => link'[k] = link[k]
    BY <2>1, <2>2 DEF TellInv, NewInv, Inv, TypeI
  <2> QED BY <1>2, <2>1, <2>3, <2>4
<1>4. ASSUME NEW j \in Jobs, Enables(j) \/ Clears(j)
      PROVE  /\ ask' = ask /\ pushed \subseteq pushed' /\ closed' = closed /\ link' = link
             /\ \A k \in Jobs : LateAt(stage[k], nth[k]) => LateAt(stage'[k], nth'[k])
  <2>1. PICK from \in {"enabling", "clearing"} : \E to : Move(j, from, to)
    BY <1>4 DEF Enables, Clears
  <2>2. ~LateAt(from, nth[j]) BY DEF LateAt
  <2>3. ask' = ask /\ pushed' = pushed /\ closed' = closed /\ link' = link /\ nth' = nth
    BY <1>4 DEF Enables, Clears
  <2> QED BY <1>2, <2>1, <2>2, <2>3
<1>5. ASSUME NEW j \in Jobs, Posts(j) \/ Watches(j)
      PROVE  /\ ask' = ask /\ pushed \subseteq pushed' /\ closed' = closed /\ link' = link
             /\ \A k \in Jobs : LateAt(stage[k], nth[k]) => LateAt(stage'[k], nth'[k])
  <2>1. /\ ask' = ask /\ pushed' = pushed /\ closed' = closed /\ link' = link
        /\ \A k \in Jobs \ {j} : nth'[k] = nth[k]
        /\ \/ stage' = [stage EXCEPT ![j] = "waiting"]
           \/ stage' = [stage EXCEPT ![j] = "done"]
           \/ stage' = [stage EXCEPT ![j] = "sending"] /\ nth' = [nth EXCEPT ![j] = 2]
    BY <1>5 DEF Posts, Watches, Move, End, TellInv, NewInv, Inv, TypeI
  <2> QED BY <2>1 DEF LateAt, TellInv, NewInv, Inv, TypeI
<1>6. ASSUME OtherStep
      PROVE  /\ ask' = ask /\ pushed \subseteq pushed'
             /\ \A s \in Links : closed[s] => closed'[s]
             /\ UNCHANGED <<link, stage, nth>>
  <2>1. UNCHANGED <<link, stage, nth, ask>> BY <1>6, OthersRest
  <2>2. pushed \subseteq pushed'
    BY <1>6 DEF OtherStep, ChromeStep, ChromeAnswers, PageLoads, PageFails, PageTalks, Reports, Files,
                ChromeListens, ChromeDies, CloseMarks, CloseShuts, CloseForgets, browserVars
  <2>3. \A s \in Links : closed[s] => closed'[s]
    <3>1. CASE CloseMarks
      <4>1. closed' = [closed EXCEPT ![session] = TRUE] BY <3>1 DEF CloseMarks
      <4> QED BY <4>1 DEF TellInv, PageI, PageTypeI
    <3>2. CASE ~CloseMarks
      <4>1. closed' = closed
        BY <1>6, <3>2 DEF OtherStep, ChromeStep, ChromeAnswers, PageLoads, PageFails, PageTalks,
                          Files, ChromeListens, ChromeDies, CloseShuts, CloseForgets, browserVars
      <4> QED BY <4>1
    <3> QED BY <3>1, <3>2
  <2> QED BY <2>1, <2>2, <2>3
<1>7. CASE \E j \in Jobs : \E to : QuietMove(j, to) BY <1>1, <1>7
<1>8. CASE \E j \in Jobs : LoudMove(j) BY <1>3, <1>4, <1>5, <1>8 DEF LoudMove
<1>9. CASE OtherStep BY <1>6, <1>9
<1> QED BY <1>7, <1>8, <1>9, StepKinds

LEMMA ReportsStay ==
  ASSUME TellInv, [BrowserNext]_browserVars, NEW j \in Jobs, page[j] # None
  PROVE  reports'[link[j]] = reports[link[j]]
<1> USE DEF links, mail, jobVars, pages, told_of
<1>1. link[j] \in Links /\ stage[j] # "enabling" BY DEF TellInv, PageI, PagesLate, LateAt
<1>2. ASSUME NEW k \in Jobs, Enables(k) PROVE reports'[link[j]] = reports[link[j]]
  <2>1. /\ stage[k] = "enabling"
        /\ \E on \in BOOLEAN : reports' = [reports EXCEPT ![link[k]] = on]
    BY <1>2 DEF Enables, Move
  <2>2. link[k] # link[j] BY <1>1, <2>1 DEF TellInv, LinkI
  <2> QED BY <1>1, <2>1, <2>2 DEF TellInv, PageI, PageTypeI
<1>3. ASSUME NEW k \in Jobs, LoudMove(k), ~Enables(k) PROVE reports' = reports
  BY <1>3 DEF LoudMove, ConnectReuses, ConnectOpens, Posts, Clears, Watches
<1>4. CASE OtherStep BY <1>4, OthersRest
<1> QED BY <1>2, <1>3, <1>4, StepKinds DEF QuietMove

LEMMA ExcuseStays ==
  ASSUME TellInv, [BrowserNext]_browserVars, NEW j \in Jobs, page[j] # None, Excused(j)
  PROVE  Excused(j)'
<1>1. link[j] \in Links /\ link[j] # NoLink BY DEF TellInv, PageI, PagesLate, Links, NoLink
<1>2. /\ ask' = ask /\ pushed \subseteq pushed' /\ link'[j] = link[j]
      /\ closed[link[j]] => closed'[link[j]]
      /\ \A k \in Jobs : link[k] = link[j] => link'[k] = link[j]
  BY <1>1, PageStays
<1>3. reports'[link[j]] = reports[link[j]] BY ReportsStay
<1> QED BY <1>2, <1>3 DEF Excused

-----------------------------------------------------------------------------
(* The events: one is filed, or another call's clearing takes them all.    *)
LEMMA FiledStays ==
  ASSUME EventsTyped, NEW s \in Links, NEW e \in Event, Len(events[s]) <= EVENT_BUFFER
  PROVE  /\ Len(Filed(s, e)) <= EVENT_BUFFER
         /\ \A b \in Failures(s) :
              b \in FailuresIn(Filed(s, e)) \/ (Len(events[s]) = EVENT_BUFFER /\ b = Head(events[s]).by)
         /\ e.kind = "failed" => e.by \in FailuresIn(Filed(s, e))
<1>0. PICK q : q = Filed(s, e) OBVIOUS
<1>1. events[s] \in Seq(Event) /\ EVENT_BUFFER \in Nat \ {0} BY BufferAssumption DEF EventsTyped
<1>2. CASE Len(events[s]) < EVENT_BUFFER
  <2>1. q = Append(events[s], e) BY <1>0, <1>2 DEF Filed
  <2>2. /\ Len(q) = Len(events[s]) + 1 /\ q[Len(events[s]) + 1] = e
        /\ Len(events[s]) + 1 \in DOMAIN q
        /\ \A i \in DOMAIN events[s] : i \in DOMAIN q /\ q[i] = events[s][i]
    BY <1>1, <2>1
  <2>3. Len(q) <= EVENT_BUFFER BY <1>1, <1>2, <2>2
  <2>4. \A b \in Failures(s) : b \in FailuresIn(q) BY <2>2 DEF Failures, FailuresIn
  <2>5. e.kind = "failed" => e.by \in FailuresIn(q) BY <2>2 DEF FailuresIn
  <2> QED BY <1>0, <2>3, <2>4, <2>5
<1>3. CASE ~(Len(events[s]) < EVENT_BUFFER)
  <2> DEFINE t == Tail(events[s])
  <2>1. Len(events[s]) = EVENT_BUFFER /\ events[s] # <<>> BY <1>1, <1>3
  <2>2. q = Append(t, e) BY <1>0, <1>3 DEF Filed
  <2>3. /\ t \in Seq(Event) /\ Len(t) = Len(events[s]) - 1
        /\ \A i \in DOMAIN t : t[i] = events[s][i + 1]
    BY <1>1, <2>1
  <2> HIDE DEF t
  <2>4. /\ Len(q) = Len(t) + 1 /\ q[Len(t) + 1] = e
        /\ Len(t) + 1 \in DOMAIN q
        /\ \A i \in DOMAIN t : i \in DOMAIN q /\ q[i] = t[i]
    BY <2>2, <2>3
  <2>5. Len(q) <= EVENT_BUFFER BY <1>1, <2>1, <2>3, <2>4
  <2>6. e.kind = "failed" => e.by \in FailuresIn(q) BY <2>4 DEF FailuresIn
  <2>7. ASSUME NEW b \in Failures(s) PROVE b \in FailuresIn(q) \/ b = Head(events[s]).by
    <3>1. PICK i \in DOMAIN events[s] : events[s][i].kind = "failed" /\ b = events[s][i].by
      BY <2>7 DEF Failures, FailuresIn
    <3>2. CASE i = 1
      <4>1. Head(events[s]) = events[s][1] BY <1>1, <2>1
      <4> QED BY <3>1, <3>2, <4>1
    <3>3. CASE i # 1
      <4>1. i - 1 \in DOMAIN t /\ (i - 1) + 1 = i BY <1>1, <2>3, <3>3
      <4>2. t[i - 1] = events[s][i] BY <2>3, <4>1
      <4>3. i - 1 \in DOMAIN q /\ q[i - 1] = events[s][i] BY <2>4, <4>1, <4>2
      <4> QED BY <3>1, <4>3 DEF FailuresIn
    <3> QED BY <3>2, <3>3
  <2> QED BY <1>0, <2>1, <2>5, <2>6, <2>7
<1> QED BY <1>2, <1>3

(* What a step may do to the events.                                       *)
LEMMA EventsMove ==
  ASSUME TellInv, [BrowserNext]_browserVars
  PROVE  \/ UNCHANGED <<events, unread>>
         \/ events' = events /\ \E e \in Event : Reports(e)
         \/ \E s \in Links : Files(s)
         \/ events' = events /\ CloseShuts
         \/ \E k \in Jobs : Clears(k)
<1> USE DEF links, mail, jobVars, pages, told_of
<1>1. ASSUME NEW j \in Jobs, LoudMove(j), ~Clears(j) PROVE UNCHANGED <<events, unread>>
  BY <1>1 DEF LoudMove, ConnectReuses, ConnectOpens, Enables, Posts, Watches
<1>2. CASE \E j \in Jobs : PageLoads(j) \/ PageFails(j) \/ PageTalks(j)
  <2>1. PICK e \in Event : Reports(e) BY <1>2 DEF PageLoads, PageFails, PageTalks, Event
  <2> QED BY <2>1 DEF Reports
<1>3. CASE CloseShuts BY <1>3 DEF CloseShuts
<1>4. CASE /\ OtherStep /\ ~(\E j \in Jobs : PageLoads(j) \/ PageFails(j) \/ PageTalks(j))
           /\ ~(\E s \in Links : Files(s)) /\ ~CloseShuts
  BY <1>4 DEF OtherStep, ChromeStep, ChromeAnswers, ChromeListens, ChromeDies, CloseMarks,
              CloseForgets, browserVars
<1> QED BY <1>1, <1>2, <1>3, <1>4, StepKinds DEF QuietMove

(* A failure that is sent or filed stays so, or there is an excuse.        *)
LEMMA FailureStays ==
  ASSUME TellInv, [BrowserNext]_browserVars, NEW j \in Jobs, page[j] # None,
         j \in Failures(link[j]) \/ Coming(j)
  PROVE  Excused(j)' \/ j \in Failures(link[j])' \/ Coming(j)'
<1> DEFINE s == link[j]
<1>0. s \in Links /\ s # NoLink BY DEF TellInv, PageI, PagesLate, Links, NoLink
<1>1. link'[j] = s BY <1>0, PageStays
<1>2. EventsTyped /\ Len(events[s]) <= EVENT_BUFFER BY <1>0 DEF TellInv, NewInv, PageI, PageTypeI
<1> HIDE DEF s
<1>3. SUFFICES ASSUME j \in FailuresIn(events[s]) \/ j \in FailuresIn(unread[s])
               PROVE  Excused(j)' \/ j \in FailuresIn(events'[s]) \/ j \in FailuresIn(unread'[s])
  BY <1>1 DEF s, Failures, Coming
<1>4. CASE UNCHANGED <<events, unread>> BY <1>3, <1>4
<1>5. ASSUME NEW e \in Event, Reports(e), events' = events
      PROVE  j \in FailuresIn(events'[s]) \/ j \in FailuresIn(unread'[s])
  <2>1. FailuresIn(unread[s]) \subseteq FailuresIn(unread'[s]) BY <1>0, <1>2, <1>5, Sending
  <2> QED BY <1>3, <1>5, <2>1
<1>6. ASSUME NEW r \in Links, Files(r)
      PROVE  Excused(j)' \/ j \in FailuresIn(events'[s]) \/ j \in FailuresIn(unread'[s])
  <2>1. /\ unread' = [unread EXCEPT ![r] = Tail(@)]
        /\ events' = [events EXCEPT ![r] = Filed(r, Head(unread[r]))]
        /\ pushed' = IF Len(events[r]) = EVENT_BUFFER THEN pushed \cup {Head(events[r]).by} ELSE pushed
        /\ unread[r] # <<>>
    BY <1>6 DEF Files
  <2>2. CASE r # s
    <3>1. events'[s] = events[s] /\ unread'[s] = unread[s]
      BY <1>0, <1>2, <2>1, <2>2 DEF EventsTyped
    <3> QED BY <1>3, <3>1
  <2>3. CASE r = s
    <3> DEFINE e == Head(unread[s])
    <3>1. /\ e \in Event
          /\ \A b \in FailuresIn(unread[s]) :
               b \in FailuresIn(Tail(unread[s])) \/ (e.kind = "failed" /\ e.by = b)
      BY <1>0, <1>2, <2>1, <2>3, Reading
    <3>2. events'[s] = Filed(s, e) /\ unread'[s] = Tail(unread[s])
      BY <1>0, <1>2, <2>1, <2>3 DEF EventsTyped
    <3>3. Len(events[s]) = EVENT_BUFFER => Head(events[s]).by \in pushed' BY <2>1, <2>3
    <3> HIDE DEF e
    <3>4. /\ \A b \in Failures(s) :
              b \in FailuresIn(Filed(s, e)) \/ (Len(events[s]) = EVENT_BUFFER /\ b = Head(events[s]).by)
          /\ e.kind = "failed" => e.by \in FailuresIn(Filed(s, e))
      BY <1>0, <1>2, <3>1, FiledStays
    <3>5. CASE j \in FailuresIn(unread[s]) BY <3>1, <3>2, <3>4, <3>5
    <3>6. CASE j \in FailuresIn(events[s])
      <4>1. j \in Failures(s) BY <3>6 DEF Failures
      <4>2. j \in FailuresIn(events'[s]) \/ j \in pushed' BY <3>2, <3>3, <3>4, <4>1
      <4> QED BY <4>2 DEF Excused
    <3> QED BY <1>3, <3>5, <3>6
  <2> QED BY <2>2, <2>3
<1>7. ASSUME CloseShuts, events' = events
      PROVE  Excused(j)' \/ j \in FailuresIn(events'[s]) \/ j \in FailuresIn(unread'[s])
  <2>1. /\ button.at = "marked" /\ unread' = [unread EXCEPT ![button.link] = <<>>]
        /\ closed' = closed
    BY <1>7 DEF CloseShuts
  <2>2. closed[button.link] BY <2>1 DEF TellInv, PageI, Pressed
  <2>3. CASE button.link = s BY <1>1, <2>1, <2>2, <2>3 DEF Excused
  <2>4. CASE button.link # s
    <3>1. unread'[s] = unread[s] BY <1>0, <1>2, <2>1, <2>4 DEF EventsTyped
    <3> QED BY <1>3, <1>7, <3>1
  <2> QED BY <2>3, <2>4
<1>8. ASSUME NEW k \in Jobs, Clears(k)
      PROVE  Excused(j)' \/ j \in FailuresIn(events'[s]) \/ j \in FailuresIn(unread'[s])
  <2>1. /\ stage[k] = "clearing" /\ events' = [events EXCEPT ![link[k]] = <<>>]
        /\ UNCHANGED <<link, ask, unread>>
    BY <1>8 DEF Clears, Move, jobVars
  <2>2. k # j BY <2>1 DEF TellInv, PageI, PagesLate, LateAt
  <2>3. ask[k].op = "navigate" BY <2>1 DEF TellInv, NewInv, OnlyPagesWatched
  <2>4. CASE link[k] = s BY <2>1, <2>2, <2>3, <2>4 DEF Excused, s
  <2>5. CASE link[k] # s
    <3>1. events'[s] = events[s] BY <1>0, <1>2, <2>1, <2>5 DEF EventsTyped
    <3> QED BY <1>3, <2>1, <3>1
  <2> QED BY <2>4, <2>5
<1> QED BY <1>4, <1>5, <1>6, <1>7, <1>8, EventsMove

-----------------------------------------------------------------------------
(* The pages: one begins to load when its command is posted, and ends.     *)
(* What a step may do to the pages, as a whole.                            *)
LEMMA PageKinds ==
  ASSUME TellInv, [BrowserNext]_browserVars
  PROVE  \/ page' = page
         \/ page' = [j \in Jobs |-> IF page[j] \in Unsettled THEN None ELSE page[j]]
         \/ \E j \in Jobs : page[j] = "loading" /\ page' = [page EXCEPT ![j] = "loaded"]
         \/ \E j \in Jobs : PageFails(j) /\ page' = [page EXCEPT ![j] = "failed"]
         \/ \E j \in Jobs, gone \in SUBSET Loading :
              /\ wired[link[j]] /\ Posts(j) /\ ask[j].op = "navigate"
              /\ page' = [k \in Jobs |-> IF k = j THEN "loading"
                                        ELSE IF k \in gone THEN "left" ELSE page[k]]
<1>1. ASSUME NEW j \in Jobs, LoudMove(j), ~Posts(j) PROVE page' = page
  BY <1>1 DEF LoudMove, ConnectReuses, ConnectOpens, Enables, Clears, Watches, pages
<1>2. ASSUME NEW j \in Jobs, Posts(j)
      PROVE  \/ page' = page
             \/ /\ wired[link[j]] /\ ask[j].op = "navigate"
                /\ \E gone \in SUBSET Loading :
                     page' = [k \in Jobs |-> IF k = j THEN "loading"
                                            ELSE IF k \in gone THEN "left" ELSE page[k]]
  BY <1>2 DEF Posts
<1>3. CASE \E j \in Jobs : PageLoads(j) BY <1>3 DEF PageLoads
<1>4. CASE \E j \in Jobs : PageFails(j)
  <2>1. PICK j \in Jobs : PageFails(j) BY <1>4
  <2>2. page' = [page EXCEPT ![j] = "failed"] BY <2>1 DEF PageFails
  <2> QED BY <2>1, <2>2
<1>5. CASE ChromeDies BY <1>5 DEF ChromeDies
<1>6. CASE OtherStep /\ ~ChromeDies /\ ~(\E j \in Jobs : PageLoads(j) \/ PageFails(j))
  BY <1>6 DEF OtherStep, ChromeStep, ChromeAnswers, PageTalks, Files, ChromeListens, CloseMarks,
              CloseShuts, CloseForgets, browserVars, pages
<1>7. CASE \E j \in Jobs : LoudMove(j) BY <1>1, <1>2, <1>7
<1>8. CASE \E j \in Jobs : \E to : QuietMove(j, to) BY <1>8 DEF QuietMove
<1> QED BY <1>3, <1>4, <1>5, <1>6, <1>7, <1>8, StepKinds

LEMMA PageMoves ==
  ASSUME TellInv, [BrowserNext]_browserVars
  PROVE  /\ page' \in [Jobs -> Pages]
         /\ \A j \in Jobs : \/ page'[j] = page[j]
                            \/ page[j] \in Unsettled /\ page'[j] \in {None, "loaded", "left"}
                            \/ PageFails(j)
                            \/ /\ page'[j] = "loading" /\ wired[link[j]] /\ Posts(j)
                               /\ ask[j].op = "navigate"
<1>0. page \in [Jobs -> Pages] BY DEF TellInv, PageI, PageTypeI
<1>1. CASE page' = page BY <1>0, <1>1
<1>2. CASE page' = [j \in Jobs |-> IF page[j] \in Unsettled THEN None ELSE page[j]]
  <2>1. page' \in [Jobs -> Pages] BY <1>0, <1>2 DEF Pages
  <2>2. \A j \in Jobs : page'[j] = page[j] \/ (page[j] \in Unsettled /\ page'[j] = None)
    BY <1>2
  <2> QED BY <2>1, <2>2
<1>3. ASSUME NEW k \in Jobs, NEW x \in Pages, page' = [page EXCEPT ![k] = x]
      PROVE  /\ page' \in [Jobs -> Pages] /\ page'[k] = x
             /\ \A j \in Jobs \ {k} : page'[j] = page[j]
  BY <1>0, <1>3
<1>4. {"loading", "left", "loaded", "failed"} \subseteq Pages /\ "loading" \in Unsettled
  BY DEF Pages, Unsettled
<1>5. CASE \E k \in Jobs : page[k] = "loading" /\ page' = [page EXCEPT ![k] = "loaded"]
  BY <1>3, <1>4, <1>5
<1>6. CASE \E k \in Jobs : PageFails(k) /\ page' = [page EXCEPT ![k] = "failed"]
  BY <1>3, <1>4, <1>6
<1>7. ASSUME NEW k \in Jobs, NEW gone \in SUBSET Loading,
             wired[link[k]], Posts(k), ask[k].op = "navigate",
             page' = [j \in Jobs |-> IF j = k THEN "loading" ELSE IF j \in gone THEN "left" ELSE page[j]]
      PROVE  /\ page' \in [Jobs -> Pages]
             /\ \A j \in Jobs : \/ page'[j] = page[j]
                                \/ page[j] \in Unsettled /\ page'[j] = "left"
                                \/ page'[j] = "loading" /\ j = k
  <2>1. \A j \in gone : page[j] \in Unsettled BY <1>4 DEF Loading
  <2> QED BY <1>0, <1>4, <1>7, <2>1
<1> QED BY <1>1, <1>2, <1>5, <1>6, <1>7, PageKinds

LEMMA PagesStayLate == ASSUME TellInv, [BrowserNext]_browserVars PROVE PagesLate'
<1> SUFFICES ASSUME NEW j \in Jobs, page'[j] # None
             PROVE  ask'[j].op = "navigate" /\ link'[j] \in Links /\ LateAt(stage'[j], nth'[j])
  BY DEF PagesLate
<1>1. CASE page[j] # None
  <2>1. ask[j].op = "navigate" /\ link[j] \in Links /\ link[j] # NoLink /\ LateAt(stage[j], nth[j])
    BY <1>1 DEF TellInv, PageI, PagesLate, Links, NoLink
  <2> QED BY <2>1, PageStays
<1>2. CASE page[j] = None
  <2>1. ~PageFails(j) /\ page[j] \notin Unsettled BY <1>2 DEF PageFails, Unsettled, None
  <2>2. wired[link[j]] /\ Posts(j) /\ ask[j].op = "navigate" BY <1>2, <2>1, PageMoves
  <2>3. /\ stage[j] = "posting" /\ stage' = [stage EXCEPT ![j] = "waiting"]
        /\ UNCHANGED <<link, ask>>
    BY <2>2 DEF Posts, Move, jobVars
  <2>4. link[j] \in Links BY <2>3 DEF TellInv, NewInv, Inv, Connected, Apart
  <2> QED BY <2>2, <2>3, <2>4 DEF LateAt, TellInv, NewInv, Inv, TypeI
<1> QED BY <1>1, <1>2

(* The sockets.                                                            *)
LEMMA WiresMove ==
  ASSUME TellInv, [BrowserNext]_browserVars
  PROVE  /\ closed' \in [Links -> BOOLEAN] /\ wired' \in [Links -> BOOLEAN]
         /\ reports' \in [Links -> BOOLEAN]
         /\ button' = [at |-> button'.at, link |-> button'.link]
         /\ Pressed'
         /\ \A s \in Links : wired[s] => \/ wired'[s] \/ closed'[s]
                                         \/ ChromeDies
<1> USE DEF links, mail, jobVars, pages, told_of
<1>0. /\ closed \in [Links -> BOOLEAN] /\ wired \in [Links -> BOOLEAN] /\ reports \in [Links -> BOOLEAN]
      /\ button = [at |-> button.at, link |-> button.link] /\ Pressed
  BY DEF TellInv, PageI, PageTypeI
<1>1. ASSUME UNCHANGED <<closed, wired, reports, button>> PROVE Pressed'
  BY <1>0, <1>1 DEF Pressed
<1>2. CASE UNCHANGED <<closed, wired, reports, button>> BY <1>0, <1>1, <1>2
<1>3. ASSUME NEW j \in Jobs, LoudMove(j)
      PROVE  /\ UNCHANGED <<closed, button>>
             /\ wired' = wired \/ \E s \in Links : wired' = [wired EXCEPT ![s] = TRUE]
             /\ reports' = reports \/ \E s : \E on \in BOOLEAN : reports' = [reports EXCEPT ![s] = on]
  <2>1. CASE ConnectReuses(j) BY <2>1 DEF ConnectReuses
  <2>2. CASE \E s \in Links : ConnectOpens(j, s) BY <2>2 DEF ConnectOpens
  <2>3. CASE Enables(j)
    <3>1. link[j] \in Links \cup {NoLink} BY DEF TellInv, NewInv, Inv, TypeI
    <3> QED BY <2>3, <3>1 DEF Enables
  <2>4. CASE Posts(j) \/ Clears(j) \/ Watches(j) BY <2>4 DEF Posts, Clears, Watches
  <2> QED BY <1>3, <2>1, <2>2, <2>3, <2>4 DEF LoudMove
<1>4. CASE \E j \in Jobs : LoudMove(j)
  <2>1. PICK j \in Jobs : LoudMove(j) BY <1>4
  <2>2. closed' = closed /\ button' = button BY <1>3, <2>1
  <2>3. Pressed' BY <1>0, <2>2 DEF Pressed
  <2>4. wired' \in [Links -> BOOLEAN] /\ \A s \in Links : wired[s] => wired'[s]
    BY <1>0, <1>3, <2>1
  <2>5. reports' \in [Links -> BOOLEAN] BY <1>0, <1>3, <2>1
  <2> QED BY <1>0, <2>2, <2>3, <2>4, <2>5
<1>5. CASE CloseMarks
  <2>1. /\ button' = [at |-> "marked", link |-> session] /\ session # NoLink
        /\ closed' = [closed EXCEPT ![session] = TRUE]
        /\ UNCHANGED <<wired, reports>>
    BY <1>5 DEF CloseMarks
  <2>2. session \in Links BY <2>1 DEF TellInv, NewInv, Inv, TypeI
  <2>3. Pressed' BY <1>0, <2>1, <2>2 DEF Pressed
  <2> QED BY <1>0, <2>1, <2>2, <2>3
<1>6. CASE CloseShuts
  <2>1. /\ button.at = "marked" /\ button' = [button EXCEPT !.at = "shut"]
        /\ wired' = [wired EXCEPT ![button.link] = FALSE]
        /\ UNCHANGED <<closed, reports>>
    BY <1>6 DEF CloseShuts
  <2>2. closed[button.link] /\ button.link \in Links BY <1>0, <2>1 DEF Pressed
  <2>3. button' = [at |-> "shut", link |-> button.link] BY <1>0, <2>1
  <2>4. Pressed' BY <2>1, <2>2, <2>3 DEF Pressed
  <2> QED BY <1>0, <2>1, <2>2, <2>3, <2>4
<1>7. CASE CloseForgets
  <2>1. /\ button' = [at |-> "up", link |-> NoLink] /\ UNCHANGED <<closed, wired, reports>>
    BY <1>7 DEF CloseForgets
  <2>2. Pressed' BY <2>1 DEF Pressed
  <2> QED BY <1>0, <2>1, <2>2
<1>8. CASE ChromeDies
  <2>1. wired' = [s \in Links |-> FALSE] /\ UNCHANGED <<closed, reports, button>>
    BY <1>8 DEF ChromeDies
  <2>2. Pressed' BY <1>0, <2>1 DEF Pressed
  <2> QED BY <1>0, <1>8, <2>1, <2>2
<1>9. CASE OtherStep /\ ~CloseMarks /\ ~CloseShuts /\ ~CloseForgets /\ ~ChromeDies
  BY <1>2, <1>9 DEF OtherStep, ChromeStep, ChromeAnswers, PageLoads, PageFails, PageTalks, Files,
                    ChromeListens, browserVars
<1>10. CASE \E j \in Jobs : \E to : QuietMove(j, to) BY <1>2, <1>10 DEF QuietMove
<1> QED BY <1>4, <1>5, <1>6, <1>7, <1>8, <1>9, <1>10, StepKinds

LEMMA LoadsStayWired == ASSUME TellInv, [BrowserNext]_browserVars PROVE LoadsWired'
<1> SUFFICES ASSUME NEW j \in Jobs, page'[j] \in Unsettled PROVE wired'[link'[j]] \/ closed'[link'[j]]
  BY DEF LoadsWired, Unsettled
<1>0. None \notin Unsettled /\ "failed" \notin Unsettled BY DEF None, Unsettled
<1>1. CASE page[j] \in Unsettled
  <2>1. link[j] \in Links /\ link[j] # NoLink /\ (wired[link[j]] \/ closed[link[j]])
    BY <1>0, <1>1 DEF TellInv, PageI, PagesLate, LoadsWired, Links, NoLink
  <2>2. link'[j] = link[j] /\ (closed[link[j]] => closed'[link[j]]) BY <2>1, PageStays
  <2>3. ~ChromeDies
    <3>1. ChromeDies => page'[j] = None BY <1>1 DEF ChromeDies
    <3> QED BY <1>0, <3>1
  <2> QED BY <2>1, <2>2, <2>3, WiresMove
<1>2. CASE page[j] \notin Unsettled
  <2>1. ~PageFails(j) BY <1>2 DEF PageFails
  <2>2. wired[link[j]] /\ Posts(j) BY <1>2, <2>1, PageMoves
  <2>3. UNCHANGED <<link, wired>> BY <2>2 DEF Posts, links, jobVars
  <2> QED BY <2>2, <2>3
<1> QED BY <1>1, <1>2

(* A page that fails is reported where it was asked for, if anyone is told *)
(* there.                                                                  *)
LEMMA FailsStayKept == ASSUME TellInv, [BrowserNext]_browserVars PROVE FailsKept'
<1> SUFFICES ASSUME NEW j \in Jobs, page'[j] = "failed"
             PROVE  Excused(j)' \/ j \in Failures(link[j])' \/ Coming(j)'
  BY DEF FailsKept
<1>1. CASE PageFails(j)
  <2> DEFINE e == [kind |-> "failed", by |-> j]
  <2>1. /\ page[j] \in Unsettled /\ e \in Event /\ Reports(e) /\ e.kind = "failed" /\ e.by = j
        /\ UNCHANGED <<link, reports, closed>>
    BY <1>1 DEF PageFails, Event, jobVars, links
  <2> HIDE DEF e
  <2>2. page[j] # None BY <2>1 DEF None, Unsettled
  <2>3. link[j] \in Links /\ (wired[link[j]] \/ closed[link[j]])
    BY <2>1, <2>2 DEF TellInv, PageI, PagesLate, LoadsWired
  <2>4. CASE closed[link[j]] \/ ~reports[link[j]] BY <2>1, <2>4 DEF Excused
  <2>5. CASE link[j] \in Listening
    <3>1. j \in FailuresIn(unread'[link[j]]) BY <2>1, <2>5, Sending DEF TellInv, NewInv
    <3> QED BY <2>1, <3>1 DEF Coming
  <2> QED BY <2>3, <2>4, <2>5 DEF Listening
<1>2. CASE ~PageFails(j)
  <2>1. page[j] = "failed" BY <1>2, PageMoves DEF None
  <2>2. page[j] # None BY <2>1 DEF None
  <2>3. CASE Excused(j) BY <2>2, <2>3, ExcuseStays
  <2>4. CASE j \in Failures(link[j]) \/ Coming(j) BY <2>2, <2>4, FailureStays
  <2> QED BY <2>1, <2>3, <2>4 DEF TellInv, PageI, FailsKept
<1> QED BY <1>1, <1>2

LEMMA MissedStays == ASSUME TellInv, [BrowserNext]_browserVars PROVE MissedFailed' /\ missed' \subseteq Jobs
<1> USE DEF links, mail, jobVars, pages, told_of
<1>1. ASSUME NEW j \in missed' PROVE /\ j \in Jobs /\ page[j] = "failed" /\ Excused(j)
  <2>1. CASE j \in missed BY <2>1 DEF TellInv, PageI, PageTypeI, MissedFailed
  <2>2. CASE j \notin missed
    <3>1. ASSUME NEW k \in Jobs, LoudMove(k), ~Watches(k) PROVE missed' = missed
      BY <3>1 DEF LoudMove, ConnectReuses, ConnectOpens, Enables, Posts, Clears
    <3>2. PICK k \in Jobs : Watches(k) BY <1>1, <2>2, <3>1, StepKinds, OthersRest DEF QuietMove
    <3>3. k = j /\ Failures(link[j]) = {} /\ page[j] = "failed" /\ ~Coming(j)
      BY <1>1, <2>2, <3>2 DEF Watches, Coming
    <3> QED BY <3>3 DEF TellInv, PageI, FailsKept
  <2> QED BY <2>1, <2>2
<1>2. ASSUME NEW j \in missed' PROVE page'[j] = "failed" /\ Excused(j)'
  <2>1. j \in Jobs /\ page[j] = "failed" /\ page[j] # None /\ Excused(j) BY <1>1, <1>2 DEF None
  <2>2. Excused(j)' BY <2>1, ExcuseStays
  <2>3. page'[j] = "failed"
    <3>1. ~PageFails(j) /\ page[j] \notin Unsettled BY <2>1 DEF PageFails, Unsettled
    <3>2. ~(wired[link[j]] /\ Posts(j) /\ ask[j].op = "navigate" /\ page'[j] = "loading")
      <4> SUFFICES ASSUME Posts(j), page'[j] = "loading", wired[link[j]] PROVE FALSE
        OBVIOUS
      <4>1. stage[j] = "posting" /\ (nth[j] = 1 \/ page' = page) BY DEF Posts
      <4>2. nth[j] = 2 BY <2>1, <4>1 DEF TellInv, PageI, PagesLate, LateAt
      <4> QED BY <2>1, <4>1, <4>2
    <3> QED BY <2>1, <3>1, <3>2, PageMoves DEF None
  <2> QED BY <2>2, <2>3
<1> QED BY <1>1, <1>2 DEF MissedFailed

LEMMA BufferKept == ASSUME TellInv, [BrowserNext]_browserVars, NEW s \in Links
                    PROVE  Len(events'[s]) <= EVENT_BUFFER
<1>1. /\ EventsTyped /\ events[s] \in Seq(Event) /\ EVENT_BUFFER \in Nat \ {0}
      /\ \A r \in Links : Len(events[r]) <= EVENT_BUFFER
  BY BufferAssumption DEF TellInv, NewInv, EventsTyped, PageI, PageTypeI
<1>2. CASE events' = events BY <1>1, <1>2
<1>3. ASSUME NEW r \in Links, Files(r) PROVE Len(events'[s]) <= EVENT_BUFFER
  <2>1. unread[r] # <<>> /\ events' = [events EXCEPT ![r] = Filed(r, Head(unread[r]))] BY <1>3 DEF Files
  <2>2. Head(unread[r]) \in Event BY <1>1, <2>1, Reading
  <2>3. Len(Filed(r, Head(unread[r]))) <= EVENT_BUFFER BY <1>1, <2>2, FiledStays
  <2> QED BY <1>1, <2>1, <2>3 DEF EventsTyped
<1>4. ASSUME NEW k \in Jobs, Clears(k) PROVE Len(events'[s]) <= EVENT_BUFFER
  <2>1. events'[s] = events[s] \/ events'[s] = <<>>
    BY <1>4 DEF Clears, TellInv, NewInv, EventsTyped
  <2> QED BY <1>1, <2>1
<1> QED BY <1>2, <1>3, <1>4, EventsMove

LEMMA InitPage == BrowserInit => PageI
<1> SUFFICES ASSUME BrowserInit PROVE PageI
  OBVIOUS
<1>1. /\ page = [j \in Jobs |-> None] /\ missed = {} /\ button = [at |-> "up", link |-> NoLink]
      /\ events = [s \in Links |-> <<>>]
      /\ closed = [s \in Links |-> FALSE] /\ wired = [s \in Links |-> FALSE]
      /\ reports = [s \in Links |-> FALSE]
  BY DEF BrowserInit
<1>2. \A s \in Links : Len(events[s]) <= EVENT_BUFFER BY <1>1, BufferAssumption
<1>3. PageTypeI BY <1>1, <1>2 DEF PageTypeI, Pages
<1>4. \A j \in Jobs : page[j] \notin Unsettled \cup {"failed"} /\ page[j] = None BY <1>1 DEF None, Unsettled
<1>5. Pressed BY <1>1 DEF Pressed
<1> QED BY <1>1, <1>3, <1>4, <1>5 DEF PageI, PagesLate, LoadsWired, FailsKept, MissedFailed

LEMMA NextTell == TellInv /\ [BrowserNext]_browserVars => TellInv'
<1> SUFFICES ASSUME TellInv, [BrowserNext]_browserVars PROVE TellInv'
  OBVIOUS
<1>1. NewInv' BY NextNew DEF TellInv
<1>2. LinkI' BY LinkKeeps
<1>3. PageTypeI' BY WiresMove, PageMoves, MissedStays, BufferKept DEF PageTypeI
<1>4. PageI'
  BY <1>3, WiresMove, PagesStayLate, LoadsStayWired, FailsStayKept, MissedStays DEF PageI
<1> QED BY <1>1, <1>2, <1>4 DEF TellInv

(* A page that failed, as its connection had read, is told as failed,      *)
(* unless the connection was not told or was closed, the buffer was full,  *)
(* or another navigation on the same connection cleared it away            *)
(* (browser.py:199-222, cdp.py:160-171).                                   *)
THEOREM FailuresAreTold == BrowserSpec => []FailureIsTold
<1>1. BrowserInit => TellInv BY InitNew, InitLink, InitPage DEF TellInv
<1>2. TellInv => FailureIsTold BY DEF TellInv, PageI, MissedFailed, Excused, FailureIsTold
<1> QED BY NextTell, <1>1, <1>2, PTL DEF BrowserSpec

-----------------------------------------------------------------------------
(* How many steps of its own a call has before it, at the most: the        *)
(* longest way is a navigation's, which sends two commands.                *)
StepsLeft(j) ==
  CASE stage[j] = "new"        -> 12
    [] stage[j] = "connecting" -> 11
    [] stage[j] = "enabling"   -> 10
    [] stage[j] = "clearing"   -> 9
    [] stage[j] = "sending"    -> IF nth[j] = 1 THEN 8 ELSE 4
    [] stage[j] = "posting"    -> IF nth[j] = 1 THEN 7 ELSE 3
    [] stage[j] = "waiting"    -> IF nth[j] = 1 THEN 6 ELSE 2
    [] stage[j] = "watching"   -> 5
    [] stage[j] = "listing"    -> 2
    [] stage[j] \in {"launching", "looking", "saving"} -> 1
    [] OTHER                   -> 0

CallsRunOut ==
  [][\A j \in Jobs : /\ JobStep(j) => StepsLeft(j)' < StepsLeft(j)
                     /\ ~JobStep(j) => StepsLeft(j)' = StepsLeft(j)]_browserVars

(* Every step of a call moves it to a later stage, ...                     *)
LEMMA MovesDown ==
  ASSUME TypeI, NEW j \in Jobs, NEW to, stage' = [stage EXCEPT ![j] = to], UNCHANGED nth,
         \/ (stage[j] = "new" /\ to \in {"listing", "connecting", "done"})
         \/ (stage[j] = "listing" /\ to \in {"launching", "done"})
         \/ (stage[j] = "connecting" /\ to \in {"enabling", "clearing", "looking", "sending", "done"})
         \/ (stage[j] = "enabling" /\ to \in {"clearing", "looking", "sending"})
         \/ (stage[j] = "clearing" /\ to = "sending")
         \/ (stage[j] = "sending" /\ to \in {"posting", "done"})
         \/ (stage[j] = "posting" /\ to \in {"waiting", "done"})
         \/ (stage[j] = "waiting" /\ to \in {"saving", "done"})
         \/ (stage[j] = "waiting" /\ to = "watching" /\ nth[j] = 1)
         \/ (stage[j] \in {"launching", "looking", "saving", "watching"} /\ to = "done")
  PROVE  StepsLeft(j)' < StepsLeft(j)
<1>1. stage'[j] = to /\ nth'[j] = nth[j] BY DEF TypeI
<1> QED BY <1>1 DEF StepsLeft

LEMMA JobStepsDown ==
  ASSUME TypeI, NEW j \in Jobs, JobStep(j)
  PROVE  StepsLeft(j)' < StepsLeft(j)
<1> USE DEF Move, End, jobVars
<1>1. CASE BeginCall(j) BY <1>1, MovesDown DEF BeginCall
<1>2. CASE Launches(j) BY <1>2, MovesDown DEF Launches
<1>3. CASE LaunchEnds(j) BY <1>3, MovesDown DEF LaunchEnds
<1>4. CASE ConnectReuses(j) \/ Enables(j) \/ \E s \in Links : ConnectOpens(j, s)
  <2>1. AfterConnect(ask[j].op) \in {"clearing", "looking", "sending"} BY DEF AfterConnect
  <2>2. CASE ConnectReuses(j) BY <2>1, <2>2, MovesDown DEF ConnectReuses
  <2>3. CASE Enables(j) BY <2>1, <2>3, MovesDown DEF Enables
  <2>4. CASE \E s \in Links : ConnectOpens(j, s) BY <2>4, MovesDown DEF ConnectOpens
  <2> QED BY <1>4, <2>2, <2>3, <2>4
<1>5. CASE ConnectFails(j) BY <1>5, MovesDown DEF ConnectFails
<1>6. CASE Draws(j) BY <1>6, MovesDown DEF Draws
<1>7. CASE Posts(j) BY <1>7, MovesDown DEF Posts
<1>8. CASE Receives(j)
  <2>1. AfterReply(j) = "saving" \/ (AfterReply(j) = "watching" /\ nth[j] = 1) BY DEF AfterReply
  <2> QED BY <1>8, <2>1, MovesDown DEF Receives
<1>9. CASE GivesUp(j) BY <1>9, MovesDown DEF GivesUp
<1>10. CASE Clears(j) BY <1>10, MovesDown DEF Clears
<1>11. CASE Watches(j)
  <2>1. CASE End(j, "watching", "did not load") /\ UNCHANGED nth BY <2>1, MovesDown
  <2>2. CASE Move(j, "watching", "sending") /\ nth' = [nth EXCEPT ![j] = 2]
    <3>1. stage'[j] = "sending" /\ nth'[j] = 2 /\ stage[j] = "watching" BY <2>2 DEF TypeI
    <3> QED BY <3>1 DEF StepsLeft
  <2> QED BY <1>11, <2>1, <2>2 DEF Watches
<1>12. CASE Looks(j) BY <1>12, MovesDown DEF Looks
<1>13. CASE Tells(j) BY <1>13, MovesDown DEF Tells
<1>14. CASE Inspects(j) BY <1>14, MovesDown DEF Inspects
<1>15. CASE Saves(j) BY <1>15, MovesDown DEF Saves
<1> QED BY <1>1, <1>2, <1>3, <1>4, <1>5, <1>6, <1>7, <1>8, <1>9, <1>10, <1>11, <1>12, <1>13, <1>14, <1>15
        DEF JobStep

(* ... and of no other call.                                               *)
LEMMA JobsApart ==
  ASSUME TypeI, NEW j \in Jobs, NEW k \in Jobs \ {j}, JobStep(k)
  PROVE  UNCHANGED <<stage[j], nth[j]>>
<1>1. ASSUME NEW to, stage' = [stage EXCEPT ![k] = to] PROVE stage'[j] = stage[j]
  BY <1>1 DEF TypeI
<1>2. \E to : stage' = [stage EXCEPT ![k] = to]
  BY DEF JobStep, BeginCall, Launches, LaunchEnds, ConnectReuses, ConnectFails, Enables, ConnectOpens,
         Draws, Posts, Receives, GivesUp, Clears, Watches, Looks, Tells, Inspects, Saves, End, Move
<1>3. nth' = nth \/ nth' = [nth EXCEPT ![k] = 2]
  BY DEF JobStep, BeginCall, Launches, LaunchEnds, ConnectReuses, ConnectFails, Enables, ConnectOpens,
         Draws, Posts, Receives, GivesUp, Clears, Watches, Looks, Tells, Inspects, Saves, jobVars
<1> QED BY <1>1, <1>2, <1>3 DEF TypeI

(* Whatever a call asks and whatever becomes of Chrome, its pages and the  *)
(* connection, at most twelve steps of its own thread lie before its end,  *)
(* each brings it nearer, and nothing else takes it back                   *)
(* (cdp.py:154-157, browser.py:111, 204).                                  *)
THEOREM CallsComeToAnEnd == BrowserSpec => CallsRunOut
<1>1. Inv /\ [BrowserNext]_browserVars =>
        [\A j \in Jobs : /\ JobStep(j) => StepsLeft(j)' < StepsLeft(j)
                         /\ ~JobStep(j) => StepsLeft(j)' = StepsLeft(j)]_browserVars
  <2> SUFFICES ASSUME Inv, [BrowserNext]_browserVars, NEW j \in Jobs
               PROVE  /\ JobStep(j) => StepsLeft(j)' < StepsLeft(j)
                      /\ ~JobStep(j) => StepsLeft(j)' = StepsLeft(j)
    OBVIOUS
  <2>1. TypeI BY DEF Inv
  <2>2. ASSUME ~JobStep(j) PROVE UNCHANGED <<stage[j], nth[j]>>
    <3>1. CASE \E k \in Jobs \ {j} : JobStep(k) BY <2>1, <3>1, JobsApart
    <3>2. CASE OtherStep BY <3>2, OthersRest
    <3> QED BY <2>2, <3>1, <3>2 DEF BrowserNext, OtherStep
  <2> QED BY <2>1, <2>2, JobStepsDown DEF StepsLeft
<1> QED BY <1>1, InitInv, NextKeeps, PTL DEF BrowserSpec, CallsRunOut
=============================================================================
