------------------------- MODULE AuthorizationProofs -------------------------
(***************************************************************************)
(* The store of clients and tokens, for any number of clients, requests    *)
(* and restarts and any times to live; and then the lockout.               *)
(***************************************************************************)
EXTENDS AuthStore, PairingCode, FiniteSetTheorems, TLAPS

(* What a restart may come to load: the file, and what a save still means  *)
(* to put in its place.                                                    *)
Snapshots ==
  {file} \cup temp \cup {saves[s].what : s \in {t \in Savers : saves[t].pc = "dumped"}}

(* Until saves overlap, one of the two saves at a time, and what it wrote  *)
(* is there for it to put in place.                                        *)
OneSaves ==
  /\ saves = [s \in Savers |-> saves[s]]
  /\ ~crossed => /\ \A s, t \in Savers : s = t \/ saves[s] = Free \/ saves[t] = Free
                 /\ \A s \in Savers : saves[s].pc = "written" => temp # {}

LEMMA InitOneSaves == Init => OneSaves
BY DEF Init, OneSaves, Free

LEMMA DumpsOneSaves == ASSUME OneSaves, NEW s \in Savers, Dumps(s) PROVE OneSaves'
<1>1. /\ saves'[s].pc = "dumped" /\ \A t \in Savers \ {s} : saves'[t] = saves[t]
      /\ saves' = [t \in Savers |-> saves'[t]]
  BY DEF Dumps, OneSaves
<1>2. ASSUME ~crossed' PROVE ~crossed /\ \A t \in Savers : saves[t] = Free
  BY <1>2 DEF Dumps
<1>3. temp' = temp BY DEF Dumps
<1> QED BY <1>1, <1>2, <1>3 DEF OneSaves, Free

LEMMA WritesOneSaves == ASSUME OneSaves, NEW s \in Savers, Writes(s) PROVE OneSaves'
<1>1. /\ saves'[s].pc = "written" /\ \A t \in Savers \ {s} : saves'[t] = saves[t]
      /\ saves' = [t \in Savers |-> saves'[t]]
  BY DEF Writes, OneSaves
<1>2. saves[s] # Free /\ temp' # {} /\ crossed' = crossed BY DEF Writes, Free
<1> QED BY <1>1, <1>2 DEF OneSaves

LEMMA ReturnsOneSaves ==
  ASSUME OneSaves, NEW s \in Savers, Replaces(s) \/ SaveRaises(s)
  PROVE  OneSaves'
<1>1. /\ saves'[s] = Free /\ \A t \in Savers \ {s} : saves'[t] = saves[t]
      /\ saves' = [t \in Savers |-> saves'[t]] /\ crossed' = crossed
  BY DEF Replaces, SaveRaises, Ends, OneSaves
<1>2. saves[s] # Free BY DEF Replaces, SaveRaises, Free
<1> QED BY <1>1, <1>2 DEF OneSaves, Free

LEMMA NextOneSaves == OneSaves /\ [Next]_vars => OneSaves'
<1> SUFFICES ASSUME OneSaves, [Next]_vars PROVE OneSaves' OBVIOUS
<1>1. "server" \in Savers /\ "console" \in Savers BY DEF Savers
<1>2. ASSUME UNCHANGED disk PROVE OneSaves' BY <1>2 DEF disk, OneSaves
<1>3. ASSUME Serve PROVE OneSaves'
  <2>1. UNCHANGED disk \/ Dumps("server")
    BY <1>3 DEF Serve, Register, Authorize, Approve, Deny, PresentCode, PresentRefresh,
                ExchangeCode, ExchangeRefresh, Issue, Refuse, Revoke
  <2> QED BY <1>1, <1>2, <2>1, DumpsOneSaves
<1>4. ASSUME NEW c \in Clients, ForgetDrops(c) \/ CliRevokes(c) PROVE OneSaves'
  BY <1>2, <1>4 DEF ForgetDrops, CliRevokes, OneSaves
<1>5. CASE RebuildsAccess \/ RebuildsRefresh \/ RebuildRaises
  BY <1>2, <1>5 DEF RebuildsAccess, RebuildsRefresh, RebuildRaises
<1>6. CASE ForgetSaves \/ RotateSaves
  BY <1>1, <1>6, DumpsOneSaves DEF ForgetSaves, RotateSaves
<1>7. ASSUME NEW s \in Savers, Writes(s) \/ Replaces(s) \/ SaveRaises(s) PROVE OneSaves'
  BY <1>7, WritesOneSaves, ReturnsOneSaves
<1>8. CASE Restart BY <1>8 DEF Restart, OneSaves, Free
<1>9. CASE CliLoads \/ Tick \/ UNCHANGED vars BY <1>2, <1>9 DEF CliLoads, Tick, vars
<1> QED BY <1>3, <1>4, <1>6, <1>7, <1>8, <1>9, <1>5 DEF Next

(* What a save puts down is what there is to keep; a save that goes on     *)
(* adds to it at most nothing at all.                                      *)
LEMMA DumpsWhat ==
  ASSUME OneSaves, NEW s \in Savers, Dumps(s)
  PROVE  Snapshots' \subseteq Snapshots \cup {[clients |-> clients', refresh |-> refresh']}
<1>1. /\ saves'[s].what = [clients |-> clients', refresh |-> refresh']
      /\ \A t \in Savers \ {s} : saves'[t] = saves[t]
      /\ UNCHANGED <<file, temp>>
  BY DEF Dumps, OneSaves
<1> QED BY <1>1 DEF Snapshots

LEMMA SavingWhat ==
  ASSUME OneSaves, NEW s \in Savers, Writes(s) \/ Replaces(s) \/ SaveRaises(s)
  PROVE  Snapshots' \subseteq Snapshots \cup {Nothing}
<1>1. /\ \A t \in Savers \ {s} : saves'[t] = saves[t]
      /\ saves'[s].pc # "dumped"
  BY DEF Writes, Replaces, SaveRaises, Ends, OneSaves, Free
<1>2. CASE Writes(s)
  <2>1. saves[s].what \in Snapshots /\ temp' \subseteq {saves[s].what, Nothing} /\ file' = file
    BY <1>2 DEF Writes, Snapshots
  <2> QED BY <1>1, <2>1 DEF Snapshots
<1>3. CASE Replaces(s) \/ SaveRaises(s)
  <2>1. temp' \subseteq temp /\ file' \in {file} \cup temp BY <1>3 DEF Replaces, SaveRaises
  <2> QED BY <1>1, <2>1 DEF Snapshots
<1> QED BY <1>2, <1>3

-----------------------------------------------------------------------------
(* What a token request in flight, the command line and the files know of  *)
(* a client is as good as what the store knows.                            *)
PaidFor ==
  /\ handler = [h \in Handlers |-> handler[h]]
  /\ \A x \in access \cup refresh \cup codes : x.client \in paired
  /\ \A S \in Snapshots : \A x \in S.refresh : x.client \in paired
  /\ \A h \in Handlers : handler[h].kind = "code" => handler[h].item.client = handler[h].client
  /\ cli.kind = "loaded" => \A x \in cli.refresh : x.client \in paired
  /\ copy.of # "nothing" => \A x \in copy.was : x.client \in paired

LEMMA InitPaid == Init => PaidFor
<1>1. Init => Snapshots = {Nothing} BY DEF Init, Snapshots, Free
<1> QED BY <1>1 DEF Init, PaidFor, Idle, Unused, Nothing, NoCopy

(* A save puts down nothing that is not for a paired client.               *)
LEMMA DumpsPaid ==
  ASSUME OneSaves, PaidFor, NEW s \in Savers, Dumps(s), paired' = paired,
         \A x \in refresh' : x.client \in paired
  PROVE  \A S \in Snapshots' : \A x \in S.refresh : x.client \in paired'
BY DumpsWhat DEF PaidFor

(* The store's own steps only add what is for a paired client: the tokens  *)
(* of an exchange are for the client of what is spent.                     *)
LEMMA IssuePaid ==
  ASSUME OneSaves, PaidFor, NEW h \in Handlers, NEW c \in paired, NEW x, Issue(h, c, x),
         codes' \subseteq codes
  PROVE  PaidFor'
<1>1. handler' = [g \in Handlers |-> handler'[g]] BY DEF Issue, PaidFor
<1>2. \A g \in Handlers : handler'[g] = handler[g] \/ handler'[g].kind = "idle"
  BY DEF Issue, PaidFor, Idle
<1>3. \A y \in (access \cup refresh \cup codes)' : y.client \in paired
  BY DEF Issue, PaidFor, Item
<1>4. paired' = paired /\ cli' = cli /\ copy' = copy BY DEF Issue, history, console
<1>5. \A S \in Snapshots' : \A y \in S.refresh : y.client \in paired'
  BY <1>3, <1>4, DumpsPaid DEF Issue, Savers
<1> QED BY <1>1, <1>2, <1>3, <1>4, <1>5 DEF PaidFor

LEMMA PresentPaid ==
  ASSUME PaidFor, NEW h \in Handlers, NEW c, NEW x,
         PresentCode(h, c, x) \/ PresentRefresh(h, c, x)
  PROVE  PaidFor'
<1>1. /\ handler' = [g \in Handlers |-> handler'[g]]
      /\ \A g \in Handlers : g # h => handler'[g] = handler[g]
      /\ handler'[h].item = x /\ handler'[h].client = c /\ x.client = c
  BY DEF PaidFor, PresentCode, PresentRefresh
<1>2. UNCHANGED <<memory, disk, console, cli, history>> BY DEF PresentCode, PresentRefresh
<1> QED BY <1>1, <1>2 DEF PaidFor, Snapshots, memory, disk, console, history

(* What the copying of the tokens leaves is from before it and from after, *)
(* and nothing of the client that is being forgotten.                      *)
LEMMA RebuiltWithin ==
  ASSUME NEW was, NEW is, NEW S \in Rebuilt(was, is)
  PROVE  S \subseteq was \cup is /\ \A x \in S : x.client \notin forgetting
BY DEF Rebuilt, Kept

LEMMA NextPaid == OneSaves /\ PaidFor /\ [Next]_vars => PaidFor'
<1> SUFFICES ASSUME OneSaves, PaidFor, [Next]_vars PROVE PaidFor' OBVIOUS
<1> USE DEF memory, history, console
<1>1. "server" \in Savers /\ "console" \in Savers BY DEF Savers
<1>2. ASSUME NEW c \in Clients, Register(c) PROVE PaidFor'
  <2>1. /\ UNCHANGED <<access, refresh, codes, handler, cli, copy, paired>> /\ Dumps("server")
    BY <1>2 DEF Register
  <2> QED BY <1>1, <2>1, DumpsPaid DEF PaidFor
<1>3. ASSUME NEW c \in Clients, Authorize(c) PROVE PaidFor'
  BY <1>3 DEF Authorize, PaidFor, Snapshots, disk
<1>4. ASSUME NEW p \in consents, Approve(p) \/ Deny(p) PROVE PaidFor'
  <2>1. UNCHANGED <<Snapshots, access, refresh, handler, cli, copy>>
    BY <1>4 DEF Approve, Deny, Snapshots, disk
  <2>2. paired \subseteq paired' /\ \A x \in codes' : x \in codes \/ x.client \in paired'
    BY <1>4 DEF Approve, Deny
  <2> QED BY <2>1, <2>2 DEF PaidFor
<1>5. ASSUME NEW h \in Handlers, NEW c \in Clients, NEW x, PresentCode(h, c, x) \/ PresentRefresh(h, c, x)
      PROVE  PaidFor'
  BY <1>5, PresentPaid
<1>6. ASSUME NEW h \in Handlers, ExchangeCode(h) \/ ExchangeRefresh(h) PROVE PaidFor'
  <2>1. CASE ExchangeCode(h)
    <3>1. handler[h].item \in codes /\ handler[h].item.client = handler[h].client
      BY <2>1 DEF ExchangeCode, Live, PaidFor
    <3>2. handler[h].client \in paired BY <3>1 DEF PaidFor
    <3> QED BY <2>1, <3>2, IssuePaid DEF ExchangeCode
  <2>2. CASE ExchangeRefresh(h)
    <3>1. handler[h].item.client \in paired BY <2>2 DEF ExchangeRefresh, PaidFor
    <3> QED BY <2>2, <3>1, IssuePaid DEF ExchangeRefresh
  <2> QED BY <1>6, <2>1, <2>2
<1>7. ASSUME NEW h \in Handlers, Refuse(h) PROVE PaidFor'
  <2>1. UNCHANGED <<memory, Snapshots, cli, copy, history>> BY <1>7 DEF Refuse, Snapshots, disk
  <2>2. /\ handler' = [g \in Handlers |-> handler'[g]]
        /\ \A g \in Handlers : handler'[g] = handler[g] \/ handler'[g].kind = "idle"
    BY <1>7 DEF Refuse, PaidFor, Idle
  <2> QED BY <2>1, <2>2 DEF PaidFor
<1>8. ASSUME NEW x \in access \cup refresh, Revoke(x) PROVE PaidFor'
  <2>1. /\ UNCHANGED <<codes, handler, cli, copy, paired>> /\ Dumps("server")
        /\ access' \subseteq access /\ refresh' \subseteq refresh
    BY <1>8 DEF Revoke
  <2> QED BY <1>1, <2>1, DumpsPaid DEF PaidFor
<1>9. ASSUME NEW c \in Clients, ForgetDrops(c) PROVE PaidFor'
  <2>1. UNCHANGED <<access, refresh, codes, handler, cli, paired, Snapshots>> /\ copy'.was = access
    BY <1>9 DEF ForgetDrops, Snapshots, disk
  <2> QED BY <2>1 DEF PaidFor
<1>10. CASE RebuildsAccess \/ RebuildsRefresh
  <2>1. UNCHANGED <<codes, handler, cli, paired, Snapshots>>
    BY <1>10 DEF RebuildsAccess, RebuildsRefresh, Snapshots, disk
  <2>2. access' \subseteq access \cup copy.was /\ refresh' \subseteq refresh \cup copy.was
    BY <1>10, RebuiltWithin DEF RebuildsAccess, RebuildsRefresh
  <2>3. copy.of # "nothing" /\ (copy'.of # "nothing" => copy'.was = refresh)
    BY <1>10 DEF RebuildsAccess, RebuildsRefresh, NoCopy
  <2> QED BY <2>1, <2>2, <2>3 DEF PaidFor
<1>11. CASE RebuildRaises
  <2>1. UNCHANGED <<access, refresh, codes, handler, cli, paired, Snapshots>>
    BY <1>11 DEF RebuildRaises, Snapshots, disk
  <2>2. copy'.of = "nothing" BY <1>11 DEF RebuildRaises, NoCopy
  <2> QED BY <2>1, <2>2 DEF PaidFor
<1>12. CASE ForgetSaves \/ RotateSaves
  <2>1. UNCHANGED <<access, refresh, codes, handler, cli, copy, paired>> /\ Dumps("console")
    BY <1>12 DEF ForgetSaves, RotateSaves
  <2> QED BY <1>1, <2>1, DumpsPaid DEF PaidFor
<1>13. ASSUME NEW s \in Savers, Writes(s) \/ Replaces(s) \/ SaveRaises(s) PROVE PaidFor'
  <2>1. UNCHANGED <<access, refresh, codes, handler, cli, copy, paired>>
    BY <1>13 DEF Writes, Replaces, SaveRaises, Ends
  <2>2. Snapshots' \subseteq Snapshots \cup {Nothing} BY <1>13, SavingWhat
  <2>3. Nothing.refresh = {} BY DEF Nothing
  <2> QED BY <2>1, <2>2, <2>3 DEF PaidFor
<1>14. ASSUME NEW c \in Clients, CliRevokes(c) PROVE PaidFor'
  <2>1. UNCHANGED <<access, refresh, codes, handler, copy, paired, temp, saves>> /\ cli'.kind = "idle"
    BY <1>14 DEF CliRevokes, Idle
  <2>2. \A x \in file'.refresh : x.client \in paired BY <1>14 DEF CliRevokes, PaidFor
  <2>3. \A S \in Snapshots' : S \in Snapshots \/ S = file' BY <2>1 DEF Snapshots
  <2> QED BY <2>1, <2>2, <2>3 DEF PaidFor
<1>15. CASE CliLoads
  <2>1. UNCHANGED <<access, refresh, codes, handler, copy, paired, Snapshots>>
    BY <1>15 DEF CliLoads, Snapshots, disk
  <2>2. cli'.refresh \subseteq file.refresh /\ file \in Snapshots BY <1>15 DEF CliLoads, Live, Snapshots
  <2> QED BY <2>1, <2>2 DEF PaidFor
<1>16. CASE Restart
  <2>1. /\ access' = {} /\ codes' = {} /\ refresh' \subseteq file.refresh
        /\ UNCHANGED <<paired, cli>> /\ handler' = [h \in Handlers |-> Idle]
        /\ copy'.of = "nothing"
    BY <1>16 DEF Restart, Live, NoCopy
  <2>2. Snapshots' = {file} /\ file \in Snapshots BY <1>16 DEF Restart, Snapshots, Free
  <2> QED BY <2>1, <2>2 DEF PaidFor, Idle
<1>17. CASE Tick \/ UNCHANGED vars
  BY <1>17 DEF Tick, vars, disk, PaidFor, Snapshots
<1> QED BY <1>2, <1>3, <1>4, <1>5, <1>6, <1>7, <1>8, <1>9, <1>12, <1>13, <1>14, <1>15, <1>16, <1>17,
           <1>10, <1>11 DEF Next, Serve

(* Nobody holds a working token, or could refresh one after a restart, who *)
(* has not been let in with the pairing code; saves that overlap, a stop   *)
(* in the middle of one and the command line beside the server do not      *)
(* change that.                                                            *)
THEOREM OnlyPairedGetIn == Spec => []OnlyPaired
<1>1. PaidFor => OnlyPaired
  <2>1. file \in Snapshots BY DEF Snapshots
  <2> QED BY <2>1 DEF PaidFor, OnlyPaired
<1> QED BY <1>1, InitPaid, NextPaid, InitOneSaves, NextOneSaves, PTL DEF Spec

-----------------------------------------------------------------------------
(* The command line does not begin to be used.                             *)
LEMMA Alone == [Next]_vars /\ cli' = Unused => cli = Unused
<1> SUFFICES ASSUME [Next]_vars, cli' # cli PROVE cli' # Unused OBVIOUS
<1>1. ASSUME Serve PROVE cli' = cli
  BY <1>1 DEF Serve, Register, Authorize, Approve, Deny, PresentCode, PresentRefresh,
              ExchangeCode, ExchangeRefresh, Issue, Refuse, Revoke
<1>2. ASSUME NEW c \in Clients, CliRevokes(c) PROVE cli'.kind = "idle" BY <1>2 DEF CliRevokes, Idle
<1>3. ASSUME CliLoads PROVE cli'.kind = "loaded" BY <1>3 DEF CliLoads
<1>4. ASSUME NEW s \in Savers, Writes(s) \/ Replaces(s) \/ SaveRaises(s) PROVE cli' = cli
  BY <1>4 DEF Writes, Replaces, SaveRaises, Ends
<1>5. CliLoads \/ \E c \in Clients : CliRevokes(c)
  BY <1>1, <1>4 DEF Next, vars, ForgetDrops, RebuildsAccess, RebuildsRefresh, RebuildRaises, ForgetSaves,
                    RotateSaves, Restart, Tick
<1>6. Unused.kind = "unused" BY DEF Unused
<1> QED BY <1>2, <1>3, <1>5, <1>6

(* Nothing makes saves that overlapped, what was loaded after them, or what*)
(* a revocation put back, undone, but a restart the first, and then it is  *)
(* misled.                                                                 *)
LEMMA NotUndone ==
  [Next]_vars /\ ~misled' => /\ ~misled
                             /\ ~crossed' => ~crossed
                             /\ ~revived' => ~revived
<1> SUFFICES ASSUME [Next]_vars
             PROVE  /\ misled => misled'
                    /\ crossed => crossed' \/ misled'
                    /\ revived => revived'
  OBVIOUS
<1> USE DEF history, disk
<1>1. ASSUME NEW s, Dumps(s) PROVE crossed => crossed' BY <1>1 DEF Dumps
<1>2. ASSUME Serve PROVE UNCHANGED <<misled, revived>> /\ (crossed => crossed')
  <2>1. UNCHANGED <<misled, revived>> /\ (crossed' = crossed \/ Dumps("server"))
    BY <1>2 DEF Serve, Register, Authorize, Approve, Deny, PresentCode, PresentRefresh,
                ExchangeCode, ExchangeRefresh, Issue, Refuse, Revoke
  <2> QED BY <1>1, <2>1
<1>3. ASSUME NEW c \in Clients, ForgetDrops(c) \/ CliRevokes(c)
      PROVE  UNCHANGED <<misled, revived>> /\ (crossed => crossed')
  BY <1>3 DEF ForgetDrops, CliRevokes
<1>4. CASE ForgetSaves \/ RotateSaves
  <2>1. UNCHANGED <<misled, revived>> /\ Dumps("console") BY <1>4 DEF ForgetSaves, RotateSaves
  <2> QED BY <1>1, <2>1
<1>5. ASSUME NEW s \in Savers, Writes(s) \/ Replaces(s) \/ SaveRaises(s)
      PROVE  UNCHANGED <<misled, revived>> /\ (crossed => crossed')
  BY <1>5 DEF Writes, Replaces, SaveRaises, Ends
<1>6. CASE Restart BY <1>6 DEF Restart
<1>7. ASSUME RebuildsAccess \/ RebuildsRefresh \/ RebuildRaises
      PROVE  misled' = misled /\ crossed' = crossed /\ (revived => revived')
  <2>1. misled' = misled /\ crossed' = crossed
    BY <1>7 DEF RebuildsAccess, RebuildsRefresh, RebuildRaises
  <2>2. revived' = revived \/ revived' = (revived \/ ~(refresh' \subseteq refresh))
    BY <1>7 DEF RebuildsAccess, RebuildsRefresh, RebuildRaises
  <2>3. CASE revived' = revived BY <2>1, <2>3
  <2>4. CASE revived' = (revived \/ ~(refresh' \subseteq refresh))
    <3>1. revived => revived' BY <2>4, Zenon
    <3> QED BY <2>1, <3>1
  <2> QED BY <2>2, <2>3, <2>4
<1>8. CASE CliLoads \/ Tick \/ UNCHANGED vars BY <1>8 DEF CliLoads, Tick, vars
<1> QED BY <1>2, <1>3, <1>4, <1>5, <1>6, <1>8, <1>7 DEF Next

-----------------------------------------------------------------------------
(* What a save has put down and not yet in the place of the file.          *)
Underway(s) == CASE saves[s].pc = "dumped"  -> {saves[s].what}
                 [] saves[s].pc = "written" -> temp
                 [] OTHER                   -> {}

(* Until saves overlap it is what was there when that save began, ...      *)
LEMMA DumpsUnderway ==
  ASSUME OneSaves, NEW s \in Savers, Dumps(s), ~crossed', NEW t \in Savers
  PROVE  Underway(t)' = IF t = s THEN {[clients |-> clients', refresh |-> refresh']} ELSE {}
<1>1. saves[t] = Free BY DEF Dumps
<1>2. saves'[t] = IF t = s THEN [pc |-> "dumped",
                                 what |-> [clients |-> clients', refresh |-> refresh']]
                  ELSE Free
  BY <1>1 DEF Dumps, OneSaves
<1> QED BY <1>2 DEF Underway, Free

LEMMA WritesUnderway ==
  ASSUME OneSaves, NEW s \in Savers, Writes(s), ~crossed, NEW t \in Savers
  PROVE  Underway(t)' \subseteq Underway(t)
<1>1. \A u \in Savers \ {s} : saves[u] = Free /\ saves'[u] = Free
  BY DEF Writes, OneSaves, Free
<1>2. temp' = {saves[s].what} /\ saves'[s].pc = "written" /\ saves[s].pc = "dumped"
  BY <1>1 DEF Writes, OneSaves
<1> QED BY <1>1, <1>2 DEF Underway, Free

(* ... and that is the file in the end; or the save raises, which takes    *)
(* nothing from the file, and what it put down is dropped.                 *)
LEMMA ReplacesUnderway ==
  ASSUME OneSaves, NEW s \in Savers, Replaces(s), ~crossed
  PROVE  /\ Snapshots' \subseteq Underway(s)
         /\ \A t \in Savers : saves'[t] = Free /\ Underway(t)' = {}
<1>1. \A t \in Savers : saves'[t] = Free BY DEF Replaces, Ends, OneSaves, Free
<1>2. file' \in temp /\ temp' = {} /\ Underway(s) = temp BY DEF Replaces, Underway
<1> QED BY <1>1, <1>2 DEF Snapshots, Underway, Free

LEMMA RaisesUnderway ==
  ASSUME OneSaves, NEW s \in Savers, SaveRaises(s), ~crossed
  PROVE  /\ Snapshots' \subseteq Snapshots
         /\ \A t \in Savers : Underway(t)' = {}
<1>1. saves[s] # Free BY DEF SaveRaises, Free
<1>2. \A t \in Savers : saves'[t] = Free BY <1>1 DEF SaveRaises, Ends, OneSaves
<1>3. UNCHANGED <<file, temp>> BY DEF SaveRaises
<1> QED BY <1>2, <1>3 DEF Snapshots, Underway, Free

-----------------------------------------------------------------------------
(* What may still be exchanged has not been, was drawn before, and shares  *)
(* its number with nothing else that may be.  What the server is spending  *)
(* is no longer among it, and not in what it is about to save.             *)
Unspent(S) ==
  /\ \A x \in S : x.id \in Ids /\ x.id <= serial /\ uses[x.id] = 0
  /\ \A x, y \in S : x.id = y.id => x = y

Numbered == consents \cup codes \cup refresh

Once ==
  /\ uses \in [Ids -> Nat] /\ serial \in Nat
  /\ \A i \in Ids : uses[i] <= 1 /\ (i > serial => uses[i] = 0)
  /\ \A i \in spending : i \in Ids /\ i <= serial /\ uses[i] = 0
  /\ saves["server"] = Free => spending = {}
  /\ Unspent(Numbered) /\ \A x \in Numbered : x.id \notin spending
  /\ consents \cap codes = {} /\ (consents \cup codes) \cap refresh = {}

SavedOnce ==
  /\ \A S \in Snapshots : Unspent(S.refresh)
  /\ \A S \in Underway("server") : \A x \in S.refresh : x.id \notin spending

NotUsedTwice == cli = Unused /\ ~misled /\ ~revived => Once /\ (~crossed => SavedOnce)

LEMMA InitOnce == Init => NotUsedTwice
<1> SUFFICES ASSUME Init PROVE Once /\ SavedOnce BY DEF NotUsedTwice
<1>1. Snapshots = {Nothing} /\ Underway("server") = {}
  BY DEF Init, Snapshots, Underway, Free, Savers
<1>2. SavedOnce BY <1>1 DEF SavedOnce, Unspent, Nothing
<1>3. Once
  BY AuthAssumption DEF Init, Once, Unspent, Numbered, Ids
<1> QED BY <1>2, <1>3

(* Fewer things to exchange are as good.                                   *)
LEMMA FewerOnce ==
  ASSUME Once, UNCHANGED <<uses, serial>>, spending' \subseteq spending,
         saves'["server"] = Free => spending' = {},
         consents' \subseteq consents, codes' \subseteq codes, refresh' \subseteq refresh
  PROVE  Once'
<1>1. Numbered' \subseteq Numbered BY DEF Numbered
<1>2. Unspent(Numbered)' BY <1>1 DEF Once, Unspent
<1> QED BY <1>1, <1>2 DEF Once

(* An exchange spends one number, for good, and draws another.             *)
LEMMA IssueOnce ==
  ASSUME OneSaves, Once, NEW h, NEW c, NEW x \in codes \cup refresh,
         Issue(h, c, x), codes' = codes \ {x}
  PROVE  Once'
<1> DEFINE new == Item(c, RefreshTtl)
<1>1. serial' = serial + 1 /\ serial' \in Ids /\ serial' \in Nat /\ new.id = serial'
  BY AuthAssumption DEF Once, Issue, Room, Ids, Item, Fresh
<1>2. refresh' = (refresh \ {x}) \cup {new} /\ UNCHANGED <<consents, uses>> /\ spending' = {x.id}
  BY DEF Issue, history
<1>3. x.id \in Ids /\ x.id <= serial /\ uses[x.id] = 0 BY DEF Once, Unspent, Numbered
<1> HIDE DEF new
<1>4. \A y \in Numbered' : y = new \/ (y \in Numbered /\ y # x)
  BY <1>2 DEF Numbered, Once
<1>5. \A y \in Numbered : y # x => y.id # x.id BY DEF Once, Unspent, Numbered
<1>6. \A y \in Numbered : y.id \in Ids /\ y.id <= serial /\ uses[y.id] = 0 BY DEF Once, Unspent
<1>7. new \notin Numbered BY <1>1, <1>6 DEF Once, Ids
<1>8. Unspent(Numbered)'
  <2>1. ASSUME NEW y \in Numbered' PROVE y.id \in Ids /\ y.id <= serial' /\ uses'[y.id] = 0
    <3>1. CASE y = new BY <1>1, <1>2, <3>1 DEF Once
    <3>2. CASE y \in Numbered BY <1>1, <1>2, <1>6, <3>2 DEF Once, Ids
    <3> QED BY <1>4, <3>1, <3>2
  <2>2. ASSUME NEW y \in Numbered', NEW z \in Numbered', y.id = z.id PROVE y = z
    <3>1. \A w \in Numbered : w.id # new.id BY <1>1, <1>6 DEF Once, Ids
    <3> QED BY <1>4, <2>2, <3>1 DEF Once, Unspent
  <2> QED BY <2>1, <2>2 DEF Unspent
<1>9. \A y \in Numbered' : y.id \notin spending'
  BY <1>1, <1>2, <1>3, <1>4, <1>5 DEF Once, Ids
<1>10. consents' \cap codes' = {} /\ (consents' \cup codes') \cap refresh' = {}
  BY <1>2, <1>7 DEF Once, Numbered
<1>11. \A i \in Ids : uses'[i] <= 1 /\ (i > serial' => uses'[i] = 0) BY <1>1, <1>2 DEF Once, Ids
<1>12. \A i \in spending' : i \in Ids /\ i <= serial' /\ uses'[i] = 0
  BY <1>1, <1>2, <1>3 DEF Ids, Once
<1>13. saves'["server"] # Free
  <2>1. saves'["server"].pc = "dumped" BY DEF Issue, Dumps, OneSaves, Savers
  <2> QED BY <2>1 DEF Free
<1> QED BY <1>1, <1>2, <1>8, <1>9, <1>10, <1>11, <1>12, <1>13 DEF Once

(* A page that is opened is the only thing with its number, and the code   *)
(* that is drawn for it takes its place.                                   *)
LEMMA AuthorizeOnce ==
  ASSUME Once, NEW c, Authorize(c)
  PROVE  Once'
<1> DEFINE new == Item(c, CodeTtl)
<1>1. serial' = serial + 1 /\ serial' \in Ids /\ serial' \in Nat /\ new.id = serial'
  BY AuthAssumption DEF Once, Authorize, Room, Ids, Item, Fresh
<1>2. consents' = consents \cup {new} /\ UNCHANGED <<codes, refresh, uses, spending, saves>>
  BY DEF Authorize, disk, history
<1> HIDE DEF new
<1>3. \A y \in Numbered' : y = new \/ y \in Numbered BY <1>2 DEF Numbered
<1>4. \A y \in Numbered : y.id \in Ids /\ y.id <= serial /\ uses[y.id] = 0 BY DEF Once, Unspent
<1>5. \A y \in Numbered : y.id # new.id BY <1>1, <1>4 DEF Once, Ids
<1>6. Unspent(Numbered)'
  <2>1. ASSUME NEW y \in Numbered' PROVE y.id \in Ids /\ y.id <= serial' /\ uses'[y.id] = 0
    <3>1. CASE y = new BY <1>1, <1>2, <3>1 DEF Once
    <3>2. CASE y \in Numbered BY <1>1, <1>2, <1>4, <3>2 DEF Once, Ids
    <3> QED BY <1>3, <3>1, <3>2
  <2>2. ASSUME NEW y \in Numbered', NEW z \in Numbered', y.id = z.id PROVE y = z
    BY <1>3, <1>5, <2>2 DEF Once, Unspent
  <2> QED BY <2>1, <2>2 DEF Unspent
<1>7. \A y \in Numbered' : y.id \notin spending' BY <1>1, <1>2, <1>3 DEF Once, Ids
<1>8. consents' \cap codes' = {} /\ (consents' \cup codes') \cap refresh' = {}
  BY <1>2, <1>5 DEF Once, Numbered
<1>9. \A i \in Ids : uses'[i] <= 1 /\ (i > serial' => uses'[i] = 0) BY <1>1, <1>2 DEF Once, Ids
<1>10. \A i \in spending' : i \in Ids /\ i <= serial' /\ uses'[i] = 0 BY <1>1, <1>2 DEF Once, Ids
<1> QED BY <1>1, <1>2, <1>6, <1>7, <1>8, <1>9, <1>10 DEF Once

LEMMA ApproveOnce ==
  ASSUME Once, NEW p \in consents, Approve(p)
  PROVE  Once'
<1> DEFINE new == [id |-> p.id, client |-> p.client, until |-> now + CodeTtl]
<1>1. /\ consents' = consents \ {p} /\ codes' = codes \cup {new}
      /\ UNCHANGED <<refresh, uses, serial, spending, saves>>
  BY DEF Approve, disk
<1>2. new.id = p.id OBVIOUS
<1> HIDE DEF new
<1>3. \A y \in Numbered' : y = new \/ (y \in Numbered /\ y # p) BY <1>1 DEF Numbered, Once
<1>4. p \in Numbered BY DEF Numbered
<1>5. \A y \in Numbered : y # p => y.id # new.id BY <1>2, <1>4 DEF Once, Unspent
<1>6. Unspent(Numbered)' BY <1>1, <1>2, <1>3, <1>4, <1>5 DEF Once, Unspent
<1>7. \A y \in Numbered' : y.id \notin spending' BY <1>1, <1>2, <1>3, <1>4 DEF Once
<1>8. consents' \cap codes' = {} /\ (consents' \cup codes') \cap refresh' = {}
  BY <1>1, <1>5 DEF Once, Numbered
<1> QED BY <1>1, <1>6, <1>7, <1>8 DEF Once

(* When a save of the server is through, what it spends is spent.          *)
LEMMA ReplacesOnce ==
  ASSUME OneSaves, Once, NEW s \in Savers, Replaces(s)
  PROVE  Once'
<1>1. /\ uses' = [i \in Ids |-> IF s = "server" /\ i \in spending THEN uses[i] + 1 ELSE uses[i]]
      /\ UNCHANGED <<consents, codes, refresh, serial>>
      /\ spending' = IF s = "server" THEN {} ELSE spending
      /\ s # "server" => saves'["server"] = saves["server"]
  BY DEF Replaces, Ends, memory
<1>2. uses' \in [Ids -> Nat] /\ \A i \in Ids : uses'[i] <= 1 BY <1>1 DEF Once
<1>3. \A i \in Ids : i \notin spending \/ s # "server" => uses'[i] = uses[i] BY <1>1
<1>4. \A i \in Ids : i > serial => uses'[i] = 0 BY <1>3 DEF Once, Ids
<1>5. \A i \in spending' : i \in Ids /\ i <= serial' /\ uses'[i] = 0 BY <1>1, <1>3 DEF Once
<1>6. Numbered' = Numbered BY <1>1 DEF Numbered
<1>7. \A x \in Numbered : x.id \in Ids /\ x.id <= serial /\ uses[x.id] = 0 /\ x.id \notin spending
  BY DEF Once, Unspent
<1>8. Unspent(Numbered)' BY <1>1, <1>3, <1>6, <1>7 DEF Once, Unspent
<1> QED BY <1>1, <1>2, <1>4, <1>5, <1>6, <1>7, <1>8 DEF Once

(* A save that no other overlaps puts down what may be exchanged.          *)
LEMMA DumpsSavedOnce ==
  ASSUME OneSaves, Once, Once', SavedOnce, NEW s \in Savers, Dumps(s), ~crossed',
         uses' = uses, serial' >= serial
  PROVE  SavedOnce'
<1>1. ASSUME NEW S \in Snapshots \cup Snapshots' PROVE Unspent(S.refresh)'
  <2>1. S \in Snapshots \/ S = [clients |-> clients', refresh |-> refresh'] BY DumpsWhat
  <2>2. CASE S \in Snapshots BY <2>2 DEF SavedOnce, Unspent, Once, Ids
  <2>3. CASE S.refresh = refresh' BY <2>3 DEF Unspent, Once, Numbered
  <2> QED BY <2>1, <2>2, <2>3
<1>2. \A S \in Underway("server")' : S.refresh = refresh' BY DumpsUnderway DEF Savers
<1>3. \A x \in refresh' : x.id \notin spending' BY DEF Once, Numbered
<1> QED BY <1>1, <1>2, <1>3 DEF SavedOnce

LEMMA SameSavedOnce ==
  ASSUME SavedOnce, Once, UNCHANGED <<uses, disk>>, serial' \in {serial, serial + 1}
  PROVE  SavedOnce'
<1>1. UNCHANGED <<Snapshots, Underway("server"), spending>> BY DEF Snapshots, Underway, disk
<1>2. ASSUME NEW S \in Snapshots PROVE Unspent(S.refresh)'
  BY DEF SavedOnce, Unspent, Once, Ids
<1> QED BY <1>1, <1>2 DEF SavedOnce

LEMMA SavingSavedOnce ==
  ASSUME OneSaves, Once, SavedOnce, ~crossed, NEW s \in Savers,
         Writes(s) \/ Replaces(s) \/ SaveRaises(s)
  PROVE  SavedOnce'
<1>1. CASE Writes(s)
  <2>1. Snapshots' \subseteq Snapshots \cup {Nothing} BY <1>1, SavingWhat
  <2>2. Underway("server")' \subseteq Underway("server") BY <1>1, WritesUnderway DEF Savers
  <2>3. UNCHANGED <<uses, serial, spending>> BY <1>1 DEF Writes, history
  <2> QED BY <2>1, <2>2, <2>3 DEF SavedOnce, Unspent, Nothing
<1>2. CASE Replaces(s)
  <2>1. Snapshots' \subseteq Underway(s) /\ Underway("server")' = {}
    BY <1>2, ReplacesUnderway DEF Savers
  <2>2. Underway(s) \subseteq Snapshots
    BY DEF Underway, Snapshots
  <2>3. serial' = serial /\ \A i \in Ids : i \notin spending \/ s # "server" => uses'[i] = uses[i]
    BY <1>2 DEF Replaces, Ends
  <2>4. ASSUME NEW S \in Underway(s) PROVE Unspent(S.refresh)'
    <3>1. Unspent(S.refresh) BY <2>2 DEF SavedOnce
    <3>2. s = "server" => \A x \in S.refresh : x.id \notin spending BY DEF SavedOnce
    <3> QED BY <2>3, <3>1, <3>2 DEF Unspent
  <2> QED BY <2>1, <2>4 DEF SavedOnce
<1>3. CASE SaveRaises(s)
  <2>1. Snapshots' \subseteq Snapshots /\ Underway("server")' = {}
    BY <1>3, RaisesUnderway DEF Savers
  <2>2. UNCHANGED <<uses, serial>> BY <1>3 DEF SaveRaises, Ends
  <2> QED BY <2>1, <2>2 DEF SavedOnce, Unspent
<1> QED BY <1>1, <1>2, <1>3

LEMMA NextOnce == OneSaves /\ NotUsedTwice /\ [Next]_vars => NotUsedTwice'
<1> SUFFICES ASSUME OneSaves, NotUsedTwice, [Next]_vars, cli' = Unused, ~misled', ~revived'
             PROVE  Once' /\ (~crossed' => SavedOnce')
  BY DEF NotUsedTwice
<1>1. cli = Unused /\ ~misled /\ ~revived /\ (~crossed' => ~crossed) BY Alone, NotUndone
<1>2. Once /\ (~crossed => SavedOnce) BY <1>1 DEF NotUsedTwice
<1>3. "server" \in Savers /\ "console" \in Savers BY DEF Savers
<1>4. ASSUME NEW s \in Savers, Dumps(s), UNCHANGED <<uses, serial, consents, codes>>,
             refresh' \subseteq refresh, spending' = spending
      PROVE  Once' /\ (~crossed' => SavedOnce')
  <2>1. saves'["server"] = Free => spending' = {}
    <3>1. saves'["server"] = IF s = "server"
                             THEN [pc |-> "dumped", what |-> [clients |-> clients', refresh |-> refresh']]
                             ELSE saves["server"]
      BY <1>3, <1>4 DEF Dumps, OneSaves
    <3> QED BY <1>2, <1>4, <3>1 DEF Once, Free
  <2>2. Once' BY <1>2, <1>4, <2>1, FewerOnce
  <2>3. serial' >= serial BY <1>2, <1>4 DEF Once
  <2> QED BY <1>1, <1>2, <1>4, <2>2, <2>3, DumpsSavedOnce
<1>5. ASSUME UNCHANGED <<uses, disk>>, serial' \in {serial, serial + 1}
      PROVE  ~crossed' => SavedOnce'
  BY <1>1, <1>2, <1>5, SameSavedOnce
<1>6. ASSUME UNCHANGED <<uses, serial, disk>>, consents' \subseteq consents, codes' \subseteq codes,
             refresh' \subseteq refresh
      PROVE  Once' /\ (~crossed' => SavedOnce')
  <2>1. UNCHANGED <<saves, spending>> BY <1>6 DEF disk
  <2>2. Once' BY <1>2, <1>6, <2>1, FewerOnce DEF Once
  <2> QED BY <1>5, <1>6, <2>2
<1> USE DEF memory, history, console
<1>7. ASSUME NEW c \in Clients, Register(c) PROVE Once' /\ (~crossed' => SavedOnce')
  BY <1>3, <1>4, <1>7 DEF Register
<1>8. ASSUME NEW c \in Clients, Authorize(c) PROVE Once' /\ (~crossed' => SavedOnce')
  BY <1>2, <1>5, <1>8, AuthorizeOnce DEF Authorize, Fresh
<1>9. ASSUME NEW p \in consents, Approve(p) PROVE Once' /\ (~crossed' => SavedOnce')
  BY <1>2, <1>5, <1>9, ApproveOnce DEF Approve
<1>10. ASSUME NEW p \in consents, Deny(p) PROVE Once' /\ (~crossed' => SavedOnce')
  BY <1>6, <1>10 DEF Deny
<1>11. ASSUME NEW h \in Handlers, NEW c \in Clients, NEW x,
              PresentCode(h, c, x) \/ PresentRefresh(h, c, x)
       PROVE  Once' /\ (~crossed' => SavedOnce')
  BY <1>6, <1>11 DEF PresentCode, PresentRefresh
<1>12. ASSUME NEW h \in Handlers, ExchangeCode(h) \/ ExchangeRefresh(h)
       PROVE  Once' /\ (~crossed' => SavedOnce')
  <2> DEFINE x == handler[h].item
  <2>1. PICK c : x \in codes \cup refresh /\ codes' = codes \ {x} /\ Issue(h, c, x)
    <3>1. CASE ExchangeCode(h) BY <3>1 DEF ExchangeCode, Live
    <3>2. CASE ExchangeRefresh(h)
      <4>1. x \in refresh /\ codes' = codes /\ Issue(h, x.client, x) BY <3>2 DEF ExchangeRefresh
      <4>2. codes' = codes \ {x} BY <1>2, <4>1 DEF Once
      <4> QED BY <4>1, <4>2
    <3> QED BY <1>12, <3>1, <3>2
  <2> HIDE DEF x
  <2>2. Once' BY <1>2, <2>1, IssueOnce
  <2>3. Dumps("server") /\ uses' = uses /\ serial' >= serial
    BY <1>2, <2>1 DEF Issue, Fresh, Once
  <2> QED BY <1>1, <1>2, <1>3, <2>2, <2>3, DumpsSavedOnce
<1>13. ASSUME NEW h \in Handlers, Refuse(h) PROVE Once' /\ (~crossed' => SavedOnce')
  BY <1>6, <1>13 DEF Refuse
<1>14. ASSUME NEW x \in access \cup refresh, Revoke(x) PROVE Once' /\ (~crossed' => SavedOnce')
  BY <1>3, <1>4, <1>14 DEF Revoke
<1>15. ASSUME NEW c \in Clients, ForgetDrops(c) PROVE Once' /\ (~crossed' => SavedOnce')
  BY <1>6, <1>15 DEF ForgetDrops
<1>16. CASE RebuildsAccess \/ RebuildsRefresh \/ RebuildRaises
  <2>1. refresh' \subseteq refresh
    BY <1>16 DEF RebuildsAccess, RebuildsRefresh, RebuildRaises
  <2> QED BY <1>6, <1>16, <2>1 DEF RebuildsAccess, RebuildsRefresh, RebuildRaises
<1>17. CASE ForgetSaves \/ RotateSaves
  BY <1>3, <1>4, <1>17 DEF ForgetSaves, RotateSaves
<1>18. ASSUME NEW s \in Savers, Writes(s) \/ Replaces(s) \/ SaveRaises(s)
       PROVE  Once' /\ (~crossed' => SavedOnce')
  <2>1. Once'
    <3>1. CASE Writes(s)
      <4>1. saves'["server"] = Free => saves["server"] = Free
        BY <1>3, <3>1 DEF Writes, OneSaves, Free
      <4> QED BY <1>2, <3>1, <4>1, FewerOnce DEF Writes, Once
    <3>2. CASE Replaces(s) BY <1>2, <3>2, ReplacesOnce
    <3>3. CASE SaveRaises(s)
      <4>1. /\ UNCHANGED <<uses, serial, consents, codes, refresh>>
            /\ spending' = IF s = "server" THEN {} ELSE spending
            /\ s # "server" => saves'["server"] = saves["server"]
        BY <3>3 DEF SaveRaises, Ends
      <4> QED BY <1>2, <4>1, FewerOnce DEF Once
    <3> QED BY <1>18, <3>1, <3>2, <3>3
  <2> QED BY <1>1, <1>2, <1>18, <2>1, SavingSavedOnce
<1>19. ASSUME NEW c \in Clients, CliRevokes(c) PROVE FALSE BY <1>1, <1>19 DEF CliRevokes, Unused
<1>20. ASSUME CliLoads PROVE FALSE BY <1>1, <1>20 DEF CliLoads, Idle, Unused
<1>21. CASE Restart
  <2>1. SavedOnce /\ file \in Snapshots BY <1>1, <1>2, <1>21 DEF Restart, Snapshots
  <2>2. /\ consents' = {} /\ codes' = {} /\ refresh' \subseteq file.refresh /\ spending' = {}
        /\ UNCHANGED <<uses, serial>>
    BY <1>21 DEF Restart, Live
  <2>3. Snapshots' = {file} /\ Underway("server")' = {}
    BY <1>3, <1>21 DEF Restart, Snapshots, Underway, Free
  <2>4. Unspent(file.refresh) BY <2>1 DEF SavedOnce
  <2>5. Unspent(Numbered)' BY <2>2, <2>4 DEF Unspent, Numbered
  <2>6. Once' BY <1>2, <2>2, <2>5 DEF Once
  <2> QED BY <2>2, <2>3, <2>4, <2>6 DEF SavedOnce, Unspent
<1>22. CASE Tick \/ UNCHANGED vars BY <1>6, <1>22 DEF Tick, vars, disk
<1> QED BY <1>7, <1>8, <1>9, <1>10, <1>11, <1>12, <1>13, <1>14, <1>15, <1>17, <1>18, <1>19, <1>20,
           <1>21, <1>22, <1>16 DEF Next, Serve

(* A code and a refresh token are exchanged once, however many requests    *)
(* present them at the same time, wherever the server is stopped in them   *)
(* and whatever it then loads, as long as nothing but the server writes    *)
(* the file, one save at a time before a restart, and no revocation puts   *)
(* back what was spent while it went through the tokens.                   *)
THEOREM ExchangedOnce == Spec => []SingleUse
<1>1. NotUsedTwice => SingleUse BY DEF NotUsedTwice, Once, SingleUse
<1> QED BY <1>1, InitOnce, NextOnce, InitOneSaves, NextOneSaves, PTL DEF Spec

-----------------------------------------------------------------------------
(* A client that is being forgotten is in no store but the file, nor is    *)
(* one that was only dropped; and one that was forgotten is not there      *)
(* either, nor in what is on its way there.                                *)
Out == clients \cap (gone \cup failed \cup forgetting) = {}

SavedOut ==
  /\ \A S \in Snapshots : S.clients \cap gone = {}
  /\ \A S \in Underway("console") : S.clients \cap forgetting = {}

StaysOut == cli = Unused /\ ~misled => Out /\ (~crossed => SavedOut)

LEMMA InitOut == Init => StaysOut
<1> SUFFICES ASSUME Init PROVE Out /\ SavedOut BY DEF StaysOut
<1>1. Snapshots = {Nothing} /\ Underway("console") = {}
  BY DEF Init, Snapshots, Underway, Free, Savers
<1> QED BY <1>1 DEF Init, Out, SavedOut, Nothing

LEMMA DumpsSavedOut ==
  ASSUME OneSaves, Out', SavedOut, NEW s \in Savers, Dumps(s), ~crossed', gone' = gone
  PROVE  SavedOut'
<1>1. ASSUME NEW S \in Snapshots' PROVE S.clients \cap gone' = {}
  <2>1. S \in Snapshots \/ S = [clients |-> clients', refresh |-> refresh'] BY DumpsWhat
  <2> QED BY <2>1 DEF Out, SavedOut
<1>2. \A S \in Underway("console")' : S.clients = clients' BY DumpsUnderway DEF Savers
<1> QED BY <1>1, <1>2 DEF SavedOut, Out

(* The owner is told that a client is revoked when the file has it no more.*)
LEMMA SavingSavedOut ==
  ASSUME OneSaves, Out, SavedOut, ~crossed, NEW s \in Savers,
         Writes(s) \/ Replaces(s) \/ SaveRaises(s)
  PROVE  SavedOut'
<1>1. CASE Writes(s)
  <2>1. Snapshots' \subseteq Snapshots \cup {Nothing} BY <1>1, SavingWhat
  <2>2. Underway("console")' \subseteq Underway("console") BY <1>1, WritesUnderway DEF Savers
  <2>3. UNCHANGED <<gone, forgetting>> BY <1>1 DEF Writes, history, console
  <2> QED BY <2>1, <2>2, <2>3 DEF SavedOut, Nothing
<1>2. CASE Replaces(s)
  <2>1. Snapshots' \subseteq Underway(s) /\ Underway("console")' = {}
    BY <1>2, ReplacesUnderway DEF Savers
  <2>2. Underway(s) \subseteq Snapshots BY DEF Underway, Snapshots
  <2>3. gone' = IF s = "console" THEN gone \cup forgetting ELSE gone
    BY <1>2 DEF Replaces, Ends
  <2>4. \A S \in Underway(s) : S.clients \cap gone' = {} BY <2>2, <2>3 DEF SavedOut
  <2> QED BY <2>1, <2>4 DEF SavedOut
<1>3. CASE SaveRaises(s)
  <2>1. Snapshots' \subseteq Snapshots /\ Underway("console")' = {}
    BY <1>3, RaisesUnderway DEF Savers
  <2> QED BY <1>3, <2>1 DEF SavedOut, SaveRaises
<1> QED BY <1>1, <1>2, <1>3

LEMMA NextOut == OneSaves /\ StaysOut /\ [Next]_vars => StaysOut'
<1> SUFFICES ASSUME OneSaves, StaysOut, [Next]_vars, cli' = Unused, ~misled'
             PROVE  Out' /\ (~crossed' => SavedOut')
  BY DEF StaysOut
<1>1. cli = Unused /\ ~misled /\ (~crossed' => ~crossed) BY Alone, NotUndone
<1>2. Out /\ (~crossed => SavedOut) BY <1>1 DEF StaysOut
<1>3. "server" \in Savers /\ "console" \in Savers BY DEF Savers
<1>4. ASSUME NEW s \in Savers, Dumps(s), UNCHANGED <<gone, failed, forgetting>>,
             clients' \cap (gone \cup failed \cup forgetting) = {}
      PROVE  Out' /\ (~crossed' => SavedOut')
  <2>1. Out' BY <1>4 DEF Out
  <2> QED BY <1>1, <1>2, <1>4, <2>1, DumpsSavedOut
<1>5. ASSUME UNCHANGED <<clients, disk, forgetting, failed, gone>> PROVE Out' /\ (~crossed' => SavedOut')
  <2>1. UNCHANGED <<Snapshots, Underway("console")>> BY <1>5 DEF Snapshots, Underway, disk
  <2> QED BY <1>1, <1>2, <1>5, <2>1 DEF Out, SavedOut
<1> USE DEF memory, history, console
<1>6. ASSUME NEW c \in Clients, Register(c) PROVE Out' /\ (~crossed' => SavedOut')
  <2>1. clients' \cap (gone \cup failed \cup forgetting) = {} BY <1>2, <1>6 DEF Register, Out
  <2> QED BY <1>3, <1>4, <1>6, <2>1 DEF Register
<1>7. ASSUME NEW h \in Handlers, ExchangeCode(h) \/ ExchangeRefresh(h)
      PROVE  Out' /\ (~crossed' => SavedOut')
  <2>1. Dumps("server") /\ UNCHANGED <<clients, gone, failed, forgetting>>
    BY <1>7 DEF ExchangeCode, ExchangeRefresh, Issue
  <2> QED BY <1>2, <1>3, <1>4, <2>1 DEF Out
<1>8. ASSUME NEW x \in access \cup refresh, Revoke(x) PROVE Out' /\ (~crossed' => SavedOut')
  <2>1. Dumps("server") /\ UNCHANGED <<clients, gone, failed, forgetting>> BY <1>8 DEF Revoke
  <2> QED BY <1>2, <1>3, <1>4, <2>1 DEF Out
<1>9. ASSUME Serve PROVE Out' /\ (~crossed' => SavedOut')
  <2>1. \/ \E c \in Clients : Register(c)
        \/ \E h \in Handlers : ExchangeCode(h) \/ ExchangeRefresh(h)
        \/ \E x \in access \cup refresh : Revoke(x)
        \/ UNCHANGED <<clients, disk, forgetting, failed, gone>>
    BY <1>9 DEF Serve, Authorize, Approve, Deny, PresentCode, PresentRefresh, Refuse, disk
  <2> QED BY <1>5, <1>6, <1>7, <1>8, <2>1
<1>10. ASSUME NEW c \in Clients, ForgetDrops(c) PROVE Out' /\ (~crossed' => SavedOut')
  <2>1. /\ clients' = clients \ {c} /\ forgetting = {} /\ forgetting' = {c}
        /\ UNCHANGED <<gone, failed>> /\ saves["console"] = Free /\ UNCHANGED disk
    BY <1>10 DEF ForgetDrops
  <2>2. UNCHANGED Snapshots /\ Underway("console")' = {}
    BY <2>1 DEF Snapshots, Underway, disk, Free
  <2> QED BY <1>1, <1>2, <2>1, <2>2 DEF Out, SavedOut
<1>11. CASE ForgetSaves \/ RotateSaves
  <2>1. Dumps("console") /\ UNCHANGED <<clients, gone, failed, forgetting>>
    BY <1>11 DEF ForgetSaves, RotateSaves
  <2> QED BY <1>2, <1>3, <1>4, <2>1 DEF Out
<1>12. ASSUME NEW s \in Savers, Writes(s) \/ Replaces(s) \/ SaveRaises(s)
       PROVE  Out' /\ (~crossed' => SavedOut')
  <2>1. /\ clients' = clients
        /\ gone' \cup failed' \cup forgetting' \subseteq gone \cup failed \cup forgetting
    BY <1>12 DEF Writes, Replaces, SaveRaises, Ends
  <2>2. Out' BY <1>2, <2>1 DEF Out
  <2> QED BY <1>1, <1>2, <1>12, <2>2, SavingSavedOut
<1>13. ASSUME NEW c \in Clients, CliRevokes(c) PROVE FALSE BY <1>1, <1>13 DEF CliRevokes, Unused
<1>14. ASSUME CliLoads PROVE FALSE BY <1>1, <1>14 DEF CliLoads, Idle, Unused
<1>15. CASE Restart
  <2>1. SavedOut /\ file \in Snapshots BY <1>1, <1>2, <1>15 DEF Restart, Snapshots
  <2>2. clients' = file.clients /\ forgetting' = {} /\ failed' = {} /\ gone' = gone BY <1>15 DEF Restart
  <2>3. Snapshots' = {file} /\ Underway("console")' = {}
    BY <1>3, <1>15 DEF Restart, Snapshots, Underway, Free
  <2> QED BY <2>1, <2>2, <2>3 DEF Out, SavedOut
<1>16. CASE RebuildsAccess \/ RebuildsRefresh
  BY <1>5, <1>16 DEF RebuildsAccess, RebuildsRefresh
<1>17. CASE RebuildRaises
  <2>1. /\ UNCHANGED <<clients, disk, gone>> /\ forgetting' = {} /\ failed' = failed \cup forgetting
    BY <1>17 DEF RebuildRaises
  <2>2. UNCHANGED <<Snapshots, Underway("console")>> BY <2>1 DEF Snapshots, Underway, disk
  <2> QED BY <1>1, <1>2, <2>1, <2>2 DEF Out, SavedOut
<1>18. CASE Tick \/ UNCHANGED vars BY <1>5, <1>18 DEF Tick, vars, disk
<1> QED BY <1>9, <1>10, <1>11, <1>12, <1>13, <1>14, <1>15, <1>18, <1>16, <1>17
        DEF Next

(* A client the console revoked has no working token, whatever it had      *)
(* under way, wherever the server is stopped and whatever it then loads,   *)
(* under the same conditions.                                              *)
THEOREM RevokedIsOut == Spec => []RevokedStaysOut
<1>1. StaysOut => RevokedStaysOut BY DEF StaysOut, Out, RevokedStaysOut, Usable
<1> QED BY <1>1, InitOut, NextOut, InitOneSaves, NextOneSaves, PTL DEF Spec

-----------------------------------------------------------------------------
(* The lockout.  Failures are dropped only when they are too old to count, *)
(* so whatever is not among them is older than the lockout.                *)
Dropped == \A g \in wrong : g \in failures \/ clock - g.at >= Lockout

Guarded == PairingTypeOK /\ IsFiniteSet(wrong) /\ Dropped /\ GuessesBounded

LEMMA InitGuarded == PairingInit => Guarded
<1> SUFFICES ASSUME PairingInit PROVE Guarded OBVIOUS
<1>1. wrong = {} /\ failures = {} /\ clock = 0 /\ code = 1 /\ saved = 1 /\ drawn = 1
  BY DEF PairingInit
<1>2. GuessesBounded
  <2>1. \A t : {g \in wrong : t <= g.at /\ g.at < t + Lockout} = {} BY <1>1
  <2> QED BY <2>1, FS_EmptySet, PairingAssumption DEF GuessesBounded
<1> QED BY <1>1, <1>2, FS_EmptySet DEF Guarded, PairingTypeOK, Dropped

(* A pardon leaves nothing to count.                                       *)
LEMMA PardonGuarded ==
  ASSUME Guarded, failures' = {}, wrong' = {}, UNCHANGED clock,
         drawn' \in Nat, code' \in 1 .. drawn', saved' \in 1 .. drawn'
  PROVE  Guarded'
<1>1. GuessesBounded'
  <2>1. \A t : {g \in wrong' : t <= g.at /\ g.at < t + Lockout} = {} OBVIOUS
  <2> QED BY <2>1, FS_EmptySet, PairingAssumption DEF GuessesBounded
<1> QED BY <1>1, FS_EmptySet DEF Guarded, PairingTypeOK, Dropped

(* The step that counts: the guess is compared, and every window it falls  *)
(* into holds, besides it, only failures that still count.                 *)
LEMMA WrongGuarded == ASSUME Guarded, WrongCode PROVE Guarded'
<1> DEFINE n == Cardinality(wrong)
           guess == [nth |-> n + 1, at |-> clock]
<1>1. /\ failures' = Recent(failures) \cup {guess} /\ wrong' = wrong \cup {guess}
      /\ UNCHANGED <<clock, code, saved, drawn>>
  BY DEF WrongCode
<1>2. /\ IsFiniteSet(wrong) /\ n \in Nat /\ clock \in Nat
      /\ \A g \in wrong : g.nth \in 1 .. n /\ g.at \in 0 .. clock
      /\ failures \subseteq wrong
  BY FS_CardinalityType DEF Guarded, PairingTypeOK
<1>3. guess \notin wrong /\ guess.nth = n + 1 /\ guess.at = clock BY <1>2
<1> HIDE DEF guess
<1>4. IsFiniteSet(wrong') /\ Cardinality(wrong') = n + 1 BY <1>1, <1>2, <1>3, FS_AddElement
<1>5. PairingTypeOK'
  <2>1. \A g \in wrong' : g.nth \in 1 .. n + 1 /\ g.at \in 0 .. clock
    BY <1>1, <1>2, <1>3
  <2>2. failures' \subseteq wrong' BY <1>1, <1>2 DEF Recent
  <2> QED BY <1>1, <1>4, <2>1, <2>2 DEF Guarded, PairingTypeOK
<1>6. Dropped'
  <2>1. ASSUME NEW g \in wrong PROVE g \in failures' \/ clock' - g.at >= Lockout
    <3>1. g.at \in Nat /\ Lockout \in Nat BY <1>2, PairingAssumption
    <3> QED BY <1>1, <1>2, <3>1 DEF Guarded, Dropped, Recent
  <2> QED BY <1>1, <2>1 DEF Dropped
<1>7. ASSUME NEW t \in 0 .. clock
      PROVE  Cardinality({g \in wrong' : t <= g.at /\ g.at < t + Lockout}) <= MaxAttempts
  <2> DEFINE W == {g \in wrong' : t <= g.at /\ g.at < t + Lockout}
  <2>1. CASE clock < t + Lockout
    <3> DEFINE R == Recent(failures)
    <3>1. IsFiniteSet(R) BY <1>2, FS_Subset DEF Recent
    <3>2. Cardinality(R) \in Nat /\ Cardinality(R) < MaxAttempts
      BY <3>1, FS_CardinalityType, PairingAssumption DEF WrongCode, LockedOut
    <3>3. ASSUME NEW g \in W PROVE g \in R \cup {guess}
      <4>1. CASE g \in wrong
        <5>1. g.at \in Nat /\ clock - g.at < Lockout BY <1>2, <2>1, <4>1, PairingAssumption
        <5>2. g \in failures BY <1>2, <4>1, <5>1, PairingAssumption DEF Guarded, Dropped
        <5> QED BY <5>1, <5>2 DEF Recent
      <4> QED BY <1>1, <4>1
    <3>4. /\ IsFiniteSet(R \cup {guess})
          /\ Cardinality(R \cup {guess}) \in Nat
          /\ Cardinality(R \cup {guess}) <= Cardinality(R) + 1
      <4> HIDE DEF R
      <4>1. /\ IsFiniteSet(R \cup {guess})
            /\ Cardinality(R \cup {guess}) =
                 IF guess \in R THEN Cardinality(R) ELSE Cardinality(R) + 1
        BY <3>1, FS_AddElement
      <4> QED BY <3>2, <4>1
    <3> HIDE DEF R
    <3>5. Cardinality(W) \in Nat /\ Cardinality(W) <= Cardinality(R \cup {guess})
      BY <3>3, <3>4, FS_Subset, FS_CardinalityType
    <3> QED BY <3>2, <3>4, <3>5, PairingAssumption
  <2>2. CASE ~(clock < t + Lockout)
    <3>1. W = {g \in wrong : t <= g.at /\ g.at < t + Lockout} BY <1>1, <1>3, <2>2
    <3> QED BY <3>1 DEF Guarded, GuessesBounded
  <2> QED BY <2>1, <2>2
<1>8. GuessesBounded' BY <1>1, <1>7 DEF GuessesBounded
<1> QED BY <1>4, <1>5, <1>6, <1>8 DEF Guarded

LEMMA NextGuarded == Guarded /\ [PairingNext]_pairingVars => Guarded'
<1> SUFFICES ASSUME Guarded, [PairingNext]_pairingVars PROVE Guarded' OBVIOUS
<1> USE PairingAssumption
<1>1. /\ clock \in Nat /\ drawn \in Nat /\ failures \subseteq wrong
      /\ \A g \in wrong : g.at \in 0 .. clock
  BY DEF Guarded, PairingTypeOK
<1>2. CASE Refused
  <2>1. \A g \in failures : g \in failures' \/ clock - g.at >= Lockout
    BY <1>1, <1>2 DEF Refused, Recent
  <2>2. failures' \subseteq failures BY <1>2 DEF Refused, Recent
  <2> QED BY <1>2, <2>1, <2>2 DEF Refused, Guarded, PairingTypeOK, Dropped, GuessesBounded
<1>3. CASE WrongCode BY <1>3, WrongGuarded
<1>4. CASE RightCode
  BY <1>4, PardonGuarded DEF RightCode, Guarded, PairingTypeOK
<1>5. CASE Rotate
  BY <1>1, <1>5, PardonGuarded DEF Rotate
<1>6. CASE Reboot
  BY <1>6, PardonGuarded DEF Reboot, Guarded, PairingTypeOK
<1>7. CASE Save \/ CliRotate
  BY <1>1, <1>7 DEF Save, CliRotate, Guarded, PairingTypeOK, Dropped, GuessesBounded
<1>8. CASE ClockTicks
  <2>1. clock' = clock + 1 /\ UNCHANGED <<code, saved, failures, drawn, wrong>>
    BY <1>8 DEF ClockTicks
  <2>2. Dropped' BY <1>1, <2>1 DEF Guarded, Dropped
  <2>3. PairingTypeOK' BY <1>1, <2>1 DEF Guarded, PairingTypeOK
  <2>4. ASSUME NEW t \in 0 .. clock'
        PROVE  Cardinality({g \in wrong : t <= g.at /\ g.at < t + Lockout}) <= MaxAttempts
    <3>1. CASE t \in 0 .. clock BY <3>1 DEF Guarded, GuessesBounded
    <3>2. CASE t = clock + 1
      <4>1. {g \in wrong : t <= g.at /\ g.at < t + Lockout} = {} BY <1>1, <3>2
      <4> QED BY <4>1, FS_EmptySet
    <3> QED BY <1>1, <2>1, <3>1, <3>2
  <2> QED BY <2>1, <2>2, <2>3, <2>4 DEF Guarded, GuessesBounded
<1>9. CASE UNCHANGED pairingVars
  BY <1>9 DEF pairingVars, Guarded, PairingTypeOK, Dropped, GuessesBounded
<1> QED BY <1>2, <1>3, <1>4, <1>5, <1>6, <1>7, <1>8, <1>9 DEF PairingNext

(* Between two pardons no stretch of the lockout's length sees more wrong  *)
(* codes compared than allowed, whatever the two are and however long it   *)
(* goes on.                                                                *)
THEOREM GuessingIsSlow == PairingSpec => []GuessesBounded
<1>1. Guarded => GuessesBounded BY DEF Guarded
<1> QED BY <1>1, InitGuarded, NextGuarded, PTL DEF PairingSpec
=============================================================================
