------------------------------ MODULE AuthStore ------------------------------
(***************************************************************************)
(* core/auth.py and mcp/auth.py: clients, consents, authorization codes    *)
(* and tokens, the file they survive in, and the three that change them:   *)
(* the HTTP handlers (one event loop: a handler is atomic between the      *)
(* awaits of the SDK), the console (one thread of the same process) and    *)
(* `ph auth` (a process of its own).  The first two save under no lock and *)
(* by way of one temporary file.  The pairing code and its lockout are     *)
(* module PairingCode; here a consent is approved by whoever has the code. *)
(***************************************************************************)
EXTENDS Naturals, FiniteSets

CONSTANTS Clients, Handlers,
          CodeTtl, AccessTtl, RefreshTtl,
          Beside,         \* {FALSE}, {TRUE} or both: is `ph auth revoke` used?
          MaxId,          \* bound: numbers drawn
          MaxTime, MaxRestarts   \* bounds

ASSUME AuthAssumption ==
  /\ {CodeTtl, AccessTtl, RefreshTtl, MaxId, MaxTime, MaxRestarts} \subseteq Nat
  /\ Beside \subseteq BOOLEAN

VARIABLES now,
          clients,        \* registered clients
          consents,       \* consent pages that wait for the pairing code
          codes, access, refresh,
          file,           \* the state file
          temp,           \* the temporary file, if there is one: a set
          saves,          \* how far the server and the console are with a save
          handler,        \* what each HTTP handler has loaded and not yet exchanged
          spending,       \* numbers the server has exchanged and not yet answered
          forgetting,     \* clients the console has dropped and not yet saved
          copy,           \* the tokens it is going through, without that client's
          cli,            \* what `ph auth` has loaded; Unused when it never runs
          serial, restarts,
          paired,         \* history: clients somebody entered the code for
          gone, cliGone,  \* history: clients revoked by the console, by the command
          failed,         \* history: clients it dropped, before an error and no restart since
          uses,           \* history: how often tokens were given for each code or token
          crossed, misled, \* history: two saves have overlapped since the last restart;
                          \* a restart has loaded what they left
          revived         \* history: a revocation has put back tokens that were spent

memory  == <<clients, consents, codes, access, refresh>>
disk    == <<file, temp, saves, spending, crossed>>
history == <<paired, gone, cliGone, failed, uses, misled, revived>>
console == <<forgetting, copy>>
vars == <<now, memory, disk, handler, console, cli, serial, restarts, history>>

Savers == {"server", "console"}
Free   == [pc |-> "free"]

Ids   == 1 .. MaxId
Idle   == [kind |-> "idle"]
Unused == [kind |-> "unused"]
Fresh == serial + 1
Room  == serial < MaxId
Items == [id : Ids, client : Clients, until : Nat]

Item(c, ttl) == [id |-> Fresh, client |-> c, until |-> now + ttl]
Live(S)      == {x \in S : x.until >= now}
Nothing      == [clients |-> {}, refresh |-> {}]
NoCopy       == [of |-> "nothing"]

Init ==
  /\ now = 0
  /\ clients = {} /\ consents = {} /\ codes = {} /\ access = {} /\ refresh = {}
  /\ file = Nothing /\ temp = {}
  /\ saves = [s \in Savers |-> Free]
  /\ handler = [h \in Handlers |-> Idle]
  /\ spending = {} /\ forgetting = {} /\ copy = NoCopy
  /\ cli \in {IF b THEN Idle ELSE Unused : b \in Beside}
  /\ serial = 0 /\ restarts = 0
  /\ paired = {} /\ gone = {} /\ cliGone = {} /\ failed = {}
  /\ uses = [i \in Ids |-> 0]
  /\ crossed = FALSE /\ misled = FALSE /\ revived = FALSE

-----------------------------------------------------------------------------
(* save: what there is to keep is written down,                            *)
Dumps(s) ==
  /\ saves[s] = Free
  /\ saves' = [saves EXCEPT ![s] = [pc |-> "dumped",
                                    what |-> [clients |-> clients', refresh |-> refresh']]]
  /\ crossed' = (crossed \/ \E t \in Savers : saves[t] # Free)
  /\ UNCHANGED <<file, temp>>

(* put into the temporary file, where another save at the same time may    *)
(* leave neither text whole (load() takes that for no file at all),        *)
Writes(s) ==
  /\ saves[s].pc = "dumped"
  /\ \/ temp' = {saves[s].what}
     \/ (\E t \in Savers \ {s} : saves[t] # Free) /\ temp' = {Nothing}
  /\ saves' = [saves EXCEPT ![s] = [pc |-> "written"]]
  /\ UNCHANGED <<now, memory, file, handler, spending, console, cli, serial, restarts,
                 crossed, history>>

(* and that takes the place of the file, whoever wrote it.                 *)
Ends(s) ==
  /\ saves' = [saves EXCEPT ![s] = Free]
  /\ spending' = IF s = "server" THEN {} ELSE spending
  /\ forgetting' = IF s = "console" THEN {} ELSE forgetting
  /\ UNCHANGED <<now, memory, handler, copy, cli, serial, restarts, crossed, paired, cliGone,
                 misled, revived>>

(* Then the caller goes on: the client is given its tokens, or the owner   *)
(* is told that a client is revoked.                                       *)
Replaces(s) ==
  /\ saves[s].pc = "written"
  /\ Ends(s)
  /\ file' \in temp /\ temp' = {}
  /\ gone' = gone \cup (forgetting \ forgetting')
  /\ uses' = [i \in Ids |-> IF s = "server" /\ i \in spending THEN uses[i] + 1 ELSE uses[i]]
  /\ UNCHANGED failed

(* Going through a dictionary raises RuntimeError once another thread has  *)
(* changed it; a request that presents what has expired deletes that.      *)
Disturbed(was, is) == was # is \/ Live(was) # was

(* save() raises: what it puts into text is changed meanwhile, or there is *)
(* no temporary file any more.  What is in memory stays as it is.          *)
SaveRaises(s) ==
  /\ \/ /\ saves[s].pc = "dumped"
        /\ \/ saves[s].what.clients # clients
           \/ s = "console" /\ Disturbed(saves[s].what.refresh, refresh)
     \/ saves[s].pc = "written" /\ temp = {}
  /\ Ends(s)
  /\ failed' = failed \cup (forgetting \ forgetting')
  /\ UNCHANGED <<file, temp, uses, gone>>

-----------------------------------------------------------------------------
(* register_client; the SDK draws a new id for every registration.         *)
Register(c) ==
  /\ c \notin clients \cup paired \cup gone \cup cliGone \cup failed \cup forgetting
  /\ clients' = clients \cup {c}
  /\ UNCHANGED <<now, consents, codes, access, refresh, handler, spending, console, cli,
                 serial, restarts, history>>
  /\ Dumps("server")

(* authorize: a consent page is opened for a registered client.            *)
Authorize(c) ==
  /\ c \in clients /\ Room
  /\ consents' = consents \cup {Item(c, CodeTtl)}
  /\ serial' = Fresh
  /\ UNCHANGED <<now, clients, codes, access, refresh, disk, handler, console, cli,
                 restarts, history>>

(* approve_consent, by somebody who has the pairing code.  The code may as *)
(* well have the page's number: the page is gone with it.                  *)
Approve(p) ==
  /\ p \in Live(consents)
  /\ consents' = consents \ {p}
  /\ codes' = codes \cup {[id |-> p.id, client |-> p.client, until |-> now + CodeTtl]}
  /\ paired' = paired \cup {p.client}
  /\ UNCHANGED <<now, clients, access, refresh, disk, handler, console, cli, serial,
                 restarts, gone, cliGone, failed, uses, misled, revived>>

Deny(p) ==
  /\ p \in consents
  /\ consents' = consents \ {p}
  /\ UNCHANGED <<now, clients, codes, access, refresh, disk, handler, console, cli, serial,
                 restarts, history>>

(* The token endpoint authenticates the client and loads what it presents; *)
(* the exchange itself comes after an await.                               *)
PresentCode_AnyClient(h, c, x) ==
  /\ handler[h] = Idle /\ c \in clients
  /\ x \in Live(codes)
  /\ handler' = [handler EXCEPT ![h] = [kind |-> "code", item |-> x, client |-> c]]
  /\ UNCHANGED <<now, memory, disk, console, cli, serial, restarts, history>>

PresentCode(h, c, x) ==
  /\ handler[h] = Idle /\ c \in clients
  /\ x \in Live(codes) /\ x.client = c
  /\ handler' = [handler EXCEPT ![h] = [kind |-> "code", item |-> x, client |-> c]]
  /\ UNCHANGED <<now, memory, disk, console, cli, serial, restarts, history>>

PresentRefresh(h, c, x) ==
  /\ handler[h] = Idle /\ c \in clients
  /\ x \in Live(refresh) /\ x.client = c
  /\ handler' = [handler EXCEPT ![h] = [kind |-> "refresh", item |-> x, client |-> c]]
  /\ UNCHANGED <<now, memory, disk, console, cli, serial, restarts, history>>

(* issue_tokens.                                                           *)
Issue(h, c, spent) ==
  /\ Room
  /\ serial' = Fresh
  /\ access'  = access \cup {Item(c, AccessTtl)}
  /\ refresh' = (refresh \ {spent}) \cup {Item(c, RefreshTtl)}
  /\ spending' = {spent.id}
  /\ handler' = [handler EXCEPT ![h] = Idle]
  /\ UNCHANGED <<now, clients, consents, console, cli, restarts, history>>
  /\ Dumps("server")

(* exchange_authorization_code: loaded again, consumed, and exchanged.     *)
ExchangeCode_Trusts(h) ==
  /\ handler[h].kind = "code"
  /\ codes' = codes \ {handler[h].item}
  /\ Issue(h, handler[h].client, handler[h].item)

ExchangeCode(h) ==
  /\ handler[h].kind = "code"
  /\ handler[h].item \in Live(codes)
  /\ codes' = codes \ {handler[h].item}
  /\ Issue(h, handler[h].client, handler[h].item)

(* exchange_refresh_token: taken out, and replaced.                        *)
ExchangeRefresh(h) ==
  /\ handler[h].kind = "refresh"
  /\ handler[h].item \in refresh
  /\ UNCHANGED codes
  /\ Issue(h, handler[h].item.client, handler[h].item)

(* What was loaded is no longer there: invalid_grant.                      *)
Refuse(h) ==
  /\ handler[h] # Idle
  /\ handler[h].item \notin Live(codes) \cup refresh
  /\ handler' = [handler EXCEPT ![h] = Idle]
  /\ UNCHANGED <<now, memory, disk, console, cli, serial, restarts, history>>

(* revoke: one token, access or refresh.                                   *)
Revoke(x) ==
  /\ x \in access \cup refresh
  /\ access' = access \ {x} /\ refresh' = refresh \ {x}
  /\ UNCHANGED <<now, clients, consents, codes, handler, spending, console, cli, serial,
                 restarts, history>>
  /\ Dumps("server")

-----------------------------------------------------------------------------
(* forget_client, from the console's thread: the client is dropped, and    *)
(* the tokens are copied but for its own, the access tokens first.         *)
Kept(S) == {x \in S : x.client \notin forgetting}

ForgetDrops(c) ==
  /\ saves["console"] = Free /\ forgetting = {}
  /\ c \in clients
  /\ clients' = clients \ {c}
  /\ forgetting' = {c}
  /\ copy' = [of |-> "access", was |-> access]
  /\ UNCHANGED <<now, consents, codes, access, refresh, disk, handler, cli, serial, restarts,
                 history>>

(* The event loop may change a dictionary while it is gone through.  If    *)
(* its size is what it was, the copy may have what is there no more, and   *)
(* lack what is there.                                                     *)
Rebuilt(was, is) ==
  {Kept(is)} \cup {Kept(S) : S \in {T \in SUBSET (was \cup is) :
                       /\ was # is
                       /\ Cardinality(Live(is)) <= Cardinality(was)
                       /\ Cardinality(Live(was)) <= Cardinality(is)
                       /\ Cardinality(T) \in 1 .. Cardinality(was)}}

RebuildsAccess ==
  /\ copy.of = "access"
  /\ access' \in Rebuilt(copy.was, access)
  /\ copy' = [of |-> "refresh", was |-> refresh]
  /\ UNCHANGED <<now, clients, consents, codes, refresh, disk, handler, forgetting, cli, serial,
                 restarts, history>>

RebuildsRefresh ==
  /\ copy.of = "refresh"
  /\ refresh' \in Rebuilt(copy.was, refresh)
  /\ copy' = NoCopy
  /\ revived' = (revived \/ ~(refresh' \subseteq refresh))
  /\ UNCHANGED <<now, clients, consents, codes, access, disk, handler, forgetting, cli, serial,
                 restarts, paired, gone, cliGone, failed, uses, misled>>

(* Or the copying raises, and nothing is saved.                            *)
RebuildRaises ==
  /\ \/ copy.of = "access" /\ Disturbed(copy.was, access)
     \/ copy.of = "refresh" /\ Disturbed(copy.was, refresh)
  /\ forgetting' = {} /\ copy' = NoCopy
  /\ failed' = failed \cup forgetting
  /\ UNCHANGED <<now, memory, disk, handler, cli, serial, restarts, paired, gone, cliGone, uses,
                 misled, revived>>

(* ... and saved.                                                          *)
ForgetSaves ==
  /\ forgetting # {} /\ copy = NoCopy
  /\ UNCHANGED <<now, memory, handler, spending, console, cli, serial, restarts, history>>
  /\ Dumps("console")

(* rotate_pairing_code saves the clients and tokens with the code (bound:  *)
(* not after the last restart, when the file is not loaded any more).      *)
RotateSaves ==
  /\ forgetting = {} /\ restarts < MaxRestarts
  /\ UNCHANGED <<now, memory, handler, spending, console, cli, serial, restarts, history>>
  /\ Dumps("console")

(* `ph auth revoke`: loads the file, drops the client, saves its own copy  *)
(* (here in one step).                                                     *)
CliLoads ==
  /\ cli = Idle
  /\ cli' = [kind |-> "loaded", clients |-> file.clients, refresh |-> Live(file.refresh)]
  /\ UNCHANGED <<now, memory, disk, handler, console, serial, restarts, history>>

CliRevokes(c) ==
  /\ cli.kind = "loaded" /\ c \in cli.clients
  /\ file' = [clients |-> cli.clients \ {c}, refresh |-> {x \in cli.refresh : x.client # c}]
  /\ cli' = Idle
  /\ cliGone' = cliGone \cup {c}
  /\ UNCHANGED <<now, memory, temp, saves, spending, crossed, handler, console, serial,
                 restarts, paired, gone, failed, uses, misled, revived>>

(* The server is stopped, wherever it is, and started: load().  What a     *)
(* temporary file is left is written anew before it is used.               *)
Restart ==
  /\ restarts < MaxRestarts
  /\ restarts' = restarts + 1
  /\ clients' = file.clients
  /\ refresh' = Live(file.refresh)
  /\ consents' = {} /\ codes' = {} /\ access' = {}
  /\ handler' = [h \in Handlers |-> Idle]
  /\ temp' = {} /\ saves' = [s \in Savers |-> Free]
  /\ spending' = {} /\ forgetting' = {} /\ copy' = NoCopy /\ failed' = {}
  /\ misled' = (misled \/ crossed) /\ crossed' = FALSE
  /\ UNCHANGED <<now, file, cli, serial, paired, gone, cliGone, uses, revived>>

Tick ==
  /\ now < MaxTime
  /\ now' = now + 1
  /\ UNCHANGED <<memory, disk, handler, console, cli, serial, restarts, history>>

(* While the server saves, its event loop serves nobody.                   *)
Serve ==
  /\ saves["server"] = Free
  /\ \/ \E c \in Clients : Register(c) \/ Authorize(c)
     \/ \E p \in consents : Approve(p) \/ Deny(p)
     \/ \E h \in Handlers, c \in Clients :
          \/ \E x \in codes : PresentCode(h, c, x)
          \/ \E x \in refresh : PresentRefresh(h, c, x)
     \/ \E h \in Handlers : ExchangeCode(h) \/ ExchangeRefresh(h) \/ Refuse(h)
     \/ \E x \in access \cup refresh : Revoke(x)

Next == \/ Serve
        \/ \E c \in Clients : ForgetDrops(c) \/ CliRevokes(c)
        \/ RebuildsAccess \/ RebuildsRefresh \/ RebuildRaises
        \/ ForgetSaves \/ RotateSaves
        \/ \E s \in Savers : Writes(s) \/ Replaces(s) \/ SaveRaises(s)
        \/ CliLoads \/ Restart \/ Tick

Spec == Init /\ [][Next]_vars

-----------------------------------------------------------------------------
TypeOK ==
  /\ clients \subseteq Clients
  /\ consents \cup codes \cup access \cup refresh \cup file.refresh \subseteq Items
  /\ Cardinality(temp) <= 1 /\ \A s \in Savers : saves[s].pc \in {"free", "dumped", "written"}
  /\ \A S \in {codes, access, refresh, file.refresh} : \A x, y \in S : x.id = y.id => x = y

(* load_access_token: what opens the tools to a caller.                    *)
Usable_NoClient(x) == x \in Live(access)

Usable(x) == x \in Live(access) /\ x.client \in clients

(* Whoever holds a working token, or could refresh one after a restart,    *)
(* belongs to a client for which the pairing code was entered (PRD 10.6,   *)
(* auth.py:8-14).                                                          *)
OnlyPaired ==
  \A x \in access \cup refresh \cup file.refresh : x.client \in paired

(* Tokens are given at most once for a code and a refresh token, whatever  *)
(* requests overlap, and also when the server is stopped at any point and  *)
(* started again, unless saves overlapped before that, the command line    *)
(* was used, or a revocation copied the tokens while one was exchanged     *)
(* and so put back what was spent (auth.py:181, 277-279, 324-330).         *)
SingleUse == cli = Unused /\ ~misled /\ ~revived => \A i \in Ids : uses[i] <= 1

(* A client the console revoked has no working token, and gets none by a   *)
(* request that was under way, by what the copying puts back or, unless    *)
(* saves overlapped before it or the command line was used, by a restart;  *)
(* nor has one that was dropped before the revocation raised, until a      *)
(* restart (auth.py:175-185).                                              *)
RevokedStaysOut ==
  cli = Unused /\ ~misled => \A x \in access : Usable(x) => x.client \notin gone \cup failed

(* What the code does not keep: the two without the conditions.  A save    *)
(* that wrote down what there was before another one began may replace the *)
(* other's file, and the next start loads what was spent or revoked; and a *)
(* revocation that is interrupted puts back what is spent with no restart. *)
SpentForGood   == cli = Unused => \A i \in Ids : uses[i] <= 1
SpentForNow    == cli = Unused /\ restarts = 0 => \A i \in Ids : uses[i] <= 1
RevokedForGood == cli = Unused => file.clients \cap gone = {}

(* What `ph auth revoke` prints: the tokens stop working immediately       *)
(* (cli.py:363).                                                           *)
CliRevokeWorks == \A x \in access : Usable(x) => x.client \notin cliGone
=============================================================================
