---------------------------- MODULE PolicyEngine ----------------------------
(***************************************************************************)
(* core/policy/engine.py: the engine, the list of rules it keeps, and a    *)
(* command line that a shell call is about to carry, as somebody writes    *)
(* it.  remember and forget change the list and the edits the line; decide *)
(* is a question that can be asked in any state, so the properties ask it  *)
(* of every call at once.                                                  *)
(***************************************************************************)
EXTENDS Commands

CONSTANTS Requests,     \* the calls that can be judged, but for the one being written
          Workspaces,   \* the workspaces they can be made in
          Rules,        \* the rules somebody can set
          Times,        \* the moments they can be judged at
          Phrases,      \* the commands a line can be written from
          MaxRules,     \* bound: the list is not grown past it
          MaxLine,      \* bound: simple commands in the line
          MaxExtras,    \* bound: redirects and wrappers in the line
          RulesBeside   \* bound: rules set beside a line that is not full

(* Code is handed to interpreters only; a mode that is written down is     *)
(* never full access, which is granted for a time (config.py:145).         *)
ASSUME EngineAssumption ==
  /\ MaxDepth \in Nat /\ MaxPayloadDepth \in Nat /\ MaxPayloadDepth > 1
  /\ \A c \in Phrases : c \in Command /\ (c.code # "none" => c.prog = "interpreter")
  /\ \A w \in Workspaces : w.mode \in Modes \ {"full_access"} /\ w.elevated \in BOOLEAN

VARIABLES rules, line

vars == <<rules, line>>

Init == rules = <<>> /\ line = <<>>

RoomForRules == CASE line = <<>>         -> MaxRules
                  [] Len(line) < MaxLine -> RulesBeside
                  [] OTHER               -> 0

Remember(r) == /\ Len(rules) < RoomForRules
               /\ rules' = RememberRule(rules, r)
               /\ UNCHANGED line

Forget(r) == /\ rules' = ForgetRule(rules, r)
             /\ UNCHANGED line

-----------------------------------------------------------------------------
(* The edits, made before there are rules: a command after the others (;,  *)
(* &&, |), one in a $( ) of command i or of its redirect's target, one in  *)
(* the code interpreter i is given, the one that container command i runs  *)
(* inside, a redirect, a wrapper or an assignment.  What is substituted or *)
(* redirected beside a command inside a container is the container         *)
(* command's, on the host; more code in the first words of code whose      *)
(* quotes are lost is left out.                                            *)
Extras == Cardinality({i \in DOMAIN line : line[i].dressed # "no"})
          + Cardinality({i \in DOMAIN line : line[i].target # "none"})

Write(c, how, i) ==
  /\ Len(line) < MaxLine /\ rules = <<>>
  /\ line' = Append(line, Place(line, c, how, i))
  /\ UNCHANGED rules

WriteAfter(c) == Write(c, "after", 0)

Substitute(c, i) == line[i].how # "inside" /\ Write(c, "substituted", i)

SubstituteTarget(c, i) == line[i].target # "none" /\ Write(c, "target", i)

HandOver(c, i) == /\ line[i].prog = "interpreter" /\ line[i].code # "missing"
                  /\ ~Leads(line, i)
                  /\ line[i].how = "inside" => c.code = "none"
                  /\ Write(c, "payload", i)

RunInside(c, i) == /\ line[i].prog = "container" /\ ~Leads(line, i)
                   /\ ~\E j \in DOMAIN line : line[j].how = "inside" /\ line[j].up = i
                   /\ Write(c, "inside", i)

Redirect(i, target) ==
  /\ Extras < MaxExtras /\ rules = <<>>
  /\ line[i].target = "none" /\ line[i].how # "inside"
  /\ line' = [line EXCEPT ![i].target = target]
  /\ UNCHANGED rules

Dress(i, dress) ==
  /\ Extras < MaxExtras /\ rules = <<>>
  /\ line[i].dressed = "no"
  /\ line' = [line EXCEPT ![i].dressed = dress]
  /\ UNCHANGED rules

Edit == \/ \E c \in Phrases : WriteAfter(c)
        \/ \E i \in DOMAIN line :
             \/ \E c \in Phrases : \/ Substitute(c, i) \/ SubstituteTarget(c, i)
                                   \/ HandOver(c, i) \/ RunInside(c, i)
             \/ \E target \in {"over", "beside"} : Redirect(i, target)
             \/ \E dress \in {"wrapped", "operand"} : Dress(i, dress)

Next == \/ \E r \in Rules : Remember(r) \/ Forget(r)
        \/ Edit

Spec == Init /\ [][Next]_vars

-----------------------------------------------------------------------------
(* The call that carries the line; its words are those of its first        *)
(* command.  While there are rules the line does not change.               *)
LineCall == LET found == Classify(line)
            IN  [session |-> "s1", tool |-> "shell", op |-> "none", payload |-> "the line",
                 tier |-> EXEC_OTHER, cmd |-> TRUE, cmdTier |-> found.tier,
                 listed |-> found.listed,
                 line |-> IF line[1].listed /\ line[1].dressed = "no" THEN <<"npm", "test">>
                          ELSE <<"make">>]

Calls == IF line = <<>> THEN Requests ELSE {LineCall}

Verdict(q, w, now) == Decide(q, w, rules, now)

(* No rule, no mode and no elevation lets a forbidden call through, or a   *)
(* push out of a workspace that does not push (engine.py:131-146).         *)
NothingReachesPast ==
  \A q \in Calls, w \in Workspaces, now \in Times :
    \/ CombinedTier(q) = FORBIDDEN
    \/ CombinedTier(q) = EGRESS /\ IsPush(q) /\ ~w.push
    => Verdict(q, w, now).decision = "deny"

(* A deny rule beats every allow rule, whichever is newer, and every mode  *)
(* (engine.py:157-181).                                                    *)
DenyWins ==
  \A q \in Calls, w \in Workspaces, now \in Times :
    (\E i \in DOMAIN rules : rules[i].action = "deny" /\ Matches(rules[i], q, w, now))
    => Verdict(q, w, now).decision = "deny"

(* A rule bound to a payload widens to no other call: whatever else its    *)
(* tool, its workspace or its session do is judged as before, and so is    *)
(* the same call in another workspace, or another conversation when the    *)
(* approval was for one conversation (rules.py:80-88, gateway.py:77-97).   *)
RememberNeverWidens ==
  [][Len(rules') > Len(rules) /\ rules'[1].payload # <<>> =>
       LET r == rules'[1]
       IN  \A q \in Calls, w \in Workspaces, now \in Times :
             \/ Decide(q, w, rules', now) = Decide(q, w, rules, now)
             \/ /\ <<q.tool, q.op, q.payload>> = r.payload
                /\ r.workspace \in {"any", w.alias}
                /\ r.session \in {"any", q.session}]_vars

-----------------------------------------------------------------------------
(* The commands nobody reads, whatever the words are: in the target of a   *)
(* redirect, in code behind a wrapper or a flag like -lc, in code that     *)
(* does not parse, inside a container behind a wrapper's operand, and what *)
(* is nested in those.  What is substituted in the first words of code     *)
(* whose quotes are lost stands in the container's text.                   *)
Holder(l, i) == IF l[i].how = "substituted" /\ Leads(l, l[i].up)
                THEN l[l[i].up].up ELSE l[i].up

Overlooked(l) ==
  LET missed[i \in DOMAIN l] ==
        /\ l[i].how # "after"
        /\ \/ missed[Holder(l, i)]
           \/ l[i].how = "target"
           \/ l[i].how = "inside" /\ l[l[i].up].dressed = "operand"
           \/ /\ l[i].how = "payload" /\ (Joined(l, i) => Leads(l, i))
              /\ ~LooksFor(l[l[i].up]) \/ Unparsable(l, l[i].text)
  IN  {i \in DOMAIN l : missed[i]}

(* Whatever stands beside it or around it, in a substitution, in code      *)
(* handed to an interpreter or inside a container: a command that is taken *)
(* for one that destroys or discards data, and a download next to an       *)
(* interpreter, is refused, whatever the rules and the mode say, unless it *)
(* stands where nobody reads (commands.py:651-730).                        *)
HidingDoesNotHelp ==
  LET read == DOMAIN line \ Overlooked(line)
      Has(prog, scope) == \E i \in read : Seen(line, i) = prog /\ line[i].scope = scope
  IN  \/ \E i \in read : Seen(line, i) \in {"destroys", "discards"}
      \/ \E s \in 0 .. Len(line) : Has("fetches", s) /\ Has("interpreter", s)
      => LET call == LineCall
         IN  \A w \in Workspaces, now \in Times : Verdict(call, w, now).decision = "deny"

(* A shell call that goes ahead without a rule, an elevation or a question *)
(* begins with an allowlisted command that nobody dressed up, that         *)
(* truncates no file and shows no code to be read; whatever else it runs   *)
(* on the host stands where nobody reads: in the target of an appending    *)
(* redirect, or behind a flag like -lc (commands.py:732-757).              *)
OnlyTheListedGoesAhead ==
  line # <<>> /\ rules = <<>> =>
    LET call == LineCall
    IN  (\E w \in Workspaces, now \in Times :
           ~w.elevated /\ Verdict(call, w, now).decision = "allow")
    => /\ \A i \in DOMAIN line : line[i].scope = 0 => i = 1 \/ i \in Overlooked(line)
       /\ line[1].listed /\ line[1].dressed = "no" /\ line[1].target # "over"
       /\ line[1].code \in {"none", "bundled"}

(* The commands that are judged, those inside containers only if the       *)
(* command that runs them is.                                              *)
Judged(l) ==
  LET shown[i \in DOMAIN l] ==
        /\ i \in ExpandedOf(l)
        /\ \/ l[i].how = "after"
           \/ /\ shown[Holder(l, i)]
              /\ l[i].how = "inside" => Seen(l, l[i].up) = "container"
  IN  {i \in DOMAIN l : shown[i]}

(* An edit that hides nothing from the parser never lowers the tier of a   *)
(* line: details beside a risk do not average it out (tiers.py:1-6,        *)
(* commands.py:732-740).  A wrapper before an interpreter hides its code,  *)
(* and one with an operand hides the program.                              *)
StillSeen(i) == /\ i \in Judged(line') /\ Seen(line', i) = Seen(line, i)
                /\ line[i].prog = "interpreter" => line'[i].dressed = line[i].dressed

DetailsNeverLower ==
  [][line' # line /\ line # <<>> /\ (\A i \in Judged(line) : StillSeen(i))
     => Classify(line').tier >= Classify(line).tier]_vars
=============================================================================
