-------------------------- MODULE PolicyEngineProofs --------------------------
(***************************************************************************)
(* For any rules, calls and workspaces: what may be said of the engine     *)
(* whatever rules it has been given and forgotten, in whatever order.  For *)
(* any line, however long and however deep its commands are nested: what   *)
(* cannot be hidden in it, what of it goes ahead, and what an edit does to *)
(* its tier.                                                               *)
(***************************************************************************)
EXTENDS PolicyEngine, PolicyRulesProofs, FiniteSetTheorems

Listed == \E S : rules \in Seq(S)

(* A rule that is put before others decides for the calls it matches only. *)
LEMMA OneMore ==
  ASSUME NEW S, NEW old \in Seq(S), NEW r, NEW q, NEW w, NEW now
  PROVE  /\ RememberRule(old, r)[1] = r
         /\ ~Matches(r, q, w, now) =>
              Decide(q, w, RememberRule(old, r), now) = Decide(q, w, old, now)
<1> DEFINE new == RememberRule(old, r)
           T == S \cup {r}
<1>1. old \in Seq(T) /\ <<r>> \in Seq(T) OBVIOUS
<1>2. /\ new \in Seq(T) /\ Len(new) = Len(old) + 1 /\ new[1] = r
      /\ \A k \in DOMAIN old : k + 1 \in DOMAIN new /\ new[k + 1] = old[k]
      /\ \A i \in DOMAIN new : i = 1 \/ (i - 1 \in DOMAIN old /\ new[i] = old[i - 1])
  BY <1>1 DEF RememberRule
<1>3. ASSUME ~Matches(r, q, w, now), NEW action
      PROVE  Matched(new, action, q, w, now) <=> Matched(old, action, q, w, now)
  <2> HIDE DEF new
  <2>1. ASSUME Matched(new, action, q, w, now) PROVE Matched(old, action, q, w, now)
    <3>1. PICK i \in DOMAIN new : new[i].action = action /\ Matches(new[i], q, w, now)
      BY <2>1 DEF Matched
    <3>2. i - 1 \in DOMAIN old /\ new[i] = old[i - 1] BY <1>2, <1>3, <3>1
    <3>3. old[i - 1].action = action /\ Matches(old[i - 1], q, w, now) BY <3>1, <3>2
    <3> QED BY <3>2, <3>3 DEF Matched
  <2>2. ASSUME Matched(old, action, q, w, now) PROVE Matched(new, action, q, w, now)
    <3>1. PICK k \in DOMAIN old : old[k].action = action /\ Matches(old[k], q, w, now)
      BY <2>2 DEF Matched
    <3>2. k + 1 \in DOMAIN new /\ new[k + 1] = old[k] BY <1>2
    <3>3. new[k + 1].action = action /\ Matches(new[k + 1], q, w, now) BY <3>1, <3>2
    <3> QED BY <3>2, <3>3 DEF Matched
  <2> QED BY <2>1, <2>2
<1>4. ASSUME ~Matches(r, q, w, now) PROVE Decide(q, w, new, now) = Decide(q, w, old, now)
  <2>1. /\ Matched(new, "deny", q, w, now) <=> Matched(old, "deny", q, w, now)
        /\ Matched(new, "allow", q, w, now) <=> Matched(old, "allow", q, w, now)
    BY <1>3, <1>4
  <2> HIDE DEF new
  <2> QED BY <2>1 DEF Decide
<1> QED BY <1>2, <1>4

(* The list grows by the rule that is remembered, and by nothing else.     *)
LEMMA Grows ==
  ASSUME Listed, [Next]_vars
  PROVE  /\ Listed'
         /\ Len(rules') > Len(rules) => \E r : rules' = RememberRule(rules, r)
<1>1. PICK S : rules \in Seq(S) BY DEF Listed
<1>2. ASSUME NEW r \in Rules, Remember(r) PROVE Listed' /\ \E x : rules' = RememberRule(rules, x)
  BY <1>1, <1>2, Prepend DEF Remember, Listed
<1>3. ASSUME NEW r \in Rules, Forget(r) PROVE Listed' /\ ~(Len(rules') > Len(rules))
  <2>1. rules' \in Seq(S) /\ Len(rules') <= Len(rules) BY <1>1, <1>3, Forgets DEF Forget
  <2> QED BY <1>1, <2>1 DEF Listed
<1>4. CASE Edit \/ UNCHANGED vars
  <2>1. rules' = rules
    BY <1>4 DEF Edit, WriteAfter, Substitute, SubstituteTarget, HandOver, RunInside, Write, Redirect, Dress, vars
  <2> QED BY <1>1, <2>1 DEF Listed
<1> QED BY <1>2, <1>3, <1>4 DEF Next

LEMMA Inductive == Spec => []Listed
<1>1. Init => Listed
  <2>1. Init => rules \in Seq({}) BY DEF Init
  <2> QED BY <2>1 DEF Listed
<1>2. Listed /\ [Next]_vars => Listed' BY Grows
<1> QED BY <1>1, <1>2, PTL DEF Spec

(* An approval that is remembered changes the judgement of the calls it is *)
(* for, and of no other: in another workspace, in another conversation, or *)
(* of another payload (rules.py:80-88, gateway.py:77-97).                  *)
THEOREM NoRuleWidens == Spec => RememberNeverWidens
<1> DEFINE Widens ==
      Len(rules') > Len(rules) /\ rules'[1].payload # <<>> =>
        LET r == rules'[1]
        IN  \A q \in Calls, w \in Workspaces, now \in Times :
              \/ Decide(q, w, rules', now) = Decide(q, w, rules, now)
              \/ /\ <<q.tool, q.op, q.payload>> = r.payload
                 /\ r.workspace \in {"any", w.alias}
                 /\ r.session \in {"any", q.session}
<1>1. Listed /\ [Next]_vars => [Widens]_vars
  <2> SUFFICES ASSUME Listed, [Next]_vars, Len(rules') > Len(rules), rules'[1].payload # <<>>,
                      NEW q \in Calls, NEW w \in Workspaces, NEW now \in Times
               PROVE  \/ Decide(q, w, rules', now) = Decide(q, w, rules, now)
                      \/ /\ <<q.tool, q.op, q.payload>> = rules'[1].payload
                         /\ rules'[1].workspace \in {"any", w.alias}
                         /\ rules'[1].session \in {"any", q.session}
    OBVIOUS
  <2>1. PICK S : rules \in Seq(S) BY DEF Listed
  <2>2. PICK r : rules' = RememberRule(rules, r) BY Grows
  <2>3. /\ rules'[1] = r
        /\ ~Matches(r, q, w, now) => Decide(q, w, rules', now) = Decide(q, w, rules, now)
    BY <2>1, <2>2, OneMore
  <2>4. r.payload # <<>> BY <2>3
  <2>5. Matches(r, q, w, now) => /\ <<q.tool, q.op, q.payload>> = r.payload
                                 /\ r.workspace \in {"any", w.alias}
                                 /\ r.session \in {"any", q.session}
    BY <2>4 DEF Matches, Digest
  <2> QED BY <2>3, <2>5
<1> QED BY <1>1, Inductive, PTL DEF Spec, RememberNeverWidens

(* No list of rules, no mode and no elevation lets a forbidden call        *)
(* through, or a push out of a workspace that does not push                *)
(* (engine.py:131-146).                                                    *)
THEOREM NothingGetsPast == Spec => []NothingReachesPast
<1>1. NothingReachesPast BY DEF NothingReachesPast, Verdict, Decide, MayPush
<1> QED BY <1>1, PTL

(* A deny rule that matches is the last word, however many rules allow and *)
(* however new they are (engine.py:157-181).                               *)
THEOREM DenyIsFinal == Spec => []DenyWins
<1>1. DenyWins BY DEF DenyWins, Verdict, Decide, Matched
<1> QED BY <1>1, PTL
-----------------------------------------------------------------------------
(* How a line is written: each command stands after the one it is nested   *)
(* in, and so does the text it belongs to and the container it runs in.    *)
Nests(l, i) ==
  /\ l[i].how = "after" => l[i].text = 0 /\ l[i].scope = 0 /\ l[i].nesting = 0
  /\ l[i].how # "after" => l[i].up \in 1 .. i - 1
  /\ l[i].how = "substituted" => /\ l[i].text = l[l[i].up].text
                                 /\ l[i].scope = l[l[i].up].scope
  /\ l[i].how = "target" => l[i].scope = l[l[i].up].scope
  /\ l[i].how = "payload" => /\ l[i].scope = l[l[i].up].scope
                             /\ l[l[i].up].prog = "interpreter"
  /\ l[i].how = "payload" =>
       IF l[l[i].up].how = "inside" THEN l[i].text = l[l[i].up].text /\ l[i].nesting = 0
       ELSE l[i].text = l[i].up /\ l[i].nesting = l[l[i].up].nesting + 1
  /\ l[i].how = "inside" => /\ l[i].text = l[i].up
                            /\ l[i].scope = l[i].up /\ l[i].nesting = 0
                            /\ l[l[i].up].prog = "container"
                            /\ ~Leads(l, l[i].up)

WellWritten(l) ==
  /\ l \in Seq(Command)
  /\ \A i \in DOMAIN l : /\ l[i].code # "none" => l[i].prog = "interpreter"
                         /\ l[i].scope \in 0 .. i - 1
                         /\ Nests(l, i)

(* What every edit leaves of the commands that are there: all but that     *)
(* they may be dressed, or redirected.                                     *)
Kept(c, d) ==
  /\ d.prog = c.prog /\ d.listed = c.listed /\ d.code = c.code
  /\ d.how = c.how /\ d.up = c.up /\ d.text = c.text
  /\ d.depth = c.depth /\ d.nesting = c.nesting /\ d.scope = c.scope
  /\ c.dressed # "no" => d.dressed = c.dressed
  /\ c.target # "none" => d.target = c.target

Edited(l, m) ==
  /\ m \in Seq(Command) /\ Len(l) <= Len(m)
  /\ \A i \in DOMAIN l : Kept(l[i], m[i])

(* Which command comes first in the code an interpreter is given, no edit  *)
(* changes.                                                                *)
LEMMA LeadsStays ==
  ASSUME NEW l, WellWritten(l), NEW m, Edited(l, m), NEW i \in DOMAIN l
  PROVE  Leads(m, i) <=> Leads(l, i)
<1>1. /\ Len(l) \in Nat /\ DOMAIN l = 1 .. Len(l) /\ Len(m) \in Nat /\ DOMAIN m = 1 .. Len(m)
      /\ Len(l) <= Len(m)
  BY DEF WellWritten, Edited
<1>2. \A j \in DOMAIN l : Kept(l[j], m[j]) BY DEF Edited
<1>3. Nests(l, i) BY DEF WellWritten
<1>4. l[i].how = "payload" => l[i].up \in DOMAIN l BY <1>1, <1>3 DEF Nests
<1>5. Joined(m, i) <=> Joined(l, i) BY <1>2, <1>4 DEF Joined, Kept
<1>6. m[i].up = l[i].up BY <1>2 DEF Kept
<1>7. ASSUME NEW j \in DOMAIN m, j \notin DOMAIN l PROVE i <= j BY <1>1, <1>7
<1>8. \A j \in DOMAIN l : j \in DOMAIN m /\ m[j].how = l[j].how /\ m[j].up = l[j].up
  BY <1>1, <1>2 DEF Kept
<1> QED BY <1>5, <1>6, <1>7, <1>8 DEF Leads

LEMMA PlacedWell ==
  ASSUME NEW l, WellWritten(l), NEW c \in Phrases, NEW how, NEW i,
         \/ how = "after" /\ i = 0
         \/ how \in {"substituted", "target"} /\ i \in DOMAIN l
         \/ how = "payload" /\ i \in DOMAIN l /\ l[i].prog = "interpreter"
         \/ how = "inside" /\ i \in DOMAIN l /\ l[i].prog = "container" /\ ~Leads(l, i)
  PROVE  WellWritten(Append(l, Place(l, c, how, i))) /\ Edited(l, Append(l, Place(l, c, how, i)))
<1> DEFINE d == Place(l, c, how, i)
           m == Append(l, d)
           n == Len(l) + 1
<1>1. c \in Command /\ (c.code # "none" => c.prog = "interpreter") BY EngineAssumption
<1>2. l \in Seq(Command) /\ Len(l) \in Nat /\ DOMAIN l = 1 .. Len(l) BY DEF WellWritten
<1>3. i \in DOMAIN l => /\ l[i] \in Command /\ l[i].scope \in 0 .. i - 1
                        /\ i \in 1 .. Len(l)
                        /\ l[i].how = "inside" => l[i].nesting = 0
  BY <1>2 DEF WellWritten, Nests
<1> DEFINE own == how = "inside" \/ (how = "payload" /\ l[i].how # "inside")
<1>4. /\ d \in Command
      /\ d.prog = c.prog /\ d.code = c.code
      /\ d.how = how /\ d.up = i
      /\ how = "after" => d.text = 0 /\ d.scope = 0 /\ d.nesting = 0
      /\ how = "substituted" => d.text = l[i].text /\ d.scope = l[i].scope
      /\ how = "target" => d.scope = l[i].scope
      /\ how = "payload" => d.scope = l[i].scope
      /\ how = "payload" => IF l[i].how = "inside" THEN d.text = l[i].text /\ d.nesting = 0
                            ELSE d.text = i /\ d.nesting = l[i].nesting + 1
      /\ how = "inside" => d.text = i /\ d.scope = i /\ d.nesting = 0
  <2> DEFINE text == IF how = "target" THEN n
                     ELSE IF how = "after" THEN 0
                     ELSE IF own THEN i ELSE l[i].text
             depth == IF how = "substituted" THEN l[i].depth + 1 ELSE 0
             nesting == IF how \in {"after", "inside"} THEN 0
                        ELSE IF how = "payload" /\ own THEN l[i].nesting + 1 ELSE l[i].nesting
             scope == IF how = "inside" THEN i ELSE IF how = "after" THEN 0 ELSE l[i].scope
             e == [c EXCEPT !.how = how, !.up = i, !.text = text, !.depth = depth,
                            !.nesting = nesting, !.scope = scope]
  <2>1. d = e
    <3>1. CASE how = "after" BY <3>1 DEF Place
    <3>2. CASE how # "after" BY <3>2 DEF Place
    <3> QED BY <3>1, <3>2
  <2>2. i \in DOMAIN l => l[i].text \in Nat /\ l[i].depth \in Nat /\ l[i].nesting \in Nat
                          /\ l[i].scope \in Nat /\ i \in Nat
    BY <1>3 DEF Command
  <2>3. /\ text \in Nat /\ depth \in Nat /\ nesting \in Nat /\ scope \in Nat /\ i \in Nat
        /\ how \in {"after", "substituted", "target", "payload", "inside"}
    BY <1>2, <2>2
  <2> HIDE DEF d
  <2>4. /\ how = "after" => text = 0 /\ scope = 0 /\ nesting = 0
        /\ how = "substituted" => text = l[i].text /\ scope = l[i].scope
        /\ how = "target" => scope = l[i].scope
        /\ how = "payload" => scope = l[i].scope
        /\ how = "payload" => IF l[i].how = "inside" THEN text = l[i].text /\ nesting = 0
                              ELSE text = i /\ nesting = l[i].nesting + 1
        /\ how = "inside" => text = i /\ scope = i /\ nesting = 0
    BY <1>3
  <2> HIDE DEF text, depth, nesting, scope
  <2>5. /\ e \in Command /\ e.prog = c.prog /\ e.code = c.code /\ e.how = how /\ e.up = i
        /\ e.text = text /\ e.nesting = nesting /\ e.scope = scope
    BY <1>1, <2>3 DEF Command
  <2> QED BY <2>1, <2>4, <2>5
<1> HIDE DEF d, own
<1>5. /\ m \in Seq(Command) /\ Len(m) = n /\ m[n] = d
      /\ \A k \in 1 .. Len(l) : m[k] = l[k]
  BY <1>2, <1>4
<1> HIDE DEF m
<1>6. Edited(l, m)
  <2>1. Len(l) <= Len(m) BY <1>2, <1>5
  <2>2. \A k \in DOMAIN l : m[k] = l[k] BY <1>2, <1>5
  <2> QED BY <1>5, <2>1, <2>2 DEF Edited, Kept
<1>7. ASSUME NEW k \in DOMAIN m
      PROVE  /\ m[k].code # "none" => m[k].prog = "interpreter"
             /\ m[k].scope \in 0 .. k - 1
             /\ Nests(m, k)
  <2>1. k \in 1 .. n BY <1>5
  <2>2. CASE k # n
    <3>1. k \in 1 .. Len(l) BY <1>2, <2>1, <2>2
    <3>2. /\ l[k].code # "none" => l[k].prog = "interpreter"
          /\ l[k].scope \in 0 .. k - 1
          /\ Nests(l, k)
      BY <1>2, <3>1 DEF WellWritten
    <3>3. m[k] = l[k] BY <1>5, <3>1
    <3>4. l[k].how # "after" => l[k].up \in 1 .. k - 1 BY <3>2 DEF Nests
    <3>5. l[k].how # "after" => m[l[k].up] = l[l[k].up] /\ (Leads(m, l[k].up) <=> Leads(l, l[k].up))
      <4>1. l[k].how # "after" => l[k].up \in DOMAIN l BY <1>2, <3>1, <3>4
      <4> QED BY <1>2, <1>5, <1>6, <4>1, LeadsStays
    <3>6. Nests(m, k) BY <3>2, <3>3, <3>5 DEF Nests
    <3> QED BY <3>2, <3>3, <3>6
  <2>3. CASE k = n
    <3>1. m[k] = d /\ k - 1 = Len(l) BY <1>2, <1>5, <2>3
    <3>2. i \in DOMAIN l => /\ m[i] = l[i] /\ i \in 1 .. k - 1
                            /\ Leads(m, i) <=> Leads(l, i)
      BY <1>2, <1>5, <1>6, <3>1, LeadsStays
    <3>3. d.scope \in 0 .. k - 1 BY <1>2, <1>3, <1>4, <3>1
    <3>4. Nests(m, k) BY <1>4, <3>1, <3>2 DEF Nests
    <3> QED BY <1>1, <1>4, <3>1, <3>3, <3>4
  <2> QED BY <2>2, <2>3
<1> QED BY <1>5, <1>6, <1>7 DEF WellWritten, m, d

(* A command in place of another that it keeps.                            *)
LEMMA ReplacedWell ==
  ASSUME NEW l, WellWritten(l), NEW i \in DOMAIN l, NEW d \in Command, Kept(l[i], d)
  PROVE  WellWritten([l EXCEPT ![i] = d]) /\ Edited(l, [l EXCEPT ![i] = d])
<1> DEFINE m == [l EXCEPT ![i] = d]
<1>1. l \in Seq(Command) /\ Len(l) \in Nat /\ DOMAIN l = 1 .. Len(l) BY DEF WellWritten
<1>2. m \in Seq(Command) /\ Len(m) = Len(l) BY <1>1
<1>3. \A k \in DOMAIN l : m[k] = (IF k = i THEN d ELSE l[k]) BY <1>1
<1>4. DOMAIN m = DOMAIN l BY <1>1
<1> HIDE DEF m
<1>5. \A k \in DOMAIN l : Kept(l[k], m[k]) BY <1>3 DEF Kept
<1>6. Edited(l, m) BY <1>1, <1>2, <1>5 DEF Edited
<1>7. ASSUME NEW k \in DOMAIN m
      PROVE  /\ m[k].code # "none" => m[k].prog = "interpreter"
             /\ m[k].scope \in 0 .. k - 1
             /\ Nests(m, k)
  <2>1. /\ l[k].code # "none" => l[k].prog = "interpreter"
        /\ l[k].scope \in 0 .. k - 1
        /\ Nests(l, k)
    BY <1>4 DEF WellWritten
  <2>2. l[k].how # "after" => l[k].up \in DOMAIN l BY <1>1, <1>4, <2>1 DEF Nests
  <2>3. /\ Kept(l[k], m[k])
        /\ l[k].how # "after" => /\ Kept(l[l[k].up], m[l[k].up])
                                 /\ Leads(m, l[k].up) <=> Leads(l, l[k].up)
    BY <1>4, <1>5, <1>6, <2>2, LeadsStays
  <2>4. Nests(m, k) BY <2>1, <2>3 DEF Nests, Kept
  <2> QED BY <2>1, <2>3, <2>4 DEF Kept
<1> QED BY <1>2, <1>6, <1>7 DEF WellWritten, m

(* Each edit of the line keeps what was written.                           *)
LEMMA EditKeeps ==
  ASSUME WellWritten(line), Edit
  PROVE  WellWritten(line') /\ Edited(line, line')
<1>1. line \in Seq(Command) /\ Len(line) \in Nat BY DEF WellWritten
<1>2. ASSUME NEW c \in Phrases, WriteAfter(c) PROVE WellWritten(line') /\ Edited(line, line')
  BY <1>2, PlacedWell DEF WriteAfter, Write
<1>3. ASSUME NEW i \in DOMAIN line, NEW c \in Phrases, Substitute(c, i)
      PROVE  WellWritten(line') /\ Edited(line, line')
  BY <1>3, PlacedWell DEF Substitute, Write
<1>8. ASSUME NEW i \in DOMAIN line, NEW c \in Phrases, SubstituteTarget(c, i)
      PROVE  WellWritten(line') /\ Edited(line, line')
  BY <1>8, PlacedWell DEF SubstituteTarget, Write
<1>4. ASSUME NEW i \in DOMAIN line, NEW c \in Phrases, HandOver(c, i)
      PROVE  WellWritten(line') /\ Edited(line, line')
  BY <1>4, PlacedWell DEF HandOver, Write
<1>5. ASSUME NEW i \in DOMAIN line, NEW c \in Phrases, RunInside(c, i)
      PROVE  WellWritten(line') /\ Edited(line, line')
  BY <1>5, PlacedWell DEF RunInside, Write
<1>6. ASSUME NEW i \in DOMAIN line, NEW target \in {"over", "beside"}, Redirect(i, target)
      PROVE  WellWritten(line') /\ Edited(line, line')
  <2> DEFINE d == [line[i] EXCEPT !.target = target]
  <2>1. line[i] \in Command BY <1>1
  <2>2. d \in Command /\ Kept(line[i], d) BY <1>6, <2>1 DEF Command, Kept, Redirect
  <2>3. line' = [line EXCEPT ![i] = d] BY <1>6 DEF Redirect
  <2> HIDE DEF d
  <2> QED BY <2>2, <2>3, ReplacedWell
<1>7. ASSUME NEW i \in DOMAIN line, NEW dress \in {"wrapped", "operand"}, Dress(i, dress)
      PROVE  WellWritten(line') /\ Edited(line, line')
  <2> DEFINE d == [line[i] EXCEPT !.dressed = dress]
  <2>1. line[i] \in Command BY <1>1
  <2>2. d \in Command /\ Kept(line[i], d) BY <1>7, <2>1 DEF Command, Kept, Dress
  <2>3. line' = [line EXCEPT ![i] = d] BY <1>7 DEF Dress
  <2> HIDE DEF d
  <2> QED BY <2>2, <2>3, ReplacedWell
<1> QED BY <1>2, <1>3, <1>4, <1>5, <1>6, <1>7, <1>8 DEF Edit

LEMMA LineInductive == Spec => []WellWritten(line)
<1>1. Init => WellWritten(line) BY DEF Init, WellWritten
<1>2. WellWritten(line) /\ [Next]_vars => WellWritten(line)'
  <2> SUFFICES ASSUME WellWritten(line), [Next]_vars PROVE WellWritten(line') OBVIOUS
  <2>1. ASSUME NEW r \in Rules, Remember(r) \/ Forget(r) PROVE WellWritten(line')
    BY <2>1 DEF Remember, Forget
  <2>2. CASE Edit BY <2>2, EditKeeps
  <2>3. CASE UNCHANGED vars BY <2>3 DEF vars
  <2> QED BY <2>1, <2>2, <2>3 DEF Next
<1> QED BY <1>1, <1>2, PTL DEF Spec

-----------------------------------------------------------------------------
(* What is said of a command by itself and of the one it is nested in, all *)
(* the way up, is defined.                                                 *)
Upwards(n, own, top, up) ==
  /\ n \in Nat
  /\ own \in [1 .. n -> BOOLEAN] /\ top \in [1 .. n -> BOOLEAN] /\ up \in [1 .. n -> Nat]
  /\ \A i \in 1 .. n : top[i] \/ up[i] \in 1 .. i - 1

LEMMA UpwardsDefines ==
  ASSUME NEW n, NEW own, NEW top, NEW up, Upwards(n, own, top, up)
  PROVE  \E f \in [1 .. n -> BOOLEAN] :
           \A i \in 1 .. n : f[i] = (own[i] /\ (top[i] \/ f[up[i]]))
<1> USE DEF Upwards
<1> DEFINE S == 1 .. n
           rank == [i \in S |-> i]
           step == [i \in S |-> [g \in [S -> BOOLEAN] |-> own[i] /\ (top[i] \/ g[up[i]])]]
<1>1. rank \in [S -> Nat] /\ n + 1 \in Nat /\ \A i \in S : rank[i] < n + 1 OBVIOUS
<1>2. step \in [S -> [[S -> BOOLEAN] -> BOOLEAN]] OBVIOUS
<1>3. ASSUME NEW i \in S, NEW g \in [S -> BOOLEAN], NEW h \in [S -> BOOLEAN],
             \A j \in S : rank[j] < rank[i] => g[j] = h[j]
      PROVE  step[i][g] = step[i][h]
  <2>1. ~top[i] => up[i] \in S /\ rank[up[i]] < rank[i] OBVIOUS
  <2>2. ~top[i] => g[up[i]] = h[up[i]] BY <1>3, <2>1
  <2> HIDE DEF rank
  <2> QED BY <2>2
<1>4. Ranked(S, BOOLEAN, rank, n + 1, step)
  <2> HIDE DEF rank, step, S
  <2> QED BY <1>1, <1>2, <1>3 DEF Ranked
<1>5. \E f \in [S -> BOOLEAN] : \A i \in S : f[i] = step[i][f]
  <2> HIDE DEF rank, step, S
  <2> QED BY <1>4, RecursionDefines
<1> QED BY <1>5

(* Where a command is told from: above the one it is nested in only when   *)
(* its text is, and in the same container.                                 *)
LEMMA HolderOf ==
  ASSUME NEW l, WellWritten(l), NEW i \in DOMAIN l, l[i].how # "after"
  PROVE  /\ l[i].up \in DOMAIN l /\ l[i].up \in 1 .. i - 1
         /\ Holder(l, i) \in DOMAIN l /\ Holder(l, i) \in 1 .. i - 1
         /\ l[i].how # "inside" => /\ l[l[i].up].scope = l[i].scope
                                   /\ l[Holder(l, i)].scope = l[i].scope
<1>1. Len(l) \in Nat /\ DOMAIN l = 1 .. Len(l) /\ l[i] \in Command /\ Nests(l, i)
  BY DEF WellWritten
<1>2. l[i].up \in 1 .. i - 1 /\ l[i].up \in DOMAIN l BY <1>1 DEF Nests
<1>3. l[i].how # "inside" => l[l[i].up].scope = l[i].scope BY <1>1 DEF Nests, Command
<1>4. CASE l[i].how = "substituted" /\ Leads(l, l[i].up)
  <2> DEFINE u == l[i].up
  <2>1. l[u].how = "payload" /\ Nests(l, u) BY <1>2, <1>4 DEF Leads, Joined, WellWritten
  <2>2. l[u].up \in 1 .. u - 1 /\ l[l[u].up].scope = l[u].scope BY <2>1 DEF Nests
  <2>3. Holder(l, i) = l[u].up BY <1>4 DEF Holder
  <2>4. Holder(l, i) \in 1 .. i - 1 /\ Holder(l, i) \in DOMAIN l BY <1>1, <1>2, <2>2, <2>3
  <2> QED BY <1>2, <1>3, <2>2, <2>3, <2>4
<1>5. CASE ~(l[i].how = "substituted" /\ Leads(l, l[i].up))
  <2>1. Holder(l, i) = l[i].up BY <1>5 DEF Holder
  <2> QED BY <1>2, <1>3, <2>1
<1> QED BY <1>4, <1>5

(* The code that must be shown by the interpreter it is given to.          *)
Read(l, i) == l[i].how = "payload" /\ (Joined(l, i) => Leads(l, i))

Passes(l, i) ==
  /\ ~Unparsable(l, l[i].text) /\ l[i].how # "target"
  /\ Read(l, i) => ShowsPayloads(l[l[i].up]) /\ l[i].nesting <= MaxPayloadDepth

(* The commands that stand in the text of the line or of a container.      *)
Stands(l, i) ==
  \/ l[i].how \notin {"substituted", "payload"}
  \/ l[i].how = "substituted" /\ Leads(l, l[i].up)
  \/ l[i].how = "payload" /\ ~Read(l, i)

(* What is handed on to be judged: a command of a text that parses, nested *)
(* in another that is handed on.                                           *)
LEMMA Reaching ==
  ASSUME NEW l, WellWritten(l)
  PROVE  /\ ExpandedOf(l) \subseteq DOMAIN l
         /\ \A i \in DOMAIN l :
              i \in ExpandedOf(l) <=>
                Passes(l, i) /\ (Stands(l, i) \/ l[i].up \in ExpandedOf(l))
<1> DEFINE n == Len(l)
           own == [i \in 1 .. n |-> Passes(l, i)]
           top == [i \in 1 .. n |-> Stands(l, i)]
           up == [i \in 1 .. n |-> l[i].up]
           Body(f, i) ==
             /\ ~Unparsable(l, l[i].text)
             /\ \/ l[i].how \in {"after", "inside"}
                \/ l[i].how = "substituted" /\ (Leads(l, l[i].up) \/ f[l[i].up])
                \/ Joined(l, i) /\ ~Leads(l, i)
                \/ /\ l[i].how = "payload" /\ (Joined(l, i) => Leads(l, i))
                   /\ f[l[i].up]
                   /\ ShowsPayloads(l[l[i].up])
                   /\ l[i].nesting <= MaxPayloadDepth
<1>1. l \in Seq(Command) /\ n \in Nat /\ DOMAIN l = 1 .. n BY DEF WellWritten
<1>2. \A i \in 1 .. n : l[i].up \in Nat
  <2>1. \A i \in 1 .. n : l[i] \in Command BY <1>1
  <2> QED BY <2>1 DEF Command
<1>3. \A i \in 1 .. n : l[i].how # "after" => l[i].up \in 1 .. i - 1
  BY <1>1 DEF WellWritten, Nests
<1>4. PICK f \in [1 .. n -> BOOLEAN] :
        \A i \in 1 .. n : f[i] = (own[i] /\ (top[i] \/ f[up[i]]))
  <2>1. /\ own \in [1 .. n -> BOOLEAN] /\ top \in [1 .. n -> BOOLEAN] /\ up \in [1 .. n -> Nat]
    BY <1>2 DEF Passes, Unparsable, Stands, Leads, Joined
  <2>2. \A i \in 1 .. n : top[i] \/ up[i] \in 1 .. i - 1 BY <1>3 DEF Stands
  <2>3. Upwards(n, own, top, up)
    <3> HIDE DEF own, top, up
    <3> QED BY <1>1, <2>1, <2>2 DEF Upwards
  <2> HIDE DEF n, own, top, up
  <2> QED BY <2>3, UpwardsDefines
<1>5. ASSUME NEW g, NEW i \in DOMAIN l, l[i].how \in {"substituted", "payload"} => g[l[i].up] \in BOOLEAN
      PROVE  Body(g, i) = (Passes(l, i) /\ (Stands(l, i) \/ g[l[i].up]))
  <2>1. CASE l[i].how \notin {"substituted", "payload"}
    <3>1. l[i] \in Command BY <1>1
    <3> QED BY <2>1, <3>1 DEF Passes, Stands, Read, Joined, Command
  <2>2. CASE l[i].how = "substituted" BY <1>5, <2>2 DEF Passes, Stands, Read, Joined
  <2>3. CASE l[i].how = "payload" BY <1>5, <2>3 DEF Passes, Stands, Read, Joined
  <2> QED BY <2>1, <2>2, <2>3
<1>6. \A i \in DOMAIN l : f[i] = Body(f, i)
  <2> SUFFICES ASSUME NEW i \in DOMAIN l PROVE f[i] = Body(f, i) OBVIOUS
  <2>1. f[i] = (Passes(l, i) /\ (Stands(l, i) \/ f[l[i].up])) BY <1>1, <1>4
  <2>2. l[i].how # "after" => f[l[i].up] \in BOOLEAN BY <1>1, <1>3
  <2> QED BY <1>5, <2>1, <2>2
<1>7. f = [i \in DOMAIN l |-> Body(f, i)]
  <2>1. f = [i \in DOMAIN l |-> f[i]] BY <1>1
  <2> HIDE DEF Body
  <2> QED BY <1>6, <2>1
<1> DEFINE g == CHOOSE reached : reached = [i \in DOMAIN l |-> Body(reached, i)]
<1>8. g = [i \in DOMAIN l |-> Body(g, i)] BY <1>7
<1>9. ExpandedOf(l) = {i \in DOMAIN l : g[i]} BY DEF ExpandedOf
<1> HIDE DEF g
<1>10. \A i \in DOMAIN l : g[i] = Body(g, i) BY <1>8
<1>11. \A i \in DOMAIN l : g[i] \in BOOLEAN
  <2> SUFFICES ASSUME NEW i \in DOMAIN l PROVE g[i] \in BOOLEAN OBVIOUS
  <2>1. Body(g, i) \in BOOLEAN OBVIOUS
  <2> QED BY <1>10, <2>1
<1>12. \A i \in DOMAIN l : l[i].how \in {"substituted", "payload"} => l[i].up \in DOMAIN l
  BY <1>1, <1>3
<1>13. ASSUME NEW i \in DOMAIN l
       PROVE  g[i] = (Passes(l, i) /\ (Stands(l, i) \/ g[l[i].up]))
  <2>1. g[i] = Body(g, i) BY <1>10
  <2>2. l[i].how \in {"substituted", "payload"} => g[l[i].up] \in BOOLEAN BY <1>11, <1>12
  <2> HIDE DEF Body
  <2> QED BY <1>5, <2>1, <2>2
<1>14. \A i \in DOMAIN l : Stands(l, i) \/ l[i].up \in DOMAIN l BY <1>12 DEF Stands
<1> QED BY <1>9, <1>13, <1>14

(* What is judged: what is handed on, of the line itself or nested in what *)
(* is judged.                                                              *)
LEMMA Judging ==
  ASSUME NEW l, WellWritten(l)
  PROVE  /\ Judged(l) \subseteq DOMAIN l
         /\ \A i \in DOMAIN l :
              i \in Judged(l) <=>
                /\ i \in ExpandedOf(l)
                /\ \/ l[i].how = "after"
                   \/ /\ Holder(l, i) \in Judged(l)
                      /\ l[i].how = "inside" => Seen(l, l[i].up) = "container"
<1> DEFINE n == Len(l)
           own == [i \in 1 .. n |->
                     i \in ExpandedOf(l) /\ (l[i].how = "inside" => Seen(l, l[i].up) = "container")]
           top == [i \in 1 .. n |-> l[i].how = "after"]
           up == [i \in 1 .. n |-> IF l[i].how = "after" THEN 0 ELSE Holder(l, i)]
           Body(f, i) ==
             /\ i \in ExpandedOf(l)
             /\ \/ l[i].how = "after"
                \/ f[Holder(l, i)] /\ (l[i].how = "inside" => Seen(l, l[i].up) = "container")
<1>1. l \in Seq(Command) /\ n \in Nat /\ DOMAIN l = 1 .. n BY DEF WellWritten
<1>2. \A i \in 1 .. n : l[i].how # "after" => Holder(l, i) \in 1 .. i - 1
  BY <1>1, HolderOf
<1>3. PICK f \in [1 .. n -> BOOLEAN] :
        \A i \in 1 .. n : f[i] = (own[i] /\ (top[i] \/ f[up[i]]))
  <2>1. own \in [1 .. n -> BOOLEAN] /\ top \in [1 .. n -> BOOLEAN] OBVIOUS
  <2>2. up \in [1 .. n -> Nat] BY <1>2
  <2>3. \A i \in 1 .. n : top[i] \/ up[i] \in 1 .. i - 1 BY <1>2
  <2>4. Upwards(n, own, top, up)
    <3> HIDE DEF own, top, up
    <3> QED BY <1>1, <2>1, <2>2, <2>3 DEF Upwards
  <2> HIDE DEF n, own, top, up
  <2> QED BY <2>4, UpwardsDefines
<1>4. \A i \in DOMAIN l : f[i] = Body(f, i)
  <2> SUFFICES ASSUME NEW i \in DOMAIN l PROVE f[i] = Body(f, i) OBVIOUS
  <2>1. f[i] = (own[i] /\ (top[i] \/ f[up[i]])) BY <1>1, <1>3
  <2>2. CASE l[i].how = "after" BY <1>1, <2>1, <2>2
  <2>3. CASE l[i].how # "after"
    <3>1. f[Holder(l, i)] \in BOOLEAN BY <1>1, <1>2, <2>3
    <3> QED BY <1>1, <2>1, <2>3, <3>1
  <2> QED BY <2>2, <2>3
<1>5. f = [i \in DOMAIN l |-> Body(f, i)] BY <1>1, <1>4
<1> DEFINE g == CHOOSE shown : shown = [i \in DOMAIN l |-> Body(shown, i)]
<1>6. g = [i \in DOMAIN l |-> Body(g, i)] BY <1>5
<1>7. Judged(l) = {i \in DOMAIN l : g[i]} BY DEF Judged
<1> HIDE DEF g
<1>8. \A i \in DOMAIN l : g[i] = Body(g, i) BY <1>6
<1>9. \A i \in DOMAIN l : l[i].how # "after" => Holder(l, i) \in DOMAIN l BY HolderOf
<1> QED BY <1>7, <1>8, <1>9

(* What makes a command be overlooked where the one it is nested in is not.*)
Hides(l, i) ==
  \/ l[i].how = "target"
  \/ l[i].how = "inside" /\ l[l[i].up].dressed = "operand"
  \/ Read(l, i) /\ (~LooksFor(l[l[i].up]) \/ Unparsable(l, l[i].text))

LEMMA Overlooking ==
  ASSUME NEW l, WellWritten(l), NEW i \in DOMAIN l, i \notin Overlooked(l), l[i].how # "after"
  PROVE  Holder(l, i) \notin Overlooked(l) /\ ~Hides(l, i)
<1> DEFINE n == Len(l)
           own == [j \in 1 .. n |-> l[j].how = "after" \/ ~Hides(l, j)]
           top == [j \in 1 .. n |-> l[j].how = "after"]
           up == [j \in 1 .. n |-> IF l[j].how = "after" THEN 0 ELSE Holder(l, j)]
           Body(f, j) ==
             /\ l[j].how # "after"
             /\ \/ f[Holder(l, j)]
                \/ l[j].how = "target"
                \/ l[j].how = "inside" /\ l[l[j].up].dressed = "operand"
                \/ /\ l[j].how = "payload" /\ (Joined(l, j) => Leads(l, j))
                   /\ ~LooksFor(l[l[j].up]) \/ Unparsable(l, l[j].text)
<1>1. l \in Seq(Command) /\ n \in Nat /\ DOMAIN l = 1 .. n BY DEF WellWritten
<1>2. \A j \in 1 .. n : l[j].how # "after" => Holder(l, j) \in 1 .. j - 1
  BY <1>1, HolderOf
<1>3. PICK f \in [1 .. n -> BOOLEAN] :
        \A j \in 1 .. n : f[j] = (own[j] /\ (top[j] \/ f[up[j]]))
  <2>1. own \in [1 .. n -> BOOLEAN] /\ top \in [1 .. n -> BOOLEAN] BY DEF Hides, Read
  <2>2. up \in [1 .. n -> Nat] BY <1>2
  <2>3. \A j \in 1 .. n : top[j] \/ up[j] \in 1 .. j - 1 BY <1>2
  <2>4. Upwards(n, own, top, up)
    <3> HIDE DEF own, top, up
    <3> QED BY <1>1, <2>1, <2>2, <2>3 DEF Upwards
  <2> HIDE DEF n, own, top, up
  <2> QED BY <2>4, UpwardsDefines
<1> DEFINE h == [j \in DOMAIN l |-> ~f[j]]
<1>4. \A j \in DOMAIN l : Body(h, j) = (l[j].how # "after" /\ (h[Holder(l, j)] \/ Hides(l, j)))
  BY DEF Hides, Read
<1>5. ASSUME NEW j \in DOMAIN l PROVE h[j] = Body(h, j)
  <2>1. f[j] = (own[j] /\ (top[j] \/ f[up[j]])) /\ h[j] = ~f[j] BY <1>1, <1>3
  <2>2. CASE l[j].how = "after" BY <1>1, <2>1, <2>2
  <2>3. CASE l[j].how # "after"
    <3>1. f[Holder(l, j)] \in BOOLEAN /\ h[Holder(l, j)] = ~f[Holder(l, j)] BY <1>1, <1>2, <2>3
    <3>2. f[j] = (~Hides(l, j) /\ f[Holder(l, j)]) BY <1>1, <2>1, <2>3, <3>1 DEF Hides, Read
    <3> HIDE DEF h, Body
    <3> QED BY <1>4, <2>1, <2>3, <3>1, <3>2
  <2> QED BY <2>2, <2>3
<1>6. h = [j \in DOMAIN l |-> Body(h, j)]
  <2>1. \A j \in DOMAIN l : h[j] = Body(h, j) BY <1>5
  <2>2. h = [j \in DOMAIN l |-> h[j]] OBVIOUS
  <2> HIDE DEF h, Body
  <2> QED BY <2>1, <2>2
<1> DEFINE g == CHOOSE missed : missed = [j \in DOMAIN l |-> Body(missed, j)]
<1>7. g = [j \in DOMAIN l |-> Body(g, j)]
  <2> HIDE DEF h, Body
  <2> QED BY <1>6
<1>8. Overlooked(l) = {j \in DOMAIN l : g[j]} BY DEF Overlooked
<1> HIDE DEF g
<1>9. g[i] = Body(g, i) BY <1>7
<1>10. ~g[i] BY <1>8
<1> QED BY <1>8, <1>9, <1>10 DEF Hides, Read

-----------------------------------------------------------------------------
(* Of what is found, nothing lies outside the tiers.                       *)
LEMMA TiersOf ==
  ASSUME NEW l, NEW i
  PROVE  /\ PayloadTiers(l, i) \subseteq Tiers
         /\ OwnTiers(l, i) \subseteq Tiers
         /\ RedirectTiers(l[i]) \subseteq Tiers
<1>1. /\ 0 \in Tiers /\ 1 \in Tiers /\ 3 \in Tiers /\ 4 \in Tiers /\ 5 \in Tiers
      /\ READ = 0 /\ WRITE = 1 /\ EXEC_OTHER = 3 /\ EGRESS = 4 /\ FORBIDDEN = 5
  BY DEF Tiers, READ, WRITE, EXEC_OTHER, EGRESS, FORBIDDEN
<1>2. PayloadTiers(l, i) \subseteq Tiers BY <1>1 DEF PayloadTiers
<1>3. OwnTiers(l, i) \subseteq Tiers BY <1>1 DEF OwnTiers
<1>4. RedirectTiers(l[i]) \subseteq Tiers BY <1>1 DEF RedirectTiers
<1> QED BY <1>2, <1>3, <1>4

(* What is found in the line and in each container, whichever holds which. *)
LEMMA Finding ==
  ASSUME NEW l, WellWritten(l)
  PROVE  /\ FindingsOf(l) \in [0 .. Len(l) -> SUBSET Tiers]
         /\ \A s \in 0 .. Len(l) : FindingsOf(l)[s] = FindingsIn(l, s, FindingsOf(l))
<1> DEFINE n == Len(l)
           S == 0 .. n
           V == SUBSET Tiers
           rank == [s \in S |-> n - s]
           step == [s \in S |-> [g \in [S -> V] |-> FindingsIn(l, s, g)]]
           Here(s) == {i \in ExpandedOf(l) : l[i].scope = s}
           Held(s) == {j \in Here(s) : Seen(l, j) = "container"}
<1>1. l \in Seq(Command) /\ n \in Nat /\ DOMAIN l = 1 .. n BY DEF WellWritten
<1>2. \A s \in S : \A i \in Held(s) : i \in S /\ s < i
  <2> SUFFICES ASSUME NEW s \in S, NEW i \in ExpandedOf(l), l[i].scope = s
               PROVE  i \in S /\ s < i
    OBVIOUS
  <2>1. i \in DOMAIN l BY Reaching
  <2>2. l[i].scope \in 0 .. i - 1 BY <2>1 DEF WellWritten
  <2> QED BY <1>1, <2>1, <2>2
<1>3. rank \in [S -> Nat] /\ n + 1 \in Nat /\ \A s \in S : rank[s] < n + 1 BY <1>1
<1>4. FORBIDDEN \in Tiers BY DEF Tiers, READ, FORBIDDEN
<1>5. ASSUME NEW s \in S, NEW g, \A i \in Held(s) : g[i] \in V
      PROVE  FindingsIn(l, s, g) \in V
  <2>1. \A i \in Held(s) : g[i] \subseteq Tiers BY <1>5
  <2>2. \A i \in Here(s) : /\ PayloadTiers(l, i) \subseteq Tiers
                           /\ OwnTiers(l, i) \cup RedirectTiers(l[i]) \subseteq Tiers
    BY TiersOf
  <2> DEFINE A == UNION {PayloadTiers(l, i) : i \in Here(s)}
             B == UNION {OwnTiers(l, i) \cup RedirectTiers(l[i]) : i \in Here(s)}
             C == UNION {{t \in g[i] : t >= EXEC_OTHER} : i \in Held(s)}
  <2>3. A \subseteq Tiers /\ B \subseteq Tiers /\ C \subseteq Tiers
    <3> HIDE DEF S, Here, Held
    <3> QED BY <2>1, <2>2
  <2>4. FindingsIn(l, s, g) \in {{FORBIDDEN}, A \cup B \cup C \cup {FORBIDDEN}, A \cup B \cup C \cup {}}
    BY DEF FindingsIn
  <2> HIDE DEF A, B, C
  <2> QED BY <1>4, <2>3, <2>4
<1>6. ASSUME NEW s \in S, NEW g \in [S -> V], NEW h \in [S -> V],
             \A j \in S : rank[j] < rank[s] => g[j] = h[j]
      PROVE  FindingsIn(l, s, g) = FindingsIn(l, s, h)
  <2>1. \A i \in S : s < i => rank[i] < rank[s] BY <1>1
  <2>2. \A i \in Held(s) : g[i] = h[i] BY <1>2, <1>6, <2>1
  <2>3. UNION {{t \in g[i] : t >= EXEC_OTHER} : i \in Held(s)}
          = UNION {{t \in h[i] : t >= EXEC_OTHER} : i \in Held(s)}
    BY <2>2
  <2> QED BY <2>3 DEF FindingsIn
<1>7. PICK f \in [S -> V] : \A s \in S : f[s] = FindingsIn(l, s, f)
  <2>1. step \in [S -> [[S -> V] -> V]]
    <3> HIDE DEF S, V
    <3>1. \A s \in S, g \in [S -> V] : FindingsIn(l, s, g) \in V BY <1>2, <1>5
    <3> QED BY <3>1
  <2>2. \A s \in S : \A g \in [S -> V] : \A h \in [S -> V] :
          (\A j \in S : rank[j] < rank[s] => g[j] = h[j]) => step[s][g] = step[s][h]
    BY <1>6
  <2>3. V # {} OBVIOUS
  <2>4. Ranked(S, V, rank, n + 1, step)
    <3> HIDE DEF S, V, rank, step
    <3> QED BY <1>3, <2>1, <2>2, <2>3 DEF Ranked
  <2>5. \E f \in [S -> V] : \A s \in S : f[s] = step[s][f]
    <3> HIDE DEF S, V, rank, step
    <3> QED BY <2>4, RecursionDefines
  <2> QED BY <2>5
<1>8. f = [s \in S |-> FindingsIn(l, s, f)] BY <1>7
<1> DEFINE g == CHOOSE found : found = [s \in S |-> FindingsIn(l, s, found)]
<1>9. g = [s \in S |-> FindingsIn(l, s, g)] BY <1>8
<1>10. FindingsOf(l) = g BY DEF FindingsOf
<1> HIDE DEF g
<1>11. \A s \in S : g[s] = FindingsIn(l, s, g) BY <1>9
<1>12. \A s \in S : g[s] \in V
  <2> DEFINE Bad == {s \in S : g[s] \notin V}
             Depths == {n - s : s \in Bad}
  <2> SUFFICES ASSUME Bad # {} PROVE FALSE OBVIOUS
  <2>1. Depths \in SUBSET Nat /\ Depths # {} BY <1>1
  <2>2. PICK d \in Depths : \A e \in Depths : d <= e BY <2>1, FirstOf
  <2>3. PICK s \in Bad : d = n - s OBVIOUS
  <2>4. \A i \in Bad : n - s <= n - i BY <2>2, <2>3
  <2>5. \A i \in S : s < i => g[i] \in V BY <1>1, <2>3, <2>4
  <2>6. \A i \in Held(s) : g[i] \in V BY <1>2, <2>3, <2>5
  <2> QED BY <1>5, <1>11, <2>3, <2>6
<1>13. g \in [S -> V] BY <1>9, <1>12
<1> QED BY <1>10, <1>11, <1>13

InScope(l, s) == {i \in ExpandedOf(l) : l[i].scope = s}

(* What is found in a text that parses: something in a command of it,      *)
(* something worse than a write inside a container it runs, or a download  *)
(* next to an interpreter.                                                 *)
LEMMA WhatIsFound ==
  ASSUME NEW l, WellWritten(l), NEW s \in 0 .. Len(l), NEW t
  PROVE  /\ Unparsable(l, s) => FindingsOf(l)[s] = {FORBIDDEN}
         /\ ~Unparsable(l, s) =>
              (t \in FindingsOf(l)[s] <=>
                 \/ \E i \in InScope(l, s) : \/ t \in PayloadTiers(l, i)
                                             \/ t \in OwnTiers(l, i)
                                             \/ t \in RedirectTiers(l[i])
                 \/ \E i \in InScope(l, s) : /\ Seen(l, i) = "container"
                                             /\ t \in FindingsOf(l)[i] /\ t >= EXEC_OTHER
                 \/ /\ t = FORBIDDEN
                    /\ \E i \in InScope(l, s) : Seen(l, i) = "fetches"
                    /\ \E i \in InScope(l, s) : \/ Seen(l, i) = "interpreter"
                                                \/ PayloadTiers(l, i) # {})
<1> DEFINE f == FindingsOf(l)
           A == UNION {PayloadTiers(l, i) : i \in InScope(l, s)}
           B == UNION {OwnTiers(l, i) \cup RedirectTiers(l[i]) : i \in InScope(l, s)}
           C == UNION {{u \in f[i] : u >= EXEC_OTHER} :
                         i \in {j \in InScope(l, s) : Seen(l, j) = "container"}}
           D == IF /\ \E i \in InScope(l, s) : Seen(l, i) = "fetches"
                   /\ A # {} \/ \E i \in InScope(l, s) : Seen(l, i) = "interpreter"
                THEN {FORBIDDEN} ELSE {}
<1>1. f[s] = FindingsIn(l, s, f) BY Finding
<1> HIDE DEF f
<1>2. FindingsIn(l, s, f) = IF Unparsable(l, s) THEN {FORBIDDEN} ELSE A \cup B \cup C \cup D
  BY DEF FindingsIn, InScope
<1>3. t \in A <=> \E i \in InScope(l, s) : t \in PayloadTiers(l, i) OBVIOUS
<1>4. t \in B <=> \E i \in InScope(l, s) : t \in OwnTiers(l, i) \/ t \in RedirectTiers(l[i])
  OBVIOUS
<1>5. t \in C <=> \E i \in InScope(l, s) : /\ Seen(l, i) = "container"
                                           /\ t \in f[i] /\ t >= EXEC_OTHER
  OBVIOUS
<1>6. A # {} <=> \E i \in InScope(l, s) : PayloadTiers(l, i) # {} OBVIOUS
<1>7. t \in D <=> /\ t = FORBIDDEN
                  /\ \E i \in InScope(l, s) : Seen(l, i) = "fetches"
                  /\ \E i \in InScope(l, s) : \/ Seen(l, i) = "interpreter"
                                              \/ PayloadTiers(l, i) # {}
  BY <1>6
<1> HIDE DEF A, B, C, D
<1> QED BY <1>1, <1>2, <1>3, <1>4, <1>5, <1>7 DEF f

(* Where what is handed on is judged: the line itself, and what a command  *)
(* that is judged, and taken for a container's, runs inside.               *)
Opened(l, s) == s = 0 \/ (s \in Judged(l) /\ Seen(l, s) = "container")

LEMMA JudgedInScope ==
  ASSUME NEW l, WellWritten(l), NEW s, Opened(l, s)
  PROVE  InScope(l, s) \subseteq Judged(l)
<1>1. Len(l) \in Nat /\ DOMAIN l = 1 .. Len(l) BY DEF WellWritten
<1> DEFINE Bad == InScope(l, s) \ Judged(l)
<1> SUFFICES ASSUME Bad # {} PROVE FALSE OBVIOUS
<1>2. Bad \subseteq DOMAIN l BY Reaching DEF InScope
<1>3. Bad \in SUBSET Nat BY <1>1, <1>2
<1>4. PICK i \in Bad : \A j \in Bad : i <= j BY <1>3, FirstOf
<1>5. i \in DOMAIN l /\ i \in ExpandedOf(l) /\ l[i].scope = s /\ i \notin Judged(l)
  BY <1>2 DEF InScope
<1>6. Passes(l, i) /\ (Stands(l, i) \/ l[i].up \in ExpandedOf(l)) BY <1>5, Reaching
<1>7. l[i].how # "after" BY <1>5, Judging
<1>8. /\ Nests(l, i) /\ l[i] \in Command /\ l[i].up \in DOMAIN l /\ l[i].up \in 1 .. i - 1
      /\ Holder(l, i) \in DOMAIN l /\ Holder(l, i) \in 1 .. i - 1
      /\ l[i].how # "inside" => l[l[i].up].scope = s /\ l[Holder(l, i)].scope = s
  BY <1>5, <1>7, HolderOf DEF WellWritten
<1>9. l[i].how \in {"substituted", "payload", "inside"} BY <1>6, <1>7, <1>8 DEF Command, Passes
<1>10. ASSUME NEW j \in DOMAIN l, l[j].how = "inside", l[i].text = l[j].text
       PROVE  j \in ExpandedOf(l)
  <2>1. ~Unparsable(l, l[j].text) BY <1>6, <1>10 DEF Passes
  <2>2. Passes(l, j) /\ Stands(l, j) BY <1>10, <2>1 DEF Passes, Read, Stands
  <2> QED BY <2>2, Reaching
<1>11. CASE l[i].how = "inside"
  <2>1. s = l[i].up /\ Holder(l, i) = s BY <1>5, <1>8, <1>11 DEF Nests, Holder
  <2>2. s \in Judged(l) /\ Seen(l, s) = "container" BY <1>1, <1>8, <2>1 DEF Opened
  <2> QED BY <1>5, <2>1, <2>2, Judging
<1>12. CASE l[i].how \in {"substituted", "payload"}
  <2>1. Holder(l, i) \in ExpandedOf(l)
    <3>1. CASE l[i].how = "substituted" /\ Leads(l, l[i].up)
      <4> DEFINE u == l[i].up
      <4>1. l[u].how = "payload" /\ l[l[u].up].how = "inside" BY <3>1 DEF Leads, Joined
      <4>2. Nests(l, u) BY <1>8 DEF WellWritten
      <4>3. l[i].text = l[u].text /\ l[u].text = l[l[u].up].text BY <1>8, <3>1, <4>1, <4>2 DEF Nests
      <4>4. Holder(l, i) = l[u].up BY <3>1 DEF Holder
      <4> QED BY <1>8, <1>10, <4>1, <4>3, <4>4
    <3>2. CASE l[i].how = "payload" /\ ~Read(l, i)
      <4>1. Holder(l, i) = l[i].up BY <3>2 DEF Holder
      <4>2. l[l[i].up].how = "inside" BY <3>2 DEF Read, Joined
      <4>3. l[i].text = l[l[i].up].text BY <1>8, <3>2, <4>2 DEF Nests
      <4> QED BY <1>8, <1>10, <4>1, <4>2, <4>3
    <3>3. CASE ~Stands(l, i)
      <4>1. l[i].up \in ExpandedOf(l) BY <1>6, <3>3
      <4>2. Holder(l, i) = l[i].up BY <3>3 DEF Holder, Stands
      <4> QED BY <4>1, <4>2
    <3> QED BY <1>12, <3>1, <3>2, <3>3 DEF Stands
  <2>2. Holder(l, i) \notin Judged(l) BY <1>5, <1>12, Judging
  <2>3. l[Holder(l, i)].scope = s BY <1>8, <1>12
  <2>4. Holder(l, i) \in Bad BY <2>1, <2>2, <2>3 DEF InScope
  <2>5. i <= Holder(l, i) BY <1>4, <2>4
  <2> QED BY <1>1, <1>5, <1>8, <2>5
<1> QED BY <1>9, <1>11, <1>12

(* And a container whose commands are judged is judged itself, where it    *)
(* stands.                                                                 *)
LEMMA ScopeOfJudged ==
  ASSUME NEW l, WellWritten(l), NEW i \in Judged(l)
  PROVE  Opened(l, l[i].scope)
<1>1. Len(l) \in Nat /\ DOMAIN l = 1 .. Len(l) BY DEF WellWritten
<1> DEFINE Bad == {j \in Judged(l) : ~Opened(l, l[j].scope)}
<1> SUFFICES ASSUME Bad # {} PROVE FALSE OBVIOUS
<1>2. Bad \subseteq DOMAIN l BY Judging
<1>3. Bad \in SUBSET Nat BY <1>1, <1>2
<1>4. PICK j \in Bad : \A k \in Bad : j <= k BY <1>3, FirstOf
<1>5. j \in DOMAIN l /\ j \in Judged(l) /\ ~Opened(l, l[j].scope) BY <1>2
<1>6. Nests(l, j) BY <1>5 DEF WellWritten
<1>7. l[j].how # "after" BY <1>5, <1>6 DEF Nests, Opened
<1>8. /\ Holder(l, j) \in Judged(l)
      /\ l[j].how = "inside" => Seen(l, l[j].up) = "container"
  BY <1>5, <1>7, Judging
<1>9. /\ Holder(l, j) \in 1 .. j - 1
      /\ l[j].how # "inside" => l[Holder(l, j)].scope = l[j].scope
  BY <1>5, <1>7, HolderOf
<1>10. CASE l[j].how = "inside"
  <2>1. l[j].scope = l[j].up /\ Holder(l, j) = l[j].up BY <1>6, <1>10 DEF Nests, Holder
  <2> QED BY <1>5, <1>8, <1>10, <2>1 DEF Opened
<1>11. CASE l[j].how # "inside"
  <2>1. Holder(l, j) \in Bad BY <1>5, <1>8, <1>9, <1>11
  <2>2. j <= Holder(l, j) BY <1>4, <2>1
  <2> QED BY <1>1, <1>5, <1>9, <2>2
<1> QED BY <1>10, <1>11

(* What is forbidden somewhere in what is judged is found in the line.     *)
LEMMA ForbiddenSurfaces ==
  ASSUME NEW l, WellWritten(l), NEW i \in Judged(l),
         FORBIDDEN \in FindingsOf(l)[l[i].scope]
  PROVE  FORBIDDEN \in FindingsOf(l)[0]
<1>1. Len(l) \in Nat /\ DOMAIN l = 1 .. Len(l) BY DEF WellWritten
<1>2. \A j \in Judged(l) : j \in DOMAIN l /\ l[j].scope \in 0 .. j - 1 BY Judging DEF WellWritten
<1>3. \A j \in Judged(l) : l[j].scope \in 0 .. Len(l) BY <1>1, <1>2
<1> DEFINE Bad == {s \in 0 .. Len(l) : /\ \E j \in Judged(l) : l[j].scope = s
                                       /\ FORBIDDEN \in FindingsOf(l)[s]}
<1>4. Bad \in SUBSET Nat /\ Bad # {} BY <1>1, <1>3
<1>5. PICK s \in Bad : \A r \in Bad : s <= r BY <1>4, FirstOf
<1>6. PICK j \in Judged(l) : l[j].scope = s OBVIOUS
<1> SUFFICES ASSUME s # 0 PROVE FALSE BY <1>5
<1>7. s \in Judged(l) /\ Seen(l, s) = "container" BY <1>6, ScopeOfJudged DEF Opened
<1> DEFINE r == l[s].scope
<1>8. r \in 0 .. Len(l) /\ r \in 0 .. s - 1 BY <1>2, <1>3, <1>7
<1>9. s \in InScope(l, r) BY <1>2, <1>7, Judging DEF InScope
<1>10. FORBIDDEN >= EXEC_OTHER BY DEF FORBIDDEN, EXEC_OTHER
<1>11. FORBIDDEN \in FindingsOf(l)[r]
  <2> HIDE DEF r
  <2> QED BY <1>5, <1>7, <1>8, <1>9, <1>10, WhatIsFound
<1>12. r \in Bad BY <1>7, <1>8, <1>11
<1> QED BY <1>1, <1>5, <1>8, <1>12

LEMMA HighestOf ==
  ASSUME NEW T \in SUBSET Tiers, T # {}
  PROVE  \E t \in T : \A u \in T : u <= t
<1> DEFINE Below == {k \in Nat : \E t \in T : k = FORBIDDEN - t}
<1>1. \A t \in T : t \in Nat /\ t <= FORBIDDEN BY DEF Tiers, READ, FORBIDDEN
<1>2. FORBIDDEN \in Nat BY DEF FORBIDDEN
<1>3. \A t \in T : FORBIDDEN - t \in Nat BY <1>1, <1>2
<1>4. Below \in SUBSET Nat /\ Below # {} BY <1>3
<1>5. PICK k \in Below : \A j \in Below : k <= j BY <1>4, FirstOf
<1>6. PICK t \in T : k = FORBIDDEN - t OBVIOUS
<1>7. \A u \in T : FORBIDDEN - t <= FORBIDDEN - u BY <1>3, <1>5, <1>6
<1>8. \A u \in T : u <= t BY <1>1, <1>2, <1>7
<1> QED BY <1>8

(* The tier of a line is the highest of what is found and of the baseline. *)
LEMMA Classified ==
  ASSUME NEW l, WellWritten(l), l # <<>>
  PROVE  LET found == FindingsOf(l)[0]
                      \cup {IF MatchesAllowlist(l) THEN EXEC_ALLOWED ELSE EXEC_OTHER}
         IN  /\ Classify(l).listed = MatchesAllowlist(l)
             /\ found \in SUBSET Tiers
             /\ Classify(l).tier \in found
             /\ \A u \in found : u <= Classify(l).tier
<1> DEFINE found == FindingsOf(l)[0]
                    \cup {IF MatchesAllowlist(l) THEN EXEC_ALLOWED ELSE EXEC_OTHER}
           highest == CHOOSE t \in found : \A u \in found : u <= t
<1>1. Len(l) \in Nat BY DEF WellWritten
<1>2. FindingsOf(l)[0] \subseteq Tiers BY <1>1, Finding
<1>3. EXEC_ALLOWED \in Tiers /\ EXEC_OTHER \in Tiers
  BY DEF Tiers, READ, EXEC_ALLOWED, EXEC_OTHER, FORBIDDEN
<1>4. found \in SUBSET Tiers /\ found # {} BY <1>2, <1>3
<1>5. Classify(l) = [tier |-> highest, listed |-> MatchesAllowlist(l)]
  BY DEF Classify, MatchesAllowlist
<1>6. highest \in found /\ \A u \in found : u <= highest
  <2> HIDE DEF found
  <2>1. \E t \in found : \A u \in found : u <= t BY <1>4, HighestOf
  <2> QED BY <2>1
<1> QED BY <1>4, <1>5, <1>6

LEMMA CallOfLine ==
  ASSUME line # <<>>
  PROVE  /\ LineCall.cmd /\ LineCall.tier = EXEC_OTHER
         /\ LineCall.cmdTier = Classify(line).tier
         /\ LineCall.listed = Classify(line).listed
BY DEF LineCall

(* What stands where it is read is judged, or the line is refused for what *)
(* it stands in: a text that does not parse, code with nothing behind its  *)
(* flag, interpreters nested too deeply.                                   *)
LEMMA ReadIsJudged ==
  ASSUME NEW l, WellWritten(l), FORBIDDEN \notin FindingsOf(l)[0]
  PROVE  DOMAIN l \ Overlooked(l) \subseteq Judged(l)
<1>1. Len(l) \in Nat /\ DOMAIN l = 1 .. Len(l) BY DEF WellWritten
<1> DEFINE Bad == (DOMAIN l \ Overlooked(l)) \ Judged(l)
<1> SUFFICES ASSUME Bad # {} PROVE FALSE OBVIOUS
<1>2. Bad \in SUBSET Nat BY <1>1
<1>3. PICK i \in Bad : \A j \in Bad : i <= j BY <1>2, FirstOf
<1>4. i \in DOMAIN l /\ i \notin Overlooked(l) /\ i \notin Judged(l) OBVIOUS
<1>5. Nests(l, i) /\ l[i] \in Command BY <1>4 DEF WellWritten
<1>6. ASSUME NEW j \in Judged(l)
      PROVE  /\ j \in DOMAIN l /\ j \in ExpandedOf(l) /\ ~Unparsable(l, l[j].text)
             /\ FORBIDDEN \notin PayloadTiers(l, j)
             /\ Seen(l, j) = "container" => ~Unparsable(l, j)
  <2>1. j \in DOMAIN l /\ j \in ExpandedOf(l) BY Judging
  <2>2. ~Unparsable(l, l[j].text) BY <2>1, Reaching DEF Passes
  <2> DEFINE s == l[j].scope
  <2>3. s \in 0 .. Len(l) /\ j \in 0 .. Len(l) BY <1>1, <2>1 DEF WellWritten
  <2>4. FORBIDDEN \notin FindingsOf(l)[s] BY ForbiddenSurfaces
  <2>5. j \in InScope(l, s) BY <2>1 DEF InScope
  <2> HIDE DEF s
  <2>6. ~Unparsable(l, s) BY <2>3, <2>4, WhatIsFound
  <2>7. FORBIDDEN \notin PayloadTiers(l, j) BY <2>3, <2>4, <2>5, <2>6, WhatIsFound
  <2>8. ASSUME Seen(l, j) = "container", Unparsable(l, j) PROVE FALSE
    <3>1. FORBIDDEN \in FindingsOf(l)[j] BY <2>3, <2>8, WhatIsFound
    <3>2. FORBIDDEN >= EXEC_OTHER BY DEF FORBIDDEN, EXEC_OTHER
    <3> QED BY <2>3, <2>4, <2>5, <2>6, <2>8, <3>1, <3>2, WhatIsFound
  <2> QED BY <2>1, <2>2, <2>7, <2>8
<1>7. l[i].how # "after"
  <2> SUFFICES ASSUME l[i].how = "after" PROVE FALSE OBVIOUS
  <2>1. l[i].text = 0 BY <1>5 DEF Nests
  <2>2. ~Unparsable(l, 0) BY <1>1, WhatIsFound
  <2>3. Passes(l, i) /\ Stands(l, i) BY <2>1, <2>2 DEF Passes, Stands, Read
  <2> QED BY <1>4, <2>3, Reaching, Judging
<1>8. Holder(l, i) \notin Overlooked(l) /\ ~Hides(l, i) BY <1>4, <1>7, Overlooking
<1>9. /\ l[i].up \in DOMAIN l
      /\ Holder(l, i) \in DOMAIN l /\ Holder(l, i) \in 1 .. i - 1
  BY <1>4, <1>7, HolderOf
<1>10. Holder(l, i) \in Judged(l)
  <2> SUFFICES ASSUME Holder(l, i) \notin Judged(l) PROVE FALSE OBVIOUS
  <2>1. Holder(l, i) \in Bad BY <1>8, <1>9
  <2>2. i <= Holder(l, i) BY <1>3, <2>1
  <2> QED BY <1>1, <1>4, <1>9, <2>2
<1>11. l[i].how \in {"substituted", "payload", "inside"} BY <1>5, <1>7, <1>8 DEF Command, Hides
<1> DEFINE h == Holder(l, i)
<1>12. CASE l[i].how = "inside"
  <2>1. h = l[i].up /\ l[i].text = h BY <1>5, <1>12 DEF Nests, Holder
  <2>2. Seen(l, h) = "container"
    <3>1. l[h].prog = "container" /\ ~Leads(l, h) BY <1>5, <1>12, <2>1 DEF Nests
    <3>2. l[h].dressed # "operand" BY <1>8, <1>12, <2>1 DEF Hides
    <3> QED BY <3>1, <3>2 DEF Seen
  <2>3. ~Unparsable(l, l[i].text) BY <1>6, <1>10, <2>1, <2>2
  <2>4. Passes(l, i) /\ Stands(l, i) BY <1>12, <2>3 DEF Passes, Stands, Read
  <2> QED BY <1>4, <1>10, <2>1, <2>2, <2>4, Reaching, Judging
<1>13. CASE l[i].how = "substituted"
  <2>1. l[i].text = l[l[i].up].text BY <1>5, <1>13 DEF Nests
  <2>2. CASE Leads(l, l[i].up)
    <3> DEFINE u == l[i].up
    <3>1. l[u].how = "payload" /\ l[l[u].up].how = "inside" BY <2>2 DEF Leads, Joined
    <3>2. Nests(l, u) BY <1>9 DEF WellWritten
    <3>3. l[u].text = l[l[u].up].text BY <3>1, <3>2 DEF Nests
    <3>4. h = l[u].up BY <1>13, <2>2 DEF Holder
    <3>5. ~Unparsable(l, l[i].text) BY <1>6, <1>10, <2>1, <3>3, <3>4
    <3>6. Passes(l, i) /\ Stands(l, i) BY <1>13, <2>2, <3>5 DEF Passes, Stands, Read
    <3> QED BY <1>4, <1>10, <1>13, <3>6, Reaching, Judging
  <2>3. CASE ~Leads(l, l[i].up)
    <3>1. h = l[i].up BY <2>3 DEF Holder
    <3>2. ~Unparsable(l, l[i].text) /\ l[i].up \in ExpandedOf(l) BY <1>6, <1>10, <2>1, <3>1
    <3>3. Passes(l, i) BY <1>13, <3>2 DEF Passes, Read
    <3> QED BY <1>4, <1>10, <1>13, <3>2, <3>3, Reaching, Judging
  <2> QED BY <2>2, <2>3
<1>14. CASE l[i].how = "payload" /\ ~Read(l, i)
  <2>1. h = l[i].up BY <1>14 DEF Holder
  <2>2. l[l[i].up].how = "inside" BY <1>14 DEF Read, Joined
  <2>3. l[i].text = l[l[i].up].text BY <1>5, <1>14, <2>2 DEF Nests
  <2>4. ~Unparsable(l, l[i].text) BY <1>6, <1>10, <2>1, <2>3
  <2>5. Passes(l, i) /\ Stands(l, i) BY <1>14, <2>4 DEF Passes, Stands
  <2> QED BY <1>4, <1>10, <1>14, <2>5, Reaching, Judging
<1>15. CASE Read(l, i)
  <2>1. l[i].how = "payload" BY <1>15 DEF Read
  <2>2. h = l[i].up BY <2>1 DEF Holder
  <2>3. LooksFor(l[h]) /\ ~Unparsable(l, l[i].text) BY <1>8, <1>15, <2>2 DEF Hides
  <2>4. FORBIDDEN \notin PayloadTiers(l, h) /\ h \in ExpandedOf(l) BY <1>6, <1>10
  <2>5. ~(l[h].nesting >= MaxPayloadDepth) /\ l[h].code # "missing"
    BY <2>3, <2>4 DEF PayloadTiers
  <2>6. ShowsPayloads(l[h]) BY <2>3, <2>5 DEF ShowsPayloads
  <2>7. l[i].nesting <= MaxPayloadDepth
    <3>1. l[h].nesting \in Nat
      <4>1. l[h] \in Command BY <1>9 DEF WellWritten
      <4> QED BY <4>1 DEF Command
    <3>2. l[i].nesting = 0 \/ l[i].nesting = l[h].nesting + 1 BY <1>5, <2>1, <2>2 DEF Nests
    <3>3. MaxPayloadDepth \in Nat BY EngineAssumption
    <3> QED BY <2>5, <3>1, <3>2, <3>3
  <2>8. Passes(l, i) BY <2>1, <2>2, <2>3, <2>6, <2>7 DEF Passes
  <2> QED BY <1>4, <1>10, <2>1, <2>2, <2>4, <2>8, Reaching, Judging
<1> QED BY <1>11, <1>12, <1>13, <1>14, <1>15

(* Whatever stands beside it or around it, in a substitution, in code      *)
(* handed to an interpreter or inside a container: what is taken for a     *)
(* command that destroys or discards data is refused, and so is a download *)
(* next to an interpreter, however long the line is and however deep,      *)
(* unless it stands where nobody reads (commands.py:651-730).              *)
THEOREM NothingHides == Spec => []HidingDoesNotHelp
<1>1. WellWritten(line) => HidingDoesNotHelp
  <2> DEFINE read == DOMAIN line \ Overlooked(line)
             Has(prog, scope) == \E i \in read : Seen(line, i) = prog /\ line[i].scope = scope
  <2> SUFFICES ASSUME WellWritten(line),
                      \/ \E i \in read : Seen(line, i) \in {"destroys", "discards"}
                      \/ \E s \in 0 .. Len(line) : Has("fetches", s) /\ Has("interpreter", s),
                      NEW w \in Workspaces, NEW now \in Times
               PROVE  Verdict(LineCall, w, now).decision = "deny"
    BY DEF HidingDoesNotHelp
  <2>1. Len(line) \in Nat /\ DOMAIN line = 1 .. Len(line) BY DEF WellWritten
  <2>2. ASSUME NEW i \in Judged(line)
        PROVE  i \in InScope(line, line[i].scope) /\ line[i].scope \in 0 .. Len(line)
    <3>1. i \in DOMAIN line /\ i \in ExpandedOf(line) BY Judging
    <3>2. line[i].scope \in 0 .. i - 1 BY <3>1 DEF WellWritten
    <3> QED BY <2>1, <3>1, <3>2 DEF InScope
  <2>3. FORBIDDEN \in FindingsOf(line)[0]
    <3> SUFFICES ASSUME FORBIDDEN \notin FindingsOf(line)[0] PROVE FALSE OBVIOUS
    <3>1. read \subseteq Judged(line) BY ReadIsJudged
    <3>2. ASSUME NEW i \in read, Seen(line, i) \in {"destroys", "discards"} PROVE FALSE
      <4>1. FORBIDDEN \in OwnTiers(line, i) BY <3>2 DEF OwnTiers
      <4>2. FORBIDDEN \in FindingsOf(line)[line[i].scope] BY <2>2, <3>1, <4>1, WhatIsFound
      <4> QED BY <3>1, <4>2, ForbiddenSurfaces
    <3>3. ASSUME NEW s \in 0 .. Len(line), NEW i \in read, NEW j \in read,
                 Seen(line, i) = "fetches", line[i].scope = s,
                 Seen(line, j) = "interpreter", line[j].scope = s
          PROVE  FALSE
      <4>1. i \in InScope(line, s) /\ j \in InScope(line, s) BY <2>2, <3>1, <3>3
      <4>2. FORBIDDEN \in FindingsOf(line)[line[i].scope] BY <3>3, <4>1, WhatIsFound
      <4> QED BY <3>1, <4>2, ForbiddenSurfaces
    <3> QED BY <3>2, <3>3
  <2>4. line # <<>> BY <2>1
  <2>5. Classify(line).tier = FORBIDDEN
    <3>1. Classify(line).tier \in Tiers /\ FORBIDDEN <= Classify(line).tier
      BY <2>3, <2>4, Classified
    <3> QED BY <3>1 DEF Tiers, READ, FORBIDDEN
  <2>6. CombinedTier(LineCall) = FORBIDDEN
    <3>1. FORBIDDEN > EXEC_OTHER BY DEF FORBIDDEN, EXEC_OTHER
    <3> QED BY <2>4, <2>5, <3>1, CallOfLine DEF CombinedTier
  <2> QED BY <2>6 DEF Verdict, Decide
<1> QED BY <1>1, LineInductive, PTL

(* An allowlisted line is one command on the host that stands first, and   *)
(* nothing was found in it.                                                *)
LEMMA AllowlistedIsFirst ==
  ASSUME NEW l, WellWritten(l), l # <<>>, MatchesAllowlist(l)
  PROVE  /\ 1 \in DOMAIN l /\ ~Unparsable(l, 0) /\ OnHost(l) = {1}
         /\ l[1].listed /\ l[1].dressed = "no" /\ l[1].target # "over"
<1>1. l \in Seq(Command) /\ Len(l) \in Nat /\ DOMAIN l = 1 .. Len(l) BY DEF WellWritten
<1>2. 1 \in DOMAIN l BY <1>1
<1>3. Nests(l, 1) BY <1>2 DEF WellWritten
<1>4. l[1].how = "after"
  <2>1. l[1].how # "after" => l[1].up \in 1 .. 0 BY <1>3 DEF Nests
  <2> QED BY <2>1
<1>5. l[1].text = 0 /\ l[1].scope = 0 BY <1>3, <1>4 DEF Nests
<1>6. ~Unparsable(l, 0)
  <2> SUFFICES ASSUME Unparsable(l, 0) PROVE FALSE OBVIOUS
  <2>1. FORBIDDEN \in FindingsOf(l)[0] BY <1>1, WhatIsFound
  <2>2. FORBIDDEN < EXEC_OTHER BY <2>1 DEF MatchesAllowlist
  <2> QED BY <2>2 DEF FORBIDDEN, EXEC_OTHER
<1>7. 1 \in ExpandedOf(l) BY <1>2, <1>4, <1>5, <1>6, Reaching DEF Passes, Stands, Read
<1>8. 1 \in OnHost(l) BY <1>5, <1>7 DEF OnHost
<1>9. OnHost(l) = {1}
  <2>1. Cardinality(OnHost(l)) = 1 BY DEF MatchesAllowlist
  <2>2. OnHost(l) \subseteq 1 .. Len(l) BY <1>1, Reaching DEF OnHost
  <2>3. IsFiniteSet(OnHost(l))
    <3>1. IsFiniteSet(1 .. Len(l)) BY <1>1, FS_Interval
    <3> QED BY <2>2, <3>1, FS_Subset
  <2>4. \E x : OnHost(l) = {x} BY <2>1, <2>3, FS_Singleton
  <2> QED BY <1>8, <2>4
<1> QED BY <1>2, <1>6, <1>8, <1>9 DEF MatchesAllowlist

(* A shell call that goes ahead without a rule, an elevation or a question *)
(* begins with an allowlisted command that nobody dressed up, that         *)
(* truncates no file and shows no code to be read, and whatever else it    *)
(* runs on the host stands where nobody reads, for any line                *)
(* (commands.py:732-757).                                                  *)
THEOREM OnlyListedGoes == Spec => []OnlyTheListedGoesAhead
<1>1. WellWritten(line) => OnlyTheListedGoesAhead
  <2> SUFFICES ASSUME WellWritten(line), line # <<>>, rules = <<>>,
                      NEW w \in Workspaces, NEW now \in Times, ~w.elevated,
                      Verdict(LineCall, w, now).decision = "allow"
               PROVE  /\ \A i \in DOMAIN line :
                           line[i].scope = 0 => i = 1 \/ i \in Overlooked(line)
                      /\ line[1].listed /\ line[1].dressed = "no" /\ line[1].target # "over"
                      /\ line[1].code \in {"none", "bundled"}
    BY DEF OnlyTheListedGoesAhead
  <2> DEFINE tier == Classify(line).tier
             F == FindingsOf(line)[0]
  <2>1. line \in Seq(Command) /\ Len(line) \in Nat /\ DOMAIN line = 1 .. Len(line)
    BY DEF WellWritten
  <2>2. /\ READ = 0 /\ WRITE = 1 /\ EXEC_ALLOWED = 2 /\ EXEC_OTHER = 3 /\ FORBIDDEN = 5
        /\ Tiers = 0 .. 5
    BY DEF READ, WRITE, EXEC_ALLOWED, EXEC_OTHER, FORBIDDEN, Tiers
  <2>3. tier \in Tiers /\ LineCall.listed = MatchesAllowlist(line)
    BY Classified, CallOfLine
  <2>4. CombinedTier(LineCall) = IF MatchesAllowlist(line) \/ tier > EXEC_OTHER THEN tier ELSE EXEC_OTHER
    BY <2>3, CallOfLine DEF CombinedTier
  <2>5. CombinedTier(LineCall) \in Tiers BY <2>2, <2>3, <2>4
  <2>6. EffectiveMode(w) \in Modes /\ EffectiveMode(w) # "full_access"
    BY EngineAssumption DEF EffectiveMode
  <2>7. ~Matched(rules, "allow", LineCall, w, now)
    <3>1. DOMAIN rules = {} OBVIOUS
    <3> QED BY <3>1 DEF Matched
  <2>8. CombinedTier(LineCall) = READ \/ CombinedTier(LineCall) <= EXEC_ALLOWED
    BY <2>5, <2>6, <2>7, DecideTells DEF Verdict
  <2>9. MatchesAllowlist(line)
    <3> HIDE DEF tier
    <3> QED BY <2>2, <2>3, <2>4, <2>8
  <2>10. /\ 1 \in DOMAIN line /\ ~Unparsable(line, 0) /\ OnHost(line) = {1}
         /\ line[1].listed /\ line[1].dressed = "no" /\ line[1].target # "over"
    BY <2>9, AllowlistedIsFirst
  <2>11. 1 \in InScope(line, 0) /\ 1 \in ExpandedOf(line) BY <2>10 DEF OnHost, InScope
  <2>12. ASSUME NEW t \in PayloadTiers(line, 1) PROVE FALSE
    <3>1. t \in F BY <2>1, <2>10, <2>11, WhatIsFound
    <3>2. t < EXEC_OTHER BY <2>9, <3>1 DEF MatchesAllowlist
    <3>3. t \in {EXEC_OTHER, FORBIDDEN} BY <2>12 DEF PayloadTiers
    <3> QED BY <2>2, <3>2, <3>3
  <2>13. line[1].nesting = 0 /\ line[1] \in Command
         /\ (line[1].code # "none" => line[1].prog = "interpreter")
    <3>1. Nests(line, 1) BY <2>10 DEF WellWritten
    <3>2. line[1].how = "after"
      <4>1. line[1].how # "after" => line[1].up \in 1 .. 0 BY <3>1 DEF Nests
      <4> QED BY <4>1
    <3> QED BY <2>1, <2>10, <3>1, <3>2 DEF Nests, WellWritten
  <2>14. ~(line[1].nesting >= MaxPayloadDepth) BY <2>13, EngineAssumption
  <2>15. line[1].code \in {"none", "bundled"}
    <3> SUFFICES ASSUME line[1].code \notin {"none", "bundled"} PROVE FALSE OBVIOUS
    <3>1. line[1].prog = "interpreter" /\ line[1].code \in {"script", "missing"}
      BY <2>13, <2>10 DEF Command
    <3>2. PayloadTiers(line, 1) # {} BY <2>10, <2>14, <3>1 DEF PayloadTiers, LooksFor
    <3> QED BY <2>12, <3>2
  <2>16. ASSUME NEW i \in DOMAIN line, line[i].scope = 0, i \notin Overlooked(line)
         PROVE  i = 1
    <3>1. FORBIDDEN \notin F
      <4>1. FORBIDDEN \in F => FORBIDDEN < EXEC_OTHER BY <2>9 DEF MatchesAllowlist
      <4> QED BY <2>2, <4>1
    <3>2. i \in Judged(line) BY <2>16, <3>1, ReadIsJudged
    <3>3. i \in ExpandedOf(line) BY <2>16, <3>2, Judging
    <3> QED BY <2>10, <2>16, <3>3 DEF OnHost
  <2> QED BY <2>10, <2>15, <2>16
<1> QED BY <1>1, LineInductive, PTL

-----------------------------------------------------------------------------
(* An edit after which everything judged still is, m after l.              *)
Shows(l, m) ==
  /\ WellWritten(l) /\ WellWritten(m) /\ Edited(l, m)
  /\ \A i \in Judged(l) : /\ i \in Judged(m) /\ Seen(m, i) = Seen(l, i)
                          /\ l[i].prog = "interpreter" => m[i].dressed = l[i].dressed

LEMMA StaysUnparsable ==
  ASSUME NEW l, NEW m, Shows(l, m), NEW text, Unparsable(l, text)
  PROVE  Unparsable(m, text)
<1>1. DOMAIN l = 1 .. Len(l) /\ DOMAIN m = 1 .. Len(m) /\ Len(l) \in Nat /\ Len(m) \in Nat
      /\ Len(l) <= Len(m)
  BY DEF Shows, WellWritten, Edited
<1>2. PICK i \in DOMAIN l : l[i].text = text /\ l[i].depth > MaxDepth BY DEF Unparsable
<1>3. i \in DOMAIN m BY <1>1
<1>4. m[i].text = l[i].text /\ m[i].depth = l[i].depth BY DEF Shows, Edited, Kept
<1> QED BY <1>2, <1>3, <1>4 DEF Unparsable

LEMMA StaysInScope ==
  ASSUME NEW l, NEW m, Shows(l, m), NEW s, Opened(l, s), NEW i \in InScope(l, s)
  PROVE  /\ i \in DOMAIN l /\ i \in DOMAIN m
         /\ i \in Judged(l) /\ i \in InScope(m, s) /\ Kept(l[i], m[i])
         /\ Seen(m, i) = Seen(l, i)
         /\ l[i].prog = "interpreter" => m[i].dressed = l[i].dressed
<1>1. WellWritten(l) /\ WellWritten(m) BY DEF Shows
<1>2. i \in Judged(l) BY <1>1, JudgedInScope
<1>3. /\ i \in Judged(m) /\ Seen(m, i) = Seen(l, i)
      /\ l[i].prog = "interpreter" => m[i].dressed = l[i].dressed
  BY <1>2 DEF Shows
<1>4. i \in DOMAIN l /\ i \in DOMAIN m /\ i \in ExpandedOf(m) BY <1>1, <1>2, <1>3, Judging
<1>5. Kept(l[i], m[i]) BY <1>4 DEF Shows, Edited
<1>6. i \in InScope(m, s) BY <1>4, <1>5 DEF InScope, Kept
<1> QED BY <1>2, <1>3, <1>4, <1>5, <1>6

(* What is found in the code an interpreter is given is found still.       *)
LEMMA PayloadStays ==
  ASSUME NEW l, NEW m, Shows(l, m), NEW s, Opened(l, s), NEW i \in InScope(l, s),
         NEW t \in PayloadTiers(l, i)
  PROVE  t \in PayloadTiers(m, i)
<1>1. /\ Kept(l[i], m[i])
      /\ l[i].prog = "interpreter" => m[i].dressed = l[i].dressed
  BY StaysInScope
<1>2. m[i].nesting = l[i].nesting /\ m[i].code = l[i].code /\ m[i].prog = l[i].prog
  BY <1>1 DEF Kept
<1>3. CASE l[i].nesting >= MaxPayloadDepth BY <1>2, <1>3 DEF PayloadTiers
<1>4. CASE ~(l[i].nesting >= MaxPayloadDepth)
  <2>1. LooksFor(l[i]) BY <1>4 DEF PayloadTiers
  <2>2. LooksFor(m[i]) BY <1>1, <1>2, <2>1 DEF LooksFor
  <2> DEFINE Given(k) == \E j \in DOMAIN k : k[j].how = "payload" /\ k[j].up = i
  <2>3. Given(l) => Given(m)
    <3> SUFFICES ASSUME NEW j \in DOMAIN l, l[j].how = "payload", l[j].up = i PROVE Given(m)
      OBVIOUS
    <3>1. /\ DOMAIN l = 1 .. Len(l) /\ DOMAIN m = 1 .. Len(m) /\ Len(l) \in Nat /\ Len(m) \in Nat
          /\ Len(l) <= Len(m)
      BY DEF Shows, WellWritten, Edited
    <3>2. j \in DOMAIN m BY <3>1
    <3>3. m[j].how = "payload" /\ m[j].up = i BY DEF Shows, Edited, Kept
    <3> QED BY <3>2, <3>3
  <2>4. t \in (IF l[i].code = "missing" THEN {FORBIDDEN}
              ELSE IF l[i].code = "script" \/ Given(l) THEN {EXEC_OTHER} ELSE {})
    BY <1>4, <2>1 DEF PayloadTiers
  <2>5. PayloadTiers(m, i) = (IF l[i].code = "missing" THEN {FORBIDDEN}
                              ELSE IF l[i].code = "script" \/ Given(m) THEN {EXEC_OTHER} ELSE {})
    BY <1>2, <1>4, <2>2 DEF PayloadTiers
  <2> HIDE DEF Given
  <2> QED BY <2>3, <2>4, <2>5
<1> QED BY <1>3, <1>4

(* Whatever was found is found still, or something worse is.               *)
LEMMA FindingsRise ==
  ASSUME NEW l, NEW m, Shows(l, m),
         NEW s \in 0 .. Len(l), Opened(l, s), NEW t \in FindingsOf(l)[s]
  PROVE  \E u \in FindingsOf(m)[s] : t <= u
<1> DEFINE Rises(r) == \A v \in FindingsOf(l)[r] : \E u \in FindingsOf(m)[r] : v <= u
           Bad == {r \in 0 .. Len(l) : Opened(l, r) /\ ~Rises(r)}
           Depths == {Len(l) - r : r \in Bad}
<1>1. WellWritten(l) /\ WellWritten(m) /\ Len(l) \in Nat /\ Len(m) \in Nat /\ Len(l) <= Len(m)
      /\ DOMAIN l = 1 .. Len(l)
  BY DEF Shows, Edited, WellWritten
<1>2. /\ EXEC_OTHER = 3 /\ FORBIDDEN = 5 /\ Tiers = 0 .. 5
  BY DEF READ, EXEC_OTHER, FORBIDDEN, Tiers
<1> SUFFICES ASSUME Bad # {} PROVE FALSE OBVIOUS
<1>3. Depths \in SUBSET Nat /\ Depths # {} BY <1>1
<1>4. PICK d \in Depths : \A e \in Depths : d <= e BY <1>3, FirstOf
<1>5. PICK r \in Bad : d = Len(l) - r OBVIOUS
<1>6. \A q \in Bad : Len(l) - r <= Len(l) - q BY <1>4, <1>5
<1>7. \A q \in 0 .. Len(l) : r < q => q \notin Bad BY <1>1, <1>5, <1>6
<1>8. r \in 0 .. Len(l) /\ Opened(l, r) /\ ~Rises(r) OBVIOUS
<1>9. PICK v \in FindingsOf(l)[r] : \A u \in FindingsOf(m)[r] : ~(v <= u) BY <1>8
<1>10. r \in 0 .. Len(m) BY <1>1, <1>8
<1>11. v \in Tiers /\ \A u \in FindingsOf(m)[r] : u \in Tiers BY <1>1, <1>8, <1>10, Finding
<1>12. v \notin FindingsOf(m)[r] BY <1>2, <1>9, <1>11
<1>13. FORBIDDEN \notin FindingsOf(m)[r] BY <1>2, <1>9, <1>11
<1>14. ~Unparsable(m, r) BY <1>1, <1>10, <1>13, WhatIsFound
<1>15. ~Unparsable(l, r) BY <1>14, StaysUnparsable
<1>16. ASSUME NEW i \in InScope(l, r)
       PROVE  /\ i \in InScope(m, r) /\ Kept(l[i], m[i]) /\ i \in DOMAIN l /\ i \in Judged(l)
              /\ Seen(m, i) = Seen(l, i)
  BY <1>8, StaysInScope
<1>17. ASSUME NEW i \in InScope(l, r),
              v \in PayloadTiers(l, i) \/ v \in OwnTiers(l, i) \/ v \in RedirectTiers(l[i])
       PROVE  FALSE
  <2>1. v \in PayloadTiers(l, i) => v \in PayloadTiers(m, i) BY <1>8, PayloadStays
  <2>2. OwnTiers(m, i) = OwnTiers(l, i) BY <1>16 DEF OwnTiers
  <2>3. v \in RedirectTiers(l[i]) => v \in RedirectTiers(m[i])
    BY <1>16 DEF Kept, RedirectTiers
  <2>4. i \in InScope(m, r) BY <1>16
  <2> QED BY <1>1, <1>10, <1>12, <1>14, <1>17, <2>1, <2>2, <2>3, <2>4, WhatIsFound
<1>18. ASSUME NEW i \in InScope(l, r), Seen(l, i) = "container",
              v \in FindingsOf(l)[i], v >= EXEC_OTHER
       PROVE  FALSE
  <2>1. l[i].scope = r /\ l[i].scope \in 0 .. i - 1 BY <1>1, <1>16 DEF InScope, WellWritten
  <2>2. i \in 0 .. Len(l) /\ r < i BY <1>1, <1>16, <2>1
  <2>3. Rises(i) BY <1>7, <1>16, <1>18, <2>2 DEF Opened
  <2>4. PICK u \in FindingsOf(m)[i] : v <= u BY <1>18, <2>3
  <2>5. u \in Tiers
    <3>1. i \in 0 .. Len(m) BY <1>1, <2>2
    <3> QED BY <1>1, <3>1, Finding
  <2>6. u >= EXEC_OTHER BY <1>2, <1>11, <1>18, <2>4, <2>5
  <2>7. i \in InScope(m, r) /\ Seen(m, i) = "container" BY <1>16, <1>18
  <2>8. u \in FindingsOf(m)[r] BY <1>1, <1>10, <1>14, <2>4, <2>6, <2>7, WhatIsFound
  <2> QED BY <1>9, <2>4, <2>8
<1>19. ASSUME v = FORBIDDEN, NEW i \in InScope(l, r), NEW j \in InScope(l, r),
              Seen(l, i) = "fetches", Seen(l, j) = "interpreter" \/ PayloadTiers(l, j) # {}
       PROVE  FALSE
  <2>1. i \in InScope(m, r) /\ Seen(m, i) = "fetches" BY <1>16, <1>19
  <2>2. j \in InScope(m, r) /\ (Seen(m, j) = "interpreter" \/ PayloadTiers(m, j) # {})
    <3>1. Seen(l, j) = "interpreter" => Seen(m, j) = "interpreter" BY <1>16
    <3>2. PayloadTiers(l, j) # {} => PayloadTiers(m, j) # {} BY <1>8, PayloadStays
    <3> QED BY <1>16, <1>19, <3>1, <3>2
  <2> QED BY <1>1, <1>10, <1>13, <1>14, <2>1, <2>2, WhatIsFound
<1>20. \/ \E i \in InScope(l, r) : \/ v \in PayloadTiers(l, i)
                                    \/ v \in OwnTiers(l, i)
                                    \/ v \in RedirectTiers(l[i])
       \/ \E i \in InScope(l, r) : /\ Seen(l, i) = "container"
                                    /\ v \in FindingsOf(l)[i] /\ v >= EXEC_OTHER
       \/ /\ v = FORBIDDEN
          /\ \E i \in InScope(l, r) : Seen(l, i) = "fetches"
          /\ \E i \in InScope(l, r) : Seen(l, i) = "interpreter" \/ PayloadTiers(l, i) # {}
  BY <1>1, <1>8, <1>9, <1>15, WhatIsFound
<1> HIDE DEF Rises, Bad, Depths
<1> QED BY <1>17, <1>18, <1>19, <1>20

(* And a line that is allowlisted then was allowlisted before.             *)
LEMMA AllowlistShrinks ==
  ASSUME NEW l, NEW m, Shows(l, m), l # <<>>, m # <<>>, MatchesAllowlist(m)
  PROVE  MatchesAllowlist(l)
<1>1. /\ WellWritten(l) /\ WellWritten(m) /\ Len(l) \in Nat /\ Len(m) \in Nat
      /\ DOMAIN l = 1 .. Len(l) /\ 1 \in DOMAIN l
  BY DEF Shows, Edited, WellWritten
<1>2. /\ ~Unparsable(m, 0) /\ OnHost(m) = {1}
      /\ m[1].listed /\ m[1].dressed = "no" /\ m[1].target # "over"
  BY <1>1, AllowlistedIsFirst
<1>3. ~Unparsable(l, 0) BY <1>2, StaysUnparsable
<1>4. Nests(l, 1) BY <1>1 DEF WellWritten
<1>5. l[1].how = "after"
  <2>1. l[1].how # "after" => l[1].up \in 1 .. 0 BY <1>4 DEF Nests
  <2> QED BY <2>1
<1>6. l[1].text = 0 /\ l[1].scope = 0 BY <1>4, <1>5 DEF Nests
<1>7. 1 \in ExpandedOf(l) BY <1>1, <1>3, <1>5, <1>6, Reaching DEF Passes, Stands, Read
<1>8. 1 \in InScope(l, 0) BY <1>6, <1>7 DEF InScope
<1>9. InScope(l, 0) \subseteq InScope(m, 0) BY StaysInScope DEF Opened
<1>10. OnHost(l) = {1} BY <1>2, <1>8, <1>9 DEF OnHost, InScope
<1>11. Kept(l[1], m[1]) BY <1>8, StaysInScope DEF Opened
<1>12. l[1].listed /\ l[1].dressed = "no" /\ l[1].target # "over"
  <2>1. l[1] \in Command BY <1>1 DEF WellWritten
  <2> QED BY <1>2, <1>11, <2>1 DEF Kept, Command
<1>13. \A t \in FindingsOf(l)[0] : t < EXEC_OTHER
  <2> SUFFICES ASSUME NEW t \in FindingsOf(l)[0] PROVE t < EXEC_OTHER OBVIOUS
  <2>1. 0 \in 0 .. Len(l) /\ 0 \in 0 .. Len(m) BY <1>1
  <2>2. PICK u \in FindingsOf(m)[0] : t <= u BY <2>1, FindingsRise DEF Opened
  <2>3. u < EXEC_OTHER BY <2>2 DEF MatchesAllowlist
  <2>4. t \in Tiers /\ u \in Tiers BY <1>1, <2>1, Finding
  <2> QED BY <2>2, <2>3, <2>4 DEF Tiers, READ, FORBIDDEN, EXEC_OTHER
<1>14. Cardinality(OnHost(l)) = 1 BY <1>10, FS_Singleton
<1> QED BY <1>10, <1>12, <1>13, <1>14 DEF MatchesAllowlist

LEMMA TierRises ==
  ASSUME NEW l, NEW m, Shows(l, m), l # <<>>, m # <<>>
  PROVE  Classify(m).tier >= Classify(l).tier
<1>1. WellWritten(l) /\ WellWritten(m) /\ Len(l) \in Nat BY DEF Shows, WellWritten
<1> DEFINE Found(k) == FindingsOf(k)[0]
                       \cup {IF MatchesAllowlist(k) THEN EXEC_ALLOWED ELSE EXEC_OTHER}
<1>2. Classify(l).tier \in Found(l) /\ Found(l) \in SUBSET Tiers BY <1>1, Classified
<1>3. /\ Classify(m).tier \in Found(m) /\ Found(m) \in SUBSET Tiers
      /\ \A u \in Found(m) : u <= Classify(m).tier
  BY <1>1, Classified
<1>4. \A k \in Tiers : k \in Nat BY DEF Tiers, READ, FORBIDDEN
<1>5. \E u \in Found(m) : Classify(l).tier <= u
  <2>1. CASE Classify(l).tier \in FindingsOf(l)[0] BY <1>1, <2>1, FindingsRise DEF Opened
  <2>2. CASE Classify(l).tier \notin FindingsOf(l)[0]
    <3>1. Classify(l).tier = IF MatchesAllowlist(l) THEN EXEC_ALLOWED ELSE EXEC_OTHER
      BY <1>2, <2>2
    <3>2. MatchesAllowlist(m) => MatchesAllowlist(l) BY AllowlistShrinks
    <3> QED BY <3>1, <3>2 DEF EXEC_ALLOWED, EXEC_OTHER
  <2> QED BY <2>1, <2>2
<1> HIDE DEF Found
<1> QED BY <1>2, <1>3, <1>4, <1>5

(* An edit that hides nothing that is judged never lowers the tier of a    *)
(* line: details beside a risk do not average it out (tiers.py:1-6,        *)
(* commands.py:732-740).                                                   *)
THEOREM NothingLowers == Spec => DetailsNeverLower
<1> DEFINE Lowers ==
      line' # line /\ line # <<>> /\ (\A i \in Judged(line) : StillSeen(i))
        => Classify(line').tier >= Classify(line).tier
<1>1. WellWritten(line) /\ [Next]_vars => [Lowers]_vars
  <2> SUFFICES ASSUME WellWritten(line), [Next]_vars, line' # line, line # <<>>,
                      \A i \in Judged(line) : StillSeen(i)
               PROVE  Classify(line').tier >= Classify(line).tier
    OBVIOUS
  <2>1. Edit BY DEF Next, Remember, Forget, vars
  <2>2. WellWritten(line') /\ Edited(line, line') BY <2>1, EditKeeps
  <2>3. Shows(line, line') BY <2>2 DEF Shows, StillSeen
  <2>4. line' # <<>>
    <3>1. Len(line) \in Nat /\ Len(line) # 0 BY DEF WellWritten
    <3>2. Len(line') # 0 /\ Len(line') \in Nat BY <2>2, <3>1 DEF Edited, WellWritten
    <3> QED BY <3>2
  <2> QED BY <2>3, <2>4, TierRises
<1> QED BY <1>1, LineInductive, PTL DEF Spec, DetailsNeverLower
=============================================================================
