------------------------------ MODULE Commands ------------------------------
(***************************************************************************)
(* core/policy/commands.py over the POSIX parser: what a command line is   *)
(* judged to be.                                                           *)
(*                                                                         *)
(* A line is the sequence of the simple commands it would run.  prog is    *)
(* the kind the tables put a command in; how and up say where it stands:   *)
(* after the others on the line itself, in a $( ) of command up, in a $( ) *)
(* of the target up is redirected to, in the code given to interpreter up, *)
(* or as what container command up runs inside.  Commands stand after the  *)
(* one they are nested in.  Left out: splitting into words, the files of   *)
(* the harness (_guard_tamper reads every word), and quotes that are lost  *)
(* or unread where that makes the parser find more than would run.         *)
(***************************************************************************)
EXTENDS PolicyRules, FiniteSets

CONSTANTS MaxDepth,        \* MAX_DEPTH: of $( ) inside $( ) in one text
          MaxPayloadDepth  \* MAX_PAYLOAD_DEPTH: of code inside code

(* "destroys" and "fetches" are told by the program's name; "discards"     *)
(* (git reset --hard), "sends" and "alters" by the words after it.         *)
Programs == {"plain", "destroys", "discards", "fetches", "sends", "alters",
             "interpreter", "container"}
ByWords == {"discards", "sends", "alters"}

Command == [prog : Programs,
            listed : BOOLEAN,     \* an allowlist entry is a prefix of its words
            dressed : {"no",      \* behind an assignment or a wrapper, or
                       "wrapped", "operand"},      \* one with an operand: timeout 5
            target : {"none",     \* of a redirect: of one that truncates, or
                      "over", "beside"},           \* of >>, >& and <
            code : {"none",       \* what else its code flag holds, or its code
                    "script", "missing", "bundled"},   \* stands behind -lc
            how : {"after", "substituted", "target", "payload", "inside"},
            up : Nat,
            text : Nat,           \* the command that holds its text; 0 is the line
            depth : Nat,          \* how deep in $( ) of that text
            nesting : Nat,        \* how deep in code given to interpreters
            scope : Nat]          \* the container it runs in; 0 is the host

(* The code given to an interpreter that a container command runs: the     *)
(* words are joined without their quotes and parsed again, so its commands *)
(* stand in the container's text, the first as words of the interpreter.   *)
Joined(line, i) == line[i].how = "payload" /\ line[line[i].up].how = "inside"

Leads(line, i) ==
  /\ Joined(line, i)
  /\ \A j \in DOMAIN line : line[j].how = "payload" /\ line[j].up = line[i].up => i <= j

(* A command written at a place; what was written is the words alone.      *)
Place(line, c, how, i) ==
  LET p == IF how = "after"
           THEN [how |-> how, text |-> 0, depth |-> 0, nesting |-> 0, scope |-> 0]
           ELSE line[i]
      ownText == how = "inside" \/ (how = "payload" /\ p.how # "inside")
  IN  [c EXCEPT !.how = how, !.up = i,
                !.text    = CASE how = "target" -> Len(line) + 1
                              [] ownText        -> i
                              [] OTHER          -> p.text,
                !.depth   = IF how = "substituted" THEN p.depth + 1 ELSE 0,
                !.nesting = CASE how = "payload" /\ ownText -> p.nesting + 1
                              [] how = "inside"             -> 0
                              [] OTHER                      -> p.nesting,
                !.scope   = IF how = "inside" THEN i ELSE p.scope]

(* What a command is taken for.  The word after a wrapper's flags is taken *)
(* for the program even where it is the wrapper's operand, and of code     *)
(* whose quotes are lost the first word only is read.                      *)
Seen(line, i) ==
  LET c == line[i]
  IN  IF \/ c.dressed = "operand"
         \/ Leads(line, i) /\ (c.dressed = "wrapped" \/ c.prog \in ByWords)
      THEN "plain" ELSE c.prog

(* The tiers of what the program tables, git, installers and the container *)
(* rules find in a command by itself.                                      *)
OwnTiers(line, i) ==
  CASE Seen(line, i) \in {"destroys", "discards"} -> {FORBIDDEN}
    [] Seen(line, i) \in {"fetches", "sends"}     -> {EGRESS}
    [] Seen(line, i) = "alters"                   -> {EXEC_OTHER}
    [] OTHER                                      -> {}

-----------------------------------------------------------------------------
(* _parse gives up on a whole text when its substitutions nest too deeply. *)
Unparsable(line, text) ==
  \E i \in DOMAIN line : line[i].text = text /\ line[i].depth > MaxDepth

(* interpreter_payloads looks at the first word only, wants the code flag  *)
(* to be a word of its own, and refuses the command when nothing follows.  *)
LooksFor(c) == c.prog = "interpreter" /\ c.dressed = "no" /\ c.code # "bundled"

ShowsPayloads(c) == LooksFor(c) /\ c.code # "missing"

(* The commands _expand_payloads hands on to be judged, in the             *)
(* classification each belongs to.  The words of a redirect's target are   *)
(* skipped, and what is substituted in them with them.                     *)
ExpandedOf(line) ==
  LET reached[i \in DOMAIN line] ==
        /\ ~Unparsable(line, line[i].text)
        /\ \/ line[i].how \in {"after", "inside"}
           \/ line[i].how = "substituted" /\ (Leads(line, line[i].up) \/ reached[line[i].up])
           \/ Joined(line, i) /\ ~Leads(line, i)
           \/ /\ line[i].how = "payload" /\ (Joined(line, i) => Leads(line, i))
              /\ reached[line[i].up]
              /\ ShowsPayloads(line[line[i].up])
              /\ line[i].nesting <= MaxPayloadDepth
  IN  {i \in DOMAIN line : reached[i]}

(* What _expand_payloads finds in one command besides the commands.        *)
PayloadTiers(line, i) ==
  LET c == line[i]
      given == \E j \in DOMAIN line : line[j].how = "payload" /\ line[j].up = i
  IN  IF c.nesting >= MaxPayloadDepth THEN {FORBIDDEN}
      ELSE IF ~LooksFor(c) THEN {}
      ELSE IF c.code = "missing" THEN {FORBIDDEN}
      ELSE IF c.code = "script" \/ given THEN {EXEC_OTHER}
      ELSE {}

(* A redirect that truncates.  The program gives classify no file_exists   *)
(* (runtime.py:162): that something is there already is never seen.        *)
RedirectTiers(c) == IF c.target = "over" THEN {WRITE} ELSE {}

(* The findings of classify but for its baseline, of the line (s = 0) or   *)
(* of what command s runs inside a container.  Of the latter those that    *)
(* are worse than a write count for the command that holds them.           *)
FindingsIn(line, s, found) ==
  LET here      == {i \in ExpandedOf(line) : line[i].scope = s}
      payload   == UNION {PayloadTiers(line, i) : i \in here}
      downloads == \E i \in here : Seen(line, i) = "fetches"
      executes  == payload # {} \/ \E i \in here : Seen(line, i) = "interpreter"
  IN  IF Unparsable(line, s) THEN {FORBIDDEN}
      ELSE payload
           \cup (UNION {OwnTiers(line, i) \cup RedirectTiers(line[i]) : i \in here})
           \cup (UNION {{t \in found[i] : t >= EXEC_OTHER} :
                          i \in {j \in here : Seen(line, j) = "container"}})
           \cup (IF downloads /\ executes THEN {FORBIDDEN} ELSE {})

FindingsOf(line) ==
  LET found[s \in 0 .. Len(line)] == FindingsIn(line, s, found)
  IN  found

-----------------------------------------------------------------------------
(* The host's commands that are judged.                                    *)
OnHost(line) == {i \in ExpandedOf(line) : line[i].scope = 0}

(* An allowlist entry covers one command by itself: nothing beside it,     *)
(* nothing found in it, no redirect that truncates, nobody dressed it up.  *)
MatchesAllowlist_FirstCommand(line) ==
  /\ \A t \in FindingsOf(line)[0] : t < EXEC_OTHER
  /\ line[1].target # "over"
  /\ line[1].listed /\ line[1].dressed = "no"

MatchesAllowlist(line) ==
  /\ Cardinality(OnHost(line)) = 1
  /\ \A t \in FindingsOf(line)[0] : t < EXEC_OTHER
  /\ \A i \in OnHost(line) : /\ line[i].target # "over"
                             /\ line[i].listed /\ line[i].dressed = "no"

(* classify.  The baseline is added whatever else was found.               *)
Classify_BaselineIfNothing(line) ==
  LET listed   == line # <<>> /\ MatchesAllowlist(line)
      baseline == IF FindingsOf(line)[0] # {} THEN {}
                  ELSE IF listed THEN {EXEC_ALLOWED} ELSE {EXEC_OTHER}
      found    == IF line = <<>> THEN {FORBIDDEN} ELSE FindingsOf(line)[0] \cup baseline
  IN  [tier |-> CHOOSE t \in found : \A u \in found : u <= t, listed |-> listed]

Classify_ParsedOnly(line) ==
  LET host   == {i \in DOMAIN line : line[i].text = 0}
      listed == line # <<>> /\ MatchesAllowlist(line)
      found  == IF line = <<>> THEN {FORBIDDEN}
                ELSE (UNION {OwnTiers(line, i) \cup PayloadTiers(line, i) : i \in host})
                     \cup {IF listed THEN EXEC_ALLOWED ELSE EXEC_OTHER}
  IN  [tier |-> CHOOSE t \in found : \A u \in found : u <= t, listed |-> listed]

Classify(line) ==
  LET listed   == line # <<>> /\ MatchesAllowlist(line)
      baseline == IF listed THEN EXEC_ALLOWED ELSE EXEC_OTHER
      found    == IF line = <<>> THEN {FORBIDDEN}
                  ELSE FindingsOf(line)[0] \cup {baseline}
  IN  [tier |-> CHOOSE t \in found : \A u \in found : u <= t, listed |-> listed]
=============================================================================
