----------------------------- MODULE PolicyRules -----------------------------
(***************************************************************************)
(* core/policy: how a tool call is judged.  Constant operators only: the   *)
(* remembered rules are an argument, so that the policy engine, the        *)
(* gateway and the console can be modelled around the same judgement.      *)
(*                                                                         *)
(* A call is a record [session, tool, op, payload, tier, cmd, cmdTier,     *)
(* listed, line]: tier is the declared tier, cmd says whether it carries a *)
(* command line, cmdTier and listed are what classify found in that line,  *)
(* and line is its sequence of words.  A workspace is a record             *)
(* [alias, mode, push, elevated].                                          *)
(***************************************************************************)
EXTENDS Naturals, Sequences, SequencesExt

READ == 0   WRITE == 1   EXEC_ALLOWED == 2
EXEC_OTHER == 3   EGRESS == 4   FORBIDDEN == 5
Tiers == READ .. FORBIDDEN

Modes == {"read_only", "auto_edit", "full_access"}

(* _MODE_TABLE; a tier that is missing from it is "absent".                *)
ModeTable ==
  [read_only   |-> [t \in Tiers |-> IF t = READ THEN "allow" ELSE "absent"],
   auto_edit   |-> [t \in Tiers |-> CASE t <= EXEC_ALLOWED -> "allow"
                                      [] t \in {EXEC_OTHER, EGRESS} -> "ask"
                                      [] t = FORBIDDEN -> "absent"],
   full_access |-> [t \in Tiers |-> IF t <= EGRESS THEN "allow" ELSE "absent"]]

(* payload_hash: equal exactly for equal tool, operation and payload.      *)
Digest_PayloadOnly(q) == <<"", "", q.payload>>

Digest(q) == <<q.tool, q.op, q.payload>>

(* _combine_tiers: only a match with the workspace's allowlist lowers.     *)
CombinedTier(q) ==
  IF ~q.cmd THEN q.tier
  ELSE IF q.listed \/ q.cmdTier > q.tier THEN q.cmdTier ELSE q.tier

IsPush(q) == \/ q.tool = "git" /\ q.op = "push"
             \/ \E i \in DOMAIN q.line : q.line[i] = "push"

EffectiveMode(w) == IF w.elevated THEN "full_access" ELSE w.mode

MayPush(w) == w.push /\ EffectiveMode(w) # "read_only"

(* Rule.matches.  "any" and <<>> stand for None, expires = 0 for never.    *)
Matches_PrefixFirst(r, q, w, now) ==
  /\ r.expires = 0 \/ now < r.expires
  /\ r.session \in {"any", q.session}
  /\ r.workspace \in {"any", w.alias}
  /\ r.tool \in {"any", q.tool}
  /\ \/ r.payload = Digest(q)
     \/ r.prefix # <<>> /\ IsPrefix(r.prefix, q.line)
     \/ r.prefix = <<>> /\ (r.tool # "any" \/ r.workspace # "any")

Matches(r, q, w, now) ==
  /\ r.expires = 0 \/ now < r.expires
  /\ r.session \in {"any", q.session}
  /\ r.workspace \in {"any", w.alias}
  /\ r.tool \in {"any", q.tool}
  /\ IF r.payload # <<>> THEN r.payload = Digest(q)
     ELSE IF r.prefix # <<>> THEN IsPrefix(r.prefix, q.line)
     ELSE r.tool # "any" \/ r.workspace # "any"

(* first_match: all that decide needs is whether there is one.             *)
Matched(rules, action, q, w, now) ==
  \E i \in DOMAIN rules : rules[i].action = action /\ Matches(rules[i], q, w, now)

(* PolicyEngine.decide, step by step.                                      *)
Decide_RulesFirst(q, w, rules, now) ==
  LET tier == CombinedTier(q)
      mode == EffectiveMode(w)
      row  == ModeTable[mode][tier]
      Verdict(d, r) == [decision |-> d, tier |-> tier, rule |-> r]
  IN  IF Matched(rules, "deny", q, w, now) THEN Verdict("deny", "user-deny")
      ELSE IF Matched(rules, "allow", q, w, now) THEN Verdict("allow", "user-allow")
      ELSE IF tier = FORBIDDEN THEN Verdict("deny", "tier-5")
      ELSE IF tier = EGRESS /\ IsPush(q) /\ ~MayPush(w)
           THEN Verdict("deny", "workspace-git-push")
      ELSE IF row # "absent" THEN Verdict(row, mode)
      ELSE IF mode = "read_only" THEN Verdict("deny", "read_only")
      ELSE Verdict("ask", "default-ask")

Decide_AllowFirst(q, w, rules, now) ==
  LET tier == CombinedTier(q)
      mode == EffectiveMode(w)
      row  == ModeTable[mode][tier]
      Verdict(d, r) == [decision |-> d, tier |-> tier, rule |-> r]
  IN  IF tier = FORBIDDEN THEN Verdict("deny", "tier-5")
      ELSE IF tier = EGRESS /\ IsPush(q) /\ ~MayPush(w)
           THEN Verdict("deny", "workspace-git-push")
      ELSE IF Matched(rules, "allow", q, w, now) THEN Verdict("allow", "user-allow")
      ELSE IF Matched(rules, "deny", q, w, now) THEN Verdict("deny", "user-deny")
      ELSE IF row # "absent" THEN Verdict(row, mode)
      ELSE IF mode = "read_only" THEN Verdict("deny", "read_only")
      ELSE Verdict("ask", "default-ask")

Decide(q, w, rules, now) ==
  LET tier == CombinedTier(q)
      mode == EffectiveMode(w)
      row  == ModeTable[mode][tier]
      Verdict(d, r) == [decision |-> d, tier |-> tier, rule |-> r]
  IN  IF tier = FORBIDDEN THEN Verdict("deny", "tier-5")
      ELSE IF tier = EGRESS /\ IsPush(q) /\ ~MayPush(w)
           THEN Verdict("deny", "workspace-git-push")
      ELSE IF Matched(rules, "deny", q, w, now) THEN Verdict("deny", "user-deny")
      ELSE IF Matched(rules, "allow", q, w, now) THEN Verdict("allow", "user-allow")
      ELSE IF row # "absent" THEN Verdict(row, mode)
      ELSE IF mode = "read_only" THEN Verdict("deny", "read_only")
      ELSE Verdict("ask", "default-ask")

(* PolicyEngine.remember and forget: newest first; forgetting a rule takes *)
(* out the first one that equals it.                                       *)
RememberRule(rules, r) == <<r>> \o rules

ForgetRule(rules, r) == RemoveFirst(rules, r)

(* Gateway._remember: the rule an approval leaves behind.                  *)
RuleFor_NoWorkspace(q, alias, outcome) ==
  [action |-> "allow", tool |-> q.tool, workspace |-> "any",
   session |-> IF outcome = "session" THEN q.session ELSE "any",
   payload |-> Digest(q), prefix |-> <<>>, expires |-> 0]

RuleFor(q, alias, outcome) ==
  [action |-> "allow", tool |-> q.tool, workspace |-> alias,
   session |-> IF outcome = "session" THEN q.session ELSE "any",
   payload |-> Digest(q), prefix |-> <<>>, expires |-> 0]
=============================================================================
