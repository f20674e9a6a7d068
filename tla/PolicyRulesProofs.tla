-------------------------- MODULE PolicyRulesProofs --------------------------
(***************************************************************************)
(* Facts about the judgement and about lists of rules that the proofs of   *)
(* the policy engine, the gateway and the tool server rest on.             *)
(***************************************************************************)
EXTENDS PolicyRules, SequenceTheorems, WellFoundedInduction, TLAPS

(* Every nonempty set of natural numbers has a least one.                  *)
LEMMA FirstOf ==
  ASSUME NEW I \in SUBSET Nat, I # {}
  PROVE  \E x \in I : \A y \in I : x <= y
<1> DEFINE R == OpToRel(<, Nat)
<1>1. IsWellFoundedOn(R, Nat) BY NatLessThanWellFounded
<1>2. \A a, b \in Nat : a < b => <<a, b>> \in R BY DEF OpToRel
<1> HIDE DEF R
<1>3. PICK x \in I : \A y \in I : ~(<<y, x>> \in R) BY <1>1, WFMin
<1>4. \A y \in I : ~(y < x) BY <1>2, <1>3
<1> QED BY <1>4

LEMMA LeastIn ==
  ASSUME NEW I \in SUBSET Nat, I # {}
  PROVE  Min(I) \in I
<1>1. \E x \in I : \A y \in I : x <= y BY FirstOf
<1> QED BY <1>1 DEF Min

(* Forgetting a rule leaves others, and never more.                        *)
LEMMA Forgets ==
  ASSUME NEW S, NEW old \in Seq(S), NEW r
  PROVE  /\ ForgetRule(old, r) \in Seq(S)
         /\ Len(ForgetRule(old, r)) <= Len(old)
         /\ \A i \in DOMAIN ForgetRule(old, r) : \E k \in DOMAIN old : ForgetRule(old, r)[i] = old[k]
<1> DEFINE I == {i \in 1 .. Len(old) : old[i] = r}
<1>1. CASE I = {}
  <2>1. ForgetRule(old, r) = old BY <1>1 DEF ForgetRule, RemoveFirst
  <2> QED BY <2>1
<1>2. CASE I # {}
  <2> DEFINE n == Min(I)
  <2>0. I \in SUBSET Nat OBVIOUS
  <2>1. n \in 1 .. Len(old) BY <1>2, <2>0, LeastIn
  <2>2. ForgetRule(old, r) = RemoveAt(old, n)
    BY <1>2 DEF ForgetRule, RemoveFirst, SelectInSeq
  <2> HIDE DEF n
  <2> DEFINE before == SubSeq(old, 1, n - 1)
             after  == SubSeq(old, n + 1, Len(old))
  <2>3. /\ before \in Seq(S) /\ Len(before) = n - 1
        /\ \A i \in 1 .. n - 1 : before[i] = old[i]
    BY <2>1
  <2>4. /\ after \in Seq(S) /\ Len(after) = Len(old) - n
        /\ \A i \in 1 .. Len(old) - n : after[i] = old[n + i]
    BY <2>1
  <2>5. ForgetRule(old, r) = before \o after BY <2>2 DEF RemoveAt
  <2> HIDE DEF before, after
  <2> DEFINE rest == before \o after
  <2>6. n \in Nat /\ n >= 1 /\ n <= Len(old) /\ Len(old) \in Nat BY <2>1
  <2>7. rest \in Seq(S) BY <2>3, <2>4
  <2>8. Len(rest) = Len(old) - 1
    <3>1. Len(rest) = Len(before) + Len(after) BY <2>3, <2>4, ConcatProperties
    <3> QED BY <2>3, <2>4, <2>6, <3>1
  <2>9. \A i \in 1 .. Len(rest) : \E k \in 1 .. Len(old) : rest[i] = old[k]
    <3> SUFFICES ASSUME NEW i \in 1 .. Len(rest)
                 PROVE  \E k \in 1 .. Len(old) : rest[i] = old[k]
      OBVIOUS
    <3>1. CASE i < n
      <4>1. rest[i] = before[i] BY <2>3, <2>4, <2>6, <2>8, <3>1
      <4>2. rest[i] = old[i] BY <2>3, <2>6, <3>1, <4>1
      <4> QED BY <2>6, <2>8, <4>2
    <3>2. CASE ~(i < n)
      <4>1. i - n + 1 \in 1 .. Len(old) - n BY <2>6, <2>8, <3>2
      <4>2. rest[i] = after[i - n + 1] BY <2>3, <2>4, <2>6, <2>8, <3>2
      <4>3. rest[i] = old[n + (i - n + 1)] BY <2>4, <4>1, <4>2
      <4> QED BY <2>6, <4>1, <4>3
    <3> QED BY <3>1, <3>2
  <2> HIDE DEF rest
  <2>10. ForgetRule(old, r) = rest BY <2>5 DEF rest
  <2>11. DOMAIN rest = 1 .. Len(rest) /\ DOMAIN old = 1 .. Len(old) BY <2>7
  <2>12. Len(rest) <= Len(old) BY <2>6, <2>8
  <2> QED BY <2>7, <2>9, <2>10, <2>11, <2>12
<1> QED BY <1>1, <1>2

(* A rule is remembered before the others.                                 *)
LEMMA Prepend ==
  ASSUME NEW r, NEW old, \E S : old \in Seq(S)
  PROVE  /\ \E S : RememberRule(old, r) \in Seq(S)
         /\ \A i \in DOMAIN RememberRule(old, r) :
              \/ RememberRule(old, r)[i] = r
              \/ \E k \in DOMAIN old : RememberRule(old, r)[i] = old[k]
<1>1. PICK S : old \in Seq(S) OBVIOUS
<1> DEFINE T == S \cup {r}
<1>2. old \in Seq(T) /\ <<r>> \in Seq(T) BY <1>1
<1>3. <<r>> \o old \in Seq(T) BY <1>2
<1>4. \A i \in DOMAIN (<<r>> \o old) :
        \/ (<<r>> \o old)[i] = r
        \/ \E k \in DOMAIN old : (<<r>> \o old)[i] = old[k]
  <2> SUFFICES ASSUME NEW i \in DOMAIN (<<r>> \o old), i # 1
               PROVE  \E k \in DOMAIN old : (<<r>> \o old)[i] = old[k]
    BY <1>2
  <2>1. i - 1 \in DOMAIN old /\ (<<r>> \o old)[i] = old[i - 1] BY <1>2
  <2> QED BY <2>1
<1> QED BY <1>3, <1>4 DEF RememberRule

-----------------------------------------------------------------------------
(* What a verdict tells: a call goes ahead because a rule says so or its   *)
(* mode does, nobody is asked in a read-only workspace, and nothing that   *)
(* is forbidden goes any further.                                          *)
LEMMA DecideTells ==
  ASSUME NEW q, NEW w, NEW rs, NEW now, CombinedTier(q) \in Tiers, EffectiveMode(w) \in Modes
  PROVE  LET d == Decide(q, w, rs, now).decision
         IN  /\ d \in {"allow", "ask", "deny"}
             /\ d = "allow" => \/ Matched(rs, "allow", q, w, now)
                               \/ EffectiveMode(w) = "full_access"
                               \/ CombinedTier(q) = READ
                               \/ /\ EffectiveMode(w) = "auto_edit"
                                  /\ CombinedTier(q) <= EXEC_ALLOWED
             /\ d = "ask" => EffectiveMode(w) # "read_only"
             /\ d # "deny" => CombinedTier(q) # FORBIDDEN
<1> DEFINE tier == CombinedTier(q)
           mode == EffectiveMode(w)
           row  == ModeTable[mode][tier]
<1>1. /\ row \in {"allow", "ask", "absent"}
      /\ mode = "read_only" => row = (IF tier = READ THEN "allow" ELSE "absent")
      /\ mode = "auto_edit" /\ row = "allow" => tier <= EXEC_ALLOWED
  <2>1. tier \in {0, 1, 2, 3, 4, 5} BY DEF Tiers, READ, FORBIDDEN
  <2>2. CASE mode = "read_only"
    <3>1. ModeTable[mode] = [t \in Tiers |-> IF t = READ THEN "allow" ELSE "absent"]
      BY <2>2 DEF ModeTable
    <3> QED BY <2>2, <3>1
  <2>3. CASE mode = "auto_edit"
    <3>1. row = ModeTable["auto_edit"][tier] /\ tier \in Tiers BY <2>3
    <3>2. \A t \in Tiers : /\ t <= EXEC_ALLOWED => ModeTable["auto_edit"][t] = "allow"
                           /\ t \in {EXEC_OTHER, EGRESS} => ModeTable["auto_edit"][t] = "ask"
                           /\ t = FORBIDDEN => ModeTable["auto_edit"][t] = "absent"
      BY DEF ModeTable, EXEC_ALLOWED, EXEC_OTHER, EGRESS, FORBIDDEN
    <3> HIDE DEF row, tier, mode
    <3> QED BY <2>1, <2>3, <3>1, <3>2 DEF EXEC_ALLOWED, EXEC_OTHER, EGRESS, FORBIDDEN
  <2>4. CASE mode = "full_access"
    <3>1. ModeTable[mode] = [t \in Tiers |-> IF t <= EGRESS THEN "allow" ELSE "absent"]
      BY <2>4 DEF ModeTable
    <3> QED BY <2>4, <3>1
  <2> QED BY <2>2, <2>3, <2>4 DEF Modes
<1>2. mode \in {"read_only", "auto_edit", "full_access"} BY DEF Modes
<1>3. \/ Decide(q, w, rs, now).decision = "deny"
      \/ Decide(q, w, rs, now).decision = "allow" /\ Matched(rs, "allow", q, w, now)
      \/ Decide(q, w, rs, now).decision = row /\ row # "absent"
      \/ Decide(q, w, rs, now).decision = "ask" /\ row = "absent" /\ mode # "read_only"
  BY DEF Decide
<1>4. Decide(q, w, rs, now).decision = "deny" \/ tier # FORBIDDEN BY DEF Decide
<1> HIDE DEF row, tier, mode
<1> QED BY <1>1, <1>2, <1>3, <1>4 DEF tier, mode
-----------------------------------------------------------------------------
(* The value of a recursive function at i, step[i], depends on its values  *)
(* at places of a lower rank only.                                         *)
Ranked(S, V, rank, top, step) ==
  /\ V # {} /\ top \in Nat
  /\ rank \in [S -> Nat] /\ \A i \in S : rank[i] < top
  /\ step \in [S -> [[S -> V] -> V]]
  /\ \A i \in S : \A g \in [S -> V] : \A h \in [S -> V] :
       (\A j \in S : rank[j] < rank[i] => g[j] = h[j]) => step[i][g] = step[i][h]

(* Then there is such a function.                                          *)
LEMMA RecursionDefines ==
  ASSUME NEW S, NEW V, NEW rank, NEW top, NEW step, Ranked(S, V, rank, top, step)
  PROVE  \E f \in [S -> V] : \A i \in S : f[i] = step[i][f]
<1> USE DEF Ranked
<1> DEFINE Upto(n) == \E f \in [S -> V] : \A i \in S : rank[i] < n => f[i] = step[i][f]
<1>1. Upto(0)
  <2>1. PICK v : v \in V OBVIOUS
  <2>2. [i \in S |-> v] \in [S -> V] BY <2>1
  <2>3. \A i \in S : ~(rank[i] < 0) OBVIOUS
  <2> QED BY <2>2, <2>3
<1>2. ASSUME NEW n \in Nat, Upto(n) PROVE Upto(n + 1)
  <2>1. PICK f \in [S -> V] : \A i \in S : rank[i] < n => f[i] = step[i][f] BY <1>2
  <2>2. \A i \in S : step[i][f] \in V OBVIOUS
  <2> DEFINE g == [i \in S |-> IF rank[i] < n THEN f[i] ELSE step[i][f]]
  <2>3. g \in [S -> V] BY <2>2
  <2>4. \A i \in S : g[i] = step[i][f] BY <2>1
  <2>5. \A j \in S : rank[j] < n => g[j] = f[j] OBVIOUS
  <2> HIDE DEF g
  <2>6. ASSUME NEW i \in S, rank[i] < n + 1 PROVE step[i][f] = step[i][g]
    <3>0. \A a, b \in Nat : a < b /\ b < n + 1 => a < n OBVIOUS
    <3>1. \A j \in S : rank[j] < rank[i] => rank[j] < n
      <4>1. \A j \in S : rank[j] \in Nat OBVIOUS
      <4> QED BY <2>6, <3>0, <4>1
    <3>2. \A j \in S : rank[j] < rank[i] => f[j] = g[j] BY <2>5, <3>1
    <3> QED BY <2>3, <3>2
  <2>7. \A i \in S : rank[i] < n + 1 => g[i] = step[i][g] BY <2>4, <2>6
  <2> QED BY <2>3, <2>7
<1>3. Upto(top)
  <2> HIDE DEF Upto
  <2> DEFINE Bad == {n \in Nat : ~Upto(n)}
  <2>1. Bad = {}
    <3> SUFFICES ASSUME Bad # {} PROVE FALSE OBVIOUS
    <3>1. PICK n \in Bad : \A y \in Bad : n <= y BY FirstOf
    <3>2. n \in Nat /\ ~Upto(n) OBVIOUS
    <3>3. n # 0 BY <1>1, <3>2
    <3>4. n - 1 \in Nat /\ (n - 1) + 1 = n /\ ~(n <= n - 1)
      <4>1. \A k \in Nat : k # 0 => k - 1 \in Nat /\ (k - 1) + 1 = k /\ ~(k <= k - 1) OBVIOUS
      <4> QED BY <3>2, <3>3, <4>1
    <3>5. Upto(n - 1) BY <3>1, <3>4
    <3>6. Upto((n - 1) + 1) BY <1>2, <3>4, <3>5
    <3> QED BY <3>2, <3>4, <3>6
  <2> QED BY <2>1
<1> QED BY <1>3
=============================================================================
