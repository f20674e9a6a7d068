---------------------------- MODULE RecordsProofs ----------------------------
(***************************************************************************)
(* What the server keeps of what it did: the audit log, for any number of  *)
(* threads that append to one object as they please, any damage and any    *)
(* crashes; the journal; and the files the tools change.                   *)
(***************************************************************************)
EXTENDS Journal, AuditLog, FileTools, FiniteSetTheorems, SequenceTheorems, WellFoundedInduction, TLAPS

(* Whatever was written and whatever was done to it: a line is torn, or an *)
(* entry with a number and the hash of what the append wrote.              *)
IsEntry(line) ==
  /\ line = [kind |-> "entry", seq |-> line.seq, prev |-> line.prev,
             event |-> line.event, hash |-> line.hash]
  /\ line.seq \in Nat \ {0}
  /\ line.hash = Digest(line.seq, line.prev, line.hash[3]) /\ line.hash[3] \in Nat \ {0}

Written ==
  /\ lines \in Seq(Range(lines))
  /\ \A i \in DOMAIN lines : lines[i] = HalfLine \/ IsEntry(lines[i])
  /\ ended \/ lines # <<>>

(* As far as the lines are sure, the numbers of the entries grow.          *)
Growing == \A i, j \in 1 .. Sure :
             i < j /\ lines[i] # HalfLine /\ lines[j] # HalfLine => lines[i].seq < lines[j].seq

(* A thread that is not behind appends to what the object knows.           *)
Adding(t) == record[t] = Entry(cache[LogOf[t]].seq + 1, cache[LogOf[t]].head, record[t].event)

Telling == \E u \in Threads : stage[u] = "update"

Threaded ==
  /\ stage \in [Threads -> {"idle", "write", "update"}]
  /\ record \in [Threads -> Range(record)]
  /\ cache \in [Logs -> Range(cache)]
  /\ \A l \in Logs : cache[l] = [seq |-> cache[l].seq, head |-> cache[l].head] /\ cache[l].seq \in Nat
  /\ appends \in Nat
  /\ behind \subseteq {t \in Threads : stage[t] = "write"}
  /\ \A t \in Threads : stage[t] # "idle" =>
       IsEntry(record[t]) /\ record[t].hash = Digest(record[t].seq, record[t].prev, record[t].event)
  /\ \A t \in Threads \ behind : stage[t] = "write" => Adding(t) /\ ~Telling
  /\ raced = 0 => /\ \A t, u \in Threads : stage[t] = "update" /\ stage[u] = "update" => t = u
                  /\ \A t \in Threads : stage[t] = "update" => Adding(t)
  /\ cut => ended

(* As long as no append raced another's write the object has counted every *)
(* entry, but for the one whose thread has yet to tell it; until the file  *)
(* is damaged it knows its last line, or has counted more than there is.   *)
KnownTo(t) == IF Telling THEN cache[LogOf[t]].seq + 1 ELSE cache[LogOf[t]].seq

LastLine == [seq |-> Len(lines), head |-> IF lines = <<>> THEN Genesis ELSE lines[Len(lines)].hash]

Knows == raced = 0 => \A t \in Threads :
  /\ \A i \in DOMAIN lines : lines[i] # HalfLine => lines[i].seq <= KnownTo(t)
  /\ damaged = 0 /\ ~cut /\ ~Telling => cache[LogOf[t]] = LastLine
  /\ damaged = 0 /\ ~cut /\ stage[t] = "update" =>
       [seq |-> record[t].seq, head |-> record[t].hash] = LastLine
  /\ damaged = 0 /\ cut => KnownTo(t) > Len(lines)

(* The first damage is where the history says.                             *)
Marked ==
  /\ raced \in 0 .. Len(lines) + 1 /\ damaged \in 0 .. Len(lines)
  /\ damaged \in 1 .. Sure => ~Good(damaged)
  /\ \A i \in 1 .. Sure : damaged = 0 \/ i < damaged => Good(i)

Chained == Written /\ Growing /\ Threaded /\ Knows /\ Marked
-----------------------------------------------------------------------------
(* A sequence that is added to, cut, or changed.                           *)
LEMMA Added ==
  ASSUME NEW S, NEW s \in Seq(S), NEW line
  PROVE  LET s2 == Append(s, line)
         IN  /\ s2 \in Seq(Range(s2)) /\ Len(s2) = Len(s) + 1 /\ s2 # <<>>
             /\ \A i \in 1 .. Len(s) : s2[i] = s[i]
             /\ s2[Len(s) + 1] = line
<1> DEFINE T  == S \cup {line}
           s2 == Append(s, line)
<1>1. s \in Seq(T) /\ line \in T BY SeqMonotonic
<1> HIDE DEF T
<1>2. /\ s2 \in Seq(T) /\ s2 # <<>> /\ Len(s2) = Len(s) + 1
      /\ \A i \in 1 .. Len(s) : s2[i] = s[i]
      /\ s2[Len(s) + 1] = line
  BY <1>1, AppendProperties
<1> HIDE DEF s2
<1>3. s2 \in Seq(Range(s2)) BY <1>2, SeqOfRange
<1> QED BY <1>2, <1>3 DEF s2

LEMMA Shortened ==
  ASSUME NEW S, NEW s \in Seq(S), s # <<>>
  PROVE  /\ Front(s) \in Seq(S) /\ Len(Front(s)) = Len(s) - 1
         /\ \A i \in 1 .. Len(s) - 1 : Front(s)[i] = s[i]
<1>1. Len(s) \in Nat /\ Len(s) > 0 BY EmptySeq, LenProperties
<1>2. \A i \in 1 .. Len(s) - 1 : s[i] \in S BY <1>1, ElementOfSeq
<1>3. /\ SubSeq(s, 1, Len(s) - 1) \in Seq(S)
      /\ Len(SubSeq(s, 1, Len(s) - 1)) =
           IF 1 <= Len(s) - 1 THEN (Len(s) - 1) - 1 + 1 ELSE 0
      /\ \A i \in 1 .. (Len(s) - 1) - 1 + 1 : SubSeq(s, 1, Len(s) - 1)[i] = s[1 + i - 1]
  BY <1>1, <1>2, SubSeqProperties
<1>4. \A i \in 1 .. Len(s) - 1 : i \in 1 .. (Len(s) - 1) - 1 + 1 /\ 1 + i - 1 = i BY <1>1
<1>5. Len(SubSeq(s, 1, Len(s) - 1)) = Len(s) - 1
  <2>1. CASE Len(s) = 1 BY <2>1, <1>3
  <2>2. CASE Len(s) > 1 BY <2>2, <1>1, <1>3
  <2>3. \A n \in Nat : n > 0 => n = 1 \/ n > 1 OBVIOUS
  <2> QED BY <1>1, <2>1, <2>2, <2>3, Zenon
<1> HIDE DEF Front
<1>6. Front(s) = SubSeq(s, 1, Len(s) - 1) BY DEF Front
<1>7. \A i \in 1 .. Len(s) - 1 : SubSeq(s, 1, Len(s) - 1)[i] = s[i] BY <1>3, <1>4
<1> QED BY <1>3, <1>5, <1>6, <1>7

LEMMA Removed ==
  ASSUME NEW S, NEW s \in Seq(S), NEW n \in 1 .. Len(s)
  PROVE  LET s2 == RemoveAt(s, n)
         IN  /\ s2 \in Seq(Range(s2)) /\ Len(s2) = Len(s) - 1
             /\ \A i \in 1 .. Len(s) - 1 : s2[i] = IF i < n THEN s[i] ELSE s[i + 1]
<1> DEFINE a == SubSeq(s, 1, n - 1)
           b == SubSeq(s, n + 1, Len(s))
<1>1. Len(s) \in Nat BY LenProperties
<1>2. /\ a \in Seq(S) /\ Len(a) = n - 1
      /\ \A i \in 1 .. n - 1 : a[i] = s[i]
  BY <1>1, SubSeqProperties
<1>3. /\ b \in Seq(S) /\ Len(b) = Len(s) - n
      /\ \A i \in 1 .. Len(s) - n : b[i] = s[n + i]
  BY <1>1, SubSeqProperties
<1> HIDE DEF a, b
<1> DEFINE ab == a \o b
<1>4. /\ ab \in Seq(S) /\ Len(ab) = Len(a) + Len(b)
      /\ \A i \in 1 .. Len(a) + Len(b) : ab[i] = IF i <= Len(a) THEN a[i] ELSE b[i - Len(a)]
  BY <1>2, <1>3, ConcatProperties
<1> HIDE DEF ab
<1>5. /\ ab \in Seq(S) /\ Len(ab) = Len(s) - 1
      /\ \A i \in 1 .. Len(s) - 1 : ab[i] = IF i <= n - 1 THEN a[i] ELSE b[i - (n - 1)]
  BY <1>1, <1>2, <1>3, <1>4
<1>6. ASSUME NEW i \in 1 .. Len(s) - 1 PROVE ab[i] = IF i < n THEN s[i] ELSE s[i + 1]
  <2>1. CASE i < n BY <2>1, <1>1, <1>2, <1>5
  <2>2. CASE i >= n
    <3>1. i - (n - 1) \in 1 .. Len(s) - n /\ n + (i - (n - 1)) = i + 1 BY <2>2, <1>1
    <3> QED BY <3>1, <2>2, <1>1, <1>3, <1>5
  <2> QED BY <2>1, <2>2, <1>1
<1>7. RemoveAt(s, n) = ab BY DEF RemoveAt, ab, a, b
<1> QED BY <1>5, <1>6, <1>7, SeqOfRange

(* A set of places that is not empty has a last.                           *)
LEMMA HasLast ==
  ASSUME NEW n \in Nat, NEW I \in SUBSET (1 .. n), I # {}
  PROVE  \E i \in I : \A j \in I : j <= i
<1> DEFINE R == OpToRel(<, Nat)
           D == {n - i : i \in I}
<1>1. IsWellFoundedOn(R, Nat) BY NatLessThanWellFounded
<1>2. \A x, y \in Nat : y < x => <<y, x>> \in R BY DEF OpToRel
<1>3. D \subseteq Nat /\ D # {}
  <2>1. \A i \in I : n - i \in Nat OBVIOUS
  <2> QED BY <2>1
<1> HIDE DEF R
<1>4. PICK x \in D : \A y \in D : ~(<<y, x>> \in R) BY <1>1, <1>3, WFMin
<1>5. PICK i \in I : x = n - i BY <1>4
<1>6. ASSUME NEW j \in I PROVE j <= i
  <2>1. n - j \in D /\ i \in Nat /\ j \in Nat OBVIOUS
  <2>2. ~(n - j < n - i) BY <1>2, <1>3, <1>4, <1>5, <2>1
  <2> QED BY <2>1, <2>2
<1> QED BY <1>6

(* How many lines there are, and how many of them are sure.                *)
LEMMA Sizes ==
  Written /\ Marked =>
    /\ Len(lines) \in Nat /\ DOMAIN lines = 1 .. Len(lines) /\ (lines = <<>> <=> Len(lines) = 0)
    /\ Sure \in 0 .. Len(lines) /\ (raced = 0 => Sure = Len(lines)) /\ raced \in Nat /\ damaged \in Nat
    /\ \A i \in DOMAIN lines : lines[i] # HalfLine => lines[i].seq \in Nat \ {0}
<1> SUFFICES ASSUME Written, Marked PROVE
       /\ Len(lines) \in Nat /\ DOMAIN lines = 1 .. Len(lines) /\ (lines = <<>> <=> Len(lines) = 0)
       /\ Sure \in 0 .. Len(lines) /\ (raced = 0 => Sure = Len(lines)) /\ raced \in Nat /\ damaged \in Nat
       /\ \A i \in DOMAIN lines : lines[i] # HalfLine => lines[i].seq \in Nat \ {0}
  OBVIOUS
<1>1. Len(lines) \in Nat /\ DOMAIN lines = 1 .. Len(lines) /\ (lines = <<>> <=> Len(lines) = 0)
  BY LenProperties, EmptySeq DEF Written
<1>2. \A i \in DOMAIN lines : lines[i] # HalfLine => lines[i].seq \in Nat \ {0}
  BY DEF Written, IsEntry
<1> QED BY <1>1, <1>2 DEF Marked, Sure

(* A head that is read knows every entry, and after an undamaged file the  *)
(* last line.                                                              *)
KnowsFile(c) ==
  /\ c = [seq |-> c.seq, head |-> c.head] /\ c.seq \in Nat
  /\ raced = 0 => \A i \in DOMAIN lines : lines[i] # HalfLine => lines[i].seq <= c.seq
  /\ raced = 0 /\ damaged = 0 => c = LastLine

LEMMA HeadIsLast == Written /\ Growing /\ Marked => KnowsFile(ReadHead(lines))
<1> SUFFICES ASSUME Written, Growing, Marked PROVE KnowsFile(ReadHead(lines)) OBVIOUS
<1> DEFINE good == {i \in DOMAIN lines : lines[i] # HalfLine}
           n == CHOOSE i \in good : \A j \in good : j <= i
<1>1. /\ Len(lines) \in Nat /\ DOMAIN lines = 1 .. Len(lines) /\ (lines = <<>> <=> Len(lines) = 0)
      /\ raced = 0 => Sure = Len(lines)
      /\ \A i \in DOMAIN lines : lines[i] # HalfLine => lines[i].seq \in Nat
  BY Sizes
<1>2. CASE good = {}
  <2>1. ReadHead(lines) = [seq |-> 0, head |-> Genesis] BY <1>2 DEF ReadHead
  <2>2. ASSUME raced = 0, damaged = 0 PROVE lines = <<>>
    <3>1. \A i \in DOMAIN lines : FALSE BY <2>2, <1>1, <1>2 DEF Marked, Good
    <3> QED BY <3>1, <1>1
  <2> QED BY <2>1, <2>2, <1>1, <1>2 DEF LastLine, KnowsFile
<1>3. CASE good # {}
  <2>1. \E i \in good : \A j \in good : j <= i BY <1>1, <1>3, HasLast
  <2>2. n \in good /\ \A j \in good : j <= n BY <2>1
  <2>3. ReadHead(lines) = [seq |-> lines[n].seq, head |-> lines[n].hash] BY <1>3 DEF ReadHead
  <2> HIDE DEF n
  <2>4. lines[n].seq \in Nat BY <1>1, <2>2
  <2>5. ASSUME raced = 0, NEW i \in good PROVE lines[i].seq <= lines[n].seq
    <3>1. i \in 1 .. Sure /\ n \in 1 .. Sure /\ i <= n /\ lines[i].seq \in Nat
      BY <1>1, <2>2, <2>5
    <3>2. CASE i = n BY <3>2, <3>1
    <3>3. CASE i < n BY <3>1, <3>3, <2>2, <2>4, <2>5 DEF Growing
    <3> QED BY <3>1, <3>2, <3>3
  <2>6. ASSUME raced = 0, damaged = 0 PROVE ReadHead(lines) = LastLine
    <3>1. \A i \in 1 .. Len(lines) : Good(i) BY <2>6, <1>1 DEF Marked
    <3>2. n = Len(lines) /\ lines # <<>> BY <3>1, <1>1, <2>2 DEF Good
    <3> QED BY <2>3, <3>1, <3>2, <1>1 DEF LastLine, Good
  <2> QED BY <2>3, <2>4, <2>5, <2>6 DEF KnowsFile
<1> QED BY <1>2, <1>3

(* A line that stays behind a line that stays is as good as it was.        *)
LEMMA StaysGood ==
  ASSUME NEW i \in Nat, lines'[i] = lines[i], i > 1 => lines'[i - 1] = lines[i - 1]
  PROVE  Good(i)' <=> Good(i)
BY DEF Good, ChainedTo

(* What an append adds to the file, whole or in part.                      *)
LEMMA LineIsAdded ==
  ASSUME AuditAssumption, Chained, NEW t \in Threads, stage[t] = "write", NEW line \in {HalfLine, record[t]},
         lines' = Append(lines, line), Lands(t, Len(lines) + 1, line = HalfLine)
  PROVE  /\ Written' /\ Growing' /\ Marked' /\ lines' # <<>>
         /\ raced' = 0 =>
              /\ raced = 0 /\ t \notin behind
              /\ \A i \in DOMAIN lines' : lines'[i] # HalfLine => lines'[i].seq <= cache[LogOf[t]].seq + 1
         /\ raced' = 0 /\ damaged' = 0 =>
              ~cut /\ [seq |-> record[t].seq, head |-> record[t].hash] = LastLine'
<1> DEFINE c == cache[LogOf[t]]
           n == Len(lines)
<1>1. /\ n \in Nat /\ DOMAIN lines = 1 .. n /\ (lines = <<>> <=> n = 0)
      /\ Sure \in 0 .. n /\ (raced = 0 => Sure = n) /\ raced \in Nat /\ damaged \in 0 .. n
      /\ \A i \in 1 .. n : lines[i] # HalfLine => lines[i].seq \in Nat
  BY Sizes DEF Chained, Marked
<1>2. /\ lines' \in Seq(Range(lines')) /\ Len(lines') = n + 1 /\ lines' # <<>>
      /\ \A i \in 1 .. n : lines'[i] = lines[i]
      /\ lines'[n + 1] = line
      /\ DOMAIN lines' = 1 .. n + 1
  BY Added, LenProperties DEF Chained, Written
<1>3. /\ IsEntry(record[t]) /\ record[t] # HalfLine
      /\ record[t].hash = Digest(record[t].seq, record[t].prev, record[t].event)
  BY DEF Chained, Threaded, IsEntry, HalfLine
<1>4. c.seq \in Nat BY DEF AuditAssumption, Chained, Threaded
<1>5. damaged' = (IF line = HalfLine \/ cut THEN Earliest(n + 1) ELSE damaged)
      /\ raced' = (IF t \in behind /\ raced = 0 THEN n + 1 ELSE raced)
  BY DEF Lands
<1> HIDE DEF n, c
<1>6. damaged' = IF (line = HalfLine \/ cut) /\ damaged = 0 THEN n + 1 ELSE damaged
  BY <1>1, <1>5 DEF Earliest
<1>7. \A i \in 1 .. n : Good(i)' <=> Good(i)
  BY <1>1, <1>2, StaysGood
<1>8. /\ damaged \in 1 .. Sure => ~Good(damaged)
      /\ \A i \in 1 .. Sure : damaged = 0 \/ i < damaged => Good(i)
      /\ raced \in 0 .. n + 1
  BY DEF Chained, Marked, n
<1>9. \A i \in 1 .. n : lines[i] = HalfLine \/ IsEntry(lines[i]) BY <1>1 DEF Chained, Written
<1>10. Written'
  <2>1. \A i \in 1 .. n + 1 : i \in 1 .. n \/ i = n + 1 BY <1>1
  <2>2. \A i \in DOMAIN lines' : lines'[i] = HalfLine \/ IsEntry(lines'[i]) BY <2>1, <1>2, <1>3, <1>9
  <2> QED BY <2>2, <1>2 DEF Written
<1>11. \A i, j \in 1 .. Sure : i < j /\ lines[i] # HalfLine /\ lines[j] # HalfLine => lines[i].seq < lines[j].seq
  BY DEF Chained, Growing
<1>12. Sure' = IF raced' = 0 THEN n + 1 ELSE raced' - 1 BY <1>2 DEF Sure
<1>13. CASE raced' # 0
  <2>1. Sure' = Sure /\ raced' \in 0 .. n + 2
    <3>1. CASE raced = 0 BY <3>1, <1>13, <1>1, <1>5, <1>12
    <3>2. CASE raced # 0 BY <3>2, <1>1, <1>5, <1>8, <1>12 DEF Sure
    <3> QED BY <3>1, <3>2
  <2>2. Growing'
    <3>1. \A i \in 1 .. Sure : lines'[i] = lines[i] BY <1>1, <1>2
    <3> QED BY <2>1, <3>1, <1>11 DEF Growing
  <2>3. ASSUME damaged' \in 1 .. Sure' PROVE ~Good(damaged)'
    <3>1. damaged' = damaged /\ damaged \in 1 .. Sure BY <2>1, <2>3, <1>1, <1>6
    <3> QED BY <3>1, <1>1, <1>7, <1>8
  <2>4. \A i \in 1 .. Sure' : damaged' = 0 \/ i < damaged' => Good(i)'
    BY <2>1, <1>1, <1>6, <1>7, <1>8
  <2>5. Marked' BY <2>1, <2>3, <2>4, <1>1, <1>2, <1>6 DEF Marked
  <2> QED BY <2>2, <2>5, <1>2, <1>10, <1>13
<1>14. CASE raced' = 0
  <2>1. raced = 0 /\ t \notin behind /\ Sure = n /\ Sure' = n + 1 BY <1>14, <1>1, <1>5, <1>12
  <2>2. /\ ~Telling /\ record[t] = Entry(c.seq + 1, c.head, record[t].event)
        /\ \A i \in 1 .. n : lines[i] # HalfLine => lines[i].seq <= c.seq
        /\ damaged = 0 /\ ~cut => c = LastLine
        /\ damaged = 0 /\ cut => c.seq > n
    BY <2>1, <1>1 DEF Chained, Threaded, Knows, Adding, KnownTo, c, n
  <2>3. record[t].seq = c.seq + 1 /\ record[t].prev = c.head
    BY <2>2 DEF Entry
  <2>4. \A i \in 1 .. n + 1 : lines'[i] # HalfLine => lines'[i].seq <= c.seq + 1
    <3>1. \A i \in 1 .. n : lines'[i] # HalfLine => lines'[i].seq <= c.seq + 1 BY <2>2, <1>1, <1>2, <1>4
    <3>2. lines'[n + 1] # HalfLine => lines'[n + 1].seq <= c.seq + 1 BY <2>3, <1>2, <1>4
    <3>3. \A i \in 1 .. n + 1 : i \in 1 .. n \/ i = n + 1 BY <1>1
    <3> QED BY <3>1, <3>2, <3>3
  <2>5. Growing' BY <2>1, <2>2, <2>3, <1>1, <1>2, <1>3, <1>4, <1>11 DEF Growing
  <2>6. ASSUME damaged = 0, line = record[t], NEW i \in Nat, i = n + 1
        PROVE  Good(i)' <=> ~cut
    <3>1. CASE ~cut
      <4>1. c.seq = n /\ c.head = IF n = 0 THEN Genesis ELSE lines[n].hash
        BY <2>2, <2>6, <3>1, <1>1 DEF LastLine, n
      <4>2. n > 0 => lines'[n] = lines[n] /\ lines[n] # HalfLine
        BY <2>1, <2>6, <1>1, <1>2, <1>8 DEF Good
      <4>3. ChainedTo(i)' BY <4>1, <4>2, <2>3, <2>6, <1>1, <1>2 DEF ChainedTo
      <4> QED BY <4>1, <4>3, <2>3, <2>6, <3>1, <1>1, <1>2, <1>3 DEF Good
    <3>2. CASE cut
      <4>1. lines'[i].seq # i BY <2>2, <2>3, <2>6, <3>2, <1>1, <1>2, <1>4
      <4> QED BY <4>1, <3>2 DEF Good
    <3> QED BY <3>1, <3>2
  <2>7. \A i \in Nat : i = n + 1 /\ line = HalfLine => ~Good(i)' BY <1>2 DEF Good
  <2>8. CASE damaged # 0
    <3>1. damaged' = damaged /\ damaged \in 1 .. n /\ ~Good(damaged) BY <2>8, <2>1, <1>1, <1>6, <1>8
    <3>2. ~Good(damaged)' BY <3>1, <1>7
    <3>3. \A i \in 1 .. Sure' : damaged' = 0 \/ i < damaged' => Good(i)'
      BY <3>1, <2>1, <2>8, <1>1, <1>7, <1>8
    <3>4. Marked' BY <3>1, <3>2, <3>3, <1>1, <1>2, <1>14 DEF Marked
    <3> QED BY <2>1, <2>4, <2>5, <2>8, <3>1, <3>4, <1>2, <1>10 DEF c
  <2>9. CASE damaged = 0
    <3>1. \A i \in 1 .. n : Good(i)' BY <2>1, <2>9, <1>7, <1>8
    <3>2. CASE line = HalfLine \/ cut
      <4>1. damaged' = n + 1 /\ damaged' # 0 BY <2>9, <3>2, <1>1, <1>6
      <4>2. \A i \in Nat : i = n + 1 => ~Good(i)' BY <2>6, <2>7, <2>9, <3>2
      <4>3. ~Good(damaged)' BY <4>1, <4>2, <1>1
      <4>4. \A i \in 1 .. Sure' : i < damaged' => i \in 1 .. n BY <4>1, <2>1, <1>1
      <4>5. Marked' BY <4>1, <4>3, <4>4, <3>1, <2>1, <1>1, <1>2, <1>14 DEF Marked
      <4> QED BY <4>1, <4>5, <2>1, <2>4, <2>5, <1>2, <1>10 DEF c
    <3>3. CASE line = record[t] /\ ~cut
      <4>1. damaged' = 0 BY <2>9, <3>3, <1>3, <1>6
      <4>2. \A i \in Nat : i = n + 1 => Good(i)' BY <2>6, <2>9, <3>3
      <4>3. \A i \in 1 .. Sure' : Good(i)' BY <4>2, <3>1, <2>1, <1>1
      <4>4. Marked' BY <4>1, <4>3, <1>1, <1>2, <1>14 DEF Marked
      <4>5. c.seq = n BY <2>2, <2>9, <3>3, <1>1 DEF LastLine, n
      <4>6. [seq |-> record[t].seq, head |-> record[t].hash] = LastLine'
        BY <4>5, <2>3, <3>3, <1>2 DEF LastLine
      <4> QED BY <4>4, <4>6, <3>3, <2>1, <2>4, <2>5, <1>2, <1>10 DEF c
    <3> QED BY <3>2, <3>3
  <2> QED BY <2>8, <2>9
<1> QED BY <1>13, <1>14

(* The entry that lands on half a line goes with it.                       *)
LEMMA LineIsLost ==
  ASSUME Chained, ~ended, NEW t, NEW line,
         lines' = With(line), Lands(t, Len(lines), TRUE)
  PROVE  /\ Written' /\ Growing' /\ Marked'
         /\ raced' = 0 => raced = 0 /\ t \notin behind /\ damaged' # 0
         /\ \A i \in DOMAIN lines' : lines'[i] # HalfLine => i \in DOMAIN lines /\ lines'[i] = lines[i]
<1> DEFINE n == Len(lines)
           front == Front(lines)
<1>1. /\ n \in Nat /\ n > 0 /\ DOMAIN lines = 1 .. n
      /\ front \in Seq(Range(lines)) /\ Len(front) = n - 1
      /\ \A i \in 1 .. n - 1 : front[i] = lines[i]
  BY LenProperties, EmptySeq, Shortened DEF Chained, Written
<1>2. Sure \in 0 .. n /\ (raced = 0 => Sure = n) /\ raced \in Nat BY Sizes DEF Chained
<1>3. lines' = Append(front, HalfLine) BY DEF With
<1>4. damaged' = Earliest(n) /\ raced' = (IF t \in behind /\ raced = 0 THEN n ELSE raced) BY DEF Lands
<1> HIDE DEF front, n
<1>5. /\ lines' \in Seq(Range(lines')) /\ Len(lines') = n /\ lines' # <<>>
      /\ \A i \in 1 .. n - 1 : lines'[i] = front[i]
      /\ lines'[n] = HalfLine
  BY <1>1, <1>3, Added
<1>6. DOMAIN lines' = 1 .. n BY <1>5, LenProperties
<1>7. \A i \in 1 .. n - 1 : lines'[i] = lines[i] BY <1>1, <1>5
<1>8. Written' BY <1>1, <1>5, <1>6, <1>7 DEF Chained, Written
<1>9. Sure' \in 0 .. Sure /\ raced' \in 0 .. n + 1 /\ (Sure' = Sure \/ Sure' = n - 1)
      /\ (raced' = 0 => raced = 0 /\ t \notin behind)
  <2>1. Sure' = IF raced' = 0 THEN n ELSE raced' - 1 BY <1>5 DEF Sure
  <2>2. raced \in 0 .. n + 1 BY DEF Chained, Marked, n
  <2>3. CASE raced = 0 BY <2>1, <2>3, <1>1, <1>2, <1>4
  <2>4. CASE raced # 0 BY <2>1, <2>2, <2>4, <1>1, <1>2, <1>4 DEF Sure
  <2> QED BY <2>3, <2>4
<1>10. \A i, j \in 1 .. Sure : i < j /\ lines[i] # HalfLine /\ lines[j] # HalfLine => lines[i].seq < lines[j].seq
  BY DEF Chained, Growing
<1>11. Growing' 
  <2>1. \A i \in 1 .. Sure' : i \in 1 .. Sure /\ i \in 1 .. n BY <1>2, <1>9, <1>1
  <2>2. \A i \in 1 .. n : lines'[i] # HalfLine => lines'[i] = lines[i] BY <1>1, <1>5, <1>7
  <2> QED BY <2>1, <2>2, <1>10 DEF Growing
<1>12. \A i \in 1 .. n - 1 : Good(i)' <=> Good(i) BY <1>1, <1>7, StaysGood
<1>13. \A i \in Nat : i = n => ~Good(i)' BY <1>5 DEF Good
<1>14. /\ damaged \in 0 .. n /\ (damaged \in 1 .. Sure => ~Good(damaged))
       /\ \A i \in 1 .. Sure : damaged = 0 \/ i < damaged => Good(i)
  BY DEF Chained, Marked, n
<1>15. damaged' = (IF damaged = 0 THEN n ELSE damaged) /\ damaged' \in 1 .. n
  BY <1>1, <1>4, <1>14 DEF Earliest
<1>16. ASSUME damaged' \in 1 .. Sure' PROVE ~Good(damaged)'
  <2>1. CASE damaged' = n BY <2>1, <1>1, <1>13
  <2>2. CASE damaged' < n
    <3>1. damaged' = damaged /\ damaged \in 1 .. Sure /\ damaged \in 1 .. n - 1
      BY <2>2, <1>1, <1>2, <1>9, <1>15, <1>16
    <3> QED BY <3>1, <1>12, <1>14
  <2> QED BY <2>1, <2>2, <1>1, <1>15
<1>17. \A i \in 1 .. Sure' : damaged' = 0 \/ i < damaged' => Good(i)'
  <2> SUFFICES ASSUME NEW i \in 1 .. Sure', i < damaged' PROVE Good(i)' BY <1>1, <1>15
  <2>1. i \in 1 .. Sure /\ i \in 1 .. n - 1 /\ (damaged = 0 \/ i < damaged) BY <1>1, <1>2, <1>9, <1>15
  <2> QED BY <2>1, <1>12, <1>14
<1>18. Marked' BY <1>1, <1>5, <1>9, <1>15, <1>16, <1>17 DEF Marked
<1> QED BY <1>1, <1>5, <1>6, <1>7, <1>8, <1>9, <1>11, <1>15, <1>18

(* An entry that is changed no longer hashes to its hash.                  *)
LEMMA ChangeShows ==
  ASSUME Chained, NEW k \in DOMAIN lines, Modify(k)
  PROVE  /\ Written' /\ Growing' /\ Marked' /\ damaged' # 0
         /\ \A i \in DOMAIN lines' : i \in DOMAIN lines /\ (lines'[i] # HalfLine => lines[i] # HalfLine /\ lines'[i].seq = lines[i].seq)
<1> DEFINE n == Len(lines)
           new == [lines[k] EXCEPT !.event = 0]
<1>1. /\ n \in Nat /\ DOMAIN lines = 1 .. n /\ lines # <<>>
      /\ lines \in Seq(Range(lines) \cup {new})
  BY LenProperties, EmptySeq, SeqMonotonic DEF Chained, Written
<1>2. lines[k] # HalfLine /\ IsEntry(lines[k]) BY DEF Modify, Chained, Written
<1>3. /\ new = [kind |-> "entry", seq |-> lines[k].seq, prev |-> lines[k].prev,
                event |-> 0, hash |-> lines[k].hash]
  BY <1>2 DEF IsEntry
<1>4. /\ IsEntry(new) /\ new # HalfLine
      /\ new.hash # Digest(new.seq, new.prev, new.event)
  BY <1>2, <1>3 DEF IsEntry, HalfLine, Digest
<1>5. lines' = [lines EXCEPT ![k] = new] /\ raced' = raced BY DEF Modify
<1> HIDE DEF n, new
<1>6. /\ lines' \in Seq(Range(lines) \cup {new}) /\ Len(lines') = n
      /\ \A i \in 1 .. n : lines'[i] = IF i = k THEN new ELSE lines[i]
  BY <1>1, <1>5, ExceptSeq DEF n
<1>7. lines' \in Seq(Range(lines')) /\ DOMAIN lines' = 1 .. n /\ lines' # <<>>
  BY <1>1, <1>6, SeqOfRange, LenProperties, EmptySeq
<1>8. Written' BY <1>1, <1>4, <1>6, <1>7 DEF Chained, Written
<1>9. new.seq = lines[k].seq BY <1>3
<1>10. Sure' = Sure /\ Sure \in 0 .. n BY <1>1, <1>5, <1>6, Sizes DEF Sure, Chained, n
<1>11. Growing' BY <1>1, <1>2, <1>6, <1>7, <1>9, <1>10 DEF Chained, Growing
<1>12. \A i \in 1 .. n : i < k => (Good(i)' <=> Good(i)) BY <1>1, <1>6, StaysGood
<1>13. ~Good(k)' BY <1>1, <1>4, <1>6 DEF Good
<1>14. /\ damaged \in 0 .. n /\ (damaged \in 1 .. Sure => ~Good(damaged)) /\ raced \in 0 .. n + 1
       /\ \A i \in 1 .. Sure : damaged = 0 \/ i < damaged => Good(i)
  BY <1>1 DEF Chained, Marked, n
<1>15. damaged' = IF damaged = 0 \/ k < damaged THEN k ELSE damaged BY DEF Modify, Earliest
<1>16. Marked' /\ damaged' # 0
  <2>1. CASE damaged = 0 \/ k <= damaged
    <3>1. damaged' = k BY <2>1, <1>1, <1>14, <1>15
    <3>2. \A i \in 1 .. Sure' : i < k => Good(i)' BY <2>1, <1>1, <1>10, <1>12, <1>14
    <3> QED BY <3>1, <3>2, <1>1, <1>5, <1>6, <1>13, <1>14 DEF Marked
  <2>2. CASE damaged # 0 /\ damaged < k
    <3>1. damaged' = damaged BY <2>2, <1>1, <1>14, <1>15
    <3>2. \A i \in 1 .. Sure' : i < damaged => Good(i)' BY <2>2, <1>1, <1>10, <1>12, <1>14
    <3>3. damaged \in 1 .. Sure' => ~Good(damaged)' BY <3>1, <2>2, <1>1, <1>10, <1>12, <1>14
    <3> QED BY <3>1, <3>2, <3>3, <2>2, <1>5, <1>6, <1>14 DEF Marked
  <2> QED BY <2>1, <2>2, <1>1, <1>14
<1> QED BY <1>1, <1>2, <1>6, <1>7, <1>8, <1>9, <1>11, <1>16

(* Where an entry is removed the number of the next one is too large; when *)
(* it was the last one, there are fewer lines than were counted.           *)
LEMMA GapShows ==
  ASSUME Chained, NEW k \in DOMAIN lines, Delete(k)
  PROVE  /\ Written' /\ Growing' /\ Marked' /\ (cut' => ended') /\ (raced' = 0 <=> raced = 0)
         /\ damaged' = 0 =>
              cut' /\ Len(lines') = Len(lines) - 1 /\ (raced = 0 => lines[k] # HalfLine /\ lines[k].seq >= Len(lines))
         /\ \A i \in DOMAIN lines' : lines'[i] # HalfLine =>
              \E j \in DOMAIN lines : lines[j] # HalfLine /\ lines'[i].seq = lines[j].seq
<1> DEFINE n == Len(lines)
<1>1. /\ n \in Nat /\ DOMAIN lines = 1 .. n /\ k \in 1 .. n /\ lines[k] # HalfLine
      /\ lines \in Seq(Range(lines))
      /\ Sure \in 0 .. n /\ (raced = 0 => Sure = n) /\ raced \in Nat
      /\ \A i \in 1 .. n : lines[i] # HalfLine => lines[i].seq \in Nat \ {0}
  BY Sizes DEF Chained, Written, Delete
<1>2. /\ lines' \in Seq(Range(lines')) /\ Len(lines') = n - 1
      /\ \A i \in 1 .. n - 1 : lines'[i] = IF i < k THEN lines[i] ELSE lines[i + 1]
  BY <1>1, Removed DEF Delete
<1>3. /\ k < n => damaged' = Earliest(k) /\ UNCHANGED <<ended, cut>>
      /\ k = n => damaged' = (IF damaged = k THEN 0 ELSE damaged) /\ cut' /\ ended'
      /\ raced' = IF k < raced THEN raced - 1 ELSE raced
      /\ cut => ended
  BY DEF Delete, Chained, Threaded, n
<1>4. /\ damaged \in 0 .. n /\ (damaged \in 1 .. Sure => ~Good(damaged)) /\ raced \in 0 .. n + 1
      /\ \A i \in 1 .. Sure : damaged = 0 \/ i < damaged => Good(i)
  BY DEF Chained, Marked, n
<1>5. \A i, j \in 1 .. Sure : i < j /\ lines[i] # HalfLine /\ lines[j] # HalfLine => lines[i].seq < lines[j].seq
  BY DEF Chained, Growing
<1> HIDE DEF n
<1>6. DOMAIN lines' = 1 .. n - 1 /\ (lines' = <<>> <=> n = 1)
  BY <1>1, <1>2, LenProperties, EmptySeq
<1>7. /\ raced' = 0 <=> raced = 0
      /\ raced' \in 0 .. n
      /\ Sure' = IF k <= Sure THEN Sure - 1 ELSE Sure
      /\ Sure' \in 0 .. n - 1
  <2>1. Sure' = IF raced' = 0 THEN n - 1 ELSE raced' - 1 BY <1>2 DEF Sure
  <2>2. CASE raced = 0 BY <2>1, <2>2, <1>1, <1>3
  <2>3. CASE raced # 0
    <3>1. Sure = raced - 1 BY <2>3 DEF Sure
    <3>2. CASE k < raced BY <3>1, <3>2, <2>1, <2>3, <1>1, <1>3, <1>4
    <3>3. CASE k >= raced BY <3>1, <3>3, <2>1, <2>3, <1>1, <1>3, <1>4
    <3> QED BY <3>2, <3>3, <1>1
  <2> QED BY <2>2, <2>3
<1> DEFINE Was(i) == IF i < k THEN i ELSE i + 1
<1>8. \A i \in 1 .. n - 1 : Was(i) \in 1 .. n /\ lines'[i] = lines[Was(i)] BY <1>1, <1>2
<1>9. /\ \A i, j \in 1 .. n - 1 : i < j => Was(i) < Was(j)
      /\ \A i \in 1 .. Sure' : i \in 1 .. n - 1 /\ Was(i) \in 1 .. Sure
  BY <1>1, <1>7
<1> HIDE DEF Was
<1>10. Written'
  <2>1. \A i \in 1 .. n - 1 : lines'[i] = HalfLine \/ IsEntry(lines'[i]) BY <1>1, <1>8 DEF Chained, Written
  <2>2. ended' \/ lines' # <<>>
    <3>1. CASE k = n BY <3>1, <1>3
    <3>2. CASE k < n BY <3>2, <1>1, <1>6
    <3> QED BY <3>1, <3>2, <1>1
  <2> QED BY <2>1, <2>2, <1>2, <1>6 DEF Written
<1>11. Growing' BY <1>5, <1>8, <1>9 DEF Growing
<1>12. ASSUME NEW i \in 1 .. n, i < k PROVE Good(i)' <=> Good(i)
  <2>1. i \in Nat /\ lines'[i] = lines[i] /\ (i > 1 => lines'[i - 1] = lines[i - 1]) BY <1>1, <1>2, <1>12
  <2> QED BY <2>1, StaysGood
<1>13. ASSUME k <= Sure, damaged = 0 \/ k <= damaged PROVE lines[k].seq >= k
  <2>1. CASE k = 1 BY <2>1, <1>1
  <2>2. CASE k > 1
    <3>1. k - 1 \in 1 .. Sure /\ k \in 1 .. Sure /\ Good(k - 1) BY <2>2, <1>1, <1>4, <1>13
    <3>2. lines[k - 1].seq = k - 1 /\ lines[k - 1] # HalfLine BY <3>1 DEF Good
    <3>3. lines[k - 1].seq < lines[k].seq BY <3>1, <3>2, <1>1, <1>5
    <3> QED BY <3>2, <3>3, <1>1
  <2> QED BY <2>1, <2>2, <1>1
<1>14. CASE k = n
  <2>1. ASSUME damaged' \in 1 .. Sure' PROVE ~Good(damaged)'
    <3>1. damaged' = damaged /\ damaged \in 1 .. Sure /\ damaged \in 1 .. n /\ damaged < k
      BY <2>1, <1>1, <1>3, <1>4, <1>7, <1>14
    <3> QED BY <3>1, <1>4, <1>12
  <2>2. ASSUME NEW i \in 1 .. Sure', damaged' = 0 \/ i < damaged' PROVE Good(i)'
    <3>1. i \in 1 .. Sure /\ i \in 1 .. n /\ i < k /\ (damaged = 0 \/ i < damaged)
      BY <2>2, <1>1, <1>3, <1>4, <1>7, <1>14
    <3> QED BY <3>1, <1>4, <1>12
  <2>3. damaged' \in 0 .. n - 1 BY <1>1, <1>3, <1>4, <1>14
  <2>4. Marked' BY <2>1, <2>2, <2>3, <1>1, <1>2, <1>7 DEF Marked
  <2>5. damaged' = 0 /\ raced = 0 => lines[k].seq >= n BY <1>1, <1>3, <1>13, <1>14
  <2> QED BY <2>4, <2>5, <1>1, <1>2, <1>3, <1>6, <1>7, <1>8, <1>10, <1>11, <1>14 DEF n
<1>15. CASE k < n
  <2>1. damaged' = IF damaged = 0 \/ k < damaged THEN k ELSE damaged BY <1>3, <1>15 DEF Earliest
  <2>2. damaged' \in 1 .. n - 1 BY <2>1, <1>1, <1>4, <1>15
  <2>3. /\ cut' => ended'
        /\ damaged' # 0
        /\ \A i \in DOMAIN lines' : lines'[i] # HalfLine =>
             \E j \in DOMAIN lines : lines[j] # HalfLine /\ lines'[i].seq = lines[j].seq
    BY <2>2, <1>1, <1>3, <1>6, <1>8, <1>15
  <2>4. CASE damaged # 0 /\ damaged < k
    <3>1. damaged' = damaged BY <2>1, <2>4, <1>1, <1>4
    <3>2. ASSUME damaged \in 1 .. Sure' PROVE ~Good(damaged)'
      <4>1. damaged \in 1 .. Sure /\ damaged \in 1 .. n BY <3>2, <1>1, <1>4, <1>7
      <4> QED BY <4>1, <3>1, <2>4, <1>4, <1>12
    <3>3. ASSUME NEW i \in 1 .. Sure', i < damaged PROVE Good(i)'
      <4>1. i \in 1 .. Sure /\ i \in 1 .. n /\ i < k BY <3>3, <2>4, <1>1, <1>4, <1>7
      <4> QED BY <4>1, <3>3, <1>4, <1>12
    <3>4. Marked' BY <3>1, <3>2, <3>3, <2>2, <2>4, <1>1, <1>2, <1>7 DEF Marked
    <3> QED BY <3>4, <2>2, <2>3, <1>7, <1>10, <1>11
  <2>5. CASE damaged = 0 \/ k <= damaged
    <3>1. damaged' = k BY <2>1, <2>5, <1>1, <1>4
    <3>2. ASSUME k \in 1 .. Sure' PROVE ~Good(k)'
      <4>1. k \in 1 .. Sure /\ k + 1 \in 1 .. Sure /\ k + 1 \in 1 .. n /\ k \in 1 .. n - 1
        BY <3>2, <1>1, <1>7
      <4>2. lines'[k] = lines[k + 1] BY <4>1, <1>2
      <4>3. lines[k].seq >= k BY <2>5, <4>1, <1>1, <1>13
      <4>4. lines[k + 1] # HalfLine => lines[k].seq < lines[k + 1].seq BY <4>1, <1>1, <1>5
      <4>5. lines[k + 1] # HalfLine => lines[k + 1].seq # k BY <4>1, <4>3, <4>4, <1>1
      <4> QED BY <4>2, <4>5 DEF Good
    <3>3. ASSUME NEW i \in 1 .. Sure', i < k PROVE Good(i)'
      <4>1. i \in 1 .. Sure /\ i \in 1 .. n /\ (damaged = 0 \/ i < damaged)
        BY <3>3, <2>5, <1>1, <1>4, <1>7
      <4> QED BY <4>1, <3>3, <1>4, <1>12
    <3>4. Marked' BY <3>1, <3>2, <3>3, <2>2, <1>1, <1>2, <1>7 DEF Marked
    <3> QED BY <3>4, <2>2, <2>3, <1>7, <1>10, <1>11
  <2> QED BY <2>4, <2>5, <1>1, <1>4
<1> QED BY <1>14, <1>15, <1>1

LEMMA InitChained == AuditAssumption /\ AuditInit => Chained
<1> SUFFICES ASSUME AuditAssumption, AuditInit PROVE Chained OBVIOUS
<1>1. lines \in Seq(Range(lines)) /\ Len(lines) = 0 /\ DOMAIN lines = {}
  BY EmptySeq, SeqOfRange DEF AuditInit
<1>2. Sure = 0 BY <1>1 DEF AuditInit, Sure
<1>3. Written /\ Growing /\ Marked BY <1>1, <1>2 DEF AuditInit, Written, Growing, Marked
<1>4. ~Telling /\ damaged = 0 /\ ~cut BY DEF AuditInit, Telling
<1>5. \A t \in Threads : cache[LogOf[t]] = LastLine /\ cache[LogOf[t]].seq = 0 /\ stage[t] = "idle"
  BY <1>1 DEF AuditInit, AuditAssumption, LastLine
<1>6. Knows BY <1>1, <1>4, <1>5 DEF Knows
<1>7. Threaded BY DEF AuditInit, Threaded, Range
<1> QED BY <1>3, <1>6, <1>7 DEF Chained

(* All threads append through one object.                                  *)
OneObject == \A t, u \in Threads : LogOf[t] = LogOf[u]

LEMMA NextChained ==
  ASSUME AuditAssumption, OneObject, Chained, [AuditNext]_auditVars
  PROVE  Chained'
<1> USE DEF AuditAssumption
<1>1. /\ stage \in [Threads -> {"idle", "write", "update"}]
      /\ record \in [Threads -> Range(record)] /\ cache \in [Logs -> Range(cache)] /\ appends \in Nat
      /\ \A l \in Logs : cache[l] = [seq |-> cache[l].seq, head |-> cache[l].head] /\ cache[l].seq \in Nat
      /\ behind \subseteq {t \in Threads : stage[t] = "write"}
      /\ \A t \in Threads : stage[t] # "idle" =>
           IsEntry(record[t]) /\ record[t].hash = Digest(record[t].seq, record[t].prev, record[t].event)
      /\ \A t \in Threads \ behind : stage[t] = "write" => Adding(t) /\ ~Telling
      /\ raced = 0 => /\ \A t, u \in Threads : stage[t] = "update" /\ stage[u] = "update" => t = u
                      /\ \A t \in Threads : stage[t] = "update" => Adding(t)
      /\ cut => ended
  BY DEF Chained, Threaded
<1>2. ASSUME NEW t \in Threads, Build(t) PROVE Chained'
  <2>1. /\ UNCHANGED <<lines, ended, cache, damaged, cut, raced>> /\ stage[t] = "idle"
        /\ stage' = [stage EXCEPT ![t] = "write"] /\ appends' = appends + 1
        /\ record' = [record EXCEPT ![t] = Entry(cache[LogOf[t]].seq + 1, cache[LogOf[t]].head, appends + 1)]
        /\ behind' = IF Telling THEN behind \cup {t} ELSE behind
    BY <1>2 DEF Build, Telling
  <2>2. /\ \A u \in Threads : u # t => stage'[u] = stage[u] /\ record'[u] = record[u] /\ (Adding(u)' <=> Adding(u))
        /\ stage'[t] = "write"
        /\ record'[t] = Entry(cache[LogOf[t]].seq + 1, cache[LogOf[t]].head, appends + 1)
    BY <1>1, <2>1 DEF Adding
  <2>3. Telling' <=> Telling BY <2>1, <2>2 DEF Telling
  <2>4. record'[t].event = appends + 1 BY <2>2 DEF Entry
  <2>5. Adding(t)' BY <2>1, <2>2, <2>4 DEF Adding
  <2>6. IsEntry(record[t])' /\ record'[t].hash = Digest(record'[t].seq, record'[t].prev, record'[t].event)
    BY <1>1, <2>2 DEF IsEntry, Entry, Digest
  <2>7. Threaded'
    <3>1. stage' \in [Threads -> {"idle", "write", "update"}] /\ record' \in [Threads -> Range(record')]
          /\ cache' \in [Logs -> Range(cache')] /\ appends' \in Nat
      BY <1>1, <2>1 DEF Range
    <3>2. behind' \subseteq {u \in Threads : stage'[u] = "write"} BY <1>1, <2>1, <2>2
    <3>3. \A u \in Threads : stage'[u] # "idle" =>
            IsEntry(record'[u]) /\ record'[u].hash = Digest(record'[u].seq, record'[u].prev, record'[u].event)
      BY <1>1, <2>2, <2>6
    <3>4. \A u \in Threads \ behind' : stage'[u] = "write" => Adding(u)' /\ ~Telling'
      BY <1>1, <2>1, <2>2, <2>3, <2>5
    <3>5. raced' = 0 => /\ \A v, u \in Threads : stage'[v] = "update" /\ stage'[u] = "update" => v = u
                        /\ \A u \in Threads : stage'[u] = "update" => Adding(u)'
      BY <1>1, <2>1, <2>2
    <3>6. (\A l \in Logs : cache'[l] = [seq |-> cache'[l].seq, head |-> cache'[l].head] /\ cache'[l].seq \in Nat)
          /\ (cut' => ended')
      BY <1>1, <2>1
    <3> QED BY <3>1, <3>2, <3>3, <3>4, <3>5, <3>6 DEF Threaded
  <2>8. Knows'
    <3>1. LastLine' = LastLine /\ (\A u \in Threads : KnownTo(u)' = KnownTo(u))
      BY <2>1, <2>3 DEF LastLine, KnownTo
    <3>2. \A u \in Threads : stage'[u] = "update" => stage[u] = "update" /\ record'[u] = record[u] BY <2>2
    <3> QED BY <2>1, <2>3, <3>1, <3>2 DEF Chained, Knows
  <2>9. Written' /\ Growing' /\ Marked'
    BY <2>1 DEF Chained, Written, Growing, Marked, Good, ChainedTo, Sure
  <2> QED BY <2>7, <2>8, <2>9 DEF Chained
<1>3. ASSUME NEW t \in Threads, WriteLine(t) PROVE Chained'
  <2>1. /\ UNCHANGED <<cache, record, appends, cut>> /\ ended' /\ stage[t] = "write"
        /\ stage' = [stage EXCEPT ![t] = "update"]
        /\ behind' = {u \in Threads \ {t} : stage[u] = "write"}
        /\ Lands(t, IF ended THEN Len(lines) + 1 ELSE Len(lines), ~ended)
    BY <1>3 DEF WriteLine
  <2>2. raced' = 0 => raced = 0 /\ t \notin behind
    <3>1. Len(lines) \in Nat /\ (ended \/ Len(lines) # 0) BY Sizes DEF Chained, Written
    <3> QED BY <2>1, <3>1 DEF Lands
  <2>3. \A u \in Threads : (Adding(u)' <=> Adding(u)) BY <2>1 DEF Adding
  <2>4. /\ Telling' /\ stage'[t] = "update"
        /\ \A u \in Threads : u # t => stage'[u] = stage[u]
    BY <1>1, <2>1 DEF Telling
  <2>5. raced' = 0 => raced = 0 /\ Adding(t) /\ ~Telling /\ \A u \in Threads : stage'[u] = "update" => u = t
    BY <1>1, <2>1, <2>4, <2>2 DEF Telling
  <2>6. Threaded'
    <3>1. stage' \in [Threads -> {"idle", "write", "update"}] BY <1>1, <2>1
    <3>2. behind' \subseteq {u \in Threads : stage'[u] = "write"} BY <2>1, <2>4
    <3>3. \A u \in Threads \ behind' : stage'[u] # "write" BY <2>1, <2>4
    <3>4. raced' = 0 => /\ \A v, u \in Threads : stage'[v] = "update" /\ stage'[u] = "update" => v = u
                        /\ \A u \in Threads : stage'[u] = "update" => Adding(u)'
      BY <2>3, <2>5
    <3>5. \A u \in Threads : stage'[u] # "idle" => stage[u] # "idle" BY <2>1, <2>4
    <3> QED BY <1>1, <2>1, <3>1, <3>2, <3>3, <3>4, <3>5 DEF Threaded
  <2>7. ASSUME raced' = 0 PROVE \A u \in Threads : KnownTo(u)' = cache[LogOf[t]].seq + 1 /\ KnownTo(u) = cache[LogOf[t]].seq
    BY <2>1, <2>4, <2>5, <2>7 DEF KnownTo, OneObject
  <2>8. CASE ended
    <3>1. lines' = Append(lines, record[t]) /\ Lands(t, Len(lines) + 1, FALSE) BY <1>3, <2>8 DEF WriteLine, With
    <3>2. record[t] # HalfLine BY <1>1, <2>1 DEF IsEntry, HalfLine
    <3>3. Lands(t, Len(lines) + 1, record[t] = HalfLine) BY <3>1, <3>2 DEF Lands
    <3>4. /\ Written' /\ Growing' /\ Marked' /\ lines' # <<>>
          /\ raced' = 0 =>
               \A i \in DOMAIN lines' : lines'[i] # HalfLine => lines'[i].seq <= cache[LogOf[t]].seq + 1
          /\ raced' = 0 /\ damaged' = 0 =>
               ~cut /\ [seq |-> record[t].seq, head |-> record[t].hash] = LastLine'
      BY <2>1, <3>1, <3>3, LineIsAdded
    <3>5. Knows' BY <2>1, <2>4, <2>5, <2>7, <3>4 DEF Knows
    <3> QED BY <2>6, <3>4, <3>5 DEF Chained
  <2>9. CASE ~ended
    <3>1. lines' = With(record[t]) /\ Lands(t, Len(lines), TRUE) BY <1>3, <2>9 DEF WriteLine
    <3>2. /\ Written' /\ Growing' /\ Marked'
          /\ raced' = 0 => damaged' # 0
          /\ \A i \in DOMAIN lines' : lines'[i] # HalfLine => i \in DOMAIN lines /\ lines'[i] = lines[i]
      BY <2>9, <3>1, LineIsLost
    <3>3. \A i \in DOMAIN lines' : lines'[i] # HalfLine => lines'[i].seq \in Nat
      BY <3>2 DEF Written, IsEntry
    <3>4. cache[LogOf[t]].seq \in Nat BY <1>1
    <3>5. Knows'
      <4> SUFFICES ASSUME raced' = 0, NEW u \in Threads, NEW i \in DOMAIN lines', lines'[i] # HalfLine
                   PROVE  lines'[i].seq <= KnownTo(u)'
        BY <3>2 DEF Knows
      <4>1. lines'[i].seq <= cache[LogOf[t]].seq BY <2>5, <2>7, <3>2 DEF Chained, Knows
      <4> QED BY <4>1, <2>7, <3>3, <3>4
    <3> QED BY <2>6, <3>2, <3>5 DEF Chained
  <2> QED BY <2>8, <2>9
<1>4. ASSUME NEW t \in Threads, Update(t) PROVE Chained'
  <2>1. /\ UNCHANGED <<lines, ended, appends, damaged, cut, behind, raced>> /\ stage[t] = "update"
        /\ stage' = [stage EXCEPT ![t] = "idle"]
        /\ cache' = [cache EXCEPT ![LogOf[t]] = [seq |-> record[t].seq, head |-> record[t].hash]]
        /\ record' = [record EXCEPT ![t] = NoEntry]
    BY <1>4 DEF Update, past
  <2>2. /\ \A u \in Threads : u # t => stage'[u] = stage[u] /\ record'[u] = record[u]
        /\ stage'[t] = "idle" /\ Telling
    BY <1>1, <2>1 DEF Telling
  <2>3. \A u \in Threads \ behind : stage[u] # "write" BY <1>1, <2>2
  <2>4. Threaded'
    <3>1. record' \in [Threads -> Range(record')] /\ cache' \in [Logs -> Range(cache')]
          /\ stage' \in [Threads -> {"idle", "write", "update"}]
      BY <1>1, <2>1 DEF Range
    <3>2. record[t].seq \in Nat BY <1>1, <2>1 DEF IsEntry
    <3>3. \A l \in Logs : cache'[l] = [seq |-> cache'[l].seq, head |-> cache'[l].head] /\ cache'[l].seq \in Nat
      BY <1>1, <2>1, <3>2
    <3>4. behind' \subseteq {u \in Threads : stage'[u] = "write"} BY <1>1, <2>1, <2>2
    <3>5. \A u \in Threads : stage'[u] # "idle" =>
            IsEntry(record'[u]) /\ record'[u].hash = Digest(record'[u].seq, record'[u].prev, record'[u].event)
      BY <1>1, <2>2
    <3>6. \A u \in Threads \ behind' : stage'[u] # "write" BY <2>1, <2>2, <2>3
    <3>7. raced' = 0 => \A u \in Threads : stage'[u] # "update" BY <1>1, <2>1, <2>2
    <3> QED BY <1>1, <2>1, <3>1, <3>3, <3>4, <3>5, <3>6, <3>7 DEF Threaded
  <2>5. ASSUME raced = 0 PROVE Knows'
    <3>1. ~Telling' /\ \A u \in Threads : stage'[u] # "update"
      BY <2>5, <1>1, <2>1, <2>2 DEF Telling
    <3>2. \A u \in Threads : cache'[LogOf[u]] = [seq |-> record[t].seq, head |-> record[t].hash]
      BY <1>1, <2>1 DEF OneObject
    <3>3. record[t].seq = cache[LogOf[t]].seq + 1
      <4>1. record[t] = Entry(cache[LogOf[t]].seq + 1, cache[LogOf[t]].head, record[t].event)
        BY <2>5, <1>1, <2>1 DEF Adding
      <4> QED BY <4>1 DEF Entry
    <3>4. \A u \in Threads : KnownTo(u)' = record[t].seq /\ KnownTo(t) = record[t].seq
      BY <3>1, <3>2, <3>3, <2>2 DEF KnownTo
    <3>5. /\ \A i \in DOMAIN lines : lines[i] # HalfLine => lines[i].seq <= record[t].seq
          /\ damaged = 0 /\ ~cut => [seq |-> record[t].seq, head |-> record[t].hash] = LastLine
          /\ damaged = 0 /\ cut => record[t].seq > Len(lines)
      BY <2>1, <2>5, <3>4 DEF Chained, Knows
    <3>6. LastLine' = LastLine BY <2>1 DEF LastLine
    <3> QED BY <2>1, <3>1, <3>2, <3>4, <3>5, <3>6 DEF Knows
  <2>6. Knows' BY <2>1, <2>5 DEF Knows
  <2>7. Written' /\ Growing' /\ Marked'
    BY <2>1 DEF Chained, Written, Growing, Marked, Good, ChainedTo, Sure
  <2> QED BY <2>4, <2>6, <2>7 DEF Chained
<1>5. CASE Killed
  <2>1. /\ UNCHANGED appends /\ cut' = FALSE /\ behind' = {}
        /\ stage' = [t \in Threads |-> "idle"] /\ record' = [t \in Threads |-> NoEntry]
        /\ cache' = [l \in Logs |-> ReadHead(lines')]
    BY <1>5 DEF Killed
  <2>2. ~Telling' BY <2>1 DEF Telling
  <2>3. Written' /\ Growing' /\ Marked'
    <3>1. CASE UNCHANGED <<lines, ended, damaged, raced>>
      BY <3>1 DEF Chained, Written, Growing, Marked, Good, ChainedTo, Sure
    <3>2. ASSUME NEW t \in Threads, NEW rest \in {"part", "whole"},
                 stage[t] = "write",
                 lines' = Append(lines, IF rest = "part" THEN HalfLine ELSE record[t]),
                 Lands(t, Len(lines) + 1, rest = "part")
          PROVE  Written' /\ Growing' /\ Marked'
      <4> DEFINE line == IF rest = "part" THEN HalfLine ELSE record[t]
      <4>1. record[t] # HalfLine BY <1>1, <3>2 DEF IsEntry, HalfLine
      <4>2. line \in {HalfLine, record[t]} /\ (line = HalfLine <=> rest = "part") BY <4>1
      <4>3. lines' = Append(lines, line) /\ Lands(t, Len(lines) + 1, line = HalfLine)
        BY <3>2, <4>2 DEF Lands
      <4> HIDE DEF line
      <4> QED BY <3>2, <4>2, <4>3, LineIsAdded
    <3> QED BY <1>5, <3>1, <3>2 DEF Killed
  <2>4. KnowsFile(ReadHead(lines))'
    BY <2>3, HeadIsLast, PTL
  <2>5. \A l \in Logs : cache'[l] = ReadHead(lines)' BY <2>1 DEF ReadHead
  <2>6. Threaded'
    <3>1. cache' \in [Logs -> Range(cache')] /\ record' \in [Threads -> Range(record')] BY <2>1 DEF Range
    <3>2. \A l \in Logs : cache'[l] = [seq |-> cache'[l].seq, head |-> cache'[l].head] /\ cache'[l].seq \in Nat
      BY <2>4, <2>5 DEF KnowsFile
    <3> QED BY <1>1, <2>1, <3>1, <3>2 DEF Threaded
  <2>7. Knows'
    <3>1. \A t \in Threads : cache'[LogOf[t]] = ReadHead(lines)' /\ stage'[t] # "update" BY <2>1, <2>5
    <3>2. \A t \in Threads : KnownTo(t)' = cache'[LogOf[t]].seq BY <2>2 DEF KnownTo
    <3> QED BY <2>1, <2>2, <2>4, <3>1, <3>2 DEF Knows, KnowsFile
  <2> QED BY <2>3, <2>6, <2>7 DEF Chained
<1>6. ASSUME NEW i \in DOMAIN lines, Modify(i) PROVE Chained'
  <2>1. UNCHANGED <<ended, cache, stage, record, appends, cut, behind, raced>> BY <1>6 DEF Modify
  <2>2. /\ Written' /\ Growing' /\ Marked' /\ damaged' # 0
        /\ \A j \in DOMAIN lines' :
             j \in DOMAIN lines /\ (lines'[j] # HalfLine => lines[j] # HalfLine /\ lines'[j].seq = lines[j].seq)
    BY <1>6, ChangeShows
  <2>3. (Telling' <=> Telling) /\ \A t \in Threads : (Adding(t)' <=> Adding(t)) /\ KnownTo(t)' = KnownTo(t)
    BY <2>1 DEF Adding, Telling, KnownTo
  <2>4. Threaded' BY <1>1, <2>1, <2>3 DEF Threaded
  <2>5. Knows' BY <2>1, <2>2, <2>3 DEF Chained, Knows
  <2> QED BY <2>2, <2>4, <2>5 DEF Chained
<1>7. ASSUME NEW i \in DOMAIN lines, Delete(i) PROVE Chained'
  <2>1. UNCHANGED <<cache, stage, record, appends, behind>> BY <1>7 DEF Delete
  <2>2. /\ Written' /\ Growing' /\ Marked' /\ (cut' => ended') /\ (raced' = 0 <=> raced = 0)
        /\ damaged' = 0 =>
             cut' /\ Len(lines') = Len(lines) - 1 /\ (raced = 0 => lines[i] # HalfLine /\ lines[i].seq >= Len(lines))
        /\ \A j \in DOMAIN lines' : lines'[j] # HalfLine =>
             \E k \in DOMAIN lines : lines[k] # HalfLine /\ lines'[j].seq = lines[k].seq
    BY <1>7, GapShows
  <2>3. (Telling' <=> Telling) /\ \A t \in Threads : (Adding(t)' <=> Adding(t)) /\ KnownTo(t)' = KnownTo(t)
    BY <2>1 DEF Adding, Telling, KnownTo
  <2>4. Threaded' BY <1>1, <2>1, <2>2, <2>3 DEF Threaded
  <2>5. Knows'
    <3> SUFFICES ASSUME raced = 0, NEW t \in Threads
                 PROVE  /\ \A j \in DOMAIN lines' : lines'[j] # HalfLine => lines'[j].seq <= KnownTo(t)
                        /\ damaged' = 0 => cut' /\ KnownTo(t) > Len(lines')
      BY <2>2, <2>3 DEF Knows
    <3>1. \A j \in DOMAIN lines : lines[j] # HalfLine => lines[j].seq <= KnownTo(t) /\ lines[j].seq \in Nat
      BY Sizes DEF Chained, Knows
    <3>2. KnownTo(t) \in Nat /\ Len(lines) \in Nat BY <1>1, Sizes DEF KnownTo, Chained
    <3>3. \A j \in DOMAIN lines' : lines'[j] # HalfLine => lines'[j].seq <= KnownTo(t) BY <2>2, <3>1
    <3>4. damaged' = 0 => KnownTo(t) > Len(lines') BY <2>2, <3>1, <3>2
    <3> QED BY <2>2, <3>3, <3>4
  <2> QED BY <2>2, <2>4, <2>5 DEF Chained
<1>8. CASE UNCHANGED auditVars
  <2>1. UNCHANGED <<lines, ended, cache, stage, record, appends, damaged, cut, behind, raced>>
    BY <1>8 DEF auditVars, past
  <2>2. Written' /\ Growing' /\ Marked'
    BY <2>1 DEF Chained, Written, Growing, Marked, Good, ChainedTo, Sure
  <2>3. (Telling' <=> Telling) /\ (\A t \in Threads : (Adding(t)' <=> Adding(t)) /\ KnownTo(t)' = KnownTo(t))
        /\ LastLine' = LastLine
    BY <2>1 DEF Adding, Telling, KnownTo, LastLine
  <2>4. Threaded' BY <1>1, <2>1, <2>3 DEF Threaded
  <2>5. Knows' BY <2>1, <2>3 DEF Chained, Knows
  <2> QED BY <2>2, <2>4, <2>5 DEF Chained
<1> QED BY <1>2, <1>3, <1>4, <1>5, <1>6, <1>7, <1>8 DEF AuditNext

LEMMA ChainedShows == Chained => AlarmIsRight
<1> SUFFICES ASSUME Chained PROVE AlarmIsRight OBVIOUS
<1> DEFINE bad == {i \in DOMAIN lines : ~Good(i)}
<1>1. Len(lines) \in Nat /\ DOMAIN lines = 1 .. Len(lines) /\ Sure \in 0 .. Len(lines) /\ damaged \in Nat
  BY Sizes DEF Chained
<1>2. /\ damaged \in 1 .. Sure => ~Good(damaged)
      /\ \A i \in 1 .. Sure : damaged = 0 \/ i < damaged => Good(i)
  BY DEF Chained, Marked
<1>3. bad \subseteq Nat BY <1>1
<1>4. bad # {} => \E i \in bad : \A j \in bad : i <= j
  <2> SUFFICES ASSUME bad # {} PROVE \E i \in bad : \A j \in bad : i <= j OBVIOUS
  <2> DEFINE R == OpToRel(<, Nat)
  <2>1. IsWellFoundedOn(R, Nat) BY NatLessThanWellFounded
  <2>2. \A x, y \in Nat : y < x => <<y, x>> \in R BY DEF OpToRel
  <2> HIDE DEF R
  <2>3. PICK x \in bad : \A y \in bad : ~(<<y, x>> \in R) BY <2>1, <1>3, WFMin
  <2>4. ASSUME NEW y \in bad PROVE x <= y
    <3>1. x \in Nat /\ y \in Nat BY <1>3, Zenon
    <3>2. ~(y < x) BY <3>1, <2>2, <2>3, Zenon
    <3> QED BY <3>1, <3>2
  <2> QED BY <2>4
<1>5. BrokenAt = IF bad = {} THEN 0 ELSE CHOOSE i \in bad : \A j \in bad : i <= j BY DEF BrokenAt
<1>6. bad # {} => BrokenAt \in bad /\ \A j \in bad : BrokenAt <= j BY <1>4, <1>5
<1>7. \A i \in 1 .. Sure : i \in bad <=> ~Good(i) BY <1>1
<1> HIDE DEF bad
<1>8. CASE damaged \in 1 .. Sure
  <2>1. damaged \in bad BY <1>2, <1>7, <1>8
  <2>2. BrokenAt \in Nat /\ BrokenAt <= damaged /\ BrokenAt \in bad /\ bad # {} BY <2>1, <1>3, <1>6
  <2>3. CASE BrokenAt < damaged
    <3>1. BrokenAt \in 1 .. Sure
      <4>1. BrokenAt # 0 BY <2>2, <1>1 DEF bad
      <4> QED BY <4>1, <2>2, <2>3, <1>1, <1>8
    <3> QED BY <3>1, <2>2, <2>3, <1>2, <1>7
  <2> QED BY <2>2, <2>3, <1>1, <1>8 DEF AlarmIsRight
<1>9. CASE damaged \notin 1 .. Sure
  <2>1. \A i \in 1 .. Sure : Good(i) BY <1>1, <1>2, <1>9
  <2>2. BrokenAt \notin 1 .. Sure
    <3>1. CASE bad = {} BY <3>1, <1>1, <1>5
    <3>2. CASE bad # {} BY <3>2, <2>1, <1>6, <1>7
    <3> QED BY <3>1, <3>2
  <2> QED BY <2>2, <1>9 DEF AlarmIsRight
<1> QED BY <1>8, <1>9

(* As far as the appends of one server did not overlap, verify points at   *)
(* the first line that was changed, was torn or follows one that was       *)
(* removed, and at none while there is none, however often the server is   *)
(* killed in the middle of an append and whatever is done to the file      *)
(* after it (log.py:3-4, 134-167).                                         *)
THEOREM AlarmRings ==
  ASSUME OneObject
  PROVE  AuditSpec => []AlarmIsRight
<1>1. AuditInit => Chained BY AuditAssumption, InitChained
<1>2. Chained /\ [AuditNext]_auditVars => Chained' BY AuditAssumption, NextChained
<1> QED BY <1>1, <1>2, ChainedShows, PTL DEF AuditSpec

-----------------------------------------------------------------------------
(* The journal.  First what every variable holds.                          *)
IsRecord(r) ==
  /\ r = [kind |-> "checkpoint", changes |-> r.changes, undoes |-> r.undoes]
  /\ DOMAIN r.changes \subseteq Files
  /\ \A f \in DOMAIN r.changes : r.changes[f].pre \in Images

FileKinds ==
  /\ use \in Use /\ users \in Nat /\ crashes \in Nat
  /\ disk \in [Files -> Images]
  /\ pending \in [Journals -> 0 .. MaxId]

StoreKinds ==
  /\ dirs \subseteq Ids
  /\ blobs \in [Ids -> SUBSET Contents] /\ torn \in [Ids -> SUBSET Contents]
  /\ meta \in [Ids -> Range(meta)]
  /\ \A i \in Ids : meta[i] \in {None, Torn} \/ IsRecord(meta[i])
  /\ \A i \in Ids : meta[i] # None \/ torn[i] # {} => i \in dirs

Steps == {"idle", "reserve", "mkdir", "open", "storing", "recording", "recorded"}

(* What a worker at that step has in hand.                                 *)
HandKind(step, h) ==
  /\ step \notin {"storing", "recording"} => h = Nothing
  /\ step = "storing" => h \in [id : 0 .. MaxId, file : Files, content : Contents]
  /\ step = "recording" =>
       h = [id |-> h.id, record |-> h.record] /\ h.id \in 0 .. MaxId /\ IsRecord(h.record)

Holding(step) == step \in {"open", "storing", "recording"}

WorkerKinds ==
  /\ pc \in [Workers -> Steps]
  /\ undoes \in [Workers -> 0 .. MaxId]
  /\ captured \in [Workers -> Seq([file : Files, content : Images])]
  /\ todo \in [Workers -> Range(todo)]
  /\ \A w \in Workers :
       /\ DOMAIN todo[w] \subseteq Files /\ \A f \in DOMAIN todo[w] : todo[w][f] \in Images
       /\ ~Holding(pc[w]) => captured[w] = <<>>
       /\ HandKind(pc[w], hand[w])
  /\ hand \in [Workers -> Range(hand)]

HandsIn == \A w \in Workers : hand[w].id \in dirs \cup {0}

Kinds == FileKinds /\ StoreKinds /\ WorkerKinds /\ HandsIn

(* Operations that do not overlap.  What is captured is in the directory,  *)
(* whole, and is what the file still holds unless it has been written;     *)
(* what is half-written there is in the worker's hand.                     *)
OneAtATime == \A v, w \in Workers : pc[v] # "idle" /\ pc[w] # "idle" => v = w

Covered(w) ==
  /\ Pending(w) \in dirs
  /\ \A k \in DOMAIN captured[w] :
       LET e == captured[w][k]
       IN  /\ e.content # Absent => e.content \in blobs[Pending(w)]
           /\ e.file \in DOMAIN todo[w] => disk[e.file] = e.content

Storing(w) ==
  /\ hand[w].id = Pending(w) /\ torn[Pending(w)] \subseteq {hand[w].content}
  /\ hand[w].file \in DOMAIN todo[w] \ CapturedFiles(w) /\ disk[hand[w].file] = hand[w].content

Recording(w) ==
  /\ hand[w] = [id |-> Pending(w), record |-> Record(w)] /\ meta[Pending(w)] = Torn
  /\ DOMAIN todo[w] = {}

(* Nothing is half-written but what is in somebody's hand.                 *)
Clean ==
  \A i \in Ids : torn[i] # {} => (\E w \in Workers : pc[w] = "storing" /\ i = Pending(w))

Fit(w) ==
  /\ Holding(pc[w]) => Covered(w)
  /\ pc[w] = "open" => torn[Pending(w)] = {}
  /\ pc[w] = "storing" => Storing(w)
  /\ pc[w] = "recording" => Recording(w)

InHand == InTurn => OneAtATime /\ (\A w \in Workers : Fit(w)) /\ (crashes = 0 => Clean)

(* While there is room the numbers of the directories have no gap, and the *)
(* number an operation works with is the last one, or the next before its  *)
(* directory is made, and has no record until the operation writes it.     *)
Owns(w) == pc[w] \in {"mkdir", "open", "storing", "recording"}

OnTop(w) ==
  LET n == Cardinality(dirs)
  IN  /\ Pending(w) = IF pc[w] = "mkdir" THEN n + 1 ELSE n
      /\ Pending(w) <= use.ids
      /\ pc[w] # "recording" => meta[Pending(w)] = None

Spacious == Roomy /\ ~use.overlap

InOrder == Spacious =>
  /\ dirs = 1 .. Cardinality(dirs) /\ Cardinality(dirs) <= use.ids
  /\ \A w \in Workers : Owns(w) => OnTop(w)

(* A file as it was before the operation under way, and before checkpoint  *)
(* k; and where the operation under way is an undo, what it has still to   *)
(* put back.                                                               *)
Captures(f) == {e \in UNION {Range(captured[w]) : w \in Workers} : e.file = f}

Before(f) == IF Captures(f) = {} THEN disk[f] ELSE (CHOOSE e \in Captures(f) : TRUE).content

BackTo(f, k) == IF Naming(f, k) = {} THEN Before(f) ELSE meta[Min(Naming(f, k))].changes[f].pre

PutsBack(w) ==
  LET t == undoes[w]
  IN  pc[w] # "idle" /\ t # 0 =>
        /\ t \in Listed /\ DOMAIN todo[w] \subseteq DOMAIN meta[t].changes
        /\ \A f \in DOMAIN meta[t].changes :
             IF f \in DOMAIN todo[w] THEN todo[w][f] = meta[t].changes[f].pre
                                     ELSE disk[f] = meta[t].changes[f].pre

Undone(u) ==
  LET t == meta[u].undoes
  IN  t \in Listed \ {u} => \A f \in DOMAIN meta[t].changes : BackTo(f, u + 1) = meta[t].changes[f].pre

Tidy(w) ==
  /\ pc[w] = "idle" => undoes[w] = 0
  /\ \A k, l \in DOMAIN captured[w] : captured[w][k].file = captured[w][l].file => k = l

Reversible == Orderly /\ Roomy =>
  /\ \A f \in Files : BackTo(f, 1) = Start[f]
  /\ \A w \in Workers : Tidy(w) /\ PutsBack(w)
  /\ \A u \in Listed : meta[u].undoes \in 0 .. u - 1 /\ Undone(u)

LEMMA InitKinds == JournalAssumption /\ Init => Kinds
<1> SUFFICES ASSUME JournalAssumption, Init PROVE Kinds OBVIOUS
<1>1. FileKinds BY DEF JournalAssumption, Init, FileKinds, Images
<1>2. StoreKinds BY DEF JournalAssumption, Init, StoreKinds, Range
<1>3. <<>> \in Seq([file : Files, content : Images]) BY EmptySeq
<1>4. WorkerKinds BY <1>3 DEF JournalAssumption, Init, WorkerKinds, Range, Steps, Holding, HandKind
<1>5. HandsIn BY DEF Init, HandsIn, Nothing
<1> QED BY <1>1, <1>2, <1>4, <1>5 DEF Kinds

(* Some directories go: what is in the workers' hands.                     *)
LEMMA LetGoKinds ==
  ASSUME WorkerKinds, NEW gone, NEW v \in Workers
  PROVE  HandKind(pc[v], LetGo(gone)[v]) /\ LetGo(gone) \in [Workers -> Range(LetGo(gone))]
<1>1. LetGo(gone) \in [Workers -> Range(LetGo(gone))] BY DEF LetGo, Range
<1>2. LetGo(gone)[v] = IF hand[v].id \in gone THEN [hand[v] EXCEPT !.id = 0] ELSE hand[v] BY DEF LetGo
<1>3. HandKind(pc[v], hand[v]) /\ 0 \in 0 .. MaxId
  BY JournalAssumption DEF WorkerKinds, JournalAssumption
<1>4. CASE hand[v].id \notin gone BY <1>1, <1>2, <1>3, <1>4
<1>5. CASE hand[v].id \in gone
  <2>1. LetGo(gone)[v] = [hand[v] EXCEPT !.id = 0] BY <1>2, <1>5
  <2>2. hand[v] = Nothing => [hand[v] EXCEPT !.id = 0] = Nothing BY DEF Nothing
  <2>3. pc[v] = "storing" => [hand[v] EXCEPT !.id = 0] \in [id : 0 .. MaxId, file : Files, content : Contents]
    BY <1>3 DEF HandKind
  <2>4. pc[v] = "recording" =>
          LET h == [hand[v] EXCEPT !.id = 0]
          IN  h = [id |-> h.id, record |-> h.record] /\ h.id \in 0 .. MaxId /\ IsRecord(h.record)
    <3>1. SUFFICES ASSUME pc[v] = "recording"
                   PROVE  LET h == [hand[v] EXCEPT !.id = 0]
                          IN  h = [id |-> h.id, record |-> h.record] /\ h.id \in 0 .. MaxId /\ IsRecord(h.record)
      OBVIOUS
    <3>2. PICK i, c : hand[v] = [id |-> i, record |-> c] /\ IsRecord(c) BY <1>3, <3>1 DEF HandKind
    <3>3. [hand[v] EXCEPT !.id = 0] = [id |-> 0, record |-> c] BY <3>2
    <3> QED BY <1>3, <3>2, <3>3
  <2> QED BY <1>1, <1>3, <2>1, <2>2, <2>3, <2>4 DEF HandKind
<1> QED BY <1>4, <1>5

(* The end of an operation, and what is dropped.                           *)
LEMMA EndsKinds ==
  ASSUME WorkerKinds, NEW w \in Workers, NEW gone, Ends(w, gone)
  PROVE  /\ WorkerKinds'
         /\ pc' = [pc EXCEPT ![w] = "idle"]
         /\ captured'[w] = <<>> /\ \A v \in Workers \ {w} : captured'[v] = captured[v]
<1>1. <<>> \in Seq([file : Files, content : Images]) BY EmptySeq
<1>2. todo' \in [Workers -> Range(todo')] BY DEF WorkerKinds, Ends, Range
<1>3. /\ undoes' \in [Workers -> 0 .. MaxId] /\ pc' \in [Workers -> Steps]
  BY JournalAssumption DEF WorkerKinds, Ends, JournalAssumption, Steps
<1>4. captured' \in [Workers -> Seq([file : Files, content : Images])]
  BY <1>1 DEF WorkerKinds, Ends
<1>5. ASSUME NEW v \in Workers
      PROVE  /\ DOMAIN todo'[v] \subseteq Files /\ \A f \in DOMAIN todo'[v] : todo'[v][f] \in Images
             /\ ~Holding(pc'[v]) => captured'[v] = <<>>
  BY DEF WorkerKinds, Ends
<1>6. hand' = [LetGo(gone) EXCEPT ![w] = Nothing] BY DEF Ends
<1>7. LetGo(gone) \in [Workers -> Range(LetGo(gone))] /\ \A v \in Workers : HandKind(pc[v], LetGo(gone)[v])
  BY LetGoKinds
<1>8. hand' \in [Workers -> Range(hand')] BY <1>6, <1>7 DEF Range
<1>9. ASSUME NEW v \in Workers PROVE HandKind(pc'[v], hand'[v])
  <2>1. CASE v = w
    <3>1. hand'[v] = Nothing /\ pc'[v] = "idle" BY <1>6, <1>7, <2>1 DEF Ends, WorkerKinds
    <3> QED BY <3>1 DEF HandKind
  <2>2. CASE v # w
    <3>1. hand'[v] = LetGo(gone)[v] /\ pc'[v] = pc[v] BY <1>6, <1>7, <2>2 DEF Ends, WorkerKinds
    <3> QED BY <1>7, <3>1
  <2> QED BY <2>1, <2>2
<1> QED BY <1>2, <1>3, <1>4, <1>5, <1>8, <1>9 DEF WorkerKinds, Ends

LEMMA DroppedKinds ==
  ASSUME StoreKinds, NEW ids, Dropped(ids)
  PROVE  StoreKinds'
<1>1. \A i \in Ids : meta'[i] = IF i \in ids THEN None ELSE meta[i] BY DEF Dropped
<1>2. meta' \in [Ids -> Range(meta')] BY DEF Dropped, Range
<1>3. \A i \in Ids : meta'[i] \in {None, Torn} \/ IsRecord(meta'[i]) BY <1>1 DEF StoreKinds
<1>4. \A i \in Ids : meta'[i] # None \/ torn'[i] # {} => i \in dirs' BY <1>1 DEF StoreKinds, Dropped
<1>5. /\ dirs' \subseteq Ids /\ blobs' \in [Ids -> SUBSET Contents] /\ torn' \in [Ids -> SUBSET Contents]
  BY DEF StoreKinds, Dropped
<1> QED BY <1>2, <1>3, <1>4, <1>5 DEF StoreKinds

(* What a commit writes is a record.                                       *)
LEMMA CommitKinds ==
  ASSUME Kinds, NEW w \in Workers
  PROVE  /\ IsRecord(Record(w)) /\ Record(w).kind = "checkpoint"
         /\ DOMAIN Changes(w) \subseteq CapturedFiles(w) /\ CapturedFiles(w) \subseteq Files
         /\ \A f \in CapturedFiles(w) : \E k \in DOMAIN captured[w] :
              /\ captured[w][k].file = f
              /\ f \in DOMAIN Changes(w) => Changes(w)[f].pre = captured[w][k].content
              /\ f \notin DOMAIN Changes(w) => disk[f] = captured[w][k].content
<1> DEFINE At(f)  == CHOOSE k \in DOMAIN captured[w] : captured[w][k].file = f
           Pre(f) == captured[w][At(f)].content
<1>1. captured[w] \in Seq([file : Files, content : Images]) BY DEF Kinds, WorkerKinds
<1>2. ASSUME NEW k \in DOMAIN captured[w]
      PROVE  captured[w][k].file \in Files /\ captured[w][k].content \in Images
  <2>1. captured[w][k] \in [file : Files, content : Images] BY <1>1, ElementOfSeq, LenProperties
  <2> QED BY <2>1
<1>3. CapturedFiles(w) \subseteq Files BY <1>2 DEF CapturedFiles
<1>4. ASSUME NEW f \in CapturedFiles(w)
      PROVE  At(f) \in DOMAIN captured[w] /\ captured[w][At(f)].file = f
  BY DEF CapturedFiles
<1>5. Changes(w) = [f \in {g \in CapturedFiles(w) : Pre(g) # disk[g]} |-> [pre |-> Pre(f), post |-> disk[f]]]
  BY DEF Changes
<1> HIDE DEF At
<1>6. \A f \in CapturedFiles(w) : Pre(f) \in Images BY <1>2, <1>4
<1> HIDE DEF Pre
<1>7. /\ DOMAIN Changes(w) = {g \in CapturedFiles(w) : Pre(g) # disk[g]}
      /\ \A f \in DOMAIN Changes(w) : Changes(w)[f].pre = Pre(f)
  BY <1>5
<1>8. IsRecord(Record(w)) /\ Record(w).kind = "checkpoint"
  BY <1>3, <1>6, <1>7 DEF IsRecord, Record
<1>9. ASSUME NEW f \in CapturedFiles(w)
      PROVE  \E k \in DOMAIN captured[w] :
               /\ captured[w][k].file = f
               /\ f \in DOMAIN Changes(w) => Changes(w)[f].pre = captured[w][k].content
               /\ f \notin DOMAIN Changes(w) => disk[f] = captured[w][k].content
  BY <1>4, <1>7 DEF Pre
<1> QED BY <1>3, <1>7, <1>8, <1>9

(* A file is captured.                                                     *)
LEMMA CaptureKinds ==
  ASSUME Kinds, NEW w \in Workers, NEW f \in Files, NEW c \in Images, Takes(w, f, c)
  PROVE  /\ captured' \in [Workers -> Seq([file : Files, content : Images])]
         /\ \A v \in Workers \ {w} : captured'[v] = captured[v]
         /\ Len(captured[w]) \in Nat /\ DOMAIN captured[w] = 1 .. Len(captured[w])
         /\ DOMAIN captured'[w] = 1 .. Len(captured[w]) + 1
         /\ \A k \in DOMAIN captured[w] : captured'[w][k] = captured[w][k]
         /\ captured'[w][Len(captured[w]) + 1] = [file |-> f, content |-> c]
<1> DEFINE Es  == [file : Files, content : Images]
           new == [file |-> f, content |-> c]
           now == Append(captured[w], new)
<1>1. captured \in [Workers -> Seq(Es)] BY DEF Kinds, WorkerKinds
<1>2. new \in Es OBVIOUS
<1>3. captured' = [captured EXCEPT ![w] = now] BY DEF Takes
<1>4. new = [file |-> f, content |-> c] OBVIOUS
<1> HIDE DEF Es, new
<1>5. /\ now \in Seq(Es) /\ Len(now) = Len(captured[w]) + 1
      /\ \A k \in 1 .. Len(captured[w]) : now[k] = captured[w][k]
      /\ now[Len(captured[w]) + 1] = new
  BY <1>1, <1>2, AppendProperties
<1> HIDE DEF now
<1>6. /\ Len(captured[w]) \in Nat /\ DOMAIN captured[w] = 1 .. Len(captured[w])
      /\ DOMAIN now = 1 .. Len(captured[w]) + 1
  BY <1>1, <1>5, LenProperties
<1>7. captured'[w] = now /\ captured' \in [Workers -> Seq(Es)] BY <1>1, <1>3, <1>5
<1>8. \A v \in Workers \ {w} : captured'[v] = captured[v] BY <1>1, <1>3
<1> QED BY <1>4, <1>5, <1>6, <1>7, <1>8 DEF Es

(* A worker takes a step with something or nothing in hand.                *)
HandsKind ==
  /\ pc \in [Workers -> Steps] /\ hand \in [Workers -> Range(hand)]
  /\ \A v \in Workers : HandKind(pc[v], hand[v])

LEMMA TakesUp ==
  ASSUME WorkerKinds, NEW w \in Workers, NEW now \in Steps, NEW h, HandKind(now, h),
         pc' = [pc EXCEPT ![w] = now], hand' = [hand EXCEPT ![w] = h]
  PROVE  HandsKind'
<1>1. hand' \in [Workers -> Range(hand')] BY DEF WorkerKinds, Range
<1>2. pc' \in [Workers -> Steps] BY DEF WorkerKinds
<1>3. ASSUME NEW v \in Workers PROVE HandKind(pc'[v], hand'[v])
  <2>1. CASE v = w
    <3>1. pc'[v] = now /\ hand'[v] = h BY <2>1 DEF WorkerKinds
    <3> QED BY <3>1
  <2>2. CASE v # w
    <3>1. pc'[v] = pc[v] /\ hand'[v] = hand[v] BY <2>2 DEF WorkerKinds
    <3> QED BY <3>1 DEF WorkerKinds
  <2> QED BY <2>1, <2>2
<1> QED BY <1>1, <1>2, <1>3 DEF HandsKind

LEMMA MovesOn ==
  ASSUME WorkerKinds, NEW w \in Workers, NEW now \in Steps \ {"storing", "recording"},
         pc[w] \notin {"storing", "recording"}, pc' = [pc EXCEPT ![w] = now], hand' = hand
  PROVE  HandsKind'
<1>1. hand[w] = Nothing BY DEF WorkerKinds, HandKind
<1>2. hand' = [hand EXCEPT ![w] = Nothing] BY <1>1 DEF WorkerKinds
<1>3. HandKind(now, Nothing) BY DEF HandKind
<1> QED BY <1>2, <1>3, TakesUp

Typed == FileKinds /\ StoreKinds /\ WorkerKinds

LEMMA NextTyped ==
  ASSUME Kinds, [Next]_vars
  PROVE  Typed'
<1> USE DEF Kinds, Typed
<1>1. /\ use.limit \in Nat /\ use.ids \in 1 .. MaxId /\ use.files \subseteq Files /\ MaxId \in Nat
      /\ JournalOf \in [Workers -> Journals]
  BY JournalAssumption DEF FileKinds, Use, JournalAssumption
<1>2. ASSUME NEW w \in Workers, NEW F \in SUBSET use.files \ {{}}, NEW c \in Wholes, BeginEdit(w, F, c)
      PROVE  Typed'
  <2>1. FileKinds' /\ StoreKinds' BY <1>2 DEF BeginEdit, FileKinds, StoreKinds, store, IsRecord
  <2>2. todo' = [todo EXCEPT ![w] = [f \in F |-> c]] /\ F \subseteq Files BY <1>1, <1>2 DEF BeginEdit
  <2>3. todo' \in [Workers -> Range(todo')] BY <2>2 DEF WorkerKinds, Range
  <2>4. \A v \in Workers : /\ DOMAIN todo'[v] \subseteq Files
                           /\ \A f \in DOMAIN todo'[v] : todo'[v][f] \in Images
    BY <2>2 DEF WorkerKinds, Images, Wholes
  <2>5. HandsKind' BY <1>2, MovesOn DEF BeginEdit, Steps
  <2>6. WorkerKinds' BY <1>2, <2>3, <2>4, <2>5 DEF BeginEdit, WorkerKinds, HandsKind, Holding
  <2> QED BY <2>1, <2>6
<1>3. ASSUME NEW w \in Workers, NEW i \in Ids, BeginUndo(w, i) PROVE Typed'
  <2>1. FileKinds' /\ StoreKinds' BY <1>3 DEF BeginUndo, FileKinds, StoreKinds, store, IsRecord
  <2>2. todo' = [todo EXCEPT ![w] = [f \in DOMAIN meta[i].changes |-> meta[i].changes[f].pre]]
    BY <1>3 DEF BeginUndo
  <2>3. IsRecord(meta[i]) BY <1>3 DEF BeginUndo, StoreKinds, Listed, None, Torn
  <2>4. todo' \in [Workers -> Range(todo')] BY <2>2 DEF WorkerKinds, Range
  <2>5. \A v \in Workers : /\ DOMAIN todo'[v] \subseteq Files
                           /\ \A f \in DOMAIN todo'[v] : todo'[v][f] \in Images
    BY <2>2, <2>3 DEF WorkerKinds, IsRecord
  <2>6. i \in 0 .. MaxId BY DEF Ids
  <2>7. HandsKind' BY <1>3, MovesOn DEF BeginUndo, Steps
  <2>8. WorkerKinds' BY <1>3, <2>4, <2>5, <2>6, <2>7 DEF BeginUndo, WorkerKinds, HandsKind, Holding
  <2> QED BY <2>1, <2>8
<1>4. ASSUME NEW w \in Workers, Reserve(w) PROVE Typed'
  <2>1. StoreKinds'
    <3>1. CASE UNCHANGED store BY <3>1 DEF store, StoreKinds, IsRecord
    <3>2. CASE \E ids : Dropped(ids) BY <3>2, DroppedKinds
    <3> QED BY <1>4, <3>1, <3>2 DEF Reserve
  <2>2. Cardinality(dirs') \in Nat
    <3>1. 1 \in Int /\ MaxId \in Int BY <1>1
    <3>2. IsFiniteSet(1 .. MaxId) BY <3>1, FS_Interval
    <3>3. dirs' \subseteq 1 .. MaxId BY <2>1 DEF StoreKinds, Ids
    <3>4. IsFiniteSet(dirs') BY <3>2, <3>3, FS_Subset
    <3> QED BY <3>4, FS_CardinalityType
  <2>3. FileKinds'
    <3>1. Cardinality(dirs') + 1 \in 0 .. MaxId BY <1>1, <1>4, <2>2 DEF Reserve
    <3> QED BY <1>1, <1>4, <3>1 DEF Reserve, FileKinds, NextId
  <2>4. pc' = [pc EXCEPT ![w] = "mkdir"] /\ pc[w] = "reserve" BY <1>4 DEF Reserve
  <2>5. HandsKind'
    <3>1. CASE hand' = hand BY <2>4, <3>1, MovesOn DEF Steps
    <3>2. ASSUME NEW old, hand' = LetGo(old) PROVE HandsKind'
      <4>1. hand' \in [Workers -> Range(hand')] /\ \A v \in Workers : HandKind(pc[v], hand'[v])
        BY <3>2, LetGoKinds
      <4>2. pc' \in [Workers -> Steps] BY <2>4 DEF WorkerKinds, Steps
      <4>3. HandKind("mkdir", hand'[w]) BY <2>4, <4>1 DEF HandKind
      <4>4. \A v \in Workers : pc'[v] = IF v = w THEN "mkdir" ELSE pc[v] BY <2>4 DEF WorkerKinds
      <4>5. \A v \in Workers : HandKind(pc'[v], hand'[v]) BY <4>1, <4>3, <4>4
      <4> QED BY <4>1, <4>2, <4>5 DEF HandsKind
    <3> QED BY <1>4, <3>1, <3>2 DEF Reserve
  <2>6. WorkerKinds' BY <1>4, <2>5 DEF Reserve, WorkerKinds, HandsKind, Holding
  <2> QED BY <2>1, <2>3, <2>6
<1>5. ASSUME NEW w \in Workers, ReserveRaises(w) \/ MakeDirRaises(w) \/ CommitRaises(w) \/ RecordRaises(w)
      PROVE  Typed'
  <2>1. FileKinds' /\ StoreKinds'
    BY <1>5 DEF ReserveRaises, MakeDirRaises, CommitRaises, RecordRaises, FileKinds, StoreKinds, store, IsRecord
  <2>2. WorkerKinds'
    BY <1>5, EndsKinds DEF ReserveRaises, MakeDirRaises, CommitRaises, RecordRaises
  <2> QED BY <2>1, <2>2
<1>6. ASSUME NEW w \in Workers, MakeDir(w) PROVE Typed'
  <2>1. FileKinds' BY <1>6 DEF MakeDir, FileKinds
  <2>2. Pending(w) \in Ids BY <1>1, <1>6 DEF MakeDir, Pending, FileKinds, Ids
  <2>3. StoreKinds' BY <1>6, <2>2 DEF MakeDir, StoreKinds, IsRecord
  <2>4. HandsKind' BY <1>6, MovesOn DEF MakeDir, Steps
  <2>5. WorkerKinds' BY <1>6, <2>4 DEF MakeDir, WorkerKinds, HandsKind, Holding
  <2> QED BY <2>1, <2>3, <2>5
<1>7. ASSUME NEW w \in Workers, NEW f \in Files, Capture(w, f) PROVE Typed'
  <2>1. FileKinds' /\ StoreKinds' BY <1>7 DEF Capture, FileKinds, StoreKinds, store, IsRecord
  <2>2. disk[f] \in Images BY DEF FileKinds
  <2>3. /\ captured' \in [Workers -> Seq([file : Files, content : Images])]
        /\ \A v \in Workers \ {w} : captured'[v] = captured[v]
    BY <1>7, <2>2, CaptureKinds DEF Capture
  <2>4. WorkerKinds' BY <1>7, <2>3 DEF Capture, WorkerKinds, Holding
  <2> QED BY <2>1, <2>4
<1>8. ASSUME NEW w \in Workers, NEW f \in Files, Write(w, f) PROVE Typed'
  <2>1. f \in DOMAIN todo[w] /\ todo[w][f] \in Images BY <1>8 DEF Write, WorkerKinds
  <2>2. \A i : Copy(i, todo[w][f]) \in Images BY <2>1, JournalAssumption DEF Copy, JournalAssumption, Images
  <2>3. FileKinds' BY <1>8, <2>1, <2>2 DEF Write, FileKinds
  <2>4. StoreKinds' BY <1>8 DEF Write, StoreKinds, store, IsRecord
  <2>5. todo' = [todo EXCEPT ![w] = [g \in DOMAIN todo[w] \ {f} |-> todo[w][g]]] BY <1>8 DEF Write
  <2>6. todo' \in [Workers -> Range(todo')] BY <2>5 DEF WorkerKinds, Range
  <2>7. \A v \in Workers : /\ DOMAIN todo'[v] \subseteq Files
                           /\ \A g \in DOMAIN todo'[v] : todo'[v][g] \in Images
    BY <2>5 DEF WorkerKinds
  <2>8. WorkerKinds' BY <1>8, <2>6, <2>7 DEF Write, WorkerKinds
  <2> QED BY <2>3, <2>4, <2>8
<1>9. ASSUME NEW w \in Workers, Discard(w) \/ UNCHANGED <<store, pending>>
      PROVE  StoreKinds' /\ pending' \in [Journals -> 0 .. MaxId]
  <2>1. CASE Discard(w)
    <3>1. StoreKinds' BY <2>1, DroppedKinds DEF Discard
    <3> QED BY <1>1, <2>1, <3>1 DEF Discard, FileKinds
  <2>2. CASE UNCHANGED <<store, pending>> BY <2>2 DEF store, StoreKinds, IsRecord, FileKinds
  <2> QED BY <1>9, <2>1, <2>2
<1>10. ASSUME NEW w \in Workers, CommitNothing(w) PROVE Typed'
  <2>1. StoreKinds' /\ pending' \in [Journals -> 0 .. MaxId] BY <1>9, <1>10 DEF CommitNothing
  <2>2. FileKinds' BY <1>10, <2>1 DEF CommitNothing, FileKinds
  <2>3. WorkerKinds' BY <1>10, EndsKinds DEF CommitNothing
  <2> QED BY <2>1, <2>2, <2>3
<1>11. ASSUME NEW w \in Workers, Commit(w) PROVE Typed'
  <2>1. FileKinds' BY <1>11 DEF Commit, FileKinds
  <2>2. /\ meta' = [meta EXCEPT ![Pending(w)] = Torn] /\ Pending(w) \in dirs
        /\ UNCHANGED <<dirs, blobs, torn>>
    BY <1>11 DEF Commit
  <2>3. StoreKinds'
    <3>1. meta' \in [Ids -> Range(meta')] BY <2>2 DEF StoreKinds, Range
    <3>2. \A i \in Ids : meta'[i] = IF i = Pending(w) THEN Torn ELSE meta[i] BY <2>2 DEF StoreKinds
    <3> QED BY <2>2, <3>1, <3>2 DEF StoreKinds
  <2>4. IsRecord(Record(w)) BY CommitKinds
  <2>5. Pending(w) \in 0 .. MaxId BY <1>1 DEF Pending, FileKinds
  <2>6. HandKind("recording", [id |-> Pending(w), record |-> Record(w)]) BY <2>4, <2>5 DEF HandKind
  <2>7. HandsKind' BY <1>11, <2>6, TakesUp DEF Commit, Steps
  <2>8. pc'[w] = "recording" /\ \A v \in Workers \ {w} : pc'[v] = pc[v] BY <1>11 DEF Commit, WorkerKinds
  <2>9. WorkerKinds' BY <1>11, <2>7, <2>8 DEF Commit, WorkerKinds, HandsKind, Holding
  <2> QED BY <2>1, <2>3, <2>9
<1>12. ASSUME NEW w \in Workers, Fail(w) PROVE Typed'
  <2>1. StoreKinds' /\ pending' \in [Journals -> 0 .. MaxId] BY <1>9, <1>12 DEF Fail
  <2>2. captured[w] \in Seq([file : Files, content : Images]) BY DEF WorkerKinds
  <2>3. \A k \in DOMAIN captured[w] : captured[w][k].content \in Images
    <3>1. \A k \in DOMAIN captured[w] : captured[w][k] \in [file : Files, content : Images]
      BY <2>2, ElementOfSeq, LenProperties
    <3> QED BY <3>1
  <2>4. \A i, c : c \in Images /\ c # Absent => Copy(i, c) \in Images
    BY JournalAssumption DEF Copy, JournalAssumption, Images
  <2>5. Absent \in Images BY DEF Images
  <2>6. disk' \in [Files -> Images]
    <3>1. PICK back \in SUBSET DOMAIN captured[w] : PutBack(w, back)
      BY <1>12 DEF Fail
    <3> DEFINE At(f) == CHOOSE k \in back : captured[w][k].file = f
               c(f)  == captured[w][At(f)].content
    <3>2. disk' = [f \in Files |-> IF \E k \in back : captured[w][k].file = f
                                   THEN IF c(f) = Absent THEN Absent ELSE Copy(Pending(w), c(f))
                                   ELSE disk[f]]
      BY <3>1 DEF PutBack
    <3>3. ASSUME NEW f \in Files, \E k \in back : captured[w][k].file = f PROVE c(f) \in Images
      <4>1. At(f) \in DOMAIN captured[w] BY <3>3
      <4> QED BY <2>3, <4>1
    <3> HIDE DEF c, At
    <3>4. ASSUME NEW f \in Files PROVE disk'[f] \in Images
      BY <2>4, <2>5, <3>2, <3>3 DEF FileKinds
    <3> QED BY <3>2, <3>4
  <2>7. FileKinds' BY <1>12, <2>1, <2>6 DEF Fail, FileKinds
  <2>8. WorkerKinds' BY <1>12, EndsKinds DEF Fail
  <2> QED BY <2>1, <2>7, <2>8
<1>13. ASSUME NEW f \in use.files, NEW c \in Wholes, UserEdits(f, c) PROVE Typed'
  <2>1. f \in Files /\ c \in Images BY <1>1 DEF Images, Wholes
  <2>2. disk' \in [Files -> Images] BY <1>13, <2>1 DEF UserEdits, FileKinds
  <2>3. FileKinds' BY <1>13, <2>2 DEF UserEdits, FileKinds
  <2>4. StoreKinds' /\ WorkerKinds'
    BY <1>13 DEF UserEdits, StoreKinds, WorkerKinds, store, local, IsRecord
  <2> QED BY <2>4, <2>3
<1>14. CASE Crash
  <2>1. disk' \in [Files -> Images]
    <3>1. Part \in Images BY JournalAssumption DEF JournalAssumption, Images
    <3> QED BY <1>14, <3>1 DEF Crash, FileKinds
  <2>2. FileKinds'
    <3>1. users' = users /\ use' = use BY <1>14 DEF Crash
    <3>2. crashes' = crashes + 1 BY <1>14 DEF Crash
    <3>3. pending' = [j \in Journals |-> 0] BY <1>14 DEF Crash
    <3> QED BY <1>1, <2>1, <3>1, <3>2, <3>3 DEF FileKinds
  <2>3. <<>> \in Seq([file : Files, content : Images]) BY EmptySeq
  <2>4. todo' \in [Workers -> Range(todo')] BY <1>14 DEF Crash, Range
  <2>5. hand' \in [Workers -> Range(hand')] /\ \A v \in Workers : HandKind(pc'[v], hand'[v])
    BY <1>14 DEF Crash, Range, HandKind
  <2>6. WorkerKinds'
    <3>1. /\ pc' = [v \in Workers |-> "idle"] /\ todo' = [v \in Workers |-> <<>>]
          /\ undoes' = [v \in Workers |-> 0] /\ captured' = [v \in Workers |-> <<>>]
      BY <1>14 DEF Crash
    <3>2. pc' \in [Workers -> Steps] /\ undoes' \in [Workers -> 0 .. MaxId] BY <1>1, <3>1 DEF Steps
    <3>3. captured' \in [Workers -> Seq([file : Files, content : Images])] BY <2>3, <3>1
    <3>4. \A v \in Workers : /\ DOMAIN todo'[v] \subseteq Files
                             /\ \A f \in DOMAIN todo'[v] : todo'[v][f] \in Images
                             /\ captured'[v] = <<>>
      BY <3>1
    <3> QED BY <2>4, <2>5, <3>2, <3>3, <3>4 DEF WorkerKinds
  <2>7. StoreKinds'
    <3>1. CASE UNCHANGED store BY <3>1 DEF StoreKinds, store, IsRecord
    <3>2. ASSUME NEW i \in Listed, NEW left \in SUBSET blobs[i], NEW c \in {meta[i], None},
                 NEW old, i \notin old,
                 dirs' = dirs \ old,
                 blobs' = [k \in Ids |-> IF k \in old THEN {} ELSE IF k = i THEN left ELSE blobs[k]],
                 torn' = [k \in Ids |-> IF k \in old THEN {} ELSE torn[k]],
                 meta' = [k \in Ids |-> IF k \in old THEN None ELSE IF k = i THEN c ELSE meta[k]]
          PROVE  StoreKinds'
      <4>1. meta' \in [Ids -> Range(meta')] BY <3>2 DEF Range
      <4>2. \A k \in Ids : meta'[k] \in {None, meta[k]} BY <3>2
      <4>3. \A k \in Ids : meta'[k] \in {None, Torn} \/ IsRecord(meta'[k]) BY <4>2 DEF StoreKinds
      <4>4. /\ dirs' \subseteq Ids /\ torn' \in [Ids -> SUBSET Contents]
            /\ \A k \in Ids : meta'[k] # None \/ torn'[k] # {} => k \in dirs'
        BY <3>2 DEF StoreKinds
      <4>5. blobs' \in [Ids -> SUBSET Contents]
        <5>1. left \subseteq Contents BY <3>2 DEF StoreKinds, Listed
        <5> QED BY <3>2, <5>1 DEF StoreKinds
      <4> QED BY <4>1, <4>3, <4>4, <4>5 DEF StoreKinds
    <3>3. \A i \in Listed : i \notin {k \in Listed : k < i} BY <1>1 DEF Listed, Ids
    <3>4. \/ UNCHANGED store
          \/ \E i \in Listed : \E left \in SUBSET blobs[i], c \in {meta[i], None} :
               LET old == {k \in Listed : k < i}
               IN  /\ dirs' = dirs \ old
                   /\ blobs' = [k \in Ids |-> IF k \in old THEN {} ELSE IF k = i THEN left ELSE blobs[k]]
                   /\ torn' = [k \in Ids |-> IF k \in old THEN {} ELSE torn[k]]
                   /\ meta' = [k \in Ids |-> IF k \in old THEN None ELSE IF k = i THEN c ELSE meta[k]]
      BY <1>14 DEF Crash, store
    <3>5. ASSUME NEW i \in Listed, NEW left \in SUBSET blobs[i], NEW c \in {meta[i], None},
                 LET old == {k \in Listed : k < i}
                 IN  /\ dirs' = dirs \ old
                     /\ blobs' = [k \in Ids |-> IF k \in old THEN {} ELSE IF k = i THEN left ELSE blobs[k]]
                     /\ torn' = [k \in Ids |-> IF k \in old THEN {} ELSE torn[k]]
                     /\ meta' = [k \in Ids |-> IF k \in old THEN None ELSE IF k = i THEN c ELSE meta[k]]
          PROVE  StoreKinds'
      <4> DEFINE old == {k \in Listed : k < i}
      <4>1. i \notin old BY <3>3
      <4>2. /\ dirs' = dirs \ old
            /\ blobs' = [k \in Ids |-> IF k \in old THEN {} ELSE IF k = i THEN left ELSE blobs[k]]
            /\ torn' = [k \in Ids |-> IF k \in old THEN {} ELSE torn[k]]
            /\ meta' = [k \in Ids |-> IF k \in old THEN None ELSE IF k = i THEN c ELSE meta[k]]
        BY <3>5
      <4> HIDE DEF old
      <4> QED BY <3>2, <4>1, <4>2
    <3> QED BY <3>1, <3>4, <3>5
  <2> QED BY <2>2, <2>6, <2>7
<1>15. CASE UNCHANGED vars
  BY <1>15 DEF vars, store, local, FileKinds, StoreKinds, WorkerKinds, IsRecord
<1>16. ASSUME NEW w \in Workers, NEW f \in Files, StoreBegins(w, f) PROVE Typed'
  <2>1. FileKinds' BY <1>16 DEF StoreBegins, FileKinds
  <2>2. disk[f] \in Contents /\ Pending(w) \in 0 .. MaxId
    BY <1>1, <1>16 DEF StoreBegins, FileKinds, Images, Pending
  <2>3. torn' \in [Ids -> SUBSET Contents] /\ \A i \in Ids : torn'[i] # {} => i \in dirs
    BY <1>16, <2>2 DEF StoreBegins, StoreKinds
  <2>4. StoreKinds' BY <1>16, <2>3 DEF StoreBegins, StoreKinds, IsRecord
  <2>5. HandKind("storing", [id |-> Pending(w), file |-> f, content |-> disk[f]]) BY <2>2 DEF HandKind
  <2>6. HandsKind' BY <1>16, <2>5, TakesUp DEF StoreBegins, Steps
  <2>7. pc'[w] = "storing" /\ \A v \in Workers \ {w} : pc'[v] = pc[v] BY <1>16 DEF StoreBegins, WorkerKinds
  <2>8. WorkerKinds' BY <1>16, <2>6, <2>7 DEF StoreBegins, WorkerKinds, HandsKind, Holding
  <2> QED BY <2>1, <2>4, <2>8
<1>17. ASSUME NEW w \in Workers, StoreEnds(w) PROVE Typed'
  <2>1. FileKinds' BY <1>17 DEF StoreEnds, FileKinds
  <2>2. hand[w] \in [id : 0 .. MaxId, file : Files, content : Contents]
    BY <1>17 DEF StoreEnds, WorkerKinds, HandKind
  <2>3. hand[w].content \in Contents /\ hand[w].content \in Images /\ hand[w].file \in Files
    BY <2>2 DEF Images
  <2>4. /\ blobs' = [i \in Ids |-> IF i = hand[w].id THEN blobs[i] \cup {hand[w].content} ELSE blobs[i]]
        /\ torn' = [i \in Ids |-> IF i = hand[w].id THEN torn[i] \ {hand[w].content} ELSE torn[i]]
        /\ UNCHANGED <<dirs, meta>>
    BY <1>17 DEF StoreEnds
  <2>5. blobs' \in [Ids -> SUBSET Contents] /\ torn' \in [Ids -> SUBSET Contents]
    BY <2>3, <2>4 DEF StoreKinds
  <2>6. \A i \in Ids : torn'[i] # {} => torn[i] # {} BY <2>4
  <2>7. StoreKinds' BY <2>4, <2>5, <2>6 DEF StoreKinds, IsRecord
  <2>8. /\ captured' \in [Workers -> Seq([file : Files, content : Images])]
        /\ \A v \in Workers \ {w} : captured'[v] = captured[v]
    BY <1>17, <2>3, CaptureKinds DEF StoreEnds
  <2>9. HandKind("open", Nothing) BY DEF HandKind
  <2>10. HandsKind' BY <1>17, <2>9, TakesUp DEF StoreEnds, Steps
  <2>11. pc'[w] = "open" /\ \A v \in Workers \ {w} : pc'[v] = pc[v] BY <1>17 DEF StoreEnds, WorkerKinds
  <2>12. WorkerKinds' BY <1>17, <2>8, <2>10, <2>11 DEF StoreEnds, WorkerKinds, HandsKind, Holding
  <2> QED BY <2>1, <2>7, <2>12
<1>18. ASSUME NEW w \in Workers, Recorded(w) PROVE Typed'
  <2>1. FileKinds' BY <1>18 DEF Recorded, FileKinds
  <2>2. PICK c \in {hand[w].record, Torn} :
          /\ c = Torn => hand[w].id \in Listed
          /\ meta' = [i \in Ids |-> IF i = hand[w].id THEN c ELSE meta[i]]
    BY <1>18 DEF Recorded
  <2>3. IsRecord(hand[w].record) BY <1>18 DEF Recorded, WorkerKinds, HandKind
  <2>4. meta' \in [Ids -> Range(meta')] BY <2>2 DEF Range
  <2>5. \A i \in Ids : meta'[i] \in {None, Torn} \/ IsRecord(meta'[i]) BY <2>2, <2>3 DEF StoreKinds
  <2>6. hand[w].id \in dirs \cup {0} /\ 0 \notin Ids BY <1>1 DEF HandsIn, Ids
  <2>7. \A i \in Ids : meta'[i] # None => i \in dirs
    BY <2>2, <2>6, <1>18 DEF StoreKinds, Recorded
  <2>8. StoreKinds' BY <1>18, <2>4, <2>5, <2>7 DEF Recorded, StoreKinds
  <2>9. HandKind("recorded", Nothing) BY DEF HandKind
  <2>10. HandsKind' BY <1>18, <2>9, TakesUp DEF Recorded, Steps
  <2>11. <<>> \in Seq([file : Files, content : Images]) BY EmptySeq
  <2>12. /\ captured' = [captured EXCEPT ![w] = <<>>]
         /\ pc'[w] = "recorded" /\ \A v \in Workers \ {w} : pc'[v] = pc[v]
    BY <1>18 DEF Recorded, WorkerKinds
  <2>13. WorkerKinds'
    <3>1. todo' = todo /\ undoes' = undoes BY <1>18 DEF Recorded
    <3>2. captured' \in [Workers -> Seq([file : Files, content : Images])]
      BY <2>11, <2>12 DEF WorkerKinds
    <3>3. \A v \in Workers : ~Holding(pc'[v]) => captured'[v] = <<>>
      BY <2>12 DEF WorkerKinds
    <3> QED BY <2>10, <3>1, <3>2, <3>3 DEF WorkerKinds, HandsKind
  <2> QED BY <2>1, <2>8, <2>13
<1>19. ASSUME NEW w \in Workers, Closes(w) PROVE Typed'
  <2>1. FileKinds' /\ StoreKinds'
    BY <1>1, <1>19 DEF Closes, FileKinds, StoreKinds, store, IsRecord
  <2>2. WorkerKinds' BY <1>19, EndsKinds DEF Closes
  <2> QED BY <2>1, <2>2
<1> QED BY <1>2, <1>3, <1>4, <1>5, <1>6, <1>7, <1>8, <1>10, <1>11, <1>12, <1>13, <1>14, <1>15, <1>16,
           <1>17, <1>18, <1>19 DEF Next, Step

LEMMA NextKinds ==
  ASSUME Kinds, [Next]_vars
  PROVE  Kinds'
<1>1. JournalOf \in [Workers -> Journals] BY JournalAssumption DEF JournalAssumption
<1>2. ASSUME NEW gone, NEW v \in Workers
      PROVE  LetGo(gone)[v].id = 0 \/ LetGo(gone)[v].id \in dirs \ gone
  <2>1. LetGo(gone)[v] = IF hand[v].id \in gone THEN [hand[v] EXCEPT !.id = 0] ELSE hand[v] BY DEF LetGo
  <2>2. HandKind(pc[v], hand[v]) BY DEF Kinds, WorkerKinds
  <2>3. [hand[v] EXCEPT !.id = 0].id = 0 BY <2>2 DEF HandKind, Nothing
  <2> QED BY <2>1, <2>3 DEF Kinds, HandsIn
<1>3. ASSUME NEW w \in Workers, NEW gone, Ends(w, gone), dirs \ gone \subseteq dirs' PROVE HandsIn'
  <2>1. hand' = [LetGo(gone) EXCEPT ![w] = Nothing] BY <1>3 DEF Ends
  <2>2. \A v \in Workers : hand'[v] = IF v = w THEN Nothing ELSE LetGo(gone)[v] BY <2>1 DEF LetGo
  <2> QED BY <1>2, <1>3, <2>2 DEF HandsIn, Nothing
<1>4. ASSUME dirs \subseteq dirs',
             \A v \in Workers : hand'[v] = hand[v] \/ hand'[v] = Nothing \/ hand'[v].id \in dirs
      PROVE  HandsIn'
  BY <1>4 DEF Kinds, HandsIn, Nothing
<1>5. hand \in [Workers -> Range(hand)] BY DEF Kinds, WorkerKinds
<1>6. ASSUME NEW w \in Workers, Reserve(w) PROVE HandsIn'
  <2>1. CASE UNCHANGED <<store, hand>> BY <1>4, <2>1 DEF store
  <2>2. ASSUME NEW old, Dropped(old), hand' = LetGo(old) PROVE HandsIn'
    BY <1>2, <2>2 DEF Dropped, HandsIn
  <2> QED BY <1>6, <2>1, <2>2 DEF Reserve
<1>7. ASSUME NEW w \in Workers, CommitNothing(w) \/ Fail(w) PROVE HandsIn'
  <2>1. CASE Discard(w) /\ Ends(w, Gone(w)) BY <1>3, <2>1 DEF Discard, Dropped
  <2>2. CASE UNCHANGED <<store, pending>> /\ Ends(w, {}) BY <1>3, <2>2 DEF store
  <2> QED BY <1>7, <2>1, <2>2 DEF CommitNothing, Fail
<1>8. ASSUME NEW w \in Workers,
             \/ ReserveRaises(w) \/ MakeDirRaises(w) \/ CommitRaises(w) \/ RecordRaises(w) \/ Closes(w)
      PROVE  HandsIn'
  BY <1>3, <1>8 DEF ReserveRaises, MakeDirRaises, CommitRaises, RecordRaises, Closes, store
<1>9. ASSUME NEW w \in Workers, Commit(w) \/ Recorded(w) \/ StoreEnds(w) PROVE HandsIn'
  BY <1>4, <1>5, <1>9 DEF Commit, Recorded, StoreEnds
<1>10. ASSUME NEW w \in Workers, NEW f, StoreBegins(w, f) PROVE HandsIn'
  BY <1>4, <1>5, <1>10 DEF StoreBegins
<1>11. ASSUME hand' = hand, dirs \subseteq dirs' PROVE HandsIn' BY <1>4, <1>11
<1>12. ASSUME Crash PROVE HandsIn'
  <2>1. hand' = [v \in Workers |-> Nothing] BY <1>12 DEF Crash
  <2>2. Nothing.id = 0 BY DEF Nothing
  <2>3. \A v \in Workers : hand'[v].id = 0 BY <2>1, <2>2
  <2> QED BY <2>3 DEF HandsIn
<1>13. ASSUME NEW w \in Workers, NEW i,
              BeginUndo(w, i) \/ MakeDir(w) \/ Capture(w, i) \/ Write(w, i)
       PROVE  HandsIn'
  BY <1>11, <1>13 DEF BeginUndo, MakeDir, Capture, Write, store
<1>14. ASSUME NEW w \in Workers, NEW F, NEW c, BeginEdit(w, F, c) PROVE HandsIn'
  BY <1>11, <1>14 DEF BeginEdit, store
<1>15. ASSUME NEW f, NEW c, UserEdits(f, c) PROVE HandsIn'
  BY <1>11, <1>15 DEF UserEdits, store, local
<1>16. ASSUME UNCHANGED vars PROVE HandsIn'
  <2>1. hand' = hand /\ dirs' = dirs BY <1>16 DEF vars, store, local
  <2> QED BY <1>11, <2>1
<1>17. HandsIn'
  <2>1. ASSUME NEW w \in Workers, Step(w) PROVE HandsIn'
    BY <1>6, <1>7, <1>8, <1>9, <1>10, <1>13, <1>14, <2>1 DEF Step
  <2> QED BY <1>12, <1>15, <1>16, <2>1 DEF Next
<1> QED BY <1>17, NextTyped DEF Kinds, Typed

-----------------------------------------------------------------------------
(* While there is room.                                                    *)
LEMMA Counting ==
  ASSUME NEW n \in Nat
  PROVE  IsFiniteSet(1 .. n) /\ Cardinality(1 .. n) = n
BY FS_Interval

(* Retention has nothing to drop.                                          *)
LEMMA RoomLeft ==
  ASSUME Kinds, Roomy, dirs \subseteq 1 .. use.ids
  PROVE  ~(Size(dirs) > use.limit)
<1> DEFINE stored == {b \in dirs \X Contents : b[2] \in blobs[b[1]] \cup torn[b[1]]}
           all == (1 .. use.ids) \X Contents
<1>1. use.ids \in Nat /\ use.limit \in Nat
  BY JournalAssumption DEF Kinds, FileKinds, Use, JournalAssumption
<1>2. IsFiniteSet(1 .. use.ids) /\ Cardinality(1 .. use.ids) = use.ids BY <1>1, Counting
<1>3. IsFiniteSet(Contents) BY JournalAssumption DEF JournalAssumption
<1>4. IsFiniteSet(all) /\ Cardinality(all) = use.ids * Cardinality(Contents)
  BY <1>2, <1>3, FS_Product
<1>5. stored \subseteq all OBVIOUS
<1> HIDE DEF stored, all
<1>6. IsFiniteSet(stored) /\ Cardinality(stored) <= Cardinality(all) BY <1>4, <1>5, FS_Subset
<1>7. Cardinality(stored) \in Nat /\ Cardinality(all) \in Nat BY <1>4, <1>6, FS_CardinalityType
<1>8. Cardinality(all) <= use.limit BY <1>4 DEF Roomy
<1>9. Cardinality(stored) <= use.limit BY <1>1, <1>6, <1>7, <1>8
<1> QED BY <1>1, <1>7, <1>9 DEF Size, stored

LEMMA InitInHand == JournalAssumption /\ Init => InHand /\ PreImagesKept /\ InOrder
<1> SUFFICES ASSUME JournalAssumption, Init PROVE InHand /\ PreImagesKept /\ InOrder OBVIOUS
<1>1. \A w \in Workers : pc[w] = "idle" BY DEF Init
<1>2. Listed = {} BY DEF Init, Listed, None
<1>3. Clean BY DEF Init, Clean
<1>4. InHand BY <1>1, <1>3 DEF InHand, OneAtATime, Fit, Holding
<1>5. dirs = {} /\ Cardinality(dirs) = 0 BY FS_EmptySet DEF Init
<1>6. dirs = 1 .. 0 /\ use.ids \in Nat BY <1>5 DEF JournalAssumption, Init, Use
<1>7. InOrder BY <1>1, <1>5, <1>6 DEF InOrder, Owns
<1> QED BY <1>2, <1>4, <1>7 DEF PreImagesKept

(* Whatever an operation is at, no other is at anything.                   *)
LEMMA Alone ==
  ASSUME Kinds, InHand, InTurn, NEW w \in Workers, pc[w] # "idle" \/ MayBegin,
         NEW now \in Steps, pc' = [pc EXCEPT ![w] = now]
  PROVE  /\ OneAtATime' /\ \A v \in Workers : pc'[v] # "idle" => v = w
         /\ pc'[w] = now /\ \A v \in Workers \ {w} : pc[v] = "idle"
<1>1. \A v \in Workers \ {w} : pc[v] = "idle" BY DEF InHand, InTurn, OneAtATime, MayBegin, Quiet
<1>2. \A v \in Workers \ {w} : pc'[v] = "idle" BY <1>1 DEF Kinds, WorkerKinds
<1>3. pc'[w] = now BY DEF Kinds, WorkerKinds
<1> QED BY <1>1, <1>2, <1>3 DEF OneAtATime

LEMMA Numbers ==
  ASSUME Kinds
  PROVE  /\ use.limit \in Nat /\ use.ids \in 1 .. MaxId /\ use.files \subseteq Files /\ MaxId \in Nat
         /\ JournalOf \in [Workers -> Journals] /\ crashes \in Nat
         /\ Cardinality(dirs) \in Nat /\ \A w \in Workers : Pending(w) \in 0 .. MaxId
<1>1. /\ use.limit \in Nat /\ use.ids \in 1 .. MaxId /\ use.files \subseteq Files /\ MaxId \in Nat
      /\ JournalOf \in [Workers -> Journals] /\ crashes \in Nat
  BY JournalAssumption DEF Kinds, FileKinds, Use, JournalAssumption
<1>2. IsFiniteSet(dirs) BY <1>1, Counting, FS_Subset DEF Kinds, StoreKinds, Ids
<1>3. \A w \in Workers : Pending(w) \in 0 .. MaxId BY <1>1 DEF Pending, Kinds, FileKinds
<1> QED BY <1>1, <1>2, <1>3, FS_CardinalityType

LEMMA UseStays ==
  [Next]_vars => use' = use /\ (crashes' = crashes \/ crashes' = crashes + 1)
<1> DEFINE Same == use' = use /\ (crashes' = crashes \/ crashes' = crashes + 1)
<1> SUFFICES ASSUME [Next]_vars PROVE Same OBVIOUS
<1>1. ASSUME NEW w \in Workers, NEW F, NEW c, BeginEdit(w, F, c) PROVE Same BY <1>1 DEF BeginEdit
<1>2. ASSUME NEW w \in Workers, NEW i,
             BeginUndo(w, i) \/ Capture(w, i) \/ StoreBegins(w, i) \/ Write(w, i)
      PROVE  Same
  BY <1>2 DEF BeginUndo, Capture, StoreBegins, Write
<1>3. ASSUME NEW w \in Workers,
             Reserve(w) \/ ReserveRaises(w) \/ MakeDir(w) \/ MakeDirRaises(w) \/ StoreEnds(w)
      PROVE  Same
  BY <1>3 DEF Reserve, ReserveRaises, MakeDir, MakeDirRaises, StoreEnds
<1>4. ASSUME NEW w \in Workers,
             \/ CommitNothing(w) \/ Commit(w) \/ Recorded(w) \/ Closes(w) \/ CommitRaises(w)
             \/ RecordRaises(w) \/ Fail(w)
      PROVE  Same
  BY <1>4 DEF CommitNothing, Commit, Recorded, Closes, CommitRaises, RecordRaises, Fail
<1>5. ASSUME NEW f, NEW c, UserEdits(f, c) PROVE Same BY <1>5 DEF UserEdits
<1>6. CASE Crash BY <1>6 DEF Crash
<1>7. CASE UNCHANGED vars BY <1>7 DEF vars
<1> QED BY <1>1, <1>2, <1>3, <1>4, <1>5, <1>6, <1>7 DEF Next, Step

(* Nobody else has a number.                                               *)
LEMMA OthersFollow ==
  ASSUME use' = use, NEW w \in Workers, NEW m \in Nat,
         \A v \in Workers : pc'[v] # "idle" => v = w,
         dirs' = 1 .. m, m <= use.ids,
         Owns(w)' => OnTop(w)'
  PROVE  InOrder'
<1>1. Cardinality(dirs') = m BY Counting
<1>2. \A v \in Workers : Owns(v)' => v = w BY DEF Owns
<1> QED BY <1>1, <1>2 DEF InOrder

(* A step that leaves the directories and the numbers alone.               *)
LEMMA NumbersStay ==
  ASSUME InOrder, UNCHANGED <<dirs, meta, pending, use>>,
         \A v \in Workers : Owns(v)' => /\ Owns(v) /\ (pc[v] = "mkdir" <=> pc'[v] = "mkdir")
                                        /\ pc[v] = "recording" => pc'[v] = "recording"
  PROVE  InOrder'
<1>1. Spacious' = Spacious BY DEF Spacious, Roomy
<1>2. ASSUME NEW v \in Workers, Owns(v), OnTop(v), Owns(v)' PROVE OnTop(v)'
  <2>1. Pending(v)' = Pending(v) /\ Cardinality(dirs') = Cardinality(dirs) BY DEF Pending
  <2> QED BY <1>2, <2>1 DEF OnTop
<1> QED BY <1>1, <1>2 DEF InOrder

(* The number of an operation, while there is room.                        *)
LEMMA Numbered ==
  ASSUME Kinds, InHand, InOrder, Spacious, NEW w \in Workers, Holding(pc[w])
  PROVE  /\ Pending(w) \in dirs /\ Pending(w) \in Nat \ {0} /\ Pending(w) \in Ids
         /\ Pending(w) = Cardinality(dirs) /\ dirs = 1 .. Pending(w) /\ Pending(w) <= use.ids
         /\ Gone(w) = {Pending(w)} /\ Pending(w) \notin Listed
         /\ pc[w] # "recording" => meta[Pending(w)] = None
<1>1. InTurn /\ Fit(w) /\ Owns(w) BY DEF InHand, InTurn, Spacious, Holding, Owns
<1>2. Pending(w) \in dirs BY <1>1 DEF Fit, Covered
<1>3. dirs = 1 .. Cardinality(dirs) /\ OnTop(w) BY <1>1 DEF InOrder
<1>4. Pending(w) \in Ids /\ Pending(w) \in Nat \ {0}
  BY <1>2, Numbers DEF Kinds, StoreKinds, Ids
<1>5. Pending(w) = Cardinality(dirs) /\ Pending(w) <= use.ids
  BY <1>3 DEF OnTop, Holding
<1>6. pc[w] # "recording" => meta[Pending(w)] = None BY <1>3 DEF OnTop
<1>7. pc[w] = "recording" => meta[Pending(w)] = Torn BY <1>1 DEF Fit, Recording
<1>8. Pending(w) \notin Listed BY <1>6, <1>7 DEF Listed, None, Torn
<1>9. Gone(w) = {Pending(w)} BY <1>4 DEF Gone
<1> QED BY <1>2, <1>3, <1>4, <1>5, <1>6, <1>8, <1>9

(* The number that is pending goes with its directory.                     *)
LEMMA NumberGoes ==
  ASSUME Kinds, InHand, InOrder, Spacious, NEW w \in Workers, pc[w] \in {"open", "storing"},
         Discard(w), use' = use
  PROVE  /\ \E m \in Nat : dirs' = 1 .. m /\ m <= use.ids
         /\ meta' = meta
<1>1. /\ Pending(w) \in Nat \ {0} /\ dirs = 1 .. Pending(w) /\ Pending(w) <= use.ids
      /\ Gone(w) = {Pending(w)} /\ meta[Pending(w)] = None
  BY Numbered DEF Holding
<1>2. dirs' = dirs \ {Pending(w)} BY <1>1 DEF Discard, Dropped
<1>3. Pending(w) - 1 \in Nat /\ dirs' = 1 .. Pending(w) - 1 BY <1>1, <1>2
<1>4. Pending(w) - 1 <= use.ids BY <1>1, Numbers
<1>5. meta' = meta BY <1>1 DEF Discard, Dropped, Kinds, StoreKinds
<1> QED BY <1>3, <1>4, <1>5

(* The numbers stay in order, and no record is replaced.                   *)
LEMMA NextInOrder ==
  ASSUME Kinds, InHand, InOrder, [Next]_vars
  PROVE  InOrder' /\ (Spacious => \A i \in Listed : meta'[i] = meta[i])
<1>1. use' = use BY UseStays
<1>2. CASE ~Spacious BY <1>1, <1>2 DEF InOrder, Spacious, Roomy
<1>3. CASE Spacious
  <2> DEFINE n == Cardinality(dirs)
             Same == \A i \in Listed : meta'[i] = meta[i]
  <2> USE <1>1, <1>3
  <2>1. dirs = 1 .. n /\ n <= use.ids /\ (\A w \in Workers : Owns(w) => OnTop(w)) BY DEF InOrder
  <2>2. /\ use.ids \in 1 .. MaxId /\ MaxId \in Nat /\ JournalOf \in [Workers -> Journals] /\ n \in Nat
        /\ \A w \in Workers : Pending(w) \in 0 .. MaxId
    BY Numbers
  <2>3. InTurn BY DEF InTurn, Spacious
  <2>4. pc \in [Workers -> Steps] BY DEF Kinds, WorkerKinds
  <2>5. /\ pending \in [Journals -> 0 .. MaxId] /\ meta \in [Ids -> Range(meta)]
        /\ \A i \in Ids : meta[i] # None => i \in dirs
    BY DEF Kinds, FileKinds, StoreKinds
  <2>6. ASSUME NEW w \in Workers, NEW now \in Steps, pc[w] # "idle", pc' = [pc EXCEPT ![w] = now]
        PROVE  (\A v \in Workers : pc'[v] # "idle" => v = w) /\ pc'[w] = now
    BY <2>3, <2>6, Alone
  <2>7. ASSUME NEW w \in Workers, NEW now \in Steps, pc' = [pc EXCEPT ![w] = now],
               UNCHANGED <<dirs, meta, pending>>,
               \/ now \in {"idle", "reserve"}
               \/ now = pc[w]
               \/ pc[w] \in {"open", "storing"} /\ now \in {"open", "storing"}
        PROVE  InOrder' /\ Same
    <3>1. \A v \in Workers : pc'[v] = IF v = w THEN now ELSE pc[v] BY <2>4, <2>7
    <3>2. \A v \in Workers : Owns(v)' => /\ Owns(v) /\ (pc[v] = "mkdir" <=> pc'[v] = "mkdir")
                                         /\ pc[v] = "recording" => pc'[v] = "recording"
      BY <2>7, <3>1 DEF Owns
    <3> QED BY <2>7, <3>2, NumbersStay
  <2>8. ASSUME NEW w \in Workers, NEW gone, Ends(w, gone) PROVE pc' = [pc EXCEPT ![w] = "idle"] /\ "idle" \in Steps
    BY <2>8 DEF Ends, Steps
  <2>9. ASSUME NEW w \in Workers, NEW F, NEW c, BeginEdit(w, F, c) PROVE InOrder' /\ Same
    BY <2>7, <2>9 DEF BeginEdit, store, Steps
  <2>10. ASSUME NEW w \in Workers, NEW i, BeginUndo(w, i) PROVE InOrder' /\ Same
    BY <2>7, <2>10 DEF BeginUndo, store, Steps
  <2>11. ASSUME NEW w \in Workers, Reserve(w) PROVE InOrder' /\ Same
    <3>1. UNCHANGED store
      <4>1. dirs \subseteq 1 .. use.ids BY <2>1, <2>2
      <4> QED BY <2>11, <4>1, RoomLeft DEF Reserve, Spacious
    <3>2. /\ pending' = [pending EXCEPT ![JournalOf[w]] = n + 1] /\ n < use.ids
          /\ pc' = [pc EXCEPT ![w] = "mkdir"] /\ pc[w] = "reserve"
      BY <2>11, <3>1 DEF Reserve, store, NextId
    <3>3. Pending(w)' = n + 1 BY <2>2, <2>5, <3>2 DEF Pending
    <3>4. n + 1 \in Ids /\ n + 1 \notin dirs BY <2>1, <2>2, <3>2 DEF Ids
    <3>5. dirs' = dirs /\ meta' = meta /\ Cardinality(dirs') = n BY <3>1 DEF store
    <3>6. pc'[w] = "mkdir" BY <2>4, <3>2
    <3>7. OnTop(w)' BY <2>2, <2>5, <3>2, <3>3, <3>4, <3>5, <3>6 DEF OnTop
    <3>8. \A v \in Workers : pc'[v] # "idle" => v = w BY <2>6, <3>2 DEF Steps
    <3>9. InOrder' BY <2>1, <2>2, <3>5, <3>7, <3>8, OthersFollow
    <3> QED BY <3>5, <3>9
  <2>12. ASSUME NEW w \in Workers, ReserveRaises(w) \/ MakeDirRaises(w) \/ CommitRaises(w) \/ RecordRaises(w)
         PROVE  InOrder' /\ Same
    <3>1. Ends(w, {}) /\ UNCHANGED <<store, pending>>
      BY <2>12 DEF ReserveRaises, MakeDirRaises, CommitRaises, RecordRaises
    <3> QED BY <2>7, <2>8, <3>1 DEF store
  <2>13. ASSUME NEW w \in Workers, MakeDir(w) PROVE InOrder' /\ Same
    <3>1. /\ pc[w] = "mkdir" /\ dirs' = dirs \cup {Pending(w)}
          /\ pc' = [pc EXCEPT ![w] = "open"] /\ UNCHANGED <<meta, pending>>
      BY <2>13 DEF MakeDir
    <3>2. OnTop(w) BY <2>1, <3>1 DEF Owns
    <3>3. Pending(w)' = Pending(w) /\ pc'[w] = "open" BY <2>4, <3>1 DEF Pending, Steps
    <3>4. Pending(w) = n + 1 /\ n + 1 <= use.ids /\ meta[Pending(w)] = None BY <3>1, <3>2 DEF OnTop
    <3>5. dirs' = 1 .. n + 1 /\ n + 1 \in Nat BY <2>1, <2>2, <3>1, <3>4
    <3>6. Cardinality(dirs') = n + 1 BY <3>5, Counting
    <3>7. OnTop(w)' BY <3>1, <3>3, <3>4, <3>6 DEF OnTop
    <3>8. \A v \in Workers : pc'[v] # "idle" => v = w BY <2>6, <3>1 DEF Steps
    <3>9. InOrder' BY <3>4, <3>5, <3>7, <3>8, OthersFollow
    <3> QED BY <3>1, <3>9
  <2>14. ASSUME NEW w \in Workers, NEW f, Capture(w, f) \/ Write(w, f) PROVE InOrder' /\ Same
    <3>1. UNCHANGED <<dirs, meta, pending, pc>> BY <2>14 DEF Capture, Write, store
    <3>2. pc[w] \in Steps /\ pc' = [pc EXCEPT ![w] = pc[w]] BY <2>4, <3>1
    <3> QED BY <2>7, <3>1, <3>2
  <2>15. ASSUME NEW w \in Workers, NEW f, StoreBegins(w, f) PROVE InOrder' /\ Same
    BY <2>7, <2>15 DEF StoreBegins, Steps
  <2>16. ASSUME NEW w \in Workers, StoreEnds(w) PROVE InOrder' /\ Same
    BY <2>7, <2>16 DEF StoreEnds, Steps
  <2>17. ASSUME NEW w \in Workers, pc[w] \in {"open", "storing"}, Discard(w), NEW gone, Ends(w, gone)
         PROVE  InOrder' /\ Same
    <3>1. PICK m \in Nat : dirs' = 1 .. m /\ m <= use.ids BY <2>17, NumberGoes
    <3>2. meta' = meta BY <2>17, NumberGoes
    <3>3. (\A v \in Workers : pc'[v] # "idle" => v = w) /\ pc'[w] = "idle" BY <2>6, <2>8, <2>17
    <3> QED BY <3>1, <3>2, <3>3, OthersFollow DEF Owns
  <2>18. ASSUME NEW w \in Workers, CommitNothing(w) PROVE InOrder' /\ Same
    BY <2>17, <2>18 DEF CommitNothing, Finished
  <2>19. ASSUME NEW w \in Workers, Fail(w) PROVE InOrder' /\ Same
    <3>1. CASE Discard(w) /\ Ends(w, Gone(w)) BY <2>17, <2>19, <3>1 DEF Fail
    <3>2. CASE UNCHANGED <<store, pending>> /\ Ends(w, {}) BY <2>7, <2>8, <3>2 DEF store
    <3> QED BY <2>19, <3>1, <3>2 DEF Fail
  <2>20. ASSUME NEW w \in Workers, Commit(w) PROVE InOrder' /\ Same
    <3>1. /\ pc[w] = "open" /\ dirs' = dirs /\ pending' = pending
          /\ meta' = [meta EXCEPT ![Pending(w)] = Torn] /\ pc' = [pc EXCEPT ![w] = "recording"]
      BY <2>20 DEF Commit, Finished
    <3>2. /\ Pending(w) = n /\ n <= use.ids /\ Pending(w) \notin Listed
      BY <3>1, Numbered DEF Holding
    <3>3. Pending(w)' = Pending(w) /\ pc'[w] = "recording" BY <2>4, <3>1 DEF Pending, Steps
    <3>4. OnTop(w)' BY <3>1, <3>2, <3>3 DEF OnTop
    <3>5. \A v \in Workers : pc'[v] # "idle" => v = w BY <2>6, <3>1 DEF Steps
    <3>6. InOrder' BY <2>1, <2>2, <3>1, <3>4, <3>5, OthersFollow
    <3>7. Same BY <2>5, <3>1, <3>2 DEF Listed
    <3> QED BY <3>6, <3>7
  <2>21. ASSUME NEW w \in Workers, Recorded(w) PROVE InOrder' /\ Same
    <3>1. /\ pc[w] = "recording" /\ dirs' = dirs /\ pc' = [pc EXCEPT ![w] = "recorded"]
          /\ \A i \in Ids \ {hand[w].id} : meta'[i] = meta[i]
      BY <2>21 DEF Recorded
    <3>2. hand[w].id = Pending(w) /\ Pending(w) \notin Listed
      <4>1. Fit(w) BY <2>3 DEF InHand
      <4> QED BY <3>1, <4>1, Numbered DEF Fit, Recording, Holding
    <3>3. (\A v \in Workers : pc'[v] # "idle" => v = w) /\ pc'[w] = "recorded" BY <2>6, <3>1 DEF Steps
    <3>4. InOrder' BY <2>1, <2>2, <3>1, <3>3, OthersFollow DEF Owns
    <3>5. Same BY <3>1, <3>2 DEF Listed
    <3> QED BY <3>4, <3>5
  <2>22. ASSUME NEW w \in Workers, Closes(w) PROVE InOrder' /\ Same
    <3>1. pc[w] = "recorded" /\ UNCHANGED <<dirs, meta>> /\ Ends(w, {}) BY <2>22 DEF Closes, store
    <3>2. (\A v \in Workers : pc'[v] # "idle" => v = w) /\ pc'[w] = "idle" BY <2>6, <2>8, <3>1
    <3>3. InOrder' BY <2>1, <2>2, <3>1, <3>2, OthersFollow DEF Owns
    <3> QED BY <3>1, <3>3
  <2>23. ASSUME NEW f, NEW c, UserEdits(f, c) PROVE InOrder' /\ Same
    BY <2>23, NumbersStay DEF UserEdits, store, local, Owns
  <2>24. CASE Crash
    <3>1. UNCHANGED <<dirs, meta>>
      <4>1. dirs \subseteq 1 .. use.ids BY <2>1, <2>2
      <4>2. ~(Size(dirs) > use.limit) BY <4>1, RoomLeft DEF Spacious
      <4> QED BY <2>24, <4>2 DEF Crash, store
    <3>2. \A w \in Workers : ~Owns(w)' BY <2>24 DEF Crash, Owns
    <3>3. InOrder' BY <2>1, <3>1, <3>2 DEF InOrder
    <3> QED BY <3>1, <3>3
  <2>25. CASE UNCHANGED vars
    BY <2>25, NumbersStay DEF vars, store, local, Owns
  <2> QED BY <2>9, <2>10, <2>11, <2>12, <2>13, <2>14, <2>15, <2>16, <2>18, <2>19, <2>20, <2>21, <2>22,
             <2>23, <2>24, <2>25 DEF Next, Step
<1> QED BY <1>2, <1>3

-----------------------------------------------------------------------------
(* Operations that do not overlap.  No more is on record than was, and     *)
(* what was is still there.                                                *)
LEMMA StaysKept ==
  ASSUME PreImagesKept, InTurn' => InTurn,
         \A i \in Ids : meta'[i].kind = "checkpoint" => meta'[i] = meta[i] /\ blobs[i] \subseteq blobs'[i],
         \A i \in dirs : i \in dirs' \/ meta'[i].kind # "checkpoint"
  PROVE  PreImagesKept'
BY DEF PreImagesKept, Listed

LEMMA NextInTurn == Kinds /\ [Next]_vars /\ InTurn' => InTurn
<1> SUFFICES ASSUME Kinds, [Next]_vars, InTurn' PROVE InTurn OBVIOUS
<1>1. crashes \in Nat /\ use' = use BY UseStays DEF Kinds, FileKinds
<1>2. crashes' = crashes \/ crashes' = crashes + 1 BY UseStays
<1> QED BY <1>1, <1>2 DEF InTurn, Roomy

LEMMA NextInHand ==
  ASSUME Kinds, InHand, InOrder, PreImagesKept, [Next]_vars
  PROVE  InHand' /\ PreImagesKept'
<1>1. /\ use.ids \in 1 .. MaxId /\ MaxId \in Nat /\ JournalOf \in [Workers -> Journals] /\ crashes \in Nat
      /\ Cardinality(dirs) \in Nat
  BY Numbers
<1>2. InTurn' => InTurn BY NextInTurn
<1>3. CASE ~InTurn BY <1>2, <1>3 DEF InHand, PreImagesKept
<1>4. CASE InTurn
  <2>1. OneAtATime /\ (\A w \in Workers : Fit(w)) /\ (crashes = 0 => Clean) BY <1>4 DEF InHand
  <2>2. pc \in [Workers -> Steps] BY DEF Kinds, WorkerKinds
  <2> USE <1>2, <1>4
  <2>3. ASSUME NEW w \in Workers, OneAtATime', \A v \in Workers : pc'[v] # "idle" => v = w,
               Fit(w)', crashes' = 0 => Clean'
        PROVE  InHand'
    <3>1. \A v \in Workers : pc'[v] = "idle" => Fit(v)' BY DEF Fit, Holding
    <3> QED BY <2>3, <3>1 DEF InHand
  <2>4. ASSUME \A v \in Workers : pc[v] # "storing", crashes' = crashes,
               \A i \in Ids : torn'[i] \subseteq torn[i]
        PROVE  crashes' = 0 => Clean'
    BY <2>1, <2>4 DEF Clean
  <2>5. ASSUME NEW ids, Dropped(ids) PROVE PreImagesKept'
    <3>1. \A i \in Ids : meta'[i] = IF i \in ids THEN None ELSE meta[i] BY <2>5 DEF Dropped
    <3>2. \A i \in Ids : blobs'[i] = IF i \in ids THEN {} ELSE blobs[i] BY <2>5 DEF Dropped
    <3>3. \A i \in Ids : meta'[i].kind = "checkpoint" => i \notin ids BY <3>1 DEF None
    <3>4. \A i \in dirs : i \in dirs' \/ meta'[i].kind # "checkpoint"
      BY <2>5, <3>1 DEF Dropped, Kinds, StoreKinds, None
    <3> QED BY <3>1, <3>2, <3>3, <3>4, StaysKept
  <2>6. UNCHANGED store => PreImagesKept' BY DEF store, PreImagesKept, Listed
  <2>7. ASSUME NEW w \in Workers, pc[w] \notin {"storing"}, pc[w] # "idle" \/ MayBegin
        PROVE  \A v \in Workers : pc[v] # "storing"
    BY <2>1, <2>7 DEF OneAtATime, MayBegin, Quiet, InTurn
  <2>8. ASSUME NEW w \in Workers, NEW now \in {"idle", "reserve", "mkdir", "recorded"},
               pc' = [pc EXCEPT ![w] = now], pc[w] # "idle" \/ MayBegin, pc[w] # "storing",
               crashes' = crashes \/ crashes' = crashes + 1, \A i \in Ids : torn'[i] \subseteq torn[i]
        PROVE  InHand'
    <3>1. now \in Steps BY DEF Steps
    <3>2. OneAtATime' /\ (\A v \in Workers : pc'[v] # "idle" => v = w) /\ pc'[w] = now BY <2>8, <3>1, Alone
    <3>3. Fit(w)' BY <3>2 DEF Fit, Holding
    <3>4. crashes' = 0 => Clean'
      <4>1. crashes' = 0 => crashes' = crashes BY <1>1, <2>8
      <4> QED BY <2>4, <2>7, <2>8, <4>1
    <3> QED BY <2>3, <3>2, <3>3, <3>4
  <2>9. ASSUME NEW w \in Workers, NEW F, NEW c, BeginEdit(w, F, c) PROVE InHand' /\ PreImagesKept'
    BY <2>6, <2>8, <2>9 DEF BeginEdit, store
  <2>10. ASSUME NEW w \in Workers, NEW i, BeginUndo(w, i) PROVE InHand' /\ PreImagesKept'
    BY <2>6, <2>8, <2>10 DEF BeginUndo, store
  <2>11. ASSUME NEW w \in Workers, Reserve(w) PROVE InHand' /\ PreImagesKept'
    <3>1. PreImagesKept' BY <2>5, <2>6, <2>11 DEF Reserve
    <3>2. \A i \in Ids : torn'[i] \subseteq torn[i] BY <2>11 DEF Reserve, store, Dropped
    <3> QED BY <2>8, <2>11, <3>1, <3>2 DEF Reserve
  <2>12. ASSUME NEW w \in Workers, NEW gone, Ends(w, gone) PROVE pc' = [pc EXCEPT ![w] = "idle"]
    BY <2>12 DEF Ends
  <2>13. ASSUME NEW w \in Workers,
                \/ ReserveRaises(w) \/ MakeDirRaises(w) \/ CommitRaises(w) \/ RecordRaises(w) \/ Closes(w)
         PROVE  InHand' /\ PreImagesKept'
    <3>1. /\ Ends(w, {}) /\ UNCHANGED store /\ (crashes' = crashes \/ crashes' = crashes + 1)
          /\ pc[w] \notin {"idle", "storing"}
      BY <2>13 DEF ReserveRaises, MakeDirRaises, CommitRaises, RecordRaises, Closes, Finished
    <3> QED BY <2>6, <2>8, <2>12, <3>1 DEF store
  <2>14. ASSUME NEW w \in Workers, MakeDir(w) PROVE InHand' /\ PreImagesKept'
    <3>1. /\ pc[w] = "mkdir" /\ pc' = [pc EXCEPT ![w] = "open"] /\ Pending(w) \in dirs'
          /\ UNCHANGED <<blobs, torn, meta, pending, captured, crashes>> /\ dirs \subseteq dirs'
      BY <2>14 DEF MakeDir
    <3>2. OneAtATime' /\ (\A v \in Workers : pc'[v] # "idle" => v = w) /\ pc'[w] = "open"
      BY <3>1, Alone DEF Steps
    <3>3. captured'[w] = <<>> /\ Pending(w)' = Pending(w)
      BY <3>1 DEF Kinds, WorkerKinds, Holding, Pending
    <3>4. Covered(w)' BY <3>1, <3>3 DEF Covered
    <3>5. \A v \in Workers : pc[v] # "storing" BY <2>7, <3>1
    <3>6. torn[Pending(w)] = {}
      <4>1. Pending(w) \in Ids BY <2>14, Numbers DEF MakeDir, Ids
      <4>2. CASE crashes = 0 BY <2>1, <3>5, <4>1, <4>2 DEF Clean
      <4>3. CASE Roomy
        <5>1. Owns(w) /\ Spacious BY <3>1, <4>3 DEF Owns, Spacious, InTurn
        <5>2. Pending(w) = Cardinality(dirs) + 1 /\ dirs = 1 .. Cardinality(dirs)
          BY <3>1, <5>1 DEF InOrder, OnTop
        <5>3. Pending(w) \notin dirs BY <1>1, <5>2
        <5> QED BY <4>1, <5>3 DEF Kinds, StoreKinds
      <4> QED BY <4>2, <4>3 DEF InTurn
    <3>7. Fit(w)' BY <3>1, <3>2, <3>3, <3>4, <3>6 DEF Fit
    <3>8. crashes' = 0 => Clean' BY <2>4, <3>1, <3>5
    <3>9. PreImagesKept' BY <3>1, StaysKept
    <3> QED BY <2>3, <3>2, <3>7, <3>8, <3>9
  <2>15. ASSUME NEW w \in Workers, NEW f \in Files, NEW c \in Images, Takes(w, f, c), Covered(w),
                Pending(w)' = Pending(w), disk[f] = c, c # Absent => c \in blobs'[Pending(w)],
                UNCHANGED <<disk, dirs, todo>>, blobs[Pending(w)] \subseteq blobs'[Pending(w)]
         PROVE  Covered(w)'
    <3>1. /\ Len(captured[w]) \in Nat /\ DOMAIN captured[w] = 1 .. Len(captured[w])
          /\ DOMAIN captured'[w] = 1 .. Len(captured[w]) + 1
          /\ \A k \in DOMAIN captured[w] : captured'[w][k] = captured[w][k]
          /\ captured'[w][Len(captured[w]) + 1] = [file |-> f, content |-> c]
      BY <2>15, CaptureKinds
    <3>2. ASSUME NEW k \in DOMAIN captured'[w]
          PROVE  LET e == captured'[w][k]
                 IN  /\ e.content # Absent => e.content \in blobs'[Pending(w)]
                     /\ e.file \in DOMAIN todo[w] => disk[e.file] = e.content
      <4>1. CASE k \in DOMAIN captured[w] BY <2>15, <3>1, <4>1 DEF Covered
      <4>2. CASE k = Len(captured[w]) + 1 BY <2>15, <3>1, <4>2
      <4>3. k \in DOMAIN captured[w] \/ k = Len(captured[w]) + 1 BY <3>1
      <4> QED BY <4>1, <4>2, <4>3
    <3> QED BY <2>15, <3>2 DEF Covered
  <2>16. ASSUME NEW w \in Workers, NEW f \in Files, Capture(w, f) PROVE InHand' /\ PreImagesKept'
    <3>1. /\ pc[w] = "open" /\ UNCHANGED <<disk, dirs, blobs, torn, meta, pending, pc, todo, crashes>>
          /\ Takes(w, f, disk[f]) /\ (disk[f] = Absent \/ Named(Pending(w), disk[f]))
      BY <2>16 DEF Capture, store
    <3>2. Covered(w) /\ torn[Pending(w)] = {} BY <2>1, <3>1 DEF Fit, Holding
    <3>3. disk[f] # Absent => disk[f] \in blobs[Pending(w)] BY <3>1, <3>2 DEF Named
    <3>4. disk[f] \in Images /\ Pending(w)' = Pending(w) BY <3>1 DEF Kinds, FileKinds, Pending
    <3>5. Covered(w)' BY <2>15, <3>1, <3>2, <3>3, <3>4
    <3>6. Fit(w)' BY <3>1, <3>2, <3>4, <3>5 DEF Fit
    <3>7. OneAtATime' /\ \A v \in Workers : pc'[v] # "idle" => v = w BY <2>1, <3>1 DEF OneAtATime
    <3>8. crashes' = 0 => Clean' BY <2>4, <2>7, <3>1
    <3>9. PreImagesKept' BY <2>6, <3>1 DEF store
    <3> QED BY <2>3, <3>6, <3>7, <3>8, <3>9
  <2>17. ASSUME NEW w \in Workers, NEW f \in Files, StoreBegins(w, f) PROVE InHand' /\ PreImagesKept'
    <3>1. /\ pc[w] = "open" /\ pc' = [pc EXCEPT ![w] = "storing"]
          /\ UNCHANGED <<disk, dirs, blobs, meta, pending, todo, captured, crashes>>
          /\ torn' = [torn EXCEPT ![Pending(w)] = torn[Pending(w)] \cup {disk[f]}] /\ Pending(w) \in dirs
          /\ hand' = [hand EXCEPT ![w] = [id |-> Pending(w), file |-> f, content |-> disk[f]]]
          /\ f \in DOMAIN todo[w] \ CapturedFiles(w)
      BY <2>17 DEF StoreBegins
    <3>2. OneAtATime' /\ (\A v \in Workers : pc'[v] # "idle" => v = w) /\ pc'[w] = "storing"
      BY <3>1, Alone DEF Steps
    <3>3. Covered(w) /\ torn[Pending(w)] = {} /\ Pending(w)' = Pending(w)
      BY <2>1, <3>1 DEF Fit, Holding, Pending
    <3>4. Covered(w)' BY <3>1, <3>3 DEF Covered
    <3>5. Pending(w) \in Ids /\ \A i \in Ids : torn'[i] = IF i = Pending(w) THEN {disk[f]} ELSE torn[i]
      BY <3>1, <3>3 DEF Kinds, StoreKinds
    <3>6. hand'[w] = [id |-> Pending(w), file |-> f, content |-> disk[f]] BY <3>1 DEF Kinds, WorkerKinds
    <3>7. CapturedFiles(w)' = CapturedFiles(w) BY <3>1 DEF CapturedFiles
    <3>8. Storing(w)' BY <3>1, <3>3, <3>5, <3>6, <3>7 DEF Storing
    <3>9. Fit(w)' BY <3>2, <3>4, <3>8 DEF Fit
    <3>10. \A v \in Workers : pc[v] # "storing" BY <2>7, <3>1
    <3>11. crashes' = 0 => Clean' BY <2>1, <3>1, <3>2, <3>3, <3>5, <3>10 DEF Clean
    <3>12. PreImagesKept' BY <3>1, StaysKept
    <3> QED BY <2>3, <3>2, <3>9, <3>11, <3>12
  <2>18. ASSUME NEW w \in Workers, StoreEnds(w) PROVE InHand' /\ PreImagesKept'
    <3> DEFINE f == hand[w].file
               c == hand[w].content
    <3>1. /\ pc[w] = "storing" /\ pc' = [pc EXCEPT ![w] = "open"]
          /\ UNCHANGED <<disk, dirs, meta, pending, todo, crashes>> /\ Takes(w, f, c)
          /\ blobs' = [i \in Ids |-> IF i = hand[w].id THEN blobs[i] \cup {c} ELSE blobs[i]]
          /\ torn' = [i \in Ids |-> IF i = hand[w].id THEN torn[i] \ {c} ELSE torn[i]]
      BY <2>18 DEF StoreEnds
    <3>2. OneAtATime' /\ (\A v \in Workers : pc'[v] # "idle" => v = w) /\ pc'[w] = "open"
      BY <3>1, Alone DEF Steps
    <3>3. Covered(w) /\ Storing(w) /\ Pending(w)' = Pending(w) BY <2>1, <3>1 DEF Fit, Holding, Pending
    <3>4. hand[w].id = Pending(w) /\ torn[Pending(w)] \subseteq {c} /\ disk[f] = c BY <3>3 DEF Storing
    <3>5. f \in Files /\ c \in Images /\ Pending(w) \in Ids
      BY <3>1, <3>3 DEF Kinds, WorkerKinds, HandKind, Images, Covered, StoreKinds
    <3> HIDE DEF f, c
    <3>6. /\ \A i \in Ids : torn'[i] = IF i = Pending(w) THEN {} ELSE torn[i]
          /\ \A i \in Ids : blobs[i] \subseteq blobs'[i]
          /\ c \in blobs'[Pending(w)]
      BY <3>1, <3>4, <3>5
    <3>7. Covered(w)' BY <2>15, <3>1, <3>3, <3>4, <3>5, <3>6
    <3>8. Fit(w)' BY <3>2, <3>3, <3>5, <3>6, <3>7 DEF Fit
    <3>9. \A v \in Workers : pc[v] = "storing" => v = w BY <2>1, <3>1 DEF OneAtATime
    <3>10. crashes' = 0 => Clean'
      <4> SUFFICES ASSUME crashes' = 0, NEW i \in Ids, torn'[i] # {} PROVE FALSE BY DEF Clean
      <4>1. i # Pending(w) /\ torn[i] # {} BY <3>6
      <4>2. PICK v \in Workers : pc[v] = "storing" /\ i = Pending(v) BY <2>1, <3>1, <4>1 DEF Clean
      <4> QED BY <3>9, <4>1, <4>2
    <3>11. PreImagesKept' BY <3>1, <3>6, StaysKept
    <3> QED BY <2>3, <3>2, <3>8, <3>10, <3>11
  <2>19. ASSUME NEW w \in Workers, NEW f \in Files, Write(w, f) PROVE InHand' /\ PreImagesKept'
    <3>1. /\ pc[w] = "open" /\ UNCHANGED <<dirs, blobs, torn, meta, pending, captured, pc, crashes>>
          /\ \A g \in Files \ {f} : disk'[g] = disk[g]
      BY <2>19 DEF Write, store, Kinds, FileKinds
    <3>2. OneAtATime' /\ \A v \in Workers : pc'[v] # "idle" => v = w BY <2>1, <3>1 DEF OneAtATime
    <3>3. DOMAIN todo'[w] = DOMAIN todo[w] \ {f} /\ DOMAIN todo[w] \subseteq Files
      BY <2>19 DEF Write, Kinds, WorkerKinds
    <3>4. Covered(w) /\ torn[Pending(w)] = {} /\ Pending(w)' = Pending(w)
      BY <2>1, <3>1 DEF Fit, Holding, Pending
    <3>5. Covered(w)' BY <3>1, <3>3, <3>4 DEF Covered
    <3>6. Fit(w)' BY <3>1, <3>4, <3>5 DEF Fit
    <3>7. crashes' = 0 => Clean' BY <2>4, <2>7, <3>1
    <3>8. PreImagesKept' BY <2>6, <3>1 DEF store
    <3> QED BY <2>3, <3>2, <3>6, <3>7, <3>8
  <2>20. ASSUME NEW w \in Workers, CommitNothing(w) PROVE InHand' /\ PreImagesKept'
    <3>1. PreImagesKept' BY <2>5, <2>20 DEF CommitNothing, Discard
    <3>2. \A i \in Ids : torn'[i] \subseteq torn[i] BY <2>20 DEF CommitNothing, Discard, Dropped
    <3> QED BY <2>8, <2>12, <2>20, <3>1, <3>2 DEF CommitNothing, Finished
  <2>21. ASSUME NEW w \in Workers, Commit(w) PROVE InHand' /\ PreImagesKept'
    <3>1. /\ pc[w] = "open" /\ pc' = [pc EXCEPT ![w] = "recording"]
          /\ UNCHANGED <<disk, dirs, blobs, torn, pending, todo, undoes, captured, crashes>>
          /\ meta' = [meta EXCEPT ![Pending(w)] = Torn] /\ Pending(w) \in dirs
          /\ hand' = [hand EXCEPT ![w] = [id |-> Pending(w), record |-> Record(w)]]
          /\ DOMAIN todo[w] = {}
      BY <2>21 DEF Commit, Finished
    <3>2. OneAtATime' /\ (\A v \in Workers : pc'[v] # "idle" => v = w) /\ pc'[w] = "recording"
      BY <3>1, Alone DEF Steps
    <3>3. Covered(w)' BY <2>1, <3>1 DEF Fit, Holding, Covered, Pending
    <3>4. Record(w)' = Record(w) BY <3>1 DEF Record, Changes, CapturedFiles
    <3>5. hand'[w] = [id |-> Pending(w), record |-> Record(w)] BY <3>1 DEF Kinds, WorkerKinds
    <3>6. Pending(w) \in Ids /\ \A i \in Ids : meta'[i] = IF i = Pending(w) THEN Torn ELSE meta[i]
      BY <3>1 DEF Kinds, StoreKinds
    <3>7. Pending(w)' = Pending(w) BY <3>1 DEF Pending
    <3>8. Recording(w)' BY <3>1, <3>4, <3>5, <3>6, <3>7 DEF Recording
    <3>9. Fit(w)' BY <3>2, <3>3, <3>8 DEF Fit
    <3>10. crashes' = 0 => Clean' BY <2>4, <2>7, <3>1
    <3>11. PreImagesKept' BY <3>1, <3>6, StaysKept DEF Torn
    <3> QED BY <2>3, <3>2, <3>9, <3>10, <3>11
  <2>22. ASSUME NEW w \in Workers, Recorded(w) PROVE InHand' /\ PreImagesKept'
    <3>1. /\ pc[w] = "recording" /\ pc' = [pc EXCEPT ![w] = "recorded"] /\ UNCHANGED <<dirs, blobs, torn, crashes>>
      BY <2>22 DEF Recorded
    <3>2. InHand' BY <2>8, <3>1
    <3>3. Covered(w) /\ Recording(w) BY <2>1, <3>1 DEF Fit, Holding
    <3>4. hand[w].id = Pending(w) /\ hand[w].record = Record(w) /\ Pending(w) \notin Listed
      BY <3>3 DEF Recording, Listed, Torn
    <3>5. \A i \in Ids : meta'[i] = IF i = Pending(w) THEN Record(w) ELSE meta[i]
      BY <2>22, <3>4 DEF Recorded
    <3>6. ASSUME NEW f \in DOMAIN Changes(w), Changes(w)[f].pre # Absent
          PROVE  Changes(w)[f].pre \in blobs[Pending(w)]
      <4>1. PICK k \in DOMAIN captured[w] : Changes(w)[f].pre = captured[w][k].content
        BY CommitKinds
      <4> QED BY <3>3, <3>6, <4>1 DEF Covered
    <3>7. Record(w).changes = Changes(w) /\ Pending(w) \in dirs BY <3>3 DEF Record, Covered
    <3>8. ASSUME NEW i \in Ids, meta'[i].kind = "checkpoint",
                 NEW f \in DOMAIN meta'[i].changes, meta'[i].changes[f].pre # Absent
          PROVE  i \in dirs /\ meta'[i].changes[f].pre \in blobs[i]
      <4>1. CASE i = Pending(w) BY <3>5, <3>6, <3>7, <3>8, <4>1
      <4>2. CASE i # Pending(w) BY <3>5, <3>8, <4>2 DEF PreImagesKept, Listed
      <4> QED BY <4>1, <4>2
    <3>9. PreImagesKept' BY <3>1, <3>8 DEF PreImagesKept, Listed
    <3> QED BY <3>2, <3>9
  <2>23. ASSUME NEW w \in Workers, Fail(w) PROVE InHand' /\ PreImagesKept'
    <3>1. pc[w] \in {"open", "storing"} /\ crashes' = crashes BY <2>23 DEF Fail
    <3>2. Covered(w) BY <2>1, <3>1 DEF Fit, Holding
    <3>3. {k \in DOMAIN captured[w] : /\ captured[w][k].content # Absent
                                      /\ ~Named(Pending(w), captured[w][k].content)} = {}
      BY <3>2 DEF Covered, Named
    <3>4. Discard(w) /\ Ends(w, Gone(w)) BY <2>23, <3>3 DEF Fail
    <3>5. PreImagesKept' BY <2>5, <3>4 DEF Discard
    <3>6. Pending(w) \in Ids /\ Gone(w) = {Pending(w)}
      <4>1. Pending(w) \in Ids BY <3>2 DEF Covered, Kinds, StoreKinds
      <4>2. Pending(w) # 0 BY <1>1, <4>1 DEF Ids
      <4> QED BY <4>1, <4>2 DEF Gone
    <3>7. \A i \in Ids : torn'[i] = IF i = Pending(w) THEN {} ELSE torn[i]
      BY <3>4, <3>6 DEF Discard, Dropped
    <3>8. OneAtATime' /\ (\A v \in Workers : pc'[v] # "idle" => v = w) /\ pc'[w] = "idle"
      BY <2>12, <3>1, <3>4, Alone DEF Steps
    <3>9. Fit(w)' BY <3>8 DEF Fit, Holding
    <3>10. \A v \in Workers : pc[v] = "storing" => v = w BY <2>1, <3>1 DEF OneAtATime
    <3>11. crashes' = 0 => Clean' BY <2>1, <3>1, <3>7, <3>10 DEF Clean
    <3> QED BY <2>3, <3>5, <3>8, <3>9, <3>11
  <2>24. ASSUME NEW f, NEW c, UserEdits(f, c) PROVE InHand' /\ PreImagesKept'
    <3>1. Quiet /\ UNCHANGED <<pc, torn, crashes>> BY <2>24 DEF UserEdits, local, store, InTurn
    <3>2. \A v \in Workers : pc'[v] = "idle" /\ pc[v] = "idle" BY <3>1 DEF Quiet
    <3>3. crashes' = 0 => Clean' BY <2>4, <3>1, <3>2
    <3>4. InHand' BY <3>2, <3>3 DEF InHand, OneAtATime, Fit, Holding
    <3> QED BY <2>6, <2>24, <3>4 DEF UserEdits
  <2>25. CASE Crash
    <3>1. crashes' # 0 /\ \A v \in Workers : pc'[v] = "idle" BY <1>1, <2>25 DEF Crash
    <3>2. InHand' BY <3>1 DEF InHand, OneAtATime, Fit, Holding
    <3>3. InTurn' => UNCHANGED store
      <4>1. SUFFICES ASSUME InTurn' PROVE UNCHANGED store OBVIOUS
      <4>2. Spacious BY <3>1, <4>1, UseStays DEF InTurn, Spacious, Roomy
      <4>3. dirs \subseteq 1 .. use.ids BY <1>1, <4>2 DEF InOrder
      <4>4. ~(Size(dirs) > use.limit) BY <4>2, <4>3, RoomLeft DEF Spacious
      <4> QED BY <2>25, <4>4 DEF Crash
    <3>4. PreImagesKept' BY <2>6, <3>3 DEF PreImagesKept
    <3> QED BY <3>2, <3>4
  <2>26. CASE UNCHANGED vars
    <3>1. UNCHANGED <<disk, dirs, blobs, torn, meta, pending, pc, todo, undoes, captured, hand, crashes>>
      BY <2>26 DEF vars, store, local
    <3>2. \A w \in Workers : Pending(w)' = Pending(w) /\ CapturedFiles(w)' = CapturedFiles(w) /\ Record(w)' = Record(w)
      BY <3>1 DEF Pending, CapturedFiles, Record, Changes
    <3>3. \A w \in Workers : Fit(w)' BY <2>1, <3>1, <3>2 DEF Fit, Covered, Storing, Recording
    <3>4. crashes' = 0 => Clean' BY <2>1, <3>1, <3>2 DEF Clean
    <3>5. OneAtATime' BY <2>1, <3>1 DEF OneAtATime
    <3> QED BY <2>6, <3>1, <3>3, <3>4, <3>5 DEF InHand, store
  <2> QED BY <2>9, <2>10, <2>11, <2>13, <2>14, <2>16, <2>17, <2>18, <2>19, <2>20, <2>21, <2>22, <2>23,
             <2>24, <2>25, <2>26 DEF Next, Step
<1> QED BY <1>3, <1>4

(* What holds of the numbers and of what is in hand.                       *)
Safe == Kinds /\ InHand /\ InOrder /\ PreImagesKept

LEMMA AlwaysSafe == Spec => []Safe
<1>1. Init => Safe BY JournalAssumption, InitKinds, InitInHand DEF Safe
<1>2. Safe /\ [Next]_vars => Safe' BY NextKinds, NextInOrder, NextInHand DEF Safe
<1> QED BY <1>1, <1>2, PTL DEF Spec

(* While operations do not overlap, and of a kill and retention at most    *)
(* one has happened, every pre-image a committed checkpoint names is in    *)
(* its directory and whole, for any number of files, numbers and Journal   *)
(* objects.                                                                *)
THEOREM PreImagesStay == Spec => []PreImagesKept
<1>1. Safe => PreImagesKept BY DEF Safe
<1> QED BY <1>1, AlwaysSafe, PTL

(* Under the same conditions what an operation overwrites, be it the       *)
(* user's or a tool's, is in the journal and whole when it does.           *)
THEOREM NothingOverwrittenIsLost == Spec => OverwrittenIsKept
<1> DEFINE Overwrites ==
      InTurn => \A w \in Workers, f \in Files :
        f \in DOMAIN todo[w] /\ pc'[w] = "open" /\ f \notin DOMAIN todo'[w] /\ disk[f] # Absent
          => \E i \in dirs : disk[f] \in blobs[i]
<1>1. ASSUME Safe, [Next]_vars PROVE Overwrites
  <2> SUFFICES ASSUME InTurn, NEW v \in Workers, NEW f \in Files,
                      f \in DOMAIN todo[v], pc'[v] = "open", f \notin DOMAIN todo'[v], disk[f] # Absent
               PROVE  \E i \in dirs : disk[f] \in blobs[i]
    OBVIOUS
  <2> USE <1>1 DEF Safe, Kinds, WorkerKinds
  <2>1. ASSUME NEW w \in Workers, NEW gone, Ends(w, gone) PROVE FALSE BY <2>1 DEF Ends
  <2>2. ASSUME NEW w \in Workers, NEW g \in Files, Write(w, g)
        PROVE  \E i \in dirs : disk[f] \in blobs[i]
    <3>1. w = v /\ g = f BY <2>2 DEF Write
    <3>2. Covered(w) BY <2>2 DEF Write, InHand, Fit, Holding
    <3>3. PICK k \in DOMAIN captured[w] : captured[w][k].file = f
      BY <3>1, <2>2 DEF Write, CapturedFiles
    <3>4. captured[w][k].content = disk[f] BY <3>1, <3>2, <3>3 DEF Covered
    <3> QED BY <3>2, <3>3, <3>4 DEF Covered
  <2>3. ASSUME NEW w \in Workers, NEW F, NEW c, BeginEdit(w, F, c) PROVE FALSE BY <2>3 DEF BeginEdit
  <2>4. ASSUME NEW w \in Workers, NEW i, BeginUndo(w, i) PROVE FALSE BY <2>4 DEF BeginUndo
  <2>5. ASSUME todo' = todo PROVE FALSE BY <2>5
  <2>6. Crash => FALSE BY DEF Crash
  <2> QED BY <2>1, <2>2, <2>3, <2>4, <2>5, <2>6
          DEF Next, Step, Reserve, ReserveRaises, MakeDir, MakeDirRaises, Capture, StoreBegins, StoreEnds,
              CommitNothing, Commit, Recorded, Closes, CommitRaises, RecordRaises, Fail, UserEdits, local, vars
<1>2. Safe /\ [Next]_vars => [Overwrites]_vars BY <1>1
<1> QED BY <1>2, AlwaysSafe, PTL DEF Spec, OverwrittenIsKept

(* While there is room and operations do not overlap a committed           *)
(* checkpoint stays, whichever Journal objects they use and wherever they  *)
(* are killed.                                                             *)
THEOREM CommittedStays == Spec => HistoryKept
<1> DEFINE Stays == Roomy /\ ~use.overlap => \A i \in Listed : meta'[i] = meta[i]
<1>1. Safe /\ [Next]_vars => [Stays]_vars BY NextInOrder DEF Safe, Spacious
<1> HIDE DEF Safe, Stays
<1>2. Spec => [][Stays]_vars BY <1>1, AlwaysSafe, PTL DEF Spec
<1> QED BY <1>2 DEF HistoryKept, Stays

-----------------------------------------------------------------------------
(* Operations in turn, with room, and nobody else at the files.            *)
LEMMA LeastOf ==
  ASSUME NEW I \in SUBSET Nat, I # {}
  PROVE  Min(I) \in I /\ \A i \in I : Min(I) <= i
<1> DEFINE R == OpToRel(<, Nat)
<1>1. IsWellFoundedOn(R, Nat) BY NatLessThanWellFounded
<1>2. \A a, b \in Nat : a < b => <<a, b>> \in R BY DEF OpToRel
<1> HIDE DEF R
<1>3. PICK x \in I : \A y \in I : ~(<<y, x>> \in R) BY <1>1, WFMin
<1>4. \A y \in I : ~(y < x) BY <1>2, <1>3
<1>5. \A y \in I : x <= y BY <1>4
<1> QED BY <1>5 DEF Min

(* What a file was before the operation under way.                         *)
Remembers ==
  \A f \in Files :
    /\ \A w \in Workers : \A k \in DOMAIN captured[w] :
         captured[w][k].file = f /\ Tidy(w) => Before(f) = captured[w][k].content
    /\ (\A w \in Workers : f \notin CapturedFiles(w)) => Before(f) = disk[f]

LEMMA BeforeIs == Kinds /\ OneAtATime => Remembers
<1> SUFFICES ASSUME Kinds, OneAtATime, NEW f \in Files
             PROVE  /\ \A w \in Workers : \A k \in DOMAIN captured[w] :
                         captured[w][k].file = f /\ Tidy(w) => Before(f) = captured[w][k].content
                    /\ (\A w \in Workers : f \notin CapturedFiles(w)) => Before(f) = disk[f]
  BY DEF Remembers
<1>1. ASSUME NEW w \in Workers, NEW k \in DOMAIN captured[w], captured[w][k].file = f, Tidy(w)
      PROVE  Before(f) = captured[w][k].content
  <2>1. \A v \in Workers \ {w} : DOMAIN captured[v] = {}
    <3>1. captured[w] # <<>> BY <1>1
    <3>2. \A v \in Workers \ {w} : captured[v] = <<>>
      BY <3>1 DEF Kinds, WorkerKinds, OneAtATime, Holding
    <3> QED BY <3>2
  <2>2. captured[w][k] \in Captures(f) BY <1>1 DEF Captures, Range
  <2>3. ASSUME NEW e \in Captures(f) PROVE e = captured[w][k]
    <3>1. PICK v \in Workers : \E l \in DOMAIN captured[v] : e = captured[v][l] /\ e.file = f
      BY DEF Captures, Range
    <3>2. v = w BY <2>1, <3>1
    <3> QED BY <1>1, <3>1, <3>2 DEF Tidy
  <2> QED BY <2>2, <2>3 DEF Before
<1>2. ASSUME \A w \in Workers : f \notin CapturedFiles(w) PROVE Before(f) = disk[f]
  <2>1. Captures(f) = {} BY <1>2 DEF Captures, CapturedFiles, Range
  <2> QED BY <2>1 DEF Before
<1> QED BY <1>1, <1>2

LEMMA BeforeIsThen == (Kinds /\ OneAtATime => Remembers)'
BY BeforeIs, PTL

LEMMA InitReversible == JournalAssumption /\ Init => Reversible
<1> SUFFICES ASSUME JournalAssumption, Init, Orderly, Roomy PROVE Reversible BY DEF Reversible
<1>1. Listed = {} BY DEF Init, Listed, None
<1>2. \A f \in Files : Captures(f) = {} BY DEF Init, Captures, Range
<1>3. \A f \in Files : BackTo(f, 1) = Start[f] BY <1>1, <1>2 DEF Init, BackTo, Naming, Before
<1>4. \A w \in Workers : Tidy(w) /\ PutsBack(w) BY DEF Init, Tidy, PutsBack
<1> QED BY <1>1, <1>3, <1>4 DEF Reversible

(* Taking back leads where it led, if no record is added and what a file   *)
(* was before the operation stays the same.                                *)
SameRecords == Listed' = Listed /\ \A i \in Listed : meta'[i] = meta[i]

LEMMA BackStays ==
  ASSUME SameRecords, NEW f, Before(f)' = Before(f), NEW k
  PROVE  BackTo(f, k)' = BackTo(f, k)
<1>1. Naming(f, k)' = Naming(f, k) BY DEF Naming, SameRecords
<1>2. CASE Naming(f, k) = {} BY <1>1, <1>2 DEF BackTo
<1>3. CASE Naming(f, k) # {}
  <2>1. Naming(f, k) \subseteq Listed /\ Listed \subseteq Nat
    BY JournalAssumption DEF Naming, Listed, Ids, JournalAssumption
  <2>2. Min(Naming(f, k)) \in Naming(f, k) BY <1>3, <2>1, LeastOf
  <2>3. meta'[Min(Naming(f, k))] = meta[Min(Naming(f, k))] BY <2>1, <2>2 DEF SameRecords
  <2> QED BY <1>1, <1>3, <2>3 DEF BackTo
<1> QED BY <1>2, <1>3

LEMMA StaysReversible ==
  ASSUME Reversible, use' = use, SameRecords,
         \A f \in Files : Before(f)' = Before(f),
         Orderly /\ Roomy => \A w \in Workers : (Tidy(w) /\ PutsBack(w))',
         Orderly /\ Roomy => Kinds
  PROVE  Reversible'
<1> SUFFICES ASSUME Orderly, Roomy PROVE Reversible' BY DEF Reversible, Orderly, Roomy
<1>1. \A f \in Files : BackTo(f, 1)' = Start[f]
  BY BackStays DEF Reversible
<1>2. ASSUME NEW u \in Listed' PROVE meta'[u].undoes \in 0 .. u - 1 /\ Undone(u)'
  <2>1. u \in Listed /\ Undone(u) /\ meta[u].undoes \in 0 .. u - 1 /\ meta'[u] = meta[u]
    BY DEF Reversible, SameRecords
  <2>2. ASSUME NEW t \in Listed, NEW f \in DOMAIN meta[t].changes
        PROVE  BackTo(f, u + 1)' = BackTo(f, u + 1)
    <3>1. f \in Files BY <2>2 DEF Kinds, StoreKinds, IsRecord, Listed, None, Torn
    <3> QED BY <3>1, BackStays
  <2>3. Listed' = Listed /\ \A t \in Listed : meta'[t] = meta[t] BY DEF SameRecords
  <2> QED BY <2>1, <2>2, <2>3 DEF Undone
<1> QED BY <1>1, <1>2 DEF Reversible

(* The steps that leave the files and what is captured alone.              *)
LEMMA SameBefore ==
  ASSUME disk' = disk, captured' = captured, NEW f
  PROVE  Before(f)' = Before(f)
BY DEF Before, Captures

(* What the others remember, when one takes a step or begins.              *)
LEMMA OthersTidy ==
  ASSUME Kinds, InHand, Reversible, Orderly, Roomy, NEW w \in Workers, pc[w] # "idle" \/ MayBegin,
         NEW now \in Steps, pc' = [pc EXCEPT ![w] = now],
         \A v \in Workers \ {w} : undoes'[v] = undoes[v] /\ captured'[v] = captured[v]
  PROVE  \A v \in Workers \ {w} : (Tidy(v) /\ PutsBack(v))' /\ captured'[v] = <<>>
<1>1. InTurn BY DEF Orderly, InTurn
<1>2. \A v \in Workers : pc'[v] # "idle" => v = w BY <1>1, Alone
<1>3. \A v \in Workers \ {w} : pc[v] = "idle" /\ pc'[v] = "idle" BY <1>2 DEF Kinds, WorkerKinds
<1>4. \A v \in Workers \ {w} : captured[v] = <<>> /\ undoes[v] = 0
  BY <1>3 DEF Kinds, WorkerKinds, Reversible, Tidy, Holding
<1> QED BY <1>3, <1>4 DEF Tidy, PutsBack

(* An operation ends.                                                      *)
LEMMA EndsTidy ==
  ASSUME Kinds, InHand, Reversible, Orderly, Roomy, NEW w \in Workers, pc[w] # "idle",
         NEW gone, Ends(w, gone), Kinds', InHand', use' = use
  PROVE  /\ \A v \in Workers : (Tidy(v) /\ PutsBack(v))'
         /\ \A f \in Files : Before(f)' = disk'[f]
<1>1. /\ pc' = [pc EXCEPT ![w] = "idle"] /\ captured'[w] = <<>> /\ undoes'[w] = 0 /\ pc'[w] = "idle"
      /\ \A v \in Workers \ {w} : undoes'[v] = undoes[v] /\ captured'[v] = captured[v]
  BY DEF Ends, Kinds, WorkerKinds
<1>2. "idle" \in Steps BY DEF Steps
<1>3. \A v \in Workers \ {w} : (Tidy(v) /\ PutsBack(v))' /\ captured'[v] = <<>> BY <1>1, <1>2, OthersTidy
<1>4. (Tidy(w) /\ PutsBack(w))' BY <1>1 DEF Tidy, PutsBack
<1>5. \A v \in Workers : CapturedFiles(v)' = {} BY <1>1, <1>3 DEF CapturedFiles
<1>6. Remembers' BY BeforeIsThen DEF InHand, Orderly, InTurn, Roomy
<1>7. \A f \in Files : Before(f)' = disk'[f] BY <1>5, <1>6 DEF Remembers
<1> QED BY <1>3, <1>4, <1>7

(* What a record says when it is complete.                                 *)
LEMMA RecordIs ==
  ASSUME Kinds, InHand, InOrder, Orderly, Roomy, NEW w \in Workers, Recorded(w)
  PROVE  /\ pc[w] = "recording" /\ DOMAIN todo[w] = {}
         /\ Pending(w) \in Nat \ {0} /\ Pending(w) \in Ids /\ dirs = 1 .. Pending(w)
         /\ Pending(w) \notin Listed
         /\ \A i \in Ids : meta'[i] = IF i = Pending(w) THEN Record(w) ELSE meta[i]
<1>1. pc[w] = "recording" /\ Spacious /\ InTurn BY DEF Recorded, Orderly, Spacious, InTurn
<1>2. Recording(w) BY <1>1 DEF InHand, Fit
<1>3. /\ Pending(w) \in Nat \ {0} /\ Pending(w) \in Ids /\ dirs = 1 .. Pending(w)
      /\ Pending(w) \notin Listed
  BY <1>1, Numbered DEF Holding
<1>4. hand[w].id = Pending(w) /\ hand[w].record = Record(w) BY <1>2 DEF Recording
<1>5. \A i \in Ids : meta'[i] = IF i = Pending(w) THEN Record(w) ELSE meta[i]
  BY <1>3, <1>4 DEF Recorded
<1> QED BY <1>1, <1>2, <1>3, <1>5 DEF Recording

LEMMA Checkpoint == \A w \in Workers : Record(w).kind = "checkpoint"
BY DEF Record

(* A commit: what came before its number leads where it led, and after it  *)
(* nothing is on record yet.                                               *)
LEMMA CommitBack ==
  ASSUME Kinds, InHand, InOrder, Reversible, Orderly, Roomy, NEW w \in Workers, Recorded(w),
         NEW n, n = Pending(w), \A f \in Files : Before(f)' = disk[f], NEW f \in Files
  PROVE  /\ \A k \in 1 .. n : BackTo(f, k)' = BackTo(f, k)
         /\ BackTo(f, n + 1)' = disk[f]
<1>1. pc[w] = "recording" BY RecordIs
<1>2. n \in Nat \ {0} /\ n \in Ids /\ dirs = 1 .. n /\ n \notin Listed BY RecordIs
<1>3. \A i \in Ids : meta'[i] = IF i = n THEN Record(w) ELSE meta[i] BY RecordIs
<1>4. Listed \subseteq 1 .. n - 1
  <2>1. Listed \subseteq dirs BY DEF Listed, Kinds, StoreKinds, None
  <2> QED BY <1>2, <2>1
<1>5. Listed' = Listed \cup {n} BY <1>2, <1>3, Checkpoint DEF Listed
<1>6. Record(w).changes = Changes(w) BY DEF Record
<1>7. n \notin Listed BY <1>2, <1>4
<1>8. \A k \in Nat : Naming(f, k)' = Naming(f, k) \cup {i \in {n} : i >= k /\ f \in DOMAIN Changes(w)}
  <2>1. \A i \in Listed : meta'[i] = meta[i] BY <1>3, <1>7 DEF Listed
  <2>2. meta'[n].changes = Changes(w) BY <1>2, <1>3, <1>6
  <2> QED BY <1>5, <2>1, <2>2 DEF Naming
<1>9. IF f \in DOMAIN Changes(w) THEN Changes(w)[f].pre = Before(f) ELSE disk[f] = Before(f)
  <2>1. Remembers BY BeforeIs DEF InHand, InTurn, Orderly
  <2>2. CASE f \in CapturedFiles(w)
    <3>1. PICK k \in DOMAIN captured[w] :
            /\ captured[w][k].file = f
            /\ f \in DOMAIN Changes(w) => Changes(w)[f].pre = captured[w][k].content
            /\ f \notin DOMAIN Changes(w) => disk[f] = captured[w][k].content
      BY <2>2, CommitKinds
    <3>2. Tidy(w) BY DEF Reversible
    <3>3. Before(f) = captured[w][k].content BY <2>1, <3>1, <3>2 DEF Remembers
    <3> QED BY <3>1, <3>3
  <2>3. CASE f \notin CapturedFiles(w)
    <3>1. f \notin DOMAIN Changes(w) BY <2>3, CommitKinds
    <3>2. \A v \in Workers \ {w} : captured[v] = <<>>
      BY <1>1 DEF InHand, InTurn, Orderly, OneAtATime, Kinds, WorkerKinds, Holding
    <3>3. \A v \in Workers : f \notin CapturedFiles(v) BY <2>3, <3>2 DEF CapturedFiles
    <3> QED BY <2>1, <3>1, <3>3 DEF Remembers
  <2> QED BY <2>2, <2>3
<1>10. ASSUME NEW k \in 1 .. n PROVE BackTo(f, k)' = BackTo(f, k)
  <2> DEFINE I == Naming(f, k)
             J == I \cup {i \in {n} : i >= k /\ f \in DOMAIN Changes(w)}
  <2>1. I \subseteq 1 .. n - 1 /\ Naming(f, k)' = J
    <3>1. I \subseteq 1 .. n - 1 BY <1>4 DEF Naming
    <3>2. k \in Nat BY <1>2
    <3>3. Naming(f, k)' = J BY <1>8, <3>2
    <3> QED BY <3>1, <3>3
  <2>2. BackTo(f, k)' = IF J = {} THEN disk[f] ELSE meta'[Min(J)].changes[f].pre
    BY <2>1 DEF BackTo
  <2>3. BackTo(f, k) = IF I = {} THEN Before(f) ELSE meta[Min(I)].changes[f].pre BY DEF BackTo
  <2>4. J = IF f \in DOMAIN Changes(w) THEN I \cup {n} ELSE I BY <1>2
  <2>5. I \in SUBSET Nat /\ J \in SUBSET Nat BY <1>2, <2>1, <2>4
  <2> HIDE DEF I, J
  <2>6. CASE I # {}
    <3>1. Min(I) \in I /\ (\A i \in I : Min(I) <= i) BY <2>5, <2>6, LeastOf
    <3>2. Min(J) \in J /\ (\A i \in J : Min(J) <= i) BY <2>4, <2>5, <2>6, LeastOf
    <3>3. Min(J) = Min(I)
      <4> DEFINE a == Min(I)
                 b == Min(J)
      <4>1. a \in 1 .. n - 1 /\ a \in J BY <2>1, <2>4, <3>1
      <4>2. b <= a /\ b \in J BY <3>2, <4>1
      <4>3. b \in I \/ b = n BY <2>4, <4>2
      <4>4. b \in I => a <= b BY <3>1
      <4>5. b \in Nat BY <2>5, <4>2
      <4> HIDE DEF a, b
      <4>6. a = b BY <1>2, <4>1, <4>2, <4>3, <4>4, <4>5
      <4> QED BY <4>6 DEF a, b
    <3>4. Min(I) \in 1 .. n - 1 BY <2>1, <3>1
    <3>5. Min(I) # n BY <1>2, <3>4
    <3>6. meta'[Min(I)] = meta[Min(I)]
      <4>1. Min(I) \in Ids BY <3>1 DEF I, Naming, Listed
      <4> QED BY <1>3, <3>5, <4>1
    <3> QED BY <2>2, <2>3, <2>4, <2>6, <3>3, <3>6
  <2>7. CASE I = {} /\ f \in DOMAIN Changes(w)
    <3>1. J = {n} BY <2>4, <2>7
    <3>2. Min(J) = n BY <2>5, <3>1, LeastOf
    <3>3. meta'[n].changes[f].pre = Before(f) BY <1>2, <1>3, <1>6, <1>9, <2>7
    <3> QED BY <2>2, <2>3, <2>7, <3>1, <3>2, <3>3
  <2>8. CASE I = {} /\ f \notin DOMAIN Changes(w) BY <1>9, <2>2, <2>3, <2>4, <2>8
  <2> QED BY <2>6, <2>7, <2>8
<1>11. BackTo(f, n + 1)' = disk[f]
  <2>1. \A i \in Listed \cup {n} : ~(i >= n + 1) BY <1>2, <1>4
  <2>2. Naming(f, n + 1)' = {} BY <1>5, <2>1 DEF Naming
  <2> QED BY <2>2 DEF BackTo
<1> QED BY <1>10, <1>11

LEMMA CommitReversible ==
  ASSUME Kinds, InHand, InOrder, Reversible, Orderly, Roomy, NEW w \in Workers, Recorded(w),
         \A f \in Files : Before(f)' = disk[f], \A v \in Workers : (Tidy(v) /\ PutsBack(v))'
  PROVE  Reversible'
<1>1. PICK n : n = Pending(w) OBVIOUS
<1>2. pc[w] = "recording" /\ DOMAIN todo[w] = {} BY RecordIs
<1>3. n \in Nat \ {0} /\ n \in Ids /\ dirs = 1 .. n /\ n \notin Listed BY <1>1, RecordIs
<1>4. \A i \in Ids : meta'[i] = IF i = n THEN Record(w) ELSE meta[i] BY <1>1, RecordIs
<1>5. Listed \subseteq 1 .. n - 1
  <2>1. Listed \subseteq dirs BY DEF Listed, Kinds, StoreKinds, None
  <2> QED BY <1>3, <2>1
<1>6. Listed' = Listed \cup {n} BY <1>3, <1>4, Checkpoint DEF Listed
<1>7. n \notin Listed /\ 0 \notin Listed BY <1>3, <1>5
<1>8. \A i \in Listed : meta'[i] = meta[i] /\ DOMAIN meta[i].changes \subseteq Files
  BY <1>4, <1>7 DEF Listed, Kinds, StoreKinds, IsRecord, None, Torn
<1>9. \A f \in Files : /\ \A k \in 1 .. n : BackTo(f, k)' = BackTo(f, k)
                       /\ BackTo(f, n + 1)' = disk[f]
  BY <1>1, CommitBack
<1>10. \A f \in Files : BackTo(f, 1)' = Start[f]
  <2>1. 1 \in 1 .. n BY <1>3
  <2> QED BY <1>9, <2>1 DEF Reversible
<1>11. meta'[n].undoes = undoes[w] BY <1>3, <1>4 DEF Record
<1>12. undoes[w] # 0 =>
         /\ undoes[w] \in Listed
         /\ \A f \in DOMAIN meta[undoes[w]].changes : disk[f] = meta[undoes[w]].changes[f].pre
  BY <1>2 DEF Reversible, PutsBack
<1>13. meta'[n].undoes \in 0 .. n - 1
  <2>1. undoes[w] = 0 \/ undoes[w] \in 1 .. n - 1 BY <1>5, <1>12
  <2> QED BY <1>3, <1>11, <2>1
<1>14. Undone(n)'
  <2>1. SUFFICES ASSUME NEW t \in Listed' \ {n}, t = undoes[w], NEW f \in DOMAIN meta'[t].changes
                 PROVE  BackTo(f, n + 1)' = meta'[t].changes[f].pre
    BY <1>11 DEF Undone
  <2>2. t \in Listed /\ t # 0 BY <1>6, <1>7, <2>1
  <2>3. meta'[t] = meta[t] /\ f \in Files BY <1>8, <2>1, <2>2
  <2> QED BY <1>9, <1>12, <2>1, <2>2, <2>3
<1>15. ASSUME NEW u \in Listed PROVE meta'[u].undoes \in 0 .. u - 1 /\ Undone(u)'
  <2>1. u \in 1 .. n - 1 /\ meta'[u] = meta[u] /\ meta[u].undoes \in 0 .. u - 1 /\ Undone(u)
    BY <1>5, <1>8 DEF Reversible
  <2>2. SUFFICES ASSUME NEW t \in Listed' \ {u}, t = meta[u].undoes, NEW f \in DOMAIN meta'[t].changes
                 PROVE  BackTo(f, u + 1)' = meta'[t].changes[f].pre
    BY <2>1 DEF Undone
  <2>3. t # n BY <1>3, <2>1, <2>2
  <2>4. t \in Listed \ {u} BY <1>6, <2>2, <2>3
  <2>5. meta'[t] = meta[t] /\ f \in Files BY <1>8, <2>2, <2>4
  <2>6. u + 1 \in 1 .. n BY <1>3, <2>1
  <2>7. BackTo(f, u + 1)' = BackTo(f, u + 1) BY <1>9, <2>5, <2>6
  <2> QED BY <2>1, <2>2, <2>4, <2>5, <2>7 DEF Undone
<1> QED BY <1>6, <1>10, <1>13, <1>14, <1>15 DEF Reversible

(* Where every file leads when everything is taken back stays where it     *)
(* was, and so does what an undo has put back.                             *)
LEMMA NextReversible ==
  ASSUME Kinds, InHand, PreImagesKept, InOrder, Reversible, [Next]_vars, Kinds', InHand', InOrder'
  PROVE  Reversible'
<1>1. use' = use BY UseStays
<1>2. CASE ~(Orderly /\ Roomy) BY <1>1, <1>2 DEF Reversible, Orderly, Roomy
<1>3. CASE Orderly /\ Roomy
  <2> USE <1>1, <1>3
  <2>1. InTurn /\ InTurn' /\ Spacious BY DEF InTurn, Orderly, Spacious, Roomy
  <2>2. /\ pc \in [Workers -> Steps] /\ undoes \in [Workers -> 0 .. MaxId]
        /\ captured \in [Workers -> Seq([file : Files, content : Images])]
        /\ \A w \in Workers : ~Holding(pc[w]) => captured[w] = <<>>
    BY DEF Kinds, WorkerKinds
  <2>3. \A v \in Workers : Tidy(v) /\ PutsBack(v) BY DEF Reversible
  <2>4. Remembers BY <2>1, BeforeIs DEF InHand
  <2>5. Remembers' BY <2>1, BeforeIsThen DEF InHand
  <2>6. meta' = meta => SameRecords BY DEF SameRecords, Listed
  <2>7. ASSUME NEW w \in Workers, SameRecords, \A f \in Files : Before(f)' = Before(f),
               pc[w] # "idle" \/ MayBegin,
               NEW now \in Steps, pc' = [pc EXCEPT ![w] = now],
               \A v \in Workers \ {w} : undoes'[v] = undoes[v] /\ captured'[v] = captured[v],
               (Tidy(w) /\ PutsBack(w))'
        PROVE  Reversible'
    <3>1. \A v \in Workers \ {w} : (Tidy(v) /\ PutsBack(v))' BY <2>7, OthersTidy
    <3>2. \A v \in Workers : (Tidy(v) /\ PutsBack(v))' BY <2>7, <3>1
    <3> QED BY <2>7, <3>2, StaysReversible
  <2>8. ASSUME NEW w \in Workers, NEW F, NEW c, BeginEdit(w, F, c) PROVE Reversible'
    <3>1. /\ pc[w] = "idle" /\ MayBegin /\ pc' = [pc EXCEPT ![w] = "reserve"]
          /\ UNCHANGED <<disk, meta, undoes, captured>>
      BY <2>8 DEF BeginEdit, store
    <3>2. pc'[w] = "reserve" /\ undoes'[w] = 0 BY <2>2, <2>3, <3>1 DEF Tidy
    <3>3. (Tidy(w) /\ PutsBack(w))' BY <2>3, <3>1, <3>2 DEF Tidy, PutsBack
    <3> QED BY <2>7, <2>6, <3>1, <3>3, SameBefore DEF Steps
  <2>9. ASSUME NEW w \in Workers, NEW i, BeginUndo(w, i) PROVE Reversible'
    <3>1. /\ pc[w] = "idle" /\ MayBegin /\ pc' = [pc EXCEPT ![w] = "reserve"]
          /\ UNCHANGED <<disk, meta, captured>> /\ undoes' = [undoes EXCEPT ![w] = i] /\ i \in Listed
          /\ todo' = [todo EXCEPT ![w] = [f \in DOMAIN meta[i].changes |-> meta[i].changes[f].pre]]
      BY <2>9 DEF BeginUndo, store
    <3>2. /\ pc'[w] = "reserve" /\ undoes'[w] = i
          /\ todo'[w] = [f \in DOMAIN meta[i].changes |-> meta[i].changes[f].pre]
      BY <2>2, <3>1 DEF Kinds, WorkerKinds
    <3>3. Tidy(w)' BY <2>3, <3>1, <3>2 DEF Tidy
    <3>4. PutsBack(w)' BY <3>1, <3>2 DEF PutsBack, Listed
    <3>5. \A v \in Workers \ {w} : undoes'[v] = undoes[v] /\ captured'[v] = captured[v] BY <2>2, <3>1
    <3> QED BY <2>7, <2>6, <3>1, <3>3, <3>4, <3>5, SameBefore DEF Steps
  <2>10. ASSUME NEW w \in Workers, NEW now \in Steps \ {"idle"}, pc[w] # "idle", pc' = [pc EXCEPT ![w] = now],
               UNCHANGED <<disk, undoes, todo, captured>>, SameRecords
        PROVE  Reversible'
    <3>1. pc'[w] # "idle" BY <2>2, <2>10
    <3>2. Tidy(w)' BY <2>3, <2>10, <3>1 DEF Tidy
    <3>3. PutsBack(w)' BY <2>3, <2>10, <3>1 DEF PutsBack, SameRecords
    <3> QED BY <2>7, <2>10, <3>2, <3>3, SameBefore
  <2>11. ASSUME NEW w \in Workers, Reserve(w) PROVE Reversible'
    <3>1. UNCHANGED store
      <4>1. dirs \subseteq 1 .. use.ids BY <2>1, Numbers DEF InOrder
      <4> QED BY <2>11, <4>1, RoomLeft DEF Reserve
    <3>2. /\ pc[w] = "reserve" /\ pc' = [pc EXCEPT ![w] = "mkdir"]
          /\ UNCHANGED <<disk, meta, undoes, todo, captured>>
      BY <2>11, <3>1 DEF Reserve, store
    <3> QED BY <2>10, <2>6, <3>2 DEF Steps
  <2>12. ASSUME NEW w \in Workers, MakeDir(w) PROVE Reversible'
    BY <2>10, <2>12, <2>6 DEF MakeDir, Steps
  <2>13. ASSUME NEW w \in Workers, NEW f, StoreBegins(w, f) PROVE Reversible'
    BY <2>10, <2>6, <2>13 DEF StoreBegins, Steps
  <2>14. ASSUME NEW w \in Workers, Commit(w) PROVE Reversible'
    <3>1. /\ pc[w] = "open" /\ pc' = [pc EXCEPT ![w] = "recording"]
          /\ UNCHANGED <<disk, undoes, todo, captured>> /\ meta' = [meta EXCEPT ![Pending(w)] = Torn]
      BY <2>14 DEF Commit, Finished
    <3>2. meta[Pending(w)] = None BY <2>1, <3>1, Numbered DEF Holding
    <3>3. SameRecords BY <3>1, <3>2 DEF SameRecords, Listed, None, Torn, Kinds, StoreKinds
    <3> QED BY <2>10, <3>1, <3>3 DEF Steps
  <2>15. ASSUME NEW w \in Workers, pc[w] # "idle", NEW gone, Ends(w, gone), meta' = meta,
                \A f \in Files : disk'[f] = Before(f)
         PROVE  Reversible'
    <3>1. \A v \in Workers : (Tidy(v) /\ PutsBack(v))' BY <2>15, EndsTidy
    <3>2. \A f \in Files : Before(f)' = Before(f) BY <2>15, EndsTidy
    <3> QED BY <2>15, <2>6, <3>1, <3>2, StaysReversible
  <2>16. ASSUME NEW w \in Workers, ReserveRaises(w) \/ MakeDirRaises(w) \/ Closes(w) PROVE Reversible'
    <3>1. pc[w] \in {"reserve", "mkdir", "recorded"} /\ Ends(w, {}) /\ UNCHANGED <<disk, meta>>
      BY <2>16 DEF ReserveRaises, MakeDirRaises, Closes, store
    <3>2. \A v \in Workers : ~Holding(pc[v])
      BY <2>1, <3>1 DEF InHand, OneAtATime, Holding
    <3>3. \A v \in Workers : CapturedFiles(v) = {} BY <2>2, <3>2 DEF CapturedFiles
    <3>4. \A f \in Files : disk'[f] = Before(f) BY <2>4, <3>1, <3>3 DEF Remembers
    <3> QED BY <2>15, <3>1, <3>4
  <2>17. ASSUME NEW w \in Workers, pc[w] # "idle", NEW f \in Files, f \notin CapturedFiles(w)
         PROVE  \A v \in Workers : f \notin CapturedFiles(v)
    <3>1. \A v \in Workers \ {w} : ~Holding(pc[v]) BY <2>1, <2>17 DEF InHand, OneAtATime, Holding
    <3> QED BY <2>2, <2>17, <3>1 DEF CapturedFiles
  <2>18. ASSUME NEW w \in Workers, NEW f \in Files, Takes(w, f, disk[f]), f \notin CapturedFiles(w),
                UNCHANGED <<disk, meta, undoes, todo>>, pc[w] # "idle", pc' = [pc EXCEPT ![w] = "open"]
         PROVE  Reversible'
    <3>1. pc'[w] = "open" /\ disk[f] \in Images BY <2>2, <2>18 DEF Steps, Kinds, FileKinds
    <3>2. /\ \A v \in Workers \ {w} : captured'[v] = captured[v]
          /\ Len(captured[w]) \in Nat /\ DOMAIN captured[w] = 1 .. Len(captured[w])
          /\ DOMAIN captured'[w] = 1 .. Len(captured[w]) + 1
          /\ \A k \in DOMAIN captured[w] : captured'[w][k] = captured[w][k]
          /\ captured'[w][Len(captured[w]) + 1] = [file |-> f, content |-> disk[f]]
      BY <2>18, <3>1, CaptureKinds
    <3> DEFINE m == Len(captured[w])
    <3>3. m \in Nat /\ DOMAIN captured[w] = 1 .. m /\ DOMAIN captured'[w] = 1 .. m + 1 BY <3>2
    <3>4. captured'[w][m + 1].file = f /\ captured'[w][m + 1].content = disk[f] BY <3>2
    <3>5. m + 1 \in DOMAIN captured'[w] /\ DOMAIN captured[w] \subseteq DOMAIN captured'[w] BY <3>3
    <3>6. \A k \in DOMAIN captured'[w] : k \in DOMAIN captured[w] \/ k = m + 1 BY <3>3
    <3> HIDE DEF m
    <3>7. Tidy(w)'
      <4>1. \A k \in DOMAIN captured[w] : captured'[w][k].file # f BY <2>18, <3>2 DEF CapturedFiles
      <4>2. ASSUME NEW k \in DOMAIN captured'[w], NEW l \in DOMAIN captured'[w],
                   captured'[w][k].file = captured'[w][l].file
            PROVE  k = l
        <5>1. CASE k \in DOMAIN captured[w] /\ l \in DOMAIN captured[w]
          BY <2>3, <3>2, <4>2, <5>1 DEF Tidy
        <5>2. CASE k = m + 1 /\ l = m + 1 BY <5>2
        <5>3. CASE k \in DOMAIN captured[w] /\ l = m + 1 BY <3>4, <4>1, <4>2, <5>3
        <5>4. CASE k = m + 1 /\ l \in DOMAIN captured[w] BY <3>4, <4>1, <4>2, <5>4
        <5> QED BY <3>6, <5>1, <5>2, <5>3, <5>4
      <4> QED BY <3>1, <4>2 DEF Tidy
    <3>8. PutsBack(w)' BY <2>3, <2>18, <3>1 DEF PutsBack, Listed
    <3>9. ASSUME NEW g \in Files PROVE Before(g)' = Before(g)
      <4>1. CASE g \in CapturedFiles(w)
        <5>1. PICK k \in DOMAIN captured[w] : captured[w][k].file = g BY <4>1 DEF CapturedFiles
        <5>2. k \in DOMAIN captured'[w] /\ captured'[w][k] = captured[w][k] BY <3>2, <3>5, <5>1
        <5>3. Before(g) = captured[w][k].content BY <2>3, <2>4, <5>1 DEF Remembers
        <5>4. Before(g)' = captured'[w][k].content BY <2>5, <3>7, <5>1, <5>2 DEF Remembers
        <5> QED BY <5>2, <5>3, <5>4
      <4>2. CASE g \notin CapturedFiles(w)
        <5>1. Before(g) = disk[g] BY <2>4, <2>17, <2>18, <4>2 DEF Remembers
        <5>2. CASE g = f
          <6>1. Before(g)' = captured'[w][m + 1].content BY <2>5, <3>4, <3>5, <3>7, <5>2 DEF Remembers
          <6> QED BY <3>4, <5>1, <5>2, <6>1
        <5>3. CASE g # f
          <6>1. g \notin CapturedFiles(w)' BY <3>2, <3>4, <3>6, <4>2, <5>3 DEF CapturedFiles
          <6>2. \A v \in Workers \ {w} : g \notin CapturedFiles(v)'
            BY <2>17, <2>18, <3>2, <4>2 DEF CapturedFiles
          <6>3. Before(g)' = disk'[g] BY <2>5, <6>1, <6>2 DEF Remembers
          <6> QED BY <2>18, <5>1, <6>3
        <5> QED BY <5>2, <5>3
      <4> QED BY <4>1, <4>2
    <3> QED BY <2>7, <2>18, <2>6, <3>2, <3>7, <3>8, <3>9 DEF Steps
  <2>19. ASSUME NEW w \in Workers, NEW f \in Files, Capture(w, f) PROVE Reversible'
    <3>1. pc' = [pc EXCEPT ![w] = "open"] BY <2>2, <2>19 DEF Capture
    <3> QED BY <2>18, <2>19, <3>1 DEF Capture, store
  <2>20. ASSUME NEW w \in Workers, StoreEnds(w) PROVE Reversible'
    <3>1. /\ pc[w] = "storing" /\ Takes(w, hand[w].file, hand[w].content) /\ pc' = [pc EXCEPT ![w] = "open"]
          /\ UNCHANGED <<disk, meta, undoes, todo>>
      BY <2>20 DEF StoreEnds
    <3>2. Storing(w) BY <2>1, <3>1 DEF InHand, Fit
    <3>3. hand[w].file \in Files BY <3>1 DEF Kinds, WorkerKinds, HandKind
    <3> QED BY <2>18, <3>1, <3>2, <3>3 DEF Storing
  <2>21. ASSUME NEW w \in Workers, NEW f \in Files, Write(w, f) PROVE Reversible'
    <3>1. undoes[w] # 0 /\ todo[w][f] # Absent => Copy(undoes[w], todo[w][f]) = todo[w][f]
      <4>1. SUFFICES ASSUME undoes[w] # 0, todo[w][f] # Absent, pc[w] = "open", f \in DOMAIN todo[w]
                     PROVE  todo[w][f] \in blobs[undoes[w]]
        BY <2>21 DEF Write, Copy
      <4>2. /\ undoes[w] \in Listed /\ f \in DOMAIN meta[undoes[w]].changes
            /\ todo[w][f] = meta[undoes[w]].changes[f].pre
        BY <2>3, <4>1 DEF PutsBack
      <4> QED BY <2>1, <4>1, <4>2 DEF PreImagesKept
    <3>2. /\ pc[w] = "open" /\ UNCHANGED <<meta, pc, undoes, captured>>
          /\ f \in DOMAIN todo[w] \cap CapturedFiles(w)
          /\ disk' = [disk EXCEPT ![f] = todo[w][f]]
          /\ todo' = [todo EXCEPT ![w] = [g \in DOMAIN todo[w] \ {f} |-> todo[w][g]]]
      BY <2>21, <3>1 DEF Write, store
    <3>3. /\ disk'[f] = todo[w][f] /\ \A g \in Files \ {f} : disk'[g] = disk[g]
          /\ todo'[w] = [g \in DOMAIN todo[w] \ {f} |-> todo[w][g]]
      BY <3>2 DEF Kinds, FileKinds, WorkerKinds
    <3>4. Tidy(w)' BY <2>3, <3>2 DEF Tidy
    <3>5. PutsBack(w)'
      <4>1. SUFFICES ASSUME undoes[w] # 0
                     PROVE  /\ undoes[w] \in Listed
                            /\ DOMAIN todo'[w] \subseteq DOMAIN meta[undoes[w]].changes
                            /\ \A g \in DOMAIN meta[undoes[w]].changes :
                                 IF g \in DOMAIN todo'[w] THEN todo'[w][g] = meta[undoes[w]].changes[g].pre
                                 ELSE disk'[g] = meta[undoes[w]].changes[g].pre
        BY <3>2 DEF PutsBack, Listed
      <4>2. /\ undoes[w] \in Listed /\ DOMAIN todo[w] \subseteq DOMAIN meta[undoes[w]].changes
            /\ \A g \in DOMAIN meta[undoes[w]].changes :
                 IF g \in DOMAIN todo[w] THEN todo[w][g] = meta[undoes[w]].changes[g].pre
                 ELSE disk[g] = meta[undoes[w]].changes[g].pre
        BY <2>3, <3>2, <4>1 DEF PutsBack
      <4>3. DOMAIN meta[undoes[w]].changes \subseteq Files
        BY <4>2 DEF Listed, Kinds, StoreKinds, IsRecord, None, Torn
      <4> QED BY <3>2, <3>3, <4>2, <4>3
    <3>6. ASSUME NEW g \in Files PROVE Before(g)' = Before(g)
      <4>1. CASE g \in CapturedFiles(w)
        <5>1. PICK k \in DOMAIN captured[w] : captured[w][k].file = g BY <4>1 DEF CapturedFiles
        <5>2. Before(g) = captured[w][k].content BY <2>3, <2>4, <5>1 DEF Remembers
        <5>3. Before(g)' = captured[w][k].content BY <2>5, <3>2, <3>4, <5>1 DEF Remembers
        <5> QED BY <5>2, <5>3
      <4>2. CASE g \notin CapturedFiles(w)
        <5>1. \A v \in Workers : g \notin CapturedFiles(v) BY <2>17, <3>2, <4>2
        <5>2. \A v \in Workers : g \notin CapturedFiles(v)' BY <3>2, <5>1 DEF CapturedFiles
        <5>3. Before(g) = disk[g] /\ Before(g)' = disk'[g] BY <2>4, <2>5, <5>1, <5>2 DEF Remembers
        <5> QED BY <3>2, <3>3, <4>2, <5>3
      <4> QED BY <4>1, <4>2
    <3>7. pc' = [pc EXCEPT ![w] = "open"] /\ "open" \in Steps BY <2>2, <3>2 DEF Steps
    <3> QED BY <2>7, <2>6, <3>2, <3>4, <3>5, <3>6, <3>7
  <2>22. ASSUME NEW w \in Workers, CommitNothing(w) PROVE Reversible'
    <3>1. pc[w] = "open" /\ DOMAIN Changes(w) = {} /\ Discard(w) /\ Ends(w, Gone(w)) /\ disk' = disk
      BY <2>22 DEF CommitNothing, Finished
    <3>2. meta' = meta BY <2>1, <3>1, NumberGoes
    <3>3. ASSUME NEW f \in Files PROVE disk'[f] = Before(f)
      <4>1. CASE f \in CapturedFiles(w)
        <5>1. PICK k \in DOMAIN captured[w] : captured[w][k].file = f /\ disk[f] = captured[w][k].content
          BY <3>1, <4>1, CommitKinds
        <5>2. Before(f) = captured[w][k].content BY <2>3, <2>4, <5>1 DEF Remembers
        <5> QED BY <3>1, <5>1, <5>2
      <4>2. CASE f \notin CapturedFiles(w) BY <2>4, <2>17, <3>1, <4>2 DEF Remembers
      <4> QED BY <4>1, <4>2
    <3> QED BY <2>15, <3>1, <3>2, <3>3
  <2>23. ASSUME NEW w \in Workers, Recorded(w) PROVE Reversible'
    <3>1. /\ pc[w] = "recording" /\ pc' = [pc EXCEPT ![w] = "recorded"] /\ UNCHANGED <<disk, undoes>>
          /\ captured' = [captured EXCEPT ![w] = <<>>]
      BY <2>23 DEF Recorded
    <3>2. pc'[w] = "recorded" /\ captured'[w] = <<>> /\ \A v \in Workers \ {w} : captured'[v] = captured[v]
      BY <2>2, <3>1 DEF Steps
    <3>3. \A v \in Workers \ {w} : (Tidy(v) /\ PutsBack(v))' /\ captured'[v] = <<>>
      BY <3>1, <3>2, OthersTidy DEF Steps
    <3>4. Tidy(w)' BY <3>2 DEF Tidy
    <3>5. \A v \in Workers : CapturedFiles(v)' = {} BY <3>2, <3>3 DEF CapturedFiles
    <3>6. \A f \in Files : Before(f)' = disk[f] BY <2>5, <3>1, <3>5 DEF Remembers
    <3>7. /\ DOMAIN todo[w] = {} /\ Pending(w) \notin Listed
          /\ \A i \in Ids : meta'[i] = IF i = Pending(w) THEN Record(w) ELSE meta[i]
      BY <2>23, RecordIs
    <3>8. PutsBack(w)'
      <4>1. \A i \in Listed : i \in Listed' /\ meta'[i] = meta[i] BY <3>7 DEF Listed
      <4>2. todo' = todo BY <2>23 DEF Recorded
      <4> QED BY <2>3, <3>1, <4>1, <4>2 DEF PutsBack
    <3> QED BY <2>23, <3>3, <3>4, <3>6, <3>8, CommitReversible
  <2>24. ASSUME NEW w \in Workers, CommitRaises(w) PROVE FALSE
    BY <2>1, <2>24, Numbered DEF CommitRaises, Finished, Holding
  <2>25. ASSUME NEW w \in Workers, RecordRaises(w) PROVE FALSE
    BY <2>25 DEF RecordRaises, Orderly, Kinds, FileKinds
  <2>26. ASSUME NEW w \in Workers, Fail(w) PROVE Reversible'
    <3>1. pc[w] \in {"open", "storing"} BY <2>26 DEF Fail
    <3>2. Covered(w) BY <2>1, <3>1 DEF InHand, Fit, Holding
    <3>3. {k \in DOMAIN captured[w] :
             /\ captured[w][k].content # Absent
             /\ ~Named(Pending(w), captured[w][k].content)} = {}
      BY <3>2 DEF Covered, Named
    <3>4. PutBack(w, DOMAIN captured[w]) /\ Discard(w) /\ Ends(w, Gone(w))
      <4>1. PICK lost : /\ lost = {}
                        /\ PutBack(w, {k \in DOMAIN captured[w] : \A l \in lost : k < l})
                        /\ Discard(w) /\ Ends(w, Gone(w))
        BY <2>26, <3>3 DEF Fail
      <4>2. {k \in DOMAIN captured[w] : \A l \in lost : k < l} = DOMAIN captured[w] BY <4>1
      <4> QED BY <4>1, <4>2
    <3>5. meta' = meta BY <2>1, <3>1, <3>4, NumberGoes
    <3>6. ASSUME NEW f \in Files PROVE disk'[f] = Before(f)
      <4>1. CASE f \in CapturedFiles(w)
        <5>1. PICK k \in DOMAIN captured[w] :
                /\ captured[w][k].file = f
                /\ LET c == captured[w][k].content
                   IN  disk'[f] = IF c = Absent THEN Absent ELSE Copy(Pending(w), c)
          BY <3>4, <4>1 DEF CapturedFiles, PutBack
        <5>2. disk'[f] = captured[w][k].content BY <3>2, <5>1 DEF Covered, Copy
        <5>3. Before(f) = captured[w][k].content BY <2>3, <2>4, <5>1 DEF Remembers
        <5> QED BY <5>2, <5>3
      <4>2. CASE f \notin CapturedFiles(w)
        <5>1. disk'[f] = disk[f] BY <3>4, <4>2 DEF CapturedFiles, PutBack
        <5> QED BY <2>4, <2>17, <3>1, <4>2, <5>1 DEF Remembers
      <4> QED BY <4>1, <4>2
    <3> QED BY <2>15, <3>1, <3>4, <3>5, <3>6
  <2>27. ASSUME NEW f, NEW c, UserEdits(f, c) PROVE FALSE
    BY <2>27 DEF UserEdits, Orderly, Kinds, FileKinds
  <2>28. ~Crash BY DEF Crash, Orderly, Kinds, FileKinds
  <2>29. CASE UNCHANGED vars
    <3>1. UNCHANGED <<disk, meta, pc, todo, undoes, captured>> BY <2>29 DEF vars, store, local
    <3>2. \A v \in Workers : (Tidy(v) /\ PutsBack(v))' BY <2>3, <3>1 DEF Tidy, PutsBack, Listed
    <3> QED BY <2>6, <3>1, <3>2, SameBefore, StaysReversible
  <2> QED BY <2>8, <2>9, <2>11, <2>12, <2>16, <2>21, <2>22, <2>23, <2>24, <2>26, <2>27, <2>28, <2>29,
             <2>13, <2>14, <2>19, <2>20, <2>25 DEF Next, Step
<1> QED BY <1>2, <1>3

(* Everything that is invariant of the journal, whichever way it is used.  *)
AllKept == Kinds /\ InHand /\ PreImagesKept /\ InOrder /\ Reversible

LEMMA AlwaysReversible == Spec => []AllKept
<1>1. Init => AllKept
  BY JournalAssumption, InitKinds, InitInHand, InitReversible DEF AllKept
<1>2. AllKept /\ [Next]_vars => AllKept'
  BY NextKinds, NextInHand, NextInOrder, NextReversible DEF AllKept
<1> QED BY <1>1, <1>2, PTL DEF Spec

(* Between operations these are the files before checkpoint k as the       *)
(* journal's own properties read them.                                     *)
LEMMA BetweenOperations ==
  Kinds /\ Quiet => \A f \in Files, k \in Nat : BackTo(f, k) = Back(k)[f]
<1> SUFFICES ASSUME Kinds, Quiet, NEW f \in Files, NEW k \in Nat PROVE BackTo(f, k) = Back(k)[f]
  OBVIOUS
<1>1. \A w \in Workers : captured[w] = <<>> BY DEF Quiet, Kinds, WorkerKinds, Holding
<1>2. Captures(f) = {} BY <1>1 DEF Captures, Range
<1>3. Before(f) = disk[f] BY <1>2 DEF Before
<1> QED BY <1>3 DEF BackTo, Back

(* While operations come in turn, nobody else is at the files and there is *)
(* room, taking back every checkpoint leads to the files the first one     *)
(* found: no write escapes the journal, and a block that raises leaves     *)
(* nothing behind.                                                         *)
THEOREM WritesGoBack == Spec => []BackToOrigin
<1>1. AllKept => BackToOrigin
  <2> SUFFICES ASSUME AllKept, Orderly, Roomy, Quiet PROVE Back(1) = Start BY DEF BackToOrigin
  <2>1. \A f \in Files : Back(1)[f] = Start[f] BY BetweenOperations DEF AllKept, Reversible
  <2>2. Back(1) = [f \in Files |-> Back(1)[f]] BY DEF Back
  <2>3. Start = [f \in Files |-> Start[f]] BY JournalAssumption DEF JournalAssumption
  <2> QED BY <2>1, <2>2, <2>3
<1> QED BY <1>1, AlwaysReversible, PTL

(* Under the same conditions an undo that is done has put every file of    *)
(* its checkpoint back to what it was before it, whatever else was done    *)
(* and undone in between.                                                  *)
THEOREM UndoWorks == Spec => []UndoPutsBack
<1>1. AllKept => UndoPutsBack
  <2> SUFFICES ASSUME AllKept, Orderly, Roomy, Quiet, NEW u \in Listed,
                      meta[u].undoes \in Listed \ {u}, NEW f \in DOMAIN meta[meta[u].undoes].changes
               PROVE  Back(u + 1)[f] = meta[meta[u].undoes].changes[f].pre
    BY DEF UndoPutsBack
  <2>1. BackTo(f, u + 1) = meta[meta[u].undoes].changes[f].pre BY DEF AllKept, Reversible, Undone
  <2>2. f \in Files BY DEF AllKept, Kinds, StoreKinds, IsRecord, Listed, None, Torn
  <2>3. u + 1 \in Nat BY JournalAssumption DEF JournalAssumption, Listed, Ids
  <2>4. BackTo(f, u + 1) = Back(u + 1)[f] BY <2>2, <2>3, BetweenOperations DEF AllKept
  <2> QED BY <2>1, <2>4
<1> QED BY <1>1, AlwaysReversible, PTL

-----------------------------------------------------------------------------
(* The files the tools change, for any texts, diffs and edits.  First what *)
(* one hunk does to the lines of a text: it takes out lines it names and   *)
(* puts in its own.                                                        *)
LEMMA Pieces ==
  ASSUME NEW S, NEW t \in Seq(S), NEW at \in 0 .. Len(t), NEW to \in at .. Len(t)
  PROVE  LET a == SubSeq(t, 1, at)
             b == SubSeq(t, at + 1, to)
             c == SubSeq(t, to + 1, Len(t))
         IN  /\ a \in Seq(S) /\ b \in Seq(S) /\ c \in Seq(S)
             /\ Range(t) = Range(a) \cup Range(b) \cup Range(c)
<1> DEFINE a == SubSeq(t, 1, at)
           b == SubSeq(t, at + 1, to)
           c == SubSeq(t, to + 1, Len(t))
           ab == SubSeq(t, 1, to)
<1>1. Len(t) \in Nat /\ \A i \in 1 .. Len(t) : t[i] \in S BY LenProperties, ElementOfSeq
<1>2. a \in Seq(S) /\ b \in Seq(S) /\ c \in Seq(S) /\ ab \in Seq(S)
  <2>1. \A i \in 1 .. at : t[i] \in S BY <1>1
  <2>2. \A i \in at + 1 .. to : t[i] \in S BY <1>1
  <2>3. \A i \in to + 1 .. Len(t) : t[i] \in S BY <1>1
  <2>4. \A i \in 1 .. to : t[i] \in S BY <1>1
  <2> QED BY <1>1, <2>1, <2>2, <2>3, <2>4, SubSeqProperties
<1>3. ab = a \o b
  <2>1. 1 \in 1 .. Len(t) + 1 /\ at \in 1 - 1 .. Len(t) /\ to \in at .. Len(t) BY <1>1
  <2> QED BY <2>1, ConcatAdjacentSubSeq
<1>4. t = ab \o c
  <2>1. 1 \in 1 .. Len(t) + 1 /\ to \in 1 - 1 .. Len(t) /\ Len(t) \in to .. Len(t) BY <1>1
  <2>2. SubSeq(t, 1, to) \o SubSeq(t, to + 1, Len(t)) = SubSeq(t, 1, Len(t))
    BY <2>1, ConcatAdjacentSubSeq
  <2> QED BY <2>2, SubSeqFull
<1>5. Range(ab) = Range(a) \cup Range(b)
  <2> HIDE DEF a, b, ab
  <2> QED BY <1>2, <1>3, RangeConcatenation
<1>6. Range(t) = Range(ab) \cup Range(c)
  <2> HIDE DEF c, ab
  <2> QED BY <1>2, <1>4, RangeConcatenation
<1> QED BY <1>2, <1>5, <1>6

LEMMA Replaced ==
  ASSUME NEW S, NEW t \in Seq(S), NEW new \in Seq(S), NEW old \in Seq(S),
         NEW at \in 0 .. Len(t), at + Len(old) <= Len(t)
  PROVE  LET r == ReplaceSubSeqAt(at + 1, new, old, t)
             b == SubSeq(t, at + 1, at + Len(old))
         IN  /\ r \in Seq(S)
             /\ Range(r) \subseteq Range(t) \cup Range(new)
             /\ Range(new) \subseteq Range(r)
             /\ Range(t) \subseteq Range(r) \cup Range(b)
<1> DEFINE to == at + Len(old)
           a == SubSeq(t, 1, at)
           b == SubSeq(t, at + 1, to)
           c == SubSeq(t, to + 1, Len(t))
           r == ReplaceSubSeqAt(at + 1, new, old, t)
<1>1. Len(t) \in Nat /\ Len(old) \in Nat BY LenProperties
<1>2. to \in at .. Len(t) BY <1>1
<1>3. /\ a \in Seq(S) /\ b \in Seq(S) /\ c \in Seq(S)
      /\ Range(t) = Range(a) \cup Range(b) \cup Range(c)
  <2> HIDE DEF to
  <2> QED BY <1>2, Pieces
<1>4. r = (a \o new) \o c
  <2>1. (at + 1) - 1 = at /\ (at + 1) + Len(old) = to + 1 BY <1>1
  <2>2. r = SubSeq(t, 1, (at + 1) - 1) \o new \o SubSeq(t, (at + 1) + Len(old), Len(t))
    BY DEF ReplaceSubSeqAt
  <2> HIDE DEF r, to
  <2> QED BY <2>1, <2>2
<1> HIDE DEF a, b, c, r
<1>5. a \o new \in Seq(S) /\ Range(a \o new) = Range(a) \cup Range(new)
  BY <1>3, RangeConcatenation, ConcatProperties
<1>6. r \in Seq(S) /\ Range(r) = Range(a) \cup Range(new) \cup Range(c)
  <2> DEFINE an == a \o new
  <2>1. an \in Seq(S) /\ Range(an) = Range(a) \cup Range(new) /\ r = an \o c BY <1>4, <1>5
  <2> HIDE DEF an
  <2>2. r \in Seq(S) BY <1>3, <2>1, ConcatProperties
  <2>3. Range(r) = Range(an) \cup Range(c) BY <1>3, <2>1, RangeConcatenation
  <2> QED BY <2>1, <2>2, <2>3
<1>7. /\ r \in Seq(S) /\ Range(r) \subseteq Range(t) \cup Range(new)
      /\ Range(new) \subseteq Range(r) /\ Range(t) \subseteq Range(r) \cup Range(b)
  BY <1>3, <1>6
<1> QED BY <1>7 DEF r, b

(* Where a hunk is put: within the text, and where its lines are.          *)
LEMMA NearestIsThere ==
  ASSUME NEW places \in SUBSET Nat, places # {}, NEW stated \in Nat
  PROVE  Nearest(places, stated) \in places
<1> DEFINE Far(at) == IF at < stated THEN 2 * (stated - at) - 1 ELSE 2 * (at - stated)
           I == {Far(at) : at \in places}
<1>1. \A at \in places : Far(at) \in Nat
  <2> SUFFICES ASSUME NEW at \in places PROVE Far(at) \in Nat OBVIOUS
  <2>1. at \in Nat OBVIOUS
  <2> QED BY <2>1
<1>2. I \in SUBSET Nat /\ I # {} BY <1>1
<1>3. Min(I) \in I /\ \A i \in I : Min(I) <= i
  <2> HIDE DEF I
  <2> QED BY <1>2, LeastOf
<1>4. PICK at \in places : Min(I) = Far(at) BY <1>3
<1>5. \A other \in places : Far(at) <= Far(other) BY <1>3, <1>4
<1>6. Nearest(places, stated) = CHOOSE x \in places : \A other \in places : Far(x) <= Far(other)
  BY DEF Nearest
<1> HIDE DEF Far
<1> QED BY <1>5, <1>6

LEMMA Located ==
  ASSUME NEW body \in Seq(Lines), NEW start \in Int, NEW old \in Seq(Lines),
         Locate(body, start, old) # {}
  PROVE  LET at == Place(Locate(body, start, old))
         IN  /\ at \in 0 .. Len(body) /\ at + Len(old) <= Len(body)
             /\ SubSeq(body, at + 1, at + Len(old)) = old
<1> DEFINE stated == Stated(start)
           places == {at \in 0 .. Len(body) : /\ Fits(body, old, at)
                                               /\ at - stated \in -Window .. Window}
           here == Locate(body, start, old)
<1>1. Len(body) \in Nat /\ Len(old) \in Nat BY LenProperties
<1>2. stated \in Nat BY DEF Stated
<1>3. CASE old = <<>>
  <2> DEFINE m == Min({stated, Len(body)})
  <2>1. m \in {stated, Len(body)} /\ m <= Len(body)
    <3> DEFINE I == {stated, Len(body)}
    <3>1. I \in SUBSET Nat /\ I # {} /\ Len(body) \in I BY <1>1, <1>2
    <3> HIDE DEF I
    <3>2. Min(I) \in I /\ \A i \in I : Min(I) <= i BY <3>1, LeastOf
    <3> QED BY <3>1, <3>2 DEF I
  <2>2. m \in 0 .. Len(body) BY <1>1, <1>2, <2>1
  <2>3. here = {m} BY <1>3 DEF Locate
  <2> HIDE DEF m, here
  <2>4. Place(here) = m BY <2>3 DEF Place
  <2>5. Len(old) = 0 BY <1>3
  <2>6. SubSeq(body, m + 1, m + 0) = <<>>
    <3>1. m + 1 \in Int /\ m + 0 \in Int /\ m + 0 < m + 1 BY <2>2
    <3> QED BY <3>1, SubSeqEmpty
  <2>7. m + Len(old) <= Len(body) BY <1>1, <2>2, <2>5
  <2>8. SubSeq(body, m + 1, m + Len(old)) = old BY <1>3, <2>5, <2>6
  <2> QED BY <2>2, <2>4, <2>7, <2>8 DEF here
<1>4. CASE old # <<>>
  <2>1. places # {} /\ here = {Nearest(places, stated)} BY <1>4 DEF Locate
  <2>2. places \in SUBSET Nat BY <1>1
  <2> DEFINE n == Nearest(places, stated)
  <2>3. n \in places
    <3> HIDE DEF places, stated
    <3> QED BY <1>2, <2>1, <2>2, NearestIsThere
  <2>4. n \in 0 .. Len(body) /\ Fits(body, old, n)
    <3> HIDE DEF n, stated
    <3> QED BY <2>3
  <2> HIDE DEF n, here
  <2>5. Place(here) = n BY <2>1 DEF Place, n
  <2> QED BY <2>4, <2>5 DEF Fits, here
<1> QED BY <1>3, <1>4

-----------------------------------------------------------------------------
(* A hunk that has its place, and one after the other.                     *)
Hunks    == [start : Int, at : Nat, old : Seq(Lines), new : Seq(Lines \ {Theirs})]
Progress == [lines : Seq(Lines), drift : Int, refused : BOOLEAN]

LEMMA HunkDone ==
  ASSUME NEW done \in Progress, NEW hunk \in Hunks
  PROVE  LET then == ApplyHunk(done, hunk)
         IN  /\ then \in Progress
             /\ ~then.refused =>
                  /\ ~done.refused
                  /\ Theirs \in Range(then.lines) => Theirs \in Range(done.lines)
                  /\ Theirs \in Range(done.lines) =>
                       Theirs \in Range(hunk.old) \cup Range(then.lines)
<1> DEFINE start == hunk.start + done.drift
           here == Locate(done.lines, start, hunk.old)
           at == Place(here)
           then == ApplyHunk(done, hunk)
           body == ReplaceSubSeqAt(at + 1, hunk.new, hunk.old, done.lines)
<1>1. /\ done = [lines |-> done.lines, drift |-> done.drift, refused |-> done.refused]
      /\ done.lines \in Seq(Lines) /\ done.drift \in Int /\ done.refused \in BOOLEAN
  BY DEF Progress
<1>2. /\ hunk.start \in Int /\ hunk.old \in Seq(Lines)
      /\ hunk.new \in Seq(Lines \ {Theirs}) BY DEF Hunks
<1>3. hunk.new \in Seq(Lines) /\ Theirs \notin Range(hunk.new)
  BY <1>2, SeqMonotonic, RangeOfSeq
<1>4. start \in Int BY <1>1, <1>2
<1>5. CASE done.refused \/ here = {}
  <2>1. then = [done EXCEPT !.refused = TRUE] BY <1>5 DEF ApplyHunk
  <2> HIDE DEF then
  <2>2. then = [lines |-> done.lines, drift |-> done.drift, refused |-> TRUE] BY <1>1, <2>1
  <2>3. then \in Progress /\ then.refused BY <1>1, <2>2 DEF Progress
  <2> QED BY <2>3 DEF then
<1>6. CASE ~(done.refused \/ here = {})
  <2>1. then = [done EXCEPT !.lines = body, !.drift = @ + Len(hunk.new) - Len(hunk.old)]
    BY <1>1, <1>6 DEF ApplyHunk
  <2>2. /\ at \in 0 .. Len(done.lines) /\ at + Len(hunk.old) <= Len(done.lines)
        /\ SubSeq(done.lines, at + 1, at + Len(hunk.old)) = hunk.old
    <3> HIDE DEF start
    <3> QED BY <1>1, <1>2, <1>4, <1>6, Located
  <2> HIDE DEF at
  <2>3. /\ body \in Seq(Lines)
        /\ Range(body) \subseteq Range(done.lines) \cup Range(hunk.new)
        /\ Range(done.lines) \subseteq Range(body) \cup Range(hunk.old)
    BY <1>1, <1>2, <1>3, <2>2, Replaced
  <2> HIDE DEF body
  <2>4. Len(hunk.new) \in Nat /\ Len(hunk.old) \in Nat BY <1>2, <1>3, LenProperties
  <2> DEFINE drift == done.drift + Len(hunk.new) - Len(hunk.old)
  <2>5. drift \in Int
    <3>1. \A i \in Int : \A j, k \in Nat : i + j - k \in Int OBVIOUS
    <3> QED BY <1>1, <2>4, <3>1
  <2> HIDE DEF then
  <2>6. then = [lines |-> body, drift |-> drift, refused |-> FALSE] BY <1>1, <1>6, <2>1
  <2> HIDE DEF drift
  <2>7. then \in Progress /\ then.lines = body BY <2>3, <2>5, <2>6 DEF Progress
  <2>8. /\ Theirs \in Range(body) => Theirs \in Range(done.lines)
        /\ Theirs \in Range(done.lines) => Theirs \in Range(hunk.old) \cup Range(body)
    BY <1>3, <2>3
  <2> QED BY <1>6, <2>7, <2>8 DEF then
<1> QED BY <1>5, <1>6

(* A number that is reached from zero, one after the other.                *)
LEMMA Climbs ==
  ASSUME NEW n \in Nat, NEW S, 0 \in S, \A k \in 1 .. n : k - 1 \in S => k \in S
  PROVE  0 .. n \subseteq S
<1> DEFINE Bad == {k \in 0 .. n : k \notin S}
<1>1. ASSUME Bad # {} PROVE FALSE
  <2>1. Bad \in SUBSET Nat OBVIOUS
  <2> DEFINE m == Min(Bad)
  <2>2. m \in Bad /\ \A i \in Bad : m <= i
    <3> HIDE DEF Bad
    <3> QED BY <1>1, <2>1, LeastOf
  <2> HIDE DEF m
  <2>3. m \in 1 .. n /\ m \notin S /\ m - 1 \in 0 .. n BY <2>2
  <2>4. m - 1 \in S
    <3>1. ~(m <= m - 1) BY <2>3
    <3>2. m - 1 \notin Bad BY <2>2, <3>1
    <3> QED BY <2>3, <3>2
  <2> QED BY <2>3, <2>4
<1> QED BY <1>1

Stepwise(n, V, base, step) == n \in Nat /\ base \in V /\ step \in [1 .. n -> [V -> V]]

LEMMA StepByStep ==
  ASSUME NEW n, NEW V, NEW base, NEW step, Stepwise(n, V, base, step)
  PROVE  \E f \in [0 .. n -> V] : f[0] = base /\ \A k \in 1 .. n : f[k] = step[k][f[k - 1]]
<1> USE DEF Stepwise
<1> DEFINE Goes(f, m) == /\ f \in [0 .. m -> V]
                         /\ f[0] = base
                         /\ \A k \in 1 .. m : f[k] = step[k][f[k - 1]]
           S == {m \in 0 .. n : \E f : Goes(f, m)}
<1>1. 0 \in S
  <2> DEFINE g == [i \in 0 .. 0 |-> base]
  <2>1. g \in [0 .. 0 -> V] /\ g[0] = base OBVIOUS
  <2>2. 1 .. 0 = {} /\ 0 \in 0 .. n OBVIOUS
  <2> HIDE DEF g
  <2>3. Goes(g, 0) BY <2>1, <2>2
  <2> QED BY <2>2, <2>3
<1>2. ASSUME NEW k \in 1 .. n, k - 1 \in S PROVE k \in S
  <2>1. k \in Nat /\ k - 1 \in Nat /\ k \in 0 .. n /\ k - 1 + 1 = k /\ k # 0 OBVIOUS
  <2>2. PICK f : Goes(f, k - 1) BY <1>2
  <2> DEFINE g == [i \in 0 .. k |-> IF i = k THEN step[k][f[k - 1]] ELSE f[i]]
  <2>3. f[k - 1] \in V
    <3>1. k - 1 \in 0 .. k - 1 BY <2>1
    <3> QED BY <2>2, <3>1
  <2>4. step[k][f[k - 1]] \in V BY <2>3
  <2>5. \A i \in 0 .. k : i # k => i \in 0 .. k - 1 BY <2>1
  <2>6. g \in [0 .. k -> V] BY <2>2, <2>4, <2>5
  <2>7. g[0] = base BY <2>1, <2>2
  <2>8. ASSUME NEW i \in 1 .. k PROVE g[i] = step[i][g[i - 1]]
    <3>1. i - 1 \in 0 .. k /\ i \in 0 .. k /\ i - 1 # k OBVIOUS
    <3>2. g[i - 1] = f[i - 1] BY <3>1
    <3>3. CASE i = k BY <3>1, <3>2, <3>3
    <3>4. CASE i # k
      <4>1. i \in 1 .. k - 1 BY <3>4
      <4>2. f[i] = step[i][f[i - 1]] BY <2>2, <4>1
      <4> QED BY <3>1, <3>2, <3>4, <4>2
    <3> QED BY <3>3, <3>4
  <2>9. Goes(g, k)
    <3> HIDE DEF g
    <3> QED BY <2>6, <2>7, <2>8
  <2> QED BY <2>1, <2>9
<1>3. 0 .. n \subseteq S
  <2> HIDE DEF S
  <2> QED BY <1>1, <1>2, Climbs
<1>4. n \in S BY <1>3
<1> QED BY <1>4

(* What hunks do, one after the other.                                     *)
HunkByHunk(g, hunks, body) ==
  /\ g[0] = [lines |-> body, drift |-> 0, refused |-> FALSE]
  /\ \A k \in 1 .. Len(hunks) : g[k] = ApplyHunk(g[k - 1], hunks[k])

LEMMA HunksInTurn ==
  ASSUME NEW hunks \in Seq(Hunks), NEW body \in Seq(Lines)
  PROVE  \E g : HunkByHunk(g, hunks, body) /\ Hunked(hunks, body) = g[Len(hunks)]
<1> DEFINE n == Len(hunks)
           base == [lines |-> body, drift |-> 0, refused |-> FALSE]
           step == [k \in 1 .. n |-> [d \in Progress |-> ApplyHunk(d, hunks[k])]]
<1>1. n \in Nat /\ DOMAIN hunks = 1 .. n /\ \A k \in 1 .. n : hunks[k] \in Hunks
  BY LenProperties, ElementOfSeq
<1>2. base \in Progress BY DEF Progress
<1>3. step \in [1 .. n -> [Progress -> Progress]]
  <2>1. \A k \in 1 .. n : \A d \in Progress : ApplyHunk(d, hunks[k]) \in Progress
    BY <1>1, HunkDone
  <2> HIDE DEF n
  <2> QED BY <2>1
<1>4. PICK f \in [0 .. n -> Progress] : f[0] = base /\ \A k \in 1 .. n : f[k] = step[k][f[k - 1]]
  <2> HIDE DEF n, base, step
  <2>1. Stepwise(n, Progress, base, step) BY <1>1, <1>2, <1>3 DEF Stepwise
  <2> QED BY <2>1, StepByStep
<1> DEFINE Body(g, k) == IF k = 0 THEN base ELSE ApplyHunk(g[k - 1], hunks[k])
<1>5. f = [k \in 0 .. n |-> Body(f, k)]
  <2>1. ASSUME NEW k \in 1 .. n PROVE f[k] = ApplyHunk(f[k - 1], hunks[k])
    <3>1. k - 1 \in 0 .. n BY <1>1
    <3>2. f[k - 1] \in Progress BY <1>4, <3>1
    <3>3. step[k][f[k - 1]] = ApplyHunk(f[k - 1], hunks[k]) BY <3>2
    <3> QED BY <1>4, <3>3
  <2>2. \A k \in 0 .. n : k # 0 => k \in 1 .. n BY <1>1
  <2>3. \A k \in 0 .. n : f[k] = Body(f, k)
    <3> HIDE DEF base, n
    <3> QED BY <1>4, <2>1, <2>2
  <2> HIDE DEF Body, n
  <2> QED BY <1>4, <2>3
<1> DEFINE g == CHOOSE done : done = [k \in 0 .. n |-> Body(done, k)]
<1>6. g = [k \in 0 .. n |-> Body(g, k)]
  <2> HIDE DEF Body, n
  <2> QED BY <1>5
<1>7. Hunked(hunks, body) = g[n] BY DEF Hunked
<1> HIDE DEF g
<1>8. \A k \in 0 .. n : g[k] = Body(g, k)
  <2> HIDE DEF Body, n
  <2> QED BY <1>6
<1>9. g[0] = base
  <2>1. 0 \in 0 .. n /\ Body(g, 0) = base BY <1>1
  <2> HIDE DEF Body, n
  <2> QED BY <1>8, <2>1
<1>10. \A k \in 1 .. n : g[k] = ApplyHunk(g[k - 1], hunks[k])
  <2> SUFFICES ASSUME NEW k \in 1 .. n PROVE g[k] = ApplyHunk(g[k - 1], hunks[k]) OBVIOUS
  <2>1. k \in 0 .. n /\ k # 0 BY <1>1
  <2>2. Body(g, k) = ApplyHunk(g[k - 1], hunks[k]) BY <2>1
  <2> HIDE DEF Body, n
  <2> QED BY <1>8, <2>1, <2>2
<1> QED BY <1>7, <1>9, <1>10 DEF HunkByHunk

LEMMA HunksDone ==
  ASSUME NEW hunks \in Seq(Hunks), NEW body \in Seq(Lines)
  PROVE  LET end == Hunked(hunks, body)
         IN  /\ end \in Progress
             /\ ~end.refused =>
                  /\ Theirs \in Range(end.lines) => Theirs \in Range(body)
                  /\ /\ Theirs \in Range(body)
                     /\ \A k \in DOMAIN hunks : Theirs \notin Range(hunks[k].old)
                     => Theirs \in Range(end.lines)
<1> DEFINE n == Len(hunks)
           base == [lines |-> body, drift |-> 0, refused |-> FALSE]
<1>1. n \in Nat /\ DOMAIN hunks = 1 .. n /\ \A k \in 1 .. n : hunks[k] \in Hunks
  BY LenProperties, ElementOfSeq
<1>2. base \in Progress BY DEF Progress
<1>3. PICK g : HunkByHunk(g, hunks, body) /\ Hunked(hunks, body) = g[n] BY HunksInTurn
<1>4. g[0] = base BY <1>3 DEF HunkByHunk
<1>5. \A k \in 1 .. n : g[k] = ApplyHunk(g[k - 1], hunks[k]) BY <1>3 DEF HunkByHunk
<1> DEFINE Spared == \A k \in 1 .. n : Theirs \notin Range(hunks[k].old)
           Fine(d) == /\ d \in Progress
                      /\ ~d.refused =>
                           /\ Theirs \in Range(d.lines) => Theirs \in Range(body)
                           /\ Theirs \in Range(body) /\ Spared => Theirs \in Range(d.lines)
           S == {k \in 0 .. n : Fine(g[k])}
<1>6. 0 \in S
  <2>1. 0 \in 0 .. n BY <1>1
  <2>2. Fine(base) BY <1>2
  <2> QED BY <1>4, <2>1, <2>2
<1>7. ASSUME NEW k \in 1 .. n, k - 1 \in S PROVE k \in S
  <2>1. k \in 0 .. n BY <1>1
  <2>2. Fine(g[k - 1]) BY <1>7
  <2>3. g[k] = ApplyHunk(g[k - 1], hunks[k]) BY <1>5
  <2> DEFINE d == g[k - 1]
             h == hunks[k]
             e == g[k]
  <2>4. d \in Progress /\ h \in Hunks BY <1>1, <2>2
  <2> HIDE DEF d, h, e
  <2>5. e = ApplyHunk(d, h) BY <2>3 DEF d, h, e
  <2>6. /\ e \in Progress
        /\ ~e.refused => /\ ~d.refused
                         /\ Theirs \in Range(e.lines) => Theirs \in Range(d.lines)
                         /\ Theirs \in Range(d.lines) =>
                              Theirs \in Range(h.old) \cup Range(e.lines)
    BY <2>4, <2>5, HunkDone
  <2>7. Spared => Theirs \notin Range(h.old) BY DEF h
  <2>8. Fine(d) BY <2>2 DEF d
  <2>9. Fine(e)
    <3> HIDE DEF Spared
    <3> QED BY <2>6, <2>7, <2>8
  <2> QED BY <2>1, <2>9 DEF e
<1>8. n \in S
  <2>1. 0 .. n \subseteq S
    <3> HIDE DEF S, n
    <3> QED BY <1>1, <1>6, <1>7, Climbs
  <2>2. n \in 0 .. n BY <1>1
  <2> HIDE DEF S, n
  <2> QED BY <2>1, <2>2
<1>9. Fine(Hunked(hunks, body)) BY <1>3, <1>8
<1> QED BY <1>1, <1>9

-----------------------------------------------------------------------------
(* A text loses no line but a blank one when it is put together.           *)
LEMMA LinesJoined ==
  ASSUME FilesAssumption, NEW body \in Seq(Lines), NEW newline \in BOOLEAN
  PROVE  /\ Joined(body, newline) \in Texts
         /\ Theirs \in Range(Joined(body, newline).lines) <=> Theirs \in Range(body)
<1> DEFINE t == Joined(body, newline)
<1>1. Len(body) \in Nat /\ \A i \in 1 .. Len(body) : body[i] \in Lines
  BY LenProperties, ElementOfSeq
<1>2. <<>> \in Seq(Lines) /\ Theirs \notin Range(<<>>) BY EmptySeq DEF Range
<1>3. Blank \in Lines /\ Theirs # Blank BY DEF FilesAssumption
<1>4. CASE body \in {<<>>, <<Blank>>}
  <2>1. t = [lines |-> <<>>, ends |-> FALSE] BY <1>4 DEF Joined, Empty, Text
  <2> HIDE DEF t
  <2>2. t \in Texts /\ t.lines = <<>> BY <1>2, <2>1 DEF Texts
  <2>3. Theirs \notin Range(body)
    <3>1. Range(<<Blank>>) = {Blank} BY DEF Range
    <3> QED BY <1>2, <1>3, <1>4, <3>1
  <2> QED BY <1>2, <2>2, <2>3 DEF t
<1>5. CASE body \notin {<<>>, <<Blank>>} /\ ~newline /\ Last(body) = Blank
  <2> DEFINE front == SubSeq(body, 1, Len(body) - 1)
             last == SubSeq(body, Len(body), Len(body))
             rest == SubSeq(body, Len(body) + 1, Len(body))
  <2>1. t = [lines |-> front, ends |-> TRUE] BY <1>5 DEF Joined, Text, Front
  <2>2. body # <<>> BY <1>5
  <2>3. Len(body) > 0 BY <1>1, <2>2, EmptySeq
  <2>4. /\ front \in Seq(Lines) /\ last \in Seq(Lines) /\ rest \in Seq(Lines)
        /\ Range(body) = Range(front) \cup Range(last) \cup Range(rest)
    <3> DEFINE at == Len(body) - 1
    <3>1. at \in 0 .. Len(body) /\ Len(body) \in at .. Len(body) /\ at + 1 = Len(body)
      BY <1>1, <2>3
    <3> HIDE DEF at
    <3>2. LET a == SubSeq(body, 1, at)
              b == SubSeq(body, at + 1, Len(body))
              c == SubSeq(body, Len(body) + 1, Len(body))
          IN  /\ a \in Seq(Lines) /\ b \in Seq(Lines) /\ c \in Seq(Lines)
              /\ Range(body) = Range(a) \cup Range(b) \cup Range(c)
      BY <3>1, Pieces
    <3> QED BY <3>1, <3>2 DEF at
  <2>5. rest = <<>>
    <3>1. Len(body) + 1 \in Int /\ Len(body) \in Int /\ Len(body) < Len(body) + 1 BY <1>1
    <3> QED BY <3>1, SubSeqEmpty
  <2>6. Range(last) = {Blank}
    <3> DEFINE m == Len(body)
    <3>1. m \in Int /\ \A i \in m .. m : body[i] \in Lines BY <1>1, <2>3
    <3>2. Len(last) = 1 /\ last[1] = body[m]
      <4>1. /\ Len(SubSeq(body, m, m)) = IF m <= m THEN m - m + 1 ELSE 0
            /\ \A i \in 1 .. m - m + 1 : SubSeq(body, m, m)[i] = body[m + i - 1]
        BY <3>1, SubSeqProperties
      <4>2. m - m + 1 = 1 /\ m + 1 - 1 = m /\ m <= m BY <3>1
      <4> DEFINE one == SubSeq(body, m, m)
      <4> HIDE DEF m, one
      <4>3. 1 \in 1 .. m - m + 1 BY <4>2
      <4>4. Len(one) = 1 BY <4>1, <4>2 DEF one
      <4>5. one[1] = body[m + 1 - 1] BY <4>1, <4>3 DEF one
      <4> QED BY <4>2, <4>4, <4>5 DEF one, m
    <3>3. body[m] = Blank BY <1>5 DEF Last
    <3>4. DOMAIN last = 1 .. 1 BY <2>4, <3>2, LenProperties
    <3> HIDE DEF last, m
    <3> QED BY <3>2, <3>3, <3>4 DEF Range
  <2> HIDE DEF t, front, last, rest
  <2>7. t \in Texts /\ t.lines = front BY <2>1, <2>4 DEF Texts
  <2>8. Theirs \in Range(front) <=> Theirs \in Range(body)
    BY <1>2, <1>3, <2>4, <2>5, <2>6
  <2> QED BY <2>7, <2>8 DEF t
<1>6. CASE body \notin {<<>>, <<Blank>>} /\ (newline \/ Last(body) # Blank)
  <2>1. t = [lines |-> body, ends |-> newline] BY <1>6 DEF Joined, Text
  <2> HIDE DEF t
  <2>2. t \in Texts /\ t.lines = body BY <2>1 DEF Texts
  <2> QED BY <2>2 DEF t
<1> QED BY <1>4, <1>5, <1>6

(* What a section makes of a file: what the user wrote there stays if the  *)
(* section does not take it out, and does not come from anywhere else.     *)
Sections == [file : Paths, creates : BOOLEAN, deletes : BOOLEAN, hunks : Seq(Hunks),
             unended : BOOLEAN]

Spares(section) == \A k \in DOMAIN section.hunks : Theirs \notin Range(section.hunks[k].old)

LEMMA SectionDone ==
  ASSUME FilesAssumption, NEW section \in Sections, NEW original \in Texts \cup {NoFile},
         Apply(section, original) # Refused
  PROVE  LET text == Apply(section, original)
         IN  /\ text \in Texts
             /\ Keeps(text) => Keeps(original)
             /\ Keeps(original) /\ Spares(section) => Keeps(text)
<1> DEFINE base == IF original = NoFile THEN Empty ELSE original
           end == Hunked(section.hunks, base.lines)
           newline == (base.ends \/ section.creates) /\ ~section.unended
           text == Apply(section, original)
<1>1. /\ section.hunks \in Seq(Hunks) /\ section.creates \in BOOLEAN
      /\ section.unended \in BOOLEAN BY DEF Sections
<1>2. Empty \in Texts /\ Empty.lines = <<>> /\ Theirs \notin Range(<<>>)
  BY EmptySeq DEF Empty, Text, Texts, Range
<1>3. base \in Texts BY <1>2
<1>4. base.lines \in Seq(Lines) /\ base.ends \in BOOLEAN
  <2> HIDE DEF base
  <2> QED BY <1>3 DEF Texts
<1>5. Theirs \in Range(base.lines) <=> Keeps(original) BY <1>2 DEF Keeps
<1>6. ~end.refused /\ text = Joined(end.lines, newline) BY DEF Apply
<1> HIDE DEF base
<1>7. /\ end \in Progress
      /\ Theirs \in Range(end.lines) => Theirs \in Range(base.lines)
      /\ Theirs \in Range(base.lines) /\ Spares(section) => Theirs \in Range(end.lines)
  BY <1>1, <1>4, <1>6, HunksDone DEF Spares
<1> HIDE DEF end, text
<1>8. newline \in BOOLEAN BY <1>1, <1>4
<1> HIDE DEF newline
<1>9. end.lines \in Seq(Lines) BY <1>7 DEF Progress
<1>10. /\ text \in Texts
       /\ Theirs \in Range(text.lines) <=> Theirs \in Range(end.lines)
  BY <1>6, <1>8, <1>9, LinesJoined
<1>11. text # NoFile BY <1>10 DEF FilesAssumption
<1>12. Keeps(text) <=> Theirs \in Range(end.lines) BY <1>10, <1>11 DEF Keeps
<1>13. /\ text \in Texts /\ (Keeps(text) => Keeps(original))
       /\ Keeps(original) /\ Spares(section) => Keeps(text)
  BY <1>5, <1>7, <1>10, <1>12
<1> QED BY <1>13 DEF text

-----------------------------------------------------------------------------
(* What a caller hands over was made of what it has seen.                  *)
MaybeText == Texts \cup {NoFile}
Trees     == [Paths -> MaybeText]

LEMMA HunkMade ==
  ASSUME NEW body \in Seq(Lines), NEW at \in 0 .. Len(body), NEW to \in at .. Len(body),
         NEW new \in Seq(Lines \ {Theirs}), NEW off \in Int
  PROVE  LET h == HunkAt(body, at, to, new, off)
         IN  h \in Hunks /\ Range(h.old) \subseteq Range(body)
<1> DEFINE old == SubSeq(body, at + 1, to)
           first == (IF at = to THEN at ELSE at + 1) + off
           start == IF first > 0 THEN first ELSE 0
           h == HunkAt(body, at, to, new, off)
<1>1. old \in Seq(Lines) /\ Range(old) \subseteq Range(body) BY Pieces
<1>2. at \in Nat /\ start \in Int
  <2>1. at \in Nat /\ first \in Int BY LenProperties
  <2> QED BY <2>1
<1>3. h = [start |-> start, at |-> at, old |-> old, new |-> new] BY DEF HunkAt
<1> HIDE DEF h, old, start
<1>4. h \in Hunks /\ h.old = old BY <1>1, <1>2, <1>3 DEF Hunks
<1> QED BY <1>1, <1>4 DEF h

LEMMA HunksMade ==
  ASSUME FilesAssumption, NEW body \in Seq(Lines), NEW off \in Int,
         NEW hunks \in HunksOf(body, off)
  PROVE  /\ hunks \in Seq(Hunks)
         /\ \A k \in DOMAIN hunks : Range(hunks[k].old) \subseteq Range(body)
<1> DEFINE Spans == {s \in (0 .. Len(body)) \X (0 .. Len(body)) : s[1] <= s[2]}
           Proper(h) == h \in Hunks /\ Range(h.old) \subseteq Range(body)
<1>1. Ours \subseteq Seq(Lines \ {Theirs}) BY DEF FilesAssumption
<1>2. \A s \in Spans : \A new \in Ours : Proper(HunkAt(body, s[1], s[2], new, off))
  <2> SUFFICES ASSUME NEW s \in Spans, NEW new \in Ours
               PROVE  Proper(HunkAt(body, s[1], s[2], new, off))
    OBVIOUS
  <2>1. Len(body) \in Nat BY LenProperties
  <2>2. s[1] \in 0 .. Len(body) /\ s[2] \in s[1] .. Len(body) BY <2>1
  <2>3. new \in Seq(Lines \ {Theirs}) BY <1>1
  <2> QED BY <2>2, <2>3, HunkMade
<1>3. \/ \E s \in Spans : \E new \in Ours : hunks = <<HunkAt(body, s[1], s[2], new, off)>>
      \/ \E p \in Spans \X Spans : \E new \in Ours \X Ours :
           hunks = <<HunkAt(body, p[1][1], p[1][2], new[1], off),
                     HunkAt(body, p[2][1], p[2][2], new[2], off)>>
  BY DEF HunksOf
<1> HIDE DEF Spans
<1>4. \/ \E h : Proper(h) /\ hunks = <<h>>
      \/ \E g, h : Proper(g) /\ Proper(h) /\ hunks = <<g, h>>
  <2>1. ASSUME NEW s \in Spans, NEW new \in Ours, hunks = <<HunkAt(body, s[1], s[2], new, off)>>
        PROVE  \E h : Proper(h) /\ hunks = <<h>>
    BY <1>2, <2>1
  <2>2. ASSUME NEW p \in Spans \X Spans, NEW new \in Ours \X Ours,
               hunks = <<HunkAt(body, p[1][1], p[1][2], new[1], off),
                         HunkAt(body, p[2][1], p[2][2], new[2], off)>>
        PROVE  \E g, h : Proper(g) /\ Proper(h) /\ hunks = <<g, h>>
    <3>1. p[1] \in Spans /\ p[2] \in Spans /\ new[1] \in Ours /\ new[2] \in Ours OBVIOUS
    <3>2. /\ Proper(HunkAt(body, p[1][1], p[1][2], new[1], off))
          /\ Proper(HunkAt(body, p[2][1], p[2][2], new[2], off)) BY <1>2, <3>1
    <3> HIDE DEF Proper
    <3> QED BY <2>2, <3>2
  <2> HIDE DEF Proper
  <2> QED BY <1>3, <2>1, <2>2
<1>5. ASSUME NEW h, Proper(h), hunks = <<h>>
      PROVE  hunks \in Seq(Hunks) /\ \A k \in DOMAIN hunks : Proper(hunks[k])
  <2>1. DOMAIN hunks = 1 .. 1 /\ hunks[1] = h BY <1>5
  <2> QED BY <1>5, <2>1
<1>6. ASSUME NEW g, NEW h, Proper(g), Proper(h), hunks = <<g, h>>
      PROVE  hunks \in Seq(Hunks) /\ \A k \in DOMAIN hunks : Proper(hunks[k])
  <2>1. DOMAIN hunks = 1 .. 2 /\ hunks[1] = g /\ hunks[2] = h BY <1>6
  <2> QED BY <1>6, <2>1
<1>7. hunks \in Seq(Hunks) /\ \A k \in DOMAIN hunks : Proper(hunks[k])
  <2> HIDE DEF Proper
  <2> QED BY <1>4, <1>5, <1>6
<1> QED BY <1>7

OfSeen(s) == s \in Sections /\ (~Keeps(seen[s.file]) => Spares(s))

LEMMA SectionMade ==
  ASSUME FilesAssumption, seen \in Trees, NEW f \in Paths, NEW off \in Int,
         NEW s \in SectionsOf(f, off)
  PROVE  OfSeen(s)
<1> DEFINE text == IF seen[f] = NoFile THEN Empty ELSE seen[f]
<1>1. Empty \in Texts /\ Theirs \notin Range(Empty.lines)
  BY EmptySeq DEF Empty, Text, Texts, Range
<1>2. text \in Texts BY <1>1 DEF Trees, MaybeText
<1>3. text.lines \in Seq(Lines)
  <2> HIDE DEF text
  <2> QED BY <1>2 DEF Texts
<1>4. ~Keeps(seen[f]) => Theirs \notin Range(text.lines) BY <1>1 DEF Keeps
<1>5. s \in [file : {f}, creates : {seen[f] = NoFile}, deletes : {FALSE},
             hunks : HunksOf(text.lines, off), unended : BOOLEAN]
  BY DEF SectionsOf
<1> HIDE DEF text
<1>6. /\ s = [file |-> s.file, creates |-> s.creates, deletes |-> s.deletes,
              hunks |-> s.hunks, unended |-> s.unended]
      /\ s.file = f /\ s.creates \in BOOLEAN /\ s.deletes \in BOOLEAN
      /\ s.unended \in BOOLEAN /\ s.hunks \in HunksOf(text.lines, off)
  BY <1>5
<1>7. /\ s.hunks \in Seq(Hunks)
      /\ \A k \in DOMAIN s.hunks : Range(s.hunks[k].old) \subseteq Range(text.lines)
  BY <1>3, <1>6, HunksMade
<1>8. s \in Sections BY <1>6, <1>7 DEF Sections
<1>9. ~Keeps(seen[s.file]) => Spares(s)
  <2> SUFFICES ASSUME ~Keeps(seen[s.file]), NEW k \in DOMAIN s.hunks
               PROVE  Theirs \notin Range(s.hunks[k].old)
    BY DEF Spares
  <2>1. Theirs \notin Range(text.lines) BY <1>4, <1>6
  <2>2. Range(s.hunks[k].old) \subseteq Range(text.lines) BY <1>7
  <2> QED BY <2>1, <2>2
<1> QED BY <1>8, <1>9 DEF OfSeen

LEMMA DeletionMade ==
  ASSUME seen \in Trees, NEW f \in Paths, seen[f] # NoFile
  PROVE  OfSeen(Deletion(f))
<1> DEFINE body == seen[f].lines
           h == HunkAt(body, 0, Len(body), <<>>, 0)
           s == Deletion(f)
<1>1. seen[f] \in Texts BY DEF Trees, MaybeText
<1>2. body \in Seq(Lines) BY <1>1 DEF Texts
<1>3. <<>> \in Seq(Lines \ {Theirs}) BY EmptySeq
<1> HIDE DEF body
<1>4. Len(body) \in Nat BY <1>2, LenProperties
<1>5. h \in Hunks /\ Range(h.old) \subseteq Range(body)
  <2>1. 0 \in 0 .. Len(body) /\ Len(body) \in 0 .. Len(body) /\ 0 \in Int BY <1>4
  <2> QED BY <1>2, <1>3, <2>1, HunkMade
<1>6. s = [file |-> f, creates |-> FALSE, deletes |-> TRUE, unended |-> FALSE, hunks |-> <<h>>]
  BY DEF Deletion, body
<1> HIDE DEF h, s
<1>7. s \in Sections BY <1>5, <1>6 DEF Sections
<1>8. Theirs \notin Range(body) => Spares(s)
  <2>1. s.hunks = <<h>> BY <1>6
  <2>2. \A k \in DOMAIN s.hunks : s.hunks[k] = h BY <2>1
  <2> QED BY <1>5, <2>2 DEF Spares
<1>9. s.file = f BY <1>6
<1>10. ~Keeps(seen[f]) => Theirs \notin Range(body) BY DEF Keeps, body
<1>11. OfSeen(s) BY <1>7, <1>8, <1>9, <1>10 DEF OfSeen
<1> QED BY <1>11 DEF s

LEMMA PatchMade ==
  ASSUME FilesAssumption, seen \in Trees, NEW sections \in Patches
  PROVE  sections \in Seq(Sections) /\ \A k \in DOMAIN sections : OfSeen(sections[k])
<1> DEFINE Short == {s \in UNION {SectionsOf(f, 0) : f \in Paths} : Len(s.hunks) = 1}
<1>1. Miscounts \subseteq Int /\ 0 \in Int BY DEF FilesAssumption
<1>2. \/ \E off \in Miscounts : \E f \in Paths : \E s \in SectionsOf(f, off) : sections = <<s>>
      \/ \E s, t \in Short : sections = <<s, t>>
      \/ \E f \in Paths : seen[f] # NoFile /\ sections = <<Deletion(f)>>
  BY DEF Patches
<1>3. \A s \in Short : OfSeen(s) BY <1>1, SectionMade
<1> HIDE DEF Short
<1>4. \/ \E s : OfSeen(s) /\ sections = <<s>>
      \/ \E s, t : OfSeen(s) /\ OfSeen(t) /\ sections = <<s, t>>
  <2>1. ASSUME NEW off \in Miscounts, NEW f \in Paths, NEW s \in SectionsOf(f, off), sections = <<s>>
        PROVE  \E r : OfSeen(r) /\ sections = <<r>>
    <3>1. OfSeen(s) BY <1>1, SectionMade
    <3> QED BY <2>1, <3>1
  <2>2. ASSUME NEW f \in Paths, seen[f] # NoFile, sections = <<Deletion(f)>>
        PROVE  \E r : OfSeen(r) /\ sections = <<r>>
    <3>1. OfSeen(Deletion(f)) BY <2>2, DeletionMade
    <3> QED BY <2>2, <3>1
  <2> QED BY <1>2, <1>3, <2>1, <2>2
<1>5. ASSUME NEW s, OfSeen(s), sections = <<s>>
      PROVE  sections \in Seq(Sections) /\ \A k \in DOMAIN sections : OfSeen(sections[k])
  <2>1. DOMAIN sections = 1 .. 1 /\ sections[1] = s BY <1>5
  <2>2. s \in Sections BY <1>5 DEF OfSeen
  <2> QED BY <1>5, <2>1, <2>2
<1>6. ASSUME NEW s, NEW t, OfSeen(s), OfSeen(t), sections = <<s, t>>
      PROVE  sections \in Seq(Sections) /\ \A k \in DOMAIN sections : OfSeen(sections[k])
  <2>1. DOMAIN sections = 1 .. 2 /\ sections[1] = s /\ sections[2] = t BY <1>6
  <2>2. s \in Sections /\ t \in Sections BY <1>6 DEF OfSeen
  <2> QED BY <1>6, <2>1, <2>2
<1> QED BY <1>4, <1>5, <1>6

-----------------------------------------------------------------------------
Calls == [pc : {"plan", "capture", "write"}, sections : Seq(Sections),
          planned : Seq([file : Paths, text : Texts]), blind : BOOLEAN,
          saved : Seq([file : Paths, content : MaybeText]), before : Trees, base : Trees]

FileTypes ==
  /\ tree \in Trees /\ seen \in Trees
  /\ theirs \in [Paths -> {"never", "before", "during", "read", "replaced"}]
  /\ call = Idle \/ call \in Calls
  /\ call.pc = "write" => call.planned # <<>>

(* The user's line is in a file, and in what is kept of it, exactly when   *)
(* the user has written it; what the caller has seen, and with it what it  *)
(* takes out, is without it; and what a call is about to write leaves it,  *)
(* unless the call may replace what it has not read.                       *)
Unread(f) == theirs[f] \in {"never", "before"}

AsLeft(f, text) == /\ theirs[f] = "never" => ~Keeps(text)
                   /\ theirs[f] = "before" => Keeps(text)

PlansWell(p, blind) == /\ theirs[p.file] = "never" => ~Keeps(p.text)
                       /\ theirs[p.file] = "before" /\ ~blind => Keeps(p.text)

Heeds(c) ==
  /\ \A k \in DOMAIN c.sections : Unread(c.sections[k].file) => Spares(c.sections[k])
  /\ \A k \in DOMAIN c.planned : PlansWell(c.planned[k], c.blind)
  /\ \A k \in DOMAIN c.saved : AsLeft(c.saved[k].file, c.saved[k].content)

OthersWork ==
  /\ \A f \in Paths : AsLeft(f, tree[f]) /\ (Unread(f) => ~Keeps(seen[f]))
  /\ call # Idle => Heeds(call)

LEMMA InitOthersWork == FilesAssumption /\ FilesInit => FileTypes /\ OthersWork
<1> SUFFICES ASSUME FilesAssumption, FilesInit PROVE FileTypes /\ OthersWork OBVIOUS
<1>1. /\ tree \in Starts /\ seen = tree /\ call = Idle
      /\ theirs = [f \in Paths |-> "never"] BY DEF FilesInit
<1>2. tree \in [Paths -> [lines : Seq(Lines \ {Theirs}), ends : BOOLEAN] \cup {NoFile}]
  BY <1>1 DEF FilesAssumption
<1>3. ASSUME NEW f \in Paths PROVE tree[f] \in MaybeText /\ ~Keeps(tree[f])
  <2>1. CASE tree[f] = NoFile BY <2>1 DEF MaybeText, Keeps
  <2>2. CASE tree[f] # NoFile
    <3> DEFINE t == tree[f]
    <3>1. t \in [lines : Seq(Lines \ {Theirs}), ends : BOOLEAN] BY <1>2, <2>2
    <3> HIDE DEF t
    <3>2. t.lines \in Seq(Lines \ {Theirs}) /\ t.ends \in BOOLEAN BY <3>1
    <3>3. t.lines \in Seq(Lines) /\ Theirs \notin Range(t.lines)
      BY <3>2, SeqMonotonic, RangeOfSeq
    <3>4. t \in Texts BY <3>1, <3>3 DEF Texts
    <3> QED BY <3>3, <3>4 DEF MaybeText, Keeps, t
  <2> QED BY <2>1, <2>2
<1>4. tree \in Trees BY <1>2, <1>3 DEF Trees
<1>5. call.pc = "idle" BY <1>1 DEF Idle
<1>6. FileTypes BY <1>1, <1>4, <1>5 DEF FileTypes
<1>7. OthersWork BY <1>1, <1>3 DEF OthersWork, AsLeft, Unread
<1> QED BY <1>6, <1>7

(* A step of a call that only changes what the call is about to do.        *)
LEMMA CallGoesOn ==
  ASSUME FileTypes, OthersWork, UNCHANGED <<tree, seen, theirs>>,
         \/ call' = Idle
         \/ call' \in Calls /\ Heeds(call') /\ (call'.pc = "write" => call'.planned # <<>>)
  PROVE  FileTypes' /\ OthersWork'
<1>1. FileTypes'
  <2>1. call'.pc = "write" => call'.planned # <<>> BY DEF Idle
  <2> QED BY <2>1 DEF FileTypes
<1>2. OthersWork'
  <2>1. ASSUME NEW f \in Paths PROVE AsLeft(f, tree[f])' /\ (Unread(f) => ~Keeps(seen[f]))'
    <3>1. AsLeft(f, tree[f]) /\ (Unread(f) => ~Keeps(seen[f])) BY DEF OthersWork
    <3> QED BY <3>1 DEF AsLeft, Unread, Keeps
  <2>2. ASSUME (call # Idle)' PROVE Heeds(call)'
    <3>1. Heeds(call') BY <2>2
    <3> QED BY <3>1 DEF Heeds, PlansWell, AsLeft, Unread, Keeps, Spares
  <2> QED BY <2>1, <2>2 DEF OthersWork
<1> QED BY <1>1, <1>2

(* The caller reads a file.                                                *)
LEMMA ReadIsFine ==
  ASSUME FileTypes, OthersWork, NEW f \in Paths, Read(f)
  PROVE  FileTypes' /\ OthersWork'
<1>1. /\ call = Idle /\ call' = call /\ tree' = tree
      /\ seen' = [seen EXCEPT ![f] = tree[f]]
      /\ theirs' = [theirs EXCEPT ![f] = IF @ = "never" THEN @ ELSE "read"]
  BY DEF Read, MayCall
<1>2. FileTypes' BY <1>1 DEF FileTypes, Trees
<1>3. ASSUME NEW g \in Paths PROVE AsLeft(g, tree[g])' /\ (Unread(g) => ~Keeps(seen[g]))'
  <2>1. AsLeft(g, tree[g]) /\ (Unread(g) => ~Keeps(seen[g])) BY DEF OthersWork
  <2>2. CASE g # f
    <3>1. theirs'[g] = theirs[g] /\ seen'[g] = seen[g] BY <1>1, <2>2 DEF FileTypes, Trees
    <3> QED BY <1>1, <2>1, <3>1 DEF AsLeft, Unread, Keeps
  <2>3. CASE g = f
    <3>1. /\ seen'[g] = tree[g]
          /\ theirs'[g] = IF theirs[g] = "never" THEN "never" ELSE "read"
      BY <1>1, <2>3 DEF FileTypes, Trees
    <3> QED BY <1>1, <2>1, <3>1 DEF AsLeft, Unread, Keeps
  <2> QED BY <2>2, <2>3
<1>4. (call = Idle)' BY <1>1 DEF Idle
<1>5. OthersWork' BY <1>3, <1>4 DEF OthersWork
<1> QED BY <1>2, <1>5

(* The user writes a line into a file nobody has planned for, or that was  *)
(* planned for before.                                                     *)
LEMMA ChangeIsFine ==
  ASSUME FilesAssumption, FileTypes, OthersWork, NEW f \in Paths, UserChanges(f)
  PROVE  FileTypes' /\ OthersWork'
<1> DEFINE text == IF tree[f] = NoFile THEN Empty ELSE tree[f]
           how == IF call = Idle THEN "before" ELSE "during"
<1>1. PICK at \in 0 .. Len(text.lines), over \in {0, 1} :
        /\ at + over <= Len(text.lines)
        /\ tree' = [tree EXCEPT ![f] =
             Text(ReplaceSubSeqAt(at + 1, <<Theirs>>, SubSeq(text.lines, at + 1, at + over),
                                  text.lines), text.ends \/ text = Empty)]
  BY DEF UserChanges
<1>2. /\ theirs[f] = "never" /\ theirs' = [theirs EXCEPT ![f] = how]
      /\ seen' = seen /\ call' = call
  BY DEF UserChanges
<1> DEFINE old == SubSeq(text.lines, at + 1, at + over)
           body == ReplaceSubSeqAt(at + 1, <<Theirs>>, old, text.lines)
           ends == text.ends \/ text = Empty
           new == Text(body, ends)
<1>3. text \in Texts
  <2>1. Empty \in Texts BY EmptySeq DEF Empty, Text, Texts
  <2> QED BY <2>1 DEF FileTypes, Trees, MaybeText
<1>4. text.lines \in Seq(Lines) /\ text.ends \in BOOLEAN /\ Len(text.lines) \in Nat
  <2> HIDE DEF text
  <2>1. text.lines \in Seq(Lines) /\ text.ends \in BOOLEAN BY <1>3 DEF Texts
  <2> QED BY <2>1, LenProperties
<1>5. tree' = [tree EXCEPT ![f] = new] BY <1>1
<1>6. <<Theirs>> \in Seq(Lines) /\ Range(<<Theirs>>) = {Theirs} BY DEF FilesAssumption, Range
<1>7. body \in Seq(Lines) /\ Theirs \in Range(body)
  <2> HIDE DEF text
  <2>1. at + over \in at .. Len(text.lines) BY <1>1, <1>4
  <2>2. old \in Seq(Lines) BY <1>4, <2>1, Pieces
  <2>3. at + Len(old) <= Len(text.lines)
    <3>1. \A i \in at + 1 .. at + over : text.lines[i] \in Lines
      BY <1>4, <2>1, ElementOfSeq
    <3>2. Len(old) = IF at + 1 <= at + over THEN at + over - (at + 1) + 1 ELSE 0
      <4>1. at + 1 \in Int /\ at + over \in Int OBVIOUS
      <4> QED BY <3>1, <4>1, SubSeqProperties
    <3> HIDE DEF old
    <3> QED BY <1>1, <3>2
  <2> HIDE DEF old
  <2> QED BY <1>4, <1>6, <2>2, <2>3, Replaced
<1>8. ends \in BOOLEAN BY <1>4
<1>9. new \in Texts /\ Keeps(new)
  <2> HIDE DEF body, ends
  <2>1. new = [lines |-> body, ends |-> ends] BY DEF Text
  <2>2. new \in Texts /\ new.lines = body BY <1>7, <1>8, <2>1 DEF Texts
  <2>3. new # NoFile BY <2>2 DEF FilesAssumption
  <2> QED BY <1>7, <2>2, <2>3 DEF Keeps
<1> HIDE DEF new, how
<1>10. /\ tree'[f] = new /\ theirs'[f] = how
       /\ \A g \in Paths : g # f => tree'[g] = tree[g] /\ theirs'[g] = theirs[g]
  BY <1>2, <1>5 DEF FileTypes, Trees
<1>11. how \in {"before", "during"} BY DEF how
<1>12. FileTypes'
  <2>1. new \in MaybeText BY <1>9 DEF MaybeText
  <2> QED BY <1>2, <1>5, <1>11, <2>1 DEF FileTypes, Trees
<1>13. ASSUME NEW g \in Paths PROVE AsLeft(g, tree[g])' /\ (Unread(g) => ~Keeps(seen[g]))'
  <2>1. AsLeft(g, tree[g]) /\ (Unread(g) => ~Keeps(seen[g])) BY DEF OthersWork
  <2>2. CASE g # f BY <1>2, <1>10, <2>1, <2>2 DEF AsLeft, Unread, Keeps
  <2>3. CASE g = f BY <1>2, <1>9, <1>10, <1>11, <2>1, <2>3 DEF AsLeft, Unread, Keeps
  <2> QED BY <2>2, <2>3
<1>14. ASSUME (call # Idle)' PROVE Heeds(call)'
  <2>1. call # Idle /\ Heeds(call) /\ call \in Calls
    BY <1>2, <1>14 DEF OthersWork, FileTypes, Idle
  <2>2. how = "during" BY <2>1 DEF how
  <2>3. \A g \in Paths : theirs'[g] \in {"never", "before"} => theirs'[g] = theirs[g]
    BY <1>10, <2>2
  <2>4. /\ \A k \in DOMAIN call.sections : call.sections[k].file \in Paths
        /\ \A k \in DOMAIN call.planned : call.planned[k].file \in Paths
        /\ \A k \in DOMAIN call.saved : call.saved[k].file \in Paths
    <3>1. /\ call.sections \in Seq(Sections)
          /\ call.planned \in Seq([file : Paths, text : Texts])
          /\ call.saved \in Seq([file : Paths, content : MaybeText])
      BY <2>1 DEF Calls
    <3>2. \A k \in DOMAIN call.sections : call.sections[k] \in Sections
      BY <3>1, ElementOfSeq, LenProperties
    <3>3. \A k \in DOMAIN call.planned : call.planned[k] \in [file : Paths, text : Texts]
      BY <3>1, ElementOfSeq, LenProperties
    <3>4. \A k \in DOMAIN call.saved : call.saved[k] \in [file : Paths, content : MaybeText]
      BY <3>1, ElementOfSeq, LenProperties
    <3> QED BY <3>2, <3>3, <3>4 DEF Sections
  <2>5. \A k \in DOMAIN call.sections : (Unread(call.sections[k].file) => Spares(call.sections[k]))'
    BY <1>2, <2>1, <2>3, <2>4 DEF Heeds, Unread, Spares
  <2>6. \A k \in DOMAIN call.planned : PlansWell(call.planned[k], call.blind)'
    BY <1>2, <2>1, <2>3, <2>4 DEF Heeds, PlansWell, Keeps
  <2>7. \A k \in DOMAIN call.saved : AsLeft(call.saved[k].file, call.saved[k].content)'
    BY <1>2, <2>1, <2>3, <2>4 DEF Heeds, AsLeft, Keeps
  <2> QED BY <1>2, <2>5, <2>6, <2>7 DEF Heeds
<1>15. OthersWork' BY <1>13, <1>14 DEF OthersWork
<1> QED BY <1>12, <1>15

(* A call begins: a patch made of what was seen, or a text to be written.  *)
LEMMA PatchIsFine ==
  ASSUME FilesAssumption, FileTypes, OthersWork, NEW sections \in Patches, BeginPatch(sections)
  PROVE  FileTypes' /\ OthersWork'
<1> DEFINE c == NewCall("plan", sections, <<>>, FALSE)
<1>1. call' = c /\ UNCHANGED <<tree, seen, theirs>> BY DEF BeginPatch, Begin
<1>2. sections \in Seq(Sections) /\ \A k \in DOMAIN sections : OfSeen(sections[k])
  BY PatchMade DEF FileTypes
<1>3. c = [pc |-> "plan", sections |-> sections, planned |-> <<>>, blind |-> FALSE,
           saved |-> <<>>, before |-> tree, base |-> seen]
  BY DEF NewCall
<1> HIDE DEF c
<1>4. c \in Calls BY <1>2, <1>3, EmptySeq DEF Calls, FileTypes
<1>5. Heeds(c)
  <2>1. /\ c.sections = sections /\ c.planned = <<>> /\ c.saved = <<>> BY <1>3
  <2>2. ASSUME NEW k \in DOMAIN sections, Unread(sections[k].file) PROVE Spares(sections[k])
    <3>1. OfSeen(sections[k]) BY <1>2
    <3>2. sections[k].file \in Paths BY <3>1 DEF OfSeen, Sections
    <3>3. ~Keeps(seen[sections[k].file]) BY <2>2, <3>2 DEF OthersWork
    <3> QED BY <3>1, <3>3 DEF OfSeen
  <2>3. DOMAIN <<>> = {} OBVIOUS
  <2> QED BY <2>1, <2>2, <2>3 DEF Heeds
<1>6. c.pc # "write" BY <1>3
<1> QED BY <1>1, <1>4, <1>5, <1>6, CallGoesOn

LEMMA WriteIsFine ==
  ASSUME FilesAssumption, FileTypes, OthersWork, NEW f \in Paths, NEW new \in Ours,
         NEW create_only \in BOOLEAN, NEW known \in BOOLEAN,
         BeginWrite(f, Joined(new, TRUE), create_only, known)
  PROVE  FileTypes' /\ OthersWork'
<1> DEFINE text == Joined(new, TRUE)
           p == [file |-> f, text |-> text]
           blind == ~create_only /\ ~known
           refused == tree[f] # NoFile /\ (create_only \/ (known /\ tree[f] # seen[f]))
           c == NewCall("capture", <<>>, <<p>>, blind)
<1>1. call' = (IF refused THEN Idle ELSE c) /\ UNCHANGED <<tree, seen, theirs>>
  BY DEF BeginWrite, Begin
<1>2. text \in Texts /\ ~Keeps(text)
  <2>1. new \in Seq(Lines \ {Theirs}) BY DEF FilesAssumption
  <2>2. new \in Seq(Lines) /\ Theirs \notin Range(new) BY <2>1, SeqMonotonic, RangeOfSeq
  <2>3. TRUE \in BOOLEAN OBVIOUS
  <2>4. text \in Texts /\ (Theirs \in Range(text.lines) <=> Theirs \in Range(new))
    BY <2>2, <2>3, LinesJoined
  <2> QED BY <2>2, <2>4 DEF Keeps
<1> HIDE DEF text
<1>3. c = [pc |-> "capture", sections |-> <<>>, planned |-> <<p>>, blind |-> blind,
           saved |-> <<>>, before |-> tree, base |-> seen]
  BY DEF NewCall
<1>4. p \in [file : Paths, text : Texts] BY <1>2
<1>5. p.file = f /\ p.text = text OBVIOUS
<1> HIDE DEF p, c
<1>6. c \in Calls
  <2>1. <<p>> \in Seq([file : Paths, text : Texts]) BY <1>4
  <2>2. blind \in BOOLEAN OBVIOUS
  <2> HIDE DEF blind
  <2> QED BY <1>3, <2>1, <2>2, EmptySeq DEF Calls, FileTypes
<1>7. ASSUME ~refused PROVE Heeds(c)
  <2>1. ASSUME theirs[f] = "before", ~blind PROVE FALSE
    <3>1. Keeps(tree[f]) /\ ~Keeps(seen[f]) BY <2>1 DEF OthersWork, AsLeft, Unread
    <3>2. tree[f] # NoFile /\ tree[f] # seen[f] BY <3>1 DEF Keeps
    <3> QED BY <1>7, <2>1, <3>2
  <2> HIDE DEF blind
  <2>2. PlansWell(p, blind) BY <1>2, <1>5, <2>1 DEF PlansWell
  <2>3. /\ c.sections = <<>> /\ c.planned = <<p>> /\ c.blind = blind /\ c.saved = <<>>
    BY <1>3
  <2>4. DOMAIN <<>> = {} OBVIOUS
  <2>5. \A k \in DOMAIN <<p>> : <<p>>[k] = p OBVIOUS
  <2> QED BY <2>2, <2>3, <2>4, <2>5 DEF Heeds
<1>8. c.pc # "write" BY <1>3
<1> HIDE DEF refused
<1> QED BY <1>1, <1>6, <1>7, <1>8, CallGoesOn

(* A section is worked out from the file as it is now.                     *)
LEMMA PlanIsFine ==
  ASSUME FilesAssumption, FileTypes, OthersWork, Plan
  PROVE  FileTypes' /\ OthersWork'
<1> DEFINE k == Len(call.planned) + 1
           s == call.sections[k]
           text == Apply(s, tree[s.file])
           p == [file |-> s.file, text |-> text]
           c == [call EXCEPT !.planned = Append(@, p)]
<1>1. /\ call.pc = "plan" /\ Len(call.planned) < Len(call.sections)
      /\ UNCHANGED <<tree, seen, theirs>>
      /\ IF text = Refused THEN call' = Idle ELSE call' = c
  BY DEF Plan, Returns
<1>2. CASE text = Refused BY <1>1, <1>2, CallGoesOn
<1>3. CASE text # Refused
  <2>1. call \in Calls /\ call # Idle BY <1>1 DEF FileTypes, Idle
  <2>2. Heeds(call) BY <2>1 DEF OthersWork
  <2>3. /\ call.sections \in Seq(Sections)
        /\ call.planned \in Seq([file : Paths, text : Texts])
    BY <2>1 DEF Calls
  <2>4. k \in 1 .. Len(call.sections)
    <3>1. Len(call.planned) \in Nat /\ Len(call.sections) \in Nat BY <2>3, LenProperties
    <3> QED BY <1>1, <3>1
  <2>5. k \in DOMAIN call.sections /\ s \in Sections
    BY <2>3, <2>4, LenProperties, ElementOfSeq
  <2>6. Unread(s.file) => Spares(s) BY <2>2, <2>5 DEF Heeds
  <2> HIDE DEF k, s
  <2>7. s.file \in Paths /\ tree[s.file] \in MaybeText
    <3>1. s.file \in Paths BY <2>5 DEF Sections
    <3> QED BY <3>1 DEF FileTypes, Trees
  <2>8. /\ text \in Texts /\ (Keeps(text) => Keeps(tree[s.file]))
        /\ Keeps(tree[s.file]) /\ Spares(s) => Keeps(text)
    BY <1>3, <2>5, <2>7, SectionDone DEF MaybeText
  <2> HIDE DEF text
  <2>9. p \in [file : Paths, text : Texts] /\ p.file = s.file /\ p.text = text BY <2>7, <2>8
  <2>10. \A b : PlansWell(p, b)
    <3>1. AsLeft(s.file, tree[s.file]) BY <2>7 DEF OthersWork
    <3> QED BY <2>6, <2>8, <2>9, <3>1 DEF PlansWell, AsLeft, Unread
  <2> HIDE DEF p
  <2>11. /\ Append(call.planned, p) \in Seq([file : Paths, text : Texts])
         /\ \A j \in DOMAIN Append(call.planned, p) :
              \/ Append(call.planned, p)[j] = p
              \/ j \in DOMAIN call.planned /\ Append(call.planned, p)[j] = call.planned[j]
    <3> DEFINE T == [file : Paths, text : Texts]
    <3> HIDE DEF T
    <3>1. call.planned \in Seq(T) /\ p \in T BY <2>3, <2>9 DEF T
    <3>2. /\ Append(call.planned, p) \in Seq(T)
          /\ Len(Append(call.planned, p)) = Len(call.planned) + 1
          /\ \A j \in 1 .. Len(call.planned) : Append(call.planned, p)[j] = call.planned[j]
          /\ Append(call.planned, p)[Len(call.planned) + 1] = p
      BY <3>1, AppendProperties
    <3>3. /\ Len(call.planned) \in Nat /\ DOMAIN call.planned = 1 .. Len(call.planned)
          /\ DOMAIN Append(call.planned, p) = 1 .. Len(call.planned) + 1
      BY <3>1, <3>2, LenProperties
    <3>4. \A j \in 1 .. Len(call.planned) + 1 :
            j = Len(call.planned) + 1 \/ j \in 1 .. Len(call.planned)
      BY <3>3
    <3> QED BY <3>2, <3>3, <3>4 DEF T
  <2> DEFINE planned == Append(call.planned, p)
  <2>12. c = [call EXCEPT !.planned = planned] OBVIOUS
  <2> HIDE DEF planned, c
  <2>13. /\ c \in Calls /\ c.pc = "plan" /\ c.planned = planned /\ c.sections = call.sections
         /\ c.blind = call.blind /\ c.saved = call.saved
    BY <1>1, <2>1, <2>11, <2>12 DEF Calls, planned
  <2>14. Heeds(c) BY <2>2, <2>10, <2>11, <2>13 DEF Heeds, planned
  <2>15. call' = c BY <1>1, <1>3 DEF text, p, s, k, c, planned
  <2> QED BY <1>1, <2>13, <2>14, <2>15, CallGoesOn
<1> QED BY <1>2, <1>3

LEMMA PlannedIsFine ==
  ASSUME FileTypes, OthersWork, Planned
  PROVE  FileTypes' /\ OthersWork'
<1> DEFINE c == [call EXCEPT !.pc = "capture"]
<1>1. call.pc = "plan" /\ UNCHANGED <<tree, seen, theirs>> /\ (call' = Idle \/ call' = c)
  BY DEF Planned, Returns
<1>2. call \in Calls /\ call # Idle BY <1>1 DEF FileTypes, Idle
<1>3. Heeds(call) BY <1>2 DEF OthersWork
<1>4. /\ c \in Calls /\ c.pc = "capture" /\ c.planned = call.planned
      /\ c.sections = call.sections /\ c.blind = call.blind /\ c.saved = call.saved
  BY <1>2 DEF Calls
<1> HIDE DEF c
<1>5. Heeds(c) BY <1>3, <1>4 DEF Heeds
<1> QED BY <1>1, <1>4, <1>5, CallGoesOn

(* A file is kept as it is, the first time.                                *)
LEMMA SavingIsFine ==
  ASSUME FileTypes, OthersWork, SavePreImage
  PROVE  FileTypes' /\ OthersWork'
<1> DEFINE f == Head(call.planned).file
           e == [file |-> f, content |-> tree[f]]
           saved == IF Saved(f) # {} THEN call.saved ELSE Append(call.saved, e)
           c == [call EXCEPT !.pc = "write", !.saved = saved]
<1>1. /\ call.pc = "capture" /\ call.planned # <<>>
      /\ UNCHANGED <<tree, seen, theirs>>
  BY DEF SavePreImage
<1>2. call \in Calls /\ call # Idle BY <1>1 DEF FileTypes, Idle
<1>3. call' = c BY <1>2 DEF SavePreImage, Calls
<1>4. Heeds(call) BY <1>2 DEF OthersWork
<1>5. /\ call.planned \in Seq([file : Paths, text : Texts])
      /\ call.saved \in Seq([file : Paths, content : MaybeText]) BY <1>2 DEF Calls
<1>6. f \in Paths
  <2>1. Head(call.planned) \in [file : Paths, text : Texts] BY <1>1, <1>5, HeadTailProperties
  <2> QED BY <2>1
<1> HIDE DEF f
<1>7. tree[f] \in MaybeText /\ AsLeft(f, tree[f]) BY <1>6 DEF FileTypes, Trees, OthersWork
<1>8. e \in [file : Paths, content : MaybeText] /\ e.file = f /\ e.content = tree[f] BY <1>6, <1>7
<1> HIDE DEF e
<1>9. AsLeft(e.file, e.content) BY <1>7, <1>8
<1>10. /\ saved \in Seq([file : Paths, content : MaybeText])
       /\ \A j \in DOMAIN saved : AsLeft(saved[j].file, saved[j].content)
  <2>1. CASE Saved(f) # {} BY <1>4, <1>5, <2>1 DEF Heeds
  <2>2. CASE Saved(f) = {}
    <3> DEFINE T == [file : Paths, content : MaybeText]
    <3> HIDE DEF T
    <3>1. call.saved \in Seq(T) /\ e \in T BY <1>5, <1>8 DEF T
    <3> DEFINE more == Append(call.saved, e)
    <3>2. /\ more \in Seq(T) /\ Len(more) = Len(call.saved) + 1
          /\ \A j \in 1 .. Len(call.saved) : more[j] = call.saved[j]
          /\ more[Len(call.saved) + 1] = e
      BY <3>1, AppendProperties
    <3>3. saved = more BY <2>2
    <3> HIDE DEF more, saved
    <3>4. /\ Len(call.saved) \in Nat /\ DOMAIN call.saved = 1 .. Len(call.saved)
          /\ DOMAIN more = 1 .. Len(call.saved) + 1
      BY <3>1, <3>2, LenProperties
    <3>5. ASSUME NEW j \in DOMAIN more PROVE AsLeft(more[j].file, more[j].content)
      <4>1. j = Len(call.saved) + 1 \/ j \in 1 .. Len(call.saved) BY <3>4
      <4>2. CASE j = Len(call.saved) + 1 BY <1>9, <3>2, <4>2
      <4>3. CASE j \in 1 .. Len(call.saved)
        <5>1. more[j] = call.saved[j] /\ j \in DOMAIN call.saved BY <3>2, <3>4, <4>3
        <5> QED BY <1>4, <5>1 DEF Heeds
      <4> QED BY <4>1, <4>2, <4>3
    <3> QED BY <3>2, <3>3, <3>5 DEF T
  <2> QED BY <2>1, <2>2
<1> HIDE DEF saved
<1>11. /\ c \in Calls /\ c.planned = call.planned /\ c.sections = call.sections
       /\ c.blind = call.blind /\ c.saved = saved
  BY <1>2, <1>10 DEF Calls
<1> HIDE DEF c
<1>12. Heeds(c) BY <1>4, <1>10, <1>11 DEF Heeds
<1> QED BY <1>1, <1>3, <1>11, <1>12, CallGoesOn

(* A file is written: the line stays in it unless the call may replace     *)
(* what there is, and then the file is no longer as the user left it.      *)
LEMMA WritingIsFine ==
  ASSUME FilesAssumption, FileTypes, OthersWork, WriteText
  PROVE  FileTypes' /\ OthersWork'
<1> DEFINE p == Head(call.planned)
           f == p.file
           how == IF call.blind /\ theirs[f] \in {"before", "during"} THEN "replaced" ELSE theirs[f]
           rest == Tail(call.planned)
<1>1. /\ call.pc = "write" /\ call.planned # <<>> /\ seen' = seen
      /\ tree' = [tree EXCEPT ![f] = p.text]
  BY DEF WriteText, FileTypes
<1>2. call \in Calls /\ call # Idle BY <1>1 DEF FileTypes, Idle
<1>3. Heeds(call) BY <1>2 DEF OthersWork
<1>4. call.planned \in Seq([file : Paths, text : Texts]) /\ call.blind \in BOOLEAN
  BY <1>2 DEF Calls
<1>5. /\ p \in [file : Paths, text : Texts]
      /\ 1 \in DOMAIN call.planned /\ p = call.planned[1]
      /\ rest \in Seq([file : Paths, text : Texts])
      /\ \A j \in DOMAIN rest : j + 1 \in DOMAIN call.planned /\ rest[j] = call.planned[j + 1]
  <2> DEFINE T == [file : Paths, text : Texts]
  <2> HIDE DEF T
  <2>1. call.planned \in Seq(T) BY <1>4 DEF T
  <2>2. /\ p \in T /\ rest \in Seq(T) /\ Len(rest) = Len(call.planned) - 1
        /\ \A i \in 1 .. Len(rest) : rest[i] = call.planned[i + 1]
    BY <1>1, <2>1, HeadTailProperties
  <2>3. /\ Len(call.planned) \in Nat /\ DOMAIN call.planned = 1 .. Len(call.planned)
        /\ DOMAIN rest = 1 .. Len(rest)
    BY <2>1, <2>2, LenProperties
  <2>4. Len(call.planned) # 0 BY <1>1, <2>1, EmptySeq
  <2>5. p = call.planned[1] OBVIOUS
  <2> HIDE DEF p, rest
  <2>6. 1 \in 1 .. Len(call.planned) /\ \A j \in 1 .. Len(rest) : j + 1 \in 1 .. Len(call.planned)
    BY <2>2, <2>3, <2>4
  <2> QED BY <2>2, <2>3, <2>5, <2>6 DEF T
<1>6. f \in Paths /\ p.text \in Texts /\ PlansWell(p, call.blind) BY <1>3, <1>5 DEF Heeds
<1>7. theirs' = [theirs EXCEPT ![f] = how] BY <1>6 DEF WriteText, FileTypes
<1>8. call' = [call EXCEPT !.pc = "capture", !.planned = rest] BY <1>2 DEF WriteText, Calls
<1> HIDE DEF p, f, rest
<1>9. /\ how \in {"never", "before", "during", "read", "replaced"}
      /\ how \in {"never", "before"} => how = theirs[f]
      /\ how = "before" => ~call.blind
  BY <1>4, <1>6 DEF FileTypes
<1> HIDE DEF how
<1>10. /\ theirs'[f] = how /\ tree'[f] = p.text
       /\ \A g \in Paths : g # f => theirs'[g] = theirs[g] /\ tree'[g] = tree[g]
  BY <1>1, <1>6, <1>7 DEF FileTypes, Trees
<1>11. \A g \in Paths : theirs'[g] \in {"never", "before"} => theirs'[g] = theirs[g]
  BY <1>9, <1>10
<1>12. /\ call' \in Calls /\ call'.pc = "capture" /\ call'.planned = rest
       /\ call'.sections = call.sections /\ call'.blind = call.blind /\ call'.saved = call.saved
  BY <1>2, <1>5, <1>8 DEF Calls
<1>13. FileTypes'
  <2>1. tree' \in Trees BY <1>1, <1>6 DEF FileTypes, Trees, MaybeText
  <2>2. theirs' \in [Paths -> {"never", "before", "during", "read", "replaced"}]
    BY <1>6, <1>7, <1>9 DEF FileTypes
  <2> QED BY <1>1, <1>12, <2>1, <2>2 DEF FileTypes
<1>14. ASSUME NEW g \in Paths PROVE AsLeft(g, tree[g])' /\ (Unread(g) => ~Keeps(seen[g]))'
  <2>1. AsLeft(g, tree[g]) /\ (Unread(g) => ~Keeps(seen[g])) BY DEF OthersWork
  <2>2. (Unread(g) => ~Keeps(seen[g]))' BY <1>1, <1>11, <2>1 DEF Unread, Keeps
  <2>3. CASE g # f
    <3>1. theirs'[g] = theirs[g] /\ tree'[g] = tree[g] BY <1>10, <2>3
    <3>2. AsLeft(g, tree[g])' BY <2>1, <3>1 DEF AsLeft, Keeps
    <3> QED BY <2>2, <3>2
  <2>4. CASE g = f
    <3>1. theirs'[f] = "never" => ~Keeps(p.text) BY <1>6, <1>9, <1>10 DEF PlansWell, f
    <3>2. theirs'[f] = "before" => Keeps(p.text) BY <1>6, <1>9, <1>10 DEF PlansWell, f
    <3>3. AsLeft(g, tree[g])' BY <1>10, <2>4, <3>1, <3>2 DEF AsLeft, Keeps
    <3> QED BY <2>2, <3>3
  <2> QED BY <2>3, <2>4
<1>15. Heeds(call)'
  <2>1. /\ \A k \in DOMAIN call.sections : call.sections[k].file \in Paths
        /\ \A k \in DOMAIN call.planned : call.planned[k].file \in Paths
        /\ \A k \in DOMAIN call.saved : call.saved[k].file \in Paths
    <3>1. /\ call.sections \in Seq(Sections)
          /\ call.planned \in Seq([file : Paths, text : Texts])
          /\ call.saved \in Seq([file : Paths, content : MaybeText])
      BY <1>2 DEF Calls
    <3>2. \A k \in DOMAIN call.sections : call.sections[k] \in Sections
      BY <3>1, ElementOfSeq, LenProperties
    <3>3. \A k \in DOMAIN call.planned : call.planned[k] \in [file : Paths, text : Texts]
      BY <3>1, ElementOfSeq, LenProperties
    <3>4. \A k \in DOMAIN call.saved : call.saved[k] \in [file : Paths, content : MaybeText]
      BY <3>1, ElementOfSeq, LenProperties
    <3> QED BY <3>2, <3>3, <3>4 DEF Sections
  <2>2. \A k \in DOMAIN call.sections : (Unread(call.sections[k].file) => Spares(call.sections[k]))'
    BY <1>3, <1>11, <1>12, <2>1 DEF Heeds, Unread, Spares
  <2>3. (\A k \in DOMAIN call.planned : PlansWell(call.planned[k], call.blind))'
    <3> SUFFICES ASSUME NEW k \in DOMAIN call'.planned
                 PROVE  PlansWell(call.planned[k], call.blind)'
      OBVIOUS
    <3>1. call'.planned[k] = call.planned[k + 1] /\ k + 1 \in DOMAIN call.planned
      BY <1>5, <1>12
    <3>2. PlansWell(call.planned[k + 1], call.blind) /\ call.planned[k + 1].file \in Paths
      BY <1>3, <2>1, <3>1 DEF Heeds
    <3> QED BY <1>11, <1>12, <3>1, <3>2 DEF PlansWell, Keeps
  <2>4. \A k \in DOMAIN call.saved : AsLeft(call.saved[k].file, call.saved[k].content)'
    BY <1>3, <1>11, <1>12, <2>1 DEF Heeds, AsLeft, Keeps
  <2> QED BY <1>12, <2>2, <2>3, <2>4 DEF Heeds
<1>16. OthersWork' BY <1>14, <1>15 DEF OthersWork
<1> QED BY <1>13, <1>16

(* Something fails: what was saved goes back, as the user left it.         *)
LEMMA FailingIsFine ==
  ASSUME FileTypes, OthersWork, Fails
  PROVE  FileTypes' /\ OthersWork'
<1> DEFINE back(f) == call.saved[CHOOSE k \in Saved(f) : TRUE]
<1>1. /\ call.pc \in {"capture", "write"} /\ call' = Idle
      /\ seen' = seen /\ theirs' = theirs
      /\ tree' = [f \in Paths |-> IF Saved(f) = {} THEN tree[f] ELSE back(f).content]
  BY DEF Fails, Returns
<1>2. call \in Calls /\ call # Idle BY <1>1 DEF FileTypes, Idle
<1>3. Heeds(call) BY <1>2 DEF OthersWork
<1>4. call.saved \in Seq([file : Paths, content : MaybeText]) BY <1>2 DEF Calls
<1>5. ASSUME NEW f \in Paths, Saved(f) # {}
      PROVE  back(f).content \in MaybeText /\ AsLeft(f, back(f).content)
  <2>1. PICK k \in DOMAIN call.saved : back(f) = call.saved[k] /\ call.saved[k].file = f
    BY <1>5 DEF Saved
  <2>2. call.saved[k] \in [file : Paths, content : MaybeText]
    BY <1>4, ElementOfSeq, LenProperties
  <2>3. AsLeft(call.saved[k].file, call.saved[k].content) BY <1>3 DEF Heeds
  <2> HIDE DEF back
  <2> QED BY <2>1, <2>2, <2>3
<1> HIDE DEF back
<1>6. \A f \in Paths : tree'[f] \in MaybeText /\ AsLeft(f, tree'[f])
  <2> SUFFICES ASSUME NEW f \in Paths PROVE tree'[f] \in MaybeText /\ AsLeft(f, tree'[f]) OBVIOUS
  <2>1. tree[f] \in MaybeText /\ AsLeft(f, tree[f]) BY DEF FileTypes, Trees, OthersWork
  <2>2. tree'[f] = IF Saved(f) = {} THEN tree[f] ELSE back(f).content BY <1>1
  <2> QED BY <1>5, <2>1, <2>2
<1>7. tree' \in Trees BY <1>1, <1>6 DEF Trees
<1>8. (call.pc = "idle")' BY <1>1 DEF Idle
<1>9. FileTypes' BY <1>1, <1>7, <1>8 DEF FileTypes
<1>10. \A f \in Paths : (Unread(f) => ~Keeps(seen[f])) BY DEF OthersWork
<1>11. ASSUME NEW f \in Paths PROVE AsLeft(f, tree[f])' /\ (Unread(f) => ~Keeps(seen[f]))'
  BY <1>1, <1>6, <1>10 DEF AsLeft, Unread, Keeps
<1>12. (call = Idle)' BY <1>1 DEF Idle
<1>13. OthersWork' BY <1>11, <1>12 DEF OthersWork
<1> QED BY <1>9, <1>13

LEMMA NextOthersWork ==
  FilesAssumption /\ FileTypes /\ OthersWork /\ [FilesNext]_filesVars => (FileTypes /\ OthersWork)'
<1> SUFFICES ASSUME FilesAssumption, FileTypes, OthersWork, [FilesNext]_filesVars
             PROVE  FileTypes' /\ OthersWork'
  OBVIOUS
<1>1. ASSUME NEW f \in Paths, Read(f) PROVE FileTypes' /\ OthersWork' BY <1>1, ReadIsFine
<1>2. ASSUME NEW f \in Paths, UserChanges(f) PROVE FileTypes' /\ OthersWork'
  BY <1>2, ChangeIsFine
<1>3. ASSUME NEW sections \in Patches, BeginPatch(sections) PROVE FileTypes' /\ OthersWork'
  BY <1>3, PatchIsFine
<1>4. ASSUME NEW f \in Paths, NEW new \in Ours, NEW create_only \in BOOLEAN, NEW known \in BOOLEAN,
             BeginWrite(f, Joined(new, TRUE), create_only, known)
      PROVE  FileTypes' /\ OthersWork'
  BY <1>4, WriteIsFine
<1>5. CASE Plan BY <1>5, PlanIsFine
<1>6. CASE Planned BY <1>6, PlannedIsFine
<1>7. CASE SavePreImage BY <1>7, SavingIsFine
<1>8. CASE WriteText BY <1>8, WritingIsFine
<1>9. CASE Done
  <2>1. call' = Idle /\ UNCHANGED <<tree, seen, theirs>> BY <1>9 DEF Done, Returns
  <2> QED BY <2>1, CallGoesOn
<1>10. CASE Fails BY <1>10, FailingIsFine
<1>11. CASE UNCHANGED filesVars
  <2>1. UNCHANGED <<tree, seen, theirs>> /\ call' = call BY <1>11 DEF filesVars
  <2>2. FileTypes' BY <2>1 DEF FileTypes
  <2>3. OthersWork'
    BY <2>1 DEF OthersWork, Heeds, AsLeft, PlansWell, Unread, Keeps, Spares
  <2> QED BY <2>2, <2>3
<1> QED BY <1>1, <1>2, <1>3, <1>4, <1>5, <1>6, <1>7, <1>8, <1>9, <1>10, <1>11 DEF FilesNext

(* What the user changed between calls is not lost to the calls that       *)
(* follow, whatever the diffs and texts they bring, however badly their    *)
(* lines are counted and whichever of them fail, until the caller reads    *)
(* the file or asks to replace whatever there is (patch.py:163-192,        *)
(* files.py:105-131).                                                      *)
THEOREM OthersWorkStays == FilesSpec => []OthersWorkSurvives
<1>1. FilesInit => FileTypes /\ OthersWork BY FilesAssumption, InitOthersWork
<1>2. FileTypes /\ OthersWork /\ [FilesNext]_filesVars => (FileTypes /\ OthersWork)'
  BY FilesAssumption, NextOthersWork
<1>3. FileTypes /\ OthersWork => OthersWorkSurvives
  BY DEF OthersWork, AsLeft, OthersWorkSurvives
<1> QED BY <1>1, <1>2, <1>3, PTL DEF FilesSpec

-----------------------------------------------------------------------------
(* What a diff makes of the text it was made of.  A part of a text that is *)
(* put together, and that part with something else in its place.           *)
LEMMA Middle ==
  ASSUME NEW S, NEW a \in Seq(S), NEW b \in Seq(S), NEW c \in Seq(S)
  PROVE  SubSeq((a \o b) \o c, Len(a) + 1, Len(a) + Len(b)) = b
<1> DEFINE ab == a \o b
           t  == ab \o c
           m  == Len(a) + 1
           n  == Len(a) + Len(b)
           s  == SubSeq(t, m, n)
<1>1. Len(a) \in Nat /\ Len(b) \in Nat /\ Len(c) \in Nat BY LenProperties
<1>2. /\ ab \in Seq(S) /\ Len(ab) = n
      /\ \A i \in 1 .. n : ab[i] = IF i <= Len(a) THEN a[i] ELSE b[i - Len(a)]
  BY ConcatProperties
<1> HIDE DEF ab
<1>3. /\ t \in Seq(S) /\ Len(t) = n + Len(c)
      /\ \A i \in 1 .. n + Len(c) : t[i] = IF i <= n THEN ab[i] ELSE c[i - n]
  <2> DEFINE l == Len(ab)
  <2>1. /\ t \in Seq(S) /\ Len(t) = l + Len(c)
        /\ \A i \in 1 .. l + Len(c) : t[i] = IF i <= l THEN ab[i] ELSE c[i - l]
    <3>1. ab \in Seq(S) BY <1>2
    <3> QED BY <3>1, ConcatProperties
  <2> HIDE DEF l, t, n
  <2> QED BY <1>2, <2>1 DEF l
<1> HIDE DEF t
<1>4. m \in Int /\ n \in Int /\ n - m + 1 = Len(b) /\ (m <= n <=> Len(b) # 0)
  BY <1>1
<1>5. \A i \in m .. n : t[i] = ab[i] /\ ab[i] = b[i - Len(a)] /\ i - Len(a) \in 1 .. Len(b)
  BY <1>1, <1>2, <1>3
<1>6. \A i \in m .. n : t[i] \in S BY <1>5, ElementOfSeq
<1>7. /\ s \in Seq(S) /\ Len(s) = (IF m <= n THEN n - m + 1 ELSE 0)
      /\ \A i \in 1 .. n - m + 1 : s[i] = t[m + i - 1]
  <2> HIDE DEF m, n
  <2> QED BY <1>4, <1>6, SubSeqProperties
<1>8. Len(s) = Len(b) BY <1>4, <1>7
<1>9. ASSUME NEW i \in 1 .. Len(s) PROVE s[i] = b[i]
  <2>1. s[i] = t[m + i - 1] BY <1>4, <1>7, <1>8
  <2>2. m + i - 1 \in m .. n /\ m + i - 1 - Len(a) = i BY <1>1, <1>8
  <2>3. t[m + i - 1] = b[m + i - 1 - Len(a)] BY <1>5, <2>2
  <2> QED BY <2>1, <2>2, <2>3
<1> HIDE DEF s
<1>10. s = b BY <1>7, <1>8, <1>9, SeqEqual
<1> QED BY <1>10 DEF s, t, ab

TakesThePlace(S, x, old, rest, new) ==
  LET all == (x \o old) \o rest
  IN  /\ all \in Seq(S) /\ Len(all) = Len(x) + Len(old) + Len(rest)
      /\ SubSeq(all, Len(x) + 1, Len(x) + Len(old)) = old
      /\ ReplaceSubSeqAt(Len(x) + 1, new, old, all) = (x \o new) \o rest

LEMMA PutInPlace ==
  ASSUME NEW S, NEW x \in Seq(S), NEW old \in Seq(S), NEW rest \in Seq(S), NEW new \in Seq(S)
  PROVE  TakesThePlace(S, x, old, rest, new)
<1> DEFINE xo == x \o old
           all  == xo \o rest
<1>1. Len(x) \in Nat /\ Len(old) \in Nat /\ Len(rest) \in Nat BY LenProperties
<1>2. xo \in Seq(S) /\ Len(xo) = Len(x) + Len(old) BY ConcatProperties
<1>3. all \in Seq(S) /\ Len(all) = Len(x) + Len(old) + Len(rest)
  <2> HIDE DEF xo
  <2>1. all \in Seq(S) /\ Len(all) = Len(xo) + Len(rest) BY <1>2, ConcatProperties
  <2> HIDE DEF all
  <2> QED BY <1>1, <1>2, <2>1
<1>4. SubSeq(all, Len(x) + 1, Len(x) + Len(old)) = old BY Middle
<1>5. SubSeq(all, 1, Len(x)) = x
  <2> DEFINE both == old \o rest
             e  == <<>>
  <2>1. both \in Seq(S) /\ all = x \o both BY ConcatProperties, ConcatAssociative
  <2>2. e \in Seq(S) /\ Len(e) = 0 /\ e \o x = x BY EmptySeq, ConcatEmptySeq
  <2> HIDE DEF both, e, all
  <2>3. SubSeq((e \o x) \o both, Len(e) + 1, Len(e) + Len(x)) = x BY <2>1, <2>2, Middle
  <2>4. Len(e) + 1 = 1 /\ Len(e) + Len(x) = Len(x) BY <1>1, <2>2
  <2> QED BY <2>1, <2>2, <2>3, <2>4
<1>6. SubSeq(all, Len(x) + 1 + Len(old), Len(all)) = rest
  <2> DEFINE e == <<>>
  <2>1. e \in Seq(S) /\ all \o e = all BY <1>3, EmptySeq, ConcatEmptySeq
  <2> HIDE DEF e, xo
  <2>2. SubSeq((xo \o rest) \o e, Len(xo) + 1, Len(xo) + Len(rest)) = rest
    BY <1>2, <2>1, Middle
  <2>3. Len(xo) + 1 = Len(x) + 1 + Len(old) /\ Len(xo) + Len(rest) = Len(all) BY <1>1, <1>2, <1>3
  <2> QED BY <2>1, <2>2, <2>3
<1>7. ReplaceSubSeqAt(Len(x) + 1, new, old, all) = (x \o new) \o rest
  <2> DEFINE i == Len(x) + 1
  <2> HIDE DEF all, i
  <2>1. ReplaceSubSeqAt(i, new, old, all)
          = SubSeq(all, 1, i - 1) \o new \o SubSeq(all, i + Len(old), Len(all))
    BY DEF ReplaceSubSeqAt
  <2>2. i - 1 = Len(x) BY <1>1 DEF i
  <2> QED BY <1>5, <1>6, <2>1, <2>2 DEF i
<1> QED BY <1>3, <1>4, <1>7 DEF TakesThePlace

(* A hunk whose place is the stated one is put there, however often its    *)
(* lines are found elsewhere.                                              *)
StandsAt(body, start, old, at) ==
  /\ body \in Seq(Lines) /\ old \in Seq(Lines) /\ at \in 0 .. Len(body)
  /\ at + Len(old) <= Len(body) /\ SubSeq(body, at + 1, at + Len(old)) = old
  /\ \/ old # <<>> /\ start = at + 1
     \/ old = <<>> /\ start = 0 /\ at = 0

LEMMA FoundAsStated ==
  ASSUME Window \in Nat, NEW body, NEW start, NEW old, NEW at, StandsAt(body, start, old, at)
  PROVE  Locate(body, start, old) = {at}
<1> USE DEF StandsAt
<1> DEFINE Far(p) == IF p < at THEN 2 * (at - p) - 1 ELSE 2 * (p - at)
           places == {p \in 0 .. Len(body) : Fits(body, old, p) /\ p - at \in -Window .. Window}
<1>1. Len(body) \in Nat /\ Len(old) \in Nat BY LenProperties
<1>2. at \in Nat /\ Stated(start) = at BY <1>1 DEF Stated
<1>3. CASE old = <<>>
  <2> DEFINE I == {at, Len(body)}
  <2>1. at = 0 /\ 0 <= Len(body) BY <1>1, <1>3
  <2>2. I \in SUBSET Nat /\ I # {} /\ at \in I BY <1>1, <1>2
  <2>3. Min(I) \in I /\ \A i \in I : Min(I) <= i
    <3> HIDE DEF I
    <3> QED BY <2>2, LeastOf
  <2> DEFINE m == Min(I)
  <2>4. m \in Nat /\ m <= at
    <3> HIDE DEF I
    <3> QED BY <2>2, <2>3
  <2> HIDE DEF m
  <2>5. m = at BY <2>1, <2>4
  <2>6. Locate(body, start, old) = {m} BY <1>2, <1>3 DEF Locate, m
  <2> QED BY <2>5, <2>6
<1>4. CASE old # <<>>
  <2>1. at - at \in -Window .. Window BY <1>2
  <2>2. Fits(body, old, at) BY <1>2 DEF Fits
  <2>3. at \in places BY <2>1, <2>2
  <2>4. \A p \in places : p \in Nat BY <1>1
  <2>5. Far(at) = 0 /\ \A p \in Nat : Far(p) >= 0 /\ (p # at => Far(p) > 0) BY <1>2
  <2>6. Locate(body, start, old) = {Nearest(places, at)} BY <1>2, <1>4, <2>3 DEF Locate
  <2>7. Nearest(places, at) = CHOOSE p \in places : \A q \in places : Far(p) <= Far(q)
    BY DEF Nearest
  <2>8. \A q \in places : Far(at) <= Far(q)
    <3> HIDE DEF Far, places
    <3> QED BY <2>4, <2>5
  <2>9. ASSUME NEW p \in places, Far(p) <= Far(at) PROVE p = at
    <3>1. p \in Nat BY <2>4
    <3> HIDE DEF places
    <3>2. Far(p) >= 0 /\ Far(p) <= 0 /\ (p # at => Far(p) > 0) BY <2>5, <2>9, <3>1
    <3>3. Far(p) \in Int BY <1>2, <3>1
    <3> HIDE DEF Far
    <3> QED BY <3>2, <3>3
  <2>10. Nearest(places, at) = at
    <3> DEFINE Best(p) == \A q \in places : Far(p) <= Far(q)
    <3>1. Best(at) BY <2>8
    <3>2. \A p \in places : Best(p) => p = at
      <4> HIDE DEF Far, places
      <4> QED BY <2>3, <2>9
    <3>3. Nearest(places, at) = CHOOSE p \in places : Best(p) BY <2>7
    <3> HIDE DEF Best, places
    <3> QED BY <2>3, <3>1, <3>2, <3>3
  <2> QED BY <2>6, <2>10
<1> QED BY <1>3, <1>4

(* The lines of a text when its hunks so far have been done: what they     *)
(* made of it up to the end of the last one, and the rest of it.           *)
Standing(made, body, from) ==
  [lines |-> made \o SubSeq(body, from + 1, Len(body)), drift |-> Len(made) - from, refused |-> FALSE]

LEMMA Parts ==
  ASSUME NEW S, NEW body \in Seq(S), NEW from \in 0 .. Len(body), NEW to \in from .. Len(body)
  PROVE  /\ SubSeq(body, from + 1, to) \in Seq(S) /\ Len(SubSeq(body, from + 1, to)) = to - from
         /\ SubSeq(body, from + 1, Len(body))
              = SubSeq(body, from + 1, to) \o SubSeq(body, to + 1, Len(body))
<1>1. Len(body) \in Nat /\ \A i \in 1 .. Len(body) : body[i] \in S BY LenProperties, ElementOfSeq
<1>2. SubSeq(body, from + 1, to) \in Seq(S) BY Pieces
<1>3. Len(SubSeq(body, from + 1, to)) = to - from
  <2>1. /\ from + 1 \in Int /\ to \in Int /\ \A i \in from + 1 .. to : body[i] \in S
    BY <1>1
  <2> DEFINE m == from + 1
             s == SubSeq(body, m, to)
  <2>2. Len(s) = IF m <= to THEN to - m + 1 ELSE 0
    <3> HIDE DEF m
    <3> QED BY <2>1, SubSeqProperties DEF m
  <2> HIDE DEF s
  <2>3. Len(s) = to - from BY <1>1, <2>2
  <2> QED BY <2>3 DEF s
<1>4. SubSeq(body, from + 1, Len(body)) = SubSeq(body, from + 1, to) \o SubSeq(body, to + 1, Len(body))
  <2> DEFINE m == from + 1
  <2>1. /\ m \in 1 .. Len(body) + 1 /\ to \in m - 1 .. Len(body) /\ Len(body) \in to .. Len(body)
    BY <1>1
  <2> HIDE DEF m
  <2>2. SubSeq(body, m, to) \o SubSeq(body, to + 1, Len(body)) = SubSeq(body, m, Len(body))
    BY <2>1, ConcatAdjacentSubSeq
  <2> QED BY <2>2 DEF m
<1> QED BY <1>2, <1>3, <1>4

Rebuilds(S, made, gap, old, rest, new) ==
  LET all == made \o (gap \o (old \o rest))
      at  == Len(made) + Len(gap)
      now == (made \o gap) \o new
  IN  /\ all \in Seq(S) /\ at \in 0 .. Len(all) /\ at + Len(old) <= Len(all)
      /\ SubSeq(all, at + 1, at + Len(old)) = old
      /\ ReplaceSubSeqAt(at + 1, new, old, all) = now \o rest
      /\ now \in Seq(S) /\ Len(now) = at + Len(new)

LEMMA Rebuilt ==
  ASSUME NEW S, NEW made \in Seq(S), NEW gap \in Seq(S), NEW old \in Seq(S), NEW rest \in Seq(S),
         NEW new \in Seq(S)
  PROVE  Rebuilds(S, made, gap, old, rest, new)
<1> DEFINE x == made \o gap
           both == old \o rest
           all == made \o (gap \o both)
           now == x \o new
<1>1. x \in Seq(S) /\ Len(x) = Len(made) + Len(gap) /\ both \in Seq(S) BY ConcatProperties
<1>2. all = x \o both
  <2>1. both \in Seq(S) BY <1>1
  <2> HIDE DEF both
  <2> QED BY <2>1, ConcatAssociative, SMTT(60)
<1> HIDE DEF all
<1>3. all = (x \o old) \o rest
  <2>1. x \in Seq(S) BY <1>1
  <2> HIDE DEF x
  <2>2. (x \o old) \o rest = x \o both BY <2>1, ConcatAssociative, SMTT(60)
  <2> QED BY <1>2, <2>2
<1>4. TakesThePlace(S, x, old, rest, new)
  <2>1. x \in Seq(S) BY <1>1
  <2> HIDE DEF x
  <2> QED BY <2>1, PutInPlace
<1>5. now \in Seq(S) /\ Len(now) = Len(x) + Len(new)
  <2>1. x \in Seq(S) BY <1>1
  <2> HIDE DEF x
  <2> QED BY <2>1, ConcatProperties
<1>6. Len(x) \in Nat /\ Len(old) \in Nat /\ Len(rest) \in Nat
  <2>1. x \in Seq(S) BY <1>1
  <2> HIDE DEF x
  <2> QED BY <2>1, LenProperties
<1> HIDE DEF x, now
<1>7. Len(x) \in 0 .. Len(all) /\ Len(x) + Len(old) <= Len(all)
  <2>1. \A i, j, k \in Nat : i \in 0 .. i + j + k /\ i + j <= i + j + k OBVIOUS
  <2>2. Len(all) = Len(x) + Len(old) + Len(rest) BY <1>3, <1>4 DEF TakesThePlace
  <2> QED BY <1>6, <2>1, <2>2
<1> DEFINE at == Len(made) + Len(gap)
<1>8. Len(x) = at BY <1>1
<1> HIDE DEF at
<1>9. all \in Seq(S) /\ at \in 0 .. Len(all) /\ at + Len(old) <= Len(all)
  BY <1>3, <1>4, <1>7, <1>8 DEF TakesThePlace
<1>10. /\ SubSeq(all, at + 1, at + Len(old)) = old
       /\ ReplaceSubSeqAt(at + 1, new, old, all) = now \o rest
  BY <1>3, <1>4, <1>8 DEF now, TakesThePlace
<1>11. now \in Seq(S) /\ Len(now) = at + Len(new) BY <1>5, <1>8
<1> QED BY <1>9, <1>10, <1>11 DEF all, at, now, x, Rebuilds

LEMMA OneHunkLands ==
  ASSUME Window \in Nat, NEW body \in Seq(Lines), NEW made \in Seq(Lines),
         NEW from \in 0 .. Len(body), NEW h \in Hunks, h.at \in from .. Len(body),
         NEW to \in h.at .. Len(body), Len(h.old) = to - h.at, h.old = SubSeq(body, h.at + 1, to),
         \/ h.old # <<>> /\ h.start = h.at + 1
         \/ h.old = <<>> /\ h.start = 0 /\ h.at = 0 /\ made = <<>>
  PROVE  LET now == (made \o SubSeq(body, from + 1, h.at)) \o h.new
         IN  /\ now \in Seq(Lines)
             /\ ApplyHunk(Standing(made, body, from), h) = Standing(now, body, to)
<1> DEFINE at   == h.at
           old  == h.old
           new  == h.new
           gap  == SubSeq(body, from + 1, at)
           rest == SubSeq(body, to + 1, Len(body))
           now  == (made \o gap) \o new
           done == Standing(made, body, from)
           all  == made \o (gap \o (old \o rest))
           place == Len(made) + Len(gap)
           drift == Len(made) - from
<1>1. /\ Len(body) \in Nat /\ Len(made) \in Nat /\ at \in Nat /\ from \in Nat /\ to \in Nat
      /\ from <= at /\ at <= to /\ to <= Len(body)
  BY LenProperties DEF Hunks
<1>2. /\ h.start \in Int /\ old \in Seq(Lines) /\ Len(old) \in Nat
      /\ new \in Seq(Lines) /\ Len(new) \in Nat
  <2>1. h.start \in Int /\ old \in Seq(Lines) /\ new \in Seq(Lines \ {Theirs}) BY DEF Hunks
  <2>2. new \in Seq(Lines) BY <2>1, SeqMonotonic
  <2> QED BY <2>1, <2>2, LenProperties
<1>3. old = SubSeq(body, at + 1, to) /\ Len(old) = to - at OBVIOUS
<1>4. \/ old # <<>> /\ h.start = at + 1
      \/ old = <<>> /\ h.start = 0 /\ at = 0 /\ made = <<>>
  OBVIOUS
<1> HIDE DEF at, old, new
<1>5. gap \in Seq(Lines) /\ Len(gap) = at - from /\ Len(gap) \in Nat
  <2>1. at \in from .. Len(body) BY <1>1
  <2>2. gap \in Seq(Lines) /\ Len(gap) = at - from BY <2>1, Parts
  <2> QED BY <2>2, LenProperties
<1>6. SubSeq(body, from + 1, Len(body)) = gap \o (old \o rest)
  <2>1. at \in from .. Len(body) BY <1>1
  <2>2. SubSeq(body, from + 1, Len(body)) = gap \o SubSeq(body, at + 1, Len(body))
    BY <2>1, Parts
  <2>3. at \in 0 .. Len(body) /\ to \in at .. Len(body) BY <1>1
  <2>4. SubSeq(body, at + 1, Len(body)) = SubSeq(body, at + 1, to) \o rest BY <2>3, Parts
  <2> QED BY <1>3, <2>2, <2>4
<1>7. rest \in Seq(Lines)
  <2>1. to \in 0 .. Len(body) /\ Len(body) \in to .. Len(body) BY <1>1
  <2> QED BY <2>1, Parts
<1>8. done = [lines |-> all, drift |-> drift, refused |-> FALSE] BY <1>6 DEF Standing
<1>9. Standing(now, body, to) = [lines |-> now \o rest, drift |-> Len(now) - to, refused |-> FALSE]
  BY DEF Standing
<1> HIDE DEF gap, rest, done
<1>10. /\ all \in Seq(Lines) /\ place \in 0 .. Len(all) /\ place + Len(old) <= Len(all)
       /\ SubSeq(all, place + 1, place + Len(old)) = old
       /\ ReplaceSubSeqAt(place + 1, new, old, all) = now \o rest
       /\ now \in Seq(Lines) /\ Len(now) = place + Len(new)
  <2>1. Rebuilds(Lines, made, gap, old, rest, new)
    <3>1. gap \in Seq(Lines) /\ old \in Seq(Lines) /\ new \in Seq(Lines) BY <1>2, <1>5
    <3> QED BY <1>7, <3>1, Rebuilt
  <2> QED BY <2>1 DEF Rebuilds
<1> HIDE DEF now, all
<1>11. /\ place \in Nat /\ place = Len(made) + (at - from)
       /\ drift \in Int /\ drift + at = place
  BY <1>1, <1>5
<1>12. made = <<>> => Len(made) = 0 BY EmptySeq
<1>13. \/ old # <<>> /\ h.start + drift = place + 1
       \/ old = <<>> /\ h.start + drift = 0 /\ place = 0
  <2>1. CASE old # <<>> /\ h.start = at + 1
    <3>1. h.start + drift = place + 1
      <4> HIDE DEF place, drift
      <4>1. \A i, j, k \in Int : i + j = k => (j + 1) + i = k + 1 OBVIOUS
      <4>2. at \in Int /\ place \in Int /\ drift \in Int /\ drift + at = place BY <1>1, <1>11
      <4> QED BY <2>1, <4>1, <4>2
    <3> QED BY <2>1, <3>1
  <2>2. CASE old = <<>> /\ h.start = 0 /\ at = 0 /\ made = <<>>
    <3>1. Len(made) = 0 /\ from = 0 BY <1>1, <1>12, <2>2
    <3>2. drift = 0 /\ place = 0 BY <1>5, <2>2, <3>1
    <3> QED BY <2>2, <3>2
  <2> QED BY <1>4, <2>1, <2>2
<1>14. drift + Len(new) - Len(old) = Len(now) - to
  <2>1. Len(now) = place + Len(new) BY <1>10
  <2> HIDE DEF place, drift
  <2> DEFINE more == Len(new)
  <2>2. /\ drift \in Int /\ place \in Int /\ at \in Int /\ to \in Int /\ more \in Int
        /\ drift + at = place
    BY <1>1, <1>2, <1>11
  <2> HIDE DEF more
  <2>3. drift + more - (to - at) = (place + more) - to BY <2>2
  <2> QED BY <1>3, <2>1, <2>3 DEF more
<1> HIDE DEF place, drift
<1>15. Locate(all, h.start + drift, old) = {place}
  <2> DEFINE start == h.start + drift
  <2>1. \/ old # <<>> /\ start = place + 1
        \/ old = <<>> /\ start = 0 /\ place = 0
    BY <1>13
  <2> HIDE DEF start
  <2>2. /\ all \in Seq(Lines) /\ old \in Seq(Lines) /\ place \in 0 .. Len(all)
        /\ place + Len(old) <= Len(all) /\ SubSeq(all, place + 1, place + Len(old)) = old
    BY <1>2, <1>10
  <2>3. StandsAt(all, start, old, place) BY <2>1, <2>2 DEF StandsAt
  <2>4. Locate(all, start, old) = {place} BY <2>3, FoundAsStated
  <2> QED BY <2>4 DEF start
<1>16. ApplyHunk(done, h)
         = [lines |-> now \o rest, drift |-> drift + Len(new) - Len(old), refused |-> FALSE]
  <2>1. Place({place}) = place BY DEF Place
  <2>2. /\ Locate(done.lines, h.start + done.drift, h.old) = {place} /\ ~done.refused
        /\ done.lines = all /\ done.drift = drift
    BY <1>8, <1>15 DEF old
  <2>3. ApplyHunk(done, h)
          = [done EXCEPT !.lines = ReplaceSubSeqAt(place + 1, new, old, all),
                         !.drift = drift + Len(new) - Len(old)]
    BY <2>1, <2>2 DEF ApplyHunk, new, old
  <2>4. ReplaceSubSeqAt(place + 1, new, old, all) = now \o rest BY <1>10
  <2> QED BY <1>8, <2>3, <2>4
<1>17. ApplyHunk(done, h) = Standing(now, body, to) BY <1>9, <1>14, <1>16
<1>18. now \in Seq(Lines) BY <1>10
<1> QED BY <1>17, <1>18 DEF now, gap, new, done, at

(* A diff that was made well: hunk after hunk, each with the lines that    *)
(* stand at its place, and its place counted as diff counts.               *)
Laid(hunks, body) ==
  \A k \in 1 .. Len(hunks) :
    LET h == hunks[k]
    IN  /\ EndOf(hunks, k - 1) \in 0 .. h.at
        /\ EndOf(hunks, k) \in h.at .. Len(body)
        /\ h.old = SubSeq(body, h.at + 1, EndOf(hunks, k))
        /\ \/ h.old # <<>> /\ h.start = h.at + 1
           \/ k = 1 /\ h.old = <<>> /\ h.start = 0 /\ h.at = 0

MeantInTurn(m, hunks, body) ==
  /\ m[0] = <<>>
  /\ \A k \in 1 .. Len(hunks) :
       m[k] = (m[k - 1] \o SubSeq(body, EndOf(hunks, k - 1) + 1, hunks[k].at)) \o hunks[k].new

LEMMA LaidHunk ==
  ASSUME NEW hunks \in Seq(Hunks), NEW body \in Seq(Lines), Laid(hunks, body),
         NEW k \in 1 .. Len(hunks)
  PROVE  /\ hunks[k] \in Hunks /\ hunks[k].new \in Seq(Lines)
         /\ k - 1 \in 0 .. Len(hunks) /\ k \in 0 .. Len(hunks)
         /\ EndOf(hunks, k - 1) \in 0 .. Len(body)
         /\ hunks[k].at \in EndOf(hunks, k - 1) .. Len(body)
         /\ EndOf(hunks, k) \in hunks[k].at .. Len(body)
         /\ Len(hunks[k].old) = EndOf(hunks, k) - hunks[k].at
         /\ SubSeq(body, EndOf(hunks, k - 1) + 1, hunks[k].at) \in Seq(Lines)
<1> DEFINE h == hunks[k]
           from == EndOf(hunks, k - 1)
           to == EndOf(hunks, k)
           more == Len(h.old)
           n == Len(hunks)
           size == Len(body)
<1>1. n \in Nat /\ size \in Nat /\ h \in Hunks /\ DOMAIN hunks = 1 .. n
  BY LenProperties, ElementOfSeq
<1>2. /\ h.at \in Nat /\ h.new \in Seq(Lines \ {Theirs}) /\ h.old \in Seq(Lines) BY <1>1 DEF Hunks
<1>3. h.new \in Seq(Lines) /\ more \in Nat BY <1>2, SeqMonotonic, LenProperties
<1>4. from \in 0 .. h.at /\ to \in h.at .. size BY DEF Laid
<1>5. k # 0 BY <1>1
<1>6. to = h.at + more BY <1>5 DEF EndOf
<1>7. k - 1 \in 0 .. n /\ k \in 0 .. n BY <1>1
<1> HIDE DEF n, from, to, more, size
<1>8. from \in 0 .. size /\ h.at \in from .. size /\ more = to - h.at BY <1>1, <1>2, <1>3, <1>4, <1>6
<1>9. SubSeq(body, from + 1, h.at) \in Seq(Lines) BY <1>8, Parts DEF size
<1> QED BY <1>1, <1>3, <1>4, <1>7, <1>8, <1>9 DEF from, to, more, n, size

LEMMA MeansInTurn ==
  ASSUME NEW hunks \in Seq(Hunks), NEW body \in Seq(Lines), Laid(hunks, body)
  PROVE  \E m : MeantInTurn(m, hunks, body) /\ MeantUpTo(hunks, body)[Len(hunks)] = m[Len(hunks)]
<1> DEFINE n == Len(hunks)
           V == Seq(Lines)
           gap(k) == SubSeq(body, EndOf(hunks, k - 1) + 1, hunks[k].at)
           base == <<>>
           step == [k \in 1 .. n |-> [d \in V |-> (d \o gap(k)) \o hunks[k].new]]
<1>1. n \in Nat BY LenProperties
<1>2. base \in V BY EmptySeq
<1>3. step \in [1 .. n -> [V -> V]]
  <2>1. ASSUME NEW k \in 1 .. n, NEW d \in V PROVE (d \o gap(k)) \o hunks[k].new \in V
    <3>1. gap(k) \in V /\ hunks[k].new \in V BY LaidHunk
    <3> HIDE DEF gap
    <3> DEFINE dg == d \o gap(k)
    <3>2. dg \in V BY <3>1, ConcatProperties
    <3> HIDE DEF dg
    <3>3. dg \o hunks[k].new \in V BY <3>1, <3>2, ConcatProperties
    <3> QED BY <3>3 DEF dg
  <2> HIDE DEF n, V, gap
  <2> QED BY <2>1
<1>4. PICK f \in [0 .. n -> V] : f[0] = base /\ \A k \in 1 .. n : f[k] = step[k][f[k - 1]]
  <2> HIDE DEF n, base, step, V
  <2>1. Stepwise(n, V, base, step) BY <1>1, <1>2, <1>3 DEF Stepwise
  <2> QED BY <2>1, StepByStep
<1> DEFINE Body(g, k) == IF k = 0 THEN base ELSE g[k - 1] \o gap(k) \o hunks[k].new
<1>5. f = [k \in 0 .. n |-> Body(f, k)]
  <2>1. ASSUME NEW k \in 1 .. n PROVE f[k] = f[k - 1] \o gap(k) \o hunks[k].new
    <3>1. k - 1 \in 0 .. n BY <1>1
    <3>2. f[k - 1] \in V BY <1>4, <3>1
    <3> HIDE DEF V, gap
    <3>3. step[k][f[k - 1]] = f[k - 1] \o gap(k) \o hunks[k].new BY <3>2
    <3> QED BY <1>4, <3>3
  <2>2. \A k \in 0 .. n : k # 0 => k \in 1 .. n BY <1>1
  <2>3. \A k \in 0 .. n : f[k] = Body(f, k)
    <3> HIDE DEF base, n, gap
    <3> QED BY <1>4, <2>1, <2>2
  <2> HIDE DEF Body, n, V
  <2> QED BY <1>4, <2>3
<1> DEFINE g == CHOOSE upto : upto = [k \in 0 .. n |-> Body(upto, k)]
<1>6. g = [k \in 0 .. n |-> Body(g, k)]
  <2> HIDE DEF Body, n
  <2> QED BY <1>5
<1>7. MeantUpTo(hunks, body) = g BY DEF MeantUpTo
<1> HIDE DEF g
<1>8. \A k \in 0 .. n : g[k] = Body(g, k)
  <2> HIDE DEF Body, n
  <2> QED BY <1>6
<1>9. g[0] = base
  <2>1. 0 \in 0 .. n /\ Body(g, 0) = base BY <1>1
  <2> HIDE DEF Body, n
  <2> QED BY <1>8, <2>1
<1>10. \A k \in 1 .. n : g[k] = g[k - 1] \o gap(k) \o hunks[k].new
  <2> SUFFICES ASSUME NEW k \in 1 .. n PROVE g[k] = g[k - 1] \o gap(k) \o hunks[k].new OBVIOUS
  <2>1. k \in 0 .. n /\ k # 0 BY <1>1
  <2>2. Body(g, k) = g[k - 1] \o gap(k) \o hunks[k].new BY <2>1
  <2> HIDE DEF Body, n
  <2> QED BY <1>8, <2>1, <2>2
<1> QED BY <1>7, <1>9, <1>10 DEF MeantInTurn

(* A diff that was made well is taken, hunk after hunk, and makes of the   *)
(* lines what it means.                                                    *)
LEMMA LaidLands ==
  ASSUME Window \in Nat, NEW hunks \in Seq(Hunks), NEW body \in Seq(Lines), Laid(hunks, body)
  PROVE  LET n == Len(hunks)
             made == MeantUpTo(hunks, body)[n]
         IN  /\ made \in Seq(Lines) /\ EndOf(hunks, n) \in 0 .. Len(body)
             /\ Hunked(hunks, body) = Standing(made, body, EndOf(hunks, n))
<1> DEFINE n == Len(hunks)
<1>1. n \in Nat /\ Len(body) \in Nat BY LenProperties
<1>2. PICK g : HunkByHunk(g, hunks, body) /\ Hunked(hunks, body) = g[n] BY HunksInTurn
<1>3. PICK m : MeantInTurn(m, hunks, body) /\ MeantUpTo(hunks, body)[n] = m[n] BY MeansInTurn
<1> DEFINE Stands(k) == /\ m[k] \in Seq(Lines) /\ EndOf(hunks, k) \in 0 .. Len(body)
                        /\ g[k] = Standing(m[k], body, EndOf(hunks, k))
           S == {k \in 0 .. n : Stands(k)}
<1>4. 0 \in S
  <2>1. m[0] = <<>> /\ g[0] = [lines |-> body, drift |-> 0, refused |-> FALSE] /\ EndOf(hunks, 0) = 0
    BY <1>2, <1>3 DEF HunkByHunk, MeantInTurn, EndOf
  <2>2. <<>> \in Seq(Lines) /\ Len(<<>>) = 0 BY EmptySeq
  <2>3. <<>> \o SubSeq(body, 0 + 1, Len(body)) = body
    <3>1. SubSeq(body, 1, Len(body)) = body BY SubSeqFull
    <3>2. <<>> \o body = body BY ConcatEmptySeq
    <3> QED BY <3>1, <3>2
  <2>4. Standing(<<>>, body, 0) = [lines |-> body, drift |-> 0, refused |-> FALSE]
    <3>1. Len(<<>>) - 0 = 0 BY <2>2
    <3> QED BY <2>3, <3>1 DEF Standing
  <2>5. Stands(0) BY <1>1, <2>1, <2>2, <2>4
  <2>6. 0 \in 0 .. n BY <1>1
  <2> HIDE DEF Stands, n
  <2> QED BY <2>5, <2>6
<1>5. ASSUME NEW k \in 1 .. n, k - 1 \in S PROVE k \in S
  <2> DEFINE h == hunks[k]
             from == EndOf(hunks, k - 1)
             to == EndOf(hunks, k)
             made == m[k - 1]
             now == (made \o SubSeq(body, from + 1, h.at)) \o h.new
  <2>1. /\ h \in Hunks /\ k \in 0 .. n
        /\ from \in 0 .. Len(body) /\ h.at \in from .. Len(body)
        /\ to \in h.at .. Len(body) /\ Len(h.old) = to - h.at
    BY LaidHunk
  <2>2. made \in Seq(Lines) /\ g[k - 1] = Standing(made, body, from) BY <1>5
  <2>3. h.old = SubSeq(body, h.at + 1, to) BY DEF Laid
  <2>4. m[k] = now BY <1>3 DEF MeantInTurn
  <2>5. g[k] = ApplyHunk(g[k - 1], h) BY <1>2 DEF HunkByHunk
  <2>6. \/ h.old # <<>> /\ h.start = h.at + 1
        \/ h.old = <<>> /\ h.start = 0 /\ h.at = 0 /\ made = <<>>
    <3>1. k = 1 => made = <<>> BY <1>3 DEF MeantInTurn
    <3> QED BY <3>1 DEF Laid
  <2>7. now \in Seq(Lines) /\ ApplyHunk(Standing(made, body, from), h) = Standing(now, body, to)
    <3> HIDE DEF h, from, to, made
    <3> QED BY <2>1, <2>2, <2>3, <2>6, OneHunkLands
  <2>8. to \in 0 .. Len(body)
    <3> HIDE DEF h, from, to
    <3>1. h.at \in Nat BY <2>1 DEF Hunks
    <3> QED BY <1>1, <2>1, <3>1
  <2>9. Stands(k)
    <3> HIDE DEF h, now, made, from
    <3> QED BY <2>2, <2>4, <2>5, <2>7, <2>8
  <2> HIDE DEF Stands, n
  <2> QED BY <2>1, <2>9
<1>6. n \in S
  <2>1. 0 .. n \subseteq S
    <3> HIDE DEF S, n
    <3> QED BY <1>1, <1>4, <1>5, Climbs
  <2>2. n \in 0 .. n BY <1>1
  <2> HIDE DEF S, n
  <2> QED BY <2>1, <2>2
<1> QED BY <1>2, <1>3, <1>6

(* The diffs a caller makes of a text are made well if it has counted its  *)
(* lines.                                                                  *)
Spanning(h, body, at, to) ==
  /\ h.at = at /\ at \in 0 .. to /\ to \in 0 .. Len(body)
  /\ h.old = SubSeq(body, at + 1, to) /\ h.at + Len(h.old) = to

LEMMA HunkSpans ==
  ASSUME NEW body \in Seq(Lines), NEW s, s[1] \in 0 .. Len(body), s[2] \in 0 .. Len(body),
         s[1] <= s[2], NEW new, NEW off
  PROVE  Spanning(HunkAt(body, s[1], s[2], new, off), body, s[1], s[2])
<1> DEFINE at == s[1]
           to == s[2]
           h == HunkAt(body, at, to, new, off)
           more == Len(SubSeq(body, at + 1, to))
<1>1. Len(body) \in Nat BY LenProperties
<1>2. at \in 0 .. Len(body) /\ to \in at .. Len(body) BY <1>1
<1>3. more = to - at
  <2> HIDE DEF at, to
  <2> QED BY <1>2, Parts
<1>4. h.at = at /\ h.old = SubSeq(body, at + 1, to) BY DEF HunkAt
<1>5. Len(h.old) = more BY <1>4
<1> HIDE DEF h, more
<1>6. at \in 0 .. to /\ to \in 0 .. Len(body) /\ at + more = to BY <1>1, <1>2, <1>3
<1>7. h.at + Len(h.old) = to
  <2>1. h.at + Len(h.old) = at + more BY <1>4, <1>5
  <2> HIDE DEF at, to
  <2> QED BY <1>6, <2>1
<1> QED BY <1>4, <1>6, <1>7 DEF Spanning, h

(* A hunk by itself, and two apart from each other.                        *)
LEMMA Spanned ==
  ASSUME FilesAssumption, NEW body \in Seq(Lines), NEW off \in Int, NEW hunks \in HunksOf(body, off)
  PROVE  \/ \E a1, b1 : Len(hunks) = 1 /\ Spanning(hunks[1], body, a1, b1)
         \/ \E a1, b1, a2, b2 : /\ Len(hunks) = 2 /\ Spanning(hunks[1], body, a1, b1)
                               /\ Spanning(hunks[2], body, a2, b2) /\ b1 < a2
<1> DEFINE Spans == {s \in (0 .. Len(body)) \X (0 .. Len(body)) : s[1] <= s[2]}
           H(s, new) == HunkAt(body, s[1], s[2], new, off)
<1>1. \A s \in Spans : \A new : Spanning(H(s, new), body, s[1], s[2])
  <2> SUFFICES ASSUME NEW s \in Spans, NEW new PROVE Spanning(H(s, new), body, s[1], s[2]) OBVIOUS
  <2>1. s[1] \in 0 .. Len(body) /\ s[2] \in 0 .. Len(body) /\ s[1] <= s[2] OBVIOUS
  <2> QED BY <2>1, HunkSpans
<1>2. \/ \E s \in Spans : \E new \in Ours : hunks = <<H(s, new)>>
      \/ \E p \in Spans \X Spans : \E new \in Ours \X Ours :
           p[1][2] < p[2][1] /\ hunks = <<H(p[1], new[1]), H(p[2], new[2])>>
  BY DEF HunksOf
<1> HIDE DEF Spans, H
<1>3. ASSUME NEW s \in Spans, NEW new \in Ours, hunks = <<H(s, new)>>
      PROVE  \E a1, b1 : Len(hunks) = 1 /\ Spanning(hunks[1], body, a1, b1)
  <2> DEFINE h == H(s, new)
  <2>1. Spanning(h, body, s[1], s[2]) BY <1>1
  <2> HIDE DEF h
  <2>2. hunks = <<h>> BY <1>3 DEF h
  <2>3. Len(hunks) = 1 /\ hunks[1] = h BY <2>2
  <2> QED BY <2>1, <2>3
<1>4. ASSUME NEW p \in Spans \X Spans, NEW new \in Ours \X Ours,
             p[1][2] < p[2][1], hunks = <<H(p[1], new[1]), H(p[2], new[2])>>
      PROVE  \E a1, b1, a2, b2 : /\ Len(hunks) = 2 /\ Spanning(hunks[1], body, a1, b1)
                                 /\ Spanning(hunks[2], body, a2, b2) /\ b1 < a2
  <2> DEFINE g == H(p[1], new[1])
             h == H(p[2], new[2])
  <2>1. p[1] \in Spans /\ p[2] \in Spans OBVIOUS
  <2>2. Spanning(g, body, p[1][1], p[1][2]) /\ Spanning(h, body, p[2][1], p[2][2]) BY <1>1, <2>1
  <2> HIDE DEF g, h
  <2>3. hunks = <<g, h>> BY <1>4 DEF g, h
  <2>4. Len(hunks) = 2 /\ hunks[1] = g /\ hunks[2] = h BY <2>3
  <2> QED BY <1>4, <2>2, <2>4
<1> QED BY <1>2, <1>3, <1>4

LEMMA MadeIsLaid ==
  ASSUME FilesAssumption, NEW body \in Seq(Lines), NEW off \in Int, NEW hunks \in HunksOf(body, off),
         \A k \in DOMAIN hunks : hunks[k].start = IF hunks[k].old = <<>> THEN hunks[k].at ELSE hunks[k].at + 1,
         body = <<>> \/ \A k \in DOMAIN hunks : hunks[k].old # <<>>
  PROVE  hunks \in Seq(Hunks) /\ Len(hunks) \in Nat \ {0} /\ Laid(hunks, body)
<1>1. hunks \in Seq(Hunks) BY HunksMade
<1>2. DOMAIN hunks = 1 .. Len(hunks) /\ Len(body) \in Nat BY <1>1, LenProperties
<1>3. EndOf(hunks, 0) = 0 /\ \A k \in 1 .. 2 : EndOf(hunks, k) = hunks[k].at + Len(hunks[k].old)
  BY DEF EndOf
<1>4. body = <<>> => Len(body) = 0 BY EmptySeq
<1>5. ASSUME NEW a1, NEW b1, Len(hunks) = 1, Spanning(hunks[1], body, a1, b1)
      PROVE  Len(hunks) \in Nat \ {0} /\ Laid(hunks, body)
  <2>1. DOMAIN hunks = 1 .. 1 BY <1>2, <1>5
  <2>2. EndOf(hunks, 1) = b1 BY <1>3, <1>5 DEF Spanning
  <2>3. /\ hunks[1].at = a1 /\ a1 \in 0 .. b1 /\ b1 \in 0 .. Len(body)
        /\ hunks[1].old = SubSeq(body, a1 + 1, b1)
    BY <1>5 DEF Spanning
  <2>4. body = <<>> => a1 = 0 BY <1>4, <2>3
  <2>5. 0 \in 0 .. a1 /\ b1 \in a1 .. Len(body) BY <1>2, <2>3
  <2>6. \/ hunks[1].old # <<>> /\ hunks[1].start = hunks[1].at + 1
        \/ hunks[1].old = <<>> /\ hunks[1].start = 0 /\ hunks[1].at = 0
    <3>1. 1 \in DOMAIN hunks BY <2>1
    <3>2. CASE hunks[1].old # <<>> BY <3>1, <3>2
    <3>3. CASE hunks[1].old = <<>>
      <4>1. hunks[1].start = hunks[1].at BY <3>1, <3>3
      <4>2. body = <<>> BY <3>1, <3>3
      <4> QED BY <2>3, <2>4, <3>3, <4>1, <4>2
    <3> QED BY <3>2, <3>3
  <2>7. ASSUME NEW k \in 1 .. 1
        PROVE  LET h == hunks[k]
               IN  /\ EndOf(hunks, k - 1) \in 0 .. h.at
                   /\ EndOf(hunks, k) \in h.at .. Len(body)
                   /\ h.old = SubSeq(body, h.at + 1, EndOf(hunks, k))
                   /\ \/ h.old # <<>> /\ h.start = h.at + 1
                      \/ k = 1 /\ h.old = <<>> /\ h.start = 0 /\ h.at = 0
    <3>1. k = 1 /\ k - 1 = 0 OBVIOUS
    <3> QED BY <1>3, <2>2, <2>3, <2>5, <2>6, <3>1
  <2> QED BY <1>5, <2>7 DEF Laid
<1>6. ASSUME NEW a1, NEW b1, NEW a2, NEW b2, Len(hunks) = 2,
             Spanning(hunks[1], body, a1, b1), Spanning(hunks[2], body, a2, b2), b1 < a2
      PROVE  Len(hunks) \in Nat \ {0} /\ Laid(hunks, body)
  <2>1. DOMAIN hunks = 1 .. 2 BY <1>2, <1>6
  <2>2. EndOf(hunks, 1) = b1 /\ EndOf(hunks, 2) = b2
    <3>1. /\ EndOf(hunks, 1) = hunks[1].at + Len(hunks[1].old)
          /\ EndOf(hunks, 2) = hunks[2].at + Len(hunks[2].old)
      BY <1>3
    <3> QED BY <1>6, <3>1 DEF Spanning
  <2>3. /\ hunks[1].at = a1 /\ a1 \in 0 .. b1 /\ b1 \in 0 .. Len(body)
        /\ hunks[1].old = SubSeq(body, a1 + 1, b1)
        /\ hunks[2].at = a2 /\ a2 \in 0 .. b2 /\ b2 \in 0 .. Len(body)
        /\ hunks[2].old = SubSeq(body, a2 + 1, b2)
    BY <1>6 DEF Spanning
  <2>4. body # <<>> BY <1>2, <1>4, <1>6, <2>3
  <2>5. /\ 0 \in 0 .. a1 /\ b1 \in a1 .. Len(body)
        /\ b1 \in 0 .. a2 /\ b2 \in a2 .. Len(body)
    BY <1>2, <1>6, <2>3
  <2>6. /\ hunks[1].old # <<>> /\ hunks[1].start = hunks[1].at + 1
        /\ hunks[2].old # <<>> /\ hunks[2].start = hunks[2].at + 1
    BY <2>1, <2>4
  <2>7. \A k \in 1 .. 2 : (k = 1 /\ k - 1 = 0) \/ (k = 2 /\ k - 1 = 1) OBVIOUS
  <2>8. ASSUME NEW k \in 1 .. 2
        PROVE  LET h == hunks[k]
               IN  /\ EndOf(hunks, k - 1) \in 0 .. h.at
                   /\ EndOf(hunks, k) \in h.at .. Len(body)
                   /\ h.old = SubSeq(body, h.at + 1, EndOf(hunks, k))
                   /\ \/ h.old # <<>> /\ h.start = h.at + 1
                      \/ k = 1 /\ h.old = <<>> /\ h.start = 0 /\ h.at = 0
    <3>1. CASE k = 1 /\ k - 1 = 0 BY <1>3, <2>2, <2>3, <2>5, <2>6, <3>1
    <3>2. CASE k = 2 /\ k - 1 = 1 BY <2>2, <2>3, <2>5, <2>6, <3>2
    <3> QED BY <2>7, <3>1, <3>2
  <2> QED BY <1>6, <2>8 DEF Laid
<1> QED BY <1>1, <1>5, <1>6, Spanned

(* A section that was made of a text, and that says what it can say.       *)
TextOf(base) == IF base = NoFile THEN Empty ELSE base

MadeOf(s, base) ==
  /\ s \in Sections /\ ~s.deletes /\ (s.creates <=> base = NoFile)
  /\ \E off \in Int : s.hunks \in HunksOf(TextOf(base).lines, off)
  /\ s.unended => \E k \in DOMAIN s.hunks : AtEnd(s.hunks[k], TextOf(base).lines)
  /\ IsText(Meant(s, base))

Plainly(s, base) ==
  /\ Counted(s)
  /\ s.creates \/ \A k \in DOMAIN s.hunks : s.hunks[k].old # <<>>
  /\ s.creates \/ base.ends \/ ~Meant(s, base).ends
  /\ Meant(s, base).lines # <<Blank>>

LEMMA SectionLands ==
  ASSUME FilesAssumption, NEW base \in MaybeText, NEW s, MadeOf(s, base), Plainly(s, base)
  PROVE  Apply(s, base) = Meant(s, base) /\ Apply(s, base) # Refused
<1> DEFINE text == TextOf(base)
           body == text.lines
           n == Len(s.hunks)
           made == MeantUpTo(s.hunks, body)[n]
           all == made \o SubSeq(body, EndOf(s.hunks, n) + 1, Len(body))
           atEnd == \E k \in DOMAIN s.hunks : AtEnd(s.hunks[k], body)
           newline == (text.ends \/ s.creates) /\ ~s.unended
           ends == IF atEnd THEN ~s.unended ELSE text.ends
           end == Hunked(s.hunks, body)
<1>1. text \in Texts /\ body \in Seq(Lines) /\ text.ends \in BOOLEAN
  <2>1. Empty \in Texts BY EmptySeq DEF Empty, Text, Texts
  <2>2. text \in Texts BY <2>1 DEF TextOf, MaybeText
  <2> HIDE DEF text
  <2> QED BY <2>2 DEF Texts
<1>2. /\ s \in Sections /\ s.creates \in BOOLEAN /\ s.unended \in BOOLEAN
      /\ ~s.deletes /\ (s.creates <=> base = NoFile)
      /\ (s.unended => atEnd) /\ IsText(Meant(s, base))
  <2>1. s \in Sections BY DEF MadeOf
  <2>2. s.creates \in BOOLEAN /\ s.unended \in BOOLEAN BY <2>1 DEF Sections
  <2> QED BY <2>1, <2>2 DEF MadeOf
<1>3. s.creates => body = <<>> /\ text.ends = FALSE BY <1>2 DEF TextOf, Empty, Text
<1>4. /\ s.hunks \in Seq(Hunks) /\ n \in Nat \ {0} /\ Laid(s.hunks, body)
  <2> HIDE DEF text
  <2>1. PICK off \in Int : s.hunks \in HunksOf(body, off) BY DEF MadeOf, text
  <2>2. \A k \in DOMAIN s.hunks :
          s.hunks[k].start = IF s.hunks[k].old = <<>> THEN s.hunks[k].at ELSE s.hunks[k].at + 1
    BY DEF Plainly, Counted
  <2>3. body = <<>> \/ \A k \in DOMAIN s.hunks : s.hunks[k].old # <<>> BY <1>3 DEF Plainly
  <2> HIDE DEF body
  <2> QED BY <1>1, <2>1, <2>2, <2>3, MadeIsLaid
<1>5. /\ made \in Seq(Lines) /\ EndOf(s.hunks, n) \in 0 .. Len(body)
      /\ end = Standing(made, body, EndOf(s.hunks, n))
  <2> HIDE DEF text
  <2>1. Window \in Nat BY DEF FilesAssumption
  <2> QED BY <1>1, <1>4, <2>1, LaidLands
<1>6. ~end.refused /\ end.lines = all
  <2> HIDE DEF end, made, body
  <2> QED BY <1>5 DEF Standing
<1>7. all \in Seq(Lines)
  <2> DEFINE rest == SubSeq(body, EndOf(s.hunks, n) + 1, Len(body))
  <2>1. rest \in Seq(Lines)
    <3> HIDE DEF text
    <3> DEFINE from == EndOf(s.hunks, n)
    <3>1. from \in 0 .. Len(body) /\ Len(body) \in from .. Len(body) BY <1>1, <1>5, LenProperties
    <3> HIDE DEF from
    <3>2. SubSeq(body, from + 1, Len(body)) \in Seq(Lines) BY <1>1, <3>1, Parts
    <3> QED BY <3>2 DEF from
  <2> HIDE DEF rest, made
  <2>2. made \o rest \in Seq(Lines) BY <1>5, <2>1, ConcatProperties
  <2> QED BY <2>2 DEF rest
<1>8. s.creates => atEnd
  <2> SUFFICES ASSUME s.creates PROVE atEnd OBVIOUS
  <2> DEFINE h == s.hunks[n]
  <2>1. DOMAIN s.hunks = 1 .. n BY <1>4, LenProperties
  <2>2. n \in 1 .. n BY <1>4
  <2>3. Len(body) = 0 BY <1>3, EmptySeq
  <2>4. EndOf(s.hunks, n) = 0 BY <1>5, <2>3
  <2>5. EndOf(s.hunks, n) = h.at + Len(h.old) BY <1>4 DEF EndOf
  <2>6. AtEnd(h, body) BY <2>3, <2>4, <2>5 DEF AtEnd
  <2> QED BY <2>1, <2>2, <2>6
<1>9. Apply(s, base) = Joined(all, newline)
  <2>1. end = Hunked(s.hunks, (IF base = NoFile THEN Empty ELSE base).lines) BY DEF TextOf
  <2>2. newline = (((IF base = NoFile THEN Empty ELSE base).ends \/ s.creates) /\ ~s.unended)
    BY DEF TextOf
  <2>3. ~(s.creates /\ ~(base \in {NoFile, Empty})) /\ ~(~s.creates /\ base = NoFile) BY <1>2
  <2> HIDE DEF end, newline, all
  <2> QED BY <1>2, <1>6, <2>1, <2>2, <2>3 DEF Apply
<1>10. Meant(s, base) = IF all = <<>> THEN Empty ELSE Text(all, ends) BY DEF Meant, TextOf
<1> HIDE DEF all, atEnd, text
<1>11. Meant(s, base).lines = all
  <2>1. Empty.lines = <<>> /\ Text(all, ends).lines = all BY DEF Empty, Text
  <2> QED BY <1>10, <2>1
<1>12. ASSUME all = <<>> PROVE Apply(s, base) = Meant(s, base)
  <2> HIDE DEF newline, ends
  <2>1. Joined(all, newline) = Empty BY <1>12 DEF Joined
  <2> QED BY <1>9, <1>10, <1>12, <2>1
<1>13. ASSUME all # <<>> PROVE Apply(s, base) = Meant(s, base)
  <2>1. Meant(s, base) = Text(all, ends) /\ Meant(s, base).ends = ends BY <1>10, <1>13 DEF Text
  <2>2. all # <<Blank>> BY <1>11 DEF Plainly
  <2>3. ~s.creates => text.ends = base.ends BY <1>2 DEF text, TextOf
  <2>4. ends <=> newline
    <3>1. s.creates \/ text.ends \/ ~ends BY <2>1, <2>3 DEF Plainly
    <3>2. s.creates \/ ~s.creates OBVIOUS
    <3>3. CASE atEnd BY <3>1, <3>3
    <3>4. CASE ~atEnd BY <1>1, <1>2, <1>8, <3>4
    <3> QED BY <3>3, <3>4
  <2>5. ends \in BOOLEAN /\ newline \in BOOLEAN BY <1>1, <1>2
  <2>6. ends = newline BY <2>4, <2>5
  <2>7. Last(all) = Blank => newline
    <3>1. Meant(s, base) # Empty BY <1>11, <1>13 DEF Empty, Text
    <3> QED BY <1>2, <1>11, <2>1, <2>6, <3>1 DEF IsText
  <2>8. Joined(all, newline) = Text(all, newline)
    <3> HIDE DEF newline
    <3> QED BY <1>13, <2>2, <2>5, <2>7 DEF Joined
  <2> HIDE DEF newline, ends
  <2> QED BY <1>9, <2>1, <2>6, <2>8
<1>14. Apply(s, base) = Meant(s, base) BY <1>12, <1>13
<1>15. Apply(s, base) # Refused
  <2>1. newline \in BOOLEAN BY <1>1, <1>2
  <2> HIDE DEF newline
  <2>2. Joined(all, newline) \in Texts BY <1>7, <2>1, LinesJoined
  <2> QED BY <1>9, <2>2 DEF FilesAssumption
<1> QED BY <1>14, <1>15

-----------------------------------------------------------------------------
(* A call with a diff: its sections were made of what the caller has seen; *)
(* until it begins to write, the files nobody has touched are as they were *)
(* when it began; every text it is to write is what its section makes of   *)
(* the file as it was then, and so is every file it has written.           *)
ByItself(sections, k) == \A l \in DOMAIN sections : sections[l].file = sections[k].file => l = k

WellMade(sections, base) ==
  /\ sections \in Seq(Sections)
  /\ \A k \in DOMAIN sections : sections[k].deletes \/ MadeOf(sections[k], base[sections[k].file])

Behind(c) == IF c.pc = "plan" THEN 0 ELSE Len(c.sections) - Len(c.planned)

Made(c, k) == Apply(c.sections[k], c.before[c.sections[k].file])

Untouched(c, k) == theirs[c.sections[k].file] # "during"

Patching(c) ==
  /\ ~c.blind /\ WellMade(c.sections, c.base) /\ Len(c.planned) <= Len(c.sections)
  /\ c.pc = "plan" => \A f \in Paths : theirs[f] # "during" => tree[f] = c.before[f]
  /\ \A j \in DOMAIN c.planned :
       LET k == Behind(c) + j
       IN  /\ c.planned[j].file = c.sections[k].file
           /\ Untouched(c, k) => c.planned[j].text = Made(c, k)
  /\ \A k \in 1 .. Behind(c) :
       Untouched(c, k) /\ ByItself(c.sections, k) => tree[c.sections[k].file] = Made(c, k)

DiffsWork == (call # Idle /\ call.sections # <<>> => Patching(call)) /\ PlainDiffLands

LEMMA PatchDiffs ==
  ASSUME FilesAssumption, seen \in Trees, NEW sections \in Patches
  PROVE  WellMade(sections, seen)
<1> DEFINE Short == {s \in UNION {SectionsOf(f, 0) : f \in Paths} : Len(s.hunks) = 1}
           Sound(s) == s.deletes \/ MadeOf(s, seen[s.file])
<1>1. Miscounts \subseteq Int /\ 0 \in Int BY DEF FilesAssumption
<1>2. ASSUME NEW f \in Paths, NEW off \in Int, NEW s \in SectionsOf(f, off) PROVE Sound(s)
  <2> DEFINE text == IF seen[f] = NoFile THEN Empty ELSE seen[f]
  <2>1. /\ s \in [file : {f}, creates : {seen[f] = NoFile}, deletes : {FALSE},
                  hunks : HunksOf(text.lines, off), unended : BOOLEAN]
        /\ s.unended => \E k \in DOMAIN s.hunks : AtEnd(s.hunks[k], text.lines)
        /\ IsText(Meant(s, seen[f]))
    BY DEF SectionsOf
  <2>2. text = TextOf(seen[f]) BY DEF TextOf
  <2> HIDE DEF text
  <2>3. s.file = f /\ (s.creates <=> seen[f] = NoFile) /\ ~s.deletes /\ s.hunks \in HunksOf(text.lines, off)
    BY <2>1
  <2>4. s \in Sections BY SectionMade DEF OfSeen
  <2> QED BY <2>1, <2>2, <2>3, <2>4 DEF MadeOf
<1>3. \/ \E off \in Miscounts : \E f \in Paths : \E s \in SectionsOf(f, off) : sections = <<s>>
      \/ \E s, t \in Short : sections = <<s, t>>
      \/ \E f \in Paths : seen[f] # NoFile /\ sections = <<Deletion(f)>>
  BY DEF Patches
<1>4. \A s \in Short : Sound(s)
  <2> HIDE DEF Sound
  <2> QED BY <1>1, <1>2
<1>5. \A f \in Paths : Sound(Deletion(f)) BY DEF Deletion
<1> HIDE DEF Short, Sound
<1>6. \/ \E s : Sound(s) /\ sections = <<s>>
      \/ \E s, t : Sound(s) /\ Sound(t) /\ sections = <<s, t>>
  BY <1>1, <1>2, <1>3, <1>4, <1>5
<1>7. \A k \in DOMAIN sections : Sound(sections[k])
  <2>1. ASSUME NEW s, Sound(s), sections = <<s>> PROVE \A k \in DOMAIN sections : Sound(sections[k])
    <3>1. DOMAIN sections = 1 .. 1 /\ sections[1] = s BY <2>1
    <3> QED BY <2>1, <3>1
  <2>2. ASSUME NEW s, NEW t, Sound(s), Sound(t), sections = <<s, t>>
        PROVE  \A k \in DOMAIN sections : Sound(sections[k])
    <3>1. DOMAIN sections = 1 .. 2 /\ sections[1] = s /\ sections[2] = t BY <2>2
    <3> QED BY <2>2, <3>1
  <2> QED BY <1>6, <2>1, <2>2
<1>8. sections \in Seq(Sections) BY PatchMade
<1> QED BY <1>7, <1>8 DEF Sound, WellMade

(* What a call that has ended says of its sections, when they are what a   *)
(* diff can say.                                                           *)
SaidPlainly(k) ==
  LET s == outcome.sections[k]
  IN  /\ MadeOf(s, outcome.base[s.file]) /\ Plainly(s, outcome.base[s.file])
      /\ theirs[s.file] # "during" /\ outcome.base[s.file] = outcome.before[s.file]
      /\ ByItself(outcome.sections, k)

AllSaidPlainly == \A k \in DOMAIN outcome.sections : SaidPlainly(k)

LEMMA SaysPlainly ==
  UpToDate /\ Plain /\ WellMade(outcome.sections, outcome.base) => AllSaidPlainly
<1> SUFFICES ASSUME UpToDate, Plain, WellMade(outcome.sections, outcome.base),
                    NEW k \in DOMAIN outcome.sections
             PROVE  SaidPlainly(k)
  BY DEF AllSaidPlainly
<1> DEFINE s == outcome.sections[k]
           here == SectionsFor(s.file)
<1>1. /\ Counted(s) /\ ~s.deletes /\ theirs[s.file] # "during"
      /\ outcome.base[s.file] = outcome.before[s.file]
  BY DEF UpToDate
<1>2. MadeOf(s, outcome.base[s.file]) BY <1>1 DEF WellMade
<1>3. Plainly(s, outcome.base[s.file])
  BY <1>1 DEF Plain, Plainly, Insertion, AddsEnding, OneBlank
<1>4. ByItself(outcome.sections, k)
  <2>1. outcome.sections \in Seq(Sections) BY DEF WellMade
  <2>2. DOMAIN outcome.sections = 1 .. Len(outcome.sections) /\ Len(outcome.sections) \in Nat
    BY <2>1, LenProperties
  <2>3. IsFiniteSet(DOMAIN outcome.sections) BY <2>2, FS_Interval
  <2>4. here \in SUBSET DOMAIN outcome.sections /\ k \in here BY DEF SectionsFor
  <2>5. IsFiniteSet(here) BY <2>3, <2>4, FS_Subset
  <2> DEFINE one == {k}
  <2>6. one \in SUBSET here /\ Cardinality(one) = 1 BY <2>4, FS_Singleton
  <2>7. Cardinality(here) \in Nat BY <2>5, FS_CardinalityType
  <2>8. ~(Cardinality(here) > 1) BY DEF Plain, Twice
  <2> HIDE DEF here, one
  <2>9. /\ Cardinality(one) <= Cardinality(here)
        /\ Cardinality(here) = Cardinality(one) => here = one
    BY <2>5, <2>6, FS_Subset
  <2>10. here = one BY <2>6, <2>7, <2>8, <2>9
  <2> QED BY <2>10 DEF here, one, ByItself, SectionsFor
<1> QED BY <1>1, <1>2, <1>3, <1>4 DEF SaidPlainly

(* A step after which no diff has just been refused or applied.            *)
LEMMA NothingLanded ==
  \/ call # Idle \/ outcome = NoOutcome \/ outcome.sections = <<>>
  \/ outcome.kind \notin {"refused", "applied"}
  => PlainDiffLands
<1> SUFFICES ASSUME \/ call # Idle \/ outcome = NoOutcome \/ outcome.sections = <<>>
                    \/ outcome.kind \notin {"refused", "applied"}
             PROVE  PlainDiffLands
  OBVIOUS
<1>1. ~Ended \/ outcome.sections = <<>> \/ Landed BY DEF Ended, Landed
<1> QED BY <1>1 DEF PlainDiffLands

(* Where the sections are that a call has still to write.                  *)
LEMMA Ahead ==
  ASSUME NEW c \in Calls, Patching(c)
  PROVE  /\ Behind(c) \in 0 .. Len(c.sections) /\ DOMAIN c.sections = 1 .. Len(c.sections)
         /\ Len(c.sections) \in Nat /\ Len(c.planned) \in Nat
         /\ DOMAIN c.planned = 1 .. Len(c.planned)
         /\ \A j \in DOMAIN c.planned : Behind(c) + j \in DOMAIN c.sections
         /\ \A k \in DOMAIN c.sections : c.sections[k] \in Sections /\ c.sections[k].file \in Paths
<1> DEFINE n == Len(c.sections)
           m == Len(c.planned)
<1>1. c.sections \in Seq(Sections) /\ c.planned \in Seq([file : Paths, text : Texts]) BY DEF Calls
<1>2. n \in Nat /\ m \in Nat /\ DOMAIN c.sections = 1 .. n /\ DOMAIN c.planned = 1 .. m
  BY <1>1, LenProperties
<1>3. m <= n /\ Behind(c) = IF c.pc = "plan" THEN 0 ELSE n - m BY DEF Patching, Behind
<1>4. \A k \in 1 .. n : c.sections[k] \in Sections BY <1>1, ElementOfSeq
<1>5. \A k \in 1 .. n : c.sections[k].file \in Paths BY <1>4 DEF Sections
<1> HIDE DEF n, m
<1>6. Behind(c) \in 0 .. n /\ \A j \in 1 .. m : Behind(c) + j \in 1 .. n BY <1>2, <1>3
<1> QED BY <1>2, <1>4, <1>5, <1>6 DEF n, m

(* A step that writes nothing leaves a call with a diff as it is, whatever *)
(* the user does to the files.                                             *)
LEMMA StillPatching ==
  ASSUME call \in Calls, Patching(call),
         call'.sections = call.sections, call'.base = call.base, call'.before = call.before,
         call'.blind = call.blind, call'.planned = call.planned,
         Behind(call') = Behind(call), call'.pc = "plan" => call.pc = "plan",
         \A f \in Paths : theirs'[f] # "during" => theirs[f] # "during" /\ tree'[f] = tree[f]
  PROVE  Patching(call)'
<1>1. /\ Behind(call) \in 0 .. Len(call.sections) /\ DOMAIN call.sections = 1 .. Len(call.sections)
      /\ Len(call.sections) \in Nat
      /\ \A j \in DOMAIN call.planned : Behind(call) + j \in DOMAIN call.sections
      /\ \A k \in DOMAIN call.sections : call.sections[k].file \in Paths
  BY Ahead
<1>2. /\ ~call'.blind /\ WellMade(call'.sections, call'.base)
      /\ Len(call'.planned) <= Len(call'.sections)
  BY DEF Patching
<1>3. call'.pc = "plan" => \A f \in Paths : theirs'[f] # "during" => tree'[f] = call'.before[f]
  BY DEF Patching
<1>4. \A k \in DOMAIN call.sections : theirs'[call'.sections[k].file] # "during" =>
        /\ Untouched(call, k)
        /\ tree'[call'.sections[k].file] = tree[call.sections[k].file]
  BY <1>1 DEF Untouched
<1>5. \A k : Made(call', k) = Made(call, k) BY DEF Made
<1>6. ASSUME NEW j \in DOMAIN call'.planned
      PROVE  LET k == Behind(call') + j
             IN  /\ call'.planned[j].file = call'.sections[k].file
                 /\ theirs'[call'.sections[k].file] # "during" => call'.planned[j].text = Made(call', k)
  <2> DEFINE k == Behind(call) + j
  <2>1. k \in DOMAIN call.sections BY <1>1
  <2>2. /\ call.planned[j].file = call.sections[k].file
        /\ Untouched(call, k) => call.planned[j].text = Made(call, k)
    BY DEF Patching
  <2> HIDE DEF k
  <2>3. theirs'[call'.sections[k].file] # "during" => call'.planned[j].text = Made(call', k)
    BY <1>4, <1>5, <2>1, <2>2
  <2>4. call'.planned[j].file = call'.sections[k].file BY <2>2
  <2>5. Behind(call') + j = k BY DEF k
  <2> QED BY <2>3, <2>4, <2>5
<1>7. ASSUME NEW k \in 1 .. Behind(call'), theirs'[call'.sections[k].file] # "during",
             ByItself(call'.sections, k)
      PROVE  tree'[call'.sections[k].file] = Made(call', k)
  <2>1. k \in DOMAIN call.sections /\ k \in 1 .. Behind(call) BY <1>1
  <2>2. Untouched(call, k) /\ ByItself(call.sections, k) BY <1>4, <1>7, <2>1
  <2>3. tree[call.sections[k].file] = Made(call, k) BY <2>1, <2>2 DEF Patching
  <2> QED BY <1>4, <1>5, <1>7, <2>1, <2>3
<1>8. Behind(call)' = Behind(call') BY DEF Behind
<1> QED BY <1>2, <1>3, <1>6, <1>7, <1>8 DEF Patching, Untouched, Made

LEMMA PatchBegins ==
  ASSUME FilesAssumption, FileTypes, NEW sections \in Patches, BeginPatch(sections)
  PROVE  DiffsWork'
<1>1. /\ call' = [pc |-> "plan", sections |-> sections, planned |-> <<>>, blind |-> FALSE,
                  saved |-> <<>>, before |-> tree, base |-> seen]
      /\ tree' = tree /\ outcome' = NoOutcome
  BY DEF BeginPatch, Begin, NewCall
<1>2. WellMade(sections, seen) BY PatchDiffs DEF FileTypes
<1>3. Len(<<>>) = 0 /\ DOMAIN <<>> = {} BY EmptySeq
<1>4. sections \in Seq(Sections) BY <1>2 DEF WellMade
<1>5. Len(<<>>) <= Len(sections) BY <1>3, <1>4, LenProperties
<1>6. Behind(call') = 0 /\ 1 .. 0 = {} BY <1>1 DEF Behind
<1>7. /\ ~call'.blind /\ WellMade(call'.sections, call'.base)
      /\ Len(call'.planned) <= Len(call'.sections) /\ DOMAIN call'.planned = {}
      /\ \A f \in Paths : tree'[f] = call'.before[f]
  BY <1>1, <1>2, <1>3, <1>5
<1>8. Patching(call)' BY <1>6, <1>7 DEF Patching, Behind
<1>9. (outcome = NoOutcome)' BY <1>1 DEF NoOutcome
<1>10. PlainDiffLands' BY <1>9, NothingLanded, PTL
<1> QED BY <1>8, <1>10 DEF DiffsWork

(* A call that has ended tells of its sections.                            *)
LEMMA TellsOf ==
  ASSUME FileTypes, call \in Calls, Patching(call), NEW kind, Returns(kind), tree' = tree, theirs' = theirs
  PROVE  /\ (outcome.kind = kind)' /\ DOMAIN outcome'.sections = DOMAIN call.sections
         /\ UpToDate' /\ Plain' =>
              \A k \in DOMAIN call.sections :
                LET s == call.sections[k]
                IN  /\ outcome'.sections[k] = s /\ outcome'.base[s.file] = call.base[s.file]
                    /\ Untouched(call, k) /\ ByItself(call.sections, k)
                    /\ Made(call, k) = Meant(s, call.base[s.file]) /\ Made(call, k) # Refused
                    /\ call.before[s.file] \in MaybeText
<1>1. /\ outcome' = [kind |-> kind, sections |-> call.sections, before |-> call.before, base |-> call.base]
  BY DEF Returns
<1>2. /\ outcome'.kind = kind /\ outcome'.sections = call.sections
      /\ outcome'.before = call.before /\ outcome'.base = call.base
  BY <1>1
<1>3. SUFFICES ASSUME UpToDate', Plain', NEW k \in DOMAIN call.sections
               PROVE  LET s == call.sections[k]
                      IN  /\ outcome'.sections[k] = s /\ outcome'.base[s.file] = call.base[s.file]
                          /\ Untouched(call, k) /\ ByItself(call.sections, k)
                          /\ Made(call, k) = Meant(s, call.base[s.file]) /\ Made(call, k) # Refused
                          /\ call.before[s.file] \in MaybeText
  BY <1>2
<1> DEFINE s == call.sections[k]
           base == call.base[s.file]
<1>4. WellMade(outcome.sections, outcome.base)'
  <2>1. WellMade(outcome'.sections, outcome'.base) BY <1>2 DEF Patching
  <2> QED BY <2>1
<1>5. AllSaidPlainly' BY <1>3, <1>4, SaysPlainly, PTL
<1>6. /\ MadeOf(s, base) /\ Plainly(s, base) /\ theirs[s.file] # "during"
      /\ base = call.before[s.file] /\ ByItself(call.sections, k)
  BY <1>2, <1>5 DEF AllSaidPlainly, SaidPlainly
<1>7. base \in MaybeText
  <2>1. s.file \in Paths BY Ahead
  <2>2. call.base \in Trees BY DEF Calls
  <2> QED BY <2>1, <2>2 DEF Trees
<1>8. Apply(s, base) = Meant(s, base) /\ Apply(s, base) # Refused
  <2> HIDE DEF s, base
  <2> QED BY <1>6, <1>7, FilesAssumption, SectionLands
<1>9. Made(call, k) = Apply(s, base) BY <1>6 DEF Made
<1> QED BY <1>2, <1>6, <1>7, <1>8, <1>9 DEF Untouched

LEMMA PlanLands ==
  ASSUME FilesAssumption, FileTypes, DiffsWork, Plan
  PROVE  DiffsWork'
<1> DEFINE k == Len(call.planned) + 1
           s == call.sections[k]
           text == Apply(s, tree[s.file])
           p == [file |-> s.file, text |-> text]
           planned == Append(call.planned, p)
<1>1. /\ call.pc = "plan" /\ Len(call.planned) < Len(call.sections)
      /\ tree' = tree /\ theirs' = theirs
      /\ IF text = Refused THEN Returns("refused") ELSE call' = [call EXCEPT !.planned = Append(@, p)]
  BY DEF Plan
<1>2. call \in Calls /\ call # Idle BY <1>1 DEF FileTypes, Idle
<1>3. call.planned \in Seq([file : Paths, text : Texts]) /\ call.sections \in Seq(Sections)
  BY <1>2 DEF Calls
<1>4. Len(call.planned) \in Nat /\ k \in 1 .. Len(call.sections) /\ call.sections # <<>>
  <2>1. /\ Len(call.planned) \in Nat /\ Len(call.sections) \in Nat
        /\ (call.sections = <<>> <=> Len(call.sections) = 0)
    BY <1>3, LenProperties, EmptySeq
  <2> QED BY <1>1, <2>1
<1>5. Patching(call) BY <1>2, <1>4 DEF DiffsWork
<1>6. k \in DOMAIN call.sections /\ s.file \in Paths BY <1>2, <1>4, <1>5, Ahead
<1>7. Untouched(call, k) => text = Made(call, k)
  <2>1. Untouched(call, k) => tree[s.file] = call.before[s.file]
    BY <1>1, <1>5, <1>6 DEF Patching, Untouched
  <2> QED BY <2>1 DEF Made
<1>8. CASE text = Refused
  <2>1. Returns("refused") BY <1>1, <1>8
  <2>2. ~(UpToDate' /\ Plain')
    <3> SUFFICES ASSUME UpToDate' /\ Plain' PROVE FALSE OBVIOUS
    <3>1. Untouched(call, k) /\ Made(call, k) # Refused BY <1>1, <1>2, <1>5, <1>6, <2>1, TellsOf
    <3> HIDE DEF k, text
    <3> QED BY <1>7, <1>8, <3>1
  <2>3. (call = Idle)' BY <2>1 DEF Returns, Idle
  <2>4. PlainDiffLands' BY <2>2 DEF PlainDiffLands
  <2> QED BY <2>3, <2>4 DEF DiffsWork
<1>9. CASE text # Refused
  <2>1. call' = [call EXCEPT !.planned = planned] BY <1>1, <1>2, <1>9 DEF Calls
  <2>2. /\ call'.planned = planned /\ call'.sections = call.sections /\ call'.pc = "plan"
        /\ call'.blind = call.blind /\ call'.base = call.base /\ call'.before = call.before
    BY <1>1, <1>2, <2>1 DEF Calls
  <2> HIDE DEF text
  <2>3. /\ Len(planned) = k /\ DOMAIN planned = 1 .. k
        /\ \A j \in 1 .. k - 1 : planned[j] = call.planned[j]
        /\ planned[k] = p
    <3> DEFINE T == {call.planned[j] : j \in DOMAIN call.planned} \cup {p}
    <3>1. call.planned \in Seq(T) /\ p \in T
      <4>1. \A j \in 1 .. Len(call.planned) : call.planned[j] \in T BY <1>3, LenProperties
      <4> HIDE DEF T
      <4>2. call.planned \in [1 .. Len(call.planned) -> T]
        <5>1. call.planned \in [1 .. Len(call.planned) -> [file : Paths, text : Texts]]
          BY <1>3, LenProperties
        <5> QED BY <4>1, <5>1
      <4>3. call.planned \in Seq(T) BY <1>4, <4>2, SeqDef
      <4> QED BY <4>3 DEF T
    <3> HIDE DEF T, p
    <3>2. /\ planned \in Seq(T) /\ Len(planned) = Len(call.planned) + 1
          /\ \A j \in 1 .. Len(call.planned) : planned[j] = call.planned[j]
          /\ planned[Len(call.planned) + 1] = p
      BY <3>1, AppendProperties
    <3>3. DOMAIN planned = 1 .. Len(planned) BY <3>2, LenProperties
    <3>4. k - 1 = Len(call.planned) BY <1>4
    <3> HIDE DEF planned
    <3> QED BY <3>2, <3>3, <3>4
  <2>4. Behind(call) = 0 /\ Behind(call') = 0 /\ Behind(call)' = Behind(call') /\ 1 .. 0 = {}
    BY <1>1, <2>2 DEF Behind
  <2>5. DOMAIN call.planned = 1 .. k - 1 /\ k \in Nat /\ k <= Len(call.sections)
    <3>1. DOMAIN call.planned = 1 .. Len(call.planned) BY <1>3, LenProperties
    <3>2. k - 1 = Len(call.planned) /\ k \in Nat /\ k <= Len(call.sections) BY <1>1, <1>3, <1>4, LenProperties
    <3> QED BY <3>1, <3>2
  <2>6. /\ ~call'.blind /\ WellMade(call'.sections, call'.base)
        /\ Len(call'.planned) <= Len(call'.sections)
        /\ \A f \in Paths : theirs'[f] # "during" => tree'[f] = call'.before[f]
    BY <1>1, <1>5, <2>2, <2>3, <2>5 DEF Patching
  <2>7. ASSUME NEW j \in DOMAIN call'.planned
        PROVE  /\ call'.planned[j].file = call'.sections[j].file
               /\ theirs'[call'.sections[j].file] # "during" =>
                    call'.planned[j].text = Made(call', j)
    <3>1. Made(call', j) = Made(call, j) BY <2>2 DEF Made
    <3>2. j \in 1 .. k BY <2>2, <2>3
    <3>3. CASE j = k
      <4>1. call'.planned[j] = p /\ p.file = s.file /\ p.text = text BY <2>2, <2>3, <3>3
      <4>2. theirs'[s.file] # "during" => text = Made(call, k) BY <1>1, <1>7 DEF Untouched
      <4> QED BY <2>2, <3>1, <3>3, <4>1, <4>2
    <3>4. CASE j # k
      <4>1. j \in 1 .. k - 1 /\ 0 + j = j BY <2>5, <3>2, <3>4
      <4>2. j \in DOMAIN call.planned /\ call'.planned[j] = call.planned[j] BY <2>2, <2>3, <2>5, <4>1
      <4>3. Behind(call) + j = j BY <2>4, <4>1
      <4>4. /\ call.planned[j].file = call.sections[j].file
            /\ Untouched(call, j) => call.planned[j].text = Made(call, j)
        BY <1>5, <4>2, <4>3 DEF Patching
      <4>5. theirs'[call'.sections[j].file] # "during" => Untouched(call, j) BY <1>1, <2>2 DEF Untouched
      <4> QED BY <2>2, <3>1, <4>2, <4>4, <4>5
    <3> QED BY <3>3, <3>4
  <2>8. \A j \in DOMAIN call'.planned : Behind(call') + j = j BY <2>2, <2>3, <2>4
  <2>9. Patching(call)' BY <2>4, <2>6, <2>7, <2>8 DEF Patching, Untouched, Made
  <2>10. (call # Idle)'
    <3>1. call'.pc = "plan" BY <2>2
    <3> QED BY <3>1 DEF Idle
  <2>11. PlainDiffLands' BY <2>10, NothingLanded, PTL
  <2> QED BY <2>9, <2>11 DEF DiffsWork
<1> QED BY <1>8, <1>9

LEMMA WriteLands ==
  ASSUME FileTypes, DiffsWork, WriteText
  PROVE  DiffsWork'
<1> DEFINE p == Head(call.planned)
           rest == Tail(call.planned)
           m == Behind(call)
<1>1. /\ call.pc = "write" /\ call.planned # <<>>
      /\ tree' = [tree EXCEPT ![p.file] = p.text]
      /\ ~call.blind /\ p.file \in Paths => theirs' = theirs
  BY DEF WriteText, FileTypes
<1>2. call \in Calls /\ call # Idle BY <1>1 DEF FileTypes, Idle
<1>3. call' = [call EXCEPT !.pc = "capture", !.planned = rest] BY <1>2 DEF WriteText, Calls
<1>4. /\ call'.planned = rest /\ call'.sections = call.sections /\ call'.pc = "capture"
      /\ call'.blind = call.blind /\ call'.base = call.base /\ call'.before = call.before
  BY <1>2, <1>3 DEF Calls
<1>5. PlainDiffLands'
  <2>1. (call # Idle)' BY <1>4 DEF Idle
  <2> QED BY <2>1, NothingLanded, PTL
<1>6. CASE call.sections = <<>> BY <1>4, <1>5, <1>6 DEF DiffsWork
<1>7. CASE call.sections # <<>>
  <2>1. Patching(call) BY <1>2, <1>7 DEF DiffsWork
  <2>2. /\ m \in 0 .. Len(call.sections) /\ DOMAIN call.sections = 1 .. Len(call.sections)
        /\ Len(call.sections) \in Nat /\ Len(call.planned) \in Nat
        /\ DOMAIN call.planned = 1 .. Len(call.planned)
        /\ \A j \in DOMAIN call.planned : m + j \in DOMAIN call.sections
        /\ \A k \in DOMAIN call.sections : call.sections[k].file \in Paths
    BY <1>2, <2>1, Ahead
  <2>3. m = Len(call.sections) - Len(call.planned) BY <1>1 DEF Behind
  <2>4. /\ Len(rest) = Len(call.planned) - 1 /\ Len(call.planned) # 0 /\ p = call.planned[1]
        /\ DOMAIN rest = 1 .. Len(rest)
        /\ \A j \in 1 .. Len(rest) : rest[j] = call.planned[j + 1]
    <3> DEFINE T == [file : Paths, text : Texts]
    <3>1. call.planned \in Seq(T) BY <1>2 DEF Calls
    <3> HIDE DEF T
    <3>2. /\ rest \in Seq(T) /\ Len(rest) = Len(call.planned) - 1
          /\ \A i \in 1 .. Len(rest) : rest[i] = call.planned[i + 1]
      BY <1>1, <3>1, HeadTailProperties
    <3>3. Len(call.planned) # 0 BY <1>1, <3>1, EmptySeq
    <3>4. DOMAIN rest = 1 .. Len(rest) BY <3>2, LenProperties
    <3>5. p = call.planned[1] OBVIOUS
    <3> HIDE DEF rest, p
    <3> QED BY <3>2, <3>3, <3>4, <3>5
  <2>5. Behind(call') = m + 1 /\ Behind(call)' = Behind(call') /\ m \in Nat /\ m + 1 <= Len(call.sections)
    <3>1. Behind(call') = Len(call.sections) - Len(rest) BY <1>4 DEF Behind
    <3>2. Behind(call)' = Behind(call') BY DEF Behind
    <3> HIDE DEF m, rest
    <3> QED BY <2>2, <2>3, <2>4, <3>1, <3>2
  <2>6. /\ 1 \in DOMAIN call.planned /\ m + 1 \in DOMAIN call.sections
        /\ p.file = call.sections[m + 1].file /\ p.file \in Paths
        /\ Untouched(call, m + 1) => p.text = Made(call, m + 1)
    <3>1. 1 \in DOMAIN call.planned
      <4> HIDE DEF rest, m, p
      <4> QED BY <2>2, <2>4
    <3>2. /\ call.planned[1].file = call.sections[m + 1].file
          /\ Untouched(call, m + 1) => call.planned[1].text = Made(call, m + 1)
      BY <2>1, <3>1 DEF Patching
    <3> HIDE DEF p, m
    <3> QED BY <2>2, <2>4, <3>1, <3>2
  <2> HIDE DEF p, rest, m
  <2>7. theirs' = theirs /\ tree'[p.file] = p.text /\ \A f \in Paths : f # p.file => tree'[f] = tree[f]
    <3>1. ~call.blind BY <2>1 DEF Patching
    <3> QED BY <1>1, <2>6, <3>1 DEF FileTypes, Trees
  <2>8. /\ ~call'.blind /\ WellMade(call'.sections, call'.base)
        /\ Len(call'.planned) <= Len(call'.sections) /\ call'.pc # "plan"
    <3>1. ~call.blind /\ WellMade(call.sections, call.base) /\ Len(call.planned) <= Len(call.sections)
      BY <2>1 DEF Patching
    <3>2. Len(rest) <= Len(call.sections) BY <2>2, <2>4, <3>1
    <3> QED BY <1>4, <3>1, <3>2
  <2>9. \A k : Made(call', k) = Made(call, k) BY <1>4 DEF Made
  <2>10. ASSUME NEW j \in DOMAIN call'.planned
         PROVE  LET k == Behind(call') + j
                IN  /\ call'.planned[j].file = call'.sections[k].file
                    /\ theirs'[call'.sections[k].file] # "during" => call'.planned[j].text = Made(call', k)
    <3>1. j + 1 \in DOMAIN call.planned /\ call'.planned[j] = call.planned[j + 1] /\ j \in Nat
      BY <1>4, <2>2, <2>4
    <3> DEFINE k == m + (j + 1)
    <3>2. Behind(call') + j = k BY <2>5, <3>1
    <3>3. /\ call.planned[j + 1].file = call.sections[k].file
          /\ Untouched(call, k) => call.planned[j + 1].text = Made(call, k)
      BY <2>1, <3>1 DEF Patching, m
    <3> HIDE DEF k
    <3>4. theirs'[call'.sections[k].file] # "during" => Untouched(call, k) BY <1>4, <2>7 DEF Untouched
    <3> QED BY <1>4, <2>9, <3>1, <3>2, <3>3, <3>4
  <2>11. ASSUME NEW k \in 1 .. Behind(call'), theirs'[call'.sections[k].file] # "during",
                ByItself(call'.sections, k)
         PROVE  tree'[call'.sections[k].file] = Made(call', k)
    <3>1. Untouched(call, k) /\ ByItself(call.sections, k) BY <1>4, <2>7, <2>11 DEF Untouched
    <3>2. k \in DOMAIN call.sections BY <2>2, <2>5
    <3>3. CASE k = m + 1 BY <1>4, <2>6, <2>7, <2>9, <3>1, <3>3
    <3>4. CASE k # m + 1
      <4>1. k \in 1 .. m BY <2>5, <3>4
      <4>2. tree[call.sections[k].file] = Made(call, k) BY <2>1, <3>1, <4>1 DEF Patching, m
      <4>3. call.sections[k].file # p.file BY <2>6, <3>1, <3>4 DEF ByItself
      <4>4. tree'[call.sections[k].file] = tree[call.sections[k].file] BY <2>2, <2>7, <3>2, <4>3
      <4> QED BY <1>4, <2>9, <4>2, <4>4
    <3> QED BY <3>3, <3>4
  <2>12. Patching(call)' BY <2>5, <2>8, <2>10, <2>11 DEF Patching, Untouched, Made
  <2> QED BY <1>5, <2>12 DEF DiffsWork
<1> QED BY <1>6, <1>7

LEMMA DoneLands ==
  ASSUME FilesAssumption, FileTypes, DiffsWork, Done
  PROVE  DiffsWork'
<1>1. /\ call.pc = "capture" /\ call.planned = <<>> /\ Returns("applied")
      /\ tree' = tree /\ theirs' = theirs
  BY DEF Done
<1>2. call \in Calls /\ call # Idle BY <1>1 DEF FileTypes, Idle
<1>3. (call = Idle)' BY <1>1 DEF Returns, Idle
<1>4. CASE call.sections = <<>>
  <2>1. (outcome.sections = <<>>)' BY <1>1, <1>4 DEF Returns
  <2>2. PlainDiffLands' BY <2>1, NothingLanded, PTL
  <2> QED BY <1>3, <2>2 DEF DiffsWork
<1>5. CASE call.sections # <<>>
  <2>1. Patching(call) BY <1>2, <1>5 DEF DiffsWork
  <2>2. Behind(call) = Len(call.sections) /\ DOMAIN call.sections = 1 .. Len(call.sections)
    <3>1. Len(call.planned) = 0 BY <1>1, EmptySeq
    <3>2. Len(call.sections) \in Nat /\ DOMAIN call.sections = 1 .. Len(call.sections)
      BY <1>2, <2>1, Ahead
    <3> QED BY <1>1, <3>1, <3>2 DEF Behind
  <2>3. UpToDate' /\ Plain' => Landed'
    <3> SUFFICES ASSUME UpToDate', Plain' PROVE Landed' OBVIOUS
    <3>1. (outcome.kind = "applied")' BY <1>1, <1>2, <2>1, TellsOf
    <3>2. ASSUME NEW k \in DOMAIN outcome'.sections
          PROVE  tree'[outcome'.sections[k].file]
                   = Meant(outcome'.sections[k], outcome'.base[outcome'.sections[k].file])
      <4> DEFINE s == call.sections[k]
      <4>1. /\ k \in DOMAIN call.sections
            /\ outcome'.sections[k] = s /\ outcome'.base[s.file] = call.base[s.file]
            /\ Untouched(call, k) /\ ByItself(call.sections, k)
            /\ Made(call, k) = Meant(s, call.base[s.file])
        BY <1>1, <1>2, <2>1, TellsOf
      <4>2. tree[s.file] = Made(call, k) BY <2>1, <2>2, <4>1 DEF Patching
      <4> HIDE DEF s
      <4> QED BY <1>1, <4>1, <4>2
    <3> QED BY <3>1, <3>2 DEF Landed
  <2>4. PlainDiffLands' BY <2>3 DEF PlainDiffLands
  <2> QED BY <1>3, <2>4 DEF DiffsWork
<1> QED BY <1>4, <1>5

LEMMA NextLands ==
  FilesAssumption /\ FileTypes /\ DiffsWork /\ [FilesNext]_filesVars => DiffsWork'
<1> SUFFICES ASSUME FilesAssumption, FileTypes, DiffsWork, [FilesNext]_filesVars
             PROVE  DiffsWork'
  OBVIOUS
<1>1. ASSUME NEW f \in Paths, Read(f) PROVE DiffsWork'
  <2>1. (call = Idle)' /\ (outcome = NoOutcome)' BY <1>1 DEF Read, MayCall, Idle, NoOutcome
  <2>2. PlainDiffLands' BY <2>1, NothingLanded, PTL
  <2> QED BY <2>1, <2>2 DEF DiffsWork
<1>2. ASSUME NEW f \in Paths, UserChanges(f) PROVE DiffsWork'
  <2>1. /\ call' = call /\ (outcome = NoOutcome)'
        /\ theirs' = [theirs EXCEPT ![f] = IF call = Idle THEN "before" ELSE "during"]
        /\ \E new : tree' = [tree EXCEPT ![f] = new]
    BY <1>2 DEF UserChanges, NoOutcome
  <2>2. PlainDiffLands' BY <2>1, NothingLanded, PTL
  <2>3. ASSUME (call # Idle)', (call.sections # <<>>)' PROVE Patching(call)'
    <3>1. call # Idle /\ call.sections # <<>> BY <2>1, <2>3 DEF Idle
    <3>2. call \in Calls /\ Patching(call) BY <3>1 DEF FileTypes, DiffsWork
    <3>3. theirs' = [theirs EXCEPT ![f] = "during"] BY <2>1, <3>1
    <3>4. \A g \in Paths : theirs'[g] # "during" => theirs[g] # "during" /\ tree'[g] = tree[g]
      BY <2>1, <3>3 DEF FileTypes, Trees
    <3> QED BY <2>1, <3>2, <3>4, StillPatching
  <2> QED BY <2>2, <2>3 DEF DiffsWork
<1>3. ASSUME NEW sections \in Patches, BeginPatch(sections) PROVE DiffsWork'
  BY <1>3, PatchBegins
<1>4. ASSUME NEW f \in Paths, NEW new \in Ours, NEW create_only \in BOOLEAN, NEW known \in BOOLEAN,
             BeginWrite(f, Joined(new, TRUE), create_only, known)
      PROVE  DiffsWork'
  <2>1. (call = Idle \/ call.sections = <<>>)' /\ (outcome = NoOutcome \/ outcome.sections = <<>>)'
    BY <1>4 DEF BeginWrite, Begin, NewCall, Idle, NoOutcome
  <2>2. PlainDiffLands' BY <2>1, NothingLanded, PTL
  <2> QED BY <2>1, <2>2 DEF DiffsWork
<1>5. CASE Plan BY <1>5, PlanLands
<1>6. CASE Planned
  <2>1. /\ call.pc = "plan" /\ Len(call.planned) = Len(call.sections)
        /\ tree' = tree /\ theirs' = theirs
        /\ Returns("shown") \/ call' = [call EXCEPT !.pc = "capture"]
    BY <1>6 DEF Planned
  <2>2. call \in Calls /\ call # Idle BY <2>1 DEF FileTypes, Idle
  <2>3. CASE Returns("shown")
    <3>1. (call = Idle)' /\ (outcome.kind \notin {"refused", "applied"})' BY <2>3 DEF Returns, Idle
    <3>2. PlainDiffLands' BY <3>1, NothingLanded, PTL
    <3> QED BY <3>1, <3>2 DEF DiffsWork
  <2>4. CASE call' = [call EXCEPT !.pc = "capture"]
    <3>1. /\ call'.planned = call.planned /\ call'.sections = call.sections /\ call'.pc = "capture"
          /\ call'.blind = call.blind /\ call'.base = call.base /\ call'.before = call.before
      BY <2>2, <2>4 DEF Calls
    <3>2. (call # Idle)' BY <3>1 DEF Idle
    <3>3. PlainDiffLands' BY <3>2, NothingLanded, PTL
    <3>4. ASSUME call.sections # <<>> PROVE Patching(call)'
      <4>1. Patching(call) BY <2>2, <3>4 DEF DiffsWork
      <4>2. Len(call.sections) \in Nat BY <2>2, <4>1, Ahead
      <4>3. Behind(call') = Behind(call) BY <2>1, <3>1, <4>2 DEF Behind
      <4> QED BY <2>1, <2>2, <3>1, <4>1, <4>3, StillPatching
    <3> QED BY <3>1, <3>3, <3>4 DEF DiffsWork
  <2> QED BY <2>1, <2>3, <2>4
<1>7. CASE SavePreImage
  <2>1. /\ call.pc = "capture" /\ tree' = tree /\ theirs' = theirs
        /\ \E saved : call' = [call EXCEPT !.pc = "write", !.saved = saved]
    BY <1>7 DEF SavePreImage
  <2>2. call \in Calls /\ call # Idle BY <2>1 DEF FileTypes, Idle
  <2>3. /\ call'.planned = call.planned /\ call'.sections = call.sections /\ call'.pc = "write"
        /\ call'.blind = call.blind /\ call'.base = call.base /\ call'.before = call.before
    BY <2>1, <2>2 DEF Calls
  <2>4. (call # Idle)' BY <2>3 DEF Idle
  <2>5. PlainDiffLands' BY <2>4, NothingLanded, PTL
  <2>6. ASSUME call.sections # <<>> PROVE Patching(call)'
    <3>1. Patching(call) BY <2>2, <2>6 DEF DiffsWork
    <3>2. Behind(call') = Behind(call) BY <2>1, <2>3 DEF Behind
    <3> QED BY <2>1, <2>2, <2>3, <3>1, <3>2, StillPatching
  <2> QED BY <2>3, <2>5, <2>6 DEF DiffsWork
<1>8. CASE WriteText BY <1>8, WriteLands
<1>9. CASE Done BY <1>9, DoneLands
<1>10. CASE Fails
  <2>1. Returns("failed") BY <1>10 DEF Fails
  <2>2. (call = Idle)' /\ (outcome.kind \notin {"refused", "applied"})' BY <2>1 DEF Returns, Idle
  <2>3. PlainDiffLands' BY <2>2, NothingLanded, PTL
  <2> QED BY <2>2, <2>3 DEF DiffsWork
<1>11. CASE UNCHANGED filesVars
  <2>1. /\ tree' = tree /\ theirs' = theirs /\ call' = call /\ outcome' = outcome
    BY <1>11 DEF filesVars
  <2>2. PlainDiffLands'
    BY <2>1 DEF DiffsWork, PlainDiffLands, Ended, UpToDate, Plain, Landed, Insertion, AddsEnding,
                OneBlank, Twice, SectionsFor
  <2>3. ASSUME (call # Idle)', (call.sections # <<>>)' PROVE Patching(call)'
    <3>1. call # Idle /\ call.sections # <<>> BY <2>1, <2>3 DEF Idle
    <3>2. call \in Calls /\ Patching(call) BY <3>1 DEF FileTypes, DiffsWork
    <3> QED BY <2>1, <3>2, StillPatching
  <2> QED BY <2>2, <2>3 DEF DiffsWork
<1> QED BY <1>1, <1>2, <1>3, <1>4, <1>5, <1>6, <1>7, <1>8, <1>9, <1>10, <1>11 DEF FilesNext

(* A diff of the files as they are when the call begins, of any number of  *)
(* lines however often they repeat, is never refused, and what it makes of *)
(* each file is what it means, whatever the user does to the other files   *)
(* while it is planned and written (patch.py:163-236, files.py:154-213).   *)
THEOREM DiffsLand == FilesSpec => []PlainDiffLands
<1>1. FilesInit => FileTypes /\ OthersWork /\ DiffsWork
  <2> SUFFICES ASSUME FilesInit PROVE FileTypes /\ OthersWork /\ DiffsWork OBVIOUS
  <2>1. FileTypes /\ OthersWork BY FilesAssumption, InitOthersWork
  <2>2. call = Idle /\ outcome = NoOutcome BY DEF FilesInit
  <2>3. PlainDiffLands BY <2>2, NothingLanded
  <2> QED BY <2>1, <2>2, <2>3 DEF DiffsWork
<1>2. FileTypes /\ OthersWork /\ DiffsWork /\ [FilesNext]_filesVars
        => (FileTypes /\ OthersWork /\ DiffsWork)'
  BY FilesAssumption, NextOthersWork, NextLands
<1>3. DiffsWork => PlainDiffLands BY DEF DiffsWork
<1> QED BY <1>1, <1>2, <1>3, PTL DEF FilesSpec
=============================================================================
