------------------------------ MODULE AuditLog ------------------------------
(***************************************************************************)
(* core/audit/log.py: the hash-chained log.  Every AuditLog object caches  *)
(* the sequence number and the hash of the last line it knows of; threads  *)
(* of one server share an object, `ph stop` and the like have their own    *)
(* over the same file.  append takes no lock and works in three steps:     *)
(* build the record from the cache, write the line, update the cache.      *)
(*                                                                         *)
(* The hash is taken to be injective: the hash of an entry is the tuple of *)
(* what is hashed.  A time stamp makes every entry unique, so an event is  *)
(* the number of the append that made it.                                  *)
(***************************************************************************)
EXTENDS Naturals, Sequences, SequencesExt, FiniteSets

CONSTANTS Threads, Logs,
          LogOf,        \* [Threads -> Logs]: the AuditLog object each appends to
          Overlap,      \* whether appends may overlap
          MaxAppends, MaxFalls, MaxDamage   \* bounds

ASSUME AuditAssumption ==
  /\ LogOf \in [Threads -> Logs]
  /\ Overlap \in BOOLEAN
  /\ {MaxAppends, MaxFalls, MaxDamage} \subseteq Nat

VARIABLES lines,        \* the file
          ended,        \* whether it ends with a newline
          cache,        \* [seq, head] of each object
          stage, record, \* each thread: where append stands, and the line it builds
          appends, falls, damages,
          damaged,      \* history: the first line damaged or torn, 0 for none
          cut,          \*   whether an entry at the end was removed since the last start
          behind,       \*   the appends that do not know the line theirs will follow
          raced,        \*   the first line written by one of those, 0 for none
          returned      \*   the events whose append returned

past      == <<damaged, cut, behind, raced>>
auditVars == <<lines, ended, cache, stage, record, appends, falls, damages, past, returned>>

Genesis  == <<>>
HalfLine == [kind |-> "torn"]
NoEntry  == [kind |-> "none"]

Digest(seq, prev, event) == <<seq, prev, event>>

Entry(seq, prev, event) ==
  [kind |-> "entry", seq |-> seq, prev |-> prev, event |-> event,
   hash |-> Digest(seq, prev, event)]

AuditInit ==
  /\ lines = <<>> /\ ended = TRUE
  /\ cache = [l \in Logs |-> [seq |-> 0, head |-> Genesis]]
  /\ stage = [t \in Threads |-> "idle"]
  /\ record = [t \in Threads |-> NoEntry]
  /\ appends = 0 /\ falls = 0 /\ damages = 0
  /\ damaged = 0 /\ cut = FALSE /\ behind = {} /\ raced = 0
  /\ returned = {}

Earliest(i) == IF damaged = 0 \/ i < damaged THEN i ELSE damaged

(* History: a line of the append of t lands at place n; after one that was *)
(* removed from the end its number is too large.                           *)
Lands(t, n, broken) ==
  /\ damaged' = IF broken \/ cut THEN Earliest(n) ELSE damaged
  /\ raced' = IF t \in behind /\ raced = 0 THEN n ELSE raced

-----------------------------------------------------------------------------
(* append: number and chain the entry from the cache,                      *)
Build(t) ==
  LET c == cache[LogOf[t]]
  IN  /\ stage[t] = "idle" /\ appends < MaxAppends
      /\ Overlap \/ \A u \in Threads : stage[u] = "idle"
      /\ appends' = appends + 1
      /\ record' = [record EXCEPT ![t] = Entry(c.seq + 1, c.head, appends + 1)]
      /\ stage' = [stage EXCEPT ![t] = "write"]
      /\ behind' = IF \E u \in Threads : stage[u] = "update" THEN behind \cup {t} ELSE behind
      /\ UNCHANGED <<lines, ended, cache, falls, damages, damaged, cut, raced, returned>>

(* write the line, which lands on what is left of a torn one,              *)
With(line) == IF ended THEN Append(lines, line) ELSE Append(Front(lines), HalfLine)

WriteLine(t) ==
  /\ stage[t] = "write"
  /\ lines' = With(record[t])
  /\ ended' = TRUE
  /\ Lands(t, IF ended THEN Len(lines) + 1 ELSE Len(lines), ~ended)
  /\ behind' = {u \in Threads \ {t} : stage[u] = "write"}
  /\ stage' = [stage EXCEPT ![t] = "update"]
  /\ UNCHANGED <<cache, record, appends, falls, damages, cut, returned>>

(* and only then move the cache on.                                        *)
Update(t) ==
  /\ stage[t] = "update"
  /\ cache' = [cache EXCEPT ![LogOf[t]] = [seq |-> record[t].seq, head |-> record[t].hash]]
  /\ returned' = returned \cup {record[t].event}
  /\ record' = [record EXCEPT ![t] = NoEntry]
  /\ stage' = [stage EXCEPT ![t] = "idle"]
  /\ UNCHANGED <<lines, ended, appends, falls, damages, past>>

(* _read_head: the last line that parses.                                  *)
ReadHead(ls) ==
  LET good == {i \in DOMAIN ls : ls[i] # HalfLine}
      last == ls[CHOOSE i \in good : \A j \in good : j <= i]
  IN  IF good = {} THEN [seq |-> 0, head |-> Genesis] ELSE [seq |-> last.seq, head |-> last.hash]

(* Everything is killed and started again.  A line being written is not    *)
(* there, there in part, or there without its newline.                     *)
Killed ==
  /\ falls < MaxFalls
  /\ falls' = falls + 1
  /\ \/ UNCHANGED <<lines, ended, damaged, raced>>
     \/ \E t \in Threads, rest \in {"part", "whole"} :
          /\ stage[t] = "write" /\ ended
          /\ lines' = Append(lines, IF rest = "part" THEN HalfLine ELSE record[t])
          /\ ended' = FALSE
          /\ Lands(t, Len(lines) + 1, rest = "part")
  /\ cache' = [l \in Logs |-> ReadHead(lines')]
  /\ stage' = [t \in Threads |-> "idle"]
  /\ record' = [t \in Threads |-> NoEntry]
  /\ cut' = FALSE /\ behind' = {}
  /\ UNCHANGED <<appends, damages, returned>>

-----------------------------------------------------------------------------
(* Somebody edits the file: an entry is changed, or removed.  Of what is   *)
(* removed from the end the file itself shows nothing.                     *)
Modify(i) ==
  /\ damages < MaxDamage /\ lines[i] # HalfLine
  /\ lines' = [lines EXCEPT ![i].event = 0]
  /\ damages' = damages + 1 /\ damaged' = Earliest(i)
  /\ UNCHANGED <<ended, cache, stage, record, appends, falls, cut, behind, raced, returned>>

Delete(i) ==
  /\ damages < MaxDamage /\ lines[i] # HalfLine
  /\ lines' = RemoveAt(lines, i)
  /\ damages' = damages + 1
  /\ \/ /\ i < Len(lines)
        /\ damaged' = Earliest(i) /\ UNCHANGED <<ended, cut>>
     \/ /\ i = Len(lines)
        /\ damaged' = (IF damaged = i THEN 0 ELSE damaged) /\ cut' = TRUE /\ ended' = TRUE
  /\ raced' = IF i < raced THEN raced - 1 ELSE raced
  /\ UNCHANGED <<cache, stage, record, appends, falls, behind, returned>>

AuditNext == \/ \E t \in Threads : Build(t) \/ WriteLine(t) \/ Update(t)
        \/ Killed
        \/ \E i \in DOMAIN lines : Modify(i) \/ Delete(i)

AuditSpec == AuditInit /\ [][AuditNext]_auditVars

-----------------------------------------------------------------------------
(* verify: the first line that does not parse, is not numbered in turn, is *)
(* not chained to the line before it, or does not hash to its hash; 0 when *)
(* the chain is intact.                                                    *)
ChainedTo(i) == \/ i = 1 /\ lines[i].prev = Genesis
                \/ i > 1 /\ lines[i - 1] # HalfLine /\ lines[i].prev = lines[i - 1].hash

Good_NoRehash(i) ==
  /\ lines[i] # HalfLine
  /\ lines[i].seq = i
  /\ ChainedTo(i)

Good(i) ==
  /\ lines[i] # HalfLine
  /\ lines[i].seq = i
  /\ ChainedTo(i)
  /\ lines[i].hash = Digest(lines[i].seq, lines[i].prev, lines[i].event)

BrokenAt ==
  LET bad == {i \in DOMAIN lines : ~Good(i)}
  IN  IF bad = {} THEN 0 ELSE CHOOSE i \in bad : \A j \in bad : i <= j

AuditTypeOK ==
  /\ \A i \in DOMAIN lines : lines[i] # HalfLine => lines[i].seq \in 1 .. MaxAppends
  /\ stage \in [Threads -> {"idle", "write", "update"}]
  /\ \A t \in Threads : stage[t] = "idle" <=> record[t] = NoEntry
  /\ returned \subseteq 1 .. appends

(* The lines before the first whose append overlapped another's write.     *)
Sure == IF raced = 0 THEN Len(lines) ELSE raced - 1

(* As far as appends did not overlap, verify points at the first line that *)
(* was changed, was torn or follows one that was removed, and at none as   *)
(* long as there is none (log.py:3-4, 134-167).                            *)
AlarmIsRight ==
  IF damaged \in 1 .. Sure THEN BrokenAt = damaged ELSE BrokenAt \notin 1 .. Sure

(* Nothing but damage breaks the chain: each line carries the hash of the  *)
(* line before it (log.py:3).                                              *)
ChainUnbroken == damaged = 0 => BrokenAt = 0

(* The log survives a half-written line (log.py:8): an entry whose append  *)
(* returned is in the file, as long as nobody edits it.                    *)
ReturnedIsReadable ==
  damages = 0 => \A e \in returned : \E i \in DOMAIN lines : lines[i] # HalfLine /\ lines[i].event = e
=============================================================================
