------------------------------- MODULE Journal -------------------------------
(***************************************************************************)
(* core/journal.py: the checkpoints behind every write, and undo.          *)
(*                                                                         *)
(* A checkpoint is a numbered directory with the pre-images of the files   *)
(* an operation touches (blobs) and, once it is committed, a list of the   *)
(* changes (meta).  Operations run on worker threads; the tools of one     *)
(* server share a Journal object and with it its _pending id, while the    *)
(* console and `ph undo` have Journal objects of their own over the same   *)
(* directory.                                                              *)
(***************************************************************************)
EXTENDS Naturals, Sequences, FiniteSets, FiniteSetsExt

CONSTANTS Workers,      \* threads that write or undo
          Journals,     \* Journal objects
          JournalOf,    \* [Workers -> Journals]: the one each thread uses
          Files, Contents,
          Part,         \* what is in a file whose writing was cut short
          Absent,       \* what a file that does not exist holds
          Start,        \* [Files -> Contents or Absent]: the files at first
          MaxId,        \* bound: checkpoint numbers
          Uses          \* the ways the journal may be used, see Use

(* One way the journal is used: whether operations may overlap, with each  *)
(* other and with the user; max_bytes, counted in pre-images; the files    *)
(* and checkpoint numbers used, how often the user edits a file by hand,   *)
(* and how often everything is killed or a record cannot be written, the   *)
(* last four being bounds.                                                 *)
Use == [overlap : BOOLEAN, limit : Nat, files : SUBSET Files, ids : 1 .. MaxId,
        users : Nat, crashes : Nat]

ASSUME JournalAssumption ==
  /\ JournalOf \in [Workers -> Journals]
  /\ IsFiniteSet(Contents) /\ Part \in Contents /\ Absent \notin Contents
  /\ Start \in [Files -> Contents \cup {Absent}]
  /\ MaxId \in Nat
  /\ Uses \subseteq Use

VARIABLES disk,         \* the user's files
          dirs,         \* checkpoint directories
          blobs,        \* pre-images in each
          torn,         \* pre-images in each of which only a part is written
          meta,         \* the committed record of each, or None, or Torn
          pending,      \* _pending of each Journal object, 0 for None
          pc,           \* where each worker stands
          todo,         \* the files it still has to write, and what to put there
          undoes,       \* the checkpoint it undoes, or 0
          captured,     \* Recorder._captured, in order
          hand,         \* the file in the journal a worker is writing
          users, crashes,
          use           \* how the journal is used; never changes

local == <<pc, todo, undoes, captured, hand>>
store == <<dirs, blobs, torn, meta>>
vars  == <<disk, store, pending, local, users, crashes, use>>

Ids  == 1 .. MaxId
None == [kind |-> "none"]
Torn == [kind |-> "torn"]

(* A worker with no file of the journal in hand; the id of one whose       *)
(* directory was removed meanwhile is 0 as well.                           *)
Nothing == [id |-> 0]

Wholes == Contents \ {Part}

Init ==
  /\ disk = Start
  /\ dirs = {}
  /\ blobs = [i \in Ids |-> {}]
  /\ torn = [i \in Ids |-> {}]
  /\ meta = [i \in Ids |-> None]
  /\ pending = [j \in Journals |-> 0]
  /\ pc = [w \in Workers |-> "idle"]
  /\ todo = [w \in Workers |-> <<>>]
  /\ undoes = [w \in Workers |-> 0]
  /\ captured = [w \in Workers |-> <<>>]
  /\ hand = [w \in Workers |-> Nothing]
  /\ users = 0
  /\ crashes = 0
  /\ use \in Uses

-----------------------------------------------------------------------------
(* list(): the committed checkpoints; it raises if one of them is torn.    *)
Listed   == {i \in Ids : meta[i].kind = "checkpoint"}
Readable == \A i \in Ids : meta[i] # Torn

Size(ids) == Cardinality({b \in ids \X Contents : b[2] \in blobs[b[1]] \cup torn[b[1]]})

Pending(w)   == pending[JournalOf[w]]
Named(i, c)  == i \in dirs /\ c \in blobs[i] \cup torn[i]
Copy(i, c)   == IF c \in blobs[i] THEN c ELSE Part
Quiet        == \A w \in Workers : pc[w] = "idle"
MayBegin     == use.overlap \/ Quiet

(* The operation ends, whichever way; a file somebody else is writing in a *)
(* directory that went with it is written to no purpose.                   *)
LetGo(gone) == [v \in Workers |-> IF hand[v].id \in gone THEN [hand[v] EXCEPT !.id = 0] ELSE hand[v]]

Ends(w, gone) == /\ pc' = [pc EXCEPT ![w] = "idle"]
                 /\ todo' = [todo EXCEPT ![w] = <<>>]
                 /\ undoes' = [undoes EXCEPT ![w] = 0]
                 /\ captured' = [captured EXCEPT ![w] = <<>>]
                 /\ hand' = [LetGo(gone) EXCEPT ![w] = Nothing]

Dropped_KeepsRecord(ids) ==
  /\ dirs' = dirs
  /\ blobs' = [i \in Ids |-> IF i \in ids THEN {} ELSE blobs[i]]
  /\ UNCHANGED <<torn, meta>>

Dropped(ids) == /\ dirs' = dirs \ ids
                /\ blobs' = [i \in Ids |-> IF i \in ids THEN {} ELSE blobs[i]]
                /\ torn'  = [i \in Ids |-> IF i \in ids THEN {} ELSE torn[i]]
                /\ meta'  = [i \in Ids |-> IF i \in ids THEN None ELSE meta[i]]

(* _discard_pending, if a number is pending.                               *)
Gone(w)    == {Pending(w)} \ {0}
Discard(w) == Dropped(Gone(w)) /\ pending' = [pending EXCEPT ![JournalOf[w]] = 0]

-----------------------------------------------------------------------------
(* FileTools.write or apply_patch has decided what to write where.         *)
BeginEdit(w, F, c) ==
  /\ pc[w] = "idle" /\ MayBegin
  /\ pc' = [pc EXCEPT ![w] = "reserve"]
  /\ todo' = [todo EXCEPT ![w] = [f \in F |-> c]]
  /\ UNCHANGED <<disk, store, pending, undoes, captured, hand, users, crashes, use>>

(* undo reads the checkpoint it is to undo.                                *)
BeginUndo_PostImage(w, i) ==
  /\ pc[w] = "idle" /\ MayBegin
  /\ Readable /\ i \in Listed
  /\ pc' = [pc EXCEPT ![w] = "reserve"]
  /\ todo' = [todo EXCEPT ![w] = [f \in DOMAIN meta[i].changes |-> meta[i].changes[f].post]]
  /\ undoes' = [undoes EXCEPT ![w] = i]
  /\ UNCHANGED <<disk, store, pending, captured, hand, users, crashes, use>>

BeginUndo(w, i) ==
  /\ pc[w] = "idle" /\ MayBegin
  /\ Readable /\ i \in Listed
  /\ pc' = [pc EXCEPT ![w] = "reserve"]
  /\ todo' = [todo EXCEPT ![w] = [f \in DOMAIN meta[i].changes |-> meta[i].changes[f].pre]]
  /\ undoes' = [undoes EXCEPT ![w] = i]
  /\ UNCHANGED <<disk, store, pending, captured, hand, users, crashes, use>>

NextId_Last(numbers) == IF numbers = {} THEN 1 ELSE Cardinality(numbers)

NextId(numbers) == Cardinality(numbers) + 1

(* checkpoint(): prune when the journal is too large, oldest first, by age *)
(* (so possibly further than the size asks), then take the next number,    *)
(* which is one more than there are directories.                           *)
Reserve(w) ==
  /\ pc[w] = "reserve"
  /\ \/ Size(dirs) <= use.limit /\ UNCHANGED <<store, hand>>
     \/ /\ Size(dirs) > use.limit /\ Readable
        /\ \E k \in Ids :
             LET old == {i \in Listed : i <= k}
             IN  /\ Size(dirs \ old) <= use.limit \/ old = Listed
                 /\ Dropped(old) /\ hand' = LetGo(old)
  /\ Cardinality(dirs') < use.ids
  /\ pending' = [pending EXCEPT ![JournalOf[w]] = NextId(dirs')]
  /\ pc' = [pc EXCEPT ![w] = "mkdir"]
  /\ UNCHANGED <<disk, todo, undoes, captured, users, crashes, use>>

(* checkpoint() raises, before anything has changed: pruning meets a torn  *)
(* record, or the disk is full.                                            *)
ReserveRaises(w) ==
  /\ pc[w] = "reserve"
  /\ Ends(w, {})
  /\ UNCHANGED <<disk, store, pending, users, crashes, use>>

(* The directory may be there already.                                     *)
MakeDir(w) ==
  /\ pc[w] = "mkdir"
  /\ Pending(w) # 0
  /\ dirs' = dirs \cup {Pending(w)}
  /\ pc' = [pc EXCEPT ![w] = "open"]
  /\ UNCHANGED <<disk, blobs, torn, meta, pending, todo, undoes, captured, hand, users, crashes, use>>

(* It cannot be made, or another thread has cleared the number.            *)
MakeDirRaises(w) ==
  /\ pc[w] = "mkdir"
  /\ Ends(w, {})
  /\ UNCHANGED <<disk, store, pending, users, crashes, use>>

CapturedFiles(w) == {captured[w][k].file : k \in DOMAIN captured[w]}

(* Recorder.before, with _store_blob: the pre-image of a file is in the    *)
(* directory of whatever number is pending now.  If there is none, or no   *)
(* directory, it raises; a file of that name that is there is taken for    *)
(* the copy; a file that does not exist has no pre-image.                  *)
Takes(w, f, c) == captured' = [captured EXCEPT ![w] = Append(@, [file |-> f, content |-> c])]

Capture_NoBlob(w, f) ==
  /\ pc[w] = "open"
  /\ f \in DOMAIN todo[w] \ CapturedFiles(w)
  /\ disk[f] = Absent \/ undoes[w] # 0 \/ Named(Pending(w), disk[f])
  /\ Takes(w, f, disk[f])
  /\ UNCHANGED <<disk, store, pending, pc, todo, undoes, hand, users, crashes, use>>

Capture(w, f) ==
  /\ pc[w] = "open"
  /\ f \in DOMAIN todo[w] \ CapturedFiles(w)
  /\ disk[f] = Absent \/ Named(Pending(w), disk[f])
  /\ Takes(w, f, disk[f])
  /\ UNCHANGED <<disk, store, pending, pc, todo, undoes, hand, users, crashes, use>>

(* Otherwise it is written in place, and is there under its name before it *)
(* is whole.                                                               *)
StoreBegins(w, f) ==
  /\ pc[w] = "open"
  /\ f \in DOMAIN todo[w] \ CapturedFiles(w)
  /\ disk[f] # Absent /\ Pending(w) \in dirs /\ ~Named(Pending(w), disk[f])
  /\ torn' = [torn EXCEPT ![Pending(w)] = @ \cup {disk[f]}]
  /\ hand' = [hand EXCEPT ![w] = [id |-> Pending(w), file |-> f, content |-> disk[f]]]
  /\ pc' = [pc EXCEPT ![w] = "storing"]
  /\ UNCHANGED <<disk, dirs, blobs, meta, pending, todo, undoes, captured, users, crashes, use>>

StoreEnds(w) ==
  /\ pc[w] = "storing"
  /\ blobs' = [i \in Ids |-> IF i = hand[w].id THEN blobs[i] \cup {hand[w].content} ELSE blobs[i]]
  /\ torn'  = [i \in Ids |-> IF i = hand[w].id THEN torn[i] \ {hand[w].content} ELSE torn[i]]
  /\ Takes(w, hand[w].file, hand[w].content)
  /\ hand' = [hand EXCEPT ![w] = Nothing]
  /\ pc' = [pc EXCEPT ![w] = "open"]
  /\ UNCHANGED <<disk, dirs, meta, pending, todo, undoes, users, crashes, use>>

(* The file is written, or removed by the undo of its creation.  An undo   *)
(* reads what it writes from the checkpoint it undoes.                     *)
Write(w, f) ==
  /\ pc[w] = "open"
  /\ f \in DOMAIN todo[w] \cap CapturedFiles(w)
  /\ LET reads == undoes[w] # 0 /\ todo[w][f] # Absent
     IN  /\ reads => Named(undoes[w], todo[w][f])
         /\ disk' = [disk EXCEPT ![f] = IF reads THEN Copy(undoes[w], todo[w][f]) ELSE todo[w][f]]
  /\ todo' = [todo EXCEPT ![w] = [g \in DOMAIN @ \ {f} |-> @[g]]]
  /\ UNCHANGED <<store, pending, pc, undoes, captured, hand, users, crashes, use>>

-----------------------------------------------------------------------------
(* _commit: what really changed since the pre-images were taken.           *)
Changes(w) ==
  LET Pre(f) == captured[w][CHOOSE k \in DOMAIN captured[w] : captured[w][k].file = f].content
  IN  [f \in {g \in CapturedFiles(w) : Pre(g) # disk[g]} |-> [pre |-> Pre(f), post |-> disk[f]]]

Finished(w) == pc[w] = "open" /\ DOMAIN todo[w] = {}

Record(w) == [kind |-> "checkpoint", changes |-> Changes(w), undoes |-> undoes[w]]

(* Nothing changed: the directory goes.                                    *)
CommitNothing(w) ==
  /\ Finished(w)
  /\ DOMAIN Changes(w) = {}
  /\ Discard(w) /\ Ends(w, Gone(w))
  /\ UNCHANGED <<disk, users, crashes, use>>

(* The record is written in place under the number pending now, over one   *)
(* that is there ...                                                       *)
Commit(w) ==
  /\ Finished(w)
  /\ DOMAIN Changes(w) # {}
  /\ Pending(w) \in dirs
  /\ meta' = [meta EXCEPT ![Pending(w)] = Torn]
  /\ hand' = [hand EXCEPT ![w] = [id |-> Pending(w), record |-> Record(w)]]
  /\ pc' = [pc EXCEPT ![w] = "recording"]
  /\ UNCHANGED <<disk, dirs, blobs, torn, pending, todo, undoes, captured, users, crashes, use>>

(* ... is complete (of two that were written at once the end of the longer *)
(* one may be left behind the other), nobody reads what was captured any   *)
(* more ...                                                                *)
Recorded(w) ==
  /\ pc[w] = "recording"
  /\ \E r \in {hand[w].record, Torn} :
       /\ r = Torn => hand[w].id \in Listed
       /\ meta' = [i \in Ids |-> IF i = hand[w].id THEN r ELSE meta[i]]
  /\ hand' = [hand EXCEPT ![w] = Nothing]
  /\ captured' = [captured EXCEPT ![w] = <<>>]
  /\ pc' = [pc EXCEPT ![w] = "recorded"]
  /\ UNCHANGED <<disk, dirs, blobs, torn, pending, todo, undoes, users, crashes, use>>

(* ... and only then is the number no longer pending.                      *)
Closes(w) ==
  /\ pc[w] = "recorded"
  /\ pending' = [pending EXCEPT ![JournalOf[w]] = 0]
  /\ Ends(w, {})
  /\ UNCHANGED <<disk, store, users, crashes, use>>

(* Without a number, or without its directory, writing the record raises,  *)
(* when the files are written already.                                     *)
CommitRaises(w) ==
  /\ Finished(w)
  /\ DOMAIN Changes(w) # {}
  /\ Pending(w) \notin dirs
  /\ Ends(w, {})
  /\ UNCHANGED <<disk, store, pending, users, crashes, use>>

(* It raises half-way: the disk is full.                                   *)
RecordRaises(w) ==
  /\ crashes < use.crashes
  /\ pc[w] = "recording"
  /\ crashes' = crashes + 1
  /\ Ends(w, {})
  /\ UNCHANGED <<disk, store, pending, users, use>>

(* Something in the block raises, storing a pre-image included: the        *)
(* captured files are put back in the order they were captured, up to the  *)
(* first whose pre-image cannot be read; if there is none the directory    *)
(* goes.                                                                   *)
PutBack(w, back) ==
  disk' = [f \in Files |->
            IF \E k \in back : captured[w][k].file = f
            THEN LET c == captured[w][CHOOSE k \in back : captured[w][k].file = f].content
                 IN  IF c = Absent THEN Absent ELSE Copy(Pending(w), c)
            ELSE disk[f]]

Fail_KeepsFirst(w) ==
  /\ pc[w] \in {"open", "storing"}
  /\ PutBack(w, 2 .. Len(captured[w]))
  /\ Discard(w) /\ Ends(w, Gone(w))
  /\ UNCHANGED <<users, crashes, use>>

Fail(w) ==
  /\ pc[w] \in {"open", "storing"}
  /\ LET lost == {k \in DOMAIN captured[w] :
                    /\ captured[w][k].content # Absent
                    /\ ~Named(Pending(w), captured[w][k].content)}
     IN  /\ PutBack(w, {k \in DOMAIN captured[w] : \A l \in lost : k < l})
         /\ IF lost = {} THEN Discard(w) /\ Ends(w, Gone(w))
            ELSE UNCHANGED <<store, pending>> /\ Ends(w, {})
  /\ UNCHANGED <<users, crashes, use>>

-----------------------------------------------------------------------------
(* The user edits a file by hand.                                          *)
UserEdits(f, c) ==
  /\ users < use.users
  /\ use.overlap \/ Quiet
  /\ disk' = [disk EXCEPT ![f] = c]
  /\ users' = users + 1
  /\ UNCHANGED <<store, pending, local, crashes, use>>

(* Everything is killed.  What is being written, a file of the user's      *)
(* among it, stays half-written, and a directory that pruning has begun to *)
(* remove half-removed.                                                    *)
Crash ==
  /\ crashes < use.crashes
  /\ crashes' = crashes + 1
  /\ pending' = [j \in Journals |-> 0]
  /\ pc' = [w \in Workers |-> "idle"]
  /\ todo' = [w \in Workers |-> <<>>]
  /\ undoes' = [w \in Workers |-> 0]
  /\ captured' = [w \in Workers |-> <<>>]
  /\ hand' = [w \in Workers |-> Nothing]
  /\ \/ UNCHANGED <<disk, store>>
     \/ /\ \E w \in Workers, f \in Files :
             pc[w] = "open" /\ f \in DOMAIN todo[w] \cap CapturedFiles(w) /\ disk' = [disk EXCEPT ![f] = Part]
        /\ UNCHANGED store
     \/ /\ \E w \in Workers : pc[w] = "reserve"
        /\ Size(dirs) > use.limit /\ Readable
        /\ \E i \in Listed : \E left \in SUBSET blobs[i], r \in {meta[i], None} :
             LET old == {k \in Listed : k < i}
             IN  /\ dirs' = dirs \ old
                 /\ blobs' = [k \in Ids |-> IF k \in old THEN {} ELSE IF k = i THEN left ELSE blobs[k]]
                 /\ torn' = [k \in Ids |-> IF k \in old THEN {} ELSE torn[k]]
                 /\ meta' = [k \in Ids |-> IF k \in old THEN None ELSE IF k = i THEN r ELSE meta[k]]
        /\ UNCHANGED disk
  /\ UNCHANGED <<users, use>>

Step(w) ==
  \/ \E F \in SUBSET use.files \ {{}}, c \in Wholes : BeginEdit(w, F, c)
  \/ \E i \in Ids : BeginUndo(w, i)
  \/ Reserve(w) \/ ReserveRaises(w) \/ MakeDir(w) \/ MakeDirRaises(w)
  \/ \E f \in Files : Capture(w, f) \/ StoreBegins(w, f) \/ Write(w, f)
  \/ StoreEnds(w) \/ CommitNothing(w) \/ Commit(w) \/ Recorded(w) \/ Closes(w)
  \/ CommitRaises(w) \/ RecordRaises(w) \/ Fail(w)

Next == \/ \E w \in Workers : Step(w)
        \/ \E f \in use.files, c \in Wholes : UserEdits(f, c)
        \/ Crash

Spec == Init /\ [][Next]_vars

-----------------------------------------------------------------------------
Images == Contents \cup {Absent}

TypeOK ==
  /\ disk \in [Files -> Images]
  /\ dirs \subseteq Ids
  /\ blobs \in [Ids -> SUBSET Contents]
  /\ pending \in [Journals -> 0 .. MaxId]
  /\ torn \in [Ids -> SUBSET Contents]
  /\ pc \in [Workers -> {"idle", "reserve", "mkdir", "open", "storing", "recording", "recorded"}]
  /\ \A i \in Ids : meta[i].kind # "none" \/ blobs[i] \cup torn[i] # {} => i \in dirs
  /\ \A i \in Listed : \A f \in DOMAIN meta[i].changes :
       meta[i].changes[f].pre # meta[i].changes[f].post

(* The files as they were before checkpoint k: the changes of k and of all *)
(* that came after it are taken back, so that the oldest one that names a  *)
(* file has the last word on it.                                           *)
Naming(f, k) == {i \in Listed : i >= k /\ f \in DOMAIN meta[i].changes}

Back(k) == [f \in Files |-> IF Naming(f, k) = {} THEN disk[f]
                            ELSE meta[Min(Naming(f, k))].changes[f].pre]

(* One operation at a time, nobody else at the files, no crash; and room   *)
(* for every pre-image, so that retention never has anything to drop.      *)
Orderly == ~use.overlap /\ use.users = 0 /\ use.crashes = 0
Roomy == use.limit >= use.ids * Cardinality(Contents)

(* Between operations, taking back every checkpoint, newest first, leads   *)
(* to the files the first one found: no write escapes the journal, and a   *)
(* block that raises leaves nothing behind (journal.py:73-75, 99-115).     *)
BackToOrigin == Orderly /\ Roomy /\ Quiet => Back(1) = Start

(* Operations do not overlap, and of everything being killed and the room  *)
(* running out at most one has happened.                                   *)
InTurn == ~use.overlap /\ (crashes = 0 \/ Roomy)

(* Then every pre-image a committed checkpoint names is in its directory   *)
(* and whole, although pre-images are written in place and a file of the   *)
(* right name is taken for the copy (journal.py:84-93, 195-200, 308-314).  *)
PreImagesKept ==
  InTurn => \A i \in Listed : \A f \in DOMAIN meta[i].changes :
    meta[i].changes[f].pre # Absent => i \in dirs /\ meta[i].changes[f].pre \in blobs[i]

(* An undo that is done has put every file of its checkpoint back to what  *)
(* it was before that checkpoint, whatever happened in between             *)
(* (journal.py:268-293).                                                   *)
UndoPutsBack ==
  Orderly /\ Roomy /\ Quiet => \A u \in Listed :
    LET t == meta[u].undoes
    IN  t \in Listed \ {u} =>
          \A f \in DOMAIN meta[t].changes : Back(u + 1)[f] = meta[t].changes[f].pre

(* What an operation overwrites is in the journal by then, whole, be it    *)
(* the user's or a tool's (journal.py:271-275, THREAT_MODEL row 16).       *)
OverwrittenIsKept ==
  [][InTurn => \A w \in Workers, f \in Files :
       f \in DOMAIN todo[w] /\ pc'[w] = "open" /\ f \notin DOMAIN todo'[w] /\ disk[f] # Absent
         => \E i \in dirs : disk[f] \in blobs[i]]_vars

(* While there is room and operations do not overlap, a checkpoint that    *)
(* was committed stays, whichever Journal objects are used and wherever    *)
(* they are killed (journal.py:271).                                       *)
HistoryKept == [][Roomy /\ ~use.overlap => \A i \in Listed : meta'[i] = meta[i]]_vars

(* The same of operations that overlap.                                    *)
HistoryAlwaysKept == [][Roomy => \A i \in Listed : meta'[i] = meta[i]]_vars

(* The same of the pre-images, when everything is killed and retention     *)
(* drops checkpoints as well.                                              *)
PreImagesAlwaysKept ==
  ~use.overlap => \A i \in Listed : \A f \in DOMAIN meta[i].changes :
    meta[i].changes[f].pre # Absent => i \in dirs /\ meta[i].changes[f].pre \in blobs[i]

(* Retention drops the oldest checkpoints; nothing else ever replaces or   *)
(* removes a committed one (journal.py:271, 308-314).                      *)
OnlyOldestGo ==
  [][\A i \in Listed : \/ meta'[i] = meta[i]
                       \/ meta'[i] = None /\ \A k \in Listed : k < i => meta'[k] = None]_vars

(* What a tool changed can be put back (README.md:132): between operations *)
(* a file that no user touched is what the newest checkpoint that names it *)
(* says, or what it was at the start.                                      *)
AnyChangeCanBePutBack ==
  Quiet /\ users = 0 =>
    \A f \in Files :
      disk[f] = IF Naming(f, 1) = {} THEN Start[f] ELSE meta[Max(Naming(f, 1))].changes[f].post

(* A checkpoint that was committed can be undone: one record that cannot   *)
(* be read makes every undo fail, and with it the promise that what a tool *)
(* changed can be put back (README.md:132).                                *)
CanUndo == Listed # {} => Readable
=============================================================================
