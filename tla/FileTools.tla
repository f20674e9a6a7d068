------------------------------ MODULE FileTools ------------------------------
(***************************************************************************)
(* core/tools/files.py: read, write and apply_patch, while the user edits  *)
(* the same files.                                                         *)
(*                                                                         *)
(* The caller reads files, makes a diff of what it read and hands it over; *)
(* apply_patch works out every file's new text from what is there now, and *)
(* only then writes them one by one, in a checkpoint that puts everything  *)
(* back when a write fails (Journal models the checkpoint itself).         *)
(***************************************************************************)
EXTENDS Patch, FiniteSets

CONSTANTS Paths,        \* of the files
          Lines,        \* what may stand in a line
          Starts,       \* the files at first: [Paths -> Texts or NoFile]
          Ours,         \* what the caller may put in the place of lines
          Seconds,      \* bound: of those, the ones in the second of two sections
          Theirs,       \* the line the user writes, none of Ours
          Miscounts,    \* by how much a caller may miscount lines
          MaxCalls,     \* bound: calls that change files
          MaxEdits      \* bound: files the user edits, each once

Texts == [lines : Seq(Lines), ends : BOOLEAN]

ASSUME FilesAssumption ==
  /\ Blank \in Lines /\ Theirs \in Lines \ {Blank}
  /\ NoFile \notin Texts /\ Refused \notin Texts
  /\ Ours \subseteq Seq(Lines \ {Theirs})
  /\ Starts \subseteq [Paths -> [lines : Seq(Lines \ {Theirs}), ends : BOOLEAN] \cup {NoFile}]
  /\ Miscounts \subseteq Int /\ Window \in Nat

VARIABLES tree,         \* the user's files
          seen,         \* each file as the caller last read it
          call,         \* the call that runs, or Idle
          theirs,       \* whether and when the user has edited each file: "never",
                        \* "before" the call, "during" it, before it was "read",
                        \* or before the caller "replaced" it as it asked to
          calls,
          outcome       \* of the last call, with what it was about

filesVars == <<tree, seen, call, theirs, calls, outcome>>

Idle == [pc |-> "idle"]
NoOutcome == [kind |-> "none"]

FilesInit ==
  /\ tree \in Starts
  /\ seen = tree
  /\ call = Idle
  /\ theirs = [f \in Paths |-> "never"]
  /\ calls = 0
  /\ outcome = NoOutcome

-----------------------------------------------------------------------------
(* The diffs a caller can make of a text: one or two hunks apart from each *)
(* other, every one with the lines it replaces as they were read, at the   *)
(* place "at" where they were.  The hunk's header counts lines from one,   *)
(* and from the line before when it replaces none (which is how diff       *)
(* counts); off is by how much the caller has miscounted.                  *)
HunkAt(lines, at, to, new, off) ==
  LET start == (IF at = to THEN at ELSE at + 1) + off
  IN  [start |-> IF start > 0 THEN start ELSE 0,
       at |-> at, old |-> SubSeq(lines, at + 1, to), new |-> new]

HunksOf(lines, off) ==
  LET Spans == {s \in (0 .. Len(lines)) \X (0 .. Len(lines)) : s[1] <= s[2]}
      One == {<<HunkAt(lines, s[1], s[2], new, off)>> :
                s \in Spans, new \in Ours}
      Apart == {p \in Spans \X Spans : p[1][2] < p[2][1]}
  IN  {h \in One : h[1].old # h[1].new}
        \cup {h \in {<<HunkAt(lines, p[1][1], p[1][2], new[1], off),
                       HunkAt(lines, p[2][1], p[2][2], new[2], off)>> :
                       p \in Apart, new \in Ours \X Ours} :
                \A k \in {1, 2} : h[k].old # h[k].new}

AtEnd(hunk, lines) == hunk.at + Len(hunk.old) = Len(lines)

(* What the diff means: before, between and after the hunks the text is    *)
(* what it was, and where a hunk says, its lines stand for those it        *)
(* replaces.                                                               *)
EndOf(hunks, k) == IF k = 0 THEN 0 ELSE hunks[k].at + Len(hunks[k].old)

MeantUpTo(hunks, lines) ==
  LET upto[k \in 0 .. Len(hunks)] ==
        IF k = 0 THEN <<>>
        ELSE upto[k - 1] \o SubSeq(lines, EndOf(hunks, k - 1) + 1, hunks[k].at) \o hunks[k].new
  IN  upto

Meant(section, base) ==
  LET text  == IF base = NoFile THEN Empty ELSE base
      n     == Len(section.hunks)
      lines == MeantUpTo(section.hunks, text.lines)[n]
                 \o SubSeq(text.lines, EndOf(section.hunks, n) + 1, Len(text.lines))
  IN  IF lines = <<>> THEN Empty
      ELSE Text(lines, IF \E k \in DOMAIN section.hunks : AtEnd(section.hunks[k], text.lines)
                       THEN ~section.unended ELSE text.ends)

IsText(text) == text = Empty \/ (text.lines # <<>> /\ (Last(text.lines) = Blank => text.ends))

SectionsOf(f, off) ==
  LET text == IF seen[f] = NoFile THEN Empty ELSE seen[f]
  IN  {s \in [file : {f}, creates : {seen[f] = NoFile}, deletes : {FALSE},
              hunks : HunksOf(text.lines, off), unended : BOOLEAN] :
         /\ s.unended => \E k \in DOMAIN s.hunks : AtEnd(s.hunks[k], text.lines)
         /\ IsText(Meant(s, seen[f]))}

Deletion(f) == [file |-> f, creates |-> FALSE, deletes |-> TRUE, unended |-> FALSE,
                hunks |-> <<HunkAt(seen[f].lines, 0, Len(seen[f].lines), <<>>, 0)>>]

-----------------------------------------------------------------------------
MayCall == call = Idle /\ calls < MaxCalls

Read(f) ==
  /\ MayCall
  /\ seen' = [seen EXCEPT ![f] = tree[f]]
  /\ theirs' = [theirs EXCEPT ![f] = IF @ = "never" THEN @ ELSE "read"]
  /\ outcome' = NoOutcome
  /\ UNCHANGED <<tree, call, calls>>

(* The user puts a line in the place of one or between two, or makes the   *)
(* file.                                                                   *)
UserChanges(f) ==
  /\ theirs[f] = "never" /\ (MayCall \/ call # Idle)
  /\ Cardinality({g \in Paths : theirs[g] # "never"}) < MaxEdits
  /\ LET text == IF tree[f] = NoFile THEN Empty ELSE tree[f]
     IN  \E at \in 0 .. Len(text.lines), over \in {0, 1} :
           /\ at + over <= Len(text.lines)
           /\ LET old == SubSeq(text.lines, at + 1, at + over)
              IN  tree' = [tree EXCEPT ![f] =
                    Text(ReplaceSubSeqAt(at + 1, <<Theirs>>, old, text.lines),
                         text.ends \/ text = Empty)]
  /\ theirs' = [theirs EXCEPT ![f] = IF call = Idle THEN "before" ELSE "during"]
  /\ outcome' = NoOutcome
  /\ UNCHANGED <<seen, call, calls>>

Begin(new_call) ==
  /\ MayCall
  /\ calls' = calls + 1
  /\ call' = new_call
  /\ UNCHANGED <<tree, seen, theirs>>

Returns(result) ==
  /\ call' = Idle
  /\ outcome' = [kind |-> result, sections |-> call.sections,
                 before |-> call.before, base |-> call.base]

(* What is kept of a call besides its progress: its sections, whether it   *)
(* may replace what it has not read, and for the properties the files at   *)
(* its beginning and as the caller knew them.                              *)
NewCall(pc, sections, planned, blind) ==
  [pc |-> pc, sections |-> sections, planned |-> planned, blind |-> blind,
   saved |-> <<>>, before |-> tree, base |-> seen]

BeginPatch(sections) ==
  /\ Begin(NewCall("plan", sections, <<>>, FALSE))
  /\ outcome' = NoOutcome

(* Each section is worked out from the file as it is now.                  *)
Plan ==
  /\ call.pc = "plan" /\ Len(call.planned) < Len(call.sections)
  /\ LET section == call.sections[Len(call.planned) + 1]
         text    == Apply(section, tree[section.file])
     IN  IF text = Refused THEN Returns("refused")
         ELSE /\ call' = [call EXCEPT !.planned = Append(@, [file |-> section.file, text |-> text])]
              /\ UNCHANGED outcome
  /\ UNCHANGED <<tree, seen, theirs, calls>>

Planned ==
  /\ call.pc = "plan" /\ Len(call.planned) = Len(call.sections)
  /\ \/ Returns("shown")                   \* dry_run
     \/ call' = [call EXCEPT !.pc = "capture"] /\ UNCHANGED outcome
  /\ UNCHANGED <<tree, seen, theirs, calls>>

(* write: an existing file is replaced when that was asked for and, if the *)
(* caller says what it read, when that is still what is there.             *)
BeginWrite(f, text, create_only, known) ==
  LET exists  == tree[f] # NoFile
      refused == exists /\ (create_only \/ (known /\ tree[f] # seen[f]))
      new     == NewCall("capture", <<>>, <<[file |-> f, text |-> text]>>,
                         ~create_only /\ ~known)
  IN  /\ Begin(IF refused THEN Idle ELSE new)
      /\ outcome' = IF refused
                    THEN [kind |-> "refused", sections |-> <<>>, before |-> tree, base |-> seen]
                    ELSE NoOutcome

Saved(f) == {k \in DOMAIN call.saved : call.saved[k].file = f}

(* recorder.before: the pre-image, the first time only.                    *)
SavePreImage ==
  /\ call.pc = "capture" /\ call.planned # <<>>
  /\ LET f == Head(call.planned).file
     IN  call' = [call EXCEPT !.pc = "write",
                    !.saved = IF Saved(f) # {} THEN @
                              ELSE Append(@, [file |-> f, content |-> tree[f]])]
  /\ UNCHANGED <<tree, seen, theirs, calls, outcome>>

WriteText ==
  /\ call.pc = "write"
  /\ LET f == Head(call.planned).file
     IN  /\ tree' = [tree EXCEPT ![f] = Head(call.planned).text]
         /\ theirs' = [theirs EXCEPT ![f] = IF call.blind /\ @ \in {"before", "during"}
                                                    THEN "replaced" ELSE @]
  /\ call' = [call EXCEPT !.pc = "capture", !.planned = Tail(@)]
  /\ UNCHANGED <<seen, calls, outcome>>

Done ==
  /\ call.pc = "capture" /\ call.planned = <<>>
  /\ Returns("applied")
  /\ UNCHANGED <<tree, seen, theirs, calls>>

(* A file cannot be read, written or copied: the checkpoint puts back      *)
(* every file it has a pre-image of.                                       *)
Fails ==
  /\ call.pc \in {"capture", "write"} /\ call.planned # <<>>
  /\ tree' = [f \in Paths |-> IF Saved(f) = {} THEN tree[f]
                ELSE call.saved[CHOOSE k \in Saved(f) : TRUE].content]
  /\ Returns("failed")
  /\ UNCHANGED <<seen, theirs, calls>>

-----------------------------------------------------------------------------
(* What a caller hands over: a diff of one file, of two, of one in two     *)
(* sections, or one that deletes.                                          *)
Patches ==
  LET One(off) == UNION {{<<s>> : s \in SectionsOf(f, off)} : f \in Paths}
      Short == {s \in UNION {SectionsOf(f, 0) : f \in Paths} : Len(s.hunks) = 1}
      Two == {<<s, t>> : s \in Short, t \in {u \in Short : u.hunks[1].new \in Seconds}}
  IN  (UNION {One(off) : off \in Miscounts}) \cup Two
        \cup {<<Deletion(f)>> : f \in {g \in Paths : seen[g] # NoFile}}

FilesNext ==
  \/ \E f \in Paths : Read(f) \/ UserChanges(f)
  \/ MayCall /\ \E sections \in Patches : BeginPatch(sections)
  \/ \E f \in Paths, new \in Ours, create_only, known \in BOOLEAN :
       BeginWrite(f, Joined(new, TRUE), create_only, known)
  \/ Plan \/ Planned \/ SavePreImage \/ WriteText \/ Done \/ Fails

FilesSpec == FilesInit /\ [][FilesNext]_filesVars

-----------------------------------------------------------------------------
(* A call has just ended.                                                  *)
Ended == call = Idle /\ outcome # NoOutcome

SectionsFor(f) == {k \in DOMAIN outcome.sections : outcome.sections[k].file = f}

Counted(section) ==
  \A k \in DOMAIN section.hunks :
    LET h == section.hunks[k]
    IN  h.start = IF h.old = <<>> THEN h.at ELSE h.at + 1

(* The diff was made, with its lines counted well, of what the files were  *)
(* when the call began.                                                    *)
UpToDate == \A k \in DOMAIN outcome.sections :
  LET s == outcome.sections[k]
  IN  /\ Counted(s) /\ ~s.deletes
      /\ theirs[s.file] # "during" /\ outcome.base[s.file] = outcome.before[s.file]

(* Three things a diff can say that the code takes otherwise, and one it   *)
(* can say only in two sections of the same file; see DiffLands.           *)
Insertion(s)   == ~s.creates /\ \E k \in DOMAIN s.hunks : s.hunks[k].old = <<>>
AddsEnding(s)  == ~s.creates /\ Meant(s, outcome.base[s.file]).ends /\ ~outcome.base[s.file].ends
OneBlank(s)    == Meant(s, outcome.base[s.file]).lines = <<Blank>>
Twice(s)       == Cardinality(SectionsFor(s.file)) > 1
Plain == \A k \in DOMAIN outcome.sections :
  LET s == outcome.sections[k]
  IN  ~Insertion(s) /\ ~AddsEnding(s) /\ ~OneBlank(s) /\ ~Twice(s)

Landed == /\ outcome.kind # "refused"
          /\ outcome.kind = "applied" =>
               \A k \in DOMAIN outcome.sections :
                 LET s == outcome.sections[k]
                 IN  Twice(s) \/ tree[s.file] = Meant(s, outcome.base[s.file])

(* A diff of the files as they are, with a line to go by in every hunk, is *)
(* never refused, and what it makes of them is what it means, however many *)
(* lines repeat and however far earlier hunks moved the later ones         *)
(* (patch.py:195-236).                                                     *)
PlainDiffLands == Ended /\ outcome.sections # <<>> /\ UpToDate /\ Plain => Landed

(* What the user changed between calls, in lines the caller has not seen,  *)
(* is there during and after whatever calls follow, until the caller reads *)
(* the file or asks to replace whatever there is (patch.py:5-7,            *)
(* files.py:105-131).                                                      *)
Keeps(text) == text # NoFile /\ Theirs \in Range(text.lines)

OthersWorkSurvives == \A f \in Paths : theirs[f] = "before" => Keeps(tree[f])

(* What the code does not keep.  The user's work of before the call and    *)
(* during it (patch.py:5-7); any well-made diff (files.py:155); no change  *)
(* of one section is lost to another section of the same file.             *)
WorkSurvives == \A f \in Paths : theirs[f] \in {"before", "during"} => Keeps(tree[f])

DiffLands == Ended /\ outcome.sections # <<>> /\ UpToDate => Landed

NoHunkIsLost ==
  Ended /\ outcome.sections # <<>> /\ UpToDate /\ outcome.kind = "applied" =>
    \A k \in DOMAIN outcome.sections : \A h \in DOMAIN outcome.sections[k].hunks :
      Range(outcome.sections[k].hunks[h].new)
        \subseteq Range(tree[outcome.sections[k].file].lines)
=============================================================================
