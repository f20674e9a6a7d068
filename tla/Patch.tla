-------------------------------- MODULE Patch --------------------------------
(***************************************************************************)
(* core/patch.py: what one section of a unified diff makes of one file.    *)
(*                                                                         *)
(* A text is its lines and whether the last one has its newline, which is  *)
(* what text.split("\n") and the popping of the empty last piece leave of  *)
(* it.  A hunk is where it says it belongs (old_start) and the lines it    *)
(* says it finds and leaves there; parse_patch has seen to it that the     *)
(* counts in its header agree with them.                                   *)
(***************************************************************************)
EXTENDS Integers, Sequences, SequencesExt

CONSTANTS Blank,        \* the line with nothing in it
          NoFile,       \* what a file that does not exist holds
          Refused,      \* PatchError
          Window        \* SEARCH_WINDOW

Text(lines, ends) == [lines |-> lines, ends |-> ends]
Empty == Text(<<>>, FALSE)

(* "\n".join(lines), with one more newline if it is not empty and asked    *)
(* for.                                                                    *)
Joined(lines, newline) ==
  IF lines \in {<<>>, <<Blank>>} THEN Empty
  ELSE IF newline THEN Text(lines, TRUE)
  ELSE IF Last(lines) = Blank THEN Text(Front(lines), TRUE)
  ELSE Text(lines, FALSE)

Fits(lines, old, at) ==
  at >= 0 /\ at + Len(old) <= Len(lines) /\ SubSeq(lines, at + 1, at + Len(old)) = old

(* _locate: the place nearest to the stated one where every line is the    *)
(* expected one, before rather than after; without lines to go by, the     *)
(* stated place.                                                           *)
Stated(start) == IF start > 1 THEN start - 1 ELSE 0

Nearest(places, stated) ==
  LET Far(at) == IF at < stated THEN 2 * (stated - at) - 1 ELSE 2 * (at - stated)
  IN  CHOOSE at \in places : \A other \in places : Far(at) <= Far(other)

Locate_Anyway(lines, start, old) ==
  LET stated == Stated(start)
      places == {at \in 0 .. Len(lines) : /\ Fits(lines, old, at)
                                          /\ at - stated \in -Window .. Window}
  IN  IF old = <<>> \/ places = {} THEN {Min({stated, Len(lines)})}
      ELSE {Nearest(places, stated)}

Locate(lines, start, old) ==
  LET stated == Stated(start)
      places == {at \in 0 .. Len(lines) : /\ Fits(lines, old, at)
                                          /\ at - stated \in -Window .. Window}
  IN  IF old = <<>> THEN {Min({stated, Len(lines)})}
      ELSE IF places = {} THEN {}
      ELSE {Nearest(places, stated)}

Place(set) == CHOOSE at \in set : TRUE

(* One hunk, on what the hunks before it have left; drift is by how much   *)
(* they have moved what comes after them.                                  *)
ApplyHunk_NoDrift(done, hunk) ==
  LET places == Locate(done.lines, hunk.start, hunk.old)
  IN  IF done.refused \/ places = {} THEN [done EXCEPT !.refused = TRUE]
      ELSE [done EXCEPT !.lines = ReplaceSubSeqAt(Place(places) + 1, hunk.new, hunk.old, @)]

ApplyHunk(done, hunk) ==
  LET places == Locate(done.lines, hunk.start + done.drift, hunk.old)
  IN  IF done.refused \/ places = {} THEN [done EXCEPT !.refused = TRUE]
      ELSE [done EXCEPT !.lines = ReplaceSubSeqAt(Place(places) + 1, hunk.new, hunk.old, @),
                        !.drift = @ + Len(hunk.new) - Len(hunk.old)]

(* One after the other.                                                    *)
Hunked(hunks, lines) ==
  LET done[k \in 0 .. Len(hunks)] ==
        IF k = 0 THEN [lines |-> lines, drift |-> 0, refused |-> FALSE]
        ELSE ApplyHunk(done[k - 1], hunks[k])
  IN  done[Len(hunks)]

(* apply_file_patch.  A patch may only create what is not there and only   *)
(* modify what is; it may not delete.                                      *)
Apply(section, original) ==
  LET created == original \in {NoFile, Empty}
      text    == IF original = NoFile THEN Empty ELSE original
      done    == Hunked(section.hunks, text.lines)
      newline == (text.ends \/ section.creates) /\ ~section.unended
  IN  IF \/ section.deletes
         \/ section.creates /\ ~created
         \/ ~section.creates /\ original = NoFile
         \/ done.refused
      THEN Refused
      ELSE Joined(done.lines, newline)
=============================================================================
