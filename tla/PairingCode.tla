----------------------------- MODULE PairingCode -----------------------------
(***************************************************************************)
(* core/auth.py: the pairing code, the lockout that makes guessing it      *)
(* expensive, and the file and the second process it is shared with.       *)
(* Codes are drawn at random and so are never drawn twice: a code is the   *)
(* number of the draw.  Of the failures the code keeps their stamps, which *)
(* it counts and lets expire; here a failure is a guess with its number.   *)
(***************************************************************************)
EXTENDS Naturals, FiniteSets

CONSTANTS MaxAttempts,  \* MAX_ATTEMPTS
          Lockout,      \* LOCKOUT_SEC
          MaxClock, MaxDraws, MaxBoots, MaxGuesses   \* bounds

ASSUME PairingAssumption ==
  {MaxAttempts, Lockout, MaxClock, MaxDraws, MaxBoots, MaxGuesses} \subseteq Nat

VARIABLES clock,
          code,         \* the code the server compares with
          saved,        \* the code in the file
          failures,     \* _failures: the wrong codes that still count
          drawn, boots,
          wrong,        \* history: the wrong codes compared since the last pardon
          printed,      \* history: the code `ph auth rotate` printed last, 0 for none
          previous      \* history: the code before the last restart, 0 for none

pairingVars == <<clock, code, saved, failures, drawn, boots, wrong, printed, previous>>

PairingInit ==
  /\ clock = 0
  /\ code = 1 /\ saved = 1 /\ drawn = 1
  /\ failures = {} /\ wrong = {}
  /\ boots = 0 /\ printed = 0 /\ previous = 0

(* locked_out: failures older than the lockout are dropped first.          *)
Recent(guesses) == {g \in guesses : clock - g.at < Lockout}

LockedOut_OffByOne == Cardinality(Recent(failures)) > MaxAttempts

LockedOut == Cardinality(Recent(failures)) >= MaxAttempts

(* check_pairing_code, from the consent page.                              *)
Refused ==
  /\ LockedOut
  /\ failures' = Recent(failures)
  /\ UNCHANGED <<clock, code, saved, drawn, boots, wrong, printed, previous>>

WrongCode ==
  /\ ~LockedOut
  /\ Cardinality(wrong) < MaxGuesses
  /\ LET guess == [nth |-> Cardinality(wrong) + 1, at |-> clock]
     IN  failures' = Recent(failures) \cup {guess} /\ wrong' = wrong \cup {guess}
  /\ UNCHANGED <<clock, code, saved, drawn, boots, printed, previous>>

RightCode ==
  /\ ~LockedOut
  /\ failures' = {} /\ wrong' = {}
  /\ UNCHANGED <<clock, code, saved, drawn, boots, printed, previous>>

(* rotate_pairing_code, from the console: drawn, pardoned, saved.          *)
Rotate ==
  /\ drawn < MaxDraws
  /\ drawn' = drawn + 1
  /\ code' = drawn' /\ saved' = drawn'
  /\ failures' = {} /\ wrong' = {}
  /\ UNCHANGED <<clock, boots, printed, previous>>

(* Whatever else the store saves, it saves its code with it.               *)
Save ==
  /\ saved' = code
  /\ UNCHANGED <<clock, code, failures, drawn, boots, wrong, printed, previous>>

(* `ph auth rotate`, in its own process.                                   *)
CliRotate ==
  /\ drawn < MaxDraws
  /\ drawn' = drawn + 1
  /\ saved' = drawn' /\ printed' = drawn'
  /\ UNCHANGED <<clock, code, failures, boots, wrong, previous>>

(* The server is started again: load() takes the code from the file, and   *)
(* the failures were never saved.                                          *)
Reboot ==
  /\ boots < MaxBoots
  /\ boots' = boots + 1
  /\ previous' = code
  /\ code' = saved
  /\ failures' = {} /\ wrong' = {}
  /\ UNCHANGED <<clock, saved, drawn, printed>>

ClockTicks ==
  /\ clock < MaxClock
  /\ clock' = clock + 1
  /\ UNCHANGED <<code, saved, failures, drawn, boots, wrong, printed, previous>>

PairingNext == \/ Refused \/ WrongCode \/ RightCode \/ Rotate \/ Save
               \/ CliRotate \/ Reboot \/ ClockTicks

PairingSpec == PairingInit /\ [][PairingNext]_pairingVars

-----------------------------------------------------------------------------
PairingTypeOK ==
  /\ clock \in Nat /\ drawn \in Nat
  /\ code \in 1 .. drawn /\ saved \in 1 .. drawn
  /\ failures \subseteq wrong
  /\ \A g \in wrong : g.nth \in 1 .. Cardinality(wrong) /\ g.at \in 0 .. clock

(* Between pardons (a right code, a rotation, a restart), no stretch of    *)
(* the lockout's length sees more wrong codes compared than allowed,       *)
(* wherever it begins (auth.py:193-221).                                   *)
GuessesBounded ==
  \A t \in 0 .. clock :
    Cardinality({g \in wrong : t <= g.at /\ g.at < t + Lockout}) <= MaxAttempts

(* What `ph auth rotate` prints: new clients need this code (cli.py:349).  *)
PrintedCodeWorks == printed # 0 => code = printed

(* What the lockout tells the person at the consent page: restart the      *)
(* server for a new code (auth.py:210).                                    *)
RestartGivesNewCode == previous # 0 => code # previous
=============================================================================
