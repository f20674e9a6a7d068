\* A task waits for the owner while the file that says what it runs is edited.
CONSTANTS
  c1 = c1
  c2 = c2
  Calls = {c1, c2}
  Sessions = {s1, s2}
  Starts <- MCStarts
  Config <- MCConfig
  Machine <- MCMachine
  Texts <- MCTexts
  Found <- MCFound
  Briefs <- MCBriefs
  Manifests <- MCManifests
  Mixes <- MCMixes
  MaxUses = 0
  MaxEdits = 1
SPECIFICATION Spec
SYMMETRY Symmetry
INVARIANT JudgedIsWhatRuns
CHECK_DEADLOCK FALSE
