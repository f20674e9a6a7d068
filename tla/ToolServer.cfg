\* A call of any tool beside one that bears on it, in two conversations.
CONSTANTS
  c1 = c1
  c2 = c2
  Calls = {c1, c2}
  Sessions = {s1, s2}
  Starts <- MCStarts
  Config <- MCConfig
  Machine <- MCMachine
  Texts <- MCTexts
  Found <- MCFound
  Briefs <- MCBriefs
  Manifests <- MCManifests
  Mixes <- MCMixes
  MaxUses = 2
  MaxEdits = 1
SPECIFICATION Spec
SYMMETRY Symmetry
INVARIANTS RunsWhereAsked NeverAGuess ShownIsWhatRuns AskedOrRemembered ReadOnlyMeansIt
CHECK_DEADLOCK FALSE
