\* Two calls of two conversations, in a workspace that asks and a read-only one.
CONSTANTS
  Calls = {c1, c2}
  Requests <- Mixed
  Workspaces = {"shop", "docs"}
  Config <- ShopAndDocs
  MaxStops = 1
SPECIFICATION Spec
SYMMETRY Symmetry
INVARIANTS RulesEarned ReadOnlyHolds Accounted
