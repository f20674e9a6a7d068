\* Every list of three rules; every line of three commands and every line of two beside a rule.
CONSTANTS
  Requests <- MCRequests
  Workspaces <- MCWorkspaces
  Rules <- MCRules
  Times <- MCTimes
  Phrases <- MCPhrases
  MaxDepth = 1
  MaxPayloadDepth = 2
  MaxRules = 3
  MaxLine = 3
  MaxExtras = 1
  RulesBeside = 1
SPECIFICATION Spec
INVARIANTS NothingReachesPast DenyWins HidingDoesNotHelp OnlyTheListedGoesAhead
PROPERTIES RememberNeverWidens DetailsNeverLower
