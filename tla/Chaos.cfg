\* Two callers that call up to seven times in all, percentages that change.
SPECIFICATION Spec
CONSTANTS
  Calls = {c1, c2}
  Percents = {0, 50}
  MaxTotal = 7
INVARIANTS
  NeverTooManyInjected
  NeverTooFewFail
