CONSTANTS
  Letters = {a, b}
  Sep = Sep
  MaxLength = 3
SPECIFICATION StringsSpec
INVARIANT JoinSeparates
