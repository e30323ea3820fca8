CONSTANTS
  Queries <- MCQueries
  Null = Null
SPECIFICATION Spec
INVARIANTS
  ConstantsAreReplaced
  NumbersAreFresh
  SharedNumbersMatch
  GroupItemsFollowTargets
