SPECIFICATION Spec
CONSTANTS
  OldRows = {o1, o2}
  NoFunction = {o2}
  Runners = {a, b}
  Stops <- MCStops
  Companies <- MCCompanies
SYMMETRY Symmetry
INVARIANTS
  SchemaMatchesVersion
PROPERTIES
  EntryFollowsCode
  RunIsAllOrNothing
  FailuresHaveCause
