CONSTANTS
  MaxUnits = 2
  MaxDepth = 2
SPECIFICATION Spec
INVARIANTS
  AnswersAreTrue
  TimingIsProtected
  OperationIsOwned
PROPERTIES
  M0GetsOn
  CallsReturn
