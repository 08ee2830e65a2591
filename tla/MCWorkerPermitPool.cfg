CONSTANTS
  Clients = {c1, c2, c3, c4}
  Capacity = 2
SPECIFICATION Spec
INVARIANTS PermitsConserved
PROPERTIES NoOvertaking WaitingIsAnswered
