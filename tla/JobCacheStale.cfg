CONSTANTS
  Proc = {p, q}
  Files = 2
  Content = {a, b}
  MaxMoves = 4
  MaxTool = 2
SYMMETRY MCSymmetry
SPECIFICATION Spec
PROPERTY HitsAreTiedToTheirInputs
CHECK_DEADLOCK FALSE
