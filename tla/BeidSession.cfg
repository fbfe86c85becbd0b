CONSTANTS
  NumSlots = 4
  None = None
SPECIFICATION Spec
INVARIANT SteadyBelpicSelected
