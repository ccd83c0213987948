\* GetTransactionStats racing transactions that begin and end.
CONSTANTS
  c1 = c1
  c2 = c2
  c3 = c3
  Clients <- MC_Clients
  CounterWidth = 3
  None = None
SPECIFICATION Spec
SYMMETRY MC_Symmetry
INVARIANT ActiveStatBounded
