\* txLock implements the isolation lock of spec 4.6 (RWLock), with a client and
\* the registry racing to end each transaction.  No property here
\* reads the counters, so they are zero bits wide.
CONSTANTS
  c1 = c1
  c2 = c2
  c3 = c3
  Clients <- MC_Clients
  CounterWidth = 0
  None = None
SPECIFICATION Spec
INVARIANT TypeOK
PROPERTY IsolationLock
