SPECIFICATION Spec
CONSTANTS
  t1 = t1  t2 = t2  k1 = k1  k2 = k2  v1 = v1  v2 = v2  None = None
  Thread <- TwoThreads  Guarded <- TwoThreads  Key <- TwoKeys  Value <- TwoValues
  MaxElements = 1  MaxNest = 2  Aborts = TRUE
SYMMETRY Symmetric
INVARIANTS Coherent RepeatableRead IsolationFree
