\* A limited and an unlimited heap under fairness: charges below, at and above the
\* minimum debt, pauses that shrink, double and saturate the budget.
CONSTANTS
  MaxWord = 2400
  Reserve = 3
  MinDebt = 4
  HeapLimits = {0, 9}
  Sizes = {1, 3, 8}
  Pauses = {100, 200, 400}
  MaxHeap = 14
  MaxLoops = 2
SPECIFICATION FairSpec
INVARIANTS TypeOK RunnableFresh DebtScheduled RetentionBounded
PROPERTIES NoThrash RequestServiced
