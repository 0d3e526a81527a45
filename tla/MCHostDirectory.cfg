\* Enough objects for a pass to start over a tail that grew during the last.
CONSTANTS
  Objects = {o1, o2, o3, o4, o5}
  Serials = {1, 2}
SPECIFICATION Spec
SYMMETRY ObjectSymmetry
VIEW View
CHECK_DEADLOCK FALSE
INVARIANTS TypeOK Canonical KeysIndexEntries DeadEntriesLeave
