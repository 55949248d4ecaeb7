CONSTANTS
  NaN = NaN
  c1 = c1
  c2 = c2
  c3 = c3
  ItemLists <- MCItemLists
  Inputs <- MCInputs
SPECIFICATION Spec
\* get_ids ends the process (return, exit() or an exception): final states
\* have no successor.
CHECK_DEADLOCK FALSE
INVARIANT MalformedTokenRejected
