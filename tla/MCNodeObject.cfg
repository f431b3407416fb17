\* The Node object written by malacoda, rubicante's updateSchedulability and
\* other clients: three gammas (one per criticality level), two foreign
\* writes, one rubicante restart.
CONSTANTS
  Gammas = {1, 5, 8}
  MaxWrites = 2
  MaxRestarts = 1
SPECIFICATION Spec
INVARIANT NodeMirrorsDaemons
CHECK_DEADLOCK FALSE
