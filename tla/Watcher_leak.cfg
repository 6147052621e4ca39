\* Two Update notifications besides the phase changes: enough for a second
\* ready notification after the first, both before and after the List.
CONSTANTS
  MaxUpdates = 2

SPECIFICATION Spec

\* Wait returns and the pod's lifecycle ends: the system stops.
CHECK_DEADLOCK FALSE


INVARIANT HandlerNotLeaked
