SPECIFICATION Spec
CONSTANTS
  Clients = {c1, c2, c3}
  None = None
SYMMETRY Perms
INVARIANTS NoOrphanClient NoOrphanSession ReleasedStaysReleased ConnectedIsBacked NoStaleHandles NeverGivesUp
PROPERTIES SessionsAreReleasedFirst TimeoutHitsOwnSession
CONSTRAINT Undisturbed
CHECK_DEADLOCK FALSE
