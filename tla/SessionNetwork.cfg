SPECIFICATION MCSpec
CONSTANTS
  Name = {p, q}
  Slot = {r1, r2}
  Nobody = Nobody
  MaxSessions = 1
  Legacy = {q}
  Wedging = TRUE
INVARIANTS AllocatedOnce AloneLinkLeadsHome
PROPERTIES WaitersAreServed AloneOthersKeepTheirLink
