CONSTANTS
  d1 = d1
  d2 = d2
  Devs <- MCDevs
  Supers <- MCSupers
  MaxIds <- MCMaxIds
  MaxMinors <- MCMaxMinors
  MaxUsers <- MCMaxUsers
  MaxLoads <- MCMaxLoads
  MaxRefs <- MCMaxRefs

SYMMETRY MCSymmetry

SPECIFICATION Spec

INVARIANT TypeOK
INVARIANT OwnersHoldDevice

CHECK_DEADLOCK FALSE
