CONSTANTS
  d1 = d1
  d2 = d2
  Devs <- MCDevs
  Supers <- MCSupers
  MaxIds <- MCMaxIds
  MaxMinors <- MCMaxMinors
  MaxUsers <- MCMaxUsers
  MaxLoads <- MCMaxLoads
  MaxRefs <- MCMaxRefs

SYMMETRY MCSymmetry

SPECIFICATION Spec


CHECK_DEADLOCK FALSE
INVARIANT ClaimsBalanced
