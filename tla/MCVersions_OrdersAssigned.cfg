CONSTANTS
  MaxVersion <- MCMaxVersion
  VersionCap <- MCVersionCap

SPECIFICATION Spec

INVARIANT OrdersAssigned
