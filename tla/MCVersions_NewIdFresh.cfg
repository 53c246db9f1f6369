CONSTANTS
  MaxVersion <- MCMaxVersion
  VersionCap <- MCVersionCap

SPECIFICATION Spec

PROPERTY NewIdFresh
