SPECIFICATION Spec
CONSTANTS
  TypeDef <- MCTypeDef
  Struct <- MCStruct
  MaxInt = 256
  MaxUint32 = 999
INVARIANTS
  TypeOK
  EveryLayerGetsItsOption
  KeysAreCanonical
  BuildsAsTypeCodecsSays
  NoImpossiblePanic
  UnionShape
  LegalTagsBuild
CHECK_DEADLOCK FALSE
