SPECIFICATION Spec
CONSTANTS
  Names <- ThreeNames
INVARIANTS
  TypeOK
  CleanEndRestores
PROPERTIES
  DisplayFirst
  EndingRestores
