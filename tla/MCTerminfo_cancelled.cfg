CONSTANTS
  Kind <- KindDef
  Short = 16
  Word = 64
  Byte = 4
  Hash <- HashDef
  MaxData = 100
  Places = {"home", "system"}
  JobSets <- JobSetsDef
  Queries <- QueriesDef
  Cases = {"cancelled"}
SPECIFICATION Spec
INVARIANT ReadsBack
