CONSTANTS
  Keys = {k1, k2, k3}
  Values = {v1, v2}
  Contents <- MCContents
  Kinds = {"int", "string", "merch"}
  NoBuckets = 2
  Prefix <- MCPrefix
  Links = {1, 2, 3, 4}
  MaxEntries = 3
SPECIFICATION Spec
INVARIANTS TypeOK ListIntact ValuesFillArray
PROPERTIES SequenceSpec MapSpec
SYMMETRY Symmetry
