CONSTANTS
  h1 = h1
  h2 = h2
  h3 = h3
  o1 = o1
  o2 = o2
  o3 = o3
  Handle = {h1, h2, h3}
  Obj = {o1, o2, o3}
  NULL = NULL
  Key = {1, 2}
  Owner = {"check"}
  OwnerOf <- MCOwnerOf
  USHRT_MAX = "USHRT_MAX"
  s1 = s1
  Sm = {s1}
  NoSm = NoSm
  MaxId = 1
  MaxRefs = 4
SYMMETRY Symmetry
SPECIFICATION Spec
INVARIANT TypeOK
INVARIANT RefsCoverHandles
INVARIANT NullIffEmpty
INVARIANT LookupComplete
PROPERTY IterSnapshot
PROPERTY PrivateMaps
CHECK_DEADLOCK TRUE
