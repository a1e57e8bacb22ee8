CONSTANTS
  Stores = {s1}
  Keys = {k1, k2, k3}
  Packets = {v1, v2}
  NoStore = NoStore
  Absent = Absent
  Torn = Torn
SPECIFICATION Spec
INVARIANT TypeOK
INVARIANT CacheIsBacked
PROPERTY KeepsContract
PROPERTY FilesFollowAnswers
