CONSTANTS
  Stores = {s1, s2}
  Keys = {k1}
  Packets = {v1, v2}
  NoStore = NoStore
  Absent = Absent
  Torn = Torn
SPECIFICATION Spec
PROPERTY KeepsContract
