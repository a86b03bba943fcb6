SPECIFICATION Spec
CONSTANTS
  Digests = {d1, d2}
  Funcs = {f1, f2}
  Writers = {w1}
  Readers = {r1}
  Grace = 3
  Window = 1
  GcWindow = 1
  Modes = {"startup", "fresh"}
  Absent = Absent
  None = None
SYMMETRY Symmetry
INVARIANTS
  TypeOK
  NoDanglingPointer
PROPERTIES
  LoadFailsOnlyIfSuperseded
  GcCollectsLeaks
