CONSTANTS
  p1 = p1
  p2 = p2
  k1 = k1
  a1 = a1
  t1 = t1
  t2 = t2
  None = None
  Procs = {p1, p2}
  Keys = {}
  Attachments = {a1}
  Texts = {t1}
  Kinds = {"save", "upload", "update", "discard", "remove"}
  Faults = {"write"}
  MaxVersion = 3
  MaxDraft = 2
  MaxMaterial = 1
SYMMETRY MCSymmetry
SPECIFICATION Spec
INVARIANTS
  ManifestConsistent
CHECK_DEADLOCK FALSE
