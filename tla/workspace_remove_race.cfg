CONSTANTS
  p1 = p1
  p2 = p2
  k1 = k1
  a1 = a1
  t1 = t1
  t2 = t2
  None = None
  Procs = {p1, p2}
  Keys = {k1}
  Attachments = {a1}
  Texts = {t1, t2}
  Kinds = {"upload", "collect", "remove"}
  Faults = {"crash"}
  MaxVersion = 3
  MaxDraft = 2
  MaxMaterial = 2
SYMMETRY MCSymmetry
SPECIFICATION Spec
PROPERTIES
  NumbersAreNotReused
