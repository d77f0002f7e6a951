CONSTANTS
  p1 = p1
  p2 = p2
  k1 = k1
  a1 = a1
  a2 = a2
  t1 = t1
  None = None
  Procs = {p1, p2}
  Keys = {k1}
  Attachments = {a1, a2}
  Texts = {t1}
  Kinds = {"save", "revise", "collect", "import", "sync", "discard"}
  Faults = {"write", "crash"}
  MaxVersion = 3
  MaxDraft = 2
  MaxMaterial = 2
SYMMETRY MCSymmetry
SPECIFICATION Spec
INVARIANTS
  TypeOK
  Readable
  LockExcludes
PROPERTIES
  RefinesStore
  RevisionsKeepTheirBase
