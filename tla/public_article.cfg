CONSTANTS
  photo = photo
  clip = clip
  h1 = h1
  h2 = h2
  None = None
  Items = {photo, clip}
  Uploads = {clip}
  Sha <- MCSha
  Document <- TwoDrafts
  Handlers = {h1, h2}
  MaxShells = 1
  MaxKeys = 2
  MaxRevision = 2
  MaxDeletes = 1
  BackendFaults = {"die", "oss"}
SYMMETRY HandlerSymmetry
SPECIFICATION Spec
INVARIANTS
  TypeOK
  OkMeansPublished
  DeletedIsGone
PROPERTIES
  RefinesUntilDeleted
  NoEmptyRevision
CHECK_DEADLOCK FALSE
