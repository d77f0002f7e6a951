CONSTANTS
  photo = photo
  clip = clip
  h1 = h1
  h2 = h2
  h3 = h3
  o1 = o1
  o2 = o2
  o3 = o3
  None = None
  Items = {photo, clip}
  Uploads = {clip}
  Sha <- MCSha
  Document <- TwoDrafts
  Order <- MCOrder
  Handlers = {h1, h2}
  Operations = {o1, o2}
  MaxShells = 1
  MaxKeys = 3
  MaxRevision = 3
  MaxDeletes = 0
  BackendFaults = {}
  Faults = {"timeout"}
SYMMETRY MCSymmetry
SPECIFICATION SystemSpec
CHECK_DEADLOCK FALSE
INVARIANTS
  PublicMediaBacked
