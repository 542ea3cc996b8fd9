SPECIFICATION RefSpec
CONSTANTS
  Docs = {d1}
  Owners = {u1, u2}
  Attachments = {a1, a2}
  MaxGeneration = 4
  NoOwner = NoOwner
  NoHash = NoHash
INVARIANTS HeadDescribesReferences
PROPERTIES NothingResurrected
