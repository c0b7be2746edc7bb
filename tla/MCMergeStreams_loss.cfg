SPECIFICATION Spec
CONSTANTS
  a1 = a1
  a2 = a2
  b1 = b1
  ma1 = ma1
  ma2 = ma2
  mb = mb
  a = a
  b = b
  rp = rp
  rp1 = rp1
  rp2 = rp2
  mp = mp
  mp1 = mp1
  mp2 = mp2
  s1 = s1
  NoMetadata = NoMetadata
  Reviews = {a1, a2}
  Metadata = {ma1}
  Products = {a}
  ReviewPartitions = {rp}
  MetadataPartitions = {mp}
  Subtasks = {s1}
  Malformed = {}
  Nonconforming = {}
  ParentAsin <- MCParentAsin
  Subtask <- MCSubtask
  MaxFaults <- OneJobManagerFailure
  MaxAttempts = 5
INVARIANTS
  RestartWithoutLoss
