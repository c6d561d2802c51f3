SPECIFICATION Spec
CONSTANTS
  k1 = k1
  k2 = k2
  alice = alice
  bob = bob
  Key = {k1, k2}
  Token = {alice, bob}
  Unset = Unset
  Environments <- Settings5
  Mask <- Masks
  Endpoint = {e1}
  Call = {c1, c2, c3}
  Absent = Absent
  NoKey = NoKey
  NoLimit = NoLimit
  DefaultLimit = 1
  Limits = {0, 2}
  MaxStarts = 3
  MaxTime = 1
SYMMETRY Symmetry
INVARIANTS IInv ListingInv KeysAccounted HandedRegistered SameSettingReadable SelectedReadable ListedNewestFirst ListingComplete StoragesAgree
PROPERTY AdminsAudited
CHECK_DEADLOCK FALSE
