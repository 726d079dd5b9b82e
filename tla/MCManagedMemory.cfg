SPECIFICATION Spec
CONSTANTS
  Records = {r1, r2, r3, r4}
  NULL = NULL
  Requests <- MCRequests
  Widths = {6}
  Addresses <- MCAddresses
  Slots = 2
  RememberedDead = 1
  ByteLimit = 12
  InlineBytes = 4
  FirstCapacity = 2
  FirstAddress = 4096
  AddressBound = 4176
SYMMETRY MCSymmetry
INVARIANTS
  TypeOK
  LookupAgrees
  Separated
  LiveRecordsAreFindable
  CountsExact
PROPERTIES
  LiveObjectsAreStable
  ImplementsObjectStore
