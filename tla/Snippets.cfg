SPECIFICATION Spec
CONSTANTS
  Devices = {eth0, eth1}
  ListHead = ListHead
  Nowhere = Nowhere
  Default = Default
  Zero = Zero
  MaxPage = 9
  WORD = 4
INVARIANTS
  VisitsList
  AddressesAgree
  HashesArea
PROPERTIES
  GuestResumed
CHECK_DEADLOCK FALSE
