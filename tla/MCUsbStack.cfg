CONSTANTS
  Addresses = {1, 2}
  Enumeration <- MCEnumeration
  LaterRequests <- MCLaterRequests
  AddressFirst = TRUE
  MaxAborts = 1
  MaxLosses = 1
  MaxResets = 1
  Calls = {1, 2}
  MaxPackets = 3
  MaxWrites = 1
  Uses = {"read", "write"}
  HostPolls = TRUE
  ResetWhileOpen = FALSE
SPECIFICATION Spec
INVARIANTS
  RepliesWhole
  AddressTogether
  PacketsOnce
PROPERTIES
  EnumerationEnds
  PollReturns
CHECK_DEADLOCK FALSE
