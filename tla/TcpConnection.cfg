\* Two messages, receives and buffers; the provider may report the end twice.
CONSTANTS
  Calls = {"open", "close"}
  MaxDiscards = 2
  Sends = {m1, m2}
  m1 = m1
  m2 = m2
  MaxReceives = 2
  MaxData = 2
  MaxDisconnects = 2
SPECIFICATION FairConnectionSpec
INVARIANTS ConnectionTypeOK DestroyedIfQuiet EndIsSafe
PROPERTIES ConnectionEnds
CHECK_DEADLOCK FALSE
