SPECIFICATION FairSpec
CONSTANTS
  w = w  i = i  k = k  long = long  cut = cut
  Sessions = {i}
  LossyLinks = {}
  MaxPosted = 2
  CqSize = 4
  NoMessage = NoMessage
  Keys = {k}
  NoValue = NoValue
  Workers = {}
  Unconnected = {}
  Script <- MCScript
  Wire <- MCWire
  HasBye <- MCHasBye
PROPERTY ThreadsEndWithClients
CHECK_DEADLOCK FALSE
