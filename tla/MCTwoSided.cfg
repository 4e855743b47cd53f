SPECIFICATION FairSpec
CONSTANTS
  w = w  i = i  k = k  long = long  cut = cut
  Sessions = {w, i}
  LossyLinks <- MCLossyLinks
  MaxPosted = 2
  CqSize = 4
  NoMessage = NoMessage
  Keys = {k}
  NoValue = NoValue
  Workers = {w}
  Unconnected = {i}
  Script <- MCScript
  Wire <- MCWire
  HasBye <- MCHasBye
INVARIANTS CompletionsFit ExecutedAtMostOnce ResponsesMatchRequests CleanBetweenRequests
PROPERTIES SendBufferLeftAlone RequestsReturn QuitEndsThread
CHECK_DEADLOCK FALSE
