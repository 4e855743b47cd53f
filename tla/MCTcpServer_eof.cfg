SPECIFICATION FairSpec
CONSTANTS
  c1 = c1  c2 = c2  c3 = c3  k = k  v = v
  Clients = {c1}
  Acceptor = Acceptor
  Nobody = Nobody
  Coroutines <- MCCoroutines
  Descriptors <- MCDescriptors
  ListenFd = 3
  ClientFds = {4}
  NoFd = NoFd
  Script <- MCScript
  HalfClosers = {c1}
  Leavers = {}
  Unlucky = {}
  Keys = {k}
  NoValue = NoValue
  RequestParts = 2
  ResponseParts = 2
  SendBuffer = 1
PROPERTY BufferedLinesAreProcessed
CHECK_DEADLOCK FALSE
