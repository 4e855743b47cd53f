SPECIFICATION FairSpec
CONSTANTS
  c1 = c1  c2 = c2  c3 = c3  k = k  v = v
  Clients = {c1, c2, c3}
  Acceptor = Acceptor
  Nobody = Nobody
  Coroutines <- MCCoroutines
  Descriptors <- MCDescriptors
  ListenFd = 3
  ClientFds = {4, 5}
  NoFd = NoFd
  Script <- MCScript
  HalfClosers = {c1}
  Leavers = {c1}
  Unlucky = {c3}
  Keys = {k}
  NoValue = NoValue
  RequestParts = 2
  ResponseParts = 2
  SendBuffer = 1
INVARIANTS TypeOK OnePlaceEach DescriptorsOwned ResponsesInOrder AnswersMatchRequests
PROPERTIES RequestsAnswered FreeDescriptorsAreUsed
CHECK_DEADLOCK FALSE
