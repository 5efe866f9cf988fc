SPECIFICATION FairSpec
CONSTANTS
  Clients = {c1, c2}
  Shapes = {s1}
  Event = Event
  MaxRequests = 2
  MaxQueue = 1
  NoOne = NoOne
  Nothing = Nothing
  Failed = Failed
INVARIANT EachAnswerOnce
PROPERTY ImplementsService
PROPERTY StopEndsSession
