\* All streams of up to three requests, cut into reads after every unit.
SPECIFICATION FairSpec
CONSTANTS
  Words <- Spelled
  Colons <- WithColon
  Number <- Numbers
  MaxRequestSize = 20
  Streams <- AllStreams
  MaxRequests = 3
INVARIANTS
  TypeOK
  OneActivity
  RepliesInOrder
  CloseIsLast
  Framing
PROPERTIES
  EveryRequestAnswered
  Refines
\* A session ends.
CHECK_DEADLOCK FALSE
