SPECIFICATION FairSpec
CONSTANTS
  Stations = {1, 2}
  CallFrames = 1
  MaxFaults = 1
  Store1Max = 7
  Store2Max = 3
  MaxRetry = 3
  RetryNumber = 3
  KnownFrom = {1}
  MaxCalls = 1
INVARIANTS TypeOK AnswersInOrder FcbAgree OneTalker
PROPERTIES EveryoneServed LinksComeUp Interrogated
