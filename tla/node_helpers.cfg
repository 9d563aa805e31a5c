SPECIFICATION Spec
CONSTANTS
  Words  <- MCWords
  NoWord <- MCNoWord
  App    <- MCApp
  Files  <- MCFiles
  Names  <- MCNames
  Labels <- MCLabels
  Frames <- MCFrames
  Nodes  <- MCNodes
  Written <- MCWritten
  MaxEvents = 2
INVARIANTS
  TypeOK
  FollowedIsAnnounced
  
  AnswersAreTrue
  NeverAnswersErrors
  SuccessIsReported
  FinishedIsWhole
  MissedForAReason
PROPERTIES
  ReportsSettle

