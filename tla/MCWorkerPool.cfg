\* Two threads and a queue of two, five uploads, four of them of a picture that
\* must be refused, each for another reason; a thread may die.
SPECIFICATION FairSpec
CONSTANTS
  Uploads = {u1, u2, u3, u4, u5}
  ImageOf <- MCImageOf
  Narrow = u2
  Large = u3
  Sideless = u4
  Broken = u5
  None = None
  Cpus = 4
  MinThreads = 1
  MaxThreadsCap = 2
  QueueMultiplier = 1
  AcceptedFormats <- MCFormats
  MaxPages = 1
  PixelLimit = 8
  MinShortestSide = 2
  MaxCrashes = 1
INVARIANTS
  TasksArePending
  LoadIsBounded
  ClosedIsQuiet
  AnswersFitImages
  IInv
PROPERTIES
  ImplementsService
  AdmittedTasksEnd
