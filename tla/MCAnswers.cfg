SPECIFICATION AnswersSpec
CONSTANTS
  NoValue = NoValue
  Unparsable = Unparsable
  MaxGroups = 3
  MaxListed = 4
  Reach = 3
  Records <- MCRecords
  Calls <- MCCalls
  Hosts <- MCHosts
  Packages <- MCPackages
  Assists <- MCAssists
  Verdicts <- MCVerdicts
  MaxVersion = 2
  MaxRevision = 3
INVARIANTS
  SelectionIsEarned CallIsSound
  VerifiedIsWhole CandidateIsProved LoadsStayInside ProfileIsHonest VerdictIsEarned
  ReproducerIsSound CapsuleIsHonest
CHECK_DEADLOCK FALSE
