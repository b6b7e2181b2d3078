CONSTANTS
  s1 = s1
  s2 = s2
  Sender <- MCSender
  Capacity = 3
  MaxStarts = 2
SPECIFICATION FairSpec
INVARIANTS TypeOK SlotsConserved LostOnce SemaphoreCounts AllGivenBack
PROPERTIES SentInTheEnd
CHECK_DEADLOCK FALSE
