CONSTANTS
  Jobs <- MCJobs
  Rooms = {2, 12}
SPECIFICATION FairSpec
CHECK_DEADLOCK FALSE
INVARIANT Faithful
INVARIANT Seamless
INVARIANT RoomKept
PROPERTY ConversionEnds
