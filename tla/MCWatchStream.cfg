SPECIFICATION FairSpec
CONSTANTS
  Accepted = {"a"}
  Unknown = {"u"}
  Condition = "fulfilled"
  Beginnings <- MCBeginnings
  MaxChanges = 2
  MaxStreams = 2
INVARIANTS TypeOK ToldStreamsEndInBand NothingMaterialIsSwallowed StatusIsOfTheRequest SuccessCoversTheSubject
PROPERTIES EveryWatchEnds
CHECK_DEADLOCK FALSE
