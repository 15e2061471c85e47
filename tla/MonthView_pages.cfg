\* All the pages around the turn of the year.
CONSTANTS
  amy = amy
  ben = ben
  house = house
  sport = sport
  redeemed = redeemed
  none = none
  Children = {amy, ben}
  WORK_TYPES = {house, sport}
  Redeemed = redeemed
  NoType = none
  Entries <- MCEntries
  Moments <- MCMoments
  PickedDays <- MCPickedDays
  Today <- MCToday
  MaxTaps = 13
  EndIncluded = TRUE
SPECIFICATION ViewSpec
INVARIANTS ListsItsMonth RangeListsItsDays
CHECK_DEADLOCK FALSE
