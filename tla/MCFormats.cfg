SPECIFICATION Spec
CONSTANTS
  Keys = {"name", "title"}
  Params <- SomeParams
  Speeds <- SomeSpeeds
  Fastest <- SomeFastest
  ProfileSets <- SomeProfiles
  Channels = {0, 1}
  Logs <- SomeLogs
  Listings <- SomeListings
  Storages <- SomeStorages
  Loads <- SomeLoads
  MaxCalls = 3
INVARIANT ReadsAreWhole
PROPERTY WritesArrive
CHECK_DEADLOCK FALSE
