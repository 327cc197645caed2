SPECIFICATION FairSpec
CONSTANTS
  MaxRev = 2
  MaxFaults = 2
  Settings <- SomeSettings
INVARIANTS TypeOK InstalledIsCurrent CacheNamesWhatIsThere InputsAreSet
PROPERTIES RebuildRefreshes RebuildRecovers
