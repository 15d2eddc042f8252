\* Two runs of init on a root with one directory and one file, and one reader.
CONSTANTS
  Inits = {p1, p2}
  Directories = 2
  Files = 1
  Parent <- FileInDirectory
  DefaultReferences <- TheFile
  ReferenceLists <- ListsOfEach
  SkillFiles = {3}
SPECIFICATION ReadersSpec
INVARIANTS
  OnlyCompleteFiles
  SuccessMeansInitialized
  RepeatedInitSucceeds
  WhatReadersSawStaysTrue
PROPERTIES
  NonDestructive
  EveryInitEnds
CHECK_DEADLOCK FALSE
