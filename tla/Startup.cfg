SPECIFICATION FairSpec
CONSTANTS
  Texts <- SomeTexts
  Files <- SomeFiles
  Skills <- SomeSkills
  Listings <- SomeListings
INVARIANTS
  TypeOK
  HighestLayerWins
  FirstSkillWins
  NoSkillFailsSilently
PROPERTIES
  NamesKeepTheirTool
  StartupEnds
CHECK_DEADLOCK FALSE
