SPECIFICATION Spec
CONSTANTS
  Names = {1, 2, 3}
  MaxCookie = 3
  Length <- MCLength
  MaxCount = 3
  MaxChanges = 2
INVARIANT ListsEach
PROPERTY ListingEnds
