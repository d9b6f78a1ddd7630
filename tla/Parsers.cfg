SPECIFICATION ParserSpec
CONSTANTS
  MaxTotal = 15
  IntMax = 220
  Char = {32, 45, 48, 50, 120}
  MaxLength = 7
  MAX_LEN = 13
  NUM_OF_GENRE = 2
  MAX_MOVIES = 2
  MAX_REQ = 2
  Header <- Headers
  Row <- Rows
  MaxRows = 3
  Wish <- Wishes
  MaxWishes = 3
INVARIANTS
  WellFormedUnderstood
  ForeignRefused
  MoviesAsWritten
  FittingInputRead
CHECK_DEADLOCK FALSE
