SPECIFICATION Spec
CONSTANTS
  author = author
  note = note
  v1 = v1
  v2 = v2
  v3 = v3
  None = None
  Notes <- MCNotes
  Profiles <- MCProfiles
  Authors <- MCAuthors
  AuthorOf <- MCAuthorOf
  Rank <- MCRank
  Publishers = {p1}
  MaxPublishes = 2
  MaxDeletes = 0
  MaxFaults = 0
INVARIANT
  CacheFollowsReplace
CHECK_DEADLOCK FALSE
