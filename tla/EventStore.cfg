SPECIFICATION Spec
CONSTANTS
  author = author
  note = note
  v1 = v1
  v2 = v2
  v3 = v3
  None = None
  Notes <- MCNotes
  Profiles <- MCProfiles
  Authors <- MCAuthors
  AuthorOf <- MCAuthorOf
  Rank <- MCRank
  Publishers = {p1, p2}
  MaxPublishes = 3
  MaxDeletes = 1
  MaxFaults = 1
INVARIANTS
  TypeOK
  NewestIsKept
  
PROPERTY
  DeletedIsForgotten
CHECK_DEADLOCK FALSE
