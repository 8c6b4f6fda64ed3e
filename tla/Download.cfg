SPECIFICATION FairSpec
CONSTANTS
  pFilm = pFilm
  pList = pList
  film = film
  poster = poster
  background = background
  mFilm = mFilm
  mBackground = mBackground
  Resource <- MCResource
  Marker <- MCMarker
  MarkerOf <- MCMarkerOf
  Watched = {mFilm}
  Program <- MCProgram
  Wanted <- MCWanted
  HasItemid = {pFilm}
  None = None
  MaxPublish = 2
  MaxStarts = 2
INVARIANTS
  TypeOK
  CompleteIfUndisturbed
  RetriedUntilGivenUp
  RetriesBounded
PROPERTY
  RetriesEnd
CHECK_DEADLOCK FALSE
