SPECIFICATION Spec
CONSTANTS
  pFilm = pFilm
  pList = pList
  film = film
  poster = poster
  background = background
  mFilm = mFilm
  mBackground = mBackground
  Resource <- MCResource
  Marker <- MCMarker
  MarkerOf <- MCMarkerOf
  Watched = {mFilm}
  Program <- MCProgram
  Wanted <- MCWanted
  HasItemid = {pFilm}
  None = None
  MaxPublish = 1
  MaxStarts = 1
INVARIANT
  FinalIsComplete
CHECK_DEADLOCK FALSE
