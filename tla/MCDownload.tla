----------------------------- MODULE MCDownload -----------------------------
(***************************************************************************)
(* A programme with a film and its poster, whose names differ in the       *)
(* extension only, and a programme list with a background picture under    *)
(* template/, where nobody looks for .download files.                      *)
(***************************************************************************)
EXTENDS Download

CONSTANTS pFilm, pList, film, poster, background, mFilm, mBackground

MCResource == {film, poster, background}
MCMarker == {mFilm, mBackground}
MCMarkerOf == [r \in MCResource |-> IF r = background THEN mBackground ELSE mFilm]

MCProgram == {pFilm, pList}

MCWanted == [p \in MCProgram |->
               IF p = pFilm THEN {film, poster} ELSE {background}]

=============================================================================
