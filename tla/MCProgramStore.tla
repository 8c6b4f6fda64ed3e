--------------------------- MODULE MCProgramStore ---------------------------
(***************************************************************************)
(* Three ordinary programmes and an emergency that share some materials; a *)
(* device holds two of the three at first.                                 *)
(***************************************************************************)
EXTENDS ProgramStore

CONSTANTS pDefault, p1, p2, p3, pEmergency, logo, film, photo, notice

MCProgram == {p1, p2, p3}
MCEmergency == {pEmergency}
MCFirst == {p1, p2, pEmergency}
MCMaterial == {logo, film, photo, notice}

MCUses == [p \in MCProgram \cup MCEmergency \cup {pDefault} |->
             CASE p = pDefault   -> {logo}
               [] p = p1         -> {logo, film}
               [] p = p2         -> {film, photo}
               [] p = p3         -> {photo}
               [] p = pEmergency -> {photo, notice}]

=============================================================================
