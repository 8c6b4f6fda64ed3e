SPECIFICATION Spec
CONSTANTS
  pDefault = pDefault
  p1 = p1
  p2 = p2
  p3 = p3
  pEmergency = pEmergency
  logo = logo
  film = film
  photo = photo
  notice = notice
  Program <- MCProgram
  Emergency <- MCEmergency
  First <- MCFirst
  Default = pDefault
  Material <- MCMaterial
  Uses <- MCUses
  Absent = Absent
  Empty = Empty
  Torn = Torn
  Unplayable = Unplayable
  NoJson = NoJson
  Commands = {"PUBLISH", "DEFAULT", "EXCHANGETIME"}
  MaxCommands = 3
  MaxCuts = 2
INVARIANT
  EmergencyMaterialsKept
CHECK_DEADLOCK FALSE
