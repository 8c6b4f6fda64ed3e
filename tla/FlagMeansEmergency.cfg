SPECIFICATION FairSpec
CONSTANTS
  pDefault = pDefault
  pDivided = pDivided
  pEmergency = pEmergency
  pAlert = pAlert
  pList = pList
  pEmpty = pEmpty
  item1 = item1
  NoJson = NoJson
  NoItem = NoItem
  NoPage = NoPage
  Program = {pDefault, pDivided, pEmergency, pAlert, pList, pEmpty}
  List <- MCList
  Item <- MCItem
  Items <- MCItems
  Emergency <- MCEmergency
  AllDay <- MCAllDay
  Default = pDefault
  Airs <- MCAirs
  NoRollover = {pList}
  LastSlot = 1
  Deadlines = {FALSE}
  Commands = {"PUBLISH"}
  MaxCalls = 2
  Published = {pEmergency, pList}
  Stored <- MCStoredInOrder
PROPERTIES
  FlagMeansEmergency
CHECK_DEADLOCK FALSE
