-------------------------- MODULE MCProgramControl --------------------------
(***************************************************************************)
(* A default page, an ordinary programme and an emergency with a window    *)
(* each, an all-day emergency, a list repeated by weekday and an empty     *)
(* list, over a day of two slots.                                          *)
(***************************************************************************)
EXTENDS ProgramControl

CONSTANTS pDefault, pDivided, pEmergency, pAlert, pList, pEmpty, item1

MCList == {pList, pEmpty} \cap Program
MCItem == {item1}
MCItems == [l \in MCList |-> IF l = pList THEN <<item1>> ELSE <<>>]
MCEmergency == {pEmergency, pAlert} \cap Program
MCAllDay == {pDefault, pAlert} \cap Program

MCAirs == [g \in (Program \ List) \cup Item |->
             CASE g \in {pDefault, pAlert}  -> {}
               [] g \in {pDivided, item1}   -> {0}
               [] g = pEmergency            -> {1}]

Held(p, late, mis) == [prog |-> p, expired |-> late, misread |-> mis]

Files(template, temporary) ==
  [f \in {"jTemplate", "jOverdue", "jTemproary"} |->
     CASE f = "jTemplate"  -> template
       [] f = "jOverdue"   -> NoJson
       [] f = "jTemproary" -> temporary]

MCStored == {
  Files(Held(pDivided, TRUE, FALSE), Held(pAlert, FALSE, FALSE)),
  Files(Held(pEmpty, FALSE, FALSE), Held(pAlert, TRUE, FALSE)),
  Files(Held(pEmergency, FALSE, TRUE), NoJson)}

\* Without files that an earlier misreading left behind
MCStoredInOrder == {s \in MCStored : ~s["jTemplate"].misread}

=============================================================================
