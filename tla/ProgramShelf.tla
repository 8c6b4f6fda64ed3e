---------------------------- MODULE ProgramShelf ----------------------------
(***************************************************************************)
(* What the files template.json and templateold.json promise together: the *)
(* ordinary programme the next start plays is replaced in one step by the  *)
(* next one published.  An empty file, left by a publication that was cut  *)
(* in its write, puts it at risk until another one has been written; so    *)
(* does a write of its own file, and a start beside an operation of the    *)
(* process it follows.  Only a power loss during a write leaves a file     *)
(* that no start gets past.                                                *)
(*                                                                         *)
(* And what temporary.json promises: the emergency in it is withdrawn only *)
(* between two operations, so no publication of an ordinary programme      *)
(* takes it away.  It is not replaced in one step, though: the new one, or *)
(* its own new deadline, empties the file first.                           *)
(***************************************************************************)
CONSTANTS
  Program,     \* ordinary programmes
  Stored,      \* those and the emergencies
  Default,     \* what is played when there is none
  Unplayable,  \* what cannot be played
  NoEmergency  \* no emergency in store

VARIABLES
  current,   \* the programme the next start plays
  intact,    \* its file is neither empty nor torn
  emergency, \* the emergency the next start finds
  busy,      \* an operation is under way, ...
  writing,   \* ... the programme whose file it is writing, if any
  crowded    \* a start ran beside an operation

vars == <<current, intact, emergency>>

Emergencies == Stored \ Program

TypeOK ==
  /\ current \in Program \cup {Default, Unplayable}
  /\ intact \in BOOLEAN
  /\ emergency \in Emergencies \cup {NoEmergency}

Init == TypeOK /\ current # Unplayable

\* A publication has made its file, which is still empty.
Open ==
  /\ intact' = FALSE
  /\ UNCHANGED <<current, emergency>>

\* A new deadline for the current programme: its own file is emptied.
Rewrite ==
  /\ writing = current
  /\ intact' = FALSE
  /\ current' \in Program \cup {Default}
  /\ UNCHANGED emergency

Store(p) ==
  /\ writing = p
  /\ ~intact
  /\ current' = p
  /\ intact' = TRUE
  /\ UNCHANGED emergency

\* A publication takes the file that was left empty for the stored one.
Lose ==
  /\ ~intact
  /\ current' = Default
  /\ intact' \in BOOLEAN
  /\ UNCHANGED emergency

Trample ==
  /\ crowded
  /\ intact' = FALSE
  /\ current' \in Program \cup {Default}
  /\ UNCHANGED emergency

Tear ==
  /\ writing \in Stored
  /\ current' = Unplayable
  /\ intact' \in {intact, FALSE}
  /\ UNCHANGED emergency

\* Its file is emptied, for another emergency or for its own new deadline.
Overwrite ==
  /\ writing \in Emergencies
  /\ emergency' = NoEmergency
  /\ UNCHANGED <<current, intact>>

StoreEmergency(e) ==
  /\ writing = e
  /\ emergency = NoEmergency
  /\ emergency' = e
  /\ UNCHANGED <<current, intact>>

\* DEFAULT, or a start that finds it past its deadline
Withdraw ==
  /\ ~busy \/ crowded
  /\ emergency' = NoEmergency
  /\ UNCHANGED <<current, intact>>

Next ==
  /\ current # Unplayable
  /\ \/ Open
     \/ Rewrite
     \/ \E p \in Program : Store(p)
     \/ Lose
     \/ Trample
     \/ Tear
     \/ Overwrite
     \/ \E e \in Emergencies : StoreEmergency(e)
     \/ Withdraw

Spec == Init /\ [][Next]_vars

=============================================================================
