---------------------------- MODULE ProgramStore ----------------------------
(***************************************************************************)
(* The programmes on disk (WeChatPrinterDlg.cpp): template.json, the one   *)
(* it replaced in templateold.json, the emergency in temporary.json, and   *)
(* the materials they use under www/static and template.                   *)
(*                                                                         *)
(* ParseNewTemplateOfH5 and ExtendDeadline change the files in several     *)
(* calls, and the process may end between any two of them: by the watchdog,*)
(* a new version or a loss of power.  ChooseJson picks up what is left.  A *)
(* file being written is empty until its one WriteFile call is done, and   *)
(* torn if the power fails in that call.                                   *)
(*                                                                         *)
(* RobotProgamme starts the next process before it has gone itself, so for *)
(* a while two processes work on these files: the j variables belong to    *)
(* the one that runs, the n variables to the one that starts.  The one that*)
(* runs has been told to close and begins nothing new, but finishes what it*)
(* is in; the one that starts receives nothing before the other is gone.   *)
(*                                                                         *)
(* One publication is under way at a time.  Deadlines, which ExtendDeadline*)
(* changes, are not told apart: it writes the programme it read.  To read  *)
(* a file, or to delete or rename one, is one step.                        *)
(***************************************************************************)
EXTENDS Integers

CONSTANTS
  Program,       \* ordinary programmes
  Emergency,     \* programmes with releasemode TEMPORARY_JSON
  First,         \* the programmes a device may hold at first
  Default,       \* template/default.json
  Material,      \* the files that programmes show
  Uses,          \* Uses[p]: the materials FindContent lists for programme p
  Absent,        \* no such file
  Empty,         \* a file of length 0
  Torn,          \* a file that a loss of power cut in its write
  Unplayable,    \* no start gets past the file
  NoJson,        \* json "": nothing loaded
  Commands,      \* the platform commands that may arrive
  MaxCommands,   \* how many of them arrive
  MaxCuts        \* how often the process ends in the middle of one

Stored == Program \cup Emergency

ASSUME StoreAssumption ==
  /\ Program \cap Emergency = {}
  /\ First \subseteq Stored
  /\ Default \notin Stored
  /\ Uses \in [Stored \cup {Default} -> SUBSET Material]
  /\ {Absent, Empty, Torn, NoJson, Unplayable} \cap (Stored \cup {Default}) = {}
  /\ Absent \notin {Empty, Torn} /\ Empty # Torn
  /\ Unplayable # Default
  /\ Commands \subseteq {"PUBLISH", "DEFAULT", "EXCHANGETIME"}
  /\ MaxCommands \in Nat
  /\ MaxCuts \in Nat

VARIABLES
  template, templateold, temporary,   \* the files
  materials,                          \* the materials on disk, complete
  jTemplate, jOverdue, jTemproary,    \* what the process has loaded
  jrsp,                               \* the current programme
  pc,                                 \* the call the process is about to make
  new,                                \* the programme being published
  boot,                               \* the call the process that starts is
                                      \* about to make
  nTemplate, nOverdue, nTemproary,    \* what that one has loaded
  nrsp,
  received, cuts,                     \* bounded counters
  whole,                              \* history: programmes published with
                                      \* every material downloaded
  crowded,                            \* history: the start began beside an
                                      \* operation of the other process
  stale,                              \* history: the process that runs had
                                      \* such a start
  had                                 \* history: an ordinary programme was
                                      \* stored when the start began

files    == <<template, templateold, temporary>>
loaded   == <<jTemplate, jOverdue, jTemproary, jrsp>>
starting == <<boot, nTemplate, nOverdue, nTemproary, nrsp>>
history  == <<whole, crowded, stale, had>>

aside    == <<starting, received, cuts, history>>

vars == <<files, materials, loaded, pc, new, aside>>

PC == {"down", "idle", "download", "clean", "delete", "rename", "install",
       "create", "write"}

BootPC == {"off", "template", "template again", "templateold", "temporary",
           "temporary again", "clean", "ready"}

TypeOK ==
  /\ template \in Program \cup {Absent, Empty, Torn}
  /\ templateold \in Program \cup {Absent, Empty}
  /\ temporary \in Emergency \cup {Absent, Empty, Torn}
  /\ materials \subseteq Material
  /\ jTemplate \in Program \cup {NoJson}
  /\ jOverdue \in Program \cup {NoJson}
  /\ jTemproary \in Emergency \cup {NoJson}
  /\ jrsp \in Stored \cup {Default, NoJson}
  /\ pc \in PC
  /\ new \in Stored \cup {NoJson}
  /\ boot \in BootPC
  /\ nTemplate \in Program \cup {NoJson}
  /\ nOverdue \in Program \cup {NoJson}
  /\ nTemproary \in Emergency \cup {NoJson}
  /\ nrsp \in Stored \cup {Default, NoJson}
  /\ received \in 0..MaxCommands
  /\ cuts \in 0..MaxCuts
  /\ whole \subseteq Stored
  /\ crowded \in BOOLEAN
  /\ stale \in BOOLEAN
  /\ had \in BOOLEAN

\* A device with up to three stored programmes and all their materials
Init ==
  /\ template \in (Program \cap First) \cup {Absent}
  /\ templateold \in IF template = Absent THEN {Absent}
                    ELSE (Program \cap First) \cup {Absent}
  /\ temporary \in (Emergency \cap First) \cup {Absent}
  /\ whole = {template, templateold, temporary} \ {Absent}
  /\ materials = UNION {Uses[p] : p \in whole \cup {Default}}
  /\ jTemplate = NoJson
  /\ jOverdue = NoJson
  /\ jTemproary = NoJson
  /\ jrsp = NoJson
  /\ pc = "down"
  /\ new = NoJson
  /\ boot = "off"
  /\ nTemplate = NoJson
  /\ nOverdue = NoJson
  /\ nTemproary = NoJson
  /\ nrsp = NoJson
  /\ received = 0
  /\ cuts = 0
  /\ crowded = FALSE
  /\ stale = FALSE
  /\ had = FALSE

-----------------------------------------------------------------------------
\* Slip: an empty file is parsed.
LoadjsonFileUnchecked(file) == IF file = Absent THEN NoJson ELSE file

(* LoadjsonFile: "" for a file that is missing or empty *)
LoadjsonFile(file) == IF file \in {Absent, Empty} THEN NoJson ELSE file

\* The materials of several programmes, each once
FindContent(programmes) == UNION {Uses[p] : p \in programmes \ {NoJson}}

(***************************************************************************)
(* CheckOldResource: the materials of the first programme that none of the *)
(* others uses are deleted.                                                *)
(***************************************************************************)
CheckOldResource(first, others) ==
  materials' = materials \ (Uses[first] \ FindContent(others))

(***************************************************************************)
(* A process starts: alone, or created by RobotProgamme in one that runs.  *)
(***************************************************************************)
\* The ordinary programme a start would play now
Recovered ==
  CASE Torn \in {template, temporary} -> Unplayable
    [] Torn \notin {template, temporary} /\ template \in Program -> template
    [] Torn \notin {template, temporary} /\ template \notin Program ->
         IF templateold \in Program THEN templateold ELSE Default

\* The other process is about to truncate the file of a programme.
Rewriting == pc = "create" /\ new \in Program /\ template # Absent

Begin ==
  /\ boot = "off"
  /\ boot' = "template"
  /\ had' = (Recovered \in Program /\ template # Empty /\ ~Rewriting)
  /\ UNCHANGED <<files, materials, loaded, pc, new, nTemplate, nOverdue,
                 nTemproary, nrsp, received, cuts, stale>>

Boot ==
  /\ pc = "down"
  /\ Begin
  /\ crowded' = FALSE
  /\ UNCHANGED whole

\* In the middle of an operation, nothing is claimed any more for the
\* materials of what is stored.
RobotProgamme ==
  /\ pc # "down"
  /\ Begin
  /\ crowded' = (pc # "idle")
  /\ whole' = IF pc = "idle" THEN whole ELSE {}

\* CFile opens a file for itself alone.
HeldOpen(programmes) == pc = "write" /\ new \in programmes

\* LoadjsonFile: a file that cannot be opened is opened a second time, with
\* modeCreate, which empties it if it can be opened by then.
LoadTemplate ==
  /\ boot = "template"
  /\ template # Torn
  /\ IF HeldOpen(Program)
     THEN boot' = "template again" /\ UNCHANGED nTemplate
     ELSE boot' = "templateold" /\ nTemplate' = LoadjsonFile(template)
  /\ UNCHANGED <<files, materials, loaded, pc, new, nOverdue, nTemproary, nrsp,
                 received, cuts, history>>

LoadTemplateAgain ==
  /\ boot = "template again"
  /\ boot' = "templateold"
  /\ nTemplate' = NoJson
  /\ template' = IF HeldOpen(Program) THEN template ELSE Empty
  /\ UNCHANGED <<templateold, temporary, materials, loaded, pc, new, nOverdue,
                 nTemproary, nrsp, received, cuts, history>>

\* Slip: templateold.json is read only if template.json is missing.
LoadOldIfMissing ==
  /\ boot = "templateold"
  /\ boot' = "temporary"
  /\ nOverdue' = IF template = Absent THEN LoadjsonFile(templateold) ELSE NoJson
  /\ nrsp' = CASE nTemplate # NoJson -> nTemplate
               [] nTemplate = NoJson /\ nOverdue' # NoJson -> nOverdue'
               [] nTemplate = NoJson /\ nOverdue' = NoJson -> Default
  /\ UNCHANGED <<files, materials, loaded, pc, new, nTemplate, nTemproary,
                 received, cuts, history>>

LoadOld ==
  /\ boot = "templateold"
  /\ boot' = "temporary"
  /\ nOverdue' = LoadjsonFile(templateold)
  /\ nrsp' = CASE nTemplate # NoJson -> nTemplate
               [] nTemplate = NoJson /\ nOverdue' # NoJson -> nOverdue'
               [] nTemplate = NoJson /\ nOverdue' = NoJson -> Default
  /\ UNCHANGED <<files, materials, loaded, pc, new, nTemplate, nTemproary,
                 received, cuts, history>>

\* LoadTemporayJson deletes temporary.json when it is empty or past its
\* deadline, but the programme stays loaded.
LoadTemporary(expired) ==
  /\ boot = "temporary"
  /\ temporary # Torn
  /\ IF HeldOpen(Emergency)
     THEN /\ boot' = "temporary again"
          /\ UNCHANGED <<temporary, nTemproary, nrsp>>
     ELSE /\ boot' = "clean"
          /\ nTemproary' = LoadjsonFile(temporary)
          /\ temporary' = IF temporary = Empty \/ expired THEN Absent
                          ELSE temporary
          /\ nrsp' = IF temporary' = Absent THEN nrsp ELSE nTemproary'
  /\ UNCHANGED <<template, templateold, materials, loaded, pc, new, nTemplate,
                 nOverdue, received, cuts, history>>

\* Emptied, temporary.json is deleted, unless it is still open.
LoadTemporaryAgain ==
  /\ boot = "temporary again"
  /\ boot' = "clean"
  /\ nTemproary' = NoJson
  /\ temporary' = IF HeldOpen(Emergency) THEN temporary ELSE Absent
  /\ UNCHANGED <<template, templateold, materials, loaded, pc, new, nTemplate,
                 nOverdue, nrsp, received, cuts, history>>

DelateResource ==
  /\ boot = "clean"
  /\ boot' = "ready"
  /\ IF nTemproary # NoJson /\ temporary # Absent
     THEN CheckOldResource(nTemproary, {nTemplate, nOverdue, Default})
     ELSE UNCHANGED materials
  /\ UNCHANGED <<files, loaded, pc, new, nTemplate, nOverdue, nTemproary, nrsp,
                 received, cuts, history>>

StopStart ==
  /\ boot' = "off"
  /\ nTemplate' = NoJson
  /\ nOverdue' = NoJson
  /\ nTemproary' = NoJson
  /\ nrsp' = NoJson
  /\ crowded' = FALSE
  /\ had' = FALSE

\* The other process is gone.
TakeOver ==
  /\ pc = "down"
  /\ boot = "ready"
  /\ pc' = "idle"
  /\ jTemplate' = nTemplate
  /\ jOverdue' = nOverdue
  /\ jTemproary' = nTemproary
  /\ jrsp' = nrsp
  /\ StopStart
  /\ stale' = crowded
  /\ UNCHANGED <<files, materials, new, received, cuts, whole>>

\* json::parse throws in OnInitDialog.
StartFails ==
  /\ \/ boot = "template" /\ template = Torn
     \/ boot = "temporary" /\ temporary = Torn
  /\ StopStart
  /\ UNCHANGED <<files, materials, loaded, pc, new, received, cuts, whole, stale>>

-----------------------------------------------------------------------------
Cut ==
  IF pc \in {"down", "idle"} THEN UNCHANGED cuts
  ELSE cuts < MaxCuts /\ cuts' = cuts + 1

Unload ==
  /\ pc' = "down"
  /\ jTemplate' = NoJson
  /\ jOverdue' = NoJson
  /\ jTemproary' = NoJson
  /\ jrsp' = NoJson
  /\ new' = NoJson
  /\ stale' = FALSE

\* The process ends, idle or between two calls of an operation.
End ==
  /\ pc # "down"
  /\ Cut
  /\ Unload
  /\ UNCHANGED <<files, materials, starting, received, whole, crowded, had>>

WriteTo(v) ==
  IF new \in Emergency
  THEN temporary' = v /\ UNCHANGED <<template, templateold>>
  ELSE template' = v /\ UNCHANGED <<temporary, templateold>>

\* Everything ends.  A file that is being written may be cut short.
PowerLoss ==
  /\ pc # "down" \/ boot # "off"
  /\ Cut
  /\ Unload
  /\ StopStart
  /\ \/ UNCHANGED files
     \/ pc = "write" /\ WriteTo(Torn)
  /\ UNCHANGED <<materials, received, whole>>

\* The ChooseProgram thread and TIMER_LOADTEMPORARY change the current
\* programme among those loaded (module ProgramControl says when).  That of
\* a process that has been told to close matters no more.
ChangeCurrentJson(v) ==
  /\ pc = "idle"
  /\ boot = "off"
  /\ v \in {Default, jTemplate, jTemproary}
  /\ jrsp' = v
  /\ UNCHANGED <<files, materials, jTemplate, jOverdue, jTemproary, pc, new,
                 aside>>

-----------------------------------------------------------------------------
Receive(command) ==
  /\ pc = "idle"
  /\ boot = "off"
  /\ command \in Commands
  /\ received < MaxCommands
  /\ received' = received + 1
  /\ UNCHANGED <<starting, cuts, history>>

Goto(from, to) == pc = from /\ pc' = to

\* PUBLISH: GetTemplate answered programme p.
Publish(p) ==
  /\ Receive("PUBLISH")
  /\ new' = p
  /\ pc' = "download"
  /\ UNCHANGED <<files, materials, loaded>>

\* DownLoadFile, one material after the other
DownLoadFile(m) ==
  /\ pc = "download"
  /\ m \in Uses[new] \ materials
  /\ materials' = materials \cup {m}
  /\ UNCHANGED <<files, loaded, pc, new, aside>>

\* ParseNewTemplateOfH5 goes on whether or not a download failed.
DownloadsEnd ==
  /\ Goto("download", "clean")
  /\ whole' = IF boot = "off" /\ Uses[new] \subseteq materials
              THEN whole \cup {new} ELSE whole \ {new}
  /\ UNCHANGED <<files, materials, loaded, new, starting, received, cuts,
                 crowded, stale, had>>

CleanEmergency ==
  /\ Goto("clean", "install")
  /\ new \in Emergency
  /\ IF jTemproary # NoJson /\ temporary # Absent
     THEN CheckOldResource(jTemproary, {jTemplate, jOverdue, Default, new})
     ELSE UNCHANGED materials
  /\ UNCHANGED <<files, loaded, new, aside>>

\* Slip: the new programme's materials are not spared.
CleanSparingStored ==
  /\ Goto("clean", IF template # Absent THEN "delete" ELSE "install")
  /\ new \in Program
  /\ IF jOverdue # NoJson /\ templateold # Absent
     THEN CheckOldResource(jOverdue, {jTemplate, jTemproary, Default})
     ELSE UNCHANGED materials
  /\ UNCHANGED <<files, loaded, new, aside>>

CleanOrdinary ==
  /\ Goto("clean", IF template # Absent THEN "delete" ELSE "install")
  /\ new \in Program
  /\ IF jOverdue # NoJson /\ templateold # Absent
     THEN CheckOldResource(jOverdue, {jTemplate, jTemproary, Default, new})
     ELSE UNCHANGED materials
  /\ UNCHANGED <<files, loaded, new, aside>>

DeleteOld ==
  /\ Goto("delete", "rename")
  /\ templateold' = Absent
  /\ UNCHANGED <<template, temporary, materials, loaded, new, aside>>

\* Slip: template.json is deleted too.
DeleteBoth ==
  /\ Goto("rename", "install")
  /\ template' = Absent
  /\ UNCHANGED <<templateold, temporary, materials, loaded, new, aside>>

Rename ==
  /\ Goto("rename", "install")
  /\ templateold' = template
  /\ template' = Absent
  /\ UNCHANGED <<temporary, materials, loaded, new, aside>>

\* Slip: the replaced programme is not remembered.
InstallOver ==
  /\ Goto("install", "create")
  /\ IF new \in Emergency
     THEN jTemproary' = new /\ UNCHANGED jTemplate
     ELSE jTemplate' = new /\ UNCHANGED jTemproary
  /\ jrsp' = new
  /\ UNCHANGED <<files, materials, jOverdue, new, aside>>

Install ==
  /\ Goto("install", "create")
  /\ IF new \in Emergency
     THEN jTemproary' = new /\ UNCHANGED <<jTemplate, jOverdue>>
     ELSE jOverdue' = jTemplate /\ jTemplate' = new /\ UNCHANGED jTemproary
  /\ jrsp' = new
  /\ UNCHANGED <<files, materials, new, aside>>

\* CFile(.., modeCreate | modeWrite) makes the file, or empties it.
Create ==
  /\ Goto("create", "write")
  /\ WriteTo(Empty)
  /\ UNCHANGED <<materials, loaded, new, aside>>

Write ==
  /\ Goto("write", "idle")
  /\ WriteTo(new)
  /\ new' = NoJson
  /\ UNCHANGED <<materials, loaded, aside>>

\* EXCHANGETIME for the current programme, up to the file
ExtendDeadline ==
  /\ Receive("EXCHANGETIME")
  /\ jrsp \notin {NoJson, Default}
  /\ new' = jrsp
  /\ IF jrsp \in Emergency
     THEN jTemproary' = jrsp /\ UNCHANGED jTemplate
     ELSE jTemplate' = jrsp /\ UNCHANGED jTemproary
  /\ pc' = "create"
  /\ UNCHANGED <<files, materials, jOverdue, jrsp>>

\* DEFAULT deletes the emergency's file; it stays loaded.
CancelPublication ==
  /\ Receive("DEFAULT")
  /\ temporary' = Absent
  /\ jrsp' = Default
  /\ UNCHANGED <<template, templateold, materials, jTemplate, jOverdue,
                 jTemproary, pc, new>>

-----------------------------------------------------------------------------
Next ==
  \/ Boot
  \/ RobotProgamme
  \/ LoadTemplate
  \/ LoadTemplateAgain
  \/ LoadOld
  \/ \E expired \in BOOLEAN : LoadTemporary(expired)
  \/ LoadTemporaryAgain
  \/ DelateResource
  \/ TakeOver
  \/ StartFails
  \/ End
  \/ PowerLoss
  \/ \E v \in {Default, jTemplate, jTemproary} : ChangeCurrentJson(v)
  \/ \E p \in Stored : Publish(p)
  \/ \E m \in Material : DownLoadFile(m)
  \/ DownloadsEnd
  \/ CleanEmergency
  \/ CleanOrdinary
  \/ DeleteOld
  \/ Rename
  \/ Install
  \/ Create
  \/ Write
  \/ ExtendDeadline
  \/ CancelPublication

Spec == Init /\ [][Next]_vars

-----------------------------------------------------------------------------
(***************************************************************************)
(* The stored ordinary programme is replaced in one step by the one        *)
(* published, wherever the process ends and wherever the next one starts,  *)
(* and no operation on it takes the stored emergency away; what a start    *)
(* may trample, a cut write lose and a power loss ruin is bounded by       *)
(* module ProgramShelf.                                                    *)
(***************************************************************************)
Shelf == INSTANCE ProgramShelf
  WITH current     <- Recovered,
       intact      <- template \notin {Empty, Torn},
       emergency   <- IF temporary \in Emergency THEN temporary ELSE NoJson,
       busy        <- pc \notin {"down", "idle"},
       writing     <- IF pc \in {"create", "write"} THEN new ELSE NoJson,
       crowded     <- crowded \/ stale,
       NoEmergency <- NoJson

ShelfSpec == Shelf!Spec

(***************************************************************************)
(* Between two operations the ordinary programmes in memory are those on   *)
(* disk, so that a restart changes nothing, and no emergency is on disk    *)
(* but the one in memory, whatever came before: cut writes, extended       *)
(* deadlines, programmes that went missing, emergencies past their         *)
(* deadline, starts beside an idle process.                                *)
(***************************************************************************)
MemoryOnDisk ==
  pc = "idle" /\ boot = "off" /\ ~stale =>
    /\ jTemplate # NoJson => template = jTemplate
    /\ jOverdue # NoJson => templateold = jOverdue
    /\ temporary \in {Absent, jTemproary}

(***************************************************************************)
(* A start finds an ordinary programme when one was stored as it began,    *)
(* although the other process deletes, renames and writes the two files    *)
(* between the calls that read them.  Nothing is said of a start that      *)
(* begins when template.json is empty, or about to be emptied and written  *)
(* again with a new deadline, nor when a loss of power tore a file.        *)
(***************************************************************************)
StartFindsProgramme ==
  boot \in {"temporary", "temporary again", "clean", "ready"} /\ had =>
    nTemplate # NoJson \/ nOverdue # NoJson

(***************************************************************************)
(* The stored ordinary programme keeps its materials: neither its own      *)
(* publication nor later ones, emergencies, restarts and the cleaning at   *)
(* the start delete what it shows, not even after one operation was cut.   *)
(***************************************************************************)
MaterialsKept ==
  cuts <= 1 /\ template \in whole => Uses[template] \subseteq materials

(***************************************************************************)
(* What the comment on DelateResource in OnInitDialog says, "delete once   *)
(* in 30 days the materials that belong to nothing": the materials of a    *)
(* stored emergency belong to it.                                          *)
(***************************************************************************)
EmergencyMaterialsKept ==
  temporary \in whole => Uses[temporary] \subseteq materials

(***************************************************************************)
(* The programme being published, at each call.                            *)
(***************************************************************************)
NewInStep ==
  /\ pc \in {"down", "idle"} => new = NoJson
  /\ pc \in {"download", "clean", "install", "create", "write"} => new \in Stored
  /\ pc \in {"delete", "rename"} => new \in Program

(***************************************************************************)
(* Where the process that starts and the other one can be at a time, and   *)
(* that a torn file lets no process past it.                               *)
(***************************************************************************)
BootInStep ==
  /\ boot = "off" => ~crowded /\ ~had
  /\ boot # "off" /\ ~crowded => pc \in {"idle", "down"}
  /\ boot \in {"template again", "temporary again"} =>
       crowded /\ pc \in {"write", "idle", "down"}
  /\ template = Torn => pc = "down" /\ boot \in {"off", "template"}
  /\ temporary = Torn =>
       pc = "down" /\ boot \in {"off", "template", "templateold", "temporary"}
  /\ pc = "down" => ~stale

(***************************************************************************)
(* Where the files of a publication are at each of its calls.              *)
(***************************************************************************)
FilesInStep ==
  /\ pc \in {"delete", "rename"} => template # Absent
  /\ pc = "rename" => templateold = Absent
  /\ pc = "install" /\ new \in Program => template = Absent
  /\ pc = "create" /\ new \in Program =>
       template \in {Absent, Empty, new} \/ crowded \/ stale
  /\ pc = "write" => (IF new \in Program THEN template ELSE temporary) = Empty

(***************************************************************************)
(* How far memory and disk are apart in the middle of an operation.        *)
(***************************************************************************)
MemoryInStep ==
  boot = "off" /\ ~stale =>
    /\ pc \in {"idle", "download", "clean", "delete"} \/ new \in Emergency =>
         /\ jTemplate # NoJson => template = jTemplate
         /\ jOverdue # NoJson => templateold = jOverdue
    /\ pc = "rename" /\ jTemplate # NoJson => template = jTemplate
    /\ pc = "install" /\ new \in Program /\ jTemplate # NoJson =>
         templateold = jTemplate
    /\ pc \in {"create", "write"} /\ new \in Program =>
         /\ jTemplate = new
         /\ jOverdue # NoJson => templateold = jOverdue
    /\ pc # "down" =>
         IF jTemplate = NoJson THEN template \in {Absent, Empty}
                               ELSE jrsp \in Program => jrsp = jTemplate
    /\ IF pc \in {"create", "write"} /\ new \in Emergency
       THEN jTemproary = new
       ELSE pc # "down" => temporary \in {Absent, jTemproary}

(***************************************************************************)
(* What a start that nothing disturbs has loaded.                          *)
(***************************************************************************)
StartInStep ==
  /\ boot \notin {"off", "template"} /\ ~crowded =>
       IF nTemplate # NoJson THEN template = nTemplate
       ELSE template \in {Absent, Empty}
  /\ boot \in {"temporary", "clean", "ready"} /\ ~crowded =>
       /\ nOverdue # NoJson => templateold = nOverdue
       /\ nrsp \in Program /\ nTemplate # NoJson => nrsp = nTemplate
  /\ boot \in {"clean", "ready"} /\ ~crowded =>
       temporary \in {Absent, nTemproary}

(***************************************************************************)
(* Where the programme is that a start has not read yet.                   *)
(***************************************************************************)
FoundInStep ==
  had =>
    /\ boot \in {"template", "template again"} =>
         template \in Program \/ templateold \in Program
    /\ boot = "template" =>
         /\ pc \in {"download", "clean", "delete", "rename"} /\ new \in Program =>
              template \in Program \cup {Absent}
         /\ pc \in {"install", "create", "write"} /\ new \in Program =>
              templateold \in Program
    /\ boot = "template again" => templateold \in Program
    /\ boot = "templateold" /\ nTemplate = NoJson =>
         /\ templateold \in Program
         /\ pc \in {"download", "clean"} /\ new \in Program => template = Absent
         /\ pc \notin {"delete", "rename"}
    /\ boot \in {"temporary", "temporary again", "clean", "ready"} =>
         nTemplate # NoJson \/ nOverdue # NoJson

(***************************************************************************)
(* What a start makes current, and what it has not found.                  *)
(***************************************************************************)
ReadInStep ==
  boot \in {"temporary", "temporary again", "clean", "ready"} =>
    /\ nrsp \in Program =>
         nrsp = IF nTemplate # NoJson THEN nTemplate ELSE nOverdue
    /\ nOverdue = NoJson /\ ~crowded => templateold \notin Program

(***************************************************************************)
(* The current programme is the one in memory; nothing is claimed for the  *)
(* materials of a start that disturbed an operation.                       *)
(***************************************************************************)
CurrentInStep ==
  /\ crowded => whole = {}
  /\ pc \in {"create", "write"} =>
       jrsp = new /\ (new \in Program => jTemplate = new)
  /\ pc # "down" /\ boot = "off" /\ jTemplate # NoJson /\ jrsp \in Program =>
       jrsp = jTemplate

(***************************************************************************)
(* The programmes on disk that were whole are known in memory, or are the  *)
(* one being published: so the cleaning spares them.                       *)
(***************************************************************************)
\* No call that replaces the ordinary programme has been made.
Untouched == pc \in {"idle", "download", "clean"} \/ new \in Emergency

KnownInStep ==
  pc # "down" /\ boot = "off" /\ template \in whole
    /\ (pc \in {"delete", "rename"} \/ Untouched) =>
      \/ template = jTemplate
      \/ template = new /\ pc \in {"clean", "delete", "rename"}

(***************************************************************************)
(* The same for the programme in templateold.json, where it is the one a   *)
(* start would play, or no operation was cut.                              *)
(***************************************************************************)
OldKnownInStep ==
  pc # "down" /\ boot = "off" /\ templateold \in whole =>
    /\ Untouched /\ (cuts = 0 \/ (cuts = 1 /\ template \notin Program)) =>
         \/ templateold \in {jTemplate, jOverdue}
         \/ templateold = new /\ pc = "clean"
    /\ cuts = 0 /\ new \in Program =>
         /\ pc = "install" => templateold \in {jTemplate, new}
         /\ pc \in {"create", "write"} => templateold \in {jTemplate, jOverdue}

(***************************************************************************)
(* Before any cut the ordinary programme is missing only from an empty     *)
(* device, or when a start trampled it.                                    *)
(***************************************************************************)
MissingInStep ==
  cuts = 0 =>
    /\ template = Absent =>
         \/ templateold = Absent
         \/ pc \in {"install", "create", "write"} /\ new \in Program
    /\ template = Empty /\ templateold \in whole =>
         \/ pc \in {"create", "write"} /\ new \in Program
         \/ pc \in {"clean", "delete"} /\ templateold = new

(***************************************************************************)
(* Whose materials are on disk, up to the first cut.                       *)
(***************************************************************************)
Kept(p) == p \in whole => Uses[p] \subseteq materials

KeptInStep ==
  cuts <= 1 =>
    /\ Kept(template)
    /\ pc \in {"clean", "delete", "rename", "install", "create", "write"}
         /\ new \in Program => Kept(new)
    /\ pc # "down" /\ boot = "off" =>
         /\ jTemplate \in Program => Kept(jTemplate)
         /\ pc \in {"idle", "download", "clean"} /\ jrsp \in Program => Kept(jrsp)
    /\ cuts = 0 /\ ~(pc = "delete" /\ template \in Program) => Kept(templateold)
    /\ template \notin Program /\ (pc = "down" \/ Untouched) => Kept(templateold)

=============================================================================
