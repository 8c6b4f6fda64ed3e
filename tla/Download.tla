------------------------------ MODULE Download ------------------------------
(***************************************************************************)
(* Downloading a programme's resources and starting again what was broken  *)
(* off: HTTP_Download2 (ToolsFunction.cpp), DownLoadFile, CheckIncompleted,*)
(* the PUBLISH command and TIMER_CHECKINCOMPELEDFILE (WeChatPrinterDlg.cpp)*)
(*                                                                         *)
(* A resource is read into <name without extension>.download, which is     *)
(* renamed once the read loop is over; resources whose names differ in the *)
(* extension only share that file.  A .download file found under       *)
(* www/static makes the UI thread publish again, with the same code as the *)
(* RMQ thread and no lock between them; at most MaxChecks times for each   *)
(* time somebody else armed the timer.  The server, the connection and the *)
(* end of the process are nondeterministic.                                *)
(***************************************************************************)
EXTENDS Integers

CONSTANTS
  Resource,       \* names of the files to download
  Marker,         \* the .download files
  MarkerOf,       \* MarkerOf[r]: the one that resource r is read into
  Watched,        \* the .download files under www/static
  Program,        \* the programmes the platform may hold
  Wanted,         \* Wanted[p]: the resources of programme p
  HasItemid,      \* programmes with an itemid in body.data: no programme list
  None,
  MaxPublish,     \* bound: PUBLISH commands received
  MaxStarts       \* bound: times the process starts

MaxChecks == 3    \* nCheckTimes++ < 3

ASSUME DownloadAssumption ==
  /\ None \notin Resource \cup {"rmq", "ui"} \cup [of : Resource, whole : BOOLEAN]
  /\ MarkerOf \in [Resource -> Marker]
  /\ Watched \subseteq Marker
  /\ Wanted \in [Program -> SUBSET Resource]
  /\ HasItemid \subseteq Program
  /\ MaxPublish \in Nat
  /\ MaxStarts \in Nat

Thread == {"rmq", "ui"}

VARIABLES
  up,             \* the process runs
  complete,       \* resources on disk under their name, complete
  broken,         \* on disk under their name, but not with all their bytes
  content,        \* the .download files: None, or whose bytes, and if all
  holder,         \* the thread that has the file open
  platform,       \* the programme the platform holds
  jrsp,           \* the current programme, stored
  pc, prog, todo, cur,
  timer,          \* TIMER_CHECKINCOMPELEDFILE is armed
  nCheckTimes,
  published, starts,
  interrupted,    \* history: downloads broken off and not taken up again
  retries,        \* history: retries since the timer was last armed from outside
  gaveUp,         \* history: retries ran out, or the platform did not answer
  seen            \* history: "overlap", both threads were publishing at a time;
                  \* "short", a connection ended early without an exception

disk    == <<complete, broken, content>>
thread  == <<pc, prog, todo, cur>>
history == <<interrupted, retries, gaveUp, seen>>

vars == <<up, disk, holder, platform, jrsp, thread, timer, nCheckTimes,
          published, starts, history>>

PC == {"idle", "ask", "download", "read", "rename", "report"}

TypeOK ==
  /\ up \in BOOLEAN
  /\ complete \subseteq Resource
  /\ broken \subseteq Resource
  /\ content \in [Marker -> {None} \cup [of : Resource, whole : BOOLEAN]]
  /\ holder \in [Marker -> {None} \cup Thread]
  /\ platform \in Program
  /\ jrsp \in Program
  /\ pc \in [Thread -> PC]
  /\ prog \in [Thread -> Program]
  /\ todo \in [Thread -> SUBSET Resource]
  /\ cur \in [Thread -> {None} \cup Resource]
  /\ timer \in BOOLEAN
  /\ nCheckTimes \in 0..MaxChecks
  /\ published \in 0..MaxPublish
  /\ starts \in 0..MaxStarts
  /\ interrupted \subseteq Resource
  /\ retries \in 0..MaxChecks + 1
  /\ gaveUp \in BOOLEAN
  /\ seen \subseteq {"overlap", "short"}

\* A device that has stored a programme with all its resources
Init ==
  /\ up = FALSE
  /\ jrsp \in Program
  /\ platform = jrsp
  /\ complete = Wanted[jrsp]
  /\ broken = {}
  /\ content = [m \in Marker |-> None]
  /\ holder = [m \in Marker |-> None]
  /\ pc = [w \in Thread |-> "idle"]
  /\ prog = [w \in Thread |-> jrsp]
  /\ todo = [w \in Thread |-> {}]
  /\ cur = [w \in Thread |-> None]
  /\ timer = FALSE
  /\ nCheckTimes = 0
  /\ published = 0
  /\ starts = 0
  /\ interrupted = {}
  /\ retries = 0
  /\ gaveUp = FALSE
  /\ seen = {}

-----------------------------------------------------------------------------
Other(w) == CHOOSE x \in Thread : x # w

Goto(w, from, to) == pc[w] = from /\ pc' = [pc EXCEPT ![w] = to]

OnDisk == complete \cup broken

\* Slip: nobody looks for what the last process left.
StartUnchecked ==
  /\ ~up
  /\ starts < MaxStarts
  /\ starts' = starts + 1
  /\ up' = TRUE
  /\ nCheckTimes' = 0
  /\ retries' = 0
  /\ gaveUp' = FALSE
  /\ UNCHANGED <<disk, holder, platform, jrsp, thread, timer, published,
                 interrupted, seen>>

\* OnInitDialog arms the timer, the globals start from zero.
Start ==
  /\ ~up
  /\ starts < MaxStarts
  /\ starts' = starts + 1
  /\ up' = TRUE
  /\ timer' = TRUE
  /\ nCheckTimes' = 0
  /\ retries' = 0
  /\ gaveUp' = FALSE
  /\ UNCHANGED <<disk, holder, platform, jrsp, thread, published, interrupted,
                 seen>>

\* What the end of the process leaves: the files.
Down ==
  /\ up' = FALSE
  /\ holder' = [m \in Marker |-> None]
  /\ pc' = [w \in Thread |-> "idle"]
  /\ todo' = [w \in Thread |-> {}]
  /\ cur' = [w \in Thread |-> None]
  /\ timer' = FALSE
  /\ interrupted' = interrupted \cup
       ({cur[w] : w \in {x \in Thread : pc[x] \in {"read", "rename"}}} \ OnDisk)
  /\ UNCHANGED <<disk, platform, jrsp, prog, nCheckTimes, published, starts,
                 retries, gaveUp, seen>>

\* The daily restart, the watchdog, a loss of power
End ==
  /\ up
  /\ Down

-----------------------------------------------------------------------------
(* PUBLISH, in the RMQ thread or again in the UI thread *)

Overlap(w) ==
  seen' = IF pc[Other(w)] = "idle" THEN seen ELSE seen \cup {"overlap"}

\* The platform has programme p, and its command reaches the RMQ thread.
Publish(p) ==
  /\ up
  /\ Goto("rmq", "idle", "ask")
  /\ published < MaxPublish
  /\ published' = published + 1
  /\ platform' = p
  /\ Overlap("rmq")
  /\ UNCHANGED <<up, disk, holder, jrsp, prog, todo, cur, timer, nCheckTimes,
                 starts, interrupted, retries, gaveUp>>

\* GetTemplate: whatever the platform holds now
GetTemplate(w) ==
  /\ Goto(w, "ask", "download")
  /\ prog' = [prog EXCEPT ![w] = platform]
  /\ todo' = [todo EXCEPT ![w] = Wanted[platform]]
  /\ UNCHANGED <<up, disk, holder, platform, jrsp, cur, timer, nCheckTimes,
                 published, starts, history>>

\* No answer: nothing is downloaded, and the timer is not armed.
GetTemplateFails(w) ==
  /\ Goto(w, "ask", "idle")
  /\ gaveUp' = TRUE
  /\ UNCHANGED <<up, disk, holder, platform, jrsp, prog, todo, cur, timer,
                 nCheckTimes, published, starts, interrupted, retries, seen>>

\* ParseNewTemplateOfH5 finds no pages.
ParseFails(w) ==
  /\ Goto(w, "ask", "report")
  /\ UNCHANGED <<up, disk, holder, platform, jrsp, prog, todo, cur, timer,
                 nCheckTimes, published, starts, history>>

\* DownLoadFile: a file that is there is not downloaded; nor is one that
\* the server refuses or cannot be reached for.
Skip(w, r) ==
  /\ pc[w] = "download"
  /\ r \in todo[w]
  /\ todo' = [todo EXCEPT ![w] = @ \ {r}]
  /\ UNCHANGED <<up, disk, holder, platform, jrsp, pc, prog, cur, timer,
                 nCheckTimes, published, starts, history>>

Take(w, r, next) ==
  /\ Goto(w, "download", next)
  /\ r \in todo[w] \ OnDisk
  /\ todo' = [todo EXCEPT ![w] = @ \ {r}]
  /\ cur' = [cur EXCEPT ![w] = r]

\* The server answers 200: the .download file is made, or emptied.
Open(w, r) ==
  /\ Take(w, r, "read")
  /\ holder[MarkerOf[r]] = None
  /\ holder' = [holder EXCEPT ![MarkerOf[r]] = w]
  /\ content' = [content EXCEPT ![MarkerOf[r]] = [of |-> r, whole |-> FALSE]]
  /\ UNCHANGED <<up, complete, broken, platform, jrsp, prog, timer, nCheckTimes,
                 published, starts, history>>

\* The other thread has it open: no read, but the rename follows.
OpenFails(w, r) ==
  /\ Take(w, r, "rename")
  /\ holder[MarkerOf[r]] # None
  /\ UNCHANGED <<up, disk, holder, platform, jrsp, prog, timer, nCheckTimes,
                 published, starts, history>>

Close(w, next) ==
  /\ Goto(w, "read", next)
  /\ holder' = [holder EXCEPT ![MarkerOf[cur[w]]] = None]
  /\ UNCHANGED <<up, complete, broken, platform, jrsp, prog, todo, timer,
                 nCheckTimes, published, starts, retries, gaveUp>>

ReadAll(w) ==
  /\ Close(w, "rename")
  /\ content' = [content EXCEPT ![MarkerOf[cur[w]]] = [of |-> cur[w], whole |-> TRUE]]
  /\ UNCHANGED <<cur, interrupted, seen>>

\* Read returns 0 before Content-Length bytes came: bRes is FALSE.
ReadShort(w) ==
  /\ Close(w, "rename")
  /\ seen' = seen \cup {"short"}
  /\ UNCHANGED <<cur, content, interrupted>>

\* Slip: the rename follows the exception too.
ReadFailsIntoRename(w) ==
  /\ Close(w, "rename")
  /\ UNCHANGED <<cur, content, interrupted, seen>>

\* An exception skips the rename.
ReadFails(w) ==
  /\ Close(w, "download")
  /\ cur' = [cur EXCEPT ![w] = None]
  /\ interrupted' = interrupted \cup {cur[w]}
  /\ UNCHANGED <<content, seen>>

\* rename fails when there is no such file, when it is open, and when the
\* new name is taken.
Rename(w) ==
  LET r == cur[w]  m == MarkerOf[r] IN
  /\ Goto(w, "rename", "download")
  /\ cur' = [cur EXCEPT ![w] = None]
  /\ IF content[m] # None /\ holder[m] = None /\ r \notin OnDisk
     THEN /\ content' = [content EXCEPT ![m] = None]
          /\ IF content[m] = [of |-> r, whole |-> TRUE]
             THEN complete' = complete \cup {r} /\ UNCHANGED broken
             ELSE broken' = broken \cup {r} /\ UNCHANGED complete
          /\ interrupted' = interrupted \ {r}
     ELSE UNCHANGED <<disk, interrupted>>
  /\ UNCHANGED <<up, holder, platform, jrsp, prog, todo, timer, nCheckTimes,
                 published, starts, retries, gaveUp, seen>>

\* The rest of ParseNewTemplateOfH5, whether the downloads went well or not
ParseEnds(w) ==
  /\ Goto(w, "download", "report")
  /\ todo[w] = {}
  /\ jrsp' = prog[w]
  /\ UNCHANGED <<up, disk, holder, platform, prog, todo, cur, timer, nCheckTimes,
                 published, starts, history>>

\* UpLoadProGrameStatus, then SetTimer(TIMER_CHECKINCOMPELEDFILE, 1000)
Report(w) ==
  /\ Goto(w, "report", "idle")
  /\ timer' = TRUE
  /\ IF w = "rmq" THEN retries' = 0 /\ gaveUp' = FALSE
     ELSE UNCHANGED <<retries, gaveUp>>
  /\ UNCHANGED <<up, disk, holder, platform, jrsp, prog, todo, cur, nCheckTimes,
                 published, starts, interrupted, seen>>

-----------------------------------------------------------------------------
(* OnTimer, TIMER_CHECKINCOMPELEDFILE *)
MarkerFound == \E m \in Watched : content[m] # None

OnTimer ==
  /\ up
  /\ timer
  /\ pc["ui"] = "idle"

\* nCheckTimes++ < 3 fails
ChecksExhausted ==
  /\ OnTimer
  /\ nCheckTimes = MaxChecks
  /\ timer' = FALSE
  /\ nCheckTimes' = 0
  /\ gaveUp' = TRUE
  /\ UNCHANGED <<up, disk, holder, platform, jrsp, thread, published, starts,
                 interrupted, retries, seen>>

\* Slip: the check goes on every second.
CheckGoesOn ==
  /\ OnTimer
  /\ nCheckTimes < MaxChecks
  /\ ~MarkerFound
  /\ nCheckTimes' = 0
  /\ UNCHANGED <<up, disk, holder, platform, jrsp, thread, timer, published,
                 starts, history>>

\* CheckIncompleted finds nothing.
CheckFindsNothing ==
  /\ OnTimer
  /\ nCheckTimes < MaxChecks
  /\ ~MarkerFound
  /\ timer' = FALSE
  /\ nCheckTimes' = 0
  /\ UNCHANGED <<up, disk, holder, platform, jrsp, thread, published, starts,
                 history>>

CheckAgain ==
  /\ MarkerFound
  /\ jrsp \in HasItemid
  /\ pc' = [pc EXCEPT !["ui"] = "ask"]
  /\ timer' = FALSE
  /\ retries' = IF retries > MaxChecks THEN retries ELSE retries + 1
  /\ Overlap("ui")
  /\ UNCHANGED <<up, disk, holder, platform, jrsp, prog, todo, cur, published,
                 starts, interrupted, gaveUp>>

\* Slip: <= for <
CheckOnceMore ==
  /\ OnTimer
  /\ nCheckTimes <= MaxChecks
  /\ nCheckTimes' = nCheckTimes + 1
  /\ CheckAgain

\* Slip: retries are not counted.
CheckUncounted ==
  /\ OnTimer
  /\ nCheckTimes < MaxChecks
  /\ UNCHANGED nCheckTimes
  /\ CheckAgain

\* CheckIncompleted publishes again, in the UI thread.
CheckPublishes ==
  /\ OnTimer
  /\ nCheckTimes < MaxChecks
  /\ nCheckTimes' = nCheckTimes + 1
  /\ CheckAgain

\* ["body"]["data"]["itemid"] of a programme list is null: get<std::string>
\* throws in a message handler, and the process is gone.
CheckThrows ==
  /\ OnTimer
  /\ nCheckTimes < MaxChecks
  /\ MarkerFound
  /\ jrsp \notin HasItemid
  /\ Down

-----------------------------------------------------------------------------
Work(w) ==
  \/ GetTemplate(w)
  \/ GetTemplateFails(w)
  \/ ParseFails(w)
  \/ \E r \in Resource : Skip(w, r) \/ Open(w, r) \/ OpenFails(w, r)
  \/ ReadAll(w)
  \/ ReadShort(w)
  \/ ReadFails(w)
  \/ Rename(w)
  \/ ParseEnds(w)
  \/ Report(w)

Check ==
  \/ ChecksExhausted
  \/ CheckFindsNothing
  \/ CheckPublishes
  \/ CheckThrows

Next ==
  \/ Start
  \/ End
  \/ \E p \in Program : Publish(p)
  \/ \E w \in Thread : Work(w)
  \/ Check

Spec == Init /\ [][Next]_vars

\* The threads run, and a WM_TIMER that is due is dispatched.
FairSpec ==
  /\ Spec
  /\ \A w \in Thread : WF_vars(Work(w))
  /\ WF_vars(Check)

-----------------------------------------------------------------------------
(***************************************************************************)
(* ReadMe.txt, V1546: until its download is over, a file is kept as        *)
(* *.download.  So a resource that is on disk under its own name is        *)
(* complete: the player shows it, and DownLoadFile never asks for it again.*)
(***************************************************************************)
FinalIsComplete == broken = {}

(***************************************************************************)
(* As long as no connection ended early unnoticed, and the two threads did *)
(* not publish at the same time, no exception and no end of the process    *)
(* puts an incomplete file under the name of a resource.                   *)
(***************************************************************************)
CompleteIfUndisturbed == seen = {} => FinalIsComplete

(***************************************************************************)
(* A download that broke off, by an exception or by the end of the process,*)
(* is not forgotten: when everything has come to rest, the retries ran out *)
(* or the platform did not answer.  It takes the .download file surviving, *)
(* the timer being armed after every publication and at the start, and     *)
(* nCheckTimes being reset in the right places.  There is one exception:   *)
(* another resource that shares the .download file is on disk, so that the *)
(* rename which put it there may have taken the file away.                 *)
(***************************************************************************)
AtRest == up /\ ~timer /\ \A w \in Thread : pc[w] = "idle"

TwinOnDisk(r) == \E q \in OnDisk \ {r} : MarkerOf[q] = MarkerOf[r]

RetriedUntilGivenUp ==
  AtRest /\ ~gaveUp =>
    \A r \in interrupted : MarkerOf[r] \in Watched => TwinOnDisk(r)

(***************************************************************************)
(* However the threads interleave, there are at most three retries for     *)
(* each time that a command or a start armed the timer: nCheckTimes++ < 3  *)
(* lets through one more than the two that the comment on nCheckTimes says.*)
(***************************************************************************)
RetriesBounded == retries <= MaxChecks

(***************************************************************************)
(* The retries come to an end: with no more commands the device is left in *)
(* peace, even if a download can never succeed.                            *)
(***************************************************************************)
RetriesEnd == <>[](up => AtRest)

(***************************************************************************)
(* ReadMe.txt, V1546: when a *.download file is found, the programme's     *)
(* downloads are started again.                                            *)
(***************************************************************************)
FoundIsRetried ==
  [][Check /\ MarkerFound /\ nCheckTimes < MaxChecks => CheckPublishes]_vars

-----------------------------------------------------------------------------
(***************************************************************************)
(* The inductive strengthenings.  Holding: the thread that has a .download *)
(* file open is reading into it.                                           *)
(***************************************************************************)
Holding ==
  /\ \A m \in Marker : holder[m] # None =>
       /\ content[m] # None
       /\ pc[holder[m]] = "read"
       /\ MarkerOf[cur[holder[m]]] = m
  /\ \A w \in Thread : pc[w] \in {"read", "rename"} => cur[w] \in Resource
  /\ \A w \in Thread : pc[w] = "read" => holder[MarkerOf[cur[w]]] = w

(***************************************************************************)
(* Of CompleteIfUndisturbed: what is renamed was read to its end.          *)
(***************************************************************************)
Undisturbed ==
  seen = {} =>
    /\ broken = {}
    /\ \E w \in Thread : pc[w] = "idle"
    /\ \A w \in Thread :
         pc[w] \in {"read", "rename"} =>
           content[MarkerOf[cur[w]]] = [of |-> cur[w], whole |-> pc[w] = "rename"]

(***************************************************************************)
(* Of RetriedUntilGivenUp: a broken off download has left its .download    *)
(* file, unless a twin took it, and so would one that ended now.           *)
(***************************************************************************)
MarkerLeft(r) == content[MarkerOf[r]] # None \/ TwinOnDisk(r)

MarkersLeft ==
  /\ \A r \in interrupted : MarkerLeft(r)
  /\ \A w \in Thread : pc[w] = "rename" => MarkerLeft(cur[w]) \/ cur[w] \in OnDisk

(***************************************************************************)
(* Of RetriesBounded: while retries can follow, none went uncounted.       *)
(***************************************************************************)
RetriesCounted ==
  /\ retries <= MaxChecks
  /\ timer \/ pc["ui"] # "idle" => retries <= nCheckTimes

=============================================================================
