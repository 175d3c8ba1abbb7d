--------------------------- MODULE DesktopBackend ---------------------------
(***************************************************************************)
(* The desktop application's backend process, as its main process manages  *)
(* it (electron/backend-manager.ts, main.ts, ipc.ts) and as its window     *)
(* sees and restarts it (lib/store.ts, CreateProjectWizard.tsx,            *)
(* useBackend.ts, BackendDownOverlay.tsx, main.tsx).                       *)
(*                                                                         *)
(* The main process runs one callback at a time, with all the promise      *)
(* continuations it wakes: an action below is such a callback.  Children   *)
(* are the slots of spawned processes; a slot is free again once the exit  *)
(* event of its process has been handled.                                  *)
(***************************************************************************)
EXTENDS Naturals, Sequences, FiniteSets

CONSTANTS
  Projects,    \* projects that can exist
  Default,     \* the one migrateLegacySettings makes of an old profile
  Stored,      \* the sets of projects a launch may find stored
  NoProject,   \* the project of a backend started without one
  Same,        \* what restart() without arguments asks for
  Slots,       \* bound: processes at a time
  Slow,        \* whether a process may survive SIGTERM for 5 seconds
  DownAfter,   \* failed probes after which the overlay shows (3)
  MaxCrashes,  \* bound: processes that end of their own accord
  MaxOps,      \* bound: things the user does
  MaxMinutes   \* bound: times the crash window runs out

ASSUME ProjectsAssumption == /\ Default \in Projects
                             /\ Stored \subseteq SUBSET Projects
                             /\ NoProject \notin Projects
                             /\ Same \notin Projects
ASSUME BoundsAssumption == /\ Slow \in BOOLEAN
                           /\ MaxCrashes \in Nat /\ MaxOps \in Nat /\ MaxMinutes \in Nat
                           /\ Slots \in Nat \ {0} /\ DownAfter \in Nat \ {0}

Children == 1..Slots
NoChild == 0

VARIABLES
  app,         \* the main process: running, quitting or gone
  child,       \* state and project of each process
  \* BackendManager
  proc, stopping,
  cfg,         \* the project of the next process
  crashCount,  \* crashes counted, in a window of 60 seconds
  pending,     \* restarts whose backoff timer runs
  waiting,     \* per process, the calls of stop() that wait for its exit, in order
  polling,     \* calls of start() that poll /health
  \* the window: its store, its switching overlay and the project about to
  \* be switched to, and the consecutive failed probes of useBackend, up to DownAfter
  window, projects, active, switching, target, failures,
  \* history
  crashes, ops, minutes,    \* what is spent of the three bounds
  granted,     \* restarts the backoff granted since the window was opened
  odd          \* what has happened of: overlap (two restarts woken by one
               \* exit), handover (a project became active without a restart),
               \* timeout (a stop that took 5 s), quit (amid a restart)

manager == <<proc, stopping, cfg, waiting, polling>>
backoff == <<crashCount, pending, granted, minutes>>
ui == <<window, projects, active, switching, target, failures>>
spent == <<crashes, ops>>
vars == <<app, child, manager, backoff, ui, spent, odd>>

Free == [st |-> "free", project |-> NoProject]
Dead == [st |-> "dead", project |-> NoProject]   \* its exit event is to come
Live == {c \in Children : child[c].st \in {"booting", "serving", "ending"}}
Serving == {c \in Children : child[c].st \in {"serving", "ending"}}
Running == app # "gone"

TypeOK ==
  /\ app \in {"running", "quitting", "gone"}
  /\ child \in [Children -> [st : {"free", "booting", "serving", "ending", "dead"},
                             project : Projects \cup {NoProject}]]
  /\ proc \in Children \cup {NoChild}
  /\ stopping \in BOOLEAN
  /\ cfg \in Projects \cup {NoProject}
  /\ crashCount \in Nat /\ pending \in Nat /\ granted \in Nat
  /\ waiting \in [Children -> Seq([by : {"switch", "restart", "quit"},
                                  project : Projects \cup {Same}])]
  /\ polling \subseteq {"boot", "backoff", "switch", "restart"}
  /\ window \in BOOLEAN /\ switching \in BOOLEAN
  /\ projects \subseteq Projects
  /\ active \in Projects \cup {NoProject} /\ target \in Projects \cup {NoProject}
  /\ failures \in 0..DownAfter
  /\ crashes \in 0..MaxCrashes /\ ops \in 0..MaxOps /\ minutes \in 0..MaxMinutes
  /\ odd \subseteq {"overlap", "handover", "timeout", "quit"}

Init ==
  /\ app = "running"
  /\ child = [c \in Children |-> Free]
  /\ proc = NoChild /\ stopping = FALSE
  /\ crashCount = 0 /\ pending = 0 /\ granted = 0
  /\ waiting = [c \in Children |-> <<>>] /\ polling = {}
  /\ projects \in Stored
  /\ active \in IF projects = {} THEN {NoProject} ELSE projects
  /\ cfg = active
  /\ window = FALSE /\ switching = FALSE /\ target = NoProject /\ failures = 0
  /\ crashes = 0 /\ ops = 0 /\ minutes = 0 /\ odd = {}

(***************************************************************************)
(* start() for project p: returns when a process is tracked; else sweeps   *)
(* the port, killing what listens there, and spawns.  kids and tracked are *)
(* the processes and proc as the callback has left them so far.            *)
(***************************************************************************)
killStaleOnPort(kids) ==
  [c \in Children |-> IF kids[c].st \in {"serving", "ending"}
                        THEN Dead ELSE kids[c]]

Spawn(by, p, kids) ==
  \E c \in Children :
    /\ kids[c].st = "free" /\ \A k \in 1..c - 1 : kids[k].st # "free"
    /\ child' = [killStaleOnPort(kids) EXCEPT ![c] = [st |-> "booting", project |-> p]]
    /\ proc' = c
    /\ stopping' = FALSE
    /\ polling' = polling \cup {by}

(* Mutant: "if (this.proc) return" is missing.                             *)
startMutant(by, p, kids, tracked) == Spawn(by, p, kids)

start(by, p, kids, tracked) ==
  IF tracked = NoChild
    THEN Spawn(by, p, kids)
    ELSE child' = kids /\ proc' = tracked /\ UNCHANGED <<stopping, polling>>

(* this.cfg after restart(p).                                              *)
(* Mutant: a restart without arguments stores what it was given.           *)
MergedMutant(p) == p

(* Mutant: a restart keeps the configuration it finds.                     *)
MergedStaleMutant(p) == cfg

Merged(p) == IF p = Same THEN cfg ELSE p

(* app.whenReady: a manager of the stored project, and its start.          *)
WhenReady ==
  /\ app = "running" /\ ~window /\ polling = {} /\ proc = NoChild /\ crashCount = 0
  /\ start("boot", cfg, child, proc)
  /\ UNCHANGED <<app, cfg, waiting, backoff, ui, spent, odd>>

(***************************************************************************)
(* Processes.  A second one cannot bind the port of the first, and exits.  *)
(***************************************************************************)
Listen(c) ==
  /\ child[c].st = "booting"
  /\ child' = [child EXCEPT ![c] = IF Serving = {} THEN [@ EXCEPT !.st = "serving"] ELSE Dead]
  /\ UNCHANGED <<app, manager, backoff, ui, spent, odd>>

ObeySigterm(c) ==
  /\ child[c].st = "ending"
  /\ child' = [child EXCEPT ![c] = Dead]
  /\ UNCHANGED <<app, manager, backoff, ui, spent, odd>>

ProcessCrashes(c) ==
  /\ child[c].st \in {"booting", "serving"} /\ crashes < MaxCrashes
  /\ child' = [child EXCEPT ![c] = Dead]
  /\ crashes' = crashes + 1
  /\ UNCHANGED <<app, manager, backoff, ui, ops, odd>>

(***************************************************************************)
(* What the calls of stop() in woken do next: each sets proc to null, then *)
(* each restart, in order, merges its configuration and starts, which      *)
(* returns at once for all but the first.  A quit ends the application: of *)
(* the restarts only those before it go on.                                *)
(***************************************************************************)
Continue(woken, kids) ==
  LET quits == {i \in DOMAIN woken : woken[i].by = "quit"}
      restarts == {i \in DOMAIN woken : \A q \in quits : i < q}
      named == {i \in restarts : woken[i].project # Same}
  IN /\ IF restarts = {}
          THEN /\ child' = kids /\ proc' = NoChild
               /\ UNCHANGED <<stopping, polling, cfg>>
          ELSE /\ start(woken[1].by, Merged(woken[1].project), kids, NoChild)
               /\ \/ named = {} /\ cfg' = cfg
                  \/ \E i \in named : (\A j \in named : j <= i) /\ cfg' = woken[i].project
     /\ app' = IF quits = {} THEN app ELSE "gone"
     /\ switching' = (switching /\ \A i \in restarts : i = 1 \/ woken[i].by # "switch")

(* onExit, without the process it forgets.  A window of 60 seconds may be  *)
(* over, MaxMinutes times.                                                 *)
(* Mutant: the count starts again at every crash.                          *)
CountCrashMutant ==
  /\ crashCount' = 1
  /\ pending' = pending + 1
  /\ granted' = granted + 1
  /\ minutes' = minutes

(* Mutant: only the first crash is followed by a restart.                  *)
CountCrashOnceMutant ==
  /\ crashCount' = crashCount + 1
  /\ pending' = IF crashCount = 0 THEN pending + 1 ELSE pending
  /\ granted' = granted
  /\ minutes' = minutes

CountCrash ==
  \E over \in BOOLEAN :
    LET n == IF over THEN 1 ELSE crashCount + 1
    IN /\ over => minutes < MaxMinutes
       /\ minutes' = IF over THEN minutes + 1 ELSE minutes
       /\ crashCount' = n
       /\ IF n > 3
            THEN UNCHANGED <<pending, granted>>
            ELSE /\ pending' = pending + 1
                 /\ granted' = IF over THEN 1 ELSE granted + 1

ExitEvent(c) ==
  /\ Running /\ child[c].st = "dead"
  /\ IF stopping THEN UNCHANGED backoff ELSE CountCrash
  /\ Continue(waiting[c], [child EXCEPT ![c] = Free])
  /\ waiting' = [waiting EXCEPT ![c] = <<>>]
  /\ odd' = odd \cup IF Len(waiting[c]) > 1 THEN {"overlap"} ELSE {}
  /\ UNCHANGED <<window, projects, active, target, failures, spent>>

(* The 5 seconds of the first stop() of a process are over: SIGKILL.  (The *)
(* order of two such time-outs of two processes is left open.)             *)
StopTimesOut(c) ==
  /\ Slow /\ Running /\ waiting[c] # <<>>
  /\ child[c].st = "ending"
  /\ Continue(<<Head(waiting[c])>>, [child EXCEPT ![c] = Dead])
  /\ waiting' = [waiting EXCEPT ![c] = Tail(@)]
  /\ odd' = odd \cup {"timeout"}
  /\ UNCHANGED <<backoff, window, projects, active, target, failures, spent>>

(***************************************************************************)
(* stop(), and what follows it in restart() and in before-quit.            *)
(***************************************************************************)
AllStopped == \A c \in Children : waiting[c] = <<>>

Signalled(c) ==
  [child EXCEPT ![c].st = IF @ \in {"booting", "serving"} THEN "ending" ELSE @]

stop(by, p) ==
  IF proc # NoChild
    THEN /\ stopping' = TRUE
         /\ child' = Signalled(proc)
         /\ waiting' = [waiting EXCEPT ![proc] = Append(@, [by |-> by, project |-> p])]
         /\ app' = IF by = "quit" THEN "quitting" ELSE app
         /\ UNCHANGED <<proc, polling, cfg>>
    ELSE /\ IF by = "quit"
              THEN /\ app' = "gone" /\ stopping' = TRUE
                   /\ UNCHANGED <<child, proc, polling, cfg>>
              ELSE /\ start(by, Merged(p), child, NoChild)
                   /\ cfg' = Merged(p) /\ app' = app
         /\ waiting' = waiting

(* before-quit, the first time.                                            *)
Quit ==
  /\ app = "running" /\ ops < MaxOps
  /\ stop("quit", Same)
  /\ ops' = ops + 1
  /\ odd' = odd \cup IF AllStopped THEN {} ELSE {"quit"}
  /\ UNCHANGED <<backoff, ui, crashes>>

(***************************************************************************)
(* Timers of the main process, and the end of a start().                   *)
(***************************************************************************)
BackoffRestart ==
  /\ Running /\ pending > 0
  /\ pending' = pending - 1
  /\ start("backoff", cfg, child, proc)
  /\ UNCHANGED <<app, cfg, waiting, crashCount, granted, minutes, ui, spent, odd>>

(* Mutant: a switch whose start() throws leaves the overlay on.            *)
StartEndsMutant(by) ==
  /\ Running /\ by \in polling
  /\ polling' = polling \ {by}
  /\ switching' = (switching /\ (by # "switch" \/ Serving = {}))
  /\ window' = (window \/ by = "boot")
  /\ UNCHANGED <<projects, active, odd, app, child, proc, stopping, cfg, waiting,
                 backoff, target, failures, spent>>

(* A start() returns as /health answers, or throws after 10 seconds; after *)
(* the first one createWindow, and the bootstrap of the renderer.          *)
StartEnds(by) ==
  /\ Running /\ by \in polling
  /\ polling' = polling \ {by}
  /\ switching' = (switching /\ by # "switch")
  /\ IF by = "boot"
       THEN /\ window' = TRUE
            /\ IF projects = {}   \* migrateLegacySettings
                 THEN projects' = {Default} /\ active' = Default /\ odd' = odd \cup {"handover"}
                 ELSE UNCHANGED <<projects, active, odd>>
       ELSE UNCHANGED <<window, projects, active, odd>>
  /\ UNCHANGED <<app, child, proc, stopping, cfg, waiting, backoff, target, failures, spent>>

(***************************************************************************)
(* The window.  An overlay covers what is below it: the switching overlay  *)
(* the projects, the backend-down overlay both.  A project is switched to  *)
(* in two steps, around the await of settings.set.                         *)
(***************************************************************************)
BackendDown == failures >= DownAfter
CanClick == window /\ Running /\ ops < MaxOps
ProjectsShown == CanClick /\ ~BackendDown /\ ~switching

(* Mutant: an answer does not clear the count.                             *)
ProbeMutant ==
  /\ window /\ Running
  /\ failures' = IF Serving # {} \/ failures = DownAfter THEN failures ELSE failures + 1
  /\ UNCHANGED <<app, child, manager, backoff, window, projects, active, switching,
                 target, spent, odd>>

Probe ==
  /\ window /\ Running
  /\ failures' = IF Serving # {} THEN 0 ELSE IF failures = DownAfter THEN failures
                                                ELSE failures + 1
  /\ UNCHANGED <<app, child, manager, backoff, window, projects, active, switching,
                 target, spent, odd>>

RestartBackend ==
  /\ CanClick /\ BackendDown
  /\ stop("restart", Same)
  /\ ops' = ops + 1
  /\ UNCHANGED <<backoff, ui, crashes, odd>>

switchProject(p) ==
  /\ ProjectsShown /\ p \in projects /\ p # active
  /\ switching' = TRUE /\ target' = p
  /\ ops' = ops + 1
  /\ UNCHANGED <<app, child, manager, backoff, window, projects, active, failures,
                 crashes, odd>>

CreateProject(p) ==
  /\ ProjectsShown /\ p \notin projects
  /\ projects' = projects \cup {p}
  /\ switching' = TRUE /\ target' = p
  /\ ops' = ops + 1
  /\ UNCHANGED <<app, child, manager, backoff, window, active, failures, crashes, odd>>

SwitchBackend ==
  /\ window /\ Running /\ target # NoProject
  /\ active' = target /\ target' = NoProject
  /\ stop("switch", target)
  /\ UNCHANGED <<backoff, window, projects, switching, failures, spent, odd>>

deleteProject ==
  /\ ProjectsShown /\ active \in projects
  /\ projects' = projects \ {active}
  /\ active' \in IF projects' = {} THEN {NoProject} ELSE projects'
  /\ odd' = odd \cup {"handover"}
  /\ ops' = ops + 1
  /\ UNCHANGED <<app, child, manager, backoff, window, switching, target, failures, crashes>>

Next ==
  \/ WhenReady \/ Quit \/ BackoffRestart
  \/ \E c \in Children : \/ Listen(c) \/ ObeySigterm(c) \/ ProcessCrashes(c)
                          \/ ExitEvent(c) \/ StopTimesOut(c)
  \/ \E by \in polling : StartEnds(by)
  \/ Probe \/ RestartBackend \/ SwitchBackend \/ deleteProject
  \/ \E p \in Projects : switchProject(p) \/ CreateProject(p)

(***************************************************************************)
(* Timers fire, events are delivered, a process that boots comes to listen.*)
(* Nothing obliges one to obey SIGTERM when Slow.                          *)
(***************************************************************************)
Fairness ==
  /\ WF_vars(WhenReady) /\ WF_vars(BackoffRestart)
  /\ WF_vars(Probe) /\ WF_vars(SwitchBackend)
  /\ \A c \in Children :
       WF_vars(Listen(c)) /\ WF_vars(ExitEvent(c)) /\ WF_vars(StopTimesOut(c))
  /\ \A c \in Children : ~Slow => WF_vars(ObeySigterm(c))
  /\ \A by \in {"boot", "backoff", "switch", "restart"} : WF_vars(StartEnds(by))

Spec == Init /\ [][Next]_vars /\ Fairness

(***************************************************************************)
(* Properties                                                              *)
(***************************************************************************)
(* A live process is the one the manager tracks, and none outlives the     *)
(* application, as long as no stop took 5 seconds and no quit came amid a  *)
(* restart: what onExit, restart, the backoff timer and before-quit do to  *)
(* proc in any order.                                                      *)
NoStray ==
  /\ "timeout" \notin odd => Live \subseteq {proc}
  /\ app = "gone" /\ odd \cap {"timeout", "quit"} = {} => Live = {}

(* A process runs for the active project once no restart is under way,     *)
(* unless a project became active without a restart, or restarts           *)
(* overlapped: switchProject, CreateProjectWizard, restart and the crash   *)
(* restarts in between.                                                    *)
ServesActive ==
  AllStopped /\ odd = {} => \A c \in Live : child[c].project = active

(* The backoff grants at most three restarts in a window of 60 seconds.    *)
RestartsBounded == granted <= 3

(* The switching overlay goes away: stop() ends within its 5 seconds and   *)
(* start() within its 10.                                                  *)
SwitchEnds == []<>(~switching \/ ~Running)

(* The backend-down overlay shows in the end whether the backend serves.   *)
OverlayTracks ==
  /\ <>[](Running /\ window /\ Serving = {}) => <>[]BackendDown
  /\ <>[](Running /\ window /\ Serving # {}) => <>[]~BackendDown

(* A backend that crashed serves again in the end, unless its crashes have *)
(* used up the restarts or the application has gone.                       *)
Recovers == <>[](Serving # {} \/ crashCount > 3 \/ ~Running)

(* The manager's state holds together in every order of callbacks: its      *)
(* variables have their types, no process is left behind, and a crashing   *)
(* backend is not restarted without bound.                                 *)
BackendInv == TypeOK /\ NoStray /\ RestartsBounded

(* The window comes back by itself or says that it cannot: switches end,   *)
(* the overlay follows the backend, and crashes are recovered from.        *)
ComesBack == SwitchEnds /\ OverlayTracks /\ Recovers
=============================================================================
