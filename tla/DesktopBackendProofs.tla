------------------------- MODULE DesktopBackendProofs -------------------------
(* Proofs about DesktopBackend, for every set of projects, every number of     *)
(* processes and of failed probes, and any number of crashes and user steps.   *)
EXTENDS DesktopBackend, TLAPS

Calls == [by : {"switch", "restart", "quit"}, project : Projects \cup {Same}]

(* Without a time-out the manager tracks whatever is not free, and calls wait  *)
(* for the tracked process only.                                               *)
OneProcess ==
  "timeout" \notin odd => \A c \in Children : /\ child[c].st # "free" => c = proc
                                              /\ waiting[c] # <<>> => c = proc

(* A quit under way is the first to wait for the tracked process, so that      *)
(* nothing is started after it.                                                *)
QuitFirst ==
  odd \cap {"timeout", "quit"} = {} =>
    /\ app = "quitting" => /\ proc # NoChild /\ waiting[proc] # <<>>
                           /\ waiting[proc][1].by = "quit"
    /\ app = "gone" => Live = {}

(* Only a quit leaves a call of its kind.                                      *)
QuitAsked ==
  \A c \in Children : \A i \in DOMAIN waiting[c] :
    waiting[c][i].by = "quit" => app # "running" /\ waiting[c][i].project = Same

(* What the backoff granted is the crashes counted, up to three.               *)
BackoffInv == granted = IF crashCount <= 3 THEN crashCount ELSE 3

(* Processes run for cfg, and cfg is the active project, at once or once the   *)
(* restart under way has been merged.                                          *)
CfgInv ==
  odd = {} =>
    /\ \A c \in Live : child[c].project = cfg
    /\ AllStopped => cfg = active
    /\ \A c \in Children : Len(waiting[c]) = 1 =>
         active = IF waiting[c][1].project = Same THEN cfg ELSE waiting[c][1].project

ProcessInv == OneProcess /\ QuitFirst /\ QuitAsked /\ CfgInv

BackendIInv == TypeOK /\ ProcessInv /\ BackoffInv

Child == [st : {"free", "booting", "serving", "ending", "dead"},
          project : Projects \cup {NoProject}]
Starts == {"boot", "backoff", "switch", "restart"}

LEMMA BackendInit == Init => BackendIInv
<1> SUFFICES ASSUME Init PROVE BackendIInv
  OBVIOUS
<1> USE ProjectsAssumption, BoundsAssumption
<1>1. active \in Projects \cup {NoProject} /\ projects \subseteq Projects
  BY DEF Init
<1>2. TypeOK
  <2>1. waiting \in [Children -> Seq([by : {"switch", "restart", "quit"},
                                     project : Projects \cup {Same}])]
    BY DEF Init
  <2>2. child \in [Children -> [st : {"free", "booting", "serving", "ending", "dead"},
                                project : Projects \cup {NoProject}]]
    BY DEF Init, Free
  <2>3. stopping \in BOOLEAN /\ window \in BOOLEAN /\ switching \in BOOLEAN
    BY DEF Init
  <2>4. /\ crashCount \in Nat /\ pending \in Nat /\ granted \in Nat
        /\ crashes \in 0..MaxCrashes /\ ops \in 0..MaxOps /\ minutes \in 0..MaxMinutes
        /\ failures \in 0..DownAfter
    BY DEF Init
  <2> QED BY <1>1, <2>1, <2>2, <2>3, <2>4 DEF Init, TypeOK
<1>3. \A c \in Children : child[c].st = "free" /\ waiting[c] = <<>>
  BY DEF Init, Free
<1>4. OneProcess /\ QuitFirst /\ QuitAsked
  BY <1>3 DEF Init, OneProcess, QuitFirst, QuitAsked, Live
<1>5. BackoffInv /\ CfgInv
  BY <1>3 DEF Init, BackoffInv, CfgInv, Live
<1> QED BY <1>2, <1>4, <1>5 DEF BackendIInv, ProcessInv

(* What start() leaves: typed variables, and from free slots one process of p. *)
LEMMA StartTyped ==
  ASSUME TypeOK, NEW kids \in [Children -> Child], NEW tracked \in Children \cup {NoChild},
         NEW by \in Starts, NEW p \in Projects \cup {NoProject}, start(by, p, kids, tracked)
  PROVE  /\ child' \in [Children -> Child] /\ proc' \in Children \cup {NoChild}
         /\ stopping' \in BOOLEAN /\ polling' \subseteq Starts
<1>1. CASE tracked = NoChild
  <2>1. Spawn(by, p, kids)
    BY <1>1 DEF start
  <2>2. killStaleOnPort(kids) \in [Children -> Child]
    BY DEF killStaleOnPort, Dead, Child
  <2>3. PICK c \in Children :
          child' = [killStaleOnPort(kids) EXCEPT ![c] = [st |-> "booting", project |-> p]]
          /\ proc' = c /\ stopping' = FALSE /\ polling' = polling \cup {by}
    BY <2>1 DEF Spawn
  <2>4. [st |-> "booting", project |-> p] \in Child
    BY DEF Child
  <2>5. child' \in [Children -> Child]
    BY <2>2, <2>3, <2>4
  <2> QED BY <2>3, <2>5 DEF TypeOK, Starts
<1>2. CASE tracked # NoChild
  BY <1>2 DEF start, TypeOK, Starts
<1> QED BY <1>1, <1>2

LEMMA StartAlone ==
  ASSUME NEW kids \in [Children -> Child], \A c \in Children : kids[c].st = "free",
         NEW by, NEW p, start(by, p, kids, NoChild)
  PROVE  /\ proc' \in Children
         /\ \A c \in Children : child'[c].st # "free" => c = proc' /\ child'[c].project = p
<1>1. killStaleOnPort(kids) = kids
  BY DEF killStaleOnPort
<1> QED BY <1>1 DEF start, Spawn

(* What the calls of stop() do next.                                           *)
LEMMA ContinueTyped ==
  ASSUME TypeOK, NEW kids \in [Children -> Child], NEW woken \in Seq(Calls),
         Continue(woken, kids)
  PROVE  /\ child' \in [Children -> Child] /\ proc' \in Children \cup {NoChild}
         /\ stopping' \in BOOLEAN /\ polling' \subseteq Starts
         /\ cfg' \in Projects \cup {NoProject} /\ switching' \in BOOLEAN
         /\ app' \in {app, "gone"}
<1> DEFINE quits == {i \in DOMAIN woken : woken[i].by = "quit"}
           restarts == {i \in DOMAIN woken : \A q \in quits : i < q}
           named == {i \in restarts : woken[i].project # Same}
<1>1. \A i \in DOMAIN woken : woken[i] \in Calls
  OBVIOUS
<1>2. app' \in {app, "gone"} /\ switching' \in BOOLEAN
  BY DEF Continue, TypeOK
<1>3. CASE restarts = {}
  BY <1>2, <1>3 DEF Continue, TypeOK, Starts
<1>4. CASE restarts # {}
  <2>1. 1 \in DOMAIN woken /\ woken[1].by # "quit"
    BY <1>4
  <2>2. /\ woken[1].by \in Starts
        /\ Merged(woken[1].project) \in Projects \cup {NoProject}
    BY <2>1, <1>1 DEF Calls, Starts, Merged, TypeOK
  <2>3. start(woken[1].by, Merged(woken[1].project), kids, NoChild)
    BY <1>4 DEF Continue
  <2>4. cfg' \in Projects \cup {NoProject}
    <3>1. \/ cfg' = cfg
          \/ \E i \in named : cfg' = woken[i].project
      BY <1>4 DEF Continue
    <3> QED BY <3>1, <1>1 DEF Calls, TypeOK
  <2> QED BY <1>2, <2>2, <2>3, <2>4, StartTyped
<1> QED BY <1>3, <1>4

(* When all slots are free.                                                    *)
LEMMA ContinueAlone ==
  ASSUME TypeOK, NEW kids \in [Children -> Child], \A c \in Children : kids[c].st = "free",
         NEW woken \in Seq(Calls), Continue(woken, kids)
  PROVE  /\ \A c \in Children : child'[c].st # "free" => c = proc'
         /\ (\A i \in DOMAIN woken : woken[i].by # "quit") => app' = app
         /\ woken # <<>> /\ woken[1].by = "quit" => child' = kids /\ app' = "gone"
         /\ Len(woken) <= 1 => \A c \in Children : child'[c].st # "free" =>
                                                      child'[c].project = cfg'
         /\ woken = <<>> => cfg' = cfg
         /\ Len(woken) = 1 => cfg' = IF woken[1].by = "quit" THEN cfg
                                      ELSE Merged(woken[1].project)
<1> DEFINE quits == {i \in DOMAIN woken : woken[i].by = "quit"}
           restarts == {i \in DOMAIN woken : \A q \in quits : i < q}
           named == {i \in restarts : woken[i].project # Same}
<1>1. app' = IF quits = {} THEN app ELSE "gone"
  BY DEF Continue
<1>2. CASE restarts = {}
  <2>1. child' = kids /\ cfg' = cfg
    BY <1>2 DEF Continue
  <2>2. woken = <<>> \/ woken[1].by = "quit"
    <3>1. SUFFICES ASSUME woken # <<>>, woken[1].by # "quit" PROVE FALSE
      OBVIOUS
    <3>2. 1 \in DOMAIN woken /\ \A q \in quits : 1 < q
      BY <3>1
    <3> QED BY <3>2, <1>2
  <2> QED BY <1>1, <2>1, <2>2
<1>3. CASE restarts # {}
  <2>1. 1 \in DOMAIN woken /\ woken[1].by # "quit" /\ woken # <<>>
    BY <1>3
  <2>2. start(woken[1].by, Merged(woken[1].project), kids, NoChild)
    BY <1>3 DEF Continue
  <2>3. \A c \in Children : child'[c].st # "free" =>
                             c = proc' /\ child'[c].project = Merged(woken[1].project)
    BY <2>2, StartAlone
  <2>4. Len(woken) = 1 => cfg' = Merged(woken[1].project)
    <3>1. SUFFICES ASSUME Len(woken) = 1 PROVE cfg' = Merged(woken[1].project)
      OBVIOUS
    <3>2. quits = {} /\ restarts = {1}
      BY <2>1, <3>1
    <3>3. \/ named = {} /\ cfg' = cfg
          \/ \E i \in named : cfg' = woken[i].project
      BY <1>3 DEF Continue
    <3> QED BY <3>2, <3>3 DEF Merged
  <2>5. Len(woken) \in Nat /\ Len(woken) # 0
    BY <2>1
  <2>6. (\A i \in DOMAIN woken : woken[i].by # "quit") => app' = app
    BY <1>1
  <2>7. Len(woken) <= 1 => Len(woken) = 1
    <3>1. \A n \in Nat : n # 0 /\ n <= 1 => n = 1
      OBVIOUS
    <3> QED BY <2>5, <3>1
  <2>8. Len(woken) <= 1 => \A c \in Children : child'[c].st # "free" => child'[c].project = cfg'
    BY <2>3, <2>4, <2>7
  <2>9. Len(woken) = 1 => cfg' = IF woken[1].by = "quit" THEN cfg ELSE Merged(woken[1].project)
    BY <2>1, <2>4
  <2> HIDE DEF quits, restarts, named
  <2> QED BY <2>1, <2>3, <2>6, <2>8, <2>9
<1> QED BY <1>2, <1>3

(* Types                                                                       *)
LEMMA StopTyped ==
  ASSUME TypeOK, NEW by \in {"switch", "restart", "quit"}, NEW p \in Projects \cup {Same},
         stop(by, p)
  PROVE  /\ child' \in [Children -> Child] /\ proc' \in Children \cup {NoChild}
         /\ stopping' \in BOOLEAN /\ polling' \subseteq Starts
         /\ cfg' \in Projects \cup {NoProject} /\ app' \in {app, "quitting", "gone"}
         /\ waiting' \in [Children -> Seq(Calls)]
<1>1. child \in [Children -> Child] /\ waiting \in [Children -> Seq(Calls)]
  BY DEF TypeOK, Child, Calls
<1>2. [by |-> by, project |-> p] \in Calls
  BY DEF Calls
<1>3. CASE proc # NoChild
  <2>1. proc \in Children
    BY <1>3 DEF TypeOK
  <2>2. Signalled(proc) \in [Children -> Child]
    BY <1>1, <2>1 DEF Signalled, Child
  <2>3. [waiting EXCEPT ![proc] = Append(@, [by |-> by, project |-> p])]
          \in [Children -> Seq(Calls)]
    BY <1>1, <1>2, <2>1
  <2> QED BY <1>3, <2>2, <2>3 DEF stop, TypeOK, Starts
<1>4. CASE proc = NoChild /\ by = "quit"
  BY <1>1, <1>4 DEF stop, TypeOK, Starts
<1>5. CASE proc = NoChild /\ by # "quit"
  <2>1. by \in Starts /\ Merged(p) \in Projects \cup {NoProject}
    BY <1>5 DEF Starts, Merged, TypeOK
  <2>2. start(by, Merged(p), child, NoChild) /\ cfg' = Merged(p) /\ app' = app /\ waiting' = waiting
    BY <1>5 DEF stop
  <2> QED BY <1>1, <2>1, <2>2, StartTyped
<1> QED BY <1>3, <1>4, <1>5

LEMMA TypeStep == TypeOK /\ [Next]_vars => TypeOK'
<1> SUFFICES ASSUME TypeOK, [Next]_vars PROVE TypeOK'
  OBVIOUS
<1> USE ProjectsAssumption, BoundsAssumption
<1>a. child \in [Children -> Child] /\ waiting \in [Children -> Seq(Calls)]
  BY DEF TypeOK, Child, Calls
<1>1. CASE WhenReady
  <2>1. "boot" \in Starts /\ start("boot", cfg, child, proc)
    BY <1>1 DEF WhenReady, Starts
  <2>2. cfg \in Projects \cup {NoProject} /\ proc \in Children \cup {NoChild}
    BY DEF TypeOK
  <2>3. /\ child' \in [Children -> Child] /\ proc' \in Children \cup {NoChild}
        /\ stopping' \in BOOLEAN /\ polling' \subseteq Starts
    BY <1>a, <2>1, <2>2, StartTyped
  <2> QED BY <1>1, <2>3 DEF WhenReady, TypeOK, Child, Starts, backoff, ui, spent
<1>2. CASE Quit
  <2>1. stop("quit", Same)
    BY <1>2 DEF Quit
  <2>2. /\ child' \in [Children -> Child] /\ proc' \in Children \cup {NoChild}
        /\ stopping' \in BOOLEAN /\ polling' \subseteq Starts
        /\ cfg' \in Projects \cup {NoProject} /\ app' \in {app, "quitting", "gone"}
        /\ waiting' \in [Children -> Seq(Calls)]
    BY <2>1, StopTyped
  <2>3. ops' \in 0..MaxOps /\ crashes' \in 0..MaxCrashes
    BY <1>2 DEF Quit, TypeOK
  <2>4. odd' \subseteq {"overlap", "handover", "timeout", "quit"}
    BY <1>2 DEF Quit, TypeOK
  <2> QED BY <1>2, <2>2, <2>3, <2>4 DEF Quit, TypeOK, Child, Calls, Starts, backoff, ui
<1>3. CASE BackoffRestart
  <2>1. "backoff" \in Starts /\ start("backoff", cfg, child, proc)
    BY <1>3 DEF BackoffRestart, Starts
  <2>2. cfg \in Projects \cup {NoProject} /\ proc \in Children \cup {NoChild}
    BY DEF TypeOK
  <2>3. /\ child' \in [Children -> Child] /\ proc' \in Children \cup {NoChild}
        /\ stopping' \in BOOLEAN /\ polling' \subseteq Starts
    BY <1>a, <2>1, <2>2, StartTyped
  <2>4. pending' \in Nat
    BY <1>3 DEF BackoffRestart, TypeOK
  <2> QED BY <1>3, <2>3, <2>4 DEF BackoffRestart, TypeOK, Child, Starts, ui, spent
<1>4. ASSUME NEW c \in Children, Listen(c) PROVE TypeOK'
  <2>1. child' \in [Children -> Child]
    <3>1. [child[c] EXCEPT !.st = "serving"] \in Child /\ Dead \in Child
      BY <1>a DEF Child, Dead
    <3> QED BY <1>a, <1>4, <3>1 DEF Listen
  <2> QED BY <1>4, <2>1 DEF Listen, TypeOK, Child, manager, backoff, ui, spent
<1>5. ASSUME NEW c \in Children, ObeySigterm(c) PROVE TypeOK'
  <2>1. child' \in [Children -> Child]
    BY <1>a, <1>5 DEF ObeySigterm, Child, Dead
  <2> QED BY <1>5, <2>1 DEF ObeySigterm, TypeOK, Child, manager, backoff, ui, spent
<1>6. ASSUME NEW c \in Children, ProcessCrashes(c) PROVE TypeOK'
  <2>1. child' \in [Children -> Child] /\ crashes' \in 0..MaxCrashes
    BY <1>a, <1>6 DEF ProcessCrashes, Child, Dead, TypeOK
  <2> QED BY <1>6, <2>1 DEF ProcessCrashes, TypeOK, Child, manager, backoff, ui
<1>7. ASSUME NEW c \in Children, ExitEvent(c) PROVE TypeOK'
  <2>1. /\ crashCount' \in Nat /\ pending' \in Nat /\ granted' \in Nat
        /\ minutes' \in 0..MaxMinutes
    BY <1>7 DEF ExitEvent, CountCrash, TypeOK, backoff
  <2>2. /\ [child EXCEPT ![c] = Free] \in [Children -> Child]
        /\ waiting[c] \in Seq(Calls) /\ waiting' \in [Children -> Seq(Calls)]
    BY <1>a, <1>7 DEF ExitEvent, Child, Free
  <2>3. /\ child' \in [Children -> Child] /\ proc' \in Children \cup {NoChild}
        /\ stopping' \in BOOLEAN /\ polling' \subseteq Starts
        /\ cfg' \in Projects \cup {NoProject} /\ switching' \in BOOLEAN
        /\ app' \in {app, "gone"}
    BY <1>7, <2>2, ContinueTyped DEF ExitEvent
  <2>4. odd' \subseteq {"overlap", "handover", "timeout", "quit"}
    BY <1>7 DEF ExitEvent, TypeOK
  <2> QED BY <1>7, <2>1, <2>2, <2>3, <2>4 DEF ExitEvent, TypeOK, Child, Calls, Starts, spent
<1>8. ASSUME NEW c \in Children, StopTimesOut(c) PROVE TypeOK'
  <2>1. /\ [child EXCEPT ![c] = Dead] \in [Children -> Child]
        /\ <<Head(waiting[c])>> \in Seq(Calls) /\ waiting' \in [Children -> Seq(Calls)]
    <3>1. Head(waiting[c]) \in Calls /\ Tail(waiting[c]) \in Seq(Calls)
      BY <1>a, <1>8 DEF StopTimesOut
    <3> QED BY <1>a, <1>8, <3>1 DEF StopTimesOut, Child, Dead
  <2>2. /\ child' \in [Children -> Child] /\ proc' \in Children \cup {NoChild}
        /\ stopping' \in BOOLEAN /\ polling' \subseteq Starts
        /\ cfg' \in Projects \cup {NoProject} /\ switching' \in BOOLEAN
        /\ app' \in {app, "gone"}
    BY <1>8, <2>1, ContinueTyped DEF StopTimesOut
  <2>3. odd' \subseteq {"overlap", "handover", "timeout", "quit"}
    BY <1>8 DEF StopTimesOut, TypeOK
  <2> QED BY <1>8, <2>1, <2>2, <2>3 DEF StopTimesOut, TypeOK, Child, Calls, Starts, backoff, spent
<1>9. ASSUME NEW by \in polling, StartEnds(by) PROVE TypeOK'
  <2>1. /\ window' \in BOOLEAN /\ switching' \in BOOLEAN
        /\ projects' \subseteq Projects /\ active' \in Projects \cup {NoProject}
        /\ odd' \subseteq {"overlap", "handover", "timeout", "quit"}
        /\ polling' \subseteq {"boot", "backoff", "switch", "restart"}
    BY <1>9 DEF StartEnds, TypeOK
  <2> QED BY <1>9, <2>1 DEF StartEnds, TypeOK, backoff, spent
<1>10. CASE Probe
  <2>1. failures' \in 0..DownAfter
    BY <1>10 DEF Probe, TypeOK
  <2> QED BY <1>10, <2>1 DEF Probe, TypeOK, manager, backoff, spent
<1>11. CASE RestartBackend
  <2>1. stop("restart", Same)
    BY <1>11 DEF RestartBackend
  <2>2. /\ child' \in [Children -> Child] /\ proc' \in Children \cup {NoChild}
        /\ stopping' \in BOOLEAN /\ polling' \subseteq Starts
        /\ cfg' \in Projects \cup {NoProject} /\ app' \in {app, "quitting", "gone"}
        /\ waiting' \in [Children -> Seq(Calls)]
    BY <2>1, StopTyped
  <2>3. ops' \in 0..MaxOps
    BY <1>11 DEF RestartBackend, CanClick, TypeOK
  <2> QED BY <1>11, <2>2, <2>3 DEF RestartBackend, TypeOK, Child, Calls, Starts, backoff, ui
<1>12. CASE SwitchBackend
  <2>1. stop("switch", target) /\ target \in Projects \cup {Same}
    BY <1>12 DEF SwitchBackend, TypeOK
  <2>2. /\ child' \in [Children -> Child] /\ proc' \in Children \cup {NoChild}
        /\ stopping' \in BOOLEAN /\ polling' \subseteq Starts
        /\ cfg' \in Projects \cup {NoProject} /\ app' \in {app, "quitting", "gone"}
        /\ waiting' \in [Children -> Seq(Calls)]
    BY <2>1, StopTyped
  <2> QED BY <1>12, <2>2 DEF SwitchBackend, TypeOK, Child, Calls, Starts, backoff, spent
<1>13. CASE deleteProject
  <2>1. /\ projects' \subseteq Projects /\ active' \in Projects \cup {NoProject}
        /\ odd' \subseteq {"overlap", "handover", "timeout", "quit"}
    BY <1>13 DEF deleteProject, TypeOK
  <2>2. ops' \in 0..MaxOps
    BY <1>13 DEF deleteProject, ProjectsShown, CanClick, TypeOK
  <2> QED BY <1>13, <2>1, <2>2 DEF deleteProject, TypeOK, manager, backoff
<1>14. ASSUME NEW p \in Projects, switchProject(p) PROVE TypeOK'
  <2>1. ops' \in 0..MaxOps
    BY <1>14 DEF switchProject, ProjectsShown, CanClick, TypeOK
  <2>2. /\ switching' \in BOOLEAN /\ target' \in Projects \cup {NoProject}
        /\ projects' \subseteq Projects
    BY <1>14 DEF switchProject, TypeOK
  <2> QED BY <1>14, <2>1, <2>2 DEF switchProject, TypeOK, manager, backoff
<1>15. ASSUME NEW p \in Projects, CreateProject(p) PROVE TypeOK'
  <2>1. ops' \in 0..MaxOps
    BY <1>15 DEF CreateProject, ProjectsShown, CanClick, TypeOK
  <2>2. /\ switching' \in BOOLEAN /\ target' \in Projects \cup {NoProject}
        /\ projects' \subseteq Projects
    BY <1>15 DEF CreateProject, TypeOK
  <2> QED BY <1>15, <2>1, <2>2 DEF CreateProject, TypeOK, manager, backoff
<1>16. CASE UNCHANGED vars
  BY <1>16 DEF TypeOK, vars, manager, backoff, ui, spent
<1> QED BY <1>1, <1>2, <1>3, <1>4, <1>5, <1>6, <1>7, <1>8, <1>9, <1>10, <1>11, <1>12,
           <1>13, <1>14, <1>15, <1>16 DEF Next

(* Only CountCrash changes what the backoff counts.                            *)
LEMMA BackoffStep == TypeOK /\ BackoffInv /\ [Next]_vars => BackoffInv'
<1> SUFFICES ASSUME TypeOK, BackoffInv, [Next]_vars PROVE BackoffInv'
  OBVIOUS
<1>1. crashCount \in Nat
  BY DEF TypeOK
<1>2. ASSUME NEW c \in Children, ExitEvent(c) PROVE BackoffInv'
  <2>1. CASE UNCHANGED backoff
    BY <2>1 DEF BackoffInv, backoff
  <2>2. CASE CountCrash
    <3>1. PICK over \in BOOLEAN :
            LET n == IF over THEN 1 ELSE crashCount + 1
            IN /\ crashCount' = n
               /\ IF n > 3 THEN UNCHANGED <<pending, granted>>
                           ELSE granted' = IF over THEN 1 ELSE granted + 1
      BY <2>2 DEF CountCrash
    <3>2. CASE over
      BY <3>1, <3>2 DEF BackoffInv
    <3>3. CASE ~over
      <4>1. CASE crashCount + 1 > 3
        <5>1. crashCount' = crashCount + 1 /\ granted' = granted /\ granted = 3
          BY <1>1, <3>1, <3>3, <4>1 DEF BackoffInv
        <5> QED BY <1>1, <4>1, <5>1 DEF BackoffInv
      <4>2. CASE ~(crashCount + 1 > 3)
        <5>1. crashCount' = crashCount + 1 /\ granted' = crashCount + 1
          BY <1>1, <3>1, <3>3, <4>2 DEF BackoffInv
        <5> QED BY <1>1, <4>2, <5>1 DEF BackoffInv
      <4> QED BY <4>1, <4>2
    <3> QED BY <3>2, <3>3
  <2> QED BY <1>2, <2>1, <2>2 DEF ExitEvent
<1>3. CASE UNCHANGED <<crashCount, granted>>
  BY <1>3 DEF BackoffInv
<1> QED BY <1>2, <1>3
  DEF Next, WhenReady, Quit, BackoffRestart, Listen, ObeySigterm, ProcessCrashes, StopTimesOut,
      StartEnds, Probe, RestartBackend, SwitchBackend, deleteProject, switchProject,
      CreateProject, vars, backoff

(* Steps that leave the processes and the manager alone.                       *)
LEMMA WindowSteps ==
  ASSUME TypeOK, ProcessInv, UNCHANGED <<app, child, proc, cfg, waiting>>,
         odd \subseteq odd', odd' = {} => active' = active
  PROVE  ProcessInv'
<1> USE DEF ProcessInv
<1>1. OneProcess' /\ QuitFirst' /\ QuitAsked'
  BY DEF OneProcess, QuitFirst, QuitAsked, Live
<1>2. CfgInv'
  <2>1. SUFFICES ASSUME odd' = {} PROVE CfgInv'
    BY DEF CfgInv
  <2>2. odd = {} /\ active' = active
    BY <2>1
  <2> QED BY <2>2 DEF CfgInv, Live, AllStopped
<1> QED BY <1>1, <1>2

(* Steps of a process.                                                         *)
LEMMA ProcessSteps ==
  ASSUME TypeOK, ProcessInv, UNCHANGED <<app, proc, cfg, waiting, active, odd>>,
         \A c \in Children : /\ child'[c].st # "free" => child[c].st # "free"
                             /\ c \in Live' => c \in Live /\ child'[c].project = child[c].project
  PROVE  ProcessInv'
<1> USE DEF ProcessInv
<1>1. Live' \subseteq Live
  BY DEF Live
<1>2. OneProcess' /\ QuitAsked'
  BY DEF OneProcess, QuitAsked
<1>3. QuitFirst'
  BY <1>1 DEF QuitFirst
<1>4. CfgInv'
  <2>1. SUFFICES ASSUME odd' = {} PROVE CfgInv'
    BY DEF CfgInv
  <2>2. odd = {}
    BY <2>1
  <2>3. ASSUME NEW c \in Live' PROVE child'[c].project = cfg'
    <3>1. c \in Children
      BY DEF Live
    <3>2. c \in Live /\ child'[c].project = child[c].project
      BY <3>1
    <3> QED BY <2>2, <3>2 DEF CfgInv
  <2> QED BY <2>2, <2>3 DEF CfgInv, AllStopped
<1> QED BY <1>2, <1>3, <1>4

(* start() for cfg, by a timer or as the application comes up.                 *)
LEMMA StartSteps ==
  ASSUME TypeOK, ProcessInv, app # "gone", UNCHANGED <<app, cfg, waiting, active, odd>>,
         NEW by, start(by, cfg, child, proc)
  PROVE  ProcessInv'
<1> USE DEF ProcessInv
<1>1. QuitAsked'
  BY DEF QuitAsked
<1>2. CASE proc # NoChild
  <2>1. child' = child /\ proc' = proc
    BY <1>2 DEF start
  <2> QED BY <1>1, <2>1 DEF OneProcess, QuitFirst, CfgInv, Live, AllStopped
<1>3. CASE proc = NoChild /\ "timeout" \notin odd
  <2>1. \A c \in Children : child[c].st = "free" /\ waiting[c] = <<>>
    BY <1>3 DEF OneProcess, Children, NoChild
  <2>2. child \in [Children -> Child]
    BY DEF TypeOK, Child
  <2>3. /\ proc' \in Children
        /\ \A c \in Children : child'[c].st # "free" => c = proc' /\ child'[c].project = cfg
    BY <1>3, <2>1, <2>2, StartAlone
  <2>4. OneProcess'
    BY <2>1, <2>3 DEF OneProcess
  <2>5. QuitFirst'
    BY <1>3 DEF QuitFirst
  <2>6. CfgInv'
    BY <2>1, <2>3 DEF CfgInv, Live, AllStopped
  <2> QED BY <1>1, <2>4, <2>5, <2>6
<1>4. CASE "timeout" \in odd
  <2>1. "timeout" \in odd'
    BY <1>4
  <2>2. odd' # {} /\ odd' \cap {"timeout", "quit"} # {}
    BY <2>1
  <2> QED BY <1>1, <2>1, <2>2 DEF OneProcess, QuitFirst, CfgInv
<1> QED BY <1>2, <1>3, <1>4

LEMMA AppendFacts ==
  ASSUME NEW S, NEW s \in Seq(S), NEW e \in S
  PROVE  /\ Append(s, e) # <<>>
         /\ s = <<>> => Append(s, e)[1] = e
         /\ s # <<>> => Append(s, e)[1] = s[1]
         /\ Len(Append(s, e)) = 1 => s = <<>>
<1>1. Len(s) \in Nat /\ Len(Append(s, e)) = Len(s) + 1
  OBVIOUS
<1>2. Len(Append(s, e)) = 1 => Len(s) = 0
  BY <1>1
<1>3. s # <<>> => Append(s, e)[1] = s[1]
  OBVIOUS
<1>4. s = <<>> => Append(s, e)[1] = e
  OBVIOUS
<1>5. Len(s) = 0 => s = <<>>
  OBVIOUS
<1>6. Append(s, e) # <<>>
  <2>1. Len(Append(s, e)) # 0
    BY <1>1
  <2>2. Len(<<>>) = 0
    OBVIOUS
  <2> QED BY <2>1, <2>2
<1> QED BY <1>2, <1>3, <1>4, <1>5, <1>6

(* stop(), for a quit, a restart or a switch.                                  *)
LEMMA StopSteps ==
  ASSUME TypeOK, ProcessInv, app # "gone",
         NEW by \in {"switch", "restart", "quit"}, NEW p \in Projects \cup {Same}, stop(by, p),
         active' = IF p = Same THEN active ELSE p,
         odd' \in {odd, odd \cup {"quit"}},
         by = "quit" => app = "running" /\ p = Same /\ (AllStopped \/ "quit" \in odd')
  PROVE  ProcessInv'
<1> USE DEF ProcessInv
<1> DEFINE call == [by |-> by, project |-> p]
<1>a. child \in [Children -> Child] /\ waiting \in [Children -> Seq(Calls)]
  BY DEF TypeOK, Child, Calls
<1>b. proc = NoChild /\ "timeout" \notin odd =>
        \A c \in Children : child[c].st = "free" /\ waiting[c] = <<>>
  BY DEF OneProcess, Children, NoChild
<1>c. call \in Calls
  BY DEF Calls
<1>d. proc # NoChild =>
        /\ proc \in Children /\ Append(waiting[proc], call) \in Seq(Calls)
        /\ waiting' = [waiting EXCEPT ![proc] = Append(@, call)]
        /\ waiting'[proc] = Append(waiting[proc], call)
        /\ \A c \in Children \ {proc} : waiting'[c] = waiting[c]
        /\ child' = Signalled(proc) /\ proc' = proc /\ cfg' = cfg
        /\ app' = IF by = "quit" THEN "quitting" ELSE app
  BY <1>a, <1>c DEF stop, TypeOK
<1>e. proc # NoChild =>
        \A c \in Children : /\ child'[c].st = "free" <=> child[c].st = "free"
                            /\ c \in Live' <=> c \in Live
                            /\ child'[c].project = child[c].project
  <2>1. SUFFICES ASSUME proc # NoChild, NEW c \in Children
                 PROVE  /\ child'[c].st = "free" <=> child[c].st = "free"
                        /\ c \in Live' <=> c \in Live
                        /\ child'[c].project = child[c].project
    OBVIOUS
  <2>2. child[c] \in Child /\ child' = Signalled(proc)
    BY <1>a, <1>d, <2>1
  <2>3. /\ child'[c].project = child[c].project
        /\ child'[c].st = IF c = proc /\ child[c].st \in {"booting", "serving"} THEN "ending"
                         ELSE child[c].st
    BY <1>a, <2>2 DEF Signalled, Child
  <2> QED BY <2>3 DEF Live
<1>1. QuitAsked'
  <2>1. CASE proc # NoChild
    <3>1. SUFFICES ASSUME NEW c \in Children, NEW i \in DOMAIN waiting'[c],
                          waiting'[c][i].by = "quit"
                   PROVE  app' # "running" /\ waiting'[c][i].project = Same
      BY DEF QuitAsked
    <3>2. CASE c # proc
      BY <2>1, <3>1, <3>2, <1>d DEF QuitAsked
    <3>3. CASE c = proc
      <4>1. waiting[c] \in Seq(Calls) /\ waiting'[c] = Append(waiting[c], call)
        BY <1>a, <1>d, <2>1, <3>3
      <4>2. CASE i \in DOMAIN waiting[c]
        <5>1. waiting'[c][i] = waiting[c][i]
          BY <4>1, <4>2
        <5> QED BY <1>d, <2>1, <3>1, <4>2, <5>1 DEF QuitAsked
      <4>3. CASE i \notin DOMAIN waiting[c]
        <5>1. waiting'[c][i] = call
          BY <4>1, <4>3
        <5> QED BY <1>d, <2>1, <3>1, <5>1
      <4> QED BY <4>2, <4>3
    <3> QED BY <3>2, <3>3
  <2>2. CASE proc = NoChild
    <3>1. waiting' = waiting /\ app' \in {app, "gone"}
      BY <2>2 DEF stop
    <3> QED BY <3>1 DEF QuitAsked
  <2> QED BY <2>1, <2>2
<1>2. CASE "timeout" \in odd
  <2>1. "timeout" \in odd'
    BY <1>2
  <2>2. odd' # {} /\ odd' \cap {"timeout", "quit"} # {}
    BY <2>1
  <2> QED BY <1>1, <2>1, <2>2 DEF OneProcess, QuitFirst, CfgInv
<1>3. CASE "timeout" \notin odd /\ proc # NoChild
  <2>1. OneProcess'
    BY <1>3, <1>d, <1>e DEF OneProcess
  <2>2. QuitFirst'
    <3>1. SUFFICES ASSUME odd' \cap {"timeout", "quit"} = {}
                   PROVE  /\ app' = "quitting" =>
                               waiting'[proc] # <<>> /\ waiting'[proc][1].by = "quit"
                          /\ app' # "gone"
      BY <1>3, <1>d DEF QuitFirst
    <3>2. odd \cap {"timeout", "quit"} = {} /\ "quit" \notin odd'
      BY <3>1
    <3>3. app' # "gone"
      BY <1>3, <1>d
    <3>4. waiting'[proc] # <<>>
      BY <1>a, <1>c, <1>d, <1>3
    <3>5. CASE by = "quit"
      <4>1. waiting[proc] = <<>>
        BY <3>2, <3>5, <1>3, <1>d DEF AllStopped
      <4> QED BY <4>1, <3>3, <3>4, <3>5, <1>3, <1>d
    <3>6. CASE by # "quit" /\ app = "quitting"
      <4>1. waiting[proc] # <<>> /\ waiting[proc][1].by = "quit"
        BY <3>2, <3>6 DEF QuitFirst
      <4>2. waiting'[proc][1] = waiting[proc][1]
        BY <4>1, <1>a, <1>c, <1>d, <1>3, AppendFacts
      <4> QED BY <3>3, <3>4, <4>1, <4>2
    <3>7. CASE by # "quit" /\ app # "quitting"
      BY <3>3, <3>7, <1>3, <1>d
    <3> QED BY <3>5, <3>6, <3>7
  <2>3. CfgInv'
    <3>1. SUFFICES ASSUME odd' = {} PROVE CfgInv'
      BY DEF CfgInv
    <3>2. odd = {}
      BY <3>1
    <3>3. \A c \in Live' : child'[c].project = cfg'
      BY <3>2, <1>3, <1>d, <1>e DEF CfgInv, Live
    <3>4. ~AllStopped'
      BY <1>a, <1>c, <1>d, <1>3 DEF AllStopped
    <3>5. ASSUME NEW c \in Children, Len(waiting'[c]) = 1
          PROVE  active' = IF waiting'[c][1].project = Same THEN cfg' ELSE waiting'[c][1].project
      <4>1. c = proc
        <5>1. SUFFICES ASSUME c # proc PROVE FALSE
          OBVIOUS
        <5>2. waiting'[c] = waiting[c] /\ waiting[c] = <<>>
          BY <5>1, <1>3, <1>d DEF OneProcess
        <5> QED BY <3>5, <5>2
      <4>2. waiting[proc] = <<>>
        <5>1. waiting[proc] \in Seq(Calls) /\ waiting'[c] = Append(waiting[proc], call)
          BY <4>1, <1>a, <1>d, <1>3
        <5> HIDE DEF call
        <5> QED BY <3>5, <5>1, <1>c, AppendFacts
      <4>3. AllStopped
        BY <4>2, <1>3 DEF OneProcess, AllStopped
      <4>4. cfg = active
        BY <3>2, <4>3 DEF CfgInv
      <4>5. waiting'[c][1] = call
        BY <4>1, <4>2, <1>a, <1>c, <1>d, <1>3, AppendFacts
      <4> QED BY <4>4, <4>5, <1>3, <1>d
    <3> QED BY <3>3, <3>4, <3>5 DEF CfgInv
  <2> QED BY <1>1, <2>1, <2>2, <2>3
<1>4. CASE "timeout" \notin odd /\ proc = NoChild /\ by = "quit"
  <2>1. UNCHANGED <<child, proc, cfg, waiting>> /\ app' = "gone" /\ active' = active
    BY <1>4 DEF stop
  <2>2. OneProcess'
    BY <1>b, <1>4, <2>1 DEF OneProcess
  <2>3. QuitFirst'
    BY <1>b, <1>4, <2>1 DEF QuitFirst, Live
  <2>4. CfgInv'
    <3>1. odd' = {} => odd = {}
      OBVIOUS
    <3> QED BY <3>1, <2>1 DEF CfgInv, Live, AllStopped
  <2> QED BY <1>1, <2>2, <2>3, <2>4
<1>5. CASE "timeout" \notin odd /\ proc = NoChild /\ by # "quit"
  <2>1. start(by, Merged(p), child, NoChild) /\ cfg' = Merged(p) /\ UNCHANGED <<app, waiting>>
    BY <1>5 DEF stop
  <2>2. /\ proc' \in Children
        /\ \A c \in Children : child'[c].st # "free" => c = proc' /\ child'[c].project = Merged(p)
    BY <1>a, <1>b, <1>5, <2>1, StartAlone
  <2>3. OneProcess'
    BY <1>b, <1>5, <2>1, <2>2 DEF OneProcess
  <2>4. QuitFirst'
    <3>1. odd' \cap {"timeout", "quit"} = {} => odd \cap {"timeout", "quit"} = {}
      OBVIOUS
    <3> QED BY <3>1, <1>5, <2>1 DEF QuitFirst
  <2>5. CfgInv'
    <3>1. odd' = {} => odd = {}
      OBVIOUS
    <3>2. AllStopped
      BY <1>b, <1>5 DEF AllStopped
    <3>3. odd' = {} => cfg' = active'
      BY <3>1, <3>2, <2>1 DEF CfgInv, Merged
    <3>4. \A c \in Children : Len(waiting'[c]) # 1
      BY <1>b, <1>5, <2>1
    <3> QED BY <3>3, <3>4, <2>1, <2>2 DEF CfgInv, Live
  <2> QED BY <1>1, <2>3, <2>4, <2>5
<1> QED BY <1>2, <1>3, <1>4, <1>5

(* The exit of a process, and the end of the 5 seconds of a stop().            *)
LEMMA ExitSteps ==
  ASSUME TypeOK, ProcessInv, NEW c \in Children, ExitEvent(c)
  PROVE  ProcessInv'
<1> USE DEF ProcessInv
<1> DEFINE kids == [child EXCEPT ![c] = Free]
<1>a. /\ child \in [Children -> Child] /\ waiting \in [Children -> Seq(Calls)]
      /\ waiting[c] \in Seq(Calls) /\ kids \in [Children -> Child]
  BY DEF TypeOK, Child, Calls, Free
<1>b. Continue(waiting[c], kids) /\ child[c].st = "dead" /\ app # "gone" /\ active' = active
  BY DEF ExitEvent, Running
<1>c. /\ waiting'[c] = <<>>
      /\ \A k \in Children : waiting'[k] = <<>> \/ waiting'[k] = waiting[k]
  BY <1>a DEF ExitEvent
<1>1. QuitAsked'
  <2>1. app' \in {app, "gone"}
    BY <1>a, <1>b, ContinueTyped
  <2> QED BY <2>1, <1>c DEF QuitAsked
<1>2. CASE "timeout" \in odd
  <2>1. "timeout" \in odd'
    BY <1>2 DEF ExitEvent
  <2>2. odd' # {} /\ odd' \cap {"timeout", "quit"} # {}
    BY <2>1
  <2> QED BY <1>1, <2>1, <2>2 DEF OneProcess, QuitFirst, CfgInv
<1>3. CASE "timeout" \notin odd
  <2>1. c = proc /\ \A k \in Children \ {c} : child[k].st = "free" /\ waiting[k] = <<>>
    BY <1>3, <1>b DEF OneProcess
  <2>2. /\ \A k \in Children : kids[k].st = "free"
        /\ \A k \in Children : waiting'[k] = <<>>
    BY <2>1, <1>a, <1>c DEF Free
  <2>3. /\ \A k \in Children : child'[k].st # "free" => k = proc'
        /\ (\A i \in DOMAIN waiting[c] : waiting[c][i].by # "quit") => app' = app
        /\ waiting[c] # <<>> /\ waiting[c][1].by = "quit" => child' = kids /\ app' = "gone"
        /\ Len(waiting[c]) <= 1 => \A k \in Children : child'[k].st # "free" =>
                                                      child'[k].project = cfg'
        /\ waiting[c] = <<>> => cfg' = cfg
        /\ Len(waiting[c]) = 1 => cfg' = IF waiting[c][1].by = "quit" THEN cfg
                                        ELSE Merged(waiting[c][1].project)
    <3> HIDE DEF kids
    <3> QED BY <2>2, <1>a, <1>b, ContinueAlone
  <2>4. OneProcess'
    BY <2>2, <2>3 DEF OneProcess
  <2>5. QuitFirst'
    <3>1. SUFFICES ASSUME odd \cap {"timeout", "quit"} = {}
                   PROVE  app' # "quitting" /\ (app' = "gone" => Live' = {})
      BY DEF QuitFirst, ExitEvent
    <3>2. CASE app = "quitting"
      <4>1. child' = kids /\ app' = "gone"
        BY <2>1, <2>3, <3>1, <3>2 DEF QuitFirst
      <4> QED BY <4>1, <2>2 DEF Live
    <3>3. CASE app = "running"
      BY <3>3, <2>3 DEF QuitAsked
    <3> QED BY <3>2, <3>3, <1>b DEF TypeOK
  <2>6. CfgInv'
    <3>1. SUFFICES ASSUME odd' = {} PROVE CfgInv'
      BY DEF CfgInv
    <3>2. odd = {} /\ ~(Len(waiting[c]) > 1)
      BY <3>1 DEF ExitEvent
    <3>3. Len(waiting[c]) \in Nat /\ (Len(waiting[c]) = 0 => waiting[c] = <<>>)
      BY <1>a
    <3>4. \A n \in Nat : ~(n > 1) => n <= 1 /\ (n = 0 \/ n = 1)
      OBVIOUS
    <3>5. Len(waiting[c]) <= 1 /\ (waiting[c] = <<>> \/ Len(waiting[c]) = 1)
      BY <3>2, <3>3, <3>4
    <3>6. \A k \in Live' : child'[k].project = cfg'
      BY <2>3, <3>5 DEF Live
    <3>7. cfg' = active'
      <4>1. CASE waiting[c] = <<>>
        <5>1. AllStopped
          BY <2>1, <4>1 DEF AllStopped
        <5> QED BY <1>b, <2>3, <3>2, <4>1, <5>1 DEF CfgInv
      <4>2. CASE Len(waiting[c]) = 1
        <5>1. active = IF waiting[c][1].project = Same THEN cfg ELSE waiting[c][1].project
          BY <3>2, <4>2 DEF CfgInv
        <5>2. 1 \in DOMAIN waiting[c]
          BY <1>a, <4>2
        <5>3. waiting[c][1].by = "quit" => waiting[c][1].project = Same
          BY <5>2 DEF QuitAsked
        <5> QED BY <1>b, <2>3, <4>2, <5>1, <5>3 DEF Merged
      <4> QED BY <3>5, <4>1, <4>2
    <3>8. \A k \in Children : Len(waiting'[k]) # 1
      BY <2>2
    <3> QED BY <3>6, <3>7, <3>8 DEF CfgInv
  <2> QED BY <1>1, <2>4, <2>5, <2>6
<1> QED BY <1>2, <1>3

LEMMA TimeoutSteps ==
  ASSUME TypeOK, ProcessInv, NEW c \in Children, StopTimesOut(c)
  PROVE  ProcessInv'
<1> USE DEF ProcessInv
<1>1. /\ waiting \in [Children -> Seq(Calls)] /\ waiting[c] \in Seq(Calls) /\ waiting[c] # <<>>
      /\ [child EXCEPT ![c] = Dead] \in [Children -> Child]
      /\ waiting' = [waiting EXCEPT ![c] = Tail(@)]
  BY DEF TypeOK, Child, Calls, Dead, StopTimesOut
<1>2. app' \in {app, "gone"}
  <2>1. <<Head(waiting[c])>> \in Seq(Calls)
    BY <1>1
  <2>2. Continue(<<Head(waiting[c])>>, [child EXCEPT ![c] = Dead])
    BY DEF StopTimesOut
  <2> QED BY <1>1, <2>1, <2>2, ContinueTyped
<1>3. QuitAsked'
  <2>1. SUFFICES ASSUME NEW k \in Children, NEW i \in DOMAIN waiting'[k],
                        waiting'[k][i].by = "quit"
                 PROVE  app' # "running" /\ waiting'[k][i].project = Same
    BY DEF QuitAsked
  <2>2. CASE k # c
    BY <1>1, <1>2, <2>1, <2>2 DEF QuitAsked
  <2>3. CASE k = c
    <3>1. i + 1 \in DOMAIN waiting[c] /\ waiting'[c][i] = waiting[c][i + 1]
      BY <1>1, <2>1, <2>3
    <3> QED BY <1>2, <2>1, <2>3, <3>1 DEF QuitAsked
  <2> QED BY <2>2, <2>3
<1>4. "timeout" \in odd'
  BY DEF StopTimesOut
<1>5. odd' # {} /\ odd' \cap {"timeout", "quit"} # {}
  BY <1>4
<1> QED BY <1>3, <1>4, <1>5 DEF OneProcess, QuitFirst, CfgInv

LEMMA ProcessStep == TypeOK /\ ProcessInv /\ [Next]_vars => ProcessInv'
<1> SUFFICES ASSUME TypeOK, ProcessInv, [Next]_vars PROVE ProcessInv'
  OBVIOUS
<1> USE ProjectsAssumption
<1>1. CASE WhenReady
  BY <1>1, StartSteps DEF WhenReady, ui
<1>2. CASE BackoffRestart
  BY <1>2, StartSteps DEF BackoffRestart, Running, ui
<1>3. CASE Quit
  <2>1. stop("quit", Same) /\ app = "running" /\ active' = active
    BY <1>3 DEF Quit, ui
  <2>2. odd' \in {odd, odd \cup {"quit"}} /\ (AllStopped \/ "quit" \in odd')
    BY <1>3 DEF Quit
  <2> QED BY <2>1, <2>2, StopSteps
<1>4. CASE RestartBackend
  <2>1. stop("restart", Same) /\ app # "gone" /\ active' = active /\ odd' = odd
    BY <1>4 DEF RestartBackend, CanClick, Running, ui
  <2> QED BY <2>1, StopSteps
<1>5. CASE SwitchBackend
  <2>1. stop("switch", target) /\ app # "gone" /\ active' = target /\ odd' = odd
    BY <1>5 DEF SwitchBackend, Running
  <2>2. target \in Projects /\ target # Same
    BY <1>5 DEF SwitchBackend, TypeOK
  <2> QED BY <2>1, <2>2, StopSteps
<1>6. ASSUME NEW c \in Children, Listen(c) \/ ObeySigterm(c) \/ ProcessCrashes(c)
      PROVE  ProcessInv'
  <2>1. child \in [Children -> Child]
    BY DEF TypeOK, Child
  <2>2. \E k \in {[child[c] EXCEPT !.st = "serving"], Dead} : child' = [child EXCEPT ![c] = k]
    BY <1>6, <2>1 DEF Listen, ObeySigterm, ProcessCrashes
  <2>3. c \in Live
    BY <1>6 DEF Listen, ObeySigterm, ProcessCrashes, Live
  <2>4. \A k \in Children : /\ child'[k].st # "free" => child[k].st # "free"
                            /\ k \in Live' => k \in Live /\ child'[k].project = child[k].project
    BY <2>1, <2>2, <2>3 DEF Live, Dead, Child
  <2>5. UNCHANGED <<app, proc, cfg, waiting, active, odd>>
    BY <1>6 DEF Listen, ObeySigterm, ProcessCrashes, manager, ui
  <2> QED BY <2>4, <2>5, ProcessSteps
<1>7. ASSUME NEW c \in Children, ExitEvent(c) PROVE ProcessInv'
  BY <1>7, ExitSteps
<1>8. ASSUME NEW c \in Children, StopTimesOut(c) PROVE ProcessInv'
  BY <1>8, TimeoutSteps
<1>9. ASSUME NEW by \in polling, StartEnds(by) PROVE ProcessInv'
  <2>1. UNCHANGED <<app, child, proc, cfg, waiting>>
    BY <1>9 DEF StartEnds
  <2>2. odd \subseteq odd' /\ (odd' = {} => active' = active)
    BY <1>9 DEF StartEnds
  <2> QED BY <2>1, <2>2, WindowSteps
<1>10. CASE deleteProject
  <2>1. UNCHANGED <<app, child, proc, cfg, waiting>>
    BY <1>10 DEF deleteProject, manager
  <2>2. odd \subseteq odd' /\ odd' # {}
    BY <1>10 DEF deleteProject
  <2> QED BY <2>1, <2>2, WindowSteps
<1>11. CASE Probe \/ (\E p \in Projects : switchProject(p) \/ CreateProject(p)) \/ UNCHANGED vars
  <2>1. UNCHANGED <<app, child, proc, cfg, waiting, active, odd>>
    BY <1>11 DEF Probe, switchProject, CreateProject, vars, manager, ui
  <2> QED BY <2>1, WindowSteps
<1> QED BY <1>1, <1>2, <1>3, <1>4, <1>5, <1>6, <1>7, <1>8, <1>9, <1>10, <1>11 DEF Next

LEMMA BackendInvariant == Spec => []BackendIInv
<1>1. Init => BackendIInv
  BY BackendInit
<1>2. BackendIInv /\ [Next]_vars => BackendIInv'
  BY TypeStep, ProcessStep, BackoffStep DEF BackendIInv
<1> QED BY <1>1, <1>2, PTL DEF Spec

(* In every order of callbacks the manager's state holds together: types, no   *)
(* process beside the tracked one or after the application, and at most three  *)
(* restarts granted in a window of the backoff.                                *)
THEOREM BackendHoldsTogether == Spec => []BackendInv
<1>1. BackendIInv => BackendInv
  <2>1. SUFFICES ASSUME BackendIInv PROVE BackendInv
    OBVIOUS
  <2>2. NoStray
    BY <2>1 DEF BackendIInv, ProcessInv, OneProcess, QuitFirst, NoStray, Live
  <2>3. RestartsBounded
    BY <2>1 DEF BackendIInv, BackoffInv, RestartsBounded, TypeOK
  <2> QED BY <2>1, <2>2, <2>3 DEF BackendInv, BackendIInv
<1> QED BY <1>1, BackendInvariant, PTL

(* Once no restart is under way, the processes run for the active project: the *)
(* configuration merged by each restart is that of the last switch.            *)
THEOREM BackendServesActive == Spec => []ServesActive
<1>1. BackendIInv => ServesActive
  BY DEF BackendIInv, ProcessInv, CfgInv, ServesActive
<1> QED BY <1>1, BackendInvariant, PTL
=============================================================================
