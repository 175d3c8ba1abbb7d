----------------------------- MODULE DesktopChat -----------------------------
(***************************************************************************)
(* The chat of the desktop application (hooks/useChat.ts): the sessions of *)
(* the active project, loaded from and saved to the settings               *)
(* (lib/sessions.ts), the answers streamed into them, and the poll for the *)
(* artifact that follows an answer; with the projects (lib/store.ts) the   *)
(* user switches, creates and deletes meanwhile.                           *)
(*                                                                         *)
(* An action is a callback of the renderer with the render and the effects *)
(* it causes.  A settings request is answered in the order it was sent.    *)
(***************************************************************************)
EXTENDS Naturals, Sequences, FiniteSets, SequencesExt

CONSTANTS
  Projects, NoProject,
  LIMIT,        \* sessions kept per project (50)
  Polls,        \* looks for an artifact after an answer (20)
  MaxSessions,  \* bound: sessions created
  MaxSends,     \* bound: messages sent
  MaxChunks,    \* bound: chunks of an answer
  MaxOps        \* bound: other things the user does

ASSUME ProjectsAssumption == NoProject \notin Projects /\ Projects \cap Nat = {}
ASSUME BoundsAssumption == {LIMIT, Polls} \subseteq Nat \ {0}
                           /\ {MaxSessions, MaxSends, MaxChunks, MaxOps} \subseteq Nat

VARIABLES
  projects, active,   \* the store: the projects, the active one
  stored,             \* settings "chat:sessions:<project>"
  mounted,            \* is the Chat route shown?
  sessions, activeId, streaming, loaded,   \* state of useChat
  error,              \* the send whose failure is shown, or 0
  load,               \* the answer of the settings that is on its way
  stream,             \* each send and its stream
  poll,               \* looks left in the artifact poll of each send
  artifact, sidecar,  \* the file a task leaves; the project its metadata names
  \* history
  born, ops,          \* what is spent of two bounds
  kept,               \* what was last shown of each project
  hasty               \* projects left before their sessions had landed

chat == <<mounted, sessions, activeId, streaming, loaded, error, load>>
tasks == <<stream, poll, artifact, sidecar>>
vars == <<projects, active, stored, chat, tasks, born, ops, kept, hasty>>

Sends == 1..MaxSends
Ids == Projects \cup 1..MaxSessions      \* a session from before is named by its project
NoLoad == [pending |-> FALSE, data |-> <<>>]
Message == [send : Sends, len : 0..MaxChunks, has_artifact : BOOLEAN]
Session == [id : Ids, pinned : BOOLEAN, messages : Seq(Message)]
Stream == [st : {"open", "done", "failed", "stopped"}, here : BOOLEAN, sess : Ids,
           at : Projects \cup {NoProject}, len : 0..MaxChunks, raf : BOOLEAN, seen : BOOLEAN,
           meta : Projects \cup {NoProject}]

TypeOK ==
  /\ projects \subseteq Projects /\ active \in Projects \cup {NoProject}
  /\ stored \in [Projects -> Seq(Session)] /\ kept \in [Projects -> Seq(Session)]
  /\ mounted \in BOOLEAN /\ streaming \in BOOLEAN /\ loaded \in BOOLEAN
  /\ sessions \in Seq(Session) /\ activeId \in Ids \cup {NoProject}
  /\ error \in 0..MaxSends
  /\ load \in [pending : BOOLEAN, data : Seq(Session)]
  /\ stream \in Seq(Stream)
  /\ Len(stream) <= MaxSends
  /\ poll \in [Sends -> 0..Polls]
  /\ artifact \in [Sends -> BOOLEAN] /\ sidecar \in [Sends -> Seq(Projects \cup {NoProject})]
  /\ born \in 0..MaxSessions /\ ops \in 0..MaxOps
  /\ hasty \subseteq Projects

newSession == [id |-> born + 1, pinned |-> FALSE, messages |-> <<>>]

Init ==
  /\ projects \in SUBSET Projects \ {{}} /\ active \in projects
  /\ stored = [p \in Projects |->
                 IF p \in projects
                   THEN <<[id |-> p, pinned |-> TRUE, messages |-> <<>>]>> ELSE <<>>]
  /\ kept = stored
  /\ mounted = FALSE /\ streaming = FALSE /\ loaded = FALSE /\ error = 0
  /\ sessions = <<>> /\ activeId = NoProject /\ load = NoLoad
  /\ stream = <<>> /\ poll = [i \in Sends |-> 0]
  /\ artifact = [i \in Sends |-> FALSE] /\ sidecar = [i \in Sends |-> <<>>]
  /\ born = 0 /\ ops = 0 /\ hasty = {}

(***************************************************************************)
(* saveSessions, and the effect that calls it: the sessions list is news,  *)
(* of the active project if it has landed.                                 *)
(***************************************************************************)
(* Mutant: the last LIMIT sessions are kept.                               *)
TrimMutant(list) == IF Len(list) <= LIMIT THEN list
                    ELSE SubSeq(list, Len(list) - LIMIT + 1, Len(list))

Trim(list) == SubSeq(list, 1, IF Len(list) < LIMIT THEN Len(list) ELSE LIMIT)

Show(list) ==
  /\ sessions' = list
  /\ IF loaded /\ active # NoProject
       THEN /\ stored' = [stored EXCEPT ![active] = Trim(list)]
            /\ kept' = [kept EXCEPT ![active] = list]
       ELSE UNCHANGED <<stored, kept>>

OnSession(id, Change(_)) ==
  [k \in DOMAIN sessions |->
     IF sessions[k].id = id THEN Change(sessions[k]) ELSE sessions[k]]

OnMessage(i, Change(_)) ==
  OnSession(stream[i].sess,
            LAMBDA s : [s EXCEPT !.messages =
                          [k \in DOMAIN @ |-> IF @[k].send = i THEN Change(@[k]) ELSE @[k]]])

(***************************************************************************)
(* Loading: on opening the route and on every change of the active project.*)
(* The save effect of that render still has the old sessions, and writes   *)
(* them under the new project after its own have been asked for.           *)
(***************************************************************************)
OpenChat ==
  /\ ~mounted /\ ops < MaxOps
  /\ mounted' = TRUE
  /\ sessions' = <<>> /\ activeId' = NoProject
  /\ loaded' = FALSE /\ streaming' = FALSE /\ error' = 0
  /\ load' = IF active = NoProject THEN NoLoad ELSE [pending |-> TRUE, data |-> stored[active]]
  /\ ops' = ops + 1
  /\ UNCHANGED <<projects, active, stored, tasks, born, kept, hasty>>

(* Leaving the route, or the application: loops of the old window go on    *)
(* only in the first case, and show nothing any more.                      *)
Leave(streams, looks) ==
  /\ mounted' = FALSE /\ loaded' = FALSE /\ streaming' = FALSE
  /\ sessions' = <<>> /\ activeId' = NoProject /\ load' = NoLoad /\ error' = 0
  /\ hasty' = hasty \cup IF load.pending THEN {active} ELSE {}
  /\ stream' = streams /\ poll' = looks
  /\ ops' = ops + 1
  /\ UNCHANGED <<projects, active, stored, artifact, sidecar, born, kept>>

CloseChat ==
  /\ mounted /\ ops < MaxOps
  /\ Leave([i \in DOMAIN stream |-> [stream[i] EXCEPT !.here = FALSE]], poll)

Quit ==
  /\ ops < MaxOps
  /\ Leave([i \in DOMAIN stream |->
              [stream[i] EXCEPT !.here = FALSE, !.raf = FALSE,
                                !.st = IF @ = "open" THEN "failed" ELSE @]],
           [i \in Sends |-> 0])

(* The effects of a change of the active project to p, from disk on.       *)
Activate(p, disk) ==
  /\ active' = p
  /\ IF ~mounted \/ p = NoProject
       THEN stored' = disk /\ UNCHANGED <<load, sessions, activeId, loaded>>
       ELSE /\ load' = [pending |-> TRUE, data |-> disk[p]]
            /\ stored' = IF loaded THEN [disk EXCEPT ![p] = Trim(sessions)] ELSE disk
            /\ sessions' = <<>> /\ activeId' = NoProject /\ loaded' = FALSE

(* The overlay of a switch, and the question before a deletion, outlast a  *)
(* load.  The wizard adds the project it switches to.                      *)
switchProject(p) ==
  /\ p # active /\ ~load.pending /\ ops < MaxOps
  /\ projects' = projects \cup {p}
  /\ Activate(p, stored)
  /\ ops' = ops + 1
  /\ UNCHANGED <<mounted, streaming, error, tasks, born, kept, hasty>>

deleteProject(p) ==
  /\ p \in projects /\ ~load.pending /\ ops < MaxOps
  /\ projects' = projects \ {p}
  /\ kept' = [kept EXCEPT ![p] = <<>>] /\ hasty' = hasty \ {p}
  /\ LET disk == [stored EXCEPT ![p] = <<>>]
     IN IF active # p
          THEN stored' = disk /\ UNCHANGED <<active, load, sessions, activeId, loaded>>
          ELSE \E q \in IF projects' = {} THEN {NoProject} ELSE projects' : Activate(q, disk)
  /\ ops' = ops + 1
  /\ UNCHANGED <<mounted, streaming, error, tasks, born>>

LoadLands ==
  /\ load.pending
  /\ load' = NoLoad /\ loaded' = TRUE
  /\ IF load.data = <<>>
       THEN /\ born < MaxSessions
            /\ sessions' = <<newSession>> /\ activeId' = born + 1 /\ born' = born + 1
       ELSE sessions' = load.data /\ activeId' = load.data[1].id /\ born' = born
  /\ stored' = [stored EXCEPT ![active] = Trim(sessions')]
  /\ kept' = [kept EXCEPT ![active] = sessions']
  /\ UNCHANGED <<projects, active, mounted, streaming, error, tasks, ops, hasty>>

(***************************************************************************)
(* The list of sessions.                                                   *)
(***************************************************************************)
Shown == mounted /\ \E k \in DOMAIN sessions : sessions[k].id = activeId
Click == Shown /\ ops < MaxOps /\ ops' = ops + 1
                 /\ UNCHANGED <<projects, active, mounted, streaming, loaded, load, hasty>>

createSession ==
  /\ Click /\ born < MaxSessions
  /\ Show(<<newSession>> \o sessions)
  /\ activeId' = born + 1 /\ born' = born + 1
  /\ UNCHANGED <<error, tasks>>

selectSession(k) ==
  /\ Click /\ sessions[k].id # activeId
  /\ activeId' = sessions[k].id /\ error' = 0
  /\ UNCHANGED <<stored, sessions, tasks, born, kept>>

deleteSession(k) ==
  /\ Click
  /\ LET remaining == RemoveAt(sessions, k)
     IN IF remaining = <<>>
          THEN /\ born < MaxSessions
               /\ Show(<<newSession>>) /\ activeId' = born + 1 /\ born' = born + 1
          ELSE /\ Show(remaining)
               /\ activeId' = IF activeId = sessions[k].id THEN remaining[1].id ELSE activeId
               /\ born' = born
  /\ UNCHANGED <<error, tasks>>

updateActive ==      \* pins an agent
  /\ Click
  /\ \E s \in Range(sessions) : s.id = activeId /\ ~s.pinned
  /\ Show(OnSession(activeId, LAMBDA s : [s EXCEPT !.pinned = TRUE]))
  /\ UNCHANGED <<activeId, error, tasks, born>>

(***************************************************************************)
(* A message and its answer.                                               *)
(***************************************************************************)
Rest == <<projects, active, mounted, activeId, loaded, load, artifact, sidecar, born, ops, hasty>>

send ==
  /\ Shown /\ ~streaming /\ Len(stream) < MaxSends
  /\ \E s \in Range(sessions) : s.id = activeId /\ s.pinned
  /\ stream' = Append(stream, [st |-> "open", here |-> TRUE, sess |-> activeId, at |-> active,
                               len |-> 0, raf |-> FALSE, seen |-> FALSE, meta |-> NoProject])
  /\ Show(OnSession(activeId,
            LAMBDA s : [s EXCEPT !.messages =
              Append(@, [send |-> Len(stream) + 1, len |-> 0, has_artifact |-> FALSE])]))
  /\ streaming' = TRUE /\ error' = 0
  /\ UNCHANGED <<Rest, poll>>

Chunk(i) ==
  /\ stream[i].st = "open" /\ stream[i].len < MaxChunks
  /\ stream' = [stream EXCEPT ![i].len = @ + 1, ![i].raf = TRUE]
  /\ UNCHANGED <<Rest, sessions, stored, kept, streaming, error, poll>>

(* Mutant: the answer goes into the session selected now.                  *)
commitMutant(i) ==
  IF stream[i].here
    THEN Show(OnSession(activeId,
                LAMBDA s : [s EXCEPT !.messages =
                  [k \in DOMAIN @ |-> IF @[k].send = i THEN [@[k] EXCEPT !.len = stream[i].len]
                                                       ELSE @[k]]]))
    ELSE UNCHANGED <<sessions, stored, kept>>

commit(i) ==
  IF stream[i].here
    THEN Show(OnMessage(i, LAMBDA m : [m EXCEPT !.len = stream[i].len]))
    ELSE UNCHANGED <<sessions, stored, kept>>

Frame(i) ==
  /\ stream[i].raf
  /\ commit(i)
  /\ stream' = [stream EXCEPT ![i].raf = FALSE]
  /\ UNCHANGED <<Rest, streaming, error, poll>>

(* The end of a stream; its answer is whole in what the chat then shows.   *)
Done(i) ==
  /\ stream[i].st = "open"
  /\ commit(i)
  /\ stream' = [stream EXCEPT ![i].st = "done", ![i].meta = active,
                              ![i].seen = @ \/ (stream[i].here /\ loaded /\ active = stream[i].at
                                                /\ active # NoProject)]
  /\ poll' \in {poll, [poll EXCEPT ![i] = Polls]}       \* did it name its task?
  /\ streaming' = (streaming /\ ~stream[i].here)
  /\ UNCHANGED <<Rest, error>>

Fail(i) ==
  /\ stream[i].st = "open"
  /\ stream' = [stream EXCEPT ![i].st = "failed"]
  /\ IF stream[i].here
       THEN error' = i /\ streaming' = FALSE
       ELSE UNCHANGED <<error, streaming>>
  /\ UNCHANGED <<Rest, sessions, stored, kept, poll>>

(* Mutant: stop() does not abort the request.                              *)
stopMutant ==
  /\ Shown /\ streaming
  /\ streaming' = FALSE
  /\ UNCHANGED <<Rest, sessions, stored, kept, stream, error, poll>>

stop ==
  /\ Shown /\ streaming
  /\ streaming' = FALSE
  /\ stream' = [i \in DOMAIN stream |->
                  IF stream[i].here /\ stream[i].st = "open"
                    THEN [stream[i] EXCEPT !.st = "stopped"] ELSE stream[i]]
  /\ UNCHANGED <<Rest, sessions, stored, kept, error, poll>>

ArtifactArrives(i) ==      \* a later one is not looked for
  /\ ~artifact[i] /\ (poll[i] > 0 \/ stream[i].st = "open")
  /\ artifact' = [artifact EXCEPT ![i] = TRUE]
  /\ UNCHANGED <<projects, active, stored, chat, stream, poll, sidecar, born, ops, kept, hasty>>

(* checkArtifact; after an unmount the poll ends without the metadata.     *)
(* Mutant: the poll also ends without it when its project is not active.   *)
PollMutant(i) ==
  /\ poll[i] > 0
  /\ poll' = [poll EXCEPT ![i] = IF artifact[i] THEN 0 ELSE @ - 1]
  /\ IF artifact[i] /\ stream[i].here /\ active = stream[i].at
       THEN /\ Show(OnMessage(i, LAMBDA m : [m EXCEPT !.has_artifact = TRUE]))
            /\ sidecar' = [sidecar EXCEPT ![i] = <<stream[i].meta>>]
       ELSE UNCHANGED <<sessions, stored, kept, sidecar>>
  /\ UNCHANGED <<projects, active, mounted, activeId, streaming, loaded, error, load, stream,
                 artifact, born, ops, hasty>>

(* Mutant: the loop looks once more.                                       *)
PollOnceMoreMutant(i) ==
  /\ poll[i] >= 0
  /\ poll' = [poll EXCEPT ![i] = IF artifact[i] THEN 0 ELSE @ - 1]
  /\ UNCHANGED <<sessions, stored, kept, sidecar>>
  /\ UNCHANGED <<projects, active, mounted, activeId, streaming, loaded, error, load, stream,
                 artifact, born, ops, hasty>>

Poll(i) ==
  /\ poll[i] > 0
  /\ poll' = [poll EXCEPT ![i] = IF artifact[i] THEN 0 ELSE @ - 1]
  /\ IF artifact[i] /\ stream[i].here
       THEN /\ Show(OnMessage(i, LAMBDA m : [m EXCEPT !.has_artifact = TRUE]))
            /\ sidecar' = [sidecar EXCEPT ![i] = <<stream[i].meta>>]
       ELSE UNCHANGED <<sessions, stored, kept, sidecar>>
  /\ UNCHANGED <<projects, active, mounted, activeId, streaming, loaded, error, load, stream,
                 artifact, born, ops, hasty>>

Next ==
  \/ OpenChat \/ CloseChat \/ Quit \/ LoadLands
  \/ \E p \in Projects : switchProject(p) \/ deleteProject(p)
  \/ createSession \/ updateActive \/ send \/ stop
  \/ \E k \in DOMAIN sessions : selectSession(k) \/ deleteSession(k)
  \/ \E i \in DOMAIN stream : Chunk(i) \/ Frame(i) \/ Done(i) \/ Fail(i) \/ Poll(i)
                              \/ ArtifactArrives(i)

(***************************************************************************)
(* The settings answer, timers and frames come; a stream may last.         *)
(***************************************************************************)
Fairness == WF_vars(LoadLands) /\ \A i \in Sends : WF_vars(i \in DOMAIN stream /\ Poll(i))

Spec == Init /\ [][Next]_vars /\ Fairness

(***************************************************************************)
(* Properties                                                              *)
(***************************************************************************)
(* What the user sees, or would see, of a project's sessions.              *)
View(p) == IF mounted /\ active = p
             THEN IF load.pending THEN load.data ELSE sessions
             ELSE stored[p]

Newest(list) == [k \in 1..IF Len(list) < LIMIT THEN Len(list) ELSE LIMIT |-> list[k]]

(* Each project keeps its own history: what switching back shows is what   *)
(* was last shown of it, up to LIMIT, unless the chat was left in the      *)
(* moment between a switch and the answer of the settings (useChat's load  *)
(* and save effects, deleteProject).                                       *)
HistoryKept ==
  \A p \in Projects \ hasty : View(p) \in {kept[p], Newest(kept[p])}

(* An answer that was whole on the screen stays whole wherever its session *)
(* is still kept, whatever was selected, switched or closed since.         *)
AnswerKept ==
  \A i \in DOMAIN stream :
     stream[i].seen /\ stream[i].at \notin hasty =>
        \A s \in Range(View(stream[i].at)) : s.id = stream[i].sess =>
           \E m \in Range(s.messages) : m.send = i /\ m.len = stream[i].len

(* The composer waits exactly while one stream of this window runs, and a  *)
(* failure on the screen is that of the last message (send, stop, finally).*)
OneStream ==
  LET running == {i \in DOMAIN stream : stream[i].here /\ stream[i].st = "open"}
  IN /\ Cardinality(running) <= 1
     /\ mounted => (streaming <=> running # {})
     /\ \A i \in DOMAIN stream : error # 0 /\ stream[i].here => i <= error

(* A poll under way finds an artifact that is there, and its metadata is   *)
(* written while the chat stays open.                                      *)
ArtifactFound ==
  \A i \in Sends :
     LET here == i \in DOMAIN stream /\ stream[i].here
     IN (here /\ poll[i] > 0 /\ artifact[i]) ~> (sidecar[i] # <<>> \/ ~here)

(* Violated: "switch projects and you get that project's own history back, *)
(* untouched" (docs/DESKTOP.md): leaving the chat between a switch and the *)
(* answer of the settings leaves the old project's sessions under the new. *)
HistoryUntouched ==
  \A p \in Projects : View(p) \in {kept[p], Newest(kept[p])}

(* The chat's state holds together: types, an answer that stays with its   *)
(* message, and one stream at a time.                                      *)
ChatInv == TypeOK /\ AnswerKept /\ OneStream
=============================================================================
