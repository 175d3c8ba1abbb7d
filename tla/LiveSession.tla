---------------------------- MODULE LiveSession ----------------------------
(***************************************************************************)
(* Live mode of the design skill: the helper server that passes the events *)
(* of a page to coding agents that poll for them, the durable journal it   *)
(* recovers from, and the agents' command line                             *)
(* (.agents/skills/impeccable/scripts: live-server.mjs,                    *)
(* live/session-store.mjs, live-poll.mjs, live-accept.mjs,                 *)
(* live-complete.mjs, live/completion.mjs).  One page, which posts to the  *)
(* server and hears it over SSE, is modelled as far as its requests go.    *)
(*                                                                         *)
(* The server is one process: an action is a request or a timer it         *)
(* handles, with every flush and broadcast that entails.                   *)
(***************************************************************************)
EXTENDS Naturals, Sequences, FiniteSets

CONSTANTS
  Sessions,        \* variant sessions of the page
  Steers,          \* steer requests, sessions of their own in the journal
  Agents,
  NoId,            \* the id of the anonymous exit event
  MaxCheckpoints,  \* bound: checkpoints of a session
  MaxPosts,        \* bound: accepts and discards of a session
  MaxUpsets        \* bound: leases that run out on an agent at work, agents
                   \* that die, polls that time out, tabs that close, responses
                   \* lost, ends of the server

Ids == Sessions \cup Steers

ASSUME IdsAssumption == Sessions \cap Steers = {} /\ NoId \notin Ids
ASSUME FiniteAssumption == IsFiniteSet(Ids)
ASSUME BoundsAssumption ==
  MaxCheckpoints \in Nat /\ MaxPosts \in Nat /\ MaxUpsets \in Nat

Types == {"generate", "accept", "discard", "steer"}
Replies == {"done", "error", "complete", "discarded", "agent_done", "steer_done"}
Final == {"completed", "discarded"}
None == "none"

VARIABLES
  up,          \* the server runs
  hub,         \* its volatile state, with the tab and the agents it talks to
  exitTimer,   \* runs for 8 s after the last tab closed
  journal,     \* per id, the snapshot that its journal folds to
  page,        \* per session, what the page shows of it
  unsent,      \* generates whose screenshot is being captured
  discarding,  \* discards whose response is to come
  wire,        \* checkpoints under way to the server
  source,      \* per session, what the source files hold
  count,       \* checkpoints and posts of each id, and upsets
  muddled      \* ids that had two events pending, or a post without an answer

vars == <<up, hub, exitTimer, journal, page, unsent, discarding, wire, source, count, muddled>>

Idle == [at |-> "idle", id |-> NoId, type |-> None]
Entry(id, type) == [id |-> id, type |-> type, lease |-> None]

Entries == [id : Ids \cup {NoId}, type : Types \cup {"exit"}, lease : {None, "live", "over"}]

AgentStates ==
  [at : {"idle", "polling", "lost", "working", "replying", "cleaning", "left"},
   id : Ids \cup {NoId}, type : Types \cup Replies \cup {None}]

Hubs ==
  [queue : Seq(Entries), polls : Seq(Agents), timer : {"off", "armed", "due"},
   last : SUBSET BOOLEAN, tab : BOOLEAN, told : BOOLEAN, raced : BOOLEAN,
   agent : [Agents -> AgentStates]]

Snapshots ==
  [phase : {"new", "generate_requested", "variants_ready", "carbonize_required",
            "accept_requested", "discard_requested", "steer_requested", "steer_done",
            "agent_error", "generating", "cycling", "saving"} \cup Final,
   pending : Types \cup {None}, rev : Nat]

TypeOK ==
  /\ up \in BOOLEAN /\ exitTimer \in BOOLEAN
  /\ hub \in Hubs
  /\ journal \in [Ids -> Snapshots]
  /\ page \in [Sessions -> {"none", "generating", "cycling", "saving", "closed"}]
  /\ unsent \subseteq Sessions /\ discarding \subseteq Sessions
  /\ wire \subseteq [id : Sessions, rev : Nat, phase : {"generating", "cycling", "saving"}]
  /\ source \in [Sessions -> {"original", "variants", "carbonize", "clean"}]
  /\ count \in [rev : [Sessions -> Nat], posts : [Sessions -> Nat], upsets : Nat]
  /\ muddled \subseteq Ids

Init ==
  /\ up = TRUE /\ exitTimer = FALSE
  /\ hub = [queue |-> <<>>, polls |-> <<>>, timer |-> "off", last |-> {},
            tab |-> TRUE, told |-> FALSE, raced |-> FALSE,
            agent |-> [a \in Agents |-> Idle]]
  /\ journal = [id \in Ids |-> [phase |-> "new", pending |-> None, rev |-> 0]]
  /\ page = [id \in Sessions |-> "none"]
  /\ unsent = {} /\ discarding = {} /\ wire = {} /\ muddled = {}
  /\ source = [id \in Sessions |-> "original"]
  /\ count = [rev |-> [id \in Sessions |-> 0], posts |-> [id \in Sessions |-> 0],
              upsets |-> 0]

CanUpset == count.upsets < MaxUpsets
Upset == count' = [count EXCEPT !.upsets = @ + 1]

(***************************************************************************)
(* The hub: the event queue, the parked polls, the lease timer and what    *)
(* the tab was told.  A lease that has run out stays "over" until its      *)
(* entry is leased again; the timer is set for leases that are live.       *)
(* raced is history: in the 2 ms between the end of a lease and its timer  *)
(* the timer was set anew, or the tab connected.                           *)
(***************************************************************************)
Leased(h) == \E i \in DOMAIN h.queue : h.queue[i].lease = "live"
agentPollingConnected(h) == h.polls # <<>> \/ Leased(h)

(* Mutant: only the first change is broadcast.                             *)
broadcastAgentPollingIfChangedMutant(h) ==
  IF h.last # {} THEN h
    ELSE LET connected == agentPollingConnected(h)
         IN [h EXCEPT !.last = {connected}, !.told = IF h.tab THEN connected ELSE @]

broadcastAgentPollingIfChanged(h) ==
  LET connected == agentPollingConnected(h)
  IN IF h.last = {connected} THEN h
       ELSE [h EXCEPT !.last = {connected}, !.told = IF h.tab THEN connected ELSE @]

Racing(h) == h.raced \/ h.timer = "due"

(* Mutant: the timer is not set again for the leases that remain.          *)
scheduleLeaseFlushMutant(h) == [h EXCEPT !.timer = "off"]

scheduleLeaseFlush(h) ==
  [h EXCEPT !.timer = IF Leased(h) THEN "armed" ELSE "off", !.raced = Racing(h)]

Available(h) == {i \in DOMAIN h.queue : h.queue[i].lease # "live"}

Given(a, e, h) ==
  IF h.agent[a].at = "lost" THEN Idle   \* the answer to a poll of a dead process
  ELSE IF e.type = "exit" THEN [Idle EXCEPT !.at = "left"]
  ELSE [at |-> "working", id |-> e.id, type |-> e.type]

(* The elements of s in order, but for those at the indices in gone.       *)
Without(s, gone) ==
  LET kept == DOMAIN s \ gone
      place == [i \in kept |-> Cardinality({j \in kept : j <= i})]
  IN [k \in 1..Cardinality(kept) |-> s[CHOOSE i \in kept : place[i] = k]]

(* Entries at the indices in picked are leased; one without an id is gone. *)
leaseEvents(q, picked) ==
  Without([i \in DOMAIN q |-> IF i \in picked THEN [q[i] EXCEPT !.lease = "live"] ELSE q[i]],
          {i \in picked : q[i].id = NoId})

(* The n first polls get the n first available entries, in order.          *)
servable(h) ==
  IF Len(h.polls) < Cardinality(Available(h)) THEN Len(h.polls) ELSE Cardinality(Available(h))

serve(h) ==
  LET n == servable(h)
      events == Without(h.queue, DOMAIN h.queue \ Available(h))
      picked == {i \in Available(h) : Cardinality({j \in Available(h) : j <= i}) <= n}
  IN [h EXCEPT !.queue = leaseEvents(@, picked),
               !.polls = Without(@, 1..n),
               !.agent = [a \in Agents |->
                 IF \E k \in 1..n : h.polls[k] = a
                   THEN Given(a, events[CHOOSE k \in 1..n : h.polls[k] = a], h)
                   ELSE @[a]]]

flushPendingPolls(h) ==
  IF h.polls = <<>> THEN scheduleLeaseFlush(h)
    ELSE broadcastAgentPollingIfChanged(scheduleLeaseFlush(serve(h)))

Queued(h, id, type) ==
  \E i \in DOMAIN h.queue : h.queue[i].id = id /\ h.queue[i].type = type

(* Mutant: an event of a session that already has one is dropped.          *)
enqueueEventMutant(h, id, type) ==
  IF id # NoId /\ \E t \in Types : Queued(h, id, t) THEN h
    ELSE flushPendingPolls([h EXCEPT !.queue = Append(@, Entry(id, type))])

enqueueEvent(h, id, type) ==
  IF id # NoId /\ Queued(h, id, type) THEN h
    ELSE flushPendingPolls([h EXCEPT !.queue = Append(@, Entry(id, type))])

OfId(h, id) == {i \in DOMAIN h.queue : h.queue[i].id = id}

(* The first entry of the id is acknowledged, whatever its type.           *)
(* Mutant: an entry stays in the queue when it is acknowledged.            *)
acknowledgePendingEventMutant(h, id) == h

acknowledgePendingEvent(h, id) ==
  IF OfId(h, id) = {} THEN h
    ELSE LET first == CHOOSE i \in OfId(h, id) : \A j \in OfId(h, id) : i <= j
         IN broadcastAgentPollingIfChanged(scheduleLeaseFlush(
              [h EXCEPT !.queue = Without(@, {first})]))

(* Mutant: a tab that connects leaves the queue alone.                     *)
cancelQueuedAnonymousExitEventsMutant(h) == h

cancelQueuedAnonymousExitEvents(h) ==
  IF OfId(h, NoId) = {} THEN h
    ELSE broadcastAgentPollingIfChanged(scheduleLeaseFlush(
           [h EXCEPT !.queue = Without(@, OfId(h, NoId))]))

Unparked(h, a) ==
  broadcastAgentPollingIfChanged([h EXCEPT !.polls = Without(@, {i \in DOMAIN @ : @[i] = a})])

(***************************************************************************)
(* The journal: applyEvent folds an event into the snapshot of its id.     *)
(***************************************************************************)
requested(type) == CASE type = "generate" -> "generate_requested"
                     [] type = "accept" -> "accept_requested"
                     [] type = "discard" -> "discard_requested"
                     [] type = "steer" -> "steer_requested"

(* Mutant: an accept changes the phase alone.                              *)
applyRequestMutant(s, type) ==
  [s EXCEPT !.phase = requested(type), !.pending = IF type = "accept" THEN @ ELSE type]

applyRequest(s, type) == [s EXCEPT !.phase = requested(type), !.pending = type]

(* The reply of an agent, under the name the server gives it.              *)
(* Mutant: the name of the reply is the phase.                             *)
applyReplyMutant(s, type, carbonize) == [s EXCEPT !.pending = None, !.phase = type]

applyReply(s, type, carbonize) ==
  [s EXCEPT !.pending = None,
            !.phase = CASE type = "steer_done" -> "steer_done"
                        [] type = "discarded" -> "discarded"
                        [] type = "complete" -> "completed"
                        [] type = "error" -> "agent_error"
                        [] OTHER -> IF carbonize THEN "carbonize_required"
                                                 ELSE "variants_ready"]

applyCheckpoint(s, m) ==
  IF s.phase \in Final \/ m.rev < s.rev THEN s
    ELSE [s EXCEPT !.phase = m.phase, !.rev = m.rev]

(***************************************************************************)
(* Requests of the page.                                                   *)
(***************************************************************************)
Muddling(id) == IF OfId(hub, id) = {} THEN {} ELSE {id}

(* POST /events: journalled first, then queued.                            *)
PostEvent(id, type) ==
  /\ journal' = [journal EXCEPT ![id] = applyRequest(@, type)]
  /\ hub' = enqueueEvent(hub, id, type)

(* handleGo; the generate follows once the screenshot is captured.  The    *)
(* page works on one session at a time.                                    *)
Go(id) ==
  /\ page[id] = "none" /\ \A o \in Sessions : page[o] \in {"none", "closed"}
  /\ page' = [page EXCEPT ![id] = "generating"]
  /\ unsent' = unsent \cup {id}
  /\ UNCHANGED <<up, hub, exitTimer, journal, discarding, wire, source, count, muddled>>

(* captureAndEmit: a generate that cannot be posted is dropped.            *)
Emit(id) ==
  /\ id \in unsent
  /\ unsent' = unsent \ {id}
  /\ IF up THEN PostEvent(id, "generate") ELSE UNCHANGED <<journal, hub>>
  /\ UNCHANGED <<up, exitTimer, page, discarding, wire, source, count, muddled>>

Checkpoint(id) ==
  /\ page[id] \in {"generating", "cycling", "saving"} /\ count.rev[id] < MaxCheckpoints
  /\ count' = [count EXCEPT !.rev[id] = @ + 1]
  /\ wire' = wire \cup {[id |-> id, rev |-> count.rev[id] + 1, phase |-> page[id]]}
  /\ UNCHANGED <<up, hub, exitTimer, journal, page, unsent, discarding, source, muddled>>

CheckpointArrives(m) ==
  /\ m \in wire
  /\ wire' = wire \ {m}
  /\ journal' = IF up THEN [journal EXCEPT ![m.id] = applyCheckpoint(@, m)] ELSE journal
  /\ UNCHANGED <<up, hub, exitTimer, page, unsent, discarding, source, count, muddled>>

(* The variants reach the DOM by hot reload.                               *)
VariantsShow(id) ==
  /\ page[id] = "generating" /\ source[id] = "variants"
  /\ page' = [page EXCEPT ![id] = "cycling"]
  /\ UNCHANGED <<up, hub, exitTimer, journal, unsent, discarding, wire, source, count, muddled>>

CanPost(id) == up /\ page[id] = "cycling" /\ count.posts[id] < MaxPosts
Posted(id, answered) ==
  /\ answered \/ CanUpset
  /\ count' = [count EXCEPT !.posts[id] = @ + 1, !.upsets = IF answered THEN @ ELSE @ + 1]

(* The response of the post may be lost: the page goes back to cycling.    *)
handleAccept(id, answered) ==
  /\ CanPost(id)
  /\ PostEvent(id, "accept")
  /\ page' = IF answered THEN [page EXCEPT ![id] = "saving"] ELSE page
  /\ Posted(id, answered)
  /\ muddled' = muddled \cup Muddling(id) \cup (IF answered THEN {} ELSE {id})
  /\ UNCHANGED <<up, exitTimer, unsent, discarding, wire, source>>

handleDiscard(id) ==
  /\ CanPost(id)
  /\ PostEvent(id, "discard")
  /\ discarding' = discarding \cup {id}
  /\ Posted(id, TRUE)
  /\ muddled' = muddled \cup Muddling(id)
  /\ UNCHANGED <<up, exitTimer, page, unsent, wire, source>>

Discarded(id, answered) ==
  /\ id \in discarding
  /\ answered \/ CanUpset
  /\ IF answered THEN count' = count ELSE Upset
  /\ discarding' = discarding \ {id}
  /\ page' = IF answered THEN [page EXCEPT ![id] = "closed"] ELSE page
  /\ muddled' = IF answered THEN muddled ELSE muddled \cup {id}
  /\ UNCHANGED <<up, hub, exitTimer, journal, unsent, wire, source>>

Steer(id) ==
  /\ up /\ journal[id].phase = "new"
  /\ PostEvent(id, "steer")
  /\ UNCHANGED <<up, exitTimer, page, unsent, discarding, wire, source, count, muddled>>

(* GET /events, and its close.                                             *)
TabConnects ==
  /\ up /\ ~hub.tab
  /\ exitTimer' = FALSE
  /\ LET h == cancelQueuedAnonymousExitEvents(hub)
     IN hub' = [h EXCEPT !.tab = TRUE, !.told = agentPollingConnected(h),
                         !.raced = Racing(hub)]
  /\ UNCHANGED <<up, journal, page, unsent, discarding, wire, source, count, muddled>>

TabCloses ==
  /\ up /\ hub.tab /\ CanUpset
  /\ hub' = [hub EXCEPT !.tab = FALSE, !.told = FALSE]
  /\ exitTimer' = TRUE
  /\ Upset
  /\ UNCHANGED <<up, journal, page, unsent, discarding, wire, source, muddled>>

(* The exit button: an exit event, and teardown, which closes the stream.  *)
ExitLiveMode ==
  /\ up /\ hub.tab /\ CanUpset
  /\ hub' = enqueueEvent([hub EXCEPT !.tab = FALSE, !.told = FALSE], NoId, "exit")
  /\ page' = [id \in Sessions |-> IF page[id] = "none" THEN "none" ELSE "closed"]
  /\ exitTimer' = TRUE
  /\ Upset
  /\ UNCHANGED <<up, journal, unsent, discarding, wire, source, muddled>>

ExitTimerFires ==
  /\ up /\ exitTimer
  /\ exitTimer' = FALSE
  /\ hub' = IF hub.tab THEN hub ELSE enqueueEvent(hub, NoId, "exit")
  /\ UNCHANGED <<up, journal, page, unsent, discarding, wire, source, count, muddled>>

(***************************************************************************)
(* Leases: one runs out; a moment later the timer set for it fires.        *)
(***************************************************************************)
HeldBy(i) == {a \in Agents : /\ hub.agent[a].at = "working"
                            /\ hub.agent[a].id = hub.queue[i].id
                            /\ hub.agent[a].type = hub.queue[i].type}

LeaseRunsOut(i) ==
  /\ up /\ i \in DOMAIN hub.queue /\ hub.queue[i].lease = "live"
  /\ CanUpset \/ HeldBy(i) = {}
  /\ hub' = [hub EXCEPT !.queue[i].lease = "over",
                        !.timer = IF @ = "armed" THEN "due" ELSE @]
  /\ IF HeldBy(i) = {} THEN UNCHANGED count ELSE Upset
  /\ UNCHANGED <<up, exitTimer, journal, page, unsent, discarding, wire, source, muddled>>

LeaseTimerFires ==
  /\ up /\ hub.timer = "due"
  /\ hub' = broadcastAgentPollingIfChanged(flushPendingPolls([hub EXCEPT !.timer = "off"]))
  /\ UNCHANGED <<up, exitTimer, journal, page, unsent, discarding, wire, source, count, muddled>>

(***************************************************************************)
(* Agents.  handlePollGet: an available event at once, or a parked poll.   *)
(***************************************************************************)
Become(h, a, what) == [h EXCEPT !.agent[a] = what]

Poll(a) ==
  /\ up /\ hub.agent[a].at = "idle"
  /\ hub' = IF Available(hub) # {}
              THEN LET i == CHOOSE i \in Available(hub) : \A j \in Available(hub) : i <= j
                       e == hub.queue[i]
                       h == [Become(hub, a, Given(a, e, hub)) EXCEPT
                               !.queue = leaseEvents(@, {i})]
                   IN IF e.id = NoId THEN h
                        ELSE broadcastAgentPollingIfChanged(scheduleLeaseFlush(h))
              ELSE scheduleLeaseFlush(broadcastAgentPollingIfChanged(
                     [Become(hub, a, [Idle EXCEPT !.at = "polling"]) EXCEPT
                        !.polls = Append(@, a)]))
  /\ UNCHANGED <<up, exitTimer, journal, page, unsent, discarding, wire, source, count, muddled>>

(* The poll's timeout, or the close of the connection of a dead process.   *)
PollEnds(a) ==
  /\ up /\ hub.agent[a].at \in {"polling", "lost"}
  /\ hub.agent[a].at = "polling" => CanUpset
  /\ hub' = Unparked(Become(hub, a, Idle), a)
  /\ IF hub.agent[a].at = "polling" THEN Upset ELSE count' = count
  /\ UNCHANGED <<up, exitTimer, journal, page, unsent, discarding, wire, source, muddled>>

(* The event of a dead agent is leased until the lease runs out.           *)
AgentDies(a) ==
  /\ hub.agent[a].at \notin {"idle", "lost", "left"} /\ CanUpset
  /\ hub' = Become(hub, a, IF hub.agent[a].at = "polling" THEN [Idle EXCEPT !.at = "lost"]
                                                          ELSE Idle)
  /\ Upset
  /\ UNCHANGED <<up, exitTimer, journal, page, unsent, discarding, wire, source, muddled>>

(* The agent wraps the element and writes the variants.                    *)
WriteVariants(a) ==
  /\ hub.agent[a].at = "working" /\ hub.agent[a].type = "generate"
  /\ source[hub.agent[a].id] = "original"
  /\ source' = [source EXCEPT ![hub.agent[a].id] = "variants"]
  /\ UNCHANGED <<up, hub, exitTimer, journal, page, unsent, discarding, wire, count, muddled>>

(* handlePollPost.  The page hears of every reply that is not refused.     *)
(* Mutant: a reply to a session that has ended is journalled.              *)
JournalledMutant(id, acked) == TRUE

Journalled(id, acked) == acked \/ journal[id].phase \notin Final

PageAfter(id, type) ==
  IF page[id] \in {"none", "closed"} THEN page[id]
  ELSE CASE type = "error" -> IF page[id] = "saving" THEN "cycling" ELSE "closed"
         [] type = "complete" -> IF page[id] = "saving" THEN "closed" ELSE page[id]
         [] type = "discarded" -> "closed"
         [] type = "done" -> IF page[id] = "generating" /\ source[id] = "variants"
                               THEN "cycling" ELSE page[id]
         [] OTHER -> page[id]

handlePollPost(a, id, type, carbonize, next) ==
  LET acked == OfId(hub, id) # {}
      h == Become(hub, a, next)
  IN IF ~acked /\ journal[id].phase = "new"
       THEN hub' = h /\ UNCHANGED <<journal, page>>
       ELSE /\ journal' = IF Journalled(id, acked)
                            THEN [journal EXCEPT ![id] = applyReply(@, type, carbonize)]
                            ELSE journal
            /\ hub' = flushPendingPolls(acknowledgePendingEvent(h, id))
            /\ page' = IF hub.tab /\ id \in Sessions
                         THEN [page EXCEPT ![id] = PageAfter(id, type)]
                         ELSE page

(* poll --reply: to a generate or a steer; refused while the server is     *)
(* down, when the agent tries again or gives up.                           *)
Reply(a, type) ==
  LET w == hub.agent[a]
  IN /\ w.at = "working"
     /\ \/ w.type = "generate" /\ type \in {"done", "error"}
           /\ (type = "done" => source[w.id] # "original")
        \/ w.type = "steer" /\ type \in {"steer_done", "error"}
     /\ up
     /\ handlePollPost(a, w.id, type, FALSE, Idle)
     /\ UNCHANGED <<up, exitTimer, unsent, discarding, wire, source, count, muddled>>

GiveUp(a) ==
  /\ ~up /\ hub.agent[a].at = "working"
  /\ hub' = Become(hub, a, Idle)
  /\ UNCHANGED <<up, exitTimer, journal, page, unsent, discarding, wire, source, count, muddled>>

(* completionTypeForAcceptResult, for what live-accept found.              *)
(* Mutant: the cleanup an accept leaves is not waited for.                 *)
completionTypeMutant(type, found) ==
  CASE found \in {"handled", "carbonize"} -> IF type = "discard" THEN "discarded" ELSE "complete"
    [] found = "failed" -> "error"
    [] found = "missing" -> IF type = "discard" THEN "error" ELSE "agent_done"

completionType(type, found) ==
  CASE found = "handled" -> IF type = "discard" THEN "discarded" ELSE "complete"
    [] found = "carbonize" -> "agent_done"
    [] found = "failed" -> "error"
    [] found = "missing" -> IF type = "discard" THEN "error" ELSE "agent_done"

(* live-accept, run by the poll command itself: the source is rewritten if *)
(* the markers of the session are there, and the script does not fail.     *)
RunAccept(a, found) ==
  LET w == hub.agent[a]
  IN /\ w.at = "working" /\ w.type \in {"accept", "discard"}
     /\ found = "carbonize" => w.type = "accept"
     /\ (found \in {"handled", "carbonize"}) => source[w.id] = "variants"
     /\ found = "missing" => source[w.id] # "variants"
     /\ source' = CASE found = "carbonize" -> [source EXCEPT ![w.id] = "carbonize"]
                    [] found = "handled" -> [source EXCEPT ![w.id] = "clean"]
                    [] OTHER -> source
     /\ hub' = Become(hub, a, [at |-> "replying", id |-> w.id,
                               type |-> completionType(w.type, found)])
     /\ UNCHANGED <<up, exitTimer, journal, page, unsent, discarding, wire, count, muddled>>

(* Its completion; then the cleanup an accept may need.                    *)
PostCompletion(a) ==
  LET w == hub.agent[a]
      carbonize == w.type = "agent_done" /\ source[w.id] = "carbonize"
      next == IF carbonize THEN [w EXCEPT !.at = "cleaning"] ELSE Idle
  IN /\ w.at = "replying"
     /\ IF up THEN handlePollPost(a, w.id, w.type, carbonize, next)
              ELSE hub' = Become(hub, a, next) /\ UNCHANGED <<journal, page>>
     /\ UNCHANGED <<up, exitTimer, unsent, discarding, wire, source, count, muddled>>

(* live-complete, through the server or, without one, into the journal.    *)
completeCli(a) ==
  LET id == hub.agent[a].id
  IN /\ hub.agent[a].at = "cleaning"
     /\ source' = [source EXCEPT ![id] = "clean"]
     /\ IF up THEN handlePollPost(a, id, "complete", FALSE, Idle)
              ELSE /\ hub' = Become(hub, a, Idle)
                   /\ journal' = [journal EXCEPT ![id] = applyReply(@, "complete", FALSE)]
                   /\ page' = page
     /\ UNCHANGED <<up, exitTimer, unsent, discarding, wire, count, muddled>>

(***************************************************************************)
(* The server ends: by a crash, when parked agents fail and start over, or *)
(* by a stop, which answers them with an exit.  It starts again from the   *)
(* journal.                                                                *)
(***************************************************************************)
ServerEnds(parked) ==
  /\ up /\ CanUpset
  /\ up' = FALSE /\ exitTimer' = FALSE
  /\ hub' = [hub EXCEPT !.queue = <<>>, !.polls = <<>>, !.timer = "off", !.last = {},
                        !.tab = FALSE, !.told = FALSE, !.raced = FALSE,
                        !.agent = [a \in Agents |-> CASE @[a].at = "polling" -> parked
                                                      [] @[a].at = "lost" -> Idle
                                                      [] OTHER -> @[a]]]
  /\ Upset
  /\ UNCHANGED <<journal, page, unsent, discarding, wire, source, muddled>>

Crash == ServerEnds(Idle)
shutdown == ServerEnds([Idle EXCEPT !.at = "left"])

Unfinished == {id \in Ids : journal[id].phase \notin Final /\ journal[id].pending # None}

(* One event for each, in the order of the session ids.                    *)
restorePendingEventsFromStore(q) ==
  /\ \A id \in Unfinished : \E i \in DOMAIN q : q[i] = Entry(id, journal[id].pending)
  /\ \A i, j \in DOMAIN q : q[i].id = q[j].id => i = j

Start ==
  /\ ~up
  /\ up' = TRUE
  /\ \E q \in UNION {[1..n -> {Entry(id, journal[id].pending) : id \in Unfinished}]
                     : n \in 0..Cardinality(Unfinished)} :
       /\ restorePendingEventsFromStore(q)
       /\ hub' = [hub EXCEPT !.queue = q,
                             !.agent = [a \in Agents |-> IF @[a].at = "left" THEN Idle ELSE @[a]]]
  /\ UNCHANGED <<exitTimer, journal, page, unsent, discarding, wire, source, count, muddled>>

AgentFinishes(a) ==
  \/ \E type \in Replies : Reply(a, type)
  \/ \E found \in {"handled", "carbonize", "missing", "failed"} : RunAccept(a, found)
  \/ PostCompletion(a) \/ completeCli(a) \/ GiveUp(a)

Next ==
  \/ \E id \in Sessions :
       Go(id) \/ Emit(id) \/ Checkpoint(id) \/ VariantsShow(id) \/ handleDiscard(id)
  \/ \E id \in Sessions, answered \in BOOLEAN :
       handleAccept(id, answered) \/ Discarded(id, answered)
  \/ \E m \in wire : CheckpointArrives(m)
  \/ \E id \in Steers : Steer(id)
  \/ TabConnects \/ TabCloses \/ ExitLiveMode \/ ExitTimerFires
  \/ \E i \in DOMAIN hub.queue : LeaseRunsOut(i)
  \/ LeaseTimerFires
  \/ \E a \in Agents :
       Poll(a) \/ PollEnds(a) \/ AgentDies(a) \/ WriteVariants(a) \/ AgentFinishes(a)
  \/ Crash \/ shutdown \/ Start

(* Agents poll, finish what they do, and are noticed when they die; leases *)
(* of the dead run out, and timers fire: while one of these is due the hub *)
(* does not stand still.  Within the bounds it changes finitely often, so  *)
(* that this weak fairness of all of them together is enough.              *)
CanProgress ==
  \/ \E a \in Agents : \/ hub.agent[a].at \in {"working", "replying", "cleaning"}
                       \/ up /\ hub.agent[a].at \in {"idle", "lost"}
  \/ \E i \in DOMAIN hub.queue : hub.queue[i].lease = "live" /\ HeldBy(i) = {}
  \/ hub.timer = "due"

Fairness == <>[]CanProgress => []<><<hub' # hub>>_hub

Spec == Init /\ [][Next]_vars
LiveSpec == Spec /\ Fairness

(***************************************************************************)
(* Properties.                                                             *)
(***************************************************************************)

(* No poll stays parked while an event could be handed to it, but for the  *)
(* 2 ms between the end of a lease and its timer, and unless another poll  *)
(* or post came in them, which sets the timer anew: of all the paths that change *)
(* the queue none forgets to flush the polls or to set the timer           *)
(* (live-server.mjs:250-283).                                              *)
NoIdlePoll == hub.polls # <<>> /\ Available(hub) # {} => hub.timer = "due" \/ hub.raced

(* A connected tab shows whether an agent is attached, but for those 2 ms, *)
(* and unless it connected or an event came in them: the timer is cleared, *)
(* or the next poll no change to the server, and the tab is not told       *)
(* (live-server.mjs:250-296).                                              *)
ToldTruth ==
  up /\ hub.tab /\ hub.timer # "due" /\ ~hub.raced => hub.told = agentPollingConnected(hub)

(* What the journal says an agent still has to do is in the queue of the   *)
(* server that runs, after a restart too.                                  *)
NoLostWork ==
  up => \A id \in Unfinished : Queued(hub, id, journal[id].pending)

(* An event in the queue would survive a crash, unless its session had two *)
(* at a time: a reply to the one then clears what the journal says of the  *)
(* other (session-store.mjs:186-187).                                      *)
Durable ==
  \A i \in DOMAIN hub.queue :
    LET e == hub.queue[i]
    IN e.id = NoId \/ e.id \in muddled \/ (e.id \in Unfinished /\ journal[e.id].pending = e.type)

(* The anonymous exit that ends the agents' loop waits in the queue only   *)
(* while no tab is connected: a reload takes it back.                      *)
ExitOnlyAlone == hub.tab => OfId(hub, NoId) = {}

(* A session that was completed or discarded stays so until the page asks  *)
(* for more: neither a late checkpoint nor the late reply of an agent whose *)
(* lease ran out opens it again, unless the page had two of its events     *)
(* pending at a time.                                                      *)
FinalStays ==
  [][\A id \in Ids \ muddled :
       journal[id].phase \in Final =>
         journal'[id].phase \in Final \cup {"accept_requested", "discard_requested"}]_vars

(* A session that the journal calls completed or discarded has left no     *)
(* variants and no markers to clean up in the source (live.md, "Required   *)
(* after accept").                                                         *)
FinalIsClean ==
  \A id \in Sessions : journal[id].phase \in Final => source[id] = "clean"

(* Events do not wait for ever: the queue is empty again and again, though *)
(* agents die with what they took, while the server runs and an agent is   *)
(* left.                                                                   *)
EventsWait == \E i \in DOMAIN hub.queue : hub.queue[i].id # NoId
Delivered == []<>(~EventsWait \/ ~up \/ \A a \in Agents : hub.agent[a].at = "left")

(* The server's volatile state holds together between any two requests and *)
(* timers: no agent waits beside an event, the tab is told whether one     *)
(* polls, and an exit is taken back when the tab returns.                  *)
HubInv == TypeOK /\ NoIdlePoll /\ ToldTruth /\ ExitOnlyAlone

(* Journal, queue and source agree, through restarts of the server, agents *)
(* that die and responses that are lost.                                   *)
JournalInv == NoLostWork /\ Durable /\ FinalIsClean

(***************************************************************************)
(* What makes them inductive.                                              *)
(***************************************************************************)

(* What was broadcast last, nothing at first, is what is shown.            *)
Agrees(last, shown) == last = {shown} \/ (last = {} /\ ~shown)

Flushed(h) == h.polls # <<>> /\ Available(h) # {} => h.timer = "due" \/ h.raced
TimerSet(h) == Leased(h) => h.timer # "off"
Broadcast(h) == h.timer # "due" /\ ~h.raced => Agrees(h.last, agentPollingConnected(h))
Told(h) == h.tab /\ ~h.raced => Agrees(h.last, h.told)
NoExit(h) == h.tab => OfId(h, NoId) = {}

HubGood(h) ==
  h \in Hubs /\ Flushed(h) /\ TimerSet(h) /\ Broadcast(h) /\ Told(h) /\ NoExit(h)

DownIsEmpty ==
  ~up => /\ hub.queue = <<>> /\ hub.polls = <<>> /\ hub.timer = "off"
         /\ hub.last = {} /\ ~hub.tab

(* Every event, queued, journalled or taken, is of the kind its id has.    *)
Fits(id, type) == (type = "steer" <=> id \in Steers) /\ (type = "exit" <=> id = NoId)

QueueFits(h) == \A i \in DOMAIN h.queue : Fits(h.queue[i].id, h.queue[i].type)

AgentFits(w) ==
  /\ w.at = "working" => w.id \in Ids /\ Fits(w.id, w.type)
  /\ w.at \in {"replying", "cleaning"} => w.id \in Sessions

AgentsFit(h) == \A a \in Agents : AgentFits(h.agent[a])

PendingFits == \A id \in Ids : journal[id].pending # None => Fits(id, journal[id].pending)

(* An agent that answers that a session is over has cleaned it up.         *)
AnswersTrue ==
  \A a \in Agents :
    hub.agent[a].at = "replying" /\ hub.agent[a].type \in {"complete", "discarded"} =>
      source[hub.agent[a].id] = "clean"

NobodyHas(h, id) == OfId(h, id) = {} /\ \A a \in Agents : h.agent[a].id # id

(* Nothing but the page knows of a session before its generate is posted.  *)
Unheard(id) ==
  /\ journal[id].phase \notin Final /\ journal[id].pending = None
  /\ NobodyHas(hub, id)
  /\ source[id] # "variants" /\ page[id] \notin {"cycling", "saving"}

UnheardInv ==
  \A id \in Sessions : /\ page[id] = "none" \/ id \in unsent => Unheard(id)
                       /\ id \in unsent => page[id] # "none"

NewInv ==
  \A id \in Ids :
    journal[id].phase = "new" => journal[id].pending = None /\ OfId(hub, id) = {}

(* Two events of one id are pending only if it is muddled.                 *)
OnePending(h, excepted) ==
  \A i, j \in DOMAIN h.queue :
    h.queue[i].id = h.queue[j].id => i = j \/ h.queue[i].id \in excepted \cup {NoId}

WorkInv ==
  /\ QueueFits(hub) /\ AgentsFit(hub) /\ PendingFits
  /\ UnheardInv /\ NewInv /\ OnePending(hub, muddled)

LiveInv ==
  /\ TypeOK /\ HubGood(hub) /\ DownIsEmpty
  /\ WorkInv /\ AnswersTrue /\ JournalInv
=============================================================================
