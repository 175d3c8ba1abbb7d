------------------------------ MODULE TaskDispatch ------------------------------
(***************************************************************************)
(* A boss that dispatches tasks and the worker that runs them: the HTTP    *)
(* handlers of internal/boss (api_handlers.go, openai_chat.go,             *)
(* openai_completions.go, api_async.go), the server's shutdown (api.go),   *)
(* and the worker's stream handler (internal/worker/handler.go).           *)
(*                                                                         *)
(* Both ends hold one libp2p stream.  Either may close or reset it, the    *)
(* connection may die under it, and a worker may fall silent.  Three       *)
(* deadlines of the same length run on their own: the context of an async  *)
(* task from its dispatch, the boss's from its last read, the worker's     *)
(* from the moment it accepted the task.  A clock that shows ExecTimeout   *)
(* stands for that much or more.                                           *)
(*                                                                         *)
(* The shorter time-outs (dial 20 s, payload 30 s, waiting for an artifact *)
(* 10 s) may strike at any moment.  Payload, output and artifact are       *)
(* reduced to whether there is one; ArtifactGate models their delivery.    *)
(***************************************************************************)
EXTENDS Integers, FiniteSets

CONSTANTS
  Executes,            \* dispatches by a handler that streams to its client
  Chats,               \* by one that answers when the task is over
  Asyncs,              \* by /api/execute/async
  MaxConcurrentTasks,  \* of the worker
  MaxInflight,         \* MaxInflightAsyncTasks
  ExecTimeout,         \* TaskExecutionTimeout
  Prompt,              \* whether goroutines are quick, compared with a unit of time
  MaxFaults            \* bound on lost connections and worker deaths

Rated == Executes \union Chats
Dispatches == Rated \union Asyncs

ASSUME DispatchAssumption ==
  /\ IsFiniteSet(Dispatches)
  /\ Rated \intersect Asyncs = {} /\ Executes \intersect Chats = {}
  /\ MaxConcurrentTasks \in Nat /\ MaxInflight \in Nat
  /\ ExecTimeout \in Nat \ {0} /\ MaxFaults \in Nat /\ Prompt \in BOOLEAN

VARIABLES
  boss,      \* where the handler or goroutine of a dispatch is
  server,    \* StartAPIServer
  slots,     \* asyncSlots, which bgWG counts too
  gone,      \* dispatches whose HTTP client has hung up
  recorded,  \* outcomes handed to the CompletionRatingWriter
  webhook,   \* whether the POST was made, or its context was over
  stream,    \* the task stream
  payload,   \* dispatches whose payload is on the stream
  output,    \* those with output the boss has not read
  task,      \* where the worker's handleTaskStream is
  running,   \* currentTasks
  clock,     \* time since each deadline was armed
  faults

bossVars == <<boss, slots, recorded, webhook>>
workerVars == <<task, running>>
wire == <<stream, payload, output>>
vars == <<bossVars, server, gone, wire, workerVars, clock, faults>>

Outcome == {"success", "failure"}
Waiting == {"dial", "send", "read", "artifact", "webhook"}
Holding == {"load", "payload", "running", "collect", "sending", "closing"}
Clock == {"dispatched", "read", "accepted"}

TypeOK ==
  /\ boss \in [Dispatches -> {"new", "refused", "ended"} \union Waiting]
  /\ server \in {"up", "closing", "draining", "offline"}
  /\ slots \in Nat
  /\ gone \in SUBSET Rated
  /\ recorded \in [Dispatches -> [Outcome -> Nat]]
  /\ webhook \in [Dispatches -> {"none", "posted", "dead"}]
  /\ stream \in [Dispatches -> {"none", "open", "closed", "reset", "lost"}]
  /\ payload \in SUBSET Dispatches
  /\ output \in SUBSET Dispatches
  /\ task \in [Dispatches -> {"none", "done"} \union Holding]
  /\ running \in Nat
  /\ clock \in [Dispatches -> [Clock -> 0..ExecTimeout]]
  /\ faults \in 0..MaxFaults

Init ==
  /\ boss = [d \in Dispatches |-> "new"]
  /\ server = "up" /\ slots = 0 /\ gone = {}
  /\ recorded = [d \in Dispatches |-> [o \in Outcome |-> 0]]
  /\ webhook = [d \in Dispatches |-> "none"]
  /\ stream = [d \in Dispatches |-> "none"]
  /\ payload = {} /\ output = {}
  /\ task = [d \in Dispatches |-> "none"]
  /\ running = 0
  /\ clock = [d \in Dispatches |-> [c \in Clock |-> 0]]
  /\ faults = 0

--------------------------------------------------------------------------------
(* The boss. *)

(* The context of a dial or a webhook: of the request, or of the async task. *)
CtxDone(d) ==
  IF d \in Asyncs
  THEN server # "up" \/ clock[d]["dispatched"] >= ExecTimeout
  ELSE d \in gone

Restarted(d, c) == [clock EXCEPT ![d][c] = 0]

(* The HTTP handler up to the dial; an async task needs a free slot. *)
Dispatch(d) ==
  /\ boss[d] = "new" /\ server \in {"up", "closing"}
  /\ \/ /\ d \in Asyncs => slots < MaxInflight
        /\ boss' = [boss EXCEPT ![d] = "dial"]
        /\ slots' = IF d \in Asyncs THEN slots + 1 ELSE slots
     \/ /\ d \in Asyncs /\ slots >= MaxInflight
        /\ boss' = [boss EXCEPT ![d] = "refused"]
        /\ UNCHANGED slots
  /\ clock' = Restarted(d, "dispatched")
  /\ UNCHANGED <<recorded, webhook, server, gone, wire, workerVars, faults>>

(* Mutant: a dial that fails is not recorded. *)
RecordMutant(d, o) ==
  recorded' = IF d \in Rated /\ boss[d] # "dial"
              THEN [recorded EXCEPT ![d][o] = @ + 1] ELSE recorded

Record(d, o) ==
  recorded' = IF d \in Rated THEN [recorded EXCEPT ![d][o] = @ + 1] ELSE recorded

(* Mutant: only a task that came to its webhook gives its slot back. *)
ReleaseMutant(d) == IF d \in Asyncs /\ boss[d] = "webhook" THEN slots - 1 ELSE slots

Release(d) == IF d \in Asyncs THEN slots - 1 ELSE slots

(* Leaving without success: the deferred functions reset the stream and    *)
(* record the outcome.                                                     *)
Fail(d) ==
  /\ boss' = [boss EXCEPT ![d] = "ended"]
  /\ stream' = [stream EXCEPT ![d] = IF @ \in {"open", "closed"} THEN "reset" ELSE @]
  /\ Record(d, "failure")
  /\ slots' = Release(d)

DialWorkerStream(d) ==
  /\ boss[d] = "dial"
  /\ \/ /\ ~CtxDone(d)
        /\ boss' = [boss EXCEPT ![d] = "send"]
        /\ stream' = [stream EXCEPT ![d] = "open"]
        /\ UNCHANGED <<slots, recorded>>
     \/ Fail(d)
  /\ UNCHANGED <<webhook, server, gone, payload, output, workerVars, clock, faults>>

SendPrompt(d) ==
  /\ boss[d] = "send"
  /\ \/ /\ stream[d] \in {"open", "closed"}
        /\ boss' = [boss EXCEPT ![d] = "read"]
        /\ payload' = payload \union {d}
        /\ clock' = Restarted(d, "read")
        /\ UNCHANGED <<slots, recorded, stream>>
     \/ Fail(d) /\ UNCHANGED <<payload, clock>>
  /\ UNCHANGED <<webhook, server, gone, output, workerVars, faults>>

(* A chunk is read and passed on, which may fail when the client has left. *)
ReadOutput(d) ==
  /\ boss[d] = "read" /\ d \in output /\ stream[d] \in {"open", "closed"}
  /\ output' = output \ {d}
  /\ clock' = Restarted(d, "read")
  /\ \/ UNCHANGED <<boss, slots, recorded, stream>>
     \/ d \in Executes \intersect gone /\ Fail(d)
  /\ UNCHANGED <<webhook, server, gone, payload, workerVars, faults>>

(* Mutant: a broken stream passes for its end. *)
AtEOFMutant(d) == stream[d] \in {"closed", "reset"}

AtEOF(d) == stream[d] = "closed"

ReadEOF(d) ==
  /\ boss[d] = "read" /\ d \notin output /\ AtEOF(d)
  /\ boss' = [boss EXCEPT ![d] = IF d \in Asyncs THEN "artifact" ELSE "ended"]
  /\ Record(d, "success")
  /\ UNCHANGED <<slots, webhook, server, gone, wire, workerVars, clock, faults>>

(* An answer that is kept until the task is over is cut at a maximal length,   *)
(* as if the stream had ended there; the worker need not notice.               *)
CutAnswer(d) ==
  /\ boss[d] = "read" /\ d \in output \intersect Chats
  /\ stream[d] \in {"open", "closed"}
  /\ boss' = [boss EXCEPT ![d] = "ended"]
  /\ Record(d, "success")
  /\ UNCHANGED <<slots, webhook, server, gone, wire, workerVars, clock, faults>>

(* Mutant: the deadline is not armed. *)
OverdueMutant(d) == FALSE

Overdue(d) == clock[d]["read"] >= ExecTimeout

(* Nothing to read yet. *)
Blocked(d) == boss[d] = "read" /\ stream[d] = "open" /\ d \notin output

(* The stream is broken or silent for too long, or a line of it is too long *)
(* for the scanner of the OpenAI handlers.                                  *)
ReadFails(d) ==
  /\ boss[d] = "read"
  /\ \/ stream[d] \in {"reset", "lost"}
     \/ Blocked(d) /\ Overdue(d)
     \/ d \in output \intersect Rated
  /\ Fail(d)
  /\ UNCHANGED <<webhook, server, gone, payload, output, workerVars, clock, faults>>

WaitForArtifact(d) ==
  /\ boss[d] = "artifact"
  /\ boss' = [boss EXCEPT ![d] = "webhook"]
  /\ UNCHANGED <<slots, recorded, webhook, server, gone, wire, workerVars, clock, faults>>

PostWebhook(d) ==
  /\ boss[d] = "webhook"
  /\ boss' = [boss EXCEPT ![d] = "ended"]
  /\ webhook' = [webhook EXCEPT ![d] = IF CtxDone(d) THEN "dead" ELSE "posted"]
  /\ slots' = Release(d)
  /\ UNCHANGED <<recorded, server, gone, wire, workerVars, clock, faults>>

HangUp(d) ==
  /\ d \in Rated \ gone /\ boss[d] \in Waiting
  /\ gone' = gone \union {d}
  /\ UNCHANGED <<bossVars, server, wire, workerVars, clock, faults>>

(* Mutant: the task's context has no deadline. *)
CancelledMutant(d) == stream[d] = "lost"

(* The deadline of the task, or its connection is closed. *)
Cancelled(d) == clock[d]["accepted"] >= ExecTimeout \/ stream[d] = "lost"

(* All wait: for the other end, the sandbox or the transfer of an artifact. *)
Quiet ==
  \A d \in Dispatches :
    /\ boss[d] \in Waiting /\ server # "offline" => Blocked(d) /\ ~Overdue(d)
    /\ task[d] = "none" => stream[d] = "none"
    /\ task[d] \in Holding => task[d] = "sending" \/ (task[d] = "running" /\ ~Cancelled(d))

(* StartAPIServer after the signal: Shutdown waits 10 s for handlers, then *)
(* bgWG is waited for, 30 s at most.  No async task takes that long, its   *)
(* context being cancelled, but one that reads a silent stream.            *)
InFlight == {d \in Asyncs : boss[d] \in Waiting}

(* The streams that share a connection with the worker that is gone. *)
Severed ==
  [d \in Dispatches |->
     IF \/ stream[d] \in {"open", "reset"}
        \/ (stream[d] = "closed" /\ boss[d] \in {"send", "read"})
     THEN "lost" ELSE stream[d]]

Shutdown ==
  /\ \/ server = "up" /\ server' = "closing" /\ UNCHANGED stream
     \/ server = "closing" /\ server' = "draining" /\ UNCHANGED stream
     \/ /\ server = "draining" /\ server' = "offline"
        /\ slots = 0 \/ ((\A d \in InFlight : Blocked(d)) /\ (Prompt => Quiet))
        /\ stream' = Severed
  /\ UNCHANGED <<bossVars, gone, payload, output, workerVars, clock, faults>>

--------------------------------------------------------------------------------
(* The worker. *)

(* It may write to a stream that is still open, until the deadline of the task. *)
Writable(d) ==
  /\ stream[d] = "open"
  /\ task[d] \in {"running", "collect", "closing"} => clock[d]["accepted"] < ExecTimeout

Say(d) == output' = IF Writable(d) THEN output \union {d} ELSE output

(* The deferred functions: the stream is closed or reset, and the capacity *)
(* given back.                                                             *)
Leave(d, how) ==
  /\ stream' = [stream EXCEPT ![d] = IF @ = "open" THEN how ELSE @]
  /\ task' = [task EXCEPT ![d] = "done"]
  /\ running' = running - 1

(* Mutant: off by one. *)
AtCapacityMutant == running > MaxConcurrentTasks

AtCapacity == running >= MaxConcurrentTasks

Accept(d) ==
  /\ task[d] = "none" /\ stream[d] # "none"
  /\ \/ /\ AtCapacity
        /\ Say(d)
        /\ stream' = [stream EXCEPT ![d] = IF @ = "open" THEN "closed" ELSE @]
        /\ task' = [task EXCEPT ![d] = "done"]
        /\ UNCHANGED running
     \/ /\ ~AtCapacity
        /\ task' = [task EXCEPT ![d] = "load"]
        /\ running' = running + 1
        /\ UNCHANGED <<stream, output>>
  /\ UNCHANGED <<bossVars, server, gone, payload, clock, faults>>

(* Too much CPU or GPU in use, or go on. *)
CheckLoad(d) ==
  /\ task[d] = "load"
  /\ \/ Say(d) /\ Leave(d, "closed")
     \/ task' = [task EXCEPT ![d] = "payload"] /\ UNCHANGED <<stream, output, running>>
  /\ UNCHANGED <<bossVars, server, gone, payload, clock, faults>>

(* Decoded and run; of another version, or no container to be started; or not *)
(* read in time.                                                              *)
ReadPayload(d) ==
  /\ task[d] = "payload"
  /\ \/ /\ d \in payload /\ stream[d] = "open"
        /\ task' = [task EXCEPT ![d] = "running"]
        /\ clock' = Restarted(d, "accepted")
        /\ UNCHANGED <<stream, output, running>>
     \/ d \in payload /\ Say(d) /\ Leave(d, "closed") /\ UNCHANGED clock
     \/ Leave(d, "reset") /\ UNCHANGED <<output, clock>>
  /\ UNCHANGED <<bossVars, server, gone, payload, faults>>

Output(d) ==
  /\ task[d] = "running" /\ Writable(d)
  /\ output' = output \union {d}
  /\ UNCHANGED <<bossVars, server, gone, stream, payload, workerVars, clock, faults>>

Ended(d) ==
  /\ task' = [task EXCEPT ![d] = "collect"]
  /\ UNCHANGED <<bossVars, server, gone, wire, running, clock, faults>>

(* The sandbox ends, well or not, or is killed by a write that failed. *)
SandboxExits(d) == task[d] = "running" /\ Ended(d)

Kill(d) == task[d] = "running" /\ Cancelled(d) /\ Ended(d)

(* With artifacts or without. *)
Collect(d) ==
  /\ task[d] = "collect"
  /\ Say(d)
  /\ \E next \in {"sending", "closing"} : task' = [task EXCEPT ![d] = next]
  /\ UNCHANGED <<bossVars, server, gone, stream, payload, running, clock, faults>>

(* SendArtifacts: its result is only logged. *)
SendArtifacts(d) ==
  /\ task[d] = "sending"
  /\ task' = [task EXCEPT ![d] = "closing"]
  /\ UNCHANGED <<bossVars, server, gone, wire, running, clock, faults>>

(* After a failure the marker of it comes last. *)
CloseStream(d) ==
  /\ task[d] = "closing"
  /\ Say(d) \/ UNCHANGED output
  /\ Leave(d, "closed")
  /\ UNCHANGED <<bossVars, server, gone, payload, clock, faults>>

--------------------------------------------------------------------------------
(* The network, and time. *)

ConnectionLost ==
  /\ faults < MaxFaults
  /\ stream' = Severed
  /\ faults' = faults + 1
  /\ UNCHANGED <<bossVars, server, gone, payload, output, workerVars, clock>>

(* The worker dies and restarts; its peers may or may not notice. *)
WorkerDies ==
  /\ faults < MaxFaults
  /\ stream' = Severed \/ UNCHANGED stream
  /\ task' = [d \in Dispatches |-> IF stream[d] = "none" THEN task[d] ELSE "done"]
  /\ running' = 0
  /\ faults' = faults + 1
  /\ UNCHANGED <<bossVars, server, gone, payload, output, clock>>

Time ==
  /\ Prompt => Quiet
  /\ clock' = [d \in Dispatches |-> [c \in Clock |->
       IF clock[d][c] < ExecTimeout THEN clock[d][c] + 1 ELSE ExecTimeout]]
  /\ UNCHANGED <<bossVars, server, gone, wire, workerVars, faults>>

BossStep(d) ==
  /\ server # "offline"
  /\ \/ DialWorkerStream(d) \/ SendPrompt(d)
     \/ ReadOutput(d) \/ ReadEOF(d) \/ CutAnswer(d) \/ ReadFails(d)
     \/ WaitForArtifact(d) \/ PostWebhook(d)

WorkerStep(d) ==
  \/ Accept(d) \/ CheckLoad(d) \/ ReadPayload(d)
  \/ Kill(d) \/ Collect(d) \/ SendArtifacts(d) \/ CloseStream(d)

SandboxStep(d) == Output(d) \/ SandboxExits(d)

Next ==
  \/ \E d \in Dispatches :
       \/ Dispatch(d) \/ BossStep(d) \/ HangUp(d)
       \/ WorkerStep(d) \/ SandboxStep(d)
  \/ Shutdown \/ ConnectionLost \/ WorkerDies \/ Time

Spec == Init /\ [][Next]_vars

(* Goroutines run while their process does, and time passes; a sandbox need *)
(* never end by itself, nor a client call or the operator stop the boss.    *)
FairSpec ==
  /\ Spec /\ WF_vars(Time)
  /\ \A d \in Dispatches : WF_vars(BossStep(d)) /\ WF_vars(WorkerStep(d))

--------------------------------------------------------------------------------
(* Properties. *)

Outcomes(d) == recorded[d]["success"] + recorded[d]["failure"]

Credited(d) == recorded[d]["success"] > 0

(* Whose handlers the worker has live. *)
Busy == {d \in Dispatches : task[d] \in Holding}

(* Exactly one outcome is recorded per dispatch that ends, on every path, and  *)
(* none before or for an async one (api_handlers.go:261-273).                  *)
OneOutcome ==
  \A d \in Dispatches :
    Outcomes(d) = IF d \in Rated /\ boss[d] = "ended" THEN 1 ELSE 0

(* A worker is credited only if its handler came to its graceful close: never  *)
(* one that died, fell silent or reset the stream (completion_rating.go:20).   *)
(* That says nothing of answers that may be cut.                               *)
SuccessMeansClosed ==
  \A d \in Dispatches \ Chats :
    Credited(d) => stream[d] = "closed" /\ task[d] = "done"

(* Every async slot belongs to a task in flight, and there are not more of     *)
(* them than the cap, whatever path the tasks take (api_async.go:124-154).     *)
SlotsAccounted ==
  /\ slots = Cardinality(InFlight)
  /\ slots <= MaxInflight

(* The worker's count is that of its live handlers, and within its capacity,   *)
(* through rejections, resets and restarts (handler.go:88-108).                *)
CapacityKept ==
  /\ running = Cardinality(Busy)
  /\ running <= MaxConcurrentTasks

(* What makes them inductive. *)
StreamInv ==
  \A d \in Dispatches :
    /\ stream[d] = "none" => task[d] = "none"
    /\ stream[d] = "closed" => task[d] = "done"
    /\ boss[d] \in {"artifact", "webhook"} => d \in Asyncs

DispatchInv ==
  TypeOK /\ OneOutcome /\ SuccessMeansClosed /\ SlotsAccounted /\ CapacityKept /\ StreamInv

(* Every dispatch comes to its end, even of a worker that fell silent, while   *)
(* the gateway is up.                                                          *)
DispatchEnds ==
  \A d \in Dispatches :
    boss[d] \in Waiting ~> (boss[d] = "ended" \/ server = "offline")

(* A worker's capacity comes back whatever becomes of boss, client or sandbox. *)
CapacityReturns == <>[](running = 0)

(* "After every completed or failed dispatch, the Boss records an aggregate    *)
(* outcome rating" (docs/trust.md:84).                                         *)
(* No run states it, since the code does not keep it (README).                 *)
EveryDispatchRated ==
  \A d \in Dispatches : boss[d] = "ended" => Outcomes(d) = 1

(* "After the task's stdout drains, the Boss waits up to ~10s for the artifact *)
(* zip to land, then POSTs" (docs/http-api.md).                                *)
(* No run states it, since the code does not keep it (README).                 *)
CompletedNotified ==
  \A d \in Asyncs :
    boss[d] = "ended" /\ stream[d] = "closed" /\ server = "up"
      => webhook[d] = "posted"

================================================================================
