--------------------------- MODULE TaskDispatchProofs ---------------------------
(* Proofs about TaskDispatch, for every set of dispatches, every capacity, cap  *)
(* and time-out, and any number of faults.                                      *)
EXTENDS TaskDispatch, FiniteSetTheorems, TLAPS

LEMMA FiniteParts ==
  /\ IsFiniteSet(InFlight) /\ Cardinality(InFlight) \in Nat
  /\ IsFiniteSet(Busy) /\ Cardinality(Busy) \in Nat
<1>1. InFlight \subseteq Dispatches /\ Busy \subseteq Dispatches
  BY DEF InFlight, Busy, Dispatches
<1> QED BY <1>1, DispatchAssumption, FS_Subset, FS_CardinalityType

LEMMA DispatchInit == Init => DispatchInv
<1> SUFFICES ASSUME Init PROVE DispatchInv
  OBVIOUS
<1> USE DispatchAssumption
<1>1. TypeOK
  BY DEF Init, TypeOK, Waiting, Holding, Outcome, Clock
<1>2. OneOutcome /\ SuccessMeansClosed /\ StreamInv
  BY DEF Init, OneOutcome, Outcomes, Outcome, SuccessMeansClosed, Credited, StreamInv
<1>3. InFlight = {} /\ Busy = {}
  BY DEF Init, InFlight, Busy, Waiting, Holding, Dispatches
<1>4. SlotsAccounted /\ CapacityKept
  BY <1>3, FS_EmptySet DEF Init, SlotsAccounted, CapacityKept
<1> QED BY <1>1, <1>2, <1>4 DEF DispatchInv

(* What the boss's steps do to the slots. *)
LEMMA BossMoves ==
  ASSUME TypeOK, SlotsAccounted, NEW d \in Dispatches, boss[d] \in Waiting,
         NEW w \in Waiting, boss' = [boss EXCEPT ![d] = w], slots' = slots
  PROVE  SlotsAccounted'
<1>1. InFlight' = InFlight
  BY DEF InFlight, TypeOK, Dispatches
<1> QED BY <1>1 DEF SlotsAccounted

LEMMA BossEnds ==
  ASSUME TypeOK, SlotsAccounted, NEW d \in Dispatches, boss[d] \in Waiting,
         boss' = [boss EXCEPT ![d] = "ended"], slots' = Release(d)
  PROVE  slots' \in Nat /\ SlotsAccounted'
<1>1. InFlight' = InFlight \ {d} /\ (d \in InFlight <=> d \in Asyncs)
  BY DEF InFlight, TypeOK, Dispatches, Waiting
<1>2. /\ Cardinality(InFlight') = IF d \in Asyncs THEN Cardinality(InFlight) - 1
                                  ELSE Cardinality(InFlight)
      /\ Cardinality(InFlight') \in Nat
  <2>1. IsFiniteSet(InFlight)
    BY FiniteParts
  <2> QED BY <1>1, <2>1, FS_RemoveElement, FS_CardinalityType
<1> QED BY <1>2, DispatchAssumption DEF SlotsAccounted, Release, TypeOK

(* Leaving without success. *)
LEMMA FailStep ==
  ASSUME DispatchInv, NEW d \in Dispatches, boss[d] \in Waiting, Fail(d), task' = task
  PROVE  /\ boss' \in [Dispatches -> {"new", "refused", "ended"} \union Waiting]
         /\ stream' \in [Dispatches -> {"none", "open", "closed", "reset", "lost"}]
         /\ recorded' \in [Dispatches -> [Outcome -> Nat]]
         /\ slots' \in Nat
         /\ OneOutcome' /\ SuccessMeansClosed' /\ SlotsAccounted' /\ StreamInv'
<1> USE DEF DispatchInv
<1>1. /\ boss' = [boss EXCEPT ![d] = "ended"]
      /\ stream' = [stream EXCEPT ![d] = IF @ \in {"open", "closed"} THEN "reset" ELSE @]
      /\ recorded' = IF d \in Rated
                     THEN [recorded EXCEPT ![d]["failure"] = @ + 1] ELSE recorded
  BY DEF Fail, Record
<1>2. slots' \in Nat /\ SlotsAccounted'
  BY <1>1, BossEnds DEF Fail
<1>3. recorded' \in [Dispatches -> [Outcome -> Nat]]
  BY <1>1 DEF TypeOK, Outcome
<1>4. /\ boss' \in [Dispatches -> {"new", "refused", "ended"} \union Waiting]
      /\ stream' \in [Dispatches -> {"none", "open", "closed", "reset", "lost"}]
  BY <1>1 DEF TypeOK
<1>5. OneOutcome'
  BY <1>1 DEF OneOutcome, Outcomes, TypeOK, Outcome, Waiting
<1>6. SuccessMeansClosed'
  <2>1. recorded[d]["success"] = 0
    BY DEF OneOutcome, Outcomes, TypeOK, Outcome, Waiting
  <2>2. \A e \in Dispatches : recorded'[e]["success"] = recorded[e]["success"]
    BY <1>1 DEF TypeOK, Outcome
  <2> QED BY <1>1, <2>1, <2>2 DEF SuccessMeansClosed, Credited, TypeOK
<1>7. StreamInv'
  BY <1>1 DEF StreamInv, TypeOK
<1> QED BY <1>2, <1>3, <1>4, <1>5, <1>6, <1>7

(* What the worker's steps do to its count. *)
LEMMA TaskMoves ==
  ASSUME TypeOK, CapacityKept, NEW d \in Dispatches, task[d] \in Holding,
         NEW w \in Holding, task' = [task EXCEPT ![d] = w], running' = running
  PROVE  CapacityKept' /\ task' \in [Dispatches -> {"none", "done"} \union Holding]
<1>1. Busy' = Busy
  BY DEF Busy, TypeOK
<1> QED BY <1>1 DEF CapacityKept, TypeOK

LEMMA LeaveStep ==
  ASSUME DispatchInv, NEW d \in Dispatches, task[d] \in Holding,
         NEW how \in {"closed", "reset"}, Leave(d, how), UNCHANGED <<boss, recorded>>
  PROVE  /\ stream' \in [Dispatches -> {"none", "open", "closed", "reset", "lost"}]
         /\ task' \in [Dispatches -> {"none", "done"} \union Holding]
         /\ running' \in Nat
         /\ SuccessMeansClosed' /\ CapacityKept' /\ StreamInv'
<1> USE DEF DispatchInv
<1>1. /\ stream' = [stream EXCEPT ![d] = IF @ = "open" THEN how ELSE @]
      /\ task' = [task EXCEPT ![d] = "done"]
      /\ running' = running - 1
  BY DEF Leave
<1>2. /\ stream' \in [Dispatches -> {"none", "open", "closed", "reset", "lost"}]
      /\ task' \in [Dispatches -> {"none", "done"} \union Holding]
  BY <1>1 DEF TypeOK
<1>3. Busy' = Busy \ {d} /\ d \in Busy
  BY <1>1 DEF Busy, TypeOK, Holding
<1>4. Cardinality(Busy') = Cardinality(Busy) - 1 /\ Cardinality(Busy') \in Nat
  <2>1. IsFiniteSet(Busy)
    BY FiniteParts
  <2> QED BY <1>3, <2>1, FS_RemoveElement, FS_CardinalityType
<1>5. running' \in Nat /\ CapacityKept'
  BY <1>1, <1>4, DispatchAssumption DEF CapacityKept, TypeOK
<1>6. SuccessMeansClosed' /\ StreamInv'
  BY <1>1 DEF SuccessMeansClosed, Credited, StreamInv, TypeOK, Holding
<1> QED BY <1>2, <1>5, <1>6

LEMMA ClockRestarts ==
  ASSUME TypeOK, NEW d \in Dispatches, NEW c \in Clock
  PROVE  Restarted(d, c) \in [Dispatches -> [Clock -> 0..ExecTimeout]]
BY DispatchAssumption DEF TypeOK, Restarted

LEMMA DispatchStep ==
  ASSUME DispatchInv, NEW d \in Dispatches, Dispatch(d)
  PROVE  DispatchInv'
<1> USE DEF DispatchInv
<1>1. /\ boss[d] = "new"
      /\ clock' = Restarted(d, "dispatched")
      /\ UNCHANGED <<recorded, webhook, server, gone, stream, payload, output,
                     task, running, faults>>
  BY DEF Dispatch, wire, workerVars
<1>2. clock' \in [Dispatches -> [Clock -> 0..ExecTimeout]]
  BY <1>1, ClockRestarts DEF Clock
<1>3. /\ slots' \in Nat /\ SlotsAccounted'
      /\ boss' \in [Dispatches -> {"new", "refused", "ended"} \union Waiting]
      /\ \E b \in {"dial", "refused"} : boss' = [boss EXCEPT ![d] = b]
  <2>1. CASE /\ d \in Asyncs => slots < MaxInflight
             /\ boss' = [boss EXCEPT ![d] = "dial"]
             /\ slots' = IF d \in Asyncs THEN slots + 1 ELSE slots
    <3>1. /\ InFlight' = IF d \in Asyncs THEN InFlight \union {d} ELSE InFlight
          /\ d \notin InFlight
      BY <1>1, <2>1 DEF InFlight, TypeOK, Dispatches, Waiting
    <3>2. Cardinality(InFlight') = IF d \in Asyncs THEN Cardinality(InFlight) + 1
                                   ELSE Cardinality(InFlight)
      BY <3>1, FiniteParts, FS_AddElement
    <3> QED BY <2>1, <3>2, DispatchAssumption DEF SlotsAccounted, TypeOK, Waiting
  <2>2. CASE boss' = [boss EXCEPT ![d] = "refused"] /\ slots' = slots
    <3>1. InFlight' = InFlight
      BY <1>1, <2>2 DEF InFlight, TypeOK, Dispatches, Waiting
    <3> QED BY <2>2, <3>1 DEF SlotsAccounted, TypeOK
  <2> QED BY <2>1, <2>2 DEF Dispatch
<1>4. OneOutcome' /\ SuccessMeansClosed' /\ StreamInv'
  BY <1>1, <1>3 DEF OneOutcome, Outcomes, SuccessMeansClosed, Credited, StreamInv, TypeOK
<1>5. TypeOK'
  BY <1>1, <1>2, <1>3 DEF TypeOK
<1>6. CapacityKept'
  BY <1>1 DEF CapacityKept, Busy
<1> QED BY <1>3, <1>4, <1>5, <1>6

(* Steps of the boss that fail, one by one or with another outcome. *)
LEMMA FailKeeps ==
  ASSUME DispatchInv, NEW d \in Dispatches, boss[d] \in Waiting, Fail(d),
         payload' \in SUBSET Dispatches, output' \in SUBSET Dispatches,
         clock' \in [Dispatches -> [Clock -> 0..ExecTimeout]],
         UNCHANGED <<webhook, server, gone, workerVars, faults>>
  PROVE  DispatchInv'
<1>1. UNCHANGED <<webhook, server, gone, task, running, faults>>
  BY DEF workerVars
<1>2. CapacityKept'
  BY <1>1 DEF DispatchInv, CapacityKept, Busy
<1>3. TypeOK'
  BY <1>1, FailStep DEF DispatchInv, TypeOK
<1> QED BY <1>1, <1>2, <1>3, FailStep DEF DispatchInv

(* Steps of the boss that move on. *)
LEMMA MoveKeeps ==
  ASSUME DispatchInv, NEW d \in Dispatches, boss[d] \in Waiting, NEW w \in Waiting,
         w \in {"artifact", "webhook"} => d \in Asyncs,
         boss' = [boss EXCEPT ![d] = w],
         payload' \in SUBSET Dispatches, output' \in SUBSET Dispatches,
         clock' \in [Dispatches -> [Clock -> 0..ExecTimeout]],
         stream' = stream \/ stream' = [stream EXCEPT ![d] = "open"],
         UNCHANGED <<slots, recorded, webhook, server, gone, workerVars, faults>>
  PROVE  DispatchInv'
<1> USE DEF DispatchInv
<1>1. UNCHANGED <<slots, recorded, webhook, server, gone, task, running, faults>>
  BY DEF workerVars
<1>2. SlotsAccounted'
  BY <1>1, BossMoves
<1>3. CapacityKept'
  BY <1>1 DEF CapacityKept, Busy
<1>4. TypeOK'
  BY <1>1 DEF TypeOK
<1>5. OneOutcome'
  BY <1>1 DEF OneOutcome, Outcomes, TypeOK, Waiting
<1>6. recorded[d]["success"] = 0
  BY DEF OneOutcome, Outcomes, TypeOK, Outcome, Waiting
<1>7. SuccessMeansClosed' /\ StreamInv'
  BY <1>1, <1>6 DEF SuccessMeansClosed, Credited, StreamInv, TypeOK
<1> QED BY <1>2, <1>3, <1>4, <1>5, <1>7

(* The boss takes the stream to be over. *)
LEMMA SucceedKeeps ==
  ASSUME DispatchInv, NEW d \in Dispatches, boss[d] = "read",
         d \in Chats \/ stream[d] = "closed",
         boss' = [boss EXCEPT ![d] = IF d \in Asyncs THEN "artifact" ELSE "ended"],
         Record(d, "success"),
         UNCHANGED <<slots, webhook, server, gone, wire, workerVars, clock, faults>>
  PROVE  DispatchInv'
<1> USE DEF DispatchInv
<1>1. /\ recorded' = IF d \in Rated
                     THEN [recorded EXCEPT ![d]["success"] = @ + 1] ELSE recorded
      /\ UNCHANGED <<slots, webhook, server, gone, stream, payload, output,
                     task, running, clock, faults>>
  BY DEF Record, wire, workerVars
<1>2. d \in Rated <=> d \notin Asyncs
  BY DispatchAssumption DEF Dispatches
<1>3. InFlight' = InFlight
  BY DEF InFlight, TypeOK, Dispatches, Waiting
<1>4. SlotsAccounted'
  BY <1>1, <1>3 DEF SlotsAccounted
<1>5. CapacityKept' /\ StreamInv'
  BY <1>1 DEF CapacityKept, Busy, StreamInv, TypeOK
<1>6. TypeOK'
  <2>1. recorded' \in [Dispatches -> [Outcome -> Nat]]
    BY <1>1 DEF TypeOK, Outcome
  <2>2. boss' \in [Dispatches -> {"new", "refused", "ended"} \union Waiting]
    BY DEF TypeOK, Waiting
  <2> QED BY <1>1, <2>1, <2>2 DEF TypeOK
<1>7. OneOutcome'
  <2>1. \A e \in Dispatches \ {d} : recorded'[e] = recorded[e] /\ boss'[e] = boss[e]
    BY <1>1 DEF TypeOK
  <2>2. CASE d \in Asyncs
    BY <1>1, <1>2, <2>1, <2>2 DEF OneOutcome, Outcomes
  <2>3. CASE d \in Rated
    <3>1. /\ recorded'[d]["success"] = recorded[d]["success"] + 1
          /\ recorded'[d]["failure"] = recorded[d]["failure"]
          /\ boss'[d] = "ended"
      BY <1>1, <1>2, <2>3 DEF TypeOK, Outcome
    <3>2. /\ recorded[d]["success"] + recorded[d]["failure"] = 0
          /\ recorded[d]["success"] \in Nat /\ recorded[d]["failure"] \in Nat
      BY DEF OneOutcome, Outcomes, TypeOK, Outcome
    <3>3. recorded'[d]["success"] + recorded'[d]["failure"] = 1
      BY <3>1, <3>2
    <3>4. ASSUME NEW e \in Dispatches \ {d}
          PROVE  Outcomes(e)' = IF e \in Rated /\ boss'[e] = "ended" THEN 1 ELSE 0
      BY <2>1, <3>4 DEF OneOutcome, Outcomes
    <3>5. Outcomes(d)' = IF d \in Rated /\ boss'[d] = "ended" THEN 1 ELSE 0
      BY <2>3, <3>1, <3>3 DEF Outcomes
    <3> QED BY <3>4, <3>5 DEF OneOutcome
  <2> QED BY <1>2, <2>2, <2>3
<1>8. SuccessMeansClosed'
  <2>1. d \notin Chats => stream[d] = "closed" /\ task[d] = "done"
    BY DEF StreamInv
  <2>2. \A e \in Dispatches \ {d} : recorded'[e] = recorded[e]
    BY <1>1 DEF TypeOK
  <2> QED BY <1>1, <2>1, <2>2 DEF SuccessMeansClosed, Credited
<1> QED BY <1>4, <1>5, <1>6, <1>7, <1>8

LEMMA BossKeeps ==
  ASSUME DispatchInv, NEW d \in Dispatches, BossStep(d)
  PROVE  DispatchInv'
<1> USE DEF DispatchInv
<1>0. /\ payload \in SUBSET Dispatches /\ output \in SUBSET Dispatches
      /\ payload \union {d} \in SUBSET Dispatches /\ output \ {d} \in SUBSET Dispatches
      /\ clock \in [Dispatches -> [Clock -> 0..ExecTimeout]]
      /\ Restarted(d, "read") \in [Dispatches -> [Clock -> 0..ExecTimeout]]
  BY ClockRestarts DEF TypeOK, Clock
<1>1. CASE DialWorkerStream(d)
  BY <1>0, <1>1, FailKeeps, MoveKeeps DEF DialWorkerStream, Waiting
<1>2. CASE SendPrompt(d)
  BY <1>0, <1>2, FailKeeps, MoveKeeps DEF SendPrompt, Waiting
<1>3. CASE ReadOutput(d)
  <2>1. /\ boss[d] \in Waiting /\ payload' \in SUBSET Dispatches
        /\ output' \in SUBSET Dispatches
        /\ clock' \in [Dispatches -> [Clock -> 0..ExecTimeout]]
        /\ UNCHANGED <<webhook, server, gone, workerVars, faults>>
    BY <1>0, <1>3 DEF ReadOutput, Waiting
  <2>2. CASE Fail(d)
    BY <2>1, <2>2, FailKeeps
  <2>3. CASE UNCHANGED <<boss, slots, recorded, stream>>
    <3>1. boss' = [boss EXCEPT ![d] = boss[d]] /\ boss[d] = "read"
      BY <1>3, <2>3 DEF ReadOutput, TypeOK
    <3> QED BY <2>1, <2>3, <3>1, MoveKeeps
  <2> QED BY <1>3, <2>2, <2>3 DEF ReadOutput
<1>4. CASE ReadEOF(d)
  BY <1>4, SucceedKeeps DEF ReadEOF, AtEOF
<1>5. CASE CutAnswer(d)
  <2>1. d \in Chats /\ d \notin Asyncs
    BY <1>5, DispatchAssumption DEF CutAnswer, Rated
  <2>2. boss' = [boss EXCEPT ![d] = IF d \in Asyncs THEN "artifact" ELSE "ended"]
    BY <1>5, <2>1 DEF CutAnswer
  <2> QED BY <1>5, <2>1, <2>2, SucceedKeeps DEF CutAnswer
<1>6. CASE ReadFails(d)
  BY <1>0, <1>6, FailKeeps DEF ReadFails, Waiting
<1>7. CASE WaitForArtifact(d)
  <2>1. /\ boss[d] \in Waiting /\ boss' = [boss EXCEPT ![d] = "webhook"]
        /\ d \in Asyncs
        /\ UNCHANGED <<slots, recorded, webhook, server, gone, stream, payload,
                       output, workerVars, clock, faults>>
    BY <1>7 DEF WaitForArtifact, Waiting, wire, StreamInv
  <2> QED BY <1>0, <2>1, MoveKeeps DEF Waiting
<1>8. CASE PostWebhook(d)
  <2>1. /\ boss[d] = "webhook" /\ boss' = [boss EXCEPT ![d] = "ended"]
        /\ webhook' = [webhook EXCEPT ![d] = IF CtxDone(d) THEN "dead" ELSE "posted"]
        /\ slots' = Release(d)
        /\ UNCHANGED <<recorded, server, gone, stream, payload, output, task,
                       running, clock, faults>>
    BY <1>8 DEF PostWebhook, wire, workerVars
  <2>2. slots' \in Nat /\ SlotsAccounted'
    BY <2>1, BossEnds DEF Waiting
  <2>3. TypeOK'
    BY <2>1, <2>2 DEF TypeOK
  <2>4. CapacityKept' /\ SuccessMeansClosed' /\ StreamInv'
    BY <2>1 DEF CapacityKept, Busy, SuccessMeansClosed, Credited, StreamInv, TypeOK
  <2>5. OneOutcome'
    <3>1. d \in Asyncs /\ d \notin Rated
      BY <2>1, DispatchAssumption DEF StreamInv
    <3> QED BY <2>1, <3>1 DEF OneOutcome, Outcomes, TypeOK
  <2> QED BY <2>2, <2>3, <2>4, <2>5
<1> QED BY <1>1, <1>2, <1>3, <1>4, <1>5, <1>6, <1>7, <1>8 DEF BossStep

(* Steps that leave the boss alone. *)
LEMMA BossAside ==
  ASSUME DispatchInv,
         UNCHANGED <<bossVars, payload>>,
         server' \in {"up", "closing", "draining", "offline"},
         gone' \in SUBSET Rated, output' \in SUBSET Dispatches,
         stream' \in [Dispatches -> {"none", "open", "closed", "reset", "lost"}],
         task' \in [Dispatches -> {"none", "done"} \union Holding], running' \in Nat,
         clock' \in [Dispatches -> [Clock -> 0..ExecTimeout]], faults' \in 0..MaxFaults,
         SuccessMeansClosed', CapacityKept', StreamInv'
  PROVE  DispatchInv'
<1>1. UNCHANGED <<boss, slots, recorded, webhook, payload>>
  BY DEF bossVars
<1>2. OneOutcome' /\ SlotsAccounted'
  BY <1>1 DEF DispatchInv, OneOutcome, Outcomes, SlotsAccounted, InFlight
<1>3. TypeOK'
  BY <1>1 DEF DispatchInv, TypeOK
<1> QED BY <1>2, <1>3 DEF DispatchInv

LEMMA WorkerTypes ==
  ASSUME TypeOK, NEW d \in Dispatches
  PROVE  /\ server \in {"up", "closing", "draining", "offline"} /\ gone \in SUBSET Rated
         /\ output \in SUBSET Dispatches /\ output \union {d} \in SUBSET Dispatches
         /\ (Say(d) => output' \in SUBSET Dispatches)
         /\ stream \in [Dispatches -> {"none", "open", "closed", "reset", "lost"}]
         /\ task \in [Dispatches -> {"none", "done"} \union Holding]
         /\ running \in Nat /\ faults \in 0..MaxFaults
         /\ clock \in [Dispatches -> [Clock -> 0..ExecTimeout]]
         /\ Restarted(d, "accepted") \in [Dispatches -> [Clock -> 0..ExecTimeout]]
BY ClockRestarts DEF TypeOK, Say, Clock

(* Steps of the worker that move on, and those that give the place back. *)
LEMMA TaskKeeps ==
  ASSUME DispatchInv, NEW d \in Dispatches, task[d] \in Holding,
         NEW w \in Holding, task' = [task EXCEPT ![d] = w],
         output' \in SUBSET Dispatches,
         clock' \in [Dispatches -> [Clock -> 0..ExecTimeout]],
         UNCHANGED <<bossVars, server, gone, stream, payload, running, faults>>
  PROVE  DispatchInv'
<1> USE DEF DispatchInv
<1>1. CapacityKept' /\ task' \in [Dispatches -> {"none", "done"} \union Holding]
  BY TaskMoves
<1>2. UNCHANGED <<boss, recorded>>
  BY DEF bossVars
<1>3. SuccessMeansClosed' /\ StreamInv'
  BY <1>2 DEF SuccessMeansClosed, Credited, StreamInv, TypeOK, Holding
<1> QED BY <1>1, <1>3, WorkerTypes, BossAside

LEMMA LeaveKeeps ==
  ASSUME DispatchInv, NEW d \in Dispatches, task[d] \in Holding,
         NEW how \in {"closed", "reset"}, Leave(d, how),
         output' \in SUBSET Dispatches,
         UNCHANGED <<bossVars, server, gone, payload, clock, faults>>
  PROVE  DispatchInv'
<1>1. UNCHANGED <<boss, recorded>>
  BY DEF bossVars
<1> QED BY <1>1, LeaveStep, WorkerTypes, BossAside DEF DispatchInv

LEMMA AcceptKeeps ==
  ASSUME DispatchInv, NEW d \in Dispatches, Accept(d)
  PROVE  DispatchInv'
<1> USE DEF DispatchInv
<1>1. /\ task[d] = "none" /\ stream[d] # "none"
      /\ UNCHANGED <<bossVars, server, gone, payload, clock, faults, boss, recorded>>
  BY DEF Accept, bossVars
<1>2. CASE /\ AtCapacity /\ Say(d)
           /\ stream' = [stream EXCEPT ![d] = IF @ = "open" THEN "closed" ELSE @]
           /\ task' = [task EXCEPT ![d] = "done"]
           /\ UNCHANGED running
  <2>1. Busy' = Busy
    BY <1>1, <1>2 DEF Busy, TypeOK, Holding
  <2>2. CapacityKept' /\ SuccessMeansClosed' /\ StreamInv'
    BY <1>1, <1>2, <2>1 DEF CapacityKept, SuccessMeansClosed, Credited, StreamInv, TypeOK
  <2>3. /\ stream' \in [Dispatches -> {"none", "open", "closed", "reset", "lost"}]
        /\ task' \in [Dispatches -> {"none", "done"} \union Holding]
    BY <1>2 DEF TypeOK
  <2> QED BY <1>1, <1>2, <2>2, <2>3, WorkerTypes, BossAside
<1>3. CASE /\ ~AtCapacity
           /\ task' = [task EXCEPT ![d] = "load"]
           /\ running' = running + 1
           /\ UNCHANGED <<stream, output>>
  <2>1. Busy' = Busy \union {d} /\ d \notin Busy
    BY <1>1, <1>3 DEF Busy, TypeOK, Holding
  <2>2. Cardinality(Busy') = Cardinality(Busy) + 1
    BY <2>1, FiniteParts, FS_AddElement
  <2>3. CapacityKept' /\ running' \in Nat
    BY <1>3, <2>2, DispatchAssumption DEF CapacityKept, AtCapacity, TypeOK
  <2>4. SuccessMeansClosed' /\ StreamInv'
    BY <1>1, <1>3 DEF SuccessMeansClosed, Credited, StreamInv, TypeOK
  <2>5. task' \in [Dispatches -> {"none", "done"} \union Holding]
    BY <1>3 DEF TypeOK, Holding
  <2> QED BY <1>1, <1>3, <2>3, <2>4, <2>5, WorkerTypes, BossAside
<1> QED BY <1>2, <1>3 DEF Accept

LEMMA WorkerKeeps ==
  ASSUME DispatchInv, NEW d \in Dispatches, WorkerStep(d) \/ SandboxStep(d)
  PROVE  DispatchInv'
<1>1. TypeOK
  BY DEF DispatchInv
<1> USE <1>1, WorkerTypes DEF Holding
<1>2. CASE Accept(d)
  BY <1>2, AcceptKeeps
<1>3. CASE CheckLoad(d)
  <2>1. task[d] \in Holding /\ UNCHANGED <<bossVars, server, gone, payload, clock, faults>>
    BY <1>3 DEF CheckLoad
  <2>2. CASE Say(d) /\ Leave(d, "closed")
    BY <2>1, <2>2, LeaveKeeps
  <2>3. CASE task' = [task EXCEPT ![d] = "payload"] /\ UNCHANGED <<stream, output, running>>
    BY <2>1, <2>3, TaskKeeps
  <2> QED BY <1>3, <2>2, <2>3 DEF CheckLoad
<1>4. CASE ReadPayload(d)
  <2>1. task[d] \in Holding /\ UNCHANGED <<bossVars, server, gone, payload, faults>>
    BY <1>4 DEF ReadPayload
  <2>2. CASE /\ task' = [task EXCEPT ![d] = "running"]
             /\ clock' = Restarted(d, "accepted")
             /\ UNCHANGED <<stream, output, running>>
    BY <2>1, <2>2, TaskKeeps
  <2>3. CASE Say(d) /\ Leave(d, "closed") /\ UNCHANGED clock
    BY <2>1, <2>3, LeaveKeeps
  <2>4. CASE Leave(d, "reset") /\ UNCHANGED <<output, clock>>
    BY <2>1, <2>4, LeaveKeeps
  <2> QED BY <1>4, <2>2, <2>3, <2>4 DEF ReadPayload
<1>5. CASE task[d] = "running" /\ Ended(d)
  BY <1>5, TaskKeeps DEF Ended, wire
<1>6. CASE Collect(d)
  BY <1>6, TaskKeeps DEF Collect
<1>7. CASE SendArtifacts(d)
  BY <1>7, TaskKeeps DEF SendArtifacts, wire
<1>8. CASE CloseStream(d)
  BY <1>8, LeaveKeeps DEF CloseStream
<1>9. CASE Output(d)
  <2>1. /\ task[d] = "running" /\ output' = output \union {d}
        /\ UNCHANGED <<bossVars, server, gone, stream, payload, running, clock, faults>>
    BY <1>9 DEF Output, workerVars
  <2>2. task' = [task EXCEPT ![d] = "running"]
    BY <1>9, <2>1 DEF Output, workerVars, TypeOK
  <2> QED BY <2>1, <2>2, TaskKeeps
<1> QED BY <1>2, <1>3, <1>4, <1>5, <1>6, <1>7, <1>8, <1>9
        DEF WorkerStep, SandboxStep, SandboxExits, Kill

(* A lost connection keeps the streams that ended well, if they were read. *)
LEMMA SeveredKeeps ==
  ASSUME DispatchInv
  PROVE  /\ Severed \in [Dispatches -> {"none", "open", "closed", "reset", "lost"}]
         /\ \A d \in Dispatches :
              /\ Severed[d] = "none" <=> stream[d] = "none"
              /\ Severed[d] = "closed" => stream[d] = "closed"
              /\ d \notin Chats /\ Credited(d) => Severed[d] = "closed"
<1> USE DEF DispatchInv
<1>1. ASSUME NEW d \in Dispatches \ Chats, Credited(d)
      PROVE  boss[d] = "ended" /\ stream[d] = "closed"
  BY <1>1 DEF OneOutcome, Outcomes, SuccessMeansClosed, Credited, TypeOK, Outcome
<1>2. Severed \in [Dispatches -> {"none", "open", "closed", "reset", "lost"}]
  BY DEF Severed, TypeOK
<1>3. \A d \in Dispatches : Severed[d] = "none" <=> stream[d] = "none"
  BY DEF Severed, TypeOK
<1>4. \A d \in Dispatches : Severed[d] = "closed" => stream[d] = "closed"
  BY DEF Severed, TypeOK
<1>5. \A d \in Dispatches : d \notin Chats /\ Credited(d) => Severed[d] = "closed"
  BY <1>1 DEF Severed
<1> QED BY <1>2, <1>3, <1>4, <1>5

LEMMA NetworkKeeps ==
  ASSUME DispatchInv, Shutdown \/ ConnectionLost \/ WorkerDies \/ Time
  PROVE  DispatchInv'
<1> USE DEF DispatchInv
<1>1. ASSUME UNCHANGED <<bossVars, task, running>>, stream' \in {stream, Severed}
      PROVE  SuccessMeansClosed' /\ CapacityKept' /\ StreamInv'
             /\ stream' \in [Dispatches -> {"none", "open", "closed", "reset", "lost"}]
  <2>1. UNCHANGED <<boss, recorded, task, running>>
    BY <1>1 DEF bossVars
  <2>2. CapacityKept'
    BY <2>1 DEF CapacityKept, Busy
  <2> QED BY <1>1, <2>1, <2>2, SeveredKeeps DEF SuccessMeansClosed, Credited, StreamInv, TypeOK
<1>2. CASE Shutdown
  <2>1. /\ UNCHANGED <<bossVars, gone, payload, output, task, running, clock, faults>>
        /\ server' \in {"up", "closing", "draining", "offline"}
        /\ stream' \in {stream, Severed}
    BY <1>2 DEF Shutdown, workerVars
  <2> QED BY <2>1, <1>1, BossAside DEF TypeOK
<1>3. CASE ConnectionLost
  <2>1. /\ UNCHANGED <<bossVars, server, gone, payload, output, task, running, clock>>
        /\ stream' \in {stream, Severed} /\ faults' \in 0..MaxFaults
    BY <1>3, DispatchAssumption DEF ConnectionLost, workerVars, TypeOK
  <2> QED BY <2>1, <1>1, BossAside DEF TypeOK
<1>4. CASE WorkerDies
  <2>1. /\ UNCHANGED <<bossVars, server, gone, payload, output, clock, boss, recorded>>
        /\ stream' \in {stream, Severed} /\ faults' \in 0..MaxFaults
        /\ task' = [d \in Dispatches |-> IF stream[d] = "none" THEN task[d] ELSE "done"]
        /\ running' = 0
    BY <1>4, DispatchAssumption DEF WorkerDies, TypeOK, bossVars
  <2>2. \A d \in Dispatches : task'[d] \in {"none", "done"}
    BY <2>1 DEF StreamInv, TypeOK
  <2>3. Busy' = {}
    BY <2>2 DEF Busy, Holding
  <2>4. CapacityKept' /\ running' \in Nat
    BY <2>1, <2>3, FS_EmptySet, DispatchAssumption DEF CapacityKept
  <2>5. task' \in [Dispatches -> {"none", "done"} \union Holding]
    BY <2>1 DEF TypeOK
  <2>6. SuccessMeansClosed' /\ StreamInv'
    BY <2>1, SeveredKeeps DEF SuccessMeansClosed, Credited, StreamInv, TypeOK
  <2>7. stream' \in [Dispatches -> {"none", "open", "closed", "reset", "lost"}]
    BY <2>1, SeveredKeeps DEF TypeOK
  <2> QED BY <2>1, <2>4, <2>5, <2>6, <2>7, BossAside DEF TypeOK
<1>5. CASE Time
  <2>1. UNCHANGED <<bossVars, server, gone, stream, payload, output, task, running, faults>>
    BY <1>5 DEF Time, wire, workerVars
  <2>2. clock' \in [Dispatches -> [Clock -> 0..ExecTimeout]]
    BY <1>5, DispatchAssumption DEF Time, TypeOK
  <2> QED BY <2>1, <2>2, <1>1, BossAside DEF TypeOK
<1> QED BY <1>2, <1>3, <1>4, <1>5

LEMMA HangUpKeeps ==
  ASSUME DispatchInv, NEW d \in Dispatches, HangUp(d)
  PROVE  DispatchInv'
<1> USE DEF DispatchInv
<1>1. /\ UNCHANGED <<bossVars, boss, recorded, server, stream, payload, output, task,
                     running, clock, faults>>
      /\ gone' \in SUBSET Rated
  BY DEF HangUp, bossVars, wire, workerVars, TypeOK
<1>2. SuccessMeansClosed' /\ CapacityKept' /\ StreamInv'
  BY <1>1 DEF SuccessMeansClosed, Credited, CapacityKept, Busy, StreamInv
<1> QED BY <1>1, <1>2, BossAside DEF TypeOK

LEMMA DispatchNext ==
  ASSUME DispatchInv, [Next]_vars
  PROVE  DispatchInv'
<1>1. CASE \E d \in Dispatches :
             \/ Dispatch(d) \/ BossStep(d) \/ HangUp(d)
             \/ WorkerStep(d) \/ SandboxStep(d)
  BY <1>1, DispatchStep, BossKeeps, HangUpKeeps, WorkerKeeps
<1>2. CASE Shutdown \/ ConnectionLost \/ WorkerDies \/ Time
  BY <1>2, NetworkKeeps
<1>3. CASE UNCHANGED vars
  <2>1. UNCHANGED <<boss, slots, recorded, webhook, server, gone, stream, payload,
                    output, task, running, clock, faults>>
    BY <1>3 DEF vars, bossVars, wire, workerVars
  <2> QED BY <2>1 DEF DispatchInv, TypeOK, OneOutcome, Outcomes, SuccessMeansClosed, Credited,
                      SlotsAccounted, InFlight, CapacityKept, Busy, StreamInv
<1> QED BY <1>1, <1>2, <1>3 DEF Next

(* The state of a dispatch, at both ends, is always one of those DispatchInv   *)
(* describes (api_handlers.go, api_async.go, handler.go).                      *)
THEOREM DispatchInvariant == Spec => []DispatchInv
<1>1. Init => DispatchInv
  BY DispatchInit
<1>2. DispatchInv /\ [Next]_vars => DispatchInv'
  BY DispatchNext
<1> QED BY <1>1, <1>2, PTL DEF Spec

(* The variables keep their types. *)
THEOREM DispatchTypes == Spec => []TypeOK
<1>1. DispatchInv => TypeOK
  BY DEF DispatchInv
<1> QED BY <1>1, DispatchInvariant, PTL

(* A dispatch that ends has been rated exactly once, and none before it ends,  *)
(* nor an async one (api_handlers.go:261-273).                                 *)
THEOREM RatedOnce == Spec => []OneOutcome
<1>1. DispatchInv => OneOutcome
  BY DEF DispatchInv
<1> QED BY <1>1, DispatchInvariant, PTL

(* Only a worker whose handler closed the stream is credited with a success.   *)
THEOREM CreditedOnClose == Spec => []SuccessMeansClosed
<1>1. DispatchInv => SuccessMeansClosed
  BY DEF DispatchInv
<1> QED BY <1>1, DispatchInvariant, PTL

(* An async slot is held by each task in flight and by nothing else, and the   *)
(* cap is kept (api_async.go:124-154).                                         *)
THEOREM NoSlotLeaks == Spec => []SlotsAccounted
<1>1. DispatchInv => SlotsAccounted
  BY DEF DispatchInv
<1> QED BY <1>1, DispatchInvariant, PTL

(* The worker never runs more handlers than its capacity, and counts those it  *)
(* runs (handler.go:88-108).                                                   *)
THEOREM NoOvercommit == Spec => []CapacityKept
<1>1. DispatchInv => CapacityKept
  BY DEF DispatchInv
<1> QED BY <1>1, DispatchInvariant, PTL
================================================================================
