--------------------------- MODULE LiveSessionProofs ---------------------------
(* Proofs about LiveSession, for every set of sessions, steer requests and      *)
(* agents, and any number of checkpoints, posts and upsets.                     *)
EXTENDS LiveSession, FiniteSetTheorems, TLAPS

--------------------------------------------------------------------------------
(* Sequences without some of their elements. *)

(* at[k] is where the k-th element of w was in s: w has each element of s that  *)
(* is not gone, once.                                                           *)
Places(at, w, s, gone) ==
  /\ at \in [DOMAIN w -> DOMAIN s \ gone]
  /\ \A k \in DOMAIN w : w[k] = s[at[k]]
  /\ \A k, l \in DOMAIN w : at[k] = at[l] => k = l
  /\ \A i \in DOMAIN s \ gone : \E k \in DOMAIN w : at[k] = i

LEMMA WithoutFacts ==
  ASSUME NEW S, NEW s \in Seq(S), NEW gone
  PROVE  /\ Without(s, gone) \in Seq(S)
         /\ Len(Without(s, gone)) = Cardinality(DOMAIN s \ gone)
         /\ \E at : Places(at, Without(s, gone), s, gone)
<1> DEFINE kept == DOMAIN s \ gone
           place == [i \in kept |-> Cardinality({j \in kept : j <= i})]
           n == Cardinality(kept)
           at == [k \in 1..n |-> CHOOSE i \in kept : place[i] = k]
           W == Without(s, gone)
<1>1. DOMAIN s = 1..Len(s) /\ Len(s) \in Nat
  OBVIOUS
<1>2. IsFiniteSet(kept) /\ n \in Nat /\ \A i \in kept : i \in Nat
  <2>1. kept \in SUBSET (1..Len(s)) /\ IsFiniteSet(1..Len(s))
    BY <1>1, FS_Interval
  <2> QED BY <2>1, FS_Subset, FS_CardinalityType
<1>3. ASSUME NEW i \in kept
      PROVE  /\ IsFiniteSet({j \in kept : j <= i})
             /\ place[i] \in 1..n
  <2> DEFINE B == {j \in kept : j <= i}
  <2>1. B \subseteq kept /\ i \in B
    BY <1>2
  <2>2. IsFiniteSet(B) /\ Cardinality(B) \in Nat /\ Cardinality(B) <= n
    BY <1>2, <2>1, FS_Subset, FS_CardinalityType
  <2>3. Cardinality(B) # 0
    BY <2>1, <2>2, FS_EmptySet
  <2>4. place[i] = Cardinality(B)
    OBVIOUS
  <2> HIDE DEF B, place, n
  <2>5. place[i] \in 1..n
    BY <1>2, <2>2, <2>3, <2>4
  <2> QED BY <2>2, <2>5 DEF B
<1>4. ASSUME NEW i \in kept, NEW j \in kept, i < j PROVE place[i] < place[j]
  <2> DEFINE B == {k \in kept : k <= i}
             C == {k \in kept : k <= j}
  <2>1. IsFiniteSet(C) /\ IsFiniteSet(B) /\ place[i] = Cardinality(B) /\ place[j] = Cardinality(C)
    BY <1>3
  <2>2. B \subseteq C \ {j} /\ j \in C
    BY <1>2, <1>4
  <2> HIDE DEF B, C, place
  <2>3. /\ IsFiniteSet(C \ {j}) /\ Cardinality(C \ {j}) = Cardinality(C) - 1
        /\ Cardinality(C) \in Nat /\ Cardinality(B) \in Nat
    BY <2>1, <2>2, FS_RemoveElement, FS_CardinalityType
  <2>4. Cardinality(B) <= Cardinality(C \ {j})
    BY <2>2, <2>3, FS_Subset
  <2> QED BY <2>1, <2>3, <2>4
<1>5. place \in Injection(kept, 1..n)
  <2>1. place \in [kept -> 1..n]
    BY <1>3
  <2>2. ASSUME NEW i \in kept, NEW j \in kept, place[i] = place[j] PROVE i = j
    <3>1. i \in Nat /\ j \in Nat /\ place[i] \in 1..n /\ place[j] \in 1..n
      BY <1>2, <1>3
    <3> HIDE DEF place, n
    <3>2. i < j => place[i] < place[j]
      BY <1>4
    <3>3. j < i => place[j] < place[i]
      BY <1>4
    <3> QED BY <2>2, <3>1, <3>2, <3>3
  <2> QED BY <2>1, <2>2 DEF Injection, IsInjective
<1>6. \A k \in 1..n : \E i \in kept : place[i] = k
  <2>1. IsFiniteSet(1..n) /\ Cardinality(1..n) = n
    BY <1>2, FS_Interval
  <2>2. place \in Surjection(kept, 1..n)
    BY <1>5, <2>1, FS_Injection
  <2> QED BY <2>2 DEF Surjection
<1>7. ASSUME NEW k \in 1..n PROVE at[k] \in kept /\ place[at[k]] = k
  BY <1>6
<1>8. W = [k \in 1..n |-> s[at[k]]]
  BY DEF Without
<1>9. DOMAIN W = 1..n /\ Len(W) = n
  BY <1>2, <1>8
<1> HIDE DEF at, W, place, n
<1>10. \A k \in 1..n : W[k] = s[at[k]]
  BY <1>8
<1>11. \A k, l \in 1..n : at[k] = at[l] => k = l
  BY <1>7
<1>12. \A i \in kept : \E k \in 1..n : at[k] = i
  BY <1>3, <1>5, <1>7 DEF Injection, IsInjective
<1>13. at \in [1..n -> kept]
  BY <1>7 DEF at
<1>14. W \in Seq(S)
  BY <1>2, <1>7, <1>8
<1>15. Places(at, W, s, gone)
  BY <1>9, <1>10, <1>11, <1>12, <1>13 DEF Places
<1> QED BY <1>9, <1>14, <1>15 DEF W, n

--------------------------------------------------------------------------------
(* The hub's own operators. *)

LEMMA HubFields ==
  ASSUME NEW h \in Hubs
  PROVE  /\ h.queue \in Seq(Entries) /\ h.polls \in Seq(Agents)
         /\ h.timer \in {"off", "armed", "due"} /\ h.last \in SUBSET BOOLEAN
         /\ h.tab \in BOOLEAN /\ h.told \in BOOLEAN /\ h.raced \in BOOLEAN
         /\ h.agent \in [Agents -> AgentStates]
BY DEF Hubs

(* What the flush timer and the broadcast leave alone. *)
SameWork(g, h) ==
  g.queue = h.queue /\ g.polls = h.polls /\ g.tab = h.tab /\ g.agent = h.agent

LEMMA SameWorkFacts ==
  ASSUME NEW g, NEW h, SameWork(g, h)
  PROVE  /\ Leased(g) <=> Leased(h)
         /\ agentPollingConnected(g) <=> agentPollingConnected(h)
         /\ Available(g) = Available(h)
         /\ \A id : OfId(g, id) = OfId(h, id)
BY DEF SameWork, Leased, agentPollingConnected, Available, OfId

LEMMA ScheduleFacts ==
  ASSUME NEW h \in Hubs
  PROVE  LET g == scheduleLeaseFlush(h)
         IN /\ g \in Hubs /\ SameWork(g, h) /\ g.last = h.last /\ g.told = h.told
            /\ g.timer = IF Leased(h) THEN "armed" ELSE "off"
            /\ g.raced <=> h.raced \/ h.timer = "due"
<1>1. (IF Leased(h) THEN "armed" ELSE "off") \in {"off", "armed", "due"}
  OBVIOUS
<1>2. Racing(h) \in BOOLEAN
  BY HubFields DEF Racing
<1> QED BY <1>1, <1>2 DEF Hubs, scheduleLeaseFlush, SameWork, Racing

LEMMA BroadcastFacts ==
  ASSUME NEW h \in Hubs
  PROVE  LET g == broadcastAgentPollingIfChanged(h)
             connected == agentPollingConnected(h)
         IN /\ g \in Hubs /\ SameWork(g, h) /\ g.timer = h.timer /\ g.raced = h.raced
            /\ g.last = {connected}
            /\ g.told = IF h.last = {connected} \/ ~h.tab THEN h.told ELSE connected
<1> DEFINE connected == agentPollingConnected(h)
<1>1. connected \in BOOLEAN
  BY DEF agentPollingConnected
<1> HIDE DEF connected
<1>2. CASE h.last = {connected}
  <2>1. broadcastAgentPollingIfChanged(h) = h
    BY <1>2 DEF broadcastAgentPollingIfChanged, connected
  <2> QED BY <1>2, <2>1 DEF SameWork, connected
<1>3. CASE h.last # {connected}
  <2>1. broadcastAgentPollingIfChanged(h) =
          [h EXCEPT !.last = {connected}, !.told = IF h.tab THEN connected ELSE @]
    BY <1>3 DEF broadcastAgentPollingIfChanged, connected
  <2>2. {connected} \in SUBSET BOOLEAN
    BY <1>1
  <2> QED BY <1>1, <1>3, <2>1, <2>2 DEF Hubs, SameWork, connected
<1> QED BY <1>2, <1>3

(* Scheduling the flush keeps what holds, and marks the race it may lose. *)
LEMMA ScheduleKeeps ==
  ASSUME NEW h \in Hubs, Flushed(h), Told(h), NoExit(h)
  PROVE  LET g == scheduleLeaseFlush(h)
         IN /\ g \in Hubs /\ SameWork(g, h)
            /\ Flushed(g) /\ TimerSet(g) /\ Told(g) /\ NoExit(g)
            /\ Broadcast(h) => Broadcast(g)
<1> DEFINE g == scheduleLeaseFlush(h)
<1>1. /\ g \in Hubs /\ SameWork(g, h) /\ g.last = h.last /\ g.told = h.told
      /\ g.timer = IF Leased(h) THEN "armed" ELSE "off"
      /\ g.raced <=> h.raced \/ h.timer = "due"
  BY ScheduleFacts
<1> HIDE DEF g
<1>2. /\ Leased(g) <=> Leased(h)
      /\ agentPollingConnected(g) <=> agentPollingConnected(h)
      /\ agentPollingConnected(g) \in BOOLEAN /\ agentPollingConnected(h) \in BOOLEAN
      /\ Available(g) = Available(h) /\ OfId(g, NoId) = OfId(h, NoId)
  BY <1>1, SameWorkFacts DEF agentPollingConnected
<1>3. Flushed(g) /\ TimerSet(g)
  BY <1>1, <1>2 DEF Flushed, TimerSet, SameWork
<1>4. Told(g) /\ NoExit(g)
  BY <1>1, <1>2 DEF Told, NoExit, SameWork
<1>5. Broadcast(h) => Broadcast(g)
  BY <1>1, <1>2 DEF Broadcast, Agrees
<1> QED BY <1>1, <1>3, <1>4, <1>5 DEF g

(* After a broadcast the tab knows whether an agent is attached. *)
LEMMA BroadcastKeeps ==
  ASSUME NEW h \in Hubs, Flushed(h), TimerSet(h), Told(h), NoExit(h)
  PROVE  LET g == broadcastAgentPollingIfChanged(h)
         IN HubGood(g) /\ SameWork(g, h)
<1> DEFINE g == broadcastAgentPollingIfChanged(h)
           connected == agentPollingConnected(h)
<1>1. /\ g \in Hubs /\ SameWork(g, h) /\ g.timer = h.timer /\ g.raced = h.raced
      /\ g.last = {connected}
      /\ g.told = IF h.last = {connected} \/ ~h.tab THEN h.told ELSE connected
  BY BroadcastFacts
<1>2. /\ Leased(g) <=> Leased(h)
      /\ agentPollingConnected(g) <=> connected
      /\ Available(g) = Available(h) /\ OfId(g, NoId) = OfId(h, NoId)
  BY <1>1, SameWorkFacts
<1>3. agentPollingConnected(g) \in BOOLEAN /\ connected \in BOOLEAN
  BY DEF agentPollingConnected
<1>4. h.told \in BOOLEAN
  BY HubFields
<1> HIDE DEF g, connected
<1>5. Flushed(g) /\ TimerSet(g) /\ NoExit(g)
  BY <1>1, <1>2 DEF Flushed, TimerSet, NoExit, SameWork
<1>6. Broadcast(g)
  BY <1>1, <1>2, <1>3 DEF Broadcast, Agrees
<1>7. Told(g)
  BY <1>1, <1>2, <1>3, <1>4 DEF Told, Agrees, SameWork
<1> QED BY <1>1, <1>5, <1>6, <1>7 DEF HubGood, g

(* The two in a row, as after every change of the queue. *)
Settled(h) == broadcastAgentPollingIfChanged(scheduleLeaseFlush(h))

LEMMA SettledGood ==
  ASSUME NEW h \in Hubs, Flushed(h), Told(h), NoExit(h)
  PROVE  HubGood(Settled(h)) /\ SameWork(Settled(h), h)
<1> DEFINE g == scheduleLeaseFlush(h)
<1>1. /\ g \in Hubs /\ SameWork(g, h) /\ Flushed(g) /\ TimerSet(g) /\ Told(g) /\ NoExit(g)
  BY ScheduleKeeps
<1> HIDE DEF g
<1>2. HubGood(broadcastAgentPollingIfChanged(g)) /\ SameWork(broadcastAgentPollingIfChanged(g), g)
  BY <1>1, BroadcastKeeps
<1> QED BY <1>1, <1>2 DEF Settled, g, SameWork

--------------------------------------------------------------------------------
(* What happens to the events. *)

(* Every event of g is one of h, and two of g are two of h. *)
Within(g, h) ==
  \E at \in [DOMAIN g.queue -> DOMAIN h.queue] :
    /\ \A k \in DOMAIN g.queue : /\ g.queue[k].id = h.queue[at[k]].id
                                 /\ g.queue[k].type = h.queue[at[k]].type
    /\ \A k, l \in DOMAIN g.queue : at[k] = at[l] => k = l

(* The events of these ids that are in h are in g too. *)
Covers(g, h, ids) == \A id \in ids : \A type : Queued(h, id, type) => Queued(g, id, type)

LEMMA WithinFacts ==
  ASSUME NEW g, NEW h, Within(g, h)
  PROVE  /\ QueueFits(h) => QueueFits(g)
         /\ \A m : OnePending(h, m) => OnePending(g, m)
         /\ \A id : OfId(h, id) = {} => OfId(g, id) = {}
         /\ \A id, type : Queued(g, id, type) => Queued(h, id, type)
<1> PICK at \in [DOMAIN g.queue -> DOMAIN h.queue] :
      /\ \A k \in DOMAIN g.queue : /\ g.queue[k].id = h.queue[at[k]].id
                                   /\ g.queue[k].type = h.queue[at[k]].type
      /\ \A k, l \in DOMAIN g.queue : at[k] = at[l] => k = l
  BY DEF Within
<1>1. QueueFits(h) => QueueFits(g)
  BY DEF QueueFits
<1>2. ASSUME NEW m, OnePending(h, m) PROVE OnePending(g, m)
  BY <1>2 DEF OnePending
<1>3. ASSUME NEW id, OfId(h, id) = {} PROVE OfId(g, id) = {}
  BY <1>3 DEF OfId
<1>4. ASSUME NEW id, NEW type, Queued(g, id, type) PROVE Queued(h, id, type)
  BY <1>4 DEF Queued
<1> QED BY <1>1, <1>2, <1>3, <1>4

LEMMA SameWorkWithin ==
  ASSUME NEW g, NEW h, SameWork(g, h)
  PROVE  Within(g, h) /\ Covers(g, h, Ids)
<1>1. Covers(g, h, Ids)
  BY DEF SameWork, Covers, Queued
<1>2. [k \in DOMAIN h.queue |-> k] \in [DOMAIN g.queue -> DOMAIN h.queue]
  BY DEF SameWork
<1> QED BY <1>1, <1>2 DEF SameWork, Within

LEMMA WithinTransitive ==
  ASSUME NEW f, NEW g, NEW h, NEW ids, Within(f, g), Within(g, h),
         Covers(f, g, ids), Covers(g, h, ids)
  PROVE  Within(f, h) /\ Covers(f, h, ids)
<1>1. Covers(f, h, ids)
  BY DEF Covers
<1>2. PICK at \in [DOMAIN f.queue -> DOMAIN g.queue] :
        /\ \A k \in DOMAIN f.queue : /\ f.queue[k].id = g.queue[at[k]].id
                                     /\ f.queue[k].type = g.queue[at[k]].type
        /\ \A k, l \in DOMAIN f.queue : at[k] = at[l] => k = l
  BY DEF Within
<1>3. PICK to \in [DOMAIN g.queue -> DOMAIN h.queue] :
        /\ \A k \in DOMAIN g.queue : /\ g.queue[k].id = h.queue[to[k]].id
                                     /\ g.queue[k].type = h.queue[to[k]].type
        /\ \A k, l \in DOMAIN g.queue : to[k] = to[l] => k = l
  BY DEF Within
<1> DEFINE both == [k \in DOMAIN f.queue |-> to[at[k]]]
<1>4. both \in [DOMAIN f.queue -> DOMAIN h.queue]
  BY <1>2, <1>3
<1>5. \A k \in DOMAIN f.queue : /\ f.queue[k].id = h.queue[both[k]].id
                                /\ f.queue[k].type = h.queue[both[k]].type
  BY <1>2, <1>3
<1>6. \A k, l \in DOMAIN f.queue : both[k] = both[l] => k = l
  BY <1>2, <1>3
<1> HIDE DEF both
<1>7. Within(f, h)
  BY <1>4, <1>5, <1>6 DEF Within
<1> QED BY <1>1, <1>7

(* Leasing the events at picked: those without an id are gone. *)
Leases(at, w, q, picked) ==
  /\ at \in [DOMAIN w -> DOMAIN q]
  /\ \A k \in DOMAIN w :
       w[k] = IF at[k] \in picked THEN [q[at[k]] EXCEPT !.lease = "live"] ELSE q[at[k]]
  /\ \A k, l \in DOMAIN w : at[k] = at[l] => k = l
  /\ \A i \in DOMAIN q : i \notin picked \/ q[i].id # NoId => \E k \in DOMAIN w : at[k] = i
  /\ \A k \in DOMAIN w : at[k] \in picked => q[at[k]].id # NoId

LEMMA LeaseFacts ==
  ASSUME NEW q \in Seq(Entries), NEW picked \in SUBSET DOMAIN q
  PROVE  /\ leaseEvents(q, picked) \in Seq(Entries)
         /\ \E at : Leases(at, leaseEvents(q, picked), q, picked)
<1> DEFINE taken == [i \in DOMAIN q |->
                      IF i \in picked THEN [q[i] EXCEPT !.lease = "live"] ELSE q[i]]
           gone == {i \in picked : q[i].id = NoId}
           W == leaseEvents(q, picked)
<1>1. \A i \in DOMAIN q : q[i] \in Entries
  OBVIOUS
<1>2. \A i \in DOMAIN q : taken[i] \in Entries
  BY <1>1 DEF Entries
<1>3. taken \in Seq(Entries) /\ DOMAIN taken = DOMAIN q
  BY <1>2
<1>4. W = Without(taken, gone)
  BY DEF leaseEvents
<1> HIDE DEF taken, gone, W
<1>5. W \in Seq(Entries)
  BY <1>3, <1>4, WithoutFacts
<1>6. PICK at : Places(at, W, taken, gone)
  BY <1>3, <1>4, WithoutFacts
<1>7. at \in [DOMAIN W -> DOMAIN q] /\ \A k \in DOMAIN W : at[k] \notin gone
  BY <1>3, <1>6 DEF Places
<1>8. \A k \in DOMAIN W :
        W[k] = IF at[k] \in picked THEN [q[at[k]] EXCEPT !.lease = "live"] ELSE q[at[k]]
  BY <1>6, <1>7 DEF taken, Places
<1>9. \A i \in DOMAIN q : i \notin picked \/ q[i].id # NoId => \E k \in DOMAIN W : at[k] = i
  BY <1>3, <1>6 DEF gone, Places
<1>10. \A k \in DOMAIN W : at[k] \in picked => q[at[k]].id # NoId
  BY <1>7 DEF gone
<1>11. Leases(at, W, q, picked)
  BY <1>6, <1>7, <1>8, <1>9, <1>10 DEF Leases, Places
<1> QED BY <1>5, <1>11 DEF W

(* The same of the hub whose events they are. *)
LEMMA LeaseWithin ==
  ASSUME NEW h \in Hubs, NEW picked \in SUBSET DOMAIN h.queue, NEW g,
         g.queue = leaseEvents(h.queue, picked)
  PROVE  /\ g.queue \in Seq(Entries) /\ Within(g, h) /\ Covers(g, h, Ids)
         /\ Available(h) \subseteq picked => Available(g) = {}
         /\ Available(h) = {} => Available(g) = {}
         /\ (\A i \in picked : h.queue[i].id = NoId /\ h.queue[i].lease # "live") =>
              (Leased(g) <=> Leased(h))
<1> DEFINE q == h.queue
<1>1. q \in Seq(Entries)
  BY HubFields
<1>2. g.queue \in Seq(Entries)
  BY <1>1, LeaseFacts
<1>3. PICK at : Leases(at, g.queue, q, picked)
  BY <1>1, LeaseFacts
<1>4. ASSUME NEW k \in DOMAIN g.queue
      PROVE  /\ at[k] \in DOMAIN q
             /\ g.queue[k].id = q[at[k]].id /\ g.queue[k].type = q[at[k]].type
             /\ g.queue[k].lease = IF at[k] \in picked THEN "live" ELSE q[at[k]].lease
  <2>1. at[k] \in DOMAIN q /\ q[at[k]] \in Entries
    BY <1>1, <1>3 DEF Leases
  <2>2. g.queue[k] = IF at[k] \in picked THEN [q[at[k]] EXCEPT !.lease = "live"] ELSE q[at[k]]
    BY <1>3 DEF Leases
  <2> QED BY <2>1, <2>2 DEF Entries
<1>5. Within(g, h)
  BY <1>3, <1>4 DEF Within, Leases
<1>6. Covers(g, h, Ids)
  <2> SUFFICES ASSUME NEW id \in Ids, NEW type, Queued(h, id, type) PROVE Queued(g, id, type)
    BY DEF Covers
  <2>1. PICK i \in DOMAIN q : q[i].id = id /\ q[i].type = type
    BY DEF Queued
  <2>2. PICK k \in DOMAIN g.queue : at[k] = i
    BY <1>3, <2>1, IdsAssumption DEF Leases
  <2> QED BY <1>4, <2>1, <2>2 DEF Queued
<1>7. Available(h) \subseteq picked => Available(g) = {}
  BY <1>4 DEF Available
<1>8. Available(h) = {} => Available(g) = {}
  BY <1>4 DEF Available
<1>9. ASSUME \A i \in picked : q[i].id = NoId /\ q[i].lease # "live"
      PROVE  Leased(g) <=> Leased(h)
  <2>1. ASSUME Leased(g) PROVE Leased(h)
    BY <1>3, <1>4, <1>9, <2>1 DEF Leased, Leases
  <2>2. ASSUME Leased(h) PROVE Leased(g)
    <3>1. PICK i \in DOMAIN q : q[i].lease = "live"
      BY <2>2 DEF Leased
    <3>2. PICK k \in DOMAIN g.queue : at[k] = i
      BY <1>3, <1>9, <3>1 DEF Leases
    <3>3. i \notin picked
      BY <1>9, <3>1
    <3> QED BY <1>4, <3>1, <3>2, <3>3 DEF Leased
  <2> QED BY <2>1, <2>2
<1> QED BY <1>2, <1>5, <1>6, <1>7, <1>8, <1>9

(* An agent keeps what it has, or is given one of the events of h. *)
Served(agent, h) ==
  \A a \in Agents :
    \/ agent[a] = h.agent[a]
    \/ \E i \in DOMAIN h.queue : agent[a] = Given(a, h.queue[i], h)

LEMMA GivenFacts ==
  ASSUME NEW h \in Hubs, NEW a \in Agents, NEW e \in Entries
  PROVE  /\ Given(a, e, h) \in AgentStates
         /\ Given(a, e, h).id \in {e.id, NoId}
         /\ Given(a, e, h).at \in {"idle", "left", "working"}
         /\ Fits(e.id, e.type) => AgentFits(Given(a, e, h))
<1>1. e.id \in Ids \cup {NoId} /\ e.type \in Types \cup {"exit"}
  BY DEF Entries
<1>2. Idle \in AgentStates /\ Idle.id = NoId /\ Idle.at = "idle"
  BY DEF Idle, AgentStates, None
<1>3. CASE h.agent[a].at = "lost"
  BY <1>2, <1>3 DEF Given, AgentFits, Idle
<1>4. CASE h.agent[a].at # "lost" /\ e.type = "exit"
  BY <1>4 DEF Given, AgentFits, Idle, AgentStates, None
<1>5. CASE h.agent[a].at # "lost" /\ e.type # "exit"
  BY <1>1, <1>5 DEF Given, AgentFits, AgentStates, Fits
<1> QED BY <1>3, <1>4, <1>5

(* Handing events out. *)
LEMMA ServeFacts ==
  ASSUME NEW h \in Hubs
  PROVE  LET g == serve(h)
         IN /\ g \in Hubs /\ g.tab = h.tab /\ g.last = h.last /\ g.told = h.told
            /\ g.timer = h.timer /\ g.raced = h.raced
            /\ Within(g, h) /\ Covers(g, h, Ids) /\ Served(g.agent, h)
            /\ g.polls = <<>> \/ Available(g) = {}
<1> DEFINE g == serve(h)
           n == servable(h)
           avail == Available(h)
           events == Without(h.queue, DOMAIN h.queue \ avail)
           picked == {i \in avail : Cardinality({j \in avail : j <= i}) <= n}
           agent == [a \in Agents |->
                      IF \E k \in 1..n : h.polls[k] = a
                        THEN Given(a, events[CHOOSE k \in 1..n : h.polls[k] = a], h)
                        ELSE h.agent[a]]
<1>1. /\ h.queue \in Seq(Entries) /\ h.polls \in Seq(Agents) /\ Len(h.polls) \in Nat
      /\ h.agent \in [Agents -> AgentStates]
  BY HubFields
<1>2. /\ avail \in SUBSET DOMAIN h.queue /\ DOMAIN h.queue = 1..Len(h.queue)
      /\ Len(h.queue) \in Nat
  BY <1>1 DEF Available
<1>3. IsFiniteSet(avail) /\ Cardinality(avail) \in Nat
  <2>1. IsFiniteSet(1..Len(h.queue))
    BY <1>2, FS_Interval
  <2> HIDE DEF avail
  <2> QED BY <1>2, <2>1, FS_Subset, FS_CardinalityType
<1>4. n \in Nat /\ n <= Cardinality(avail) /\ n <= Len(h.polls)
      /\ (n = Len(h.polls) \/ n = Cardinality(avail))
  BY <1>1, <1>3 DEF servable
<1> HIDE DEF n, avail
<1>5. /\ events \in Seq(Entries) /\ Len(events) = Cardinality(avail)
      /\ \A k \in DOMAIN events : \E i \in DOMAIN h.queue : events[k] = h.queue[i]
  <2>1. DOMAIN h.queue \ (DOMAIN h.queue \ avail) = avail
    BY <1>2
  <2>2. PICK at : Places(at, events, h.queue, DOMAIN h.queue \ avail)
    BY <1>1, WithoutFacts
  <2>3. /\ events \in Seq(Entries)
        /\ Len(events) = Cardinality(DOMAIN h.queue \ (DOMAIN h.queue \ avail))
    BY <1>1, WithoutFacts
  <2> HIDE DEF events
  <2> QED BY <1>2, <2>1, <2>2, <2>3 DEF Places
<1>6. \A k \in 1..n : k \in DOMAIN events
  BY <1>3, <1>4, <1>5
<1> HIDE DEF events
<1>7. ASSUME NEW a \in Agents
      PROVE  /\ agent[a] \in AgentStates
             /\ \/ agent[a] = h.agent[a]
                \/ \E i \in DOMAIN h.queue : agent[a] = Given(a, h.queue[i], h)
  <2>1. CASE \E k \in 1..n : h.polls[k] = a
    <3> DEFINE k == CHOOSE k \in 1..n : h.polls[k] = a
    <3>1. k \in 1..n
      BY <2>1
    <3> HIDE DEF k
    <3>2. PICK i \in DOMAIN h.queue : events[k] = h.queue[i]
      BY <1>5, <1>6, <3>1
    <3>3. agent[a] = Given(a, events[k], h)
      BY <2>1 DEF k
    <3>4. h.queue[i] \in Entries
      BY <1>1
    <3> HIDE DEF agent
    <3> QED BY <3>2, <3>3, <3>4, GivenFacts
  <2>2. CASE ~\E k \in 1..n : h.polls[k] = a
    BY <1>1, <2>2
  <2> QED BY <2>1, <2>2
<1>8. agent \in [Agents -> AgentStates] /\ Served(agent, h)
  BY <1>7 DEF Served
<1> HIDE DEF agent
<1>9. Without(h.polls, 1..n) \in Seq(Agents)
      /\ (n = Len(h.polls) => Without(h.polls, 1..n) = <<>>)
  <2>1. Without(h.polls, 1..n) \in Seq(Agents)
    BY <1>1, WithoutFacts
  <2>2. PICK at : Places(at, Without(h.polls, 1..n), h.polls, 1..n)
    BY <1>1, WithoutFacts
  <2>3. n = Len(h.polls) => DOMAIN h.polls \ (1..n) = {}
    BY <1>1
  <2>4. n = Len(h.polls) => DOMAIN Without(h.polls, 1..n) = {}
    BY <2>2, <2>3 DEF Places
  <2> QED BY <2>1, <2>4
<1>10. picked \in SUBSET DOMAIN h.queue /\ (n = Cardinality(avail) => avail \subseteq picked)
  <2>1. \A i \in avail : Cardinality({j \in avail : j <= i}) <= Cardinality(avail)
    <3> SUFFICES ASSUME NEW i \in avail
                 PROVE  Cardinality({j \in avail : j <= i}) <= Cardinality(avail)
      OBVIOUS
    <3>1. {j \in avail : j <= i} \subseteq avail
      OBVIOUS
    <3> QED BY <1>3, <3>1, FS_Subset
  <2> QED BY <1>2, <2>1
<1> HIDE DEF picked
<1>11. leaseEvents(h.queue, picked) \in Seq(Entries)
  BY <1>1, <1>10, LeaseFacts
<1>12. g = [h EXCEPT !.queue = leaseEvents(h.queue, picked),
                     !.polls = Without(h.polls, 1..n), !.agent = agent]
  BY DEF serve, n, avail, events, picked, agent
<1>13. /\ g \in Hubs /\ g.tab = h.tab /\ g.last = h.last /\ g.told = h.told
       /\ g.timer = h.timer /\ g.raced = h.raced /\ g.agent = agent
       /\ g.queue = leaseEvents(h.queue, picked) /\ g.polls = Without(h.polls, 1..n)
  BY <1>8, <1>9, <1>11, <1>12 DEF Hubs
<1> HIDE DEF g
<1>14. Within(g, h) /\ Covers(g, h, Ids) /\ (avail \subseteq picked => Available(g) = {})
  BY <1>10, <1>13, LeaseWithin DEF avail
<1>15. g.polls = <<>> \/ Available(g) = {}
  BY <1>4, <1>9, <1>10, <1>13, <1>14
<1> QED BY <1>8, <1>13, <1>14, <1>15 DEF g

(* Flushing the polls leaves no poll beside an event. *)
LEMMA FlushFacts ==
  ASSUME NEW h \in Hubs, Told(h), NoExit(h)
  PROVE  LET g == flushPendingPolls(h)
         IN /\ g \in Hubs /\ Flushed(g) /\ TimerSet(g) /\ Told(g) /\ NoExit(g)
            /\ Broadcast(h) => Broadcast(g)
            /\ g.tab = h.tab /\ Within(g, h) /\ Covers(g, h, Ids) /\ Served(g.agent, h)
<1> DEFINE g == flushPendingPolls(h)
<1>1. CASE h.polls = <<>>
  <2>1. g = scheduleLeaseFlush(h)
    BY <1>1 DEF flushPendingPolls
  <2>2. Flushed(h)
    BY <1>1 DEF Flushed
  <2> HIDE DEF g
  <2>3. /\ g \in Hubs /\ SameWork(g, h)
        /\ Flushed(g) /\ TimerSet(g) /\ Told(g) /\ NoExit(g)
        /\ Broadcast(h) => Broadcast(g)
    BY <2>1, <2>2, ScheduleKeeps
  <2>4. g.tab = h.tab /\ g.agent = h.agent
    BY <2>3 DEF SameWork
  <2>5. Within(g, h) /\ Covers(g, h, Ids)
    BY <2>3, SameWorkWithin
  <2>6. Served(g.agent, h)
    BY <2>4 DEF Served
  <2> QED BY <2>3, <2>4, <2>5, <2>6 DEF g
<1>2. CASE h.polls # <<>>
  <2> DEFINE f == serve(h)
  <2>1. g = Settled(f)
    BY <1>2 DEF flushPendingPolls, Settled
  <2>2. /\ f \in Hubs /\ f.tab = h.tab /\ f.last = h.last /\ f.told = h.told
        /\ f.timer = h.timer /\ f.raced = h.raced
        /\ Within(f, h) /\ Covers(f, h, Ids) /\ Served(f.agent, h)
        /\ f.polls = <<>> \/ Available(f) = {}
    BY ServeFacts
  <2> HIDE DEF f, g
  <2>3. Flushed(f) /\ Told(f) /\ NoExit(f)
    <3>1. OfId(h, NoId) = {} => OfId(f, NoId) = {}
      BY <2>2, WithinFacts
    <3> QED BY <2>2, <3>1 DEF Flushed, Told, NoExit
  <2>4. HubGood(g) /\ SameWork(g, f)
    BY <2>1, <2>2, <2>3, SettledGood
  <2>5. Within(g, f) /\ Covers(g, f, Ids) /\ g.tab = f.tab /\ g.agent = f.agent
    BY <2>4, SameWorkWithin DEF SameWork
  <2>6. Within(g, h) /\ Covers(g, h, Ids)
    BY <2>2, <2>5, WithinTransitive
  <2> QED BY <2>2, <2>4, <2>5, <2>6 DEF HubGood, g
<1> QED BY <1>1, <1>2

(* What a change of the hub that adds no event keeps of the work in it; of the   *)
(* events of these ids it loses none.                                           *)
Follows(g, h, ids) ==
  /\ QueueFits(h) /\ AgentsFit(h) => QueueFits(g) /\ AgentsFit(g)
  /\ \A m : OnePending(h, m) => OnePending(g, m)
  /\ \A id \in Ids : NobodyHas(h, id) => NobodyHas(g, id)
  /\ \A id : OfId(h, id) = {} => OfId(g, id) = {}
  /\ \A id, type : Queued(g, id, type) => Queued(h, id, type)
  /\ Covers(g, h, ids)
  /\ \A a \in Agents : g.agent[a].at = "replying" => g.agent[a] = h.agent[a]

LEMMA FollowsFacts ==
  ASSUME NEW h \in Hubs, NEW g, NEW ids, Within(g, h), Covers(g, h, ids), Served(g.agent, h)
  PROVE  Follows(g, h, ids)
<1>0. \A i \in DOMAIN h.queue : h.queue[i] \in Entries
  BY HubFields
<1>1. /\ QueueFits(h) => QueueFits(g)
      /\ \A m : OnePending(h, m) => OnePending(g, m)
      /\ \A id : OfId(h, id) = {} => OfId(g, id) = {}
      /\ \A id, type : Queued(g, id, type) => Queued(h, id, type)
  BY WithinFacts
<1>2. ASSUME QueueFits(h), AgentsFit(h), NEW a \in Agents PROVE AgentFits(g.agent[a])
  <2>1. CASE g.agent[a] = h.agent[a]
    BY <1>2, <2>1 DEF AgentsFit
  <2>2. ASSUME NEW i \in DOMAIN h.queue, g.agent[a] = Given(a, h.queue[i], h)
        PROVE  AgentFits(g.agent[a])
    <3>1. Fits(h.queue[i].id, h.queue[i].type)
      BY <1>2 DEF QueueFits
    <3> QED BY <1>0, <2>2, <3>1, GivenFacts
  <2> QED BY <2>1, <2>2 DEF Served
<1>3. ASSUME NEW id \in Ids, NobodyHas(h, id), NEW a \in Agents PROVE g.agent[a].id # id
  <2>1. CASE g.agent[a] = h.agent[a]
    BY <1>3, <2>1 DEF NobodyHas
  <2>2. ASSUME NEW i \in DOMAIN h.queue, g.agent[a] = Given(a, h.queue[i], h)
        PROVE  g.agent[a].id # id
    <3>1. h.queue[i].id # id /\ id # NoId
      BY <1>3, IdsAssumption DEF NobodyHas, OfId
    <3> QED BY <1>0, <2>2, <3>1, GivenFacts
  <2> QED BY <2>1, <2>2 DEF Served
<1>4. ASSUME NEW a \in Agents, g.agent[a].at = "replying" PROVE g.agent[a] = h.agent[a]
  BY <1>0, <1>4, GivenFacts DEF Served
<1>5. QueueFits(h) /\ AgentsFit(h) => AgentsFit(g)
  BY <1>2 DEF AgentsFit
<1>6. \A id \in Ids : NobodyHas(h, id) => NobodyHas(g, id)
  BY <1>1, <1>3 DEF NobodyHas
<1> QED BY <1>1, <1>4, <1>5, <1>6 DEF Follows

LEMMA FollowsTransitive ==
  ASSUME NEW f, NEW g, NEW h, NEW ids, Follows(f, g, ids), Follows(g, h, ids)
  PROVE  Follows(f, h, ids)
<1>1. Covers(f, h, ids)
  BY DEF Follows, Covers
<1>2. \A a \in Agents : f.agent[a].at = "replying" => f.agent[a] = h.agent[a]
  BY DEF Follows
<1> QED BY <1>1, <1>2 DEF Follows

LEMMA SameWorkFollows ==
  ASSUME NEW h \in Hubs, NEW g, SameWork(g, h)
  PROVE  Follows(g, h, Ids)
<1>1. Within(g, h) /\ Covers(g, h, Ids)
  BY SameWorkWithin
<1>2. Served(g.agent, h)
  BY DEF SameWork, Served
<1> QED BY <1>1, <1>2, FollowsFacts

LEMMA FewerIds ==
  ASSUME NEW g, NEW h, NEW ids, NEW fewer \in SUBSET ids, Follows(g, h, ids)
  PROVE  Follows(g, h, fewer)
BY DEF Follows, Covers

LEMMA FlushGood ==
  ASSUME NEW h \in Hubs, Told(h), NoExit(h), Broadcast(h)
  PROVE  LET g == flushPendingPolls(h)
         IN HubGood(g) /\ g.tab = h.tab /\ Follows(g, h, Ids)
<1> DEFINE g == flushPendingPolls(h)
<1>1. /\ g \in Hubs /\ Flushed(g) /\ TimerSet(g) /\ Told(g) /\ NoExit(g) /\ Broadcast(g)
      /\ g.tab = h.tab /\ Within(g, h) /\ Covers(g, h, Ids) /\ Served(g.agent, h)
  BY FlushFacts
<1> HIDE DEF g
<1>2. Follows(g, h, Ids)
  BY <1>1, FollowsFacts
<1> QED BY <1>1, <1>2 DEF HubGood, g

(* Taking events of one id out of the queue. *)
LEMMA DropFacts ==
  ASSUME NEW h \in Hubs, NEW id, NEW gone \in SUBSET OfId(h, id), NEW g,
         g.queue = Without(h.queue, gone)
  PROVE  /\ g.queue \in Seq(Entries) /\ Within(g, h) /\ Covers(g, h, Ids \ {id})
         /\ Available(h) = {} => Available(g) = {}
         /\ gone = OfId(h, id) => OfId(g, id) = {}
<1>1. h.queue \in Seq(Entries)
  BY HubFields
<1>2. g.queue \in Seq(Entries)
  BY <1>1, WithoutFacts
<1>3. PICK at : Places(at, g.queue, h.queue, gone)
  BY <1>1, WithoutFacts
<1>4. /\ at \in [DOMAIN g.queue -> DOMAIN h.queue]
      /\ \A k \in DOMAIN g.queue : at[k] \notin gone /\ g.queue[k] = h.queue[at[k]]
      /\ \A k, l \in DOMAIN g.queue : at[k] = at[l] => k = l
  BY <1>3 DEF Places
<1>5. Within(g, h)
  BY <1>4 DEF Within
<1>6. Covers(g, h, Ids \ {id})
  <2> SUFFICES ASSUME NEW x \in Ids \ {id}, NEW type, Queued(h, x, type) PROVE Queued(g, x, type)
    BY DEF Covers
  <2>1. PICK i \in DOMAIN h.queue : h.queue[i].id = x /\ h.queue[i].type = type
    BY DEF Queued
  <2>2. i \in DOMAIN h.queue \ gone
    BY <2>1 DEF OfId
  <2>3. PICK k \in DOMAIN g.queue : at[k] = i
    BY <1>3, <2>2 DEF Places
  <2> QED BY <1>4, <2>1, <2>3 DEF Queued
<1>7. Available(h) = {} => Available(g) = {}
  BY <1>4 DEF Available
<1>8. gone = OfId(h, id) => OfId(g, id) = {}
  BY <1>4 DEF OfId
<1> QED BY <1>2, <1>5, <1>6, <1>7, <1>8

(* The hub without some of the events of one id, settled. *)
LEMMA DropGood ==
  ASSUME NEW h, HubGood(h), NEW id, NEW gone \in SUBSET OfId(h, id)
  PROVE  LET g == Settled([h EXCEPT !.queue = Without(h.queue, gone)])
         IN /\ HubGood(g) /\ g.tab = h.tab /\ Follows(g, h, Ids \ {id})
            /\ gone = OfId(h, id) => OfId(g, id) = {}
<1> DEFINE f == [h EXCEPT !.queue = Without(h.queue, gone)]
           g == Settled(f)
<1>1. h \in Hubs
  BY DEF HubGood
<1>2. /\ f.queue = Without(h.queue, gone) /\ f.polls = h.polls /\ f.timer = h.timer
      /\ f.last = h.last /\ f.tab = h.tab /\ f.told = h.told /\ f.raced = h.raced
      /\ f.agent = h.agent
  BY <1>1 DEF Hubs
<1>3. Without(h.queue, gone) \in Seq(Entries)
  BY <1>1, HubFields, WithoutFacts
<1>4. f \in Hubs
  BY <1>1, <1>3 DEF Hubs
<1> HIDE DEF f
<1>5. /\ Within(f, h) /\ Covers(f, h, Ids \ {id})
      /\ Available(h) = {} => Available(f) = {}
      /\ gone = OfId(h, id) => OfId(f, id) = {}
  BY <1>1, <1>2, DropFacts
<1>6. Served(f.agent, h)
  BY <1>2 DEF Served
<1>7. Follows(f, h, Ids \ {id})
  BY <1>1, <1>5, <1>6, FollowsFacts
<1>8. Flushed(f) /\ Told(f) /\ NoExit(f)
  <2>1. OfId(h, NoId) = {} => OfId(f, NoId) = {}
    BY <1>7 DEF Follows
  <2> QED BY <1>2, <1>5, <2>1 DEF HubGood, Flushed, Told, NoExit
<1> HIDE DEF g
<1>9. HubGood(g) /\ SameWork(g, f)
  BY <1>4, <1>8, SettledGood DEF g
<1>10. Follows(g, f, Ids \ {id}) /\ g.tab = f.tab
  BY <1>4, <1>9, SameWorkFollows, FewerIds DEF SameWork
<1>11. Follows(g, h, Ids \ {id})
  BY <1>7, <1>10, FollowsTransitive
<1>12. OfId(f, id) = {} => OfId(g, id) = {}
  BY <1>9, SameWorkFacts
<1> QED BY <1>2, <1>5, <1>9, <1>10, <1>11, <1>12 DEF g, f

LEMMA Least ==
  ASSUME NEW T \in SUBSET Nat, T # {}
  PROVE  \E i \in T : \A j \in T : i <= j
<1>1. PICK i \in T : \A j \in T : ~(<<j, i>> \in OpToRel(<, Nat))
  BY NatLessThanWellFounded, WFMin
<1>2. ASSUME NEW j \in T PROVE i <= j
  <2>0. i \in Nat /\ j \in Nat
    OBVIOUS
  <2>1. ~(<<j, i>> \in OpToRel(<, Nat))
    BY <1>1
  <2>2. <<j, i>> \in Nat \X Nat /\ <<j, i>>[1] = j /\ <<j, i>>[2] = i
    BY <2>0
  <2>3. j < i => <<j, i>> \in OpToRel(<, Nat)
    BY <2>0, <2>2 DEF OpToRel
  <2>4. ~(j < i) => i <= j
    BY <2>0
  <2> QED BY <2>1, <2>3, <2>4
<1> QED BY <1>2

(* A reply: the first event of its id leaves the queue, and with it the last     *)
(* unless the id is muddled.                                                    *)
LEMMA AcknowledgeGood ==
  ASSUME NEW h, HubGood(h), NEW id \in Ids
  PROVE  LET g == acknowledgePendingEvent(h, id)
         IN /\ HubGood(g) /\ g.tab = h.tab /\ Follows(g, h, Ids \ {id})
            /\ \A m : OnePending(h, m) /\ id \notin m => OfId(g, id) = {}
<1> DEFINE g == acknowledgePendingEvent(h, id)
           first == CHOOSE i \in OfId(h, id) : \A j \in OfId(h, id) : i <= j
<1>0. h \in Hubs /\ id # NoId
  BY IdsAssumption DEF HubGood
<1>1. CASE OfId(h, id) = {}
  <2>1. g = h
    BY <1>1 DEF acknowledgePendingEvent
  <2>2. Follows(h, h, Ids)
    BY <1>0, SameWorkFollows DEF SameWork
  <2>3. Follows(h, h, Ids \ {id})
    BY <2>2, FewerIds
  <2> QED BY <1>1, <2>1, <2>3
<1>2. CASE OfId(h, id) # {}
  <2>1. DOMAIN h.queue \subseteq Nat
    BY <1>0, HubFields
  <2>2. first \in OfId(h, id)
    <3>1. OfId(h, id) \in SUBSET Nat
      BY <2>1 DEF OfId
    <3>2. \E i \in OfId(h, id) : \A j \in OfId(h, id) : i <= j
      BY <1>2, <3>1, Least
    <3> QED BY <3>2
  <2>3. g = Settled([h EXCEPT !.queue = Without(h.queue, {first})])
    BY <1>0, <1>2 DEF acknowledgePendingEvent, Settled
  <2> HIDE DEF g, first
  <2>4. /\ HubGood(g) /\ g.tab = h.tab /\ Follows(g, h, Ids \ {id})
        /\ {first} = OfId(h, id) => OfId(g, id) = {}
    <3>1. {first} \in SUBSET OfId(h, id)
      BY <2>2
    <3> QED BY <2>3, <3>1, DropGood
  <2>5. ASSUME NEW m, OnePending(h, m), id \notin m PROVE OfId(h, id) = {first}
    BY <1>0, <2>2, <2>5 DEF OnePending, OfId
  <2> QED BY <2>4, <2>5 DEF g
<1> QED BY <1>1, <1>2

(* A tab that connects takes the exits back. *)
LEMMA CancelGood ==
  ASSUME NEW h, HubGood(h)
  PROVE  LET g == cancelQueuedAnonymousExitEvents(h)
         IN HubGood(g) /\ g.tab = h.tab /\ Follows(g, h, Ids) /\ OfId(g, NoId) = {}
<1> DEFINE g == cancelQueuedAnonymousExitEvents(h)
<1>0. h \in Hubs
  BY DEF HubGood
<1>1. CASE OfId(h, NoId) = {}
  <2>1. g = h
    BY <1>1 DEF cancelQueuedAnonymousExitEvents
  <2>2. Follows(h, h, Ids)
    BY <1>0, SameWorkFollows DEF SameWork
  <2> QED BY <1>1, <2>1, <2>2
<1>2. CASE OfId(h, NoId) # {}
  <2>1. g = Settled([h EXCEPT !.queue = Without(h.queue, OfId(h, NoId))])
    BY <1>0, <1>2 DEF cancelQueuedAnonymousExitEvents, Settled
  <2> HIDE DEF g
  <2>2. HubGood(g) /\ g.tab = h.tab /\ Follows(g, h, Ids \ {NoId}) /\ OfId(g, NoId) = {}
    BY <2>1, DropGood
  <2>3. Ids \ {NoId} = Ids
    BY IdsAssumption
  <2> QED BY <2>2, <2>3 DEF g
<1> QED BY <1>1, <1>2

(* An agent that is done, or starts something else. *)
LEMMA BecomeGood ==
  ASSUME NEW h, HubGood(h), NEW a \in Agents, NEW what \in AgentStates
  PROVE  LET g == Become(h, a, what)
         IN /\ HubGood(g) /\ g.tab = h.tab /\ g.queue = h.queue /\ g.polls = h.polls
            /\ g.timer = h.timer /\ g.last = h.last /\ g.raced = h.raced
            /\ g.agent = [h.agent EXCEPT ![a] = what]
<1> DEFINE g == Become(h, a, what)
<1>1. h \in Hubs /\ h.agent \in [Agents -> AgentStates]
  BY HubFields DEF HubGood
<1>2. /\ g \in Hubs /\ g.tab = h.tab /\ g.queue = h.queue /\ g.polls = h.polls
      /\ g.timer = h.timer /\ g.last = h.last /\ g.raced = h.raced /\ g.told = h.told
      /\ g.agent = [h.agent EXCEPT ![a] = what]
  BY <1>1 DEF Hubs, Become
<1> HIDE DEF g
<1>3. /\ Leased(g) <=> Leased(h)
      /\ agentPollingConnected(g) = agentPollingConnected(h)
      /\ Available(g) = Available(h)
      /\ \A id : OfId(g, id) = OfId(h, id)
  BY <1>2 DEF Leased, agentPollingConnected, Available, OfId
<1>4. HubGood(g)
  BY <1>2, <1>3 DEF HubGood, Flushed, TimerSet, Broadcast, Told, NoExit
<1> QED BY <1>2, <1>4 DEF g

(* What a change of the hub that adds no event of a session keeps of the work in *)
(* it, and of the answers that agents are about to give.                         *)
KeepsWork(g, h) ==
  /\ QueueFits(h) /\ AgentsFit(h) => QueueFits(g) /\ AgentsFit(g)
  /\ \A m : OnePending(h, m) => OnePending(g, m)
  /\ \A id \in Ids : NobodyHas(h, id) => NobodyHas(g, id)
  /\ \A id \in Ids : OfId(h, id) = {} => OfId(g, id) = {}
  /\ \A id \in Ids : \A type : Queued(g, id, type) => Queued(h, id, type)
  /\ Covers(g, h, Ids)

SameAnswers(g, h) ==
  \A a \in Agents : g.agent[a].at = "replying" => g.agent[a] = h.agent[a]

LEMMA FollowsKeeps ==
  ASSUME NEW g, NEW h, Follows(g, h, Ids)
  PROVE  KeepsWork(g, h) /\ SameAnswers(g, h)
BY DEF Follows, KeepsWork, SameAnswers

LEMMA KeepsTransitive ==
  ASSUME NEW f, NEW g, NEW h, KeepsWork(f, g), KeepsWork(g, h),
         SameAnswers(f, g), SameAnswers(g, h)
  PROVE  KeepsWork(f, h) /\ SameAnswers(f, h)
<1>1. SameAnswers(f, h)
  BY DEF SameAnswers
<1>2. KeepsWork(f, h)
  BY DEF KeepsWork, Covers
<1> QED BY <1>1, <1>2

LEMMA SameQueueFollows ==
  ASSUME NEW h \in Hubs, NEW g, g.queue = h.queue, g.agent = h.agent
  PROVE  Follows(g, h, Ids)
<1>1. Covers(g, h, Ids) /\ Served(g.agent, h)
  BY DEF Covers, Queued, Served
<1>2. [k \in DOMAIN h.queue |-> k] \in [DOMAIN g.queue -> DOMAIN h.queue]
  OBVIOUS
<1>3. Within(g, h)
  BY <1>2 DEF Within
<1> QED BY <1>1, <1>3, FollowsFacts

LEMMA SameAgents ==
  ASSUME NEW h \in Hubs, NEW g, g.queue = h.queue, g.agent = h.agent
  PROVE  KeepsWork(g, h) /\ SameAnswers(g, h)
BY SameQueueFollows, FollowsKeeps

(* An agent that turns to nothing new keeps all of it. *)
LEMMA AgentKeeps ==
  ASSUME NEW h \in Hubs, NEW g, NEW a \in Agents, NEW what,
         g.queue = h.queue, g.agent = [h.agent EXCEPT ![a] = what],
         AgentsFit(h) => AgentFits(what), what.id \in {h.agent[a].id, NoId}
  PROVE  KeepsWork(g, h) /\ (what.at # "replying" => SameAnswers(g, h))
<1>1. h.agent \in [Agents -> AgentStates]
  BY HubFields
<1>2. \A id : OfId(g, id) = OfId(h, id)
  BY DEF OfId
<1>3. \A id, type : Queued(g, id, type) <=> Queued(h, id, type)
  BY DEF Queued
<1>4. \A m : OnePending(h, m) => OnePending(g, m)
  BY DEF OnePending
<1>5. \A id \in Ids : NobodyHas(h, id) => NobodyHas(g, id)
  BY <1>1, <1>2, IdsAssumption DEF NobodyHas
<1>6. QueueFits(h) /\ AgentsFit(h) => QueueFits(g) /\ AgentsFit(g)
  BY <1>1 DEF QueueFits, AgentsFit
<1>7. Covers(g, h, Ids)
  BY <1>3 DEF Covers
<1>8. what.at # "replying" => SameAnswers(g, h)
  BY <1>1 DEF SameAnswers
<1> QED BY <1>2, <1>3, <1>4, <1>5, <1>6, <1>7, <1>8 DEF KeepsWork

(* The post of an event: it is in the queue then, or handed out already. *)
LEMMA EnqueueGood ==
  ASSUME NEW h, HubGood(h), NEW id \in Ids \cup {NoId}, NEW type \in Types \cup {"exit"},
         id = NoId => ~h.tab
  PROVE  LET g == enqueueEvent(h, id, type)
         IN /\ HubGood(g) /\ g.tab = h.tab /\ Covers(g, h, Ids)
            /\ id # NoId => Queued(g, id, type)
            /\ \A x, t : Queued(g, x, t) => Queued(h, x, t) \/ (x = id /\ t = type)
            /\ QueueFits(h) /\ AgentsFit(h) /\ Fits(id, type) => QueueFits(g) /\ AgentsFit(g)
            /\ \A m : OnePending(h, m) /\ (OfId(h, id) = {} \/ id \in m \cup {NoId}) =>
                        OnePending(g, m)
            /\ \A x \in Ids \ {id} : NobodyHas(h, x) => NobodyHas(g, x)
            /\ \A a \in Agents : g.agent[a].at = "replying" => g.agent[a] = h.agent[a]
<1> DEFINE g == enqueueEvent(h, id, type)
           f == [h EXCEPT !.queue = Append(h.queue, Entry(id, type))]
<1>0. h \in Hubs /\ h.queue \in Seq(Entries)
  BY HubFields DEF HubGood
<1>1. CASE id # NoId /\ Queued(h, id, type)
  <2>1. g = h
    BY <1>1 DEF enqueueEvent
  <2>2. Covers(h, h, Ids)
    BY DEF Covers
  <2> QED BY <1>1, <2>1, <2>2
<1>2. CASE ~(id # NoId /\ Queued(h, id, type))
  <2>1. g = flushPendingPolls(f)
    BY <1>0, <1>2 DEF enqueueEvent
  <2>2. Entry(id, type) \in Entries /\ Entry(id, type).id = id /\ Entry(id, type).type = type
        /\ Entry(id, type).lease # "live"
    BY DEF Entry, Entries, None
  <2>3. /\ f.queue = Append(h.queue, Entry(id, type)) /\ f.polls = h.polls
        /\ f.timer = h.timer /\ f.last = h.last /\ f.tab = h.tab /\ f.told = h.told
        /\ f.raced = h.raced /\ f.agent = h.agent
    BY <1>0 DEF Hubs
  <2>4. f \in Hubs
    <3>1. Append(h.queue, Entry(id, type)) \in Seq(Entries)
      BY <1>0, <2>2
    <3> QED BY <1>0, <3>1 DEF Hubs
  <2> HIDE DEF f, g
  <2>5. /\ Len(f.queue) = Len(h.queue) + 1 /\ Len(h.queue) \in Nat
        /\ DOMAIN h.queue = 1..Len(h.queue) /\ DOMAIN f.queue = 1..Len(f.queue)
        /\ \A i \in DOMAIN h.queue : f.queue[i] = h.queue[i]
        /\ f.queue[Len(f.queue)] = Entry(id, type)
    BY <1>0, <2>2, <2>3
  <2>6. \A i \in DOMAIN f.queue : i \in DOMAIN h.queue \/ i = Len(f.queue)
    BY <2>5
  <2>7. /\ DOMAIN h.queue \subseteq DOMAIN f.queue
        /\ Len(f.queue) \in DOMAIN f.queue /\ Len(f.queue) \notin DOMAIN h.queue
    BY <2>5
  <2>8. Leased(f) <=> Leased(h)
    BY <2>2, <2>5, <2>6, <2>7 DEF Leased
  <2>9. Told(f) /\ NoExit(f) /\ Broadcast(f)
    <3>1. agentPollingConnected(f) = agentPollingConnected(h)
      BY <2>3, <2>8 DEF agentPollingConnected
    <3>2. h.tab => OfId(f, NoId) = {}
      BY <2>2, <2>5, <2>6 DEF OfId, HubGood, NoExit
    <3> QED BY <2>3, <3>1, <3>2 DEF HubGood, Told, NoExit, Broadcast
  <2>10. /\ HubGood(g) /\ g.tab = f.tab /\ Follows(g, f, Ids)
    BY <2>1, <2>4, <2>9, FlushGood
  <2>11. \A x, t : Queued(h, x, t) => Queued(f, x, t)
    BY <2>5, <2>7 DEF Queued
  <2>12. Queued(f, id, type)
    BY <2>2, <2>5, <2>7 DEF Queued
  <2>13. \A x, t : Queued(f, x, t) => Queued(h, x, t) \/ (x = id /\ t = type)
    BY <2>2, <2>5, <2>6 DEF Queued
  <2>14. QueueFits(h) /\ Fits(id, type) => QueueFits(f)
    BY <2>2, <2>5, <2>6 DEF QueueFits
  <2>15. AgentsFit(f) <=> AgentsFit(h)
    BY <2>3 DEF AgentsFit
  <2>16. ASSUME NEW m, OnePending(h, m), OfId(h, id) = {} \/ id \in m \cup {NoId}
         PROVE  OnePending(f, m)
    BY <2>2, <2>5, <2>6, <2>16 DEF OnePending, OfId
  <2>17. ASSUME NEW x \in Ids \ {id}, NobodyHas(h, x) PROVE NobodyHas(f, x)
    BY <2>2, <2>3, <2>5, <2>6, <2>17 DEF NobodyHas, OfId
  <2>18. Covers(g, h, Ids)
    BY <2>10, <2>11 DEF Follows, Covers
  <2>19. id # NoId => Queued(g, id, type)
    BY <2>10, <2>12 DEF Follows, Covers
  <2>20. \A x, t : Queued(g, x, t) => Queued(h, x, t) \/ (x = id /\ t = type)
    BY <2>10, <2>13 DEF Follows
  <2>21. QueueFits(h) /\ AgentsFit(h) /\ Fits(id, type) => QueueFits(g) /\ AgentsFit(g)
    BY <2>10, <2>14, <2>15 DEF Follows
  <2>22. \A m : OnePending(h, m) /\ (OfId(h, id) = {} \/ id \in m \cup {NoId}) => OnePending(g, m)
    BY <2>10, <2>16 DEF Follows
  <2>23. \A x \in Ids \ {id} : NobodyHas(h, x) => NobodyHas(g, x)
    BY <2>10, <2>17 DEF Follows
  <2>24. \A a \in Agents : g.agent[a].at = "replying" => g.agent[a] = h.agent[a]
    BY <2>3, <2>10 DEF Follows
  <2> QED BY <2>3, <2>10, <2>18, <2>19, <2>20, <2>21, <2>22, <2>23, <2>24 DEF g
<1> QED BY <1>1, <1>2

(* The anonymous exit is the work of no session. *)
LEMMA ExitGood ==
  ASSUME NEW h, HubGood(h), ~h.tab
  PROVE  LET g == enqueueEvent(h, NoId, "exit")
         IN HubGood(g) /\ KeepsWork(g, h) /\ SameAnswers(g, h)
<1> DEFINE g == enqueueEvent(h, NoId, "exit")
<1>1. Fits(NoId, "exit")
  BY IdsAssumption DEF Fits, Ids
<1>2. "exit" \in Types \cup {"exit"} /\ NoId \in Ids \cup {NoId} /\ NoId \notin Ids
  BY IdsAssumption
<1>3. /\ HubGood(g) /\ Covers(g, h, Ids)
      /\ \A x, t : Queued(g, x, t) => Queued(h, x, t) \/ (x = NoId /\ t = "exit")
      /\ QueueFits(h) /\ AgentsFit(h) /\ Fits(NoId, "exit") => QueueFits(g) /\ AgentsFit(g)
      /\ \A m : OnePending(h, m) /\ (OfId(h, NoId) = {} \/ NoId \in m \cup {NoId}) =>
                  OnePending(g, m)
      /\ \A x \in Ids \ {NoId} : NobodyHas(h, x) => NobodyHas(g, x)
      /\ \A a \in Agents : g.agent[a].at = "replying" => g.agent[a] = h.agent[a]
  BY <1>2, EnqueueGood
<1> HIDE DEF g
<1>4. ASSUME NEW id \in Ids, OfId(h, id) = {} PROVE OfId(g, id) = {}
  <2> SUFFICES ASSUME NEW i \in DOMAIN g.queue, g.queue[i].id = id PROVE FALSE
    BY DEF OfId
  <2>1. Queued(g, id, g.queue[i].type)
    BY DEF Queued
  <2>2. Queued(h, id, g.queue[i].type)
    BY <1>2, <1>3, <2>1
  <2> QED BY <1>4, <2>2 DEF OfId, Queued
<1>5. \A m : OnePending(h, m) => OnePending(g, m)
  BY <1>3
<1>6. \A id \in Ids : NobodyHas(h, id) => NobodyHas(g, id)
  BY <1>2, <1>3
<1>7. KeepsWork(g, h)
  BY <1>1, <1>2, <1>3, <1>4, <1>5, <1>6 DEF KeepsWork
<1> QED BY <1>3, <1>7 DEF SameAnswers, g

--------------------------------------------------------------------------------
(* The steps that change no more than the hub. *)

LEMMA IdleFacts ==
  /\ Idle \in AgentStates /\ Idle.at = "idle" /\ Idle.id = NoId /\ AgentFits(Idle)
  /\ [Idle EXCEPT !.at = "polling"] = [at |-> "polling", id |-> NoId, type |-> None]
  /\ [Idle EXCEPT !.at = "lost"] = [at |-> "lost", id |-> NoId, type |-> None]
  /\ [Idle EXCEPT !.at = "left"] = [at |-> "left", id |-> NoId, type |-> None]
  /\ \A w : w.at \in {"polling", "lost", "left"} => AgentFits(w)
  /\ [at |-> "polling", id |-> NoId, type |-> None] \in AgentStates
  /\ [at |-> "lost", id |-> NoId, type |-> None] \in AgentStates
  /\ [at |-> "left", id |-> NoId, type |-> None] \in AgentStates
BY DEF Idle, AgentStates, AgentFits, None

(* An agent stops what it does. *)
LEMMA StopGood ==
  ASSUME NEW h, HubGood(h), NEW a \in Agents, NEW what \in AgentStates,
         what.id = NoId, what.at \in {"idle", "polling", "lost", "left"}
  PROVE  LET g == Become(h, a, what)
         IN /\ HubGood(g) /\ KeepsWork(g, h) /\ SameAnswers(g, h)
            /\ g.queue = h.queue /\ g.polls = h.polls /\ g.timer = h.timer
            /\ g.last = h.last /\ g.tab = h.tab
<1> DEFINE g == Become(h, a, what)
<1>1. /\ HubGood(g) /\ g.queue = h.queue /\ g.polls = h.polls /\ g.timer = h.timer
      /\ g.last = h.last /\ g.tab = h.tab /\ g.agent = [h.agent EXCEPT ![a] = what]
  BY BecomeGood
<1>2. h \in Hubs /\ AgentFits(what) /\ what.at # "replying"
  BY DEF HubGood, AgentFits
<1> HIDE DEF g
<1>3. KeepsWork(g, h) /\ SameAnswers(g, h)
  BY <1>1, <1>2, AgentKeeps
<1> QED BY <1>1, <1>3 DEF g

LEMMA TakeGood ==
  ASSUME HubGood(hub), NEW a \in Agents, Poll(a), Available(hub) # {}
  PROVE  HubGood(hub') /\ KeepsWork(hub', hub) /\ SameAnswers(hub', hub)
<1> DEFINE i == CHOOSE i \in Available(hub) : \A j \in Available(hub) : i <= j
           e == hub.queue[i]
           what == Given(a, e, hub)
           h == [Become(hub, a, what) EXCEPT !.queue = leaseEvents(@, {i})]
<1>0. hub \in Hubs /\ hub.queue \in Seq(Entries) /\ hub.agent \in [Agents -> AgentStates]
  BY HubFields DEF HubGood
<1>1. i \in Available(hub)
  <2>1. Available(hub) \in SUBSET Nat
    BY <1>0 DEF Available
  <2>2. \E k \in Available(hub) : \A j \in Available(hub) : k <= j
    BY <2>1, Least
  <2> QED BY <2>2
<1>2. hub' = IF e.id = NoId THEN h ELSE Settled(h)
  BY DEF Poll, Settled
<1> HIDE DEF i
<1>3. i \in DOMAIN hub.queue /\ e \in Entries /\ e.lease # "live"
  BY <1>0, <1>1 DEF Available
<1>4. what \in AgentStates
  BY <1>0, <1>3, GivenFacts
<1>5. leaseEvents(hub.queue, {i}) \in Seq(Entries)
  BY <1>0, <1>3, LeaseFacts
<1> HIDE DEF what, e
<1>6. /\ h \in Hubs /\ h.queue = leaseEvents(hub.queue, {i}) /\ h.polls = hub.polls
      /\ h.timer = hub.timer /\ h.last = hub.last /\ h.tab = hub.tab /\ h.told = hub.told
      /\ h.raced = hub.raced /\ h.agent = [hub.agent EXCEPT ![a] = what]
  BY <1>0, <1>4, <1>5 DEF Hubs, Become
<1> HIDE DEF h
<1>7. /\ Within(h, hub) /\ Covers(h, hub, Ids)
      /\ e.id = NoId => (Leased(h) <=> Leased(hub))
      /\ \A x : x \in Available(h) => Available(hub) # {}
  <2>1. {i} \in SUBSET DOMAIN hub.queue
    BY <1>3
  <2>2. e.id = NoId => \A k \in {i} : hub.queue[k].id = NoId /\ hub.queue[k].lease # "live"
    BY <1>3 DEF e
  <2> QED BY <1>0, <1>1, <1>6, <2>1, <2>2, LeaseWithin
<1>8. Served(h.agent, hub)
  BY <1>0, <1>3, <1>6 DEF Served, what, e
<1>9. Follows(h, hub, Ids)
  BY <1>0, <1>7, <1>8, FollowsFacts
<1>10. OfId(hub, NoId) = {} => OfId(h, NoId) = {}
  BY <1>9 DEF Follows
<1>11. Flushed(h) /\ Told(h) /\ NoExit(h)
  BY <1>1, <1>6, <1>10 DEF HubGood, Flushed, Told, NoExit
<1>12. CASE e.id = NoId
  <2>1. agentPollingConnected(h) <=> agentPollingConnected(hub)
    BY <1>6, <1>7, <1>12 DEF agentPollingConnected
  <2>2. TimerSet(h)
    BY <1>6, <1>7, <1>12 DEF HubGood, TimerSet
  <2>3. agentPollingConnected(h) \in BOOLEAN /\ agentPollingConnected(hub) \in BOOLEAN
    BY DEF agentPollingConnected
  <2>4. Broadcast(h)
    BY <1>6, <2>1, <2>3 DEF HubGood, Broadcast, Agrees
  <2>5. HubGood(h)
    BY <1>6, <1>11, <2>2, <2>4 DEF HubGood
  <2> QED BY <1>2, <1>9, <1>12, <2>5, FollowsKeeps
<1>13. CASE e.id # NoId
  <2>1. HubGood(Settled(h)) /\ SameWork(Settled(h), h)
    BY <1>6, <1>11, SettledGood
  <2>2. Follows(Settled(h), h, Ids)
    BY <1>6, <2>1, SameWorkFollows
  <2>3. Follows(Settled(h), hub, Ids)
    BY <1>9, <2>2, FollowsTransitive
  <2> QED BY <1>2, <1>13, <2>1, <2>3, FollowsKeeps
<1> QED BY <1>12, <1>13

LEMMA ParkGood ==
  ASSUME HubGood(hub), NEW a \in Agents, Poll(a), Available(hub) = {}
  PROVE  HubGood(hub') /\ KeepsWork(hub', hub) /\ SameAnswers(hub', hub)
<1> DEFINE what == [Idle EXCEPT !.at = "polling"]
           p == Become(hub, a, what)
           h == [p EXCEPT !.polls = Append(@, a)]
           f == broadcastAgentPollingIfChanged(h)
           g == scheduleLeaseFlush(f)
<1>0. hub \in Hubs /\ hub.polls \in Seq(Agents)
  BY HubFields DEF HubGood
<1>1. hub' = g
  BY DEF Poll
<1>2. HubGood(p) /\ KeepsWork(p, hub) /\ SameAnswers(p, hub)
  BY IdleFacts, StopGood
<1>3. p.queue = hub.queue /\ p.polls = hub.polls
  BY <1>0 DEF Become, Hubs
<1> HIDE DEF p
<1>4. p \in Hubs /\ Append(p.polls, a) \in Seq(Agents)
  BY <1>0, <1>2, <1>3 DEF HubGood
<1>5. /\ h \in Hubs /\ h.queue = p.queue /\ h.timer = p.timer /\ h.last = p.last
      /\ h.tab = p.tab /\ h.told = p.told /\ h.raced = p.raced /\ h.agent = p.agent
  BY <1>4 DEF Hubs
<1> HIDE DEF h
<1>6. Available(h) = {} /\ (Leased(h) <=> Leased(p)) /\ OfId(h, NoId) = OfId(p, NoId)
  BY <1>3, <1>5 DEF Available, Leased, OfId
<1>7. Flushed(h) /\ TimerSet(h) /\ Told(h) /\ NoExit(h)
  BY <1>2, <1>5, <1>6 DEF HubGood, Flushed, TimerSet, Told, NoExit
<1>8. HubGood(f) /\ SameWork(f, h)
  BY <1>5, <1>7, BroadcastKeeps
<1> HIDE DEF f
<1>9. /\ g \in Hubs /\ SameWork(g, f)
      /\ Flushed(g) /\ TimerSet(g) /\ Told(g) /\ NoExit(g) /\ Broadcast(g)
  BY <1>8, ScheduleKeeps DEF HubGood
<1> HIDE DEF g
<1>10. g.queue = p.queue /\ g.agent = p.agent
  BY <1>5, <1>8, <1>9 DEF SameWork
<1>11. KeepsWork(g, p) /\ SameAnswers(g, p)
  BY <1>4, <1>10, SameAgents
<1>12. KeepsWork(g, hub) /\ SameAnswers(g, hub)
  BY <1>2, <1>11, KeepsTransitive
<1> QED BY <1>1, <1>9, <1>12 DEF HubGood

LEMMA PollGood ==
  ASSUME HubGood(hub), NEW a \in Agents, Poll(a)
  PROVE  HubGood(hub') /\ KeepsWork(hub', hub) /\ SameAnswers(hub', hub)
BY TakeGood, ParkGood

LEMMA PollEndsGood ==
  ASSUME HubGood(hub), NEW a \in Agents, PollEnds(a)
  PROVE  HubGood(hub') /\ KeepsWork(hub', hub) /\ SameAnswers(hub', hub)
<1> DEFINE p == Become(hub, a, Idle)
           h == [p EXCEPT !.polls = Without(@, {i \in DOMAIN @ : @[i] = a})]
           g == broadcastAgentPollingIfChanged(h)
<1>1. hub' = g
  BY DEF PollEnds, Unparked
<1>2. HubGood(p) /\ KeepsWork(p, hub) /\ SameAnswers(p, hub)
  BY IdleFacts, StopGood
<1> HIDE DEF p
<1>3. p \in Hubs /\ p.polls \in Seq(Agents)
  BY <1>2, HubFields DEF HubGood
<1> DEFINE gone == {i \in DOMAIN p.polls : p.polls[i] = a}
           polls == Without(p.polls, gone)
<1>4. polls \in Seq(Agents) /\ (p.polls = <<>> => polls = <<>>)
  <2>1. polls \in Seq(Agents)
    BY <1>3, WithoutFacts
  <2>2. PICK at : Places(at, polls, p.polls, gone)
    BY <1>3, WithoutFacts
  <2> HIDE DEF polls
  <2>3. p.polls = <<>> => DOMAIN p.polls \ gone = {}
    BY <1>3
  <2>4. p.polls = <<>> => DOMAIN polls = {}
    BY <2>2, <2>3 DEF Places
  <2> QED BY <2>1, <2>4
<1>5. h = [p EXCEPT !.polls = polls]
  BY <1>3
<1> HIDE DEF polls, gone, h
<1>6. /\ h \in Hubs /\ h.queue = p.queue /\ h.polls = polls /\ h.timer = p.timer
      /\ h.last = p.last /\ h.tab = p.tab /\ h.told = p.told /\ h.raced = p.raced
      /\ h.agent = p.agent
  BY <1>3, <1>4, <1>5 DEF Hubs
<1>7. /\ Available(h) = Available(p) /\ (Leased(h) <=> Leased(p))
      /\ OfId(h, NoId) = OfId(p, NoId)
  BY <1>6 DEF Available, Leased, OfId
<1>8. Flushed(h) /\ TimerSet(h) /\ Told(h) /\ NoExit(h)
  BY <1>2, <1>4, <1>6, <1>7 DEF HubGood, Flushed, TimerSet, Told, NoExit
<1> HIDE DEF g
<1>9. HubGood(g) /\ SameWork(g, h)
  BY <1>6, <1>8, BroadcastKeeps DEF g
<1>10. g.queue = p.queue /\ g.agent = p.agent
  BY <1>6, <1>9 DEF SameWork
<1>11. KeepsWork(g, p) /\ SameAnswers(g, p)
  BY <1>3, <1>10, SameAgents
<1>12. KeepsWork(g, hub) /\ SameAnswers(g, hub)
  BY <1>2, <1>11, KeepsTransitive
<1> QED BY <1>1, <1>9, <1>12

LEMMA AgentDiesGood ==
  ASSUME HubGood(hub), NEW a \in Agents, AgentDies(a) \/ GiveUp(a)
  PROVE  /\ HubGood(hub') /\ KeepsWork(hub', hub) /\ SameAnswers(hub', hub)
         /\ hub'.queue = hub.queue /\ hub'.polls = hub.polls /\ hub'.timer = hub.timer
         /\ hub'.last = hub.last /\ hub'.tab = hub.tab
<1>1. PICK what \in {Idle, [Idle EXCEPT !.at = "lost"]} : hub' = Become(hub, a, what)
  BY DEF AgentDies, GiveUp
<1>2. what \in AgentStates /\ what.id = NoId /\ what.at \in {"idle", "polling", "lost", "left"}
  BY IdleFacts
<1> QED BY <1>1, <1>2, StopGood

LEMMA LeaseRunsOutGood ==
  ASSUME HubGood(hub), NEW i, LeaseRunsOut(i)
  PROVE  HubGood(hub') /\ KeepsWork(hub', hub) /\ SameAnswers(hub', hub)
<1>0. hub \in Hubs /\ hub.queue \in Seq(Entries)
  BY HubFields DEF HubGood
<1>1. i \in DOMAIN hub.queue /\ hub.queue[i] \in Entries /\ hub.queue[i].lease = "live"
  BY <1>0 DEF LeaseRunsOut
<1> DEFINE q == [hub.queue EXCEPT ![i].lease = "over"]
           timer == IF hub.timer = "armed" THEN "due" ELSE hub.timer
<1>2. q \in Seq(Entries) /\ DOMAIN q = DOMAIN hub.queue
  <2>1. [hub.queue[i] EXCEPT !.lease = "over"] \in Entries
    BY <1>1 DEF Entries
  <2>2. q = [hub.queue EXCEPT ![i] = [hub.queue[i] EXCEPT !.lease = "over"]]
    BY <1>0, <1>1
  <2> QED BY <1>0, <1>1, <2>1, <2>2
<1>3. ASSUME NEW k \in DOMAIN hub.queue
      PROVE  /\ q[k].id = hub.queue[k].id /\ q[k].type = hub.queue[k].type
             /\ k # i => q[k].lease = hub.queue[k].lease
             /\ k = i => q[k].lease = "over"
  <2>1. hub.queue[k] \in Entries
    BY <1>0
  <2> QED BY <1>0, <1>1, <2>1 DEF Entries
<1>4. timer \in {"off", "armed", "due"}
  BY <1>0, HubFields
<1>5. hub' = [hub EXCEPT !.queue = q, !.timer = timer]
  BY <1>0 DEF LeaseRunsOut
<1> HIDE DEF q, timer
<1>6. /\ hub' \in Hubs /\ hub'.queue = q /\ hub'.timer = timer /\ hub'.polls = hub.polls
      /\ hub'.last = hub.last /\ hub'.tab = hub.tab /\ hub'.told = hub.told
      /\ hub'.raced = hub.raced /\ hub'.agent = hub.agent
  BY <1>0, <1>2, <1>4, <1>5 DEF Hubs
<1>7. timer = "due"
  <2>1. hub.timer # "off"
    BY <1>1 DEF HubGood, TimerSet, Leased
  <2> QED BY <1>0, <2>1, HubFields DEF timer
<1>8. OfId(hub', NoId) = OfId(hub, NoId)
  BY <1>2, <1>3, <1>6 DEF OfId
<1>9. HubGood(hub')
  BY <1>6, <1>7, <1>8 DEF HubGood, Flushed, TimerSet, Broadcast, Told, NoExit
<1>10. Within(hub', hub)
  <2>1. [k \in DOMAIN hub.queue |-> k] \in [DOMAIN hub'.queue -> DOMAIN hub.queue]
    BY <1>2, <1>6
  <2> QED BY <1>2, <1>3, <1>6, <2>1 DEF Within
<1>11. Covers(hub', hub, Ids)
  BY <1>2, <1>3, <1>6 DEF Covers, Queued
<1>12. Served(hub'.agent, hub)
  BY <1>6 DEF Served
<1> QED BY <1>0, <1>9, <1>10, <1>11, <1>12, FollowsFacts, FollowsKeeps

LEMMA LeaseTimerGood ==
  ASSUME HubGood(hub), LeaseTimerFires
  PROVE  HubGood(hub') /\ KeepsWork(hub', hub) /\ SameAnswers(hub', hub)
<1> DEFINE h == [hub EXCEPT !.timer = "off"]
           f == flushPendingPolls(h)
           g == broadcastAgentPollingIfChanged(f)
<1>0. hub \in Hubs
  BY DEF HubGood
<1>1. hub' = g
  BY DEF LeaseTimerFires
<1>2. /\ h \in Hubs /\ h.queue = hub.queue /\ h.polls = hub.polls /\ h.last = hub.last
      /\ h.tab = hub.tab /\ h.told = hub.told /\ h.raced = hub.raced /\ h.agent = hub.agent
  BY <1>0 DEF Hubs
<1> HIDE DEF h
<1>3. Told(h) /\ NoExit(h)
  BY <1>2 DEF HubGood, Told, NoExit, OfId
<1>4. /\ f \in Hubs /\ Flushed(f) /\ TimerSet(f) /\ Told(f) /\ NoExit(f)
      /\ Within(f, h) /\ Covers(f, h, Ids) /\ Served(f.agent, h)
  BY <1>2, <1>3, FlushFacts
<1> HIDE DEF f
<1>5. HubGood(g) /\ SameWork(g, f)
  BY <1>4, BroadcastKeeps
<1> HIDE DEF g
<1>6. Follows(g, f, Ids) /\ Follows(f, h, Ids)
  BY <1>2, <1>4, <1>5, SameWorkFollows, FollowsFacts
<1>7. Follows(h, hub, Ids)
  BY <1>0, <1>2, SameWorkFollows DEF SameWork
<1>8. Follows(g, hub, Ids)
  BY <1>6, <1>7, FollowsTransitive
<1> QED BY <1>1, <1>5, <1>8, FollowsKeeps

LEMMA TabGood ==
  ASSUME HubGood(hub), TabConnects \/ TabCloses \/ ExitLiveMode \/ ExitTimerFires
  PROVE  HubGood(hub') /\ KeepsWork(hub', hub) /\ SameAnswers(hub', hub)
<1>0. hub \in Hubs
  BY DEF HubGood
<1>1. CASE TabConnects
  <2> DEFINE h == cancelQueuedAnonymousExitEvents(hub)
             told == agentPollingConnected(h)
             raced == Racing(hub)
  <2>1. HubGood(h) /\ Follows(h, hub, Ids) /\ OfId(h, NoId) = {}
    BY CancelGood
  <2>2. hub' = [h EXCEPT !.tab = TRUE, !.told = told, !.raced = raced]
    BY <1>1 DEF TabConnects
  <2>3. told \in BOOLEAN /\ raced \in BOOLEAN
    BY <1>0, HubFields DEF agentPollingConnected, Racing
  <2>4. /\ h.raced = hub.raced \/ h.raced = Racing(hub)
        /\ h.timer = "due" => hub.timer = "due"
    <3>1. CASE OfId(hub, NoId) = {}
      BY <3>1 DEF cancelQueuedAnonymousExitEvents
    <3>2. CASE OfId(hub, NoId) # {}
      <4> DEFINE f == [hub EXCEPT !.queue = Without(@, OfId(hub, NoId))]
      <4>1. Without(hub.queue, OfId(hub, NoId)) \in Seq(Entries)
        BY <1>0, HubFields, WithoutFacts
      <4>2. f \in Hubs /\ f.timer = hub.timer /\ f.raced = hub.raced
        BY <1>0, <4>1 DEF Hubs
      <4>3. h = Settled(f)
        BY <3>2 DEF cancelQueuedAnonymousExitEvents, Settled
      <4> HIDE DEF f, h
      <4>4. /\ scheduleLeaseFlush(f) \in Hubs
            /\ scheduleLeaseFlush(f).timer = IF Leased(f) THEN "armed" ELSE "off"
            /\ scheduleLeaseFlush(f).raced <=> f.raced \/ f.timer = "due"
        BY <4>2, ScheduleFacts
      <4>5. /\ h.timer = scheduleLeaseFlush(f).timer /\ h.raced = scheduleLeaseFlush(f).raced
        BY <4>3, <4>4, BroadcastFacts DEF Settled
      <4>6. scheduleLeaseFlush(f).raced = Racing(f)
        BY <4>2 DEF scheduleLeaseFlush, Hubs
      <4> QED BY <4>2, <4>4, <4>5, <4>6 DEF Racing
    <3> QED BY <3>1, <3>2
  <2> HIDE DEF h, told, raced
  <2>5. h \in Hubs
    BY <2>1 DEF HubGood
  <2>6. /\ hub' \in Hubs /\ hub'.queue = h.queue /\ hub'.polls = h.polls
        /\ hub'.timer = h.timer /\ hub'.last = h.last /\ hub'.tab = TRUE
        /\ hub'.told = told /\ hub'.raced = raced /\ hub'.agent = h.agent
    BY <2>2, <2>3, <2>5 DEF Hubs
  <2>7. /\ Available(hub') = Available(h) /\ (Leased(hub') <=> Leased(h))
        /\ OfId(hub', NoId) = {}
        /\ agentPollingConnected(hub') = agentPollingConnected(h)
    BY <2>1, <2>6 DEF Available, Leased, OfId, agentPollingConnected
  <2>8. raced <=> hub.raced \/ hub.timer = "due"
    BY DEF raced, Racing
  <2>9. h.raced => raced
    BY <2>4, <2>8 DEF raced
  <2>10. Flushed(hub') /\ TimerSet(hub') /\ NoExit(hub')
    BY <2>1, <2>6, <2>7, <2>9 DEF HubGood, Flushed, TimerSet, NoExit
  <2>11. ~raced => h.timer # "due" /\ ~h.raced
    BY <2>4, <2>8, <2>9
  <2>12. Broadcast(hub')
    BY <2>1, <2>6, <2>7, <2>9 DEF HubGood, Broadcast
  <2>13. Told(hub')
    BY <2>1, <2>6, <2>11 DEF HubGood, Broadcast, Told, told
  <2>14. HubGood(hub')
    BY <2>6, <2>10, <2>12, <2>13 DEF HubGood
  <2>15. Follows(hub', h, Ids)
    BY <2>5, <2>6, SameQueueFollows
  <2>16. Follows(hub', hub, Ids)
    BY <2>1, <2>15, FollowsTransitive
  <2> QED BY <2>14, <2>16, FollowsKeeps
<1>2. ASSUME NEW h, h = [hub EXCEPT !.tab = FALSE, !.told = FALSE]
      PROVE  HubGood(h) /\ Follows(h, hub, Ids) /\ ~h.tab
  <2>1. /\ h \in Hubs /\ h.queue = hub.queue /\ h.polls = hub.polls /\ h.timer = hub.timer
        /\ h.last = hub.last /\ h.tab = FALSE /\ h.raced = hub.raced /\ h.agent = hub.agent
    BY <1>0, <1>2 DEF Hubs
  <2>2. /\ Available(h) = Available(hub) /\ (Leased(h) <=> Leased(hub))
        /\ agentPollingConnected(h) = agentPollingConnected(hub)
    BY <2>1 DEF Available, Leased, agentPollingConnected
  <2>3. HubGood(h)
    BY <2>1, <2>2 DEF HubGood, Flushed, TimerSet, Broadcast, Told, NoExit
  <2> QED BY <1>0, <2>1, <2>3, SameQueueFollows
<1>3. CASE TabCloses
  <2>1. HubGood(hub') /\ Follows(hub', hub, Ids)
    BY <1>2, <1>3 DEF TabCloses
  <2> QED BY <2>1, FollowsKeeps
<1>4. CASE ExitLiveMode
  <2> DEFINE h == [hub EXCEPT !.tab = FALSE, !.told = FALSE]
  <2>1. HubGood(h) /\ Follows(h, hub, Ids) /\ ~h.tab
    BY <1>2
  <2>2. hub' = enqueueEvent(h, NoId, "exit")
    BY <1>4 DEF ExitLiveMode
  <2> HIDE DEF h
  <2>3. HubGood(hub') /\ KeepsWork(hub', h) /\ SameAnswers(hub', h)
    BY <2>1, <2>2, ExitGood
  <2>4. KeepsWork(h, hub) /\ SameAnswers(h, hub)
    BY <2>1, FollowsKeeps
  <2> QED BY <2>3, <2>4, KeepsTransitive
<1>5. CASE ExitTimerFires
  <2>1. CASE hub.tab
    <3>1. hub' = hub
      BY <1>5, <2>1 DEF ExitTimerFires
    <3>2. Follows(hub, hub, Ids)
      BY <1>0, SameQueueFollows
    <3> QED BY <3>1, <3>2, FollowsKeeps
  <2>2. CASE ~hub.tab
    BY <1>5, <2>2, ExitGood DEF ExitTimerFires
  <2> QED BY <2>1, <2>2
<1> QED BY <1>1, <1>3, <1>4, <1>5

--------------------------------------------------------------------------------
(* Journal, queue, page and source. *)

LEMMA LiveInvParts ==
  LiveInv <=> /\ TypeOK /\ HubGood(hub) /\ DownIsEmpty
              /\ QueueFits(hub) /\ AgentsFit(hub) /\ PendingFits
              /\ UnheardInv /\ NewInv /\ OnePending(hub, muddled)
              /\ AnswersTrue /\ NoLostWork /\ Durable /\ FinalIsClean
BY DEF LiveInv, WorkInv, JournalInv

LEMMA QueueIds ==
  ASSUME NEW h, HubGood(h), NEW i \in DOMAIN h.queue, h.queue[i].id # NoId
  PROVE  h.queue[i].id \in Ids
<1>1. h.queue \in Seq(Entries)
  BY HubFields DEF HubGood
<1>2. h.queue[i] \in Entries
  BY <1>1
<1> QED BY <1>2 DEF Entries

(* The page starts a session before it posts anything of it. *)
PageSteps ==
  \A id \in Sessions :
    /\ page'[id] = "none" \/ id \in unsent' =>
         /\ page[id] = "none" \/ id \in unsent
         /\ page'[id] \notin {"cycling", "saving"}
    /\ id \in unsent' => page'[id] # "none"

(* A step that leaves the journal and the source alone, and adds no event. *)
Calm ==
  /\ HubGood(hub') /\ KeepsWork(hub', hub) /\ SameAnswers(hub', hub)
  /\ journal' = journal /\ source' = source /\ up' = up
  /\ muddled \subseteq muddled'
  /\ PageSteps

LEMMA CalmKeeps ==
  ASSUME LiveInv, TypeOK', Calm, DownIsEmpty'
  PROVE  LiveInv'
<1>0. /\ TypeOK /\ HubGood(hub) /\ QueueFits(hub) /\ AgentsFit(hub) /\ PendingFits
      /\ UnheardInv /\ NewInv /\ OnePending(hub, muddled)
      /\ AnswersTrue /\ NoLostWork /\ Durable /\ FinalIsClean
  BY LiveInvParts
<1>1. /\ HubGood(hub') /\ KeepsWork(hub', hub) /\ SameAnswers(hub', hub)
      /\ journal' = journal /\ source' = source /\ up' = up
      /\ muddled \subseteq muddled'
  BY DEF Calm
<1>2. QueueFits(hub)' /\ AgentsFit(hub)' /\ PendingFits'
  BY <1>0, <1>1 DEF KeepsWork, PendingFits
<1>3. UnheardInv'
  <2> SUFFICES ASSUME NEW id \in Sessions
               PROVE  /\ page'[id] = "none" \/ id \in unsent' => Unheard(id)'
                      /\ id \in unsent' => page'[id] # "none"
    BY DEF UnheardInv
  <2>1. id \in unsent' => page'[id] # "none"
    BY DEF Calm, PageSteps
  <2>2. ASSUME page'[id] = "none" \/ id \in unsent' PROVE Unheard(id)'
    <3>1. Unheard(id) /\ page'[id] \notin {"cycling", "saving"}
      BY <1>0, <2>2 DEF Calm, PageSteps, UnheardInv
    <3>2. NobodyHas(hub, id)'
      BY <1>1, <3>1 DEF KeepsWork, Unheard, Ids
    <3> QED BY <1>1, <3>1, <3>2 DEF Unheard
  <2> QED BY <2>1, <2>2
<1>4. NewInv'
  BY <1>0, <1>1 DEF KeepsWork, NewInv
<1>5. OnePending(hub, muddled)'
  <2>1. OnePending(hub', muddled)
    BY <1>0, <1>1 DEF KeepsWork
  <2> QED BY <1>1, <2>1 DEF OnePending
<1>6. AnswersTrue'
  BY <1>0, <1>1 DEF SameAnswers, AnswersTrue
<1>7. NoLostWork'
  <2>1. Unfinished' = Unfinished
    BY <1>1 DEF Unfinished
  <2>2. Covers(hub', hub, Ids)
    BY <1>1 DEF KeepsWork
  <2> QED BY <1>0, <1>1, <2>1, <2>2 DEF NoLostWork, Unfinished, Covers
<1>8. Durable'
  <2> SUFFICES ASSUME NEW i \in DOMAIN hub'.queue,
                      hub'.queue[i].id # NoId, hub'.queue[i].id \notin muddled'
               PROVE  /\ hub'.queue[i].id \in Unfinished'
                      /\ journal'[hub'.queue[i].id].pending = hub'.queue[i].type
    BY DEF Durable
  <2>1. hub'.queue[i].id \in Ids /\ hub'.queue[i].id \notin muddled
    BY <1>1, QueueIds
  <2>2. Queued(hub', hub'.queue[i].id, hub'.queue[i].type)
    BY DEF Queued
  <2>3. Queued(hub, hub'.queue[i].id, hub'.queue[i].type)
    BY <1>1, <2>1, <2>2 DEF KeepsWork
  <2> QED BY <1>0, <1>1, <2>1, <2>3 DEF Queued, Durable, Unfinished
<1>9. FinalIsClean'
  BY <1>0, <1>1 DEF FinalIsClean
<1>10. HubGood(hub)'
  BY <1>1
<1> QED BY <1>2, <1>3, <1>4, <1>5, <1>6, <1>7, <1>8, <1>9, <1>10
        DEF LiveInv, WorkInv, JournalInv

(* The post of an event of a session whose events are not two, unless it is     *)
(* muddled.                                                                     *)
LEMMA PostKeeps ==
  ASSUME LiveInv, TypeOK', NEW id \in Ids, NEW type \in Types, Fits(id, type),
         PostEvent(id, type), up, up' = up, source' = source,
         muddled \subseteq muddled', OfId(hub, id) = {} \/ id \in muddled',
         PageSteps, id \in Sessions => page'[id] # "none" /\ id \notin unsent'
  PROVE  LiveInv'
<1>0. /\ TypeOK /\ HubGood(hub) /\ QueueFits(hub) /\ AgentsFit(hub) /\ PendingFits
      /\ UnheardInv /\ NewInv /\ OnePending(hub, muddled)
      /\ AnswersTrue /\ NoLostWork /\ Durable /\ FinalIsClean
  BY LiveInvParts
<1>1. id # NoId /\ hub' = enqueueEvent(hub, id, type)
  BY IdsAssumption DEF PostEvent
<1>2. /\ journal' = [journal EXCEPT ![id] = applyRequest(@, type)]
      /\ journal \in [Ids -> Snapshots]
  BY <1>0 DEF PostEvent, TypeOK
<1>3. /\ journal'[id].pending = type /\ journal'[id].phase = requested(type)
      /\ \A x \in Ids \ {id} : journal'[x] = journal[x]
  BY <1>2 DEF applyRequest, Snapshots
<1>4. requested(type) \notin Final \cup {"new"} /\ type # None
  BY DEF requested, Types, Final, None
<1>5. /\ HubGood(hub') /\ Covers(hub', hub, Ids) /\ Queued(hub', id, type)
      /\ \A x, y : Queued(hub', x, y) => Queued(hub, x, y) \/ (x = id /\ y = type)
      /\ QueueFits(hub') /\ AgentsFit(hub')
      /\ \A m : OnePending(hub, m) /\ (OfId(hub, id) = {} \/ id \in m \cup {NoId}) =>
                  OnePending(hub', m)
      /\ \A x \in Ids \ {id} : NobodyHas(hub, x) => NobodyHas(hub', x)
      /\ SameAnswers(hub', hub)
  <2>1. /\ id \in Ids \cup {NoId} /\ type \in Types \cup {"exit"} /\ (id = NoId => ~hub.tab)
    BY <1>1
  <2> QED BY <1>0, <1>1, <2>1, EnqueueGood DEF SameAnswers
<1> HIDE DEF PostEvent
<1>6. PendingFits'
  BY <1>0, <1>3 DEF PendingFits
<1>7. UnheardInv'
  <2> SUFFICES ASSUME NEW x \in Sessions
               PROVE  /\ page'[x] = "none" \/ x \in unsent' => Unheard(x)'
                      /\ x \in unsent' => page'[x] # "none"
    BY DEF UnheardInv
  <2>1. x \in unsent' => page'[x] # "none"
    BY DEF PageSteps
  <2>2. ASSUME page'[x] = "none" \/ x \in unsent' PROVE Unheard(x)'
    <3>1. Unheard(x) /\ page'[x] \notin {"cycling", "saving"}
      BY <1>0, <2>2 DEF PageSteps, UnheardInv
    <3>2. x \in Ids \ {id}
      BY <2>2 DEF Ids
    <3>3. NobodyHas(hub, x)'
      BY <1>5, <3>1, <3>2 DEF Unheard
    <3> QED BY <1>3, <3>1, <3>2, <3>3 DEF Unheard
  <2> QED BY <2>1, <2>2
<1>8. NewInv'
  <2> SUFFICES ASSUME NEW x \in Ids, journal'[x].phase = "new"
               PROVE  journal'[x].pending = None /\ OfId(hub', x) = {}
    BY DEF NewInv
  <2>1. x \in Ids \ {id}
    BY <1>3, <1>4
  <2>2. journal'[x].pending = None /\ OfId(hub, x) = {}
    BY <1>0, <1>3, <2>1 DEF NewInv
  <2>3. ASSUME NEW i \in DOMAIN hub'.queue, hub'.queue[i].id = x PROVE FALSE
    <3>1. Queued(hub', x, hub'.queue[i].type)
      BY <2>3 DEF Queued
    <3>2. Queued(hub, x, hub'.queue[i].type)
      BY <1>5, <2>1, <3>1
    <3> QED BY <2>2, <3>2 DEF Queued, OfId
  <2> QED BY <2>2, <2>3 DEF OfId
<1>9. OnePending(hub, muddled)'
  <2>1. OnePending(hub, muddled')
    BY <1>0 DEF OnePending
  <2> QED BY <1>5, <2>1
<1>10. AnswersTrue'
  BY <1>0, <1>5 DEF SameAnswers, AnswersTrue
<1>11. NoLostWork'
  <2> SUFFICES ASSUME NEW x \in Unfinished' PROVE Queued(hub', x, journal'[x].pending)
    BY DEF NoLostWork
  <2>1. CASE x = id
    BY <1>3, <1>5, <2>1
  <2>2. CASE x # id
    <3>1. x \in Ids \ {id}
      BY <2>2 DEF Unfinished
    <3>2. x \in Unfinished /\ journal'[x].pending = journal[x].pending
      BY <1>3, <3>1 DEF Unfinished
    <3>3. Queued(hub, x, journal[x].pending)
      BY <1>0, <3>2 DEF NoLostWork
    <3> QED BY <1>5, <3>1, <3>2, <3>3 DEF Covers
  <2> QED BY <2>1, <2>2
<1>12. Durable'
  <2> SUFFICES ASSUME NEW i \in DOMAIN hub'.queue,
                      hub'.queue[i].id # NoId, hub'.queue[i].id \notin muddled'
               PROVE  /\ hub'.queue[i].id \in Unfinished'
                      /\ journal'[hub'.queue[i].id].pending = hub'.queue[i].type
    BY DEF Durable
  <2> DEFINE x == hub'.queue[i].id
             y == hub'.queue[i].type
  <2>1. x \in Ids /\ x \notin muddled
    BY <1>5, QueueIds
  <2>2. Queued(hub', x, y)
    BY DEF Queued
  <2> HIDE DEF x, y
  <2>3. CASE Queued(hub, x, y)
    <3>1. x # id
      BY <2>3 DEF Queued, OfId, x
    <3>2. x \in Unfinished /\ journal[x].pending = y
      BY <1>0, <2>1, <2>3 DEF Durable, Queued, x
    <3> QED BY <1>3, <2>1, <3>1, <3>2 DEF Unfinished, x, y
  <2>4. CASE x = id /\ y = type
    BY <1>3, <1>4, <2>1, <2>4 DEF Unfinished, x, y
  <2> QED BY <1>5, <2>2, <2>3, <2>4
<1>13. FinalIsClean'
  <2> SUFFICES ASSUME NEW x \in Sessions, journal'[x].phase \in Final PROVE source'[x] = "clean"
    BY DEF FinalIsClean
  <2>1. x \in Ids \ {id}
    BY <1>3, <1>4 DEF Ids
  <2> QED BY <1>0, <1>3, <2>1 DEF FinalIsClean
<1>14. DownIsEmpty'
  BY DEF DownIsEmpty
<1>15. HubGood(hub)' /\ QueueFits(hub)' /\ AgentsFit(hub)'
  BY <1>5
<1> QED BY <1>6, <1>7, <1>8, <1>9, <1>10, <1>11, <1>12, <1>13, <1>14, <1>15
        DEF LiveInv, WorkInv, JournalInv

(* What a reply leaves in the hub. *)
LEMMA ReplyGood ==
  ASSUME NEW h, HubGood(h), QueueFits(h), AgentsFit(h), NEW id \in Ids,
         NEW a \in Agents, NEW next \in AgentStates, AgentFits(next),
         next.id \in {h.agent[a].id, NoId}, next.at # "replying"
  PROVE  LET g == flushPendingPolls(acknowledgePendingEvent(Become(h, a, next), id))
         IN /\ HubGood(g) /\ QueueFits(g) /\ AgentsFit(g) /\ SameAnswers(g, h)
            /\ \A m : OnePending(h, m) => OnePending(g, m)
            /\ \A m : OnePending(h, m) /\ id \notin m => OfId(g, id) = {}
            /\ \A x \in Ids : NobodyHas(h, x) => NobodyHas(g, x)
            /\ \A x \in Ids : OfId(h, x) = {} => OfId(g, x) = {}
            /\ \A x \in Ids : \A y : Queued(g, x, y) => Queued(h, x, y)
            /\ Covers(g, h, Ids \ {id})
<1> DEFINE b == Become(h, a, next)
           k == acknowledgePendingEvent(b, id)
           g == flushPendingPolls(k)
<1>1. HubGood(b) /\ b.queue = h.queue /\ b.agent = [h.agent EXCEPT ![a] = next]
  BY BecomeGood
<1>2. h \in Hubs
  BY DEF HubGood
<1> HIDE DEF b
<1>3. KeepsWork(b, h) /\ SameAnswers(b, h)
  BY <1>1, <1>2, AgentKeeps
<1>4. /\ HubGood(k) /\ Follows(k, b, Ids \ {id})
      /\ \A m : OnePending(b, m) /\ id \notin m => OfId(k, id) = {}
  BY <1>1, AcknowledgeGood
<1> HIDE DEF k
<1>5. HubGood(g) /\ Follows(g, k, Ids)
  BY <1>4, FlushGood DEF HubGood
<1> HIDE DEF g
<1>6. Follows(g, b, Ids \ {id})
  BY <1>4, <1>5, FewerIds, FollowsTransitive
<1>7. QueueFits(g) /\ AgentsFit(g)
  BY <1>3, <1>6 DEF KeepsWork, Follows
<1>8. SameAnswers(g, h)
  BY <1>3, <1>6 DEF SameAnswers, Follows
<1>9. \A m : OnePending(h, m) => OnePending(g, m)
  BY <1>3, <1>6 DEF KeepsWork, Follows
<1>10. \A m : OnePending(h, m) /\ id \notin m => OfId(g, id) = {}
  BY <1>3, <1>4, <1>5 DEF KeepsWork, Follows
<1>11. \A x \in Ids : /\ NobodyHas(h, x) => NobodyHas(g, x)
                      /\ OfId(h, x) = {} => OfId(g, x) = {}
                      /\ \A y : Queued(g, x, y) => Queued(h, x, y)
  BY <1>3, <1>6 DEF KeepsWork, Follows
<1>12. Covers(g, h, Ids \ {id})
  BY <1>3, <1>6 DEF KeepsWork, Follows, Covers
<1> QED BY <1>5, <1>7, <1>8, <1>9, <1>10, <1>11, <1>12 DEF g, k, b

(* A reply of an agent that has the id it is about. *)
LEMMA ReplyKeeps ==
  ASSUME LiveInv, TypeOK', NEW a \in Agents, NEW id \in Ids, hub.agent[a].id = id,
         NEW type, NEW carbonize, NEW next \in AgentStates, AgentFits(next),
         next.id \in {hub.agent[a].id, NoId}, next.at # "replying",
         handlePollPost(a, id, type, carbonize, next),
         up, up' = up, muddled' = muddled, unsent' = unsent,
         \A x \in Sessions : source'[x] = source[x] \/ (x = id /\ source'[x] = "clean"),
         type \in {"complete", "discarded"} /\ id \in Sessions => source'[id] = "clean"
  PROVE  LiveInv'
<1>0. /\ TypeOK /\ HubGood(hub) /\ QueueFits(hub) /\ AgentsFit(hub) /\ PendingFits
      /\ UnheardInv /\ NewInv /\ OnePending(hub, muddled)
      /\ AnswersTrue /\ NoLostWork /\ Durable /\ FinalIsClean
  BY LiveInvParts
<1> DEFINE h == Become(hub, a, next)
           g == flushPendingPolls(acknowledgePendingEvent(h, id))
           acked == OfId(hub, id) # {}
           refused == ~acked /\ journal[id].phase = "new"
<1>1. /\ HubGood(g) /\ QueueFits(g) /\ AgentsFit(g) /\ SameAnswers(g, hub)
      /\ \A m : OnePending(hub, m) => OnePending(g, m)
      /\ \A m : OnePending(hub, m) /\ id \notin m => OfId(g, id) = {}
      /\ \A x \in Ids : NobodyHas(hub, x) => NobodyHas(g, x)
      /\ \A x \in Ids : OfId(hub, x) = {} => OfId(g, x) = {}
      /\ \A x \in Ids : \A y : Queued(g, x, y) => Queued(hub, x, y)
      /\ Covers(g, hub, Ids \ {id})
  BY <1>0, ReplyGood
<1>2. HubGood(h) /\ KeepsWork(h, hub) /\ SameAnswers(h, hub)
  <2>1. HubGood(h) /\ h.queue = hub.queue /\ h.agent = [hub.agent EXCEPT ![a] = next]
    BY <1>0, BecomeGood
  <2>2. hub \in Hubs
    BY <1>0 DEF HubGood
  <2> HIDE DEF h
  <2> QED BY <2>1, <2>2, AgentKeeps
<1>3. \/ refused /\ hub' = h /\ journal' = journal /\ page' = page
      \/ /\ ~refused /\ hub' = g
         /\ journal' = IF acked \/ journal[id].phase \notin Final
                         THEN [journal EXCEPT ![id] = applyReply(@, type, carbonize)]
                         ELSE journal
         /\ page' = IF hub.tab /\ id \in Sessions
                      THEN [page EXCEPT ![id] = PageAfter(id, type)] ELSE page
  BY DEF handlePollPost, Journalled
<1>4. ~NobodyHas(hub, id)
  BY DEF NobodyHas
<1>5. AnswersTrue'
  <2> SUFFICES ASSUME NEW b \in Agents, hub'.agent[b].at = "replying",
                      hub'.agent[b].type \in {"complete", "discarded"}
               PROVE  source'[hub'.agent[b].id] = "clean"
    BY DEF AnswersTrue
  <2>1. hub'.agent[b] = hub.agent[b]
    BY <1>1, <1>2, <1>3 DEF SameAnswers
  <2>2. hub.agent[b].id \in Sessions
    BY <1>0, <2>1 DEF AgentsFit, AgentFits
  <2> QED BY <1>0, <2>1, <2>2 DEF AnswersTrue
<1> HIDE DEF h, g, handlePollPost
<1>6. ASSUME NEW x \in Sessions, page[x] = "none" \/ x \in unsent
      PROVE  /\ x # id /\ Unheard(x) /\ page'[x] = page[x]
             /\ x \in unsent => page[x] # "none"
  <2>1. Unheard(x) /\ (x \in unsent => page[x] # "none")
    BY <1>0, <1>6 DEF UnheardInv
  <2>2. x # id
    BY <1>4, <2>1 DEF Unheard
  <2>3. page'[x] = page[x]
    BY <1>0, <1>3, <2>2 DEF TypeOK
  <2> QED BY <2>1, <2>2, <2>3
<1>7. ASSUME NEW x \in Sessions, page'[x] = "none" PROVE page[x] = "none"
  <2>1. CASE page'[x] = page[x]
    BY <1>7, <2>1
  <2>2. CASE x = id /\ page'[x] = PageAfter(id, type)
    BY <1>7, <2>2 DEF PageAfter
  <2>3. page'[x] = page[x] \/ (x = id /\ page'[x] = PageAfter(id, type))
    BY <1>0, <1>3 DEF TypeOK
  <2> QED BY <2>1, <2>2, <2>3
<1>8. UnheardInv'
  <2> SUFFICES ASSUME NEW x \in Sessions, page'[x] = "none" \/ x \in unsent'
               PROVE  Unheard(x)' /\ (x \in unsent' => page'[x] # "none")
    BY DEF UnheardInv
  <2>1. page[x] = "none" \/ x \in unsent
    BY <1>7
  <2>2. /\ x # id /\ Unheard(x) /\ page'[x] = page[x] /\ source'[x] = source[x]
        /\ x \in unsent' => page'[x] # "none"
    BY <1>6, <2>1
  <2>3. x \in Ids \ {id} /\ journal'[x] = journal[x]
    BY <1>0, <1>3, <2>2 DEF TypeOK, Ids
  <2>4. NobodyHas(hub, x)'
    BY <1>1, <1>2, <1>3, <2>2, <2>3 DEF Unheard, KeepsWork
  <2> QED BY <2>2, <2>3, <2>4 DEF Unheard
<1>9. CASE refused /\ hub' = h /\ journal' = journal /\ page' = page
  <2>1. FinalIsClean'
    BY <1>0, <1>9 DEF FinalIsClean
  <2>2. PendingFits' /\ NewInv'
    BY <1>0, <1>2, <1>9 DEF PendingFits, NewInv, KeepsWork
  <2>3. NoLostWork'
    <3>1. Unfinished' = Unfinished /\ Covers(hub', hub, Ids)
      BY <1>2, <1>9 DEF Unfinished, KeepsWork
    <3> QED BY <1>0, <1>9, <3>1 DEF NoLostWork, Covers, Unfinished
  <2>4. Durable'
    <3> SUFFICES ASSUME NEW i \in DOMAIN hub'.queue,
                        hub'.queue[i].id # NoId, hub'.queue[i].id \notin muddled'
                 PROVE  /\ hub'.queue[i].id \in Unfinished'
                        /\ journal'[hub'.queue[i].id].pending = hub'.queue[i].type
      BY DEF Durable
    <3>1. hub'.queue[i].id \in Ids /\ Queued(hub', hub'.queue[i].id, hub'.queue[i].type)
      BY <1>2, <1>9, QueueIds DEF Queued
    <3>2. Queued(hub, hub'.queue[i].id, hub'.queue[i].type)
      BY <1>2, <1>9, <3>1 DEF KeepsWork
    <3> QED BY <1>0, <1>9, <3>2 DEF Queued, Durable, Unfinished
  <2>5. (HubGood(hub) /\ QueueFits(hub) /\ AgentsFit(hub) /\ OnePending(hub, muddled))'
    BY <1>0, <1>2, <1>9 DEF KeepsWork
  <2>6. DownIsEmpty'
    BY DEF DownIsEmpty
  <2> QED BY <1>5, <1>8, <2>1, <2>2, <2>3, <2>4, <2>5, <2>6 DEF LiveInv, WorkInv, JournalInv
<1>10. CASE /\ ~refused /\ hub' = g
            /\ journal' = IF acked \/ journal[id].phase \notin Final
                            THEN [journal EXCEPT ![id] = applyReply(@, type, carbonize)]
                            ELSE journal
  <2>0. /\ \A x \in Ids \ {id} : journal'[x] = journal[x]
        /\ journal'[id].phase # "new"
        /\ \/ journal'[id].pending = None
           \/ journal'[id] = journal[id] /\ journal[id].phase \in Final
        /\ journal'[id].phase \in Final =>
             journal[id].phase \in Final \/ type \in {"complete", "discarded"}
    <3>1. journal[id] \in Snapshots /\ journal \in [Ids -> Snapshots]
      BY <1>0 DEF TypeOK
    <3>2. CASE acked \/ journal[id].phase \notin Final
      <4>1. /\ journal' = [journal EXCEPT ![id] = applyReply(journal[id], type, carbonize)]
        BY <1>10, <3>2
      <4>2. /\ applyReply(journal[id], type, carbonize).pending = None
            /\ applyReply(journal[id], type, carbonize).phase =
                 CASE type = "steer_done" -> "steer_done"
                   [] type = "discarded" -> "discarded"
                   [] type = "complete" -> "completed"
                   [] type = "error" -> "agent_error"
                   [] OTHER -> IF carbonize THEN "carbonize_required" ELSE "variants_ready"
        BY <3>1 DEF applyReply, Snapshots
      <4>3. applyReply(journal[id], type, carbonize).phase # "new"
        BY <4>2
      <4>4. applyReply(journal[id], type, carbonize).phase \in Final =>
              type \in {"complete", "discarded"}
        BY <4>2 DEF Final
      <4> QED BY <3>1, <4>1, <4>2, <4>3, <4>4
    <3>3. CASE ~(acked \/ journal[id].phase \notin Final)
      <4>1. journal' = journal /\ journal[id].phase \in Final
        BY <1>10, <3>3
      <4> QED BY <4>1 DEF Final
    <3> QED BY <3>2, <3>3
  <2>1. FinalIsClean'
    <3> SUFFICES ASSUME NEW x \in Sessions, journal'[x].phase \in Final
                 PROVE  source'[x] = "clean"
      BY DEF FinalIsClean
    <3>1. CASE x # id
      BY <1>0, <2>0, <3>1 DEF FinalIsClean, Ids
    <3>2. CASE x = id
      BY <1>0, <2>0, <3>2 DEF FinalIsClean
    <3> QED BY <3>1, <3>2
  <2>2. PendingFits'
    BY <1>0, <2>0 DEF PendingFits
  <2>3. NewInv'
    BY <1>0, <1>1, <1>10, <2>0 DEF NewInv
  <2>4. NoLostWork'
    <3> SUFFICES ASSUME NEW x \in Unfinished' PROVE Queued(hub', x, journal'[x].pending)
      BY DEF NoLostWork
    <3>1. x \in Ids \ {id}
      BY <2>0 DEF Unfinished
    <3>2. x \in Unfinished /\ journal'[x] = journal[x]
      BY <2>0, <3>1 DEF Unfinished
    <3> QED BY <1>0, <1>1, <1>10, <3>1, <3>2 DEF NoLostWork, Covers
  <2>5. Durable'
    <3> SUFFICES ASSUME NEW i \in DOMAIN hub'.queue,
                        hub'.queue[i].id # NoId, hub'.queue[i].id \notin muddled'
                 PROVE  /\ hub'.queue[i].id \in Unfinished'
                        /\ journal'[hub'.queue[i].id].pending = hub'.queue[i].type
      BY DEF Durable
    <3>1. hub'.queue[i].id \in Ids /\ Queued(hub', hub'.queue[i].id, hub'.queue[i].type)
      BY <1>1, <1>10, QueueIds DEF Queued
    <3>2. Queued(hub, hub'.queue[i].id, hub'.queue[i].type)
      BY <1>1, <1>10, <3>1
    <3>3. hub'.queue[i].id # id
      <4>1. id \notin muddled => OfId(hub', id) = {}
        BY <1>0, <1>1, <1>10
      <4> QED BY <4>1 DEF OfId
    <3>4. journal'[hub'.queue[i].id] = journal[hub'.queue[i].id]
      BY <2>0, <3>1, <3>3
    <3> QED BY <1>0, <3>2, <3>4 DEF Queued, Durable, Unfinished
  <2>6. (HubGood(hub) /\ QueueFits(hub) /\ AgentsFit(hub) /\ OnePending(hub, muddled))'
    BY <1>0, <1>1, <1>10
  <2>7. DownIsEmpty'
    BY DEF DownIsEmpty
  <2> QED BY <1>5, <1>8, <2>1, <2>2, <2>3, <2>4, <2>5, <2>6, <2>7
          DEF LiveInv, WorkInv, JournalInv
<1> QED BY <1>3, <1>9, <1>10

--------------------------------------------------------------------------------
(* One lemma per group of actions. *)

LEMMA TypeParts ==
  ASSUME TypeOK
  PROVE  /\ up \in BOOLEAN /\ exitTimer \in BOOLEAN /\ hub \in Hubs
         /\ journal \in [Ids -> Snapshots]
         /\ page \in [Sessions -> {"none", "generating", "cycling", "saving", "closed"}]
         /\ unsent \in SUBSET Sessions /\ discarding \in SUBSET Sessions
         /\ source \in [Sessions -> {"original", "variants", "carbonize", "clean"}]
         /\ count \in [rev : [Sessions -> Nat], posts : [Sessions -> Nat], upsets : Nat]
         /\ muddled \in SUBSET Ids
BY DEF TypeOK

LEMMA Typed ==
  ASSUME HubGood(hub)
  PROVE  TypeOK <=>
           /\ up \in BOOLEAN /\ exitTimer \in BOOLEAN
           /\ journal \in [Ids -> Snapshots]
           /\ page \in [Sessions -> {"none", "generating", "cycling", "saving", "closed"}]
           /\ unsent \subseteq Sessions /\ discarding \subseteq Sessions
           /\ wire \subseteq [id : Sessions, rev : Nat,
                              phase : {"generating", "cycling", "saving"}]
           /\ source \in [Sessions -> {"original", "variants", "carbonize", "clean"}]
           /\ count \in [rev : [Sessions -> Nat], posts : [Sessions -> Nat], upsets : Nat]
           /\ muddled \subseteq Ids
BY DEF TypeOK, HubGood

Counts == [rev : [Sessions -> Nat], posts : [Sessions -> Nat], upsets : Nat]

LEMMA CountTyped ==
  ASSUME TypeOK, NEW id \in Sessions
  PROVE  /\ [count EXCEPT !.rev[id] = @ + 1] \in Counts
         /\ [count EXCEPT !.posts[id] = @ + 1] \in Counts
         /\ [count EXCEPT !.posts[id] = @ + 1, !.upsets = @ + 1] \in Counts
         /\ count.rev[id] + 1 \in Nat
<1>1. count \in Counts
  BY TypeParts DEF Counts
<1>2. count.rev \in [Sessions -> Nat] /\ count.posts \in [Sessions -> Nat] /\ count.upsets \in Nat
  BY <1>1 DEF Counts
<1>3. count.rev[id] + 1 \in Nat /\ count.posts[id] + 1 \in Nat /\ count.upsets + 1 \in Nat
  BY <1>2
<1>4. /\ [count.rev EXCEPT ![id] = count.rev[id] + 1] \in [Sessions -> Nat]
      /\ [count.posts EXCEPT ![id] = count.posts[id] + 1] \in [Sessions -> Nat]
  BY <1>2, <1>3
<1>5. [count EXCEPT !.rev = [count.rev EXCEPT ![id] = count.rev[id] + 1]] \in Counts
  BY <1>1, <1>4 DEF Counts
<1>6. [count EXCEPT !.posts = [count.posts EXCEPT ![id] = count.posts[id] + 1]] \in Counts
  BY <1>1, <1>4 DEF Counts
<1>7. [count EXCEPT !.posts = [count.posts EXCEPT ![id] = count.posts[id] + 1],
                    !.upsets = count.upsets + 1] \in Counts
  BY <1>1, <1>3, <1>4 DEF Counts
<1> QED BY <1>3, <1>5, <1>6, <1>7

LEMMA UpsetTyped ==
  ASSUME TypeOK
  PROVE  [count EXCEPT !.upsets = @ + 1] \in Counts
BY TypeParts DEF Counts

LEMMA LiveInit ==
  ASSUME Init
  PROVE  LiveInv
<1>1. hub = [queue |-> <<>>, polls |-> <<>>, timer |-> "off", last |-> {},
             tab |-> TRUE, told |-> FALSE, raced |-> FALSE,
             agent |-> [a \in Agents |-> Idle]]
  BY DEF Init
<1>2. /\ hub.queue = <<>> /\ hub.polls = <<>> /\ hub.timer = "off" /\ hub.last = {}
      /\ hub.tab = TRUE /\ hub.told = FALSE /\ hub.raced = FALSE
      /\ hub.agent = [a \in Agents |-> Idle]
  BY <1>1
<1>3. hub \in Hubs
  <2>1. <<>> \in Seq(Entries) /\ <<>> \in Seq(Agents) /\ {} \in SUBSET BOOLEAN
    OBVIOUS
  <2>2. [a \in Agents |-> Idle] \in [Agents -> AgentStates]
    BY IdleFacts
  <2> QED BY <1>1, <2>1, <2>2 DEF Hubs
<1>4. DOMAIN hub.queue = {}
  BY <1>2
<1>5. Available(hub) = {} /\ ~Leased(hub) /\ ~agentPollingConnected(hub)
      /\ \A id : OfId(hub, id) = {}
  BY <1>2, <1>4 DEF Available, Leased, agentPollingConnected, OfId
<1>6. HubGood(hub)
  BY <1>2, <1>3, <1>5 DEF HubGood, Flushed, TimerSet, Broadcast, Told, NoExit, Agrees
<1>7. TypeOK
  <2>1. [phase |-> "new", pending |-> None, rev |-> 0] \in Snapshots
    BY DEF Snapshots, None
  <2> QED BY <1>3, <2>1 DEF Init, TypeOK
<1>8. \A id \in Ids : journal[id].phase = "new" /\ journal[id].pending = None
  BY DEF Init
<1>9. \A a \in Agents : hub.agent[a] = Idle
  BY <1>2
<1>10. QueueFits(hub) /\ AgentsFit(hub) /\ PendingFits
  BY <1>4, <1>8, <1>9, IdleFacts DEF QueueFits, AgentsFit, PendingFits
<1>11. UnheardInv
  <2> SUFFICES ASSUME NEW id \in Sessions
               PROVE  Unheard(id) /\ (id \in unsent => page[id] # "none")
    BY DEF UnheardInv
  <2>1. id \in Ids /\ id # NoId
    BY IdsAssumption DEF Ids
  <2>2. NobodyHas(hub, id)
    BY <1>5, <1>9, <2>1, IdleFacts DEF NobodyHas
  <2> QED BY <1>8, <2>1, <2>2 DEF Unheard, Init, Final
<1>12. NewInv /\ OnePending(hub, muddled) /\ NoLostWork /\ Durable
  BY <1>4, <1>5, <1>8 DEF NewInv, OnePending, NoLostWork, Unfinished, Durable
<1>13. AnswersTrue
  BY <1>9, IdleFacts DEF AnswersTrue
<1>14. FinalIsClean
  BY <1>8 DEF FinalIsClean, Final, Ids
<1>15. DownIsEmpty
  BY DEF Init, DownIsEmpty
<1> QED BY <1>6, <1>7, <1>10, <1>11, <1>12, <1>13, <1>14, <1>15
        DEF LiveInv, WorkInv, JournalInv

(* The page, on its own. *)
LEMMA PageStep ==
  ASSUME LiveInv, NEW id \in Sessions, NEW answered \in BOOLEAN,
         Go(id) \/ Checkpoint(id) \/ VariantsShow(id) \/ Discarded(id, answered)
  PROVE  LiveInv'
<1>0. TypeOK /\ HubGood(hub) /\ DownIsEmpty /\ UnheardInv
  BY LiveInvParts
<1>1. hub' = hub /\ journal' = journal /\ source' = source /\ up' = up
      /\ exitTimer' = exitTimer /\ muddled \subseteq muddled'
  BY DEF Go, Checkpoint, VariantsShow, Discarded
<1>2. HubGood(hub') /\ KeepsWork(hub', hub) /\ SameAnswers(hub', hub)
  BY <1>0, <1>1, SameAgents DEF HubGood
<1>3. \A x \in Sessions : x \in unsent => page[x] # "none"
  BY <1>0 DEF UnheardInv
<1>4. \A x \in Sessions : page[x] = "none" \/ x \in unsent =>
        page[x] \notin {"cycling", "saving"} /\ source[x] # "variants"
  BY <1>0 DEF UnheardInv, Unheard
<1>5. PageSteps
  <2> USE <1>0, TypeParts
  <2>1. CASE Go(id)
    BY <1>3, <1>4, <2>1 DEF Go, PageSteps
  <2>2. CASE Checkpoint(id)
    BY <1>3, <1>4, <2>2 DEF Checkpoint, PageSteps
  <2>3. CASE VariantsShow(id)
    BY <1>3, <1>4, <2>3 DEF VariantsShow, PageSteps
  <2>4. CASE Discarded(id, answered)
    BY <1>3, <1>4, <2>4 DEF Discarded, PageSteps
  <2> QED BY <2>1, <2>2, <2>3, <2>4
<1>6. TypeOK'
  <2>1. CASE Go(id)
    BY <1>0, <2>1 DEF Go, TypeOK
  <2>2. CASE Checkpoint(id)
    <3>1. [id |-> id, rev |-> count.rev[id] + 1, phase |-> page[id]] \in
            [id : Sessions, rev : Nat, phase : {"generating", "cycling", "saving"}]
      BY <1>0, <2>2, CountTyped DEF Checkpoint
    <3>2. count' \in [rev : [Sessions -> Nat], posts : [Sessions -> Nat], upsets : Nat]
      BY <1>0, <2>2, CountTyped DEF Checkpoint, Counts
    <3> QED BY <1>0, <2>2, <3>1, <3>2 DEF Checkpoint, TypeOK
  <2>3. CASE VariantsShow(id)
    BY <1>0, <2>3 DEF VariantsShow, TypeOK
  <2>4. CASE Discarded(id, answered)
    <3>1. count' \in [rev : [Sessions -> Nat], posts : [Sessions -> Nat], upsets : Nat]
      BY <1>0, <2>4, UpsetTyped, TypeParts DEF Discarded, Upset, Counts
    <3> QED BY <1>0, <2>4, <3>1 DEF Discarded, TypeOK, Ids
  <2> QED BY <2>1, <2>2, <2>3, <2>4
<1>7. DownIsEmpty'
  BY <1>0, <1>1 DEF DownIsEmpty
<1>8. Calm
  BY <1>1, <1>2, <1>5 DEF Calm
<1> QED BY <1>6, <1>7, <1>8, CalmKeeps

(* The hub and the agents, with a page that may be torn down. *)
LEMMA HubStep ==
  ASSUME LiveInv, HubGood(hub'), KeepsWork(hub', hub), SameAnswers(hub', hub),
         up' = up, journal' = journal, source' = source, unsent' = unsent,
         discarding' = discarding, wire' = wire, muddled' = muddled,
         exitTimer' \in BOOLEAN, count' = count \/ Upset, DownIsEmpty',
         page' = page \/
           page' = [id \in Sessions |-> IF page[id] = "none" THEN "none" ELSE "closed"]
  PROVE  LiveInv'
<1>0. TypeOK /\ HubGood(hub) /\ UnheardInv
  BY LiveInvParts
<1>1. PageSteps
  BY <1>0 DEF UnheardInv, Unheard, PageSteps
<1>2. count' \in [rev : [Sessions -> Nat], posts : [Sessions -> Nat], upsets : Nat]
  BY <1>0, UpsetTyped, TypeParts DEF Upset, Counts
<1>3. page' \in [Sessions -> {"none", "generating", "cycling", "saving", "closed"}]
  BY <1>0, TypeParts
<1>4. TypeOK'
  BY <1>0, <1>2, <1>3 DEF TypeOK, HubGood
<1>5. Calm
  BY <1>1 DEF Calm
<1> QED BY <1>4, <1>5, CalmKeeps

LEMMA QuietStep ==
  ASSUME LiveInv, TabConnects \/ TabCloses \/ ExitLiveMode \/ ExitTimerFires
                  \/ LeaseTimerFires \/ (\E i \in DOMAIN hub.queue : LeaseRunsOut(i))
                  \/ \E a \in Agents : Poll(a) \/ PollEnds(a) \/ AgentDies(a) \/ GiveUp(a)
  PROVE  LiveInv'
<1>0. HubGood(hub) /\ DownIsEmpty /\ TypeOK
  BY LiveInvParts
<1>1. HubGood(hub') /\ KeepsWork(hub', hub) /\ SameAnswers(hub', hub)
  BY <1>0, TabGood, LeaseTimerGood, LeaseRunsOutGood, PollGood, PollEndsGood, AgentDiesGood
<1>2. /\ up' = up /\ journal' = journal /\ source' = source /\ unsent' = unsent
      /\ discarding' = discarding /\ wire' = wire /\ muddled' = muddled
  BY DEF TabConnects, TabCloses, ExitLiveMode, ExitTimerFires, LeaseTimerFires, LeaseRunsOut,
         Poll, PollEnds, AgentDies, GiveUp
<1>3. exitTimer' \in BOOLEAN
  BY <1>0, TypeParts
     DEF TabConnects, TabCloses, ExitLiveMode, ExitTimerFires, LeaseTimerFires, LeaseRunsOut,
         Poll, PollEnds, AgentDies, GiveUp
<1>4. count' = count \/ Upset
  BY DEF TabConnects, TabCloses, ExitLiveMode, ExitTimerFires, LeaseTimerFires, LeaseRunsOut,
         Poll, PollEnds, AgentDies, GiveUp
<1>5. \/ page' = page
      \/ page' = [id \in Sessions |-> IF page[id] = "none" THEN "none" ELSE "closed"]
  BY DEF TabConnects, TabCloses, ExitLiveMode, ExitTimerFires, LeaseTimerFires, LeaseRunsOut,
         Poll, PollEnds, AgentDies, GiveUp
<1>6. DownIsEmpty'
  <2>1. CASE up
    BY <1>2, <2>1 DEF DownIsEmpty
  <2>2. CASE ~up
    <3>1. \E a \in Agents : AgentDies(a) \/ GiveUp(a)
      BY <2>2 DEF TabConnects, TabCloses, ExitLiveMode, ExitTimerFires, LeaseTimerFires,
                  LeaseRunsOut, Poll, PollEnds
    <3>2. /\ hub'.queue = hub.queue /\ hub'.polls = hub.polls /\ hub'.timer = hub.timer
          /\ hub'.last = hub.last /\ hub'.tab = hub.tab
      BY <1>0, <3>1, AgentDiesGood
    <3> QED BY <1>0, <1>2, <3>2 DEF DownIsEmpty
  <2> QED BY <2>1, <2>2
<1> QED BY <1>1, <1>2, <1>3, <1>4, <1>5, <1>6, HubStep

(* A checkpoint changes the phase of a session that goes on, and no more.       *)
LEMMA CheckpointStep ==
  ASSUME LiveInv, NEW m \in wire, CheckpointArrives(m)
  PROVE  LiveInv'
<1>0. /\ TypeOK /\ HubGood(hub) /\ DownIsEmpty
      /\ QueueFits(hub) /\ AgentsFit(hub) /\ PendingFits
      /\ UnheardInv /\ NewInv /\ OnePending(hub, muddled)
      /\ AnswersTrue /\ NoLostWork /\ Durable /\ FinalIsClean
  BY LiveInvParts
<1>1. /\ hub' = hub /\ up' = up /\ exitTimer' = exitTimer /\ page' = page
      /\ unsent' = unsent /\ discarding' = discarding /\ source' = source
      /\ count' = count /\ muddled' = muddled /\ wire' = wire \ {m}
      /\ journal' = IF up THEN [journal EXCEPT ![m.id] = applyCheckpoint(@, m)] ELSE journal
  BY DEF CheckpointArrives
<1>2. m.id \in Ids /\ m.rev \in Nat /\ m.phase \in {"generating", "cycling", "saving"}
  BY <1>0 DEF TypeOK, Ids
<1>3. journal \in [Ids -> Snapshots]
  BY <1>0, TypeParts
<1>4. LET s == applyCheckpoint(journal[m.id], m)
      IN /\ s \in Snapshots /\ s.pending = journal[m.id].pending
         /\ s.phase \in Final <=> journal[m.id].phase \in Final
         /\ s.phase = "new" => journal[m.id].phase = "new"
  <2> DEFINE s == applyCheckpoint(journal[m.id], m)
  <2>1. journal[m.id] \in Snapshots
    BY <1>2, <1>3
  <2>2. CASE journal[m.id].phase \in Final \/ m.rev < journal[m.id].rev
    BY <2>1, <2>2 DEF applyCheckpoint
  <2>3. CASE ~(journal[m.id].phase \in Final \/ m.rev < journal[m.id].rev)
    <3>1. s = [journal[m.id] EXCEPT !.phase = m.phase, !.rev = m.rev]
      BY <2>3 DEF applyCheckpoint
    <3>2. s \in Snapshots /\ s.pending = journal[m.id].pending /\ s.phase = m.phase
      BY <1>2, <2>1, <3>1 DEF Snapshots
    <3> QED BY <1>2, <2>3, <3>2 DEF Final
  <2> QED BY <2>2, <2>3
<1>5. /\ journal' \in [Ids -> Snapshots]
      /\ \A x \in Ids : /\ journal'[x].pending = journal[x].pending
                        /\ journal'[x].phase \in Final <=> journal[x].phase \in Final
                        /\ journal'[x].phase = "new" => journal[x].phase = "new"
  <2>1. CASE up
    BY <1>1, <1>2, <1>3, <1>4, <2>1
  <2>2. CASE ~up
    BY <1>1, <1>3, <2>2
  <2> QED BY <2>1, <2>2
<1>6. TypeOK'
  BY <1>0, <1>1, <1>5 DEF TypeOK
<1>7. PendingFits' /\ NewInv' /\ Unfinished' = Unfinished
  BY <1>0, <1>1, <1>5 DEF PendingFits, NewInv, Unfinished
<1>8. UnheardInv'
  <2>1. \A x \in Sessions : Unheard(x) => Unheard(x)'
    BY <1>1, <1>5 DEF Unheard, NobodyHas, OfId, Ids
  <2> QED BY <1>0, <1>1, <2>1 DEF UnheardInv
<1>9. NoLostWork'
  <2>1. \A x \in Unfinished : x \in Ids
    BY DEF Unfinished
  <2> QED BY <1>0, <1>1, <1>5, <1>7, <2>1 DEF NoLostWork, Queued
<1>10. Durable'
  <2>1. \A x \in Unfinished : x \in Ids
    BY DEF Unfinished
  <2> QED BY <1>0, <1>1, <1>5, <1>7, <2>1 DEF Durable
<1>11. FinalIsClean'
  BY <1>0, <1>1, <1>5 DEF FinalIsClean, Ids
<1>12. (HubGood(hub) /\ QueueFits(hub) /\ AgentsFit(hub) /\ OnePending(hub, muddled))'
  BY <1>0, <1>1
<1>13. DownIsEmpty' /\ AnswersTrue'
  BY <1>0, <1>1 DEF DownIsEmpty, AnswersTrue
<1> QED BY <1>6, <1>7, <1>8, <1>9, <1>10, <1>11, <1>12, <1>13 DEF LiveInv, WorkInv, JournalInv

LEMMA PostTyped ==
  ASSUME TypeOK, HubGood(hub), NEW id \in Ids, NEW type \in Types, id # NoId,
         PostEvent(id, type)
  PROVE  hub' \in Hubs /\ journal' \in [Ids -> Snapshots]
<1>1. journal \in [Ids -> Snapshots]
  BY TypeParts
<1>2. requested(type) \in {"generate_requested", "accept_requested", "discard_requested",
                           "steer_requested"}
  BY DEF requested, Types
<1>3. applyRequest(journal[id], type) \in Snapshots
  <2>1. journal[id] \in Snapshots
    BY <1>1
  <2> HIDE DEF requested
  <2> QED BY <1>2, <2>1 DEF applyRequest, Snapshots
<1>4. journal' \in [Ids -> Snapshots]
  BY <1>1, <1>3 DEF PostEvent
<1>5. HubGood(hub')
  <2>1. id \in Ids \cup {NoId} /\ type \in Types \cup {"exit"} /\ (id = NoId => ~hub.tab)
    OBVIOUS
  <2>2. HubGood(enqueueEvent(hub, id, type))
    BY <2>1, EnqueueGood
  <2> QED BY <2>2 DEF PostEvent
<1> QED BY <1>4, <1>5 DEF HubGood

(* A generate, an accept, a discard or a steer is posted, or a generate dropped. *)
LEMMA PostStep ==
  ASSUME LiveInv,
         \/ \E id \in Sessions : Emit(id) \/ handleDiscard(id)
         \/ \E id \in Sessions, answered \in BOOLEAN : handleAccept(id, answered)
         \/ \E id \in Steers : Steer(id)
  PROVE  LiveInv'
<1>0. /\ TypeOK /\ HubGood(hub) /\ DownIsEmpty /\ UnheardInv /\ NewInv
  BY LiveInvParts
<1>1. \A x \in Sessions : page[x] = "none" \/ x \in unsent =>
        /\ page[x] \notin {"cycling", "saving"} /\ OfId(hub, x) = {}
        /\ x \in unsent => page[x] # "none"
  BY <1>0 DEF UnheardInv, Unheard, NobodyHas
<1>2. NoId \notin Ids /\ \A x \in Sessions : x \in Ids /\ x \notin Steers
  BY IdsAssumption DEF Ids
<1>3. ASSUME NEW id \in Sessions, Emit(id) PROVE LiveInv'
  <2>1. PageSteps /\ page'[id] # "none" /\ id \notin unsent' /\ OfId(hub, id) = {}
    BY <1>1, <1>3 DEF Emit, PageSteps
  <2>2. /\ up' = up /\ exitTimer' = exitTimer /\ page' = page /\ discarding' = discarding
        /\ wire' = wire /\ source' = source /\ count' = count /\ muddled' = muddled
        /\ unsent' = unsent \ {id}
    BY <1>3 DEF Emit
  <2>3. CASE up
    <3>1. PostEvent(id, "generate")
      BY <1>3, <2>3 DEF Emit
    <3>2. hub' \in Hubs /\ journal' \in [Ids -> Snapshots]
      BY <1>0, <1>2, <3>1, PostTyped DEF Types
    <3>3. TypeOK'
      BY <1>0, <2>2, <3>2 DEF TypeOK
    <3>4. Fits(id, "generate") /\ "generate" \in Types
      BY <1>2 DEF Fits, Types
    <3> QED BY <1>2, <2>1, <2>2, <2>3, <3>1, <3>3, <3>4, PostKeeps
  <2>4. CASE ~up
    <3>1. journal' = journal /\ hub' = hub
      BY <1>3, <2>4 DEF Emit
    <3>2. TypeOK' /\ DownIsEmpty'
      BY <1>0, <2>2, <3>1 DEF TypeOK, DownIsEmpty
    <3>3. HubGood(hub') /\ KeepsWork(hub', hub) /\ SameAnswers(hub', hub)
      BY <1>0, <3>1, SameAgents DEF HubGood
    <3>4. Calm
      BY <2>1, <2>2, <3>1, <3>3 DEF Calm
    <3> QED BY <3>2, <3>4, CalmKeeps
  <2> QED BY <2>3, <2>4
<1>4. ASSUME NEW id \in Sessions, NEW answered \in BOOLEAN, handleAccept(id, answered)
      PROVE  LiveInv'
  <2>1. up /\ page[id] = "cycling" /\ PostEvent(id, "accept")
    BY <1>4 DEF handleAccept, CanPost
  <2>2. page' = IF answered THEN [page EXCEPT ![id] = "saving"] ELSE page
    BY <1>4 DEF handleAccept
  <2>3. /\ up' = up /\ exitTimer' = exitTimer /\ discarding' = discarding
        /\ wire' = wire /\ source' = source /\ unsent' = unsent
        /\ muddled' = muddled \cup Muddling(id) \cup (IF answered THEN {} ELSE {id})
        /\ count' = [count EXCEPT !.posts[id] = @ + 1, !.upsets = IF answered THEN @ ELSE @ + 1]
    BY <1>4 DEF handleAccept, Posted
  <2>4. page'[id] # "none" /\ id \notin unsent' /\ \A x \in Sessions \ {id} : page'[x] = page[x]
    BY <1>0, <1>1, <2>1, <2>2, <2>3, TypeParts
  <2>5. PageSteps
    BY <1>1, <2>3, <2>4 DEF PageSteps
  <2>6. OfId(hub, id) = {} \/ id \in muddled'
    BY <2>3 DEF Muddling
  <2>7. hub' \in Hubs /\ journal' \in [Ids -> Snapshots]
    BY <1>0, <1>2, <2>1, PostTyped DEF Types
  <2>8. page' \in [Sessions -> {"none", "generating", "cycling", "saving", "closed"}]
    BY <1>0, <2>2, TypeParts
  <2>9. count' \in Counts
    <3>1. CASE answered
      <4>1. count' = [count EXCEPT !.posts[id] = @ + 1, !.upsets = @]
        BY <2>3, <3>1
      <4>2. [count EXCEPT !.posts[id] = @ + 1, !.upsets = @] = [count EXCEPT !.posts[id] = @ + 1]
        BY <1>0, TypeParts
      <4> QED BY <1>0, <4>1, <4>2, CountTyped
    <3>2. CASE ~answered
      <4>1. count' = [count EXCEPT !.posts[id] = @ + 1, !.upsets = @ + 1]
        BY <2>3, <3>2
      <4> QED BY <1>0, <4>1, CountTyped
    <3> QED BY <3>1, <3>2
  <2>10. muddled' \subseteq Ids
    BY <1>0, <1>2, <2>3, TypeParts DEF Muddling
  <2>11. TypeOK'
    BY <1>0, <2>3, <2>7, <2>8, <2>9, <2>10 DEF TypeOK, Counts
  <2>12. Fits(id, "accept") /\ "accept" \in Types /\ muddled \subseteq muddled'
    BY <1>2, <2>3 DEF Fits, Types
  <2> QED BY <1>2, <2>1, <2>3, <2>4, <2>5, <2>6, <2>11, <2>12, PostKeeps
<1>5. ASSUME NEW id \in Sessions, handleDiscard(id) PROVE LiveInv'
  <2>1. up /\ page[id] = "cycling" /\ PostEvent(id, "discard")
    BY <1>5 DEF handleDiscard, CanPost
  <2>2. /\ up' = up /\ exitTimer' = exitTimer /\ page' = page /\ wire' = wire
        /\ source' = source /\ unsent' = unsent /\ discarding' = discarding \cup {id}
        /\ muddled' = muddled \cup Muddling(id)
        /\ count' = [count EXCEPT !.posts[id] = @ + 1, !.upsets = @]
    BY <1>5 DEF handleDiscard, Posted
  <2>3. page'[id] # "none" /\ id \notin unsent'
    BY <1>1, <2>1, <2>2
  <2>4. PageSteps
    BY <1>1, <2>2 DEF PageSteps
  <2>5. OfId(hub, id) = {} \/ id \in muddled'
    BY <2>2 DEF Muddling
  <2>6. hub' \in Hubs /\ journal' \in [Ids -> Snapshots]
    BY <1>0, <1>2, <2>1, PostTyped DEF Types
  <2>7. count' \in Counts
    <3>1. [count EXCEPT !.posts[id] = @ + 1, !.upsets = @] = [count EXCEPT !.posts[id] = @ + 1]
      BY <1>0, TypeParts
    <3> QED BY <1>0, <2>2, <3>1, CountTyped
  <2>8. muddled' \subseteq Ids
    BY <1>0, <1>2, <2>2, TypeParts DEF Muddling
  <2>9. TypeOK'
    BY <1>0, <2>2, <2>6, <2>7, <2>8 DEF TypeOK, Counts
  <2>10. Fits(id, "discard") /\ "discard" \in Types /\ muddled \subseteq muddled'
    BY <1>2, <2>2 DEF Fits, Types
  <2> QED BY <1>2, <2>1, <2>2, <2>3, <2>4, <2>5, <2>9, <2>10, PostKeeps
<1>6. ASSUME NEW id \in Steers, Steer(id) PROVE LiveInv'
  <2>1. id \in Ids /\ id \notin Sessions
    BY IdsAssumption DEF Ids
  <2>2. /\ up /\ PostEvent(id, "steer") /\ OfId(hub, id) = {}
    BY <1>0, <1>6, <2>1 DEF Steer, NewInv
  <2>3. /\ up' = up /\ exitTimer' = exitTimer /\ page' = page /\ wire' = wire
        /\ source' = source /\ unsent' = unsent /\ discarding' = discarding
        /\ muddled' = muddled /\ count' = count
    BY <1>6 DEF Steer
  <2>4. PageSteps
    BY <1>1, <2>3 DEF PageSteps
  <2>5. hub' \in Hubs /\ journal' \in [Ids -> Snapshots]
    BY <1>0, <1>2, <2>1, <2>2, PostTyped DEF Types
  <2>6. TypeOK'
    BY <1>0, <2>3, <2>5 DEF TypeOK
  <2>7. Fits(id, "steer") /\ "steer" \in Types
    BY <1>2, <2>1 DEF Fits, Types
  <2> QED BY <2>1, <2>2, <2>3, <2>4, <2>6, <2>7, PostKeeps
<1> QED BY <1>3, <1>4, <1>5, <1>6

(* The agent writes the variants: of a session that nobody answers is over.      *)
LEMMA WriteStep ==
  ASSUME LiveInv, NEW a \in Agents, WriteVariants(a)
  PROVE  LiveInv'
<1> DEFINE id == hub.agent[a].id
<1>0. /\ TypeOK /\ HubGood(hub) /\ DownIsEmpty
      /\ QueueFits(hub) /\ AgentsFit(hub) /\ PendingFits
      /\ UnheardInv /\ NewInv /\ OnePending(hub, muddled)
      /\ AnswersTrue /\ NoLostWork /\ Durable /\ FinalIsClean
  BY LiveInvParts
<1>1. /\ hub' = hub /\ up' = up /\ exitTimer' = exitTimer /\ page' = page /\ wire' = wire
      /\ unsent' = unsent /\ discarding' = discarding /\ journal' = journal
      /\ count' = count /\ muddled' = muddled
      /\ source[id] = "original" /\ source' = [source EXCEPT ![id] = "variants"]
  BY DEF WriteVariants
<1>2. id \in Sessions
  <2>1. hub.agent[a].at = "working" /\ hub.agent[a].type = "generate"
    BY DEF WriteVariants
  <2>2. id \in Ids /\ Fits(id, "generate")
    BY <1>0, <2>1 DEF AgentsFit, AgentFits
  <2> QED BY <2>2 DEF Fits, Ids
<1> HIDE DEF id
<1>3. /\ source' \in [Sessions -> {"original", "variants", "carbonize", "clean"}]
      /\ \A x \in Sessions \ {id} : source'[x] = source[x]
      /\ source[id] # "clean"
  BY <1>0, <1>1, <1>2, TypeParts
<1>4. TypeOK'
  BY <1>0, <1>1, <1>3 DEF TypeOK
<1>5. AnswersTrue'
  <2> SUFFICES ASSUME NEW b \in Agents, hub.agent[b].at = "replying",
                      hub.agent[b].type \in {"complete", "discarded"}
               PROVE  source'[hub.agent[b].id] = "clean"
    BY <1>1 DEF AnswersTrue
  <2>1. source[hub.agent[b].id] = "clean" /\ hub.agent[b].id \in Sessions
    BY <1>0 DEF AnswersTrue, AgentsFit, AgentFits
  <2> QED BY <1>3, <2>1
<1>6. FinalIsClean'
  BY <1>0, <1>1, <1>3 DEF FinalIsClean
<1>7. UnheardInv'
  <2>1. ~NobodyHas(hub, id)
    BY DEF NobodyHas, id
  <2>2. \A x \in Sessions : Unheard(x) => Unheard(x)'
    BY <1>1, <1>3, <2>1 DEF Unheard, NobodyHas, OfId
  <2> QED BY <1>0, <1>1, <2>2 DEF UnheardInv
<1>8. PendingFits' /\ NewInv' /\ NoLostWork' /\ Durable' /\ DownIsEmpty'
  BY <1>0, <1>1 DEF PendingFits, NewInv, NoLostWork, Durable, DownIsEmpty, Unfinished, Queued, OfId
<1>9. (HubGood(hub) /\ QueueFits(hub) /\ AgentsFit(hub) /\ OnePending(hub, muddled))'
  BY <1>0, <1>1
<1> QED BY <1>4, <1>5, <1>6, <1>7, <1>8, <1>9 DEF LiveInv, WorkInv, JournalInv

(* live-accept: what it will answer is true of the source it leaves.            *)
LEMMA AcceptStep ==
  ASSUME LiveInv, NEW a \in Agents,
         NEW found \in {"handled", "carbonize", "missing", "failed"}, RunAccept(a, found)
  PROVE  LiveInv'
<1> DEFINE id == hub.agent[a].id
           type == completionType(hub.agent[a].type, found)
           next == [at |-> "replying", id |-> id, type |-> type]
<1>0. /\ TypeOK /\ HubGood(hub) /\ DownIsEmpty
      /\ QueueFits(hub) /\ AgentsFit(hub) /\ PendingFits
      /\ UnheardInv /\ NewInv /\ OnePending(hub, muddled)
      /\ AnswersTrue /\ NoLostWork /\ Durable /\ FinalIsClean
  BY LiveInvParts
<1>1. /\ hub.agent[a].at = "working" /\ hub.agent[a].type \in {"accept", "discard"}
      /\ up' = up /\ exitTimer' = exitTimer /\ page' = page /\ wire' = wire
      /\ unsent' = unsent /\ discarding' = discarding /\ journal' = journal
      /\ count' = count /\ muddled' = muddled /\ hub' = Become(hub, a, next)
      /\ found \in {"handled", "carbonize"} => source[id] = "variants"
      /\ source' = CASE found = "carbonize" -> [source EXCEPT ![id] = "carbonize"]
                     [] found = "handled" -> [source EXCEPT ![id] = "clean"]
                     [] OTHER -> source
  BY DEF RunAccept
<1>2. id \in Sessions
  <2>1. id \in Ids /\ Fits(id, hub.agent[a].type)
    BY <1>0, <1>1 DEF AgentsFit, AgentFits
  <2> QED BY <1>1, <2>1 DEF Fits, Ids
<1>3. type \in Replies /\ (type \in {"complete", "discarded"} => found = "handled")
  BY <1>1 DEF completionType, Replies
<1>4. next \in AgentStates /\ next.id = id /\ next.at = "replying" /\ next.type = type
      /\ AgentFits(next)
  BY <1>2, <1>3 DEF AgentStates, AgentFits, Ids
<1> HIDE DEF next, type
<1>5. /\ source' \in [Sessions -> {"original", "variants", "carbonize", "clean"}]
      /\ \A x \in Sessions : source[x] = "clean" => source'[x] = "clean"
      /\ \A x \in Sessions : source'[x] = "variants" => source[x] = "variants"
      /\ found = "handled" => source'[id] = "clean"
  <2>1. source \in [Sessions -> {"original", "variants", "carbonize", "clean"}]
    BY <1>0, TypeParts
  <2>2. CASE found = "carbonize"
    BY <1>1, <1>2, <2>1, <2>2
  <2>3. CASE found = "handled"
    BY <1>1, <1>2, <2>1, <2>3
  <2>4. CASE found \in {"missing", "failed"}
    BY <1>1, <2>1, <2>4
  <2> QED BY <2>2, <2>3, <2>4
<1>6. /\ HubGood(hub') /\ hub'.queue = hub.queue /\ hub'.polls = hub.polls
      /\ hub'.timer = hub.timer /\ hub'.last = hub.last /\ hub'.tab = hub.tab
      /\ hub'.agent = [hub.agent EXCEPT ![a] = next]
  <2>1. LET g == Become(hub, a, next)
        IN /\ HubGood(g) /\ g.queue = hub.queue /\ g.polls = hub.polls
           /\ g.timer = hub.timer /\ g.last = hub.last /\ g.tab = hub.tab
           /\ g.agent = [hub.agent EXCEPT ![a] = next]
    BY <1>0, <1>4, BecomeGood
  <2> QED BY <1>1, <2>1
<1>7. hub \in Hubs /\ hub.agent \in [Agents -> AgentStates]
  BY <1>0, HubFields DEF HubGood
<1>8. KeepsWork(hub', hub)
  BY <1>4, <1>6, <1>7, AgentKeeps DEF id
<1>9. TypeOK'
  BY <1>0, <1>1, <1>5, <1>6 DEF TypeOK, HubGood
<1>10. AnswersTrue'
  <2> SUFFICES ASSUME NEW b \in Agents, hub'.agent[b].at = "replying",
                      hub'.agent[b].type \in {"complete", "discarded"}
               PROVE  source'[hub'.agent[b].id] = "clean"
    BY DEF AnswersTrue
  <2>1. CASE b = a
    BY <1>3, <1>4, <1>5, <1>6, <1>7, <2>1
  <2>2. CASE b # a
    <3>1. hub'.agent[b] = hub.agent[b]
      BY <1>6, <1>7, <2>2
    <3>2. source[hub.agent[b].id] = "clean" /\ hub.agent[b].id \in Sessions
      BY <1>0, <3>1 DEF AnswersTrue, AgentsFit, AgentFits
    <3> QED BY <1>5, <3>1, <3>2
  <2> QED BY <2>1, <2>2
<1>11. FinalIsClean'
  BY <1>0, <1>1, <1>5 DEF FinalIsClean
<1>12. UnheardInv'
  <2>1. \A x \in Sessions : NobodyHas(hub, x) => NobodyHas(hub', x)
    BY <1>8 DEF KeepsWork, Ids
  <2>2. \A x \in Sessions : Unheard(x) => Unheard(x)'
    BY <1>1, <1>5, <2>1 DEF Unheard
  <2> QED BY <1>0, <1>1, <2>2 DEF UnheardInv
<1>13. PendingFits' /\ NewInv' /\ NoLostWork' /\ Durable' /\ DownIsEmpty'
  <2>1. PendingFits' /\ Unfinished' = Unfinished
    BY <1>0, <1>1 DEF PendingFits, Unfinished
  <2>2. NewInv'
    BY <1>0, <1>1, <1>6 DEF NewInv, OfId
  <2>3. NoLostWork'
    BY <1>0, <1>1, <1>6, <2>1 DEF NoLostWork, Queued
  <2>4. Durable'
    BY <1>0, <1>1, <1>6, <2>1 DEF Durable
  <2>5. DownIsEmpty'
    BY <1>0, <1>1, <1>6 DEF DownIsEmpty
  <2> QED BY <2>1, <2>2, <2>3, <2>4, <2>5
<1>14. (HubGood(hub) /\ QueueFits(hub) /\ AgentsFit(hub) /\ OnePending(hub, muddled))'
  BY <1>0, <1>1, <1>6, <1>8 DEF KeepsWork
<1> QED BY <1>9, <1>10, <1>11, <1>12, <1>13, <1>14 DEF LiveInv, WorkInv, JournalInv

(* What is typed after a reply. *)
LEMMA ReplyTyped ==
  ASSUME TypeOK, HubGood(hub), QueueFits(hub), AgentsFit(hub), NEW a \in Agents, NEW id \in Ids,
         NEW type, NEW carbonize, NEW next \in AgentStates, AgentFits(next),
         next.id \in {hub.agent[a].id, NoId}, next.at # "replying",
         handlePollPost(a, id, type, carbonize, next)
  PROVE  /\ hub' \in Hubs /\ journal' \in [Ids -> Snapshots]
         /\ page' \in [Sessions -> {"none", "generating", "cycling", "saving", "closed"}]
<1>1. /\ hub \in Hubs /\ journal \in [Ids -> Snapshots]
      /\ page \in [Sessions -> {"none", "generating", "cycling", "saving", "closed"}]
  BY TypeParts
<1>2. hub' \in Hubs
  <2>1. HubGood(Become(hub, a, next))
    BY BecomeGood
  <2>2. HubGood(flushPendingPolls(acknowledgePendingEvent(Become(hub, a, next), id)))
    BY ReplyGood
  <2> QED BY <2>1, <2>2 DEF handlePollPost, HubGood
<1>3. applyReply(journal[id], type, carbonize) \in Snapshots
  <2>1. journal[id] \in Snapshots
    BY <1>1
  <2> DEFINE phase == CASE type = "steer_done" -> "steer_done"
                        [] type = "discarded" -> "discarded"
                        [] type = "complete" -> "completed"
                        [] type = "error" -> "agent_error"
                        [] OTHER -> IF carbonize THEN "carbonize_required" ELSE "variants_ready"
  <2>2. phase \in {"steer_done", "agent_error", "carbonize_required", "variants_ready"} \cup Final
    BY DEF Final
  <2>3. applyReply(journal[id], type, carbonize) =
          [journal[id] EXCEPT !.pending = None, !.phase = phase]
    BY DEF applyReply
  <2> HIDE DEF phase
  <2> QED BY <2>1, <2>2, <2>3 DEF Snapshots
<1>4. journal' \in [Ids -> Snapshots]
  BY <1>1, <1>3 DEF handlePollPost
<1>5. page' \in [Sessions -> {"none", "generating", "cycling", "saving", "closed"}]
  <2>1. id \in Sessions =>
          PageAfter(id, type) \in {"none", "generating", "cycling", "saving", "closed"}
    BY <1>1 DEF PageAfter
  <2>2. page' = page \/ (id \in Sessions /\ page' = [page EXCEPT ![id] = PageAfter(id, type)])
    BY DEF handlePollPost
  <2> QED BY <1>1, <2>1, <2>2
<1> QED BY <1>2, <1>4, <1>5

LEMMA ReplyStep ==
  ASSUME LiveInv, NEW a \in Agents,
         (\E type \in Replies : Reply(a, type)) \/ (up /\ (PostCompletion(a) \/ completeCli(a)))
  PROVE  LiveInv'
<1> DEFINE w == hub.agent[a]
           id == w.id
<1>0. /\ TypeOK /\ HubGood(hub) /\ QueueFits(hub) /\ AgentsFit(hub) /\ AnswersTrue
  BY LiveInvParts
<1>1. w \in AgentStates /\ AgentFits(w) /\ source \in
        [Sessions -> {"original", "variants", "carbonize", "clean"}]
  BY <1>0, TypeParts, HubFields DEF AgentsFit
<1>2. ASSUME NEW type \in Replies, Reply(a, type) PROVE LiveInv'
  <2>1. /\ w.at = "working" /\ type \notin {"complete", "discarded"} /\ id \in Ids
        /\ up /\ handlePollPost(a, id, type, FALSE, Idle)
    BY <1>1, <1>2 DEF Reply, AgentFits
  <2>2. /\ up' = up /\ exitTimer' = exitTimer /\ unsent' = unsent /\ discarding' = discarding
        /\ wire' = wire /\ source' = source /\ count' = count /\ muddled' = muddled
    BY <1>2 DEF Reply
  <2>3. /\ hub' \in Hubs /\ journal' \in [Ids -> Snapshots]
        /\ page' \in [Sessions -> {"none", "generating", "cycling", "saving", "closed"}]
    BY <1>0, <2>1, IdleFacts, ReplyTyped
  <2>4. TypeOK'
    BY <1>0, <2>2, <2>3 DEF TypeOK
  <2> QED BY <2>1, <2>2, <2>4, IdleFacts, ReplyKeeps
<1>3. ASSUME up, PostCompletion(a) PROVE LiveInv'
  <2> DEFINE carbonize == w.type = "agent_done" /\ source[id] = "carbonize"
             next == IF carbonize THEN [w EXCEPT !.at = "cleaning"] ELSE Idle
             type == w.type
  <2>1. /\ w.at = "replying" /\ handlePollPost(a, id, w.type, carbonize, next)
        /\ up' = up /\ exitTimer' = exitTimer /\ unsent' = unsent /\ discarding' = discarding
        /\ wire' = wire /\ source' = source /\ count' = count /\ muddled' = muddled
    BY <1>3 DEF PostCompletion
  <2>2. id \in Sessions /\ id \in Ids
    BY <1>1, <2>1 DEF AgentFits, Ids
  <2>3. next \in AgentStates /\ AgentFits(next) /\ next.at # "replying" /\ next.id \in {id, NoId}
    <3>1. CASE carbonize
      BY <1>1, <2>2, <3>1 DEF AgentStates, AgentFits
    <3>2. CASE ~carbonize
      BY <3>2, IdleFacts
    <3> QED BY <3>1, <3>2
  <2>4. type \in {"complete", "discarded"} => source[id] = "clean"
    BY <1>0, <2>1 DEF AnswersTrue
  <2> HIDE DEF next, carbonize
  <2>5. /\ hub' \in Hubs /\ journal' \in [Ids -> Snapshots]
        /\ page' \in [Sessions -> {"none", "generating", "cycling", "saving", "closed"}]
    BY <1>0, <2>1, <2>2, <2>3, ReplyTyped
  <2>6. TypeOK'
    BY <1>0, <2>1, <2>5 DEF TypeOK
  <2> QED BY <1>3, <2>1, <2>2, <2>3, <2>4, <2>6, ReplyKeeps
<1>4. ASSUME up, completeCli(a) PROVE LiveInv'
  <2>1. /\ w.at = "cleaning" /\ handlePollPost(a, id, "complete", FALSE, Idle)
        /\ up' = up /\ exitTimer' = exitTimer /\ unsent' = unsent /\ discarding' = discarding
        /\ wire' = wire /\ count' = count /\ muddled' = muddled
        /\ source' = [source EXCEPT ![id] = "clean"]
    BY <1>4 DEF completeCli
  <2>2. id \in Sessions /\ id \in Ids
    BY <1>1, <2>1 DEF AgentFits, Ids
  <2>3. /\ source' \in [Sessions -> {"original", "variants", "carbonize", "clean"}]
        /\ \A x \in Sessions : source'[x] = source[x] \/ (x = id /\ source'[x] = "clean")
        /\ source'[id] = "clean"
    BY <1>1, <2>1, <2>2
  <2>4. /\ hub' \in Hubs /\ journal' \in [Ids -> Snapshots]
        /\ page' \in [Sessions -> {"none", "generating", "cycling", "saving", "closed"}]
    BY <1>0, <2>1, <2>2, IdleFacts, ReplyTyped
  <2>5. TypeOK'
    BY <1>0, <2>1, <2>3, <2>4 DEF TypeOK
  <2> QED BY <1>4, <2>1, <2>2, <2>3, <2>5, IdleFacts, ReplyKeeps
<1> QED BY <1>2, <1>3, <1>4

(* What an agent does without the server, and the end of it. *)
LEMMA OfflineStep ==
  ASSUME LiveInv, NEW a \in Agents, ~up, PostCompletion(a) \/ completeCli(a)
  PROVE  LiveInv'
<1> DEFINE w == hub.agent[a]
           id == w.id
<1>0. /\ TypeOK /\ HubGood(hub) /\ DownIsEmpty
      /\ QueueFits(hub) /\ AgentsFit(hub) /\ PendingFits
      /\ UnheardInv /\ NewInv /\ OnePending(hub, muddled)
      /\ AnswersTrue /\ NoLostWork /\ Durable /\ FinalIsClean
  BY LiveInvParts
<1>1. /\ w \in AgentStates /\ AgentFits(w)
      /\ source \in [Sessions -> {"original", "variants", "carbonize", "clean"}]
      /\ journal \in [Ids -> Snapshots] /\ hub \in Hubs
  BY <1>0, TypeParts, HubFields DEF AgentsFit
<1>2. id \in Sessions /\ id \in Ids /\ w.at \in {"replying", "cleaning"}
  BY <1>1 DEF PostCompletion, completeCli, AgentFits, Ids
<1>3. \E next \in {Idle, [w EXCEPT !.at = "cleaning"]} : hub' = Become(hub, a, next)
  BY DEF PostCompletion, completeCli
<1>4. PICK next \in {Idle, [w EXCEPT !.at = "cleaning"]} : hub' = Become(hub, a, next)
  BY <1>3
<1>5. next \in AgentStates /\ AgentFits(next) /\ next.at # "replying" /\ next.id \in {id, NoId}
  <2>1. CASE next = Idle
    BY <2>1, IdleFacts
  <2>2. CASE next = [w EXCEPT !.at = "cleaning"]
    BY <1>1, <1>2, <2>2 DEF AgentStates, AgentFits
  <2> QED BY <2>1, <2>2
<1>6. /\ HubGood(hub') /\ hub'.queue = hub.queue /\ hub'.polls = hub.polls
      /\ hub'.timer = hub.timer /\ hub'.last = hub.last /\ hub'.tab = hub.tab
      /\ hub'.agent = [hub.agent EXCEPT ![a] = next]
  <2>1. LET g == Become(hub, a, next)
        IN /\ HubGood(g) /\ g.queue = hub.queue /\ g.polls = hub.polls
           /\ g.timer = hub.timer /\ g.last = hub.last /\ g.tab = hub.tab
           /\ g.agent = [hub.agent EXCEPT ![a] = next]
    BY <1>0, <1>5, BecomeGood
  <2> QED BY <1>4, <2>1
<1>7. KeepsWork(hub', hub) /\ SameAnswers(hub', hub)
  BY <1>1, <1>5, <1>6, AgentKeeps
<1>8. /\ up' = up /\ exitTimer' = exitTimer /\ unsent' = unsent /\ discarding' = discarding
      /\ wire' = wire /\ count' = count /\ muddled' = muddled /\ page' = page
  BY DEF PostCompletion, completeCli
<1>9. CASE PostCompletion(a)
  <2>1. journal' = journal /\ source' = source
    BY <1>9 DEF PostCompletion
  <2> QED BY <1>0, <1>6, <1>7, <1>8, <2>1, HubStep, TypeParts DEF DownIsEmpty
<1>10. CASE completeCli(a)
  <2>1. /\ journal' = [journal EXCEPT ![id] = applyReply(@, "complete", FALSE)]
        /\ source' = [source EXCEPT ![id] = "clean"]
    BY <1>10 DEF completeCli
  <2>2. LET s == applyReply(journal[id], "complete", FALSE)
        IN s \in Snapshots /\ s.pending = None /\ s.phase = "completed"
    <3>1. applyReply(journal[id], "complete", FALSE) =
            [journal[id] EXCEPT !.pending = None, !.phase = "completed"]
      BY DEF applyReply
    <3>2. journal[id] \in Snapshots /\ "completed" \in Final
      BY <1>1, <1>2 DEF Final
    <3> QED BY <3>1, <3>2 DEF Snapshots
  <2>3. /\ journal' \in [Ids -> Snapshots] /\ \A x \in Ids \ {id} : journal'[x] = journal[x]
        /\ journal'[id].pending = None /\ journal'[id].phase = "completed"
    BY <1>1, <1>2, <2>1, <2>2
  <2>4. /\ source' \in [Sessions -> {"original", "variants", "carbonize", "clean"}]
        /\ \A x \in Sessions \ {id} : source'[x] = source[x]
        /\ source'[id] = "clean"
    BY <1>1, <1>2, <2>1
  <2>5. TypeOK'
    BY <1>0, <1>6, <1>8, <2>3, <2>4 DEF TypeOK, HubGood
  <2>6. AnswersTrue'
    <3> SUFFICES ASSUME NEW b \in Agents, hub'.agent[b].at = "replying",
                        hub'.agent[b].type \in {"complete", "discarded"}
                 PROVE  source'[hub'.agent[b].id] = "clean"
      BY DEF AnswersTrue
    <3>1. hub'.agent[b] = hub.agent[b]
      BY <1>7 DEF SameAnswers
    <3>2. source[hub.agent[b].id] = "clean" /\ hub.agent[b].id \in Sessions
      BY <1>0, <3>1 DEF AnswersTrue, AgentsFit, AgentFits
    <3> QED BY <2>4, <3>1, <3>2
  <2>7. FinalIsClean'
    BY <1>0, <2>3, <2>4 DEF FinalIsClean, Ids
  <2>8. UnheardInv'
    <3>1. ~NobodyHas(hub, id)
      BY DEF NobodyHas
    <3>2. \A x \in Sessions : NobodyHas(hub, x) => NobodyHas(hub', x)
      BY <1>7 DEF KeepsWork, Ids
    <3>3. \A x \in Sessions : Unheard(x) => Unheard(x)'
      BY <1>8, <2>3, <2>4, <3>1, <3>2 DEF Unheard, Ids
    <3> QED BY <1>0, <1>8, <3>3 DEF UnheardInv
  <2>9. DownIsEmpty' /\ hub'.queue = <<>>
    BY <1>0, <1>6, <1>8 DEF DownIsEmpty
  <2>10. NoLostWork' /\ Durable' /\ PendingFits' /\ NewInv'
    <3>1. \A x : OfId(hub', x) = {}
      BY <2>9 DEF OfId
    <3>2. NoLostWork' /\ Durable'
      BY <1>8, <2>9 DEF NoLostWork, Durable
    <3>3. PendingFits' /\ NewInv'
      BY <1>0, <2>3, <3>1 DEF PendingFits, NewInv
    <3> QED BY <3>2, <3>3
  <2>11. (HubGood(hub) /\ QueueFits(hub) /\ AgentsFit(hub) /\ OnePending(hub, muddled))'
    BY <1>0, <1>6, <1>7, <1>8 DEF KeepsWork
  <2> QED BY <2>5, <2>6, <2>7, <2>8, <2>9, <2>10, <2>11 DEF LiveInv, WorkInv, JournalInv
<1> QED BY <1>9, <1>10

LEMMA EndStep ==
  ASSUME LiveInv, Crash \/ shutdown
  PROVE  LiveInv'
<1>0. /\ TypeOK /\ HubGood(hub) /\ DownIsEmpty
      /\ QueueFits(hub) /\ AgentsFit(hub) /\ PendingFits
      /\ UnheardInv /\ NewInv /\ OnePending(hub, muddled)
      /\ AnswersTrue /\ NoLostWork /\ Durable /\ FinalIsClean
  BY LiveInvParts
<1>1. PICK parked \in {Idle, [Idle EXCEPT !.at = "left"]} : ServerEnds(parked)
  BY DEF Crash, shutdown
<1>2. parked \in AgentStates /\ parked.id = NoId /\ parked.at \in {"idle", "left"}
      /\ AgentFits(parked)
  BY IdleFacts
<1>3. hub \in Hubs /\ hub.agent \in [Agents -> AgentStates]
  BY <1>0, HubFields DEF HubGood
<1> DEFINE agent == [a \in Agents |-> CASE hub.agent[a].at = "polling" -> parked
                                       [] hub.agent[a].at = "lost" -> Idle
                                       [] OTHER -> hub.agent[a]]
<1>4. \A a \in Agents : agent[a] \in {parked, Idle, hub.agent[a]}
  OBVIOUS
<1>5. agent \in [Agents -> AgentStates]
  BY <1>2, <1>3, IdleFacts
<1>6. hub' = [hub EXCEPT !.queue = <<>>, !.polls = <<>>, !.timer = "off", !.last = {},
                         !.tab = FALSE, !.told = FALSE, !.raced = FALSE, !.agent = agent]
  BY <1>1 DEF ServerEnds
<1> HIDE DEF agent
<1>7. /\ hub' \in Hubs /\ hub'.queue = <<>> /\ hub'.polls = <<>> /\ hub'.timer = "off"
      /\ hub'.last = {} /\ hub'.tab = FALSE /\ hub'.told = FALSE /\ hub'.raced = FALSE
      /\ hub'.agent = agent
  <2>1. <<>> \in Seq(Entries) /\ <<>> \in Seq(Agents) /\ {} \in SUBSET BOOLEAN
    OBVIOUS
  <2> QED BY <1>3, <1>5, <1>6, <2>1 DEF Hubs
<1>8. Available(hub') = {} /\ ~Leased(hub') /\ ~agentPollingConnected(hub')
      /\ DOMAIN hub'.queue = {} /\ \A id : OfId(hub', id) = {}
  BY <1>7 DEF Available, Leased, agentPollingConnected, OfId
<1>9. HubGood(hub')
  BY <1>7, <1>8 DEF HubGood, Flushed, TimerSet, Broadcast, Told, NoExit, Agrees
<1>10. /\ up' = FALSE /\ exitTimer' = FALSE /\ count' = [count EXCEPT !.upsets = @ + 1]
       /\ journal' = journal /\ page' = page /\ unsent' = unsent /\ discarding' = discarding
       /\ wire' = wire /\ source' = source /\ muddled' = muddled
  BY <1>1 DEF ServerEnds, Upset
<1>11. TypeOK'
  <2>1. count' \in Counts
    BY <1>0, <1>10, UpsetTyped
  <2> QED BY <1>0, <1>7, <1>10, <2>1 DEF TypeOK, Counts
<1>12. QueueFits(hub') /\ AgentsFit(hub') /\ PendingFits'
  BY <1>0, <1>2, <1>4, <1>7, <1>8, <1>10, IdleFacts DEF QueueFits, AgentsFit, PendingFits
<1>13. UnheardInv'
  <2>1. ASSUME NEW x \in Sessions, NobodyHas(hub, x) PROVE NobodyHas(hub', x)
    <3>1. x # NoId /\ Idle.id = NoId
      BY IdsAssumption, IdleFacts DEF Ids
    <3>2. \A a \in Agents : agent[a].id # x
      BY <1>2, <1>4, <2>1, <3>1 DEF NobodyHas
    <3> QED BY <1>7, <1>8, <3>2 DEF NobodyHas
  <2>2. \A x \in Sessions : Unheard(x) => Unheard(x)'
    BY <1>10, <2>1 DEF Unheard
  <2> QED BY <1>0, <1>10, <2>2 DEF UnheardInv
<1>14. NewInv' /\ OnePending(hub, muddled)' /\ NoLostWork' /\ Durable' /\ FinalIsClean'
  BY <1>0, <1>8, <1>10 DEF NewInv, OnePending, NoLostWork, Durable, FinalIsClean
<1>15. AnswersTrue'
  BY <1>0, <1>2, <1>4, <1>7, <1>10, IdleFacts DEF AnswersTrue
<1>16. DownIsEmpty'
  BY <1>7 DEF DownIsEmpty
<1> QED BY <1>9, <1>11, <1>12, <1>13, <1>14, <1>15, <1>16 DEF LiveInv, WorkInv, JournalInv

(* The server starts again with what the journal calls unfinished. *)
LEMMA StartStep ==
  ASSUME LiveInv, Start
  PROVE  LiveInv'
<1>0. /\ TypeOK /\ HubGood(hub) /\ DownIsEmpty
      /\ QueueFits(hub) /\ AgentsFit(hub) /\ PendingFits
      /\ UnheardInv /\ NewInv /\ OnePending(hub, muddled)
      /\ AnswersTrue /\ NoLostWork /\ Durable /\ FinalIsClean
  BY LiveInvParts
<1> DEFINE Restored == {Entry(id, journal[id].pending) : id \in Unfinished}
           agent == [a \in Agents |-> IF hub.agent[a].at = "left" THEN Idle ELSE hub.agent[a]]
<1>1. PICK n \in Nat : \E q \in [1..n -> Restored] :
        /\ restorePendingEventsFromStore(q)
        /\ hub' = [hub EXCEPT !.queue = q, !.agent = agent]
  <2>1. PICK q \in UNION {[1..n -> Restored] : n \in 0..Cardinality(Unfinished)} :
          /\ restorePendingEventsFromStore(q)
          /\ hub' = [hub EXCEPT !.queue = q, !.agent = agent]
    BY DEF Start
  <2>2. PICK n \in 0..Cardinality(Unfinished) : q \in [1..n -> Restored]
    BY <2>1
  <2>3. Cardinality(Unfinished) \in Nat
    BY FiniteAssumption, FS_Subset, FS_CardinalityType DEF Unfinished
  <2>4. n \in Nat
    BY <2>2, <2>3
  <2> QED BY <2>1, <2>2, <2>4
<1>1a. PICK q \in [1..n -> Restored] :
        /\ restorePendingEventsFromStore(q)
        /\ hub' = [hub EXCEPT !.queue = q, !.agent = agent]
  BY <1>1
<1>2. /\ ~up /\ up' = TRUE /\ exitTimer' = exitTimer /\ count' = count
      /\ journal' = journal /\ page' = page /\ unsent' = unsent /\ discarding' = discarding
      /\ wire' = wire /\ source' = source /\ muddled' = muddled
  BY DEF Start
<1>3. hub \in Hubs /\ hub.agent \in [Agents -> AgentStates] /\ journal \in [Ids -> Snapshots]
  BY <1>0, TypeParts, HubFields DEF HubGood
<1>4. \A i \in 1..n : \E id \in Unfinished :
        q[i] = Entry(id, journal[id].pending)
  BY <1>1a
<1>5. ASSUME NEW id \in Unfinished
      PROVE  LET e == Entry(id, journal[id].pending)
             IN /\ e \in Entries /\ e.id = id /\ e.type = journal[id].pending /\ e.lease = None
                /\ Fits(e.id, e.type)
  <2>1. id \in Ids /\ journal[id].pending \in Types
    BY <1>3 DEF Unfinished, Snapshots
  <2>2. Fits(id, journal[id].pending)
    BY <1>0, <2>1 DEF PendingFits, Unfinished
  <2> QED BY <2>1, <2>2 DEF Entry, Entries
<1>6. ASSUME NEW i \in 1..n
      PROVE  /\ q[i] \in Entries /\ q[i].id \in Unfinished /\ q[i].id \in Ids
             /\ q[i].type = journal[q[i].id].pending /\ q[i].lease = None
             /\ Fits(q[i].id, q[i].type)
  BY <1>4, <1>5 DEF Unfinished
<1>7. q \in Seq(Entries) /\ DOMAIN q = 1..n
  BY <1>1a, <1>6
<1>8. \A a \in Agents : agent[a] \in {Idle, hub.agent[a]}
  OBVIOUS
<1>9. agent \in [Agents -> AgentStates]
  BY <1>3, IdleFacts
<1> HIDE DEF agent, Restored
<1>10. /\ hub' \in Hubs /\ hub'.queue = q /\ hub'.polls = <<>> /\ hub'.timer = "off"
       /\ hub'.last = {} /\ hub'.tab = FALSE /\ hub'.agent = agent
  <2>1. hub.polls = <<>> /\ hub.timer = "off" /\ hub.last = {} /\ ~hub.tab
    BY <1>0, <1>2 DEF DownIsEmpty
  <2>2. hub.tab \in BOOLEAN
    BY <1>3, HubFields
  <2> QED BY <1>1a, <1>3, <1>7, <1>9, <2>1, <2>2 DEF Hubs
<1>11. ~Leased(hub') /\ ~agentPollingConnected(hub')
  BY <1>6, <1>7, <1>10 DEF Leased, agentPollingConnected, None
<1>12. HubGood(hub')
  BY <1>10, <1>11 DEF HubGood, Flushed, TimerSet, Broadcast, Told, NoExit, Agrees
<1>13. TypeOK'
  BY <1>0, <1>2, <1>10 DEF TypeOK
<1>14. QueueFits(hub') /\ AgentsFit(hub') /\ PendingFits'
  BY <1>0, <1>2, <1>6, <1>7, <1>8, <1>10, IdleFacts DEF QueueFits, AgentsFit, PendingFits
<1>15. \A id \in Ids : journal[id].pending = None => OfId(hub', id) = {}
  BY <1>6, <1>7, <1>10 DEF OfId, Unfinished
<1>16. UnheardInv'
  <2>1. \A x \in Sessions : NobodyHas(hub, x) /\ journal[x].pending = None => NobodyHas(hub', x)
    BY <1>8, <1>10, <1>15, IdleFacts, IdsAssumption DEF NobodyHas, Ids
  <2>2. \A x \in Sessions : Unheard(x) => Unheard(x)'
    BY <1>2, <2>1 DEF Unheard
  <2> QED BY <1>0, <1>2, <2>2 DEF UnheardInv
<1>17. NewInv' /\ FinalIsClean' /\ DownIsEmpty'
  BY <1>0, <1>2, <1>15 DEF NewInv, FinalIsClean, DownIsEmpty
<1>18. OnePending(hub, muddled)'
  BY <1>1a, <1>10 DEF restorePendingEventsFromStore, OnePending
<1>19. Unfinished' = Unfinished
  BY <1>2 DEF Unfinished
<1>20. NoLostWork'
  <2> SUFFICES ASSUME NEW id \in Unfinished PROVE Queued(hub', id, journal[id].pending)
    BY <1>2, <1>19 DEF NoLostWork
  <2>1. PICK i \in DOMAIN q : q[i] = Entry(id, journal[id].pending)
    BY <1>1a DEF restorePendingEventsFromStore
  <2> QED BY <1>5, <1>10, <2>1 DEF Queued
<1>21. Durable'
  BY <1>2, <1>6, <1>7, <1>10, <1>19 DEF Durable
<1>22. AnswersTrue'
  BY <1>0, <1>2, <1>8, <1>10, IdleFacts DEF AnswersTrue
<1> QED BY <1>12, <1>13, <1>14, <1>16, <1>17, <1>18, <1>20, <1>21, <1>22
        DEF LiveInv, WorkInv, JournalInv

LEMMA LiveStutter ==
  ASSUME LiveInv, UNCHANGED vars
  PROVE  LiveInv'
<1>0. /\ TypeOK /\ HubGood(hub) /\ DownIsEmpty
      /\ QueueFits(hub) /\ AgentsFit(hub) /\ PendingFits
      /\ UnheardInv /\ NewInv /\ OnePending(hub, muddled)
      /\ AnswersTrue /\ NoLostWork /\ Durable /\ FinalIsClean
  BY LiveInvParts
<1>1. (TypeOK /\ HubGood(hub) /\ QueueFits(hub) /\ AgentsFit(hub) /\ OnePending(hub, muddled))'
  BY <1>0 DEF vars, TypeOK
<1>2. DownIsEmpty' /\ PendingFits' /\ UnheardInv' /\ NewInv' /\ AnswersTrue' /\ NoLostWork'
      /\ Durable' /\ FinalIsClean'
  BY <1>0 DEF vars, DownIsEmpty, PendingFits, UnheardInv, Unheard, NewInv, AnswersTrue,
              NoLostWork, Unfinished, Durable, FinalIsClean
<1> QED BY <1>1, <1>2 DEF LiveInv, WorkInv, JournalInv

LEMMA LiveNext ==
  ASSUME LiveInv, [Next]_vars
  PROVE  LiveInv'
<1> USE DEF AgentFinishes
<1>1. ASSUME NEW id \in Sessions, Go(id) \/ Checkpoint(id) \/ VariantsShow(id) PROVE LiveInv'
  BY <1>1, PageStep
<1>2. ASSUME NEW id \in Sessions, NEW answered \in BOOLEAN, Discarded(id, answered) PROVE LiveInv'
  BY <1>2, PageStep
<1>3. ASSUME NEW id \in Sessions, Emit(id) \/ handleDiscard(id) PROVE LiveInv'
  BY <1>3, PostStep
<1>4. ASSUME NEW id \in Sessions, NEW answered \in BOOLEAN, handleAccept(id, answered)
      PROVE  LiveInv'
  BY <1>4, PostStep
<1>5. ASSUME NEW id \in Steers, Steer(id) PROVE LiveInv'
  BY <1>5, PostStep
<1>6. ASSUME NEW m \in wire, CheckpointArrives(m) PROVE LiveInv'
  BY <1>6, CheckpointStep
<1>7. ASSUME TabConnects \/ TabCloses \/ ExitLiveMode \/ ExitTimerFires \/ LeaseTimerFires
      PROVE  LiveInv'
  BY <1>7, QuietStep
<1>8. ASSUME NEW i \in DOMAIN hub.queue, LeaseRunsOut(i) PROVE LiveInv'
  BY <1>8, QuietStep
<1>9. ASSUME NEW a \in Agents, Poll(a) \/ PollEnds(a) \/ AgentDies(a) \/ GiveUp(a)
      PROVE  LiveInv'
  BY <1>9, QuietStep
<1>10. ASSUME NEW a \in Agents, WriteVariants(a) PROVE LiveInv'
  BY <1>10, WriteStep
<1>11. ASSUME NEW a \in Agents, NEW type \in Replies, Reply(a, type) PROVE LiveInv'
  BY <1>11, ReplyStep
<1>12. ASSUME NEW a \in Agents,
              NEW found \in {"handled", "carbonize", "missing", "failed"}, RunAccept(a, found)
       PROVE  LiveInv'
  BY <1>12, AcceptStep
<1>13. ASSUME NEW a \in Agents, PostCompletion(a) \/ completeCli(a) PROVE LiveInv'
  BY <1>13, ReplyStep, OfflineStep
<1>14. ASSUME Crash \/ shutdown \/ Start PROVE LiveInv'
  BY <1>14, EndStep, StartStep
<1>15. CASE UNCHANGED vars
  BY <1>15, LiveStutter
<1>16. CASE Next
  BY <1>1, <1>2, <1>3, <1>4, <1>5, <1>6, <1>7, <1>8, <1>9, <1>10, <1>11, <1>12, <1>13, <1>14,
     <1>16 DEF Next
<1> QED BY <1>15, <1>16

LEMMA LiveInductive == Spec => []LiveInv
<1>1. Init => LiveInv
  BY LiveInit
<1>2. LiveInv /\ [Next]_vars => LiveInv'
  BY LiveNext
<1> QED BY <1>1, <1>2, PTL DEF Spec

--------------------------------------------------------------------------------
(* What holds of every run. *)

(* No agent waits beside an event, the tab is told whether one polls, and an     *)
(* exit is taken back when the tab returns, whatever the races of the lease      *)
(* timer (live-server.mjs, flushPendingPolls and its callers).                   *)
THEOREM LiveSessionHub == Spec => []HubInv
<1>1. LiveInv => HubInv
  <2> SUFFICES ASSUME LiveInv PROVE HubInv
    OBVIOUS
  <2>1. TypeOK /\ HubGood(hub)
    BY LiveInvParts
  <2>2. NoIdlePoll
    BY <2>1 DEF HubGood, Flushed, NoIdlePoll
  <2>3. ToldTruth
    <3>1. hub.told \in BOOLEAN /\ agentPollingConnected(hub) \in BOOLEAN
      BY <2>1, HubFields DEF HubGood, agentPollingConnected
    <3>2. hub.tab /\ hub.timer # "due" /\ ~hub.raced =>
            Agrees(hub.last, agentPollingConnected(hub)) /\ Agrees(hub.last, hub.told)
      BY <2>1 DEF HubGood, Broadcast, Told
    <3>3. \A last : \A p, q \in BOOLEAN : Agrees(last, p) /\ Agrees(last, q) => p = q
      BY DEF Agrees
    <3> QED BY <3>1, <3>2, <3>3 DEF ToldTruth
  <2>4. ExitOnlyAlone
    BY <2>1 DEF HubGood, NoExit, ExitOnlyAlone
  <2> QED BY <2>1, <2>2, <2>3, <2>4 DEF HubInv
<1> QED BY <1>1, LiveInductive, PTL

(* What an agent still has to do is queued while the server runs, an event in    *)
(* the queue would survive a crash, and a session that is over has left no       *)
(* variants in the source (session-store.mjs, restorePendingEventsFromStore).    *)
THEOREM LiveSessionJournal == Spec => []JournalInv
<1>1. LiveInv => JournalInv
  BY DEF LiveInv
<1> QED BY <1>1, LiveInductive, PTL

(* A post or a reply leaves a session that is over as it is, unless the page     *)
(* asked for more or the session is muddled.                                     *)
LEMMA PostFinal ==
  ASSUME TypeOK, NEW x \in Ids, NEW type \in Types, PostEvent(x, type),
         type \in {"generate", "steer"} => journal[x].phase \notin Final,
         NEW id \in Ids, journal[id].phase \in Final
  PROVE  journal'[id].phase \in Final \cup {"accept_requested", "discard_requested"}
<1>1. /\ journal' = [journal EXCEPT ![x] = applyRequest(@, type)]
      /\ journal \in [Ids -> Snapshots]
  BY TypeParts DEF PostEvent
<1>2. CASE id = x
  <2>1. journal'[id].phase = requested(type)
    BY <1>1, <1>2 DEF applyRequest, Snapshots
  <2>2. type \in {"accept", "discard"}
    BY <1>2 DEF Types
  <2> QED BY <2>1, <2>2 DEF requested
<1>3. CASE id # x
  BY <1>1, <1>3
<1> QED BY <1>2, <1>3

LEMMA ReplyFinal ==
  ASSUME TypeOK, HubGood(hub), Durable, NEW a, NEW x \in Ids, NEW type, NEW carbonize, NEW next,
         handlePollPost(a, x, type, carbonize, next),
         NEW id \in Ids \ muddled, journal[id].phase \in Final
  PROVE  journal'[id].phase \in Final
<1>1. journal \in [Ids -> Snapshots]
  BY TypeParts
<1>2. OfId(hub, id) = {}
  <2> SUFFICES ASSUME NEW i \in DOMAIN hub.queue, hub.queue[i].id = id PROVE FALSE
    BY DEF OfId
  <2>1. id \in Unfinished
    BY IdsAssumption DEF Durable
  <2> QED BY <2>1 DEF Unfinished
<1>3. CASE id = x
  BY <1>2, <1>3 DEF handlePollPost, Journalled, Final
<1>4. CASE id # x
  BY <1>1, <1>4 DEF handlePollPost
<1> QED BY <1>3, <1>4

LEMMA FinalStep ==
  ASSUME LiveInv, [Next]_vars, NEW id \in Ids \ muddled, journal[id].phase \in Final
  PROVE  journal'[id].phase \in Final \cup {"accept_requested", "discard_requested"}
<1>0. /\ TypeOK /\ HubGood(hub) /\ UnheardInv /\ Durable /\ AgentsFit(hub)
      /\ journal \in [Ids -> Snapshots]
  BY LiveInvParts, TypeParts
<1>1. CASE journal' = journal
  BY <1>1
<1>2. ASSUME NEW x \in Sessions, Emit(x) PROVE journal' = journal \/
          journal'[id].phase \in Final \cup {"accept_requested", "discard_requested"}
  <2>1. journal[x].phase \notin Final /\ x \in Ids
    BY <1>0, <1>2 DEF Emit, UnheardInv, Unheard, Ids
  <2>2. CASE up
    BY <1>0, <1>2, <2>1, <2>2, PostFinal DEF Emit, Types
  <2>3. CASE ~up
    BY <1>2, <2>3 DEF Emit
  <2> QED BY <2>2, <2>3
<1>3. ASSUME NEW x \in Sessions, NEW answered \in BOOLEAN,
             handleAccept(x, answered) \/ handleDiscard(x)
      PROVE  journal'[id].phase \in Final \cup {"accept_requested", "discard_requested"}
  <2>1. \E type \in {"accept", "discard"} : PostEvent(x, type)
    BY <1>3 DEF handleAccept, handleDiscard
  <2> QED BY <1>0, <2>1, PostFinal DEF Ids, Types
<1>4. ASSUME NEW x \in Steers, Steer(x)
      PROVE  journal'[id].phase \in Final \cup {"accept_requested", "discard_requested"}
  <2>1. PostEvent(x, "steer") /\ journal[x].phase \notin Final
    BY <1>4 DEF Steer, Final
  <2> QED BY <1>0, <2>1, PostFinal DEF Ids, Types
<1>5. ASSUME NEW m \in wire, CheckpointArrives(m) PROVE journal'[id].phase \in Final
  <2>1. CASE m.id = id
    <3>1. applyCheckpoint(journal[id], m) = journal[id]
      BY DEF applyCheckpoint
    <3> QED BY <1>0, <1>5, <2>1, <3>1 DEF CheckpointArrives
  <2>2. CASE m.id # id
    BY <1>0, <1>5, <2>2 DEF CheckpointArrives
  <2> QED BY <2>1, <2>2
<1>6. ASSUME NEW a \in Agents, \/ \E type \in Replies : Reply(a, type)
                               \/ PostCompletion(a) \/ completeCli(a)
      PROVE  journal' = journal \/ journal'[id].phase \in Final
  <2>1. ASSUME NEW x \in Ids, NEW type, NEW carbonize, NEW next,
               handlePollPost(a, x, type, carbonize, next)
        PROVE  journal'[id].phase \in Final
    BY <1>0, <2>1, ReplyFinal
  <2>2. hub.agent[a] \in AgentStates /\ AgentFits(hub.agent[a])
    BY <1>0, HubFields DEF HubGood, AgentsFit
  <2>3. CASE \E type \in Replies : Reply(a, type)
    <3>1. hub.agent[a].id \in Ids
      BY <2>2, <2>3 DEF Reply, AgentFits
    <3> QED BY <2>1, <2>3, <3>1 DEF Reply
  <2>4. CASE PostCompletion(a)
    <3>1. hub.agent[a].id \in Ids
      BY <2>2, <2>4 DEF PostCompletion, AgentFits, Ids
    <3>2. hub.agent[a].type \in Types \cup Replies \cup {None}
      BY <2>2 DEF AgentStates
    <3> QED BY <2>1, <2>4, <3>1, <3>2 DEF PostCompletion
  <2>5. CASE completeCli(a)
    <3>1. hub.agent[a].id \in Ids /\ "complete" \in Replies
      BY <2>2, <2>5 DEF completeCli, AgentFits, Ids, Replies
    <3>2. CASE up
      BY <2>1, <2>5, <3>1, <3>2 DEF completeCli
    <3>3. CASE ~up
      <4>1. journal' = [journal EXCEPT ![hub.agent[a].id] = applyReply(@, "complete", FALSE)]
        BY <2>5, <3>3 DEF completeCli
      <4>2. applyReply(journal[id], "complete", FALSE).phase = "completed"
        <5>1. applyReply(journal[id], "complete", FALSE) =
                [journal[id] EXCEPT !.pending = None, !.phase = "completed"]
          BY DEF applyReply
        <5>2. journal[id] \in Snapshots
          BY <1>0
        <5> QED BY <5>1, <5>2 DEF Snapshots
      <4> QED BY <1>0, <4>1, <4>2 DEF Final
    <3> QED BY <3>2, <3>3
  <2> QED BY <1>6, <2>3, <2>4, <2>5
<1>7. CASE UNCHANGED vars
  BY <1>1, <1>7 DEF vars
<1>8. CASE Next
  <2>1. ASSUME NEW x \in Sessions, NEW answered \in BOOLEAN,
               Go(x) \/ Checkpoint(x) \/ VariantsShow(x) \/ Discarded(x, answered)
        PROVE  journal' = journal
    BY <2>1 DEF Go, Checkpoint, VariantsShow, Discarded
  <2>2. ASSUME \/ TabConnects \/ TabCloses \/ ExitLiveMode \/ ExitTimerFires \/ LeaseTimerFires
               \/ \E i \in DOMAIN hub.queue : LeaseRunsOut(i)
               \/ Crash \/ shutdown \/ Start
        PROVE  journal' = journal
    BY <2>2 DEF TabConnects, TabCloses, ExitLiveMode, ExitTimerFires, LeaseTimerFires,
                LeaseRunsOut, Crash, shutdown, ServerEnds, Start
  <2>3. ASSUME NEW a \in Agents,
               \/ Poll(a) \/ PollEnds(a) \/ AgentDies(a) \/ WriteVariants(a) \/ GiveUp(a)
               \/ \E found \in {"handled", "carbonize", "missing", "failed"} : RunAccept(a, found)
        PROVE  journal' = journal
    BY <2>3 DEF Poll, PollEnds, AgentDies, WriteVariants, GiveUp, RunAccept
  <2> QED BY <1>1, <1>2, <1>3, <1>4, <1>5, <1>6, <1>8, <2>1, <2>2, <2>3 DEF Next, AgentFinishes
<1> QED BY <1>7, <1>8

(* A session that was completed or discarded stays so until the page asks for    *)
(* more: no late checkpoint and no late reply opens it again                     *)
(* (session-store.mjs, applyEvent; live-server.mjs, handlePollPost).             *)
THEOREM LiveSessionFinal == Spec => FinalStays
<1>1. LiveInv /\ [Next]_vars =>
        [\A id \in Ids \ muddled :
           journal[id].phase \in Final =>
             journal'[id].phase \in Final \cup {"accept_requested", "discard_requested"}]_vars
  BY FinalStep
<1> QED BY <1>1, LiveInductive, PTL DEF Spec, FinalStays
================================================================================
