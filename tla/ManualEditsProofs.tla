--------------------------- MODULE ManualEditsProofs ---------------------------
(* Proofs about ManualEdits, for every set of pages, edits, files and agents,   *)
(* every assignment of edits to files, any size of the chunks, any number of    *)
(* repairs and versions.                                                        *)
EXTENDS ManualEdits, FiniteSetTheorems, TLAPS

--------------------------------------------------------------------------------
(* The disk. *)

LEMMA DiskFields ==
  ASSUME NEW d \in Disks
  PROVE  /\ d.buf \in Buffers /\ d.text \in [Edits -> Versions]
         /\ d.broken \in SUBSET Files /\ d.txn \in {NoTxn} \cup Transactions
BY DEF Disks

LEMMA BufferFacts ==
  ASSUME NEW b \in Buffers
  PROVE  /\ DOMAIN b \in SUBSET Edits
         /\ b \in [DOMAIN b -> [orig : Versions, new : Versions]]
         /\ \A e \in DOMAIN b : b[e].new \in Versions /\ b[e].orig \in Versions
BY DEF Buffers

LEMMA TextsFacts ==
  ASSUME NEW b \in Texts
  PROVE  DOMAIN b \in SUBSET Edits /\ \A e \in DOMAIN b : b[e] \in Versions
BY DEF Texts

LEMMA FilesOfFacts ==
  ASSUME NEW S \in SUBSET Edits
  PROVE  FilesOf(S) \in SUBSET Files /\ \A e \in S : FileOf[e] \in FilesOf(S)
BY EditsAssumption DEF FilesOf

LEMMA SnapshotFields ==
  ASSUME NEW s \in Snapshots
  PROVE  /\ s.files \in SUBSET Files
         /\ s.text \in [{e \in Edits : FileOf[e] \in s.files} -> Versions]
         /\ s.broken \in SUBSET s.files
<1>1. PICK F \in SUBSET Files :
        s \in [files : {F}, text : [{e \in Edits : FileOf[e] \in F} -> Versions], broken : SUBSET F]
  BY DEF Snapshots
<1>2. s.files = F
  BY <1>1
<1> QED BY <1>1, <1>2

LEMMA SnapshotFacts ==
  ASSUME NEW d \in Disks, NEW F \in SUBSET Files
  PROVE  /\ Snapshot(d, F) \in Snapshots
         /\ Snapshot(d, F).files = F
         /\ \A e \in Edits : e \in DOMAIN Snapshot(d, F).text <=> FileOf[e] \in F
         /\ DOMAIN Snapshot(d, F).text \subseteq Edits
         /\ \A e \in Edits : FileOf[e] \in F => Snapshot(d, F).text[e] = d.text[e]
<1> DEFINE T == [e \in {x \in Edits : FileOf[x] \in F} |-> d.text[e]]
<1>1. T \in [{e \in Edits : FileOf[e] \in F} -> Versions]
  BY DiskFields
<1>2. d.broken \cap F \in SUBSET F
  OBVIOUS
<1>3. Snapshot(d, F) = [files |-> F, text |-> T, broken |-> d.broken \cap F]
  BY DEF Snapshot
<1>4. /\ DOMAIN T = {x \in Edits : FileOf[x] \in F}
      /\ \A e \in Edits : FileOf[e] \in F => T[e] = d.text[e]
  OBVIOUS
<1> HIDE DEF T
<1>5. Snapshot(d, F) \in [files : {F}, text : [{e \in Edits : FileOf[e] \in F} -> Versions],
                          broken : SUBSET F]
  BY <1>1, <1>2, <1>3
<1>6. Snapshot(d, F) \in Snapshots
  BY <1>5 DEF Snapshots
<1> QED BY <1>3, <1>4, <1>6

LEMMA RestoredFacts ==
  ASSUME NEW d \in Disks, NEW s \in Snapshots
  PROVE  /\ Restored(d, s) \in Disks
         /\ Restored(d, s).buf = d.buf /\ Restored(d, s).txn = d.txn
         /\ \A e \in Edits : Restored(d, s).text[e] =
                               IF FileOf[e] \in s.files THEN s.text[e] ELSE d.text[e]
<1> DEFINE T == [e \in Edits |-> IF FileOf[e] \in s.files THEN s.text[e] ELSE d.text[e]]
           B == (d.broken \ s.files) \cup s.broken
<1>1. T \in [Edits -> Versions]
  BY DiskFields, SnapshotFields
<1>2. B \in SUBSET Files
  BY DiskFields, SnapshotFields
<1>3. /\ DOMAIN T = Edits
      /\ \A e \in Edits : T[e] = IF FileOf[e] \in s.files THEN s.text[e] ELSE d.text[e]
  OBVIOUS
<1>4. Restored(d, s) = [d EXCEPT !.text = T, !.broken = B]
  BY DEF Restored, Disks
<1> HIDE DEF T, B
<1> QED BY <1>1, <1>2, <1>3, <1>4 DEF Disks

LEMMA UnstagedFacts ==
  ASSUME NEW d \in Disks, NEW S
  PROVE  LET u == Unstaged(d, S)
         IN /\ u \in Disks /\ u.text = d.text /\ u.txn = d.txn
            /\ DOMAIN u.buf = DOMAIN d.buf \ S
            /\ \A e \in DOMAIN d.buf \ S : u.buf[e] = d.buf[e]
<1> DEFINE b == [e \in DOMAIN d.buf \ S |-> d.buf[e]]
<1>1. d.buf \in Buffers
  BY DiskFields
<1>2. b \in [DOMAIN d.buf \ S -> [orig : Versions, new : Versions]]
  BY <1>1, BufferFacts
<1>3. DOMAIN d.buf \ S \in SUBSET Edits
  BY <1>1, BufferFacts
<1>4. b \in Buffers
  BY <1>2, <1>3 DEF Buffers
<1>5. Unstaged(d, S) = [d EXCEPT !.buf = b]
  BY DEF Unstaged
<1>6. DOMAIN b = DOMAIN d.buf \ S /\ \A e \in DOMAIN d.buf \ S : b[e] = d.buf[e]
  OBVIOUS
<1> HIDE DEF b
<1> QED BY <1>4, <1>5, <1>6 DEF Disks

LEMMA StageFacts ==
  ASSUME NEW d \in Disks, NEW e \in Edits, NEW new \in Versions
  PROVE  LET g == stageEntry(d, e, new)
         IN /\ g \in Disks /\ g.text = d.text /\ g.txn = d.txn
            /\ DOMAIN g.buf = DOMAIN d.buf \cup {e}
            /\ g.buf[e].new = new
            /\ \A x \in DOMAIN d.buf : x # e => g.buf[x] = d.buf[x]
<1> DEFINE one == [orig |-> IF e \in DOMAIN d.buf THEN d.buf[e].orig ELSE d.text[e], new |-> new]
           b == [x \in DOMAIN d.buf \cup {e} |-> IF x # e THEN d.buf[x] ELSE one]
<1>1. d.buf \in Buffers /\ d.text \in [Edits -> Versions]
  BY DiskFields
<1>2. one \in [orig : Versions, new : Versions] /\ one.new = new
  BY <1>1, BufferFacts
<1>3. stageEntry(d, e, new) = [d EXCEPT !.buf = b]
  BY DEF stageEntry
<1> HIDE DEF one
<1>4. b \in [DOMAIN d.buf \cup {e} -> [orig : Versions, new : Versions]]
  BY <1>1, <1>2, BufferFacts
<1>5. DOMAIN d.buf \cup {e} \in SUBSET Edits
  BY <1>1, BufferFacts
<1>6. b \in Buffers
  BY <1>4, <1>5 DEF Buffers
<1>7. /\ DOMAIN b = DOMAIN d.buf \cup {e} /\ b[e] = one
      /\ \A x \in DOMAIN d.buf : x # e => b[x] = d.buf[x]
  OBVIOUS
<1> HIDE DEF b
<1> QED BY <1>2, <1>3, <1>6, <1>7 DEF Disks

LEMMA TxnFacts ==
  /\ NoTxn.page \notin Pages
  /\ \A x \in Transactions : /\ x.page \in Pages /\ x.ids \in SUBSET Edits
                             /\ x.was \in Snapshots /\ x # NoTxn
BY PagesAssumption DEF NoTxn, Transactions

LEMMA WithoutTxn ==
  ASSUME NEW d \in Disks
  PROVE  LET g == [d EXCEPT !.txn = NoTxn]
         IN g \in Disks /\ g.buf = d.buf /\ g.text = d.text /\ g.txn = NoTxn
BY DEF Disks

(* Clearing the transaction of a page. *)
LEMMA ClearFacts ==
  ASSUME NEW d \in Disks, NEW p \in Pages
  PROVE  LET g == clearTransaction(d, p)
         IN /\ g \in Disks /\ g.buf = d.buf /\ g.text = d.text
            /\ g.txn = IF d.txn.page = p THEN NoTxn ELSE d.txn
BY WithoutTxn DEF clearTransaction

LEMMA ClearNone ==
  ASSUME NEW d \in Disks PROVE clearTransaction(d, NoPage) = d
<1>1. CASE d.txn.page # NoPage
  BY <1>1 DEF clearTransaction
<1>2. CASE d.txn.page = NoPage
  <2>1. d.txn = NoTxn
    BY <1>2, DiskFields, TxnFacts DEF NoTxn
  <2>2. [d EXCEPT !.txn = NoTxn] = d
    BY <2>1 DEF Disks
  <2> QED BY <1>2, <2>2 DEF clearTransaction
<1> QED BY <1>1, <1>2

(* Rolling back the transaction of some pages: it writes texts back only if     *)
(* some of its edits are still staged.                                          *)
LEMMA RollbackFacts ==
  ASSUME NEW d \in Disks, NEW P \in SUBSET Pages
  PROVE  LET g == rollbackTransaction(d, P)
         IN /\ g \in Disks /\ g.buf = d.buf
            /\ g.txn = IF d.txn.page \in P THEN NoTxn ELSE d.txn
            /\ \/ g.text = d.text
               \/ /\ d.txn \in Transactions /\ ~SafeOnDisk(d)
                  /\ \A e \in Edits : g.text[e] = IF FileOf[e] \in d.txn.was.files
                                                    THEN d.txn.was.text[e] ELSE d.text[e]
<1>1. CASE d.txn.page \notin P
  BY <1>1 DEF rollbackTransaction
<1>2. CASE d.txn.page \in P
  <2>1. d.txn \in Transactions /\ d.txn.was \in Snapshots
    BY <1>2, DiskFields, TxnFacts
  <2>2. CASE d.txn.ids \cap DOMAIN d.buf = {}
    <3>1. rollbackTransaction(d, P) = [d EXCEPT !.txn = NoTxn]
      BY <1>2, <2>2 DEF rollbackTransaction
    <3> QED BY <1>2, <3>1, WithoutTxn
  <2>3. CASE d.txn.ids \cap DOMAIN d.buf # {}
    <3>1. rollbackTransaction(d, P) = [Restored(d, d.txn.was) EXCEPT !.txn = NoTxn]
      BY <1>2, <2>3 DEF rollbackTransaction
    <3>2. Restored(d, d.txn.was) \in Disks
      BY <2>1, RestoredFacts
    <3>3. ~SafeOnDisk(d)
      BY <2>1, <2>3, TxnFacts DEF SafeOnDisk
    <3> QED BY <1>2, <2>1, <3>1, <3>2, <3>3, RestoredFacts, WithoutTxn
  <2> QED BY <2>2, <2>3
<1> QED BY <1>1, <1>2

LEMMA WithTxn ==
  ASSUME NEW d \in Disks, NEW x \in Transactions
  PROVE  LET g == [d EXCEPT !.txn = x]
         IN g \in Disks /\ g.buf = d.buf /\ g.text = d.text /\ g.txn = x
BY DEF Disks

LEMMA StagedFacts ==
  ASSUME NEW d \in Disks, NEW p
  PROVE  Staged(d, p) \in SUBSET Edits /\ Staged(d, p) \subseteq DOMAIN d.buf
BY DiskFields, BufferFacts DEF Staged

LEMMA EvidenceFacts ==
  ASSUME NEW d \in Disks, NEW p
  PROVE  /\ buildManualEditEvidence(d, p) \in Texts
         /\ DOMAIN buildManualEditEvidence(d, p) = Staged(d, p)
         /\ \A e \in Staged(d, p) : buildManualEditEvidence(d, p)[e] = d.buf[e].new
<1>1. Staged(d, p) \in SUBSET Edits /\ \A e \in Staged(d, p) : d.buf[e].new \in Versions
  BY StagedFacts, DiskFields, BufferFacts
<1>2. buildManualEditEvidence(d, p) \in [Staged(d, p) -> Versions]
  BY <1>1 DEF buildManualEditEvidence
<1>3. buildManualEditEvidence(d, p) \in Texts
  BY <1>1, <1>2 DEF Texts
<1> QED BY <1>3 DEF buildManualEditEvidence

--------------------------------------------------------------------------------
(* There is always an event to ask for that nobody holds and no commit waits    *)
(* for: the agents hold one each, and the pages wait for one each.              *)
OnePerPage == \A j, k \in jobs : j.page = k.page => j = k

LEMMA FreeEvent ==
  ASSUME agent \in [Agents -> {NoWork} \cup Work], jobs \subseteq Jobs, OnePerPage
  PROVE  \E i \in Events : i \notin Held /\ \A k \in jobs : k.ev # i
<1> DEFINE E == {j.ev : j \in jobs}
           f == [a \in Agents |-> agent[a].ev]
           g == [j \in jobs |-> j.page]
           h == [j \in jobs |-> j.ev]
<1>1. /\ IsFiniteSet(Agents) /\ Cardinality(Agents) \in Nat
      /\ IsFiniteSet(Pages) /\ Cardinality(Pages) \in Nat
  <2>1. Agents \in SUBSET (Pages \cup Agents) /\ Pages \in SUBSET (Pages \cup Agents)
    OBVIOUS
  <2> QED BY <2>1, BoundsAssumption, FS_Subset, FS_CardinalityType
<1>2. IsFiniteSet(Held) /\ Cardinality(Held) \in Nat /\ Cardinality(Held) <= Cardinality(Agents)
  <2>1. f \in Surjection(Agents, Held)
    BY DEF Held, Surjection
  <2> QED BY <1>1, <2>1, FS_Surjection, FS_CardinalityType
<1>3. IsFiniteSet(jobs) /\ Cardinality(jobs) \in Nat /\ Cardinality(jobs) <= Cardinality(Pages)
  <2>1. g \in Injection(jobs, Pages)
    BY DEF OnePerPage, Injection, IsInjective, Jobs
  <2> QED BY <1>1, <2>1, FS_Injection, FS_CardinalityType
<1>4. IsFiniteSet(E) /\ Cardinality(E) \in Nat /\ Cardinality(E) <= Cardinality(jobs)
  <2>1. h \in Surjection(jobs, E)
    BY DEF Surjection
  <2> QED BY <1>3, <2>1, FS_Surjection, FS_CardinalityType
<1> HIDE DEF E, f, g, h
<1> DEFINE U == Held \cup E
           n == Cardinality(Pages) + Cardinality(Agents) + 1
<1>5. IsFiniteSet(U) /\ Cardinality(U) \in Nat /\ Cardinality(U) < n
  <2>1. IsFiniteSet(Held \cap E) /\ Cardinality(Held \cap E) \in Nat
    BY <1>2, <1>4, FS_Intersection, FS_CardinalityType
  <2>2. /\ IsFiniteSet(U) /\ Cardinality(U) \in Nat
        /\ Cardinality(U) = Cardinality(Held) + Cardinality(E) - Cardinality(Held \cap E)
    BY <1>2, <1>4, FS_Union, FS_CardinalityType
  <2> HIDE DEF U
  <2> QED BY <1>1, <1>2, <1>3, <1>4, <2>1, <2>2
<1>6. n \in Nat /\ Cardinality(1..n) = n
  <2>1. n \in Nat
    BY <1>1
  <2> HIDE DEF n
  <2>2. 1 \in Int /\ n \in Int
    BY <2>1
  <2>3. Cardinality(1..n) = IF 1 > n THEN 0 ELSE n - 1 + 1
    BY <2>2, FS_Interval
  <2>4. n = 0 \/ n > 0
    BY <2>1
  <2> QED BY <2>1, <2>3, <2>4
<1>7. ~(1..n \subseteq U)
  <2> SUFFICES ASSUME 1..n \in SUBSET U PROVE FALSE
    OBVIOUS
  <2> HIDE DEF U, n
  <2>1. Cardinality(1..n) <= Cardinality(U)
    BY <1>5, FS_Subset
  <2> QED BY <1>5, <1>6, <2>1
<1>8. PICK i \in 1..n : i \notin U
  BY <1>7
<1> QED BY <1>8 DEF E, Events

(* What pushApplyEventAndWait leaves as it was of the commit it is given. *)
SameCommit(k, j) ==
  /\ k.page = j.page /\ k.again = j.again /\ k.txn = j.txn /\ k.batch = j.batch /\ k.was = j.was

LEMMA JobFields ==
  ASSUME NEW j \in Jobs
  PROVE  /\ j.page \in Pages /\ j.again \in BOOLEAN /\ j.txn \in Pages /\ j.batch \in Texts
         /\ j.was \in Snapshots /\ j.todo \in Seq(SUBSET Edits)
         /\ j.asked \in SUBSET Edits /\ j.applied \in SUBSET Edits
         /\ j.failed \in SUBSET Edits /\ j.files \in SUBSET Files
         /\ j.attempt \in 0..MaxRepairs /\ j.ev \in Events /\ j.evWas \in Snapshots
BY DEF Jobs

Free == \E i \in Events : i \notin Held /\ \A k \in jobs : k.ev # i

LEMMA PushFacts ==
  ASSUME NEW d \in Disks, NEW j \in Jobs, NEW S \in SUBSET Edits, Free
  PROVE  LET k == pushApplyEventAndWait(d, j, S)
         IN /\ k \in Jobs /\ SameCommit(k, j)
            /\ k.todo = j.todo /\ k.applied = j.applied /\ k.failed = j.failed
            /\ k.files = j.files /\ k.attempt = j.attempt
            /\ k.asked = S /\ k.evWas = Snapshot(d, FilesOf(S))
            /\ k.ev \notin Held /\ \A o \in jobs : o.ev # k.ev
<1> DEFINE i == CHOOSE i \in Events : i \notin Held /\ \A k \in jobs : k.ev # i
<1>1. i \in Events /\ i \notin Held /\ \A k \in jobs : k.ev # i
  BY DEF Free
<1>2. Snapshot(d, FilesOf(S)) \in Snapshots
  BY FilesOfFacts, SnapshotFacts
<1>3. pushApplyEventAndWait(d, j, S) =
        [j EXCEPT !.asked = S, !.ev = i, !.evWas = Snapshot(d, FilesOf(S))]
  BY DEF pushApplyEventAndWait
<1> HIDE DEF i
<1> QED BY <1>1, <1>2, <1>3 DEF Jobs, SameCommit

(* The chunks of a batch are parts of it. *)
LEMMA ChunksFacts ==
  ASSUME NEW S, IsFiniteSet(S), S # {}
  PROVE  Chunks(S) \in Seq(SUBSET S) /\ Chunks(S) # <<>>
<1> DEFINE n == Cardinality(S)
           q == SetToSeq(S)
           m == (Len(q) + ChunkSize - 1) \div ChunkSize
<1>1. n \in Nat /\ n # 0 /\ ExistsBijection(1..n, S)
  BY FS_CardinalityType, FS_EmptySet
<1>2. q \in [1..n -> S]
  <2>1. \E f \in [1..n -> S] : IsInjective(f)
    BY <1>1 DEF ExistsBijection, Bijection, Injection
  <2> QED BY <2>1 DEF SetToSeq
<1> HIDE DEF q
<1>3. DOMAIN q = 1..n /\ Len(q) = n
  BY <1>1, <1>2
<1>4. m \in Nat /\ m # 0
  <2>1. ChunkSize \in Nat /\ ChunkSize > 0 /\ n + ChunkSize - 1 >= ChunkSize
    BY <1>1, BoundsAssumption
  <2> QED BY <1>3, <2>1
<1> DEFINE Chunk(i) == {q[k] : k \in {l \in DOMAIN q : (l - 1) \div ChunkSize = i - 1}}
<1>5. \A i \in 1..m : Chunk(i) \in SUBSET S
  BY <1>2, <1>3
<1>6. Chunks(S) = [i \in 1..m |-> Chunk(i)]
  BY DEF Chunks, q
<1> HIDE DEF Chunk, m
<1> QED BY <1>4, <1>5, <1>6

LEMMA HeadTail ==
  ASSUME NEW S, NEW s \in Seq(S), s # <<>>
  PROVE  Head(s) \in S /\ Tail(s) \in Seq(S)
OBVIOUS

--------------------------------------------------------------------------------
(* The dock of a page. *)

LEMMA DockFacts ==
  ASSUME NEW t \in Tabs, NEW b \in BOOLEAN
  PROVE  /\ setPendingApplyLoading(t, b) \in Tabs
         /\ hidePendingApplyDock(t) \in Tabs
         /\ updatePendingCounter(t, b) \in Tabs
         /\ showManualApplyDecision(t) \in Tabs
         /\ FreshTab \in Tabs
<1>1. setPendingApplyLoading(t, b) \in Tabs /\ setPendingApplyLoading(t, TRUE) \in Tabs
  BY DEF Tabs, setPendingApplyLoading
<1>2. hidePendingApplyDock(t) \in Tabs /\ showManualApplyDecision(t) \in Tabs /\ FreshTab \in Tabs
  BY DEF Tabs, hidePendingApplyDock, showManualApplyDecision, FreshTab
<1>3. [t EXCEPT !.shown = TRUE] \in Tabs
  BY DEF Tabs
<1>4. setPendingApplyLoading([t EXCEPT !.shown = TRUE], TRUE) \in Tabs
  BY <1>3 DEF Tabs, setPendingApplyLoading
<1> QED BY <1>1, <1>2, <1>3, <1>4 DEF updatePendingCounter

LEMMA HandleFacts ==
  ASSUME NEW t \in Tabs, NEW told, NEW pending \in BOOLEAN
  PROVE  /\ handleManualEditActivity(t, told, pending) \in Tabs
         /\ handleManualEditActivity(t, told, pending).sse = t.sse
         /\ t.sse = "dead" => handleManualEditActivity(t, told, pending) = t
         /\ ~t.buttons /\ told # "needs_decision" =>
              ~handleManualEditActivity(t, told, pending).buttons
         /\ Shown(t) /\ told \in {"repairing", "nothing"} =>
              Shown(handleManualEditActivity(t, told, pending))
<1> DEFINE u == setPendingApplyLoading(t, FALSE)
<1>1. u \in Tabs /\ u.sse = t.sse /\ (~t.buttons => ~u.buttons) /\ ~u.locked /\ ~u.stored
  BY DEF Tabs, setPendingApplyLoading
<1> HIDE DEF u
<1>2. LET w == updatePendingCounter(u, pending)
      IN w \in Tabs /\ w.sse = t.sse /\ (~t.buttons => ~w.buttons)
  <2>1. CASE ~pending
    <3>1. updatePendingCounter(u, pending) = hidePendingApplyDock(u)
      BY <2>1 DEF updatePendingCounter
    <3> QED BY <1>1, <3>1 DEF hidePendingApplyDock, Tabs
  <2>2. CASE pending
    <3>1. updatePendingCounter(u, pending) = [u EXCEPT !.shown = TRUE]
      BY <1>1, <2>2 DEF updatePendingCounter
    <3> QED BY <1>1, <3>1 DEF Tabs
  <2> QED BY <2>1, <2>2
<1>3. LET w == showManualApplyDecision(t) IN w \in Tabs /\ w.sse = t.sse
  BY DEF showManualApplyDecision, Tabs
<1>4. LET w == setPendingApplyLoading(t, TRUE)
      IN w \in Tabs /\ w.sse = t.sse /\ ~w.buttons /\ (t.sse # "dead" => Shown(w))
  BY DEF setPendingApplyLoading, Tabs, Shown
<1>5. CASE t.sse # "on"
  BY <1>5 DEF handleManualEditActivity
<1>6. CASE t.sse = "on" /\ told = "commit_done"
  <2>1. handleManualEditActivity(t, told, pending) = updatePendingCounter(u, pending)
    BY <1>6 DEF handleManualEditActivity, u
  <2> QED BY <1>2, <1>6, <2>1
<1>7. CASE t.sse = "on" /\ told = "needs_decision"
  <2>1. handleManualEditActivity(t, told, pending) = showManualApplyDecision(t)
    BY <1>7 DEF handleManualEditActivity
  <2> QED BY <1>3, <1>7, <2>1
<1>8. CASE t.sse = "on" /\ told = "repairing" /\ t.shown
  <2>1. handleManualEditActivity(t, told, pending) = setPendingApplyLoading(t, TRUE)
    BY <1>8 DEF handleManualEditActivity
  <2> QED BY <1>4, <1>8, <2>1
<1>9. CASE /\ t.sse = "on" /\ told \notin {"commit_done", "needs_decision"}
           /\ ~(told = "repairing" /\ t.shown)
  <2>1. handleManualEditActivity(t, told, pending) = t
    BY <1>9 DEF handleManualEditActivity
  <2> QED BY <1>9, <2>1
<1> QED BY <1>5, <1>6, <1>7, <1>8, <1>9

--------------------------------------------------------------------------------
(* What may become of a commit: it is undone, its edits S are applied, it comes *)
(* to the user's decision, or it goes on as k.                                  *)
Applies(d, j, S, out) ==
  /\ S \subseteq DOMAIN j.batch /\ \A e \in S : d.text[e] = j.batch[e]
  /\ out = Applied(d, j, S)

Decides(d, out) ==
  out = [disk |-> d, clears |-> NoPage, next |-> {}, told |-> "needs_decision"]

GoesOnAs(d, j, k, out) ==
  /\ out.disk = d /\ out.clears = NoPage /\ out.next = {k} /\ out.told \in {"repairing", "nothing"}
  /\ k \in Jobs /\ SameCommit(k, j) /\ Framed(k)
  /\ k.ev \notin Held /\ \A o \in jobs : o.ev # k.ev
  /\ k.evWas = Snapshot(d, FilesOf(k.asked))

Repairs(d, j, out) == \E k : GoesOnAs(d, j, k, out) /\ k.attempt > 0

(* Nothing of the batch but S has been written that was not there before. *)
NoneLeft(d, j, S) ==
  \A e \in DOMAIN j.batch \ S : d.text[e] = j.batch[e] => j.was.text[e] = j.batch[e]

Asks(d, j, out) ==
  \E k : GoesOnAs(d, j, k, out) /\ k.attempt = 0 /\ out.told = "nothing"

LEMMA SameOutcome ==
  ASSUME NEW d, NEW j, NEW k, SameCommit(k, j), NEW out
  PROVE  /\ Undone(d, k) = Undone(d, j)
         /\ \A S : Applies(d, k, S, out) => Applies(d, j, S, out)
         /\ \A S : NoneLeft(d, k, S) => NoneLeft(d, j, S)
         /\ Repairs(d, k, out) => Repairs(d, j, out)
         /\ Asks(d, k, out) => Asks(d, j, out)
<1>1. \A l : GoesOnAs(d, k, l, out) => GoesOnAs(d, j, l, out)
  BY DEF GoesOnAs, SameCommit
<1>2. Undone(d, k) = Undone(d, j)
  BY DEF SameCommit, Undone, Ended
<1>3. \A S : Applied(d, k, S) = Applied(d, j, S)
  BY DEF SameCommit, Applied, Ended
<1>4. \A S : Applies(d, k, S, out) => Applies(d, j, S, out)
  BY <1>3 DEF Applies, SameCommit
<1>5. \A S : NoneLeft(d, k, S) => NoneLeft(d, j, S)
  BY DEF NoneLeft, SameCommit
<1> QED BY <1>1, <1>2, <1>4, <1>5 DEF Repairs, Asks

LEMMA RepairedOutcome ==
  ASSUME NEW d \in Disks, NEW j \in Jobs, Free, Framed(j),
         NEW S \in SUBSET DOMAIN j.batch, NEW F \in SUBSET Files
  PROVE  LET out == Repaired(d, j, S, F)
         IN \/ j.attempt = MaxRepairs /\ Decides(d, out)
            \/ Repairs(d, j, out)
<1>1. CASE j.attempt = MaxRepairs
  BY <1>1 DEF Repaired, Decides
<1>2. CASE j.attempt # MaxRepairs
  <2> DEFINE i == [j EXCEPT !.attempt = @ + 1, !.applied = S, !.files = F]
             k == pushApplyEventAndWait(d, i, DOMAIN j.batch)
  <2>1. DOMAIN j.batch \in SUBSET Edits
    BY JobFields, TextsFacts
  <2>2. i \in Jobs /\ SameCommit(i, j) /\ i.todo = j.todo /\ i.failed = j.failed
        /\ i.applied = S /\ i.attempt > 0
    <3>1. j.attempt + 1 \in 0..MaxRepairs /\ j.attempt + 1 > 0
      BY <1>2, JobFields, BoundsAssumption
    <3> QED BY <2>1, <3>1 DEF Jobs, SameCommit
  <2>3. Repaired(d, j, S, F) =
          [disk |-> d, clears |-> NoPage, told |-> "repairing", next |-> {k}]
    BY <1>2 DEF Repaired
  <2> HIDE DEF i
  <2>4. /\ k \in Jobs /\ SameCommit(k, i) /\ k.todo = i.todo /\ k.applied = S
        /\ k.failed = i.failed /\ k.attempt = i.attempt /\ k.asked = DOMAIN j.batch
        /\ k.evWas = Snapshot(d, FilesOf(DOMAIN j.batch))
        /\ k.ev \notin Held /\ \A o \in jobs : o.ev # k.ev
    BY <2>1, <2>2, PushFacts
  <2> HIDE DEF k
  <2>6. SameCommit(k, j)
    BY <2>2, <2>4 DEF SameCommit
  <2>7. Framed(k)
    BY <2>2, <2>4, <2>6 DEF Framed, SameCommit
  <2>8. GoesOnAs(d, j, k, Repaired(d, j, S, F)) /\ k.attempt > 0
    BY <2>2, <2>3, <2>4, <2>6, <2>7 DEF GoesOnAs
  <2> QED BY <2>8 DEF Repairs
<1> QED BY <1>1, <1>2

(* The first pass, and the one that Keep fixing starts with. *)
LEMMA CommitOutcome ==
  ASSUME NEW d \in Disks, NEW j \in Jobs, Free, Framed(j), j.attempt = 0,
         NEW r, r.applied \in SUBSET DOMAIN j.batch, r.files \in SUBSET Files
  PROVE  LET out == commitManualEdits(d, j, r)
         IN \/ out = Undone(d, j)
            \/ /\ Applies(d, j, r.applied, out) /\ NoneLeft(d, j, r.applied)
               /\ ~Conflicts(d, j, r)
            \/ Repairs(d, j, out) /\ ~Conflicts(d, j, r)
<1> DEFINE out == commitManualEdits(d, j, r)
<1>1. \A S \in SUBSET DOMAIN j.batch, F \in SUBSET Files : Repairs(d, j, Repaired(d, j, S, F))
  <2>1. j.attempt # MaxRepairs
    BY BoundsAssumption
  <2> QED BY <2>1, RepairedOutcome
<1>2. CASE Conflicts(d, j, r)
  BY <1>2 DEF commitManualEdits
<1>3. CASE ~Conflicts(d, j, r) /\ r.applied # {} /\ r.files = {}
  <2>1. out = Repaired(d, j, r.applied, {})
    BY <1>3 DEF commitManualEdits
  <2> QED BY <1>1, <1>3, <2>1
<1>4. CASE ~Conflicts(d, j, r) /\ ~(r.applied # {} /\ r.files = {})
  <2>1. CASE findUnappliedEntrySourceChanges(d, j, r.applied) # {}
    BY <1>4, <2>1 DEF commitManualEdits
  <2>2. CASE findUnappliedEntrySourceChanges(d, j, r.applied) = {} /\ ~Verified(d, j, r.applied)
    <3>1. out = Repaired(d, j, r.applied, r.files)
      BY <1>4, <2>2 DEF commitManualEdits
    <3> QED BY <1>1, <1>4, <3>1
  <2>3. CASE findUnappliedEntrySourceChanges(d, j, r.applied) = {} /\ Verified(d, j, r.applied)
    <3> DEFINE S == IF r.applied = {} THEN DOMAIN j.batch ELSE r.applied
    <3>1. out = IF ~runCopyEditPostApplyChecks(d, r.files)
                  THEN Repaired(d, j, S, r.files) ELSE Applied(d, j, r.applied)
      BY <1>4, <2>3 DEF commitManualEdits
    <3>2. S \in SUBSET DOMAIN j.batch
      OBVIOUS
    <3> HIDE DEF S
    <3>3. Repairs(d, j, Repaired(d, j, S, r.files))
      BY <1>1, <3>2
    <3>4. NoneLeft(d, j, r.applied)
      BY <2>3 DEF findUnappliedEntrySourceChanges, NoneLeft
    <3>5. Applies(d, j, r.applied, Applied(d, j, r.applied))
      BY <2>3 DEF Applies, Verified
    <3> QED BY <1>4, <3>1, <3>3, <3>4, <3>5
  <2> QED BY <2>1, <2>2, <2>3
<1> QED BY <1>2, <1>3, <1>4

(* Several chunks, the last of which is answered or given up. *)
LEMMA ChunksEndOutcome ==
  ASSUME NEW d \in Disks, NEW j \in Jobs, Free, Framed(j), j.attempt = 0, DOMAIN j.batch # {}
  PROVE  LET out == ChunksEnd(d, j)
         IN \/ out = Undone(d, j)
            \/ \E S \in SUBSET (j.applied \ j.failed) :
                 S # {} /\ Applies(d, j, S, out) /\ NoneLeft(d, j, S)
            \/ j.applied # {} /\ Repairs(d, j, out)
<1> DEFINE failed == j.failed \cup (DOMAIN j.batch \ j.applied)
           S == j.applied \ failed
           status == CASE failed = {} -> "done"
                       [] failed # {} /\ S # {} -> "partial"
                       [] OTHER -> "error"
           r == [applied |-> S, failed |-> failed, files |-> j.files, status |-> status]
<1>1. ChunksEnd(d, j) = commitManualEdits(d, j, r)
  BY DEF ChunksEnd
<1>2. r.applied = S /\ r.files = j.files /\ r.status = status
  OBVIOUS
<1>3. S \in SUBSET DOMAIN j.batch /\ S \subseteq j.applied \ j.failed
  BY DEF Framed
<1>4. j.files \in SUBSET Files
  BY JobFields
<1>5. S = {} => status = "error"
  BY DEF Framed
<1> HIDE DEF S, status, failed, r
<1>6. S = {} => Conflicts(d, j, r)
  BY <1>2, <1>5 DEF Conflicts
<1>7. \/ commitManualEdits(d, j, r) = Undone(d, j)
      \/ /\ Applies(d, j, S, commitManualEdits(d, j, r)) /\ NoneLeft(d, j, S)
         /\ ~Conflicts(d, j, r)
      \/ Repairs(d, j, commitManualEdits(d, j, r)) /\ ~Conflicts(d, j, r)
  BY <1>2, <1>3, <1>4, CommitOutcome
<1> QED BY <1>1, <1>3, <1>6, <1>7

(* The first pass comes to one of four things. *)
FirstOutcome(d, j, out) ==
  \/ out = Undone(d, j)
  \/ \E S : Applies(d, j, S, out) /\ NoneLeft(d, j, S)
  \/ Repairs(d, j, out)
  \/ Asks(d, j, out)

Counted(k, j, A, B, F) ==
  k = [j EXCEPT !.applied = @ \cup A, !.failed = @ \cup B, !.files = @ \cup F]

LEMMA FramedCounts ==
  ASSUME NEW j \in Jobs, Framed(j), NEW A \in SUBSET DOMAIN j.batch,
         NEW B \in SUBSET DOMAIN j.batch, NEW F \in SUBSET Files, NEW k,
         Counted(k, j, A, B, F)
  PROVE  /\ k \in Jobs /\ SameCommit(k, j) /\ Framed(k)
         /\ k.applied = j.applied \cup A /\ k.failed = j.failed \cup B
         /\ k.attempt = j.attempt /\ k.todo = j.todo
<1>1. DOMAIN j.batch \in SUBSET Edits
  BY JobFields, TextsFacts
<1>2. k \in Jobs /\ SameCommit(k, j) /\ k.asked = j.asked /\ k.evWas = j.evWas /\ k.todo = j.todo
      /\ k.applied = j.applied \cup A /\ k.failed = j.failed \cup B /\ k.attempt = j.attempt
  BY <1>1 DEF Jobs, SameCommit, Counted
<1>3. Framed(k)
  BY <1>2 DEF Framed, SameCommit
<1> QED BY <1>2, <1>3

LEMMA NextChunk ==
  ASSUME NEW d \in Disks, NEW j \in Jobs, Free, Framed(j), j.attempt = 0, j.todo # <<>>,
         NEW out,
         out = [disk |-> d, clears |-> NoPage, told |-> "nothing",
                next |-> {pushApplyEventAndWait(d, [j EXCEPT !.todo = Tail(@)], Head(j.todo))}]
  PROVE  Asks(d, j, out)
<1> DEFINE i == [j EXCEPT !.todo = Tail(@)]
           k == pushApplyEventAndWait(d, i, Head(j.todo))
<1>1. DOMAIN j.batch \in SUBSET Edits
  BY JobFields, TextsFacts
<1>2. /\ Head(j.todo) \in SUBSET DOMAIN j.batch
      /\ Tail(j.todo) \in Seq(SUBSET DOMAIN j.batch) /\ Tail(j.todo) \in Seq(SUBSET Edits)
  BY JobFields, HeadTail DEF Framed
<1>3. /\ i \in Jobs /\ SameCommit(i, j) /\ i.todo = Tail(j.todo) /\ i.applied = j.applied
      /\ i.failed = j.failed /\ i.attempt = 0
  BY <1>2 DEF Jobs, SameCommit
<1>4. out.disk = d /\ out.clears = NoPage /\ out.told = "nothing" /\ out.next = {k}
  OBVIOUS
<1> HIDE DEF i
<1>5. Head(j.todo) \in SUBSET Edits
  BY <1>1, <1>2
<1>6. /\ k \in Jobs /\ SameCommit(k, i) /\ k.todo = i.todo /\ k.applied = i.applied
      /\ k.failed = i.failed /\ k.attempt = i.attempt /\ k.asked = Head(j.todo)
      /\ k.evWas = Snapshot(d, FilesOf(Head(j.todo)))
      /\ k.ev \notin Held /\ \A o \in jobs : o.ev # k.ev
  BY <1>3, <1>5, PushFacts
<1> HIDE DEF k
<1>8. SameCommit(k, j)
  BY <1>3, <1>6 DEF SameCommit
<1>9. Framed(k)
  BY <1>2, <1>3, <1>6, <1>8 DEF Framed, SameCommit
<1>10. GoesOnAs(d, j, k, out) /\ k.attempt = 0
  BY <1>3, <1>4, <1>6, <1>8, <1>9 DEF GoesOnAs
<1> QED BY <1>4, <1>10 DEF Asks

LEMMA ResultsFacts ==
  ASSUME NEW S, NEW r \in Results(S)
  PROVE  r.applied \in SUBSET S /\ r.failed \in SUBSET S /\ r.files \in SUBSET FilesOf(S)
BY DEF Results

LEMMA PassOutcome ==
  ASSUME NEW d \in Disks, NEW j \in Jobs, Free, Framed(j), j.attempt = 0, DOMAIN j.batch # {},
         NEW r \in Results(j.asked)
  PROVE  FirstOutcome(d, j, pushBatchInChunksAndWait(d, j, r))
<1> DEFINE applied == IF r.status = "error" THEN {} ELSE r.applied \ r.failed
           k == [j EXCEPT !.applied = @ \cup applied, !.failed = @ \cup (j.asked \ applied),
                          !.files = @ \cup r.files]
           out == pushBatchInChunksAndWait(d, j, r)
<1>1. applied \in SUBSET DOMAIN j.batch /\ j.asked \ applied \in SUBSET DOMAIN j.batch
  BY ResultsFacts DEF Framed
<1>2. r.files \in SUBSET Files
  BY ResultsFacts, JobFields, FilesOfFacts
<1>3. out = IF r.status = "error" \/ k.todo = <<>>
              THEN ChunksEnd(d, k)
              ELSE [disk |-> d, clears |-> NoPage, told |-> "nothing",
                    next |-> {pushApplyEventAndWait(d, [k EXCEPT !.todo = Tail(@)], Head(k.todo))}]
  BY DEF pushBatchInChunksAndWait
<1>k. Counted(k, j, applied, j.asked \ applied, r.files)
  BY DEF Counted
<1> HIDE DEF applied, k, out
<1>4. k \in Jobs /\ SameCommit(k, j) /\ Framed(k) /\ k.attempt = 0 /\ k.todo = j.todo
  BY <1>1, <1>2, <1>k, FramedCounts
<1>5. CASE r.status = "error" \/ k.todo = <<>>
  <2>1. out = ChunksEnd(d, k) /\ DOMAIN k.batch # {}
    BY <1>3, <1>4, <1>5 DEF SameCommit
  <2>2. \/ out = Undone(d, k)
        \/ \E S : Applies(d, k, S, out) /\ NoneLeft(d, k, S)
        \/ Repairs(d, k, out)
    BY <1>4, <2>1, ChunksEndOutcome
  <2> QED BY <1>4, <2>2, SameOutcome DEF FirstOutcome, out
<1>6. CASE ~(r.status = "error" \/ k.todo = <<>>)
  <2>1. Asks(d, k, out)
    BY <1>3, <1>4, <1>6, NextChunk
  <2> QED BY <1>4, <2>1, SameOutcome DEF FirstOutcome, out
<1> QED BY <1>5, <1>6

(* An attempt at repair applies its edits, or there is a next one, or none left. *)
RepairOutcome(d, j, out) ==
  \/ \E S : Applies(d, j, S, out)
  \/ j.attempt = MaxRepairs /\ Decides(d, out)
  \/ Repairs(d, j, out)

LEMMA AnsweredOutcome ==
  ASSUME NEW d \in Disks, NEW j \in Jobs, Free, Framed(j), DOMAIN j.batch # {},
         NEW r \in Results(j.asked)
  PROVE  /\ j.attempt = 0 => FirstOutcome(d, j, Answered(d, j, r))
         /\ j.attempt # 0 => RepairOutcome(d, j, Answered(d, j, r))
<1>1. r.applied \in SUBSET DOMAIN j.batch /\ r.files \in SUBSET Files
  BY ResultsFacts, JobFields, FilesOfFacts DEF Framed
<1>2. CASE j.attempt = 0 /\ InChunks(j)
  <2>1. Answered(d, j, r) = pushBatchInChunksAndWait(d, j, r)
    BY <1>2 DEF Answered
  <2> QED BY <1>2, <2>1, PassOutcome
<1>3. CASE j.attempt = 0 /\ ~InChunks(j)
  <2>1. Answered(d, j, r) = commitManualEdits(d, j, r)
    BY <1>3 DEF Answered
  <2> QED BY <1>1, <1>3, <2>1, CommitOutcome DEF FirstOutcome
<1>4. CASE j.attempt # 0
  <2> DEFINE S == j.applied \cup r.applied
             F == j.files \cup r.files
  <2>1. Answered(d, j, r) = repairPostApplyValidation(d, j, r)
    <3>1. j.attempt > 0
      BY <1>4, JobFields, BoundsAssumption
    <3> QED BY <3>1 DEF Answered
  <2>2. S \in SUBSET DOMAIN j.batch /\ F \in SUBSET Files
    BY <1>1, JobFields DEF Framed
  <2>3. repairPostApplyValidation(d, j, r) =
          IF ~Verified(d, j, S) \/ ~runCopyEditPostApplyChecks(d, F)
            THEN Repaired(d, j, S, F) ELSE Applied(d, j, S)
    BY DEF repairPostApplyValidation
  <2> HIDE DEF S, F
  <2>4. RepairOutcome(d, j, Repaired(d, j, S, F))
    BY <2>2, RepairedOutcome DEF RepairOutcome
  <2>5. Verified(d, j, S) => RepairOutcome(d, j, Applied(d, j, S))
    BY <2>2 DEF RepairOutcome, Applies, Verified
  <2> QED BY <1>4, <2>1, <2>3, <2>4, <2>5
<1> QED BY <1>2, <1>3, <1>4

(* A commit whose event is not answered in time applies at most what earlier    *)
(* chunks were answered for.                                                    *)
ThrownFirst(d, j, out) ==
  \/ out = Undone(d, j)
  \/ \E S \in SUBSET (j.applied \ j.asked) : /\ S # {} /\ Applies(d, j, S, out)
                                             /\ NoneLeft(d, j, S)
  \/ j.applied # {} /\ Repairs(d, j, out)

LEMMA ThrownOutcome ==
  ASSUME NEW d \in Disks, NEW j \in Jobs, Free, Framed(j), DOMAIN j.batch # {}
  PROVE  /\ j.attempt = 0 => ThrownFirst(d, j, Thrown(d, j))
         /\ j.attempt # 0 => \/ j.attempt = MaxRepairs /\ Decides(d, Thrown(d, j))
                             \/ Repairs(d, j, Thrown(d, j))
<1>1. CASE j.attempt = 0 /\ InChunks(j)
  <2> DEFINE k == [j EXCEPT !.applied = @ \cup {}, !.failed = @ \cup j.asked, !.files = @ \cup {}]
             out == Thrown(d, j)
  <2>1. k = [j EXCEPT !.failed = @ \cup j.asked]
    BY JobFields DEF Jobs
  <2>2. out = ChunksEnd(d, k)
    BY <1>1, <2>1 DEF Thrown
  <2>3. j.asked \in SUBSET DOMAIN j.batch /\ {} \in SUBSET DOMAIN j.batch /\ {} \in SUBSET Files
    BY DEF Framed
  <2>k. Counted(k, j, {}, j.asked, {})
    BY DEF Counted
  <2> HIDE DEF k, out
  <2>4. /\ k \in Jobs /\ SameCommit(k, j) /\ Framed(k) /\ k.attempt = 0
        /\ k.applied = j.applied /\ k.failed = j.failed \cup j.asked
    <3>1. /\ k \in Jobs /\ SameCommit(k, j) /\ Framed(k) /\ k.attempt = j.attempt
          /\ k.applied = j.applied \cup {} /\ k.failed = j.failed \cup j.asked
      <4> DEFINE none == {}
      <4>1. Counted(k, j, none, j.asked, none)
        BY <2>k
      <4>2. j.asked \in SUBSET DOMAIN j.batch /\ none \in SUBSET DOMAIN j.batch
            /\ none \in SUBSET Files
        BY <2>3
      <4>3. none = {}
        OBVIOUS
      <4> HIDE DEF none
      <4>4. /\ k \in Jobs /\ SameCommit(k, j) /\ Framed(k) /\ k.attempt = j.attempt
            /\ k.applied = j.applied \cup none /\ k.failed = j.failed \cup j.asked
        BY <4>1, <4>2, FramedCounts
      <4> QED BY <4>3, <4>4
    <3> QED BY <1>1, <3>1
  <2>5. DOMAIN k.batch # {}
    BY <2>4 DEF SameCommit
  <2>6. \/ out = Undone(d, k)
        \/ \E S \in SUBSET (k.applied \ k.failed) :
             S # {} /\ Applies(d, k, S, out) /\ NoneLeft(d, k, S)
        \/ k.applied # {} /\ Repairs(d, k, out)
    BY <2>2, <2>4, <2>5, ChunksEndOutcome
  <2>7. k.applied \ k.failed \subseteq j.applied \ j.asked
    BY <2>4
  <2>8. ThrownFirst(d, j, out)
    BY <2>4, <2>6, <2>7, SameOutcome DEF ThrownFirst
  <2> QED BY <1>1, <2>8 DEF out
<1>2. CASE j.attempt = 0 /\ ~InChunks(j)
  BY <1>2 DEF Thrown, ThrownFirst
<1>3. CASE j.attempt # 0
  <2>1. Thrown(d, j) = Repaired(d, j, j.applied, j.files)
    <3>1. j.attempt > 0
      BY <1>3, JobFields, BoundsAssumption
    <3> QED BY <3>1 DEF Thrown
  <2>2. j.applied \in SUBSET DOMAIN j.batch /\ j.files \in SUBSET Files
    BY JobFields DEF Framed
  <2> QED BY <1>3, <2>1, <2>2, RepairedOutcome
<1> QED BY <1>1, <1>2, <1>3

--------------------------------------------------------------------------------
(* A commit that is answered or timed out, or that Keep fixing starts. *)

Outcome(d, j, out) ==
  \/ out = Undone(d, j) \/ Decides(d, out)
  \/ \E S : Applies(d, j, S, out)
  \/ \E k : GoesOnAs(d, j, k, out)

LEMMA OutcomeKinds ==
  ASSUME NEW d, NEW j, NEW out
  PROVE  /\ FirstOutcome(d, j, out) => Outcome(d, j, out)
         /\ RepairOutcome(d, j, out) => Outcome(d, j, out)
         /\ ThrownFirst(d, j, out) => Outcome(d, j, out)
         /\ Repairs(d, j, out) => Outcome(d, j, out)
         /\ Decides(d, out) => Outcome(d, j, out)
BY DEF Outcome, FirstOutcome, RepairOutcome, ThrownFirst, Repairs, Asks

LEMMA UndoneFacts ==
  ASSUME NEW d \in Disks, NEW j \in Jobs
  PROVE  LET out == Undone(d, j)
             c == Closed(out)
         IN /\ out.next = {} /\ out.told = "commit_done" /\ out.clears = j.txn
            /\ out.disk \in Disks /\ out.disk.buf = d.buf /\ out.disk.txn = d.txn
            /\ \A e \in Edits : out.disk.text[e] = IF FileOf[e] \in j.was.files
                                                     THEN j.was.text[e] ELSE d.text[e]
            /\ c \in Disks /\ c.buf = d.buf /\ c.text = out.disk.text
            /\ c.txn = IF d.txn.page = j.txn THEN NoTxn ELSE d.txn
<1> DEFINE g == Restored(d, j.was)
           h == clearTransaction(g, j.txn)
<1>1. g \in Disks /\ g.buf = d.buf /\ g.txn = d.txn
      /\ \A e \in Edits : g.text[e] = IF FileOf[e] \in j.was.files THEN j.was.text[e] ELSE d.text[e]
  BY JobFields, RestoredFacts
<1>2. Undone(d, j) = [disk |-> g, clears |-> j.txn, next |-> {}, told |-> "commit_done"]
  BY DEF Undone, Ended
<1> HIDE DEF g
<1>3. /\ Undone(d, j).disk = g /\ Undone(d, j).clears = j.txn /\ Undone(d, j).next = {}
      /\ Undone(d, j).told = "commit_done"
  BY <1>2
<1>4. Closed(Undone(d, j)) = h
  BY <1>3 DEF Closed
<1>5. h \in Disks /\ h.buf = g.buf /\ h.text = g.text
      /\ h.txn = IF g.txn.page = j.txn THEN NoTxn ELSE g.txn
  BY <1>1, JobFields, ClearFacts
<1> HIDE DEF h
<1> QED BY <1>1, <1>3, <1>4, <1>5

LEMMA AppliedFacts ==
  ASSUME NEW d \in Disks, NEW j \in Jobs, NEW S
  PROVE  LET out == Applied(d, j, S)
             c == Closed(out)
         IN /\ out.next = {} /\ out.told = "commit_done" /\ out.clears = j.txn
            /\ out.disk \in Disks /\ out.disk.text = d.text /\ out.disk.txn = d.txn
            /\ DOMAIN out.disk.buf = DOMAIN d.buf \ S
            /\ \A e \in DOMAIN d.buf \ S : out.disk.buf[e] = d.buf[e]
            /\ c \in Disks /\ c.buf = out.disk.buf /\ c.text = d.text
            /\ c.txn = IF d.txn.page = j.txn THEN NoTxn ELSE d.txn
<1> DEFINE g == Unstaged(d, S)
           h == clearTransaction(g, j.txn)
<1>1. g \in Disks /\ g.text = d.text /\ g.txn = d.txn /\ DOMAIN g.buf = DOMAIN d.buf \ S
      /\ \A e \in DOMAIN d.buf \ S : g.buf[e] = d.buf[e]
  BY UnstagedFacts
<1>2. Applied(d, j, S) = [disk |-> g, clears |-> j.txn, next |-> {}, told |-> "commit_done"]
  BY DEF Applied, Ended
<1> HIDE DEF g
<1>3. /\ Applied(d, j, S).disk = g /\ Applied(d, j, S).clears = j.txn
      /\ Applied(d, j, S).next = {} /\ Applied(d, j, S).told = "commit_done"
  BY <1>2
<1>4. Closed(Applied(d, j, S)) = h
  BY <1>3 DEF Closed
<1>5. h \in Disks /\ h.buf = g.buf /\ h.text = g.text
      /\ h.txn = IF g.txn.page = j.txn THEN NoTxn ELSE g.txn
  BY <1>1, JobFields, ClearFacts
<1> HIDE DEF h
<1> QED BY <1>1, <1>3, <1>4, <1>5

LEMMA ClosedSame ==
  ASSUME NEW d \in Disks, NEW out, out.disk = d, out.clears = NoPage
  PROVE  Closed(out) = d
BY ClearNone DEF Closed

(* All that is lost of the buffer was in the batch; a commit that goes on loses *)
(* nothing.                                                                     *)
Lands(d, j, g, out) ==
  /\ g \in Disks
  /\ DOMAIN g.buf \subseteq DOMAIN d.buf
  /\ DOMAIN d.buf \ DOMAIN g.buf \subseteq DOMAIN j.batch
  /\ \A e \in DOMAIN g.buf : g.buf[e] = d.buf[e]
  /\ \/ out.next = {}
     \/ g = d /\ \E k : GoesOnAs(d, j, k, out)

LEMMA OutcomeLands ==
  ASSUME NEW d \in Disks, NEW j \in Jobs, NEW out, Outcome(d, j, out)
  PROVE  Lands(d, j, out.disk, out) /\ Lands(d, j, Closed(out), out)
<1>1. CASE out = Undone(d, j)
  BY <1>1, UndoneFacts DEF Lands
<1>2. CASE Decides(d, out)
  <2>1. out.disk = d /\ out.clears = NoPage /\ out.next = {}
    BY <1>2 DEF Decides
  <2> QED BY <2>1, ClosedSame DEF Lands
<1>3. ASSUME NEW S, Applies(d, j, S, out)
      PROVE  Lands(d, j, out.disk, out) /\ Lands(d, j, Closed(out), out)
  <2>1. out = Applied(d, j, S) /\ S \subseteq DOMAIN j.batch
    BY <1>3 DEF Applies
  <2> QED BY <2>1, AppliedFacts DEF Lands
<1>4. ASSUME NEW k, GoesOnAs(d, j, k, out)
      PROVE  Lands(d, j, out.disk, out) /\ Lands(d, j, Closed(out), out)
  <2>1. out.disk = d /\ out.clears = NoPage
    BY <1>4 DEF GoesOnAs
  <2> QED BY <1>4, <2>1, ClosedSame DEF Lands
<1> QED BY <1>1, <1>2, <1>3, <1>4 DEF Outcome

--------------------------------------------------------------------------------
(* Types, and what a page and its commit agree on. *)

Base == TypeOK /\ ApplyInv

LEMMA BaseFacts ==
  ASSUME Base
  PROVE  /\ disk \in Disks /\ up \in BOOLEAN /\ jobs \subseteq Jobs
         /\ tombs \subseteq [ev : Events, was : Snapshots]
         /\ agent \in [Agents -> {NoWork} \cup Work] /\ tab \in [Pages -> Tabs]
         /\ kept \in [Edits -> Versions] /\ OnePerPage /\ Free
         /\ IsFiniteSet(DOMAIN disk.buf)
         /\ \A j \in jobs : /\ Batched(disk, j) /\ Framed(j) /\ Shown(tab[j.page])
                            /\ j.evWas.files = FilesOf(j.asked) /\ DOMAIN j.batch # {}
         /\ ~up => jobs = {} /\ tombs = {} /\ \A p \in Pages : tab[p].sse = "dead"
<1>1. agent \in [Agents -> {NoWork} \cup Work] /\ jobs \subseteq Jobs /\ OnePerPage
  BY DEF Base, TypeOK, ApplyInv, OnePerPage
<1>2. Free
  BY <1>1, FreeEvent DEF Free
<1> QED BY <1>1, <1>2 DEF Base, TypeOK, ApplyInv, Batched

(* A commit of a page has asked for what is staged, whatever becomes of others. *)
LEMMA BatchedElsewhere ==
  ASSUME NEW d \in Disks, NEW g \in Disks, NEW j, Batched(d, j),
         \A e \in Edits : PageOf[e] = j.page =>
           /\ e \in DOMAIN d.buf <=> e \in DOMAIN g.buf
           /\ e \in DOMAIN d.buf => g.buf[e] = d.buf[e]
  PROVE  Batched(g, j)
<1>1. DOMAIN d.buf \subseteq Edits /\ DOMAIN g.buf \subseteq Edits
  BY DiskFields, BufferFacts
<1>2. Staged(g, j.page) = Staged(d, j.page)
  BY <1>1 DEF Staged
<1>3. \A e \in Staged(d, j.page) : g.buf[e] = d.buf[e]
  BY <1>1 DEF Staged
<1> QED BY <1>2, <1>3 DEF Batched

LEMMA BatchedSame ==
  ASSUME NEW d, NEW g, NEW j, NEW k, Batched(d, j), SameCommit(k, j), g.buf = d.buf
  PROVE  Batched(g, k) /\ Staged(g, k.page) = Staged(d, k.page)
BY DEF Batched, SameCommit, Staged

LEMMA KeptTypes ==
  ASSUME Base, NEW d \in Disks
  PROVE  /\ Kept(d) \in [Edits -> Versions]
         /\ \A e \in Edits : \/ Kept(d)[e] = kept[e]
                             \/ /\ e \in DOMAIN disk.buf \ DOMAIN d.buf
                                /\ Kept(d)[e] = disk.buf[e].new
         /\ d.buf = disk.buf => Kept(d) = kept
<1>1. \A e \in DOMAIN disk.buf : disk.buf[e].new \in Versions
  BY BaseFacts, DiskFields, BufferFacts
<1> QED BY <1>1, BaseFacts DEF Kept

(* Of a page whose dock is not locked, or asks for a decision, no commit waits. *)
LEMMA NoCommit ==
  ASSUME Base, NEW p \in Pages, ~tab[p].locked \/ tab[p].buttons
  PROVE  \A j \in jobs : j.page # p
BY BaseFacts DEF Shown

Types ==
  /\ tombs \subseteq [ev : Events, was : Snapshots]
  /\ agent \in [Agents -> {NoWork} \cup Work]
  /\ kept \in [Edits -> Versions]

LEMMA TypesUnchanged ==
  ASSUME Base
  PROVE  /\ Types
         /\ UNCHANGED <<tombs, agent, kept>> => Types'
BY BaseFacts DEF Types

(* A step that leaves the buffer and the commits as they are. *)
LEMMA SameBuffer ==
  ASSUME Base, disk' \in Disks, disk'.buf = disk.buf, UNCHANGED jobs, Types',
         up' \in BOOLEAN, tab' \in [Pages -> Tabs],
         \A j \in jobs : Shown(tab'[j.page]),
         ~up' => UNCHANGED up /\ tombs' \subseteq tombs /\ \A p \in Pages : tab'[p].sse = "dead"
  PROVE  Base'
<1>1. TypeOK'
  BY BaseFacts DEF TypeOK, Types
<1>2. \A j \in jobs : Batched(disk', j)
  BY BaseFacts DEF Batched, Staged
<1>3. \A j \in jobs : Batched(disk', j) /\ Framed(j) /\ Shown(tab'[j.page])
                      /\ j.evWas.files = FilesOf(j.asked)
  BY <1>2, BaseFacts
<1>4. IsFiniteSet(DOMAIN disk'.buf)
  BY BaseFacts
<1>5. ~up' => jobs' = {} /\ tombs' = {} /\ \A p \in Pages : tab'[p].sse = "dead"
  BY BaseFacts
<1>6. \A j, k \in jobs : j.page = k.page => j = k
  BY BaseFacts DEF OnePerPage
<1> QED BY <1>1, <1>3, <1>4, <1>5, <1>6 DEF Base, ApplyInv

(* A step of the commit of page p, of which nothing or N is left. *)
Moves(p, before, g, N, T) ==
  /\ up /\ up' = up /\ disk' = g /\ jobs' = (jobs \ before) \cup N
  /\ tab' = [tab EXCEPT ![p] = T]
  /\ \A o \in jobs \ before : o.page # p
  /\ DOMAIN g.buf \subseteq DOMAIN disk.buf
  /\ \A e \in DOMAIN g.buf : g.buf[e] = disk.buf[e]
  /\ \A e \in DOMAIN disk.buf \ DOMAIN g.buf : PageOf[e] = p
  /\ \A k, l \in N : k = l
  /\ \A k \in N : /\ k \in Jobs /\ k.page = p /\ Batched(g, k) /\ Framed(k)
                  /\ k.evWas.files = FilesOf(k.asked)
  /\ N # {} => Shown(T)

LEMMA CommitStep ==
  ASSUME Base, NEW p \in Pages, NEW g \in Disks, NEW T \in Tabs, Types',
         NEW before, NEW N, Moves(p, before, g, N, T)
  PROVE  Base'
<1> USE DEF Moves
<1>1. tab' \in [Pages -> Tabs] /\ tab'[p] = T /\ \A q \in Pages : q # p => tab'[q] = tab[q]
  BY BaseFacts
<1>2. TypeOK'
  BY <1>1, BaseFacts DEF TypeOK, Types
<1>3. IsFiniteSet(DOMAIN g.buf)
  BY BaseFacts, FS_Subset
<1>4. ASSUME NEW o \in jobs \ before
      PROVE  Batched(g, o) /\ Framed(o) /\ Shown(tab'[o.page]) /\ o.evWas.files = FilesOf(o.asked)
  <2>1. o.page # p /\ o.page \in Pages /\ Batched(disk, o)
    BY BaseFacts, JobFields
  <2>2. Batched(g, o)
    BY <2>1, BatchedElsewhere, BaseFacts
  <2> QED BY <1>1, <2>1, <2>2, BaseFacts
<1>5. ASSUME NEW o \in N
      PROVE  Batched(g, o) /\ Framed(o) /\ Shown(tab'[o.page]) /\ o.evWas.files = FilesOf(o.asked)
  BY <1>1
<1>6. \A o \in jobs' : Batched(disk', o) /\ Framed(o) /\ Shown(tab'[o.page])
                       /\ o.evWas.files = FilesOf(o.asked)
  BY <1>4, <1>5
<1>7. \A o, k \in jobs' : o.page = k.page => o = k
  BY BaseFacts DEF OnePerPage
<1> QED BY <1>2, <1>3, <1>6, <1>7 DEF Base, ApplyInv

(* What lands of the commit j keeps what its page agrees on. *)
LEMMA LandsBase ==
  ASSUME Base, up, up' = up, NEW j \in Jobs, Framed(j), Batched(disk, j),
         NEW before, \A o \in jobs \ before : o.page # j.page,
         NEW g, NEW out, Lands(disk, j, g, out), NEW T \in Tabs, out.next # {} => Shown(T),
         disk' = g, jobs' = (jobs \ before) \cup out.next,
         tab' = [tab EXCEPT ![j.page] = T], Types'
  PROVE  Base'
<1>1. j.page \in Pages /\ disk \in Disks
  BY JobFields, BaseFacts
<1>2. /\ g \in Disks
      /\ DOMAIN g.buf \subseteq DOMAIN disk.buf
      /\ \A e \in DOMAIN g.buf : g.buf[e] = disk.buf[e]
      /\ \A e \in DOMAIN disk.buf \ DOMAIN g.buf : PageOf[e] = j.page
  BY DEF Lands, Batched, Staged
<1>3. CASE out.next = {}
  <2>1. Moves(j.page, before, g, out.next, T)
    BY <1>2, <1>3 DEF Moves
  <2> QED BY <1>1, <1>2, <2>1, CommitStep
<1>4. ASSUME NEW k, g = disk, GoesOnAs(disk, j, k, out) PROVE Base'
  <2>1. /\ out.next = {k} /\ k \in Jobs /\ SameCommit(k, j) /\ Framed(k)
        /\ k.evWas = Snapshot(disk, FilesOf(k.asked))
    BY <1>4 DEF GoesOnAs
  <2>2. k.evWas.files = FilesOf(k.asked)
    BY <1>1, <2>1, JobFields, FilesOfFacts, SnapshotFacts
  <2>3. Batched(g, k) /\ k.page = j.page
    BY <1>4, <2>1, BatchedSame DEF SameCommit
  <2>4. \A i \in out.next : /\ i \in Jobs /\ i.page = j.page /\ Batched(g, i) /\ Framed(i)
                            /\ i.evWas.files = FilesOf(i.asked)
    BY <2>1, <2>2, <2>3
  <2>5. \A i, l \in out.next : i = l
    BY <2>1
  <2>6. Moves(j.page, before, g, out.next, T)
    BY <1>2, <2>4, <2>5 DEF Moves
  <2> QED BY <1>1, <1>2, <2>6, CommitStep
<1> QED BY <1>3, <1>4 DEF Lands

LEMMA InitBase ==
  ASSUME Init PROVE Base
<1>1. disk \in Disks /\ disk.buf = <<>> /\ disk.txn = NoTxn
  <2>1. 0 \in Versions
    BY BoundsAssumption DEF Versions
  <2>2. <<>> \in Buffers
    <3> DEFINE R == [orig : Versions, new : Versions]
    <3>1. <<>> \in [{} -> R]
      <4> HIDE DEF R
      <4> QED OBVIOUS
    <3>2. {} \in SUBSET Edits
      OBVIOUS
    <3> QED BY <3>1, <3>2 DEF Buffers
  <2> QED BY <2>1, <2>2 DEF Init, Disks
<1>2. kept \in [Edits -> Versions]
  BY BoundsAssumption DEF Init, Versions
<1>3. tab \in [Pages -> Tabs]
  BY DockFacts DEF Init, Tabs, FreshTab
<1>4. TypeOK
  BY <1>1, <1>2, <1>3 DEF TypeOK, Init
<1>5. IsFiniteSet(DOMAIN disk.buf)
  <2>1. DOMAIN <<>> = {}
    OBVIOUS
  <2> QED BY <1>1, <2>1, FS_EmptySet
<1> QED BY <1>4, <1>5 DEF Base, ApplyInv, Init

(* Actions of a page. *)

LEMMA SaveBase ==
  ASSUME Base, NEW e \in Edits, applyEditing(e) PROVE Base'
<1> DEFINE p == PageOf[e]
           new == (IF e \in DOMAIN disk.buf THEN disk.buf[e].new ELSE disk.text[e]) + 1
           g == stageEntry(disk, e, new)
           T == updatePendingCounter(tab[p], TRUE)
<1>1. p \in Pages /\ disk \in Disks /\ tab[p] \in Tabs
  BY EditsAssumption, BaseFacts
<1>2. new \in Versions
  <2>1. \E v \in Versions : new = v + 1 /\ v < MaxVersion
    BY <1>1, DiskFields, BufferFacts DEF applyEditing
  <2> QED BY <2>1, BoundsAssumption DEF Versions
<1>3. /\ disk' = g /\ tab' = [tab EXCEPT ![p] = T] /\ ~tab[p].locked
      /\ UNCHANGED <<up, jobs, tombs, agent, kept>> /\ up
  BY DEF applyEditing, Live
<1> HIDE DEF new
<1>4. g \in Disks /\ DOMAIN g.buf = DOMAIN disk.buf \cup {e}
      /\ \A x \in DOMAIN disk.buf : x # e => g.buf[x] = disk.buf[x]
  BY <1>1, <1>2, StageFacts
<1>5. T \in Tabs
  BY <1>1, DockFacts
<1> HIDE DEF g, T
<1>6. \A j \in jobs : j.page # p
  BY <1>1, <1>3, NoCommit
<1>7. tab' \in [Pages -> Tabs] /\ \A q \in Pages : q # p => tab'[q] = tab[q]
  BY <1>1, <1>3, <1>5, BaseFacts
<1>8. TypeOK'
  <2>1. /\ jobs \subseteq Jobs /\ tombs \subseteq [ev : Events, was : Snapshots]
        /\ agent \in [Agents -> {NoWork} \cup Work] /\ kept \in [Edits -> Versions]
    BY BaseFacts DEF TypeOK
  <2>2. disk' \in Disks /\ up' \in BOOLEAN
    BY <1>3, <1>4
  <2> QED BY <1>3, <1>7, <2>1, <2>2 DEF TypeOK
<1>9. IsFiniteSet(DOMAIN g.buf)
  <2>1. IsFiniteSet(DOMAIN disk.buf)
    BY BaseFacts
  <2>2. IsFiniteSet(DOMAIN disk.buf \cup {e})
    BY <2>1, FS_AddElement, Zenon
  <2> QED BY <1>4, <2>2
<1>10. \A j \in jobs : Batched(g, j) /\ Framed(j) /\ Shown(tab'[j.page])
                       /\ j.evWas.files = FilesOf(j.asked)
  <2> TAKE j \in jobs
  <2>1. j.page # p /\ j.page \in Pages /\ Batched(disk, j)
    BY <1>6, BaseFacts, JobFields
  <2>2. Batched(g, j)
    BY <1>1, <1>4, <2>1, BatchedElsewhere
  <2> QED BY <1>7, <2>1, <2>2, BaseFacts
<1> QED BY <1>3, <1>8, <1>9, <1>10, BaseFacts DEF Base, ApplyInv, OnePerPage

(* The commit k of Apply: the transaction is on disk before it is sent. *)
Sent(d, p, k) ==
  /\ Commit(d, p).next = {k}
  /\ k \in Jobs /\ k.page = p /\ k.txn = p /\ ~k.again /\ Framed(k)
  /\ Batched(d, k) /\ DOMAIN k.batch = Staged(d, p)
  /\ k.was = Snapshot(d, FilesOf(Staged(d, p)))
  /\ k.applied = {} /\ k.attempt = 0
  /\ k.ev \notin Held /\ \A o \in jobs : o.ev # k.ev
  /\ k.evWas = Snapshot(Commit(d, p).disk, FilesOf(k.asked))

LEMMA CommitFacts ==
  ASSUME Base, NEW d \in Disks, d.buf = disk.buf, NEW p \in Pages, Staged(d, p) # {}
  PROVE  /\ Commit(d, p).disk \in Disks /\ Commit(d, p).disk.buf = d.buf
         /\ Commit(d, p).disk.text = d.text
         /\ Commit(d, p).disk.txn = [page |-> p, ids |-> Staged(d, p),
                                     was |-> Snapshot(d, FilesOf(Staged(d, p)))]
         /\ \E k : Sent(d, p, k)
<1> DEFINE S == Staged(d, p)
           was == Snapshot(d, FilesOf(S))
           chunks == Chunks(S)
           x == [page |-> p, ids |-> S, was |-> was]
           g == [d EXCEPT !.txn = x]
           batch == buildManualEditEvidence(d, p)
           none == {}
           j == [page |-> p, again |-> FALSE, txn |-> p, batch |-> batch,
                 was |-> was, todo |-> Tail(chunks), asked |-> none, applied |-> none,
                 failed |-> none, files |-> none, attempt |-> 0, ev |-> 1, evWas |-> was]
           k == pushApplyEventAndWait(g, j, Head(chunks))
<1>1. Commit(d, p) = [disk |-> g, clears |-> NoPage, told |-> "nothing", next |-> {k}]
  BY DEF Commit
<1>2. S \in SUBSET Edits /\ IsFiniteSet(S) /\ S # {}
  BY StagedFacts, BaseFacts, FS_Subset
<1>3. was \in Snapshots /\ was.files = FilesOf(S)
  BY <1>2, FilesOfFacts, SnapshotFacts
<1>4. x \in Transactions
  BY <1>2, <1>3 DEF Transactions
<1>5. g \in Disks /\ g.buf = d.buf /\ g.text = d.text /\ g.txn = x
  BY <1>4, WithTxn
<1>6. batch \in Texts /\ DOMAIN batch = S /\ \A e \in S : batch[e] = d.buf[e].new
  BY EvidenceFacts
<1>7. chunks \in Seq(SUBSET S) /\ chunks # <<>>
  BY <1>2, ChunksFacts
<1> HIDE DEF chunks
<1>8. Head(chunks) \in SUBSET S /\ Tail(chunks) \in Seq(SUBSET S)
  BY <1>7, HeadTail
<1>9. Tail(chunks) \in Seq(SUBSET Edits) /\ Head(chunks) \in SUBSET Edits
  BY <1>2, <1>8
<1>10. 1 \in Events /\ 0 \in 0..MaxRepairs /\ none \in SUBSET Edits /\ none \in SUBSET Files
  <2>1. Cardinality(Pages) \in Nat /\ Cardinality(Agents) \in Nat
    <3>1. Agents \in SUBSET (Pages \cup Agents) /\ Pages \in SUBSET (Pages \cup Agents)
      OBVIOUS
    <3> QED BY <3>1, BoundsAssumption, FS_Subset, FS_CardinalityType
  <2> QED BY <2>1, BoundsAssumption DEF Events
<1> HIDE DEF S, was, batch, x, none
<1>11. j \in Jobs
  BY <1>3, <1>6, <1>9, <1>10 DEF Jobs
<1>12. /\ j.page = p /\ j.again = FALSE /\ j.txn = p /\ j.batch = batch /\ j.was = was
       /\ j.todo = Tail(chunks) /\ j.applied = none /\ j.failed = none /\ j.attempt = 0
  OBVIOUS
<1> HIDE DEF j, g
<1>13. Free
  BY BaseFacts
<1>14. /\ k \in Jobs /\ SameCommit(k, j) /\ k.todo = j.todo /\ k.applied = j.applied
       /\ k.failed = j.failed /\ k.attempt = j.attempt /\ k.asked = Head(chunks)
       /\ k.evWas = Snapshot(g, FilesOf(Head(chunks)))
       /\ k.ev \notin Held /\ \A o \in jobs : o.ev # k.ev
  BY <1>5, <1>9, <1>11, <1>13, PushFacts
<1> HIDE DEF k
<1>15. /\ k.page = p /\ k.again = FALSE /\ k.txn = p /\ k.batch = batch /\ k.was = was
  BY <1>12, <1>14 DEF SameCommit
<1>16. none = {}
  BY DEF none
<1>17. Framed(k)
  BY <1>3, <1>6, <1>8, <1>12, <1>14, <1>15, <1>16 DEF Framed
<1>18. Batched(d, k)
  BY <1>2, <1>6, <1>15 DEF Batched, S
<1>19. Commit(d, p).disk = g /\ Commit(d, p).next = {k}
  BY <1>1
<1>20. Sent(d, p, k)
  BY <1>5, <1>6, <1>12, <1>14, <1>15, <1>16, <1>17, <1>18, <1>19 DEF S, was, Sent
<1> QED BY <1>5, <1>19, <1>20 DEF S, was, x

(* The commit j ends or goes on as out says, and its page hears of it. *)
Went(j, before, out) ==
  /\ disk' = Closed(out) /\ kept' = Kept(Closed(out)) /\ jobs' = (jobs \ before) \cup out.next
  /\ \E T \in Tabs : /\ tab' = [tab EXCEPT ![j.page] = T]
                     /\ out.next # {} => Shown(T)
                     /\ T.sse = tab[j.page].sse
                     /\ T.buttons => out.told = "needs_decision"

LEMMA ToldFacts ==
  ASSUME NEW d, NEW j, NEW out, Outcome(d, j, out), NEW t \in Tabs, Shown(t), NEW b \in BOOLEAN
  PROVE  LET T == handleManualEditActivity(t, out.told, b)
         IN /\ T \in Tabs /\ T.sse = t.sse
            /\ out.next # {} => Shown(T)
            /\ T.buttons => out.told = "needs_decision"
<1> DEFINE T == handleManualEditActivity(t, out.told, b)
<1>1. /\ T \in Tabs /\ T.sse = t.sse
      /\ out.told # "needs_decision" => ~T.buttons
      /\ out.told \in {"repairing", "nothing"} => Shown(T)
  BY HandleFacts DEF Shown
<1>2. out.next # {} => out.told \in {"repairing", "nothing"}
  BY DEF Outcome, Decides, GoesOnAs, Applies, Undone, Applied, Ended
<1> QED BY <1>1, <1>2

LEMMA WentFacts ==
  ASSUME NEW j, NEW before, NEW out, Outcome(disk, j, out),
         NEW t \in Tabs, Shown(t), t.sse = tab[j.page].sse, GoesOn(j.page, t, before, out)
  PROVE  Went(j, before, out)
<1> DEFINE b == Staged(Closed(out), j.page) # {}
           T == handleManualEditActivity(t, out.told, b)
<1>1. b \in BOOLEAN
  OBVIOUS
<1>2. /\ disk' = Closed(out) /\ kept' = Kept(Closed(out)) /\ jobs' = (jobs \ before) \cup out.next
      /\ tab' = [tab EXCEPT ![j.page] = T]
  BY DEF GoesOn
<1> HIDE DEF b
<1>3. /\ T \in Tabs /\ T.sse = t.sse
      /\ out.next # {} => Shown(T)
      /\ T.buttons => out.told = "needs_decision"
  BY <1>1, ToldFacts
<1> HIDE DEF T
<1> QED BY <1>2, <1>3 DEF Went

LEMMA WentBase ==
  ASSUME Base, up, up' = up, NEW j \in Jobs, Framed(j), Batched(disk, j),
         NEW before, \A o \in jobs \ before : o.page # j.page,
         NEW out, Outcome(disk, j, out), Went(j, before, out),
         tombs' \subseteq [ev : Events, was : Snapshots],
         agent' \in [Agents -> {NoWork} \cup Work]
  PROVE  Base'
<1>1. disk \in Disks
  BY BaseFacts
<1>2. Lands(disk, j, Closed(out), out)
  BY <1>1, OutcomeLands
<1>3. Closed(out) \in Disks
  BY <1>2 DEF Lands
<1>4. kept' \in [Edits -> Versions]
  BY <1>3, KeptTypes DEF Went
<1>5. Types'
  BY <1>4 DEF Types
<1>6. PICK T \in Tabs : tab' = [tab EXCEPT ![j.page] = T] /\ (out.next # {} => Shown(T))
  BY DEF Went
<1> QED BY <1>2, <1>5, <1>6, LandsBase DEF Went

(* The answer to the event of a commit. *)
LEMMA AnswerFacts ==
  ASSUME Base, NEW a \in Agents, NEW j \in jobs, NEW r \in Results(j.asked),
         GoesOn(j.page, tab[j.page], {j}, Answered(disk, j, r))
  PROVE  LET out == Answered(disk, j, r)
         IN /\ Outcome(disk, j, out) /\ Went(j, {j}, out)
            /\ j.attempt = 0 => FirstOutcome(disk, j, out)
            /\ j.attempt # 0 => RepairOutcome(disk, j, out)
<1> DEFINE out == Answered(disk, j, r)
<1>1. disk \in Disks /\ j \in Jobs /\ Free /\ Framed(j) /\ DOMAIN j.batch # {}
  BY BaseFacts
<1>2. /\ j.attempt = 0 => FirstOutcome(disk, j, out)
      /\ j.attempt # 0 => RepairOutcome(disk, j, out)
  BY <1>1, AnsweredOutcome
<1>3. Outcome(disk, j, out)
  BY <1>2, OutcomeKinds
<1>4. tab[j.page] \in Tabs /\ Shown(tab[j.page])
  BY BaseFacts, JobFields
<1> HIDE DEF out
<1>5. Went(j, {j}, out)
  BY <1>3, <1>4, WentFacts DEF out
<1> QED BY <1>2, <1>3, <1>5 DEF out

(* The event of a commit is not answered in time; the agent that holds it, if   *)
(* one does, is late from then on.                                              *)
FallsLate(j) ==
  agent' = [a \in Agents |-> IF agent[a].ev = j.ev THEN [agent[a] EXCEPT !.late = TRUE]
                             ELSE agent[a]]

LEMMA TimeoutFacts ==
  ASSUME Base, NEW p \in Pages, Timeout(p)
  PROVE  /\ up /\ UNCHANGED up
         /\ \E j \in jobs :
              /\ j.page = p
              /\ tombs' = IF j.ev \in Held THEN tombs \cup {[ev |-> j.ev, was |-> j.evWas]}
                                           ELSE tombs
              /\ FallsLate(j)
              /\ Outcome(disk, j, Thrown(disk, j)) /\ Went(j, {j}, Thrown(disk, j))
              /\ j.attempt = 0 => ThrownFirst(disk, j, Thrown(disk, j))
              /\ j.attempt # 0 => \/ Decides(disk, Thrown(disk, j))
                                  \/ Repairs(disk, j, Thrown(disk, j))
<1>1. PICK j \in jobs :
        /\ j.page = p /\ GoesOn(p, tab[p], {j}, Thrown(disk, j))
        /\ tombs' = IF j.ev \in Held THEN tombs \cup {[ev |-> j.ev, was |-> j.evWas]} ELSE tombs
        /\ FallsLate(j)
  BY DEF Timeout, FallsLate
<1> DEFINE out == Thrown(disk, j)
<1>2. disk \in Disks /\ j \in Jobs /\ Free /\ Framed(j) /\ DOMAIN j.batch # {} /\ up
      /\ tab[p] \in Tabs /\ Shown(tab[p])
  BY <1>1, BaseFacts
<1>3. /\ j.attempt = 0 => ThrownFirst(disk, j, out)
      /\ j.attempt # 0 => \/ j.attempt = MaxRepairs /\ Decides(disk, out)
                          \/ Repairs(disk, j, out)
  BY <1>2, ThrownOutcome
<1> HIDE DEF out
<1>4. Outcome(disk, j, out)
  BY <1>3, OutcomeKinds
<1>5. Went(j, {j}, out)
  BY <1>1, <1>2, <1>4, WentFacts DEF out
<1> QED BY <1>1, <1>2, <1>3, <1>4, <1>5 DEF Timeout, out

(* Keep fixing starts a commit only under a transaction that is there. *)
Fixes(j, p) ==
  /\ disk.txn # NoTxn /\ j.page = p /\ j.again /\ j.txn = disk.txn.page
  /\ j.attempt = 0 /\ Framed(j) /\ Batched(disk, j)
  /\ j.was = Snapshot(disk, FilesOf(DOMAIN j.batch))

LEMMA RepairOnlyFacts ==
  ASSUME Base, NEW p \in Pages, disk.txn # NoTxn
  PROVE  \/ RepairOnly(p) = [disk |-> disk, clears |-> NoPage, next |-> {}, told |-> "commit_done"]
         \/ \E j \in Jobs : LET out == RepairOnly(p) IN
              /\ Fixes(j, p) /\ Outcome(disk, j, out)
              /\ \/ out = Undone(disk, j)
                 \/ Applies(disk, j, DOMAIN j.batch, out)
                 \/ Repairs(disk, j, out)
<1> DEFINE S == Staged(disk, p)
           was == Snapshot(disk, FilesOf(S))
           batch == buildManualEditEvidence(disk, p)
           none == {}
           j == [page |-> p, again |-> TRUE, txn |-> disk.txn.page, batch |-> batch,
                 was |-> was, todo |-> <<>>, asked |-> none, applied |-> none,
                 failed |-> none, files |-> none, attempt |-> 0, ev |-> 1, evWas |-> was]
           all == [status |-> "done", applied |-> S, failed |-> none, files |-> FilesOf(S)]
           made == commitManualEdits(disk, j, all)
<1>1. CASE S = {}
  BY <1>1 DEF RepairOnly
<1>2. CASE S # {}
  <2>1. RepairOnly(p) = made
    BY <1>2 DEF RepairOnly
  <2>2. S \in SUBSET Edits /\ disk \in Disks
    BY BaseFacts, StagedFacts
  <2>3. was \in Snapshots /\ was.files = FilesOf(S)
    BY <2>2, FilesOfFacts, SnapshotFacts
  <2>4. batch \in Texts /\ DOMAIN batch = S /\ \A e \in S : batch[e] = disk.buf[e].new
    BY <2>2, EvidenceFacts
  <2>5. disk.txn.page \in Pages
    BY <2>2, DiskFields, TxnFacts
  <2>6. 1 \in Events /\ 0 \in 0..MaxRepairs /\ none \in SUBSET Edits /\ none \in SUBSET Files
    <3>1. Cardinality(Pages) \in Nat /\ Cardinality(Agents) \in Nat
      <4>1. Agents \in SUBSET (Pages \cup Agents) /\ Pages \in SUBSET (Pages \cup Agents)
        OBVIOUS
      <4> QED BY <4>1, BoundsAssumption, FS_Subset, FS_CardinalityType
    <3> QED BY <3>1, BoundsAssumption DEF Events
  <2>7. none = {} /\ <<>> \in Seq(SUBSET Edits) /\ <<>> \in Seq(SUBSET S)
    OBVIOUS
  <2>8. all.applied = S /\ all.files = FilesOf(S) /\ FilesOf(S) \in SUBSET Files
    BY <2>2, FilesOfFacts
  <2> HIDE DEF was, batch, none, all
  <2>9. j \in Jobs
    BY <2>3, <2>4, <2>5, <2>6, <2>7 DEF Jobs
  <2>10. /\ j.page = p /\ j.again = TRUE /\ j.txn = disk.txn.page /\ j.batch = batch /\ j.was = was
         /\ j.todo = <<>> /\ j.asked = none /\ j.applied = none /\ j.failed = none /\ j.attempt = 0
    OBVIOUS
  <2> HIDE DEF j
  <2>11. Framed(j) /\ Batched(disk, j)
    BY <1>2, <2>3, <2>4, <2>7, <2>10 DEF Framed, Batched
  <2>12. Free
    BY BaseFacts
  <2>13. all.applied \in SUBSET DOMAIN j.batch /\ all.files \in SUBSET Files
    BY <2>4, <2>8, <2>10
  <2>14. \/ made = Undone(disk, j)
         \/ Applies(disk, j, DOMAIN j.batch, made)
         \/ Repairs(disk, j, made)
    BY <2>2, <2>4, <2>8, <2>9, <2>10, <2>11, <2>12, <2>13, CommitOutcome
  <2> HIDE DEF made
  <2>15. Outcome(disk, j, made)
    BY <2>14 DEF Outcome, Repairs
  <2>16. j.was = Snapshot(disk, FilesOf(DOMAIN j.batch))
    BY <2>4, <2>10 DEF was
  <2>17. Fixes(j, p)
    BY <2>10, <2>11, <2>16 DEF Fixes
  <2> QED BY <2>1, <2>9, <2>14, <2>15, <2>17
<1> QED BY <1>1, <1>2

LEMMA LockedFacts ==
  ASSUME Base, NEW p \in Pages, Live(p)
  PROVE  LET T == Locked(p)[p]
         IN Locked(p) = [tab EXCEPT ![p] = T] /\ T \in Tabs /\ Shown(T) /\ T.sse = tab[p].sse
<1> DEFINE T == setPendingApplyLoading(tab[p], TRUE)
<1>1. tab[p] \in Tabs
  BY BaseFacts
<1>2. T \in Tabs /\ Shown(T) /\ T.sse = tab[p].sse
  BY <1>1 DEF Live, Shown, Tabs, setPendingApplyLoading
<1>3. Locked(p) = [tab EXCEPT ![p] = T]
  BY DEF Locked
<1> HIDE DEF T
<1>4. Locked(p)[p] = T
  BY <1>3, BaseFacts
<1> QED BY <1>2, <1>3, <1>4

(* A commit that is over before it is sent. *)
LEMMA OverAtOnce ==
  ASSUME Base, NEW p \in Pages, NEW d \in Disks, d.buf = disk.buf,
         NEW t \in Tabs, Shown(t), t.sse = tab[p].sse,
         NEW out, out = [disk |-> d, clears |-> NoPage, next |-> {}, told |-> "commit_done"],
         GoesOn(p, t, {}, out)
  PROVE  /\ disk' = d /\ jobs' = jobs /\ kept' = kept
         /\ \E T \in Tabs : /\ tab' = [tab EXCEPT ![p] = T] /\ T.sse = tab[p].sse
                            /\ ~T.buttons
<1> DEFINE b == Staged(Closed(out), p) # {}
           T == handleManualEditActivity(t, out.told, b)
<1>1. Closed(out) = d
  BY ClosedSame
<1>2. /\ disk' = d /\ kept' = Kept(d) /\ jobs' = jobs /\ tab' = [tab EXCEPT ![p] = T]
      /\ out.told = "commit_done" /\ b \in BOOLEAN
  BY <1>1 DEF GoesOn
<1> HIDE DEF b
<1>3. T \in Tabs /\ T.sse = t.sse /\ ~T.buttons
  BY <1>2, HandleFacts DEF Shown
<1> HIDE DEF T
<1>4. kept' = kept
  BY <1>2, KeptTypes
<1> QED BY <1>2, <1>3, <1>4

LEMMA FixFacts ==
  ASSUME Base, NEW p \in Pages, onPendingKeepFixingClick(p)
  PROVE  /\ Live(p) /\ tab[p].buttons /\ UNCHANGED <<up, tombs, agent>>
         /\ \/ /\ UNCHANGED <<disk, jobs, kept>>
               /\ \E T \in Tabs : tab' = [tab EXCEPT ![p] = T] /\ T.sse = tab[p].sse
            \/ \E j \in Jobs : \E out :
                 /\ Fixes(j, p) /\ Outcome(disk, j, out) /\ Went(j, {}, out)
                 /\ \/ out = Undone(disk, j)
                    \/ Applies(disk, j, DOMAIN j.batch, out)
                    \/ Repairs(disk, j, out)
<1> DEFINE t == Locked(p)[p]
<1>1. /\ Live(p) /\ tab[p].buttons /\ UNCHANGED <<up, tombs, agent>>
      /\ IF disk.txn # NoTxn
           THEN GoesOn(p, t, {}, RepairOnly(p))
           ELSE /\ tab' = [tab EXCEPT ![p] = showManualApplyDecision(t)]
                /\ UNCHANGED <<disk, jobs, kept>>
  BY DEF onPendingKeepFixingClick, MayKeepFixing
<1>2. t \in Tabs /\ Shown(t) /\ t.sse = tab[p].sse
  BY <1>1, LockedFacts
<1> HIDE DEF t
<1>3. CASE disk.txn = NoTxn
  <2>1. showManualApplyDecision(t) \in Tabs /\ showManualApplyDecision(t).sse = t.sse
    BY <1>2 DEF showManualApplyDecision, Tabs
  <2> QED BY <1>1, <1>2, <1>3, <2>1
<1>4. CASE disk.txn # NoTxn
  <2> DEFINE out == RepairOnly(p)
  <2>1. GoesOn(p, t, {}, out)
    BY <1>1, <1>4
  <2>2. \/ out = [disk |-> disk, clears |-> NoPage, next |-> {}, told |-> "commit_done"]
        \/ \E j \in Jobs :
             /\ Fixes(j, p) /\ Outcome(disk, j, out)
             /\ \/ out = Undone(disk, j)
                \/ Applies(disk, j, DOMAIN j.batch, out)
                \/ Repairs(disk, j, out)
    BY <1>4, RepairOnlyFacts
  <2> HIDE DEF out
  <2>3. CASE out = [disk |-> disk, clears |-> NoPage, next |-> {}, told |-> "commit_done"]
    <3>1. disk \in Disks /\ disk.buf = disk.buf
      BY BaseFacts
    <3> QED BY <1>1, <1>2, <2>1, <2>3, <3>1, OverAtOnce
  <2>4. ASSUME NEW j \in Jobs, Fixes(j, p), Outcome(disk, j, out)
        PROVE  Went(j, {}, out)
    <3>1. j.page = p
      BY <2>4 DEF Fixes
    <3> QED BY <1>2, <2>1, <2>4, <3>1, WentFacts
  <2> QED BY <1>1, <2>2, <2>3, <2>4
<1> QED BY <1>3, <1>4

(* Apply sends the first chunk, or finds no agent and sends nothing. *)
LEMMA ApplyFacts ==
  ASSUME Base, NEW p \in Pages, onPendingPillClick(p)
  PROVE  LET d == rollbackTransaction(disk, {p})
         IN /\ Live(p) /\ ~tab[p].locked /\ UNCHANGED <<up, tombs, agent>> /\ kept' = kept
            /\ d \in Disks /\ d.buf = disk.buf
            /\ \/ /\ Staged(d, p) # {} /\ disk' = Commit(d, p).disk
                  /\ jobs' = jobs \cup Commit(d, p).next /\ tab' = Locked(p)
               \/ /\ disk' = d /\ jobs' = jobs
                  /\ \E T \in Tabs : /\ tab' = [tab EXCEPT ![p] = T] /\ T.sse = tab[p].sse
                                     /\ ~T.buttons
<1> DEFINE d == rollbackTransaction(disk, {p})
           out == [disk |-> d, clears |-> NoPage, next |-> {}, told |-> "commit_done"]
           t == Locked(p)[p]
<1>1. disk \in Disks /\ tab[p] \in Tabs /\ {p} \in SUBSET Pages
  BY BaseFacts
<1>2. d \in Disks /\ d.buf = disk.buf
  BY <1>1, RollbackFacts
<1>3. /\ Live(p) /\ ~tab[p].locked /\ UNCHANGED <<up, tombs, agent>>
      /\ \/ /\ Staged(d, p) # {} /\ disk' = Commit(d, p).disk
            /\ jobs' = jobs \cup Commit(d, p).next /\ tab' = Locked(p) /\ kept' = kept
         \/ GoesOn(p, t, {}, out)
  BY DEF onPendingPillClick
<1>4. t \in Tabs /\ Shown(t) /\ t.sse = tab[p].sse
  BY <1>3, LockedFacts
<1> HIDE DEF d, t
<1>5. ASSUME GoesOn(p, t, {}, out)
      PROVE  /\ disk' = d /\ jobs' = jobs /\ kept' = kept
             /\ \E T \in Tabs : /\ tab' = [tab EXCEPT ![p] = T] /\ T.sse = tab[p].sse
                                /\ ~T.buttons
  BY <1>2, <1>4, <1>5, OverAtOnce
<1> QED BY <1>2, <1>3, <1>5 DEF d

LEMMA ApplyBase ==
  ASSUME Base, NEW p \in Pages, onPendingPillClick(p) PROVE Base'
<1> DEFINE d == rollbackTransaction(disk, {p})
<1>1. /\ Live(p) /\ ~tab[p].locked /\ UNCHANGED <<up, tombs, agent>> /\ kept' = kept
      /\ d \in Disks /\ d.buf = disk.buf
      /\ \/ /\ Staged(d, p) # {} /\ disk' = Commit(d, p).disk
            /\ jobs' = jobs \cup Commit(d, p).next /\ tab' = Locked(p)
         \/ /\ disk' = d /\ jobs' = jobs
            /\ \E T \in Tabs : tab' = [tab EXCEPT ![p] = T] /\ T.sse = tab[p].sse
  BY ApplyFacts
<1> HIDE DEF d
<1>2. \A j \in jobs : j.page # p
  BY <1>1, NoCommit
<1>3. Types'
  BY <1>1, TypesUnchanged
<1>4. CASE /\ Staged(d, p) # {} /\ disk' = Commit(d, p).disk
           /\ jobs' = jobs \cup Commit(d, p).next /\ tab' = Locked(p)
  <2> DEFINE g == Commit(d, p).disk
             N == Commit(d, p).next
             none == {}
  <2>1. g \in Disks /\ g.buf = disk.buf /\ \E k : Sent(d, p, k)
    BY <1>1, <1>4, CommitFacts
  <2>2. disk' = g /\ jobs' = (jobs \ none) \cup N /\ tab' = Locked(p)
    BY <1>4
  <2>3. PICK k : /\ N = {k} /\ k \in Jobs /\ k.page = p /\ Framed(k)
                 /\ Batched(d, k) /\ k.evWas = Snapshot(g, FilesOf(k.asked))
    BY <2>1 DEF Sent
  <2>8. \A o \in jobs \ none : o.page # p
    BY <1>2
  <2> HIDE DEF g, N, none
  <2>4. Batched(g, k)
    BY <1>1, <2>1, <2>3 DEF Batched, Staged
  <2>5. k.evWas.files = FilesOf(k.asked)
    BY <2>1, <2>3, JobFields, FilesOfFacts, SnapshotFacts
  <2>6. PICK T \in Tabs : tab' = [tab EXCEPT ![p] = T] /\ Shown(T)
    BY <1>1, <2>2, LockedFacts
  <2>7. up /\ up' = up
    BY <1>1 DEF Live
  <2>9. \A i \in N : /\ i \in Jobs /\ i.page = p /\ Batched(g, i) /\ Framed(i)
                     /\ i.evWas.files = FilesOf(i.asked)
    BY <2>3, <2>4, <2>5
  <2>10. \A i, l \in N : i = l
    BY <2>3
  <2>11. /\ DOMAIN g.buf \subseteq DOMAIN disk.buf
         /\ \A e \in DOMAIN g.buf : g.buf[e] = disk.buf[e]
         /\ \A e \in DOMAIN disk.buf \ DOMAIN g.buf : PageOf[e] = p
    BY <2>1
  <2>12. Moves(p, none, g, N, T)
    BY <2>2, <2>6, <2>7, <2>8, <2>9, <2>10, <2>11 DEF Moves
  <2> QED BY <1>3, <2>1, <2>6, <2>12, CommitStep
<1>5. CASE disk' = d /\ jobs' = jobs /\ \E T \in Tabs : tab' = [tab EXCEPT ![p] = T]
  <2>1. PICK T \in Tabs : tab' = [tab EXCEPT ![p] = T]
    BY <1>5
  <2>2. tab' \in [Pages -> Tabs] /\ \A q \in Pages : q # p => tab'[q] = tab[q]
    BY <2>1, BaseFacts
  <2>3. \A j \in jobs : Shown(tab'[j.page])
    BY <1>2, <2>2, BaseFacts, JobFields
  <2>4. up /\ up' = up /\ up' \in BOOLEAN
    BY <1>1, BaseFacts DEF Live
  <2> QED BY <1>1, <1>3, <1>5, <2>2, <2>3, <2>4, SameBuffer
<1> QED BY <1>1, <1>4, <1>5

LEMMA FixBase ==
  ASSUME Base, NEW p \in Pages, onPendingKeepFixingClick(p) PROVE Base'
<1>1. /\ Live(p) /\ tab[p].buttons /\ UNCHANGED <<up, tombs, agent>>
      /\ \/ /\ UNCHANGED <<disk, jobs, kept>>
            /\ \E T \in Tabs : tab' = [tab EXCEPT ![p] = T] /\ T.sse = tab[p].sse
         \/ \E j \in Jobs : \E out : /\ j.page = p /\ Framed(j) /\ Batched(disk, j)
                                     /\ Outcome(disk, j, out) /\ Went(j, {}, out)
  BY FixFacts DEF Fixes
<1>2. \A j \in jobs : j.page # p
  BY <1>1, NoCommit
<1>3. CASE UNCHANGED <<disk, jobs, kept>> /\ \E T \in Tabs : tab' = [tab EXCEPT ![p] = T]
  <2>1. PICK T \in Tabs : tab' = [tab EXCEPT ![p] = T]
    BY <1>3
  <2>2. tab' \in [Pages -> Tabs] /\ \A q \in Pages : q # p => tab'[q] = tab[q]
    BY <2>1, BaseFacts
  <2>3. \A j \in jobs : Shown(tab'[j.page])
    BY <1>2, <2>2, BaseFacts, JobFields
  <2>4. up /\ up' = up /\ up' \in BOOLEAN
    BY <1>1, BaseFacts DEF Live
  <2>5. Types'
    BY <1>1, <1>3, TypesUnchanged
  <2> QED BY <1>3, <2>2, <2>3, <2>4, <2>5, SameBuffer, BaseFacts
<1>4. CASE \E j \in Jobs : \E out : /\ j.page = p /\ Framed(j) /\ Batched(disk, j)
                                    /\ Outcome(disk, j, out) /\ Went(j, {}, out)
  <2>0. PICK j \in Jobs : \E out : /\ j.page = p /\ Framed(j) /\ Batched(disk, j)
                                   /\ Outcome(disk, j, out) /\ Went(j, {}, out)
    BY <1>4
  <2>1. PICK out : /\ j.page = p /\ Framed(j) /\ Batched(disk, j)
                   /\ Outcome(disk, j, out) /\ Went(j, {}, out)
    BY <2>0
  <2>2. up /\ up' = up
    BY <1>1 DEF Live
  <2>3. \A o \in jobs \ {} : o.page # j.page
    BY <1>2, <2>1
  <2>4. /\ tombs' \subseteq [ev : Events, was : Snapshots]
        /\ agent' \in [Agents -> {NoWork} \cup Work]
    BY <1>1, BaseFacts
  <2> QED BY <2>1, <2>2, <2>3, <2>4, WentBase
<1> QED BY <1>1, <1>3, <1>4

LEMMA RollbackBase ==
  ASSUME Base, NEW p \in Pages, onPendingRollbackClick(p) PROVE Base'
<1> DEFINE d == rollbackTransaction(disk, {p})
           b == Staged(disk, p) # {}
           t == [tab[p] EXCEPT !.stored = FALSE]
           T == updatePendingCounter(t, b)
<1>1. disk \in Disks /\ tab[p] \in Tabs /\ {p} \in SUBSET Pages
  BY BaseFacts
<1>2. d \in Disks /\ d.buf = disk.buf
  BY <1>1, RollbackFacts
<1>3. t \in Tabs /\ b \in BOOLEAN
  BY <1>1 DEF Tabs
<1>4. /\ Live(p) /\ tab[p].buttons /\ disk' = d /\ tab' = [tab EXCEPT ![p] = T]
      /\ UNCHANGED <<up, jobs, tombs, agent, kept>>
  BY DEF onPendingRollbackClick
<1> HIDE DEF d, t, b
<1>5. T \in Tabs
  BY <1>3, DockFacts
<1> HIDE DEF T
<1>6. tab' \in [Pages -> Tabs] /\ \A q \in Pages : q # p => tab'[q] = tab[q]
  BY <1>4, <1>5, BaseFacts
<1>7. \A j \in jobs : Shown(tab'[j.page])
  BY <1>4, <1>6, BaseFacts, NoCommit, JobFields
<1>8. up /\ up' = up /\ up' \in BOOLEAN
  BY <1>4, BaseFacts DEF Live
<1> QED BY <1>2, <1>4, <1>6, <1>7, <1>8, SameBuffer, TypesUnchanged

LEMMA TrashBase ==
  ASSUME Base, NEW p \in Pages, onPendingTrashClick(p) PROVE Base'
<1> DEFINE d == rollbackTransaction(disk, {p})
           S == Staged(d, p)
           g == Unstaged(d, S)
           T == hidePendingApplyDock(tab[p])
           none == {}
<1>1. disk \in Disks /\ tab[p] \in Tabs /\ {p} \in SUBSET Pages
  BY BaseFacts
<1>2. d \in Disks /\ d.buf = disk.buf
  BY <1>1, RollbackFacts
<1>3. /\ Live(p) /\ ~tab[p].locked /\ disk' = g /\ tab' = [tab EXCEPT ![p] = T]
      /\ UNCHANGED <<up, jobs, tombs, agent, kept>>
  BY DEF onPendingTrashClick
<1>4. T \in Tabs
  BY <1>1, DockFacts
<1>5. \A e \in S : PageOf[e] = p
  BY DEF Staged
<1> HIDE DEF d, S, T
<1>6. /\ g \in Disks /\ DOMAIN g.buf = DOMAIN d.buf \ S
      /\ \A e \in DOMAIN d.buf \ S : g.buf[e] = d.buf[e]
  BY <1>2, UnstagedFacts
<1> HIDE DEF g
<1>7. \A j \in jobs \ none : j.page # p
  BY <1>3, NoCommit
<1>8. up /\ up' = up /\ Types'
  BY <1>3, TypesUnchanged DEF Live
<1>9. jobs' = (jobs \ none) \cup none /\ none = {}
  BY <1>3
<1> HIDE DEF none
<1>10. /\ DOMAIN g.buf \subseteq DOMAIN disk.buf
       /\ \A e \in DOMAIN g.buf : g.buf[e] = disk.buf[e]
       /\ \A e \in DOMAIN disk.buf \ DOMAIN g.buf : PageOf[e] = p
  BY <1>2, <1>5, <1>6
<1>11. /\ \A k, l \in none : k = l
       /\ none # {} => Shown(T)
       /\ \A k \in none : /\ k \in Jobs /\ k.page = p /\ Batched(g, k) /\ Framed(k)
                          /\ k.evWas.files = FilesOf(k.asked)
  BY <1>9
<1>12. Moves(p, none, g, none, T)
  BY <1>3, <1>7, <1>8, <1>9, <1>10, <1>11 DEF Moves
<1> QED BY <1>4, <1>6, <1>8, <1>12, CommitStep

(* The dock of one page changes, and no other variable. *)
LEMMA DockStep ==
  ASSUME Base, NEW p \in Pages, NEW T \in Tabs, tab' = [tab EXCEPT ![p] = T],
         UNCHANGED <<disk, up, jobs, tombs, agent, kept>>,
         \A j \in jobs : j.page = p => Shown(T),
         ~up => T.sse = "dead"
  PROVE  Base'
<1>1. tab' \in [Pages -> Tabs] /\ tab'[p] = T /\ \A q \in Pages : q # p => tab'[q] = tab[q]
  BY BaseFacts
<1>2. \A j \in jobs : Shown(tab'[j.page])
  BY <1>1, BaseFacts, JobFields
<1>3. ~up' => \A q \in Pages : tab'[q].sse = "dead"
  BY <1>1, BaseFacts
<1> QED BY <1>1, <1>2, <1>3, BaseFacts, SameBuffer, TypesUnchanged

LEMMA ReloadBase ==
  ASSUME Base, NEW p \in Pages, Reload(p) PROVE Base'
<1> DEFINE b == Staged(disk, p) # {}
           t == [FreshTab EXCEPT !.stored = @ \/ (tab[p].stored /\ Live(p))]
           T == updatePendingCounter(t, b)
<1>1. up /\ tab' = [tab EXCEPT ![p] = T] /\ UNCHANGED <<disk, up, jobs, tombs, agent, kept>>
  BY DEF Reload
<1>2. t \in Tabs /\ b \in BOOLEAN /\ t.sse = "on" /\ t.stored = (tab[p].stored /\ Live(p))
  BY BaseFacts DEF FreshTab, Tabs, Live
<1>3. ASSUME NEW j \in jobs, j.page = p PROVE Shown(T)
  <2>1. b /\ t.stored
    BY <1>1, <1>2, <1>3, BaseFacts DEF Batched, Shown, Live
  <2>2. T = setPendingApplyLoading([t EXCEPT !.shown = TRUE], TRUE)
    BY <2>1 DEF updatePendingCounter
  <2>3. [t EXCEPT !.shown = TRUE] \in Tabs /\ [t EXCEPT !.shown = TRUE].sse = "on"
    BY <1>2 DEF Tabs
  <2> QED BY <2>2, <2>3 DEF setPendingApplyLoading, Tabs, Shown
<1> HIDE DEF b, t
<1>4. T \in Tabs
  BY <1>2, DockFacts
<1> HIDE DEF T
<1> QED BY <1>1, <1>3, <1>4, DockStep

LEMMA ExpiresBase ==
  ASSUME Base, NEW p \in Pages, StoredExpires(p) PROVE Base'
<1> DEFINE T == [tab[p] EXCEPT !.stored = FALSE]
<1>1. tab[p] \in Tabs
  BY BaseFacts
<1>2. T \in Tabs /\ T.sse = tab[p].sse
  BY <1>1 DEF Tabs
<1>3. /\ tab' = [tab EXCEPT ![p] = T] /\ UNCHANGED <<disk, up, jobs, tombs, agent, kept>>
      /\ \A j \in jobs : j.page # p
  BY DEF StoredExpires
<1> HIDE DEF T
<1> QED BY <1>2, <1>3, BaseFacts, DockStep

LEMMA ConnectionBase ==
  ASSUME Base, NEW p \in Pages, Cut(p) \/ Reconnect(p) PROVE Base'
<1>1. tab[p] \in Tabs
  BY BaseFacts
<1>2. ASSUME NEW c \in {"on", "cut"}, tab[p].sse # "dead", tab' = [tab EXCEPT ![p].sse = c],
             UNCHANGED <<disk, up, jobs, tombs, agent, kept>>
      PROVE  Base'
  <2> DEFINE T == [tab[p] EXCEPT !.sse = c]
  <2>1. T \in Tabs /\ (Shown(tab[p]) => Shown(T))
    BY <1>1 DEF Tabs, Shown
  <2>2. tab' = [tab EXCEPT ![p] = T]
    BY <1>2
  <2> HIDE DEF T
  <2> QED BY <1>2, <2>1, <2>2, BaseFacts, DockStep
<1> QED BY <1>2 DEF Cut, Reconnect

(* Actions of an agent. *)

LEMMA EvidenceTypes ==
  ASSUME NEW j \in Jobs, Framed(j)
  PROVE  [e \in j.asked |-> j.batch[e]] \in Texts
<1>1. j.batch \in Texts /\ DOMAIN j.batch \in SUBSET Edits /\ j.asked \in SUBSET DOMAIN j.batch
  BY JobFields, TextsFacts DEF Framed
<1>2. [e \in j.asked |-> j.batch[e]] \in [j.asked -> Versions] /\ j.asked \in SUBSET Edits
  BY <1>1, TextsFacts
<1> QED BY <1>2 DEF Texts

LEMMA NoEvent == NoWork.ev = 0 /\ 0 \notin Events
<1>1. Cardinality(Pages) \in Nat /\ Cardinality(Agents) \in Nat
  <2>1. Agents \in SUBSET (Pages \cup Agents) /\ Pages \in SUBSET (Pages \cup Agents)
    OBVIOUS
  <2> QED BY <2>1, BoundsAssumption, FS_Subset, FS_CardinalityType
<1>2. \A i \in Events : i >= 1
  BY <1>1 DEF Events
<1> QED BY <1>2 DEF NoWork

LEMMA WorkFacts ==
  ASSUME Base, NEW a \in Agents
  PROVE  /\ NoWork \notin Work
         /\ agent[a] # NoWork =>
              /\ agent[a] \in Work /\ agent[a].ev \in Events /\ agent[a].batch \in Texts
              /\ agent[a].wrote \in BOOLEAN /\ agent[a].late \in BOOLEAN
BY NoEvent, BaseFacts DEF Work, NoWork

LEMMA TakeBase ==
  ASSUME Base, NEW a \in Agents, Take(a) PROVE Base'
<1>1. PICK j \in jobs :
        agent' = [agent EXCEPT ![a] = [ev |-> j.ev, batch |-> [e \in j.asked |-> j.batch[e]],
                                       wrote |-> FALSE, late |-> FALSE]]
  BY DEF Take
<1>2. [ev |-> j.ev, batch |-> [e \in j.asked |-> j.batch[e]],
       wrote |-> FALSE, late |-> FALSE] \in Work
  BY BaseFacts, JobFields, EvidenceTypes DEF Work
<1>3. agent' \in [Agents -> {NoWork} \cup Work]
  BY <1>1, <1>2, BaseFacts
<1>4. UNCHANGED <<disk, up, jobs, tombs, tab, kept>> /\ up
  BY DEF Take
<1> QED BY <1>3, <1>4, BaseFacts, SameBuffer DEF Types

LEMMA SetBackTypes ==
  ASSUME Base, NEW a \in Agents, disk' \in Disks, SetBack(a)
  PROVE  /\ kept' \in [Edits -> Versions]
         /\ \A e \in Edits : kept'[e] =
              IF agent[a].late /\ disk'.text[e] < kept[e] THEN disk'.text[e] ELSE kept[e]
<1>1. disk'.text \in [Edits -> Versions]
  BY DEF Disks
<1> QED BY <1>1, BaseFacts DEF SetBack

(* What is written for the edits of a batch is what it says. *)
LEMMA WriteFacts ==
  ASSUME Base, NEW a \in Agents, Write(a)
  PROVE  /\ agent[a] \in Work /\ ~agent[a].wrote
         /\ agent' = [agent EXCEPT ![a] = [agent[a] EXCEPT !.wrote = TRUE]]
         /\ [agent[a] EXCEPT !.wrote = TRUE] \in Work
         /\ disk' \in Disks /\ disk'.buf = disk.buf /\ disk'.txn = disk.txn
         /\ UNCHANGED <<up, jobs, tombs, tab>> /\ SetBack(a)
         /\ \A e \in Edits : \/ disk'.text[e] = disk.text[e]
                             \/ /\ e \in DOMAIN agent[a].batch
                                /\ disk'.text[e] = agent[a].batch[e]
<1> DEFINE batch == agent[a].batch
<1>1. disk \in Disks /\ agent[a] \in Work /\ batch \in Texts /\ ~agent[a].wrote
  BY BaseFacts, WorkFacts DEF Write
<1>2. PICK W \in SUBSET DOMAIN batch, B \in SUBSET FilesOf(DOMAIN batch) :
        disk' = [disk EXCEPT !.text = [e \in Edits |-> IF e \in W THEN batch[e] ELSE @[e]],
                             !.broken = (@ \ FilesOf(DOMAIN batch)) \cup B]
  BY DEF Write
<1> DEFINE X == [e \in Edits |-> IF e \in W THEN batch[e] ELSE disk.text[e]]
           Y == (disk.broken \ FilesOf(DOMAIN batch)) \cup B
<1>3. X \in [Edits -> Versions]
  BY <1>1, DiskFields, TextsFacts
<1>4. Y \in SUBSET Files
  BY <1>1, DiskFields, TextsFacts, FilesOfFacts
<1>5. \A e \in Edits : X[e] = disk.text[e] \/ (e \in DOMAIN batch /\ X[e] = batch[e])
  OBVIOUS
<1>6. disk' = [disk EXCEPT !.text = X, !.broken = Y]
  BY <1>1, <1>2 DEF Disks
<1> HIDE DEF X, Y
<1>7. /\ disk' \in Disks /\ disk'.buf = disk.buf /\ disk'.txn = disk.txn /\ disk'.text = X
  BY <1>1, <1>3, <1>4, <1>6 DEF Disks
<1>8. [agent[a] EXCEPT !.wrote = TRUE] \in Work
  BY <1>1 DEF Work
<1>9. agent' = [agent EXCEPT ![a] = [agent[a] EXCEPT !.wrote = TRUE]]
  BY DEF Write
<1>10. UNCHANGED <<up, jobs, tombs, tab>> /\ SetBack(a)
  BY DEF Write
<1> QED BY <1>1, <1>5, <1>7, <1>8, <1>9, <1>10

LEMMA WriteBase ==
  ASSUME Base, NEW a \in Agents, Write(a) PROVE Base'
<1> DEFINE w == [agent[a] EXCEPT !.wrote = TRUE]
<1>1. /\ w \in Work /\ agent' = [agent EXCEPT ![a] = w]
      /\ disk' \in Disks /\ disk'.buf = disk.buf
      /\ UNCHANGED <<up, jobs, tombs, tab>> /\ SetBack(a)
  BY WriteFacts
<1> HIDE DEF w
<1>2. Types'
  BY <1>1, BaseFacts, SetBackTypes DEF Types
<1> QED BY <1>1, <1>2, BaseFacts, SameBuffer

(* A late reply, if anything, writes back what its event's files were. *)
LEMMA LateFacts ==
  ASSUME Base, NEW a \in Agents, LateReply(a)
  PROVE  /\ disk' \in Disks /\ disk'.buf = disk.buf /\ disk'.txn = disk.txn
         /\ tombs' = tombs \ Forgotten(a) /\ UNCHANGED <<jobs, tab>> /\ SetBack(a)
         /\ \A j \in jobs : j.ev # agent[a].ev
         /\ \/ disk' = disk /\ Forgotten(a) = {}
            \/ \E t \in Forgotten(a) : \A e \in Edits :
                 disk'.text[e] = IF FileOf[e] \in t.was.files THEN t.was.text[e] ELSE disk.text[e]
<1>1. \A t \in Forgotten(a) : t.was \in Snapshots
  BY BaseFacts DEF Forgotten
<1>2. CASE Forgotten(a) = {} /\ disk' = disk
  BY <1>2, BaseFacts DEF LateReply
<1>3. ASSUME NEW t \in Forgotten(a), disk' = Restored(disk, t.was)
      PROVE  /\ disk' \in Disks /\ disk'.buf = disk.buf /\ disk'.txn = disk.txn
             /\ \A e \in Edits : disk'.text[e] =
                  IF FileOf[e] \in t.was.files THEN t.was.text[e] ELSE disk.text[e]
  BY <1>1, <1>3, BaseFacts, RestoredFacts
<1> QED BY <1>2, <1>3 DEF LateReply

LEMMA ReplyBase ==
  ASSUME Base, NEW a \in Agents, handlePollPost(a) PROVE Base'
<1>1. /\ up /\ up' = up /\ agent' = [agent EXCEPT ![a] = NoWork]
      /\ \/ /\ UNCHANGED tombs
            /\ \E j \in jobs : \E r \in Results(j.asked) :
                 GoesOn(j.page, tab[j.page], {j}, Answered(disk, j, r))
         \/ LateReply(a)
  BY DEF handlePollPost
<1>2. agent' \in [Agents -> {NoWork} \cup Work] /\ up' \in BOOLEAN
  BY <1>1, BaseFacts
<1>3. ASSUME NEW j \in jobs, NEW r \in Results(j.asked), UNCHANGED tombs,
             GoesOn(j.page, tab[j.page], {j}, Answered(disk, j, r))
      PROVE  Base'
  <2> DEFINE out == Answered(disk, j, r)
  <2>1. Outcome(disk, j, out) /\ Went(j, {j}, out)
    BY <1>3, AnswerFacts
  <2> HIDE DEF out
  <2>2. j \in Jobs /\ Framed(j) /\ Batched(disk, j) /\ \A o \in jobs \ {j} : o.page # j.page
    BY BaseFacts DEF OnePerPage
  <2>3. tombs' \subseteq [ev : Events, was : Snapshots]
    BY <1>3, BaseFacts
  <2> QED BY <1>1, <1>2, <2>1, <2>2, <2>3, WentBase
<1>4. CASE LateReply(a)
  <2>1. /\ disk' \in Disks /\ disk'.buf = disk.buf
        /\ tombs' = tombs \ Forgotten(a) /\ UNCHANGED <<jobs, tab>> /\ SetBack(a)
    BY <1>4, LateFacts
  <2>2. Types'
    BY <1>2, <2>1, BaseFacts, SetBackTypes DEF Types
  <2> QED BY <1>1, <1>2, <2>1, <2>2, BaseFacts, SameBuffer
<1> QED BY <1>1, <1>3, <1>4

LEMMA EndsBase ==
  ASSUME Base, NEW a \in Agents, AgentEnds(a) PROVE Base'
<1>1. /\ agent' = [agent EXCEPT ![a] = NoWork] /\ tombs' = tombs \ Forgotten(a)
      /\ UNCHANGED <<disk, up, jobs, tab, kept>>
  BY DEF AgentEnds
<1>2. Types'
  BY <1>1, BaseFacts DEF Types
<1> QED BY <1>1, <1>2, BaseFacts, SameBuffer

(* Actions of the server. *)

(* Who holds what does not change when an event times out. *)
LEMMA LateFields ==
  ASSUME Base, NEW j \in jobs, FallsLate(j)
  PROVE  /\ agent' \in [Agents -> {NoWork} \cup Work]
         /\ \A a \in Agents :
              /\ agent'[a] = NoWork <=> agent[a] = NoWork
              /\ agent'[a].ev = agent[a].ev /\ agent'[a].batch = agent[a].batch
              /\ agent[a] # NoWork =>
                   /\ agent'[a].wrote = agent[a].wrote
                   /\ agent'[a].late <=> (agent[a].late \/ agent[a].ev = j.ev)
<1> DEFINE f(a) == IF agent[a].ev = j.ev THEN [agent[a] EXCEPT !.late = TRUE] ELSE agent[a]
<1>1. NoWork.ev # j.ev
  BY BaseFacts, JobFields, NoEvent
<1>2. ASSUME NEW a \in Agents
      PROVE  /\ f(a) \in {NoWork} \cup Work /\ (f(a) = NoWork <=> agent[a] = NoWork)
             /\ f(a).ev = agent[a].ev /\ f(a).batch = agent[a].batch
             /\ agent[a] # NoWork =>
                  /\ f(a).wrote = agent[a].wrote
                  /\ f(a).late <=> (agent[a].late \/ agent[a].ev = j.ev)
  <2>1. CASE agent[a] = NoWork
    BY <1>1, <2>1
  <2>2. CASE agent[a] # NoWork
    <3>1. agent[a] \in Work /\ NoWork \notin Work /\ agent[a].late \in BOOLEAN
      BY <2>2, WorkFacts
    <3>2. CASE agent[a].ev = j.ev
      <4>1. f(a) = [agent[a] EXCEPT !.late = TRUE]
        BY <3>2
      <4> HIDE DEF f
      <4>2. /\ f(a) \in Work /\ f(a).ev = agent[a].ev /\ f(a).batch = agent[a].batch
            /\ f(a).wrote = agent[a].wrote /\ f(a).late
        BY <3>1, <4>1 DEF Work
      <4> QED BY <2>2, <3>1, <3>2, <4>2
    <3>3. CASE agent[a].ev # j.ev
      BY <2>2, <3>1, <3>3
    <3> QED BY <3>2, <3>3
  <2> QED BY <2>1, <2>2
<1>3. agent' = [a \in Agents |-> f(a)]
  BY DEF FallsLate
<1> HIDE DEF f
<1> QED BY <1>2, <1>3

LEMMA TimeoutBase ==
  ASSUME Base, NEW p \in Pages, Timeout(p) PROVE Base'
<1>1. /\ up /\ UNCHANGED up
      /\ \E j \in jobs :
           /\ tombs' = IF j.ev \in Held THEN tombs \cup {[ev |-> j.ev, was |-> j.evWas]} ELSE tombs
           /\ FallsLate(j)
           /\ Outcome(disk, j, Thrown(disk, j)) /\ Went(j, {j}, Thrown(disk, j))
  BY TimeoutFacts
<1>2. PICK j \in jobs :
        /\ tombs' = IF j.ev \in Held THEN tombs \cup {[ev |-> j.ev, was |-> j.evWas]} ELSE tombs
        /\ FallsLate(j)
        /\ Outcome(disk, j, Thrown(disk, j)) /\ Went(j, {j}, Thrown(disk, j))
  BY <1>1
<1>3. j \in Jobs /\ Framed(j) /\ Batched(disk, j) /\ \A o \in jobs \ {j} : o.page # j.page
  BY BaseFacts DEF OnePerPage
<1>4. tombs' \subseteq [ev : Events, was : Snapshots]
  BY <1>2, <1>3, BaseFacts, JobFields
<1>5. agent' \in [Agents -> {NoWork} \cup Work] /\ up' = up
  BY <1>1, <1>2, LateFields
<1> QED BY <1>1, <1>2, <1>3, <1>4, <1>5, WentBase

LEMMA DiedBase ==
  ASSUME Base, Died, disk' \in Disks, IsFiniteSet(DOMAIN disk'.buf),
         agent' \in [Agents -> {NoWork} \cup Work], kept' \in [Edits -> Versions]
  PROVE  Base' /\ \A p \in Pages : tab'[p].sse = "dead"
<1>1. /\ up' = FALSE /\ jobs' = {} /\ tombs' = {}
      /\ tab' = [p \in Pages |-> [tab[p] EXCEPT !.sse = "dead"]]
  BY DEF Died
<1>2. \A p \in Pages : /\ [tab[p] EXCEPT !.sse = "dead"] \in Tabs
                       /\ [tab[p] EXCEPT !.sse = "dead"].sse = "dead"
  <2> TAKE p \in Pages
  <2>1. tab[p] \in Tabs
    BY BaseFacts
  <2> QED BY <2>1 DEF Tabs
<1>3. tab' \in [Pages -> Tabs] /\ \A p \in Pages : tab'[p].sse = "dead"
  BY <1>1, <1>2
<1> QED BY <1>1, <1>3, BaseFacts DEF Base, TypeOK, ApplyInv

LEMMA CrashBase ==
  ASSUME Base, Crash PROVE Base'
<1>1. Died /\ UNCHANGED <<disk, agent, kept>>
  BY DEF Crash
<1> QED BY <1>1, BaseFacts, DiedBase

(* The server dies when a commit has been undone or applied, before it clears   *)
(* the transaction: of a commit that was answered or timed out, or that Keep    *)
(* fixing starts and ends at once.                                              *)
EndsDead(j, out) ==
  /\ Framed(j) /\ Batched(disk, j) /\ DiesIn(out) /\ j.txn \in Pages
  /\ Undone(disk, j) = out \/ \E S : Applies(disk, j, S, out)

LEMMA DeadKinds ==
  ASSUME Base, NEW j \in Jobs, Framed(j), Batched(disk, j),
         NEW out, Outcome(disk, j, out), DiesIn(out)
  PROVE  EndsDead(j, out)
<1>1. out.clears # NoPage /\ j.txn \in Pages
  BY JobFields DEF DiesIn
<1> QED BY <1>1 DEF EndsDead, Outcome, Decides, GoesOnAs

LEMMA AtEndFacts ==
  ASSUME Base, CrashAtEnd
  PROVE  \/ \E j \in jobs : /\ EndsDead(j, Thrown(disk, j)) /\ UNCHANGED agent
                           /\ j.attempt = 0 /\ ThrownFirst(disk, j, Thrown(disk, j))
         \/ \E a \in Agents : \E j \in jobs : \E out :
              EndsDead(j, out) /\ agent' = [agent EXCEPT ![a] = NoWork]
         \/ \E p \in Pages : \E j \in Jobs : \E out :
              /\ EndsDead(j, out) /\ UNCHANGED agent /\ Fixes(j, p) /\ MayKeepFixing(p)
<1>1. CASE \E j \in jobs : DiesIn(Thrown(disk, j)) /\ UNCHANGED agent
  <2>1. PICK j \in jobs : DiesIn(Thrown(disk, j)) /\ UNCHANGED agent
    BY <1>1
  <2> DEFINE out == Thrown(disk, j)
  <2>2. disk \in Disks /\ j \in Jobs /\ Free /\ Framed(j) /\ DOMAIN j.batch # {}
        /\ Batched(disk, j)
    BY BaseFacts
  <2>3. /\ j.attempt = 0 => ThrownFirst(disk, j, out)
        /\ j.attempt # 0 => Decides(disk, out) \/ Repairs(disk, j, out)
    BY <2>2, ThrownOutcome
  <2> HIDE DEF out
  <2>4. Outcome(disk, j, out)
    BY <2>3, OutcomeKinds
  <2>5. EndsDead(j, out)
    BY <2>1, <2>2, <2>4, DeadKinds DEF out
  <2>6. out.clears # NoPage
    BY <2>1 DEF DiesIn, out
  <2>7. j.attempt = 0 /\ ThrownFirst(disk, j, out)
    BY <2>3, <2>6 DEF Decides, Repairs, GoesOnAs
  <2> QED BY <2>1, <2>5, <2>7 DEF out
<1>2. ASSUME NEW a \in Agents, agent' = [agent EXCEPT ![a] = NoWork],
             NEW j \in jobs, NEW r \in Results(j.asked), DiesIn(Answered(disk, j, r))
      PROVE  EndsDead(j, Answered(disk, j, r))
  <2> DEFINE out == Answered(disk, j, r)
  <2>1. disk \in Disks /\ j \in Jobs /\ Free /\ Framed(j) /\ DOMAIN j.batch # {}
        /\ Batched(disk, j)
    BY BaseFacts
  <2>2. /\ j.attempt = 0 => FirstOutcome(disk, j, out)
        /\ j.attempt # 0 => RepairOutcome(disk, j, out)
    BY <2>1, AnsweredOutcome
  <2> HIDE DEF out
  <2>3. Outcome(disk, j, out)
    BY <2>2, OutcomeKinds
  <2> QED BY <1>2, <2>1, <2>3, DeadKinds DEF out
<1>3. ASSUME NEW p \in Pages, MayKeepFixing(p), disk.txn # NoTxn, DiesIn(RepairOnly(p))
      PROVE  \E j \in Jobs : EndsDead(j, RepairOnly(p)) /\ Fixes(j, p)
  <2> DEFINE out == RepairOnly(p)
  <2>1. \/ out = [disk |-> disk, clears |-> NoPage, next |-> {}, told |-> "commit_done"]
        \/ \E j \in Jobs : Fixes(j, p) /\ Outcome(disk, j, out)
    BY <1>3, RepairOnlyFacts
  <2> HIDE DEF out
  <2>2. out.clears # NoPage
    BY <1>3 DEF DiesIn, out
  <2>3. PICK j \in Jobs : Fixes(j, p) /\ Outcome(disk, j, out)
    BY <2>1, <2>2
  <2>4. EndsDead(j, out)
    BY <1>3, <2>3, DeadKinds DEF Fixes, out
  <2> QED BY <2>3, <2>4 DEF out
<1>4. CASE \E p \in Pages : /\ MayKeepFixing(p) /\ disk.txn # NoTxn /\ DiesIn(RepairOnly(p))
                           /\ UNCHANGED agent
  BY <1>3, <1>4
<1>5. CASE \E a \in Agents : /\ agent' = [agent EXCEPT ![a] = NoWork]
                            /\ \E j \in jobs : \E r \in Results(j.asked) :
                                 DiesIn(Answered(disk, j, r))
  BY <1>2, <1>5
<1> QED BY <1>1, <1>4, <1>5 DEF CrashAtEnd

(* What is on disk then. *)
LEMMA DeadFacts ==
  ASSUME Base, NEW j \in Jobs, NEW out, EndsDead(j, out)
  PROVE  /\ Died /\ disk' \in Disks /\ IsFiniteSet(DOMAIN disk'.buf) /\ disk'.txn = disk.txn
         /\ kept' \in [Edits -> Versions]
         /\ kept' = IF SafeOnDisk(disk') THEN Kept(disk') ELSE kept
         /\ out = Undone(disk, j) =>
              /\ disk'.buf = disk.buf
              /\ \A e \in Edits : disk'.text[e] = IF FileOf[e] \in j.was.files
                                                    THEN j.was.text[e] ELSE disk.text[e]
         /\ \A S : Applies(disk, j, S, out) =>
              /\ disk'.text = disk.text /\ DOMAIN disk'.buf = DOMAIN disk.buf \ S
              /\ \A e \in DOMAIN disk.buf \ S : disk'.buf[e] = disk.buf[e]
<1>1. /\ disk \in Disks /\ Died /\ disk' = out.disk
      /\ kept' = IF SafeOnDisk(disk') THEN Kept(disk') ELSE kept
  BY BaseFacts DEF EndsDead, DiesIn
<1>2. ASSUME out = Undone(disk, j)
      PROVE  /\ disk' \in Disks /\ disk'.buf = disk.buf /\ disk'.txn = disk.txn
             /\ IsFiniteSet(DOMAIN disk'.buf) /\ kept' \in [Edits -> Versions]
             /\ \A e \in Edits : disk'.text[e] = IF FileOf[e] \in j.was.files
                                                   THEN j.was.text[e] ELSE disk.text[e]
  <2>1. /\ disk' \in Disks /\ disk'.buf = disk.buf /\ disk'.txn = disk.txn
        /\ \A e \in Edits : disk'.text[e] = IF FileOf[e] \in j.was.files
                                              THEN j.was.text[e] ELSE disk.text[e]
    BY <1>1, <1>2, UndoneFacts
  <2> QED BY <1>1, <2>1, BaseFacts, KeptTypes
<1>3. ASSUME NEW S, Applies(disk, j, S, out)
      PROVE  /\ disk' \in Disks /\ disk'.txn = disk.txn /\ IsFiniteSet(DOMAIN disk'.buf)
             /\ kept' \in [Edits -> Versions] /\ disk'.text = disk.text
             /\ DOMAIN disk'.buf = DOMAIN disk.buf \ S
             /\ \A e \in DOMAIN disk.buf \ S : disk'.buf[e] = disk.buf[e]
  <2>1. out = Applied(disk, j, S)
    BY <1>3 DEF Applies
  <2>2. /\ disk' \in Disks /\ disk'.text = disk.text /\ disk'.txn = disk.txn
        /\ DOMAIN disk'.buf = DOMAIN disk.buf \ S
        /\ \A e \in DOMAIN disk.buf \ S : disk'.buf[e] = disk.buf[e]
    BY <1>1, <2>1, AppliedFacts
  <2>3. IsFiniteSet(DOMAIN disk'.buf)
    BY <2>2, BaseFacts, FS_Subset
  <2> QED BY <1>1, <2>2, <2>3, BaseFacts, KeptTypes
<1> QED BY <1>1, <1>2, <1>3 DEF EndsDead

LEMMA AtEndBase ==
  ASSUME Base, CrashAtEnd PROVE Base'
<1>1. PICK j \in Jobs : \E out : EndsDead(j, out)
  BY AtEndFacts, BaseFacts
<1>2. PICK out : EndsDead(j, out)
  BY <1>1
<1>3. agent' \in [Agents -> {NoWork} \cup Work]
  BY AtEndFacts, BaseFacts
<1> QED BY <1>2, <1>3, DeadFacts, DiedBase

LEMMA StartBase ==
  ASSUME Base, Start PROVE Base'
<1>1. /\ up' = TRUE /\ disk' = rollbackTransaction(disk, Pages)
      /\ UNCHANGED <<jobs, tombs, agent, tab, kept>>
  BY DEF Start
<1>2. disk' \in Disks /\ disk'.buf = disk.buf
  BY <1>1, RollbackFacts, BaseFacts
<1> QED BY <1>1, <1>2, BaseFacts, SameBuffer, TypesUnchanged

LEMMA BaseStep ==
  ASSUME Base, [Next]_vars PROVE Base'
<1>1. CASE UNCHANGED vars
  BY <1>1 DEF vars, Base, TypeOK, ApplyInv
<1>2. CASE \E e \in Edits : applyEditing(e)
  BY <1>2, SaveBase
<1>3. CASE \E p \in Pages : \/ onPendingPillClick(p) \/ onPendingKeepFixingClick(p)
                            \/ onPendingRollbackClick(p) \/ onPendingTrashClick(p)
                            \/ Reload(p) \/ StoredExpires(p) \/ Cut(p) \/ Reconnect(p)
                            \/ Timeout(p)
  BY <1>3, ApplyBase, FixBase, RollbackBase, TrashBase, ReloadBase, ExpiresBase,
     ConnectionBase, TimeoutBase
<1>4. CASE \E a \in Agents : Take(a) \/ Write(a) \/ handlePollPost(a) \/ AgentEnds(a)
  BY <1>4, TakeBase, WriteBase, ReplyBase, EndsBase
<1>5. CASE Crash \/ CrashAtEnd \/ Start
  BY <1>5, CrashBase, AtEndBase, StartBase
<1> QED BY <1>1, <1>2, <1>3, <1>4, <1>5 DEF Next

LEMMA BaseInvariant == Spec => []Base
<1> QED BY InitBase, BaseStep, PTL DEF Spec

--------------------------------------------------------------------------------
(* A commit that ends in its first pass ends as a whole. *)

Whole(j, g) ==
  \A e \in DOMAIN j.batch :
    IF e \in DOMAIN g.buf THEN g.text[e] = j.batch[e] => j.was.text[e] = j.batch[e]
                          ELSE g.text[e] = j.batch[e]

LEMMA FirstWhole ==
  ASSUME Base, NEW j \in jobs, NEW out, FirstOutcome(disk, j, out), Went(j, {j}, out),
         \A k \in jobs' : k.page # j.page
  PROVE  Whole(j, disk')
<1>1. /\ disk \in Disks /\ j \in Jobs /\ Batched(disk, j) /\ Framed(j)
      /\ disk' = Closed(out) /\ out.next \subseteq jobs'
  BY BaseFacts DEF Went
<1>2. /\ DOMAIN j.batch \in SUBSET Edits /\ DOMAIN j.batch \subseteq DOMAIN disk.buf
      /\ \A e \in DOMAIN j.batch : FileOf[e] \in j.was.files
  BY <1>1, JobFields, TextsFacts, FilesOfFacts DEF Batched, Framed, Staged
<1>3. CASE out = Undone(disk, j)
  <2>1. /\ disk'.buf = disk.buf
        /\ \A e \in Edits : disk'.text[e] = IF FileOf[e] \in j.was.files
                                              THEN j.was.text[e] ELSE disk.text[e]
    BY <1>1, <1>3, UndoneFacts
  <2> QED BY <1>2, <2>1 DEF Whole
<1>4. ASSUME NEW S, Applies(disk, j, S, out), NoneLeft(disk, j, S) PROVE Whole(j, disk')
  <2>1. /\ S \subseteq DOMAIN j.batch /\ \A e \in S : disk.text[e] = j.batch[e]
        /\ out = Applied(disk, j, S)
    BY <1>4 DEF Applies
  <2>2. DOMAIN disk'.buf = DOMAIN disk.buf \ S /\ disk'.text = disk.text
    BY <1>1, <2>1, AppliedFacts
  <2> QED BY <1>2, <1>4, <2>1, <2>2 DEF Whole, NoneLeft
<1>5. ASSUME NEW k, GoesOnAs(disk, j, k, out) PROVE FALSE
  <2>1. k \in out.next /\ k.page = j.page
    BY <1>5 DEF GoesOnAs, SameCommit
  <2> QED BY <1>1, <2>1
<1> QED BY <1>3, <1>4, <1>5 DEF FirstOutcome, Repairs, Asks

(* A commit goes on through what is not a step of its own. *)
LEMMA CommitsStay ==
  ASSUME Base, [Next]_vars, up',
         \A a \in Agents : ~handlePollPost(a), \A p \in Pages : ~Timeout(p)
  PROVE  jobs \subseteq jobs'
<1>1. CASE UNCHANGED vars
  BY <1>1 DEF vars
<1>2. CASE \E e \in Edits : applyEditing(e)
  BY <1>2 DEF applyEditing
<1>3. ASSUME NEW p \in Pages, onPendingPillClick(p) PROVE jobs \subseteq jobs'
  BY <1>3, ApplyFacts
<1>4. ASSUME NEW p \in Pages, onPendingKeepFixingClick(p) PROVE jobs \subseteq jobs'
  <2>1. \/ UNCHANGED jobs
        \/ \E j \in Jobs : \E out : Went(j, {}, out)
    BY <1>4, FixFacts
  <2> QED BY <2>1 DEF Went
<1>5. CASE \E p \in Pages : \/ onPendingRollbackClick(p) \/ onPendingTrashClick(p)
                            \/ Reload(p) \/ StoredExpires(p) \/ Cut(p) \/ Reconnect(p)
  BY <1>5 DEF onPendingRollbackClick, onPendingTrashClick, Reload, StoredExpires, Cut, Reconnect
<1>6. CASE \E a \in Agents : Take(a) \/ Write(a) \/ AgentEnds(a)
  BY <1>6 DEF Take, Write, AgentEnds
<1>7. CASE Crash \/ CrashAtEnd \/ Start
  BY <1>7 DEF Crash, CrashAtEnd, DiesIn, Died, Start
<1> QED BY <1>1, <1>2, <1>3, <1>4, <1>5, <1>6, <1>7 DEF Next

LEMMA WholeStep ==
  ASSUME Base, [Next]_vars, NEW j \in jobs, up', j.attempt = 0, \A k \in jobs' : k.page # j.page
  PROVE  Whole(j, disk')
<1>1. ASSUME NEW i \in jobs, NEW out, Went(i, {i}, out),
             i.attempt = 0 => FirstOutcome(disk, i, out)
      PROVE  Whole(j, disk')
  <2>1. jobs \ {i} \subseteq jobs'
    BY <1>1 DEF Went
  <2>2. i = j
    BY <2>1
  <2> QED BY <1>1, <2>2, FirstWhole
<1>2. ASSUME NEW a \in Agents, handlePollPost(a) PROVE Whole(j, disk')
  <2>1. ~LateReply(a)
    BY DEF LateReply
  <2>2. PICK i \in jobs : \E r \in Results(i.asked) :
                             GoesOn(i.page, tab[i.page], {i}, Answered(disk, i, r))
    BY <1>2, <2>1 DEF handlePollPost
  <2>3. PICK r \in Results(i.asked) : GoesOn(i.page, tab[i.page], {i}, Answered(disk, i, r))
    BY <2>2
  <2> QED BY <1>1, <2>3, AnswerFacts
<1>3. ASSUME NEW p \in Pages, Timeout(p) PROVE Whole(j, disk')
  <2>1. PICK i \in jobs : /\ Went(i, {i}, Thrown(disk, i))
                          /\ i.attempt = 0 => ThrownFirst(disk, i, Thrown(disk, i))
    BY <1>3, TimeoutFacts
  <2>2. i.attempt = 0 => FirstOutcome(disk, i, Thrown(disk, i))
    BY <2>1 DEF ThrownFirst, FirstOutcome
  <2> QED BY <1>1, <2>1, <2>2
<1> QED BY <1>2, <1>3, CommitsStay

(* A commit that ends without a repair leaves every edit of its batch either    *)
(* applied and dropped from the buffer, or staged and not in the source unless  *)
(* it was there before, whatever the agents reported of what they wrote         *)
(* (live-commit-manual-edits.mjs).                                              *)
THEOREM CommitsAllOrNothing == Spec => AllOrNothing
<1>1. Base /\ [Next]_vars =>
        \A j \in jobs : (up' /\ j.attempt = 0 /\ \A k \in jobs' : k.page # j.page) =>
          \A e \in DOMAIN j.batch :
            IF e \in DOMAIN disk'.buf
              THEN disk'.text[e] = j.batch[e] => j.was.text[e] = j.batch[e]
              ELSE disk'.text[e] = j.batch[e]
  BY WholeStep DEF Whole
<1> QED BY <1>1, BaseInvariant, PTL DEF Spec, AllOrNothing

(* A page has one commit at a time, and while it runs the page is locked, also  *)
(* when it is loaded again (live-browser.js), on any number of pages.           *)
THEOREM OneApplyAtATime == Spec => []OneApply
<1>1. Base => OneApply
  BY DEF Base, ApplyInv, OneApply, Shown
<1> QED BY <1>1, BaseInvariant, PTL

--------------------------------------------------------------------------------
(* The one page there is: the transaction on disk is its own.  Several pages    *)
(* share one transaction file, and CrashSafe does not hold of them.             *)
LonePage == \A p, q \in Pages : p = q

LEMMA LoneFacts ==
  ASSUME LonePage, Base, NEW p \in Pages
  PROVE  /\ disk.txn = NoTxn \/ disk.txn.page = p
         /\ (\A j \in jobs : j.page # p) => jobs = {}
         /\ \A j \in jobs : j.page = p /\ jobs \ {j} = {}
<1>1. disk.txn = NoTxn \/ disk.txn.page \in Pages
  BY BaseFacts, DiskFields, TxnFacts
<1>2. \A j \in jobs : j.page \in Pages
  BY BaseFacts, JobFields
<1>3. \A j, k \in jobs : j = k
  BY <1>2, BaseFacts DEF LonePage, OnePerPage
<1> QED BY <1>1, <1>2, <1>3 DEF LonePage

LEMMA RolledBack ==
  ASSUME LonePage, Base, NEW P \in SUBSET Pages, P # {}
  PROVE  rollbackTransaction(disk, P).txn = NoTxn
<1>1. disk \in Disks
  BY BaseFacts
<1>2. PICK p \in P : TRUE
  OBVIOUS
<1>3. disk.txn = NoTxn \/ disk.txn.page \in P
  BY <1>2, LoneFacts
<1> QED BY <1>1, <1>3, RollbackFacts

(* What becomes of a commit that is the only one. *)
LEMMA WentTxn ==
  ASSUME LonePage, Base, TxnInv, NEW j \in Jobs, disk.txn # NoTxn, up,
         j.again \/ (disk.txn.ids = DOMAIN j.batch /\ disk.txn.was = j.was),
         NEW before, jobs \ before = {}, NEW out, Outcome(disk, j, out), Went(j, before, out)
  PROVE  TxnInv'
<1>1. disk \in Disks /\ disk' = Closed(out) /\ jobs' = out.next
  BY BaseFacts DEF Went
<1>2. disk.txn.page = j.txn
  BY JobFields, LoneFacts
<1>3. CASE out = Undone(disk, j)
  <2>1. disk'.txn = NoTxn /\ jobs' = {}
    BY <1>1, <1>2, <1>3, UndoneFacts
  <2> QED BY <2>1 DEF TxnInv
<1>4. CASE Decides(disk, out)
  <2>1. out.disk = disk /\ out.clears = NoPage /\ out.next = {}
    BY <1>4 DEF Decides
  <2>2. disk' = disk /\ jobs' = {}
    BY <1>1, <2>1, ClosedSame
  <2> QED BY <2>2 DEF TxnInv
<1>5. ASSUME NEW S, Applies(disk, j, S, out) PROVE TxnInv'
  <2>1. disk'.txn = NoTxn /\ jobs' = {}
    BY <1>1, <1>2, <1>5, AppliedFacts DEF Applies
  <2> QED BY <2>1 DEF TxnInv
<1>6. ASSUME NEW k, GoesOnAs(disk, j, k, out) PROVE TxnInv'
  <2>1. disk' = disk /\ jobs' = {k} /\ SameCommit(k, j)
    BY <1>1, <1>6, ClosedSame DEF GoesOnAs
  <2> QED BY <2>1 DEF TxnInv, SameCommit
<1> QED BY <1>3, <1>4, <1>5, <1>6 DEF Outcome

LEMMA ApplyTxn ==
  ASSUME LonePage, Base, NEW p \in Pages, onPendingPillClick(p) PROVE TxnInv'
<1> DEFINE d == rollbackTransaction(disk, {p})
<1>1. /\ ~tab[p].locked /\ d \in Disks /\ d.buf = disk.buf
      /\ \/ /\ Staged(d, p) # {} /\ disk' = Commit(d, p).disk
            /\ jobs' = jobs \cup Commit(d, p).next
         \/ disk' = d /\ jobs' = jobs
  BY ApplyFacts
<1>2. d.txn = NoTxn
  BY RolledBack
<1> HIDE DEF d
<1>3. jobs = {}
  BY <1>1, NoCommit, LoneFacts
<1>4. CASE Staged(d, p) # {} /\ disk' = Commit(d, p).disk /\ jobs' = jobs \cup Commit(d, p).next
  <2>1. /\ disk'.buf = d.buf
        /\ disk'.txn = [page |-> p, ids |-> Staged(d, p),
                        was |-> Snapshot(d, FilesOf(Staged(d, p)))]
        /\ \E k : Sent(d, p, k)
    BY <1>1, <1>4, CommitFacts
  <2>2. PICK k : Sent(d, p, k)
    BY <2>1
  <2>3. /\ jobs' = {k} /\ DOMAIN k.batch = Staged(d, p)
        /\ k.was = Snapshot(d, FilesOf(Staged(d, p)))
    BY <1>3, <1>4, <2>2 DEF Sent
  <2>4. disk'.txn.ids = Staged(d, p) /\ disk'.txn.was = Snapshot(d, FilesOf(Staged(d, p)))
        /\ disk'.txn.page = p
    BY <2>1
  <2>5. disk'.txn # NoTxn
    BY <2>4, TxnFacts
  <2>6. Staged(d, p) # {} /\ Staged(d, p) \subseteq DOMAIN disk'.buf
    BY <1>1, <1>4, <2>1, StagedFacts
  <2> QED BY <2>3, <2>4, <2>5, <2>6 DEF TxnInv
<1>5. CASE disk' = d /\ jobs' = jobs
  BY <1>2, <1>3, <1>5 DEF TxnInv
<1> QED BY <1>1, <1>4, <1>5

LEMMA FixTxn ==
  ASSUME LonePage, Base, TxnInv, NEW p \in Pages, onPendingKeepFixingClick(p) PROVE TxnInv'
<1>1. /\ tab[p].buttons /\ up /\ up' = up
      /\ \/ UNCHANGED <<disk, jobs>>
         \/ \E j \in Jobs : \E out : /\ disk.txn # NoTxn /\ j.again
                                     /\ Outcome(disk, j, out) /\ Went(j, {}, out)
  BY FixFacts DEF Fixes, Live
<1>2. CASE UNCHANGED <<disk, jobs>>
  BY <1>1, <1>2 DEF TxnInv
<1>3. ASSUME NEW j \in Jobs, NEW out, disk.txn # NoTxn, j.again,
             Outcome(disk, j, out), Went(j, {}, out)
      PROVE  TxnInv'
  <2>1. jobs \ {} = {}
    BY <1>1, NoCommit, LoneFacts
  <2> QED BY <1>1, <1>3, <2>1, WentTxn
<1> QED BY <1>1, <1>2, <1>3

LEMMA ReplyTxn ==
  ASSUME LonePage, Base, TxnInv, NEW a \in Agents, handlePollPost(a) PROVE TxnInv'
<1>1. ASSUME NEW j \in jobs, NEW r \in Results(j.asked),
             GoesOn(j.page, tab[j.page], {j}, Answered(disk, j, r))
      PROVE  TxnInv'
  <2> DEFINE out == Answered(disk, j, r)
  <2>1. Outcome(disk, j, out) /\ Went(j, {j}, out)
    BY <1>1, AnswerFacts
  <2> HIDE DEF out
  <2>2. j \in Jobs /\ disk.txn # NoTxn /\ jobs \ {j} = {}
        /\ (j.again \/ (disk.txn.ids = DOMAIN j.batch /\ disk.txn.was = j.was))
    BY BaseFacts, LoneFacts, JobFields DEF TxnInv
  <2> QED BY <2>1, <2>2, BaseFacts, WentTxn
<1>2. CASE LateReply(a)
  BY <1>2, LateFacts DEF TxnInv, handlePollPost
<1> QED BY <1>1, <1>2 DEF handlePollPost

LEMMA TimeoutTxn ==
  ASSUME LonePage, Base, TxnInv, NEW p \in Pages, Timeout(p) PROVE TxnInv'
<1>1. PICK j \in jobs : Outcome(disk, j, Thrown(disk, j)) /\ Went(j, {j}, Thrown(disk, j))
  BY TimeoutFacts
<1>2. j \in Jobs /\ disk.txn # NoTxn /\ jobs \ {j} = {}
      /\ (j.again \/ (disk.txn.ids = DOMAIN j.batch /\ disk.txn.was = j.was))
  BY BaseFacts, LoneFacts, JobFields DEF TxnInv
<1> QED BY <1>1, <1>2, BaseFacts, WentTxn

LEMMA TxnStep ==
  ASSUME LonePage, Base, TxnInv, [Next]_vars PROVE TxnInv'
<1>1. CASE UNCHANGED vars
  BY <1>1 DEF vars, TxnInv
<1>2. ASSUME NEW e \in Edits, applyEditing(e) PROVE TxnInv'
  <2> DEFINE new == (IF e \in DOMAIN disk.buf THEN disk.buf[e].new ELSE disk.text[e]) + 1
  <2>1. disk' = stageEntry(disk, e, new) /\ UNCHANGED <<jobs, up>>
    BY <1>2 DEF applyEditing
  <2>2. new \in Versions
    <3>1. \E v \in Versions : new = v + 1 /\ v < MaxVersion
      BY <1>2, BaseFacts, DiskFields, BufferFacts DEF applyEditing
    <3> QED BY <3>1, BoundsAssumption DEF Versions
  <2> HIDE DEF new
  <2>3. disk'.txn = disk.txn /\ DOMAIN disk.buf \subseteq DOMAIN disk'.buf
    BY <2>1, <2>2, BaseFacts, StageFacts
  <2> QED BY <2>1, <2>3 DEF TxnInv
<1>3. ASSUME NEW p \in Pages, onPendingRollbackClick(p) PROVE TxnInv'
  <2>1. tab[p].buttons /\ disk' = rollbackTransaction(disk, {p}) /\ UNCHANGED jobs
    BY <1>3 DEF onPendingRollbackClick
  <2>2. jobs = {} /\ disk'.txn = NoTxn
    BY <2>1, NoCommit, LoneFacts, RolledBack
  <2> QED BY <2>1, <2>2 DEF TxnInv
<1>4. ASSUME NEW p \in Pages, onPendingTrashClick(p) PROVE TxnInv'
  <2> DEFINE d == rollbackTransaction(disk, {p})
             S == Staged(d, p)
  <2>1. ~tab[p].locked /\ disk' = Unstaged(d, S) /\ UNCHANGED jobs
    BY <1>4 DEF onPendingTrashClick
  <2>2. d \in Disks /\ d.txn = NoTxn
    BY BaseFacts, RollbackFacts, RolledBack
  <2> HIDE DEF d, S
  <2>3. jobs = {} /\ disk'.txn = NoTxn
    BY <2>1, <2>2, NoCommit, LoneFacts, UnstagedFacts
  <2> QED BY <2>1, <2>3 DEF TxnInv
<1>5. CASE \E p \in Pages : Reload(p) \/ StoredExpires(p) \/ Cut(p) \/ Reconnect(p)
  BY <1>5 DEF Reload, StoredExpires, Cut, Reconnect, TxnInv
<1>6. CASE \E a \in Agents : Take(a) \/ AgentEnds(a)
  BY <1>6 DEF Take, AgentEnds, TxnInv
<1>7. ASSUME NEW a \in Agents, Write(a) PROVE TxnInv'
  BY <1>7, WriteFacts DEF TxnInv
<1>8. CASE Crash \/ CrashAtEnd
  <2>1. up' = FALSE /\ jobs' = {}
    BY <1>8 DEF Crash, CrashAtEnd, DiesIn, Died
  <2> QED BY <2>1 DEF TxnInv
<1>9. CASE Start
  <2>1. disk' = rollbackTransaction(disk, Pages) /\ jobs' = {}
    BY <1>9, BaseFacts DEF Start
  <2>2. disk'.txn = NoTxn
    BY <2>1, BaseFacts, DiskFields, TxnFacts, RollbackFacts
  <2> QED BY <2>1, <2>2 DEF TxnInv
<1>10. ASSUME NEW p \in Pages,
              onPendingPillClick(p) \/ onPendingKeepFixingClick(p) \/ Timeout(p)
       PROVE  TxnInv'
  BY <1>10, ApplyTxn, FixTxn, TimeoutTxn
<1>11. ASSUME NEW a \in Agents, handlePollPost(a) PROVE TxnInv'
  BY <1>11, ReplyTxn
<1> QED BY <1>1, <1>2, <1>3, <1>4, <1>5, <1>6, <1>7, <1>8, <1>9, <1>10, <1>11 DEF Next

LEMMA CrashSafeFacts ==
  ASSUME LonePage, Base, TxnInv PROVE CrashSafe
<1> SUFFICES ASSUME NEW j \in jobs
             PROVE  /\ disk.txn.page = j.page /\ disk.txn.ids \cap DOMAIN disk.buf # {}
                    /\ j.again \/ (disk.txn.ids = DOMAIN j.batch /\ disk.txn.was = j.was)
  BY DEF CrashSafe
<1>1. up
  BY BaseFacts
<1> QED BY <1>1, BaseFacts, LoneFacts, JobFields DEF TxnInv

LEMMA InitTxn ==
  ASSUME Init PROVE TxnInv
BY DEF Init, TxnInv

(* As long as a commit runs, there is a transaction on disk by which a restart  *)
(* would undo it, and it holds the files as Apply found them                    *)
(* (live-commit-manual-edits.mjs); of one page.                                 *)
THEOREM CommitsCrashSafe == LonePage => (Spec => []CrashSafe)
<1> SUFFICES ASSUME LonePage PROVE Spec => []CrashSafe
  OBVIOUS
<1>1. Init => TxnInv
  BY InitTxn
<1>2. Base /\ TxnInv /\ [Next]_vars => TxnInv'
  BY TxnStep
<1>3. Base /\ TxnInv => CrashSafe
  BY CrashSafeFacts
<1> QED BY <1>1, <1>2, <1>3, BaseInvariant, PTL DEF Spec

--------------------------------------------------------------------------------
(* The one agent that polls: then what is applied stays.                        *)
LoneAgent == \A a, b \in Agents : a = b
Lone == LonePage /\ LoneAgent

Inv == Base /\ TxnInv /\ KeptInv /\ EventInv /\ ChunkInv

LEMMA InvFacts ==
  ASSUME Inv PROVE Base /\ TxnInv /\ KeptInv /\ EventInv /\ ChunkInv
BY DEF Inv

Above(s, k) == \A e \in DOMAIN s.text : s.text[e] >= k[e]

LEMMA AboveFacts ==
  ASSUME NEW s PROVE (NotBehind(s) <=> Above(s, kept)) /\ (NotBehind(s)' <=> Above(s, kept)')
BY DEF NotBehind, Above

LEMMA SnapshotAbove ==
  ASSUME NEW d \in Disks, NEW F \in SUBSET Files, NEW k, \A e \in Edits : d.text[e] >= k[e]
  PROVE  Above(Snapshot(d, F), k)
BY SnapshotFacts DEF Above

LEMMA KeptFacts ==
  ASSUME Inv
  PROVE  /\ \A e \in Edits : disk.text[e] >= kept[e]
         /\ \A e \in DOMAIN disk.buf : disk.buf[e].new >= kept[e]
         /\ ~SafeOnDisk(disk) => Above(disk.txn.was, kept)
         /\ \A j \in jobs : Above(j.was, kept)
         /\ \A a \in Agents : agent[a] # NoWork /\ ~agent[a].wrote /\ ~agent[a].late =>
              \A e \in DOMAIN agent[a].batch : agent[a].batch[e] >= kept[e]
BY DEF Inv, KeptInv, NoEditLost, NotBehind, Above

(* KeptInv after a step that leaves kept as it is. *)
LEMMA KeptSame ==
  ASSUME kept' = kept,
         \A e \in Edits : disk'.text[e] >= kept[e],
         \A e \in DOMAIN disk'.buf : disk'.buf[e].new >= kept[e],
         ~SafeOnDisk(disk') => Above(disk'.txn.was, kept),
         \A j \in jobs' : Above(j.was, kept),
         \A a \in Agents : agent'[a] # NoWork /\ ~agent'[a].wrote /\ ~agent'[a].late =>
           \A e \in DOMAIN agent'[a].batch : agent'[a].batch[e] >= kept[e]
  PROVE  KeptInv'
BY DEF KeptInv, NoEditLost, NotBehind, Above, SafeOnDisk

LEMMA SafeNoTxn ==
  ASSUME NEW d, d.txn = NoTxn PROVE SafeOnDisk(d)
BY DEF SafeOnDisk

LEMMA SafeSame ==
  ASSUME NEW d, NEW g, g.txn = d.txn, DOMAIN g.buf \subseteq DOMAIN d.buf, ~SafeOnDisk(g)
  PROVE  ~SafeOnDisk(d)
BY DEF SafeOnDisk

(* KeptInv after a step of an agent: if it is late, kept comes down to the texts *)
(* that it leaves.                                                               *)
LEMMA KeptLower ==
  ASSUME Inv, NEW a \in Agents, SetBack(a), disk' \in Disks,
         agent[a].late \/ \A e \in Edits : disk'.text[e] >= kept[e],
         disk'.buf = disk.buf, disk'.txn = disk.txn, UNCHANGED jobs,
         \A b \in Agents : agent'[b] # NoWork /\ ~agent'[b].wrote => agent'[b] = agent[b]
  PROVE  KeptInv'
<1>1. /\ Base /\ disk \in Disks /\ kept \in [Edits -> Versions] /\ jobs \subseteq Jobs
      /\ agent \in [Agents -> {NoWork} \cup Work]
  BY InvFacts, BaseFacts
<1>2. kept' \in [Edits -> Versions] /\ \A v \in Versions : v \in Int
  BY <1>1, SetBackTypes, BoundsAssumption DEF Versions
<1>3. disk'.text \in [Edits -> Versions]
  BY DiskFields
<1>4. \A e \in Edits : kept'[e] = IF agent[a].late /\ disk'.text[e] < kept[e]
                                    THEN disk'.text[e] ELSE kept[e]
  BY <1>1, SetBackTypes
<1>5. \A e \in Edits : disk'.text[e] >= kept'[e] /\ kept[e] >= kept'[e]
  <2> TAKE e \in Edits
  <2>1. disk'.text[e] \in Int /\ kept[e] \in Int
    BY <1>1, <1>2, <1>3
  <2>2. agent[a].late \/ disk'.text[e] >= kept[e]
    OBVIOUS
  <2> QED BY <1>4, <2>1, <2>2
<1>6. \A v \in Versions : \A e \in Edits : v >= kept[e] => v >= kept'[e]
  BY <1>1, <1>2, <1>5
<1>7. \A e \in DOMAIN disk'.buf : disk'.buf[e].new >= kept'[e]
  BY <1>1, <1>6, KeptFacts, DiskFields, BufferFacts
<1>8. ASSUME NEW s \in Snapshots, Above(s, kept) PROVE Above(s, kept')
  <2>1. s.text \in [{e \in Edits : FileOf[e] \in s.files} -> Versions]
    BY SnapshotFields
  <2> QED BY <1>6, <1>8, <2>1 DEF Above
<1>9. ~SafeOnDisk(disk') => Above(disk'.txn.was, kept')
  <2> SUFFICES ASSUME ~SafeOnDisk(disk') PROVE Above(disk'.txn.was, kept')
    OBVIOUS
  <2>1. ~SafeOnDisk(disk)
    BY SafeSame
  <2>2. disk.txn \in Transactions
    BY <1>1, <2>1, SafeNoTxn, DiskFields
  <2> QED BY <1>8, <2>1, <2>2, KeptFacts, TxnFacts
<1>10. \A j \in jobs' : Above(j.was, kept')
  BY <1>1, <1>8, KeptFacts, JobFields
<1>11. ASSUME NEW b \in Agents, agent'[b] # NoWork, ~agent'[b].wrote, ~agent'[b].late,
              NEW e \in DOMAIN agent'[b].batch
       PROVE  agent'[b].batch[e] >= kept'[e]
  <2>1. agent'[b] = agent[b]
    BY <1>11
  <2>2. agent[b] # NoWork /\ agent[b].batch \in Texts
    BY <1>1, <1>11, <2>1, WorkFacts
  <2>3. e \in Edits /\ agent[b].batch[e] \in Versions
    BY <1>11, <2>1, <2>2, TextsFacts
  <2>4. agent[b].batch[e] >= kept[e]
    BY <1>11, <2>1, <2>2, KeptFacts
  <2> QED BY <1>6, <2>1, <2>3, <2>4
<1> QED BY <1>5, <1>7, <1>9, <1>10, <1>11 DEF KeptInv, NoEditLost, NotBehind, Above, SafeOnDisk

(* Writing a snapshot back, or leaving the texts, loses nothing of what is kept. *)
LEMMA RestoredAbove ==
  ASSUME Inv, NEW g, NEW s \in Snapshots, Above(s, kept),
         \A e \in Edits : g.text[e] = IF FileOf[e] \in s.files THEN s.text[e] ELSE disk.text[e]
  PROVE  \A e \in Edits : g.text[e] >= kept[e]
<1>1. \A e \in Edits : FileOf[e] \in s.files => e \in DOMAIN s.text
  BY SnapshotFields
<1> QED BY <1>1, KeptFacts DEF Above

LEMMA RollbackAbove ==
  ASSUME Inv, NEW P \in SUBSET Pages
  PROVE  \A e \in Edits : rollbackTransaction(disk, P).text[e] >= kept[e]
<1> DEFINE g == rollbackTransaction(disk, P)
<1>1. \/ g.text = disk.text
      \/ /\ disk.txn \in Transactions /\ ~SafeOnDisk(disk)
         /\ \A e \in Edits : g.text[e] = IF FileOf[e] \in disk.txn.was.files
                                           THEN disk.txn.was.text[e] ELSE disk.text[e]
  BY InvFacts, BaseFacts, RollbackFacts
<1> HIDE DEF g
<1>2. CASE g.text = disk.text
  BY <1>2, KeptFacts DEF g
<1>3. ASSUME disk.txn \in Transactions, ~SafeOnDisk(disk),
             \A e \in Edits : g.text[e] = IF FileOf[e] \in disk.txn.was.files
                                           THEN disk.txn.was.text[e] ELSE disk.text[e]
      PROVE  \A e \in Edits : g.text[e] >= kept[e]
  BY <1>3, TxnFacts, KeptFacts, RestoredAbove
<1> QED BY <1>1, <1>2, <1>3 DEF g

(* What an edit's application asks of the agents when it becomes what is kept of *)
(* the edit: none is about to write it, unless late.                             *)
Safe(e) ==
  \A a \in Agents : agent'[a] # NoWork /\ ~agent'[a].wrote /\ ~agent'[a].late =>
    e \notin DOMAIN agent'[a].batch

Lasting(j, out) ==
  \/ out = Undone(disk, j) \/ Decides(disk, out)
  \/ \E S : Applies(disk, j, S, out) /\ \A e \in S : Safe(e)
  \/ \E k : GoesOnAs(disk, j, k, out)

(* Agents that hold what they held, may have become late or are done with it. *)
HeldOn == \A a \in Agents :
  \/ agent'[a] = NoWork
  \/ /\ agent[a] # NoWork /\ agent'[a].wrote = agent[a].wrote
     /\ agent'[a].batch = agent[a].batch /\ (agent[a].late => agent'[a].late)

LEMMA HeldKept ==
  ASSUME Inv, HeldOn
  PROVE  \A a \in Agents : agent'[a] # NoWork /\ ~agent'[a].wrote /\ ~agent'[a].late =>
           \A e \in DOMAIN agent'[a].batch : agent'[a].batch[e] >= kept[e]
BY KeptFacts DEF HeldOn

(* The edits S are applied, and what is kept of each of them is its text. *)
LEMMA AppliedKept ==
  ASSUME Inv, NEW j \in Jobs, Batched(disk, j), NEW S, NEW out, Applies(disk, j, S, out),
         \A e \in S : Safe(e), HeldOn, agent' \in [Agents -> {NoWork} \cup Work],
         disk' \in Disks, kept' = Kept(disk'), disk'.text = disk.text, SafeOnDisk(disk'), jobs' = {},
         DOMAIN disk'.buf = DOMAIN disk.buf \ S,
         \A e \in DOMAIN disk.buf \ S : disk'.buf[e] = disk.buf[e]
  PROVE  KeptInv'
<1>1. disk \in Disks /\ Base /\ \A e \in S : disk.text[e] = j.batch[e] /\ e \in DOMAIN j.batch
  BY InvFacts, BaseFacts DEF Applies
<1>2. \A e \in Edits : \/ kept'[e] = kept[e]
                       \/ /\ e \in DOMAIN disk.buf \ DOMAIN disk'.buf
                          /\ kept'[e] = disk.buf[e].new
  BY <1>1, KeptTypes
<1>3. \A e \in Edits : \/ kept'[e] = kept[e]
                       \/ e \in S /\ kept'[e] = disk.text[e]
  BY <1>1, <1>2 DEF Batched
<1>4. \A e \in Edits : disk.text[e] >= disk.text[e]
  BY <1>1, DiskFields, BoundsAssumption DEF Versions
<1>5. DOMAIN disk.buf \subseteq Edits
  BY <1>1, DiskFields, BufferFacts
<1>6. \A e \in Edits : disk'.text[e] >= kept'[e]
  BY <1>3, <1>4, KeptFacts
<1>7. \A e \in DOMAIN disk'.buf : disk'.buf[e].new >= kept'[e]
  BY <1>3, <1>5, KeptFacts
<1>8. ASSUME NEW a \in Agents, agent'[a] # NoWork, ~agent'[a].wrote, ~agent'[a].late,
             NEW e \in DOMAIN agent'[a].batch
      PROVE  agent'[a].batch[e] >= kept'[e]
  <2>1. agent'[a] \in Work
    BY <1>8
  <2>2. e \in Edits
    BY <1>8, <2>1, TextsFacts DEF Work
  <2>3. e \notin S
    BY <1>8 DEF Safe
  <2>4. kept'[e] = kept[e]
    BY <1>3, <2>2, <2>3
  <2> QED BY <1>8, <2>4, HeldKept
<1> QED BY <1>6, <1>7, <1>8 DEF KeptInv, NoEditLost, NotBehind, SafeOnDisk

LEMMA WentKept ==
  ASSUME LonePage, Inv, NEW j \in Jobs, Batched(disk, j), Framed(j), Above(j.was, kept),
         j.txn \in Pages, disk.txn # NoTxn,
         NEW before, jobs \ before = {}, NEW out, Lasting(j, out), Went(j, before, out),
         HeldOn, agent' \in [Agents -> {NoWork} \cup Work]
  PROVE  KeptInv'
<1>1. disk \in Disks /\ disk' = Closed(out) /\ jobs' = out.next /\ kept' = Kept(disk') /\ Base
  BY InvFacts, BaseFacts DEF Went
<1>2. disk.txn.page = j.txn
  BY InvFacts, LoneFacts
<1>3. disk' \in Disks
  <2>1. Outcome(disk, j, out)
    BY DEF Lasting, Outcome
  <2> QED BY <1>1, <2>1, OutcomeLands DEF Lands
<1>4. disk'.buf = disk.buf => kept' = kept
  BY <1>1, <1>3, KeptTypes
<1>5. CASE out = Undone(disk, j)
  <2>0. /\ out.next = {} /\ Closed(out).buf = disk.buf
        /\ \A e \in Edits : Closed(out).text[e] = IF FileOf[e] \in j.was.files
                                                     THEN j.was.text[e] ELSE disk.text[e]
        /\ Closed(out).txn = IF disk.txn.page = j.txn THEN NoTxn ELSE disk.txn
    <3>1. out.disk.text = Closed(out).text
      BY <1>1, <1>5, UndoneFacts
    <3> QED BY <1>1, <1>5, <3>1, UndoneFacts
  <2>1. /\ disk'.buf = disk.buf /\ disk'.txn = NoTxn /\ jobs' = {}
        /\ \A e \in Edits : disk'.text[e] = IF FileOf[e] \in j.was.files
                                              THEN j.was.text[e] ELSE disk.text[e]
    BY <1>1, <1>2, <2>0
  <2>2. \A e \in Edits : disk'.text[e] >= kept[e]
    BY <2>1, JobFields, RestoredAbove
  <2>3. SafeOnDisk(disk')
    BY <2>1, SafeNoTxn
  <2> QED BY <1>4, <2>1, <2>2, <2>3, HeldKept, KeptFacts, KeptSame
<1>6. CASE Decides(disk, out)
  <2>1. out.disk = disk /\ out.clears = NoPage /\ out.next = {}
    BY <1>6 DEF Decides
  <2>2. disk' = disk /\ jobs' = {}
    BY <1>1, <2>1, ClosedSame
  <2> QED BY <1>4, <2>2, HeldKept, KeptFacts, KeptSame
<1>7. ASSUME NEW k, GoesOnAs(disk, j, k, out) PROVE KeptInv'
  <2>1. disk' = disk /\ jobs' = {k} /\ k.was = j.was
    BY <1>1, <1>7, ClosedSame DEF GoesOnAs, SameCommit
  <2> QED BY <1>4, <2>1, HeldKept, KeptFacts, KeptSame
<1>8. ASSUME NEW S, Applies(disk, j, S, out), \A e \in S : Safe(e) PROVE KeptInv'
  <2>1. out = Applied(disk, j, S)
    BY <1>8 DEF Applies
  <2>2. /\ DOMAIN disk'.buf = DOMAIN disk.buf \ S
        /\ \A e \in DOMAIN disk.buf \ S : disk'.buf[e] = disk.buf[e]
        /\ disk'.text = disk.text /\ disk'.txn = NoTxn /\ jobs' = {}
    BY <1>1, <1>2, <2>1, AppliedFacts
  <2>3. SafeOnDisk(disk')
    BY <2>2, SafeNoTxn
  <2> QED BY <1>1, <1>3, <1>8, <2>2, <2>3, AppliedKept
<1> QED BY <1>5, <1>6, <1>7, <1>8 DEF Lasting

Rest == KeptInv /\ EventInv /\ ChunkInv

(* No dock comes to ask for a decision. *)
Quiet == \A p \in Pages : tab[p].sse = "dead" \/ ~tab[p].buttons =>
                            tab'[p].sse = "dead" \/ ~tab'[p].buttons

LEMMA QuietStep ==
  ASSUME Base, NEW p \in Pages, NEW T, tab' = [tab EXCEPT ![p] = T],
         tab[p].sse = "dead" \/ ~tab[p].buttons => T.sse = "dead" \/ ~T.buttons
  PROVE  Quiet
<1>1. tab'[p] = T /\ \A q \in Pages : q # p => tab'[q] = tab[q]
  BY BaseFacts
<1> QED BY <1>1 DEF Quiet

LEMMA EventSame ==
  ASSUME EventInv, UNCHANGED <<jobs, tombs>>, Quiet,
         \A a \in Agents : /\ agent'[a].ev = agent[a].ev /\ agent'[a].batch = agent[a].batch
                           /\ agent'[a] # NoWork => agent[a] # NoWork
                           /\ agent[a].late => agent'[a].late
  PROVE  EventInv'
<1>1. \A a \in Agents : /\ Forgotten(a)' = Forgotten(a)
                        /\ Orphaned(a)' => Orphaned(a)
                        /\ \A j : Asked(a, j)' <=> Asked(a, j)
  BY DEF Forgotten, Orphaned, Asked
<1>2. \A t \in tombs' : \A j \in jobs' : j.ev # t.ev
  BY DEF EventInv
<1>3. \A t \in tombs' : \E a \in Agents : agent'[a].ev = t.ev
  BY DEF EventInv
<1>7. \A a \in Agents : Forgotten(a)' # {} => agent'[a].late
  BY <1>1 DEF EventInv
<1>4. \A a \in Agents : \A t \in Forgotten(a)' :
        \A e \in DOMAIN agent'[a].batch : FileOf[e] \in t.was.files
  BY <1>1 DEF EventInv
<1>5. \A a \in Agents, j \in jobs' :
        Asked(a, j)' => agent'[a].batch = [e \in j.asked |-> j.batch[e]]
  BY <1>1 DEF EventInv
<1>6. \A a \in Agents : Orphaned(a)' =>
        /\ \A j \in jobs' : j.attempt = 0 /\ j.applied = {}
        /\ \A p \in Pages : tab'[p].sse = "dead" \/ ~tab'[p].buttons
  BY <1>1 DEF EventInv, Quiet
<1> QED BY <1>2, <1>3, <1>4, <1>5, <1>6, <1>7 DEF EventInv

LEMMA ChunkSame ==
  ASSUME ChunkInv, UNCHANGED jobs, disk'.text = disk.text,
         \A a \in Agents : agent'[a] = NoWork \/ agent'[a] = agent[a]
  PROVE  ChunkInv'
BY DEF ChunkInv, Asked

LEMMA ChunkNone ==
  ASSUME jobs' = {} PROVE ChunkInv'
BY DEF ChunkInv

(* Only the dock of a page changes. *)
LEMMA DockRest ==
  ASSUME Inv, UNCHANGED <<disk, jobs, tombs, agent, kept>>, Quiet PROVE Rest'
<1>1. KeptInv'
  BY KeptFacts, KeptSame
<1>2. EventInv'
  BY InvFacts, EventSame
<1>3. ChunkInv'
  BY InvFacts, ChunkSame
<1> QED BY <1>1, <1>2, <1>3 DEF Rest

LEMMA DocksRest ==
  ASSUME Inv, NEW p \in Pages, Reload(p) \/ StoredExpires(p) \/ Cut(p) \/ Reconnect(p)
  PROVE  Rest'
<1>1. UNCHANGED <<disk, jobs, tombs, agent, kept>> /\ tab[p] \in Tabs /\ tab \in [Pages -> Tabs]
  BY InvFacts, BaseFacts DEF Reload, StoredExpires, Cut, Reconnect
<1>2. CASE Reload(p)
  <2> DEFINE b == Staged(disk, p) # {}
             t == [FreshTab EXCEPT !.stored = @ \/ (tab[p].stored /\ Live(p))]
             T == updatePendingCounter(t, b)
  <2>1. tab' = [tab EXCEPT ![p] = T]
    BY <1>2 DEF Reload
  <2>2. t \in Tabs /\ ~t.buttons /\ b \in BOOLEAN
    BY <1>1 DEF Tabs, FreshTab
  <2>3. [t EXCEPT !.shown = TRUE] \in Tabs /\ ~[t EXCEPT !.shown = TRUE].buttons
    BY <2>2 DEF Tabs
  <2> HIDE DEF b, t
  <2>4. ~T.buttons
    BY <2>2, <2>3 DEF updatePendingCounter, hidePendingApplyDock, setPendingApplyLoading, Tabs
  <2> HIDE DEF T
  <2> QED BY <1>1, <2>1, <2>4, InvFacts, QuietStep, DockRest
<1>3. CASE StoredExpires(p) \/ Cut(p) \/ Reconnect(p)
  <2>1. \E T : /\ tab' = [tab EXCEPT ![p] = T] /\ T.buttons = tab[p].buttons
               /\ T.sse = "dead" \/ tab[p].sse # "dead"
    BY <1>1, <1>3 DEF StoredExpires, Cut, Reconnect, Tabs
  <2> QED BY <1>1, <2>1, InvFacts, QuietStep, DockRest
<1> QED BY <1>2, <1>3

LEMMA SaveRest ==
  ASSUME Inv, NEW e \in Edits, applyEditing(e) PROVE Rest'
<1> DEFINE p == PageOf[e]
           shown == IF e \in DOMAIN disk.buf THEN disk.buf[e].new ELSE disk.text[e]
           new == shown + 1
           g == stageEntry(disk, e, new)
           T == updatePendingCounter(tab[p], TRUE)
<1>1. disk \in Disks /\ p \in Pages /\ tab[p] \in Tabs
  BY InvFacts, BaseFacts, EditsAssumption
<1>2. /\ disk' = g /\ tab' = [tab EXCEPT ![p] = T] /\ shown < MaxVersion
      /\ UNCHANGED <<jobs, tombs, agent, kept>>
  BY DEF applyEditing
<1>3. shown \in Versions /\ shown >= kept[e] /\ kept[e] \in Versions
  BY <1>1, InvFacts, BaseFacts, KeptFacts, DiskFields, BufferFacts
<1> HIDE DEF shown
<1>4. new \in Versions /\ new >= kept[e]
  BY <1>2, <1>3, BoundsAssumption DEF Versions
<1> HIDE DEF new
<1>5. /\ g.text = disk.text /\ g.txn = disk.txn
      /\ DOMAIN g.buf = DOMAIN disk.buf \cup {e} /\ g.buf[e].new = new
      /\ \A x \in DOMAIN disk.buf : x # e => g.buf[x] = disk.buf[x]
  BY <1>1, <1>4, StageFacts
<1> HIDE DEF g
<1>6. T.buttons => tab[p].buttons /\ T.sse = tab[p].sse
  <2>1. [tab[p] EXCEPT !.shown = TRUE] \in Tabs
    BY <1>1 DEF Tabs
  <2> QED BY <1>1, <2>1 DEF updatePendingCounter, setPendingApplyLoading, Tabs
<1> HIDE DEF T
<1>7. Quiet
  BY <1>1, <1>2, <1>6, InvFacts, QuietStep
<1>8. \A x \in DOMAIN g.buf : g.buf[x].new >= kept[x]
  BY <1>4, <1>5, KeptFacts
<1>9. KeptInv'
  <2>1. ~SafeOnDisk(g) => Above(g.txn.was, kept)
    <3> SUFFICES ASSUME ~SafeOnDisk(g) PROVE Above(g.txn.was, kept)
      OBVIOUS
    <3>1. up /\ disk.txn # NoTxn
      BY <1>2, <1>5 DEF SafeOnDisk, applyEditing, Live
    <3>2. disk.txn.ids # {} /\ disk.txn.ids \subseteq DOMAIN disk.buf
      BY <3>1, InvFacts DEF TxnInv
    <3>3. ~SafeOnDisk(disk)
      BY <3>1, <3>2 DEF SafeOnDisk
    <3> QED BY <1>5, <3>3, KeptFacts
  <2> QED BY <1>2, <1>5, <1>8, <2>1, KeptFacts, KeptSame
<1>10. EventInv' /\ ChunkInv'
  BY <1>2, <1>5, <1>7, InvFacts, EventSame, ChunkSame
<1> QED BY <1>9, <1>10 DEF Rest

(* What the user of a page decides by its dock. *)
LEMMA RollbackRest ==
  ASSUME Lone, Inv, NEW p \in Pages, onPendingRollbackClick(p) PROVE Rest'
<1>1. /\ Live(p) /\ tab[p].buttons /\ disk' = rollbackTransaction(disk, {p})
      /\ UNCHANGED <<jobs, tombs, agent, kept>>
      /\ \E T : tab' = [tab EXCEPT ![p] = T]
  BY DEF onPendingRollbackClick
<1>2. jobs = {} /\ disk'.txn = NoTxn /\ disk'.buf = disk.buf
  BY <1>1, InvFacts, BaseFacts, NoCommit, LoneFacts, RolledBack, RollbackFacts DEF Lone
<1>3. \A e \in Edits : disk'.text[e] >= kept[e]
  BY <1>1, RollbackAbove
<1>4. Quiet
  BY <1>1, InvFacts, QuietStep DEF Live
<1>5. KeptInv'
  BY <1>1, <1>2, <1>3, SafeNoTxn, KeptFacts, KeptSame
<1>6. EventInv' /\ ChunkInv'
  BY <1>1, <1>2, <1>4, InvFacts, EventSame, ChunkNone
<1> QED BY <1>5, <1>6 DEF Rest

LEMMA TrashRest ==
  ASSUME Lone, Inv, NEW p \in Pages, onPendingTrashClick(p) PROVE Rest'
<1> DEFINE d == rollbackTransaction(disk, {p})
           S == Staged(d, p)
           T == hidePendingApplyDock(tab[p])
<1>1. /\ ~tab[p].locked /\ disk' = Unstaged(d, S) /\ UNCHANGED <<jobs, tombs, agent, kept>>
      /\ tab' = [tab EXCEPT ![p] = T]
  BY DEF onPendingTrashClick
<1>2. d \in Disks /\ d.buf = disk.buf /\ d.txn = NoTxn /\ \A e \in Edits : d.text[e] >= kept[e]
  <2>1. {p} \in SUBSET Pages /\ {p} # {} /\ Base /\ LonePage
    BY InvFacts DEF Lone
  <2>2. d \in Disks /\ d.buf = disk.buf
    BY <2>1, BaseFacts, RollbackFacts
  <2>3. d.txn = NoTxn
    BY <2>1, RolledBack
  <2>4. \A e \in Edits : d.text[e] >= kept[e]
    BY <2>1, RollbackAbove
  <2> QED BY <2>2, <2>3, <2>4
<1>3. ~T.buttons
  BY InvFacts, BaseFacts DEF hidePendingApplyDock, Tabs
<1> HIDE DEF d, S, T
<1>4. /\ disk'.text = d.text /\ disk'.txn = NoTxn /\ DOMAIN disk'.buf = DOMAIN disk.buf \ S
      /\ \A e \in DOMAIN disk.buf \ S : disk'.buf[e] = disk.buf[e]
  BY <1>1, <1>2, UnstagedFacts
<1>5. jobs' = {}
  BY <1>1, InvFacts, NoCommit, LoneFacts DEF Lone
<1>6. KeptInv'
  BY <1>1, <1>2, <1>4, <1>5, SafeNoTxn, KeptFacts, KeptSame
<1>7. Quiet
  BY <1>1, <1>3, InvFacts, QuietStep
<1>8. EventInv' /\ ChunkInv'
  BY <1>1, <1>5, <1>7, InvFacts, EventSame, ChunkNone
<1> QED BY <1>6, <1>8 DEF Rest

(* A commit of a page that had none: its event is new to every agent. *)
LEMMA EventNew ==
  ASSUME Inv, jobs = {}, UNCHANGED <<tombs, agent>>, \A k \in jobs' : k.ev \notin Held,
         \A a \in Agents : Orphaned(a) =>
           /\ \A k \in jobs' : k.attempt = 0 /\ k.applied = {}
           /\ \A p \in Pages : tab'[p].sse = "dead" \/ ~tab'[p].buttons
  PROVE  EventInv'
<1>1. \A a \in Agents : /\ Forgotten(a)' = Forgotten(a)
                        /\ Orphaned(a)' => Orphaned(a)
                        /\ \A k \in jobs' : ~Asked(a, k)'
  BY DEF Forgotten, Orphaned, Asked, Held
<1>2. EventInv
  BY InvFacts
<1>3. \A t \in tombs : t.ev \in Held
  BY <1>2 DEF EventInv, Held
<1>4. /\ \A t \in tombs' : \A k \in jobs' : k.ev # t.ev
      /\ \A t \in tombs' : \E a \in Agents : agent'[a].ev = t.ev
  BY <1>2, <1>3 DEF EventInv
<1>5. \A a \in Agents : /\ Forgotten(a)' # {} => agent'[a].late
                        /\ \A t \in Forgotten(a)' : \A e \in DOMAIN agent'[a].batch :
                             FileOf[e] \in t.was.files
  BY <1>1, <1>2 DEF EventInv
<1>6. \A a \in Agents : Orphaned(a)' =>
        /\ \A k \in jobs' : k.attempt = 0 /\ k.applied = {}
        /\ \A p \in Pages : tab'[p].sse = "dead" \/ ~tab'[p].buttons
  BY <1>1
<1> QED BY <1>1, <1>4, <1>5, <1>6 DEF EventInv

LEMMA ApplyRest ==
  ASSUME Lone, Inv, NEW p \in Pages, onPendingPillClick(p) PROVE Rest'
<1> DEFINE d == rollbackTransaction(disk, {p})
<1>1. Base /\ LonePage /\ {p} \in SUBSET Pages /\ {p} # {}
  BY InvFacts DEF Lone
<1>2. /\ Live(p) /\ ~tab[p].locked /\ UNCHANGED <<tombs, agent, kept>>
      /\ d \in Disks /\ d.buf = disk.buf
      /\ \/ /\ Staged(d, p) # {} /\ disk' = Commit(d, p).disk
            /\ jobs' = jobs \cup Commit(d, p).next /\ tab' = Locked(p)
         \/ /\ disk' = d /\ jobs' = jobs
            /\ \E T \in Tabs : tab' = [tab EXCEPT ![p] = T] /\ ~T.buttons
  BY <1>1, ApplyFacts
<1>3. d.txn = NoTxn /\ \A e \in Edits : d.text[e] >= kept[e]
  BY <1>1, RolledBack, RollbackAbove
<1>4. jobs = {}
  BY <1>1, <1>2, NoCommit, LoneFacts
<1> HIDE DEF d
<1>5. CASE /\ Staged(d, p) # {} /\ disk' = Commit(d, p).disk
           /\ jobs' = jobs \cup Commit(d, p).next /\ tab' = Locked(p)
  <2> DEFINE F == FilesOf(Staged(d, p))
             was == Snapshot(d, F)
  <2>1. /\ disk' \in Disks /\ disk'.buf = d.buf /\ disk'.text = d.text
        /\ disk'.txn = [page |-> p, ids |-> Staged(d, p), was |-> was]
        /\ \E k : Sent(d, p, k)
    BY <1>1, <1>2, <1>5, CommitFacts
  <2>2. PICK k : Sent(d, p, k)
    BY <2>1
  <2>3. /\ jobs' = {k} /\ k \in Jobs /\ k.applied = {} /\ k.attempt = 0 /\ k.ev \notin Held
        /\ k.was = was
    BY <1>4, <1>5, <2>2 DEF Sent
  <2>4. disk'.txn.was = was
    BY <2>1
  <2>5. F \in SUBSET Files
    BY <1>2, StagedFacts, FilesOfFacts
  <2>6. Above(was, kept)
    BY <1>2, <1>3, <2>5, SnapshotAbove
  <2> HIDE DEF was, F
  <2>8. \A e \in Edits : disk'.text[e] >= kept[e]
    BY <1>3, <2>1
  <2>9. \A e \in DOMAIN disk'.buf : disk'.buf[e].new >= kept[e]
    BY <1>2, <2>1, KeptFacts
  <2>10. KeptInv'
    BY <1>2, <2>3, <2>4, <2>6, <2>8, <2>9, KeptFacts, KeptSame
  <2>11. PICK T \in Tabs : tab' = [tab EXCEPT ![p] = T] /\ Shown(T)
    BY <1>1, <1>2, <1>5, LockedFacts
  <2>12. Quiet
    BY <1>1, <2>11, QuietStep DEF Shown
  <2>13. \A a \in Agents : Orphaned(a) =>
           \A q \in Pages : tab'[q].sse = "dead" \/ ~tab'[q].buttons
    BY <2>12, InvFacts DEF EventInv, Quiet
  <2>14. EventInv'
    BY <1>2, <1>4, <2>3, <2>13, EventNew
  <2>15. ChunkInv'
    BY <2>3 DEF ChunkInv
  <2> QED BY <2>10, <2>14, <2>15 DEF Rest
<1>6. CASE /\ disk' = d /\ jobs' = jobs
           /\ \E T \in Tabs : tab' = [tab EXCEPT ![p] = T] /\ ~T.buttons
  <2>1. PICK T \in Tabs : tab' = [tab EXCEPT ![p] = T] /\ ~T.buttons
    BY <1>6
  <2>2. Quiet
    BY <1>1, <1>2, <2>1, QuietStep DEF Live
  <2>3. KeptInv'
    BY <1>2, <1>3, <1>4, <1>6, SafeNoTxn, KeptFacts, KeptSame
  <2>4. EventInv' /\ ChunkInv'
    BY <1>2, <1>4, <1>6, <2>2, InvFacts, EventSame, ChunkNone
  <2> QED BY <2>3, <2>4 DEF Rest
<1> QED BY <1>2, <1>5, <1>6

(* While the page is connected, what an agent holds is late unless a commit asked *)
(* for it, or no dock asks for a decision.                                        *)
LEMMA LateUnlessAsked ==
  ASSUME Inv, jobs = {}, NEW p \in Pages, MayKeepFixing(p)
  PROVE  \A a \in Agents : agent[a] # NoWork => agent[a].late
<1>1. EventInv /\ tab[p].sse # "dead" /\ tab[p].buttons
  BY InvFacts DEF MayKeepFixing, Live
<1>2. \A a \in Agents : ~Orphaned(a)
  BY <1>1 DEF EventInv
<1>3. \A a \in Agents : agent[a] # NoWork => Forgotten(a) # {}
  BY <1>2 DEF Orphaned
<1> QED BY <1>1, <1>3 DEF EventInv

LEMMA FixRest ==
  ASSUME Lone, Inv, NEW p \in Pages, onPendingKeepFixingClick(p) PROVE Rest'
<1>1. Base /\ LonePage /\ EventInv
  BY InvFacts DEF Lone
<1>2. /\ Live(p) /\ tab[p].buttons /\ UNCHANGED <<tombs, agent>> /\ MayKeepFixing(p)
      /\ \/ /\ UNCHANGED <<disk, jobs, kept>>
            /\ \E T \in Tabs : tab' = [tab EXCEPT ![p] = T] /\ T.sse = tab[p].sse
         \/ \E j \in Jobs : \E out :
              /\ Fixes(j, p) /\ Went(j, {}, out)
              /\ \/ out = Undone(disk, j)
                 \/ Applies(disk, j, DOMAIN j.batch, out)
                 \/ Repairs(disk, j, out)
  BY <1>1, FixFacts DEF onPendingKeepFixingClick
<1>3. jobs = {}
  BY <1>1, <1>2, NoCommit, LoneFacts
<1>4. \A a \in Agents : ~Orphaned(a)
  BY <1>1, <1>2 DEF EventInv, Live
<1>5. CASE /\ UNCHANGED <<disk, jobs, kept>>
           /\ \E T \in Tabs : tab' = [tab EXCEPT ![p] = T] /\ T.sse = tab[p].sse
  <2>1. Quiet
    BY <1>1, <1>2, <1>5, QuietStep DEF Live
  <2> QED BY <1>2, <1>5, <2>1, DockRest
<1>6. ASSUME NEW j \in Jobs, NEW out, Fixes(j, p), Went(j, {}, out),
             \/ out = Undone(disk, j)
             \/ Applies(disk, j, DOMAIN j.batch, out)
             \/ Repairs(disk, j, out)
      PROVE  Rest'
  <2>1. /\ disk \in Disks /\ disk.txn # NoTxn /\ j.txn \in Pages /\ Framed(j)
        /\ Batched(disk, j) /\ FilesOf(DOMAIN j.batch) \in SUBSET Files
        /\ j.was = Snapshot(disk, FilesOf(DOMAIN j.batch))
    BY <1>1, <1>6, BaseFacts, JobFields, TextsFacts, FilesOfFacts DEF Fixes
  <2>2. Above(j.was, kept)
    BY <2>1, KeptFacts, SnapshotAbove
  <2>3. \A e \in DOMAIN j.batch : Safe(e)
    BY <1>2, <1>3, LateUnlessAsked DEF Safe
  <2>4. Lasting(j, out)
    BY <1>6, <2>3 DEF Lasting, Repairs
  <2>5. HeldOn /\ agent' \in [Agents -> {NoWork} \cup Work]
    BY <1>1, <1>2, BaseFacts DEF HeldOn
  <2>6. jobs \ {} = {}
    BY <1>3
  <2>7. KeptInv'
    BY <1>1, <1>6, <2>1, <2>2, <2>4, <2>5, <2>6, WentKept
  <2>8. jobs' = out.next
    BY <1>3, <1>6 DEF Went
  <2>9. \A k \in jobs' : k.ev \notin Held /\ k.attempt > 0
    <3>1. out.next = {} \/ Repairs(disk, j, out)
      BY <1>6 DEF Undone, Applies, Applied, Ended
    <3> QED BY <2>8, <3>1 DEF Repairs, GoesOnAs
  <2>10. EventInv'
    BY <1>2, <1>3, <1>4, <2>9, EventNew
  <2>11. ChunkInv'
    BY <2>9 DEF ChunkInv
  <2> QED BY <2>7, <2>10, <2>11 DEF Rest
<1> QED BY <1>2, <1>5, <1>6

(* What the agent does, of which there is one. *)
LEMMA TakeRest ==
  ASSUME Lone, Inv, NEW a \in Agents, Take(a) PROVE Rest'
<1>1. Base /\ LonePage /\ EventInv /\ ChunkInv /\ \A b \in Agents : b = a
  BY InvFacts DEF Lone, LoneAgent
<1>2. agent[a] = NoWork /\ UNCHANGED <<disk, up, jobs, tombs, tab, kept>>
  BY DEF Take
<1>3. PICK j \in jobs :
        agent' = [agent EXCEPT ![a] = [ev |-> j.ev, batch |-> [e \in j.asked |-> j.batch[e]],
                                       wrote |-> FALSE, late |-> FALSE]]
  BY DEF Take
<1>4. /\ j \in Jobs /\ Batched(disk, j) /\ Framed(j) /\ j.ev \in Events /\ \A i \in jobs : i = j
  BY <1>1, BaseFacts, JobFields, LoneFacts
<1> DEFINE w == [e \in j.asked |-> j.batch[e]]
<1>5. /\ agent'[a].ev = j.ev /\ agent'[a].batch = w /\ agent' \in [Agents -> {NoWork} \cup Work]
  <2>1. [ev |-> j.ev, batch |-> w, wrote |-> FALSE, late |-> FALSE] \in Work
    BY <1>4, EvidenceTypes DEF Work
  <2> QED BY <1>1, <1>3, <2>1, BaseFacts
<1>6. tombs = {}
  <2>1. \A t \in tombs : t.ev \in Events
    BY <1>1, BaseFacts
  <2>2. \A t \in tombs : agent[a].ev = t.ev
    BY <1>1 DEF EventInv
  <2> QED BY <1>2, <2>1, <2>2, NoEvent
<1>7. \A e \in DOMAIN w : w[e] >= kept[e]
  <2> TAKE e \in DOMAIN w
  <2>1. e \in j.asked /\ w[e] = j.batch[e]
    OBVIOUS
  <2> HIDE DEF w
  <2>2. e \in DOMAIN j.batch
    BY <1>4, <2>1 DEF Framed
  <2>3. e \in DOMAIN disk.buf /\ j.batch[e] = disk.buf[e].new
    BY <1>4, <2>2 DEF Batched, Staged
  <2> QED BY <2>1, <2>3, KeptFacts
<1>8. KeptInv'
  <2> HIDE DEF w
  <2>1. \A b \in Agents : agent'[b] # NoWork /\ ~agent'[b].wrote =>
          \A e \in DOMAIN agent'[b].batch : agent'[b].batch[e] >= kept[e]
    BY <1>1, <1>5, <1>7
  <2> QED BY <1>2, <2>1, KeptFacts, KeptSame
<1>9. EventInv'
  <2>1. tombs' = {} /\ jobs' = jobs /\ tab' = tab /\ Asked(a, j)'
    BY <1>2, <1>5, <1>6 DEF Asked
  <2>2. \A b \in Agents : Forgotten(b)' = {} /\ ~Orphaned(b)'
    BY <1>1, <2>1 DEF Forgotten, Orphaned
  <2>3. \A b \in Agents, k \in jobs' : agent'[b].batch = [e \in k.asked |-> k.batch[e]]
    BY <1>1, <1>4, <1>5, <2>1
  <2> QED BY <2>1, <2>2, <2>3 DEF EventInv
<1>10. ChunkInv'
  BY <1>1, <1>2, <1>4, <1>5 DEF ChunkInv, Asked
<1> QED BY <1>8, <1>9, <1>10 DEF Rest

LEMMA WriteRest ==
  ASSUME Inv, NEW a \in Agents, Write(a) PROVE Rest'
<1> DEFINE w == [agent[a] EXCEPT !.wrote = TRUE]
<1>1. /\ agent[a] \in Work /\ ~agent[a].wrote /\ agent' = [agent EXCEPT ![a] = w] /\ w \in Work
      /\ disk' \in Disks /\ disk'.buf = disk.buf /\ disk'.txn = disk.txn
      /\ UNCHANGED <<up, jobs, tombs, tab>> /\ SetBack(a)
      /\ \A e \in Edits : \/ disk'.text[e] = disk.text[e]
                          \/ /\ e \in DOMAIN agent[a].batch
                             /\ disk'.text[e] = agent[a].batch[e]
  BY InvFacts, WriteFacts
<1>2. Base /\ EventInv /\ ChunkInv /\ agent \in [Agents -> {NoWork} \cup Work] /\ NoWork \notin Work
  BY InvFacts, BaseFacts, WorkFacts
<1>3. w.ev = agent[a].ev /\ w.batch = agent[a].batch /\ w.wrote /\ w.late = agent[a].late
  BY <1>1 DEF Work
<1> HIDE DEF w
<1>4. \A b \in Agents : /\ agent'[b].ev = agent[b].ev /\ agent'[b].batch = agent[b].batch
                        /\ agent'[b] # NoWork => agent[b] # NoWork
                        /\ agent'[b] = NoWork <=> agent[b] = NoWork
                        /\ b # a => agent'[b] = agent[b]
                        /\ b = a => agent'[b].wrote
                        /\ agent[b].late => agent'[b].late
  BY <1>1, <1>2, <1>3
<1>5. agent[a].late \/ \A e \in Edits : disk'.text[e] >= kept[e]
  BY <1>1, <1>2, KeptFacts
<1>6. KeptInv'
  BY <1>1, <1>4, <1>5, KeptLower
<1>7. EventInv'
  BY <1>1, <1>2, <1>4, EventSame DEF Quiet
<1>8. ASSUME NEW j \in jobs, j.attempt = 0, j.applied # {}
      PROVE  /\ \A b \in Agents : agent'[b] = NoWork \/ Asked(b, j)'
             /\ \A e \in j.applied \ j.asked :
                  e \in DOMAIN j.evWas.text => j.evWas.text[e] = disk'.text[e]
  <2>1. \A b \in Agents : agent[b] = NoWork \/ Asked(b, j)
    BY <1>2, <1>8 DEF ChunkInv
  <2>2. agent[a].batch = [e \in j.asked |-> j.batch[e]]
    BY <1>1, <1>2, <2>1 DEF EventInv
  <2>3. j.applied \in SUBSET Edits
    BY <1>2, BaseFacts, JobFields
  <2>4. \A e \in j.applied \ j.asked : disk'.text[e] = disk.text[e]
    BY <1>1, <2>2, <2>3
  <2> QED BY <1>2, <1>4, <1>8, <2>1, <2>4 DEF ChunkInv, Asked
<1>9. ChunkInv'
  BY <1>1, <1>8 DEF ChunkInv
<1> QED BY <1>6, <1>7, <1>9 DEF Rest

(* Nobody holds anything. *)
LEMMA EventIdle ==
  ASSUME \A a \in Agents : agent'[a] = NoWork, tombs' = {}, jobs' \subseteq Jobs
  PROVE  EventInv'
<1>1. \A j \in jobs' : j.ev # 0
  BY JobFields, NoEvent
<1> QED BY <1>1, NoEvent DEF EventInv, Forgotten, Orphaned, Asked

LEMMA AnswerRest ==
  ASSUME Lone, Inv, NEW a \in Agents, NEW j \in jobs, NEW r \in Results(j.asked),
         j.ev = agent[a].ev, GoesOn(j.page, tab[j.page], {j}, Answered(disk, j, r)),
         UNCHANGED tombs, agent' = [agent EXCEPT ![a] = NoWork]
  PROVE  Rest'
<1> DEFINE out == Answered(disk, j, r)
<1>1. Base /\ LonePage /\ EventInv /\ TxnInv /\ \A b \in Agents : b = a
  BY InvFacts DEF Lone, LoneAgent
<1>2. Outcome(disk, j, out) /\ Went(j, {j}, out)
  BY <1>1, AnswerFacts
<1> HIDE DEF out
<1>3. /\ disk \in Disks /\ j \in Jobs /\ Batched(disk, j) /\ Framed(j) /\ j.txn \in Pages
      /\ disk.txn # NoTxn /\ jobs \ {j} = {}
  BY <1>1, BaseFacts, LoneFacts, JobFields DEF TxnInv
<1>4. tombs' = {}
  <2>1. \A t \in tombs : agent[a].ev = t.ev
    BY <1>1 DEF EventInv
  <2> QED BY <1>1, <2>1 DEF EventInv
<1>5. /\ \A b \in Agents : agent'[b] = NoWork
      /\ HeldOn /\ agent' \in [Agents -> {NoWork} \cup Work]
  BY <1>1, BaseFacts DEF HeldOn
<1>6. \A e : Safe(e)
  BY <1>5 DEF Safe
<1>7. Lasting(j, out)
  BY <1>2, <1>6 DEF Lasting, Outcome
<1>8. Above(j.was, kept)
  BY KeptFacts
<1>9. KeptInv'
  BY <1>1, <1>2, <1>3, <1>5, <1>7, <1>8, WentKept
<1>10. /\ jobs' = out.next
       /\ out.next = {} \/ (disk' = disk /\ \E k : GoesOnAs(disk, j, k, out))
  <2>1. Lands(disk, j, Closed(out), out)
    BY <1>2, <1>3, OutcomeLands
  <2> QED BY <1>2, <1>3, <2>1 DEF Went, Lands
<1>11. jobs' \subseteq Jobs
  BY <1>10 DEF GoesOnAs
<1>12. ASSUME NEW k \in jobs', NEW e \in k.applied \ k.asked, e \in DOMAIN k.evWas.text
       PROVE  k.evWas.text[e] = disk'.text[e]
  <2>1. k \in Jobs /\ disk' = disk /\ k.evWas = Snapshot(disk, FilesOf(k.asked))
    BY <1>10 DEF GoesOnAs
  <2>2. FilesOf(k.asked) \in SUBSET Files /\ e \in Edits
    BY <1>12, <2>1, JobFields, FilesOfFacts
  <2> QED BY <1>3, <1>12, <2>1, <2>2, SnapshotFacts
<1>13. ChunkInv'
  BY <1>5, <1>12 DEF ChunkInv
<1>14. EventInv'
  BY <1>4, <1>5, <1>11, EventIdle
<1> QED BY <1>9, <1>13, <1>14 DEF Rest

LEMMA LateRest ==
  ASSUME Lone, Inv, NEW a \in Agents, agent[a] # NoWork, LateReply(a),
         agent' = [agent EXCEPT ![a] = NoWork]
  PROVE  Rest'
<1>1. Base /\ EventInv /\ ChunkInv /\ \A b \in Agents : b = a
  BY InvFacts DEF Lone, LoneAgent
<1>2. /\ disk'.buf = disk.buf /\ disk'.txn = disk.txn
      /\ disk' \in Disks
      /\ tombs' = tombs \ Forgotten(a) /\ UNCHANGED <<jobs, tab>> /\ SetBack(a)
      /\ \A j \in jobs : j.ev # agent[a].ev
      /\ disk' = disk \/ Forgotten(a) # {}
  BY <1>1, LateFacts
<1>3. \A b \in Agents : agent'[b] = NoWork
  BY <1>1, BaseFacts
<1>4. tombs' = {}
  BY <1>1, <1>2 DEF EventInv, Forgotten
<1>5. agent[a].late \/ \A e \in Edits : disk'.text[e] >= kept[e]
  BY <1>1, <1>2, KeptFacts DEF EventInv
<1>6. KeptInv'
  BY <1>2, <1>3, <1>5, KeptLower
<1>7. EventInv'
  BY <1>1, <1>2, <1>3, <1>4, BaseFacts, EventIdle
<1>8. \A j \in jobs : ~(j.attempt = 0 /\ j.applied # {})
  BY <1>1, <1>2 DEF ChunkInv, Asked
<1>9. ChunkInv'
  BY <1>2, <1>8 DEF ChunkInv
<1> QED BY <1>6, <1>7, <1>9 DEF Rest

LEMMA ReplyRest ==
  ASSUME Lone, Inv, NEW a \in Agents, handlePollPost(a) PROVE Rest'
<1>1. agent[a] # NoWork /\ agent' = [agent EXCEPT ![a] = NoWork]
  BY DEF handlePollPost
<1>2. CASE LateReply(a)
  BY <1>1, <1>2, LateRest
<1>3. CASE /\ UNCHANGED tombs
           /\ \E j \in jobs : /\ j.ev = agent[a].ev
                              /\ \E r \in Results(j.asked) :
                                   GoesOn(j.page, tab[j.page], {j}, Answered(disk, j, r))
  BY <1>1, <1>3, AnswerRest
<1> QED BY <1>2, <1>3 DEF handlePollPost

LEMMA EndsRest ==
  ASSUME Lone, Inv, NEW a \in Agents, AgentEnds(a) PROVE Rest'
<1>1. Base /\ EventInv /\ ChunkInv /\ \A b \in Agents : b = a
  BY InvFacts DEF Lone, LoneAgent
<1>2. /\ agent' = [agent EXCEPT ![a] = NoWork] /\ tombs' = tombs \ Forgotten(a)
      /\ UNCHANGED <<disk, up, jobs, tab, kept>>
  BY DEF AgentEnds
<1>3. \A b \in Agents : agent'[b] = NoWork
  BY <1>1, <1>2, BaseFacts
<1>4. tombs' = {}
  BY <1>1, <1>2 DEF EventInv, Forgotten
<1>5. KeptInv'
  BY <1>2, <1>3, <1>4, KeptFacts, KeptSame
<1>6. EventInv'
  BY <1>1, <1>2, <1>3, <1>4, BaseFacts, EventIdle
<1>7. ChunkInv'
  BY <1>1, <1>2, <1>3, ChunkSame
<1> QED BY <1>5, <1>6, <1>7 DEF Rest

(* A commit that times out applies only edits of earlier chunks, and the agent  *)
(* it waited for is late from then on.                                          *)
LEMMA TimeoutLasting ==
  ASSUME Lone, Inv, NEW j \in jobs, FallsLate(j), NEW out,
         j.attempt = 0 => ThrownFirst(disk, j, out),
         j.attempt # 0 => Decides(disk, out) \/ Repairs(disk, j, out)
  PROVE  Lasting(j, out)
<1>1. Base /\ EventInv /\ ChunkInv
  BY InvFacts
<1>2. ASSUME NEW S \in SUBSET (j.applied \ j.asked), S # {}, j.attempt = 0, NEW e \in S
      PROVE  Safe(e)
  <2>1. j.applied # {}
    BY <1>2
  <2>2. \A a \in Agents : agent[a] # NoWork => agent[a].ev = j.ev
    BY <1>1, <1>2, <2>1 DEF ChunkInv, Asked
  <2>3. \A a \in Agents : agent'[a] # NoWork => agent'[a].late
    BY <1>1, <2>2, LateFields
  <2> QED BY <2>3 DEF Safe
<1>3. CASE j.attempt = 0
  <2>1. CASE \E S \in SUBSET (j.applied \ j.asked) : S # {} /\ Applies(disk, j, S, out)
    BY <1>2, <1>3, <2>1 DEF Lasting
  <2> QED BY <1>3, <2>1 DEF ThrownFirst, Lasting, Repairs
<1>4. CASE j.attempt # 0
  BY <1>4 DEF Lasting, Repairs
<1> QED BY <1>3, <1>4

LEMMA TimeoutRest ==
  ASSUME Lone, Inv, NEW p \in Pages, Timeout(p) PROVE Rest'
<1>1. Base /\ LonePage /\ EventInv /\ TxnInv
  BY InvFacts DEF Lone
<1>2. \E j \in jobs :
        /\ tombs' = IF j.ev \in Held THEN tombs \cup {[ev |-> j.ev, was |-> j.evWas]} ELSE tombs
        /\ FallsLate(j)
        /\ Outcome(disk, j, Thrown(disk, j)) /\ Went(j, {j}, Thrown(disk, j))
        /\ j.attempt = 0 => ThrownFirst(disk, j, Thrown(disk, j))
        /\ j.attempt # 0 => Decides(disk, Thrown(disk, j)) \/ Repairs(disk, j, Thrown(disk, j))
  BY <1>1, TimeoutFacts
<1>3. PICK j \in jobs :
        /\ tombs' = IF j.ev \in Held THEN tombs \cup {[ev |-> j.ev, was |-> j.evWas]} ELSE tombs
        /\ FallsLate(j)
        /\ Outcome(disk, j, Thrown(disk, j)) /\ Went(j, {j}, Thrown(disk, j))
        /\ j.attempt = 0 => ThrownFirst(disk, j, Thrown(disk, j))
        /\ j.attempt # 0 => Decides(disk, Thrown(disk, j)) \/ Repairs(disk, j, Thrown(disk, j))
  BY <1>2
<1> DEFINE out == Thrown(disk, j)
           new == [ev |-> j.ev, was |-> j.evWas]
<1>4. Went(j, {j}, out) /\ Outcome(disk, j, out)
      /\ (j.attempt = 0 => ThrownFirst(disk, j, out))
      /\ (j.attempt # 0 => Decides(disk, out) \/ Repairs(disk, j, out))
  BY <1>3
<1> HIDE DEF out
<1>5. /\ disk \in Disks /\ j \in Jobs /\ Batched(disk, j) /\ Framed(j) /\ j.txn \in Pages
      /\ disk.txn # NoTxn /\ jobs \ {j} = {} /\ \A i \in jobs : i = j
      /\ j.evWas.files = FilesOf(j.asked)
  BY <1>1, BaseFacts, LoneFacts, JobFields DEF TxnInv
<1>f. /\ agent' \in [Agents -> {NoWork} \cup Work]
      /\ \A a \in Agents :
           /\ agent'[a] = NoWork <=> agent[a] = NoWork
           /\ agent'[a].ev = agent[a].ev /\ agent'[a].batch = agent[a].batch
           /\ agent[a] # NoWork =>
                /\ agent'[a].wrote = agent[a].wrote
                /\ agent'[a].late <=> (agent[a].late \/ agent[a].ev = j.ev)
  BY <1>1, <1>3, LateFields
<1>6. Lasting(j, out)
  BY <1>3, <1>4, TimeoutLasting
<1>7. new.ev = j.ev /\ new.was = j.evWas
  OBVIOUS
<1>8. \A t \in tombs' : t \in tombs \/ (t = new /\ j.ev \in Held)
  BY <1>3
<1>9. j.ev \in Held => new \in tombs'
  BY <1>3
<1> HIDE DEF new
<1>10. Above(j.was, kept) /\ HeldOn
  BY <1>f, KeptFacts DEF HeldOn
<1>11. KeptInv'
  BY <1>1, <1>4, <1>5, <1>6, <1>f, <1>10, WentKept
<1>12. /\ jobs' = out.next
       /\ out.next = {} \/ (disk' = disk /\ \E k : GoesOnAs(disk, j, k, out))
  <2>1. Lands(disk, j, Closed(out), out)
    BY <1>4, <1>5, OutcomeLands
  <2> QED BY <1>4, <1>5, <2>1 DEF Went, Lands
<1>13. \A k \in jobs' : k.ev \notin Held
  BY <1>12 DEF GoesOnAs
<1>14. ChunkInv'
  <2>1. \A k \in jobs' : k.attempt > 0
    <3>1. \/ out = Undone(disk, j) \/ (\E S : Applies(disk, j, S, out))
          \/ Decides(disk, out) \/ Repairs(disk, j, out)
      BY <1>4 DEF ThrownFirst
    <3>2. out.next = {} \/ Repairs(disk, j, out)
      BY <3>1 DEF Undone, Applies, Applied, Ended, Decides
    <3> QED BY <1>12, <3>2 DEF Repairs, GoesOnAs
  <2> QED BY <2>1 DEF ChunkInv
<1>15. EventInv'
  <2>1. \A a \in Agents : \A k \in jobs' : ~Asked(a, k)'
    BY <1>f, <1>13 DEF Asked, Held
  <2>2. \A t \in tombs' : \E a \in Agents : agent'[a].ev = t.ev
    BY <1>1, <1>f, <1>7, <1>8 DEF EventInv, Held
  <2>3. \A t \in tombs' : \A k \in jobs' : k.ev # t.ev
    BY <1>f, <1>13, <2>2 DEF Held
  <2>4. ASSUME NEW a \in Agents, NEW t \in Forgotten(a)', NEW e \in DOMAIN agent'[a].batch
        PROVE  FileOf[e] \in t.was.files
    <3>1. t \in tombs' /\ t.ev = agent[a].ev
      BY <1>f, <2>4 DEF Forgotten
    <3>2. CASE t \in tombs
      BY <1>1, <1>f, <2>4, <3>1, <3>2 DEF EventInv, Forgotten
    <3>3. CASE t = new
      <4>1. agent[a].batch = [x \in j.asked |-> j.batch[x]]
        BY <1>1, <1>7, <3>1, <3>3 DEF EventInv, Asked
      <4>2. e \in j.asked /\ j.asked \in SUBSET Edits
        BY <1>f, <1>5, <2>4, <4>1, JobFields
      <4> QED BY <1>5, <1>7, <3>3, <4>2, FilesOfFacts
    <3> QED BY <1>8, <3>1, <3>2, <3>3
  <2>5. ASSUME NEW a \in Agents, Orphaned(a)'
        PROVE  /\ \A k \in jobs' : k.attempt = 0 /\ k.applied = {}
               /\ \A q \in Pages : tab'[q].sse = "dead" \/ ~tab'[q].buttons
    <3>1. agent[a] # NoWork /\ \A t \in tombs' : t.ev # agent[a].ev
      BY <1>f, <2>5 DEF Orphaned, Forgotten
    <3>2. j.ev # agent[a].ev
      BY <1>7, <1>9, <3>1 DEF Held
    <3>3. Orphaned(a)
      BY <1>3, <1>5, <3>1, <3>2 DEF Orphaned, Forgotten, Asked
    <3>4. /\ j.attempt = 0 /\ j.applied = {}
          /\ \A q \in Pages : tab[q].sse = "dead" \/ ~tab[q].buttons
      BY <1>1, <3>3 DEF EventInv
    <3>5. out = Undone(disk, j)
      BY <1>4, <3>4 DEF ThrownFirst
    <3>6. out.next = {} /\ out.told = "commit_done"
      BY <3>5 DEF Undone, Ended
    <3>7. PICK T \in Tabs : tab' = [tab EXCEPT ![j.page] = T]
                            /\ (T.buttons => out.told = "needs_decision")
      BY <1>4 DEF Went
    <3>8. Quiet
      BY <1>1, <1>5, <3>6, <3>7, JobFields, QuietStep
    <3> QED BY <1>12, <3>4, <3>6, <3>8 DEF Quiet
  <2>6. ASSUME NEW a \in Agents, NEW t \in Forgotten(a)' PROVE agent'[a].late
    <3>1. t \in tombs' /\ t.ev = agent[a].ev
      BY <1>f, <2>6 DEF Forgotten
    <3>2. agent[a] # NoWork
      <4>1. t.ev \in Events
        BY <1>1, <1>5, <1>7, <1>8, <3>1, BaseFacts, JobFields
      <4> QED BY <3>1, <4>1, NoEvent
    <3>3. CASE t \in tombs
      BY <1>1, <1>f, <3>1, <3>2, <3>3 DEF EventInv, Forgotten
    <3>4. CASE t = new
      BY <1>f, <1>7, <3>1, <3>2, <3>4
    <3> QED BY <1>8, <3>1, <3>3, <3>4
  <2> QED BY <2>1, <2>2, <2>3, <2>4, <2>5, <2>6 DEF EventInv
<1> QED BY <1>11, <1>14, <1>15 DEF Rest

(* What the server does of itself. *)
LEMMA DiedRest ==
  ASSUME Base', Died, \A p \in Pages : tab'[p].sse = "dead", KeptInv' PROVE Rest'
<1>1. jobs' = {} /\ tombs' = {}
  BY DEF Died
<1> QED BY <1>1 DEF Rest, EventInv, ChunkInv, Forgotten

LEMMA CrashRest ==
  ASSUME Inv, Crash PROVE Rest'
<1>1. Died /\ UNCHANGED <<disk, agent, kept>> /\ Base
  BY InvFacts DEF Crash
<1>2. Base' /\ \A p \in Pages : tab'[p].sse = "dead"
  BY <1>1, BaseFacts, DiedBase
<1>3. KeptInv'
  BY <1>1, KeptFacts, KeptSame DEF Died
<1> QED BY <1>1, <1>2, <1>3, DiedRest

(* A commit at whose end the server dies takes nothing back that was told to be *)
(* applied; what it applied itself is kept unless a transaction that is left on *)
(* disk may undo it.                                                            *)
LEMMA DeadKept ==
  ASSUME Inv, NEW j \in Jobs, NEW out, EndsDead(j, out), Lasting(j, out),
         Above(j.was, kept), HeldOn, agent' \in [Agents -> {NoWork} \cup Work]
  PROVE  KeptInv'
<1>1. Base /\ disk \in Disks /\ Batched(disk, j) /\ out.clears # NoPage
  BY InvFacts, BaseFacts DEF EndsDead, DiesIn
<1>2. /\ disk' \in Disks /\ disk'.txn = disk.txn /\ jobs' = {}
      /\ kept' = IF SafeOnDisk(disk') THEN Kept(disk') ELSE kept
  BY <1>1, DeadFacts DEF Died
<1>3. CASE out = Undone(disk, j)
  <2>1. /\ disk'.buf = disk.buf
        /\ \A e \in Edits : disk'.text[e] = IF FileOf[e] \in j.was.files
                                              THEN j.was.text[e] ELSE disk.text[e]
    BY <1>1, <1>3, DeadFacts
  <2>2. kept' = kept
    BY <1>1, <1>2, <2>1, KeptTypes
  <2>3. \A e \in Edits : disk'.text[e] >= kept[e]
    BY <2>1, JobFields, RestoredAbove
  <2>4. ~SafeOnDisk(disk') => Above(disk'.txn.was, kept)
    BY <1>2, <2>1, SafeSame, KeptFacts
  <2> QED BY <1>2, <2>1, <2>2, <2>3, <2>4, HeldKept, KeptFacts, KeptSame
<1>4. ASSUME NEW S, Applies(disk, j, S, out), \A e \in S : Safe(e) PROVE KeptInv'
  <2>1. /\ disk'.text = disk.text /\ DOMAIN disk'.buf = DOMAIN disk.buf \ S
        /\ \A e \in DOMAIN disk.buf \ S : disk'.buf[e] = disk.buf[e]
    BY <1>1, <1>4, DeadFacts
  <2>2. CASE SafeOnDisk(disk')
    BY <1>1, <1>2, <1>4, <2>1, <2>2, AppliedKept
  <2>3. CASE ~SafeOnDisk(disk')
    <3>1. kept' = kept
      BY <1>2, <2>3
    <3>2. ~SafeOnDisk(disk)
      BY <1>2, <2>1, <2>3, SafeSame
    <3>3. Above(disk'.txn.was, kept)
      BY <1>2, <3>2, KeptFacts
    <3>4. \A e \in DOMAIN disk'.buf : disk'.buf[e].new >= kept[e]
      BY <2>1, KeptFacts
    <3>5. \A e \in Edits : disk'.text[e] >= kept[e]
      BY <2>1, KeptFacts
    <3> QED BY <1>2, <3>1, <3>3, <3>4, <3>5, HeldKept, KeptSame
  <2> QED BY <2>2, <2>3
<1>5. out = Undone(disk, j) \/ \E S : Applies(disk, j, S, out) /\ \A e \in S : Safe(e)
  BY <1>1 DEF Lasting, Decides, GoesOnAs
<1> QED BY <1>3, <1>4, <1>5

LEMMA AtEndRest ==
  ASSUME Lone, Inv, CrashAtEnd PROVE Rest'
<1>1. Base /\ EventInv /\ ChunkInv /\ LonePage /\ LoneAgent /\ disk \in Disks
      /\ agent \in [Agents -> {NoWork} \cup Work] /\ jobs \subseteq Jobs
  BY InvFacts, BaseFacts DEF Lone
<1>2. agent' \in [Agents -> {NoWork} \cup Work] /\ HeldOn
  BY <1>1, AtEndFacts DEF HeldOn
<1>3. ASSUME NEW j \in Jobs, NEW out, EndsDead(j, out), Lasting(j, out), Above(j.was, kept)
      PROVE  Rest'
  <2>1. Died /\ disk' \in Disks /\ IsFiniteSet(DOMAIN disk'.buf) /\ kept' \in [Edits -> Versions]
    BY <1>1, <1>3, DeadFacts
  <2>2. Base' /\ \A p \in Pages : tab'[p].sse = "dead"
    BY <1>1, <1>2, <2>1, DiedBase
  <2>3. KeptInv'
    BY <1>2, <1>3, DeadKept
  <2> QED BY <2>1, <2>2, <2>3, DiedRest
<1>4. ASSUME NEW j \in jobs, NEW out, EndsDead(j, out), UNCHANGED agent,
             j.attempt = 0, ThrownFirst(disk, j, out)
      PROVE  Rest'
  <2>1. out.clears # NoPage /\ Framed(j)
    BY <1>4 DEF EndsDead, DiesIn
  <2>2. ASSUME NEW S \in SUBSET (j.applied \ j.asked), S # {}, Applies(disk, j, S, out)
        PROVE  \A e \in S : Safe(e)
    <3> SUFFICES ASSUME NEW e \in S, NEW a \in Agents, agent[a] # NoWork
                 PROVE  e \notin DOMAIN agent[a].batch
      BY <1>4 DEF Safe
    <3>1. Asked(a, j)
      BY <1>1, <1>4, <2>2 DEF ChunkInv
    <3>2. agent[a].batch = [x \in j.asked |-> j.batch[x]]
      BY <1>1, <3>1 DEF EventInv
    <3> QED BY <2>2, <3>2
  <2>3. out = Undone(disk, j) \/ \E S \in SUBSET (j.applied \ j.asked) :
                                   S # {} /\ Applies(disk, j, S, out)
    BY <1>4, <2>1 DEF ThrownFirst, Repairs, GoesOnAs
  <2>4. Lasting(j, out)
    BY <2>2, <2>3 DEF Lasting
  <2> QED BY <1>1, <1>3, <1>4, <2>4, KeptFacts
<1>5. ASSUME NEW a \in Agents, NEW j \in jobs, NEW out, EndsDead(j, out),
             agent' = [agent EXCEPT ![a] = NoWork]
      PROVE  Rest'
  <2>1. \A b \in Agents : agent'[b] = NoWork
    BY <1>1, <1>5 DEF LoneAgent
  <2>2. Lasting(j, out)
    BY <1>5, <2>1 DEF Lasting, EndsDead, Safe
  <2> QED BY <1>1, <1>3, <1>5, <2>2, KeptFacts
<1>6. ASSUME NEW p \in Pages, NEW j \in Jobs, NEW out, EndsDead(j, out), UNCHANGED agent,
             Fixes(j, p), MayKeepFixing(p)
      PROVE  Rest'
  <2>1. Live(p) /\ tab[p].buttons
    BY <1>6 DEF MayKeepFixing
  <2>2. jobs = {}
    BY <1>1, <2>1, NoCommit, LoneFacts
  <2>3. \A e : Safe(e)
    BY <1>6, <2>2, LateUnlessAsked DEF Safe
  <2>4. Lasting(j, out)
    BY <1>6, <2>3 DEF Lasting, EndsDead
  <2>5. FilesOf(DOMAIN j.batch) \in SUBSET Files
    BY JobFields, TextsFacts, FilesOfFacts
  <2>6. Above(j.was, kept)
    BY <1>1, <1>6, <2>5, KeptFacts, SnapshotAbove DEF Fixes
  <2> QED BY <1>3, <1>6, <2>4, <2>6
<1> QED BY <1>1, <1>4, <1>5, <1>6, AtEndFacts

LEMMA StartRest ==
  ASSUME Inv, Start PROVE Rest'
<1>1. Base /\ disk \in Disks /\ EventInv
  BY InvFacts, BaseFacts
<1>2. /\ ~up /\ disk' = rollbackTransaction(disk, Pages)
      /\ UNCHANGED <<jobs, tombs, agent, tab, kept>>
  BY DEF Start
<1>3. jobs' = {}
  BY <1>1, <1>2, BaseFacts
<1>4. disk'.buf = disk.buf /\ disk'.txn = NoTxn
  BY <1>1, <1>2, DiskFields, TxnFacts, RollbackFacts
<1>5. \A e \in Edits : disk'.text[e] >= kept[e]
  BY <1>2, RollbackAbove
<1>6. KeptInv'
  BY <1>2, <1>3, <1>4, <1>5, SafeNoTxn, KeptFacts, KeptSame
<1>7. EventInv' /\ ChunkInv'
  BY <1>1, <1>2, <1>3, EventSame, ChunkNone DEF Quiet
<1> QED BY <1>6, <1>7 DEF Rest

LEMMA InvInit ==
  ASSUME Init PROVE Inv
<1>1. Base /\ TxnInv
  BY InitBase, InitTxn
<1>2. /\ disk.buf = <<>> /\ disk.text = [e \in Edits |-> 0] /\ disk.txn = NoTxn
      /\ kept = [e \in Edits |-> 0] /\ jobs = {} /\ tombs = {}
      /\ \A a \in Agents : agent[a] = NoWork
  BY DEF Init
<1>3. DOMAIN disk.buf = {}
  BY <1>2
<1>4. \A e \in Edits : disk.text[e] >= kept[e]
  BY <1>2
<1>5. KeptInv
  BY <1>2, <1>3, <1>4, SafeNoTxn DEF KeptInv, NoEditLost
<1>6. EventInv /\ ChunkInv
  BY <1>2 DEF EventInv, ChunkInv, Forgotten, Orphaned
<1> QED BY <1>1, <1>5, <1>6 DEF Inv

LEMMA InvStep ==
  ASSUME Lone, Inv, [Next]_vars PROVE Inv'
<1>1. Base' /\ TxnInv'
  BY InvFacts, BaseStep, TxnStep DEF Lone
<1>2. CASE UNCHANGED vars
  <2>1. UNCHANGED <<disk, jobs, tombs, agent, kept>> /\ Quiet
    BY <1>2 DEF vars, Quiet
  <2> QED BY <1>1, <2>1, DockRest DEF Inv, Rest
<1>3. CASE \E e \in Edits : applyEditing(e)
  BY <1>1, <1>3, SaveRest DEF Inv, Rest
<1>4. CASE \E p \in Pages : \/ onPendingPillClick(p) \/ onPendingKeepFixingClick(p)
                            \/ onPendingRollbackClick(p) \/ onPendingTrashClick(p)
                            \/ Reload(p) \/ StoredExpires(p) \/ Cut(p) \/ Reconnect(p)
                            \/ Timeout(p)
  <2>1. Rest'
    BY <1>4, ApplyRest, FixRest, RollbackRest, TrashRest, DocksRest, TimeoutRest
  <2> QED BY <1>1, <2>1 DEF Inv, Rest
<1>5. CASE \E a \in Agents : Take(a) \/ Write(a) \/ handlePollPost(a) \/ AgentEnds(a)
  <2>1. Rest'
    BY <1>5, TakeRest, WriteRest, ReplyRest, EndsRest
  <2> QED BY <1>1, <2>1 DEF Inv, Rest
<1>6. CASE Crash \/ CrashAtEnd \/ Start
  BY <1>1, <1>6, CrashRest, AtEndRest, StartRest DEF Inv, Rest
<1> QED BY <1>2, <1>3, <1>4, <1>5, <1>6 DEF Next

(* No edit that was told to be applied gets lost, whatever of the agent, the    *)
(* server and the page fails in the middle of an apply or at its end, between   *)
(* the two writes that end it (live-commit-manual-edits.mjs:568,                *)
(* live/manual-edit-routes.mjs:210, live/manual-apply.mjs, live-browser.js); of *)
(* one page, with the one agent that polls.                                     *)
THEOREM NoEditGetsLost == Lone => (Spec => []EditsKept)
<1> SUFFICES ASSUME Lone PROVE Spec => []EditsKept
  OBVIOUS
<1>1. Init => Inv
  BY InvInit
<1>2. Inv /\ [Next]_vars => Inv'
  BY InvStep
<1>3. Inv => EditsKept
  <2> SUFFICES ASSUME Inv PROVE EditsKept
    OBVIOUS
  <2>1. TypeOK /\ OneApply
    BY DEF Inv, Base, ApplyInv, OneApply, Shown
  <2>2. NoEditLost
    BY DEF Inv, KeptInv
  <2>3. CrashSafe
    BY InvFacts, CrashSafeFacts DEF Lone
  <2> QED BY <2>1, <2>2, <2>3 DEF EditsKept
<1> QED BY <1>1, <1>2, <1>3, PTL DEF Spec

================================================================================
