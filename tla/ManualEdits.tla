---------------------------- MODULE ManualEdits ----------------------------
(***************************************************************************)
(* Copy edits of live mode (.agents/skills/impeccable/scripts): a page     *)
(* saves edits of its text into a buffer on disk; Apply hands the buffer   *)
(* to a coding agent that rewrites the source, checks the result, repairs  *)
(* or undoes it, and drops from the buffer what was applied                *)
(* (live/manual-edits-buffer.mjs, live/manual-edit-routes.mjs,             *)
(* live/manual-apply.mjs, live-commit-manual-edits.mjs,                    *)
(* live-copy-edit-agent.mjs, and live-browser.js for the page).            *)
(*                                                                         *)
(* The server is one process: an action is a request or a timer it         *)
(* handles, up to the next wait for an agent.  A Save stages one edit, an  *)
(* entry of one op; a text is the number of its version.  A page is open   *)
(* in one tab, and hears what the server broadcasts at once or, when its   *)
(* connection is cut, never.                                               *)
(***************************************************************************)
EXTENDS Naturals, Sequences, FiniteSets, SequencesExt

CONSTANTS
  Pages, Edits, Files,
  PageOf, FileOf,  \* the page of an edit, and the file its text is in
  Agents,          \* coding agents that poll
  ChunkSize,       \* ops an agent is given at a time
  MaxRepairs,      \* attempts to repair what an agent wrote
  MaxVersion       \* bound: versions of a text

ASSUME EditsAssumption == PageOf \in [Edits -> Pages] /\ FileOf \in [Edits -> Files]
ASSUME BoundsAssumption == /\ ChunkSize \in Nat \ {0} /\ MaxRepairs \in Nat \ {0}
                           /\ MaxVersion \in Nat /\ IsFiniteSet(Pages \cup Agents)

VARIABLES
  disk,   \* the buffer, the texts of the source, its files that do not
          \* build, and the transaction file
  up,     \* the server runs
  jobs,   \* the commits that wait for an agent
  tombs,  \* apply events that timed out while an agent holds them
  agent,  \* the work an agent holds
  tab,    \* per page, its connection and its dock of pending edits
  kept    \* history: the version of each text that was last applied and told so,
          \* or what an agent late with an event that timed out made of it since

vars == <<disk, up, jobs, tombs, agent, tab, kept>>

Versions == 0..MaxVersion
Events == 1..(Cardinality(Pages) + Cardinality(Agents) + 1)
NoPage == "no page"
NoWork == [ev |-> 0]
NoTxn == [page |-> NoPage]

ASSUME PagesAssumption == NoPage \notin Pages

Snapshots == UNION {[files : {F}, text : [{e \in Edits : FileOf[e] \in F} -> Versions],
                     broken : SUBSET F] : F \in SUBSET Files}
Texts == UNION {[S -> Versions] : S \in SUBSET Edits}
Buffers == UNION {[S -> [orig : Versions, new : Versions]] : S \in SUBSET Edits}
Transactions == [page : Pages, ids : SUBSET Edits, was : Snapshots]

Disks == [buf : Buffers, text : [Edits -> Versions], broken : SUBSET Files,
          txn : {NoTxn} \cup Transactions]

Jobs == [page : Pages, again : BOOLEAN, txn : Pages, batch : Texts, was : Snapshots,
         todo : Seq(SUBSET Edits), asked : SUBSET Edits, applied : SUBSET Edits,
         failed : SUBSET Edits, files : SUBSET Files, attempt : 0..MaxRepairs,
         ev : Events, evWas : Snapshots]

\* late: the event timed out while the agent held it (history)
Work == [ev : Events, batch : Texts, wrote : BOOLEAN, late : BOOLEAN]

Tabs == [sse : {"on", "cut", "dead"}, shown : BOOLEAN, locked : BOOLEAN,
         pill : BOOLEAN, stored : BOOLEAN, buttons : BOOLEAN]

TypeOK ==
  /\ disk \in Disks
  /\ up \in BOOLEAN
  /\ jobs \subseteq Jobs
  /\ tombs \subseteq [ev : Events, was : Snapshots]
  /\ agent \in [Agents -> {NoWork} \cup Work]
  /\ tab \in [Pages -> Tabs]
  /\ kept \in [Edits -> Versions]

FreshTab == [sse |-> "on", shown |-> FALSE, locked |-> FALSE, pill |-> TRUE,
             stored |-> FALSE, buttons |-> FALSE]

Init ==
  /\ disk = [buf |-> <<>>, text |-> [e \in Edits |-> 0], broken |-> {}, txn |-> NoTxn]
  /\ up = TRUE /\ jobs = {} /\ tombs = {}
  /\ agent = [a \in Agents |-> NoWork]
  /\ tab = [p \in Pages |-> FreshTab]
  /\ kept = [e \in Edits |-> 0]

(***************************************************************************)
(* The disk                                                                *)
(***************************************************************************)
Staged(d, p) == {e \in DOMAIN d.buf : PageOf[e] = p}
Unstaged(d, S) == [d EXCEPT !.buf = [e \in DOMAIN d.buf \ S |-> d.buf[e]]]
FilesOf(S) == {FileOf[e] : e \in S}
buildManualEditEvidence(d, p) == [e \in Staged(d, p) |-> d.buf[e].new]

Snapshot(d, F) ==
  [files |-> F, text |-> [e \in {x \in Edits : FileOf[x] \in F} |-> d.text[e]],
   broken |-> d.broken \cap F]

Restored(d, s) ==
  [d EXCEPT !.text = [e \in Edits |-> IF FileOf[e] \in s.files THEN s.text[e] ELSE d.text[e]],
            !.broken = (@ \ s.files) \cup s.broken]

stageEntry(d, e, new) ==
  [d EXCEPT !.buf = [x \in DOMAIN d.buf \cup {e} |->
     IF x # e THEN d.buf[x]
     ELSE [orig |-> IF e \in DOMAIN d.buf THEN d.buf[e].orig ELSE d.text[e], new |-> new]]]

rollbackTransaction(d, pages) ==
  CASE d.txn.page \notin pages -> d
    [] d.txn.page \in pages /\ d.txn.ids \cap DOMAIN d.buf = {} -> [d EXCEPT !.txn = NoTxn]
    [] OTHER -> [Restored(d, d.txn.was) EXCEPT !.txn = NoTxn]

clearTransaction(d, page) == IF d.txn.page = page THEN [d EXCEPT !.txn = NoTxn] ELSE d

(***************************************************************************)
(* The dock of a page.  pill: Apply can be clicked; stored: sessionStorage *)
(* remembers an Apply under way; buttons: Keep fixing and Rollback show.   *)
(***************************************************************************)
setPendingApplyLoading(t, loading) ==
  [t EXCEPT !.locked = loading, !.stored = loading, !.pill = ~loading,
            !.buttons = @ /\ ~loading]

hidePendingApplyDock(t) ==
  [t EXCEPT !.locked = FALSE, !.stored = FALSE, !.shown = FALSE, !.pill = TRUE, !.buttons = FALSE]

updatePendingCounter(t, pending) ==
  CASE ~pending -> hidePendingApplyDock(t)
    [] pending /\ (t.locked \/ t.stored) -> setPendingApplyLoading([t EXCEPT !.shown = TRUE], TRUE)
    [] OTHER -> [t EXCEPT !.shown = TRUE]

showManualApplyDecision(t) ==
  [t EXCEPT !.locked = FALSE, !.stored = TRUE, !.pill = FALSE, !.buttons = TRUE]

Deciding(t) == t.buttons /\ t.stored

(* What a page makes of a broadcast, when edits of it are pending or not.  *)
handleManualEditActivity(t, told, pending) ==
  CASE t.sse # "on" -> t
    [] t.sse = "on" /\ told = "commit_done" ->
         updatePendingCounter(setPendingApplyLoading(t, FALSE), pending)
    [] t.sse = "on" /\ told = "needs_decision" -> showManualApplyDecision(t)
    [] t.sse = "on" /\ told = "repairing" /\ t.shown -> setPendingApplyLoading(t, TRUE)
    [] OTHER -> t

(***************************************************************************)
(* A commit.  Each operator gives the disk, the page whose transaction is  *)
(* then cleared, the commit as it goes on (no commit, or the one) and what *)
(* the server broadcasts.                                                  *)
(***************************************************************************)
Held == {agent[a].ev : a \in Agents}

(* The commit sends the agents the edits asked, as a new event.            *)
pushApplyEventAndWait(d, j, asked) ==
  [j EXCEPT !.asked = asked,
            !.ev = CHOOSE i \in Events : i \notin Held /\ \A k \in jobs : k.ev # i,
            !.evWas = Snapshot(d, FilesOf(asked))]

Chunks(S) ==
  LET q == SetToSeq(S)
      Chunk(i) == {q[k] : k \in {n \in DOMAIN q : (n - 1) \div ChunkSize = i - 1}}
  IN [i \in 1..((Len(q) + ChunkSize - 1) \div ChunkSize) |-> Chunk(i)]

(* Mutant: the transaction stays on disk after an Apply that succeeded.    *)
EndedMutant(d, j) == [disk |-> d, clears |-> NoPage, next |-> {}, told |-> "commit_done"]

Ended(d, j) == [disk |-> d, clears |-> j.txn, next |-> {}, told |-> "commit_done"]

Undone(d, j) == Ended(Restored(d, j.was), j)
Applied(d, j, S) == Ended(Unstaged(d, S), j)

(* Mutant: attempts are not counted.                                       *)
RepairedMutant(d, j, applied, files) ==
  [disk |-> d, clears |-> NoPage, told |-> "repairing",
   next |-> {pushApplyEventAndWait(d, [j EXCEPT !.attempt = 1, !.applied = applied,
                                                !.files = files], DOMAIN j.batch)}]

(* Mutant: one attempt too many.                                           *)
RepairedMoreMutant(d, j, applied, files) ==
  IF j.attempt > MaxRepairs
    THEN [disk |-> d, clears |-> NoPage, next |-> {}, told |-> "needs_decision"]
    ELSE [disk |-> d, clears |-> NoPage, told |-> "repairing",
          next |-> {pushApplyEventAndWait(d, [j EXCEPT !.attempt = @ + 1, !.applied = applied,
                                                       !.files = files], DOMAIN j.batch)}]

(* The next attempt at repair, or the user's decision.                     *)
Repaired(d, j, applied, files) ==
  IF j.attempt = MaxRepairs
    THEN [disk |-> d, clears |-> NoPage, next |-> {}, told |-> "needs_decision"]
    ELSE [disk |-> d, clears |-> NoPage, told |-> "repairing",
          next |-> {pushApplyEventAndWait(d, [j EXCEPT !.attempt = @ + 1, !.applied = applied,
                                                       !.files = files], DOMAIN j.batch)}]

Verified(d, j, S) == \A e \in S : d.text[e] = j.batch[e]
runCopyEditPostApplyChecks(d, files) == d.broken \cap files = {}

unreportedChangedFiles(d, j, files) ==
  {f \in j.was.files \ files : Snapshot(d, {f}) # Snapshot(Restored(d, j.was), {f})}

(* Mutant: the edits that were not applied are not looked for.             *)
findUnappliedEntrySourceChangesMutant(d, j, applied) == {}

findUnappliedEntrySourceChanges(d, j, applied) ==
  {e \in DOMAIN j.batch \ applied : d.text[e] = j.batch[e] /\ j.was.text[e] # j.batch[e]}

Conflicts(d, j, r) ==
  \/ r.status = "error"
  \/ r.applied \cap r.failed # {}
  \/ unreportedChangedFiles(d, j, r.files) # {}
  \/ r.status = "done" /\ r.applied = {}

(* What follows the first pass, whose result is r.                         *)
commitManualEdits(d, j, r) ==
  CASE Conflicts(d, j, r) -> Undone(d, j)
    [] ~Conflicts(d, j, r) /\ r.applied # {} /\ r.files = {} -> Repaired(d, j, r.applied, {})
    [] OTHER ->
         CASE findUnappliedEntrySourceChanges(d, j, r.applied) # {} -> Undone(d, j)
           [] findUnappliedEntrySourceChanges(d, j, r.applied) = {}
                /\ ~Verified(d, j, r.applied) -> Repaired(d, j, r.applied, r.files)
           [] OTHER ->
                IF ~runCopyEditPostApplyChecks(d, r.files)
                  THEN Repaired(d, j, IF r.applied = {} THEN DOMAIN j.batch ELSE r.applied,
                                r.files)
                  ELSE Applied(d, j, r.applied)

(* The answer r to an attempt at repair.                                   *)
repairPostApplyValidation(d, j, r) ==
  LET applied == j.applied \cup r.applied
      files == j.files \cup r.files
  IN IF ~Verified(d, j, applied) \/ ~runCopyEditPostApplyChecks(d, files)
       THEN Repaired(d, j, applied, files)
       ELSE Applied(d, j, applied)

(* A pass in several chunks, of which the last has been answered, or that  *)
(* is given up.                                                            *)
ChunksEnd(d, j) ==
  LET failed == j.failed \cup (DOMAIN j.batch \ j.applied)
      applied == j.applied \ failed
  IN commitManualEdits(d, j,
       [applied |-> applied, failed |-> failed, files |-> j.files,
        status |-> CASE failed = {} -> "done"
                     [] failed # {} /\ applied # {} -> "partial"
                     [] OTHER -> "error"])

(* Mutant: the transaction is written anew for every chunk.                *)
pushBatchInChunksAndWaitMutant(d, j, r) ==
  LET applied == IF r.status = "error" THEN {} ELSE r.applied \ r.failed
      k == [j EXCEPT !.applied = @ \cup applied, !.failed = @ \cup (j.asked \ applied),
                     !.files = @ \cup r.files]
  IN IF r.status = "error" \/ k.todo = <<>>
       THEN ChunksEnd(d, k)
       ELSE [disk |-> [d EXCEPT !.txn.was = Snapshot(d, j.was.files)], clears |-> NoPage,
             told |-> "nothing",
             next |-> {pushApplyEventAndWait(d, [k EXCEPT !.todo = Tail(@)], Head(k.todo))}]

pushBatchInChunksAndWait(d, j, r) ==
  LET applied == IF r.status = "error" THEN {} ELSE r.applied \ r.failed
      k == [j EXCEPT !.applied = @ \cup applied, !.failed = @ \cup (j.asked \ applied),
                     !.files = @ \cup r.files]
  IN IF r.status = "error" \/ k.todo = <<>>
       THEN ChunksEnd(d, k)
       ELSE [disk |-> d, clears |-> NoPage, told |-> "nothing",
             next |-> {pushApplyEventAndWait(d, [k EXCEPT !.todo = Tail(@)], Head(k.todo))}]

InChunks(j) == Cardinality(DOMAIN j.batch) > ChunkSize

Answered(d, j, r) ==
  CASE j.attempt > 0 -> repairPostApplyValidation(d, j, r)
    [] j.attempt = 0 /\ InChunks(j) -> pushBatchInChunksAndWait(d, j, r)
    [] OTHER -> commitManualEdits(d, j, r)

(* The event of the commit was not answered in time.                       *)
Thrown(d, j) ==
  CASE j.attempt > 0 -> Repaired(d, j, j.applied, j.files)
    [] j.attempt = 0 /\ InChunks(j) -> ChunksEnd(d, [j EXCEPT !.failed = @ \cup j.asked])
    [] OTHER -> Undone(d, j)

(* The edits dropped from the buffer are applied, or nothing left on disk  *)
(* takes them back.                                                        *)
Kept(d) == [e \in Edits |-> IF e \in DOMAIN disk.buf \ DOMAIN d.buf
                              THEN disk.buf[e].new ELSE kept[e]]

SafeOnDisk(d) == d.txn # NoTxn => d.txn.ids \cap DOMAIN d.buf = {}

Closed(out) == clearTransaction(out.disk, out.clears)

(* The commit j of page p goes on as out says; p waits with its dock as t. *)
GoesOn(p, t, before, out) ==
  /\ disk' = Closed(out) /\ kept' = Kept(Closed(out))
  /\ jobs' = (jobs \ before) \cup out.next
  /\ tab' = [tab EXCEPT ![p] =
       handleManualEditActivity(t, out.told, Staged(Closed(out), p) # {})]

Died ==
  /\ up
  /\ up' = FALSE /\ jobs' = {} /\ tombs' = {}
  /\ tab' = [p \in Pages |-> [tab[p] EXCEPT !.sse = "dead"]]

(* The server dies at the end of a commit, when the buffer or the source   *)
(* is written and the transaction not yet cleared.                         *)
DiesIn(out) ==
  /\ out.clears # NoPage
  /\ disk' = out.disk
  /\ kept' = IF SafeOnDisk(out.disk) THEN Kept(out.disk) ELSE kept
  /\ Died

(***************************************************************************)
(* The page                                                                *)
(***************************************************************************)
Live(p) == up /\ tab[p].sse # "dead"

(* Save of an edit.                                                        *)
applyEditing(e) ==
  LET p == PageOf[e]
      shown == IF e \in DOMAIN disk.buf THEN disk.buf[e].new ELSE disk.text[e]
  IN /\ Live(p) /\ ~tab[p].locked /\ shown < MaxVersion
     /\ disk' = stageEntry(disk, e, shown + 1)
     /\ tab' = [tab EXCEPT ![p] = updatePendingCounter(@, TRUE)]
     /\ UNCHANGED <<up, jobs, tombs, agent, kept>>

(* The commit that Apply starts on disk d, whose snapshot is the           *)
(* transaction it writes.                                                  *)
Commit(d, p) ==
  LET S == Staged(d, p)
      was == Snapshot(d, FilesOf(S))
      chunks == Chunks(S)
      d2 == [d EXCEPT !.txn = [page |-> p, ids |-> S, was |-> was]]
      j == [page |-> p, again |-> FALSE, txn |-> p, batch |-> buildManualEditEvidence(d, p),
            was |-> was, todo |-> Tail(chunks), asked |-> {}, applied |-> {}, failed |-> {},
            files |-> {}, attempt |-> 0, ev |-> 1, evWas |-> was]
  IN [disk |-> d2, clears |-> NoPage, told |-> "nothing",
      next |-> {pushApplyEventAndWait(d2, j, Head(chunks))}]

Locked(p) == [tab EXCEPT ![p] = setPendingApplyLoading(@, TRUE)]

(* Apply.  No agent may seem to be there, and the commit fails at once.    *)
onPendingPillClick(p) ==
  LET d == rollbackTransaction(disk, {p})
  IN /\ Live(p) /\ tab[p].shown /\ ~tab[p].locked /\ tab[p].pill
     /\ \/ /\ Staged(d, p) # {}
           /\ disk' = Commit(d, p).disk
           /\ jobs' = jobs \cup Commit(d, p).next
           /\ tab' = Locked(p) /\ kept' = kept
        \/ GoesOn(p, Locked(p)[p], {},
                  [disk |-> d, clears |-> NoPage, next |-> {}, told |-> "commit_done"])
     /\ UNCHANGED <<up, tombs, agent>>

(* Keep fixing: a commit under the transaction there is, that takes all    *)
(* staged edits for applied and goes on to check and repair them.          *)
RepairOnly(p) ==
  LET S == Staged(disk, p)
      was == Snapshot(disk, FilesOf(S))
      j == [page |-> p, again |-> TRUE, txn |-> disk.txn.page,
            batch |-> buildManualEditEvidence(disk, p), was |-> was, todo |-> <<>>, asked |-> {},
            applied |-> {}, failed |-> {}, files |-> {}, attempt |-> 0, ev |-> 1, evWas |-> was]
      all == [status |-> "done", applied |-> S, failed |-> {}, files |-> FilesOf(S)]
  IN IF S = {} THEN [disk |-> disk, clears |-> NoPage, next |-> {}, told |-> "commit_done"]
     ELSE commitManualEdits(disk, j, all)

MayKeepFixing(p) == Live(p) /\ tab[p].shown /\ tab[p].buttons

onPendingKeepFixingClick(p) ==
  /\ MayKeepFixing(p)
  /\ IF disk.txn # NoTxn
       THEN GoesOn(p, Locked(p)[p], {}, RepairOnly(p))
       ELSE /\ tab' = [tab EXCEPT ![p] = showManualApplyDecision(Locked(p)[p])]
            /\ UNCHANGED <<disk, jobs, kept>>
  /\ UNCHANGED <<up, tombs, agent>>

onPendingRollbackClick(p) ==
  /\ Live(p) /\ tab[p].buttons
  /\ disk' = rollbackTransaction(disk, {p})
  /\ tab' = [tab EXCEPT ![p] = updatePendingCounter([@ EXCEPT !.stored = FALSE],
                                                    Staged(disk, p) # {})]
  /\ UNCHANGED <<up, jobs, tombs, agent, kept>>

(* Discard of a page's edits.  Its page is not locked, and so none of them *)
(* is with an agent (OneApply).                                            *)
onPendingTrashClick(p) ==
  LET d == rollbackTransaction(disk, {p})
  IN /\ Live(p) /\ tab[p].shown /\ ~tab[p].locked /\ ~Deciding(tab[p])
     /\ disk' = Unstaged(d, Staged(d, p))
     /\ tab' = [tab EXCEPT ![p] = hidePendingApplyDock(@)]
     /\ UNCHANGED <<up, jobs, tombs, agent, kept>>

(* Mutant: a new load of the page forgets that an Apply is under way.      *)
ReloadMutant(p) ==
  /\ up
  /\ tab' = [tab EXCEPT ![p] = updatePendingCounter(FreshTab, Staged(disk, p) # {})]
  /\ UNCHANGED <<disk, up, jobs, tombs, agent, kept>>

(* The page is loaded again, from the server that runs.                    *)
Reload(p) ==
  /\ up
  /\ tab' = [tab EXCEPT ![p] =
       updatePendingCounter([FreshTab EXCEPT !.stored = @ \/ (tab[p].stored /\ Live(p))],
                            Staged(disk, p) # {})]
  /\ UNCHANGED <<disk, up, jobs, tombs, agent, kept>>

(* What is stored of an Apply expires 15 minutes after the last step of it *)
(* that the page heard.  A commit is taken to be shorter than that: six of *)
(* its events would have to take their 150 seconds each, all unheard.      *)
StoredExpires(p) ==
  /\ tab[p].stored /\ \A j \in jobs : j.page # p
  /\ tab' = [tab EXCEPT ![p].stored = FALSE]
  /\ UNCHANGED <<disk, up, jobs, tombs, agent, kept>>

(* The connection is cut for a while.                                      *)
Cut(p) ==
  /\ tab[p].sse = "on"
  /\ tab' = [tab EXCEPT ![p].sse = "cut"]
  /\ UNCHANGED <<disk, up, jobs, tombs, agent, kept>>

Reconnect(p) ==
  /\ up /\ tab[p].sse = "cut"
  /\ tab' = [tab EXCEPT ![p].sse = "on"]
  /\ UNCHANGED <<disk, up, jobs, tombs, agent, kept>>

(***************************************************************************)
(* The agents                                                              *)
(***************************************************************************)
Take(a) ==
  /\ up /\ agent[a] = NoWork
  /\ \E j \in jobs :
       agent' = [agent EXCEPT ![a] = [ev |-> j.ev, batch |-> [e \in j.asked |-> j.batch[e]],
                                      wrote |-> FALSE, late |-> FALSE]]
  /\ UNCHANGED <<disk, up, jobs, tombs, tab, kept>>

(* What a late agent does to the source is all that may take an applied    *)
(* edit back.                                                              *)
SetBack(a) == kept' = [e \in Edits |->
  IF agent[a].late /\ disk'.text[e] < kept[e] THEN disk'.text[e] ELSE kept[e]]

(* It writes some of its edits, and leaves or breaks files in doing so.    *)
Write(a) ==
  /\ agent[a] # NoWork /\ ~agent[a].wrote
  /\ agent' = [agent EXCEPT ![a].wrote = TRUE]
  /\ \E W \in SUBSET DOMAIN agent[a].batch, B \in SUBSET FilesOf(DOMAIN agent[a].batch) :
       disk' = [disk EXCEPT
         !.text = [e \in Edits |-> IF e \in W THEN agent[a].batch[e] ELSE @[e]],
         !.broken = (@ \ FilesOf(DOMAIN agent[a].batch)) \cup B]
  /\ SetBack(a)
  /\ UNCHANGED <<up, jobs, tombs, tab>>

(* The results that validateManualApplyResultMessage lets through.         *)
Results(asked) ==
  {r \in [status : {"done", "partial", "error"}, applied : SUBSET asked, failed : SUBSET asked,
          files : SUBSET FilesOf(asked)] :
     CASE r.status = "done" -> r.failed = {} /\ r.applied # {}
       [] r.status = "partial" -> r.applied # {} \/ r.failed # {}
       [] r.status = "error" -> r.applied = {}}

Forgotten(a) == {t \in tombs : t.ev = agent[a].ev}

(* A reply to an event that timed out undoes what was written for it; one  *)
(* to an event the server does not know is refused.                        *)
LateReply(a) ==
  /\ \A j \in jobs : j.ev # agent[a].ev
  /\ \/ /\ Forgotten(a) = {} /\ disk' = disk
     \/ \E t \in Forgotten(a) : disk' = Restored(disk, t.was)
  /\ tombs' = tombs \ Forgotten(a)
  /\ SetBack(a)
  /\ UNCHANGED <<jobs, tab>>

handlePollPost(a) ==
  /\ up /\ agent[a] # NoWork
  /\ \/ /\ \E j \in jobs : /\ j.ev = agent[a].ev
                           /\ \E r \in Results(j.asked) :
                                GoesOn(j.page, tab[j.page], {j}, Answered(disk, j, r))
        /\ UNCHANGED tombs
     \/ LateReply(a)
  /\ agent' = [agent EXCEPT ![a] = NoWork]
  /\ UNCHANGED up

(* The agent ends, or finds no server to reply to.                         *)
AgentEnds(a) ==
  /\ agent[a] # NoWork
  /\ agent' = [agent EXCEPT ![a] = NoWork]
  /\ tombs' = tombs \ Forgotten(a)
  /\ UNCHANGED <<disk, up, jobs, tab, kept>>

(***************************************************************************)
(* The server                                                              *)
(***************************************************************************)
Timeout(p) ==
  /\ \E j \in jobs :
       /\ j.page = p
       /\ GoesOn(p, tab[p], {j}, Thrown(disk, j))
       /\ tombs' = IF j.ev \in Held THEN tombs \cup {[ev |-> j.ev, was |-> j.evWas]} ELSE tombs
       /\ agent' = [a \in Agents |-> IF agent[a].ev = j.ev THEN [agent[a] EXCEPT !.late = TRUE]
                                     ELSE agent[a]]
  /\ UNCHANGED up

Crash == Died /\ UNCHANGED <<disk, agent, kept>>

CrashAtEnd ==
  \/ /\ \E j \in jobs : DiesIn(Thrown(disk, j))
     /\ UNCHANGED agent
  \/ \E a \in Agents :
       /\ \E j \in jobs : /\ j.ev = agent[a].ev
                          /\ \E r \in Results(j.asked) : DiesIn(Answered(disk, j, r))
       /\ agent' = [agent EXCEPT ![a] = NoWork]
  \/ /\ \E p \in Pages : MayKeepFixing(p) /\ disk.txn # NoTxn /\ DiesIn(RepairOnly(p))
     /\ UNCHANGED agent

Start ==
  /\ ~up
  /\ up' = TRUE
  /\ disk' = rollbackTransaction(disk, Pages)
  /\ UNCHANGED <<jobs, tombs, agent, tab, kept>>

Next ==
  \/ \E e \in Edits : applyEditing(e)
  \/ \E p \in Pages : \/ onPendingPillClick(p) \/ onPendingKeepFixingClick(p)
                      \/ onPendingRollbackClick(p) \/ onPendingTrashClick(p)
                      \/ Reload(p) \/ StoredExpires(p) \/ Cut(p) \/ Reconnect(p)
                      \/ Timeout(p)
  \/ \E a \in Agents : Take(a) \/ Write(a) \/ handlePollPost(a) \/ AgentEnds(a)
  \/ Crash \/ CrashAtEnd \/ Start

Spec == Init /\ [][Next]_vars

CommitsOf(p) == {j \in jobs : j.page = p}

(* Every event has a timer, so a commit that waits does not wait for ever: *)
(* its event is answered, or times out.                                    *)
Fairness == \A p \in Pages :
  <>[](CommitsOf(p) # {}) => []<><<CommitsOf(p)' # CommitsOf(p)>>_vars

LiveSpec == Spec /\ Fairness

(***************************************************************************)
(* Properties                                                              *)
(***************************************************************************)

(* The source does not go back behind an edit that was applied and told    *)
(* so, nor behind one of an apply that dropped all its edits before the    *)
(* server died: no undoing, of a later commit that failed or of a          *)
(* transaction left over, takes it away.  Only an agent late with an event *)
(* that timed out may, by what it writes or by the undoing of its answer.  *)
NoEditLost == \A e \in Edits : disk.text[e] >= kept[e]

(* A page has one commit at a time, and while it runs the page is locked,  *)
(* also when it is loaded again, so that no edit in it is saved anew,      *)
(* discarded or applied a second time.                                     *)
OneApply ==
  \A j \in jobs : /\ tab[j.page].locked
                  /\ \A k \in jobs : j.page = k.page => j = k

(* As long as a commit runs, there is a transaction on disk by which a     *)
(* restart would undo it, and it holds the files as Apply found them.      *)
CrashSafe == \A j \in jobs :
  /\ disk.txn.page = j.page /\ disk.txn.ids \cap DOMAIN disk.buf # {}
  /\ j.again \/ (disk.txn.ids = DOMAIN j.batch /\ disk.txn.was = j.was)

(* A commit that ends without a repair leaves every edit of its batch      *)
(* either applied and dropped from the buffer, or staged and not in the    *)
(* source unless it was there before, whatever the agent reported of what  *)
(* it wrote.                                                               *)
AllOrNothing == [][
  \A j \in jobs : (up' /\ j.attempt = 0 /\ \A k \in jobs' : k.page # j.page) =>
    \A e \in DOMAIN j.batch :
      IF e \in DOMAIN disk'.buf
        THEN disk'.text[e] = j.batch[e] => j.was.text[e] = j.batch[e]
        ELSE disk'.text[e] = j.batch[e]]_vars

(* A commit ends, or comes to the user's decision, though agents die or    *)
(* never answer.                                                           *)
ApplyEnds == \A p \in Pages : []<>(CommitsOf(p) = {})

(* Once the attempts at repair are used up, a running server rolls the     *)
(* source back only for a user whom the page asked (live.md:534).          *)
(* No run states it, since the code does not keep it (README).             *)
AskedFirst == [][
  \A p \in Pages :
    (/\ up /\ disk.txn.page = p /\ CommitsOf(p) = {}
     /\ disk'.txn = NoTxn /\ disk'.text # disk.text) => tab[p].buttons]_vars

(* No edit that was told to be applied gets lost, whatever of the agent,   *)
(* the server and the page fails in the middle of an apply or at its end,  *)
(* one apply at a time changes the source, and a crash leaves what it      *)
(* takes to undo it (manual-apply.mjs:766-806).                            *)
EditsKept == TypeOK /\ NoEditLost /\ OneApply /\ CrashSafe

(***************************************************************************)
(* What makes them inductive.                                              *)
(***************************************************************************)

(* A commit has asked for all that is staged, and is its page's only one;  *)
(* the page shows it and cannot forget it.                                 *)
Batched(d, j) ==
  /\ DOMAIN j.batch = Staged(d, j.page) /\ DOMAIN j.batch # {}
  /\ \A e \in DOMAIN j.batch : j.batch[e] = d.buf[e].new

Framed(j) ==
  /\ j.was.files = FilesOf(DOMAIN j.batch)
  /\ j.asked \cup j.applied \cup j.failed \subseteq DOMAIN j.batch
  /\ j.todo \in Seq(SUBSET DOMAIN j.batch)

Shown(t) == t.locked /\ t.stored /\ ~t.buttons /\ t.sse # "dead"

ApplyInv ==
  /\ IsFiniteSet(DOMAIN disk.buf)
  /\ ~up => jobs = {} /\ tombs = {} /\ \A p \in Pages : tab[p].sse = "dead"
  /\ \A j \in jobs : /\ Batched(disk, j) /\ Framed(j) /\ Shown(tab[j.page])
                     /\ j.evWas.files = FilesOf(j.asked)
  /\ \A j, k \in jobs : j.page = k.page => j = k

(* A transaction on disk is about edits that are still staged.             *)
TxnInv ==
  /\ up /\ disk.txn # NoTxn => disk.txn.ids # {} /\ disk.txn.ids \subseteq DOMAIN disk.buf
  /\ \A j \in jobs :
       /\ disk.txn # NoTxn
       /\ j.again \/ (disk.txn.ids = DOMAIN j.batch /\ disk.txn.was = j.was)

(* Nothing that may be written back is older than what was applied last.   *)
NotBehind(s) == \A e \in DOMAIN s.text : s.text[e] >= kept[e]

KeptInv ==
  /\ NoEditLost
  /\ \A e \in DOMAIN disk.buf : disk.buf[e].new >= kept[e]
  /\ ~SafeOnDisk(disk) => NotBehind(disk.txn.was)
  /\ \A j \in jobs : NotBehind(j.was)
  /\ \A a \in Agents : agent[a] # NoWork /\ ~agent[a].wrote /\ ~agent[a].late =>
       \A e \in DOMAIN agent[a].batch : agent[a].batch[e] >= kept[e]

(* What an agent holds is the event of a commit, or one that timed out, or *)
(* one from before a restart; the commits since then have had no answer.   *)
Asked(a, j) == agent[a].ev = j.ev
Orphaned(a) == agent[a] # NoWork /\ Forgotten(a) = {} /\ \A j \in jobs : ~Asked(a, j)

EventInv ==
  /\ \A t \in tombs : \A j \in jobs : j.ev # t.ev
  /\ \A t \in tombs : \E a \in Agents : agent[a].ev = t.ev
  /\ \A a \in Agents : Forgotten(a) # {} => agent[a].late
  /\ \A a \in Agents : \A t \in Forgotten(a) :
       \A e \in DOMAIN agent[a].batch : FileOf[e] \in t.was.files
  /\ \A a \in Agents, j \in jobs : Asked(a, j) => agent[a].batch = [e \in j.asked |-> j.batch[e]]
  /\ \A a \in Agents : Orphaned(a) =>
       /\ \A j \in jobs : j.attempt = 0 /\ j.applied = {}
       /\ \A p \in Pages : tab[p].sse = "dead" \/ ~tab[p].buttons

(* From one chunk to the next no one writes what an earlier one applied.   *)
ChunkInv ==
  \A j \in jobs : j.attempt = 0 /\ j.applied # {} =>
    /\ \A a \in Agents : agent[a] = NoWork \/ Asked(a, j)
    /\ \A e \in j.applied \ j.asked : e \in DOMAIN j.evWas.text => j.evWas.text[e] = disk.text[e]
=============================================================================
