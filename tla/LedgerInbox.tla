------------------------------ MODULE LedgerInbox ------------------------------
(***************************************************************************)
(* The inbox of one peer: the signed ledger entries of OTHER raters that   *)
(* it accepted, the orphans that wait for their parent, and the head of    *)
(* each rater's chain (internal/ledger/inbox/inbox.go over the tables of   *)
(* internal/ledger/store/inbox.go).                                        *)
(*                                                                         *)
(* Inbox.AcceptOrQueue is run by several goroutines at once (the gossip    *)
(* subscriber, and on a boss also the start-up catch-up); no lock spans    *)
(* two statements of it.  Each action below is one call up to and          *)
(* including its single statement on the store, which SQLite makes atomic. *)
(*                                                                         *)
(* A hash is modelled by the entry itself (collision resistance) and the   *)
(* all-zero hash by Zero.                                                  *)
(***************************************************************************)
EXTENDS Integers, FiniteSets, Sequences, Functions

CONSTANTS
  Raters,      \* peers that sign entries
  Self,        \* the rater this inbox belongs to
  Entries,     \* signed entries that may be delivered
  Rater,       \* Rater[e] is the peer that signed e
  Prev,        \* Prev[e] is the prev_hash of e
  Zero,        \* the all-zero hash
  Malformed,   \* entries whose signature or payload does not validate
  Callers,     \* goroutines that run AcceptOrQueue
  OrphanCap, PerPeerOrphanCap,
  MaxFaults    \* bound on failed statements and process crashes

ASSUME InboxAssumption ==
  /\ Self \in Raters
  /\ Zero \notin Entries
  /\ Rater \in [Entries -> Raters]
  /\ Prev \in [Entries -> Entries \union {Zero}]
  /\ Malformed \subseteq Entries
  /\ OrphanCap \in Nat /\ PerPeerOrphanCap \in Nat
  /\ MaxFaults \in Nat

(* At any moment finitely many goroutines run AcceptOrQueue, the subscriber  *)
(* among them.                                                               *)
ASSUME CallersAssumption == IsFiniteSet(Callers) /\ Callers # {}

VARIABLES
  inbox,    \* inbox_entries: per rater, the accepted rows in insertion order
  head,     \* inbox_known_chain_head: last_hash per rater, Zero if no row
  orphans,  \* inbox_orphans
  pc,       \* what each caller does next
  entry,    \* the entry whose insertion each caller is working on
  queue,    \* parents each caller has still to look for orphans of
  found,    \* orphans its last look returned and it has not handled yet
  faults    \* failures so far

tables == <<inbox, head, orphans>>
locals == <<pc, entry, queue, found>>
vars == <<inbox, head, orphans, pc, entry, queue, found, faults>>

Hashes == Entries \union {Zero}

(* What AcceptOrQueue lets through before it touches the store. *)
Admissible == {e \in Entries : Rater[e] # Self /\ e \notin Malformed}

States == {"idle", "dedupOrphan", "readHead", "acceptFirst", "acceptNext",
           "find", "promote", "unqueue", "dropFork",
           "countPeer", "countAll", "queueOrphan"}

TypeOK ==
  /\ inbox \in [Raters -> Seq(Admissible)]
  /\ head \in [Raters -> Hashes]
  /\ orphans \in SUBSET Admissible
  /\ pc \in [Callers -> States]
  /\ entry \in [Callers -> Hashes]
  /\ queue \in [Callers -> SUBSET Admissible]
  /\ found \in [Callers -> SUBSET Admissible]
  /\ faults \in 0..MaxFaults

Init ==
  /\ inbox = [r \in Raters |-> <<>>]
  /\ head = [r \in Raters |-> Zero]
  /\ orphans = {}
  /\ pc = [c \in Callers |-> "idle"]
  /\ entry = [c \in Callers |-> Zero]
  /\ queue = [c \in Callers |-> {}]
  /\ found = [c \in Callers |-> {}]
  /\ faults = 0

--------------------------------------------------------------------------------
(* The statements of the store. *)

HasInboxEntry(e) == e \in Range(inbox[Rater[e]])

FindInboxOrphansAwaiting(p) == {o \in orphans : Rater[o] = Rater[p] /\ Prev[o] = p}

CountInboxOrphansForPeer(r) == Cardinality({o \in orphans : Rater[o] = r})

(* Mutant: the compare-and-extend is dropped, as if each caller's own read of  *)
(* the head were enough.                                                       *)
ExtendsHeadMutant(e) == TRUE

(* The compare of InsertInboxEntry: no head yet, or e names the head. *)
ExtendsHead(e) == head[Rater[e]] \in {Zero, Prev[e]}

ChainMismatch(e) == ~HasInboxEntry(e) /\ ~ExtendsHead(e)

InsertInboxEntry(e) ==
  IF HasInboxEntry(e)
  THEN UNCHANGED <<inbox, head>>
  ELSE /\ ExtendsHead(e)
       /\ inbox' = [inbox EXCEPT ![Rater[e]] = Append(@, e)]
       /\ head' = [head EXCEPT ![Rater[e]] = e]

--------------------------------------------------------------------------------
(* AcceptOrQueue. *)

Goto(c, s) == pc' = [pc EXCEPT ![c] = s]

Return(c) ==
  /\ Goto(c, "idle")
  /\ entry' = [entry EXCEPT ![c] = Zero]
  /\ queue' = [queue EXCEPT ![c] = {}]
  /\ found' = [found EXCEPT ![c] = {}]

(* Mutant: the signature and self-message checks are skipped. *)
ReceiveMutantUnverified(c, e) ==
  /\ pc[c] = "idle"
  /\ ~HasInboxEntry(e)
  /\ Goto(c, "dedupOrphan")
  /\ entry' = [entry EXCEPT ![c] = e]
  /\ UNCHANGED <<tables, queue, found, faults>>

(* Mutant: only the orphans are checked for duplicates. *)
ReceiveMutantNoDedup(c, e) ==
  /\ pc[c] = "idle"
  /\ e \in Admissible
  /\ Goto(c, "dedupOrphan")
  /\ entry' = [entry EXCEPT ![c] = e]
  /\ UNCHANGED <<tables, queue, found, faults>>

(* AcceptOrQueue(e) up to the first dedup read.  An entry that is          *)
(* self-authored, malformed or already accepted returns with no effect.    *)
Receive(c, e) ==
  /\ pc[c] = "idle"
  /\ e \in Admissible
  /\ ~HasInboxEntry(e)
  /\ Goto(c, "dedupOrphan")
  /\ entry' = [entry EXCEPT ![c] = e]
  /\ UNCHANGED <<tables, queue, found, faults>>

DedupOrphan(c) ==
  /\ pc[c] = "dedupOrphan"
  /\ IF entry[c] \in orphans
     THEN Return(c)
     ELSE Goto(c, "readHead") /\ UNCHANGED <<entry, queue, found>>
  /\ UNCHANGED <<tables, faults>>

(* Mutant: a never-seen rater's entry is accepted whatever it names. *)
DecideMutant(e) ==
  IF head[Rater[e]] = Zero THEN "acceptFirst"
  ELSE IF Prev[e] = head[Rater[e]] THEN "acceptNext" ELSE "countPeer"

(* The chain-extension decision, on the head read just now. *)
Decide(e) ==
  IF Prev[e] # head[Rater[e]] THEN "countPeer"
  ELSE IF Prev[e] = Zero THEN "acceptFirst" ELSE "acceptNext"

ReadHead(c) ==
  /\ pc[c] = "readHead"
  /\ Goto(c, Decide(entry[c]))
  /\ UNCHANGED <<tables, entry, queue, found, faults>>

(* The insertion of acceptAndPromote.  A first entry that lost the race is  *)
(* an error to the caller; a later one is queued as an orphan.              *)
Accept(c) ==
  /\ pc[c] \in {"acceptFirst", "acceptNext"}
  /\ \/ /\ InsertInboxEntry(entry[c])
        /\ Goto(c, "find")
        /\ queue' = [queue EXCEPT ![c] = {entry[c]}]
        /\ UNCHANGED <<entry, found>>
     \/ /\ ChainMismatch(entry[c])
        /\ IF pc[c] = "acceptFirst"
           THEN Return(c)
           ELSE Goto(c, "countPeer") /\ UNCHANGED <<entry, queue, found>>
        /\ UNCHANGED <<inbox, head>>
  /\ UNCHANGED <<orphans, faults>>

(* Where the promotion walk of c goes with f left of the last look and q     *)
(* left in its queue.                                                       *)
Walk(c, f, q) ==
  /\ found' = [found EXCEPT ![c] = f]
  /\ queue' = [queue EXCEPT ![c] = q]
  /\ Goto(c, IF f # {} THEN "promote" ELSE IF q # {} THEN "find" ELSE "idle")

(* One round of the walk: look for the orphans that wait for p. *)
Find(c) ==
  /\ pc[c] = "find"
  /\ \E p \in queue[c] :
       Walk(c, FindInboxOrphansAwaiting(p), queue[c] \ {p})
  /\ entry' = [entry EXCEPT ![c] = Zero]
  /\ UNCHANGED <<tables, faults>>

(* Promote one of them.  received_at is a wall clock, so any may be first.   *)
Promote(c) ==
  /\ pc[c] = "promote"
  /\ \E o \in found[c] :
       /\ entry' = [entry EXCEPT ![c] = o]
       /\ found' = [found EXCEPT ![c] = @ \ {o}]
       /\ \/ InsertInboxEntry(o) /\ Goto(c, "unqueue")
          \/ ChainMismatch(o) /\ Goto(c, "dropFork") /\ UNCHANGED <<inbox, head>>
  /\ UNCHANGED <<orphans, queue, faults>>

(* Mutant: the children of a promoted orphan are never looked for. *)
DeleteMutant(c) ==
  /\ pc[c] \in {"unqueue", "dropFork"}
  /\ orphans' = orphans \ {entry[c]}
  /\ Walk(c, found[c], queue[c])
  /\ entry' = [entry EXCEPT ![c] = Zero]
  /\ UNCHANGED <<inbox, head, faults>>

(* Delete the orphan; after a promotion its own children are looked for.     *)
DeleteInboxOrphan(c) ==
  /\ pc[c] \in {"unqueue", "dropFork"}
  /\ orphans' = orphans \ {entry[c]}
  /\ Walk(c, found[c],
          IF pc[c] = "unqueue" THEN queue[c] \union {entry[c]} ELSE queue[c])
  /\ entry' = [entry EXCEPT ![c] = Zero]
  /\ UNCHANGED <<inbox, head, faults>>

(* queueOrphan: both counts are read before the insertion, each on its own.  *)
CountPeer(c) ==
  /\ pc[c] = "countPeer"
  /\ IF CountInboxOrphansForPeer(Rater[entry[c]]) >= PerPeerOrphanCap
     THEN Return(c)
     ELSE Goto(c, "countAll") /\ UNCHANGED <<entry, queue, found>>
  /\ UNCHANGED <<tables, faults>>

(* Mutant: off by one at the cap. *)
CountAllMutant(c) ==
  /\ pc[c] = "countAll"
  /\ IF Cardinality(orphans) > OrphanCap
     THEN Return(c)
     ELSE Goto(c, "queueOrphan") /\ UNCHANGED <<entry, queue, found>>
  /\ UNCHANGED <<tables, faults>>

CountAll(c) ==
  /\ pc[c] = "countAll"
  /\ IF Cardinality(orphans) >= OrphanCap
     THEN Return(c)
     ELSE Goto(c, "queueOrphan") /\ UNCHANGED <<entry, queue, found>>
  /\ UNCHANGED <<tables, faults>>

QueueOrphan(c) ==
  /\ pc[c] = "queueOrphan"
  /\ orphans' = orphans \union {entry[c]}
  /\ Return(c)
  /\ UNCHANGED <<inbox, head, faults>>

--------------------------------------------------------------------------------
(* Failures. *)

(* The next statement of c fails (context cancelled, disk, busy).  Inside    *)
(* the promotion loop the error is logged and the loop goes on with the next *)
(* orphan; anywhere else AcceptOrQueue returns it.                           *)
StatementFails(c) ==
  /\ faults < MaxFaults
  /\ faults' = faults + 1
  /\ \/ /\ pc[c] = "promote"
        /\ \E o \in found[c] : Walk(c, found[c] \ {o}, queue[c])
        /\ UNCHANGED entry
     \/ /\ pc[c] \in {"unqueue", "dropFork"}
        /\ Walk(c, found[c], queue[c])
        /\ entry' = [entry EXCEPT ![c] = Zero]
     \/ /\ pc[c] \notin {"idle", "promote", "unqueue", "dropFork"}
        /\ Return(c)
  /\ UNCHANGED tables

(* The process dies and restarts: committed tables are all that is left.     *)
Crash ==
  /\ faults < MaxFaults
  /\ faults' = faults + 1
  /\ pc' = [c \in Callers |-> "idle"]
  /\ entry' = [c \in Callers |-> Zero]
  /\ queue' = [c \in Callers |-> {}]
  /\ found' = [c \in Callers |-> {}]
  /\ UNCHANGED tables

Step(c) ==
  \/ DedupOrphan(c) \/ ReadHead(c) \/ Accept(c)
  \/ Find(c) \/ Promote(c) \/ DeleteInboxOrphan(c)
  \/ CountPeer(c) \/ CountAll(c) \/ QueueOrphan(c)

Next ==
  \/ \E c \in Callers : (\E e \in Entries : Receive(c, e)) \/ Step(c) \/ StatementFails(c)
  \/ Crash

Spec == Init /\ [][Next]_vars

(* Every caller goes on with what it started, and every entry is offered to  *)
(* the inbox again and again: gossip repeats it and each catch-up re-reads    *)
(* the whole of the source's inbox.                                           *)
Fairness ==
  /\ \A c \in Callers : WF_vars(Step(c))
  /\ \A e \in Entries : SF_vars(\E c \in Callers : Receive(c, e))

FairSpec == Spec /\ Fairness

--------------------------------------------------------------------------------
(* Properties. *)

(* inbox_entries never absorbs a fork: the rows of a rater, in the order      *)
(* they were inserted, are one chain from the zero hash, and the chain-head   *)
(* table names its end.  InsertInboxEntry's compare-and-extend must give this *)
(* whatever the callers read before it, and across crashes.                   *)
IsChain(r) ==
  \A i \in 1..Len(inbox[r]) :
    /\ Rater[inbox[r][i]] = r
    /\ Prev[inbox[r][i]] = IF i = 1 THEN Zero ELSE inbox[r][i-1]

HeadIsLast(r) ==
  head[r] = IF inbox[r] = <<>> THEN Zero ELSE inbox[r][Len(inbox[r])]

ChainInv == \A r \in Raters : IsChain(r) /\ HeadIsLast(r)

(* What makes ChainInv inductive: where a caller stands, the compare of        *)
(* InsertInboxEntry cannot mistake an entry for the first of its rater.        *)
CallerInv(c) ==
  /\ pc[c] \notin {"idle", "find", "promote"} => entry[c] \in Admissible
  /\ pc[c] = "acceptFirst" => Prev[entry[c]] = Zero
  /\ pc[c] \in {"acceptNext", "unqueue"} => head[Rater[entry[c]]] # Zero
  /\ \A o \in queue[c] \union found[c] : head[Rater[o]] # Zero

InboxInv == TypeOK /\ ChainInv /\ \A c \in Callers : CallerInv(c)

(* The orphan table is bounded even though the counts and the insertion are   *)
(* separate statements: every caller can overshoot the cap by at most one.    *)
OrphansBounded == Cardinality(orphans) <= OrphanCap + Cardinality(Callers) - 1

(* What makes it inductive: a caller that has read a count below the cap holds *)
(* a reservation it may still use, and no two callers hold the same one.       *)
PastCountAll == {c \in Callers : pc[c] = "queueOrphan"}

OrphanInv ==
  /\ IsFiniteSet(orphans)
  /\ Cardinality(orphans) + Cardinality(PastCountAll)
       <= OrphanCap + Cardinality(Callers) - 1

(* The same for the orphans of one rater, so that no peer fills the table for  *)
(* the others.                                                                 *)
OrphansOf(r) == {o \in orphans : Rater[o] = r}

PeerOrphansBounded ==
  \A r \in Raters :
    Cardinality(OrphansOf(r)) <= PerPeerOrphanCap + Cardinality(Callers) - 1

PastCountPeer(r) ==
  {c \in Callers : pc[c] \in {"countAll", "queueOrphan"} /\ Rater[entry[c]] = r}

PeerOrphanInv ==
  /\ IsFiniteSet(orphans)
  /\ \A r \in Raters :
       Cardinality(OrphansOf(r)) + Cardinality(PastCountPeer(r))
         <= PerPeerOrphanCap + Cardinality(Callers) - 1

(* No orphan at rest waits for a parent that already is the head of its        *)
(* rater's chain: it is "promoted to inbox_entries when the parent arrives"    *)
(* (002_inbox.sql).                                                            *)
AtRest == \A c \in Callers : pc[c] = "idle"

Stranded == {o \in orphans : Prev[o] = head[Rater[o]]}

OrphansPromoted == AtRest => Stranded = {}

(* No accepted entry is left behind in the orphan table, where it would use up *)
(* the cap for good.                                                           *)
NoLeftover == AtRest => \A o \in orphans : ~HasInboxEntry(o)

(* What makes the two inductive for a lone caller c that no failure interrupts: *)
(* an orphan that could be promoted is ahead of its walk, and only the one it   *)
(* promotes right now is in both tables.                                        *)
Walking == {"find", "promote", "unqueue", "dropFork"}

Ahead(c, o) ==
  \/ o \in found[c]
  \/ Prev[o] \in queue[c]
  \/ pc[c] = "unqueue" /\ entry[c] \in {o, Prev[o]}

StrandedAhead(c) == \A o \in Stranded : Ahead(c, o)

OneTable(c) ==
  \A o \in orphans : HasInboxEntry(o) => pc[c] = "unqueue" /\ entry[c] = o

WalkShape(c) ==
  /\ pc[c] \notin {"promote", "unqueue", "dropFork"} => found[c] = {}
  /\ found[c] \subseteq orphans /\ entry[c] \notin found[c]
  /\ pc[c] \notin Walking => queue[c] = {}

Decided(c) ==
  /\ pc[c] \notin Walking \union {"idle"} => ~HasInboxEntry(entry[c])
  /\ pc[c] \notin Walking \union {"idle", "dedupOrphan"} => entry[c] \notin orphans
  /\ pc[c] \in {"countPeer", "countAll", "queueOrphan"} =>
       Prev[entry[c]] # head[Rater[entry[c]]]
  /\ pc[c] = "dropFork" => entry[c] \notin Stranded

WalkInv(c) == StrandedAhead(c) /\ OneTable(c) /\ WalkShape(c) /\ Decided(c)

(* The inbox implements the chains it promises: whatever is queued, raced or   *)
(* lost, the accepted rows of each rater only ever grow by the next link.      *)
Chains == INSTANCE RaterChains WITH chain <- inbox

ImplementsChains == Chains!Spec

(* Once redelivery is fair, every entry of an honest rater (one whose entries *)
(* form a single chain) is accepted, in whatever order they come.             *)
Honest(r) ==
  \A e, f \in Admissible : Rater[e] = r /\ Rater[f] = r /\ Prev[e] = Prev[f] => e = f

HonestEntriesAccepted ==
  \A e \in Admissible : Honest(Rater[e]) => <>HasInboxEntry(e)
================================================================================
