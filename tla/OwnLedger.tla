------------------------------- MODULE OwnLedger -------------------------------
(***************************************************************************)
(* The log a peer authors itself (internal/ledger/impl.go over the tables  *)
(* entries and heads of internal/ledger/store/sqlite.go): Append, the      *)
(* start-up that rebuilds the Merkle tree and re-signs a stale head, and   *)
(* the two stream handlers other peers read the log and its head through.  *)
(*                                                                         *)
(* Each Append is given an entry of its own.  Signing it commits to all of *)
(* its predecessors (prev_hash), and a head's root to all its leaves, so a *)
(* signed entry and a signed head are both modelled by the log prefix they *)
(* commit to.  `served' holds every prefix this peer has sent a row of to  *)
(* somebody who asked, `kept' those that a peer running this code takes in *)
(* from the topic, from a head fetch or from a CatchUp.                    *)
(*                                                                         *)
(* A process crash keeps every committed transaction.  A power loss may    *)
(* also lose the last one (synchronous=NORMAL, store/sqlite.go:88-91).     *)
(* The statements that change nothing when they fail (signing, the insert  *)
(* of AppendEntry) are left out.                                           *)
(***************************************************************************)
EXTENDS Integers, Sequences, SequencesExt

CONSTANTS
  Appenders,    \* goroutines that call Append
  Clients,      \* peers that run CatchUp against this one
  MaxAppends,   \* bound on calls of Append that persist their entry
  MaxCrashes,   \* bound on process crashes and power losses
  MaxFaults     \* bound on failed statements

ASSUME OwnLedgerAssumption ==
  MaxAppends \in Nat /\ MaxCrashes \in Nat /\ MaxFaults \in Nat

VARIABLES
  rows,       \* entries, by idx
  heads,      \* heads: the leaves each persisted head commits to
  before,     \* rows and heads as of the last transaction but one
  tree,       \* leaves of the in-memory Merkle tree
  lastHead,   \* leaves of the cached signed head, <<>> for nil
  mode,       \* how far newImpl has got
  mu,         \* ledgerImpl.mu is held between two steps of an Append
  pc,         \* what each appender does next
  mine,       \* leaves of the head each appender has signed
  bound,      \* TreeSize of the head each client last fetched, 0 if none
  page,       \* the log as each client is being served it, <<>> for none
  served,     \* prefixes a row of which was sent to anybody
  kept,       \* prefixes a peer that runs this code was told or took in
  acked,      \* prefixes whose last entry was acknowledged to its author
  appends, crashes, faults

durable == <<rows, heads, before>>
memory == <<tree, lastHead, mode, mu, pc, mine>>
outside == <<bound, page, served, kept, acked>>
counters == <<appends, crashes, faults>>
vars == <<durable, memory, outside, counters>>

Log == Seq(1..MaxAppends)

TypeOK ==
  /\ rows \in Log
  /\ heads \in SUBSET Log
  /\ before \in [rows : Log, heads : SUBSET Log]
  /\ tree \in Log
  /\ lastHead \in Log
  /\ mode \in {"down", "load", "resync", "up"}
  /\ mu \in BOOLEAN
  /\ pc \in [Appenders -> {"idle", "head", "publish"}]
  /\ mine \in [Appenders -> Log]
  /\ bound \in [Clients -> Nat]
  /\ page \in [Clients -> Log]
  /\ served \in SUBSET (Log \ {<<>>})
  /\ kept \in SUBSET Log
  /\ acked \in SUBSET Log
  /\ appends \in 0..MaxAppends
  /\ crashes \in 0..MaxCrashes
  /\ faults \in 0..MaxFaults

Init ==
  /\ rows = <<>> /\ heads = {} /\ before = [rows |-> <<>>, heads |-> {}]
  /\ tree = <<>> /\ lastHead = <<>>
  /\ mode = "down" /\ mu = FALSE
  /\ pc = [a \in Appenders |-> "idle"]
  /\ mine = [a \in Appenders |-> <<>>]
  /\ bound = [c \in Clients |-> 0]
  /\ page = [c \in Clients |-> <<>>]
  /\ served = {} /\ kept = {} /\ acked = {}
  /\ appends = 0 /\ crashes = 0 /\ faults = 0

--------------------------------------------------------------------------------
(* The store.  Each commit makes the state before it the one a power loss may  *)
(* fall back to.                                                               *)

Commit == before' = [rows |-> rows, heads |-> heads]

(* Mutant: the new head is kept in memory only. *)
WriteHeadMutant(leaves) == UNCHANGED durable

(* A head is keyed by its tree_size. *)
WriteHead(leaves) ==
  /\ heads' = {h \in heads : Len(h) # Len(leaves)} \union {leaves}
  /\ UNCHANGED rows
  /\ Commit

LatestHead(h) ==
  \/ heads = {} /\ h = <<>>
  \/ h \in heads /\ \A g \in heads : Len(g) <= Len(h)

Fault == faults < MaxFaults /\ faults' = faults + 1

--------------------------------------------------------------------------------
(* newImpl. *)

(* Mutant: the tree starts empty. *)
OpenMutant ==
  /\ mode = "down"
  /\ mode' = "load"
  /\ tree' = <<>>
  /\ lastHead' = <<>>
  /\ UNCHANGED <<durable, mu, pc, mine, outside, counters>>

(* The store is opened, the tree rebuilt and the stream handlers registered. *)
Open ==
  /\ mode = "down"
  /\ mode' = "load"
  /\ tree' = rows
  /\ lastHead' = <<>>
  /\ UNCHANGED <<durable, mu, pc, mine, outside, counters>>

(* loadLastHead; a failure is logged and leaves the cached head nil. *)
LoadLastHead ==
  /\ mode = "load"
  /\ mode' = "resync"
  /\ \/ /\ \E h \in heads \union {<<>>} : LatestHead(h) /\ lastHead' = h
        /\ UNCHANGED faults
     \/ Fault /\ UNCHANGED lastHead
  /\ UNCHANGED <<durable, tree, mu, pc, mine, outside, appends, crashes>>

(* Mutant: the persisted head is taken as it is. *)
ResyncHeadIfBehindMutant ==
  /\ mode = "resync"
  /\ mode' = "up"
  /\ UNCHANGED <<durable, tree, lastHead, mu, pc, mine, outside, counters>>

(* resyncHeadIfBehind: a head of another size than the tree is signed anew.    *)
(* Without a head there is nothing to do; a failure is logged.                 *)
ResyncHeadIfBehind ==
  /\ mode = "resync"
  /\ mode' = "up"
  /\ \/ /\ lastHead = <<>> \/ Len(lastHead) = Len(tree)
        /\ UNCHANGED <<durable, lastHead, faults>>
     \/ /\ lastHead # <<>> /\ Len(lastHead) # Len(tree)
        /\ \/ WriteHead(tree) /\ lastHead' = tree /\ UNCHANGED faults
           \/ Fault /\ UNCHANGED <<durable, lastHead>>
  /\ UNCHANGED <<tree, mu, pc, mine, outside, appends, crashes>>

--------------------------------------------------------------------------------
(* Append. *)

(* The entry is signed over the last leaf, persisted and put in the tree, and  *)
(* a head is signed over the new tree.                                         *)
AddEntry(a) ==
  /\ mode = "up" /\ ~mu /\ pc[a] = "idle"
  /\ appends < MaxAppends
  /\ appends' = appends + 1
  /\ pc' = [pc EXCEPT ![a] = "head"]
  /\ rows' = Append(rows, appends')
  /\ UNCHANGED heads
  /\ Commit
  /\ tree' = Append(tree, appends')
  /\ mine' = [mine EXCEPT ![a] = tree']
  /\ UNCHANGED <<lastHead, mode, outside, crashes, faults>>

(* Mutant: the lock is given back before the head is persisted and cached.     *)
PersistEntryMutant(a) == AddEntry(a) /\ UNCHANGED mu

(* The lock is taken, and kept for the head.                                   *)
PersistEntry(a) == AddEntry(a) /\ mu' = TRUE

(* The head is persisted and cached, and the lock given back. *)
PersistHead(a) ==
  /\ pc[a] = "head"
  /\ WriteHead(mine[a])
  /\ lastHead' = mine[a]
  /\ mu' = FALSE
  /\ pc' = [pc EXCEPT ![a] = "publish"]
  /\ UNCHANGED <<tree, mode, mine, outside, counters>>

(* The head is not persisted (the caller's context ended, the disk is full):   *)
(* the caller gets an error, and the entry stays where it is.                  *)
PersistHeadFails(a) ==
  /\ pc[a] = "head"
  /\ Fault
  /\ mu' = FALSE
  /\ pc' = [pc EXCEPT ![a] = "idle"]
  /\ mine' = [mine EXCEPT ![a] = <<>>]
  /\ UNCHANGED <<durable, tree, lastHead, mode, outside, appends, crashes>>

(* The entry is published on the feedback topic, if that works, and the caller *)
(* gets its hash either way.                                                   *)
Publish(a) ==
  /\ pc[a] = "publish"
  /\ kept' \in {kept, kept \union {mine[a]}}
  /\ acked' = acked \union {mine[a]}
  /\ pc' = [pc EXCEPT ![a] = "idle"]
  /\ mine' = [mine EXCEPT ![a] = <<>>]
  /\ UNCHANGED <<durable, tree, lastHead, mode, mu, bound, page, served, counters>>

--------------------------------------------------------------------------------
(* What other peers read. *)

(* handleHeadFetch, and FetchRemoteHead with which a CatchUp begins. *)
HandleHeadFetch(c) ==
  /\ mode # "down" /\ ~mu
  /\ bound' = [bound EXCEPT ![c] = Len(lastHead)]
  /\ page' = [page EXCEPT ![c] = <<>>]
  /\ kept' = IF lastHead = <<>> THEN kept ELSE kept \union {lastHead}
  /\ UNCHANGED <<durable, memory, served, acked, counters>>

(* handleFetch, which takes no lock and sends any rows there are, those past   *)
(* the signed head with them.                                                  *)
HandleFetch(c) ==
  /\ mode # "down"
  /\ \E n \in 1..Len(rows) :
       /\ page' = [page EXCEPT ![c] = SubSeq(rows, 1, n)]
       /\ served' = served \union {SubSeq(rows, 1, n)}
  /\ UNCHANGED <<durable, memory, bound, kept, acked, counters>>

(* Mutant: the client keeps whatever row it is served. *)
CatchUpMutant(c) ==
  /\ \E n \in 1..Len(page[c]) : kept' = kept \union {SubSeq(page[c], 1, n)}
  /\ UNCHANGED <<durable, memory, bound, page, served, acked, counters>>

(* The page loop of CatchUp, which ends at the first row past the head that    *)
(* was fetched before any page.  The page may be older than the log by now.    *)
CatchUp(c) ==
  /\ \E n \in 1..Len(page[c]) :
       /\ n <= bound[c]
       /\ kept' = kept \union {SubSeq(page[c], 1, n)}
  /\ UNCHANGED <<durable, memory, bound, page, served, acked, counters>>

--------------------------------------------------------------------------------
(* Crashes. *)

Down ==
  /\ mode # "down"
  /\ crashes < MaxCrashes
  /\ crashes' = crashes + 1
  /\ mode' = "down" /\ mu' = FALSE
  /\ tree' = <<>> /\ lastHead' = <<>>
  /\ pc' = [a \in Appenders |-> "idle"]
  /\ mine' = [a \in Appenders |-> <<>>]
  /\ UNCHANGED <<outside, appends, faults>>

Crash == Down /\ UNCHANGED durable

PowerLoss ==
  /\ Down
  /\ rows' = before.rows /\ heads' = before.heads
  /\ UNCHANGED before

--------------------------------------------------------------------------------

Start == Open \/ LoadLastHead \/ ResyncHeadIfBehind

DoAppend(a) ==
  PersistEntry(a) \/ PersistHead(a) \/ PersistHeadFails(a) \/ Publish(a)

Serve(c) == HandleHeadFetch(c) \/ HandleFetch(c) \/ CatchUp(c)

Next ==
  \/ Start
  \/ \E a \in Appenders : DoAppend(a)
  \/ \E c \in Clients : Serve(c)
  \/ Crash
  \/ PowerLoss

Spec == Init /\ [][Next]_vars

--------------------------------------------------------------------------------
(* Properties. *)

(* All that a peer knows of a log it is served, but for the last row. *)
ButLast(p) == SubSeq(p, 1, Len(p) - 1)

(* Peers that run this code never come to hold two signatures of this peer, on *)
(* entries or heads, that commit to different histories, and of the rows past  *)
(* the signed head, which are sent to anybody who asks, only the last one can  *)
(* ever be replaced by another.  What a witness would report as equivocation,  *)
(* and what marks a peer for ever, comes from no crash, no power loss, no      *)
(* failed write and no concurrent Appends (store/sqlite.go:88-91,              *)
(* impl.go:279-338, fetch.go:91-117, catchup.go:230-239).                      *)
NoEquivocation ==
  \A p, q \in kept \union {ButLast(s) : s \in served} :
    IsPrefix(p, q) \/ IsPrefix(q, p)

(* An entry whose author was told it is in the log stays in it, at the same    *)
(* place, whatever happens afterwards (impl.go:275-278).                       *)
AckedKept == \A p \in acked : IsPrefix(p, rows)

(* A proof Prove hands out verifies: whenever it can take the lock, the tree   *)
(* it takes the audit path from has the leaves of the head it attaches         *)
(* (impl.go:323-326, 211-215).                                                 *)
(* No run states it, since the code does not keep it (README).                 *)
ProofsVerify == mode = "up" /\ ~mu /\ lastHead # <<>> => lastHead = tree

(* So they do, through every crash and power loss, if no statement has failed. *)
CleanProofsVerify == faults = 0 => ProofsVerify

(* The head others are served never goes back while the process runs: two      *)
(* concurrent Appends cannot commit head_N and then head_{N-1}                 *)
(* (impl.go:323-326).                                                          *)
HeadsGrow ==
  [][mode = "up" /\ mode' = "up" => IsPrefix(lastHead, lastHead')]_vars

(* Safe to fall back to: everything others were told or took in, and all but   *)
(* the last row of what they were served, survives the loss of the last        *)
(* transaction.  This is what makes the invariants inductive.                  *)
Settled(p) == IsPrefix(p, before.rows)

OutsideSettled ==
  /\ \A p \in kept \union acked : Settled(p)
  /\ \A s \in served : Settled(ButLast(s))
  /\ \A c \in Clients :
       /\ bound[c] <= Len(before.rows)
       /\ \A n \in 1..Len(page[c]) : n <= bound[c] => Settled(SubSeq(page[c], 1, n))

SettledInv ==
  /\ IsPrefix(before.rows, rows)
  /\ \A h \in heads \union before.heads : Settled(h)
  /\ Len(rows) <= Len(before.rows) + 1
  /\ Settled(lastHead)
  /\ \A a \in Appenders : pc[a] = "publish" => Settled(mine[a])
  /\ OutsideSettled

MemoryInv ==
  /\ mode # "down" => tree = rows
  /\ mode = "down" => lastHead = <<>> /\ ~mu
  /\ mode # "up" => ~mu
  /\ \A a \in Appenders : pc[a] = "head" => mu /\ mine[a] = tree
  /\ \A a \in Appenders, b \in Appenders :
       pc[a] = "head" /\ pc[b] = "head" => a = b
  /\ \A a \in Appenders : pc[a] # "idle" => mode = "up"

LogInv == TypeOK /\ SettledInv /\ MemoryInv
================================================================================
