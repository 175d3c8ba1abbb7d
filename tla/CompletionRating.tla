---------------------------- MODULE CompletionRating ----------------------------
(***************************************************************************)
(* The boss's CompletionRatingWriter (internal/boss/completion_rating.go): *)
(* the HTTP handlers record one outcome per dispatch while a ticker turns  *)
(* what has gathered about a peer into one signed rating per window.       *)
(*                                                                         *)
(* The lock is free while Tick appends to the ledger, so outcomes go on    *)
(* being recorded between the snapshot a rating is made of and the         *)
(* subtraction that settles it.                                            *)
(*                                                                         *)
(* Scores are counted in tenths (PositiveIncrement = 0.1).  Time is only   *)
(* kept as far as the window: an age of Window stands for that much or     *)
(* more.  A tick may come at any time; the ticker's are a window apart     *)
(* give or take its jitter.                                                *)
(***************************************************************************)
EXTENDS Integers, FiniteSets

CONSTANTS
  Peers,            \* workers outcomes are recorded about
  Window,           \* DefaultRatingWindow
  HourlyCap,        \* in tenths
  MaxOutcomes,      \* bound on recorded outcomes per peer
  MaxRatingFaults   \* bound on failed ledger appends and restarts

ASSUME RatingAssumption ==
  /\ Window \in Nat \ {0} /\ HourlyCap \in Nat \ {0}
  /\ MaxOutcomes \in Nat /\ MaxRatingFaults \in Nat

VARIABLES
  state,     \* state: the outcomes gathered per peer
  age,       \* time since lastEmit
  known,     \* peers that have a bucket
  tick,      \* what the ticker goroutine does next
  tickAge,   \* time since the snapshot of the current Tick
  toWrite,   \* peers whose rating this Tick has still to append
  emit,      \* the outcomes each of these ratings is made of
  writing,   \* the peer whose rating was just appended, in a set
  recorded,  \* outcomes ever recorded
  settled,   \* those that went into a rating whose Append returned
  cleared,   \* those that cancelled out
  lost,      \* those a restart forgot
  unacked,   \* those in ratings that were persisted by an Append that failed
  since,     \* time since the time stamp of the peer's last rating
  granted,   \* score these ratings gave or took in the last window
  ratingFaults

buckets == <<state, age, known>>
ticker == <<tick, tickAge, toWrite, emit, writing>>
history == <<recorded, settled, cleared, lost, unacked, since, granted>>
writerVars == <<buckets, ticker, history, ratingFaults>>

(* An Outcome, and the counts a peerBuckets keeps of both kinds. *)
Outcome == {"success", "failure"}

Counts == [Outcome -> Nat]
None == [o \in Outcome |-> 0]

Plus(a, b) == [o \in Outcome |-> a[o] + b[o]]
Minus(a, b) == [o \in Outcome |-> a[o] - b[o]]

WriterTypeOK ==
  /\ state \in [Peers -> Counts]
  /\ age \in [Peers -> 0..Window]
  /\ known \in SUBSET Peers
  /\ tick \in {"idle", "append", "settle"}
  /\ tickAge \in 0..Window
  /\ toWrite \in SUBSET Peers
  /\ emit \in [Peers -> Counts]
  /\ writing \in SUBSET Peers
  /\ recorded \in [Peers -> Counts]
  /\ settled \in [Peers -> Counts]
  /\ cleared \in [Peers -> Counts]
  /\ lost \in [Peers -> Counts]
  /\ unacked \in [Peers -> Counts]
  /\ since \in [Peers -> 0..Window]
  /\ granted \in [Peers -> Nat]
  /\ ratingFaults \in 0..MaxRatingFaults

WriterInit ==
  /\ state = [p \in Peers |-> None]
  /\ age = [p \in Peers |-> 0]
  /\ known = {}
  /\ tick = "idle" /\ tickAge = 0
  /\ toWrite = {} /\ writing = {}
  /\ emit = [p \in Peers |-> None]
  /\ recorded = [p \in Peers |-> None]
  /\ settled = [p \in Peers |-> None]
  /\ cleared = [p \in Peers |-> None]
  /\ lost = [p \in Peers |-> None]
  /\ unacked = [p \in Peers |-> None]
  /\ since = [p \in Peers |-> Window]
  /\ granted = [p \in Peers |-> 0]
  /\ ratingFaults = 0

--------------------------------------------------------------------------------

Older(t) == IF t < Window THEN t + 1 ELSE Window

Time ==
  /\ age' = [p \in Peers |-> Older(age[p])]
  /\ since' = [p \in Peers |-> Older(since[p])]
  /\ tickAge' = Older(tickAge)
  /\ UNCHANGED <<state, known, tick, toWrite, emit, writing,
                 recorded, settled, cleared, lost, unacked, granted,
                 ratingFaults>>

(* RecordOutcome: a peer's first outcome starts its window. *)
RecordOutcome(p, o) ==
  /\ recorded[p]["success"] + recorded[p]["failure"] < MaxOutcomes
  /\ recorded' = [recorded EXCEPT ![p][o] = @ + 1]
  /\ state' = [state EXCEPT ![p][o] = @ + 1]
  /\ known' = known \union {p}
  /\ age' = IF p \in known THEN age ELSE [age EXCEPT ![p] = 0]
  /\ UNCHANGED <<ticker, settled, cleared, lost, unacked, since, granted, ratingFaults>>

(* Mutant: the cap is lost. *)
ScoreMutant(b) == b["success"] - b["failure"]

(* computeAggregateScore. *)
Score(b) ==
  LET net == b["success"] - b["failure"]
  IN IF net > HourlyCap THEN HourlyCap
     ELSE IF net < -HourlyCap THEN -HourlyCap ELSE net

Size(score) == IF score < 0 THEN -score ELSE score

(* Mutant: the window of a peer is not waited for. *)
DueMutant(p) == p \in known

(* Its bucket's window is over. *)
Due(p) == p \in known /\ age[p] >= Window

(* Mutant: a balanced bucket is left as it is. *)
ForgottenMutant(p) == FALSE

(* Its bucket's window is over, and what it holds cancels out. *)
Forgotten(p) == Due(p) /\ Score(state[p]) = 0

(* Tick up to the unlock: what is due and not balanced will be written, what   *)
(* is due and balanced is forgotten.                                           *)
TickSnapshot ==
  /\ tick = "idle"
  /\ tickAge' = 0
  /\ toWrite' = {p \in Peers : Due(p) /\ Score(state[p]) # 0}
  /\ tick' = IF toWrite' = {} THEN "idle" ELSE "append"
  /\ emit' = [p \in Peers |-> IF p \in toWrite' THEN state[p] ELSE None]
  /\ state' = [p \in Peers |->
       IF Forgotten(p) THEN None ELSE state[p]]
  /\ cleared' = [p \in Peers |->
       IF Forgotten(p) THEN Plus(cleared[p], state[p]) ELSE cleared[p]]
  /\ granted' = [p \in Peers |-> IF since[p] >= Window THEN 0 ELSE granted[p]]
  /\ UNCHANGED <<age, known, writing, recorded, settled, lost, unacked, since, ratingFaults>>

(* Ledger.Append of the next rating; state is a map, so any may be next. *)
AppendRating ==
  /\ tick = "append"
  /\ \E p \in toWrite :
       /\ toWrite' = toWrite \ {p}
       /\ writing' = {p}
       /\ settled' = [settled EXCEPT ![p] = Plus(@, emit[p])]
       /\ since' = [since EXCEPT ![p] = tickAge]
       /\ granted' = [granted EXCEPT ![p] = @ + Size(Score(emit[p]))]
  /\ tick' = "settle"
  /\ UNCHANGED <<buckets, tickAge, emit, recorded, cleared, lost, unacked, ratingFaults>>

(* Append reports an error: Tick gives up, with what is left for a later Tick. *)
(* The entry may have been persisted all the same (OwnLedger's                 *)
(* PersistHeadFails).                                                          *)
AppendFails ==
  /\ tick = "append"
  /\ ratingFaults < MaxRatingFaults
  /\ ratingFaults' = ratingFaults + 1
  /\ \/ UNCHANGED unacked
     \/ \E p \in toWrite : unacked' = [unacked EXCEPT ![p] = Plus(@, emit[p])]
  /\ tick' = "idle"
  /\ toWrite' = {}
  /\ emit' = [p \in Peers |-> None]
  /\ UNCHANGED <<buckets, tickAge, writing, recorded, settled, cleared, lost,
                 since, granted>>

(* Mutant: the bucket is emptied, with what came in during the Append. *)
SettledBucketMutant(p) == None

(* Only what the rating was made of leaves the bucket. *)
SettledBucket(p) == Minus(state[p], emit[p])

(* The subtraction under the lock; lastEmit is the time of the snapshot. *)
Settle ==
  /\ tick = "settle"
  /\ state' = [p \in Peers |-> IF p \in writing THEN SettledBucket(p) ELSE state[p]]
  /\ age' = [p \in Peers |-> IF p \in writing THEN tickAge ELSE age[p]]
  /\ emit' = [p \in Peers |-> IF p \in writing THEN None ELSE emit[p]]
  /\ writing' = {}
  /\ tick' = IF toWrite = {} THEN "idle" ELSE "append"
  /\ UNCHANGED <<known, tickAge, toWrite, history, ratingFaults>>

(* The boss dies and restarts: its buckets were in memory only. *)
Restart ==
  /\ ratingFaults < MaxRatingFaults
  /\ ratingFaults' = ratingFaults + 1
  /\ lost' = [p \in Peers |-> Plus(lost[p],
       IF p \in writing THEN Minus(state[p], emit[p]) ELSE state[p])]
  /\ state' = [p \in Peers |-> None]
  /\ known' = {}
  /\ tick' = "idle"
  /\ toWrite' = {} /\ writing' = {}
  /\ emit' = [p \in Peers |-> None]
  /\ UNCHANGED <<age, tickAge, recorded, settled, cleared, unacked, since,
                 granted>>

Tick == TickSnapshot \/ AppendRating \/ Settle

WriterNext ==
  \/ Time
  \/ \E p \in Peers, o \in Outcome : RecordOutcome(p, o)
  \/ Tick
  \/ AppendFails
  \/ Restart

WriterSpec == WriterInit /\ [][WriterNext]_writerVars

(* The ticker goroutine keeps running, and time passes. *)
FairSpec == WriterSpec /\ WF_writerVars(Tick) /\ WF_writerVars(Time)

--------------------------------------------------------------------------------
(* Properties. *)

(* No outcome is lost and none is rated twice by acknowledged ratings: every   *)
(* outcome ever recorded is still in its peer's bucket, in exactly one rating, *)
(* or in a bucket that cancelled out or was lost in a restart                  *)
(* (completion_rating.go:133-142).                                             *)
Accounted(p, o) ==
  recorded[p][o] + (IF p \in writing THEN emit[p][o] ELSE 0)
    = state[p][o] + settled[p][o] + cleared[p][o] + lost[p][o]

OutcomesConserved == \A p \in Peers, o \in Outcome : Accounted(p, o)

(* Each outcome is counted once by the ratings the ledger holds: "+0.1 per      *)
(* success, -0.1 per failure" (docs/trust.md).                                 *)
(* No run states it, since the code does not keep it (README).                 *)
RatedOnce ==
  \A p \in Peers, o \in Outcome :
    settled[p][o] + unacked[p][o] <= recorded[p][o]

(* Within a window no peer gains or loses more than the cap by acknowledged    *)
(* ratings, however many outcomes are recorded, ticks come or restarts happen  *)
(* (completion_rating.go:33-34, 46-48).                                        *)
TrustRateCapped == \A p \in Peers : granted[p] <= HourlyCap

(* Every outcome is dealt with: when dispatching ends, all buckets come to     *)
(* rest empty, a failed Append delaying but never losing them.                 *)
BucketsDrain == <>[](\A p \in Peers : state[p] = None)

(* What makes them inductive: a rating being written is made of outcomes that  *)
(* are still in the bucket, and of a peer whose last rating is a window old.   *)
Within(a, b) == \A o \in Outcome : a[o] <= b[o]

TickInv ==
  /\ \A p \in toWrite \union writing : Within(emit[p], state[p])
  /\ tick = "idle" => toWrite = {}
  /\ tick # "settle" => writing = {}
  /\ toWrite \intersect writing = {}
  /\ \A p \in toWrite : granted[p] = 0
  /\ \A p \in known \ writing : since[p] >= age[p]
  /\ \A p \in writing : since[p] = tickAge

RatingInv == WriterTypeOK /\ OutcomesConserved /\ TrustRateCapped /\ TickInv
================================================================================
