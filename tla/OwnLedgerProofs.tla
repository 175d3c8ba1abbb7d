---------------------------- MODULE OwnLedgerProofs ----------------------------
(* Proofs about the author of a ledger: about OwnLedger, for every set of       *)
(* appenders and clients and any number of appends, crashes and failed          *)
(* statements, and about CompletionRating, whose ratings a boss appends to it,  *)
(* for every set of peers, window and cap and any number of outcomes, failed    *)
(* appends and restarts.                                                        *)
EXTENDS OwnLedger, CompletionRating, TLAPS

--------------------------------------------------------------------------------
(* Prefixes. *)

(* A prefix, element by element. *)
LEMMA PrefixPointwise ==
  ASSUME NEW S, NEW s \in Seq(S), NEW t \in Seq(S)
  PROVE  IsPrefix(s, t) <=> /\ Len(s) <= Len(t)
                            /\ \A i \in 1..Len(s) : s[i] = t[i]
<1>1. CASE Len(s) <= Len(t)
  <2>1. /\ Len(SubSeq(s, 1, Len(s))) = Len(s)
        /\ \A i \in 1..Len(s) : SubSeq(s, 1, Len(s))[i] = s[i]
    OBVIOUS
  <2>2. /\ Len(SubSeq(t, 1, Len(s))) = Len(s)
        /\ \A i \in 1..Len(s) : SubSeq(t, 1, Len(s))[i] = t[i]
    BY <1>1
  <2>3. SubSeq(s, 1, Len(s)) \in Seq(S) /\ SubSeq(t, 1, Len(s)) \in Seq(S)
    BY <1>1
  <2>4. SubSeq(s, 1, Len(s)) = SubSeq(t, 1, Len(s))
          <=> \A i \in 1..Len(s) : s[i] = t[i]
    BY <2>1, <2>2, <2>3
  <2> QED BY <1>1, <2>4 DEF IsPrefix
<1>2. CASE ~(Len(s) <= Len(t))
  BY <1>2 DEF IsPrefix
<1> QED BY <1>1, <1>2

LEMMA PrefixReflexive ==
  ASSUME NEW S, NEW s \in Seq(S)
  PROVE  IsPrefix(s, s)
BY PrefixPointwise

LEMMA PrefixTransitive ==
  ASSUME NEW S, NEW s \in Seq(S), NEW t \in Seq(S), NEW u \in Seq(S),
         IsPrefix(s, t), IsPrefix(t, u)
  PROVE  IsPrefix(s, u)
<1>1. Len(s) <= Len(t) /\ \A i \in 1..Len(s) : s[i] = t[i]
  BY PrefixPointwise
<1>2. Len(t) <= Len(u) /\ \A i \in 1..Len(t) : t[i] = u[i]
  BY PrefixPointwise
<1>3. Len(s) <= Len(u) /\ \A i \in 1..Len(s) : s[i] = u[i]
  BY <1>1, <1>2
<1> QED BY <1>3, PrefixPointwise

LEMMA PrefixAppend ==
  ASSUME NEW S, NEW s \in Seq(S), NEW x \in S
  PROVE  IsPrefix(s, Append(s, x))
<1>1. Append(s, x) \in Seq(S)
  OBVIOUS
<1>2. Len(s) <= Len(Append(s, x)) /\ \A i \in 1..Len(s) : s[i] = Append(s, x)[i]
  OBVIOUS
<1> QED BY <1>1, <1>2, PrefixPointwise

(* A piece from the start of a sequence is one of its elements.                *)
LEMMA PieceIn ==
  ASSUME NEW S, NEW s \in Seq(S), NEW m \in Nat, m <= Len(s)
  PROVE  SubSeq(s, 1, m) \in Seq(S) /\ Len(SubSeq(s, 1, m)) = m
OBVIOUS

(* A piece from the start of such a piece is one of the whole.                 *)
LEMMA PieceOfPiece ==
  ASSUME NEW S, NEW s \in Seq(S), NEW n \in 1..Len(s), NEW m \in 1..n
  PROVE  SubSeq(SubSeq(s, 1, n), 1, m) = SubSeq(s, 1, m)
<1>1. /\ SubSeq(s, 1, n) \in Seq(S) /\ Len(SubSeq(s, 1, n)) = n
      /\ \A i \in 1..n : SubSeq(s, 1, n)[i] = s[i]
  OBVIOUS
<1>2. /\ SubSeq(s, 1, m) \in Seq(S) /\ Len(SubSeq(s, 1, m)) = m
      /\ \A i \in 1..m : SubSeq(s, 1, m)[i] = s[i]
  OBVIOUS
<1> DEFINE t == SubSeq(s, 1, n)
<1>3. t \in Seq(S) /\ Len(t) = n /\ \A i \in 1..n : t[i] = s[i]
  BY <1>1
<1> HIDE DEF t
<1>4. /\ SubSeq(t, 1, m) \in Seq(S) /\ Len(SubSeq(t, 1, m)) = m
      /\ \A i \in 1..m : SubSeq(t, 1, m)[i] = t[i]
  BY <1>3
<1>5. \A i \in 1..m : SubSeq(t, 1, m)[i] = SubSeq(s, 1, m)[i]
  BY <1>2, <1>3, <1>4
<1>6. SubSeq(t, 1, m) = SubSeq(s, 1, m)
  BY <1>2, <1>4, <1>5
<1> QED BY <1>6 DEF t

LEMMA PrefixEmpty ==
  ASSUME NEW S, NEW s \in Seq(S)
  PROVE  IsPrefix(<<>>, s)
<1>1. Len(<<>>) <= Len(s)
  OBVIOUS
<1>2. SubSeq(<<>>, 1, 0) = <<>> /\ SubSeq(s, 1, 0) = <<>>
  OBVIOUS
<1> QED BY <1>1, <1>2 DEF IsPrefix

LEMMA PrefixLen ==
  ASSUME NEW s, NEW t, IsPrefix(s, t)
  PROVE  Len(s) <= Len(t)
BY DEF IsPrefix

(* A piece of t short enough to fit in its prefix s is a prefix of s. *)
LEMMA PrefixPiece ==
  ASSUME NEW S, NEW s \in Seq(S), NEW t \in Seq(S), IsPrefix(s, t),
         NEW n \in 0..Len(s)
  PROVE  SubSeq(t, 1, n) \in Seq(S) /\ IsPrefix(SubSeq(t, 1, n), s)
<1>1. Len(s) <= Len(t) /\ \A i \in 1..Len(s) : s[i] = t[i]
  BY PrefixPointwise
<1> DEFINE p == SubSeq(t, 1, n)
<1>2. /\ p \in Seq(S)
      /\ Len(p) = n
      /\ \A i \in 1..n : p[i] = t[i]
  BY <1>1
<1>3. \A i \in 1..Len(p) : p[i] = s[i]
  BY <1>1, <1>2
<1>4. Len(p) <= Len(s)
  BY <1>2
<1> HIDE DEF p
<1>5. IsPrefix(p, s)
  BY <1>2, <1>3, <1>4, PrefixPointwise
<1> QED BY <1>2, <1>5 DEF p

(* Two prefixes of one sequence are prefixes of one another. *)
LEMMA PrefixesCompare ==
  ASSUME NEW S, NEW s \in Seq(S), NEW t \in Seq(S), NEW u \in Seq(S),
         IsPrefix(s, u), IsPrefix(t, u)
  PROVE  IsPrefix(s, t) \/ IsPrefix(t, s)
<1>1. \A i \in 1..Len(s) : s[i] = u[i]
  BY PrefixPointwise
<1>2. \A i \in 1..Len(t) : t[i] = u[i]
  BY PrefixPointwise
<1>3. CASE Len(s) <= Len(t)
  BY <1>1, <1>2, <1>3, PrefixPointwise
<1>4. CASE Len(t) <= Len(s)
  BY <1>1, <1>2, <1>4, PrefixPointwise
<1> QED BY <1>3, <1>4

--------------------------------------------------------------------------------
(* The inductive invariant. *)

(* What is settled is a prefix of the log. *)
LEMMA SettledInRows ==
  ASSUME TypeOK, SettledInv, NEW p \in Log, Settled(p)
  PROVE  IsPrefix(p, rows)
<1>1. before.rows \in Log /\ rows \in Log /\ IsPrefix(before.rows, rows)
  BY DEF TypeOK, SettledInv
<1> QED BY <1>1, PrefixTransitive DEF Settled, Log

(* The state before the last transaction only grows. *)
LEMMA CommitSettles ==
  ASSUME TypeOK, SettledInv, Commit
  PROVE  /\ before'.rows = rows /\ before'.heads = heads
         /\ before' \in [rows : Log, heads : SUBSET Log]
         /\ \A p \in Log : IsPrefix(p, rows) => Settled(p)'
         /\ \A p \in Log : Settled(p) => Settled(p)'
         /\ \A p \in before'.heads : Settled(p)'
         /\ Len(before.rows) <= Len(before'.rows)
<1>1. /\ before'.rows = rows /\ before'.heads = heads
      /\ before' \in [rows : Log, heads : SUBSET Log]
  BY DEF Commit, TypeOK
<1>2. \A p \in Log : IsPrefix(p, rows) => Settled(p)'
  BY <1>1 DEF Settled
<1>3. Len(before.rows) <= Len(before'.rows)
  BY <1>1, PrefixLen DEF SettledInv
<1>4. \A p \in before'.heads : Settled(p)'
  BY <1>1, <1>2, SettledInRows DEF SettledInv, TypeOK
<1> QED BY <1>1, <1>2, <1>3, <1>4, SettledInRows

(* Once the whole log is settled, no row is past it.                           *)
LEMMA SettledLength ==
  ASSUME rows' \in Log, before' \in [rows : Log, heads : SUBSET Log], Settled(rows)',
         rows' = rows
  PROVE  Len(rows') <= Len(before'.rows) + 1
BY PrefixLen DEF Settled, Log

(* Writing a head of the log settles the whole log. *)
LEMMA WriteHeadSettles ==
  ASSUME TypeOK, SettledInv, WriteHead(rows)
  PROVE  /\ rows' = rows
         /\ heads' \in SUBSET Log
         /\ before' \in [rows : Log, heads : SUBSET Log]
         /\ IsPrefix(before'.rows, rows')
         /\ \A h \in heads' \union before'.heads : Settled(h)'
         /\ \A p \in Log : Settled(p) => Settled(p)'
         /\ Settled(rows)'
         /\ Len(before.rows) <= Len(before'.rows)
<1>1. rows' = rows /\ Commit /\ rows \in Log
  BY DEF WriteHead, TypeOK
<1>2. IsPrefix(rows, rows)
  BY <1>1, PrefixReflexive DEF Log
<1>3. Settled(rows)' /\ before'.rows = rows
  BY <1>1, <1>2, CommitSettles DEF Settled
<1>4. heads' \in SUBSET Log /\ \A h \in heads' : h \in heads \/ h = rows
  BY <1>1 DEF WriteHead, TypeOK
<1>5. \A h \in heads : h \in Log /\ Settled(h)'
  BY <1>1, CommitSettles DEF SettledInv, TypeOK
<1> QED BY <1>1, <1>2, <1>3, <1>4, <1>5, CommitSettles

LEMMA LogInit == Init => LogInv
<1> SUFFICES ASSUME Init PROVE LogInv
  OBVIOUS
<1>1. <<>> \in Log
  BY DEF Log
<1>2. IsPrefix(<<>>, <<>>)
  BY <1>1, PrefixEmpty DEF Log
<1>3. TypeOK
  <2>1. [rows |-> <<>>, heads |-> {}] \in [rows : Log, heads : SUBSET Log]
    BY <1>1
  <2>2. /\ [a \in Appenders |-> "idle"]
             \in [Appenders -> {"idle", "head", "publish"}]
        /\ [a \in Appenders |-> <<>>] \in [Appenders -> Log]
        /\ [c \in Clients |-> 0] \in [Clients -> Nat]
    BY <1>1
  <2>3. mu \in BOOLEAN
    BY DEF Init
  <2> QED BY <1>1, <2>1, <2>2, <2>3, OwnLedgerAssumption DEF Init, TypeOK
<1>4. SettledInv
  BY <1>2 DEF Init, SettledInv, OutsideSettled, Settled
<1>5. MemoryInv
  BY DEF Init, MemoryInv
<1> QED BY <1>3, <1>4, <1>5 DEF LogInv

LEMMA ServedInLog ==
  ASSUME TypeOK
  PROVE  \A s \in served : ButLast(s) \in Log
<1> SUFFICES ASSUME NEW s \in served PROVE ButLast(s) \in Log
  OBVIOUS
<1>1. s \in Seq(1..MaxAppends) /\ s # <<>>
  BY DEF TypeOK, Log
<1>2. Len(s) - 1 \in Nat /\ Len(s) - 1 <= Len(s)
  BY <1>1
<1> QED BY <1>1, <1>2, PieceIn DEF ButLast, Log

LEMMA PagesInLog ==
  ASSUME TypeOK
  PROVE  \A c \in Clients : \A n \in 1..Len(page[c]) : SubSeq(page[c], 1, n) \in Log
<1> SUFFICES ASSUME NEW c \in Clients, NEW n \in 1..Len(page[c])
             PROVE  SubSeq(page[c], 1, n) \in Log
  OBVIOUS
<1>1. page[c] \in Seq(1..MaxAppends)
  BY DEF TypeOK, Log
<1>2. n \in Nat /\ n <= Len(page[c])
  BY <1>1
<1> QED BY <1>1, <1>2, PieceIn DEF Log

(* What has left the peer stays settled when all that is settled does.         *)
LEMMA OutsideStays ==
  ASSUME TypeOK, OutsideSettled, UNCHANGED outside,
         Len(before.rows) \in Nat, Len(before'.rows) \in Nat,
         Len(before.rows) <= Len(before'.rows),
         \A p \in Log : Settled(p) => Settled(p)'
  PROVE  OutsideSettled'
<1>1. \A s \in served : ButLast(s) \in Log
  BY ServedInLog
<1>2. \A c \in Clients : \A n \in 1..Len(page[c]) : SubSeq(page[c], 1, n) \in Log
  BY PagesInLog
<1>3. \A p \in kept' \union acked' : Settled(p)'
  BY DEF TypeOK, OutsideSettled, outside
<1>4. \A s \in served' : Settled(ButLast(s))'
  BY <1>1 DEF OutsideSettled, outside, Settled, ButLast
<1>5. \A c \in Clients : bound'[c] <= Len(before'.rows)
  BY DEF TypeOK, OutsideSettled, outside
<1>6. \A c \in Clients : \A n \in 1..Len(page'[c]) :
        n <= bound'[c] => Settled(SubSeq(page[c], 1, n))'
  BY <1>2 DEF OutsideSettled, outside, Settled
<1> QED BY <1>3, <1>4, <1>5, <1>6 DEF OutsideSettled, Settled, ButLast

LEMMA WriteHeadOutside ==
  ASSUME TypeOK, SettledInv, WriteHead(rows), UNCHANGED outside
  PROVE  OutsideSettled'
<1>1. /\ before'.rows \in Log /\ Len(before.rows) <= Len(before'.rows)
      /\ \A p \in Log : Settled(p) => Settled(p)'
  BY WriteHeadSettles
<1>2. before.rows \in Log
  BY DEF TypeOK
<1>3. Len(before.rows) \in Nat /\ Len(before'.rows) \in Nat
  BY <1>1, <1>2 DEF Log
<1>4. OutsideSettled
  BY DEF SettledInv
<1> QED BY <1>1, <1>3, <1>4, OutsideStays

LEMMA OutsideUnchanged ==
  ASSUME OutsideSettled, UNCHANGED <<outside, before>>
  PROVE  OutsideSettled'
BY DEF OutsideSettled, outside, Settled, ButLast

(* A start-up step keeps the invariant. *)
LEMMA StartStep == LogInv /\ Start => LogInv'
<1> SUFFICES ASSUME LogInv, Start PROVE LogInv'
  OBVIOUS
<1> USE DEF LogInv
<1>e. <<>> \in Log /\ Settled(<<>>)
  BY PrefixEmpty DEF Log, TypeOK, Settled
<1>1. CASE Open
  <2>1. TypeOK'
    BY <1>1, <1>e DEF Open, TypeOK, durable, outside, counters
  <2>2. SettledInv'
    BY <1>1, <1>e, OutsideUnchanged DEF Open, SettledInv, Settled, durable
  <2>3. MemoryInv'
    BY <1>1 DEF Open, MemoryInv, durable
  <2> QED BY <2>1, <2>2, <2>3
<1>2. CASE LoadLastHead
  <2>1. /\ lastHead' \in heads \union {<<>>} \/ lastHead' = lastHead
        /\ faults' \in 0..MaxFaults
        /\ mode = "load" /\ mode' = "resync"
        /\ UNCHANGED <<rows, heads, before, tree, mu, pc, mine,
                       bound, page, served, kept, acked, appends, crashes>>
    BY <1>2, OwnLedgerAssumption
    DEF LoadLastHead, Fault, TypeOK, durable, outside
  <2>2. lastHead' \in Log /\ Settled(lastHead')
    BY <2>1, <1>e DEF TypeOK, SettledInv
  <2>3. TypeOK'
    BY <2>1, <2>2 DEF TypeOK
  <2>4. SettledInv'
    BY <2>1, <2>2, OutsideUnchanged DEF SettledInv, Settled, outside
  <2>5. MemoryInv'
    BY <2>1 DEF MemoryInv
  <2> QED BY <2>3, <2>4, <2>5
<1>3. CASE ResyncHeadIfBehind
  <2>1. /\ mode = "resync" /\ mode' = "up" /\ tree = rows
        /\ faults' \in 0..MaxFaults
        /\ UNCHANGED <<tree, mu, pc, mine, bound, page, served, kept, acked,
                       appends, crashes>>
    BY <1>3, OwnLedgerAssumption
    DEF ResyncHeadIfBehind, Fault, TypeOK, MemoryInv, durable, outside
  <2>2. CASE UNCHANGED <<rows, heads, before, lastHead>>
    <3>1. TypeOK'
      BY <2>1, <2>2 DEF TypeOK
    <3>2. SettledInv'
      BY <2>1, <2>2, OutsideUnchanged DEF SettledInv, Settled, outside
    <3>3. MemoryInv'
      BY <2>1, <2>2 DEF MemoryInv
    <3> QED BY <3>1, <3>2, <3>3
  <2>3. CASE WriteHead(rows) /\ lastHead' = rows
    <3>1. TypeOK'
      BY <2>1, <2>3, WriteHeadSettles DEF TypeOK
    <3>2. SettledInv'
      <4>1. Len(rows') <= Len(before'.rows) + 1
        BY <2>3, WriteHeadSettles, SettledLength DEF TypeOK
      <4>2. OutsideSettled'
        <5>1. UNCHANGED outside
          BY <2>1 DEF outside
        <5> QED BY <2>3, <5>1, WriteHeadOutside
      <4>3. \A a \in Appenders : pc'[a] = "publish" => Settled(mine[a])'
        BY <2>1, <2>3, WriteHeadSettles DEF SettledInv, TypeOK, MemoryInv
      <4> QED BY <2>1, <2>3, <4>1, <4>2, <4>3, WriteHeadSettles
              DEF SettledInv, Settled
    <3>3. MemoryInv'
      BY <2>1, <2>3, WriteHeadSettles DEF MemoryInv
    <3> QED BY <3>1, <3>2, <3>3
  <2> QED BY <1>3, <2>1, <2>2, <2>3 DEF ResyncHeadIfBehind, durable
<1> QED BY <1>1, <1>2, <1>3 DEF Start

(* A step of an Append keeps the invariant. *)
LEMMA AppendStep ==
  ASSUME LogInv, NEW a \in Appenders, DoAppend(a)
  PROVE  LogInv'
<1> USE DEF LogInv
<1>1. CASE PersistEntry(a)
  <2>1. /\ mode = "up" /\ mode' = "up" /\ ~mu /\ mu' = TRUE /\ pc[a] = "idle"
        /\ appends < MaxAppends /\ appends' = appends + 1
        /\ pc' = [pc EXCEPT ![a] = "head"]
        /\ rows' = Append(rows, appends') /\ heads' = heads /\ Commit
        /\ tree' = Append(tree, appends') /\ mine' = [mine EXCEPT ![a] = tree']
        /\ UNCHANGED <<lastHead, bound, page, served, kept, acked, crashes, faults>>
    BY <1>1 DEF PersistEntry, AddEntry, outside
  <2>2. appends' \in 1..MaxAppends
    BY <2>1, OwnLedgerAssumption DEF TypeOK
  <2>3. tree = rows /\ tree' = rows' /\ rows' \in Log
    BY <2>1, <2>2 DEF MemoryInv, TypeOK, Log
  <2>4. IsPrefix(rows, rows')
    BY <2>1, <2>2, PrefixAppend DEF TypeOK, Log
  <2>5. TypeOK'
    <3>1. before' \in [rows : Log, heads : SUBSET Log]
      BY <2>1, CommitSettles
    <3>2. pc' \in [Appenders -> {"idle", "head", "publish"}]
          /\ mine' \in [Appenders -> Log]
      BY <2>1, <2>3 DEF TypeOK
    <3>3. mu' \in BOOLEAN
      BY <2>1
    <3> QED BY <2>1, <2>2, <2>3, <3>1, <3>2, <3>3 DEF TypeOK
  <2>6. SettledInv'
    <3>1. IsPrefix(before'.rows, rows')
      BY <2>1, <2>4, CommitSettles
    <3>2. \A h \in heads' \union before'.heads : Settled(h)'
      BY <2>1, CommitSettles DEF SettledInv, TypeOK
    <3>3. Len(rows') <= Len(before'.rows) + 1
      <4>1. before'.rows = rows
        BY <2>1, CommitSettles
      <4>2. rows \in Seq(1..MaxAppends)
        BY DEF TypeOK, Log
      <4> QED BY <2>1, <4>1, <4>2
    <3>4. OutsideSettled'
      <4>1. Len(before.rows) \in Nat /\ Len(before'.rows) \in Nat
        BY <2>1, CommitSettles DEF TypeOK, Log
      <4>2. UNCHANGED outside
        BY <2>1 DEF outside
      <4> QED BY <2>1, <4>1, <4>2, CommitSettles, OutsideStays DEF SettledInv
    <3>5. Settled(lastHead)'
      BY <2>1, CommitSettles DEF SettledInv, TypeOK, Settled
    <3>6. \A b \in Appenders : pc'[b] = "publish" => Settled(mine[b])'
      BY <2>1, CommitSettles DEF SettledInv, TypeOK, Settled
    <3> QED BY <3>1, <3>2, <3>3, <3>4, <3>5, <3>6 DEF SettledInv, Settled
  <2>7. MemoryInv'
    BY <2>1, <2>3 DEF MemoryInv, TypeOK
  <2> QED BY <2>5, <2>6, <2>7
<1>2. CASE PersistHead(a)
  <2>1. /\ pc[a] = "head" /\ mu' = FALSE /\ lastHead' = mine[a]
        /\ WriteHead(mine[a])
        /\ pc' = [pc EXCEPT ![a] = "publish"]
        /\ UNCHANGED <<tree, mode, mine, bound, page, served, kept, acked,
                       appends, crashes, faults>>
    BY <1>2 DEF PersistHead, outside, counters
  <2>2. mode = "up" /\ mu /\ mine[a] = tree /\ tree = rows
    BY <2>1 DEF MemoryInv
  <2>3. /\ WriteHead(rows) /\ lastHead' = rows /\ rows \in Log
    BY <2>1, <2>2 DEF TypeOK
  <2>4. TypeOK'
    <3>1. pc' \in [Appenders -> {"idle", "head", "publish"}]
      BY <2>1 DEF TypeOK
    <3>2. mu' \in BOOLEAN
      BY <2>1
    <3> QED BY <2>1, <2>3, <3>1, <3>2, WriteHeadSettles DEF TypeOK
  <2>5. SettledInv'
    <3>1. Len(rows') <= Len(before'.rows) + 1
      BY <2>3, WriteHeadSettles, SettledLength DEF TypeOK
    <3>2. OutsideSettled'
      <4>1. UNCHANGED outside
        BY <2>1 DEF outside
      <4> QED BY <2>3, <4>1, WriteHeadOutside
    <3>3. \A b \in Appenders : pc'[b] = "publish" => Settled(mine[b])'
      BY <2>1, <2>2, <2>3, WriteHeadSettles DEF SettledInv, TypeOK, Settled
    <3>4. Settled(lastHead)'
      BY <2>3, WriteHeadSettles DEF Settled
    <3> QED BY <2>3, <3>1, <3>2, <3>3, <3>4, WriteHeadSettles
            DEF SettledInv, Settled
  <2>6. MemoryInv'
    <3>1. \A b \in Appenders : pc[b] = "head" => b = a
      BY <2>1 DEF MemoryInv
    <3> QED BY <2>1, <2>2, <2>3, <3>1, WriteHeadSettles DEF MemoryInv, TypeOK
  <2> QED BY <2>4, <2>5, <2>6
<1>3. CASE PersistHeadFails(a)
  <2>1. /\ pc[a] = "head" /\ mu' = FALSE
        /\ faults' \in 0..MaxFaults
        /\ pc' = [pc EXCEPT ![a] = "idle"]
        /\ mine' = [mine EXCEPT ![a] = <<>>]
        /\ UNCHANGED <<rows, heads, before, tree, lastHead, mode,
                       bound, page, served, kept, acked, appends, crashes>>
    BY <1>3, OwnLedgerAssumption
    DEF PersistHeadFails, Fault, TypeOK, durable, outside
  <2>2. TypeOK'
    <3>1. pc' \in [Appenders -> {"idle", "head", "publish"}]
          /\ mine' \in [Appenders -> Log]
      BY <2>1 DEF TypeOK, Log
    <3>2. mu' \in BOOLEAN
      BY <2>1
    <3> QED BY <2>1, <3>1, <3>2 DEF TypeOK
  <2>3. SettledInv'
    <3>1. \A b \in Appenders : pc'[b] = "publish" => Settled(mine[b])'
      BY <2>1 DEF SettledInv, TypeOK, Settled
    <3> QED BY <2>1, <3>1, OutsideUnchanged DEF SettledInv, Settled, outside
  <2>4. MemoryInv'
    <3>1. \A b \in Appenders : pc'[b] # "head"
      BY <2>1 DEF MemoryInv, TypeOK
    <3> QED BY <2>1, <3>1 DEF MemoryInv, TypeOK
  <2> QED BY <2>2, <2>3, <2>4
<1>4. CASE Publish(a)
  <2>1. /\ pc[a] = "publish"
        /\ kept' \in {kept, kept \union {mine[a]}}
        /\ acked' = acked \union {mine[a]}
        /\ pc' = [pc EXCEPT ![a] = "idle"]
        /\ mine' = [mine EXCEPT ![a] = <<>>]
        /\ UNCHANGED <<rows, heads, before, tree, lastHead, mode, mu, bound,
                       page, served, appends, crashes, faults>>
    BY <1>4 DEF Publish, durable, counters
  <2>2. mine[a] \in Log /\ Settled(mine[a])
    BY <2>1 DEF SettledInv, TypeOK
  <2>3. TypeOK'
    <3>1. pc' \in [Appenders -> {"idle", "head", "publish"}]
          /\ mine' \in [Appenders -> Log]
      BY <2>1 DEF TypeOK, Log
    <3>2. kept' \in SUBSET Log /\ acked' \in SUBSET Log
      BY <2>1, <2>2 DEF TypeOK
    <3> QED BY <2>1, <3>1, <3>2 DEF TypeOK
  <2>4. SettledInv'
    <3>1. \A b \in Appenders : pc'[b] = "publish" => Settled(mine[b])'
      BY <2>1 DEF SettledInv, TypeOK, Settled
    <3>2. \A p \in kept' \union acked' : Settled(p)'
      BY <2>1, <2>2 DEF SettledInv, OutsideSettled, Settled
    <3>3. OutsideSettled'
      BY <2>1, <3>2 DEF SettledInv, OutsideSettled, Settled, ButLast
    <3> QED BY <2>1, <3>1, <3>3 DEF SettledInv, Settled
  <2>5. MemoryInv'
    BY <2>1 DEF MemoryInv, TypeOK
  <2> QED BY <2>3, <2>4, <2>5
<1> QED BY <1>1, <1>2, <1>3, <1>4 DEF DoAppend

(* Serving a peer, and what it then keeps, keeps the invariant. *)
LEMMA ServeStep ==
  ASSUME LogInv, NEW c \in Clients, Serve(c)
  PROVE  LogInv'
<1> USE DEF LogInv
<1>1. UNCHANGED <<rows, heads, before, tree, lastHead, mode, mu, pc, mine,
                  acked, appends, crashes, faults>>
  BY DEF Serve, HandleHeadFetch, HandleFetch, CatchUp, durable, memory, counters
<1>2. before.rows \in Log /\ IsPrefix(before.rows, rows) /\ rows \in Log
  BY DEF TypeOK, SettledInv
<1>3. /\ bound' \in [Clients -> Nat] /\ page' \in [Clients -> Log]
      /\ served' \in SUBSET (Log \ {<<>>}) /\ kept' \in SUBSET Log
      /\ OutsideSettled'
  <2>1. CASE HandleHeadFetch(c)
    <3>1. /\ bound' = [bound EXCEPT ![c] = Len(lastHead)]
          /\ page' = [page EXCEPT ![c] = <<>>]
          /\ kept' = kept \/ kept' = kept \union {lastHead}
          /\ UNCHANGED served
      BY <2>1 DEF HandleHeadFetch
    <3>2. lastHead \in Log /\ Settled(lastHead) /\ <<>> \in Log
      BY DEF TypeOK, SettledInv, Log
    <3>3. Len(lastHead) <= Len(before.rows) /\ Len(lastHead) \in Nat
      BY <1>2, <3>2, PrefixLen DEF Settled, Log
    <3>4. bound' \in [Clients -> Nat] /\ page' \in [Clients -> Log] /\ kept' \in SUBSET Log
      BY <3>1, <3>2, <3>3 DEF TypeOK
    <3>5. \A p \in kept' : Settled(p)
      BY <3>1, <3>2 DEF SettledInv, OutsideSettled
    <3>6. \A d \in Clients :
            \/ bound'[d] = bound[d] /\ page'[d] = page[d]
            \/ bound'[d] = Len(lastHead) /\ page'[d] = <<>>
      BY <3>1 DEF TypeOK
    <3>7. \A d \in Clients :
            /\ bound'[d] <= Len(before.rows)
            /\ \A n \in 1..Len(page'[d]) : n <= bound'[d] => Settled(SubSeq(page'[d], 1, n))
      BY <3>3, <3>6 DEF SettledInv, OutsideSettled
    <3> QED BY <1>1, <3>1, <3>4, <3>5, <3>7
            DEF TypeOK, SettledInv, OutsideSettled, Settled, ButLast
  <2>2. CASE HandleFetch(c)
    <3>1. PICK n \in 1..Len(rows) :
            /\ page' = [page EXCEPT ![c] = SubSeq(rows, 1, n)]
            /\ served' = served \union {SubSeq(rows, 1, n)}
      BY <2>2 DEF HandleFetch
    <3>2. UNCHANGED <<bound, kept>>
      BY <2>2 DEF HandleFetch
    <3> DEFINE s == SubSeq(rows, 1, n)
    <3>3. s \in Log /\ Len(s) = n /\ s # <<>> /\ n \in Nat \ {0}
      <4>1. n \in Nat \ {0} /\ n <= Len(rows)
        BY <1>2, <3>1 DEF Log
      <4>2. s \in Log /\ Len(s) = n
        BY <1>2, <4>1, PieceIn DEF Log
      <4> QED BY <4>1, <4>2
    <3>4. \A m \in 1..n : SubSeq(s, 1, m) = SubSeq(rows, 1, m)
      BY <1>2, <3>1, <3>3, PieceOfPiece DEF Log
    <3>5. \A m \in 0..Len(before.rows) : Settled(SubSeq(rows, 1, m))
      BY <1>2, PrefixPiece DEF Settled, Log
    <3>6. n - 1 \in 0..Len(before.rows)
      BY <1>2, <3>1 DEF SettledInv, Log
    <3>7. Settled(ButLast(s))
      <4>1. CASE n = 1
        <5>1. SubSeq(s, 1, 0) \in Log /\ Len(SubSeq(s, 1, 0)) = 0
          BY <3>3, PieceIn DEF Log
        <5>2. SubSeq(s, 1, 0) = <<>> /\ IsPrefix(<<>>, before.rows)
          BY <1>2, <5>1, PrefixEmpty DEF Log
        <5>3. ButLast(s) = SubSeq(s, 1, 0)
          BY <3>3, <4>1 DEF ButLast
        <5> QED BY <5>2, <5>3 DEF Settled
      <4>2. CASE n # 1
        <5>1. n - 1 \in 1..n
          BY <3>3, <4>2
        <5> QED BY <3>3, <3>4, <3>5, <3>6, <5>1 DEF ButLast
      <4> QED BY <4>1, <4>2
    <3>8. \A m \in 1..n : m <= bound[c] => Settled(SubSeq(s, 1, m))
      <4> SUFFICES ASSUME NEW m \in 1..n, m <= bound[c] PROVE Settled(SubSeq(s, 1, m))
        OBVIOUS
      <4>1. m \in 0..Len(before.rows)
        BY <1>2, <3>3 DEF SettledInv, OutsideSettled, TypeOK, Log
      <4> QED BY <3>4, <3>5, <4>1
    <3> HIDE DEF s
    <3>9. page' = [page EXCEPT ![c] = s] /\ served' = served \union {s}
      BY <3>1 DEF s
    <3>10. page' \in [Clients -> Log] /\ served' \in SUBSET (Log \ {<<>>})
      BY <3>3, <3>9 DEF TypeOK
    <3>11. \A t \in served' : Settled(ButLast(t))
      BY <3>7, <3>9 DEF SettledInv, OutsideSettled
    <3>12. \A d \in Clients : \A m \in 1..Len(page'[d]) :
             m <= bound[d] => Settled(SubSeq(page'[d], 1, m))
      BY <3>3, <3>8, <3>9 DEF TypeOK, SettledInv, OutsideSettled
    <3> QED BY <1>1, <3>2, <3>10, <3>11, <3>12
            DEF TypeOK, SettledInv, OutsideSettled, Settled, ButLast
  <2>3. CASE CatchUp(c)
    <3>1. PICK n \in 1..Len(page[c]) :
            n <= bound[c] /\ kept' = kept \union {SubSeq(page[c], 1, n)}
      BY <2>3 DEF CatchUp
    <3>2. UNCHANGED <<bound, page, served>>
      BY <2>3 DEF CatchUp
    <3>3. SubSeq(page[c], 1, n) \in Log /\ Settled(SubSeq(page[c], 1, n))
      BY <3>1, PagesInLog DEF SettledInv, OutsideSettled
    <3> QED BY <1>1, <3>1, <3>2, <3>3
            DEF TypeOK, SettledInv, OutsideSettled, Settled, ButLast
  <2> QED BY <2>1, <2>2, <2>3 DEF Serve
<1>4. TypeOK'
  BY <1>1, <1>3 DEF TypeOK
<1>5. SettledInv'
  BY <1>1, <1>3 DEF SettledInv, Settled
<1>6. MemoryInv'
  BY <1>1 DEF MemoryInv
<1> QED BY <1>4, <1>5, <1>6

(* A crash or a power loss keeps the invariant. *)
LEMMA CrashStep == LogInv /\ (Crash \/ PowerLoss) => LogInv'
<1> SUFFICES ASSUME LogInv, Crash \/ PowerLoss PROVE LogInv'
  OBVIOUS
<1> USE DEF LogInv
<1>1. /\ mode' = "down" /\ mu' = FALSE /\ tree' = <<>> /\ lastHead' = <<>>
      /\ pc' = [a \in Appenders |-> "idle"]
      /\ mine' = [a \in Appenders |-> <<>>]
      /\ crashes' \in 0..MaxCrashes
      /\ UNCHANGED <<before, bound, page, served, kept, acked, appends, faults>>
  BY OwnLedgerAssumption
  DEF Crash, PowerLoss, Down, TypeOK, durable, outside
<1>2. \/ rows' = rows /\ heads' = heads
      \/ rows' = before.rows /\ heads' = before.heads
  BY DEF Crash, PowerLoss, durable
<1>3. <<>> \in Log /\ Settled(<<>>)
  BY PrefixEmpty DEF Log, TypeOK, Settled
<1>4. /\ rows' \in Log /\ heads' \in SUBSET Log
      /\ \A h \in heads' : Settled(h)
  BY <1>2 DEF TypeOK, SettledInv
<1>5. IsPrefix(before.rows, rows') /\ Len(rows') <= Len(before.rows) + 1
  BY <1>2, PrefixReflexive DEF SettledInv, TypeOK, Log
<1>6. TypeOK'
  <2>1. pc' \in [Appenders -> {"idle", "head", "publish"}]
        /\ mine' \in [Appenders -> Log]
    BY <1>1, <1>3
  <2>2. mu' \in BOOLEAN
    BY <1>1
  <2> QED BY <1>1, <1>3, <1>4, <2>1, <2>2 DEF TypeOK
<1>7. SettledInv'
  <2>1. \A a \in Appenders : pc'[a] # "publish"
    BY <1>1
  <2>2. OutsideSettled'
    BY <1>1 DEF SettledInv, OutsideSettled, Settled, ButLast
  <2> QED BY <1>1, <1>3, <1>4, <1>5, <2>1, <2>2 DEF SettledInv, Settled
<1>8. MemoryInv'
  <2>1. \A a \in Appenders : pc'[a] = "idle"
    BY <1>1
  <2> QED BY <1>1, <2>1 DEF MemoryInv
<1> QED BY <1>6, <1>7, <1>8

LEMMA LogStep == LogInv /\ [Next]_vars => LogInv'
<1> SUFFICES ASSUME LogInv, [Next]_vars PROVE LogInv'
  OBVIOUS
<1>1. CASE UNCHANGED vars
  BY <1>1, OutsideUnchanged
  DEF LogInv, TypeOK, SettledInv, Settled, MemoryInv, vars, durable, memory, outside, counters
<1>2. CASE Next
  BY <1>2, StartStep, AppendStep, ServeStep, CrashStep DEF Next
<1> QED BY <1>1, <1>2

--------------------------------------------------------------------------------
(* The theorems. *)

(* The inductive invariant holds in every reachable state: in particular the   *)
(* tables, the tree and the lock agree (impl.go:279-338), and all that others  *)
(* were shown or told survives the loss of the last transaction.               *)
THEOREM OwnLedgerInvariant == Spec => []LogInv
BY LogInit, LogStep, PTL DEF Spec

(* What peers running this code take in of the log and its heads, and all but  *)
(* the last row of what anybody at all is served of it, is one history,        *)
(* through any crashes, power losses and failed writes (impl.go:279-338,       *)
(* store/sqlite.go:88-91, fetch.go:91-117, catchup.go:230-239).                *)
THEOREM OwnLedgerNeverEquivocates == Spec => []NoEquivocation
<1>1. LogInv => NoEquivocation
  <2> SUFFICES ASSUME LogInv, NEW p \in kept \union {ButLast(s) : s \in served},
                      NEW q \in kept \union {ButLast(s) : s \in served}
               PROVE  IsPrefix(p, q) \/ IsPrefix(q, p)
    BY DEF NoEquivocation
  <2>1. \A s \in served : ButLast(s) \in Log
    BY ServedInLog DEF LogInv
  <2>2. p \in Log /\ q \in Log /\ before.rows \in Log
    BY <2>1 DEF LogInv, TypeOK
  <2>3. IsPrefix(p, before.rows) /\ IsPrefix(q, before.rows)
    BY DEF LogInv, SettledInv, OutsideSettled, Settled
  <2> QED BY <2>2, <2>3, PrefixesCompare DEF Log
<1> QED BY <1>1, OwnLedgerInvariant, PTL

(* An acknowledged entry is never lost (impl.go:275-278).                      *)
THEOREM OwnLedgerKeepsAcked == Spec => []AckedKept
<1>1. LogInv => AckedKept
  BY SettledInRows DEF LogInv, AckedKept, SettledInv, OutsideSettled, TypeOK
<1> QED BY <1>1, OwnLedgerInvariant, PTL

(* While the process runs the served head only grows (impl.go:323-326).        *)
THEOREM OwnLedgerHeadsGrow == Spec => HeadsGrow
<1>1. LogInv /\ [Next]_vars
        => [mode = "up" /\ mode' = "up" => IsPrefix(lastHead, lastHead')]_vars
  <2> SUFFICES ASSUME LogInv, Next, mode = "up", mode' = "up"
               PROVE  IsPrefix(lastHead, lastHead')
    OBVIOUS
  <2>1. lastHead \in Log /\ rows \in Log /\ IsPrefix(lastHead, rows)
    BY SettledInRows DEF LogInv, TypeOK, SettledInv
  <2>2. lastHead' = lastHead \/ lastHead' = rows
    <3>1. CASE \E a \in Appenders : DoAppend(a)
      BY <3>1 DEF DoAppend, PersistEntry, AddEntry, PersistHead,
                  PersistHeadFails, Publish, LogInv, MemoryInv
    <3>2. CASE \E c \in Clients : Serve(c)
      BY <3>2 DEF Serve, HandleHeadFetch, HandleFetch, CatchUp, memory
    <3> QED BY <3>1, <3>2
            DEF Next, Start, Open, LoadLastHead, ResyncHeadIfBehind,
                Crash, PowerLoss, Down
  <2> QED BY <2>1, <2>2, PrefixReflexive DEF Log
<1> QED BY <1>1, OwnLedgerInvariant, PTL DEF Spec, HeadsGrow

(* A prefix as long as the whole is the whole.                                 *)
LEMMA PrefixWhole ==
  ASSUME NEW S, NEW s \in Seq(S), NEW t \in Seq(S), IsPrefix(s, t), Len(s) = Len(t)
  PROVE  s = t
<1>1. \A i \in 1..Len(s) : s[i] = t[i]
  BY PrefixPointwise
<1> QED BY <1>1

(* Without a failed statement the served head is signed over the tree: at      *)
(* start-up it is signed anew unless it already is, and an Append holds the    *)
(* lock until the head it has signed is the served one.                        *)
LEMMA ProofsStep ==
  ASSUME LogInv, CleanProofsVerify, [Next]_vars
  PROVE  CleanProofsVerify'
<1> USE DEF CleanProofsVerify, ProofsVerify
<1>1. faults' = 0 => faults = 0 /\ ProofsVerify
  <2>1. faults \in Nat /\ faults' \in {faults, faults + 1}
    BY OwnLedgerAssumption
    DEF LogInv, TypeOK, Next, vars, counters, Start, Open, LoadLastHead, ResyncHeadIfBehind,
        Fault, DoAppend, PersistEntry, AddEntry, PersistHead, PersistHeadFails, Publish,
        Serve, HandleHeadFetch, HandleFetch, CatchUp, Crash, PowerLoss, Down
  <2> QED BY <2>1
<1>2. CASE UNCHANGED <<mode, mu, lastHead, tree>>
  BY <1>1, <1>2
<1>3. CASE Open \/ LoadLastHead \/ Crash \/ PowerLoss
  BY <1>3 DEF Open, LoadLastHead, Crash, PowerLoss, Down
<1>4. CASE ResyncHeadIfBehind
  <2>1. lastHead \in Log /\ rows \in Log /\ tree = rows /\ tree' = tree
    BY <1>4 DEF ResyncHeadIfBehind, LogInv, TypeOK, MemoryInv
  <2>2. IsPrefix(lastHead, rows)
    BY <2>1, SettledInRows DEF LogInv, SettledInv
  <2>3. CASE lastHead' = lastHead /\ Len(lastHead) = Len(tree)
    BY <2>1, <2>2, <2>3, PrefixWhole DEF Log
  <2>4. CASE lastHead' = tree \/ lastHead' = <<>>
    BY <2>1, <2>4
  <2>5. CASE Fault
    BY <1>1, <2>5 DEF Fault, LogInv, TypeOK
  <2> QED BY <1>4, <2>3, <2>4, <2>5 DEF ResyncHeadIfBehind
<1>5. ASSUME NEW a \in Appenders, DoAppend(a) PROVE CleanProofsVerify'
  <2>1. CASE PersistEntry(a)
    BY <2>1 DEF PersistEntry
  <2>2. CASE PersistHead(a)
    BY <2>2 DEF PersistHead, LogInv, MemoryInv
  <2>3. CASE PersistHeadFails(a)
    BY <1>1, <2>3 DEF PersistHeadFails, Fault, LogInv, TypeOK
  <2>4. CASE Publish(a)
    BY <1>2, <2>4 DEF Publish
  <2> QED BY <1>5, <2>1, <2>2, <2>3, <2>4 DEF DoAppend
<1>6. CASE \E c \in Clients : Serve(c)
  BY <1>2, <1>6 DEF Serve, HandleHeadFetch, HandleFetch, CatchUp, memory
<1> QED BY <1>2, <1>3, <1>4, <1>5, <1>6 DEF Next, Start, vars, memory

(* Through every crash and power loss, a proof handed out verifies against the *)
(* head attached to it, as long as no statement has failed (impl.go:211-215).  *)
THEOREM OwnLedgerProofsVerify == Spec => []CleanProofsVerify
<1>1. Init => CleanProofsVerify
  BY DEF Init, CleanProofsVerify, ProofsVerify
<1>2. LogInv /\ CleanProofsVerify /\ [Next]_vars => CleanProofsVerify'
  BY ProofsStep
<1> QED BY <1>1, <1>2, OwnLedgerInvariant, PTL DEF Spec

--------------------------------------------------------------------------------
(* The ratings a boss appends to its log. *)

(* The arithmetic of counts. *)
LEMMA CountsFacts ==
  ASSUME NEW a \in Counts, NEW b \in Counts
  PROVE  /\ Plus(a, b) \in Counts
         /\ \A o \in Outcome : Plus(a, b)[o] = a[o] + b[o]
         /\ \A o \in Outcome : Minus(a, b)[o] = a[o] - b[o]
         /\ Within(b, a) => Minus(a, b) \in Counts
BY DEF Counts, Plus, Minus, Within

LEMMA NoneFacts == None \in Counts /\ \A o \in Outcome : None[o] = 0
BY DEF Counts, None

LEMMA ScoreBounds ==
  ASSUME NEW b \in Counts
  PROVE  Size(Score(b)) \in 0..HourlyCap
BY RatingAssumption DEF Counts, Outcome, Score, Size

LEMMA RatingInit == WriterInit => RatingInv
<1> SUFFICES ASSUME WriterInit PROVE RatingInv
  OBVIOUS
<1>1. WriterTypeOK
  BY NoneFacts, RatingAssumption DEF WriterInit, WriterTypeOK
<1>2. OutcomesConserved
  BY NoneFacts DEF WriterInit, OutcomesConserved, Accounted
<1>3. TrustRateCapped
  BY RatingAssumption DEF WriterInit, TrustRateCapped
<1>4. TickInv
  BY DEF WriterInit, TickInv
<1> QED BY <1>1, <1>2, <1>3, <1>4 DEF RatingInv

(* Time passing keeps the invariant. *)
LEMMA TimeStep == RatingInv /\ Time => RatingInv'
<1> SUFFICES ASSUME RatingInv, Time PROVE RatingInv'
  OBVIOUS
<1> USE RatingAssumption DEF RatingInv, Time
<1>1. \A t \in 0..Window : Older(t) \in 0..Window
  BY DEF Older
<1>2. \A t, u \in 0..Window : t >= u => Older(t) >= Older(u)
  BY DEF Older
<1>3. WriterTypeOK'
  BY <1>1 DEF WriterTypeOK
<1>4. OutcomesConserved'
  BY DEF OutcomesConserved, Accounted
<1>5. TrustRateCapped'
  BY DEF TrustRateCapped
<1>6. TickInv'
  BY <1>2 DEF TickInv, WriterTypeOK
<1> QED BY <1>3, <1>4, <1>5, <1>6

(* Recording an outcome keeps the invariant. *)
LEMMA RecordStep ==
  ASSUME RatingInv, NEW p \in Peers, NEW o \in Outcome, RecordOutcome(p, o)
  PROVE  RatingInv'
<1> USE DEF RatingInv
<1>1. /\ recorded' = [recorded EXCEPT ![p][o] = @ + 1]
      /\ state' = [state EXCEPT ![p][o] = @ + 1]
      /\ known' = known \union {p}
      /\ age' = IF p \in known THEN age ELSE [age EXCEPT ![p] = 0]
      /\ UNCHANGED <<tick, tickAge, toWrite, emit, writing, settled, cleared,
                     lost, unacked, since, granted, ratingFaults>>
  BY DEF RecordOutcome, ticker
<1>2. /\ recorded' \in [Peers -> Counts] /\ state' \in [Peers -> Counts]
      /\ \A q \in Peers, k \in Outcome :
           /\ recorded'[q][k] - recorded[q][k] = state'[q][k] - state[q][k]
           /\ state[q][k] <= state'[q][k]
  BY <1>1 DEF WriterTypeOK, Counts
<1>3. WriterTypeOK'
  <2>1. age' \in [Peers -> 0..Window]
    BY <1>1, RatingAssumption DEF WriterTypeOK
  <2> QED BY <1>1, <1>2, <2>1 DEF WriterTypeOK
<1>4. OutcomesConserved'
  <2> SUFFICES ASSUME NEW q \in Peers, NEW k \in Outcome PROVE Accounted(q, k)'
    BY DEF OutcomesConserved
  <2>1. /\ Accounted(q, k)
        /\ recorded[q][k] \in Nat /\ emit[q][k] \in Nat /\ state[q][k] \in Nat
        /\ settled[q][k] \in Nat /\ cleared[q][k] \in Nat /\ lost[q][k] \in Nat
        /\ recorded'[q][k] \in Nat /\ state'[q][k] \in Nat
    BY <1>2 DEF OutcomesConserved, WriterTypeOK, Counts
  <2>2. PICK d \in {0, 1} : /\ recorded'[q][k] = recorded[q][k] + d
                            /\ state'[q][k] = state[q][k] + d
    BY <1>1 DEF WriterTypeOK, Counts
  <2>3. /\ writing' = writing /\ emit' = emit /\ settled' = settled
        /\ cleared' = cleared /\ lost' = lost
    BY <1>1
  <2> DEFINE w == IF q \in writing THEN emit[q][k] ELSE 0
  <2>4. w \in Nat
    BY <2>1
  <2>5. recorded[q][k] + w = state[q][k] + settled[q][k] + cleared[q][k] + lost[q][k]
    BY <2>1 DEF Accounted
  <2> HIDE DEF w
  <2>6. recorded'[q][k] + w = state'[q][k] + settled[q][k] + cleared[q][k] + lost[q][k]
    BY <2>1, <2>2, <2>4, <2>5
  <2> QED BY <2>3, <2>6 DEF Accounted, w
<1>5. TrustRateCapped'
  BY <1>1 DEF TrustRateCapped
<1>6. TickInv'
  <2>1. \A q \in toWrite \union writing : Within(emit[q], state'[q])
    BY <1>2 DEF TickInv, WriterTypeOK, Within, Counts
  <2>2. \A q \in known' \ writing : since[q] >= age'[q]
    BY <1>1 DEF TickInv, WriterTypeOK
  <2> QED BY <1>1, <2>1, <2>2 DEF TickInv
<1> QED BY <1>3, <1>4, <1>5, <1>6

(* The snapshot of a Tick keeps the invariant. *)
LEMMA SnapshotStep == RatingInv /\ TickSnapshot => RatingInv'
<1> SUFFICES ASSUME RatingInv, TickSnapshot PROVE RatingInv'
  OBVIOUS
<1> USE DEF RatingInv
<1>1. /\ tick = "idle" /\ tick' \in {"idle", "append"} /\ tickAge' = 0
      /\ toWrite' = {p \in Peers : Due(p) /\ Score(state[p]) # 0}
      /\ tick' = IF toWrite' = {} THEN "idle" ELSE "append"
      /\ emit' = [p \in Peers |-> IF p \in toWrite' THEN state[p] ELSE None]
      /\ state' = [p \in Peers |-> IF Forgotten(p) THEN None ELSE state[p]]
      /\ cleared' = [p \in Peers |->
           IF Forgotten(p) THEN Plus(cleared[p], state[p]) ELSE cleared[p]]
      /\ granted' = [p \in Peers |-> IF since[p] >= Window THEN 0 ELSE granted[p]]
      /\ UNCHANGED <<age, known, writing, recorded, settled, lost, unacked, since,
                     ratingFaults>>
  BY DEF TickSnapshot
<1>2. writing = {}
  BY <1>1 DEF TickInv
<1>3. WriterTypeOK'
  <2>1. /\ state' \in [Peers -> Counts] /\ emit' \in [Peers -> Counts]
        /\ cleared' \in [Peers -> Counts]
    BY <1>1, NoneFacts, CountsFacts DEF WriterTypeOK
  <2>2. granted' \in [Peers -> Nat] /\ tickAge' \in 0..Window
    BY <1>1, RatingAssumption DEF WriterTypeOK
  <2> QED BY <1>1, <2>1, <2>2 DEF WriterTypeOK
<1>4. OutcomesConserved'
  <2> SUFFICES ASSUME NEW p \in Peers, NEW o \in Outcome PROVE Accounted(p, o)'
    BY DEF OutcomesConserved
  <2>1. /\ Accounted(p, o)
        /\ state[p] \in Counts /\ cleared[p] \in Counts /\ settled[p] \in Counts
        /\ lost[p] \in Counts /\ recorded[p] \in Counts
    BY DEF OutcomesConserved, WriterTypeOK
  <2>2. state'[p][o] + cleared'[p][o] = state[p][o] + cleared[p][o]
    <3>1. CASE Forgotten(p)
      <4>1. state'[p] = None /\ cleared'[p] = Plus(cleared[p], state[p])
        BY <1>1, <3>1
      <4> QED BY <2>1, <4>1, NoneFacts, CountsFacts DEF Counts
    <3>2. CASE ~Forgotten(p)
      BY <1>1, <3>2
    <3> QED BY <3>1, <3>2
  <2>3. state'[p] \in Counts /\ cleared'[p] \in Counts
    BY <1>3 DEF WriterTypeOK
  <2> QED BY <1>1, <1>2, <2>1, <2>2, <2>3 DEF Accounted, Counts
<1>5. TrustRateCapped'
  BY <1>1, RatingAssumption DEF TrustRateCapped, WriterTypeOK
<1>6. TickInv'
  <2>1. \A p \in toWrite' : granted'[p] = 0
    BY <1>1, <1>2, RatingAssumption DEF Due, TickInv, WriterTypeOK
  <2>2. \A p \in toWrite' : Within(emit'[p], state'[p])
    <3> SUFFICES ASSUME NEW p \in toWrite' PROVE Within(emit'[p], state'[p])
      OBVIOUS
    <3>1. p \in Peers /\ emit'[p] = state[p] /\ state'[p] = state[p]
      BY <1>1 DEF Forgotten
    <3>2. state[p] \in Counts
      BY <3>1 DEF WriterTypeOK
    <3> QED BY <3>1, <3>2 DEF Within, Counts
  <2> QED BY <1>1, <1>2, <2>1, <2>2 DEF TickInv
<1> QED BY <1>3, <1>4, <1>5, <1>6

(* Appending a rating keeps the invariant. *)
LEMMA RatingAppendStep == RatingInv /\ AppendRating => RatingInv'
<1> SUFFICES ASSUME RatingInv, AppendRating PROVE RatingInv'
  OBVIOUS
<1> USE DEF RatingInv
<1>0. PICK p \in toWrite :
        /\ toWrite' = toWrite \ {p}
        /\ writing' = {p}
        /\ settled' = [settled EXCEPT ![p] = Plus(@, emit[p])]
        /\ since' = [since EXCEPT ![p] = tickAge]
        /\ granted' = [granted EXCEPT ![p] = @ + Size(Score(emit[p]))]
  BY DEF AppendRating
<1>1. /\ tick = "append" /\ tick' = "settle"
      /\ UNCHANGED <<state, age, known, tickAge, emit, recorded, cleared, lost,
                     unacked, ratingFaults>>
  BY DEF AppendRating, buckets
<1>2. /\ p \in Peers /\ emit[p] \in Counts /\ settled[p] \in Counts
      /\ granted[p] = 0 /\ writing = {}
  BY <1>0, <1>1 DEF WriterTypeOK, TickInv
<1>3. Size(Score(emit[p])) \in 0..HourlyCap
  BY <1>2, ScoreBounds
<1>4. /\ settled'[p] = Plus(settled[p], emit[p])
      /\ since'[p] = tickAge
      /\ granted'[p] = Size(Score(emit[p]))
      /\ \A q \in Peers \ {p} : /\ settled'[q] = settled[q]
                              /\ since'[q] = since[q]
                              /\ granted'[q] = granted[q]
  BY <1>0, <1>2, <1>3, RatingAssumption DEF WriterTypeOK
<1>5. WriterTypeOK'
  <2>1. settled' \in [Peers -> Counts]
    BY <1>0, <1>2, CountsFacts DEF WriterTypeOK
  <2>2. granted' \in [Peers -> Nat] /\ since' \in [Peers -> 0..Window]
    BY <1>0, <1>2, <1>3, RatingAssumption DEF WriterTypeOK
  <2> QED BY <1>0, <1>1, <1>2, <2>1, <2>2 DEF WriterTypeOK
<1>6. OutcomesConserved'
  <2> SUFFICES ASSUME NEW q \in Peers, NEW o \in Outcome PROVE Accounted(q, o)'
    BY DEF OutcomesConserved
  <2>1. Accounted(q, o) /\ q \notin writing
    BY <1>2 DEF OutcomesConserved
  <2>2. /\ recorded[q][o] \in Nat /\ emit[q][o] \in Nat /\ state[q][o] \in Nat
        /\ settled[q][o] \in Nat /\ cleared[q][o] \in Nat /\ lost[q][o] \in Nat
    BY DEF WriterTypeOK, Counts
  <2>3. CASE q = p
    <3>1. settled'[q][o] = settled[q][o] + emit[q][o]
      BY <1>2, <1>4, <2>3, CountsFacts
    <3> QED BY <1>0, <1>1, <2>1, <2>2, <2>3, <3>1 DEF Accounted
  <2>4. CASE q # p
    BY <1>0, <1>1, <1>4, <2>1, <2>2, <2>4 DEF Accounted
  <2> QED BY <2>3, <2>4
<1>7. TrustRateCapped'
  BY <1>3, <1>4 DEF TrustRateCapped
<1>8. TickInv'
  <2>1. \A q \in known' \ writing' : since'[q] >= age'[q]
    BY <1>0, <1>1, <1>2, <1>4 DEF TickInv, WriterTypeOK
  <2>2. \A q \in toWrite' : granted'[q] = 0
    BY <1>0, <1>4 DEF TickInv, WriterTypeOK
  <2> QED BY <1>0, <1>1, <1>2, <1>4, <2>1, <2>2 DEF TickInv
<1> QED BY <1>5, <1>6, <1>7, <1>8

(* A failed append keeps the invariant. *)
LEMMA FailStep == RatingInv /\ AppendFails => RatingInv'
<1> SUFFICES ASSUME RatingInv, AppendFails PROVE RatingInv'
  OBVIOUS
<1> USE DEF RatingInv
<1>1. /\ tick = "append" /\ tick' = "idle" /\ toWrite' = {}
      /\ ratingFaults' \in 0..MaxRatingFaults
      /\ emit' = [p \in Peers |-> None]
      /\ UNCHANGED <<state, age, known, tickAge, writing, recorded, settled,
                     cleared, lost, since, granted>>
  BY RatingAssumption DEF AppendFails, WriterTypeOK, buckets
<1>0. unacked' \in [Peers -> Counts]
  <2>1. \A p \in toWrite :
          /\ p \in Peers /\ unacked[p] \in Counts /\ emit[p] \in Counts
          /\ Plus(unacked[p], emit[p]) \in Counts
    BY CountsFacts DEF WriterTypeOK
  <2> QED BY <2>1 DEF AppendFails, WriterTypeOK
<1>2. writing = {}
  BY <1>1 DEF TickInv
<1>3. WriterTypeOK'
  BY <1>0, <1>1, NoneFacts DEF WriterTypeOK
<1>4. OutcomesConserved'
  BY <1>1, <1>2 DEF OutcomesConserved, Accounted
<1>5. TrustRateCapped'
  BY <1>1 DEF TrustRateCapped
<1>6. TickInv'
  BY <1>1, <1>2 DEF TickInv
<1> QED BY <1>3, <1>4, <1>5, <1>6

(* Settling a rating keeps the invariant. *)
LEMMA SettleStep == RatingInv /\ Settle => RatingInv'
<1> SUFFICES ASSUME RatingInv, Settle PROVE RatingInv'
  OBVIOUS
<1> USE DEF RatingInv
<1>1. /\ tick = "settle"
      /\ state' = [p \in Peers |->
           IF p \in writing THEN Minus(state[p], emit[p]) ELSE state[p]]
      /\ age' = [p \in Peers |-> IF p \in writing THEN tickAge ELSE age[p]]
      /\ emit' = [p \in Peers |-> IF p \in writing THEN None ELSE emit[p]]
      /\ writing' = {}
      /\ tick' = IF toWrite = {} THEN "idle" ELSE "append"
      /\ UNCHANGED <<known, tickAge, toWrite, recorded, settled, cleared, lost,
                     unacked, since, granted, ratingFaults>>
  BY DEF Settle, SettledBucket, history
<1>2. \A p \in writing : p \in Peers /\ Within(emit[p], state[p]) /\ p \notin toWrite
  BY DEF TickInv, WriterTypeOK
<1>3. WriterTypeOK'
  <2>1. state' \in [Peers -> Counts]
    BY <1>1, <1>2, CountsFacts DEF WriterTypeOK
  <2>2. emit' \in [Peers -> Counts]
    BY <1>1, NoneFacts DEF WriterTypeOK
  <2> QED BY <1>1, <2>1, <2>2 DEF WriterTypeOK
<1>4. OutcomesConserved'
  <2> SUFFICES ASSUME NEW p \in Peers, NEW o \in Outcome PROVE Accounted(p, o)'
    BY DEF OutcomesConserved
  <2>1. /\ Accounted(p, o)
        /\ state[p] \in Counts /\ emit[p] \in Counts
        /\ recorded[p][o] \in Nat /\ emit[p][o] \in Nat /\ state[p][o] \in Nat
        /\ settled[p][o] \in Nat /\ cleared[p][o] \in Nat /\ lost[p][o] \in Nat
    BY DEF OutcomesConserved, WriterTypeOK, Counts
  <2>2. CASE p \in writing
    <3>1. state'[p][o] = state[p][o] - emit[p][o]
      BY <1>1, <2>1, <2>2, CountsFacts
    <3> QED BY <1>1, <2>1, <2>2, <3>1 DEF Accounted
  <2>3. CASE p \notin writing
    BY <1>1, <2>1, <2>3 DEF Accounted
  <2> QED BY <2>2, <2>3
<1>5. TrustRateCapped'
  BY <1>1 DEF TrustRateCapped
<1>6. TickInv'
  <2>1. \A p \in toWrite' : Within(emit'[p], state'[p])
    BY <1>1, <1>2 DEF TickInv, WriterTypeOK
  <2>2. \A p \in known' : since'[p] >= age'[p]
    BY <1>1 DEF TickInv, WriterTypeOK
  <2> QED BY <1>1, <2>1, <2>2 DEF TickInv
<1> QED BY <1>3, <1>4, <1>5, <1>6

(* A restart keeps the invariant. *)
LEMMA RatingRestartStep == RatingInv /\ Restart => RatingInv'
<1> SUFFICES ASSUME RatingInv, Restart PROVE RatingInv'
  OBVIOUS
<1> USE DEF RatingInv
<1>1. /\ ratingFaults' \in 0..MaxRatingFaults
      /\ lost' = [p \in Peers |-> Plus(lost[p],
           IF p \in writing THEN Minus(state[p], emit[p]) ELSE state[p])]
      /\ state' = [p \in Peers |-> None] /\ emit' = [p \in Peers |-> None]
      /\ known' = {} /\ tick' = "idle" /\ toWrite' = {} /\ writing' = {}
      /\ UNCHANGED <<age, tickAge, recorded, settled, cleared, unacked, since,
                     granted>>
  BY RatingAssumption DEF Restart, WriterTypeOK
<1>2. \A p \in Peers :
        /\ p \in writing => Minus(state[p], emit[p]) \in Counts
        /\ p \in writing => \A o \in Outcome :
             Minus(state[p], emit[p])[o] = state[p][o] - emit[p][o]
  BY CountsFacts DEF TickInv, WriterTypeOK
<1>3. WriterTypeOK'
  <2>1. lost' \in [Peers -> Counts]
    BY <1>1, <1>2, CountsFacts DEF WriterTypeOK
  <2> QED BY <1>1, <2>1, NoneFacts DEF WriterTypeOK
<1>4. OutcomesConserved'
  <2> SUFFICES ASSUME NEW p \in Peers, NEW o \in Outcome PROVE Accounted(p, o)'
    BY DEF OutcomesConserved
  <2>1. /\ Accounted(p, o)
        /\ state[p] \in Counts /\ lost[p] \in Counts
        /\ recorded[p][o] \in Nat /\ emit[p][o] \in Nat /\ state[p][o] \in Nat
        /\ settled[p][o] \in Nat /\ cleared[p][o] \in Nat /\ lost[p][o] \in Nat
    BY DEF OutcomesConserved, WriterTypeOK, Counts
  <2>2. state'[p][o] = 0
    BY <1>1, NoneFacts
  <2>3. CASE p \in writing
    <3>1. lost'[p][o] = lost[p][o] + (state[p][o] - emit[p][o])
      BY <1>1, <1>2, <2>1, <2>3, CountsFacts
    <3>2. recorded[p][o] + emit[p][o]
            = state[p][o] + settled[p][o] + cleared[p][o] + lost[p][o]
      BY <2>1, <2>3 DEF Accounted
    <3>3. recorded[p][o] + 0
            = 0 + settled[p][o] + cleared[p][o] + lost'[p][o]
      <4>1. /\ recorded[p][o] \in Nat /\ emit[p][o] \in Nat /\ state[p][o] \in Nat
            /\ settled[p][o] \in Nat /\ cleared[p][o] \in Nat /\ lost[p][o] \in Nat
        BY <2>1
      <4> QED BY <3>1, <3>2, <4>1
    <3>4. p \notin writing'
      BY <1>1
    <3> QED BY <1>1, <2>2, <3>3, <3>4 DEF Accounted
  <2>4. CASE p \notin writing
    <3>1. lost'[p][o] = lost[p][o] + state[p][o]
      BY <1>1, <2>1, <2>4, CountsFacts
    <3> QED BY <1>1, <2>1, <2>2, <2>4, <3>1 DEF Accounted
  <2> QED BY <2>3, <2>4
<1>5. TrustRateCapped'
  BY <1>1 DEF TrustRateCapped
<1>6. TickInv'
  BY <1>1 DEF TickInv
<1> QED BY <1>3, <1>4, <1>5, <1>6

LEMMA RatingStep == RatingInv /\ [WriterNext]_writerVars => RatingInv'
<1> SUFFICES ASSUME RatingInv, [WriterNext]_writerVars PROVE RatingInv'
  OBVIOUS
<1>1. CASE UNCHANGED writerVars
  BY <1>1 DEF writerVars, buckets, ticker, history, RatingInv, WriterTypeOK, TickInv,
              OutcomesConserved, Accounted, TrustRateCapped
<1>2. CASE WriterNext
  BY <1>2, TimeStep, RecordStep, SnapshotStep, RatingAppendStep, FailStep, SettleStep,
     RatingRestartStep DEF WriterNext, Tick
<1> QED BY <1>1, <1>2

--------------------------------------------------------------------------------
(* The theorems. *)

(* The inductive invariant: types, the balance, the cap, and what a Tick under  *)
(* way may rely on once it has let go of the lock                               *)
(* (completion_rating.go:102-142).                                              *)
THEOREM RatingInvariant == WriterSpec => []RatingInv
BY RatingInit, RatingStep, PTL DEF WriterSpec

(* No outcome is ever lost or acknowledged twice, whatever is recorded while a  *)
(* rating is being written (completion_rating.go:133-142).                      *)
THEOREM RatingConservesOutcomes == WriterSpec => []OutcomesConserved
BY RatingInvariant, PTL DEF RatingInv

(* No peer's trust moves by more than the cap within a window                   *)
(* (completion_rating.go:33-34).                                                *)
THEOREM RatingCapsTrust == WriterSpec => []TrustRateCapped
BY RatingInvariant, PTL DEF RatingInv
================================================================================
