--------------------------- MODULE LedgerInboxProofs ---------------------------
(* Proofs about LedgerInbox, for every set of raters, entries and callers, any  *)
(* caps and any number of faults.                                               *)
EXTENDS LedgerInbox, FiniteSetTheorems, TLAPS

(* What the constants give about an admissible entry. *)
LEMMA AdmissibleFacts ==
  ASSUME NEW e \in Admissible
  PROVE  e \in Entries /\ e # Zero /\ Rater[e] \in Raters /\ Prev[e] \in Hashes
BY InboxAssumption DEF Admissible, Hashes

(* The chain-head row of a rater exists exactly when it has an accepted entry. *)
LEMMA HeadRow ==
  ASSUME TypeOK, ChainInv, NEW r \in Raters
  PROVE  head[r] = Zero <=> inbox[r] = <<>>
<1>1. CASE inbox[r] = <<>>
  BY <1>1 DEF ChainInv, HeadIsLast
<1>2. CASE inbox[r] # <<>>
  <2>1. inbox[r] \in Seq(Admissible)
    BY DEF TypeOK
  <2>2. inbox[r][Len(inbox[r])] \in Admissible
    BY <1>2, <2>1
  <2>3. head[r] = inbox[r][Len(inbox[r])]
    BY <1>2 DEF ChainInv, HeadIsLast
  <2> QED BY <1>2, <2>2, <2>3, AdmissibleFacts
<1> QED BY <1>1, <1>2

(* InsertInboxEntry keeps the chains, and gives the rater of e a head, when e   *)
(* is a first entry or its rater already has one.                              *)
LEMMA InsertKeepsChains ==
  ASSUME TypeOK, ChainInv, NEW e \in Admissible,
         Prev[e] = Zero \/ head[Rater[e]] # Zero,
         InsertInboxEntry(e)
  PROVE  /\ inbox' \in [Raters -> Seq(Admissible)]
         /\ head' \in [Raters -> Hashes]
         /\ ChainInv'
         /\ \A r \in Raters : head[r] # Zero => head'[r] # Zero
         /\ head'[Rater[e]] # Zero
         /\ [Chains!Next]_inbox
<1> DEFINE r == Rater[e]
<1>0. r \in Raters /\ e # Zero /\ e \in Hashes
  BY AdmissibleFacts DEF Hashes
<1>1. CASE HasInboxEntry(e)
  <2>1. UNCHANGED <<inbox, head>>
    BY <1>1 DEF InsertInboxEntry
  <2>2. inbox[r] # <<>>
    BY <1>1 DEF HasInboxEntry, Range
  <2>3. head[r] # Zero
    BY <1>0, <2>2, HeadRow
  <2> QED BY <2>1, <2>3 DEF TypeOK, ChainInv, IsChain, HeadIsLast
<1>2. CASE ~HasInboxEntry(e)
  <2>1. /\ ExtendsHead(e)
        /\ inbox' = [inbox EXCEPT ![r] = Append(@, e)]
        /\ head' = [head EXCEPT ![r] = e]
    BY <1>2 DEF InsertInboxEntry
  <2>2. inbox \in [Raters -> Seq(Admissible)] /\ head \in [Raters -> Hashes]
    BY DEF TypeOK
  <2>3. inbox[r] \in Seq(Admissible)
    BY <1>0, <2>2
  <2>4. /\ inbox'[r] = Append(inbox[r], e)
        /\ head'[r] = e
        /\ \A s \in Raters : s # r => inbox'[s] = inbox[s] /\ head'[s] = head[s]
    BY <1>0, <2>1, <2>2
  <2>5. Prev[e] = head[r]
    BY <2>1, <1>0, HeadRow DEF ExtendsHead
  <2>6. head[r] = IF inbox[r] = <<>> THEN Zero ELSE inbox[r][Len(inbox[r])]
    BY <1>0 DEF ChainInv, HeadIsLast
  <2>7. inbox' \in [Raters -> Seq(Admissible)] /\ head' \in [Raters -> Hashes]
    BY <1>0, <2>1, <2>2, <2>3
  <2>8. IsChain(r)' /\ HeadIsLast(r)'
    <3>1. Len(inbox'[r]) = Len(inbox[r]) + 1 /\ Len(inbox[r]) \in Nat
      BY <2>3, <2>4
    <3>2. /\ \A i \in 1..Len(inbox[r]) : inbox'[r][i] = inbox[r][i]
          /\ inbox'[r][Len(inbox[r]) + 1] = e
      BY <2>3, <2>4
    <3>3. inbox[r] = <<>> <=> Len(inbox[r]) = 0
      BY <2>3
    <3>4. IsChain(r)
      BY <1>0 DEF ChainInv
    <3>5. ASSUME NEW i \in 1..Len(inbox'[r])
          PROVE  /\ Rater[inbox'[r][i]] = r
                 /\ Prev[inbox'[r][i]] = IF i = 1 THEN Zero ELSE inbox'[r][i-1]
      <4>1. CASE i \in 1..Len(inbox[r])
        BY <4>1, <3>1, <3>2, <3>4 DEF IsChain
      <4>2. CASE i = Len(inbox[r]) + 1
        BY <4>2, <3>1, <3>2, <3>3, <2>5, <2>6
      <4> QED BY <3>1, <4>1, <4>2
    <3>6. IsChain(r)'
      BY <3>5 DEF IsChain
    <3>7. inbox'[r] # <<>> /\ inbox'[r][Len(inbox'[r])] = head'[r]
      BY <3>1, <3>2, <2>3, <2>4
    <3>8. HeadIsLast(r)'
      BY <3>7 DEF HeadIsLast
    <3> QED BY <3>6, <3>8
  <2>9. ChainInv'
    <3> SUFFICES ASSUME NEW s \in Raters, s # r PROVE IsChain(s)' /\ HeadIsLast(s)'
      BY <2>8 DEF ChainInv
    <3> QED BY <2>4 DEF ChainInv, IsChain, HeadIsLast
  <2>10. Chains!Next
    BY <2>1, <2>5, <2>6 DEF Chains!Next, Chains!Extend, Chains!Tip
  <2> QED BY <1>0, <2>4, <2>7, <2>9, <2>10
<1> QED BY <1>1, <1>2

(* An action that leaves the tables' entries and heads alone keeps the chains.  *)
LEMMA SameTables ==
  ASSUME ChainInv, UNCHANGED <<inbox, head>>
  PROVE  ChainInv' /\ \A r \in Raters : head'[r] = head[r]
BY DEF ChainInv, IsChain, HeadIsLast

(* Every step keeps the inductive invariant and is a step of the chains the     *)
(* inbox promises, or changes none of them.                                     *)
LEMMA InboxStep ==
  ASSUME InboxInv, [Next]_vars
  PROVE  InboxInv' /\ [Chains!Next]_inbox
<1> USE DEF InboxInv
<1>s. States = {"idle", "dedupOrphan", "readHead", "acceptFirst", "acceptNext",
                "find", "promote", "unqueue", "dropFork",
                "countPeer", "countAll", "queueOrphan"}
  BY DEF States
<1>t. TypeOK /\ ChainInv /\ \A c \in Callers : CallerInv(c)
  OBVIOUS
<1>a. \A e \in Admissible : e # Zero /\ Rater[e] \in Raters
  BY AdmissibleFacts
<1>1. ASSUME NEW c \in Callers, NEW e \in Entries, Receive(c, e)
      PROVE  InboxInv' /\ [Chains!Next]_inbox
  <2>1. ChainInv' /\ \A r \in Raters : head'[r] = head[r]
    BY <1>1, SameTables DEF Receive, tables
  <2>2. TypeOK'
    BY <1>1, <1>s, AdmissibleFacts DEF TypeOK, Receive, tables, Goto, Hashes
  <2>3. ASSUME NEW d \in Callers PROVE CallerInv(d)'
    BY <1>1, <1>t DEF TypeOK, CallerInv, Receive, tables, Goto
  <2> QED BY <1>1, <2>1, <2>2, <2>3 DEF Receive, tables
<1>2. ASSUME NEW c \in Callers, DedupOrphan(c)
      PROVE  InboxInv' /\ [Chains!Next]_inbox
  <2>1. ChainInv' /\ \A r \in Raters : head'[r] = head[r]
    BY <1>2, SameTables DEF DedupOrphan, tables
  <2>2. TypeOK'
    BY <1>2, <1>s DEF TypeOK, DedupOrphan, Return, tables, Goto, Hashes
  <2>3. ASSUME NEW d \in Callers PROVE CallerInv(d)'
    BY <1>2, <1>t DEF TypeOK, CallerInv, DedupOrphan, Return, tables, Goto
  <2> QED BY <1>2, <2>1, <2>2, <2>3 DEF DedupOrphan, tables
<1>3. ASSUME NEW c \in Callers, ReadHead(c)
      PROVE  InboxInv' /\ [Chains!Next]_inbox
  <2>1. ChainInv' /\ \A r \in Raters : head'[r] = head[r]
    BY <1>3, SameTables DEF ReadHead, tables
  <2>2. TypeOK'
    BY <1>3, <1>s DEF TypeOK, ReadHead, Decide, tables, Goto
  <2>3. ASSUME NEW d \in Callers PROVE CallerInv(d)'
    BY <1>3, <1>t DEF TypeOK, CallerInv, ReadHead, Decide, tables, Goto
  <2> QED BY <1>3, <2>1, <2>2, <2>3 DEF ReadHead, tables
<1>4. ASSUME NEW c \in Callers, Accept(c)
      PROVE  InboxInv' /\ [Chains!Next]_inbox
  <2>0. entry[c] \in Admissible /\ Rater[entry[c]] \in Raters
    BY <1>4, <1>t, AdmissibleFacts DEF Accept, CallerInv
  <2>1. CASE InsertInboxEntry(entry[c]) /\ Goto(c, "find")
             /\ queue' = [queue EXCEPT ![c] = {entry[c]}] /\ UNCHANGED <<entry, found>>
    <3>1. Prev[entry[c]] = Zero \/ head[Rater[entry[c]]] # Zero
      BY <1>4, <1>t DEF Accept, CallerInv
    <3>2. /\ inbox' \in [Raters -> Seq(Admissible)] /\ head' \in [Raters -> Hashes]
          /\ ChainInv'
          /\ \A r \in Raters : head[r] # Zero => head'[r] # Zero
          /\ head'[Rater[entry[c]]] # Zero
          /\ [Chains!Next]_inbox
      BY <2>0, <2>1, <3>1, InsertKeepsChains
    <3>3. TypeOK'
      BY <1>4, <2>0, <2>1, <3>2, <1>s DEF TypeOK, Accept, Goto
    <3>4. ASSUME NEW d \in Callers PROVE CallerInv(d)'
      <4>1. CallerInv(d) /\ \A e \in Admissible : Rater[e] \in Raters
        BY <1>t, AdmissibleFacts
      <4> QED BY <2>0, <2>1, <3>2, <4>1 DEF TypeOK, CallerInv, Goto
    <3> QED BY <3>2, <3>3, <3>4
  <2>2. CASE UNCHANGED <<inbox, head>>
             /\ IF pc[c] = "acceptFirst" THEN Return(c)
                ELSE Goto(c, "countPeer") /\ UNCHANGED <<entry, queue, found>>
    <3>1. ChainInv' /\ \A r \in Raters : head'[r] = head[r]
      BY <2>2, SameTables
    <3>2. TypeOK'
      BY <1>4, <2>2, <1>s DEF TypeOK, Accept, Return, Goto, Hashes
    <3>3. ASSUME NEW d \in Callers PROVE CallerInv(d)'
      BY <1>4, <2>0, <2>2, <1>t DEF TypeOK, CallerInv, Return, Goto
    <3> QED BY <2>2, <3>1, <3>2, <3>3
  <2> QED BY <1>4, <2>1, <2>2 DEF Accept
<1>5. ASSUME NEW c \in Callers, Find(c)
      PROVE  InboxInv' /\ [Chains!Next]_inbox
  <2>1. ChainInv' /\ \A r \in Raters : head'[r] = head[r]
    BY <1>5, SameTables DEF Find, tables
  <2>2. TypeOK'
    BY <1>5, <1>s, <1>t
       DEF TypeOK, CallerInv, Find, Walk, tables, Goto, Hashes, FindInboxOrphansAwaiting
  <2>3. ASSUME NEW d \in Callers PROVE CallerInv(d)'
    BY <1>5, <1>t, <2>1, <1>a
       DEF TypeOK, CallerInv, Find, Walk, tables, Goto, FindInboxOrphansAwaiting
  <2> QED BY <1>5, <2>1, <2>2, <2>3 DEF Find, tables
<1>6. ASSUME NEW c \in Callers, Promote(c)
      PROVE  InboxInv' /\ [Chains!Next]_inbox
  <2> PICK o \in found[c] :
        /\ entry' = [entry EXCEPT ![c] = o]
        /\ found' = [found EXCEPT ![c] = @ \ {o}]
        /\ \/ InsertInboxEntry(o) /\ Goto(c, "unqueue")
           \/ ChainMismatch(o) /\ Goto(c, "dropFork") /\ UNCHANGED <<inbox, head>>
    BY <1>6 DEF Promote
  <2>0. o \in Admissible /\ Rater[o] \in Raters /\ head[Rater[o]] # Zero
    BY <1>t, <1>a DEF TypeOK, CallerInv
  <2>1. CASE InsertInboxEntry(o) /\ Goto(c, "unqueue")
    <3>1. /\ inbox' \in [Raters -> Seq(Admissible)] /\ head' \in [Raters -> Hashes]
          /\ ChainInv'
          /\ \A r \in Raters : head[r] # Zero => head'[r] # Zero
          /\ head'[Rater[o]] # Zero
          /\ [Chains!Next]_inbox
      BY <2>0, <2>1, InsertKeepsChains
    <3>2. TypeOK'
      BY <1>6, <1>s, <2>0, <2>1, <3>1 DEF TypeOK, Promote, Goto, Hashes, Admissible
    <3>3. ASSUME NEW d \in Callers PROVE CallerInv(d)'
      BY <1>6, <1>t, <1>a, <2>0, <2>1, <3>1 DEF TypeOK, CallerInv, Promote, Goto
    <3> QED BY <3>1, <3>2, <3>3
  <2>2. CASE Goto(c, "dropFork") /\ UNCHANGED <<inbox, head>>
    <3>1. ChainInv' /\ \A r \in Raters : head'[r] = head[r]
      BY <2>2, SameTables
    <3>2. TypeOK'
      BY <1>6, <1>s, <2>0, <2>2 DEF TypeOK, Promote, Goto, Hashes, Admissible
    <3>3. ASSUME NEW d \in Callers PROVE CallerInv(d)'
      BY <1>6, <1>t, <1>a, <2>0, <2>2 DEF TypeOK, CallerInv, Promote, Goto
    <3> QED BY <2>2, <3>1, <3>2, <3>3
  <2> QED BY <2>1, <2>2
<1>7. ASSUME NEW c \in Callers, DeleteInboxOrphan(c)
      PROVE  InboxInv' /\ [Chains!Next]_inbox
  <2>1. ChainInv' /\ \A r \in Raters : head'[r] = head[r]
    BY <1>7, SameTables DEF DeleteInboxOrphan, tables
  <2>2. TypeOK'
    BY <1>7, <1>s, <1>t DEF TypeOK, CallerInv, DeleteInboxOrphan, Walk, tables, Goto, Hashes
  <2>3. ASSUME NEW d \in Callers PROVE CallerInv(d)'
    BY <1>7, <1>t, <2>1, <1>a DEF TypeOK, CallerInv, DeleteInboxOrphan, Walk, tables, Goto
  <2> QED BY <1>7, <2>1, <2>2, <2>3 DEF DeleteInboxOrphan, tables
<1>8. ASSUME NEW c \in Callers, CountPeer(c)
      PROVE  InboxInv' /\ [Chains!Next]_inbox
  <2>1. ChainInv' /\ \A r \in Raters : head'[r] = head[r]
    BY <1>8, SameTables DEF CountPeer, tables
  <2>2. TypeOK'
    BY <1>8, <1>s, <1>t DEF TypeOK, CallerInv, CountPeer, Return, tables, Goto, Hashes
  <2>3. ASSUME NEW d \in Callers PROVE CallerInv(d)'
    BY <1>8, <1>t, <2>1, <1>a DEF TypeOK, CallerInv, CountPeer, Return, tables, Goto
  <2> QED BY <1>8, <2>1, <2>2, <2>3 DEF CountPeer, tables
<1>9. ASSUME NEW c \in Callers, CountAll(c)
      PROVE  InboxInv' /\ [Chains!Next]_inbox
  <2>1. ChainInv' /\ \A r \in Raters : head'[r] = head[r]
    BY <1>9, SameTables DEF CountAll, tables
  <2>2. TypeOK'
    BY <1>9, <1>s, <1>t DEF TypeOK, CallerInv, CountAll, Return, tables, Goto, Hashes
  <2>3. ASSUME NEW d \in Callers PROVE CallerInv(d)'
    BY <1>9, <1>t, <2>1, <1>a DEF TypeOK, CallerInv, CountAll, Return, tables, Goto
  <2> QED BY <1>9, <2>1, <2>2, <2>3 DEF CountAll, tables
<1>10. ASSUME NEW c \in Callers, QueueOrphan(c)
      PROVE  InboxInv' /\ [Chains!Next]_inbox
  <2>1. ChainInv' /\ \A r \in Raters : head'[r] = head[r]
    BY <1>10, SameTables DEF QueueOrphan, tables
  <2>2. TypeOK'
    BY <1>10, <1>s, <1>t DEF TypeOK, CallerInv, QueueOrphan, Return, tables, Goto, Hashes
  <2>3. ASSUME NEW d \in Callers PROVE CallerInv(d)'
    BY <1>10, <1>t, <2>1, <1>a DEF TypeOK, CallerInv, QueueOrphan, Return, tables, Goto
  <2> QED BY <1>10, <2>1, <2>2, <2>3 DEF QueueOrphan, tables
<1>11. ASSUME NEW c \in Callers, StatementFails(c)
      PROVE  InboxInv' /\ [Chains!Next]_inbox
  <2>1. ChainInv' /\ \A r \in Raters : head'[r] = head[r]
    BY <1>11, SameTables DEF StatementFails, tables
  <2>2. TypeOK'
    <3>1. faults' \in 0..MaxFaults /\ UNCHANGED tables
      BY <1>11, InboxAssumption DEF TypeOK, StatementFails
    <3>2. /\ pc' \in [Callers -> States]
          /\ entry' \in [Callers -> Hashes]
          /\ queue' \in [Callers -> SUBSET Admissible]
          /\ found' \in [Callers -> SUBSET Admissible]
      <4>1. CASE pc[c] = "promote" /\ UNCHANGED entry
                 /\ \E o \in found[c] : Walk(c, found[c] \ {o}, queue[c])
        <5>1. PICK o \in found[c] : Walk(c, found[c] \ {o}, queue[c])
          BY <4>1
        <5>2. found[c] \ {o} \in SUBSET Admissible /\ queue[c] \in SUBSET Admissible
          BY DEF TypeOK
        <5> QED BY <4>1, <5>1, <5>2, <1>s DEF TypeOK, Walk, Goto
      <4>2. CASE Walk(c, found[c], queue[c]) /\ entry' = [entry EXCEPT ![c] = Zero]
        BY <4>2, <1>s DEF TypeOK, Walk, Goto, Hashes
      <4>3. CASE Return(c)
        BY <4>3, <1>s DEF TypeOK, Return, Goto, Hashes
      <4> QED BY <1>11, <4>1, <4>2, <4>3 DEF StatementFails
    <3> QED BY <3>1, <3>2 DEF TypeOK, tables
  <2>3. ASSUME NEW d \in Callers PROVE CallerInv(d)'
    BY <1>11, <1>t, <2>1, <1>a DEF TypeOK, CallerInv, StatementFails, Return, Walk, tables, Goto
  <2> QED BY <1>11, <2>1, <2>2, <2>3 DEF StatementFails, tables
<1>12. ASSUME Crash
      PROVE  InboxInv' /\ [Chains!Next]_inbox
  <2>1. ChainInv'
    BY <1>12, SameTables DEF Crash, tables
  <2>2. TypeOK'
    BY <1>12, <1>s, InboxAssumption DEF TypeOK, Crash, tables, Hashes
  <2>3. ASSUME NEW d \in Callers PROVE CallerInv(d)'
    BY <1>12 DEF CallerInv, Crash
  <2> QED BY <1>12, <2>1, <2>2, <2>3 DEF Crash, tables
<1>13. ASSUME UNCHANGED vars
      PROVE  InboxInv' /\ [Chains!Next]_inbox
  <2>1. ChainInv'
    BY <1>13, SameTables DEF vars
  <2>2. TypeOK' /\ \A d \in Callers : CallerInv(d)'
    BY <1>13, <1>t DEF vars, TypeOK, CallerInv
  <2> QED BY <1>13, <2>1, <2>2 DEF vars
<1> QED
  BY <1>1, <1>2, <1>3, <1>4, <1>5, <1>6, <1>7, <1>8, <1>9, <1>10, <1>11, <1>12, <1>13
  DEF Next, Step

LEMMA InboxInit == Init => InboxInv /\ Chains!Init
<1> SUFFICES ASSUME Init PROVE InboxInv /\ Chains!Init
  OBVIOUS
<1>1. TypeOK
  BY InboxAssumption DEF Init, TypeOK, Hashes, States
<1>2. ChainInv
  BY DEF Init, ChainInv, IsChain, HeadIsLast
<1>3. \A c \in Callers : CallerInv(c)
  BY DEF Init, CallerInv
<1> QED BY <1>1, <1>2, <1>3 DEF InboxInv, Init, Chains!Init

(* The inductive invariant of the inbox. *)
THEOREM InboxInvariant == Spec => []InboxInv
<1>1. Init => InboxInv
  BY InboxInit
<1>2. InboxInv /\ [Next]_vars => InboxInv'
  BY InboxStep
<1> QED BY <1>1, <1>2, PTL DEF Spec

(* Every variable of the inbox keeps its type. *)
THEOREM InboxTypeCorrect == Spec => []TypeOK
BY InboxInvariant, PTL DEF InboxInv

(* Whatever the interleaving of the callers, whatever statements fail and       *)
(* whenever the process restarts, the accepted entries of a rater are one chain *)
(* from the zero hash and the chain-head table names its end.                   *)
THEOREM InboxForkFree == Spec => []ChainInv
BY InboxInvariant, PTL DEF InboxInv

(* The inbox implements the append-only chains it promises.                     *)
THEOREM InboxRefinesChains == Spec => ImplementsChains
<1>1. Init => Chains!Init
  BY InboxInit
<1>2. InboxInv /\ [Next]_vars => [Chains!Next]_inbox
  BY InboxStep
<1> QED BY <1>1, <1>2, InboxInvariant, PTL DEF Spec, ImplementsChains, Chains!Spec

--------------------------------------------------------------------------------
(* The bounds of the orphan table. *)

(* A caller past a count, or any set of them, is a part of Callers. *)
LEMMA CallersFacts ==
  ASSUME NEW S \in SUBSET Callers
  PROVE  /\ IsFiniteSet(S) /\ Cardinality(S) \in Nat
         /\ Cardinality(Callers) \in Nat /\ Cardinality(Callers) >= 1
         /\ Cardinality(S) <= Cardinality(Callers)
<1>1. IsFiniteSet(Callers) /\ Callers # {}
  BY CallersAssumption
<1>2. Cardinality(Callers) \in Nat /\ Cardinality(Callers) # 0
  BY <1>1, FS_CardinalityType, FS_EmptySet
<1>3. IsFiniteSet(S) /\ Cardinality(S) <= Cardinality(Callers)
  BY <1>1, FS_Subset
<1> QED BY <1>2, <1>3, FS_CardinalityType

(* One insertion adds at most one row. *)
LEMMA AtMostOneMore ==
  ASSUME NEW S, IsFiniteSet(S), NEW T, NEW e, S \subseteq T, T \subseteq S \union {e}
  PROVE  /\ IsFiniteSet(T) /\ Cardinality(S) \in Nat /\ Cardinality(T) \in Nat
         /\ Cardinality(T) <= Cardinality(S) + 1
<1>1. CASE e \in T /\ e \notin S
  <2>1. T = S \union {e}
    BY <1>1
  <2>2. IsFiniteSet(T) /\ Cardinality(T) = Cardinality(S) + 1
    BY <1>1, <2>1, FS_AddElement
  <2> QED BY <2>2, FS_CardinalityType
<1>2. CASE ~(e \in T /\ e \notin S)
  <2>1. T = S
    BY <1>2
  <2> QED BY <2>1, FS_CardinalityType
<1> QED BY <1>1, <1>2

(* A part of a finite set is finite and no larger. *)
LEMMA NoMore ==
  ASSUME NEW S, IsFiniteSet(S), NEW T, T \subseteq S
  PROVE  /\ IsFiniteSet(T) /\ Cardinality(S) \in Nat /\ Cardinality(T) \in Nat
         /\ Cardinality(T) <= Cardinality(S)
BY FS_Subset, FS_CardinalityType

(* What one step does to the orphans and to the callers about to queue one: c   *)
(* queues its orphan, or passes the count of its rater, or passes the count of  *)
(* all, or else the orphans do not grow and nobody comes nearer to queueing.    *)
Queues(c) ==
  /\ pc[c] = "queueOrphan"
  /\ orphans' = orphans \union {entry[c]}
  /\ pc' = [pc EXCEPT ![c] = "idle"]
  /\ entry' = [entry EXCEPT ![c] = Zero]

PassesPeer(c) ==
  /\ pc[c] = "countPeer"
  /\ ~(CountInboxOrphansForPeer(Rater[entry[c]]) >= PerPeerOrphanCap)
  /\ pc' = [pc EXCEPT ![c] = "countAll"]
  /\ UNCHANGED <<orphans, entry>>

PassesAll(c) ==
  /\ pc[c] = "countAll"
  /\ ~(Cardinality(orphans) >= OrphanCap)
  /\ pc' = [pc EXCEPT ![c] = "queueOrphan"]
  /\ UNCHANGED <<orphans, entry>>

NobodyCloser ==
  /\ orphans' \subseteq orphans
  /\ \A c \in Callers :
       pc'[c] \in {"countAll", "queueOrphan"} => pc'[c] = pc[c] /\ entry'[c] = entry[c]

OrphanMove ==
  \/ \E c \in Callers : Queues(c) \/ PassesPeer(c) \/ PassesAll(c)
  \/ NobodyCloser

LEMMA OrphanMoves ==
  ASSUME TypeOK, [Next]_vars
  PROVE  OrphanMove
<1>0. pc \in [Callers -> States] /\ entry \in [Callers -> Hashes]
  BY DEF TypeOK
<1>1. ASSUME NEW c \in Callers, NEW e \in Entries, Receive(c, e) PROVE NobodyCloser
  BY <1>0, <1>1 DEF NobodyCloser, Receive, tables, Goto
<1>2. ASSUME NEW c \in Callers, DedupOrphan(c) PROVE NobodyCloser
  BY <1>0, <1>2 DEF NobodyCloser, DedupOrphan, Return, tables, Goto
<1>3. ASSUME NEW c \in Callers, ReadHead(c) PROVE NobodyCloser
  BY <1>0, <1>3 DEF NobodyCloser, ReadHead, Decide, tables, Goto
<1>4. ASSUME NEW c \in Callers, Accept(c) PROVE NobodyCloser
  BY <1>0, <1>4 DEF NobodyCloser, Accept, Return, Goto
<1>5. ASSUME NEW c \in Callers, Find(c) PROVE NobodyCloser
  BY <1>0, <1>5 DEF NobodyCloser, Find, Walk, tables, Goto
<1>6. ASSUME NEW c \in Callers, Promote(c) PROVE NobodyCloser
  BY <1>0, <1>6 DEF NobodyCloser, Promote, Goto
<1>7. ASSUME NEW c \in Callers, DeleteInboxOrphan(c) PROVE NobodyCloser
  BY <1>0, <1>7 DEF NobodyCloser, DeleteInboxOrphan, Walk, Goto
<1>8. ASSUME NEW c \in Callers, CountPeer(c) PROVE PassesPeer(c) \/ NobodyCloser
  <2>1. CASE CountInboxOrphansForPeer(Rater[entry[c]]) >= PerPeerOrphanCap
    BY <1>0, <1>8, <2>1 DEF NobodyCloser, CountPeer, Return, tables, Goto
  <2>2. CASE ~(CountInboxOrphansForPeer(Rater[entry[c]]) >= PerPeerOrphanCap)
    BY <1>8, <2>2 DEF PassesPeer, CountPeer, tables, Goto
  <2> QED BY <2>1, <2>2
<1>9. ASSUME NEW c \in Callers, CountAll(c) PROVE PassesAll(c) \/ NobodyCloser
  <2>1. CASE Cardinality(orphans) >= OrphanCap
    BY <1>0, <1>9, <2>1 DEF NobodyCloser, CountAll, Return, tables, Goto
  <2>2. CASE ~(Cardinality(orphans) >= OrphanCap)
    BY <1>9, <2>2 DEF PassesAll, CountAll, tables, Goto
  <2> QED BY <2>1, <2>2
<1>10. ASSUME NEW c \in Callers, QueueOrphan(c) PROVE Queues(c)
  BY <1>10 DEF Queues, QueueOrphan, Return, Goto
<1>11. ASSUME NEW c \in Callers, StatementFails(c) PROVE NobodyCloser
  BY <1>0, <1>11 DEF NobodyCloser, StatementFails, Walk, Return, tables, Goto
<1>12. ASSUME Crash PROVE NobodyCloser
  BY <1>12 DEF NobodyCloser, Crash, tables
<1>13. ASSUME UNCHANGED vars PROVE NobodyCloser
  BY <1>13 DEF NobodyCloser, vars
<1> QED
  BY <1>1, <1>2, <1>3, <1>4, <1>5, <1>6, <1>7, <1>8, <1>9, <1>10, <1>11, <1>12, <1>13
  DEF Next, Step, OrphanMove

LEMMA OrphanStep ==
  ASSUME TypeOK, OrphanInv, [Next]_vars
  PROVE  OrphanInv'
<1>0. pc \in [Callers -> States] /\ entry \in [Callers -> Hashes] /\ OrphanCap \in Nat
  BY InboxAssumption DEF TypeOK
<1>1. /\ IsFiniteSet(orphans)
      /\ Cardinality(orphans) + Cardinality(PastCountAll)
           <= OrphanCap + Cardinality(Callers) - 1
  BY DEF OrphanInv
<1>2. /\ PastCountAll \in SUBSET Callers /\ PastCountAll' \in SUBSET Callers
  BY DEF PastCountAll
<1>3. /\ Cardinality(orphans) \in Nat /\ Cardinality(Callers) \in Nat
      /\ IsFiniteSet(PastCountAll) /\ Cardinality(PastCountAll) \in Nat
      /\ Cardinality(PastCountAll') \in Nat
      /\ Cardinality(PastCountAll') <= Cardinality(Callers)
  BY <1>1, <1>2, CallersFacts, FS_CardinalityType
<1>4. ASSUME NEW c \in Callers, Queues(c) PROVE OrphanInv'
  <2>1. IsFiniteSet(orphans') /\ Cardinality(orphans') <= Cardinality(orphans) + 1
        /\ Cardinality(orphans') \in Nat
    BY <1>1, <1>4, AtMostOneMore DEF Queues
  <2>2. c \in PastCountAll /\ PastCountAll' = PastCountAll \ {c}
    BY <1>0, <1>4 DEF Queues, PastCountAll
  <2>3. Cardinality(PastCountAll') = Cardinality(PastCountAll) - 1
    BY <1>3, <2>2, FS_RemoveElement
  <2> QED BY <1>0, <1>1, <1>3, <2>1, <2>3 DEF OrphanInv
<1>5. ASSUME NEW c \in Callers, PassesAll(c) PROVE OrphanInv'
  <2>1. orphans' = orphans /\ ~(Cardinality(orphans) >= OrphanCap)
    BY <1>5 DEF PassesAll
  <2> QED BY <1>0, <1>1, <1>3, <2>1 DEF OrphanInv
<1>6. ASSUME orphans' \subseteq orphans, PastCountAll' \subseteq PastCountAll
      PROVE  OrphanInv'
  <2>1. IsFiniteSet(orphans') /\ Cardinality(orphans') <= Cardinality(orphans)
        /\ Cardinality(orphans') \in Nat
    BY <1>1, <1>6, NoMore
  <2>2. Cardinality(PastCountAll') <= Cardinality(PastCountAll)
    BY <1>3, <1>6, NoMore
  <2> QED BY <1>0, <1>1, <1>3, <2>1, <2>2 DEF OrphanInv
<1>7. ASSUME NEW c \in Callers, PassesPeer(c) PROVE OrphanInv'
  <2>1. orphans' = orphans /\ PastCountAll' = PastCountAll
    BY <1>0, <1>7 DEF PassesPeer, PastCountAll
  <2> QED BY <1>6, <2>1
<1>8. ASSUME NobodyCloser PROVE OrphanInv'
  <2>1. orphans' \subseteq orphans /\ PastCountAll' \subseteq PastCountAll
    BY <1>8 DEF NobodyCloser, PastCountAll
  <2> QED BY <1>6, <2>1
<1> QED BY <1>4, <1>5, <1>7, <1>8, OrphanMoves DEF OrphanMove

(* The bound on the orphans of one rater, one rater at a time. *)
PeerBound(r) ==
  Cardinality(OrphansOf(r)) + Cardinality(PastCountPeer(r))
    <= PerPeerOrphanCap + Cardinality(Callers) - 1

LEMMA PeerOrphanStep ==
  ASSUME TypeOK, IsFiniteSet(orphans), NEW r \in Raters, PeerBound(r), [Next]_vars
  PROVE  PeerBound(r)'
<1>0. /\ pc \in [Callers -> States] /\ entry \in [Callers -> Hashes]
      /\ PerPeerOrphanCap \in Nat
  BY InboxAssumption DEF TypeOK
<1>1. OrphansOf(r) \subseteq orphans
  BY DEF OrphansOf
<1>2. /\ PastCountPeer(r) \in SUBSET Callers /\ PastCountPeer(r)' \in SUBSET Callers
  BY DEF PastCountPeer
<1>3. /\ IsFiniteSet(OrphansOf(r))
      /\ Cardinality(OrphansOf(r)) \in Nat /\ Cardinality(Callers) \in Nat
      /\ IsFiniteSet(PastCountPeer(r)) /\ Cardinality(PastCountPeer(r)) \in Nat
      /\ Cardinality(PastCountPeer(r)') \in Nat
      /\ Cardinality(PastCountPeer(r)') <= Cardinality(Callers)
  BY <1>1, <1>2, CallersFacts, FS_Subset, FS_CardinalityType
<1>4. ASSUME OrphansOf(r)' \subseteq OrphansOf(r),
             PastCountPeer(r)' \subseteq PastCountPeer(r)
      PROVE  PeerBound(r)'
  <2>1. /\ Cardinality(OrphansOf(r)') <= Cardinality(OrphansOf(r))
        /\ Cardinality(OrphansOf(r)') \in Nat
    BY <1>3, <1>4, NoMore
  <2>2. Cardinality(PastCountPeer(r)') <= Cardinality(PastCountPeer(r))
    BY <1>3, <1>4, NoMore
  <2> QED BY <1>0, <1>3, <2>1, <2>2 DEF PeerBound
<1>5. ASSUME NEW c \in Callers, Queues(c) PROVE PeerBound(r)'
  <2>1. CASE Rater[entry[c]] = r
    <3>1. /\ OrphansOf(r) \subseteq OrphansOf(r)'
          /\ OrphansOf(r)' \subseteq OrphansOf(r) \union {entry[c]}
      BY <1>5 DEF Queues, OrphansOf
    <3>2. /\ Cardinality(OrphansOf(r)') \in Nat
          /\ Cardinality(OrphansOf(r)') <= Cardinality(OrphansOf(r)) + 1
      BY <1>3, <3>1, AtMostOneMore
    <3>3. c \in PastCountPeer(r) /\ PastCountPeer(r)' = PastCountPeer(r) \ {c}
      BY <1>0, <1>5, <2>1 DEF Queues, PastCountPeer
    <3>4. Cardinality(PastCountPeer(r)') = Cardinality(PastCountPeer(r)) - 1
      BY <1>3, <3>3, FS_RemoveElement
    <3> QED BY <1>0, <1>3, <3>2, <3>4 DEF PeerBound
  <2>2. CASE Rater[entry[c]] # r
    <3>1. OrphansOf(r)' = OrphansOf(r) /\ PastCountPeer(r)' \subseteq PastCountPeer(r)
      BY <1>0, <1>5, <2>2 DEF Queues, OrphansOf, PastCountPeer
    <3> QED BY <1>4, <3>1
  <2> QED BY <2>1, <2>2
<1>6. ASSUME NEW c \in Callers, PassesPeer(c) PROVE PeerBound(r)'
  <2>1. OrphansOf(r)' = OrphansOf(r)
    BY <1>6 DEF PassesPeer, OrphansOf
  <2>2. CASE Rater[entry[c]] = r
    <3>1. ~(Cardinality(OrphansOf(r)) >= PerPeerOrphanCap)
      BY <1>6, <2>2 DEF PassesPeer, CountInboxOrphansForPeer, OrphansOf
    <3> QED BY <1>0, <1>3, <2>1, <3>1 DEF PeerBound
  <2>3. CASE Rater[entry[c]] # r
    <3>1. PastCountPeer(r)' \subseteq PastCountPeer(r)
      BY <1>0, <1>6, <2>3 DEF PassesPeer, PastCountPeer
    <3> QED BY <1>4, <2>1, <3>1
  <2> QED BY <2>2, <2>3
<1>7. ASSUME NEW c \in Callers, PassesAll(c) PROVE PeerBound(r)'
  <2>1. OrphansOf(r)' = OrphansOf(r) /\ PastCountPeer(r)' \subseteq PastCountPeer(r)
    BY <1>0, <1>7 DEF PassesAll, OrphansOf, PastCountPeer
  <2> QED BY <1>4, <2>1
<1>8. ASSUME NobodyCloser PROVE PeerBound(r)'
  <2>1. OrphansOf(r)' \subseteq OrphansOf(r) /\ PastCountPeer(r)' \subseteq PastCountPeer(r)
    BY <1>8 DEF NobodyCloser, OrphansOf, PastCountPeer
  <2> QED BY <1>4, <2>1
<1> QED BY <1>5, <1>6, <1>7, <1>8, OrphanMoves DEF OrphanMove

(* Nobody has counted yet, and nothing is queued. *)
LEMMA OrphanInit == Init => OrphanInv /\ PeerOrphanInv
<1> SUFFICES ASSUME Init PROVE OrphanInv /\ PeerOrphanInv
  OBVIOUS
<1>1. orphans = {} /\ PastCountAll = {}
  BY DEF Init, PastCountAll
<1>2. \A r \in Raters : OrphansOf(r) = {} /\ PastCountPeer(r) = {}
  BY DEF Init, OrphansOf, PastCountPeer
<1>3. /\ Cardinality(Callers) \in Nat /\ Cardinality(Callers) >= 1
      /\ OrphanCap \in Nat /\ PerPeerOrphanCap \in Nat
  BY CallersFacts, InboxAssumption
<1>4. IsFiniteSet({}) /\ Cardinality({}) = 0
  BY FS_EmptySet
<1>5. OrphanInv
  BY <1>1, <1>3, <1>4 DEF OrphanInv
<1>6. ASSUME NEW r \in Raters
      PROVE  Cardinality(OrphansOf(r)) + Cardinality(PastCountPeer(r))
               <= PerPeerOrphanCap + Cardinality(Callers) - 1
  BY <1>2, <1>3, <1>4
<1>7. PeerOrphanInv
  BY <1>1, <1>4, <1>6 DEF PeerOrphanInv
<1> QED BY <1>5, <1>7

(* However the callers' counts and insertions interleave, and whatever fails in *)
(* between, each of them overshoots the cap of the orphan table at most once.    *)
THEOREM InboxOrphansBounded == Spec => []OrphansBounded
<1>1. Init => OrphanInv
  BY OrphanInit
<1>2. InboxInv /\ OrphanInv /\ [Next]_vars => OrphanInv'
  BY OrphanStep DEF InboxInv
<1>3. InboxInv /\ OrphanInv => OrphansBounded
  <2> SUFFICES ASSUME OrphanInv PROVE OrphansBounded
    OBVIOUS
  <2>1. PastCountAll \in SUBSET Callers
    BY DEF PastCountAll
  <2>2. Cardinality(PastCountAll) \in Nat /\ Cardinality(Callers) \in Nat
    BY <2>1, CallersFacts
  <2> QED BY <2>2, InboxAssumption, FS_CardinalityType DEF OrphanInv, OrphansBounded
<1> QED BY <1>1, <1>2, <1>3, InboxInvariant, PTL DEF Spec

(* The same of every rater's own share of it, so that one rater cannot take the *)
(* place of all the others.                                                     *)
THEOREM InboxPeerOrphansBounded == Spec => []PeerOrphansBounded
<1>1. Init => OrphanInv /\ PeerOrphanInv
  BY OrphanInit
<1>2. InboxInv /\ OrphanInv /\ PeerOrphanInv /\ [Next]_vars => OrphanInv' /\ PeerOrphanInv'
  <2> SUFFICES ASSUME TypeOK, OrphanInv, PeerOrphanInv, [Next]_vars
               PROVE  OrphanInv' /\ PeerOrphanInv'
    BY DEF InboxInv
  <2>1. OrphanInv'
    BY OrphanStep
  <2>2. ASSUME NEW r \in Raters PROVE PeerBound(r)'
    <3>1. IsFiniteSet(orphans) /\ PeerBound(r)
      BY DEF PeerOrphanInv, PeerBound
    <3> QED BY <3>1, PeerOrphanStep
  <2> QED BY <2>1, <2>2 DEF OrphanInv, PeerOrphanInv, PeerBound
<1>3. OrphanInv /\ PeerOrphanInv => PeerOrphansBounded
  <2> SUFFICES ASSUME PeerOrphanInv, NEW r \in Raters
               PROVE  Cardinality(OrphansOf(r)) <= PerPeerOrphanCap + Cardinality(Callers) - 1
    BY DEF PeerOrphansBounded
  <2>1. PastCountPeer(r) \in SUBSET Callers /\ OrphansOf(r) \subseteq orphans
    BY DEF PastCountPeer, OrphansOf
  <2>2. Cardinality(PastCountPeer(r)) \in Nat /\ Cardinality(Callers) \in Nat
    BY <2>1, CallersFacts
  <2>3. Cardinality(OrphansOf(r)) \in Nat
    BY <2>1, FS_Subset, FS_CardinalityType DEF PeerOrphanInv
  <2> QED BY <2>2, <2>3, InboxAssumption DEF PeerOrphanInv
<1> QED BY <1>1, <1>2, <1>3, InboxInvariant, PTL DEF Spec

--------------------------------------------------------------------------------
(* The promotion walk of a lone caller. *)

(* What an insertion of a new entry changes in the tables. *)
LEMMA NewEntry ==
  ASSUME TypeOK, NEW e \in Admissible, ~HasInboxEntry(e), InsertInboxEntry(e)
  PROVE  /\ ExtendsHead(e)
         /\ head' = [head EXCEPT ![Rater[e]] = e]
         /\ head'[Rater[e]] = e
         /\ \A r \in Raters : r # Rater[e] => head'[r] = head[r]
         /\ \A x \in Admissible : HasInboxEntry(x)' => HasInboxEntry(x) \/ x = e
<1>0. Rater[e] \in Raters /\ \A x \in Admissible : Rater[x] \in Raters
  BY AdmissibleFacts
<1>1. /\ ExtendsHead(e)
      /\ inbox' = [inbox EXCEPT ![Rater[e]] = Append(@, e)]
      /\ head' = [head EXCEPT ![Rater[e]] = e]
  BY DEF InsertInboxEntry
<1>2. inbox \in [Raters -> Seq(Admissible)] /\ head \in [Raters -> Hashes]
  BY DEF TypeOK
<1>3. ASSUME NEW x \in Admissible, HasInboxEntry(x)' PROVE HasInboxEntry(x) \/ x = e
  <2>1. CASE Rater[x] # Rater[e]
    BY <1>0, <1>1, <1>2, <1>3, <2>1 DEF HasInboxEntry
  <2>2. CASE Rater[x] = Rater[e]
    <3>1. inbox[Rater[x]] \in Seq(Admissible) /\ inbox'[Rater[x]] = Append(inbox[Rater[x]], e)
      BY <1>0, <1>1, <1>2, <2>2
    <3>2. PICK i \in DOMAIN inbox'[Rater[x]] : inbox'[Rater[x]][i] = x
      BY <1>3 DEF HasInboxEntry, Range
    <3>3. i \in DOMAIN inbox[Rater[x]] \/ x = e
      BY <3>1, <3>2
    <3>4. i \in DOMAIN inbox[Rater[x]] => inbox[Rater[x]][i] = x
      BY <3>1, <3>2
    <3> QED BY <3>3, <3>4 DEF HasInboxEntry, Range
  <2> QED BY <2>1, <2>2
<1> QED BY <1>0, <1>1, <1>2, <1>3

(* The last accepted entry of a rater is the rater's. *)
LEMMA HeadOfRater ==
  ASSUME TypeOK, ChainInv, NEW r \in Raters, head[r] # Zero
  PROVE  Rater[head[r]] = r
<1>1. inbox[r] # <<>> /\ inbox[r] \in Seq(Admissible)
  BY HeadRow DEF TypeOK
<1>2. Len(inbox[r]) \in 1..Len(inbox[r])
  BY <1>1
<1> QED BY <1>1, <1>2 DEF ChainInv, HeadIsLast, IsChain

(* Every step of the lone caller keeps the orphans it could promote ahead of it. *)
LEMMA WalkStep ==
  ASSUME InboxInv, \A c, d \in Callers : c = d, MaxFaults = 0,
         NEW c \in Callers, WalkInv(c), [Next]_vars
  PROVE  WalkInv(c)'
<1>t. /\ pc \in [Callers -> States] /\ entry \in [Callers -> Hashes]
      /\ queue \in [Callers -> SUBSET Admissible]
      /\ found \in [Callers -> SUBSET Admissible]
      /\ head \in [Raters -> Hashes]
      /\ orphans \in SUBSET Admissible
  BY DEF InboxInv, TypeOK
<1>i. TypeOK /\ ChainInv /\ CallerInv(c)
  BY DEF InboxInv
<1>w. StrandedAhead(c) /\ OneTable(c) /\ WalkShape(c) /\ Decided(c)
  BY DEF WalkInv
<1>a. \A e \in Admissible : e \in Entries /\ e # Zero /\ Rater[e] \in Raters /\ Prev[e] \in Hashes
  BY AdmissibleFacts
<1>o. \A d \in Callers : d = c
  OBVIOUS
<1> DEFINE SameEntries == UNCHANGED <<inbox, head>>
<1>1. ASSUME NEW e \in Entries, Receive(c, e) PROVE WalkInv(c)'
  <2>1. /\ UNCHANGED <<inbox, head, orphans, queue, found>> /\ ~HasInboxEntry(e)
        /\ pc[c] = "idle" /\ pc'[c] = "dedupOrphan" /\ entry'[c] = e
    BY <1>t, <1>1 DEF Receive, Goto, tables
  <2>2. found[c] = {} /\ queue[c] = {} /\ Stranded = {}
    BY <1>w, <2>1 DEF WalkShape, StrandedAhead, Ahead, Walking
  <2>3. StrandedAhead(c)' /\ WalkShape(c)'
    BY <2>1, <2>2 DEF StrandedAhead, WalkShape, Stranded, Walking
  <2>4. OneTable(c)' /\ Decided(c)'
    BY <1>w, <2>1 DEF OneTable, Decided, Walking, HasInboxEntry
  <2> QED BY <2>3, <2>4 DEF WalkInv
<1>2. ASSUME Return(c), UNCHANGED tables, pc[c] \notin Walking PROVE WalkInv(c)'
  <2>1. /\ UNCHANGED <<inbox, head, orphans>>
        /\ pc'[c] = "idle" /\ entry'[c] = Zero /\ queue'[c] = {} /\ found'[c] = {}
    BY <1>t, <1>2 DEF Return, Goto, tables
  <2>2. Stranded = {}
    BY <1>w, <1>2 DEF WalkShape, StrandedAhead, Ahead, Walking
  <2>3. StrandedAhead(c)' /\ WalkShape(c)' /\ Decided(c)'
    BY <2>1, <2>2 DEF StrandedAhead, WalkShape, Stranded, Walking, Decided
  <2>4. OneTable(c)'
    BY <1>w, <1>2, <2>1 DEF OneTable, Walking, HasInboxEntry
  <2> QED BY <2>3, <2>4 DEF WalkInv
<1>3. ASSUME NEW s, UNCHANGED tables, UNCHANGED <<entry, queue, found>>, Goto(c, s),
             pc[c] \notin Walking \union {"idle"},
             s \in {"readHead", "acceptFirst", "acceptNext",
                    "countPeer", "countAll", "queueOrphan"},
             entry[c] \notin orphans,
             s \in {"countPeer", "countAll", "queueOrphan"} =>
               Prev[entry[c]] # head[Rater[entry[c]]]
      PROVE  WalkInv(c)'
  <2>1. /\ UNCHANGED <<inbox, head, orphans, entry, queue, found>> /\ pc'[c] = s
    BY <1>t, <1>3 DEF Goto, tables
  <2>2. StrandedAhead(c)' /\ WalkShape(c)'
    BY <1>w, <1>3, <2>1 DEF StrandedAhead, WalkShape, Stranded, Walking, Ahead
  <2>3. OneTable(c)' /\ Decided(c)'
    BY <1>w, <1>3, <2>1 DEF OneTable, Walking, HasInboxEntry, Decided, Stranded
  <2> QED BY <2>2, <2>3 DEF WalkInv
<1>4. ASSUME DedupOrphan(c) PROVE WalkInv(c)'
  BY <1>2, <1>3, <1>4 DEF DedupOrphan, Walking
<1>5. ASSUME ReadHead(c) PROVE WalkInv(c)'
  <2>1. /\ pc[c] = "readHead" /\ Goto(c, Decide(entry[c])) /\ entry[c] \notin orphans
        /\ UNCHANGED tables /\ UNCHANGED <<entry, queue, found>>
    BY <1>5, <1>w DEF ReadHead, Decided, Walking
  <2>2. Decide(entry[c]) \in {"acceptFirst", "acceptNext", "countPeer"}
    BY DEF Decide
  <2>3. Decide(entry[c]) = "countPeer" => Prev[entry[c]] # head[Rater[entry[c]]]
    BY DEF Decide
  <2> QED BY <1>3, <2>1, <2>2, <2>3 DEF Walking
<1>6. ASSUME Accept(c) PROVE WalkInv(c)'
  <2>0. /\ pc[c] \in {"acceptFirst", "acceptNext"} /\ UNCHANGED orphans
        /\ entry[c] \in Admissible /\ ~HasInboxEntry(entry[c]) /\ entry[c] \notin orphans
        /\ found[c] = {} /\ Stranded = {}
    BY <1>6, <1>i, <1>w
    DEF Accept, CallerInv, Decided, Walking, WalkShape, StrandedAhead, Ahead
  <2>1. CASE InsertInboxEntry(entry[c]) /\ Goto(c, "find")
             /\ queue' = [queue EXCEPT ![c] = {entry[c]}] /\ UNCHANGED <<entry, found>>
    <3>1. /\ head'[Rater[entry[c]]] = entry[c]
          /\ \A r \in Raters : r # Rater[entry[c]] => head'[r] = head[r]
          /\ \A x \in Admissible : HasInboxEntry(x)' => HasInboxEntry(x) \/ x = entry[c]
      BY <1>i, <2>0, <2>1, NewEntry
    <3>2. /\ pc'[c] = "find" /\ queue'[c] = {entry[c]} /\ found'[c] = {} /\ entry' = entry
      BY <1>t, <2>0, <2>1 DEF Goto
    <3>3. StrandedAhead(c)'
      BY <1>t, <1>a, <2>0, <3>1, <3>2 DEF StrandedAhead, Stranded, Ahead
    <3>4. OneTable(c)'
      BY <1>t, <1>w, <2>0, <3>1 DEF OneTable
    <3>5. WalkShape(c)' /\ Decided(c)'
      BY <3>2 DEF WalkShape, Decided, Walking
    <3> QED BY <3>3, <3>4, <3>5 DEF WalkInv
  <2>2. CASE ChainMismatch(entry[c]) /\ UNCHANGED <<inbox, head>>
             /\ IF pc[c] = "acceptFirst" THEN Return(c)
                ELSE Goto(c, "countPeer") /\ UNCHANGED <<entry, queue, found>>
    <3>1. Prev[entry[c]] # head[Rater[entry[c]]] /\ UNCHANGED tables
      BY <2>0, <2>2 DEF ChainMismatch, ExtendsHead, tables
    <3> QED BY <1>2, <1>3, <2>0, <2>2, <3>1 DEF Walking
  <2> QED BY <1>6, <2>1, <2>2 DEF Accept
<1>7. ASSUME Find(c) PROVE WalkInv(c)'
  <2>0. PICK p \in queue[c] : Walk(c, FindInboxOrphansAwaiting(p), queue[c] \ {p})
    BY <1>7 DEF Find
  <2> DEFINE f == FindInboxOrphansAwaiting(p)
             q == queue[c] \ {p}
  <2>1. /\ pc[c] = "find" /\ UNCHANGED <<inbox, head, orphans>>
        /\ found'[c] = f /\ queue'[c] = q /\ entry'[c] = Zero
        /\ pc'[c] = IF f # {} THEN "promote" ELSE IF q # {} THEN "find" ELSE "idle"
    BY <1>t, <1>7, <2>0 DEF Find, Walk, Goto, tables
  <2>2. f \subseteq orphans /\ Zero \notin f
    BY <1>t, <1>a DEF FindInboxOrphansAwaiting
  <2>3. ASSUME NEW o \in Stranded PROVE o \in f \/ Prev[o] \in q
    <3>1. Prev[o] \in queue[c] /\ o \in orphans /\ Prev[o] = head[Rater[o]]
      BY <1>w, <2>1 DEF StrandedAhead, Ahead, WalkShape, Stranded
    <3>2. Rater[o] \in Raters /\ head[Rater[o]] # Zero
      BY <1>t, <1>a, <3>1
    <3>3. Rater[Prev[o]] = Rater[o]
      BY <1>i, <3>1, <3>2, HeadOfRater
    <3> QED BY <3>1, <3>3 DEF FindInboxOrphansAwaiting
  <2>4. StrandedAhead(c)'
    BY <2>1, <2>3 DEF StrandedAhead, Stranded, Ahead
  <2>5. OneTable(c)'
    BY <1>w, <2>1 DEF OneTable, HasInboxEntry
  <2>6. WalkShape(c)' /\ Decided(c)'
    BY <2>1, <2>2 DEF WalkShape, Decided, Walking
  <2> QED BY <2>4, <2>5, <2>6 DEF WalkInv
<1>8. ASSUME Promote(c) PROVE WalkInv(c)'
  <2>0. PICK o \in found[c] :
          /\ entry' = [entry EXCEPT ![c] = o]
          /\ found' = [found EXCEPT ![c] = @ \ {o}]
          /\ \/ InsertInboxEntry(o) /\ Goto(c, "unqueue")
             \/ ChainMismatch(o) /\ Goto(c, "dropFork") /\ UNCHANGED <<inbox, head>>
    BY <1>8 DEF Promote
  <2>1. /\ pc[c] = "promote" /\ UNCHANGED <<orphans, queue>>
        /\ entry'[c] = o /\ found'[c] = found[c] \ {o} /\ queue'[c] = queue[c]
        /\ o \in Admissible /\ o \in orphans /\ found[c] \subseteq orphans
        /\ ~HasInboxEntry(o)
    BY <1>t, <1>w, <1>8, <2>0 DEF Promote, WalkShape, OneTable
  <2>2. CASE InsertInboxEntry(o) /\ Goto(c, "unqueue")
    <3>1. /\ head'[Rater[o]] = o
          /\ \A r \in Raters : r # Rater[o] => head'[r] = head[r]
          /\ \A x \in Admissible : HasInboxEntry(x)' => HasInboxEntry(x) \/ x = o
      BY <1>i, <2>1, <2>2, NewEntry
    <3>2. pc'[c] = "unqueue"
      BY <1>t, <2>2 DEF Goto
    <3>3. ASSUME NEW x \in Stranded' PROVE Ahead(c, x)'
      <4>1. x \in orphans /\ Rater[x] \in Raters /\ Prev[x] = head'[Rater[x]]
        BY <1>t, <1>a, <2>1, <3>3 DEF Stranded
      <4>2. CASE Rater[x] = Rater[o]
        BY <2>1, <3>1, <3>2, <4>1, <4>2 DEF Ahead
      <4>3. CASE Rater[x] # Rater[o]
        <5>1. x \in Stranded
          BY <3>1, <4>1, <4>3 DEF Stranded
        <5>2. x \in found[c] \/ Prev[x] \in queue[c]
          BY <1>w, <2>1, <5>1 DEF StrandedAhead, Ahead
        <5> QED BY <2>1, <3>2, <5>2 DEF Ahead
      <4> QED BY <4>2, <4>3
    <3>4. StrandedAhead(c)'
      BY <3>3 DEF StrandedAhead
    <3>5. OneTable(c)'
      BY <1>t, <1>w, <2>1, <3>1, <3>2 DEF OneTable
    <3>6. WalkShape(c)' /\ Decided(c)'
      BY <2>1, <3>2 DEF WalkShape, Decided, Walking
    <3> QED BY <3>4, <3>5, <3>6 DEF WalkInv
  <2>3. CASE ChainMismatch(o) /\ Goto(c, "dropFork") /\ UNCHANGED <<inbox, head>>
    <3>1. o \notin Stranded
      BY <2>3 DEF ChainMismatch, ExtendsHead, Stranded
    <3>2. pc'[c] = "dropFork"
      BY <1>t, <2>3 DEF Goto
    <3>3. StrandedAhead(c)'
      BY <1>w, <2>1, <2>3, <3>1, <3>2 DEF StrandedAhead, Stranded, Ahead
    <3>4. OneTable(c)'
      BY <1>w, <2>1, <2>3 DEF OneTable, HasInboxEntry
    <3>5. WalkShape(c)' /\ Decided(c)'
      BY <2>1, <2>3, <3>1, <3>2 DEF WalkShape, Decided, Walking, Stranded
    <3> QED BY <3>3, <3>4, <3>5 DEF WalkInv
  <2> QED BY <2>0, <2>2, <2>3
<1>9. ASSUME DeleteInboxOrphan(c) PROVE WalkInv(c)'
  <2> DEFINE q == IF pc[c] = "unqueue" THEN queue[c] \union {entry[c]} ELSE queue[c]
  <2>1. /\ pc[c] \in {"unqueue", "dropFork"} /\ UNCHANGED <<inbox, head>>
        /\ orphans' = orphans \ {entry[c]}
        /\ found'[c] = found[c] /\ queue'[c] = q /\ entry'[c] = Zero
        /\ pc'[c] = IF found[c] # {} THEN "promote" ELSE IF q # {} THEN "find" ELSE "idle"
    BY <1>t, <1>9 DEF DeleteInboxOrphan, Walk, Goto
  <2>2. Zero \notin found[c] /\ found[c] \subseteq orphans' /\ entry[c] \notin found[c]
    BY <1>t, <1>a, <1>w, <2>1 DEF WalkShape
  <2>3. StrandedAhead(c)'
    BY <1>w, <2>1 DEF StrandedAhead, Stranded, Ahead
  <2>4. OneTable(c)'
    BY <1>w, <2>1 DEF OneTable, HasInboxEntry
  <2>5. WalkShape(c)' /\ Decided(c)'
    BY <2>1, <2>2 DEF WalkShape, Decided, Walking
  <2> QED BY <2>3, <2>4, <2>5 DEF WalkInv
<1>10. ASSUME CountPeer(c) PROVE WalkInv(c)'
  <2>1. pc[c] = "countPeer" /\ entry[c] \notin orphans
        /\ Prev[entry[c]] # head[Rater[entry[c]]]
    BY <1>10, <1>w DEF CountPeer, Decided, Walking
  <2> QED BY <1>2, <1>3, <1>10, <2>1 DEF CountPeer, Walking
<1>11. ASSUME CountAll(c) PROVE WalkInv(c)'
  <2>1. pc[c] = "countAll" /\ entry[c] \notin orphans
        /\ Prev[entry[c]] # head[Rater[entry[c]]]
    BY <1>11, <1>w DEF CountAll, Decided, Walking
  <2> QED BY <1>2, <1>3, <1>11, <2>1 DEF CountAll, Walking
<1>12. ASSUME QueueOrphan(c) PROVE WalkInv(c)'
  <2>1. /\ pc[c] = "queueOrphan" /\ UNCHANGED <<inbox, head>>
        /\ orphans' = orphans \union {entry[c]}
        /\ pc'[c] = "idle" /\ entry'[c] = Zero /\ queue'[c] = {} /\ found'[c] = {}
    BY <1>t, <1>12 DEF QueueOrphan, Return, Goto
  <2>2. /\ Stranded = {} /\ ~HasInboxEntry(entry[c])
        /\ Prev[entry[c]] # head[Rater[entry[c]]]
    BY <1>w, <2>1 DEF WalkShape, StrandedAhead, Ahead, Walking, Decided
  <2>3. StrandedAhead(c)'
    BY <2>1, <2>2 DEF StrandedAhead, Stranded
  <2>4. OneTable(c)'
    BY <1>w, <2>1, <2>2 DEF OneTable, HasInboxEntry
  <2>5. WalkShape(c)' /\ Decided(c)'
    BY <2>1 DEF WalkShape, Decided, Walking
  <2> QED BY <2>3, <2>4, <2>5 DEF WalkInv
<1>13. ~(faults < MaxFaults)
  BY <1>i DEF TypeOK
<1>14. ASSUME UNCHANGED vars PROVE WalkInv(c)'
  BY <1>w, <1>14
  DEF vars, WalkInv, StrandedAhead, Stranded, Ahead, OneTable, HasInboxEntry, WalkShape, Decided
<1> QED
  BY <1>1, <1>4, <1>5, <1>6, <1>7, <1>8, <1>9, <1>10, <1>11, <1>12, <1>13, <1>14, <1>o
  DEF Next, Step, StatementFails, Crash

(* A lone caller that no failure interrupts: the gossip subscriber of a worker, *)
(* relay or witness.                                                            *)
LoneCaller == (\A c, d \in Callers : c = d) /\ MaxFaults = 0

LoneInv == InboxInv /\ \A c \in Callers : WalkInv(c)

LEMMA LoneInvariant == LoneCaller => (Spec => []LoneInv)
<1> SUFFICES ASSUME LoneCaller PROVE Spec => []LoneInv
  OBVIOUS
<1>1. Init => \A c \in Callers : WalkInv(c)
  BY DEF Init, WalkInv, StrandedAhead, Stranded, OneTable, WalkShape, Decided, Walking
<1>2. LoneInv /\ [Next]_vars => LoneInv'
  BY InboxStep, WalkStep DEF LoneInv, LoneCaller
<1>3. Init => LoneInv
  BY <1>1, InboxInit DEF LoneInv
<1> QED BY <1>2, <1>3, PTL DEF Spec

LEMMA LoneInvAtRest ==
  ASSUME LoneInv, AtRest
  PROVE  Stranded = {} /\ \A o \in orphans : ~HasInboxEntry(o)
<1>1. PICK c \in Callers : pc[c] = "idle" /\ WalkInv(c)
  BY CallersAssumption DEF AtRest, LoneInv
<1> QED BY <1>1 DEF WalkInv, StrandedAhead, Ahead, OneTable, WalkShape, Walking

(* It never comes to rest with an orphan whose parent is the head of its chain, *)
(* whatever order the entries came in and whichever orphan its walk took first. *)
THEOREM InboxOrphansPromoted == LoneCaller => (Spec => []OrphansPromoted)
<1>1. LoneInv => OrphansPromoted
  BY LoneInvAtRest DEF OrphansPromoted
<1> QED BY <1>1, LoneInvariant, PTL

(* Nor with an accepted entry still in the orphan table, where it would use up   *)
(* the cap for good.                                                            *)
THEOREM InboxNoLeftover == LoneCaller => (Spec => []NoLeftover)
<1>1. LoneInv => NoLeftover
  BY LoneInvAtRest DEF NoLeftover
<1> QED BY <1>1, LoneInvariant, PTL
================================================================================
