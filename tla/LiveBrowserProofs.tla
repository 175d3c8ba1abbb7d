--------------------------- MODULE LiveBrowserProofs ---------------------------
(* Proofs about LiveBrowser, for any number of sessions, which may overlap, of  *)
(* variants, of requests under way and of upsets: what the page keeps whatever  *)
(* it hears late.                                                               *)
EXTENDS LiveBrowser, SequenceTheorems, WellFoundedInduction, TLAPS

--------------------------------------------------------------------------------
(* The tab, as the handlers leave it. *)

DomEntries == [in : BOOLEAN, n : 0..N, shown : 0..N]
SavedTabs == [id : 0..MaxSessions, state : States, arr : 0..N, vis : 0..N, file : BOOLEAN]

LEMMA TabFields ==
  ASSUME NEW p \in Tabs
  PROVE  /\ p.state \in States /\ p.bar \in Bars /\ p.cur \in 0..MaxSessions
         /\ p.arr \in 0..N /\ p.vis \in 0..N /\ p.file \in BOOLEAN /\ p.pend \in 0..MaxSessions
         /\ p.obs \in 0..MaxSessions /\ p.retry \in 0..MaxSessions /\ p.scout \in BOOLEAN
         /\ p.dom \in [Sessions -> DomEntries] /\ p.here \in BOOLEAN
         /\ p.saved \in SavedTabs /\ p.handled \in 0..MaxSessions
         /\ p.capture \in SUBSET Sessions /\ p.fallback \in SUBSET Sessions
         /\ p.fetch \in SUBSET Sessions /\ p.clean \in SUBSET Sessions
         /\ p.settle \in SUBSET Sessions /\ p.swap \in SUBSET Sessions
         /\ p.started \in 0..MaxSessions /\ p.astray \in BOOLEAN
BY DEF Tabs, DomEntries, SavedTabs

LEMMA SavedFields ==
  ASSUME NEW p \in Tabs
  PROVE  /\ p.saved.id \in 0..MaxSessions /\ p.saved.arr \in 0..N /\ p.saved.vis \in 0..N
         /\ p.saved.file \in BOOLEAN
         /\ \A s \in Sessions : /\ p.dom[s] \in DomEntries /\ p.dom[s].in \in BOOLEAN
                                /\ p.dom[s].n \in 0..N /\ p.dom[s].shown \in 0..N
BY TabFields, SMTT(30) DEF DomEntries, SavedTabs

LEMMA Ids ==
  /\ NoId \in 0..MaxSessions /\ MaxSessions \in Nat /\ N \in Nat
  /\ \A s \in 0..MaxSessions : s \in Nat /\ (s # NoId => s \in Sessions)
  /\ \A s \in Sessions : s \in Nat /\ s # NoId /\ s \in 0..MaxSessions
BY BoundsAssumption DEF Sessions, NoId

LEMMA Modes ==
  /\ {"IDLE", "PICKING", "CONFIGURING", "GENERATING", "CYCLING", "SAVING", "CONFIRMED"}
       \subseteq States
  /\ {"none", "configure", "generating", "cycling", "saving", "confirmed"} \subseteq Bars
BY DEF States, Bars

(* Nothing that the invariant speaks of has changed.                            *)
Alike(p, q) ==
  /\ q.cur = p.cur /\ q.arr = p.arr /\ q.vis = p.vis /\ q.obs = p.obs /\ q.saved = p.saved
  /\ q.dom = p.dom /\ q.handled = p.handled /\ q.started = p.started
  /\ q.astray = p.astray /\ q.capture = p.capture

Held(p, q) == q.capture = p.capture /\ q.started = p.started

(* A good tab, and one that is good but for what it has stored.                 *)
Fair(p, past) ==
  /\ p \in Tabs /\ Knows(p) /\ Shows(p) /\ p.obs \in {NoId, p.cur}
  /\ p.cur # NoId /\ p.handled = p.cur => p.cur \in past

Good(p, past) == p \in Tabs /\ TabGood(p, past)

LEMMA GoodIsFair ==
  \A p, past : Good(p, past) <=> Fair(p, past) /\ Keeps(p)
BY DEF Good, Fair, TabGood

LEMMA AlikeGood ==
  ASSUME NEW p, NEW q \in Tabs, NEW past, Alike(p, q), Fair(p, past)
  PROVE  Fair(q, past) /\ Held(p, q) /\ (Keeps(p) => Keeps(q))
BY DEF Alike, Fair, Held, Keeps, Knows, Shows

LEMMA AlikeKept ==
  ASSUME NEW p, NEW q \in Tabs, NEW past, Alike(p, q), Good(p, past)
  PROVE  Good(q, past) /\ Held(p, q)
BY AlikeGood, GoodIsFair

(* A session that is stored.                                                    *)
LEMMA SaveGood ==
  ASSUME NEW p, NEW past, Fair(p, past)
  PROVE  Good(saveSession(p), past) /\ Held(p, saveSession(p))
<1>1. p \in Tabs
  BY DEF Fair
<1>2. CASE p.cur = NoId
  BY <1>2, GoodIsFair DEF saveSession, Held, Keeps
<1>3. CASE p.cur # NoId
  <2> DEFINE e == [id |-> p.cur, state |-> p.state, arr |-> p.arr, vis |-> p.vis,
                   file |-> p.file]
             q == [p EXCEPT !.saved = e]
  <2>1. saveSession(p) = q
    BY <1>3 DEF saveSession
  <2>2. e \in SavedTabs /\ e.id = p.cur /\ e.arr = p.arr /\ e.vis = p.vis
    BY <1>1, TabFields DEF SavedTabs
  <2> HIDE DEF e
  <2>3. /\ q \in Tabs /\ q.saved = e /\ q.cur = p.cur /\ q.arr = p.arr /\ q.vis = p.vis
        /\ q.obs = p.obs /\ q.dom = p.dom /\ q.handled = p.handled /\ q.started = p.started
        /\ q.astray = p.astray /\ q.capture = p.capture
    BY <1>1, <2>2 DEF Tabs, SavedTabs
  <2> HIDE DEF q
  <2>4. Knows(q) /\ Shows(q) /\ Keeps(q) /\ Held(p, q)
    BY <2>2, <2>3 DEF Fair, Knows, Shows, Keeps, Held
  <2> QED BY <2>1, <2>3, <2>4 DEF Fair, Good, TabGood
<1> QED BY <1>2, <1>3

LEMMA ClampFacts ==
  ASSUME NEW v \in 0..N, NEW n \in 0..N, NEW other \in 0..N
  PROVE  /\ Clamp(v, n, other) \in 0..N
         /\ Clamp(v, n, other) = other \/ Clamp(v, n, other) \in 1..n
BY Ids DEF Clamp

(* What a wrapper shows changes, and nothing else.                              *)
LEMMA ShowFields ==
  ASSUME NEW p \in Tabs, NEW s \in Sessions, NEW v \in 0..N
  PROVE  LET q == showVariantInDOM(p, s, v)
         IN /\ q \in Tabs
            /\ q.cur = p.cur /\ q.arr = p.arr /\ q.vis = p.vis /\ q.obs = p.obs
            /\ q.saved = p.saved /\ q.handled = p.handled /\ q.started = p.started
            /\ q.astray = p.astray /\ q.capture = p.capture
            /\ \A o \in Sessions : q.dom[o].in = p.dom[o].in /\ q.dom[o].n = p.dom[o].n
            /\ \A o \in Sessions : o # s => q.dom[o] = p.dom[o]
            /\ p.dom[s].in /\ v \in 1..p.dom[s].n => q.dom[s].shown = v
<1> DEFINE w == IF p.dom[s].in THEN Clamp(v, p.dom[s].n, 0) ELSE p.dom[s].shown
           e == [p.dom[s] EXCEPT !.shown = w]
           d == [p.dom EXCEPT ![s] = e]
           q == [p EXCEPT !.dom = d]
<1>1. p.dom[s] \in DomEntries /\ p.dom \in [Sessions -> DomEntries]
  BY TabFields
<1>2. w \in 0..N /\ (p.dom[s].in /\ v \in 1..p.dom[s].n => w = v)
  BY SavedFields, Ids DEF Clamp
<1>3. showVariantInDOM(p, s, v) = q
  BY <1>1 DEF showVariantInDOM, Tabs, DomEntries
<1> HIDE DEF w
<1>4. /\ e \in DomEntries /\ e.in = p.dom[s].in /\ e.n = p.dom[s].n /\ e.shown = w
  BY <1>1, <1>2 DEF DomEntries
<1> HIDE DEF e
<1>5. /\ d \in [Sessions -> DomEntries] /\ d[s] = e
      /\ \A o \in Sessions : o # s => d[o] = p.dom[o]
  BY <1>1, <1>4
<1> HIDE DEF d
<1>6. /\ q \in Tabs /\ q.dom = d
      /\ q.cur = p.cur /\ q.arr = p.arr /\ q.vis = p.vis /\ q.obs = p.obs
      /\ q.saved = p.saved /\ q.handled = p.handled /\ q.started = p.started
      /\ q.astray = p.astray /\ q.capture = p.capture
  BY <1>5 DEF Tabs, DomEntries
<1> HIDE DEF q
<1>7. \A o \in Sessions : q.dom[o].in = p.dom[o].in /\ q.dom[o].n = p.dom[o].n
  BY <1>4, <1>5, <1>6
<1> QED BY <1>2, <1>3, <1>4, <1>5, <1>6, <1>7

LEMMA NoSavedType == NoSaved \in SavedTabs /\ NoSaved.id = NoId
BY Ids, Modes DEF NoSaved, SavedTabs

LEMMA CleanupGood ==
  ASSUME NEW p \in Tabs, NEW past, Knows(p)
  PROVE  LET q == cleanup(p)
             r == cleanupAcceptedSession(p)
         IN Good(q, past) /\ Held(p, q) /\ Good(r, past) /\ Held(p, r)
<1> DEFINE q == cleanup(p)
           r == cleanupAcceptedSession(p)
           sw == IF p.cur = NoId THEN p.swap ELSE p.swap \cup {p.cur}
<1>1. sw \in SUBSET Sessions
  BY TabFields, Ids
<1>2. q = [p EXCEPT !.swap = sw, !.bar = "none", !.obs = NoId, !.retry = NoId,
                    !.saved = NoSaved, !.file = FALSE, !.cur = NoId, !.state = "PICKING"]
  BY DEF cleanup, Tabs
<1> HIDE DEF sw
<1>3. "PICKING" \in States /\ "none" \in Bars /\ NoId \in 0..MaxSessions
      /\ NoSaved \in [id : 0..MaxSessions, state : States, arr : 0..N, vis : 0..N,
                       file : BOOLEAN]
  BY Modes, Ids, NoSavedType DEF SavedTabs
<1>4. /\ q \in Tabs /\ q.cur = NoId /\ q.obs = NoId /\ q.saved = NoSaved /\ q.dom = p.dom
      /\ q.handled = p.handled /\ q.started = p.started /\ q.capture = p.capture
  <2> DEFINE a == [p EXCEPT !.swap = sw, !.bar = "none", !.obs = NoId, !.retry = NoId]
  <2>1. /\ a \in Tabs /\ a.obs = NoId /\ a.dom = p.dom /\ a.handled = p.handled
        /\ a.started = p.started /\ a.capture = p.capture
    BY <1>1, <1>3, ZenonT(60) DEF Tabs
  <2>2. q = [a EXCEPT !.saved = NoSaved, !.file = FALSE, !.cur = NoId, !.state = "PICKING"]
    BY <1>2 DEF Tabs
  <2> HIDE DEF a, q
  <2> QED BY <1>3, <2>1, <2>2, ZenonT(60) DEF Tabs
<1>5. /\ r \in Tabs /\ r.cur = NoId /\ r.obs = NoId /\ r.saved = NoSaved /\ r.dom = p.dom
      /\ r.handled = p.handled /\ r.started = p.started /\ r.capture = p.capture
  BY <1>3, ZenonT(60) DEF Tabs, cleanupAcceptedSession
<1> HIDE DEF q, r
<1>6. NoId <= p.started
  BY TabFields, Ids DEF NoId
<1>7. Knows(q) /\ Shows(q) /\ Keeps(q) /\ Knows(r) /\ Shows(r) /\ Keeps(r)
  BY <1>4, <1>5, <1>6, NoSavedType DEF Knows, Shows, Keeps
<1>8. Good(q, past) /\ Held(p, q) /\ Good(r, past) /\ Held(p, r)
  BY <1>4, <1>5, <1>7 DEF Good, TabGood, Held
<1> QED BY <1>8 DEF q, r

--------------------------------------------------------------------------------
(* Taking up a session again. *)

LEMMA RestoreGood ==
  ASSUME NEW p, NEW past, Good(p, past), NEW told, told.ready \in SUBSET Sessions,
         p.saved.id \notin {NoId, p.handled}, Wrappers(p) = {}
  PROVE  LET q == restoreSessionWithoutWrapper(p, told)
         IN Good(q, past) /\ Held(p, q)
<1> DEFINE id == p.saved.id
           arr == IF p.saved.arr = 0 /\ id \in told.ready THEN N ELSE p.saved.arr
           file == p.file \/ p.saved.file \/ id \in told.ready
           vis == Clamp(p.saved.vis, arr, IF arr = 0 THEN 0 ELSE 1)
           fetch == IF file THEN p.fetch \cup {id} ELSE p.fetch
           r == [p EXCEPT !.cur = id, !.arr = arr, !.file = file, !.vis = vis,
                          !.state = "GENERATING", !.bar = "generating", !.obs = id,
                          !.fetch = fetch]
<1>0. p \in Tabs /\ Knows(p)
  BY DEF Good, TabGood
<1>1. id \in Sessions /\ id \in 0..MaxSessions /\ arr \in 0..N /\ file \in BOOLEAN
  BY <1>0, SavedFields, TabFields, Ids
<1>2. vis \in 0..N
  BY <1>1, <1>0, SavedFields, Ids DEF Clamp
<1>3. fetch \in SUBSET Sessions
  BY <1>0, <1>1, TabFields
<1>4. restoreSessionWithoutWrapper(p, told) = saveSession(r)
  BY <1>0 DEF restoreSessionWithoutWrapper, Tabs
<1> HIDE DEF arr, file, vis, fetch
<1>5. "GENERATING" \in States /\ "generating" \in Bars
  BY Modes
<1>6. /\ r \in Tabs /\ r.cur = id /\ r.obs = id /\ r.dom = p.dom /\ r.handled = p.handled
      /\ r.started = p.started /\ r.saved = p.saved /\ r.capture = p.capture
  BY <1>0, <1>1, <1>2, <1>3, <1>5, ZenonT(60) DEF Tabs
<1> HIDE DEF r
<1>7. Knows(r)
  BY <1>0, <1>6 DEF Knows
<1>8. Shows(r)
  BY <1>1, <1>6 DEF Shows, Wrappers
<1>9. Fair(r, past) /\ Held(p, r)
  BY <1>6, <1>7, <1>8 DEF Fair, Held
<1> QED BY <1>4, <1>9, SaveGood DEF Held

LEMMA ResumeGood ==
  ASSUME NEW p, NEW past, Fair(p, past), NEW s \in Wrappers(p), s # p.handled
  PROVE  LET q == ResumeWrapper(p, s)
         IN Good(q, past) /\ Held(p, q)
<1> DEFINE n == VariantsIn(p.dom[s])
           own == p.saved.id = s
           vis == Clamp(IF own THEN p.saved.vis ELSE 0, n, IF n = 0 THEN 0 ELSE 1)
           state == IF n >= N THEN "CYCLING" ELSE "GENERATING"
           bar == IF state = "CYCLING" THEN "cycling" ELSE "generating"
           file == p.file \/ (own /\ p.saved.file)
           r == [p EXCEPT !.cur = s, !.arr = n, !.vis = vis, !.state = state, !.file = file,
                          !.astray = FALSE, !.bar = bar, !.obs = s]
           t == IF vis = 0 THEN r ELSE showVariantInDOM(r, s, vis)
<1>0. p \in Tabs /\ Knows(p) /\ s \in Sessions /\ p.dom[s].in
  BY DEF Fair, Wrappers
<1>1. s # NoId /\ s \in 0..MaxSessions /\ n \in 0..N /\ n = p.dom[s].n /\ s <= p.started
  BY <1>0, SavedFields, Ids DEF VariantsIn, Knows
<1>2. /\ vis \in 0..N
      /\ IF n = 0 THEN vis = 0 ELSE vis \in 1..n
  BY <1>0, <1>1, SavedFields, Ids DEF Clamp
<1>3. ResumeWrapper(p, s) = saveSession(t)
  BY <1>0 DEF ResumeWrapper, Tabs
<1>4. state \in States /\ bar \in Bars /\ file \in BOOLEAN
  BY <1>0, Modes, TabFields, SavedFields
<1> HIDE DEF n, vis, state, bar, file
<1>5. /\ r \in Tabs /\ r.cur = s /\ r.vis = vis /\ r.obs = s /\ r.dom = p.dom
      /\ r.handled = p.handled /\ r.started = p.started /\ r.saved = p.saved
      /\ r.capture = p.capture
  <2> DEFINE a == [p EXCEPT !.cur = s, !.arr = n, !.vis = vis, !.state = state]
  <2>1. /\ a \in Tabs /\ a.cur = s /\ a.vis = vis /\ a.dom = p.dom
        /\ a.handled = p.handled /\ a.started = p.started /\ a.saved = p.saved
        /\ a.capture = p.capture
    BY <1>0, <1>1, <1>2, <1>4, ZenonT(60) DEF Tabs
  <2>2. r = [a EXCEPT !.file = file, !.astray = FALSE, !.bar = bar, !.obs = s]
    BY <1>0 DEF Tabs
  <2>3. FALSE \in BOOLEAN
    OBVIOUS
  <2> HIDE DEF a, r
  <2> QED BY <1>1, <1>4, <2>1, <2>2, <2>3, ZenonT(60) DEF Tabs
<1> HIDE DEF r
<1>6. /\ t \in Tabs /\ t.cur = s /\ t.vis = vis /\ t.obs = s
      /\ t.handled = p.handled /\ t.started = p.started /\ t.saved = p.saved
      /\ t.capture = p.capture
      /\ \A o \in Sessions : t.dom[o].in = p.dom[o].in /\ t.dom[o].n = p.dom[o].n
      /\ vis # 0 => t.dom[s].shown = vis
  <2>1. CASE vis = 0
    BY <1>5, <2>1
  <2>2. CASE vis # 0
    <3>1. t = showVariantInDOM(r, s, vis)
      BY <2>2
    <3> HIDE DEF t
    <3>2. r.dom[s].in /\ vis \in 1..r.dom[s].n
      BY <1>0, <1>1, <1>2, <1>5, <2>2
    <3>3. /\ t \in Tabs /\ t.cur = r.cur /\ t.vis = r.vis /\ t.obs = r.obs
          /\ t.handled = r.handled /\ t.started = r.started /\ t.saved = r.saved
          /\ t.capture = r.capture /\ t.dom[s].shown = vis
          /\ \A o \in Sessions : t.dom[o].in = r.dom[o].in /\ t.dom[o].n = r.dom[o].n
      BY <1>0, <1>2, <1>5, <3>1, <3>2, ShowFields
    <3> QED BY <1>5, <3>3
  <2> QED BY <2>1, <2>2
<1> HIDE DEF t
<1>7. Knows(t)
  BY <1>0, <1>1, <1>6 DEF Knows
<1>8. Shows(t)
  <2>1. vis \in 1..n => vis # 0
    BY <1>1
  <2> QED BY <1>0, <1>1, <1>6, <2>1 DEF Shows
<1>9. Fair(t, past) /\ Held(p, t)
  BY <1>6, <1>7, <1>8 DEF Fair, Held
<1> QED BY <1>3, <1>9, SaveGood DEF Held

LEMMA Least ==
  ASSUME NEW T \in SUBSET Nat, T # {}
  PROVE  \E i \in T : \A j \in T : i <= j
<1>1. PICK i \in T : \A j \in T : ~(<<j, i>> \in OpToRel(<, Nat))
  BY NatLessThanWellFounded, WFMin
<1>2. ASSUME NEW j \in T PROVE i <= j
  <2>0. i \in Nat /\ j \in Nat
    OBVIOUS
  <2>1. ~(<<j, i>> \in OpToRel(<, Nat))
    BY <1>1
  <2>2. <<j, i>> \in Nat \X Nat /\ <<j, i>>[1] = j /\ <<j, i>>[2] = i
    BY <2>0
  <2>3. j < i => <<j, i>> \in OpToRel(<, Nat)
    BY <2>0, <2>2 DEF OpToRel
  <2>4. ~(j < i) => i <= j
    BY <2>0
  <2> QED BY <2>1, <2>3, <2>4
<1> QED BY <1>2

LEMMA FirstFacts ==
  ASSUME NEW p, Wrappers(p) # {}
  PROVE  first(p) \in Wrappers(p)
<1>1. Wrappers(p) \in SUBSET Nat
  BY Ids DEF Wrappers
<1>2. \E s \in Wrappers(p) : \A o \in Wrappers(p) : s <= o
  BY <1>1, Least
<1> QED BY <1>2 DEF first

(* What init and the scout take up: the first wrapper, if it is not done with.  *)
LEMMA ResumeFirst ==
  ASSUME NEW p, NEW past, Good(p, past), Wrappers(p) # {}
  PROVE  Good(resumeSession(p), past) /\ Held(p, resumeSession(p))
<1>1. first(p) \in Wrappers(p) /\ Fair(p, past)
  BY FirstFacts, GoodIsFair
<1>2. CASE first(p) = p.handled
  BY <1>2 DEF resumeSession, Held
<1>3. CASE first(p) # p.handled
  <2>1. resumeSession(p) = ResumeWrapper(p, first(p))
    BY <1>3 DEF resumeSession
  <2> QED BY <1>1, <1>3, <2>1, ResumeGood
<1> QED BY <1>2, <1>3

(* And what is stored, if there is none.                                        *)
LEMMA ResumeStored ==
  ASSUME NEW p, NEW past, Good(p, past), Wrappers(p) = {}, p.cur = NoId
  PROVE  Good(resumeSession(p), past) /\ Held(p, resumeSession(p))
<1>0. p \in Tabs /\ Knows(p)
  BY DEF Good, TabGood
<1>1. CASE CanRestore(p, NotTold)
  <2>1. resumeSession(p) = restoreSessionWithoutWrapper(p, NotTold)
    BY <1>1 DEF resumeSession
  <2>2. p.saved.id \notin {NoId, p.handled} /\ NotTold.ready \in SUBSET Sessions
    BY <1>1 DEF CanRestore, NotTold
  <2> QED BY <2>1, <2>2, RestoreGood
<1>2. CASE ~CanRestore(p, NotTold)
  <2> DEFINE q == [p EXCEPT !.saved = NoSaved, !.handled = NoId]
  <2>1. resumeSession(p) = q
    BY <1>2 DEF resumeSession
  <2>2. /\ q \in Tabs /\ q.cur = NoId /\ q.obs = p.obs /\ q.saved = NoSaved /\ q.dom = p.dom
        /\ q.handled = NoId /\ q.started = p.started /\ q.capture = p.capture
    BY <1>0, NoSavedType, Ids DEF Tabs, SavedTabs
  <2> HIDE DEF q
  <2>3. NoId <= p.started
    BY <1>0, TabFields, Ids DEF NoId
  <2>4. Knows(q) /\ Shows(q) /\ Keeps(q) /\ Held(p, q)
    BY <1>0, <2>2, <2>3, NoSavedType DEF Knows, Shows, Keeps, Held
  <2>5. q.obs \in {NoId, q.cur}
    BY <2>2 DEF Good, TabGood
  <2> QED BY <2>1, <2>2, <2>4, <2>5 DEF Good, TabGood
<1> QED BY <1>1, <1>2

--------------------------------------------------------------------------------
(* The observers and the document. *)

LEMMA ScoutedGood ==
  ASSUME NEW p, NEW past, Good(p, past)
  PROVE  Good(Scouted(p), past) /\ Held(p, Scouted(p))
<1>1. CASE p.scout /\ Wrappers(p) # {}
  <2> DEFINE q == [p EXCEPT !.scout = FALSE]
  <2>1. q \in Tabs /\ Alike(p, q)
    BY DEF Good, Tabs, Alike
  <2>2. Scouted(p) = resumeSession(q)
    BY <1>1 DEF Scouted
  <2> HIDE DEF q
  <2>3. Good(q, past) /\ Held(p, q)
    BY <2>1, AlikeKept
  <2>4. Wrappers(q) # {}
    BY <1>1, <2>1 DEF Alike, Wrappers
  <2> QED BY <2>2, <2>3, <2>4, ResumeFirst DEF Held
<1>2. CASE ~(p.scout /\ Wrappers(p) # {})
  BY <1>2 DEF Scouted, Held
<1> QED BY <1>1, <1>2

LEMMA ObservedGood ==
  ASSUME NEW p, NEW past, Good(p, past)
  PROVE  Good(Observed(p), past) /\ Held(p, Observed(p))
<1> SUFFICES ASSUME Observed(p) # p
             PROVE  Good(Observed(p), past) /\ Held(p, Observed(p))
  BY DEF Held
<1> DEFINE n == VariantsIn(p.dom[p.obs])
           own == p.saved.id = p.obs
           v == Clamp(IF own THEN p.saved.vis ELSE 0, n, 1)
           grown == [p EXCEPT !.arr = n]
           new == [p EXCEPT !.arr = n, !.vis = v]
           more == IF p.vis > 0 THEN grown ELSE showVariantInDOM(new, p.obs, v)
           all == [more EXCEPT !.state = "CYCLING", !.bar = "cycling"]
           r == IF n >= N THEN all ELSE more
<1>0. p \in Tabs /\ Fair(p, past)
  BY GoodIsFair DEF Good
<1>1. p.obs # NoId /\ p.dom[p.obs].in /\ ~(n <= p.arr)
  BY DEF Observed
<1>2. p.obs \in Sessions /\ n \in 0..N /\ n = p.dom[p.obs].n /\ n > p.arr /\ p.arr \in 0..N
      /\ p.obs = p.cur
  BY <1>0, <1>1, TabFields, SavedFields, Ids DEF VariantsIn, Fair
<1>3. Observed(p) = saveSession(r)
  BY <1>1 DEF Observed
<1>4. v \in 1..n /\ v \in 0..N
  BY <1>0, <1>2, SavedFields, Ids DEF Clamp
<1> HIDE DEF n, v
<1>5. /\ grown \in Tabs /\ grown.cur = p.cur /\ grown.vis = p.vis /\ grown.obs = p.obs
      /\ grown.dom = p.dom /\ grown.handled = p.handled /\ grown.started = p.started
      /\ grown.saved = p.saved /\ grown.capture = p.capture /\ grown.astray = p.astray
  BY <1>0, <1>2 DEF Tabs
<1>6. /\ new \in Tabs /\ new.cur = p.cur /\ new.vis = v /\ new.obs = p.obs
      /\ new.dom = p.dom /\ new.handled = p.handled /\ new.started = p.started
      /\ new.saved = p.saved /\ new.capture = p.capture /\ new.astray = p.astray
  BY <1>0, <1>2, <1>4 DEF Tabs
<1> HIDE DEF grown, new
<1>7. Fair(more, past) /\ Held(p, more)
  <2>1. CASE p.vis > 0
    <3>1. Knows(grown) /\ Shows(grown)
      BY <1>0, <1>5 DEF Fair, Knows, Shows
    <3> QED BY <1>0, <1>5, <2>1, <3>1 DEF Fair, Held
  <2>2. CASE ~(p.vis > 0)
    <3>1. more = showVariantInDOM(new, p.obs, v)
      BY <2>2
    <3> HIDE DEF more
    <3>2. new.dom[p.obs].in /\ v \in 1..new.dom[p.obs].n
      BY <1>1, <1>2, <1>4, <1>6
    <3>3. /\ more \in Tabs /\ more.cur = new.cur /\ more.vis = new.vis /\ more.obs = new.obs
          /\ more.handled = new.handled /\ more.started = new.started
          /\ more.saved = new.saved /\ more.capture = new.capture
          /\ more.dom[p.obs].shown = v
          /\ \A o \in Sessions : more.dom[o].in = new.dom[o].in /\ more.dom[o].n = new.dom[o].n
      <4>1. p.obs \in Sessions /\ v \in 0..N /\ new \in Tabs
        BY <1>2, <1>4, <1>6
      <4> QED BY <3>1, <3>2, <4>1, ShowFields
    <3>4. Knows(more)
      BY <1>0, <1>6, <3>3 DEF Fair, Knows
    <3>5. Shows(more)
      <4>1. v # 0
        BY <1>2, <1>4
      <4> QED BY <1>2, <1>6, <3>3, <4>1 DEF Shows
    <3> QED BY <1>0, <1>6, <3>3, <3>4, <3>5 DEF Fair, Held
  <2> QED BY <2>1, <2>2
<1> HIDE DEF more
<1>8. Fair(r, past) /\ Held(p, r)
  <2>1. all \in Tabs /\ Alike(more, all)
    BY <1>7, Modes DEF Fair, Tabs, Alike
  <2> HIDE DEF all
  <2>2. Fair(all, past) /\ Held(more, all)
    BY <1>7, <2>1, AlikeGood
  <2> QED BY <1>7, <2>2 DEF Held
<1> HIDE DEF r
<1> QED BY <1>3, <1>8, SaveGood DEF Held

LEMMA RetriedGood ==
  ASSUME NEW p, NEW past, Good(p, past)
  PROVE  Good(Retried(p), past) /\ Held(p, Retried(p))
<1>0. p \in Tabs
  BY DEF Good
<1>1. CASE p.retry # NoId /\ (p.dom[p.retry].in \/ p.here)
  <2> DEFINE q == [p EXCEPT !.retry = NoId, !.fetch = p.fetch \cup {p.retry}]
  <2>1. p.retry \in Sessions
    BY <1>0, <1>1, TabFields, Ids
  <2>2. Retried(p) = q
    BY <1>0, <1>1 DEF Retried, Tabs
  <2>3. NoId \in 0..MaxSessions /\ p.fetch \cup {p.retry} \in SUBSET Sessions
    BY <1>0, <2>1, TabFields, Ids
  <2>4. q \in Tabs /\ Alike(p, q)
    BY <1>0, <2>3, ZenonT(60) DEF Tabs, Alike
  <2> HIDE DEF q
  <2> QED BY <2>2, <2>4, AlikeKept
<1>2. CASE ~(p.retry # NoId /\ (p.dom[p.retry].in \/ p.here))
  BY <1>2 DEF Retried, Held
<1> QED BY <1>1, <1>2

LEMMA MutatedGood ==
  ASSUME NEW p, NEW past, Good(p, past)
  PROVE  Good(Mutated(p), past) /\ Held(p, Mutated(p))
<1>1. Good(Scouted(p), past) /\ Held(p, Scouted(p))
  BY ScoutedGood
<1>2. Good(Observed(Scouted(p)), past) /\ Held(Scouted(p), Observed(Scouted(p)))
  BY <1>1, ObservedGood
<1>3. /\ Good(Retried(Observed(Scouted(p))), past)
      /\ Held(Observed(Scouted(p)), Retried(Observed(Scouted(p))))
  BY <1>2, RetriedGood
<1> QED BY <1>1, <1>2, <1>3 DEF Mutated, Held

(* The source files, as far as the tab cares.                                   *)
SourceTypes == [in : BOOLEAN, n : 0..N, due : BOOLEAN]
SourceFair(p) ==
  /\ src \in [Sessions -> SourceTypes]
  /\ \A s \in Sessions : src[s].in => s <= p.started

LEMMA RenderedGood ==
  ASSUME NEW p, NEW past, Good(p, past), SourceFair(p)
  PROVE  Good(Rendered(p), past) /\ Held(p, Rendered(p))
<1> DEFINE e(s) == IF p.here /\ src[s].in
                     THEN [in |-> TRUE, n |-> src[s].n, shown |-> IF src[s].n = 0 THEN 0 ELSE 1]
                     ELSE Absent
           d == [s \in Sessions |-> e(s)]
           q == [p EXCEPT !.dom = d]
<1>0. p \in Tabs /\ Fair(p, past) /\ Keeps(p)
  BY GoodIsFair DEF Good
<1>1. \A s \in Sessions : /\ e(s) \in DomEntries
                          /\ e(s).in => src[s].in /\ (e(s).n # 0 => e(s).shown = 1)
  <2> TAKE s \in Sessions
  <2>1. src[s].in \in BOOLEAN /\ src[s].n \in 0..N /\ p.here \in BOOLEAN
    BY <1>0, TabFields DEF SourceFair, SourceTypes
  <2>2. CASE p.here /\ src[s].in
    BY <2>1, <2>2, BoundsAssumption DEF DomEntries
  <2>3. CASE ~(p.here /\ src[s].in)
    BY <2>1, <2>3, Ids DEF DomEntries, Absent
  <2> QED BY <2>2, <2>3
<1> HIDE DEF e
<1>2. d \in [Sessions -> DomEntries] /\ \A s \in Sessions : d[s] = e(s)
  BY <1>1
<1>3. Rendered(p) = q
  BY DEF Rendered, e
<1> HIDE DEF d
<1>4. /\ q \in Tabs /\ q.dom = d /\ q.cur = p.cur /\ q.arr = p.arr /\ q.vis = p.vis
      /\ q.obs = p.obs /\ q.saved = p.saved /\ q.handled = p.handled
      /\ q.started = p.started /\ q.capture = p.capture
  BY <1>0, <1>2, ZenonT(60) DEF Tabs, DomEntries
<1> HIDE DEF q
<1>5. Knows(q)
  BY <1>0, <1>1, <1>2, <1>4 DEF Fair, Knows, SourceFair
<1>6. Shows(q)
  <2> SUFFICES ASSUME q.cur # NoId, q.dom[q.cur].in, q.vis \in 1..q.dom[q.cur].n
               PROVE  q.dom[q.cur].shown # 0
    BY DEF Shows
  <2>1. q.cur \in Sessions /\ q.dom[q.cur].n \in 0..N
    BY <1>4, TabFields, SavedFields, Ids
  <2>2. q.dom[q.cur].n # 0
    BY <2>1
  <2> QED BY <1>1, <1>2, <1>4, <2>1, <2>2
<1>7. Keeps(q) /\ Held(p, q)
  BY <1>0, <1>4 DEF Keeps, Held
<1>8. Fair(q, past)
  BY <1>0, <1>4, <1>5, <1>6 DEF Fair
<1> QED BY <1>3, <1>7, <1>8, GoodIsFair

(* A wrapper is taken away.                                                     *)
LEMMA AbsentGood ==
  ASSUME NEW p, NEW past, Good(p, past), NEW s \in Sessions
  PROVE  LET q == [p EXCEPT !.dom[s] = Absent]
         IN Good(q, past) /\ Held(p, q)
<1> DEFINE d == [p.dom EXCEPT ![s] = Absent]
           q == [p EXCEPT !.dom = d]
<1>0. p \in Tabs /\ Fair(p, past) /\ Keeps(p)
  BY GoodIsFair DEF Good
<1>1. Absent \in DomEntries /\ Absent.in = FALSE
  BY Ids DEF Absent, DomEntries
<1>2. /\ d \in [Sessions -> DomEntries] /\ d[s] = Absent
      /\ \A o \in Sessions : o # s => d[o] = p.dom[o]
  BY <1>0, <1>1, TabFields
<1>3. [p EXCEPT !.dom[s] = Absent] = q
  BY <1>0 DEF Tabs
<1> HIDE DEF d
<1>4. /\ q \in Tabs /\ q.dom = d /\ q.cur = p.cur /\ q.arr = p.arr /\ q.vis = p.vis
      /\ q.obs = p.obs /\ q.saved = p.saved /\ q.handled = p.handled
      /\ q.started = p.started /\ q.capture = p.capture /\ q.astray = p.astray
  BY <1>0, <1>2, ZenonT(60) DEF Tabs, DomEntries
<1> HIDE DEF q
<1>5. Knows(q)
  BY <1>0, <1>1, <1>2, <1>4 DEF Fair, Knows
<1>6. Shows(q)
  <2>1. q.cur # NoId => q.cur \in Sessions
    BY <1>4, TabFields, Ids
  <2> QED BY <1>0, <1>1, <1>2, <1>4, <2>1 DEF Shows, Fair
<1>7. Keeps(q) /\ Held(p, q)
  BY <1>0, <1>4 DEF Keeps, Held
<1>8. Fair(q, past)
  BY <1>0, <1>4, <1>5, <1>6 DEF Fair
<1> QED BY <1>3, <1>7, <1>8, GoodIsFair

LEMMA AnchorGood ==
  ASSUME NEW p, NEW past, Good(p, past), NEW s \in Sessions
  PROVE  Good(AnchorMissing(p, s), past) /\ Held(p, AnchorMissing(p, s))
<1> DEFINE r == [p EXCEPT !.state = "GENERATING", !.bar = "generating", !.retry = s]
<1>1. r \in Tabs /\ Alike(p, r)
  BY Modes, Ids DEF Good, Tabs, Alike
<1>2. AnchorMissing(p, s) = saveSession(r)
  BY DEF AnchorMissing
<1> HIDE DEF r
<1>3. Fair(r, past) /\ Held(p, r)
  BY <1>1, AlikeGood, GoodIsFair
<1> QED BY <1>2, <1>3, SaveGood DEF Held

(* The variants of a source file are taken, whatever session is the current.    *)
LEMMA InjectGood ==
  ASSUME NEW p, NEW past, Good(p, past), SourceFair(p), NEW s \in Sessions, src[s].in
  PROVE  Good(Inject(p, s), past) /\ Held(p, Inject(p, s))
<1> DEFINE n == VariantsIn(src[s])
           own == IF p.saved.id = s THEN p.saved.vis ELSE 0
           vis == Clamp(IF p.cur = s THEN p.vis ELSE 0, n, Clamp(own, n, 1))
           e == [in |-> TRUE, n |-> n, shown |-> 1]
           d == [p.dom EXCEPT ![s] = e]
           away == p.astray \/ s # p.cur
           placed == [p EXCEPT !.dom = d, !.retry = NoId, !.arr = n, !.astray = away]
           on == [placed EXCEPT !.vis = vis, !.state = "CYCLING", !.bar = "cycling"]
           t == showVariantInDOM(on, s, vis)
<1>0. p \in Tabs /\ Fair(p, past) /\ p.started \in 0..MaxSessions
  BY GoodIsFair, TabFields DEF Good
<1>1. n \in 0..N /\ s <= p.started
  BY DEF VariantsIn, SourceFair, SourceTypes
<1>2. n # 0 => vis \in 1..n /\ vis \in 0..N
  BY <1>0, <1>1, TabFields, SavedFields, Ids DEF Clamp
<1>3. e \in DomEntries /\ e.in /\ e.n = n
  BY <1>1, BoundsAssumption DEF DomEntries
<1>4. Inject(p, s) = IF n = 0 THEN cleanup(placed) ELSE saveSession(t)
  BY <1>0 DEF Inject, Tabs
<1>5. away \in BOOLEAN
  BY <1>0, TabFields
<1> HIDE DEF n, vis, e
<1>6. /\ d \in [Sessions -> DomEntries] /\ d[s] = e
      /\ \A o \in Sessions : o # s => d[o] = p.dom[o]
  BY <1>0, <1>3, TabFields
<1>7. away => p.astray \/ s # p.cur
  OBVIOUS
<1>8. ~away => ~p.astray /\ s = p.cur
  BY <1>0, TabFields
<1> HIDE DEF d, away
<1>9. NoId \in 0..MaxSessions
  BY Ids
<1>10. /\ placed \in Tabs /\ placed.dom = d /\ placed.cur = p.cur /\ placed.obs = p.obs
       /\ placed.saved = p.saved /\ placed.handled = p.handled /\ placed.started = p.started
       /\ placed.capture = p.capture /\ placed.astray = away
  BY <1>0, <1>1, <1>5, <1>6, <1>9, ZenonT(60) DEF Tabs, DomEntries
<1> HIDE DEF placed
<1>11. Knows(placed) /\ Held(p, placed)
  BY <1>0, <1>1, <1>6, <1>10 DEF Fair, Knows, Held
<1>12. CASE n = 0
  BY <1>4, <1>10, <1>11, <1>12, CleanupGood DEF Held
<1>13. CASE n # 0
  <2>1. /\ on \in Tabs /\ on.dom = d /\ on.cur = p.cur /\ on.obs = p.obs /\ on.vis = vis
        /\ on.saved = p.saved /\ on.handled = p.handled /\ on.started = p.started
        /\ on.capture = p.capture /\ on.astray = away
    BY <1>2, <1>10, <1>13, Modes DEF Tabs
  <2> HIDE DEF on
  <2>2. on.dom[s].in /\ vis \in 1..on.dom[s].n /\ vis \in 0..N
    BY <1>2, <1>3, <1>6, <1>13, <2>1
  <2>3. /\ t \in Tabs /\ t.cur = on.cur /\ t.obs = on.obs /\ t.vis = on.vis
        /\ t.saved = on.saved /\ t.handled = on.handled /\ t.started = on.started
        /\ t.capture = on.capture /\ t.astray = on.astray /\ t.dom[s].shown = vis
        /\ \A o \in Sessions : t.dom[o].in = on.dom[o].in /\ t.dom[o].n = on.dom[o].n
    BY <2>1, <2>2, ShowFields
  <2> HIDE DEF t
  <2>4. Knows(t) /\ Held(p, t)
    BY <1>10, <1>11, <2>1, <2>3 DEF Knows, Held
  <2>5. Shows(t)
    <3>1. vis # 0
      BY <1>1, <1>2, <1>13
    <3> QED BY <1>8, <2>1, <2>3, <3>1 DEF Shows
  <2>6. Fair(t, past)
    BY <1>0, <2>1, <2>3, <2>4, <2>5 DEF Fair
  <2> QED BY <1>4, <1>13, <2>4, <2>6, SaveGood DEF Held
<1> QED BY <1>12, <1>13

--------------------------------------------------------------------------------
(* What the handlers of responses, server events and timers do to the tab. *)

LEMMA HandledFields ==
  ASSUME NEW p \in Tabs
  PROVE  LET q == markSessionHandled(p)
         IN /\ q \in Tabs
            /\ q.cur = p.cur /\ q.arr = p.arr /\ q.vis = p.vis /\ q.obs = p.obs
            /\ q.saved = p.saved /\ q.dom = p.dom /\ q.started = p.started
            /\ q.astray = p.astray /\ q.capture = p.capture /\ q.pend = p.pend
            /\ q.handled = (IF p.cur = NoId THEN p.handled ELSE p.cur)
BY DEF Tabs, markSessionHandled

(* Done with the current session, whichever it is.                              *)
LEMMA HandledGood ==
  ASSUME NEW p, NEW past, Good(p, past)
  PROVE  LET q == cleanup(markSessionHandled(p))
         IN Good(q, past) /\ Held(p, q)
<1> DEFINE h == markSessionHandled(p)
<1>0. p \in Tabs /\ Knows(p)
  BY DEF Good, TabGood
<1>1. /\ h \in Tabs /\ h.cur = p.cur /\ h.saved = p.saved /\ h.dom = p.dom
      /\ h.started = p.started /\ h.capture = p.capture
      /\ h.handled = (IF p.cur = NoId THEN p.handled ELSE p.cur)
  BY <1>0, HandledFields
<1> HIDE DEF h
<1>2. Knows(h)
  BY <1>0, <1>1 DEF Knows
<1>3. Good(cleanup(h), past) /\ Held(h, cleanup(h))
  BY <1>1, <1>2, CleanupGood
<1> QED BY <1>1, <1>3 DEF h, Held

LEMMA AcceptedGood ==
  ASSUME NEW p, NEW past, Good(p, past), NEW s \in Sessions, NEW ok \in BOOLEAN
  PROVE  Good(Accepted(p, s, ok), past) /\ Held(p, Accepted(p, s, ok))
<1> DEFINE w == IF p.pend = s THEN NoId ELSE p.pend
           q == [p EXCEPT !.pend = w, !.state = "CYCLING", !.bar = "cycling"]
<1>0. p \in Tabs /\ w \in 0..MaxSessions
  BY TabFields, Ids DEF Good
<1>1. CASE ok
  BY <1>1 DEF Accepted, Held
<1>2. CASE ~ok
  <2>1. Accepted(p, s, ok) = q
    BY <1>0, <1>2 DEF Accepted, Tabs
  <2> HIDE DEF w
  <2>2. q \in Tabs /\ Alike(p, q)
    BY <1>0, Modes DEF Tabs, Alike
  <2> HIDE DEF q
  <2> QED BY <2>1, <2>2, AlikeKept
<1> QED BY <1>1, <1>2

LEMMA DoneGood ==
  ASSUME NEW p, NEW past, Good(p, past), NEW s \in Sessions
  PROVE  Good(Done(p, s), past) /\ Held(p, Done(p, s))
<1> DEFINE r == [p EXCEPT !.file = TRUE]
           all == [r EXCEPT !.state = "CYCLING", !.bar = "cycling"]
           more == [r EXCEPT !.fallback = @ \cup {s}]
<1>0. p \in Tabs
  BY DEF Good
<1>1. r \in Tabs /\ Alike(p, r)
  BY <1>0 DEF Tabs, Alike
<1>2. all \in Tabs /\ Alike(r, all)
  BY <1>1, Modes DEF Tabs, Alike
<1>3. more \in Tabs /\ Alike(r, more)
  BY <1>1 DEF Tabs, Alike
<1>4. Done(p, s) \in {r, all, more}
  BY DEF Done
<1> HIDE DEF r, all, more
<1>5. Alike(p, all) /\ Alike(p, more)
  BY <1>1, <1>2, <1>3 DEF Alike
<1> QED BY <1>1, <1>2, <1>3, <1>4, <1>5, AlikeKept

(* The session that is completed is done with.                                  *)
LEMMA CompleteGood ==
  ASSUME NEW p, NEW past, Good(p, past), NEW s \in past, s \in Sessions
  PROVE  LET q == maybeCompleteAcceptedSession(p, s)
         IN Good(q, past) /\ Held(p, q)
<1> DEFINE q == maybeCompleteAcceptedSession(p, s)
           given == [p EXCEPT !.pend = NoId]
           h == markSessionHandled(p)
           on == [h EXCEPT !.fin = TRUE, !.state = "CONFIRMED", !.clean = @ \cup {s}]
           all == updateBarContent(on, "confirmed")
<1>0. p \in Tabs /\ Fair(p, past) /\ Keeps(p)
  BY GoodIsFair DEF Good
<1>1. CASE p.pend # s \/ (p.cur \in {NoId, s} /\ p.fin)
  BY <1>1 DEF maybeCompleteAcceptedSession, Held
<1>2. CASE p.pend = s /\ p.cur \notin {NoId, s}
  <2>1. q = given
    BY <1>2 DEF maybeCompleteAcceptedSession
  <2>2. given \in Tabs /\ Alike(p, given)
    BY <1>0, Ids DEF Tabs, Alike
  <2> HIDE DEF q, given
  <2>3. Good(q, past) /\ Held(p, q)
    BY <2>1, <2>2, AlikeKept
  <2> QED BY <2>3 DEF q
<1>3. CASE p.pend = s /\ p.cur \in {NoId, s} /\ ~p.fin
  <2>1. q = all
    BY <1>3 DEF maybeCompleteAcceptedSession
  <2>2. /\ h \in Tabs
        /\ h.cur = p.cur /\ h.arr = p.arr /\ h.vis = p.vis /\ h.obs = p.obs
        /\ h.saved = p.saved /\ h.dom = p.dom /\ h.started = p.started
        /\ h.astray = p.astray /\ h.capture = p.capture
        /\ h.handled = (IF p.cur = NoId THEN p.handled ELSE p.cur)
    BY <1>0, HandledFields
  <2> HIDE DEF h
  <2>3. on \in Tabs /\ Alike(h, on)
    BY <2>2, Modes DEF Tabs, Alike
  <2> HIDE DEF on
  <2>4. all \in Tabs /\ Alike(on, all)
    BY <2>3, Modes DEF Tabs, Alike, updateBarContent
  <2> HIDE DEF all
  <2>5. Knows(h) /\ Shows(h) /\ Keeps(h) /\ Held(p, h)
    BY <1>0, <2>2 DEF Fair, Knows, Shows, Keeps, Held
  <2>6. h.cur # NoId => h.cur = s
    BY <1>3, <2>2
  <2>7. Good(h, past)
    BY <1>0, <2>2, <2>5, <2>6 DEF Good, TabGood, Fair
  <2>8. Good(on, past) /\ Held(h, on)
    BY <2>3, <2>7, AlikeKept
  <2>9. Good(all, past) /\ Held(on, all)
    BY <2>4, <2>8, AlikeKept
  <2> QED BY <2>1, <2>5, <2>8, <2>9 DEF Held
<1>4. p.fin \in BOOLEAN
  BY <1>0 DEF Tabs
<1> QED BY <1>1, <1>2, <1>3, <1>4

LEMMA ErrorGood ==
  ASSUME NEW p, NEW past, Good(p, past), NEW s \in Sessions
  PROVE  Good(Error(p, s), past) /\ Held(p, Error(p, s))
<1> DEFINE r == [p EXCEPT !.pend = NoId, !.state = "CYCLING"]
           u == updateBarContent(r, "cycling")
           w == [p EXCEPT !.bar = "none", !.state = "PICKING"]
<1>0. p \in Tabs
  BY DEF Good
<1>1. r \in Tabs /\ Alike(p, r)
  BY <1>0, Modes, Ids DEF Tabs, Alike
<1>2. w \in Tabs /\ Alike(p, w)
  BY <1>0, Modes DEF Tabs, Alike
<1>3. Error(p, s) \in {u, w}
  BY DEF Error
<1> HIDE DEF r, w
<1>4. u \in Tabs /\ Alike(r, u)
  BY <1>1, Modes DEF Tabs, Alike, updateBarContent
<1> HIDE DEF u
<1>5. Alike(p, u)
  BY <1>1, <1>4 DEF Alike
<1> QED BY <1>1, <1>2, <1>3, <1>4, <1>5, AlikeKept

Types == {"done", "complete", "discarded", "error"}

(* What the page makes of an event, be its stream on or not.                    *)
LEMMA TellGood ==
  ASSUME NEW past, Good(page, past), NEW s \in Sessions, NEW type \in Types,
         type = "complete" => s \in past, Tell(type, s)
  PROVE  Good(page', past) /\ Held(page, page')
<1>1. CASE conn = "on"
  <2>0. page' = Heard(type, s)
    BY <1>1 DEF Tell
  <2>1. CASE type = "done"
    <3>1. page' = Done(page, s)
      BY <2>0, <2>1 DEF Heard
    <3> QED BY <3>1, DoneGood
  <2>2. CASE type = "complete"
    <3>1. page' = maybeCompleteAcceptedSession(page, s)
      BY <2>0, <2>2 DEF Heard
    <3> QED BY <2>2, <3>1, CompleteGood
  <2>3. CASE type = "discarded"
    <3>1. page' = DiscardedEvent(page, s)
      BY <2>0, <2>3 DEF Heard
    <3>2. CASE s = page.cur
      BY <3>1, <3>2, HandledGood DEF DiscardedEvent
    <3>3. CASE s # page.cur
      BY <3>1, <3>3 DEF DiscardedEvent, Held
    <3> QED BY <3>2, <3>3
  <2>4. CASE type = "error"
    <3>1. page' = Error(page, s)
      BY <2>0, <2>4 DEF Heard
    <3> QED BY <3>1, ErrorGood
  <2> QED BY <2>1, <2>2, <2>3, <2>4 DEF Types
<1>2. CASE conn # "on"
  BY <1>2 DEF Tell, Held
<1> QED BY <1>1, <1>2

LEMMA SettledGood ==
  ASSUME NEW p, NEW past, Good(p, past), NEW s \in Sessions
  PROVE  Good(Settled(p, s), past) /\ Held(p, Settled(p, s))
<1>1. CASE p.pend # s
  BY <1>1 DEF Settled, Held
<1>2. CASE p.pend = s
  <2> DEFINE q == [p EXCEPT !.dom[s] = Absent]
             r == cleanupAcceptedSession(q)
  <2>1. Settled(p, s) = Mutated(r)
    BY <1>2 DEF Settled
  <2>2. Good(q, past) /\ Held(p, q)
    BY AbsentGood
  <2> HIDE DEF q
  <2>3. Good(r, past) /\ Held(q, r)
    BY <2>2, CleanupGood DEF Good, TabGood
  <2> HIDE DEF r
  <2>4. Good(Mutated(r), past) /\ Held(r, Mutated(r))
    BY <2>3, MutatedGood
  <2> QED BY <2>1, <2>2, <2>3, <2>4 DEF Held
<1> QED BY <1>1, <1>2

--------------------------------------------------------------------------------
(* The queue, the requests under way, the journal and the source files. *)

Kinds == {"generate", "accept", "discard"}
Events == [type : Kinds, id : Sessions]
Phases == {"new", "asked", "ready", "failed", "accepting", "discarding", "over", "reopened"}

LEMMA Entries ==
  ASSUME NEW S, NEW q \in Seq(S)
  PROVE  \A i \in DOMAIN q : q[i] \in S
OBVIOUS

LEMMA AppendFacts ==
  ASSUME NEW S, NEW q \in Seq(S), NEW e \in S
  PROVE  LET r == Append(q, e)
         IN /\ r \in Seq(S) /\ r # <<>> /\ Len(r) = Len(q) + 1 /\ r[Len(r)] = e
            /\ DOMAIN r = DOMAIN q \cup {Len(q) + 1} /\ r[Len(q) + 1] = e
            /\ \A i \in DOMAIN q : r[i] = q[i]
            /\ q # <<>> => Head(r) = Head(q)
<1>1. /\ Append(q, e) \in Seq(S) /\ Len(q) \in Nat /\ DOMAIN q = 1..Len(q)
      /\ Len(Append(q, e)) = Len(q) + 1
  OBVIOUS
<1>2. DOMAIN Append(q, e) = 1..(Len(q) + 1)
  BY <1>1
<1>3. \A i \in 1..Len(q) : Append(q, e)[i] = q[i]
  OBVIOUS
<1>4. Append(q, e)[Len(q) + 1] = e /\ Append(q, e) # <<>>
  OBVIOUS
<1>5. 1..(Len(q) + 1) = 1..Len(q) \cup {Len(q) + 1}
  BY <1>1
<1>6. q # <<>> => Head(Append(q, e)) = Head(q)
  OBVIOUS
<1> QED BY <1>1, <1>2, <1>3, <1>4, <1>5, <1>6

LEMMA TailFacts ==
  ASSUME NEW S, NEW q \in Seq(S), q # <<>>
  PROVE  /\ Tail(q) \in Seq(S) /\ 1 \in DOMAIN q /\ Head(q) = q[1]
         /\ \A i \in DOMAIN Tail(q) : /\ i \in Nat \ {0} /\ i + 1 \in DOMAIN q
                                      /\ Tail(q)[i] = q[i + 1]
<1>1. /\ Tail(q) \in Seq(S) /\ Len(q) \in Nat \ {0} /\ Len(Tail(q)) = Len(q) - 1
      /\ DOMAIN q = 1..Len(q) /\ Head(q) = q[1]
  OBVIOUS
<1>2. DOMAIN Tail(q) = 1..(Len(q) - 1)
  BY <1>1
<1>3. \A i \in 1..(Len(q) - 1) : Tail(q)[i] = q[i + 1]
  OBVIOUS
<1>4. \A i \in 1..(Len(q) - 1) : i \in Nat \ {0} /\ i + 1 \in 1..Len(q)
  BY <1>1
<1>5. 1 \in 1..Len(q)
  BY <1>1
<1> QED BY <1>1, <1>2, <1>3, <1>4, <1>5

LEMMA RemoveFacts ==
  ASSUME NEW S, NEW q \in Seq(S), NEW i \in DOMAIN q
  PROVE  LET r == RemoveAt(q, i)
         IN /\ r \in Seq(S) /\ Len(r) < Len(q)
            /\ \A k \in DOMAIN r : \E j \in DOMAIN q : r[k] = q[j]
<1> DEFINE a == SubSeq(q, 1, i - 1)
           b == SubSeq(q, i + 1, Len(q))
           r == a \o b
<1>1. i \in 1..Len(q) /\ Len(q) \in Nat /\ DOMAIN q = 1..Len(q)
  OBVIOUS
<1>2. RemoveAt(q, i) = r
  BY DEF RemoveAt
<1>3. /\ a \in Seq(S) /\ Len(a) = i - 1 /\ \A k \in 1..(i - 1) : a[k] = q[k]
  BY <1>1, SubSeqProperties
<1>4. /\ b \in Seq(S) /\ Len(b) = Len(q) - i /\ \A k \in 1..(Len(q) - i) : b[k] = q[i + k]
  BY <1>1, SubSeqProperties
<1> HIDE DEF a, b
<1>5. /\ r \in Seq(S) /\ Len(r) = Len(q) - 1
      /\ \A k \in 1..(Len(q) - 1) : r[k] = IF k <= i - 1 THEN a[k] ELSE b[k - (i - 1)]
  <2>1. /\ r \in Seq(S) /\ Len(r) = Len(a) + Len(b)
        /\ \A k \in 1..(Len(a) + Len(b)) :
             r[k] = IF k <= Len(a) THEN a[k] ELSE b[k - Len(a)]
    BY <1>3, <1>4, ConcatProperties
  <2> HIDE DEF r
  <2>2. Len(a) + Len(b) = Len(q) - 1
    BY <1>1, <1>3, <1>4
  <2> QED BY <1>3, <2>1, <2>2
<1> HIDE DEF r
<1>6. ASSUME NEW k \in DOMAIN r PROVE \E j \in DOMAIN q : r[k] = q[j]
  <2>1. k \in 1..(Len(q) - 1)
    BY <1>1, <1>5
  <2>2. CASE k <= i - 1
    <3>1. r[k] = q[k] /\ k \in DOMAIN q
      BY <1>1, <1>3, <1>5, <2>1, <2>2
    <3> QED BY <3>1
  <2>3. CASE ~(k <= i - 1)
    <3>1. k - (i - 1) \in 1..(Len(q) - i) /\ i + (k - (i - 1)) = k + 1
      BY <1>1, <2>1, <2>3
    <3>2. r[k] = b[k - (i - 1)]
      BY <1>5, <2>1, <2>3
    <3>3. b[k - (i - 1)] = q[i + (k - (i - 1))]
      BY <1>4, <3>1
    <3>4. k + 1 \in DOMAIN q
      BY <1>1, <2>1
    <3> QED BY <3>1, <3>2, <3>3, <3>4
  <2> QED BY <2>2, <2>3
<1>7. Len(r) < Len(q)
  BY <1>1, <1>5
<1> QED BY <1>2, <1>5, <1>6, <1>7

LEMMA Types1 ==
  ASSUME TypeOK
  PROVE  /\ page \in Tabs /\ queue \in Seq(Events) /\ posts \in Seq(Posts)
         /\ phase \in [Sessions -> Phases] /\ src \in [Sessions -> SourceTypes]
         /\ \A i \in DOMAIN queue : queue[i] \in Events
         /\ \A i \in DOMAIN posts : posts[i] \in Posts
BY Entries DEF TypeOK, Events, Kinds, Phases, SourceTypes

LEMMA PastGrows ==
  ASSUME NEW p, NEW past, NEW more, past \subseteq more, Good(p, past)
  PROVE  Good(p, more)
BY DEF Good, TabGood

(* The parts of the invariant put together.                                     *)
LEMMA StepGood ==
  ASSUME TypeOK', ServerGood', Good(page', Past(page)')
  PROVE  SessionGood'
BY DEF SessionGood, Good

LEMMA GoodParts ==
  ASSUME SessionGood
  PROVE  /\ TypeOK /\ ServerGood /\ Good(page, Past(page)) /\ page \in Tabs
         /\ SourceFair(page)
<1>1. \A s \in Sessions : src[s].in => src[s] # NoSource
  BY DEF NoSource
<1> QED BY <1>1, Types1 DEF SessionGood, Good, SourceFair, ServerGood

(* A step of the tab that the server has no part in.                            *)
LEMMA TabStep ==
  ASSUME SessionGood, UNCHANGED <<src, phase, queue>>, Good(page', Past(page)),
         Held(page, page'), TypeOK',
         \A i \in DOMAIN posts' : posts'[i].id <= page.started
  PROVE  SessionGood'
<1>1. Past(page)' = Past(page)
  BY DEF Past, Queued, Held
<1>2. ServerGood'
  BY DEF SessionGood, ServerGood, Queued, At, Held
<1> QED BY <1>1, <1>2, StepGood

LEMMA SameStep ==
  ASSUME SessionGood, Same, Good(page', Past(page)), Held(page, page')
  PROVE  SessionGood'
<1>1. TypeOK'
  BY DEF SessionGood, TypeOK, Same, Good
<1>2. \A i \in DOMAIN posts' : posts'[i].id <= page.started
  BY DEF SessionGood, ServerGood, Same
<1> QED BY <1>1, <1>2, TabStep DEF Same

(* The server takes an event.                                                   *)
LEMMA TakeServer ==
  ASSUME TypeOK, ServerGood, NEW s \in Sessions, s <= page.started, NEW type \in Kinds,
         Take(s, type), src' = src, page'.started = page.started,
         page'.capture \subseteq page.capture,
         type = "generate" => s \in page.capture \ page'.capture,
         \A i \in DOMAIN posts' : posts'[i].id <= page.started
  PROVE  /\ queue' \in Seq(Events) /\ phase' \in [Sessions -> Phases]
         /\ ServerGood' /\ Past(page) \subseteq Past(page)'
<1> DEFINE e == [type |-> type, id |-> s]
           ph == CASE type = "generate" -> "asked" [] type = "accept" -> "accepting"
                   [] type = "discard" -> "discarding"
<1>1. /\ queue' = IF Queued(s, type) THEN queue ELSE Append(queue, e)
      /\ phase' = [phase EXCEPT ![s] = ph]
  BY DEF Take
<1>2. e \in Events /\ e.type = type /\ e.id = s
  BY DEF Events
<1>3. ph \in Phases /\ (ph \in {"asked", "ready"} => type = "generate")
  BY DEF Kinds, Phases
<1>4. \A o, t : [type |-> t, id |-> o] = e <=> o = s /\ t = type
  OBVIOUS
<1> HIDE DEF e, ph
<1>5. /\ phase' \in [Sessions -> Phases] /\ phase'[s] = ph
      /\ \A o \in Sessions : o # s => phase'[o] = phase[o]
  BY <1>1, <1>3, Types1
<1>6. CASE Queued(s, type)
  <2>1. queue' = queue
    BY <1>1, <1>6
  <2>2. type # "generate"
    BY <1>6 DEF ServerGood
  <2>3. Past(page) \subseteq Past(page)'
    BY <1>3, <1>5, <2>1, <2>2 DEF Past, Queued
  <2>4. ServerGood'
    BY <2>1 DEF ServerGood, Queued, At
  <2> QED BY <1>5, <2>1, <2>3, <2>4, Types1
<1>7. CASE ~Queued(s, type)
  <2>1. queue' = Append(queue, e)
    BY <1>1, <1>7
  <2>2. /\ queue' \in Seq(Events) /\ queue' # <<>>
        /\ DOMAIN queue' = DOMAIN queue \cup {Len(queue) + 1} /\ queue'[Len(queue) + 1] = e
        /\ \A i \in DOMAIN queue : queue'[i] = queue[i]
        /\ queue # <<>> => Head(queue') = Head(queue)
    BY <1>2, <2>1, AppendFacts, Types1
  <2>3. \A o, t : Queued(o, t)' <=> Queued(o, t) \/ (o = s /\ t = type)
    BY <1>4, <2>2 DEF Queued
  <2>4. \A o, t : At(o, t) => At(o, t)'
    BY <2>2 DEF At
  <2>5. \A i \in DOMAIN queue' : queue'[i].id <= page'.started
    BY <1>2, <2>2 DEF ServerGood
  <2>6. ASSUME NEW i \in DOMAIN queue', NEW j \in DOMAIN queue', queue'[i] = queue'[j],
               queue'[i].type = "generate"
        PROVE  i = j
    <3>1. \A k \in DOMAIN queue : queue[k] # e
      BY <1>4, <1>7, <2>2, Types1 DEF Queued, e
    <3>2. CASE i \in DOMAIN queue /\ j \in DOMAIN queue
      BY <2>2, <2>6, <3>2 DEF ServerGood
    <3>3. CASE i \notin DOMAIN queue \/ j \notin DOMAIN queue
      BY <2>2, <2>6, <3>1, <3>3
    <3> QED BY <3>2, <3>3
  <2>7. \A o \in page'.capture : /\ o <= page'.started /\ src'[o] = NoSource
                                 /\ ~Queued(o, "generate")'
    BY <2>3 DEF ServerGood
  <2>8. ASSUME NEW o \in Sessions, src'[o] # NoSource
        PROVE  /\ o <= page'.started
               /\ Queued(o, "generate")' => src'[o].in /\ At(o, "generate")'
    <3>1. ~(o = s /\ type = "generate")
      BY <2>8 DEF ServerGood
    <3> QED BY <2>3, <2>4, <2>8, <3>1 DEF ServerGood
  <2>9. ServerGood'
    BY <2>5, <2>6, <2>7, <2>8 DEF ServerGood
  <2>10. Past(page) \subseteq Past(page)'
    BY <1>3, <1>5, <2>3 DEF Past
  <2> QED BY <1>5, <2>2, <2>9, <2>10
<1> QED BY <1>6, <1>7

(* What is past once the agent has answered, if the page sends nothing then.    *)
After ==
  {o \in Sessions : /\ phase'[o] \notin {"asked", "ready"}
                    /\ o \notin page.capture /\ ~Queued(o, "generate")'}

(* The agent answers the event it is at.                                        *)
LEMMA AnswerServer ==
  ASSUME TypeOK, ServerGood, NEW s \in Sessions, NEW type, At(s, type),
         NEW ph \in Phases \ {"asked"}, ph = "ready" => type = "generate", Answered(s, ph),
         src' \in [Sessions -> SourceTypes], src'[s] \in {src[s], NoSource},
         \A o \in Sessions : o # s => src'[o] = src[o]
  PROVE  /\ queue' \in Seq(Events) /\ phase' \in [Sessions -> Phases]
         /\ Held(page, page') /\ posts' = posts => ServerGood'
         /\ Past(page) \subseteq After
         /\ page'.capture = page.capture => Past(page)' = After
         /\ (src[s] # NoSource /\ type # "generate" /\ ph # "ready") => s \in After
<1>1. queue # <<>> /\ Head(queue) = [type |-> type, id |-> s] /\ queue \in Seq(Events)
  BY Types1 DEF At
<1>2. queue' = Tail(queue) /\ phase' = [phase EXCEPT ![s] = ph]
  BY DEF Answered
<1>3. /\ queue' \in Seq(Events) /\ 1 \in DOMAIN queue /\ Head(queue) = queue[1]
      /\ \A i \in DOMAIN queue' : i \in Nat \ {0} /\ i + 1 \in DOMAIN queue
                                  /\ queue'[i] = queue[i + 1]
  BY <1>1, <1>2, TailFacts
<1>4. /\ phase' \in [Sessions -> Phases] /\ phase'[s] = ph
      /\ \A o \in Sessions : o # s => phase'[o] = phase[o]
  BY <1>2, Types1
<1>5. \A o, t : Queued(o, t)' => Queued(o, t)
  BY <1>3 DEF Queued
<1>6. \A o : At(o, "generate") => o = s /\ type = "generate"
  BY <1>1 DEF At
<1>7. ASSUME At(s, "generate") PROVE ~Queued(s, "generate")'
  <2> SUFFICES ASSUME NEW i \in DOMAIN queue', queue'[i] = [type |-> "generate", id |-> s]
               PROVE  FALSE
    BY DEF Queued
  <2>1. queue[i + 1] = queue[1] /\ queue[1].type = "generate"
    BY <1>1, <1>3, <1>7 DEF At
  <2>2. i + 1 = 1
    BY <1>3, <2>1 DEF ServerGood
  <2> QED BY <1>3, <2>2
<1>8. \A o \in Sessions : src'[o] # NoSource => src[o] # NoSource
  OBVIOUS
<1>9. ASSUME Held(page, page'), posts' = posts PROVE ServerGood'
  <2>1. \A i \in DOMAIN queue' : queue'[i].id <= page'.started
    BY <1>3, <1>9 DEF ServerGood, Held
  <2>2. ASSUME NEW i \in DOMAIN queue', NEW j \in DOMAIN queue', queue'[i] = queue'[j],
               queue'[i].type = "generate"
        PROVE  i = j
    <3>1. i + 1 = j + 1
      BY <1>3, <2>2 DEF ServerGood
    <3> QED BY <1>3, <3>1
  <2>3. \A o \in page'.capture : /\ o <= page'.started /\ src'[o] = NoSource
                                 /\ ~Queued(o, "generate")'
    <3>1. page.capture \subseteq Sessions
      BY Types1, TabFields
    <3> QED BY <1>5, <1>8, <1>9, <3>1 DEF ServerGood, Held
  <2>4. ASSUME NEW o \in Sessions, src'[o] # NoSource
        PROVE  o <= page'.started /\ ~Queued(o, "generate")'
    BY <1>5, <1>6, <1>7, <1>8, <1>9, <2>4 DEF ServerGood, Held
  <2>5. \A i \in DOMAIN posts' : posts'[i].id <= page'.started
    BY <1>9 DEF ServerGood, Held
  <2> QED BY <2>1, <2>2, <2>3, <2>4, <2>5 DEF ServerGood
<1>10. Past(page) \subseteq After
  <2> SUFFICES ASSUME NEW o \in Past(page) PROVE o \in After
    OBVIOUS
  <2>1. o \in Sessions /\ phase[o] \notin {"asked", "ready"} /\ o \notin page.capture
        /\ ~Queued(o, "generate")
    BY DEF Past
  <2>2. At(s, "generate") => Queued(s, "generate")
    BY <1>1, <1>3 DEF At, Queued
  <2>3. phase'[o] \notin {"asked", "ready"}
    BY <1>1, <1>4, <2>1, <2>2 DEF At
  <2> QED BY <1>5, <2>1, <2>3 DEF After
<1>11. ASSUME src[s] # NoSource, type # "generate", ph # "ready"
       PROVE  s \in After
  <2>1. s \notin page.capture /\ ~Queued(s, "generate")
    BY <1>6, <1>11 DEF ServerGood
  <2> QED BY <1>4, <1>5, <1>11, <2>1 DEF After
<1>12. page'.capture = page.capture => Past(page)' = After
  BY DEF Past, After
<1> QED BY <1>3, <1>4, <1>9, <1>10, <1>11, <1>12

--------------------------------------------------------------------------------
(* The user. *)

LEMMA BarStep == SessionGood /\ (handleClick \/ exitConfigureToPicking \/ togglePick \/ Escape)
                   => SessionGood'
<1> SUFFICES ASSUME SessionGood,
                    handleClick \/ exitConfigureToPicking \/ togglePick \/ Escape
             PROVE  SessionGood'
  OBVIOUS
<1>1. page \in Tabs /\ Good(page, Past(page))
  BY GoodParts
<1>2. page' \in Tabs /\ Alike(page, page')
  <2>1. CASE handleClick
    BY <1>1, <2>1, Modes DEF handleClick, Tabs, Alike
  <2>2. CASE exitConfigureToPicking
    BY <1>1, <2>2, Modes DEF exitConfigureToPicking, Tabs, Alike
  <2>3. CASE togglePick
    <3> DEFINE w == IF page.state \in {"PICKING", "CONFIGURING"} THEN "IDLE" ELSE page.state
               u == IF page.state = "IDLE" THEN "PICKING" ELSE page.state
    <3>1. w \in States /\ u \in States
      BY <1>1, Modes, TabFields
    <3>2. \/ page' = [page EXCEPT !.pick = FALSE, !.bar = "none", !.state = w]
          \/ page' = [page EXCEPT !.pick = TRUE, !.state = u]
      BY <1>1, <2>3 DEF togglePick, Tabs
    <3> HIDE DEF w, u
    <3>3. CASE page' = [page EXCEPT !.pick = FALSE, !.bar = "none", !.state = w]
      <4>1. "none" \in Bars /\ FALSE \in BOOLEAN
        BY Modes
      <4>2. page' \in Tabs
        BY <1>1, <3>1, <3>3, <4>1, ZenonT(60) DEF Tabs
      <4>3. Alike(page, page')
        BY <1>1, <3>3, ZenonT(60) DEF Tabs, Alike
      <4> QED BY <4>1, <4>2, <4>3
    <3>4. CASE page' = [page EXCEPT !.pick = TRUE, !.state = u]
      BY <1>1, <3>1, <3>4 DEF Tabs, Alike
    <3> QED BY <3>2, <3>3, <3>4
  <2>4. CASE Escape
    BY <1>1, <2>4, Modes DEF Escape, Tabs, Alike
  <2> QED BY <2>1, <2>2, <2>3, <2>4
<1>3. Good(page', Past(page)) /\ Held(page, page')
  BY <1>1, <1>2, AlikeKept
<1>4. CASE togglePick
  <2>1. UNCHANGED <<posts, conn, src, stale, phase, queue, lost, missed>>
    BY <1>4 DEF togglePick
  <2>2. TypeOK /\ ServerGood
    BY GoodParts
  <2>3. upsets' \in 0..MaxUpsets
    BY <1>4, <2>2, BoundsAssumption DEF togglePick, CanUpset, Upset, TypeOK
  <2>4. TypeOK'
    BY <1>2, <2>1, <2>2, <2>3 DEF TypeOK
  <2>5. \A i \in DOMAIN posts' : posts'[i].id <= page.started
    BY <2>1, <2>2 DEF ServerGood
  <2> QED BY <1>3, <2>1, <2>4, <2>5, TabStep
<1>5. CASE handleClick \/ exitConfigureToPicking \/ Escape
  BY <1>3, <1>5, SameStep DEF handleClick, exitConfigureToPicking, Escape
<1> QED BY <1>4, <1>5

LEMMA GoStep == SessionGood /\ handleGo => SessionGood'
<1> SUFFICES ASSUME SessionGood, handleGo PROVE SessionGood'
  OBVIOUS
<1> DEFINE s == page.started + 1
           r == [page EXCEPT !.started = s, !.astray = FALSE, !.pend = NoId, !.cur = s,
                             !.arr = 0, !.vis = 0, !.file = FALSE, !.state = "GENERATING",
                             !.bar = "generating", !.obs = s, !.capture = page.capture \cup {s}]
<1>1. /\ page \in Tabs /\ Good(page, Past(page)) /\ TypeOK /\ ServerGood
      /\ page.started \in 0..MaxSessions /\ page.started < MaxSessions
  BY GoodParts, TabFields DEF handleGo
<1>2. /\ s \in Sessions /\ s \in 0..MaxSessions /\ s > page.started /\ page.started \in Nat
      /\ 0 \in 0..N
  BY <1>1, Ids DEF Sessions
<1>3. page' = saveSession(r) /\ Same
  BY <1>1 DEF handleGo, Stored, Tabs
<1>4. page.capture \cup {s} \in SUBSET Sessions
  BY <1>1, <1>2, TabFields
<1> HIDE DEF s
<1>5. /\ r \in Tabs /\ r.cur = s /\ r.vis = 0 /\ r.obs = s /\ r.saved = page.saved
      /\ r.dom = page.dom /\ r.handled = page.handled /\ r.started = s
      /\ r.capture = page.capture \cup {s}
  BY <1>1, <1>2, <1>4, Modes, Ids DEF Tabs
<1> HIDE DEF r
<1>6. Knows(page)
  BY <1>1 DEF Good, TabGood
<1>7. \A k \in 0..MaxSessions : k <= page.started => k <= s /\ k # s
  BY <1>2, Ids
<1>8. /\ page.saved.id \in 0..MaxSessions /\ page.handled \in 0..MaxSessions
      /\ \A o \in Sessions : o \in 0..MaxSessions
  BY <1>1, TabFields, SavedFields, Ids
<1>9. Knows(r)
  BY <1>2, <1>5, <1>6, <1>7, <1>8, Ids DEF Knows
<1>10. Shows(r) /\ r.handled # r.cur
  BY <1>5, <1>6, <1>7, <1>8 DEF Shows, Knows
<1>11. Fair(r, Past(page)')
  BY <1>5, <1>9, <1>10 DEF Fair
<1>12. Good(page', Past(page)') /\ page'.started = s /\ page'.capture = page.capture \cup {s}
  BY <1>3, <1>5, <1>11, SaveGood DEF Held
<1>13. TypeOK'
  BY <1>1, <1>3, <1>12 DEF TypeOK, Same, Good
<1>14. /\ src' = src /\ queue' = queue /\ posts' = posts
       /\ \A o, t : Queued(o, t)' = Queued(o, t) /\ At(o, t)' = At(o, t)
  BY <1>3 DEF Same, Queued, At
<1>15. ServerGood'
  <2>1. /\ \A i \in DOMAIN queue : queue[i].id \in Sessions
        /\ \A i \in DOMAIN posts : posts[i].id \in Sessions
    BY <1>1, Types1 DEF Events, Posts
  <2>2. ~Queued(s, "generate") /\ src[s] = NoSource
    <3>1. ~(s <= page.started)
      BY <1>2, Ids
    <3>2. \A i \in DOMAIN queue : queue[i].id # s
      BY <1>1, <3>1 DEF ServerGood
    <3> QED BY <1>1, <1>2, <3>1, <3>2 DEF ServerGood, Queued
  <2>3. \A o \in page'.capture : o <= page'.started /\ src'[o] = NoSource /\ ~Queued(o, "generate")'
    <3>1. \A o \in page.capture : o \in 0..MaxSessions
      BY <1>1, <1>8, TabFields
    <3>2. s <= s
      BY <1>2, Ids
    <3> QED BY <1>1, <1>7, <1>12, <1>14, <2>2, <3>1, <3>2 DEF ServerGood
  <2>4. /\ \A i \in DOMAIN queue' : queue'[i].id <= page'.started
        /\ \A i \in DOMAIN posts' : posts'[i].id <= page'.started
    BY <1>1, <1>7, <1>8, <1>12, <1>14, <2>1 DEF ServerGood
  <2>5. \A o \in Sessions :
          src'[o] # NoSource => /\ o <= page'.started
                                /\ Queued(o, "generate")' => src'[o].in /\ At(o, "generate")'
    BY <1>1, <1>7, <1>8, <1>12, <1>14 DEF ServerGood
  <2>6. \A i, j \in DOMAIN queue' :
          queue'[i] = queue'[j] /\ queue'[i].type = "generate" => i = j
    BY <1>1, <1>14 DEF ServerGood
  <2> QED BY <2>3, <2>4, <2>5, <2>6 DEF ServerGood
<1> QED BY <1>12, <1>13, <1>15, StepGood

LEMMA SelectStep == \A v \in 1..N : SessionGood /\ selectVariant(v) => SessionGood'
<1> SUFFICES ASSUME NEW v \in 1..N, SessionGood, selectVariant(v) PROVE SessionGood'
  OBVIOUS
<1> DEFINE past == Past(page)
           vised == [page EXCEPT !.vis = v]
           shown == IF page.cur # NoId /\ page.dom[page.cur].in
                      THEN showVariantInDOM(vised, page.cur, v) ELSE page
           r == [shown EXCEPT !.bar = "cycling"]
<1>1. /\ page \in Tabs /\ Good(page, past) /\ Fair(page, past) /\ Same /\ v \in 0..N /\ v # 0
      /\ page' = saveSession(r)
  BY GoodParts, GoodIsFair, Ids DEF selectVariant
<1> HIDE DEF past
<1>2. Fair(shown, past) /\ Held(page, shown)
  <2>1. CASE ~(page.cur # NoId /\ page.dom[page.cur].in)
    BY <1>1, <2>1 DEF Held
  <2>2. CASE page.cur # NoId /\ page.dom[page.cur].in
    <3>1. shown = showVariantInDOM(vised, page.cur, v) /\ page.cur \in Sessions
      BY <1>1, <2>2, TabFields, Ids
    <3>2. /\ vised \in Tabs /\ vised.vis = v /\ vised.cur = page.cur /\ vised.obs = page.obs
          /\ vised.saved = page.saved /\ vised.dom = page.dom /\ vised.handled = page.handled
          /\ vised.started = page.started /\ vised.capture = page.capture
      BY <1>1 DEF Tabs
    <3> HIDE DEF vised, shown
    <3>3. /\ shown \in Tabs
          /\ shown.cur = vised.cur /\ shown.vis = vised.vis /\ shown.obs = vised.obs
          /\ shown.saved = vised.saved /\ shown.handled = vised.handled
          /\ shown.started = vised.started /\ shown.capture = vised.capture
          /\ \A o \in Sessions : /\ shown.dom[o].in = vised.dom[o].in
                                 /\ shown.dom[o].n = vised.dom[o].n
          /\ vised.dom[page.cur].in /\ v \in 1..vised.dom[page.cur].n =>
               shown.dom[page.cur].shown = v
      <4>1. page.cur \in Sessions /\ v \in 0..N /\ vised \in Tabs
        BY <1>1, <3>1, <3>2
      <4> QED BY <3>1, <4>1, ShowFields
    <3>4. Knows(shown)
      BY <1>1, <3>2, <3>3 DEF Fair, Knows
    <3>5. Shows(shown)
      BY <1>1, <2>2, <3>1, <3>2, <3>3 DEF Shows
    <3> QED BY <1>1, <3>2, <3>3, <3>4, <3>5 DEF Fair, Held
  <2> QED BY <2>1, <2>2
<1> HIDE DEF shown
<1>3. r \in Tabs /\ Alike(shown, r)
  BY <1>2, Modes DEF Fair, Tabs, Alike
<1> HIDE DEF r
<1>4. Fair(r, past) /\ Held(shown, r)
  BY <1>2, <1>3, AlikeGood
<1>5. Good(page', past) /\ Held(r, page')
  BY <1>1, <1>4, SaveGood
<1> QED BY <1>1, <1>2, <1>4, <1>5, SameStep DEF Held, past

LEMMA AcceptStep == SessionGood /\ handleAccept => SessionGood'
<1> SUFFICES ASSUME SessionGood, handleAccept PROVE SessionGood'
  OBVIOUS
<1> DEFINE past == Past(page)
           seen == readVisibleVariantFromDOM(page, page.cur)
           vis == IF seen > 0 THEN seen ELSE page.vis
           saving == [page EXCEPT !.vis = vis, !.state = "SAVING", !.pend = page.cur, !.fin = FALSE]
           r == updateBarContent(saving, "saving")
           e == [type |-> "accept", id |-> page.cur, variant |-> vis, taken |-> FALSE]
<1>1. /\ page \in Tabs /\ Good(page, past) /\ Fair(page, past) /\ ServerGood /\ TypeOK
      /\ page.cur \in Sessions
      /\ page' = saveSession(r) /\ posts' = Append(posts, e)
      /\ UNCHANGED <<conn, src, stale, phase, queue, lost, missed, upsets>>
  BY GoodParts, GoodIsFair, TabFields, Ids DEF handleAccept
<1>2. /\ seen \in 0..N /\ vis \in 0..N
      /\ seen = IF page.dom[page.cur].in THEN page.dom[page.cur].shown ELSE 0
      /\ vis = page.vis \/ (vis = seen /\ seen # 0)
  <2>1. page.vis \in 0..N /\ page.dom[page.cur].shown \in 0..N /\ 0 \in 0..N
    BY <1>1, SavedFields, TabFields, Ids
  <2>2. seen = IF page.dom[page.cur].in THEN page.dom[page.cur].shown ELSE 0
    BY DEF readVisibleVariantFromDOM
  <2>3. seen \in 0..N
    BY <2>1, <2>2
  <2>4. vis = page.vis \/ (vis = seen /\ seen > 0)
    OBVIOUS
  <2>5. seen > 0 => seen # 0
    BY <2>3
  <2> HIDE DEF seen, vis
  <2> QED BY <2>1, <2>2, <2>3, <2>4, <2>5
<1> HIDE DEF past, seen, vis
<1>3. /\ saving \in Tabs /\ saving.vis = vis /\ saving.cur = page.cur /\ saving.obs = page.obs
      /\ saving.saved = page.saved /\ saving.dom = page.dom /\ saving.handled = page.handled
      /\ saving.started = page.started /\ saving.capture = page.capture
      /\ saving.astray = page.astray
  BY <1>1, <1>2, Modes, Ids DEF Tabs
<1> HIDE DEF saving
<1>4. Knows(saving)
  BY <1>1, <1>3 DEF Fair, Knows
<1>5. Shows(saving)
  <2>1. page.dom[page.cur].in /\ vis = seen /\ seen # 0 => page.dom[page.cur].shown # 0
    BY <1>2
  <2> QED BY <1>1, <1>2, <1>3, <2>1 DEF Fair, Shows
<1>6. Fair(saving, past) /\ Held(page, saving)
  BY <1>1, <1>3, <1>4, <1>5 DEF Fair, Held
<1>7. r \in Tabs /\ Alike(saving, r)
  BY <1>3, Modes DEF Tabs, Alike, updateBarContent
<1> HIDE DEF r
<1>8. Fair(r, past) /\ Held(saving, r)
  BY <1>6, <1>7, AlikeGood
<1>9. Good(page', past) /\ Held(page, page')
  BY <1>1, <1>6, <1>8, SaveGood DEF Held
<1>10. e \in Posts /\ e.id = page.cur
  BY <1>1, <1>2 DEF Posts
<1> HIDE DEF e
<1>11. /\ posts' \in Seq(Posts) /\ DOMAIN posts' = DOMAIN posts \cup {Len(posts) + 1}
       /\ posts'[Len(posts) + 1] = e /\ \A i \in DOMAIN posts : posts'[i] = posts[i]
  BY <1>1, <1>10, AppendFacts, Types1
<1>12. \A i \in DOMAIN posts' : posts'[i].id <= page.started
  BY <1>1, <1>10, <1>11 DEF ServerGood, Fair, Knows
<1>13. TypeOK'
  BY <1>1, <1>9, <1>11 DEF TypeOK, Good
<1> QED BY <1>1, <1>9, <1>12, <1>13, TabStep DEF past

LEMMA DiscardStep == SessionGood /\ handleDiscard => SessionGood'
<1> SUFFICES ASSUME SessionGood, handleDiscard PROVE SessionGood'
  OBVIOUS
<1> DEFINE e == [type |-> "discard", id |-> page.cur, variant |-> 0, taken |-> FALSE]
<1>1. /\ page \in Tabs /\ Good(page, Past(page)) /\ Knows(page) /\ ServerGood /\ TypeOK
      /\ page.cur \in Sessions /\ posts' = Append(posts, e)
      /\ UNCHANGED <<page, conn, src, stale, phase, queue, lost, missed, upsets>>
  BY GoodParts, TabFields, Ids DEF handleDiscard, Good, TabGood
<1>2. e \in Posts /\ e.id = page.cur
  BY <1>1, Ids DEF Posts
<1> HIDE DEF e
<1>3. /\ posts' \in Seq(Posts) /\ DOMAIN posts' = DOMAIN posts \cup {Len(posts) + 1}
      /\ posts'[Len(posts) + 1] = e /\ \A i \in DOMAIN posts : posts'[i] = posts[i]
  BY <1>1, <1>2, AppendFacts, Types1
<1>4. \A i \in DOMAIN posts' : posts'[i].id <= page.started
  BY <1>1, <1>2, <1>3 DEF ServerGood, Knows
<1>5. TypeOK'
  BY <1>1, <1>3 DEF TypeOK
<1> QED BY <1>1, <1>4, <1>5, TabStep DEF Held

--------------------------------------------------------------------------------
(* Requests: what is sent, what the server takes, what is answered. *)

LEMMA EmitStep ==
  \A s \in Sessions, sent \in BOOLEAN : SessionGood /\ captureAndEmit(s, sent) => SessionGood'
<1> SUFFICES ASSUME NEW s \in Sessions, NEW sent \in BOOLEAN, SessionGood, captureAndEmit(s, sent)
             PROVE  SessionGood'
  OBVIOUS
<1>1. /\ page \in Tabs /\ Good(page, Past(page)) /\ Fair(page, Past(page)) /\ Keeps(page)
      /\ TypeOK /\ ServerGood /\ s \in page.capture
      /\ page' = [page EXCEPT !.capture = page.capture \ {s}]
      /\ UNCHANGED <<posts, conn, src, stale, lost, missed>>
  BY GoodParts, GoodIsFair DEF captureAndEmit, Tabs
<1>2. page.capture \ {s} \in SUBSET Sessions
  BY <1>1, TabFields
<1>3. /\ page' \in Tabs /\ page'.cur = page.cur /\ page'.arr = page.arr /\ page'.vis = page.vis
      /\ page'.obs = page.obs /\ page'.saved = page.saved /\ page'.dom = page.dom
      /\ page'.handled = page.handled /\ page'.started = page.started
      /\ page'.astray = page.astray /\ page'.capture = page.capture \ {s}
  BY <1>1, <1>2 DEF Tabs
<1>4. Good(page', Past(page))
  <2>1. Knows(page') /\ Shows(page') /\ Keeps(page')
    BY <1>1, <1>3 DEF Fair, Knows, Shows, Keeps
  <2> QED BY <1>1, <1>3, <2>1 DEF Fair, Good, TabGood
<1>5. upsets' \in 0..MaxUpsets
  BY <1>1, BoundsAssumption DEF captureAndEmit, CanUpset, Upset, TypeOK
<1>6. \A i \in DOMAIN posts' : posts'[i].id <= page'.started
  BY <1>1, <1>3 DEF ServerGood
<1>7. /\ queue' \in Seq(Events) /\ phase' \in [Sessions -> Phases] /\ ServerGood'
      /\ Past(page) \subseteq Past(page)'
  <2>1. CASE sent
    <3>1. Take(s, "generate") /\ s <= page.started
      BY <1>1, <2>1 DEF captureAndEmit, ServerGood
    <3>2. "generate" \in Kinds
      BY DEF Kinds
    <3> QED BY <1>1, <1>3, <1>6, <3>1, <3>2, TakeServer
  <2>2. CASE ~sent
    <3>1. UNCHANGED <<queue, phase>>
      BY <2>2 DEF captureAndEmit
    <3>2. \A o, t : Queued(o, t)' = Queued(o, t) /\ At(o, t)' = At(o, t)
      BY <3>1 DEF Queued, At
    <3>3. Past(page) \subseteq Past(page)'
      BY <1>3, <3>1, <3>2 DEF Past
    <3>4. ServerGood'
      BY <1>1, <1>3, <1>6, <3>1, <3>2 DEF ServerGood
    <3> QED BY <1>1, <3>1, <3>3, <3>4, Types1
  <2> QED BY <2>1, <2>2
<1>8. TypeOK'
  BY <1>1, <1>3, <1>5, <1>7 DEF TypeOK, Events, Kinds, Phases
<1>9. Good(page', Past(page)')
  BY <1>4, <1>7, PastGrows
<1> QED BY <1>7, <1>8, <1>9, StepGood

LEMMA TakenStep == \A i \in DOMAIN posts : SessionGood /\ ServerTakes(i) => SessionGood'
<1> SUFFICES ASSUME NEW i \in DOMAIN posts, SessionGood, ServerTakes(i) PROVE SessionGood'
  OBVIOUS
<1> DEFINE e == [posts[i] EXCEPT !.taken = TRUE]
<1>1. /\ page \in Tabs /\ Good(page, Past(page)) /\ TypeOK /\ ServerGood
      /\ posts' = [posts EXCEPT ![i] = e] /\ Take(posts[i].id, posts[i].type)
      /\ UNCHANGED <<page, conn, src, stale, lost, missed, upsets>>
      /\ posts[i] \in Posts /\ posts \in Seq(Posts)
  BY GoodParts, Types1 DEF ServerTakes
<1>2. e \in Posts /\ e.id = posts[i].id
  BY <1>1 DEF Posts
<1> HIDE DEF e
<1>3. posts' \in Seq(Posts) /\ DOMAIN posts' = DOMAIN posts
      /\ \A k \in DOMAIN posts : posts'[k] = IF k = i THEN e ELSE posts[k]
  BY <1>1, <1>2
<1>4. \A k \in DOMAIN posts' : posts'[k].id <= page'.started
  BY <1>1, <1>2, <1>3 DEF ServerGood
<1>5. /\ posts[i].id \in Sessions /\ posts[i].type \in Kinds /\ posts[i].type # "generate"
      /\ posts[i].id <= page.started
  BY <1>1 DEF Posts, Kinds, ServerGood
<1>6. /\ queue' \in Seq(Events) /\ phase' \in [Sessions -> Phases] /\ ServerGood'
      /\ Past(page) \subseteq Past(page)'
  BY <1>1, <1>4, <1>5, TakeServer
<1>7. TypeOK'
  BY <1>1, <1>3, <1>6 DEF TypeOK, Events, Kinds, Phases
<1>8. Good(page', Past(page)')
  BY <1>1, <1>6, PastGrows
<1> QED BY <1>6, <1>7, <1>8, StepGood

LEMMA SendStep ==
  \A i \in DOMAIN posts, ok \in BOOLEAN : SessionGood /\ sendEvent(i, ok) => SessionGood'
<1> SUFFICES ASSUME NEW i \in DOMAIN posts, NEW ok \in BOOLEAN, SessionGood, sendEvent(i, ok)
             PROVE  SessionGood'
  OBVIOUS
<1>1. /\ page \in Tabs /\ Good(page, Past(page)) /\ TypeOK /\ ServerGood
      /\ posts' = RemoveAt(posts, i) /\ posts[i] \in Posts /\ posts \in Seq(Posts)
      /\ UNCHANGED <<conn, src, stale, phase, queue, lost, missed>>
  BY GoodParts, Types1 DEF sendEvent
<1>2. Good(page', Past(page)) /\ Held(page, page')
  <2>1. CASE posts[i].type = "accept"
    <3>1. page' = Accepted(page, posts[i].id, ok) /\ posts[i].id \in Sessions
      BY <1>1, <2>1 DEF sendEvent, Posts
    <3> QED BY <1>1, <3>1, AcceptedGood
  <2>2. CASE posts[i].type # "accept"
    <3>1. page' = IF ok THEN cleanup(markSessionHandled(page)) ELSE page
      BY <2>2 DEF sendEvent, Discarded
    <3>2. CASE ok
      BY <1>1, <3>1, <3>2, HandledGood
    <3>3. CASE ~ok
      BY <1>1, <3>1, <3>3 DEF Held
    <3> QED BY <3>2, <3>3
  <2> QED BY <2>1, <2>2
<1>3. posts' \in Seq(Posts) /\ \A k \in DOMAIN posts' : \E j \in DOMAIN posts : posts'[k] = posts[j]
  BY <1>1, RemoveFacts
<1>4. \A k \in DOMAIN posts' : posts'[k].id <= page.started
  BY <1>1, <1>3 DEF ServerGood
<1>5. upsets' \in 0..MaxUpsets
  BY <1>1, BoundsAssumption DEF sendEvent, CanUpset, Upset, TypeOK
<1>6. TypeOK'
  BY <1>1, <1>2, <1>3, <1>5 DEF TypeOK, Good
<1> QED BY <1>1, <1>2, <1>4, <1>6, TabStep

LEMMA SourceStep ==
  \A s \in Sessions, ok \in BOOLEAN :
    SessionGood /\ injectVariantsFromSource(s, ok) => SessionGood'
<1> SUFFICES ASSUME NEW s \in Sessions, NEW ok \in BOOLEAN, SessionGood,
                    injectVariantsFromSource(s, ok)
             PROVE  SessionGood'
  OBVIOUS
<1> DEFINE p == [page EXCEPT !.fetch = page.fetch \ {s}, !.file = TRUE]
<1>1. /\ page \in Tabs /\ Good(page, Past(page)) /\ TypeOK /\ ServerGood /\ SourceFair(page)
      /\ page' = IF ~ok \/ ~src[s].in THEN p
                   ELSE IF p.dom[s].in \/ p.here THEN Mutated(Inject(p, s))
                   ELSE AnchorMissing(p, s)
      /\ UNCHANGED <<posts, conn, src, stale, phase, queue, lost>>
  BY GoodParts DEF injectVariantsFromSource, Tabs
<1>2. page.fetch \ {s} \in SUBSET Sessions
  BY <1>1, TabFields
<1>3. p \in Tabs /\ Alike(page, p)
  BY <1>1, <1>2 DEF Tabs, Alike
<1> HIDE DEF p
<1>4. Good(p, Past(page)) /\ Held(page, p) /\ SourceFair(p)
  BY <1>1, <1>3, AlikeKept DEF Held, SourceFair
<1>5. Good(page', Past(page)) /\ Held(page, page')
  <2>1. CASE ~ok \/ ~src[s].in
    BY <1>1, <1>4, <2>1
  <2>2. CASE ~(~ok \/ ~src[s].in) /\ (p.dom[s].in \/ p.here)
    <3>1. Good(Inject(p, s), Past(page)) /\ Held(p, Inject(p, s))
      BY <1>4, <2>2, InjectGood
    <3>2. Good(Mutated(Inject(p, s)), Past(page)) /\ Held(Inject(p, s), Mutated(Inject(p, s)))
      BY <3>1, MutatedGood
    <3> QED BY <1>1, <1>4, <2>2, <3>1, <3>2 DEF Held
  <2>3. CASE ~(~ok \/ ~src[s].in) /\ ~(p.dom[s].in \/ p.here)
    <3>1. Good(AnchorMissing(p, s), Past(page)) /\ Held(p, AnchorMissing(p, s))
      BY <1>4, AnchorGood
    <3> QED BY <1>1, <1>4, <2>3, <3>1 DEF Held
  <2> QED BY <2>1, <2>2, <2>3
<1>6. upsets' \in 0..MaxUpsets /\ missed' \subseteq Sessions
  BY <1>1, BoundsAssumption DEF injectVariantsFromSource, CanUpset, Upset, TypeOK
<1>7. TypeOK'
  BY <1>1, <1>5, <1>6 DEF TypeOK, Good
<1>8. \A i \in DOMAIN posts' : posts'[i].id <= page.started
  BY <1>1 DEF ServerGood
<1> QED BY <1>1, <1>5, <1>7, <1>8, TabStep

--------------------------------------------------------------------------------
(* The agent. *)

LEMMA WritingStep ==
  ASSUME SessionGood, NEW s \in Sessions, NEW w \in SourceTypes,
         src' = [src EXCEPT ![s] = w], stale' \in BOOLEAN,
         UNCHANGED <<page, posts, conn, phase, queue, lost, missed, upsets>>,
         (At(s, "generate") /\ w.in) \/ (src[s].in /\ ~At(s, "generate"))
  PROVE  SessionGood'
<1>1. TypeOK /\ ServerGood /\ Good(page, Past(page))
  BY GoodParts
<1>2. /\ src' \in [Sessions -> SourceTypes] /\ src'[s] = w
      /\ \A o \in Sessions : o # s => src'[o] = src[o]
  BY <1>1, Types1
<1>3. \A o, t : Queued(o, t)' = Queued(o, t) /\ At(o, t)' = At(o, t)
  BY DEF Queued, At
<1>4. TypeOK'
  BY <1>1, <1>2 DEF TypeOK, SourceTypes
<1>5. At(s, "generate") => Queued(s, "generate") /\ s <= page.started
  <2> SUFFICES ASSUME At(s, "generate") PROVE Queued(s, "generate") /\ s <= page.started
    OBVIOUS
  <2>1. queue # <<>> /\ Head(queue) = [type |-> "generate", id |-> s]
    BY DEF At
  <2>2. 1 \in DOMAIN queue /\ queue[1] = [type |-> "generate", id |-> s]
    BY <1>1, <2>1, Types1, TailFacts
  <2>3. queue[1].id = s
    BY <2>2
  <2> QED BY <1>1, <2>2, <2>3 DEF Queued, ServerGood
<1>6. src[s].in => src[s] # NoSource
  BY DEF NoSource
<1>7. s <= page.started /\ s \notin page.capture
  BY <1>1, <1>5, <1>6 DEF ServerGood
<1>8. Queued(s, "generate") => w.in /\ At(s, "generate")
  BY <1>1, <1>6 DEF ServerGood
<1>9. ServerGood'
  <2>1. \A o \in Sessions :
          src'[o] # NoSource => /\ o <= page.started
                                /\ Queued(o, "generate") => src'[o].in /\ At(o, "generate")
    BY <1>1, <1>2, <1>7, <1>8 DEF ServerGood
  <2>2. \A o \in page.capture : o <= page.started /\ src'[o] = NoSource /\ ~Queued(o, "generate")
    <3>1. page.capture \subseteq Sessions
      BY <1>1, Types1, TabFields
    <3> QED BY <1>1, <1>2, <1>7, <3>1 DEF ServerGood
  <2> QED BY <1>1, <1>3, <2>1, <2>2 DEF ServerGood
<1>10. Past(page)' = Past(page)
  BY <1>3 DEF Past
<1> QED BY <1>1, <1>4, <1>9, <1>10, StepGood

LEMMA WriteStep ==
  \A s \in Sessions : SessionGood /\ (Unwrap(s) \/ \E n \in 0..N : Write(s, n)) => SessionGood'
<1> SUFFICES ASSUME NEW s \in Sessions, SessionGood, Unwrap(s) \/ \E n \in 0..N : Write(s, n)
             PROVE  SessionGood'
  OBVIOUS
<1>1. CASE Unwrap(s)
  <2> DEFINE w == [in |-> FALSE, n |-> 0, due |-> TRUE]
  <2>1. w \in SourceTypes
    BY Ids DEF SourceTypes
  <2>2. ~At(s, "generate") /\ src[s].in /\ src' = [src EXCEPT ![s] = w] /\ stale' = TRUE
        /\ UNCHANGED <<page, posts, conn, phase, queue, lost, missed, upsets>>
    BY <1>1 DEF Unwrap, At
  <2> HIDE DEF w
  <2> QED BY <2>1, <2>2, WritingStep
<1>2. ASSUME NEW n \in 0..N, Write(s, n) PROVE SessionGood'
  <2> DEFINE w == [in |-> TRUE, n |-> n, due |-> FALSE]
  <2>1. w \in SourceTypes /\ w.in
    BY DEF SourceTypes
  <2>2. At(s, "generate") /\ src' = [src EXCEPT ![s] = w] /\ stale' = TRUE
        /\ UNCHANGED <<page, posts, conn, phase, queue, lost, missed, upsets>>
    BY <1>2 DEF Write
  <2> HIDE DEF w
  <2> QED BY <2>1, <2>2, WritingStep
<1> QED BY <1>1, <1>2

(* The agent answers, and the page may hear of it.                              *)
LEMMA AnswerStep ==
  ASSUME SessionGood, NEW s \in Sessions, NEW kind, At(s, kind),
         NEW ph \in Phases \ {"asked"}, ph = "ready" => kind = "generate", Answered(s, ph),
         src' \in [Sessions -> SourceTypes], src'[s] \in {src[s], NoSource},
         \A o \in Sessions : o # s => src'[o] = src[o],
         posts' = posts, conn' = conn, stale' = stale, missed' = missed,
         upsets' \in 0..MaxUpsets,
         NEW type \in Types, Tell(type, s) \/ UNCHANGED <<page, lost>>,
         type = "complete" => src[s] # NoSource /\ kind # "generate" /\ ph # "ready"
  PROVE  SessionGood'
<1>1. TypeOK /\ ServerGood /\ Good(page, Past(page))
  BY GoodParts
<1>2. /\ queue' \in Seq(Events) /\ phase' \in [Sessions -> Phases]
      /\ Held(page, page') => ServerGood'
      /\ Past(page) \subseteq After
      /\ page'.capture = page.capture => Past(page)' = After
      /\ type = "complete" => s \in After
  BY <1>1, AnswerServer
<1>3. Good(page, After)
  BY <1>1, <1>2, PastGrows
<1>4. Good(page', After) /\ Held(page, page')
  <2>1. CASE UNCHANGED <<page, lost>>
    BY <1>3, <2>1 DEF Held
  <2>2. CASE Tell(type, s)
    BY <1>2, <1>3, <2>2, TellGood
  <2> QED BY <2>1, <2>2
<1>5. ServerGood' /\ Past(page)' = After
  BY <1>2, <1>4 DEF Held
<1>6. lost' \subseteq Sessions
  BY <1>1 DEF Tell, TypeOK
<1>7. TypeOK'
  BY <1>1, <1>2, <1>4, <1>6 DEF TypeOK, Events, Kinds, Phases, SourceTypes, Good
<1> QED BY <1>4, <1>5, <1>7, StepGood

LEMMA AgentLemma ==
  \A s \in Sessions : SessionGood /\ (AgentStep(s) \/ AgentFails(s)) => SessionGood'
<1> SUFFICES ASSUME NEW s \in Sessions, SessionGood, AgentStep(s) \/ AgentFails(s)
             PROVE  SessionGood'
  OBVIOUS
<1>1. CASE Unwrap(s) \/ \E n \in 0..N : Write(s, n)
  BY <1>1, WriteStep
<1> USE DEF Types, Phases
<1>2. /\ src \in [Sessions -> SourceTypes] /\ upsets \in 0..MaxUpsets
      /\ NoSource \in SourceTypes
  BY GoodParts, Types1, Ids DEF TypeOK, SourceTypes, NoSource
<1>3. \A o \in Sessions : src' = src => src'[o] = src[o]
  OBVIOUS
<1>4. CASE VariantsDone(s)
  BY <1>2, <1>4, AnswerStep DEF VariantsDone
<1>5. CASE Finish(s)
  <2>1. src[s] # NoSource
    BY <1>5 DEF Finish, NoSource
  <2>2. /\ src' \in [Sessions -> SourceTypes] /\ src'[s] = NoSource
        /\ \A o \in Sessions : o # s => src'[o] = src[o]
    BY <1>2, <1>5 DEF Finish
  <2>3. Answered(s, "over") /\ UNCHANGED <<posts, conn, stale, missed, upsets>>
    BY <1>5 DEF Finish
  <2>4. CASE At(s, "accept") /\ Tell("complete", s)
    BY <1>2, <2>1, <2>2, <2>3, <2>4, AnswerStep
  <2>5. CASE At(s, "discard") /\ Tell("discarded", s)
    BY <1>2, <2>1, <2>2, <2>3, <2>5, AnswerStep
  <2> QED BY <1>5, <2>4, <2>5 DEF Finish
<1>6. CASE NothingThere(s)
  <2>1. UNCHANGED <<posts, conn, src, stale, missed, upsets>>
    BY <1>6 DEF NothingThere
  <2>2. CASE At(s, "accept") /\ Answered(s, "reopened") /\ UNCHANGED <<page, lost>>
    <3>1. "error" \in Types
      OBVIOUS
    <3> QED BY <1>2, <2>1, <2>2, <3>1, AnswerStep
  <2>3. CASE At(s, "discard") /\ Answered(s, "failed") /\ Tell("error", s)
    BY <1>2, <2>1, <2>3, AnswerStep
  <2> QED BY <1>6, <2>2, <2>3 DEF NothingThere
<1>7. CASE AgentFails(s)
  <2>1. UNCHANGED <<posts, conn, src, stale, missed>> /\ Answered(s, "failed")
        /\ Tell("error", s) /\ (At(s, "generate") \/ At(s, "accept"))
    BY <1>7 DEF AgentFails
  <2>2. upsets' \in 0..MaxUpsets
    BY <1>2, <1>7, BoundsAssumption DEF AgentFails, CanUpset, Upset
  <2>3. CASE At(s, "generate")
    BY <1>2, <2>1, <2>2, <2>3, AnswerStep
  <2>4. CASE At(s, "accept")
    BY <1>2, <2>1, <2>2, <2>4, AnswerStep
  <2> QED BY <2>1, <2>3, <2>4
<1> QED BY <1>1, <1>4, <1>5, <1>6, <1>7 DEF AgentStep

--------------------------------------------------------------------------------
(* Timers, the document and the event stream. *)

LEMMA TimerStep ==
  \A s \in Sessions :
    SessionGood /\ (FallbackFires(s) \/ scheduleAcceptCleanup(s) \/ AcceptSettles(s)
                      \/ SwapFires(s)) => SessionGood'
<1> SUFFICES ASSUME NEW s \in Sessions, SessionGood,
                    FallbackFires(s) \/ scheduleAcceptCleanup(s) \/ AcceptSettles(s)
                      \/ SwapFires(s)
             PROVE  SessionGood'
  OBVIOUS
<1>1. page \in Tabs /\ Good(page, Past(page)) /\ Knows(page)
  BY GoodParts DEF Good, TabGood
<1>2. /\ page.fallback \ {s} \in SUBSET Sessions /\ page.fetch \cup {s} \in SUBSET Sessions
      /\ page.clean \ {s} \in SUBSET Sessions /\ page.settle \cup {s} \in SUBSET Sessions
      /\ page.settle \ {s} \in SUBSET Sessions /\ page.swap \ {s} \in SUBSET Sessions
  BY <1>1, TabFields
<1>3. CASE FallbackFires(s)
  <2> DEFINE p == [page EXCEPT !.fallback = page.fallback \ {s}]
             q == [p EXCEPT !.fetch = page.fetch \cup {s}]
  <2>1. page' \in {p, q} /\ Same
    BY <1>1, <1>3 DEF FallbackFires, Tabs
  <2>2. p \in Tabs /\ Alike(page, p)
    BY <1>1, <1>2, ZenonT(60) DEF Tabs, Alike
  <2>3. q \in Tabs /\ Alike(page, q)
    BY <1>1, <1>2, ZenonT(60) DEF Tabs, Alike
  <2> QED BY <1>1, <2>1, <2>2, <2>3, AlikeKept, SameStep
<1>4. CASE scheduleAcceptCleanup(s)
  <2> DEFINE p == [page EXCEPT !.clean = page.clean \ {s}]
             q == [p EXCEPT !.settle = page.settle \cup {s}]
  <2>1. page' \in {cleanupAcceptedSession(p), q} /\ Same
    BY <1>1, <1>4 DEF scheduleAcceptCleanup, Tabs
  <2>2. p \in Tabs /\ Alike(page, p)
    BY <1>1, <1>2, ZenonT(60) DEF Tabs, Alike
  <2>3. q \in Tabs /\ Alike(page, q)
    BY <1>1, <1>2, ZenonT(60) DEF Tabs, Alike
  <2> HIDE DEF p, q
  <2>4. CASE page' = q
    BY <1>1, <2>1, <2>3, <2>4, AlikeKept, SameStep
  <2>5. CASE page' = cleanupAcceptedSession(p)
    <3>1. Knows(p) /\ Held(page, p)
      BY <1>1, <2>2 DEF Alike, Knows, Held
    <3>2. Good(page', Past(page)) /\ Held(p, page')
      BY <2>2, <2>5, <3>1, CleanupGood
    <3> QED BY <2>1, <3>1, <3>2, SameStep DEF Held
  <2> QED BY <2>1, <2>4, <2>5
<1>5. CASE AcceptSettles(s)
  <2> DEFINE p == [page EXCEPT !.settle = page.settle \ {s}]
  <2>1. page' = Settled(p, s) /\ Same
    BY <1>1, <1>5 DEF AcceptSettles, Tabs
  <2>2. p \in Tabs /\ Alike(page, p)
    BY <1>1, <1>2, ZenonT(60) DEF Tabs, Alike
  <2> HIDE DEF p
  <2>3. Good(p, Past(page)) /\ Held(page, p)
    BY <1>1, <2>2, AlikeKept
  <2>4. Good(page', Past(page)) /\ Held(p, page')
    BY <2>1, <2>3, SettledGood
  <2> QED BY <2>1, <2>3, <2>4, SameStep DEF Held
<1>6. CASE SwapFires(s)
  <2> DEFINE p == [page EXCEPT !.swap = page.swap \ {s}]
             q == [p EXCEPT !.dom[s] = Absent]
  <2>1. page' = Mutated(q) /\ Same
    BY <1>1, <1>6 DEF SwapFires, Tabs
  <2>2. p \in Tabs /\ Alike(page, p)
    BY <1>1, <1>2, ZenonT(60) DEF Tabs, Alike
  <2> HIDE DEF p
  <2>3. Good(p, Past(page)) /\ Held(page, p)
    BY <1>1, <2>2, AlikeKept
  <2>4. Good(q, Past(page)) /\ Held(p, q)
    BY <2>3, AbsentGood
  <2> HIDE DEF q
  <2>5. Good(page', Past(page)) /\ Held(q, page')
    BY <2>1, <2>4, MutatedGood
  <2> QED BY <2>1, <2>3, <2>4, <2>5, SameStep DEF Held
<1> QED BY <1>3, <1>4, <1>5, <1>6

LEMMA DocumentStep == SessionGood /\ (HotReload \/ Hide \/ Reveal) => SessionGood'
<1> SUFFICES ASSUME SessionGood, HotReload \/ Hide \/ Reveal PROVE SessionGood'
  OBVIOUS
<1>1. /\ page \in Tabs /\ Good(page, Past(page)) /\ TypeOK /\ ServerGood /\ SourceFair(page)
  BY GoodParts
<1>2. /\ UNCHANGED <<posts, conn, src, phase, queue, lost, missed>> /\ stale' = FALSE
      /\ upsets' \in 0..MaxUpsets
  BY <1>1, BoundsAssumption DEF HotReload, Hide, Reveal, CanUpset, Upset, TypeOK
<1>3. PICK p \in Tabs : Alike(page, p) /\ page' = Mutated(Rendered(p))
  <2> DEFINE gone == [page EXCEPT !.here = FALSE]
             back == [page EXCEPT !.here = TRUE]
  <2>1. gone \in Tabs /\ Alike(page, gone) /\ back \in Tabs /\ Alike(page, back)
        /\ Alike(page, page)
    BY <1>1 DEF Tabs, Alike
  <2>2. CASE HotReload
    BY <1>1, <2>1, <2>2 DEF HotReload
  <2>3. CASE Hide
    BY <2>1, <2>3 DEF Hide
  <2>4. CASE Reveal
    BY <2>1, <2>4 DEF Reveal
  <2> QED BY <2>2, <2>3, <2>4
<1>4. Good(p, Past(page)) /\ Held(page, p) /\ SourceFair(p)
  BY <1>1, <1>3, AlikeKept DEF Held, SourceFair
<1>5. Good(Rendered(p), Past(page)) /\ Held(p, Rendered(p))
  BY <1>4, RenderedGood
<1>6. Good(page', Past(page)) /\ Held(Rendered(p), page')
  BY <1>3, <1>5, MutatedGood
<1>7. TypeOK'
  BY <1>1, <1>2, <1>6 DEF TypeOK, Good
<1>8. \A i \in DOMAIN posts' : posts'[i].id <= page.started
  BY <1>1, <1>2 DEF ServerGood
<1> QED BY <1>2, <1>4, <1>5, <1>6, <1>7, <1>8, TabStep DEF Held

LEMMA StreamStep == SessionGood /\ (Cut \/ Connect \/ handleServerLost) => SessionGood'
<1> SUFFICES ASSUME SessionGood, Cut \/ Connect \/ handleServerLost PROVE SessionGood'
  OBVIOUS
<1>1. /\ page \in Tabs /\ Good(page, Past(page)) /\ Fair(page, Past(page)) /\ Keeps(page)
      /\ TypeOK /\ ServerGood
  BY GoodParts, GoodIsFair
<1>2. /\ UNCHANGED <<posts, src, stale, phase, queue, lost>> /\ conn' \in {"on", "cut", "gone"}
      /\ missed' \subseteq Sessions /\ upsets' \in 0..MaxUpsets
  <2>1. CASE Cut
    BY <1>1, <2>1, BoundsAssumption DEF Cut, CanUpset, Upset, TypeOK
  <2>2. CASE Connect
    BY <1>1, <2>2 DEF Connect, TypeOK
  <2>3. CASE handleServerLost
    BY <1>1, <2>3 DEF handleServerLost, TypeOK
  <2> QED BY <2>1, <2>2, <2>3
<1>3. Good(page', Past(page)) /\ Held(page, page')
  <2>1. CASE Cut
    BY <1>1, <2>1 DEF Cut, Held
  <2>2. CASE Connect
    <3> DEFINE p == restoreFromActiveSessions(page)
               st == IF p.state = "IDLE" /\ p.pick THEN "PICKING" ELSE p.state
               q == [p EXCEPT !.state = st]
    <3>1. page' = q
      BY <2>2 DEF Connect
    <3>2. Good(p, Past(page)) /\ Held(page, p)
      <4>1. CASE Wrappers(page) = {} /\ CanRestore(page, Told)
        <5>1. p = restoreSessionWithoutWrapper(page, Told)
          BY <4>1 DEF restoreFromActiveSessions
        <5>2. page.saved.id \notin {NoId, page.handled} /\ Told.ready \in SUBSET Sessions
          BY <4>1 DEF CanRestore, Told
        <5> HIDE DEF p
        <5> QED BY <1>1, <4>1, <5>1, <5>2, RestoreGood
      <4>2. CASE ~(Wrappers(page) = {} /\ CanRestore(page, Told))
        BY <1>1, <4>2 DEF restoreFromActiveSessions, Held
      <4> QED BY <4>1, <4>2
    <3> HIDE DEF p
    <3>3. st \in States
      BY <3>2, TabFields, Modes DEF Good
    <3> HIDE DEF st
    <3>4. q \in Tabs /\ Alike(p, q)
      BY <3>2, <3>3 DEF Good, Tabs, Alike
    <3> HIDE DEF q
    <3> QED BY <3>1, <3>2, <3>4, AlikeKept DEF Held
  <2>3. CASE handleServerLost
    <3> DEFINE st == IF page.cur = NoId THEN "IDLE" ELSE page.state
               q == [page EXCEPT !.bar = "none", !.obs = NoId, !.state = st]
    <3>1. page' = saveSession(q)
      BY <1>1, <2>3 DEF handleServerLost, Tabs
    <3>2. st \in States
      BY <1>1, TabFields, Modes
    <3> HIDE DEF st
    <3>3. /\ q \in Tabs /\ q.cur = page.cur /\ q.arr = page.arr /\ q.vis = page.vis
          /\ q.obs = NoId /\ q.saved = page.saved /\ q.dom = page.dom
          /\ q.handled = page.handled /\ q.started = page.started
          /\ q.astray = page.astray /\ q.capture = page.capture
      BY <1>1, <3>2, Modes, Ids DEF Tabs
    <3> HIDE DEF q
    <3>4. Knows(q) /\ Shows(q)
      BY <1>1, <3>3 DEF Fair, Knows, Shows
    <3>5. Fair(q, Past(page)) /\ Held(page, q)
      BY <1>1, <3>3, <3>4 DEF Fair, Held
    <3> QED BY <3>1, <3>5, SaveGood DEF Held
  <2> QED BY <2>1, <2>2, <2>3
<1>4. TypeOK'
  BY <1>1, <1>2, <1>3 DEF TypeOK, Good
<1>5. \A i \in DOMAIN posts' : posts'[i].id <= page.started
  BY <1>1, <1>2 DEF ServerGood
<1> QED BY <1>2, <1>3, <1>4, <1>5, TabStep

LEMMA ReloadStep == \A late \in BOOLEAN : SessionGood /\ Reload(late) => SessionGood'
<1> SUFFICES ASSUME NEW late \in BOOLEAN, SessionGood, Reload(late) PROVE SessionGood'
  OBVIOUS
<1> DEFINE past == {s \in Sessions : phase[s] \notin {"asked", "ready"} /\ ~Queued(s, "generate")}
           clear == [s \in Sessions |-> Absent]
           fresh == [page EXCEPT !.state = "IDLE", !.bar = "none", !.cur = NoId, !.arr = 0,
                         !.vis = 0, !.file = FALSE, !.pend = NoId, !.fin = FALSE,
                         !.obs = NoId, !.retry = NoId, !.capture = {}, !.fallback = {},
                         !.fetch = {}, !.clean = {}, !.settle = {}, !.swap = {},
                         !.scout = FALSE, !.dom = clear]
           p == IF late THEN fresh ELSE Rendered(fresh)
           q == resumeSession(p)
           sc == ~Resumes(p)
           st == IF q.state = "IDLE" /\ q.pick THEN "PICKING" ELSE q.state
           r == [q EXCEPT !.scout = sc, !.state = st]
<1>1. /\ page \in Tabs /\ Knows(page) /\ TypeOK /\ ServerGood /\ SourceFair(page)
  BY GoodParts DEF Good, TabGood
<1>2. /\ page' = r /\ stale' = late /\ conn' = "cut" /\ posts' = <<>>
      /\ UNCHANGED <<src, phase, queue, lost, missed>>
  BY DEF Reload
<1>3. upsets' \in 0..MaxUpsets
  BY <1>1, BoundsAssumption DEF Reload, CanUpset, Upset, TypeOK
<1>4. clear \in [Sessions -> DomEntries] /\ \A s \in Sessions : clear[s].in = FALSE
  <2>1. Absent \in DomEntries /\ Absent.in = FALSE
    BY Ids DEF Absent, DomEntries
  <2> QED BY <2>1
<1> HIDE DEF clear
<1>5. /\ "IDLE" \in States /\ "none" \in Bars /\ NoId \in 0..MaxSessions /\ 0 \in 0..N
      /\ {} \in SUBSET Sessions
  BY Modes, Ids
<1>6. /\ fresh \in Tabs /\ fresh.cur = NoId /\ fresh.obs = NoId /\ fresh.dom = clear
      /\ fresh.saved = page.saved /\ fresh.handled = page.handled
      /\ fresh.started = page.started /\ fresh.capture = {}
  BY <1>1, <1>4, <1>5, ZenonT(60) DEF Tabs, DomEntries
<1> HIDE DEF fresh
<1>7. Good(fresh, past)
  <2>1. NoId <= page.started
    BY <1>1, TabFields, Ids DEF NoId
  <2>2. Knows(fresh) /\ Shows(fresh) /\ Keeps(fresh)
    BY <1>1, <1>4, <1>6, <2>1 DEF Knows, Shows, Keeps
  <2> QED BY <1>6, <2>2 DEF Good, TabGood
<1>8. SourceFair(fresh)
  BY <1>1, <1>6 DEF SourceFair
<1>9. Good(p, past) /\ Held(fresh, p) /\ p.cur = NoId
  <2>1. Rendered(fresh).cur = fresh.cur
    BY <1>6 DEF Rendered, Tabs
  <2>2. Good(Rendered(fresh), past) /\ Held(fresh, Rendered(fresh))
    BY <1>7, <1>8, RenderedGood
  <2> QED BY <1>6, <1>7, <2>1, <2>2 DEF Held
<1> HIDE DEF p
<1>10. Good(q, past) /\ Held(p, q)
  <2>1. CASE Wrappers(p) = {}
    BY <1>9, <2>1, ResumeStored
  <2>2. CASE Wrappers(p) # {}
    BY <1>9, <2>2, ResumeFirst
  <2> QED BY <2>1, <2>2
<1> HIDE DEF q
<1>11. sc \in BOOLEAN /\ st \in States
  <2>1. Resumes(p) \in BOOLEAN
    BY DEF Resumes, CanRestore
  <2> QED BY <1>10, <2>1, TabFields, Modes DEF Good
<1> HIDE DEF sc, st
<1>12. r \in Tabs /\ Alike(q, r)
  BY <1>10, <1>11 DEF Good, Tabs, Alike
<1> HIDE DEF r
<1>13. Good(page', past) /\ page'.capture = {} /\ page'.started = page.started
  <2>1. Good(r, past) /\ Held(q, r)
    BY <1>10, <1>12, AlikeKept
  <2> QED BY <1>2, <1>6, <1>9, <1>10, <2>1 DEF Held
<1>14. Past(page)' = past
  BY <1>2, <1>13 DEF Past, Queued
<1> HIDE DEF past
<1>15. posts' \in Seq(Posts) /\ DOMAIN posts' = {}
  BY <1>2
<1>16. TypeOK'
  BY <1>1, <1>2, <1>3, <1>13, <1>15 DEF TypeOK, Good
<1>17. ServerGood'
  <2>1. \A o, t : Queued(o, t)' = Queued(o, t) /\ At(o, t)' = At(o, t)
    BY <1>2 DEF Queued, At
  <2> QED BY <1>1, <1>2, <1>13, <1>15, <2>1 DEF ServerGood
<1> QED BY <1>13, <1>14, <1>16, <1>17, StepGood

--------------------------------------------------------------------------------
(* The theorems. *)

LEMMA InitGood == Init => SessionGood
<1> SUFFICES ASSUME Init PROVE SessionGood
  OBVIOUS
<1>1. /\ page \in Tabs /\ posts \in Seq(Posts) /\ queue \in Seq(Events)
      /\ src \in [Sessions -> SourceTypes] /\ phase \in [Sessions -> Phases]
  <2>1. NoSaved \in SavedTabs /\ NoSource \in SourceTypes /\ Absent \in DomEntries
    BY NoSavedType, Ids DEF NoSource, Absent, SourceTypes, DomEntries
  <2>2. [s \in Sessions |-> Absent] \in [Sessions -> DomEntries]
    BY <2>1
  <2>3. page \in Tabs
    BY <2>1, <2>2, Ids, Modes DEF Init, Tabs, SavedTabs, DomEntries
  <2>4. posts \in Seq(Posts) /\ queue \in Seq(Events)
    BY DEF Init
  <2> QED BY <2>1, <2>3, <2>4 DEF Init, Phases
<1>2. TypeOK
  <2>1. conn = "on" /\ stale = FALSE /\ lost = {} /\ missed = {} /\ upsets = 0
    BY DEF Init
  <2>2. upsets \in 0..MaxUpsets
    BY <2>1, BoundsAssumption
  <2> QED BY <1>1, <2>1, <2>2 DEF TypeOK, Events, Kinds, Phases, SourceTypes
<1>3. ServerGood
  BY DEF Init, ServerGood
<1>4. TabGood(page, Past(page))
  <2>1. page.dom = [s \in Sessions |-> Absent] /\ page.cur = NoId /\ page.saved.id = NoId
        /\ page.handled = NoId /\ page.started = 0 /\ page.obs = NoId
    BY DEF Init, NoSaved
  <2> QED BY <2>1 DEF TabGood, Keeps, Knows, Shows, NoId, Absent
<1> QED BY <1>2, <1>3, <1>4 DEF SessionGood

LEMMA SessionStep == SessionGood /\ [Next]_vars => SessionGood'
<1> SUFFICES ASSUME SessionGood, [Next]_vars PROVE SessionGood'
  OBVIOUS
<1>1. CASE handleClick \/ exitConfigureToPicking \/ togglePick \/ Escape
  BY <1>1, BarStep
<1>2. CASE handleGo
  BY <1>2, GoStep
<1>3. CASE \E v \in 1..N : selectVariant(v)
  BY <1>3, SelectStep
<1>4. CASE handleAccept \/ handleDiscard
  BY <1>4, AcceptStep, DiscardStep
<1>5. CASE \E s \in Sessions, sent \in BOOLEAN : captureAndEmit(s, sent)
  BY <1>5, EmitStep
<1>6. CASE TimersAndResponses
  BY <1>6, TimerStep, SourceStep, TakenStep, SendStep DEF TimersAndResponses
<1>7. CASE \E s \in Sessions : AgentStep(s) \/ AgentFails(s) \/ SwapFires(s)
  BY <1>7, AgentLemma, TimerStep
<1>8. CASE HotReload \/ Hide \/ Reveal
  BY <1>8, DocumentStep
<1>9. CASE \E late \in BOOLEAN : Reload(late)
  BY <1>9, ReloadStep
<1>10. CASE Cut \/ Connect \/ handleServerLost
  BY <1>10, StreamStep
<1>11. CASE UNCHANGED vars
  <2>1. Good(page', Past(page)) /\ Held(page, page')
    BY <1>11, GoodParts DEF vars, Held
  <2> QED BY <1>11, <2>1, SameStep DEF vars, Same
<1> QED BY <1>1, <1>2, <1>3, <1>4, <1>5, <1>6, <1>7, <1>8, <1>9, <1>10, <1>11 DEF Next

LEMMA GoodIsStored == SessionGood => SessionInv
<1> SUFFICES ASSUME SessionGood PROVE SessionStored
  BY DEF SessionGood, SessionInv
<1>1. Keeps(page) /\ (page.cur # NoId /\ page.handled = page.cur => page.cur \in Past(page))
  BY DEF SessionGood, TabGood
<1> QED BY <1>1 DEF SessionStored, Keeps, Past

(* The session on the page is the stored one, with what it has got to, and not  *)
(* one a reload passes over while it is asked for or ready: whatever accept,    *)
(* discard, screenshot or source file is under way meanwhile, answered late or  *)
(* never, and for whichever session.                                            *)
THEOREM SessionIsStored == Spec => []SessionInv
<1>1. Spec => []SessionGood
  BY InitGood, SessionStep, PTL DEF Spec
<1> QED BY <1>1, GoodIsStored, PTL

(* An accept is posted by handleAccept only.                                    *)
LEMMA PostedBy ==
  ASSUME SessionGood, [Next]_vars, Len(posts') > Len(posts)
  PROVE  handleAccept \/ handleDiscard
<1>1. posts \in Seq(Posts) /\ Len(posts) \in Nat
  BY GoodParts, Types1
<1>2. \A i \in DOMAIN posts : ~ServerTakes(i)
  <2> SUFFICES ASSUME NEW i \in DOMAIN posts, ServerTakes(i) PROVE FALSE
    OBVIOUS
  <2>1. posts' = [posts EXCEPT ![i].taken = TRUE]
    BY DEF ServerTakes
  <2>2. Len(posts') = Len(posts)
    BY <1>1, <2>1
  <2> QED BY <1>1, <2>2
<1>3. \A i \in DOMAIN posts, ok \in BOOLEAN : ~sendEvent(i, ok)
  <2> SUFFICES ASSUME NEW i \in DOMAIN posts, NEW ok \in BOOLEAN, sendEvent(i, ok) PROVE FALSE
    OBVIOUS
  <2>1. posts' = RemoveAt(posts, i)
    BY DEF sendEvent
  <2>2. Len(posts') < Len(posts) /\ posts' \in Seq(Posts)
    BY <1>1, <2>1, RemoveFacts
  <2>3. Len(posts') \in Nat
    BY <2>2
  <2> QED BY <1>1, <2>2, <2>3
<1>4. posts' # posts
  BY <1>1
<1>5. ~Same /\ ~UNCHANGED posts /\ ~UNCHANGED vars
  BY <1>4 DEF Same, vars
<1>6. \A late \in BOOLEAN : ~Reload(late)
  <2> SUFFICES ASSUME posts' = <<>> PROVE FALSE
    BY DEF Reload
  <2>1. Len(posts') = 0
    OBVIOUS
  <2> QED BY <1>1, <2>1
<1>7. \A s \in Sessions : ~AgentStep(s) /\ ~AgentFails(s) /\ ~SwapFires(s)
  BY <1>5 DEF AgentStep, Write, VariantsDone, Unwrap, Finish, NothingThere, AgentFails, SwapFires
<1>8. ~TimersAndResponses
  BY <1>2, <1>3, <1>5 DEF TimersAndResponses, FallbackFires, scheduleAcceptCleanup,
                          AcceptSettles, injectVariantsFromSource
<1> QED BY <1>5, <1>6, <1>7, <1>8
        DEF Next, handleClick, exitConfigureToPicking, handleGo, togglePick, Escape,
            selectVariant, captureAndEmit, HotReload, Hide, Reveal, Cut, Connect,
            handleServerLost

(* What the user accepts is the variant on the screen, if the bar is at one that *)
(* the wrapper holds, whatever was rendered under it.                            *)
THEOREM AcceptedIsSeen == Spec => AcceptsWhatIsSeen
<1> DEFINE new == posts'[Len(posts')]
           wrapper == page.dom[page.cur]
           Step == Len(posts') > Len(posts) /\ new.type = "accept" =>
                     (wrapper.in /\ page.vis \in 1..wrapper.n /\ ~page.astray =>
                        new.variant = wrapper.shown)
<1>1. ASSUME SessionGood, [Next]_vars PROVE Step
  <2> SUFFICES ASSUME Len(posts') > Len(posts), new.type = "accept",
                      wrapper.in, page.vis \in 1..wrapper.n, ~page.astray
               PROVE  new.variant = wrapper.shown
    OBVIOUS
  <2>1. posts \in Seq(Posts) /\ page \in Tabs /\ Shows(page)
    BY <1>1, GoodParts, Types1 DEF Good, TabGood
  <2>2. CASE handleAccept
    <3> DEFINE seen == readVisibleVariantFromDOM(page, page.cur)
               vis == IF seen > 0 THEN seen ELSE page.vis
    <3>1. page.cur # NoId /\ posts' = Append(posts, [type |-> "accept", id |-> page.cur,
                                                     variant |-> vis, taken |-> FALSE])
      BY <2>2 DEF handleAccept
    <3>2. new.variant = vis
      BY <2>1, <3>1
    <3>3. wrapper.shown # 0
      BY <2>1, <3>1 DEF Shows
    <3>4. seen = wrapper.shown
      BY DEF readVisibleVariantFromDOM
    <3>5. wrapper.shown \in Nat
      BY <2>1, <3>1, TabFields, SavedFields, Ids
    <3> QED BY <3>2, <3>3, <3>4, <3>5
  <2>3. CASE handleDiscard
    <3>1. posts' = Append(posts, [type |-> "discard", id |-> page.cur, variant |-> 0,
                                  taken |-> FALSE])
      BY <2>3 DEF handleDiscard
    <3>2. new.type = "discard"
      BY <2>1, <3>1
    <3> QED BY <3>2
  <2> QED BY <1>1, <2>2, <2>3, PostedBy
<1>2. Spec => []SessionGood
  BY InitGood, SessionStep, PTL DEF Spec
<1>3. SessionGood /\ [Next]_vars => [Step]_vars
  BY <1>1
<1> QED BY <1>2, <1>3, PTL DEF Spec, AcceptsWhatIsSeen
=============================================================================
