---------------------------- MODULE LiveBrowser ----------------------------
(***************************************************************************)
(* The page's side of live mode: the overlay of live-browser.js in one tab *)
(* with its stored session (live-browser-session.js), the page's document, *)
(* which hot reload may or may not bring up to date, and the stream of     *)
(* server events.  The helper server and the coding agent are modelled as  *)
(* far as the page sees them (LiveSession has them in full): events of the *)
(* page are taken in order, one at a time.                                 *)
(*                                                                         *)
(* An action is one event the tab handles: a key or click, a timer, a      *)
(* response, a server event, a change of the document.  A change of the    *)
(* document runs the mutation observers at once, in the order they were    *)
(* made.  Nothing waits for a request: the user goes on while an accept, a *)
(* discard, the fetch of a source file or the screenshot of a generate is  *)
(* under way, the agent may answer before the response is heard, and a     *)
(* response acts on the session the page is in by then.  Left out: inserts,*)
(* inline editing, component previews, the exit from live mode, and the    *)
(* page reload at the very end of an accept whose source shows nowhere.    *)
(* When two wrappers are on the page, that of the older session comes      *)
(* first.                                                                  *)
(***************************************************************************)
EXTENDS Naturals, FiniteSets, SequencesExt

CONSTANTS
  MaxSessions,  \* bound: sessions the user starts
  Overlap,      \* bound: may one be started while the agent has an earlier one to do?
  N,            \* variants of a session
  MaxPosts,     \* bound: accepts and discards that wait for their responses
  MaxUpsets     \* bound: reloads, re-renders, elements that come and go, breaks of
                \* the event stream, failed requests, errors of the agent, pick mode
                \* turned off

ASSUME BoundsAssumption == MaxSessions \in Nat /\ Overlap \in BOOLEAN
  /\ N \in Nat \ {0} /\ MaxPosts \in Nat /\ MaxUpsets \in Nat

Sessions == 1..MaxSessions
NoId == 0

VARIABLES
  page,    \* the tab: its variables, timers, requests, document and local storage;
           \* astray (history) says that another session's variants were taken for its own
  posts,   \* the accepts and discards that wait for their responses, and whether
           \* the server has taken them
  conn,    \* the event stream: on, cut while EventSource retries, gone for good
  src,     \* per session, the wrapper in the source file; or it was just taken
           \* out, and the agent's answer is due
  stale,   \* the source changed since hot reload last rendered it
  phase,   \* per session, what the server's journal says
  queue,   \* events the agent has still to take, the one it works on first
  lost,    \* server events that no page heard, of the sessions
  missed,  \* sessions of which the page did not ask again when it connected after
           \* such a loss, or whose source it could not fetch
  upsets

vars == <<page, posts, conn, src, stale, phase, queue, lost, missed, upsets>>

States == {"IDLE", "PICKING", "CONFIGURING", "GENERATING", "CYCLING", "SAVING", "CONFIRMED"}
Bars == {"none", "configure", "generating", "cycling", "saving", "confirmed"}
NoSaved == [id |-> NoId, state |-> "IDLE", arr |-> 0, vis |-> 0, file |-> FALSE]
Absent == [in |-> FALSE, n |-> 0, shown |-> 0]
NoSource == [in |-> FALSE, n |-> 0, due |-> FALSE]

Tabs ==
  [state : States, pick : BOOLEAN, bar : Bars, cur : 0..MaxSessions,
   arr : 0..N, vis : 0..N, file : BOOLEAN, pend : 0..MaxSessions, fin : BOOLEAN,
   obs : 0..MaxSessions, retry : 0..MaxSessions, scout : BOOLEAN,
   dom : [Sessions -> [in : BOOLEAN, n : 0..N, shown : 0..N]], here : BOOLEAN,
   saved : [id : 0..MaxSessions, state : States, arr : 0..N, vis : 0..N, file : BOOLEAN],
   handled : 0..MaxSessions, capture : SUBSET Sessions, fallback : SUBSET Sessions,
   fetch : SUBSET Sessions, clean : SUBSET Sessions, settle : SUBSET Sessions,
   swap : SUBSET Sessions, started : 0..MaxSessions, astray : BOOLEAN]

Posts == [type : {"accept", "discard"}, id : Sessions, variant : 0..N, taken : BOOLEAN]

TypeOK ==
  /\ page \in Tabs
  /\ posts \in Seq(Posts)
  /\ conn \in {"on", "cut", "gone"}
  /\ src \in [Sessions -> [in : BOOLEAN, n : 0..N, due : BOOLEAN]] /\ stale \in BOOLEAN
  /\ phase \in [Sessions -> {"new", "asked", "ready", "failed", "accepting", "discarding",
                             "over", "reopened"}]
  /\ queue \in Seq([type : {"generate", "accept", "discard"}, id : Sessions])
  /\ lost \subseteq Sessions /\ missed \subseteq Sessions /\ upsets \in 0..MaxUpsets

(* A fresh tab with a clean page, pick mode on.                            *)
Init ==
  /\ page = [state |-> "PICKING", pick |-> TRUE, bar |-> "none", cur |-> NoId,
             arr |-> 0, vis |-> 0, file |-> FALSE, pend |-> NoId, fin |-> FALSE,
             obs |-> NoId, retry |-> NoId, scout |-> TRUE,
             dom |-> [s \in Sessions |-> Absent], here |-> TRUE,
             saved |-> NoSaved, handled |-> NoId, capture |-> {}, fallback |-> {},
             fetch |-> {}, clean |-> {}, settle |-> {}, swap |-> {}, started |-> 0,
             astray |-> FALSE]
  /\ posts = <<>> /\ conn = "on"
  /\ src = [s \in Sessions |-> NoSource] /\ stale = FALSE
  /\ phase = [s \in Sessions |-> "new"] /\ queue = <<>>
  /\ lost = {} /\ missed = {} /\ upsets = 0

CanUpset == upsets < MaxUpsets
Upset == upsets' = upsets + 1

(***************************************************************************)
(* What the handlers do to the tab p.                                      *)
(***************************************************************************)
Wrappers(p) == {s \in Sessions : p.dom[s].in}
first(p) == CHOOSE s \in Wrappers(p) : \A o \in Wrappers(p) : s <= o

VariantsIn(wrapper) == wrapper.n

(* v if it is a variant of n, or else another.                             *)
Clamp(v, n, other) == IF v \in 1..n THEN v ELSE other

saveSession(p) ==
  IF p.cur = NoId THEN p
    ELSE [p EXCEPT !.saved = [id |-> p.cur, state |-> p.state, arr |-> p.arr, vis |-> p.vis,
                              file |-> p.file]]

(* A bar that is hidden is not updated.                                    *)
updateBarContent(p, mode) == [p EXCEPT !.bar = IF @ = "none" THEN @ ELSE mode]

(* A variant that the wrapper does not hold leaves all of them hidden.      *)
showVariantInDOM(p, s, v) ==
  [p EXCEPT !.dom[s].shown = IF p.dom[s].in THEN Clamp(v, p.dom[s].n, 0) ELSE @]

cleanup(p) ==
  [p EXCEPT !.swap = IF p.cur = NoId THEN @ ELSE @ \cup {p.cur},
            !.bar = "none", !.obs = NoId, !.retry = NoId, !.saved = NoSaved, !.file = FALSE,
            !.cur = NoId, !.state = "PICKING"]

markSessionHandled(p) == [p EXCEPT !.handled = IF p.cur = NoId THEN @ ELSE p.cur]

cleanupAcceptedSession(p) ==
  [p EXCEPT !.bar = "none", !.obs = NoId, !.saved = NoSaved, !.file = FALSE,
            !.cur = NoId, !.pend = NoId, !.state = "PICKING"]

(* What the server tells of its sessions: all that are not over, those     *)
(* that may go on, those whose variants it knows to be written.            *)
Told == [all |-> {s \in Sessions : phase[s] \notin {"new", "over"}},
         open |-> {s \in Sessions : phase[s] \in {"asked", "ready", "failed", "reopened"}},
         ready |-> {s \in Sessions : phase[s] \in {"ready", "reopened"}}]
NotTold == [all |-> {}, open |-> {}, ready |-> {}]

CanRestore(p, told) ==
  /\ p.saved.id \notin {NoId, p.handled} /\ p.saved.state \in {"GENERATING", "CYCLING"}
  /\ told.all = {} \/ p.saved.id \in told.open

restoreSessionWithoutWrapper(p, told) ==
  LET id == p.saved.id
      arr == IF p.saved.arr = 0 /\ id \in told.ready THEN N ELSE p.saved.arr
      file == p.file \/ p.saved.file \/ id \in told.ready
  IN saveSession([p EXCEPT !.cur = id, !.arr = arr, !.file = file,
                           !.vis = Clamp(p.saved.vis, arr, IF arr = 0 THEN 0 ELSE 1),
                           !.state = "GENERATING", !.bar = "generating", !.obs = id,
                           !.fetch = IF file THEN @ \cup {id} ELSE @])

ResumeWrapper(p, s) ==
  LET n == VariantsIn(p.dom[s])
      own == p.saved.id = s
      vis == Clamp(IF own THEN p.saved.vis ELSE 0, n, IF n = 0 THEN 0 ELSE 1)
      state == IF n >= N THEN "CYCLING" ELSE "GENERATING"
      resumed == [p EXCEPT !.cur = s, !.arr = n, !.vis = vis, !.state = state,
                           !.file = @ \/ (own /\ p.saved.file),
                           !.astray = FALSE,
                           !.bar = IF state = "CYCLING" THEN "cycling" ELSE "generating",
                           !.obs = s]
  IN saveSession(IF vis = 0 THEN resumed ELSE showVariantInDOM(resumed, s, vis))

(* Whether resumeSession returns true, and what it does.                   *)
Resumes(p) ==
  IF Wrappers(p) = {} THEN CanRestore(p, NotTold) ELSE first(p) # p.handled

resumeSession(p) ==
  IF Wrappers(p) = {}
    THEN IF CanRestore(p, NotTold) THEN restoreSessionWithoutWrapper(p, NotTold)
           ELSE [p EXCEPT !.saved = NoSaved, !.handled = NoId]
    ELSE IF first(p) = p.handled THEN p ELSE ResumeWrapper(p, first(p))

restoreFromActiveSessions(p) ==
  IF Wrappers(p) = {} /\ CanRestore(p, Told) THEN restoreSessionWithoutWrapper(p, Told) ELSE p

(***************************************************************************)
(* The observers: the scout that init leaves when there was nothing to     *)
(* resume, the one of the session's variants, and the one that waits for   *)
(* the element of a session to come back.                                  *)
(***************************************************************************)
Scouted(p) ==
  IF p.scout /\ Wrappers(p) # {} THEN resumeSession([p EXCEPT !.scout = FALSE]) ELSE p

Observed(p) ==
  IF p.obs = NoId THEN p
  ELSE IF ~p.dom[p.obs].in \/ VariantsIn(p.dom[p.obs]) <= p.arr THEN p
  ELSE LET n == VariantsIn(p.dom[p.obs])
           own == p.saved.id = p.obs
           more == IF p.vis > 0 THEN [p EXCEPT !.arr = n]
                   ELSE LET v == Clamp(IF own THEN p.saved.vis ELSE 0, n, 1)
                        IN showVariantInDOM([p EXCEPT !.arr = n, !.vis = v], p.obs, v)
       IN saveSession(IF n >= N THEN [more EXCEPT !.state = "CYCLING", !.bar = "cycling"]
                                ELSE more)

Retried(p) ==
  IF p.retry # NoId /\ (p.dom[p.retry].in \/ p.here)
    THEN [p EXCEPT !.retry = NoId, !.fetch = @ \cup {p.retry}] ELSE p

Mutated(p) == Retried(Observed(Scouted(p)))

(* The document as the source has it, when the element is rendered.        *)
Rendered(p) ==
  [p EXCEPT !.dom = [s \in Sessions |->
     IF p.here /\ src[s].in
       THEN [in |-> TRUE, n |-> src[s].n, shown |-> IF src[s].n = 0 THEN 0 ELSE 1]
       ELSE Absent]]

(***************************************************************************)
(* The user.                                                               *)
(***************************************************************************)
Same == UNCHANGED <<posts, conn, src, stale, phase, queue, lost, missed, upsets>>

handleClick ==
  /\ page.state = "PICKING" /\ page.pick /\ page.here
  /\ page' = [page EXCEPT !.state = "CONFIGURING", !.bar = "configure"]
  /\ Same

exitConfigureToPicking ==
  /\ page.state = "CONFIGURING"
  /\ page' = [page EXCEPT !.state = "PICKING", !.bar = "none"]
  /\ Same

(* Mutant: the session is first stored when its variants come.             *)
StoredMutant(p) == p

(* The session is stored before its screenshot is taken.                   *)
Stored(p) == saveSession(p)

handleGo ==
  /\ page.state = "CONFIGURING" /\ page.here /\ page.started < MaxSessions
  /\ Overlap \/ \A o \in 1..page.started : phase[o] \in {"over", "failed"}
  /\ LET s == page.started + 1
     IN page' = Stored([page EXCEPT !.started = s, !.astray = FALSE, !.pend = NoId, !.cur = s,
                                    !.arr = 0, !.vis = 0, !.file = FALSE, !.state = "GENERATING",
                                    !.bar = "generating", !.obs = s, !.capture = @ \cup {s}])
  /\ Same

(* The toolbar's toggle, and Escape while picking.                         *)
togglePick ==
  /\ page' = IF page.pick
               THEN [page EXCEPT !.pick = FALSE, !.bar = "none",
                                 !.state = IF @ \in {"PICKING", "CONFIGURING"} THEN "IDLE" ELSE @]
               ELSE [page EXCEPT !.pick = TRUE, !.state = IF @ = "IDLE" THEN "PICKING" ELSE @]
  /\ IF page.pick THEN CanUpset /\ Upset ELSE upsets' = upsets
  /\ UNCHANGED <<posts, conn, src, stale, phase, queue, lost, missed>>

(* Escape, with pick mode off.                                             *)
Escape ==
  /\ page.state = "PICKING" /\ ~page.pick
  /\ page' = [page EXCEPT !.state = "IDLE"]
  /\ Same

(* Keys work in the state CYCLING, buttons while their row is shown.       *)
Cycling == page.state = "CYCLING" \/ page.bar = "cycling"

selectVariant(v) ==
  /\ Cycling /\ v \in 1..page.arr /\ v # page.vis
  /\ page' = saveSession([IF page.cur # NoId /\ page.dom[page.cur].in
                            THEN showVariantInDOM([page EXCEPT !.vis = v], page.cur, v) ELSE page
                          EXCEPT !.bar = "cycling"])
  /\ Same

(* Mutant: the variant the bar names is accepted.                          *)
readVisibleVariantFromDOMMutant(p, s) == 0

readVisibleVariantFromDOM(p, s) == IF p.dom[s].in THEN p.dom[s].shown ELSE 0

handleAccept ==
  /\ Len(posts) < MaxPosts
  /\ Cycling /\ page.pend = NoId /\ page.state # "SAVING"
  /\ page.cur # NoId /\ page.arr # 0
  /\ LET seen == readVisibleVariantFromDOM(page, page.cur)
         vis == IF seen > 0 THEN seen ELSE page.vis
     IN /\ page' = saveSession(updateBarContent(
                     [page EXCEPT !.vis = vis, !.state = "SAVING", !.pend = page.cur,
                                  !.fin = FALSE], "saving"))
        /\ posts' = Append(posts, [type |-> "accept", id |-> page.cur, variant |-> vis,
                                   taken |-> FALSE])
  /\ UNCHANGED <<conn, src, stale, phase, queue, lost, missed, upsets>>

handleDiscard ==
  /\ Len(posts) < MaxPosts
  /\ Cycling /\ page.cur # NoId
  /\ posts' = Append(posts, [type |-> "discard", id |-> page.cur, variant |-> 0, taken |-> FALSE])
  /\ UNCHANGED <<page, conn, src, stale, phase, queue, lost, missed, upsets>>

(***************************************************************************)
(* Requests to the server.                                                 *)
(***************************************************************************)
Queued(s, type) == \E i \in DOMAIN queue : queue[i] = [type |-> type, id |-> s]

(* The server journals an event and queues it, once.                       *)
Take(s, type) ==
  /\ queue' = IF Queued(s, type) THEN queue ELSE Append(queue, [type |-> type, id |-> s])
  /\ phase' = [phase EXCEPT ![s] = CASE type = "generate" -> "asked"
                                     [] type = "accept" -> "accepting"
                                     [] type = "discard" -> "discarding"]

(* A generate that cannot be posted is dropped in silence.                 *)
captureAndEmit(s, sent) ==
  /\ s \in page.capture
  /\ page' = [page EXCEPT !.capture = @ \ {s}]
  /\ sent => conn # "gone"
  /\ IF sent THEN Take(s, "generate") ELSE UNCHANGED <<queue, phase>>
  /\ IF sent \/ conn = "gone" THEN upsets' = upsets ELSE CanUpset /\ Upset
  /\ UNCHANGED <<posts, conn, src, stale, lost, missed>>

Accepted(p, s, ok) ==
  IF ok THEN p ELSE [p EXCEPT !.pend = IF @ = s THEN NoId ELSE @,
                              !.state = "CYCLING", !.bar = "cycling"]

(* Mutant: the page is free, and the session stays current.                *)
DiscardedMutant(p, ok) ==
  IF ok THEN [cleanup(markSessionHandled(p)) EXCEPT !.cur = p.cur] ELSE p

(* Whatever session is the current one by now.                             *)
Discarded(p, ok) == IF ok THEN cleanup(markSessionHandled(p)) ELSE p

ServerTakes(i) ==
  /\ ~posts[i].taken /\ conn # "gone"
  /\ posts' = [posts EXCEPT ![i].taken = TRUE]
  /\ Take(posts[i].id, posts[i].type)
  /\ UNCHANGED <<page, conn, src, stale, lost, missed, upsets>>

(* The response: the server took the event, did not, or did and its        *)
(* response was lost.                                                      *)
sendEvent(i, ok) ==
  /\ ok => posts[i].taken
  /\ page' = IF posts[i].type = "accept" THEN Accepted(page, posts[i].id, ok)
                                         ELSE Discarded(page, ok)
  /\ posts' = RemoveAt(posts, i)
  /\ IF ok \/ conn = "gone" THEN upsets' = upsets ELSE CanUpset /\ Upset
  /\ UNCHANGED <<conn, src, stale, phase, queue, lost, missed>>

AnchorMissing(p, s) ==
  saveSession([p EXCEPT !.state = "GENERATING", !.bar = "generating", !.retry = s])

Inject(p, s) ==
  LET n == VariantsIn(src[s])
      own == IF p.saved.id = s THEN p.saved.vis ELSE 0
      vis == Clamp(IF p.cur = s THEN p.vis ELSE 0, n, Clamp(own, n, 1))
      placed == [p EXCEPT !.dom[s] = [in |-> TRUE, n |-> n, shown |-> 1], !.retry = NoId,
                          !.arr = n, !.astray = @ \/ s # p.cur]
  IN IF n = 0 THEN cleanup(placed)
       ELSE saveSession(showVariantInDOM([placed EXCEPT !.vis = vis, !.state = "CYCLING",
                                                        !.bar = "cycling"], s, vis))

(* The source file arrives, or cannot be had.                              *)
injectVariantsFromSource(s, ok) ==
  /\ s \in page.fetch
  /\ ok => conn # "gone"
  /\ LET p == [page EXCEPT !.fetch = @ \ {s}, !.file = TRUE]
     IN page' = IF ~ok \/ ~src[s].in THEN p
                ELSE IF p.dom[s].in \/ p.here THEN Mutated(Inject(p, s))
                ELSE AnchorMissing(p, s)
  /\ IF ok \/ conn = "gone" THEN upsets' = upsets ELSE CanUpset /\ Upset
  /\ missed' = IF ok THEN missed ELSE missed \cup {s}
  /\ UNCHANGED <<posts, conn, src, stale, phase, queue, lost>>

(***************************************************************************)
(* Server events, as the tab hears them.                                   *)
(***************************************************************************)

(* Mutant: variants that are not in the document are waited for.           *)
DoneMutant(p, s) == [p EXCEPT !.file = TRUE]

Done(p, s) ==
  LET q == [p EXCEPT !.file = TRUE]
  IN IF p.arr >= N
       THEN IF p.state = "GENERATING" THEN [q EXCEPT !.state = "CYCLING", !.bar = "cycling"]
                                      ELSE q
     ELSE IF p.state = "GENERATING" /\ s = p.cur THEN [q EXCEPT !.fallback = @ \cup {s}]
     ELSE q

maybeCompleteAcceptedSession(p, s) ==
  IF p.pend # s THEN p
  ELSE IF p.cur \notin {NoId, s} THEN [p EXCEPT !.pend = NoId]
  ELSE IF p.fin THEN p
  ELSE updateBarContent([markSessionHandled(p) EXCEPT !.fin = TRUE, !.state = "CONFIRMED",
                                                      !.clean = @ \cup {s}], "confirmed")

DiscardedEvent(p, s) == IF s = p.cur THEN cleanup(markSessionHandled(p)) ELSE p

Error(p, s) ==
  IF p.pend = s THEN updateBarContent([p EXCEPT !.pend = NoId, !.state = "CYCLING"], "cycling")
    ELSE [p EXCEPT !.bar = "none", !.state = "PICKING"]

Heard(type, s) == CASE type = "done" -> Done(page, s)
                    [] type = "complete" -> maybeCompleteAcceptedSession(page, s)
                    [] type = "discarded" -> DiscardedEvent(page, s)
                    [] type = "error" -> Error(page, s)

Tell(type, s) ==
  IF conn = "on" THEN page' = Heard(type, s) /\ lost' = lost
                 ELSE page' = page /\ lost' = lost \cup {s}

(***************************************************************************)
(* The agent, with the event it is at.                                     *)
(***************************************************************************)
At(s, type) == queue # <<>> /\ Head(queue) = [type |-> type, id |-> s]
Answered(s, ph) == queue' = Tail(queue) /\ phase' = [phase EXCEPT ![s] = ph]

(* The wrapper is written first, then the variants, a few or all at once.  *)
Write(s, n) ==
  /\ At(s, "generate")
  /\ IF src[s].in THEN src[s].n < n ELSE n = 0
  /\ src' = [src EXCEPT ![s] = [in |-> TRUE, n |-> n, due |-> FALSE]]
  /\ stale' = TRUE
  /\ UNCHANGED <<page, posts, conn, phase, queue, lost, missed, upsets>>

VariantsDone(s) ==
  /\ At(s, "generate") /\ src[s].n = N
  /\ Answered(s, "ready") /\ Tell("done", s)
  /\ UNCHANGED <<posts, conn, src, stale, missed, upsets>>

(* live-accept rewrites the source; the answer follows.                    *)
Unwrap(s) ==
  /\ At(s, "accept") \/ At(s, "discard")
  /\ src[s].in
  /\ src' = [src EXCEPT ![s] = [in |-> FALSE, n |-> 0, due |-> TRUE]]
  /\ stale' = TRUE
  /\ UNCHANGED <<page, posts, conn, phase, queue, lost, missed, upsets>>

Finish(s) ==
  /\ src[s].due
  /\ \/ At(s, "accept") /\ Tell("complete", s)
     \/ At(s, "discard") /\ Tell("discarded", s)
  /\ src' = [src EXCEPT ![s] = NoSource]
  /\ Answered(s, "over")
  /\ UNCHANGED <<posts, conn, stale, missed, upsets>>

(* An accept or discard that finds no variants in the source any more.     *)
NothingThere(s) ==
  /\ src[s] = NoSource
  /\ \/ At(s, "accept") /\ Answered(s, "reopened") /\ UNCHANGED <<page, lost>>
     \/ At(s, "discard") /\ Answered(s, "failed") /\ Tell("error", s)
  /\ UNCHANGED <<posts, conn, src, stale, missed, upsets>>

(* The agent reports an error; it left nothing of a generate behind.       *)
AgentFails(s) ==
  /\ CanUpset /\ Upset
  /\ \/ At(s, "generate") /\ ~src[s].in
     \/ At(s, "accept") /\ src[s].in
  /\ Answered(s, "failed") /\ Tell("error", s)
  /\ UNCHANGED <<posts, conn, src, stale, missed>>

(***************************************************************************)
(* Timers of the page.                                                     *)
(***************************************************************************)

(* 750 ms after the done event.                                            *)
FallbackFires(s) ==
  /\ s \in page.fallback
  /\ LET p == [page EXCEPT !.fallback = @ \ {s}]
     IN page' = IF p.arr < N /\ p.state = "GENERATING" /\ s = p.cur
                  THEN [p EXCEPT !.fetch = @ \cup {s}] ELSE p
  /\ Same

(* 1.2 s after the complete event, and 1.8 s later if hot reload has not   *)
(* brought the accepted source by then.                                    *)
scheduleAcceptCleanup(s) ==
  /\ s \in page.clean
  /\ LET p == [page EXCEPT !.clean = @ \ {s}]
     IN page' = IF p.here /\ ~p.dom[s].in THEN cleanupAcceptedSession(p)
                                          ELSE [p EXCEPT !.settle = @ \cup {s}]
  /\ Same

(* Mutant: the session is cleaned up if hot reload has done its part.      *)
SettledMutant(p, s) ==
  IF p.pend # s \/ p.dom[s].in THEN p ELSE cleanupAcceptedSession(p)

Settled(p, s) ==
  IF p.pend # s THEN p ELSE Mutated(cleanupAcceptedSession([p EXCEPT !.dom[s] = Absent]))

AcceptSettles(s) ==
  /\ s \in page.settle
  /\ page' = Settled([page EXCEPT !.settle = @ \ {s}], s)
  /\ Same

(* 2 s after a discard.                                                    *)
SwapFires(s) ==
  /\ s \in page.swap
  /\ page' = Mutated([page EXCEPT !.swap = @ \ {s}, !.dom[s] = Absent])
  /\ Same

(***************************************************************************)
(* The document and the event stream.                                      *)
(***************************************************************************)

(* Hot reload, which may lag, lack a change, or render again what has not  *)
(* changed.                                                                *)
HotReload ==
  /\ stale \/ (CanUpset /\ Rendered(page) # page)
  /\ page' = Mutated(Rendered(page))
  /\ stale' = FALSE
  /\ IF stale THEN upsets' = upsets ELSE Upset
  /\ UNCHANGED <<posts, conn, src, phase, queue, lost, missed>>

(* The element goes, with a dialog or a view, and comes back.              *)
Hide ==
  /\ page.here /\ CanUpset
  /\ page' = Mutated(Rendered([page EXCEPT !.here = FALSE]))
  /\ stale' = FALSE /\ Upset
  /\ UNCHANGED <<posts, conn, src, phase, queue, lost, missed>>

Reveal ==
  /\ ~page.here
  /\ page' = Mutated(Rendered([page EXCEPT !.here = TRUE]))
  /\ stale' = FALSE
  /\ UNCHANGED <<posts, conn, src, phase, queue, lost, missed, upsets>>

(* init, after a reload: of a document that holds what the source does, or *)
(* of one that is rendered later.  The event stream has yet to connect.    *)
Reload(late) ==
  /\ CanUpset
  /\ LET fresh == [page EXCEPT !.state = "IDLE", !.bar = "none", !.cur = NoId, !.arr = 0,
                               !.vis = 0, !.file = FALSE, !.pend = NoId, !.fin = FALSE,
                               !.obs = NoId, !.retry = NoId, !.capture = {}, !.fallback = {},
                               !.fetch = {}, !.clean = {}, !.settle = {}, !.swap = {},
                               !.scout = FALSE, !.dom = [s \in Sessions |-> Absent]]
         p == IF late THEN fresh ELSE Rendered(fresh)
         q == resumeSession(p)
     IN page' = [q EXCEPT !.scout = ~Resumes(p),
                          !.state = IF @ = "IDLE" /\ q.pick THEN "PICKING" ELSE @]
  /\ stale' = late
  /\ conn' = "cut" /\ Upset
  /\ posts' = <<>>
  /\ UNCHANGED <<src, phase, queue, lost, missed>>

Cut ==
  /\ conn = "on" /\ CanUpset
  /\ conn' = "cut" /\ Upset
  /\ UNCHANGED <<page, posts, src, stale, phase, queue, lost, missed>>

(* The connected event, with the server's sessions.                        *)
Connect ==
  /\ conn = "cut"
  /\ conn' = "on"
  /\ LET p == restoreFromActiveSessions(page)
     IN page' = [p EXCEPT !.state = IF @ = "IDLE" /\ p.pick THEN "PICKING" ELSE @]
  /\ missed' = IF Wrappers(page) = {} THEN missed ELSE missed \cup lost
  /\ UNCHANGED <<posts, src, stale, phase, queue, lost, upsets>>

(* After 20 retries the page gives up.                                     *)
handleServerLost ==
  /\ conn = "cut"
  /\ conn' = "gone"
  /\ page' = saveSession([page EXCEPT !.bar = "none", !.obs = NoId,
                                      !.state = IF page.cur = NoId THEN "IDLE" ELSE @])
  /\ UNCHANGED <<posts, src, stale, phase, queue, lost, missed, upsets>>

AgentStep(s) ==
  \/ \E n \in 0..N : Write(s, n)
  \/ VariantsDone(s) \/ Unwrap(s) \/ Finish(s) \/ NothingThere(s)

TimersAndResponses ==
  \/ \E s \in Sessions : FallbackFires(s) \/ scheduleAcceptCleanup(s) \/ AcceptSettles(s)
  \/ \E s \in Sessions, ok \in BOOLEAN : injectVariantsFromSource(s, ok)
  \/ \E i \in DOMAIN posts : ServerTakes(i) \/ \E ok \in BOOLEAN : sendEvent(i, ok)

Next ==
  \/ handleClick \/ exitConfigureToPicking \/ handleGo \/ togglePick \/ Escape
  \/ \E v \in 1..N : selectVariant(v)
  \/ handleAccept \/ handleDiscard
  \/ \E s \in Sessions, sent \in BOOLEAN : captureAndEmit(s, sent)
  \/ TimersAndResponses
  \/ \E s \in Sessions : AgentStep(s) \/ AgentFails(s) \/ SwapFires(s)
  \/ HotReload \/ Hide \/ Reveal
  \/ \E late \in BOOLEAN : Reload(late)
  \/ Cut \/ Connect \/ handleServerLost

(* The agent works on what it was given, timers fire and responses come.   *)
(* Nothing is assumed of the user, of hot reload or of the event stream.   *)
(* The two are weak fairness, with what enables the steps written out.     *)
Spec == Init /\ [][Next]_vars
AgentHasWork == queue # <<>>
SomethingDue == page.clean \cup page.settle \cup page.fallback \cup page.fetch # {}
                \/ posts # <<>>
LiveSpec ==
  /\ Spec
  /\ <>[]AgentHasWork => []<><<\E s \in Sessions : AgentStep(s)>>_vars
  /\ <>[]SomethingDue => []<><<TimersAndResponses>>_vars

(***************************************************************************)
(* Properties.                                                             *)
(***************************************************************************)

(* The session the page is in is the one it has stored, with the variants  *)
(* that have come and the one the user is at, whatever response, timer or  *)
(* event has come when and about which session; and it is not one of those *)
(* that a reload passes over, as long as the agent works on it or has done *)
(* so and nobody asked to end it.                                          *)
SessionStored ==
  page.cur # NoId =>
    /\ page.saved.id = page.cur /\ page.saved.arr = page.arr /\ page.saved.vis = page.vis
    /\ phase[page.cur] \in {"asked", "ready"} => page.handled # page.cur

(* And every variable, among them the whole tab, has its type.             *)
SessionInv == TypeOK /\ SessionStored

(* The variant that is accepted is the one on the screen, whatever hot     *)
(* reload rendered again under the bar, when the bar is at one that the    *)
(* wrapper holds; unless another session's were taken for the session's.   *)
AcceptsWhatIsSeen ==
  [][LET new == posts'[Len(posts')]
         wrapper == page.dom[page.cur]
     IN Len(posts') > Len(posts) /\ new.type = "accept" =>
          (wrapper.in /\ page.vis \in 1..wrapper.n /\ ~page.astray =>
             new.variant = wrapper.shown)]_vars

(* Variants that are written show up, though hot reload bring none or only *)
(* some, in a page that hears the server and shows the element, unless the *)
(* news of them was lost while part of them was there.                     *)
Waiting(s) == page.cur = s /\ page.state = "GENERATING"
VariantsArrive ==
  \A s \in Sessions :
    Waiting(s) /\ page.arr < N /\ phase[s] = "ready" ~>
      ~Waiting(s) \/ conn # "on" \/ ~page.here \/ s \in missed

(* An accept comes to its end: the page is free again, or offers the       *)
(* variants again, unless the news was lost.                               *)
AcceptEnds ==
  \A s \in Sessions :
    page.pend = s /\ page.state = "SAVING" /\ Queued(s, "accept") /\ src[s] # NoSource ~>
      page.cur # s \/ page.state = "CYCLING" \/ conn # "on" \/ s \in lost

(* A session gets on: its variants arrive, and its accept ends.            *)
SessionProgress == VariantsArrive /\ AcceptEnds

(***************************************************************************)
(* Why SessionStored and AcceptsWhatIsSeen hold: the inductive invariant.  *)
(***************************************************************************)

(* Sessions whose generate was answered, or will never be sent, and which  *)
(* are neither asked for nor ready any more.                               *)
Past(p) ==
  {s \in Sessions : /\ phase[s] \notin {"asked", "ready"}
                    /\ s \notin p.capture /\ ~Queued(s, "generate")}

Keeps(p) ==
  p.cur # NoId => p.saved.id = p.cur /\ p.saved.arr = p.arr /\ p.saved.vis = p.vis

(* Nothing is known of a session before it is started.                     *)
Knows(p) ==
  /\ p.cur <= p.started /\ p.saved.id <= p.started /\ p.handled <= p.started
  /\ \A s \in Sessions : p.dom[s].in => s <= p.started

(* A variant is on the screen if the bar's is there to be shown.           *)
Shows(p) ==
  p.cur # NoId /\ p.dom[p.cur].in /\ ~p.astray /\ p.vis \in 1..p.dom[p.cur].n =>
    p.dom[p.cur].shown # 0

TabGood(p, past) ==
  /\ Keeps(p) /\ Knows(p) /\ Shows(p)
  /\ p.obs \in {NoId, p.cur}
  /\ p.cur # NoId /\ p.handled = p.cur => p.cur \in past

(* A generate is queued once, and what is in the source is of the one the  *)
(* agent is at, or of one that was answered.                               *)
ServerGood ==
  /\ \A i \in DOMAIN queue : queue[i].id <= page.started
  /\ \A i \in DOMAIN posts : posts[i].id <= page.started
  /\ \A i, j \in DOMAIN queue : queue[i] = queue[j] /\ queue[i].type = "generate" => i = j
  /\ \A s \in page.capture : s <= page.started /\ src[s] = NoSource /\ ~Queued(s, "generate")
  /\ \A s \in Sessions :
       src[s] # NoSource =>
         /\ s <= page.started
         /\ Queued(s, "generate") => src[s].in /\ At(s, "generate")

SessionGood == TypeOK /\ ServerGood /\ TabGood(page, Past(page))
=============================================================================
