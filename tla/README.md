# A TLA+ verification of AgentFM

AgentFM is a peer-to-peer mesh for running containerised agents. A *boss* offers
an HTTP API and dispatches tasks over libp2p streams to *workers*; *relays* (and
*witnesses*) keep the mesh connected and replicate ledgers. Every peer authors a
signed, append-only ledger of ratings and comments, gossips it, and keeps an
inbox of the ledgers of others, from which it computes reputations. A *desktop
application* runs a boss for its user, one project at a time, with a chat. The
repository also carries the *live mode* of its design skill: an overlay in a web
page asks a coding agent for variants of an element or for edits of its text,
through a helper server that survives restarts.

This directory holds TLA+ modules translated from the Go code in
`src/agentfm-go`, from the TypeScript of `src/agentfm-desktop` and from the
scripts of live mode in `src/.agents/skills/impeccable/scripts`, TLC
configurations that check small instances of them, and proofs that TLAPS checks
for every value of the constants. Paths below are relative to
`src/agentfm-go/internal` for the Go parts (unless they start with `cmd/` or
`docs/`), to `src/agentfm-desktop` for the desktop, and to the `scripts`
directory for live mode. `PROJECT.json` maps every definition to the lines it
stands for, and names for every property mutants of the code that break it.

## Inventory

| Component | State it keeps | Operations | Meets | Hard behaviour | Correct when |
|---|---|---|---|---|---|
| Ledger inbox (`ledger/inbox`, `ledger/store/inbox.go`) | accepted rows, orphans, chain head per rater (SQLite) | `AcceptOrQueue`, promotion of orphans | gossip subscriber, catch-up, reputation engine | several goroutines, no lock across statements; out-of-order and repeated delivery; crash between statements; two caps | one chain per rater, no fork absorbed; every honest entry ends up accepted; orphans bounded and not left over |
| Own ledger (`ledger/impl.go`, `store/sqlite.go`) | entries and heads (SQLite), Merkle tree, cached head | `Append`, `Head`, `Prove`, start-up recovery, head and entry stream handlers | all peers that read it | crash and power loss between entry and head; concurrent appends; a failed write; reads without the lock | no honest peer holds two signed histories; acknowledged entries stay; proofs verify; heads grow |
| Completion ratings (`boss/completion_rating.go`) | outcomes per peer since the last rating | `RecordOutcome`, `Tick` | dispatch handlers, own ledger | lock released during `Append`; failed append; ticker jitter | each outcome rated once; cap per window; buckets drain |
| Ledger replication (`catchup.go`, `fetch.go`, `inbox_fetch.go`, `cmd/agentfm/bossbootstrap.go`) | none of its own | `CatchUp`, `CatchUpInbox`, gossip | own ledger, inbox | source grows while being read; restart; loss | inboxes are prefixes of the author's log and converge to it |
| Equivocation alerts (`impl.go` `acceptLocalAlert`, `store`) | permanent marks | accept an alert | reputation engine | two signed heads of one size; races with recomputation | honest peers never marked; marks never lost |
| Merkle proofs (`ledger/merkle`) | tree of leaves | inclusion and consistency proofs, verification | own ledger, alerts | sizes that are not powers of two | proofs of RFC 6962, sound and complete |
| Comment bodies (`ledger/bodyfetch.go`, `ledger/comments`) | files by content id, job queue | `enqueue`, backfill sweep, `Put`, `Has` | inbox | queue full, unreachable authors, torn file | every reachable body is fetched in the end |
| Reputation engine (`reputation/eigentrust.go`) | score table | `Recompute`, `Score` | inbox, own ledger, marks, dispatch | concurrent recomputations of different age | scores never go back to an older snapshot; the floor stays |
| Worker registry, event bus (`boss/boss.go`, `boss/api_events.go`) | known workers, last seen, subscriber channels | telemetry, prune, publish | dispatch, UI | event published after the unlock; slow subscribers | a subscriber's view agrees with the registry in the end |
| Task dispatch (`boss/api_*.go`, `openai*.go`, `execute.go`) | in-flight tasks, async slots, background group | sync, async and OpenAI handlers, webhook, shutdown | registry, worker, ratings, artifact gate | time-outs, lost streams, a client that leaves, drain at shutdown | one outcome per dispatch; slots released; acknowledged tasks run |
| Artifact gate and channel (`boss/artifact_gate.go`, `network/artifacts.go`) | expected artifacts | `expectArtifact`, `authorizeArtifact`, download | dispatch, worker | duplicate and late streams, failed transfer, reused ids | at most one artifact per dispatch, from the right worker |
| Worker tasks (`worker/handler.go`, `telemetry.go`) | running tasks, load | admission, run, artifact return | dispatch, registry | stale telemetry, streams that vanish | capacity never exceeded, count returns to zero |
| Authentication (`boss/auth.go`) | token buckets per address | `allow`, eviction, gc | HTTP API | map at its cap, time | bounded map and rate |
| Desktop backend (`electron/backend-manager.ts`, `main.ts`, `src/lib/store.ts`, `src/hooks/useBackend.ts`) | the gateway's process, its configuration, crash count; projects, overlays | `start`, `stop`, `restart`, `onExit`; switch, create, delete a project; quit | its child process, the window | every call spans an await; exit events, back-off timers and user clicks in any order | no process left behind; the gateway serves the active project; the window comes back |
| Desktop chat (`src/hooks/useChat.ts`, `src/lib/sessions.ts`) | sessions of the active project, streams, artifact polls; settings per project | create, select, delete, send, stop | store, gateway, artifacts directory | effects of one render see state of two projects; answers outlive what they were asked in | each project keeps its own history; an answer stays where it was asked |
| Live server and journal (`live-server.mjs`, `live/session-store.mjs`, `live-poll.mjs`, `live-accept.mjs`, `live-complete.mjs`) | event queue, leases, parked polls, timers; journal on disk | post, poll, reply, checkpoint, accept, complete, restart | page, coding agents | leases that run out, agents that die, lost answers, restart | no event lost or forgotten; what is finished stays finished |
| Copy edits (`live/manual-apply.mjs`, `live/manual-edit-routes.mjs`, `live-commit-manual-edits.mjs`, `live/manual-edits-buffer.mjs`) | staged edits and a transaction on disk, apply events | save, apply in chunks, verify, repair, keep fixing, roll back, discard | page, coding agents, source files | an agent that answers late, in part or wrongly; restart in the middle | no edit lost; all of an edit or nothing of it |
| Live overlay (`live-browser.js`, `live-browser-session.js`) | its state machine, timers, stored session | pick, go, choose, accept, discard, resume | live server, hot reload, the page's document | hot reload before, after or instead of the server's word; reload of the page; a broken event stream | the page shows what it can do and gets out of every wait |

Of the JavaScript, these parts are not planned: the design detector (heuristics
over HTML, CSS and pixels), the text transformations, DOM geometry and start-up
scripts of live mode, the editor hooks, the web site with its playground, and
the desktop's pages, which are views of the HTTP API. Of the rest: the libp2p
host and discovery (library set-up: it is the environment of every module),
generated protobuf code, hashing and signing (ideal here), the container sandbox
(builds a command line), metrics and logging, the terminal front end, the
Python client, and the example agents.

## Modules

| Module | Models | Extends or instantiates |
|---|---|---|
| `RaterChains` | the promise of an inbox: one chain per rater that grows a link at a time | |
| `LedgerInbox` | `Inbox.AcceptOrQueue` over the tables of `002_inbox.sql` | `RaterChains` by refinement, `chain <- inbox` |
| `OwnLedger` | `newImpl`, `Append`, the head and entry handlers over `001_init.sql` | |
| `CompletionRating` | `CompletionRatingWriter` | |
| `TaskDispatch` | the boss's dispatch handlers, its shutdown and the worker's `handleTaskStream`, joined by their stream | |
| `DesktopBackend` | `BackendManager`, the main process around it, and the window that watches it | |
| `DesktopChat` | `useChat` with the projects the user moves between | |
| `LiveSession` | the live server, its journal, one tab's requests and the agents' command line | |
| `ManualEdits` | copy edits from Save to Apply, with the page's dock | |
| `LiveBrowser` | the overlay in one tab, its document and stored session; server and agent as it sees them | |
| `*Proofs` | the theorems about nine of them; those about `CompletionRating`, the other module about what a boss writes to its log, are in `OwnLedgerProofs` | its component and TLAPS |
| `MC*` | values for the constants | its component |

### LedgerInbox

A caller is a goroutine that runs `AcceptOrQueue`: the gossip subscriber
(`impl.go` `runSubscriber`), and on a boss also the start-up catch-up
(`cmd/agentfm/bossbootstrap.go:121-190`). One action is one call up to and
including its single SQL statement or transaction, which SQLite makes atomic:
`Receive` (checks and `HasInboxEntry`), `DedupOrphan`, `ReadHead` (with the
decision), `Accept` (the compare-and-extend of `InsertInboxEntry`), `Find`,
`Promote`, `DeleteInboxOrphan` (the promotion walk), `CountPeer`, `CountAll`,
`QueueOrphan`. `StatementFails` is an error of whichever statement is next, with
the code's reaction to it (return, or log and go on inside the loop); `Crash`
keeps the tables only. `entry`, `queue` and `found` are the function's local
variables. A hash is the entry itself.

`inbox_sequential` shows that with one goroutine and no failure promotion does
what it promises; with two goroutines, or a failure, it does not (see below).

### OwnLedger

Entries are numbered by the `Append` that made them, so a log is a sequence of
distinct values and *a signature is the prefix of the log it commits to*
(`prev_hash` for an entry, the root for a head). Three sets say who has seen
what; they are history, as is `acked`, the prefixes whose author got a hash
back. `served` are the logs of which a row was sent to somebody who asked:
`HandleFetch` is `handleFetch`, which takes no lock and sends any rows there are,
those past the signed head with them, to anybody (`fetch.go:91-117`). `page` is
what a client was sent last, and may be old. `kept` are the prefixes that a peer
running this code takes in: from the topic, from a head fetch, and from
`CatchUp`, which drops the rows past the head it fetched first
(`catchup.go:234-236`). `NoEquivocation` is about both: what is kept is one
history, and of the rows anybody was served only the last can ever be replaced
by another.

`before` is the durable state before the last transaction, where a power loss
may fall back to: `store/sqlite.go:88-93` opens SQLite with `synchronous=NORMAL`
and says the very last committed transaction can be lost. (A file system that
loses more than that is outside the model, and `NoEquivocation` would not survive
it: an entry is only published after the *next* transaction, its head, is
committed, and that is all the slack there is.) `mu` is `ledgerImpl.mu` as seen
between the two steps of an `Append`; `Prove` takes it.

### CompletionRating

`RecordOutcome` and `Tick` with its lock released during the append:
`TickSnapshot` (under the lock), then for each due peer `AppendRating` or
`AppendFails` (no lock), then `Settle` (under the lock). A failed append may or
may not have persisted its entry. Scores are in tenths. Ages are counted up to
the window only: the code compares them with nothing else. A tick may come at
any time, more often than the ticker's: what holds for that holds whatever its
jitter. `recorded`, `settled`, `cleared`, `lost`, `unacked`, `since` and
`granted` are history. (What other modules call `Init`, `Next`, `Spec` and
`TypeOK` is `WriterInit` and so on here: one proof module extends this one and
`OwnLedger`.)

### TaskDispatch

A dispatch is one HTTP request with its stream and the worker's handler of it.
`boss` and `task` say where the two ends are, `stream` what became of what joins
them: closed in order by the worker, reset by either end, or lost with its
connection. `Executes` are dispatches whose handler streams to its client
(`/api/execute`, streamed completions), `Chats` those answered when the task is
over (`drainTaskStream`), `Asyncs` those of `/api/execute/async`.

Boss: `Dispatch` (admission up to the dial), `DialWorkerStream`, `SendPrompt`,
`ReadOutput`, `ReadEOF`, `CutAnswer` (the 16 MiB after which `drainTaskStream`
takes an answer to be over), `ReadFails` (a broken stream, a deadline, or a line
too long for the OpenAI handlers' scanner), then for an async task
`WaitForArtifact` and `PostWebhook`; `Fail` is what the deferred functions do on
every early return. The first frame of a streamed completion, written before
anything is read, counts as part of `SendPrompt`. Worker: `Accept`, `CheckLoad`,
`ReadPayload`, `Output`, `SandboxExits` or `Kill`, `Collect`, `SendArtifacts`,
`CloseStream`; `Leave` is its deferred functions. Environment: `HangUp`,
`ConnectionLost`, `WorkerDies`, `Shutdown`, `Time`.

Three deadlines of `TaskExecutionTimeout` run on clocks of their own: from the
dispatch (the context of an async task and of its webhook), from the last read
(the boss's idle deadline), from acceptance (the worker's context and stream
deadline). The shorter ones (dial 20 s, payload 30 s, artifact 10 s) may strike at
any moment. `Prompt` says whether goroutines are quick compared with a unit of
time: the runs take `FALSE`, where time may pass between any two steps; `TRUE`
is for counterexamples, so that none comes from a goroutine that nobody
scheduled for ten minutes.

A worker that rejects a task or whose sandbox failed closes its stream in order,
and its boss records a success: `CHANGELOG.md` and the roadmap know of this, and
`SuccessMeansClosed` says no more than that the end was orderly. Not modelled:
validation, trust gate and the choice of a worker, the feedback comment, the
flow of the terminal UI, a webhook whose delivery fails otherwise.

### DesktopBackend

An action is a callback of Electron's main process (or of the renderer) with the
continuations it wakes. `proc`, `stopping`, `cfg` and `crashCount` are the
fields of `BackendManager`; `waiting` are the calls of `stop()` that wait for the
exit of each process, in order, `polling` its calls of `start()` that poll `/health`, `pending` its
back-off timers. `child` are the spawned processes: booting, serving, told to
end (`ending`), or dead with their exit event to come. `ExitEvent` is the
listener of `start` (`onExit` with the crash count) and all waiting `stop()`s
together, whose continuations (`Continue`) each set `proc` and go on to
`start()`. The window has a probe of `/health` that counts failures
(`useBackend`), an overlay that covers it once there were `DownAfter` (3 in the
code, 2 here), and a store that awaits its settings between the click on a
project and the restart (`switchProject`, then `SwitchBackend`).

`odd` is history: the four ways in which the code leaves its own path, see
below. `NoStray` and `ServesActive` say what holds without them; the second is
about every process that lives, booting ones included, whenever no restart waits
for an exit. The order of the time-outs of two processes is left open. Assumed: the
port's sweep works (it does nothing on Windows), the wizard stays open while it
saves, an overlay keeps clicks off, the gateway's binary is there. Not modelled:
on macOS the window may be closed and opened again while the application runs
on (`main.ts:126-135`), also between the settings of a switch and its restart.

### DesktopChat

An action is a callback with the render and the effects it causes, in the order
React runs them. `stored` are the settings `chat:sessions:<project>`; `sessions`,
`activeId`, `streaming` and `loaded` the state of `useChat`; `stream` the sends,
each closed over its session; `poll` the looks for an artifact each has left.
`Activate` is what a change of project does: the save effect still sees the old
sessions with `loaded` set, after the load effect has asked for the new ones.
`LoadLands` is that answer. A message is its length in chunks.

`kept` is history: what was last shown of each project. `hasty` are the projects
left between a switch and the landing of their sessions, for which `HistoryKept`
does not hold: the finding.

### LiveSession

`hub` is the volatile state of the helper server: the event `queue` with its
leases, the parked `polls`, the lease `timer`, what was last broadcast (`last`),
and with it the tab and the agents. Its operators take and return a hub, so that
an action composes the calls its handler makes (`enqueueEvent` flushes, which
leases, which broadcasts). `journal` is per session what `applyEvent` folds the
journal to; every request is journalled before it is queued, and `Start` queues
again what the journal says is pending. An agent is at a poll, at work, replying
or cleaning up; `RunAccept` is `live-accept` run by its poll command,
`PostCompletion` its reply, `completeCli` `live-complete`. `wire` holds
checkpoints under way, that may be overtaken by anything.

`Without` is what the server's `splice` and `filter` do to its lists; `serve` is the
loop of `flushPendingPolls` in one step: the first polls get the first available
entries, in order.

`muddled` is history: sessions that had two events pending at a time, or a post
whose answer was lost. `raced` is history too: something came in the 2 ms
between the end of a lease and its timer.

### ManualEdits

`disk` is what survives: the buffer of staged edits, the text of each edit's
place in the source (the number of its version), files that do not build, and
the transaction with its snapshot. A commit is a job that waits for an agent;
its continuation takes the disk and the agent's results (`Answered`) or a
time-out (`Thrown`) through chunks (`pushBatchInChunksAndWait`), verification and
checks (`commitManualEdits`), repair (`repairPostApplyValidation`) and rollback,
up to the next wait, the end, or the user's decision. An agent may write any part of
what it was given, break files, and report anything that passes
`validateManualApplyResultMessage`. `tombs` are events that timed out while an
agent had them, whose late reply restores a snapshot (`LateReply`). `tab` is the
page's dock: shown, locked during an apply (also after a reload, by what is
stored), deciding.

The end of a commit is two writes to disk: applied edits leave the buffer
(`live-commit-manual-edits.mjs:568`), then the transaction is cleared
(`manual-edit-routes.mjs:210`). An outcome says which page's transaction is still
to be cleared (`clears`), `GoesOn` does both, and `CrashAtEnd` dies in between,
whatever ended the commit. The other writes need no such step: an undoing that a
crash cuts short is done again at the next start, from the same transaction.

`kept` is history: of each text, the version that was last applied and told so,
or that was dropped by an apply that dropped all its edits, whether or not the
server lived to tell. `late` marks the work of an agent whose event has timed
out: what it writes, or what the undoing of its answer takes back, sets `kept`
back (`SetBack`), since the code does lose edits that way.

Assumed: one tab per page, an entry of one op per Save, the chat provider, one
polling agent (`reference/live.md:530`), a broadcast heard at once or not at all,
a commit that is over before what the page stored of it expires
(`StoredExpires`: 15 minutes after the last step the page heard,
`live-browser.js:3735-3741`; six events would have to take their 150 seconds each
with the page's stream cut).

### LiveBrowser

`page` is the tab: `state` and `bar`, the session (`cur`, `arr` variants, `vis`
the visible one), its observers (`obs`, `retry`, `scout`), its timers and
requests under way (`fallback`, `fetch`, `clean`, `settle`, `swap`, `capture`),
the wrappers in its document (`dom`) and what local storage holds (`saved`,
`handled`). Every change of the document goes through `Mutated`, the mutation
observers in the order they were made. `src` is the source, `stale` whether hot
reload lags it, `phase` the journal's view and `queue` the agent's work.
`HotReload` may bring all, part or nothing, at any time. `lost` and `missed` are
history: sessions with news no page heard, and those the page did not ask about
again. `Overlap` says whether a second session may start while the agent still
has the first one to do.

Nothing waits for a request. `posts` are the accepts and discards whose response
has not come; the server takes each at some moment (`ServerTakes`), the response
comes later or is lost (`sendEvent`), and the user goes on meanwhile: a discard
leaves the page cycling (`live-browser.js:7672-7681`), so an accept may follow it.
Several handlers act on what reaches them without a look at which session the
page is in by then, and the model has them so: the response to a discard cleans
up whatever session is current (`:7676-7679`), a refused accept (`:7502-7505`) and
an error (`:6170-6183`) set state and bar, a fetched source brings the variants of
the session it was fetched for (`:5571, 5585`), and the accept's first timer cleans
up the next session (`:7539`). `astray` is history: the page showed the variants
of one session as another's. What the properties say holds through all of this.

## Runs

| Run | Bounds | States | Shows |
|---|---|---|---|
| `inbox` | 2 callers, a chain of 2, a fork, an own and a malformed entry, caps 2, 1 failure or crash | 165 303 | `TypeOK`, `ChainInv`, `OrphansBounded`, `ImplementsChains` |
| `inbox_sequential` | 1 caller, a chain of 3, a fork, no failure | 1 232 | `OrphansPromoted`, `NoLeftover`, `HonestEntriesAccepted` |
| `own_ledger` | 2 appenders, 1 client, 3 entries, 2 crashes, 1 failed write | 342 904 | `NoEquivocation`, `AckedKept`, `HeadsGrow`, `CleanProofsVerify`, `LogInv` |
| `completion_rating` | 2 peers, 2 outcomes each, cap 1, window 2, 1 failure | 94 983 | `OutcomesConserved`, `TrustRateCapped`, `RatingInv`, `BucketsDrain` |
| `task_dispatch` | a streamed and an unstreamed dispatch, capacity 1, 1 fault | 752 734 | `OneOutcome`, `SuccessMeansClosed`, `CapacityKept` |
| `task_dispatch_async` | 2 async tasks, 1 slot, capacity 1, 1 fault | 63 793 | `SlotsAccounted`, `DispatchEnds`, `CapacityReturns` |
| `desktop_backend` | 2 projects, 3 processes, 1 crash, 2 user actions, the crash window over once, slow stops | 331 878 | `BackendInv`, `ServesActive`, `ComesBack` |
| `desktop_chat` | 2 projects, 1 session kept of 2, 2 messages of 1 chunk, 2 polls, 3 other user actions | 745 398 | `ChatInv`, `HistoryKept`, `ArtifactFound` |
| `live_session` | 1 session, 1 steer request, 2 agents, 1 checkpoint, 1 accept or discard, 1 upset | 936 529 | `HubInv`, `JournalInv`, `FinalStays`, `Delivered` |
| `manual_edits` | 1 page, 2 edits in 1 file, chunks of 1, 1 repair, 1 agent | 236 152 | `EditsKept`, `AllOrNothing`, `ApplyEnds` |
| `live_browser` | 2 sessions of 2 variants, one after the other, 1 accept or discard under way, 1 upset | 514 334 | `SessionInv`, `AcceptsWhatIsSeen`, `SessionProgress` |
| `desktop_chat_untouched` | as `desktop_chat` | | `HistoryUntouched` violated |

Some properties are conjunctions of named parts that belong together, each part
with its own comment in the module and its own mutant:

* `BackendInv`: types; no process is left behind (`NoStray`); at most three
  restarts in the crash window (`RestartsBounded`).
* `ComesBack`: the switching overlay ends (`SwitchEnds`), the backend-down overlay
  tells the truth in the end (`OverlayTracks`), a crashed gateway serves again
  (`Recovers`).
* `ChatInv`: types; a whole answer stays whole where its session is kept
  (`AnswerKept`); the composer waits for exactly one stream (`OneStream`).
* `HubInv`: types; no agent waits beside an event (`NoIdlePoll`); the tab knows
  whether an agent polls (`ToldTruth`); the exit that ends the agents waits only
  while no tab is there (`ExitOnlyAlone`).
* `JournalInv`: what the journal says is pending is queued (`NoLostWork`); what is
  queued would survive a crash (`Durable`); a finished session has left no
  variants and no markers in the source (`FinalIsClean`).
* `EditsKept`: types; the source does not go back behind an edit that was told to
  be applied, but by a late agent (`NoEditLost`); one commit per page, with the page
  locked (`OneApply`); a transaction on disk for every commit under way (`CrashSafe`).
* `SessionInv`: types; the session the page is in is the stored one, with its
  variants, and is not one that a reload passes over while the agent works on it
  or has done so (`SessionStored`).
* `SessionProgress`: variants that are written show up (`VariantsArrive`), an
  accept ends (`AcceptEnds`).

Why these bounds are enough. *Inbox*: two callers are what a boss runs, and any
race of the code is between two; a chain of three reaches a grandchild in the
promotion walk, two siblings of one parent reach the fork, and two orphans a cap
of two. *Own ledger*: three entries and two crashes reach a crash at every step
of an append, a recovery that signs a new head, and an append after it. The two
appenders are what the lock is about. *Ratings*: two peers reach the early
return of `Tick` with a rating left to write, two outcomes of both kinds reach a
cap of one and a balanced bucket. *Dispatch*: two dispatches with one place and
one slot are enough to be refused, at the boss and at the worker; with
`ExecTimeout` 1 each deadline may be over before, between or after the others.
One fault meets every pair of places the two ends can be in. The proofs remove
the bounds for the safety properties of these and of the two desktop modules.
*Desktop backend*: two user actions and a crash put three calls of `stop()` and
`start()` on one process in every order, with a new one, a dying one and one that
cannot bind the port at a time; processes that cannot bind exit and count, so the
back-off reaches its limit. *Desktop chat*: with one session kept, the second is
over the limit; two messages are needed for an answer that outlives the next
question; three actions are enough to leave a project and come back. *Live
session*: two agents are what a lease that runs out needs, one session with an
accept or discard beside a steer request fills the queue with three events.
*Manual edits*: two edits in chunks of one are two chunks with a time-out or a
crash between them, in one file, so that undoing the one could take the other
with it. The proofs remove these
bounds, but for the one page and the one agent. *Live browser*: two variants
arrive in none, some or all; the second session meets what the first has left:
its timers, its fetches, its discard whose response is still to come. One upset
falls into every state, and one request under way into every state of the next
session. What the bounds cut off was run apart, with no violation: two requests
under way, and three variants, each in one session; and random behaviours of
three overlapping sessions with two requests and three upsets. The proofs remove
all of them for the safety properties.

`CHECK_DEADLOCK FALSE` is set for the desktop and the live runs: the user, the
agents and the server may all stop, and do when the bounds are used up.

Mutants kept in the modules (`...Mutant`) are plausible bugs, each of which
breaks the property `PROJECT.json` pairs it with.

## Fairness

`LedgerInbox.FairSpec`: a caller that has started goes on (weak fairness; Go
schedules runnable goroutines and SQLite's busy timeout is an error, not a
wait), and each entry is offered again and again (strong fairness of `Receive`):
this is an assumption on the mesh, not on the inbox. Gossip repeats messages and
every catch-up re-reads the whole of the source's inbox from its first row
(`LastInboxIdx` returns 0). `CompletionRating.FairSpec`: the
goroutine of `RunTicker` runs as long as the boss, and time passes. The failures
are bounded, so "in the end" is after the last of them. `TaskDispatch.FairSpec`:
the boss's goroutines of a dispatch run until the gateway is offline, the
worker's handler runs, and time passes. Nothing is assumed of the sandbox (it
may run or be silent for ever), of clients or of the operator. `OwnLedger` states no
liveness.

`DesktopBackend`: timers fire, events are delivered, a process that boots comes
to listen or to its end; nothing obliges one to obey SIGTERM when `Slow`, nothing
is assumed of the user. `DesktopChat`: the settings answer and poll timers
fire; a stream may last for ever. `LiveSession`: agents poll and finish or are noticed when they die, leases
of the dead run out, timers fire: while one of these is due, `hub` changes in the
end. That single condition is weaker than weak fairness of each and is enough,
since the bounds let `hub` change only finitely often otherwise. `ManualEdits`:
every apply event has a timer (`manual-apply.mjs:61`), so a commit that waits
goes on; agents owe nothing. `LiveBrowser`: the agent works on what it was given,
timers fire and responses come; users, hot reload and the event stream owe
nothing. Where the conditions are written out (`CanProgress`, `AgentHasWork`,
`SomethingDue`), they are what enables the steps in question, stated so that TLC
need not compute `ENABLED`.

## Proofs

* `LedgerInboxProofs`. `InboxForkFree`, `InboxTypeCorrect`, `InboxRefinesChains`
  from `InboxInv = TypeOK /\ ChainInv /\ CallerInv`. `ChainInv` alone is not
  inductive: `InsertInboxEntry` accepts any entry for a rater with no head row,
  so that a promoted orphan becomes nobody's first entry depends on the caller
  having seen a head before (`CallerInv`: heads are never deleted).
  `InboxOrphansBounded` adds `OrphanInv`: a caller that has counted and not yet
  inserted (`PastCountAll`) is one row of overshoot, so the rows and those callers
  together never pass the cap by more than the number of callers. `PeerOrphanInv`
  is the same for the rows of one rater (`InboxPeerOrphansBounded`).
  `InboxOrphansPromoted` and `InboxNoLeftover` are about one caller without
  failures, and say so in their hypothesis `LoneCaller` (with two callers or one
  failure both are false, see below); entries, raters, forks and orders of arrival
  are arbitrary. Their `WalkInv` is the loop invariant of the promotion walk: what
  still waits for the head of its chain is ahead of the walk, and no entry is in
  both tables but the one the walk is about to delete.
* `OwnLedgerProofs`. `OwnLedgerNeverEquivocates`, `OwnLedgerKeepsAcked`,
  `OwnLedgerHeadsGrow` from `LogInv = TypeOK /\ SettledInv /\ MemoryInv`. What
  makes it work is `SettledInv`: all that was told or taken in is a prefix of the
  log *as of the transaction before the last*, so a power loss cannot take it
  back, and so is all but the last row of what was served, since the last
  transaction added one row at most. A client's page may be older than that, but
  the rows it keeps are within the head it fetched first (`OutsideSettled`).
  Lemmas on prefixes of sequences come first. `OwnLedgerProofsVerify` adds to it that tree and cached head part ways only at a failed statement.
  In the second part, of `CompletionRating`, `RatingConservesOutcomes` and
  `RatingCapsTrust` follow from
  `RatingInv`; `TickInv` says what a `Tick` may rely on without the lock: what it
  snapshot is still in the bucket, and the last rating is a window old.
* `TaskDispatchProofs`. `RatedOnce`, `CreditedOnClose`, `NoSlotLeaks`,
  `NoOvercommit` from `DispatchInv`. The two counters are compared with the
  cardinality of the sets they count, so each step adds to or takes from such a
  set one element, or leaves it alone. `StreamInv` supplies the rest: a worker
  without a stream has no handler, a closed stream has a handler that is done
  (so an end of file is the worker's own), and only async tasks come to an
  artifact and a webhook (so no rated one ends there without an outcome).
  `DispatchInv` itself is in no run: its parts that say something of their own
  are.
* `DesktopBackendProofs`. `BackendHoldsTogether`, `BackendServesActive` from
  `BackendIInv = TypeOK /\ ProcessInv /\ BackoffInv`. `NoStray` alone is not
  inductive: that no process lives beside the tracked one needs `OneProcess`
  (calls wait for the tracked process only), and that none outlives the
  application needs `QuitFirst` and `QuitAsked` (a quit under way is the first call
  in line, and cuts off the restarts behind it). `CfgInv` follows the
  configuration through a restart: processes run for it, and it is the active
  project's, or will be once the restart that waits has merged it. `BackoffInv`
  ties the restarts granted to the crashes counted.
* `DesktopChatProofs`. `ChatHoldsTogether`, `ChatKeepsHistory` from `ChatIInv =
  ChatTyped /\ HistoryInv /\ StreamInv /\ AnswerInv`. `ChatTyped` is stronger than
  the types: an identity in use has been given, so that a new session is no one's
  (`FreshId`). `HistoryInv` says where a project's sessions are at each moment of a
  load: on disk, on their way, or in the state and, trimmed, on disk.
  `AnswerInv` follows an answer's message through every change of the list:
  `Follows` says what a session keeps of it, and each operation on the list has
  a lemma that it does (`ListsFollow`).

* `LiveSessionProofs`. `LiveSessionHub`, `LiveSessionJournal`, `LiveSessionFinal`
  from `LiveInv`. The server's lists are in TLA+ what they are in the code, so
  lemmas on `Without` come first: it keeps the order, loses what it should and
  repeats nothing. Then each operation of the hub gets a lemma about any hub:
  whatever its handler did before, `flushPendingPolls` and the broadcast leave
  `HubGood`. `HubInv` alone is not inductive: `NoIdlePoll` rests on the timer being
  set while a lease lives (`TimerSet`), and `ToldTruth` on what the server believes
  it last broadcast (`Broadcast`, `Told`), which is neither what is true nor what
  the tab saw. `JournalInv` needs that the journal's pending event, the queue and
  the agent at work agree on one event per session (`OnePending`), that nobody
  knows of a session before its generate is posted (`UnheardInv`: the reason why a
  first generate cannot reopen anything), and that an agent that answers `complete`
  has cleaned up (`AnswersTrue`: the reason why what is final is clean). After a
  restart all of this is rebuilt from the journal alone (`DownIsEmpty` before it).
* `ManualEditsProofs`. `NoEditGetsLost`, `CommitsAllOrNothing`, `OneApplyAtATime`,
  `CommitsCrashSafe`. First come lemmas on the disk (what `Snapshot`, `Restored`
  and `Unstaged` do to a text) and on outcomes: how a commit that goes on
  (`commitManualEdits`, `pushBatchInChunksAndWait`, `repairPostApplyValidation`)
  can have ended, for any results of any agent. Of `Base = TypeOK /\ ApplyInv`
  follow `OneApplyAtATime` and `CommitsAllOrNothing`, for any pages and agents.
  `CommitsCrashSafe` adds `TxnInv` and takes one page (`LonePage`), because all
  pages write the one transaction file. `NoEditGetsLost` takes one agent too
  (`Lone`; `reference/live.md:530` prescribes it, and TLC has the counterexample
  with two). `NoEditLost` alone is far from inductive, as much may be
  written back: a transaction with an edit still staged (`SafeOnDisk` says when it
  has none), the snapshots of commits, the work an agent has not written yet, the
  edits staged. `KeptInv` says that none of it is behind what was applied and told
  last. A crash between the dropping of edits and the clearing of their
  transaction is part of `Next`: the edits of an apply that dropped all are kept,
  because the next start finds none of them staged. That it stays so rests on
  `EventInv` (what the agent holds is the event of a commit, one that timed
  out, or one from before a restart, and commits since then have had no answer)
  and on `ChunkInv` (between chunks no one writes what an earlier chunk applied).
* `LiveBrowserProofs`. `SessionIsStored` and `AcceptedIsSeen`, for any number of
  sessions, variants, requests under way and upsets of every kind, overlapping or
  not: they have no hypothesis. Both follow from `SessionGood = TypeOK /\
  ServerGood /\ TabGood(page, Past(page))`. First come lemmas about each function
  of a tab: which fields it leaves alone (`...Fields`), and that it keeps a tab
  good (`...Good`), for any tab, so that it does not matter when a response or a
  timer calls it. `TabGood` has four parts. `Keeps`: every handler that changes the
  session, its variants or the one that is visible stores them in the same step.
  `Knows`: nothing is known of a session before it is started. `Shows`: a bar at a
  variant of the wrapper has a variant on the screen. The fourth is what is
  delicate: a session is marked as handled, and so passed over by a reload, while
  it stays the current one, only if it is in `Past`: its generate was answered or
  will never be sent, and it is neither asked for nor ready any more. What marks
  it is the `complete` of an accept, and before that the agent has answered; a
  discard's response marks too, but drops the current session with it. `Past`
  never shrinks while a session is current, because a generate is queued once
  and nothing but it makes a session asked for or ready (`ServerGood`).

The proof of `LiveSessionFinal` failed at first, for a reason: a page that missed
the end of its session, and is still cycling, may post a new accept or discard,
which opens the session again (`live-server.mjs:656-709` looks at no phase, nor does
`session-store.mjs:215-222`). With one post per session (`MaxPosts = 1`) TLC had not
met it. `FinalStays` now says what holds: only such a request opens it, and never a
late checkpoint or reply.

The assumptions are the named `ASSUME`s of each module (types of the constants);
TLC evaluates them in each run. (`ProjectsAssumption` of `DesktopChat` says that
projects are not numbers, with which new sessions are named. `CallersAssumption`
and `FiniteAssumption` say that there are finitely many callers, at least one, and
finitely many sessions; `PagesAssumption` of `ManualEdits`, that the mark of an
absent transaction names no page.) The hypotheses `LoneCaller`, `LonePage` and
`Lone` are no assumptions but part of the theorems that need them, each with the
reason above. Every safety property of the passing runs
is stated by a theorem. Only model-checked is everything temporal other than `[]`,
action properties and the refinement: `HonestEntriesAccepted`, `BucketsDrain`,
`DispatchEnds`, `CapacityReturns`, `ComesBack`, `ArtifactFound`, `Delivered`,
`ApplyEnds`, `SessionProgress`. Out of the prover's reach are liveness under fairness,
induction over data and `RECURSIVE` operators (the Merkle module will be checked
by TLC only).

## Findings

`desktop_chat_untouched`: when the active project changes while the chat is open,
the save effect (`useChat.ts:48-52`) runs in the same commit, with `loaded` still
set and the sessions of the old project, and stores them under the new one. The
load that follows (`:31`) repairs that, unless the chat is left before it has
landed (`:43-45`): then the new project's history is gone.
`docs/DESKTOP.md:70` promises it back "untouched".

### Seen in the model, stated by no run

These are what the code does and what the passing properties leave out, by their
history variables, bounds or assumptions. A property in brackets is defined in
its module; giving the named instance to TLC shows a counterexample.

Ledger and dispatch:

* A child judged out of order is queued after its parent's promotion walk by
  another goroutine, and is never promoted (`inbox/inbox.go:178-214, 301`)
  [`OrphansPromoted`, 2 callers and a chain of 2].
* A failure between insertion and promotion strands the child for good: its
  redelivery is dropped by the orphan dedup (`:168-174`)
  [`HonestEntriesAccepted`, 1 caller, a chain of 2, 1 failure].
* An `Append` whose head cannot be persisted leaves the tree ahead of the cached
  head, so proofs do not verify until the next `Append` (`impl.go:313-335`). The
  entry is also persisted and never published [`ProofsVerify`, 1 appender, 2
  entries, 1 failed write].
* Rows past the signed head are sent to anybody who asks (`ledger/fetch.go:91-117`).
  After a power loss the last of them may be signed again with other content; a
  peer running this code has dropped it (`catchup.go:234-236`), another one may
  hold both. `NoEquivocation` says that it is the last row only.
* Such an `Append` reports an error, and the outcomes it rated are rated again
  (`boss/completion_rating.go:135-137`) [`RatedOnce`, 1 peer, 1 outcome, 1
  failure].
* Async dispatches never record an outcome (`boss/api_async.go:175-292`), though
  `docs/trust.md:84` says every dispatch does [`EveryDispatchRated`, 1 async task].
* The webhook's context may be over before the task is (`boss/api_async.go:146,
  261`), and the POST fails, though `docs/http-api.md:215` announces one for every
  completed task [`CompletedNotified`, 1 async task, `Prompt` true, deadlines of 2
  units].
* An unstreamed answer of over 16 MiB is cut and its worker credited while it
  still writes (`boss/openai.go:456`): `CutAnswer`, and why `SuccessMeansClosed`
  leaves `Chats` out.
* A client that leaves costs its worker a failure (`boss/api_handlers.go:312`),
  which `completion_rating.go:22` does not list: the second branch of `ReadOutput`.
* The read of an async task does not notice the signal (`boss/api_async.go:219`),
  and the gateway may go offline with it in flight: `Shutdown`.

Desktop (`odd` names the first four):

* A quit amid a restart lets the restart spawn a gateway and then exits
  (`main.ts:141`); it stays behind.
* A stop that takes 5 s resolves before the exit event, which then makes the
  manager forget the new process (`backend-manager.ts:232-245`).
* Restarts that wait for one exit overlap: the configuration of the last is kept
  while the first one's process runs (`:247-251`).
* Deleting the active project, and the migration at first launch, make another
  project active without a restart (`store.ts:138`), against `docs/DESKTOP.md:118`.
* An artifact's metadata names the project that is active when the answer ends
  (`useChat.ts:251`), and is not written once the chat is left (`:257`). After a
  switch the rest of an answer is dropped; the streaming flag and an error carry
  over to the new project's view.

Live session:

* An accept posted before the `done` of its generate: the `done` clears what the
  journal says is pending (`session-store.mjs:186-187`), and a crash loses the
  accept, against `reference/live.md:21`. An acknowledgement removes the first entry of its
  id, whichever it is meant for.
* In the 2 ms between the end of a lease and its timer, a poll or post sets the
  timer anew and the tab is told late.
* A page that missed the end of its session opens it again by another accept or
  discard (`live-server.mjs:656-709`), for which the agent finds no markers.
* An accept whose markers are gone leaves the page waiting; a late checkpoint
  sets the phase back to cycling; an agent that dies in the cleanup after an
  accept leaves the session open for good; Discard and then Accept are both
  posted; an error of another session hides the bar
  (`live-browser.js:6178-6183`).

Copy edits:

* The next Apply after a decision was asked rolls back without asking
  (`live-browser.js:3925, 3949`, `manual-edit-routes.mjs:105`, against
  `reference/live.md:534`) [`AskedFirst`, the instance of `manual_edits`].
* An agent late with an event that timed out writes over what has been applied
  since, and the undoing of its reply restores a snapshot that is older than that
  (`manual-apply.mjs:229-240`): `SetBack`.
* A second agent that was given the same event writes its older text after the
  first one's answer and a later apply [`NoEditLost`, 1 edit of 2 versions, 2
  agents].
* An agent at work across a restart is refused, and its writes stay.
* A crash between dropping applied edits (`live-commit-manual-edits.mjs:568`) and
  clearing the transaction (`manual-edit-routes.mjs:210`), after an apply of only
  some of its edits: the next start finds the others staged and restores the
  files, and the dropped edits are neither in the source nor staged
  (`manual-apply.mjs:783-806`): `CrashAtEnd` where `SafeOnDisk` is false.
* A commit that fails at once while the page's event stream is cut leaves the page
  locked until it hears more (`live-browser.js:3955-3967, 3989`).
* A page that misses the last broadcast stays locked until what it stored expires,
  after 15 minutes (`live-browser.js:3914-3927`); after Rollback its Apply stays
  disabled. A second tab is not locked at all, two pages share one transaction
  file, and passes of repair do not look for unreported changes.

Live overlay:

* A reload while an accept is saved resumes to cycling and the `complete` is then
  ignored; a session whose generate failed is restored to generating and never
  ends; a lost `complete`, or a generate that cannot be posted, strands the page.
* A discarded session comes back after a reload of a page that is rendered late
  (`:7973-7975`).
* Toggling pick mode hides the bar of a session that goes on (why a bar may be
  `none`), and so does the error of another one.
* The user may discard and then accept, while the request is under way
  (`:7458-7464, 7672-7681`). The response to the discard marks as handled and
  cleans up whatever session is current by then, be it the next one (`:7676-7679`); a refused
  accept sets the page to cycling with a bar for no session, if a discard has
  cleaned up meanwhile (`:7502-7505`).
* The first accept timer (`:7539`) does not look at its session's id and cleans up
  the next one; a fetched source (`:5571, 5585`) and an error (`:6170`) set the page
  to cycling or picking whatever session it is in, and the variants fetched may be
  another session's (`astray`: `AcceptsWhatIsSeen` leaves that out). A discard
  under way with a hidden element and a reconnect leaves the page generating
  without a session.
* With `Overlap`: the scout takes up the wrapper of an older session in the middle
  of a new one (`:11152-11164`); the file of another session's `done` stays, so
  that a later recovery fetches the own wrapper without variants and drops the
  session (`:6118, 5578`).

## Not modelled

`PROJECT.json` gives every component's status and reason. Of the components
without a module, those with protocol state are in the plan below. The rest is
out of reach or has nothing to check: cryptography and the libp2p library are
ideal or the environment here; the floating-point iteration of the reputation
engine and the design detector's heuristics have no exact reference; text
transformations of source files are abstracted to what they leave there;
styles, drawing and geometry have no state that outlives a frame. Inserts and
Svelte previews are variants of the session that `LiveBrowser` models.

## Plan

In this order; each module with its MC module, runs and mutants.

1. `LedgerReplication`: `OwnLedger` and the `LedgerInbox` of peers, gossip that
   loses, repeats and reorders, `CatchUp` and `CatchUpInbox`. Abstract
   specification: every replica holds a prefix of the author's log and converges.
2. `ArtifactGate`, composed with `TaskDispatch`: one artifact per expectation,
   task ids that a client supplies twice, the shared partial file.
3. `WorkerRegistry`: order and loss of online and offline events.
4. `Equivocation` and `ReputationSnapshot`: marks, concurrent recomputations.
5. `BodyFetch`: the queue, the backfill and its starvation.
6. `HookCache`: concurrent hooks that read, change and write one file without a
   lock (`hook-lib.mjs:536`).
7. `Merkle` (TLC only, recursive), `RateLimiter`, `Limits`.

Theorems to come, of the modules planned: replicas are prefixes (refinement of
the abstract log), artifact deliveries are one-shot, marks are permanent, the rate
limiter's map and tokens stay within their bounds.
