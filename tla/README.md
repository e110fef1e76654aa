# A TLA+ model of Promptor

Promptor is a Node server and a web page around terminal coding agents (Codex,
Claude Code, Cursor). A *tab* is one conversation. Its prompts wait in a queue; a
loop in the server types them into the agent's terminal one by one, follows the
agent's turns, and files the answers. Timers file prompts too, conversations post to
each other, several machines can be joined behind one hub, and every page keeps
copies of what the server has.

This directory models the parts in which the order of events matters, checks them
with TLC on small instances, and proves some of it with TLAPS for every size.
Sources are named relative to the program's own `src/` directory unless a longer
path is given; `PROJECT.json` maps every definition to its lines.

## 1. The system

One Node process runs the server: a step is a callback, the code between two
awaits, and two callbacks never overlap. What is durable are files, one directory
per tab, each written whole, and serialised per tab by `KeyedMutex` (a FIFO).
Reads are *not* under that lock. A page is a second sequential process; a socket
keeps order between the two, and requests do not.

| Part | State | Operations | Talks to |
|---|---|---|---|
| Queue runner, `server/queue.ts` | `loopPromise`, `loopGeneration`, `stopping`, `oneShotPromptIds`; in `runtime.json` the desired state, the shown state, the active prompt and turn | `start`, `pause`, `stop`, `interruptCurrent`, `insertNow`, `runOneShotBatch`, `retry`, `skip`; the loop: read, wait for idle, prepare, dispatch, record, gap | tab files, provider, routes, timers |
| Turn records, `server/history.ts` | `prompts.json`, `answers.json` | `recordTurnStarted`, `recordTurn`, `syncHistory` | queue, event handlers, transcripts |
| Storage, `server/storage.ts` | the files, the index, trash, backups | `withTabLock`, reads and windows, atomic writes | everything |
| Routes, events, startup, `server/app.ts` | subscriptions, runners and managers per tab | HTTP routes, `turnCompleted`, launch, reopen, close, delete, restore, recovery, the sweep of stalled turns | everything |
| Provider managers, `server/codex-tui.ts`, `claude.ts`, `cursor.ts`, `prompt-submit.ts` | pending submission, active turns, attached thread | `submitTurn`, `steerTurn`, `waitForTurn`, `interruptTurn`, hooks, polls of the transcript | queue, routes |
| Codex App Server client, `server/codex.ts` | turns seen, turns completed, subscription | `waitForThreadIdle`, `waitForTurn`, `settleTurnFromRollout`, reconnection | queue, sweep |
| Conversation switch, `server/tui-proxy.ts`, `tui-protocol.ts`, `terminal-thread-sync.ts`, `codex-thread-fallback.ts` | the thread the terminal selected, held selections, the last durable thread | notice, hold, freeze, probe, bind, resume | queue, routes |
| Timers, `server/timer-service.ts`, `timer-rules.ts` | `timers.json`, a copy, a wake-up, the hold | save, check, trigger, run now, recover, detach | queue, idle shutdown |
| Collaboration, `server/a2a-*.ts` | a file per collaboration: members, budget, receipts, the wish to end | `send`, `reply`, `finish`, stop, quiet scan | queue, storage |
| Federation, `server/federation/` | hub: registry, links, waiters, page sockets; member: link, backoff, local sockets | dial, authenticate, replace, lose, remove, forward a request, relay a socket | pages, other machines |
| Idle shutdown, `server/ui-lifecycle.ts` | pages, holds, the grace timer | connect, leave, hold, expire | main |
| Tab and index on a page, `shared/*-delta.ts`, `client/tab-bundle-delta.ts`, `client/index-sync.ts`, `App.tsx` | bundle and revision, snapshot tags, the index | make a delta, apply it or ask for the whole, page back, adopt an answer | storage, socket |
| Sealed channel, `client/e2ee-gate.ts`, `*/e2ee-wire.ts` | key, fingerprint, counters, waiting challenges | challenge, answer, seal, open, switch the key | every socket |
| Screen, `*/terminal-projection.ts` | frames sent and held, allowance | make a frame, skip, resynchronise | terminal, socket |
| Stream and input, `server/pty.ts`, `client/terminal-*.ts`, `input-coalescer.ts`, `App.tsx` | rolling buffer, cursors, checkpoints, the lease | batch, continue, reset, ask for a screen, hold and flush keys | terminal, socket |
| Documents, `server/documents.ts`, `client/document-loader.ts` | the documents opened since the start; the viewer, its decoder, its call | open, load, reopen, follow a link, hide, close | files, pages |

**What is hard.**

- *Interleaving.* A loop keeps running after `abandonLoop` gave up on it. A request, the
  loop, the interrupt and the `turnCompleted` handler settle the same prompt. Launch,
  reopen, close and the exit of a process write one tab's state.
- *Stale reads.* The loop chooses a prompt from an unlocked read; a delta meets a page
  that holds the answer of a later request; an answer is sent on whatever link there is now.
- *Lost and late.* Hooks and notifications get lost and the transcript lags; the end of a
  turn has to be found otherwise, and must not be found too early.
- *Partial failure.* A reservation is filed before the provider is asked, a message is
  paid for before it is delivered.
- *Crashes* between two files of one operation, and during a recovery.
- *Liveness.* A rolling queue must have a loop; a due timer must go; a page must hear of
  a lost link; a server nobody uses must stop.

`PROJECT.json` lists forty such places with the property that would catch each, or says
why none does.

**What makes each part correct.** Queue: one loop in charge; a prompt is in one turn at a
time; what is filed as delivered was delivered; everything reserved settles; a stopped
queue stays stopped; a rolling one moves. Records: a turn is shown once, whoever reports
it first; a sync loses and repeats nothing; a recovery leaves nothing in flight.
Providers: an acknowledged prompt was taken, a cancelled one never typed; ends are
noticed. Conversations: the tab says what is the case, comes back as it was left, follows
its terminal and finds its way back. Timers: an occurrence is queued, and run once.
Collaboration: the budget is what was delivered; an ended one stays so. Federation: one
link of a device in use; streams in order; nobody waits on a link that is gone. Pages:
they show a state the server had, at the revision they say, and in the end the current one.

## 2. Modules

| Module | What it is |
|---|---|
| `TabFiles`, `QueueRunner`, `QueueSafety`, `MCQueue` | files of a tab and their locked sections; loops, requests and turns; properties; instances |
| `TabFilesProofs`, `QueueProofs` | proofs about the files of a tab, section by section, and about the queue |
| `FederationLink`, `FederationSafety`, `MCFederation` | hub, members, links, streams, pages; properties; instances |
| `FederationProofs` | proofs that hub and members agree on the links, and about the streams they carry |
| `Collaboration`, `CollaborationSafety`, `CollaborationPromise` | agents that post to each other; properties; the abstract specification they implement |
| `TimerRules`, `TimerService` | when a timer runs next; the service |
| `ServicesProofs` | proofs about the budget, the receipts and the refinement of collaborations, and about timers |
| `MCServices` | collaborations, timers and rules as one run |
| `RecordDelta`, `TabMirror`, `IndexMirror` | what changed in a list; a page's copy of a tab; its copy of the index |
| `SealedChannel` | handshake and counters of every socket of a page |
| `Projection`, `TerminalStream`, `TerminalInput` | the terminal as screens, as bytes, and the keys |
| `DocumentView` | a document read in the page chunk by chunk, and the server's memory of it |
| `MCBrowser` | those seven as one run |
| `BrowserProofs` | proofs about `DocumentView`, `TerminalInput` and `IndexMirror` |
| `Conversation` | launch, reopen, close, delete, switch, crash and restore of one tab |
| `ProviderTurns` | the three native managers, from a pasted prompt to the end of its turn |
| `ThreadTrail` | Codex over an App Server: selections in the terminal and the way back |
| `IdleExit` | the server that ends when nobody uses it |
| `TurnProofs` | a proof about `ProviderTurns` |
| `ConversationProofs` | proofs about `Conversation` (the tab tells the truth, and comes back), `ThreadTrail` (the way back) and `IdleExit` (the whole grace period) |
| `MCConversations` | the four parts of a conversation as one run |
| `TurnWatch` | how the queue hears of the end of an App Server turn; the sweep of stalled turns |
| `HistorySync`, `TabHistory` | `syncHistory` as an operator on records; the records while turns come and go |
| `Recovery` | the files of a tab over crashes |
| `MCRecords` | those three as one run |
| `RecordsProofs` | proofs about the end of a turn and the recovery |

Parts that share a run do not interact in it: a behaviour is one of a *part*, chosen in
`Init`, and the other parts keep one initial state. The parts do interact in the program,
through what each model takes as an external choice (a turn that ends, a prompt that is
filed); the compositions that matter are inside the modules: files, runner and turns in
`QueueRunner`; roots, queues and dispatches in `Collaboration`; timers, queue and runner in
`TimerService`; server, socket and page in the mirrors; server, agent and manager in
`Conversation` and `ProviderTurns`.

Every module with a *load* fixes in `Init` what its environment may do in a behaviour (calls,
losses, crashes, edits), a record of small counters that actions use up. Each load is a
question; crossing them all would multiply states without new contacts.

Operators whose comment mentions "the mutant" are not part of a specification: each is a
plausible bug in the operator next to it, kept to show that a property would notice.

### The queue

- `tab` stands for `meta.json`, `prompts.json`, `answers.json` and `runtime.json`. Texts,
  times and the attempts' details are left out; an attempt's status follows the prompt's.
  Prompts that do not exist yet have the status `unused`.
- `owner`, `generation`, `stopping`, `oneShot` are the fields of `QueueRunner`. A loop or a
  request is a record with a `pc` that names the next callback. A process whose `pc` is in
  `Locked` is in the lock's FIFO; its section and the code up to the next await are one step.
  An unlocked read with the code after it is one step too, which is where stale decisions
  come from.
- A turn of the provider is active or has an outcome; `told` follows the `turnCompleted`
  handler. A submission is accepted, refused, cancelled, or left unconfirmed.
- `CanStartThread`, `HasPendingInterrupt` and `ReportsQueueTurns` are the differences between
  the providers the queue can see.

Left out: errors of the storage itself (the outer `catch` of `runLoop`), the abort of a
collaboration's delivery. Reordering is moving to the front.

### The federation

- A link is a FIFO of frames each way. A close is heard after the frames before it; a lost
  link (`Cut`) is heard by each side on its own, with any part of the frames dropped.
- `Authenticate` is `authenticate()` up to its await, `Saved` what follows the write.
  `Unlist` and `RemoveEnds` split `removeDevice` in the same way.
- A request is in `http` of its link, a page in `sockets`, until answered, expired or the
  link is gone. On the member `executing` are the calls to `executeLocal`, `streams` and
  `locals` the page streams and the sockets `openLocal` is opening or has opened.
- Sizes (`bufferedAmount`, the early queue) are a choice. The welcome and the first directory
  carry the same list and are one frame.

### Agents and timers

- A root of `Collaboration` is its file; `posts` are the prompts of all queues with what they
  carry of a collaboration; a request of an agent is a process with a `pc`, since `send`
  awaits between the look at its receipt, the reservation under the root's lock, the delivery
  under the target's lock and a refund. The scan that ends quiet roots, the event of a queue
  that moves and a restart are steps like others.
- `TimerService` has the two writes of `triggerScheduled` (prompts, then timer) as two steps
  with a crash possible between, the copy in memory next to the file, and the runner's
  one-shots with `recoverAutoRuns`. `Races` lets a page read or write timers inside the
  service's unlocked read; the run has it FALSE (see the divergences). A check takes what is due
  in the order of the file, which the model leaves open.
- `TimerRules` translates the arithmetic: the estimate of an index, the two corrections, the
  fourteen days of a weekly rule. The clock on the wall jumps forwards or backwards once.

### Pages

- `TabMirror` keeps, as a history variable, what was read at each revision, so that
  "a state the server had" can be said. A delta is computed by `RecordDelta` as the
  server does and applied as the page does, with its window, pages back, the answers of its
  own requests and the snapshot after a subscription.
- `IndexMirror` adds what the server *believes* of each page, which decides between a change
  and the whole index. `nav.unsaid` is a history variable: a subscription was answered with nothing,
  and nothing has been sent since (see the divergences).
- `SealedChannel`: both ends' counters, the gate with its key, fingerprint and proof, the
  challenges that wait, the bootstrap answers on their way. A frame opens if key and count match.
- `Projection` works on screens of five rows of numbers, with scrolls, skipped frames, three
  levels of `bufferedAmount` and the one-in-flight `taking`.
- `TerminalStream` numbers every byte by generation and offset; the batcher, the rolling
  buffer, the writes xterm.js completes later, the raw and the rendered checkpoint are state.
- `TerminalInput` has the coalescer, the keys held while the subscription is away (and which of
  them go at once), what each page shows (terminal, document, nothing), the screens it asked for, the
  lease, and the look-up of the tab the server awaits before it passes a key on. `SendSubscription`
  pushes the held keys first, which may send some of them, and then sends the subscription.
- `DocumentView`: `viewer` is the loader with the state it publishes, `calls` what it awaits (the
  server goes on with a request that was given up), `memo` the server's documents in memory. A call
  that was aborted is settled before one made later is: it is rejected without the network.

### Conversations

- `Conversation`: `disk` is the tab, `live` the server and the agent it runs, `ops` one request
  of a kind with its step, `chain` the switches that follow the terminal, `plan` the restore.
  `mode` is the provider's way: hooks that name the thread (Claude, Cursor), a question at the
  start (Codex), or an App Server.
- `ProviderTurns`: `record` is what the agent has done and `written` how much of it the
  transcript shows; `hooks` are posted in order and may be lost; `look` is evidence read and
  not acted upon yet. The three managers are one module because they are one code with three
  differences, which are conditions on `provider`.
- `ThreadTrail`: `gate` is `InitialTuiThreadGate`, `moves` the chain of `scheduleThreadSwitch`,
  `sync` the steps of `syncTerminalThreadSelection` between its awaits, `bound` what the tab
  remembers, `saved` the threads that have a rollout. `home` is a history variable: the last
  conversation the tab was on that is on disk, which `Resumed(bound)` must reach.
- `IdleExit` counts pages and ticks of the grace period.

A *calm* load of `Conversation` or `ThreadTrail` has requests that do not overlap each other, a
restore or a switch, while hooks, exits, crashes and shutdowns come at any time; the places
where overlaps go wrong in the code are listed under the divergences. The last load of
`ThreadTrail` is not calm, and the way back is checked on it too.

### Records

- `HistorySync` translates `syncHistory`: which prompt a turn of the transcript belongs to (a
  link, a client id, a lost submission that can be claimed), what becomes of the rest, in which
  order. `TabHistory` runs it against `recordTurn` and the queue's writes; the transcript is read
  in one step and merged in another. Properties apply `Synced` to every reachable state: what a
  sync would show now.
- `Recovery` has every write of a dispatch and of `recoverTerminalRuntime` as a step with a crash
  before and after.
- `TurnWatch`: three ways to hear that a turn is over (notification, summary, rollout), a socket
  that goes down and comes back, and the sweep that marks a silent turn as stalled.

## 3. Runs

| Run | Bounds | States | Shows |
|---|---|---|---|
| `queue_operator` | 2 prompts (one a slash command), 1 request at a time, 3 calls, 4 loops | 198 k | types; with every control an operator has, records and runner settle (`SettledRecords`, `RunnerMatchesLoop`), a paused or failed queue takes nothing (`PauseHolds`, `FailureStops`) |
| `queue_race` | 2 prompts, 2 requests at once, 3 calls, 4 loops | 440 k | one loop is in charge (`LoopOwnership`), no prompt is in two active turns (`NoDoubleTurn`) |
| `queue_conversations` | no conversation at first, then 2; switch, close, add, timer, run-now, typed turns; no cancellation; 2 calls, 3 loops | 2.24 M | what is filed as delivered was delivered, in its conversation (`DeliveredRecords`) |
| `queue_fair` | 2 prompts, start, pause, interrupt; `FairSpec` | 93 k | a rolling queue moves; every reserved prompt settles |
| `federation` | 4 processes on 2 devices and 2 codes, 3 connections, 1 lost link, 2 requests, 2 pages; `FairSpec` | 282 k | `LinksAgree`, `DirectoryCurrent`, `StreamsHold`, `NobodyWaits` |
| `services` | 3 tabs, 2 roots, 3 messages, 3 posts, 2 requests at once, 7 loads; 2 timers, 6 loads, 1 crash; 4 963 inputs of the rules and initial states | 457 k | `BudgetKept`, `ReceiptTellsTruth`, the refinement `PromiseKept`; `OccurrencesKept`, `RunsOnce`; `FirstAfterNow` of the rules |
| `services_fair` | fewer loads, one with a crash | 18 k | a collaboration that waits for its last turn ends; what is due or filed goes |
| `browser` | per part: 3 records, 3 writes, 1 drop; 2 sockets, 2 keys; 2 changes of a screen; 3 bytes, 1 restart; 2 pages, of 3 keys, 2 keys and 1 look away, 1 of each with 1 lost socket; 2 documents of 2 and 1 chunks, 2 restarts | 1.65 M | `PageIsTrue`, `SidebarIsTrue`, `ChannelHolds`, `ScreenHolds`, `TerminalIsTrue`, `KeysArrive`, `DocumentHolds` |
| `conversations` | one tab with each request once, 2 crashes, 1 shutdown, 3 modes; 2 prompts over 11 loads of providers; 4 threads, 3 selections, 1 restart; grace 3 | 183 k | `SubmissionsAreTrue`, `TabTellsTruth`, `ComesBackAsLeft`, `SelectionsAreFollowed`, `IdleSafe`; `TurnsSettle`, `LaunchesAndServersEnd` |
| `records` | 2 prompts and 1 typed turn, 2 threads, 1 lost submission; 3 prompts, 2 crashes; 2 turns, 1 cut, 2 lost notifications | 217 k | `HistoryIsWhole`, `SyncIsIdempotent`, `RecoveredAgrees`, `WatchTellsTruth`, `TurnEndsAreHeard` |

A property of a composite run is a conjunction of named parts, each stated with its comment in
the module of its component (`KeysArrive`, for one, is the types of `TerminalInput`,
`KeysArriveInOrder` and `LeaseSettles`).

**Why the bounds are enough.** Queue: three calls make the longest sequence the code
distinguishes (start, interrupt or pause, start again) with a loop that was detached, its
successor and one more; two turns let a late turn of an old loop meet that of a new one.
Federation: three connections are an old link, the one that replaces it and one that races
both. Collaboration: two requests at once, one of them a retry or a finish, and a budget of three
messages that both can exhaust. Timers: two timers that come due together, one crash between
their writes. Pages: a page holds the last revision, misses one, and meets one from before; a
window of one record makes every other record scroll in or out. Terminals: a buffer of two bytes
and a catch-up of one reach continuation, reset and gap. Conversations: two crashes are one
crash and one during the restore after it. Threads: a written thread, two unwritten ones after
it, and a fourth for a launch. Records: a lost submission, its repeat and a typed turn between.
Recovery: the second crash falls into the recovery of the first.

Deadlock is not checked: a system may stop when its load is used up and nothing is left to do.

**Fairness.** Promises settle, sockets deliver and report that they closed, timers fire, files are
written, posted hooks and messages arrive (unless the load loses them). Nobody has to call, to
type, to answer Codex's question, to open a tab, to reconnect, or to lose anything; no turn has
to be begun by a user. The queue, the federation and the services have weak fairness of their
system steps: per process in `QueueRunner` (`Fairness`), of all system steps together in
`FederationLink`, and of `CollabSystem` and `TimerSystem` in `MCServices`; the last two suffice
because in them every bounded environment comes to an end. `ConversationFairness`,
`TurnFairness`, `WatchFairness` and `IdleFairness` name the steps one by one. A turn of
`TurnWatch` need not end: its properties only speak of turns that did. Weak fairness of a poll is
justified by the interval timer that repeats it.

**Refinement.** `PromiseKept` says that `Collaboration` implements `CollaborationPromise`, an
abstract mailbox: each collaboration begins once, takes messages up to its
limit until somebody asks for its end, may take the wish back, and stays ended. The mapping takes
the status of the root file for `stage` and its counter for `taken`.

### Claims the code does not keep

Each of these runs checks one property that a comment or a document states, and TLC finds it
violated.

| Run | What happens |
|---|---|
| `claim_late_answer` | `answer()` sends a late response on the member's new link (`member.ts:300`), where stream numbers began again, and it answers another request (`docs/MULTI_DEVICE_FEDERATION_IMPLEMENTATION.md:322`) |
| `claim_resubmitted` | a submission that never arrived is claimed by the turn of its repeat with the same text (`history.ts:123`), and shown as completed (comment at `history.ts:107`) |

### Other divergences met while modelling

No run is spent on these; most were seen in a counterexample of a trial run, with the load
that reaches them excluded from the runs above, some only in reading the code.

*Queue.* A detached loop whose wait fails late writes the runner without comparing generations
(`queue.ts:1047`, comment at 113). A start between an interrupt's pause and its `abandonLoop`
trusts the old loop, and the queue is shown running with no loop (`queue.ts:286`, comment at 94).
`insertNow` decides under the lock and activates after it, over a pause (`queue.ts:498`, comment
at 496). A terminal turn that ends without a final answer is filed as pending and submitted again
(`history.ts:294`, `docs/IMPLEMENTATION_SPEC.md:472`). After a switch `recordTurn` refuses the turn
of a detached loop, whose prompt runs for ever (`history.ts:285`, specification line 26). A turn
interrupted in the terminal is no failure to `dispatch` (`queue.ts:651`, line 455). A prompt steered
into a terminal turn without a final answer stays running (`history.ts:427`, line 323). While a
one-shot keeps the loop alive, `prepareDispatch` (`queue.ts:424`) accepts a prompt of the paused
queue. A submission cancelled before a conversation exists leaves the runner's pointer
(`queue.ts:680`). A forked native switch re-points prompts by an unlocked read and write
(`app.ts:936`).

*Federation.* A device removed while its own binding is being saved keeps its link (`hub.ts:440`).
The document (line 139) says the later of two copies is refused; the code and its test let the
newest win, and the model follows them. After `stop()` a `SocketOpen` still being answered opens
a local socket nobody closes; `NoOrphans` excepts a member that has left.

*Collaboration.* Two sends at once with one `requestId` are both delivered (`a2a-service.ts:656`,
`docs/AGENT_TO_AGENT.md:359`). An ending is looked at when the queue of its requester moves; after a
restart it stays an ending until then, with nothing on the way (`a2a-service.ts:385`, line 340). A
stop waits for the first of several turns that are outstanding (815), and the quiet scan looks for
work before it takes the lock (427). `prepareDispatch` takes the lock of the root inside that of the
tab, against the order `storage.ts:384` states. The root is begun after its prompt was added, so a
queue that rolls may dispatch it before there is a root (`app.ts:3413`, `Rolling`).

*Timers.* The copy in memory may be overwritten by an older unlocked read (`timer-service.ts:249`);
with `Races = TRUE` `HoldCovers` is refuted and the host may stop with a timer enabled
(`docs/TIMER_COMMON_PROMPTS_IMPLEMENTATION.md:348`). One update at start can be lost (251 against
267). A retried run-now adds a prompt again that was deleted (line 180).

*Pages.* A page that got a change it could not apply subscribes again for the whole index, "the one thing
that always applies" (`App.tsx:422`); but the server, which sends nothing for a write that shows nothing
(`app.ts:633`), may by then believe the page to hold a revision newer than the one it has just read
(3798), finds no change between them and answers with nothing. The page keeps its old tabs until
something else is written or it connects again: with four writes `SidebarCatchesUp` fails without its
premise `~ nav.unsaid`. A stale index answer brings back older lights; tags may run ahead of the bundle
(`App.tsx:2612`); a read and its delta are of two moments (`storage.ts:533`); `loadEarlierPrompts`
uses the bundle from before its await (`App.tsx:1302`); a failed preference with a late refresh keeps
the optimistic value; late bytes of a stopped process under an old generation reset a page; a
resize alone marks no screen dirty. The comment at `App.tsx:2435` says of held keys "After the
subscribe, never before it: the socket keeps them in order, so the server has the stream back by the
time the keys arrive", but `sendSubscription` pushes them (2437) before it sends the subscribe (2438): what
waits in the coalescer's window does follow it, while a held key that goes at once
(`input-coalescer.ts:77`: a control byte, or 256 bytes) leaves ahead of it with all keys before it,
and is refused (`app.ts:3875`). Those keys are lost; the order of what arrives is kept
(`KeysArrive`). Text in the coalescer is lost too when the page hides. In the sealed channel, when the key changes in the middle
of a handshake (`crossing`), READY may come after the key was dropped and a waiting challenge be
cleared by an older bootstrap (`e2ee-gate.ts:189`, `242`). The comment at `document-loader.ts:41`
has a chain of forgotten documents walked up to three steps; only the first is, since the nested
opening finds no document open (118, 155). A page hidden while a document opens shows it opening for
ever (239, `left`), and the retry of a document that changed asks for the old revision again (236).

*Providers.* `retry()` presses Enter after an awaited look without asking again whether it was
stopped (`prompt-submit.ts:44`), and may submit a user's draft. `interruptPendingSubmission` awaits
its look while a hook may accept (Claude). A queue's prompt may be attributed to an older turn whose
Stop was lost. A follow-up prompt in a Claude turn whose Stop is lost leaves it active. Hooks of an
exited Claude or Cursor process are accepted; the model posts none.

*Codex over an App Server.* `InitialTuiThreadGate.activate` is active before it has forwarded what it
held, so that a selection arriving then overtakes them (`tui-protocol.ts:126`, comment at 66). A start
between the sync's read and its freeze is lost, and a pause during a sync is undone by its
resume (`terminal-thread-sync.ts:54`, `119`). A selection while a reopen waits freezes the queue and
returns without resuming it (56). A failing probe of the current thread replaces the last durable one
(`codex-thread-fallback.ts:52`). A disconnection while "starting" ends "ready" with a dead socket
(`codex.ts:684`); closing keeps `subscriptions` (602); a single failed read when a stall is marked is
never repeated; a thread with a stuck summary keeps `waitForThreadIdle` waiting, which `IdleIsFound`
excepts.

*Conversations.* A close that races a reopen leaves a closed tab with a live process, a close during
the staggered restore is undone by it, and a close or switch that overlaps writes its state last
(`docs/IMPLEMENTATION_SPEC.md:410`, `app.ts:898` and `3300`). A restore that failed and is followed by a
shutdown drops `reopenOnLaunch`, while a crash keeps it. A shell that cannot be reopened has no catch
(line 335).

*Records.* A sync with a transcript that lags drops the answer of a completed turn and keeps its
prompt (`history.ts:907`, comment at 930). The same text typed by hand and queued within two minutes
is claimed twice (lines 28, 1319). `syncHistory` does not ask under the lock whether the tab is still
on the thread it read (line 243), as `recordTurn` does; in the model a switch waits for a sync.
A crash between prompts and answers *of the recovery* leaves a running answer that is never repaired
(line 333); `AnswersFollowPrompts` excepts it (`torn`). A crash between the two writes of
`recordTurn` lets the recovery overwrite a completed answer.

## 4. Proofs

Each holds for every value of the constants, from the assumptions named, which TLC evaluates in
the runs of the module.

- `QueueProofs!TypesHold`, `Spec => []TypeOK`, from `FilesAssumption` and `QueueAssumption`. `TypeOK`
  is not inductive: a loop chooses from the queue's order and a reservation indexes the prompts, so
  `TypeInv` adds that the order holds every prompt that is there, and that whoever is about to hand
  a prompt to the provider has one. `TabFilesProofs` shows section by section that the files keep
  their schema, with the facts about sequences it takes.
- `QueueProofs!OwnershipHolds`, `Spec => []LoopOwnership`. Inductive with the typing of the loops. A
  step changes them in one of six ways, a lemma each: nothing, `Moves`, `Exits`, `Iterates`,
  `Launches`, `Abandons`; then one case per action.
- `QueueProofs!PauseKept`, `Spec => PauseHolds`. `Held` relates the files before and after a section: a
  paused setting stays, and no pending prompt becomes dispatching. Every section has it but the
  reservations, `KeepGoing`, `Boot` and `Arm`; these belong to somebody who asks, or read the intent
  again under the lock. With `TypeInv` the theorem follows action by action.
- `ConversationProofs!GraceAlwaysWhole`, `IdleSpec => []IdleSafe`, from `GraceAssumption`: for every length
  of the grace period and any loads, a server stops of itself only after a whole period without a
  page and without a hold, and never before a page has come. That the period was whole is not
  inductive; `IdleInv` adds that while the timer runs, what it has left and what the server has
  waited make up the period.
- `ConversationProofs!TrailsLeadBack`, `TrailSpec => [](left.calm => SelectionsAreFollowed)`, from
  `ThreadsAssumption` and `TrailAssumption` (there is a thread; loads are numbers). `TrailInv` is what
  makes it inductive. `ShownHolds`: the terminal shows the last selection that waits at the gate or in
  the chain, or else where the tab is. `SyncHolds`: while one is followed the tab is as it was read and
  the queue as it is remembered, and between the look at the rollouts and the bind what will be
  remembered is the conversation to come back to; it rests on the freeze, without which a prompt of
  the queue could give the thread that is left a rollout in between. `WayHolds` is the way back with
  `FirstSaved` unfolded (`FirstOfThree`, `FirstOfFour`); `CallHolds` and `GateHolds` say what an open,
  a reopen and a held selection find and leave. TLC checked `TrailInv` on larger calm loads first.
- `ConversationProofs!TabsTellTruth` and `TabsComeBack`, `ConversationSpec => [](stock.calm => TabTellsTruth)`
  and the same for `ComesBackAsLeft`, from `TalksAssumption` (loads are numbers). One invariant serves
  both. `TalkInv` says that a calm tab has one request at a time, and none while a restore or a switch
  is under way (`OneAtATime`, `ChainHolds`); what the agent of each mode has named so far
  (`AgentHolds`); per kind of request and per step of it, what it has read, written and left
  (`OpHolds`); and what the next launch owes the tab (`WishHolds`). Each step of a request then
  needs to look at that request, the agent and the wish only (`StillAlone`). TLC checked `TalkInv`
  on 1.0 M states first. Without the calm the two do not hold (see the divergences).
- `TurnProofs!SubmissionsTrue`, `TurnSpec => []SubmissionsAreTrue`, from `PromptsAssumption` (the numbers of
  prompts are not those of typed texts) and `ProviderAssumption` (loads are numbers), for *every* load: lost
  hooks, dropped Enters, lagging transcripts. `TurnsInv` relates three places: what the agent has
  taken (`Taken`, from `record`), what the manager believes (`MgrHolds`) and what is on its way
  between them (`HooksHold`, `LooksHold`). What makes it inductive: a prompt before the slot has not been
  typed (`Untyped`), the record has a prompt only after the place its call reads from (`SinceHolds`),
  of the calls that reserve only the one with the newest ticket may get the slot (`TicketHolds`), and
  a session that is not attached has posted nothing, or its SessionStart first (`StartsFirst`). TLC checked
  it on 434 k states.

- `ServicesProofs`, from `CollabAssumption` (the requests in flight are finitely many) and the
  hypothesis `~ Rolling`: `BudgetIsKept`, `CollabSpec => []BudgetKept`; `ReceiptsTellTruth`,
  `CollabSpec => []ReceiptTellsTruth`; `PromiseIsKept`, `CollabSpec => PromiseKept`, the refinement.
  `CollabInv` is what they rest on: the types (`Typed`; what a request has found differs by its
  kind), a root that was not begun leaves no trace (`Lives`), and a dispatch and the write of the @@
  prompt never begin one root between them (`Beginnings`), without which a second beginning would
  give the budget anew. Most actions only move what there is (`Moves` keeps `CollabInv`) and leave
  budget and receipts aside (`Aside` keeps both, and is a step of the promise or none); `Effects`
  names the rest: a root begins, a message is reserved, delivered, recorded or refunded, a restart.
  The budget counts two sets, and each of these adds to one, takes from one, or moves a member from
  one to the other. For the receipts, `RecordRight` adds that a request about to write its receipt
  names a message nobody else names. `PayBack` of the promise needs the budget: what is refunded was
  reserved. The hypothesis is the one under which the runs check these properties; without it they
  do not hold (see the divergences).
- `ServicesProofs!NothingRunsTwice`, `TimerSpec => RunsOnce`; `SaidIsQueued`, `TimerSpec => [](TimerTypes /\
  OccurrenceQueued)`; and, with `~ Races`, `OccurrencesStayKept`, `TimerSpec => []OccurrencesKept`: from
  `TimerAssumption` (timers are finitely many, schedules are of the two kinds, of intervals that are not
  zero). `NextRunIsLater` has the arithmetic of the estimate: the next moment is none or later than
  now. `TimerInv` says of the file on the disk, of the copy, of a read on its way and of what a locked
  section will write (`GoodFile`) that a timer which is on has its next moment and that what was queued is
  in the queue; and of the queue that a batch is there as a whole or not at all (`BatchesWhole`),
  which is why a trigger that finds one prompt of its occurrence after a crash may take it for queued.
  Every step but two only rewrites prompts (`Rewrites`), and those two file a batch (`Filed`). For the
  hold, `HoldInv` adds that the copy has on what the file has on, whenever nobody is between the two
  writes (`ReadingsAgree`), and that a service without a copy has nothing to hear of (`FirstWrite`). TLC
  checked both on 457 k states, and `TimerInv` on 1.2 M with `Races`.
- `FederationProofs!LinksStayAgreed`, `Spec => []LinksAgree`, from `FederationAssumption` (there is a
  process). `LinksAgree` says what hub and members see of each other at one moment, and is not
  inductive: `FederationInv` adds the types the handlers need (`LinkTypes`: the wires are sequences
  of frames, a page that is open has a link) and what lies between a step of one side and the news
  of it on the other. `HubBonds`: an entry of the map is a link of that device which the hub has not
  seen close, and what it serves or is saving is bound to its token, which is why a join code serves
  one machine although the binding is awaited. `MemberBonds`: a socket is a connection of that
  process which is not over, a timer runs only without one, and a link the member has opened is
  closed at the hub only after the member's side went or was lost. `AsideSame` shows that requests
  and pages touch none of it; the steps of a link have one lemma each. TLC checked `FederationInv` on
  the loads of `federation` first.
- `FederationProofs!StreamsTrue`, `Spec => []StreamsHold`, from the same assumption. `StreamsInv` rests on
  `FederationInv`. A number of a connection names one page, and that page no other (`NamesHold`),
  where a name is in the map of the hub, with the member, or in a frame that is still on a wire; so a
  frame that comes late for a stream that is gone is nobody's. While a stream lives, the texts of its
  page on a wire are those after what has come and up to what was sent (`InARow`, in `DownLane` and
  `UpLane`), the early queue counted as come. What is offered comes before the texts of its page and is
  new to the member (`OfferSide`), so that the number it comes under is free. For the local sockets: one that
  is open has its stream, or its process has left (`LocalSide`), and a process has streams only while
  it has a socket, or has left (`ProcessesHold`). A step touches one page at the most (`OneTouched`) or
  leaves all aside (`Untouched`, kept by `UntouchedKeeps`); there is one lemma for each step that delivers,
  sends or opens. TLC checked `StreamsInv` on the loads of `federation` (282 k states) first.

- `RecordsProofs!StallsTellTruth`, `WatchSpec => []WatchTellsTruth`, from `WatchAssumption` (loads are
  numbers). `WatchInv` adds that nothing that says of a turn that it is over runs ahead of the
  provider: neither the rollout nor a completion on the wire, which the client may hear late.
- `RecordsProofs!RecoveryIsWhole`, `RecoverySpec => []RecoveredAgrees`, from `SlashAssumption` and
  `ItemsAssumption`. That the answers agree after a recovery depends on what a crash may leave
  behind: `RecoveryInv` says of every state how prompts are linked (`TurnsHold`: to the prompt that
  began their turn, a command to itself at most, those of one turn in flight together), what the
  dispatch under way has written (`TaskHolds`), and how far each phase of a recovery has brought the
  files (`PhaseHolds`); `AnswersAgree` then only fails while the recovery is between its writes of
  prompts and of answers, which is where `torn` comes from. TLC checked `RecoveryInv` first.
- `BrowserProofs!DocumentsTrue`, `DocumentSpec => []DocumentHolds`, from `DocumentsAssumption` (documents are
  numbered, chunks and loads are numbers). `DocumentInv` says what a call may still do to the page:
  it is the only one of its attempt; one that was not aborted and is of the page's attempt and epoch asks
  for the next chunk of the version that is shown, or for the document that is wanted (`WantedHolds`);
  an open that may still land finds no document (`CallHolds`); and the bytes a chunk has read lie
  between the version it was asked for and that of the file, and are of the former when they are sent
  (`BytesHold`), which is why a file that is saved between `stat` and `read` never shows.
- `BrowserProofs!KeysTrue`, `InputSpec => []KeysArrive`, from `InputAssumption`. `InputInv` is a lane for
  each page: the keys the server has come before those on the wire, these before those in the
  coalescer, these before those held back, and these before the next one (`LaneHolds`); only a page
  that waits for its stream holds keys back (`HeldHolds`), so that what goes out at
  once overtakes nothing. Held keys are pushed in slices: each frame is the next piece of what
  the buffer and the held keys are together (`LaneSlices`, `LanePushes`). Keys whose tab is being looked up came, are disjoint, and are not typed yet
  (`LookingHolds`, `TypedHolds`), wherefore nothing is typed twice. For the lease: the last lease frame
  on its way to a subscriber, or what it believes when there is none, is the truth (`LeaseHolds`). TLC
  checked `InputInv` on the loads of the run, 0.75 M states, and on larger ones to depth 15.

- `BrowserProofs!SidebarTrue`, `IndexSpec => []SidebarIsTrue`, from `IndexAssumption` (loads are numbers).
  `IndexInv` says that the index only grows, so that two revisions that say the same leave no
  room for a third between them (`AsLastOnward`); that every message says what its revision says, or what it
  changed of the one it names (`MessagesTrue`, `SendsTrue`); that the page shows a revision but for its
  own preferences (`ShownTrue`, `PreferHolds`); and that no subscription claims more than the page
  holds (`ClaimsHold`), so that one that is answered with nothing since the claim is right leaves
  nothing out. What it comes to is `WillSettle`: a connected page holds a revision that says what the last one
  says, or one is on its way, or its subscription is yet to be answered with one. TLC checked
  `IndexInv` on 2.5 M states first, and found the case that `nav.unsaid` excepts.

What the attempts showed about the models. `SidebarCatchesUp` was false beyond the loads of the run: the
invariant that was to prove it led to the empty answer of the divergences, and the run has a load
that reaches it now. Overlapping guards of CASE in `ProviderTurns` (two) and in
`Projection` (`Verdict`) meant that TLC's order of evaluation chose where the code's `if ... else`
does; they are exclusive now. In `DocumentView!MayLand` two calls that were both aborted waited for each
other for ever, so that nothing after them landed; an aborted call now waits only for those made
before it, and the run explores what comes after.

Only model-checked: liveness and fairness, which this prover does not reach, as it does not reach
ENABLED and what a recursion computes for every input (`HistoryIsWhole`, `SyncIsIdempotent`, the
deltas); the schedules over a clock that jumps (`FirstAfterNow`); and the other safety properties. Some of those are true only of the calls a
run allows, as attempts to find their inductive invariant showed, and no theorem could say more:

- `NoDoubleTurn` needs that nobody switches the conversation while a turn of another one is retried;
- the first half of `DeliveredRecords`, that what completed was delivered, needs that no interrupted
  prompt is deleted or put back before its loop has recorded it;
- `RunnerMatchesLoop` needs one request at a time (see the hazard at `queue.ts:286`);
- `DirectoryCurrent` needs that a device which was removed does not come back with another token
  while its old link closes;
- the way back needs a calm load: a prompt typed by hand into the thread that is left, between the
  look at the rollouts and the bind, is not what the tab remembers. Hence the premise `left.calm`.

## 5. Not modelled, and what is next

Left out within the parts above: retention and export, importing a whole session into a new tab,
parsing of transcripts and screens, presets and validation messages, the federation's registry file
over a restart of the hub, what a member's own page asks of other machines, the limit of sockets per
link, deltas of answers and of the runtime (they follow the guards of prompts), colours and cell
attributes, spawning of processes and their environment, the cryptography itself, the delays of the
staggered restore, approvals by RPC.

Left out altogether: which paths a document may have, static files, logs, the browser automation, settings files of
providers, translations, rendering and styles: file, process and screen I/O in which no state is
shared between steps.

Worth proving next: the second half of `DeliveredRecords` (what runs was delivered) from `TypeInv` and
`OwnershipHolds`; `ChannelHolds` for the handshakes that do not
cross a change of the key.
