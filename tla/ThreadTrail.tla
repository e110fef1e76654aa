------------------------------ MODULE ThreadTrail ------------------------------
(***************************************************************************)
(* Codex over an App Server: the terminal reaches it through a bridge that *)
(* notices which thread it selects (tui-proxy.ts, tui-protocol.ts), the    *)
(* tab follows (terminal-thread-sync.ts, scheduleThreadSwitch), and what   *)
(* it remembers leads back to a conversation on disk after a restart       *)
(* (codex-thread-fallback.ts).  A thread has a rollout on disk only after  *)
(* its first prompt.  The App Server and the terminal are external.        *)
(***************************************************************************)
EXTENDS Integers, Sequences

CONSTANTS MaxThreads,  \* threads there can be
          TrailLoads   \* calm; bounds: opens, saved, reopens, restarts, asks, errors, prompts, breaks, starts, pauses

ASSUME ThreadsAssumption == MaxThreads \in Nat \ {0}
ASSUME TrailAssumption ==
  TrailLoads \subseteq [calm : BOOLEAN, opens : Nat, saved : Nat, reopens : Nat, restarts : Nat, asks : Nat,
                        errors : Nat, prompts : Nat, breaks : Nat, starts : Nat, pauses : Nat]

VARIABLES
  saved,   \* threads with a rollout
  bound,   \* the tab's session: state, threadId, lastDurableThreadId, lastThreadSwitch.fromThreadId
  server,  \* the App Server's manager (0 for none), its threads, and the bridge to it
  tui,     \* the thread the terminal shows, and its requests under way
  gate,    \* InitialTuiThreadGate
  moves,   \* threadSwitches: selections to follow, in order
  sync,    \* syncTerminalThreadSelection of the first of them
  op,      \* the open or reopen under way
  told,    \* turn events that wait for the switches
  queue,   \* whether the queue is to run, and whether the user wants it to
  home,    \* the conversation the tab was on last that has a rollout
  left     \* what is left of the load

trailVars == <<saved, bound, server, tui, gate, moves, sync, op, told, queue, home, left>>

NoThread == 0
NoServer == [mgr |-> 0, count |-> 0, born |-> 0, loaded |-> {}, bridge |-> "closed"]
NoTui == [shown |-> NoThread, asks |-> {}]
NoGate == [state |-> "off", first |-> NoThread, queued |-> <<>>]
NoBound == [state |-> "none", thread |-> NoThread, last |-> NoThread, from |-> NoThread]
NoSync == [pc |-> "none", done |-> 0, was |-> NoBound, from |-> NoThread, last |-> NoThread, resumes |-> FALSE]
NoCall == [pc |-> "none", kind |-> "none", thread |-> NoThread, upto |-> 0, was |-> NoBound]
Needs(what) == left[what] > 0 /\ left' = [left EXCEPT ![what] = @ - 1]
LastMove == sync.done + Len(moves)
Followed(upto) == sync.done >= upto
Draining == gate.state = "active" /\ gate.queued # <<>>
\* In a calm load the user selects nothing while the tab is launched or the gate forwards, and
\* launches nothing, types no prompt and leaves the queue's buttons alone while one is followed.
Still == left.calm => moves = <<>>
Steady == Still /\ (left.calm => tui.asks = {} /\ ~ Draining)
Composed == left.calm => ~ Draining /\ (op.pc = "none" \/ gate.state = "binding")

-----------------------------------------------------------------------------
\* What a tab remembers.

FirstSaved(threads) ==
  LET found == {i \in DOMAIN threads : threads[i] \in saved}
  IN IF found = {} THEN NoThread ELSE threads[CHOOSE i \in found : \A j \in found : i <= j]
\* resolveSavedCodexThread.
Resumed(b) == FirstSaved(<<b.thread, b.last, b.from>>)
\* durableThreadOrigin.
Origin(b) == IF b.thread \notin saved /\ b.from # NoThread THEN b.from ELSE b.thread
\* rememberDurableThread; the mutant keeps what it remembers before it looks at the threads.
RememberedOld(b, t) == FirstSaved(<<b.last, t, b.thread, b.from>>)
Remembered(b, t) ==
  LET found == FirstSaved(<<t, b.thread, b.last, b.from>>) IN IF found = NoThread THEN b.last ELSE found
\* The tab after a prompt or a bind: the conversation it can come back to.
Home(b, s) == IF b.thread \in s THEN b.thread ELSE home

\* rememberCurrentDurableThread, after a turn's event has waited for the switches it found; the mutant
\* does not ask whether the tab has moved on.
OnAnyThread(b, t) == TRUE
OnThread(b, t) == b.thread = t
Remembers ==
  /\ \E e \in told :
       /\ Followed(e.upto) /\ told' = told \ {e}
       /\ bound' = IF server.mgr = e.mgr /\ OnThread(bound, e.thread) /\ e.thread \in saved
                   THEN [bound EXCEPT !.last = e.thread] ELSE bound
  /\ UNCHANGED <<saved, server, tui, gate, moves, sync, op, queue, home, left>>

-----------------------------------------------------------------------------
\* The bridge.

BridgeOpens ==
  /\ server.bridge = "connecting" /\ server' = [server EXCEPT !.bridge = "open"]
  /\ UNCHANGED <<saved, bound, tui, gate, moves, sync, op, told, queue, home, left>>
\* closeBoth: either side is lost, or too much was held back.
BridgeBreaks ==
  /\ server.bridge # "closed" /\ Needs("breaks")
  /\ server' = [server EXCEPT !.bridge = "closed"] /\ tui' = [tui EXCEPT !.asks = {}]
  /\ gate' = IF gate.state \in {"waiting", "binding"} THEN [gate EXCEPT !.state = "failed"] ELSE gate
  /\ UNCHANGED <<saved, bound, moves, sync, op, told, queue, home>>
\* observeClientMessage: the user selects a thread in the terminal; a start is as a fork.
TuiAsks ==
  /\ server.bridge # "closed" /\ tui.shown # NoThread /\ Composed /\ Needs("asks")
  /\ \E m \in {"thread/resume", "thread/fork"} :
     \E t \in (IF m = "thread/resume" THEN saved \cup server.loaded ELSE {tui.shown}) :
       tui' = [tui EXCEPT !.asks = @ \cup {[id |-> left.asks, method |-> m, thread |-> t]}]
  /\ UNCHANGED <<saved, bound, server, gate, moves, sync, op, told, queue, home>>

Selects(t, gated) == Append(moves, [mgr |-> server.mgr, thread |-> t, gated |-> gated])
\* InitialTuiThreadGate.observe; the mutant forgets what comes while the first thread is bound.
HeldBackNot(t) == gate
HeldBack(t) == [gate EXCEPT !.queued = Append(@, t)]
Observed(method, t) ==
  \/ gate.state \in {"off", "active"} /\ moves' = Selects(t, FALSE) /\ UNCHANGED gate
  \/ /\ gate.state = "waiting" /\ UNCHANGED moves
     /\ gate' = IF method = "thread/start" THEN [gate EXCEPT !.state = "binding", !.first = t]
                ELSE [gate EXCEPT !.state = "failed"]
  \/ gate.state = "binding" /\ gate' = HeldBack(t) /\ UNCHANGED moves
  \/ gate.state = "failed" /\ UNCHANGED <<gate, moves>>
\* The App Server answers: the terminal shows the thread, and the bridge sees it.
Answers ==
  /\ server.bridge = "open" /\ (left.calm => ~ Draining)
  /\ \E a \in tui.asks :
       LET fresh == a.method # "thread/resume"
           t == IF fresh THEN server.born + 1 ELSE a.thread
       IN /\ t <= MaxThreads
          /\ tui' = [shown |-> t, asks |-> tui.asks \ {a}]
          /\ server' = [server EXCEPT !.born = IF fresh THEN t ELSE @, !.loaded = @ \cup {t}]
          /\ Observed(a.method, t)
  /\ UNCHANGED <<saved, bound, sync, op, told, queue, home, left>>
\* A request is refused: no selection; the mutant takes the thread that was asked for.
RefusedSelects(a) == Observed(a.method, a.thread)
RefusedIsNone(a) == UNCHANGED <<gate, moves>>
Refuses ==
  /\ server.bridge = "open" /\ tui.shown # NoThread /\ Needs("errors")
  /\ \E a \in tui.asks : tui' = [tui EXCEPT !.asks = @ \ {a}] /\ RefusedIsNone(a)
  /\ UNCHANGED <<saved, bound, server, sync, op, told, queue, home>>
\* wait() gives up on a terminal that is too slow or has exited.
GateGivesUp ==
  /\ gate.state = "waiting" /\ Needs("breaks") /\ gate' = [gate EXCEPT !.state = "failed"]
  /\ UNCHANGED <<saved, bound, server, tui, moves, sync, op, told, queue, home>>
\* activate() goes on with what was held back, each after the one before has been followed.
GateForwards ==
  /\ Draining /\ \A i \in 1..Len(moves) : ~ moves[i].gated
  /\ moves' = Selects(Head(gate.queued), TRUE) /\ gate' = [gate EXCEPT !.queued = Tail(@)]
  /\ UNCHANGED <<saved, bound, server, tui, sync, op, told, queue, home, left>>

-----------------------------------------------------------------------------
\* scheduleThreadSwitch with syncTerminalThreadSelection: one selection at a time.

Move == Head(moves)
IsCurrent == server.mgr = Move.mgr
MoveEnds == moves' = Tail(moves) /\ sync' = [NoSync EXCEPT !.done = sync.done + 1]
At(pc) == moves # <<>> /\ sync.pc = pc
SyncReads ==
  /\ At("none")
  /\ IF IsCurrent /\ bound.state = "ready" /\ bound.thread \notin {NoThread, Move.thread}
     THEN sync' = [sync EXCEPT !.pc = "read", !.was = bound, !.resumes = queue.rolls] /\ UNCHANGED moves
     ELSE MoveEnds
  /\ UNCHANGED <<saved, bound, server, tui, gate, op, told, queue, home, left>>
\* freeze(): from here on the queue sends nothing to the thread that is left.
SyncFreezes ==
  /\ At("read") /\ queue' = [queue EXCEPT !.rolls = FALSE]
  /\ IF IsCurrent THEN sync' = [sync EXCEPT !.pc = "frozen"] /\ UNCHANGED moves ELSE MoveEnds
  /\ UNCHANGED <<saved, bound, server, tui, gate, op, told, home, left>>
\* The rollouts are looked up.
SyncProbes ==
  /\ At("frozen")
  /\ sync' = [sync EXCEPT !.pc = "probed", !.from = Origin(sync.was), !.last = Remembered(sync.was, Move.thread)]
  /\ UNCHANGED <<saved, bound, server, tui, gate, moves, op, told, queue, home, left>>
SyncBinds ==
  /\ At("probed") /\ sync' = [sync EXCEPT !.pc = "bound"]
  /\ bound' = [state |-> "ready", thread |-> Move.thread, last |-> sync.last, from |-> sync.from]
  /\ home' = Home(bound', saved)
  /\ UNCHANGED <<saved, server, tui, gate, moves, op, told, queue, left>>
\* The thread is resumed and its history read, or that fails; the finally handler lets the queue run
\* again.  The mutant leaves it frozen.
RollsAgainNot(ok) == FALSE
RollsAgain(ok) == sync.resumes /\ IsCurrent /\ (ok \/ bound.state = "ready")
SyncEnds ==
  /\ At("bound") /\ MoveEnds
  /\ \E ok \in {x \in BOOLEAN : x \/ left.errors > 0} :
       /\ left' = IF ok THEN left ELSE [left EXCEPT !.errors = @ - 1]
       /\ server' = IF ok /\ IsCurrent THEN [server EXCEPT !.loaded = @ \cup {Move.thread}] ELSE server
       /\ queue' = [queue EXCEPT !.rolls = @ \/ RollsAgain(ok)]
  /\ UNCHANGED <<saved, bound, tui, gate, op, told, home>>

-----------------------------------------------------------------------------
\* Opening and reopening.

\* The session route or the reopen is called, and waits for the switches under way.
Called(kind, t) ==
  /\ op.pc = "none" /\ Steady
  /\ op' = [pc |-> "wait", kind |-> kind, thread |-> t, upto |-> LastMove, was |-> bound]
  /\ UNCHANGED <<saved, bound, server, tui, gate, moves, sync, told, queue, home>>
CallsNew == bound.state # "ready" /\ Needs("opens") /\ Called("new", NoThread)
CallsSaved == bound.state # "ready" /\ Needs("saved") /\ \E t \in saved : Called("saved", t)
CallsReopen == bound.thread # NoThread /\ Needs("reopens") /\ Called("reopen", NoThread)
\* What runs is stopped.
Halted(s) == [s EXCEPT !.mgr = 0, !.loaded = {}, !.bridge = "closed"]
CallBegins ==
  /\ op.pc = "wait" /\ Followed(op.upto)
  /\ server' = Halted(server) /\ tui' = NoTui /\ gate' = NoGate
  /\ bound' = [bound EXCEPT !.state = "connecting"]
  /\ op' = [op EXCEPT !.pc = "begun", !.was = IF op.kind = "reopen" THEN bound ELSE @]
  /\ UNCHANGED <<saved, moves, sync, told, queue, home, left>>
\* resolveCodexResumeThread with its write, and the launch of server, bridge and terminal, which
\* selects a thread first of all.
Launched(ask, g) ==
  /\ server' = [server EXCEPT !.mgr = server.count + 1, !.count = @ + 1, !.bridge = "connecting"]
  /\ tui' = [NoTui EXCEPT !.asks = {ask}] /\ gate' = g
CallLaunches ==
  /\ op.pc = "begun" /\ op' = [op EXCEPT !.pc = "launched", !.thread = IF op.kind = "reopen" THEN Resumed(op.was) ELSE @]
  /\ \/ op.kind = "new" /\ UNCHANGED bound
        /\ Launched([id |-> 0, method |-> "thread/start", thread |-> NoThread], [NoGate EXCEPT !.state = "waiting"])
     \/ op.kind # "new" /\ op'.thread # NoThread
        /\ Launched([id |-> 0, method |-> "thread/resume", thread |-> op'.thread], NoGate)
        /\ bound' = IF op.kind = "saved" THEN bound
                    ELSE IF op'.thread = op.was.thread THEN [bound EXCEPT !.last = op'.thread]
                    ELSE [bound EXCEPT !.thread = op'.thread, !.last = op'.thread, !.from = NoThread]
  /\ home' = IF op.kind = "reopen" THEN Home(bound', saved) ELSE home
  /\ UNCHANGED <<saved, moves, sync, told, queue, left>>
\* The terminal has its thread and the tab is ready.
Begun(t) == [state |-> "ready", thread |-> t, last |-> IF t \in saved THEN t ELSE NoThread, from |-> NoThread]
CallReadies ==
  /\ op.pc = "launched"
  /\ \/ /\ op.kind = "new" /\ gate.state = "binding" /\ op' = [op EXCEPT !.pc = "active"]
        /\ bound' = Begun(gate.first) /\ home' = IF gate.first \in saved THEN gate.first ELSE NoThread
     \/ /\ op.kind = "saved" /\ op.thread \in server.loaded /\ op' = NoCall
        /\ bound' = Begun(op.thread) /\ home' = op.thread
     \/ /\ op.kind = "reopen" /\ op.thread \in server.loaded /\ op' = NoCall
        /\ bound' = [bound EXCEPT !.state = "ready"] /\ UNCHANGED home
  /\ UNCHANGED <<saved, server, tui, gate, moves, sync, told, queue, left>>
GateActivates ==
  /\ op.pc = "active" /\ gate.state = "binding"
  /\ gate' = [gate EXCEPT !.state = "active", !.queued = IF @ = <<>> THEN @ ELSE Tail(@)]
  /\ moves' = IF gate.queued = <<>> THEN moves ELSE Selects(Head(gate.queued), TRUE)
  /\ op' = NoCall
  /\ UNCHANGED <<saved, bound, server, tui, sync, told, queue, home, left>>
\* The catch: nothing to resume, a terminal that never selects a thread, a bridge that broke.
Hopeless ==
  \/ op.pc = "begun" /\ op.kind = "reopen" /\ Resumed(op.was) = NoThread
  \/ op.pc = "launched" /\ (gate.state = "failed" \/ server.bridge = "closed")
  \/ op.pc = "active" /\ gate.state = "failed"
CallFails ==
  /\ Hopeless /\ op' = NoCall
  /\ bound' = [bound EXCEPT !.state = IF op.kind = "reopen" \/ op.was.state = "closed" THEN "closed" ELSE "error"]
  /\ server' = Halted(server) /\ tui' = NoTui
  /\ UNCHANGED <<saved, gate, moves, sync, told, queue, home, left>>

-----------------------------------------------------------------------------
\* Prompts, the queue, restarts.

\* A thread's first prompt creates its rollout.
Prompted(t) ==
  /\ saved' = saved \cup {t} /\ home' = Home(bound, saved')
  /\ told' = told \cup {[mgr |-> server.mgr, thread |-> t, upto |-> LastMove]}
  /\ UNCHANGED <<bound, server, tui, gate, moves, sync, op, queue>>
TuiTypes ==
  server.bridge = "open" /\ tui.shown \in server.loaded /\ Still /\ Needs("prompts") /\ Prompted(tui.shown)
QueueSends ==
  queue.rolls /\ bound.state = "ready" /\ bound.thread \in server.loaded /\ Needs("prompts") /\ Prompted(bound.thread)
QueueStarts ==
  /\ bound.state = "ready" /\ Still /\ Needs("starts") /\ queue' = [rolls |-> TRUE, meant |-> TRUE]
  /\ UNCHANGED <<saved, bound, server, tui, gate, moves, sync, op, told, home>>
QueuePauses ==
  /\ queue.meant /\ Still /\ Needs("pauses") /\ queue' = [rolls |-> FALSE, meant |-> FALSE]
  /\ UNCHANGED <<saved, bound, server, tui, gate, moves, sync, op, told, home>>
\* The server is started again; the recovery pauses the queue.
Restarts ==
  /\ Needs("restarts")
  /\ server' = Halted(server) /\ tui' = NoTui /\ gate' = NoGate /\ moves' = <<>> /\ sync' = NoSync
  /\ op' = NoCall /\ told' = {} /\ queue' = [rolls |-> FALSE, meant |-> FALSE]
  /\ bound' = [bound EXCEPT !.state = IF @ = "none" THEN @ ELSE "closed"]
  /\ UNCHANGED <<saved, home>>

TrailInit ==
  /\ left \in TrailLoads
  /\ saved = {1} /\ bound = NoBound
  /\ server = [NoServer EXCEPT !.born = 1] /\ tui = NoTui /\ gate = NoGate /\ moves = <<>> /\ sync = NoSync
  /\ op = NoCall /\ told = {} /\ queue = [rolls |-> FALSE, meant |-> FALSE] /\ home = NoThread
TrailNext ==
  \/ Remembers \/ BridgeOpens \/ BridgeBreaks \/ TuiAsks \/ Answers \/ Refuses \/ GateGivesUp \/ GateForwards
  \/ SyncReads \/ SyncFreezes \/ SyncProbes \/ SyncBinds \/ SyncEnds
  \/ CallsNew \/ CallsSaved \/ CallsReopen \/ CallBegins \/ CallLaunches \/ CallReadies \/ GateActivates \/ CallFails
  \/ TuiTypes \/ QueueSends \/ QueueStarts \/ QueuePauses \/ Restarts
TrailSpec == TrailInit /\ [][TrailNext]_trailVars

-----------------------------------------------------------------------------
\* Whatever is selected, in whatever order and with whatever restart in between, the tab leads back to
\* the conversation it was on last, also over a chain of threads nobody ever wrote to.
WayBack == home # NoThread => Resumed(bound) = home

AtEase ==
  moves = <<>> /\ gate.queued = <<>> /\ op.pc = "none" /\ bound.state = "ready" /\ server.bridge = "open"
\* Once the selections are followed, the tab is on the thread the terminal shows.
TerminalFollowed == left.calm /\ AtEase => bound.thread = tui.shown
\* A queue the user wants to run does so again.
QueueRollsOn == left.calm /\ AtEase /\ queue.meant => queue.rolls

TrailTypes ==
  /\ saved \subseteq 1..MaxThreads /\ {bound.thread, bound.last, bound.from} \subseteq 0..MaxThreads
  /\ bound.state \in {"none", "connecting", "ready", "closed", "error"}
  /\ sync.pc # "none" => moves # <<>>

\* The tab follows the terminal's selections, and none costs it the way back or the queue's start
\* (syncTerminalThreadSelection, InitialTuiThreadGate, codex-thread-fallback.ts).
SelectionsAreFollowed == TrailTypes /\ WayBack /\ TerminalFollowed /\ QueueRollsOn
=============================================================================
