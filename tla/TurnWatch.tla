-------------------------------- MODULE TurnWatch --------------------------------
(***************************************************************************)
(* How the queue learns that a turn of the Codex App Server has ended      *)
(* (codex.ts: CodexRpcClient; app.ts: sweepStalledTurns; turn-stall.ts),   *)
(* for one thread.  There are three ways: the notification, which may go   *)
(* to the TUI instead; the summary, polled, which may stay unsettled; and  *)
(* the rollout, which is asked when it has stopped growing.  Codex is      *)
(* external.  Turns are numbered as they begin.                            *)
(***************************************************************************)
EXTENDS Integers, Sequences

CONSTANTS Patience,    \* sweeps without growth before a turn is called out (TURN_STALL_MS)
          WatchLoads   \* what to start from, and bounds: prompts, typed turns, growth, notifications lost, cuts, failures

ASSUME PatienceAssumption == Patience \in Nat \ {0}
ASSUME WatchAssumption == WatchLoads \subseteq [stuck : BOOLEAN, joined : BOOLEAN, prompts : Nat, typed : Nat, works : Nat,
                                               lost : Nat, cuts : Nat, fails : Nat]

VARIABLES
  codex,     \* the turn that runs, those over, the rollout's size, those it says are over, the summary
  line,      \* the socket: up, joined to the thread, the subscription asked for, messages on their way
  rpc,       \* turns and completed of the client, and whether the thread is in activeThreads
  wait,      \* where the queue stands, its turn, and lastSettledSummaryKey
  runner,    \* activeTurnId, and the turn stalledSince was decided about
  sweep,     \* sweepStalledTurns between its awaits
  progress,  \* RolloutProgress: the size, and the sweeps since it changed
  load      \* what is left of the load

watchVars == <<codex, line, rpc, wait, runner, sweep, progress, load>>

Unknown == -1
\* awaitSubscription: nothing asked for is nothing to wait for.
MayPass == line.sub \in {"none", "landed"}
Draws(what) == load[what] > 0 /\ load' = [load EXCEPT ![what] = @ - 1]
NoWait == [step |-> "rest", turn |-> 0, key |-> Unknown]
NoSweep == [step |-> "rest", turn |-> 0, was |-> 0, action |-> "none"]

-----------------------------------------------------------------------------
\* Codex.

NextTurn == codex.begun + 1
Told(msgs) == IF line.up THEN [line EXCEPT !.wire = @ \o msgs] ELSE line
Heard(kind, turn) == IF line.joined THEN <<[kind |-> kind, turn |-> turn]>> ELSE <<>>

NowRuns == codex' = [codex EXCEPT !.begun = @ + 1, !.turn = NextTurn, !.settled = FALSE]
\* A turn typed in the TUI.
Typed ==
  /\ codex.turn = 0 /\ line.up /\ Draws("typed") /\ NowRuns
  /\ line' = Told(Heard("started", NextTurn))
  /\ UNCHANGED <<rpc, wait, runner, sweep, progress>>
\* turn/start; a thread this connection never joined may be refused.
StartsTurn ==
  /\ wait.step = "sent" /\ MayPass /\ line.up /\ codex.turn = 0 /\ NowRuns
  /\ line' = Told(<<[kind |-> "reply", turn |-> NextTurn]>> \o Heard("started", NextTurn))
  /\ wait' = [wait EXCEPT !.step = "starting"]
  /\ UNCHANGED <<rpc, runner, sweep, progress, load>>
Works ==
  /\ codex.turn # 0 /\ Draws("works")
  /\ codex' = [codex EXCEPT !.size = @ + 1]
  /\ UNCHANGED <<line, rpc, wait, runner, sweep, progress>>
\* The completion reaches this connection, or is routed to the TUI.
TurnEnds ==
  /\ codex.turn # 0
  /\ codex' = [codex EXCEPT !.turn = 0, !.over = @ \cup {codex.turn}]
  /\ \/ line' = Told(Heard("completed", codex.turn)) /\ UNCHANGED load
     \/ Draws("lost") /\ UNCHANGED line
  /\ UNCHANGED <<rpc, wait, runner, sweep, progress>>
WritesEnd ==
  /\ codex.over # codex.file
  /\ codex' = [codex EXCEPT !.size = @ + 1, !.file = codex.over]
  /\ UNCHANGED <<line, rpc, wait, runner, sweep, progress, load>>
SummarySettles ==
  /\ codex.turn = 0 /\ ~ codex.settled /\ ~ codex.stuck
  /\ codex' = [codex EXCEPT !.settled = TRUE, !.rev = @ + 1]
  /\ UNCHANGED <<line, rpc, wait, runner, sweep, progress, load>>

-----------------------------------------------------------------------------
\* The client.

AwaitedHere(turn) == turn \in rpc.turns \ rpc.done
RememberCompletedTurn(turn) ==
  IF turn \in rpc.done THEN rpc
  ELSE [rpc EXCEPT !.turns = @ \ {turn}, !.done = @ \cup {turn}, !.active = FALSE]
Known(turn) == [rpc EXCEPT !.turns = @ \cup {turn}, !.active = TRUE]

Message ==
  /\ line.wire # <<>>
  /\ line' = [line EXCEPT !.wire = Tail(@)]
  /\ LET m == Head(line.wire) IN
     /\ rpc' = IF m.kind = "completed" THEN RememberCompletedTurn(m.turn) ELSE Known(m.turn)
     /\ wait' = IF m.kind = "reply" THEN [wait EXCEPT !.step = "told", !.turn = m.turn] ELSE wait
  /\ UNCHANGED <<codex, runner, sweep, progress, load>>

\* The rollout says which turns are over; the mutant takes a turn it finds there for one.
FinishedAny(turn) == turn \in 1..codex.begun
Finished(turn) == turn \in codex.file

\* subscribeInBackground, when the tab is opened on this connection.
Subscribes ==
  /\ line.up /\ line.sub = "none"
  /\ line' = [line EXCEPT !.sub = "waiting"]
  /\ UNCHANGED <<codex, rpc, wait, runner, sweep, progress, load>>
Subscribed ==
  /\ line.sub = "waiting"
  /\ \/ line.up /\ line' = [line EXCEPT !.sub = "landed", !.joined = TRUE] /\ UNCHANGED load
     \/ Draws("fails") /\ line' = [line EXCEPT !.sub = "failed"]
  /\ UNCHANGED <<codex, rpc, wait, runner, sweep, progress>>

\* The socket dies and takes the server with it (discardAfterDisconnect): requests under way fail,
\* a turn is not recorded any further; the subscriptions are kept.
Cut ==
  /\ line.up /\ Draws("cuts")
  /\ line' = [line EXCEPT !.up = FALSE, !.joined = FALSE, !.wire = <<>>, !.sub = IF @ = "waiting" THEN "failed" ELSE @]
  /\ codex' = [codex EXCEPT !.turn = 0, !.settled = TRUE, !.rev = @ + 1]
  /\ wait' = IF wait.step \in {"sent", "starting"} THEN NoWait ELSE wait
  /\ UNCHANGED <<rpc, runner, sweep, progress>>
\* ensureReady of the route that syncs the history.
Reconnects ==
  /\ ~ line.up /\ line' = [line EXCEPT !.up = TRUE]
  /\ UNCHANGED <<codex, rpc, wait, runner, sweep, progress, load>>

-----------------------------------------------------------------------------
\* The queue.

Moves(step) == wait' = [wait EXCEPT !.step = step]
OnlyWait == UNCHANGED <<codex, line, rpc, runner, sweep, progress>>

WaitsForIdle == wait.step = "rest" /\ Draws("prompts") /\ Moves("idle") /\ OnlyWait
\* waitForThreadIdle: at once, or by the summary.
FindsIdle ==
  /\ wait.step = "idle" /\ MayPass
  /\ \/ ~ rpc.active /\ UNCHANGED rpc
     \/ rpc.active /\ line.up /\ codex.settled /\ rpc' = [rpc EXCEPT !.active = FALSE]
  /\ Moves("sent") /\ UNCHANGED <<codex, line, runner, sweep, progress, load>>
\* The subscription never landed, the socket is down, or the thread is not loaded in this server.
Refused ==
  /\ \/ wait.step \in {"idle", "sent"} /\ line.sub = "failed"
     \/ wait.step = "sent" /\ (~ line.up \/ ~ line.joined)
  /\ wait' = NoWait /\ OnlyWait /\ UNCHANGED load
\* setRunnerState("running"), and the wait begins.
SetsRunning ==
  /\ wait.step = "told" /\ Moves("notify")
  /\ runner' = [turn |-> wait.turn, stalled |-> 0]
  /\ UNCHANGED <<codex, line, rpc, sweep, progress, load>>
\* The summary's key is kept before the read, and forgotten when the thread works again.
PollSummary ==
  /\ wait.step = "notify" /\ wait.turn \in rpc.turns /\ line.up
  /\ \/ ~ codex.settled /\ wait.key # Unknown /\ wait' = [wait EXCEPT !.key = Unknown]
     \/ codex.settled /\ wait.key # codex.rev /\ wait' = [wait EXCEPT !.key = codex.rev, !.step = "read"]
  /\ OnlyWait /\ UNCHANGED load
ReadSettledTurns ==
  /\ wait.step = "read" /\ Moves("notify")
  /\ \/ /\ rpc' = IF Finished(wait.turn) THEN RememberCompletedTurn(wait.turn) ELSE rpc
        /\ UNCHANGED load
     \/ Draws("fails") /\ UNCHANGED rpc
  /\ UNCHANGED <<codex, line, runner, sweep, progress>>
\* waitForTurn returns, and clearActive follows.
Returns ==
  /\ wait.step = "notify" /\ wait.turn \in rpc.done
  /\ wait' = NoWait /\ runner' = [turn |-> 0, stalled |-> 0]
  /\ UNCHANGED <<codex, line, rpc, sweep, progress, load>>

-----------------------------------------------------------------------------
\* The sweep.

\* decideStall, of a turn that works; the mutant looks at the mark before it looks at the file.
DecideStallOnce(quiet, was) == IF was # 0 \/ quiet < Patience THEN "none" ELSE "mark"
DecideStall(quiet, was) ==
  IF quiet < Patience THEN IF was # 0 THEN "clear" ELSE "none"
  ELSE IF was # 0 THEN "none" ELSE "mark"

Quieter == IF progress.quiet < Patience THEN progress.quiet + 1 ELSE Patience
\* Time passes until the sweep; a runner with no turn has nothing to look at.
SweepReads ==
  /\ sweep.step = "rest"
  /\ progress' = [progress EXCEPT !.quiet = Quieter]
  /\ sweep' = IF runner.turn = 0 THEN NoSweep
              ELSE [step |-> "stat", turn |-> runner.turn, was |-> runner.stalled, action |-> "none"]
  /\ UNCHANGED <<codex, line, rpc, wait, runner, load>>
NoteRolloutSize == IF progress.size = codex.size THEN progress ELSE [size |-> codex.size, quiet |-> 0]
SweepStats ==
  /\ sweep.step = "stat" /\ progress' = NoteRolloutSize
  /\ sweep' = LET a == DecideStall(progress'.quiet, sweep.was)
              IN IF a = "none" THEN NoSweep
                 ELSE [sweep EXCEPT !.action = a, !.step = IF a = "mark" THEN "settle" ELSE "write"]
  /\ UNCHANGED <<codex, line, rpc, wait, runner, load>>
\* settleTurnFromRollout.
SweepSettles ==
  /\ sweep.step = "settle"
  /\ IF AwaitedHere(sweep.turn) /\ Finished(sweep.turn)
     THEN rpc' = RememberCompletedTurn(sweep.turn) /\ sweep' = NoSweep
     ELSE sweep' = [sweep EXCEPT !.step = "write"] /\ UNCHANGED rpc
  /\ UNCHANGED <<codex, line, wait, runner, progress, load>>
\* Under the lock the turn may be another; the mutant does not look.
StillOnAny == TRUE
StillOn == runner.turn = sweep.turn
SweepWrites ==
  /\ sweep.step = "write" /\ sweep' = NoSweep
  /\ runner' = IF StillOn THEN [runner EXCEPT !.stalled = IF sweep.action = "mark" THEN sweep.turn ELSE 0] ELSE runner
  /\ UNCHANGED <<codex, line, rpc, wait, progress, load>>

-----------------------------------------------------------------------------
WatchInit ==
  /\ load \in WatchLoads
  /\ codex = [begun |-> 0, turn |-> 0, over |-> {}, size |-> 0, file |-> {}, settled |-> TRUE, rev |-> 0, stuck |-> load.stuck]
  /\ line = [up |-> TRUE, joined |-> load.joined, sub |-> IF load.joined THEN "landed" ELSE "none", wire |-> <<>>]
  /\ rpc = [turns |-> {}, done |-> {}, active |-> FALSE]
  /\ wait = NoWait /\ runner = [turn |-> 0, stalled |-> 0]
  /\ sweep = NoSweep /\ progress = [size |-> Unknown, quiet |-> Patience]

External == Typed \/ StartsTurn \/ Works \/ TurnEnds \/ WritesEnd \/ SummarySettles \/ Cut
Client == Message \/ Subscribes \/ Subscribed \/ Reconnects
Queue == WaitsForIdle \/ FindsIdle \/ Refused \/ SetsRunning \/ PollSummary \/ ReadSettledTurns \/ Returns
Sweep == SweepReads \/ SweepStats \/ SweepSettles \/ SweepWrites
WatchNext == External \/ Client \/ Queue \/ Sweep
WatchSpec == WatchInit /\ [][WatchNext]_watchVars

\* The server writes and answers, messages arrive, requests are answered or fail, timers fire.  No
\* turn need end, no typed one begin, and nobody need open the tab or reconnect.
WatchFairness ==
  /\ WF_watchVars(StartsTurn) /\ WF_watchVars(WritesEnd) /\ WF_watchVars(SummarySettles)
  /\ WF_watchVars(Message) /\ WF_watchVars(Subscribed)
  /\ WF_watchVars(FindsIdle) /\ WF_watchVars(Refused) /\ WF_watchVars(SetsRunning) /\ WF_watchVars(PollSummary)
  /\ WF_watchVars(ReadSettledTurns) /\ WF_watchVars(Returns) /\ WF_watchVars(Sweep)

-----------------------------------------------------------------------------
\* A turn is taken for completed only when it is over, whichever of the three ways said so, and a
\* stall is said of the turn it was decided about (turnFinished, settleTurnFromRollout, sweepStalledTurns).
WatchTellsTruth ==
  /\ rpc.done \subseteq codex.over
  /\ runner.stalled # 0 => runner.stalled = runner.turn

\* The end of a turn the rollout records reaches the queue that waits for it, although the
\* notification went to the TUI, the summary never settles or the socket died (waitForTurn, settleTurnFromRollout).
EndIsHeard == (wait.step = "notify" /\ Finished(wait.turn)) ~> (wait.step = "rest")

\* A queue waits for a thread no longer than the thread works, as long as there is a server to ask
\* (waitForThreadIdle, awaitSubscription).
IdleIsFound == (wait.step = "idle" /\ codex.turn = 0) ~> (wait.step # "idle" \/ codex.turn # 0 \/ ~ line.up \/ codex.stuck)
=============================================================================
