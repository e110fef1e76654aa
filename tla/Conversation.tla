------------------------------ MODULE Conversation ------------------------------
(***************************************************************************)
(* The life of one conversation (app.ts: the session and close routes, the *)
(* reopen tasks, the switches that follow the terminal, restore at launch  *)
(* and shutdown; terminal-thread-sync.ts, restore-plan.ts; storage.ts).    *)
(* Requests overlap each other, the agent's own switches and exits, and a  *)
(* crash at any point.  A request is one step per await that others can    *)
(* see; recovery at launch is in Recovery.  The agent is external.         *)
(***************************************************************************)
EXTENDS Integers, Sequences, FiniteSets, SequencesExt

CONSTANT ConversationLoads  \* mode, calm; bounds: switches, opens, closes, reopens, deletes, exits, crashes, stops

ASSUME TalksAssumption ==
  ConversationLoads \subseteq
    [mode : {"claude", "codex", "server"}, calm : BOOLEAN, open : Nat, reopen : Nat, close : Nat, delete : Nat,
     switches : Nat, failures : Nat, questions : Nat, exits : Nat, crashes : Nat, stops : Nat]

VARIABLES
  disk,     \* the tab: whether it exists, its state, thread and reopenOnLaunch
  live,     \* the server and the agent it runs
  ops,      \* requests under way, one of a kind
  chain,    \* threadSwitches: hooks to follow, in order
  plan,     \* whether the launch still has the tab to restore
  wish,     \* what the user was told last: "open", "shut" or nothing
  chosen,   \* the thread the agent showed last
  stock     \* what is left of the load

convVars == <<disk, live, ops, chain, plan, wish, chosen, stock>>

Kinds == {"open", "reopen", "close", "delete"}
NoOp == [pc |-> "none", thread |-> 0, upto |-> 0, was |-> "none"]
\* The server, the agent's process, its thread, its manager (0 for none) and its hook lease.
Down == [up |-> FALSE, closing |-> FALSE, proc |-> FALSE, thread |-> 0, mgr |-> 0, lease |-> FALSE,
         asks |-> FALSE, count |-> 0, named |-> 0]
Takes(what) == stock[what] > 0 /\ stock' = [stock EXCEPT ![what] = @ - 1]
Resting == \A k \in Kinds : ops[k].pc = "none"
\* In a calm load requests do not overlap each other or a restore, and hooks are posted between them.
Calm == stock.calm => Resting /\ ~ live.closing /\ ~ plan

-----------------------------------------------------------------------------
\* Records.

\* tabsToRestore, hasRestorableSession.
Restorable(d) == d.exists /\ d.thread # 0 /\ (d.reopen \/ d.state = "ready")
\* recordOpenSessionsForNextLaunch.
ForNextLaunch(d) == [d EXCEPT !.reopen = d.exists /\ d.thread # 0 /\ d.state = "ready"]
\* A session that has been opened; the mutant leaves what the next launch is to do.
ReadyAsBefore(d, thread) == [d EXCEPT !.state = "ready", !.thread = thread]
Ready(d, thread) == [d EXCEPT !.state = "ready", !.thread = thread, !.reopen = TRUE]
\* A session the user closed; the mutant forgets that it is not to come back.
ClosedOnly(d) == [d EXCEPT !.state = "closed"]
Closed(d) == [d EXCEPT !.state = "closed", !.reopen = FALSE]
\* A session that failed to open; the mutant leaves it connecting.
FailedQuiet(d, k, was) == d
Failed(d, k, was) == [d EXCEPT !.state = IF k = "reopen" \/ was = "closed" THEN "closed" ELSE "error"]

\* pty.stop, the stop of every manager, revokeHookLease.
Torn(l) == [l EXCEPT !.proc = FALSE, !.thread = 0, !.mgr = 0, !.lease = FALSE, !.asks = FALSE]
\* The catch of a reopen; the mutant leaves the process it has started.
UndoneNot(l) == l
Undone(l) == Torn(l)

-----------------------------------------------------------------------------
\* Requests.

\* awaitThreadSwitch waits for the switches that were scheduled when it was called; the mutant for none.
WaitedNot(k) == TRUE
Waited(k) == \A i \in 1..Len(chain) : chain[i].id > ops[k].upto
LastSwitch == IF chain = <<>> THEN 0 ELSE Last(chain).id

Begin(k) == ops' = [ops EXCEPT ![k] = [NoOp EXCEPT !.pc = "wait", !.upto = LastSwitch, !.was = disk.state]]
\* A request comes; a second reopen joins the first (reopenTasks).
Asked(k) ==
  /\ live.up /\ disk.exists /\ ops[k].pc = "none" /\ Calm /\ Takes(k)
  /\ Begin(k)
  /\ UNCHANGED <<disk, live, chain, plan, wish, chosen>>
\* The restore queue launches the tab, or joins a reopen that runs.
Restores ==
  /\ live.up /\ plan /\ plan' = FALSE
  /\ IF ops["reopen"].pc # "none" \/ ~ disk.exists THEN UNCHANGED ops ELSE Begin("reopen")
  /\ UNCHANGED <<disk, live, chain, wish, chosen, stock>>

Goes(k, op) == ops' = [ops EXCEPT ![k] = op]
Over(k) == Goes(k, NoOp)
\* The tab is read.  What has nothing to resume, or to close, is refused.
Reads(k) ==
  LET refused == \/ ~ disk.exists
                 \/ k = "reopen" /\ disk.thread = 0
                 \/ k = "close" /\ disk.thread = 0 /\ ~ (disk.state = "ready" /\ live.proc)
  IN  /\ ops[k].pc = "wait" /\ Waited(k)
      /\ IF refused THEN Over(k) ELSE Goes(k, [ops[k] EXCEPT !.pc = "stop", !.thread = IF k = "open" THEN 0 ELSE disk.thread])
      /\ UNCHANGED <<disk, live, chain, plan, wish, chosen, stock>>
Stops(k) ==
  /\ ops[k].pc = "stop" /\ live' = Torn(live)
  /\ Goes(k, [ops[k] EXCEPT !.pc = IF k \in {"open", "reopen"} THEN "mark" ELSE "end"])
  /\ UNCHANGED <<disk, chain, plan, wish, chosen, stock>>

\* Opening: connecting is written, the agent started under a lease, its session awaited.
Marks(k) ==
  /\ ops[k].pc = "mark"
  /\ IF disk.exists THEN disk' = [disk EXCEPT !.state = "connecting"] /\ Goes(k, [ops[k] EXCEPT !.pc = "launch"])
     ELSE UNCHANGED disk /\ Goes(k, [ops[k] EXCEPT !.pc = "undo"])
  /\ UNCHANGED <<live, chain, plan, wish, chosen, stock>>
\* A new conversation is named by its agent, a new Codex one by its first prompt.
Launches(k) ==
  LET fresh == k = "open" /\ stock.mode # "codex"
      thread == IF fresh THEN live.named + 1 ELSE ops[k].thread
  IN  /\ ops[k].pc = "launch"
      /\ live' = [live EXCEPT !.proc = TRUE, !.lease = TRUE, !.thread = thread, !.count = @ + 1, !.mgr = live.count + 1,
                              !.asks = FALSE, !.named = IF fresh THEN @ + 1 ELSE @]
      /\ Goes(k, [ops[k] EXCEPT !.pc = "attach", !.thread = thread])
      /\ UNCHANGED <<disk, chain, plan, wish, chosen, stock>>
Attaches(k) ==
  /\ ops[k].pc = "attach"
  /\ \/ live.proc /\ Goes(k, [ops[k] EXCEPT !.pc = "ready"]) /\ UNCHANGED stock
     \/ ~ live.proc /\ Goes(k, [ops[k] EXCEPT !.pc = "undo"]) /\ UNCHANGED stock
     \/ Takes("failures") /\ Goes(k, [ops[k] EXCEPT !.pc = "undo"])
  /\ UNCHANGED <<disk, live, chain, plan, wish, chosen>>
\* A question Codex asks at its start keeps the terminal, and the state.
Questions(k) ==
  /\ ops[k].pc = "attach" /\ live.proc /\ stock.mode = "codex" /\ Takes("questions")
  /\ live' = [live EXCEPT !.asks = TRUE] /\ wish' = "none"
  /\ Over(k)
  /\ UNCHANGED <<disk, chain, plan, chosen>>
Readies(k) ==
  /\ ops[k].pc = "ready"
  /\ IF disk.exists
     THEN /\ disk' = Ready(disk, ops[k].thread) /\ Over(k)
          /\ wish' = IF ops[k].thread # 0 THEN "open" ELSE "none"
          /\ chosen' = IF live.thread # 0 THEN live.thread ELSE ops[k].thread
     ELSE Goes(k, [ops[k] EXCEPT !.pc = "undo"]) /\ UNCHANGED <<disk, wish, chosen>>
  /\ UNCHANGED <<live, chain, plan, stock>>
Undoes(k) ==
  /\ ops[k].pc = "undo" /\ live' = Undone(live)
  /\ Goes(k, [ops[k] EXCEPT !.pc = "fail"])
  /\ UNCHANGED <<disk, chain, plan, wish, chosen, stock>>
Fails(k) ==
  /\ ops[k].pc = "fail" /\ Over(k)
  /\ disk' = IF disk.exists THEN Failed(disk, k, ops[k].was) ELSE disk
  /\ wish' = IF wish = "open" THEN "none" ELSE wish
  /\ UNCHANGED <<live, chain, plan, chosen, stock>>

\* The close of a conversation is written last; the delete of a tab moves its directory away.
Ends(k) ==
  /\ ops[k].pc = "end" /\ Over(k)
  /\ disk' = IF ~ disk.exists THEN disk
             ELSE IF k = "close" THEN Closed(disk) ELSE [disk EXCEPT !.exists = FALSE, !.state = "closed", !.reopen = FALSE]
  /\ wish' = "shut"
  /\ UNCHANGED <<live, chain, plan, chosen, stock>>

-----------------------------------------------------------------------------
\* The terminal shows another conversation: the agent says so, and the tab follows.

AgentSwitches ==
  /\ live.up /\ live.proc /\ live.lease /\ ~ live.asks /\ Calm /\ Takes("switches")
  /\ live' = [live EXCEPT !.thread = live.named + 1, !.named = @ + 1]
  /\ chain' = Append(chain, [id |-> live.named + 1, mgr |-> live.mgr, thread |-> live.named + 1, pc |-> "queued"])
  /\ chosen' = live.named + 1
  /\ UNCHANGED <<disk, ops, plan, wish>>

Current(e) == live.mgr = e.mgr
\* Whether there is something to follow.  An App Server's tab must have had a thread.
Due(e) ==
  /\ Current(e) /\ disk.exists /\ disk.state = "ready" /\ disk.thread # e.thread
  /\ stock.mode = "server" => disk.thread # 0
SwitchChecks ==
  /\ chain # <<>> /\ Head(chain).pc = "queued"
  /\ chain' = IF Due(Head(chain)) THEN <<[Head(chain) EXCEPT !.pc = "frozen"]>> \o Tail(chain) ELSE Tail(chain)
  /\ UNCHANGED <<disk, live, ops, plan, wish, chosen, stock>>
\* The queue has been frozen.  A native switch writes without looking again; that of an App
\* Server looks whether it is still the one, and leaves reopenOnLaunch alone.
SwitchWrites ==
  LET e == Head(chain)
      late == disk.exists => (stock.mode = "server" /\ ~ Current(e))
  IN  /\ chain # <<>> /\ e.pc = "frozen" /\ chain' = Tail(chain)
      /\ IF late THEN UNCHANGED <<disk, wish>>
         ELSE /\ disk' = IF stock.mode = "server" THEN [disk EXCEPT !.state = "ready", !.thread = e.thread]
                         ELSE Ready(disk, e.thread)
              /\ wish' = IF wish = "none" THEN "open" ELSE wish
      /\ UNCHANGED <<live, ops, plan, chosen, stock>>

\* The agent exits by itself: its lease is revoked and its session detached; the tab stays ready.
AgentExits ==
  /\ live.proc /\ (stock.calm => \A k \in Kinds : ops[k].pc \in {"none", "attach"}) /\ Takes("exits")
  /\ live' = [live EXCEPT !.proc = FALSE, !.thread = 0, !.lease = FALSE, !.asks = FALSE]
  /\ UNCHANGED <<disk, ops, chain, plan, wish, chosen>>

-----------------------------------------------------------------------------
\* The server goes and comes.

Gone == live' = [Down EXCEPT !.count = live.count, !.named = live.named] /\ ops' = [k \in Kinds |-> NoOp]
        /\ chain' = <<>> /\ plan' = FALSE
Crashes ==
  /\ live.up /\ Takes("crashes") /\ Gone
  /\ chosen' = disk.thread
  /\ UNCHANGED <<disk, wish>>
\* What is to come back is read before recovery writes that nothing is open.
Starts ==
  /\ ~ live.up
  /\ live' = [live EXCEPT !.up = TRUE]
  /\ plan' = Restorable(disk)
  /\ disk' = IF disk.state \in {"ready", "connecting"} THEN [disk EXCEPT !.state = "closed"] ELSE disk
  /\ UNCHANGED <<ops, chain, wish, chosen, stock>>
\* close: restores, reopens and switches are waited for, then what is open is recorded.
StopBegins ==
  /\ live.up /\ ~ live.closing /\ Takes("stops")
  /\ live' = [live EXCEPT !.closing = TRUE]
  /\ UNCHANGED <<disk, ops, chain, plan, wish, chosen>>
StopEnds ==
  /\ live.closing /\ ~ plan /\ ops["reopen"].pc = "none" /\ chain = <<>> /\ (stock.calm => Resting)
  /\ disk' = ForNextLaunch(disk)
  /\ Gone /\ UNCHANGED <<wish, chosen, stock>>

-----------------------------------------------------------------------------
ConversationInit ==
  /\ stock \in ConversationLoads
  /\ disk = [exists |-> TRUE, state |-> "disconnected", thread |-> 0, reopen |-> FALSE]
  /\ live = [Down EXCEPT !.up = TRUE]
  /\ ops = [k \in Kinds |-> NoOp] /\ chain = <<>> /\ plan = FALSE /\ wish = "none" /\ chosen = 0

OpSteps(k) ==
  \/ Reads(k) \/ Stops(k) \/ Marks(k) \/ Launches(k) \/ Attaches(k) \/ Questions(k) \/ Readies(k) \/ Undoes(k)
  \/ Fails(k) \/ Ends(k)
ConversationNext ==
  \/ \E k \in Kinds : Asked(k) \/ OpSteps(k)
  \/ Restores \/ AgentSwitches \/ SwitchChecks \/ SwitchWrites \/ AgentExits
  \/ Crashes \/ Starts \/ StopBegins \/ StopEnds

ConversationSpec == ConversationInit /\ [][ConversationNext]_convVars

\* Awaits come back: files are written, and a session that does not start is given up.
ConversationFairness ==
  /\ \A k \in Kinds : WF_convVars(OpSteps(k))
  /\ WF_convVars(SwitchChecks) /\ WF_convVars(SwitchWrites) /\ WF_convVars(Restores)

-----------------------------------------------------------------------------
AtRest == live.up /\ Resting /\ chain = <<>> /\ ~ plan

\* At rest the tab says what is the case: what is closed or failed has no process and no lease
\* to post hooks with (the catches of the reopens, the close route).
SessionMatchesAgent ==
  AtRest => /\ disk.state \in {"closed", "error", "disconnected"} => ~ live.proc /\ ~ live.lease
            /\ disk.state = "connecting" => live.asks \/ ~ live.proc
            /\ live.lease => live.proc /\ live.mgr # 0

\* A conversation the user closed stays closed, and does not come back at a launch (the close route).
ClosedStaysClosed ==
  (wish = "shut" /\ live.up /\ Resting) => disk.state = "closed" /\ ~ disk.reopen /\ ~ live.proc /\ ~ plan

\* A conversation that was open comes back after a crash, one during its restore too
\* (tabsToRestore, reopenOnLaunch, recoverTerminalRuntime).
OpenComesBack == wish = "open" => Restorable(disk)

\* At rest an open tab is on the thread its agent showed last (scheduleNativeSessionSwitch, awaitThreadSwitch).
ThreadFollowsAgent == (AtRest /\ disk.state = "ready" /\ live.proc) => live.thread = disk.thread /\ disk.thread = chosen

\* What is connecting ends so, unless Codex asks something.
ConnectingEnds == (live.up /\ disk.state = "connecting" /\ ~ live.asks) ~> (~ live.up \/ disk.state # "connecting" \/ live.asks)

ConversationTypes ==
  /\ disk.state \in {"disconnected", "connecting", "ready", "closed", "error"}
  /\ disk.thread \in 0..live.named /\ live.thread \in 0..live.named /\ chosen \in 0..live.named
  /\ \A i \in 1..Len(chain) : chain[i].pc \in {"queued", "frozen"} /\ (i > 1 => chain[i].pc = "queued")
  /\ wish \in {"none", "open", "shut"} /\ plan \in BOOLEAN

\* At rest a tab says what is the case, of its agent and of its thread (the routes and their catches,
\* scheduleNativeSessionSwitch).
TabTellsTruth == ConversationTypes /\ SessionMatchesAgent /\ ThreadFollowsAgent
\* A launch brings back what was open and nothing that was closed (restore-plan.ts, recordOpenSessionsForNextLaunch).
ComesBackAsLeft == ClosedStaysClosed /\ OpenComesBack
=============================================================================
