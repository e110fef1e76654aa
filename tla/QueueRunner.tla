------------------------------ MODULE QueueRunner ------------------------------
(***************************************************************************)
(* The queue runner of one conversation tab (server/queue.ts): the loop    *)
(* that turns pending prompts into provider turns, and the API calls that  *)
(* start, pause, interrupt, steer and edit it while it runs.               *)
(*                                                                         *)
(* Node runs one callback at a time, so a step here is a callback: the     *)
(* code between two awaits.  A process is a loop, named by the generation  *)
(* it was launched with, or a caller, an API request in flight.  A process *)
(* whose pc is in Locked is queued for the tab lock, a FIFO (KeyedMutex);  *)
(* its section and the code up to its next await are one step, taken when  *)
(* it is at the head.  An unlocked read of the tab files and the code that *)
(* follows it are one step too.                                            *)
(***************************************************************************)
EXTENDS TabFiles

CONSTANTS
    Callers,               \* API requests in flight at the same time
    Ops,                   \* the API operations the callers use
    CanStartThread,        \* the provider has startInitialTurn
    HasPendingInterrupt,   \* the provider has interruptPendingSubmission
    ReportsQueueTurns,     \* turnCompleted is also recorded for queue turns (app-server)
    InitialTab,            \* the files the server finds
    MaxGeneration,         \* bound: loops launched or abandoned
    MaxCalls               \* bound: API calls made

ASSUME QueueAssumption ==
    /\ Callers \cap Int = {}
    /\ {CanStartThread, HasPendingInterrupt, ReportsQueueTurns} \subseteq BOOLEAN
    /\ InitialTab \in TabRecord
    /\ \A p \in Prompts : Present(InitialTab, p) => p \in ToSet(InitialTab.order)
    /\ MaxGeneration \in Nat /\ MaxCalls \in Nat

VARIABLES
    tab,          \* the durable files
    owner,        \* loopPromise: the loop the runner owns, 0 for null
    generation,   \* loopGeneration
    stopping,     \* stopping
    oneShot,      \* oneShotPromptIds
    loops,        \* every loop ever launched
    callers,      \* every API request
    lockQ,        \* the processes queued for the tab lock
    turns,        \* the provider's turns
    calls         \* how many API calls were made

mem == <<owner, generation, stopping, oneShot>>
vars == <<tab, mem, loops, callers, lockQ, turns, calls>>

Generations == 1..MaxGeneration

LoopLocked == {"setPaused", "failClear", "failSet", "discard", "arm", "await", "prepare",
               "mark", "bind", "attempt", "started", "running", "record", "clear", "fail",
               "failQuiet", "slash", "localTurn", "finalize", "pauseFail", "gap"}
LoopFree == {"none", "read", "idle", "waitTimeout", "waitError", "fresh", "submit", "cancelled",
             "wait", "detached", "errRead", "after", "failRead", "delay", "relaunch", "done"}
CallerLocked == {"start.clear", "act.boot", "act.on", "pause.clear", "pause.set", "int.clear",
                 "int.set", "int.finalize", "bind", "ins.reserve", "ins.steered", "ins.undo",
                 "ins.started", "ins.move"}
CallerFree == {"idle", "act.read", "int.read", "int.poll", "int.cancel", "int.settle", "int.wait",
               "ins.steer", "batch.run"}
Locked == LoopLocked \cup CallerLocked

Gone == [pc |-> "none", thread |-> NoThread, prompt |-> NoPrompt, client |-> NoClient,
         turn |-> NoTurn, failed |-> FALSE, rolling |-> FALSE, ids |-> {}]
Unlinked == [thread |-> NoThread, turn |-> NoTurn, client |-> NoClient, steered |-> FALSE]
Idle == [pc |-> "idle", op |-> "none", prompt |-> NoPrompt, loop |-> 0, thread |-> NoThread,
         turn |-> NoTurn, client |-> NoClient, prev |-> Unlinked, settled |-> FALSE]
NoTurnYet == [status |-> "none", thread |-> NoThread, inputs |-> {}, queued |-> FALSE, told |-> "no"]
Outcomes == {"completed", "nofinal", "failed", "interrupted"}

KeepsRunning == tab.runner.desired = "running" \/ oneShot # {}
ActiveOn(thread) == {t \in Turns : turns[t].status = "active" /\ turns[t].thread = thread}
UnusedTurns == {t \in Turns : turns[t].status = "none"}
NextTurn == Min(UnusedTurns)
Rolls == tab.runner.desired = "running"
\* what the loop may take next: the queue if it rolls, else the one-shots
Takeable(thread) ==
    IF Rolls THEN EligiblePrompts(tab, thread) ELSE EligiblePrompts(tab, thread) \cap oneShot

-----------------------------------------------------------------------------
(* Moving a process, and the lock with it. *)

Runs(id) == lockQ # <<>> /\ Head(lockQ) = id
LoopIn(g, pc) == loops[g].pc = pc /\ Runs(g)
CallerIn(c, pc) == callers[c].pc = pc /\ Runs(c)

\* `rest` is the lock queue without the process that moves
Queue(rest, id, pc) == IF pc \in Locked THEN Append(rest, id) ELSE rest
Released == Tail(lockQ)

Moves(g, r, rest) ==
    /\ loops' = [loops EXCEPT ![g] = r]
    /\ lockQ' = Queue(rest, g, r.pc)
    /\ UNCHANGED owner

Goes(g, pc, rest) == Moves(g, [loops[g] EXCEPT !.pc = pc], rest)

ExitsForGood(g, rest) ==   \* mutant: the intent is not read again
    /\ owner' = IF owner = g THEN 0 ELSE owner
    /\ loops' = [loops EXCEPT ![g] = [Gone EXCEPT !.pc = "done"]]
    /\ lockQ' = rest

ExitsClearing(g, rest) ==   \* mutant: a detached loop clears its successor
    /\ owner' = 0
    /\ loops' = [loops EXCEPT ![g] = [Gone EXCEPT !.pc = "done"]]
    /\ lockQ' = rest

\* the loop promise settles and its finally handler runs up to its read
Exits(g, rest) ==
    /\ owner' = IF owner = g THEN 0 ELSE owner
    /\ loops' = [loops EXCEPT ![g] = [Gone EXCEPT !.pc = IF owner = g /\ ~stopping
                                                         THEN "relaunch" ELSE "done"]]
    /\ lockQ' = rest

\* back to the head of the while loop
Iterates(g, rest) ==
    IF stopping \/ generation # g
    THEN Exits(g, rest)
    ELSE Moves(g, [Gone EXCEPT !.pc = "read"], rest)

\* launchLoop, with the value `stopping` has there; settled[g] is done already
Launches(stop, before) ==
    IF owner = 0 /\ ~stop
    THEN /\ generation < MaxGeneration
         /\ generation' = generation + 1
         /\ owner' = generation + 1
         /\ loops' = [before EXCEPT ![generation + 1] = [Gone EXCEPT !.pc = "read"]]
    ELSE UNCHANGED <<generation, owner>> /\ loops' = before

Abandons(loop) ==
    IF loop # 0 /\ owner = loop
    THEN /\ generation < MaxGeneration
         /\ generation' = generation + 1
         /\ owner' = 0
    ELSE UNCHANGED <<generation, owner>>

CallerGoes(c, r, rest) ==
    /\ callers' = [callers EXCEPT ![c] = r]
    /\ lockQ' = Queue(rest, c, r.pc)

CallerAt(c, pc, rest) == CallerGoes(c, [callers[c] EXCEPT !.pc = pc], rest)
Returns(c, rest) == CallerGoes(c, Idle, rest)

-----------------------------------------------------------------------------
(* The loop, up to the choice of a prompt. *)

\* nothing to dispatch: forget one-shots that left the queue, then settle or arm
NothingToRun(g, thread) ==
    Moves(g, [Gone EXCEPT !.pc = IF oneShot # {} THEN "discard"
                                 ELSE IF Rolls THEN "arm" ELSE "setPaused",
                          !.thread = thread, !.rolling = Rolls, !.ids = oneShot], lockQ)

\* failRunner drops the one-shots before it takes the lock
FailsRunner(g) == oneShot' = {} /\ Goes(g, "failClear", lockQ)

LoopRead(g) ==
    LET thread == tab.thread IN
    /\ loops[g].pc = "read"
    /\ CASE generation # g -> Exits(g, lockQ) /\ UNCHANGED oneShot
         [] generation = g /\ ~KeepsRunning -> Goes(g, "setPaused", lockQ) /\ UNCHANGED oneShot
         [] generation = g /\ KeepsRunning /\ (~tab.ready \/ (thread = NoThread /\ ~CanStartThread)) ->
                FailsRunner(g)
         [] OTHER ->
                /\ UNCHANGED oneShot
                /\ IF Takeable(thread) = {} THEN NothingToRun(g, thread)
                   ELSE Moves(g, [Gone EXCEPT !.thread = thread,
                                    !.pc = IF tab.runner.state # "waiting_for_thread" THEN "await"
                                           ELSE IF thread = NoThread THEN "fresh" ELSE "idle"], lockQ)
    /\ UNCHANGED <<tab, generation, stopping, callers, turns, calls>>

LoopSetPaused(g) ==
    /\ LoopIn(g, "setPaused")
    /\ tab' = SetRunnerState(tab, "paused", NoPrompt, NoTurn)
    /\ Exits(g, Released)
    /\ UNCHANGED <<generation, stopping, oneShot, callers, turns, calls>>

LoopFailRunner(g) ==
    /\ \/ LoopIn(g, "failClear") /\ tab' = ClearAuto(tab) /\ Goes(g, "failSet", Released)
       \/ LoopIn(g, "failSet") /\ tab' = FailRunner(tab) /\ Exits(g, Released)
    /\ UNCHANGED <<generation, stopping, oneShot, callers, turns, calls>>

LoopDiscard(g) ==
    LET gone == loops[g].ids \ EligiblePrompts(tab, loops[g].thread) IN
    /\ LoopIn(g, "discard")
    /\ tab' = ClearAutoOf(tab, gone)
    /\ oneShot' = oneShot \ gone
    /\ Goes(g, IF loops[g].rolling THEN "arm" ELSE "setPaused", Released)
    /\ UNCHANGED <<generation, stopping, callers, turns, calls>>

LoopArm(g) ==
    /\ LoopIn(g, "arm")
    /\ IF generation = g /\ Rolls
       THEN IF EligiblePrompts(tab, tab.thread) # {}
            THEN tab' = tab /\ Iterates(g, Released)
            ELSE tab' = Arm(tab) /\ Exits(g, Released)
       ELSE tab' = tab /\ Exits(g, Released)
    /\ UNCHANGED <<generation, stopping, oneShot, callers, turns, calls>>

LoopAwait(g) ==
    /\ LoopIn(g, "await")
    /\ tab' = SetRunnerState(tab, "waiting_for_thread", NoPrompt, NoTurn)
    /\ IF loops[g].thread # NoThread THEN Goes(g, "idle", Released)
       ELSE IF generation # g THEN Exits(g, Released) ELSE Goes(g, "fresh", Released)
    /\ UNCHANGED <<generation, stopping, oneShot, callers, turns, calls>>

\* waitForThreadIdle resolves, gives up after its window, or fails
LoopIdle(g) ==
    /\ loops[g].pc = "idle"
    /\ \/ /\ ActiveOn(loops[g].thread) = {}
          /\ IF generation # g THEN Exits(g, lockQ) ELSE Goes(g, "fresh", lockQ)
       \/ \E outcome \in {"waitTimeout", "waitError"} :
            /\ outcome = "waitTimeout" => ActiveOn(loops[g].thread) # {}
            /\ IF stopping \/ generation # g THEN Exits(g, lockQ) ELSE Goes(g, outcome, lockQ)
    /\ UNCHANGED <<tab, generation, stopping, oneShot, callers, turns, calls>>

LoopWaitFailed(g) ==
    /\ loops[g].pc \in {"waitTimeout", "waitError"}
    /\ IF ~KeepsRunning THEN Goes(g, "setPaused", lockQ) /\ UNCHANGED oneShot
       ELSE IF tab.thread # loops[g].thread \/ ~tab.ready \/ loops[g].pc = "waitTimeout"
       THEN Iterates(g, lockQ) /\ UNCHANGED oneShot
       ELSE FailsRunner(g)
    /\ UNCHANGED <<tab, generation, stopping, callers, turns, calls>>

LoopFresh(g) ==
    LET thread == loops[g].thread
        next == FirstOf(tab, Takeable(thread))
    IN
    /\ loops[g].pc = "fresh"
    /\ CASE ~KeepsRunning -> Goes(g, "setPaused", lockQ) /\ UNCHANGED oneShot
         [] KeepsRunning /\ (tab.thread # thread \/ ~tab.ready) ->
                Iterates(g, lockQ) /\ UNCHANGED oneShot
         [] KeepsRunning /\ tab.thread = thread /\ tab.ready /\ Takeable(thread) = {} ->
                NothingToRun(g, thread) /\ UNCHANGED oneShot
         [] OTHER ->
                IF thread = NoThread /\ next \in A2aPrompts THEN FailsRunner(g)
                ELSE /\ UNCHANGED oneShot
                     /\ IF generation # g THEN Iterates(g, lockQ)
                        ELSE Moves(g, [loops[g] EXCEPT !.pc = "prepare", !.prompt = next], lockQ)
    /\ UNCHANGED <<tab, generation, stopping, callers, turns, calls>>

-----------------------------------------------------------------------------
(* The loop, dispatching one prompt. *)

MayDispatchStopped(g, p) ==   \* mutant: the intent is not read again
    generation = g /\ Eligible(tab, p, tab.thread)

\* the guards of prepareDispatch, all read again under the lock
MayDispatch(g, p) ==
    /\ generation = g /\ KeepsRunning
    /\ tab.thread # NoThread \/ CanStartThread
    /\ Eligible(tab, p, tab.thread)

LoopPrepare(g) ==
    LET p == loops[g].prompt IN
    /\ LoopIn(g, "prepare")
    /\ IF MayDispatch(g, p)
       THEN /\ tab.clients < MaxClients
            /\ tab' = Reserve(tab, p)
            /\ oneShot' = oneShot \ {p}
            /\ Moves(g, [loops[g] EXCEPT !.pc = "mark", !.client = tab'.clients], Released)
       ELSE UNCHANGED <<tab, oneShot>> /\ Iterates(g, Released)
    /\ UNCHANGED <<generation, stopping, callers, turns, calls>>

LoopMark(g) ==
    /\ LoopIn(g, "mark")
    /\ tab' = SetRunnerState(tab, "dispatching", loops[g].prompt, NoTurn)
    /\ Goes(g, "submit", Released)
    /\ UNCHANGED <<generation, stopping, oneShot, callers, turns, calls>>

\* startTurn or startInitialTurn resolves with a turn the provider has started;
\* the events of a native terminal leave the queue's turns to the queue
LoopSubmitAccepted(g) ==
    /\ loops[g].pc = "submit" /\ UnusedTurns # {}
    /\ \E thread \in IF loops[g].thread = NoThread THEN Threads ELSE {loops[g].thread} :
         /\ turns' = [turns EXCEPT ![NextTurn] =
                [status |-> "active", thread |-> thread, inputs |-> {loops[g].prompt},
                 queued |-> TRUE, told |-> IF ReportsQueueTurns THEN "no" ELSE "done"]]
         /\ Moves(g, [loops[g] EXCEPT !.pc = IF loops[g].thread = NoThread THEN "bind" ELSE "attempt",
                                      !.thread = thread, !.turn = NextTurn], lockQ)
    /\ UNCHANGED <<tab, generation, stopping, oneShot, callers, calls>>

\* ... or throws: refused, cancelled by an interrupt, or a slash command that
\* opened no turn
LoopSubmitFailed(g) ==
    LET p == loops[g].prompt IN
    /\ loops[g].pc \in {"submit", "cancelled"}
    /\ \E error \in {"refused", "interrupted", "noTurn"} :
         /\ error = "noTurn" => p \in SlashPrompts
         /\ loops[g].pc = "cancelled" <=> error = "interrupted"
         /\ Goes(g, IF p \in SlashPrompts /\ error # "refused" THEN "slash"
                    ELSE IF error = "interrupted"
                    THEN IF loops[g].thread = NoThread THEN "failQuiet" ELSE "localTurn"
                    ELSE "fail", lockQ)
    /\ UNCHANGED <<tab, generation, stopping, oneShot, callers, turns, calls>>

\* the new conversation is bound to the tab, unless another one got there first
LoopBind(g) ==
    LET thread == loops[g].thread IN
    /\ LoopIn(g, "bind")
    /\ IF tab.ready /\ tab.thread \in {NoThread, thread}
       THEN tab' = [tab EXCEPT !.thread = thread] /\ Goes(g, "attempt", Released)
       ELSE tab' = tab /\ Goes(g, "errRead", Released)
    /\ UNCHANGED <<generation, stopping, oneShot, callers, turns, calls>>

LoopAttempt(g) ==
    /\ LoopIn(g, "attempt")
    /\ tab' = Accepted(tab, loops[g].prompt, loops[g].thread, loops[g].turn)
    /\ Goes(g, "started", Released)
    /\ UNCHANGED <<generation, stopping, oneShot, callers, turns, calls>>

\* recordTurnStarted; a detached loop then asks the provider to interrupt the
\* turn, which may or may not end it (TurnEnds), and records it as interrupted
LoopStarted(g) ==
    LET p == loops[g].prompt IN
    /\ LoopIn(g, "started")
    /\ IF Present(tab, p)
       THEN /\ tab' = RecordTurnStarted(tab, p, loops[g].thread, loops[g].turn)
            /\ Goes(g, IF generation # g THEN "detached" ELSE "running", Released)
       ELSE tab' = tab /\ Goes(g, "errRead", Released)
    /\ UNCHANGED <<generation, stopping, oneShot, callers, turns, calls>>

LoopDetached(g) ==
    /\ loops[g].pc = "detached"
    /\ Goes(g, "finalize", lockQ)
    /\ UNCHANGED <<tab, generation, stopping, oneShot, callers, turns, calls>>

LoopRunning(g) ==
    /\ LoopIn(g, "running")
    /\ tab' = SetRunnerState(tab, "running", loops[g].prompt, loops[g].turn)
    /\ Goes(g, "wait", Released)
    /\ UNCHANGED <<generation, stopping, oneShot, callers, turns, calls>>

\* waitForTurn resolves with the ended turn, or throws while it is still active
LoopWait(g) ==
    /\ loops[g].pc = "wait"
    /\ Goes(g, IF turns[loops[g].turn].status = "active" THEN "errRead" ELSE "record", lockQ)
    /\ UNCHANGED <<tab, generation, stopping, oneShot, callers, turns, calls>>

LoopRecord(g) ==
    LET r == loops[g]
        outcome == turns[r.turn].status
        answer == RecordedAnswer(tab, r.prompt, r.thread, r.turn, outcome)
        failed == /\ answer # "completed" /\ r.prompt \notin SlashPrompts
                  /\ outcome # "interrupted"
    IN
    /\ LoopIn(g, "record")
    /\ tab' = IF RecordsTurn(tab, r.thread)
              THEN RecordTurn(tab, r.prompt, r.client, r.thread, r.turn, outcome, TRUE)
              ELSE tab
    /\ Moves(g, [r EXCEPT !.failed = failed,
                          !.pc = IF failed /\ answer = "none" THEN "fail" ELSE "clear"], Released)
    /\ UNCHANGED <<generation, stopping, oneShot, callers, turns, calls>>

\* the catch of dispatch, once a turn is known
LoopErrorRead(g) ==
    LET p == loops[g].prompt IN
    /\ loops[g].pc = "errRead"
    /\ Goes(g, IF tab.prompts[p].status = "interrupted" THEN "clear"
               ELSE IF p \in SlashPrompts THEN "slash" ELSE "fail", lockQ)
    /\ UNCHANGED <<tab, generation, stopping, oneShot, callers, turns, calls>>

LoopSettlesPrompt(g) ==
    LET r == loops[g] IN
    /\ \/ /\ LoopIn(g, "slash")
          /\ tab' = CompleteSlash(tab, r.prompt, r.turn)
          /\ Goes(g, "clear", Released)
       \/ /\ LoopIn(g, "fail")
          /\ tab' = MarkFailure(tab, r.prompt, r.turn)
          /\ Moves(g, [r EXCEPT !.pc = "clear", !.failed = TRUE], Released)
       \/ /\ LoopIn(g, "failQuiet")
          /\ tab' = MarkFailure(tab, r.prompt, NoTurn)
          /\ Goes(g, "after", Released)
       \/ /\ LoopIn(g, "localTurn")
          /\ tab' = MarkLocalTurn(tab, r.prompt, r.client)
          /\ Moves(g, [r EXCEPT !.pc = "finalize", !.turn = LocalTurn(r.client)], Released)
       \/ /\ LoopIn(g, "finalize")
          /\ tab' = FinalizeInterrupted(tab, r.thread, r.turn)
          /\ Goes(g, "after", Released)
       \/ /\ LoopIn(g, "clear")
          /\ tab' = ClearActive(tab, r.failed, r.prompt, r.turn)
          /\ Goes(g, IF r.failed THEN "failRead" ELSE "after", Released)
    /\ UNCHANGED <<generation, stopping, oneShot, callers, turns, calls>>

-----------------------------------------------------------------------------
(* The loop, between two prompts. *)

\* a failed prompt stops the queue if the tab is configured so
LoopFailRead(g) ==
    /\ loops[g].pc = "failRead"
    /\ IF tab.onFailure = "pause"
       THEN oneShot' = {} /\ Goes(g, "pauseFail", lockQ)
       ELSE oneShot' = oneShot /\ Iterates(g, lockQ)
    /\ UNCHANGED <<tab, generation, stopping, callers, turns, calls>>

LoopPauseAfterFailure(g) ==
    /\ LoopIn(g, "pauseFail")
    /\ tab' = PauseAfterFailure(tab)
    /\ Exits(g, Released)
    /\ UNCHANGED <<generation, stopping, oneShot, callers, turns, calls>>

LoopAfter(g) ==
    /\ loops[g].pc = "after"
    /\ IF tab.thread = NoThread \/ generation # g \/ stopping
       THEN Iterates(g, lockQ)
       ELSE Moves(g, [loops[g] EXCEPT !.pc = "gap", !.thread = tab.thread], lockQ)
    /\ UNCHANGED <<tab, generation, stopping, oneShot, callers, turns, calls>>

\* waitAfterCompletedPrompt: hold the next prompt back, unless the delay is over
LoopGap(g) ==
    LET holds == /\ generation = g /\ ~stopping /\ Rolls
                 /\ Present(tab, loops[g].prompt)
                 /\ tab.prompts[loops[g].prompt].status = "completed"
                 /\ EligiblePrompts(tab, loops[g].thread) # {}
    IN
    /\ LoopIn(g, "gap")
    /\ \/ holds /\ tab' = WaitForPrompt(tab) /\ Goes(g, "delay", Released)
       \/ tab' = tab /\ Iterates(g, Released)
    /\ UNCHANGED <<generation, stopping, oneShot, callers, turns, calls>>

LoopDelay(g) ==
    /\ loops[g].pc = "delay"
    /\ Iterates(g, lockQ)
    /\ UNCHANGED <<tab, generation, stopping, oneShot, callers, turns, calls>>

\* the finally handler reads the intent, which may have changed meanwhile
LoopRelaunch(g) ==
    LET settled == [loops EXCEPT ![g] = [Gone EXCEPT !.pc = "done"]] IN
    /\ loops[g].pc = "relaunch"
    /\ IF KeepsRunning THEN Launches(stopping, settled)
       ELSE loops' = settled /\ UNCHANGED <<generation, owner>>
    /\ UNCHANGED <<tab, stopping, oneShot, callers, lockQ, turns, calls>>

LoopStep(g) ==
    \/ LoopRead(g) \/ LoopSetPaused(g) \/ LoopFailRunner(g) \/ LoopDiscard(g) \/ LoopArm(g)
    \/ LoopAwait(g) \/ LoopIdle(g) \/ LoopWaitFailed(g) \/ LoopFresh(g) \/ LoopPrepare(g)
    \/ LoopMark(g) \/ LoopSubmitAccepted(g) \/ LoopSubmitFailed(g) \/ LoopBind(g)
    \/ LoopAttempt(g) \/ LoopStarted(g) \/ LoopDetached(g) \/ LoopRunning(g) \/ LoopWait(g) \/ LoopRecord(g)
    \/ LoopErrorRead(g) \/ LoopSettlesPrompt(g) \/ LoopFailRead(g)
    \/ LoopPauseAfterFailure(g) \/ LoopAfter(g) \/ LoopGap(g) \/ LoopDelay(g) \/ LoopRelaunch(g)

-----------------------------------------------------------------------------
(* The API calls.  A call is refused while the conversation is closed. *)

Calls(c, op) ==
    /\ op \in Ops /\ tab.ready /\ calls < MaxCalls
    /\ calls' = calls + 1
    /\ callers[c] = Idle

\* QueueRunner.start and pause drop the one-shots before they take the lock
CallStart(c) ==
    /\ Calls(c, "start")
    /\ oneShot' = {}
    /\ CallerGoes(c, [Idle EXCEPT !.pc = "start.clear", !.op = "start"], lockQ)
    /\ UNCHANGED <<tab, owner, generation, stopping, loops, turns>>

\* adding a prompt to an armed queue starts it
CallAdd(c) ==
    /\ Calls(c, "add")
    /\ \E p \in Unused(tab), i \in 1..(Len(tab.order) + 1) :
         tab' = InsertPrompt(tab, p, i, FALSE, NoThread)
    /\ IF /\ tab.runner.desired = "armed"
          /\ tab.thread # NoThread \/ CanStartThread
       THEN oneShot' = {} /\ CallerGoes(c, [Idle EXCEPT !.pc = "start.clear", !.op = "add"], lockQ)
       ELSE UNCHANGED <<oneShot, callers, lockQ>>
    /\ UNCHANGED <<owner, generation, stopping, loops, turns>>

CallPause(c) ==
    /\ Calls(c, "pause")
    /\ oneShot' = {}
    /\ CallerGoes(c, [Idle EXCEPT !.pc = "pause.clear", !.op = "pause"], lockQ)
    /\ UNCHANGED <<tab, owner, generation, stopping, loops, turns>>

\* interruptCurrent, alone or as the first half of a stop, a close or a switch
\* to another conversation (which only needs it when there is one already)
CallInterrupt(c) ==
    /\ \E op \in {"interrupt", "stop", "close", "switch"} :
         /\ Calls(c, op)
         /\ stopping' = (stopping \/ op = "stop")
         /\ op \in {"close", "switch"} => \A d \in Callers : callers[d].op \notin {"close", "switch"}
         /\ \E to \in IF op = "switch" THEN Threads \ {tab.thread} ELSE {NoThread} :
              CallerGoes(c, [Idle EXCEPT !.op = op, !.loop = owner, !.prev.thread = to,
                              !.pc = IF op = "switch" /\ tab.thread = NoThread
                                     THEN "bind" ELSE "int.clear"], lockQ)
         /\ oneShot' = IF op = "switch" /\ tab.thread = NoThread THEN oneShot ELSE {}
    /\ UNCHANGED <<tab, owner, generation, loops, turns>>

\* insertNow: steer the running turn, or start the prompt as a turn of its own
CallInsert(c) ==
    /\ Calls(c, "insert")
    /\ \E p \in EligiblePrompts(tab, tab.thread) :
         LET active == IF tab.thread = NoThread THEN {} ELSE ActiveOn(tab.thread)
             turn == IF tab.runner.activeTurn \in active THEN tab.runner.activeTurn
                     ELSE Max(active)
             steers == active # {} /\ p \notin SlashPrompts
         IN  /\ tab.thread # NoThread \/ CanStartThread
             /\ ~(steers /\ p \in A2aPrompts)
             /\ CallerGoes(c, [Idle EXCEPT !.op = "insert", !.prompt = p, !.thread = tab.thread,
                                !.pc = IF steers THEN "ins.reserve" ELSE "ins.move",
                                !.turn = IF steers THEN turn ELSE NoTurn], lockQ)
    /\ UNCHANGED <<tab, mem, loops, turns>>

\* a timer puts a prompt in the queue; registering it as a one-shot comes later
CallTimer(c) ==
    /\ Calls(c, "timer") /\ tab.thread # NoThread
    /\ \E p \in Unused(tab), priority \in BOOLEAN :
         LET queued == InsertPrompt(tab, p, Len(tab.order) + 1, TRUE, tab.thread) IN
         /\ tab' = IF priority THEN MoveToFront(queued, p, tab.thread) ELSE queued
         /\ CallerGoes(c, [Idle EXCEPT !.pc = "batch.run", !.op = "timer", !.prompt = p], lockQ)
    /\ UNCHANGED <<mem, loops, turns>>

\* the calls that are one locked section
CallEdit(c) ==
    /\ \/ Calls(c, "retry") /\ \E p \in Prompts :
             tab.prompts[p].status \in {"failed", "interrupted"} /\ tab' = Retry(tab, p)
       \/ Calls(c, "skip") /\ \E p \in Prompts :
             tab.prompts[p].status \in {"failed", "interrupted"} /\ tab' = Skip(tab, p)
       \/ Calls(c, "delete") /\ \E p \in Prompts :
             /\ Present(tab, p) /\ tab.prompts[p].status \notin Active \cup {"completed"}
             /\ tab' = DeletePrompt(tab, p)
       \/ Calls(c, "reorder") /\ \E p \in EligiblePrompts(tab, tab.thread) :
             tab' = MoveToFront(tab, p, tab.thread)
       \/ Calls(c, "configure") /\ \E v \in {"pause", "continue"} \ {tab.onFailure} :
             tab' = [tab EXCEPT !.onFailure = v]
    /\ UNCHANGED <<mem, loops, callers, lockQ, turns>>

-----------------------------------------------------------------------------
(* start, and the activation it shares with insertNow. *)

\* activate up to its first await
Activates(c, rest) == CallerAt(c, IF owner # 0 THEN "act.read" ELSE "act.boot", rest)

StartClear(c) ==
    /\ CallerIn(c, "start.clear")
    /\ tab' = ClearAuto(tab)
    /\ Activates(c, Released)
    /\ UNCHANGED <<mem, loops, turns, calls>>

ActivateRead(c) ==
    /\ callers[c].pc = "act.read"
    /\ IF Rolls THEN Returns(c, lockQ) ELSE CallerAt(c, "act.on", lockQ)
    /\ UNCHANGED <<tab, mem, loops, turns, calls>>

ActivateLaunch(c) ==
    /\ \/ CallerIn(c, "act.on") /\ tab' = KeepGoing(tab)
       \/ CallerIn(c, "act.boot") /\ tab' = Boot(tab)
    /\ stopping' = FALSE
    /\ Launches(FALSE, loops)
    /\ Returns(c, Released)
    /\ UNCHANGED <<oneShot, turns, calls>>

BatchRun(c) ==
    /\ callers[c].pc = "batch.run"
    /\ oneShot' = oneShot \cup {callers[c].prompt}
    /\ Launches(stopping, loops)
    /\ Returns(c, lockQ)
    /\ UNCHANGED <<tab, stopping, turns, calls>>

-----------------------------------------------------------------------------
(* pause and interrupt. *)

Pause(c) ==
    /\ \/ CallerIn(c, "pause.clear") /\ tab' = ClearAuto(tab) /\ CallerAt(c, "pause.set", Released)
       \/ CallerIn(c, "pause.set") /\ tab' = PauseRunner(tab) /\ Returns(c, Released)
       \/ CallerIn(c, "int.clear") /\ tab' = ClearAuto(tab) /\ CallerAt(c, "int.set", Released)
       \/ CallerIn(c, "int.set") /\ tab' = PauseRunner(tab) /\ CallerAt(c, "int.read", Released)
    /\ UNCHANGED <<mem, loops, turns, calls>>

\* interruptCurrent returns; a close or a switch goes on to bind the tab
InterruptEnds(c, rest) ==
    IF callers[c].op \in {"close", "switch"} THEN CallerAt(c, "bind", rest) ELSE Returns(c, rest)

\* what interruptCurrent does with the turn id it ends up with
Interrupts(c, thread, turn) ==
    IF thread # NoThread /\ turn # NoTurn
    THEN /\ CallerGoes(c, [callers[c] EXCEPT !.pc = "int.wait", !.thread = thread, !.turn = turn], lockQ)
         /\ UNCHANGED <<owner, generation>>
    ELSE IF tab.runner.activePrompt # NoPrompt /\ HasPendingInterrupt
    THEN /\ CallerGoes(c, [callers[c] EXCEPT !.pc = "int.cancel", !.thread = thread], lockQ)
         /\ UNCHANGED <<owner, generation>>
    ELSE Abandons(callers[c].loop) /\ InterruptEnds(c, lockQ)

InterruptRead(c) ==
    /\ callers[c].pc = "int.read"
    /\ IF /\ tab.thread # NoThread /\ tab.runner.activePrompt # NoPrompt
          /\ tab.runner.activeTurn = NoTurn /\ callers[c].loop # 0 /\ ~HasPendingInterrupt
       THEN /\ CallerGoes(c, [callers[c] EXCEPT !.pc = "int.poll", !.thread = tab.thread], lockQ)
            /\ UNCHANGED <<owner, generation>>
       ELSE Interrupts(c, tab.thread, tab.runner.activeTurn)
    /\ UNCHANGED <<tab, stopping, oneShot, loops, turns, calls>>

\* the last look before the deadline may find no turn id still
InterruptPoll(c) ==
    /\ callers[c].pc = "int.poll"
    /\ Interrupts(c, callers[c].thread,
                  IF tab.runner.activePrompt = NoPrompt THEN NoTurn ELSE tab.runner.activeTurn)
    /\ UNCHANGED <<tab, stopping, oneShot, loops, turns, calls>>

\* interruptPendingSubmission stops a submission in flight, if there is one and
\* the provider has not taken it already
InterruptCancel(c) ==
    LET pending == {g \in Generations : loops[g].pc = "submit" /\ loops[g].thread = callers[c].thread} IN
    /\ callers[c].pc = "int.cancel"
    /\ \/ \E g \in pending :
            /\ \/ loops' = [loops EXCEPT ![g].pc = "cancelled"]
               \/ loops' = loops
            /\ CallerAt(c, "int.settle", lockQ)
            /\ UNCHANGED <<owner, generation>>
       \/ /\ pending = {}
          /\ loops' = loops
          /\ Abandons(callers[c].loop)
          /\ InterruptEnds(c, lockQ)
    /\ UNCHANGED <<tab, stopping, oneShot, turns, calls>>

\* the race between the loop settling and freezeTimeoutMs
InterruptSettle(c) ==
    LET loop == callers[c].loop IN
    /\ callers[c].pc \in {"int.settle", "int.wait"}
    /\ \E settled \in BOOLEAN :
         /\ IF loop = 0 THEN settled ELSE settled => loops[loop].pc = "done"
         /\ IF callers[c].pc = "int.wait"
            THEN /\ CallerGoes(c, [callers[c] EXCEPT !.pc = "int.finalize", !.settled = settled], lockQ)
                 /\ UNCHANGED <<owner, generation>>
            ELSE /\ IF settled THEN UNCHANGED <<owner, generation>> ELSE Abandons(loop)
                 /\ InterruptEnds(c, lockQ)
    /\ UNCHANGED <<tab, stopping, oneShot, loops, turns, calls>>

InterruptFinalize(c) ==
    /\ CallerIn(c, "int.finalize")
    /\ tab' = FinalizeInterrupted(tab, callers[c].thread, callers[c].turn)
    /\ IF callers[c].settled THEN UNCHANGED <<owner, generation>> ELSE Abandons(callers[c].loop)
    /\ InterruptEnds(c, Released)
    /\ UNCHANGED <<stopping, oneShot, loops, turns, calls>>

\* the switch binds the new conversation, the close ends the session
Bind(c) ==
    /\ CallerIn(c, "bind")
    /\ tab' = IF callers[c].op = "switch"
              THEN [tab EXCEPT !.thread = callers[c].prev.thread, !.ready = TRUE]
              ELSE [tab EXCEPT !.ready = FALSE]
    /\ Returns(c, Released)
    /\ UNCHANGED <<mem, loops, turns, calls>>

-----------------------------------------------------------------------------
(* insertNow. *)

StillPending(r) == tab.ready /\ tab.thread = r.thread /\ Eligible(tab, r.prompt, r.thread)

\* a failed steer falls back to a turn of its own, unless one is still active
SteerFails(c, rest) ==
    IF ActiveOn(callers[c].thread) # {} THEN Returns(c, rest) ELSE CallerAt(c, "ins.move", rest)

InsertReserve(c) ==
    LET r == callers[c] IN
    /\ CallerIn(c, "ins.reserve")
    /\ IF StillPending(r)
       THEN /\ tab.clients < MaxClients
            /\ tab' = ReserveSteer(tab, r.prompt, r.thread, r.turn)
            /\ oneShot' = oneShot \ {r.prompt}
            /\ CallerGoes(c, [r EXCEPT !.pc = "ins.steer", !.client = tab'.clients,
                  !.prev = [f \in DOMAIN Unlinked |-> tab.prompts[r.prompt][f]]], Released)
       ELSE UNCHANGED <<tab, oneShot>> /\ SteerFails(c, Released)
    /\ UNCHANGED <<owner, generation, stopping, loops, turns, calls>>

\* steerTurn
InsertSteer(c) ==
    LET r == callers[c] IN
    /\ r.pc = "ins.steer"
    /\ \/ /\ turns[r.turn].status = "active"
          /\ turns' = [turns EXCEPT ![r.turn].inputs = @ \cup {r.prompt}]
          /\ CallerAt(c, "ins.steered", lockQ)
       \/ turns' = turns /\ CallerAt(c, "ins.undo", lockQ)
    /\ UNCHANGED <<tab, mem, loops, calls>>

InsertSettle(c) ==
    LET r == callers[c] IN
    /\ \/ /\ CallerIn(c, "ins.steered")
          /\ tab' = Steered(tab, r.prompt, r.client)
          /\ CallerAt(c, "ins.started", Released)
       \/ /\ CallerIn(c, "ins.started")
          /\ IF Present(tab, r.prompt)
             THEN /\ tab' = RecordTurnStarted(tab, r.prompt, r.thread, r.turn)
                  /\ Returns(c, Released)
             ELSE tab' = tab /\ SteerFails(c, Released)
       \/ /\ CallerIn(c, "ins.undo")
          /\ tab' = UndoSteer(tab, r.prompt, r.client, r.prev)
          /\ SteerFails(c, Released)
    /\ UNCHANGED <<mem, loops, turns, calls>>

\* startPendingPromptNow
InsertMove(c) ==
    LET r == callers[c] IN
    /\ CallerIn(c, "ins.move")
    /\ IF ~StillPending(r)
       THEN UNCHANGED <<tab, mem, loops>> /\ Returns(c, Released)
       ELSE /\ tab' = MoveToFront(tab, r.prompt, r.thread)
            /\ IF Rolls
               THEN UNCHANGED <<mem, loops>> /\ Activates(c, Released)
               ELSE /\ oneShot' = oneShot \cup {r.prompt}
                    /\ stopping' = FALSE
                    /\ Launches(FALSE, loops)
                    /\ Returns(c, Released)
    /\ UNCHANGED <<turns, calls>>

CallerStep(c) ==
    \/ StartClear(c) \/ ActivateRead(c) \/ ActivateLaunch(c) \/ BatchRun(c) \/ Pause(c)
    \/ InterruptRead(c) \/ InterruptPoll(c) \/ InterruptCancel(c) \/ InterruptSettle(c)
    \/ InterruptFinalize(c) \/ Bind(c) \/ InsertReserve(c) \/ InsertSteer(c) \/ InsertSettle(c)
    \/ InsertMove(c)

Call(c) ==
    \/ CallStart(c) \/ CallAdd(c) \/ CallPause(c) \/ CallInterrupt(c) \/ CallInsert(c)
    \/ CallTimer(c) \/ CallEdit(c)

-----------------------------------------------------------------------------
(* The provider, and what the server does when it reports a turn. *)

\* somebody types into the terminal of the conversation
ManualTurn ==
    /\ "manual" \in Ops /\ tab.ready /\ tab.thread # NoThread /\ UnusedTurns # {}
    /\ ActiveOn(tab.thread) = {}
    /\ turns' = [turns EXCEPT ![NextTurn] = [status |-> "active", thread |-> tab.thread,
                    inputs |-> {}, queued |-> FALSE, told |-> "no"]]
    /\ UNCHANGED <<tab, mem, loops, callers, lockQ, calls>>

\* a turn ends, by itself or because it was interrupted
TurnEnds(t) ==
    /\ turns[t].status = "active"
    /\ \E outcome \in Outcomes : turns' = [turns EXCEPT ![t].status = outcome]
    /\ UNCHANGED <<tab, mem, loops, callers, lockQ, calls>>

\* the turnCompleted handler leaves the turn the runner points at to the queue
TurnHeard(t) ==
    /\ turns[t].status \in Outcomes /\ turns[t].told = "no"
    /\ turns' = [turns EXCEPT ![t].told =
            IF /\ tab.thread = turns[t].thread /\ tab.runner.activeTurn # t
            THEN "heard" ELSE "done"]
    /\ UNCHANGED <<tab, mem, loops, callers, lockQ, calls>>

\* recordTurn with origin "manual", and then clearRunnerFailure
TurnRecorded(t) ==
    /\ \/ /\ turns[t].told = "heard"
          /\ tab' = IF RecordsTurn(tab, turns[t].thread)
                    THEN RecordTurn(tab, NoPrompt, NoClient, turns[t].thread, t, turns[t].status, FALSE)
                    ELSE tab
          /\ turns' = [turns EXCEPT ![t].told =
                IF turns[t].status \in {"completed", "nofinal"} THEN "recorded" ELSE "done"]
       \/ /\ turns[t].told = "recorded"
          /\ tab' = IF tab.runner.activePrompt # NoPrompt \/ tab.runner.activeTurn # NoTurn \/ ~tab.runner.error
                    THEN tab
                    ELSE [tab EXCEPT !.runner.error = FALSE,
                                     !.runner.state = IF @ = "error" THEN "paused" ELSE @]
          /\ turns' = [turns EXCEPT ![t].told = "done"]
    /\ UNCHANGED <<mem, loops, callers, lockQ, calls>>

\* the provider cannot tell whether the input it was typing was taken
SubmissionUnconfirmed ==
    /\ \E g \in Generations : loops[g].pc = "submit"
    /\ tab.runner.activePrompt # NoPrompt /\ tab.runner.activeTurn = NoTurn
    /\ tab.runner.state = "dispatching"
    /\ tab' = [tab EXCEPT !.runner.state = "reconciling"]
    /\ UNCHANGED <<mem, loops, callers, lockQ, turns, calls>>

ProviderStep ==
    ManualTurn \/ SubmissionUnconfirmed
    \/ \E t \in Turns : TurnEnds(t) \/ TurnHeard(t) \/ TurnRecorded(t)

-----------------------------------------------------------------------------

Init ==
    /\ tab = InitialTab
    /\ owner = 0 /\ generation = 0 /\ stopping = FALSE /\ oneShot = {}
    /\ loops = [g \in Generations |-> Gone]
    /\ callers = [c \in Callers |-> Idle]
    /\ lockQ = <<>>
    /\ turns = [t \in Turns |-> NoTurnYet]
    /\ calls = 0

Next ==
    \/ \E g \in Generations : LoopStep(g)
    \/ \E c \in Callers : Call(c) \/ CallerStep(c)
    \/ ProviderStep

Spec == Init /\ [][Next]_vars

(* Promises settle: the storage and the lock answer, timers fire, a turn     *)
(* the provider started ends and is reported.  Nobody has to make a call,    *)
(* type into the terminal or lose a confirmation.                            *)
Fairness ==
    /\ \A g \in Generations : WF_vars(LoopStep(g))
    /\ \A c \in Callers : WF_vars(CallerStep(c))
    /\ \A t \in Turns : WF_vars(TurnEnds(t)) /\ WF_vars(TurnHeard(t)) /\ WF_vars(TurnRecorded(t))

FairSpec == Spec /\ Fairness
=============================================================================
