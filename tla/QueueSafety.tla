----------------------------- MODULE QueueSafety -----------------------------
(***************************************************************************)
(* What the queue runner promises about the files and the loops, whatever  *)
(* the order of callbacks, API calls and provider turns.                   *)
(***************************************************************************)
EXTENDS QueueRunner

LoopState ==
    [pc : LoopLocked \cup LoopFree, thread : Threads \cup {NoThread},
     prompt : Prompts \cup {NoPrompt}, client : Clients, turn : TurnIds, failed : BOOLEAN,
     rolling : BOOLEAN, ids : SUBSET Prompts]
CallerState ==
    [pc : CallerLocked \cup CallerFree, op : Ops \cup {"none"}, prompt : Prompts \cup {NoPrompt},
     loop : 0..MaxGeneration, thread : Threads \cup {NoThread}, turn : TurnIds, client : Clients,
     prev : [thread : Threads \cup {NoThread}, turn : TurnIds, client : Clients, steered : BOOLEAN],
     settled : BOOLEAN]
TurnState ==
    [status : {"none", "active"} \cup Outcomes, thread : Threads \cup {NoThread},
     inputs : SUBSET Prompts, queued : BOOLEAN, told : {"no", "heard", "recorded", "done"}]

\* Every variable keeps its type.
TypeOK ==
    /\ tab \in TabRecord
    /\ owner \in 0..MaxGeneration /\ generation \in 0..MaxGeneration
    /\ stopping \in BOOLEAN /\ oneShot \subseteq Prompts
    /\ loops \in [Generations -> LoopState]
    /\ callers \in [Callers -> CallerState]
    /\ lockQ \in Seq(Generations \cup Callers)
    /\ turns \in [Turns -> TurnState]
    /\ calls \in 0..MaxCalls

-----------------------------------------------------------------------------
(* Safety. *)

Live(g) == loops[g].pc \notin {"none", "relaunch", "done"}

(* launchLoop and abandonLoop keep one loop in charge: the loop the runner  *)
(* owns is alive and is the newest, and a live loop of the newest           *)
(* generation is owned, so every other loop still running is one that       *)
(* abandonLoop detached and whose generation checks fail.                   *)
LoopOwnership ==
    /\ owner \in {0, generation}
    /\ owner # 0 => Live(owner)
    /\ \A g \in Generations :
         /\ g > generation => loops[g].pc = "none"
         /\ g = generation /\ Live(g) => owner = g

\* nothing is in flight and every turn that ended has been reported
AllQuiet ==
    /\ \A g \in Generations : loops[g].pc \in {"none", "done"}
    /\ \A c \in Callers : callers[c] = Idle
    /\ \A t \in Turns : turns[t].status = "none" \/ turns[t].told = "done"

(* Once nothing is in flight no prompt is left dispatching or running, no   *)
(* answer card is left running and the runner points at no prompt: dispatch,*)
(* interruptCurrent, finalizeInterruptedTurn and recordTurn settle between  *)
(* them whatever was reserved, however they interleave.                     *)
SettledRecords ==
    AllQuiet =>
        /\ \A p \in Prompts : tab.prompts[p].status \notin Active
        /\ \A t \in TurnIds : tab.answers[t].status # "running"
        /\ tab.runner.activePrompt = NoPrompt

(* Once nothing is in flight the tab is not shown as working either         *)
(* (tab-activity.ts: the states in which the agent is on a turn right now). *)
WorkingStates == {"dispatching", "running", "pausing"}
RunnerAtRest == AllQuiet => tab.runner.state \notin WorkingStates

(* A rolling queue has somebody to roll it: once nothing is in flight the   *)
(* setting is not "running" (activate, launchLoop's finally handler and     *)
(* armIfEmpty hand over to each other without a gap).                       *)
RunningHasLoop ==
    AllQuiet => tab.runner.desired # "running"

(* What the tab shows of the queue is what its loops do.                    *)
RunnerMatchesLoop == RunnerAtRest /\ RunningHasLoop

Activating == {"start.clear", "act.read", "act.on", "act.boot", "batch.run", "ins.reserve", "ins.move"}

Dispatches(p) == tab.prompts[p].status = "pending" /\ tab'.prompts[p].status = "dispatching"

\* paused, with nobody about to start the queue or one of its prompts
Stopped ==
    /\ tab.runner.desired = "paused" /\ oneShot = {}
    /\ \A c \in Callers : callers[c].pc \notin Activating

(* A queue that was stopped stays stopped: whatever the loop had already    *)
(* chosen, no pending prompt is dispatched and the setting does not change  *)
(* until somebody asks (prepareDispatch reads the intent again).            *)
PauseHolds ==
    [][Stopped => /\ tab'.runner.desired = "paused"
                  /\ \A p \in Prompts : ~Dispatches(p)]_vars

(* The failure policy "pause" holds: until somebody makes another call, the *)
(* queue takes no prompt after one has failed.                              *)
FailureStops ==
    [][calls = 1 /\ tab.onFailure = "pause" /\ (\E p \in Prompts : tab.prompts[p].status = "failed")
        => \A p \in Prompts : ~Dispatches(p)]_vars

(* A prompt is never handed to the provider while a turn that already holds *)
(* it is still active: the reservation of prepareDispatch and               *)
(* steerPendingPrompt is exclusive, also between a detached loop and the    *)
(* loop that replaced it.                                                   *)
NoDoubleTurn ==
    \A t, u \in Turns :
        t # u /\ turns[t].status = "active" /\ turns[u].status = "active" =>
            turns[t].inputs \cap turns[u].inputs = {}

(* A prompt filed as completed after it was reserved was an input of a turn *)
(* that completed, unless the call that reserved it is still going to undo  *)
(* the reservation.                                                         *)
CompletedWasDelivered ==
    \A p \in Prompts \ SlashPrompts :
        /\ tab.prompts[p].status = "completed" /\ tab.prompts[p].client # NoClient
        /\ \A c \in Callers : callers[c].prompt # p
        => \E t \in Turns : p \in turns[t].inputs /\ turns[t].status = "completed"

(* A running prompt is an input of the turn it is linked to, and is filed   *)
(* under the conversation that turn belongs to, also when the tab is bound  *)
(* to another conversation while the prompt is being submitted.             *)
RunningWasDelivered ==
    \A p \in Prompts : tab.prompts[p].status = "running" =>
        /\ tab.prompts[p].turn \in Turns
        /\ p \in turns[tab.prompts[p].turn].inputs
        /\ tab.prompts[p].thread = turns[tab.prompts[p].turn].thread

(* What is filed as delivered was delivered.                                *)
DeliveredRecords == CompletedWasDelivered /\ RunningWasDelivered

-----------------------------------------------------------------------------
(* Liveness, under FairSpec. *)

(* A rolling queue moves: a prompt it may take is taken, or the queue stops *)
(* rolling.  The loop, the finally handler that relaunches it and armIfEmpty*)
(* never leave a rolling queue with work and no loop.                       *)
RollingProgress ==
    \A p \in Prompts :
        Rolls /\ Eligible(tab, p, tab.thread) ~> ~Rolls \/ ~Eligible(tab, p, tab.thread)

(* A reserved prompt settles: it completes, fails, is interrupted or goes   *)
(* back to pending, whichever of the loop, the interrupt and the event      *)
(* handler gets to its turn first.                                          *)
DispatchSettles ==
    \A p \in Prompts : tab.prompts[p].status \in Active ~> tab.prompts[p].status \notin Active

(* The queue moves on: what it may take is taken and what it took settles.  *)
QueueMoves == RollingProgress /\ DispatchSettles
=============================================================================
