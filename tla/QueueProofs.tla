----------------------------- MODULE QueueProofs ------------------------------
(***************************************************************************)
(* Proofs about the queue runner, for every number of prompts, callers,    *)
(* loops, turns and calls: its types, that one loop owns the queue, and    *)
(* that a stopped queue stays stopped.                                     *)
(*                                                                         *)
(* The type invariant is inductive together with three facts the steps     *)
(* rely on when they choose: the queue's order holds every prompt that is  *)
(* there, and a loop or a request that is about to hand a prompt to the    *)
(* provider has one.                                                       *)
(***************************************************************************)
EXTENDS QueueSafety, TabFilesProofs

LoopHasPrompt == {"prepare", "mark", "submit"}
CallerHasPrompt == {"ins.steer", "batch.run"}

LoopsTyped ==
    /\ owner \in 0..MaxGeneration /\ generation \in 0..MaxGeneration
    /\ loops \in [Generations -> LoopState]
    /\ \A g \in Generations : loops[g].pc \in LoopHasPrompt => loops[g].prompt \in Prompts

LockTyped == lockQ \in Seq(Generations \cup Callers)

CallersTyped ==
    /\ callers \in [Callers -> CallerState]
    /\ \A c \in Callers : callers[c].pc \in CallerHasPrompt => callers[c].prompt \in Prompts

TurnsTyped == turns \in [Turns -> TurnState]

IntentTyped == stopping \in BOOLEAN /\ oneShot \subseteq Prompts /\ calls \in 0..MaxCalls

TypeInv ==
    /\ FilesOK(tab) /\ LoopsTyped /\ LockTyped /\ CallersTyped /\ TurnsTyped /\ IntentTyped

LEMMA TypeInvTypes == TypeInv => TypeOK
BY DEF TypeInv, FilesOK, LoopsTyped, LockTyped, CallersTyped, TurnsTyped, IntentTyped, TypeOK

-----------------------------------------------------------------------------
(* The lock's queue, the loops and the callers, whatever the step. *)

LEMMA ReleasedTyped ==
    ASSUME LockTyped
    PROVE  /\ lockQ \in Seq(Generations \cup Callers)
           /\ \A id : Runs(id) => Released \in Seq(Generations \cup Callers)
BY HeadTailProperties DEF LockTyped, Runs, Released

LEMMA QueueTyped ==
    ASSUME NEW rest \in Seq(Generations \cup Callers), NEW id \in Generations \cup Callers, NEW pc
    PROVE  Queue(rest, id, pc) \in Seq(Generations \cup Callers)
BY AppendProperties DEF Queue

LEMMA GoneTyped ==
    ASSUME NEW pc \in LoopLocked \cup LoopFree
    PROVE  [Gone EXCEPT !.pc = pc] \in LoopState /\ [Gone EXCEPT !.pc = pc].pc = pc
<1>1. "none" \in LoopFree /\ {} \in SUBSET Prompts /\ NoTurn \in TurnIds /\ NoClient \in Clients
  BY NoTurnTyped DEF LoopFree
<1>2. Gone \in LoopState
  BY <1>1 DEF Gone, LoopState
<1> QED
  BY <1>2 DEF LoopState

LEMMA ExitTyped == \A pc \in {"none", "read", "relaunch", "done"} :
                        [Gone EXCEPT !.pc = pc] \in LoopState /\ [Gone EXCEPT !.pc = pc].pc \notin LoopHasPrompt
<1>1. SUFFICES ASSUME NEW pc \in {"none", "read", "relaunch", "done"}
               PROVE  [Gone EXCEPT !.pc = pc] \in LoopState /\ [Gone EXCEPT !.pc = pc].pc \notin LoopHasPrompt
  OBVIOUS
<1>2. pc \in LoopLocked \cup LoopFree /\ pc \notin LoopHasPrompt
  BY DEF LoopFree, LoopHasPrompt
<1> QED
  BY <1>2, GoneTyped

LEMMA MovesTyped ==
    ASSUME LoopsTyped, UNCHANGED generation,
           NEW g \in Generations, NEW r \in LoopState, r.pc \in LoopHasPrompt => r.prompt \in Prompts,
           NEW rest \in Seq(Generations \cup Callers), Moves(g, r, rest)
    PROVE  LoopsTyped' /\ LockTyped'
<1>1. LockTyped'
  BY QueueTyped DEF Moves, LockTyped
<1>2. LoopsTyped'
  BY DEF Moves, LoopsTyped
<1> QED
  BY <1>1, <1>2

LEMMA GoesTyped ==
    ASSUME LoopsTyped, UNCHANGED generation,
           NEW g \in Generations, NEW pc \in LoopLocked \cup LoopFree,
           pc \in LoopHasPrompt => loops[g].prompt \in Prompts,
           NEW rest \in Seq(Generations \cup Callers), Goes(g, pc, rest)
    PROVE  LoopsTyped' /\ LockTyped'
<1> DEFINE r == [loops[g] EXCEPT !.pc = pc]
<1>1. loops[g] \in LoopState
  BY DEF LoopsTyped
<1>2. r \in LoopState /\ r.pc = pc /\ r.prompt = loops[g].prompt
  BY <1>1 DEF LoopState
<1>3. Moves(g, r, rest)
  BY DEF Goes
<1> HIDE DEF r
<1> QED
  BY <1>2, <1>3, MovesTyped

LEMMA ExitsTyped ==
    ASSUME LoopsTyped, UNCHANGED generation,
           NEW g \in Generations, NEW rest \in Seq(Generations \cup Callers), Exits(g, rest)
    PROVE  LoopsTyped' /\ LockTyped'
<1> DEFINE pc == IF owner = g /\ ~stopping THEN "relaunch" ELSE "done"
           r == [Gone EXCEPT !.pc = pc]
<1>1. r \in LoopState /\ r.pc \notin LoopHasPrompt
  BY ExitTyped
<1>2. loops' = [loops EXCEPT ![g] = r] /\ lockQ' = rest /\ owner' = IF owner = g THEN 0 ELSE owner
  BY DEF Exits
<1> HIDE DEF r
<1>3. LockTyped'
  BY <1>2 DEF LockTyped
<1>4. owner' \in 0..MaxGeneration
  BY <1>2, QueueAssumption DEF LoopsTyped
<1>5. LoopsTyped'
  BY <1>1, <1>2, <1>4 DEF LoopsTyped
<1> QED
  BY <1>3, <1>5

LEMMA IteratesTyped ==
    ASSUME LoopsTyped, UNCHANGED generation,
           NEW g \in Generations, NEW rest \in Seq(Generations \cup Callers), Iterates(g, rest)
    PROVE  LoopsTyped' /\ LockTyped'
<1> DEFINE r == [Gone EXCEPT !.pc = "read"]
<1>1. r \in LoopState /\ r.pc \notin LoopHasPrompt
  BY ExitTyped
<1>2. Exits(g, rest) \/ Moves(g, r, rest)
  BY DEF Iterates
<1> HIDE DEF r
<1> QED
  BY <1>1, <1>2, ExitsTyped, MovesTyped

LEMMA LaunchesTyped ==
    ASSUME LoopsTyped, NEW stop, NEW before \in [Generations -> LoopState],
           \A g \in Generations : before[g].pc \in LoopHasPrompt => before[g].prompt \in Prompts,
           Launches(stop, before)
    PROVE  LoopsTyped'
<1> DEFINE r == [Gone EXCEPT !.pc = "read"]
<1>1. r \in LoopState /\ r.pc \notin LoopHasPrompt
  BY ExitTyped
<1>2. CASE owner = 0 /\ ~stop
  <2>1. /\ generation < MaxGeneration /\ generation' = generation + 1 /\ owner' = generation + 1
        /\ loops' = [before EXCEPT ![generation + 1] = r]
    BY <1>2 DEF Launches
  <2>2. generation' \in 0..MaxGeneration /\ owner' \in 0..MaxGeneration
    BY <2>1, QueueAssumption DEF LoopsTyped
  <2> HIDE DEF r
  <2> QED
    BY <1>1, <2>1, <2>2 DEF LoopsTyped
<1>3. CASE ~(owner = 0 /\ ~stop)
  BY <1>3 DEF Launches, LoopsTyped
<1> QED
  BY <1>2, <1>3

LEMMA AbandonsTyped ==
    ASSUME LoopsTyped, NEW loop, Abandons(loop), UNCHANGED loops
    PROVE  LoopsTyped'
BY QueueAssumption DEF Abandons, LoopsTyped

LEMMA CallerGoesTyped ==
    ASSUME CallersTyped, NEW c \in Callers, NEW r \in CallerState,
           r.pc \in CallerHasPrompt => r.prompt \in Prompts,
           NEW rest \in Seq(Generations \cup Callers), CallerGoes(c, r, rest)
    PROVE  CallersTyped' /\ LockTyped'
<1>1. LockTyped'
  BY QueueTyped DEF CallerGoes, LockTyped
<1>2. CallersTyped'
  BY DEF CallerGoes, CallersTyped
<1> QED
  BY <1>1, <1>2

LEMMA CallerAtTyped ==
    ASSUME CallersTyped, NEW c \in Callers, NEW pc \in (CallerLocked \cup CallerFree) \ CallerHasPrompt,
           NEW rest \in Seq(Generations \cup Callers), CallerAt(c, pc, rest)
    PROVE  CallersTyped' /\ LockTyped'
<1> DEFINE r == [callers[c] EXCEPT !.pc = pc]
<1>1. callers[c] \in CallerState
  BY DEF CallersTyped
<1>2. r \in CallerState /\ r.pc = pc
  BY <1>1 DEF CallerState
<1>3. CallerGoes(c, r, rest)
  BY DEF CallerAt
<1> HIDE DEF r
<1> QED
  BY <1>2, <1>3, CallerGoesTyped

LEMMA IdleTyped == Idle \in CallerState /\ Idle.pc = "idle"
BY NoTurnTyped, QueueAssumption DEF Idle, CallerState, CallerFree, CallerLocked, Unlinked

LEMMA ReturnsTyped ==
    ASSUME CallersTyped, NEW c \in Callers,
           NEW rest \in Seq(Generations \cup Callers), Returns(c, rest)
    PROVE  CallersTyped' /\ LockTyped'
BY IdleTyped, CallerGoesTyped DEF Returns, CallerHasPrompt

-----------------------------------------------------------------------------
(* The steps of a loop. *)

\* A step of a loop leaves the requests, the turns and the calls alone, and
\* takes nothing but its own prompts out of the one-shots.
LEMMA LoopFrame ==
    ASSUME TypeInv, UNCHANGED <<stopping, callers, turns, calls>>, oneShot' \subseteq oneShot,
           FilesOK(tab'), LoopsTyped', LockTyped'
    PROVE  TypeInv'
BY DEF TypeInv, CallersTyped, TurnsTyped, IntentTyped

LEMMA TypeInvParts ==
    ASSUME TypeInv
    PROVE  /\ FilesOK(tab) /\ LoopsTyped /\ CallersTyped /\ oneShot \subseteq Prompts
           /\ lockQ \in Seq(Generations \cup Callers)
           /\ \A id : Runs(id) => Released \in Seq(Generations \cup Callers)
           /\ tab.thread \in Threads \cup {NoThread}
           /\ \A g \in Generations : loops[g] \in LoopState
           /\ \A c \in Callers : callers[c] \in CallerState
BY ReleasedTyped, FilesTyped DEF TypeInv, IntentTyped, LockTyped, LoopsTyped, CallersTyped

LEMMA NothingTyped ==
    ASSUME TypeInv, UNCHANGED generation, NEW g \in Generations, NEW thread \in Threads \cup {NoThread},
           NothingToRun(g, thread)
    PROVE  LoopsTyped' /\ LockTyped'
<1> DEFINE pc == IF oneShot # {} THEN "discard" ELSE IF Rolls THEN "arm" ELSE "setPaused"
           r == [Gone EXCEPT !.pc = pc, !.thread = thread, !.rolling = Rolls, !.ids = oneShot]
<1>1. pc \in LoopLocked \cup LoopFree /\ pc \notin LoopHasPrompt
  BY DEF LoopLocked, LoopHasPrompt
<1>2. Rolls \in BOOLEAN
  BY DEF Rolls
<1>3. [Gone EXCEPT !.pc = pc] \in LoopState
  BY <1>1, GoneTyped
<1> HIDE DEF pc
<1>4. r = [[Gone EXCEPT !.pc = pc] EXCEPT !.thread = thread, !.rolling = Rolls, !.ids = oneShot]
  OBVIOUS
<1>5. r \in LoopState /\ r.pc = pc
  BY <1>2, <1>3, TypeInvParts DEF LoopState, Gone
<1>6. Moves(g, r, lockQ)
  BY DEF NothingToRun, pc
<1> HIDE DEF r
<1> QED
  BY <1>1, <1>5, <1>6, MovesTyped, TypeInvParts

LEMMA LoopReadTyped ==
    ASSUME TypeInv, NEW g \in Generations, LoopRead(g)
    PROVE  TypeInv'
<1> DEFINE pc == IF tab.runner.state # "waiting_for_thread" THEN "await"
                 ELSE IF tab.thread = NoThread THEN "fresh" ELSE "idle"
           r == [Gone EXCEPT !.thread = tab.thread, !.pc = pc]
<1>1. UNCHANGED <<tab, generation, stopping, callers, turns, calls>> /\ oneShot' \subseteq oneShot
  BY DEF LoopRead, FailsRunner
<1>2. \/ Exits(g, lockQ) \/ Goes(g, "setPaused", lockQ) \/ Goes(g, "failClear", lockQ)
      \/ NothingToRun(g, tab.thread) \/ Moves(g, r, lockQ)
  BY DEF LoopRead, FailsRunner
<1>3. pc \in LoopLocked \cup LoopFree /\ pc \notin LoopHasPrompt
  BY DEF LoopLocked, LoopFree, LoopHasPrompt
<1>4. "setPaused" \in LoopLocked \ LoopHasPrompt /\ "failClear" \in LoopLocked \ LoopHasPrompt
  BY DEF LoopLocked, LoopHasPrompt
<1> HIDE DEF pc
<1>5. r \in LoopState /\ r.pc = pc
  BY <1>3, GoneTyped, TypeInvParts DEF LoopState, Gone
<1> HIDE DEF r
<1>6. LoopsTyped' /\ LockTyped'
  BY <1>1, <1>2, <1>3, <1>4, <1>5, TypeInvParts, ExitsTyped, GoesTyped, NothingTyped, MovesTyped
<1> QED
  BY <1>1, <1>6, LoopFrame, TypeInvParts

LEMMA LoopSetPausedTyped ==
    ASSUME TypeInv, NEW g \in Generations, LoopSetPaused(g)
    PROVE  TypeInv'
<1>1. FilesOK(tab')
  BY SetRunnerStateOK, NoTurnTyped, TypeInvParts DEF LoopSetPaused, RunnerState
<1>2. LoopsTyped' /\ LockTyped'
  BY ExitsTyped, TypeInvParts DEF LoopSetPaused, LoopIn
<1> QED
  BY <1>1, <1>2, LoopFrame DEF LoopSetPaused

LEMMA LoopFailRunnerTyped ==
    ASSUME TypeInv, NEW g \in Generations, LoopFailRunner(g)
    PROVE  TypeInv'
<1>1. FilesOK(tab')
  BY ClearAutoOK, FailRunnerOK, TypeInvParts DEF LoopFailRunner
<1>2. "failSet" \in LoopLocked \ LoopHasPrompt
  BY DEF LoopLocked, LoopHasPrompt
<1>3. LoopsTyped' /\ LockTyped'
  BY <1>2, GoesTyped, ExitsTyped, TypeInvParts DEF LoopFailRunner, LoopIn
<1> QED
  BY <1>1, <1>3, LoopFrame DEF LoopFailRunner

LEMMA LoopDiscardTyped ==
    ASSUME TypeInv, NEW g \in Generations, LoopDiscard(g)
    PROVE  TypeInv'
<1>1. FilesOK(tab')
  BY ClearAutoOfOK, TypeInvParts DEF LoopDiscard
<1>2. {"arm", "setPaused"} \subseteq LoopLocked \ LoopHasPrompt
  BY DEF LoopLocked, LoopHasPrompt
<1>3. LoopsTyped' /\ LockTyped'
  BY <1>2, GoesTyped, TypeInvParts DEF LoopDiscard, LoopIn
<1> QED
  BY <1>1, <1>3, LoopFrame DEF LoopDiscard

LEMMA LoopArmTyped ==
    ASSUME TypeInv, NEW g \in Generations, LoopArm(g)
    PROVE  TypeInv'
<1>1. FilesOK(tab')
  BY PauseRunnerOK, TypeInvParts DEF LoopArm
<1>2. LoopsTyped' /\ LockTyped'
  BY IteratesTyped, ExitsTyped, TypeInvParts DEF LoopArm, LoopIn
<1> QED
  BY <1>1, <1>2, LoopFrame DEF LoopArm

LEMMA LoopAwaitTyped ==
    ASSUME TypeInv, NEW g \in Generations, LoopAwait(g)
    PROVE  TypeInv'
<1>1. FilesOK(tab')
  BY SetRunnerStateOK, NoTurnTyped, TypeInvParts DEF LoopAwait, RunnerState
<1>2. {"idle", "fresh"} \subseteq LoopFree \ LoopHasPrompt
  BY DEF LoopFree, LoopHasPrompt
<1>3. LoopsTyped' /\ LockTyped'
  BY <1>2, GoesTyped, ExitsTyped, TypeInvParts DEF LoopAwait, LoopIn
<1> QED
  BY <1>1, <1>3, LoopFrame DEF LoopAwait

LEMMA LoopIdleTyped ==
    ASSUME TypeInv, NEW g \in Generations, LoopIdle(g)
    PROVE  TypeInv'
<1>1. {"fresh", "waitTimeout", "waitError"} \subseteq LoopFree \ LoopHasPrompt
  BY DEF LoopFree, LoopHasPrompt
<1>2. UNCHANGED <<tab, generation, stopping, oneShot, callers, turns, calls>>
  BY DEF LoopIdle
<1>3. Exits(g, lockQ) \/ \E pc \in {"fresh", "waitTimeout", "waitError"} : Goes(g, pc, lockQ)
  BY DEF LoopIdle
<1>4. LoopsTyped' /\ LockTyped'
  BY <1>1, <1>2, <1>3, GoesTyped, ExitsTyped, TypeInvParts
<1> QED
  BY <1>2, <1>4, LoopFrame, TypeInvParts

LEMMA LoopWaitFailedTyped ==
    ASSUME TypeInv, NEW g \in Generations, LoopWaitFailed(g)
    PROVE  TypeInv'
<1>1. {"setPaused", "failClear"} \subseteq LoopLocked \ LoopHasPrompt
  BY DEF LoopLocked, LoopHasPrompt
<1>2. UNCHANGED <<tab, generation, stopping, callers, turns, calls>> /\ oneShot' \subseteq oneShot
  BY DEF LoopWaitFailed, FailsRunner
<1>3. Iterates(g, lockQ) \/ Goes(g, "setPaused", lockQ) \/ Goes(g, "failClear", lockQ)
  BY DEF LoopWaitFailed, FailsRunner
<1>4. LoopsTyped' /\ LockTyped'
  BY <1>1, <1>2, <1>3, GoesTyped, IteratesTyped, TypeInvParts
<1> QED
  BY <1>2, <1>4, LoopFrame, TypeInvParts

LEMMA TakeableIn ==
    ASSUME TypeInv, NEW thread, Takeable(thread) # {}
    PROVE  FirstOf(tab, Takeable(thread)) \in Prompts
<1>1. Takeable(thread) \subseteq {p \in Prompts : Present(tab, p)}
  BY DEF Takeable, EligiblePrompts, Eligible
<1>2. Takeable(thread) \cap ToSet(tab.order) # {}
  BY <1>1, TypeInvParts DEF FilesOK, OrderCovers
<1> QED
  BY <1>2, FirstOfIn, TypeInvParts

LEMMA LoopFreshTyped ==
    ASSUME TypeInv, NEW g \in Generations, LoopFresh(g)
    PROVE  TypeInv'
<1> DEFINE thread == loops[g].thread
           next == FirstOf(tab, Takeable(thread))
           r == [loops[g] EXCEPT !.pc = "prepare", !.prompt = next]
<1>1. UNCHANGED <<tab, generation, stopping, callers, turns, calls>> /\ oneShot' \subseteq oneShot
  BY DEF LoopFresh, FailsRunner
<1>2. \/ Goes(g, "setPaused", lockQ) \/ Goes(g, "failClear", lockQ) \/ Iterates(g, lockQ)
      \/ NothingToRun(g, thread)
      \/ Takeable(thread) # {} /\ Moves(g, r, lockQ)
  BY DEF LoopFresh, FailsRunner
<1>3. {"setPaused", "failClear"} \subseteq LoopLocked \ LoopHasPrompt /\ "prepare" \in LoopLocked
  BY DEF LoopLocked, LoopHasPrompt
<1>4. thread \in Threads \cup {NoThread}
  BY TypeInvParts DEF LoopState
<1>5. Takeable(thread) # {} => next \in Prompts
  BY TakeableIn
<1> HIDE DEF next, thread
<1>6. Takeable(thread) # {} => r \in LoopState /\ r.prompt \in Prompts
  BY <1>3, <1>5, TypeInvParts DEF LoopState
<1> HIDE DEF r
<1>7. LoopsTyped' /\ LockTyped'
  BY <1>1, <1>2, <1>3, <1>4, <1>6, GoesTyped, IteratesTyped, NothingTyped, MovesTyped, TypeInvParts
<1> QED
  BY <1>1, <1>7, LoopFrame, TypeInvParts

LEMMA LoopPrepareTyped ==
    ASSUME TypeInv, NEW g \in Generations, LoopPrepare(g)
    PROVE  TypeInv'
<1> DEFINE p == loops[g].prompt
           r == [loops[g] EXCEPT !.pc = "mark", !.client = tab'.clients]
<1>1. p \in Prompts
  BY DEF LoopPrepare, LoopIn, TypeInv, LoopsTyped, LoopHasPrompt
<1>2. CASE MayDispatch(g, p)
  <2>1. tab' = Reserve(tab, p) /\ tab.clients < MaxClients /\ Present(tab, p)
    BY <1>2 DEF LoopPrepare, MayDispatch, Eligible
  <2>2. FilesOK(tab') /\ tab'.clients \in Clients
    BY <1>1, <2>1, ReserveOK, TypeInvParts
  <2>3. Moves(g, r, Released) /\ Runs(g) /\ oneShot' \subseteq oneShot
        /\ UNCHANGED <<generation, stopping, callers, turns, calls>>
    BY <1>2 DEF LoopPrepare, LoopIn
  <2>4. r \in LoopState /\ r.prompt \in Prompts
    BY <1>1, <2>2, TypeInvParts DEF LoopState, LoopLocked
  <2> HIDE DEF r
  <2>5. LoopsTyped' /\ LockTyped'
    BY <2>3, <2>4, MovesTyped, TypeInvParts
  <2> QED
    BY <2>2, <2>3, <2>5, LoopFrame
<1>3. CASE ~MayDispatch(g, p)
  <2>1. Iterates(g, Released) /\ Runs(g) /\ UNCHANGED <<tab, oneShot, generation, stopping, callers, turns, calls>>
    BY <1>3 DEF LoopPrepare, LoopIn
  <2> QED
    BY <2>1, IteratesTyped, LoopFrame, TypeInvParts
<1> QED
  BY <1>2, <1>3

LEMMA LoopMarkTyped ==
    ASSUME TypeInv, NEW g \in Generations, LoopMark(g)
    PROVE  TypeInv'
<1>1. loops[g].prompt \in Prompts
  BY DEF LoopMark, LoopIn, TypeInv, LoopsTyped, LoopHasPrompt
<1>2. FilesOK(tab')
  BY <1>1, SetRunnerStateOK, NoTurnTyped, TypeInvParts DEF LoopMark, RunnerState
<1>3. "submit" \in LoopFree
  BY DEF LoopFree
<1>4. LoopsTyped' /\ LockTyped'
  BY <1>1, <1>3, GoesTyped, TypeInvParts DEF LoopMark, LoopIn
<1> QED
  BY <1>2, <1>4, LoopFrame DEF LoopMark

LEMMA TurnsIn == Turns \subseteq TurnIds /\ Turns \subseteq Nat /\ Turns \subseteq 1..MaxTurns /\ MaxTurns \in Nat
BY FilesAssumption DEF Turns, TurnIds

LEMMA NextTurnIn ==
    ASSUME UnusedTurns # {}
    PROVE  NextTurn \in Turns
<1>1. UnusedTurns \subseteq Turns
  BY DEF UnusedTurns
<1>2. Min(UnusedTurns) \in UnusedTurns
  BY <1>1, TurnsIn, MinIn
<1> QED
  BY <1>1, <1>2 DEF NextTurn

LEMMA LoopSubmitAcceptedTyped ==
    ASSUME TypeInv, NEW g \in Generations, LoopSubmitAccepted(g)
    PROVE  TypeInv'
<1>1. PICK thread \in IF loops[g].thread = NoThread THEN Threads ELSE {loops[g].thread} :
         /\ turns' = [turns EXCEPT ![NextTurn] =
                [status |-> "active", thread |-> thread, inputs |-> {loops[g].prompt},
                 queued |-> TRUE, told |-> IF ReportsQueueTurns THEN "no" ELSE "done"]]
         /\ Moves(g, [loops[g] EXCEPT !.pc = IF loops[g].thread = NoThread THEN "bind" ELSE "attempt",
                                      !.thread = thread, !.turn = NextTurn], lockQ)
  BY DEF LoopSubmitAccepted
<1> DEFINE pc == IF loops[g].thread = NoThread THEN "bind" ELSE "attempt"
           told == IF ReportsQueueTurns THEN "no" ELSE "done"
           turn == NextTurn
           r == [loops[g] EXCEPT !.pc = pc, !.thread = thread, !.turn = turn]
           new == [status |-> "active", thread |-> thread, inputs |-> {loops[g].prompt},
                   queued |-> TRUE, told |-> told]
<1>2. UNCHANGED <<tab, generation, stopping, oneShot, callers, calls>>
  BY DEF LoopSubmitAccepted
<1>3. turn \in Turns /\ turn \in TurnIds
  BY NextTurnIn, TurnsIn DEF LoopSubmitAccepted
<1>4. thread \in Threads \cup {NoThread} /\ loops[g].prompt \in Prompts
  BY <1>1, TypeInvParts DEF LoopSubmitAccepted, LoopState, TypeInv, LoopsTyped, LoopHasPrompt
<1>5. pc \in LoopLocked \cup LoopFree /\ pc \notin LoopHasPrompt
  BY DEF LoopLocked, LoopHasPrompt
<1>6. turns' = [turns EXCEPT ![turn] = new] /\ Moves(g, r, lockQ)
  BY <1>1
<1> HIDE DEF turn, pc
<1>7. r \in LoopState /\ r.pc = pc
  BY <1>3, <1>4, <1>5, TypeInvParts DEF LoopState
<1>8. new \in TurnState
  BY <1>4 DEF TurnState
<1> HIDE DEF r, new
<1>9. LoopsTyped' /\ LockTyped'
  BY <1>2, <1>5, <1>6, <1>7, MovesTyped, TypeInvParts
<1>10. TurnsTyped'
  BY <1>6, <1>8 DEF TypeInv, TurnsTyped
<1> QED
  BY <1>2, <1>9, <1>10 DEF TypeInv, CallersTyped, IntentTyped

LEMMA LoopSubmitFailedTyped ==
    ASSUME TypeInv, NEW g \in Generations, LoopSubmitFailed(g)
    PROVE  TypeInv'
<1>1. {"slash", "failQuiet", "localTurn", "fail"} \subseteq LoopLocked \ LoopHasPrompt
  BY DEF LoopLocked, LoopHasPrompt
<1>2. UNCHANGED <<tab, generation, stopping, oneShot, callers, turns, calls>>
  BY DEF LoopSubmitFailed
<1>3. \E pc \in {"slash", "failQuiet", "localTurn", "fail"} : Goes(g, pc, lockQ)
  BY DEF LoopSubmitFailed
<1>4. LoopsTyped' /\ LockTyped'
  BY <1>1, <1>2, <1>3, GoesTyped, TypeInvParts
<1> QED
  BY <1>2, <1>4, LoopFrame, TypeInvParts

LEMMA LoopBindTyped ==
    ASSUME TypeInv, NEW g \in Generations, LoopBind(g)
    PROVE  TypeInv'
<1>1. loops[g].thread \in Threads \cup {NoThread}
  BY TypeInvParts DEF LoopState
<1>2. FilesOK([tab EXCEPT !.thread = loops[g].thread])
  BY <1>1, TypeInvParts DEF FilesOK, TabRecord, OrderCovers, Present
<1>3. FilesOK(tab')
  BY <1>2, TypeInvParts DEF LoopBind
<1>4. {"attempt", "errRead"} \subseteq (LoopLocked \cup LoopFree) \ LoopHasPrompt
  BY DEF LoopLocked, LoopFree, LoopHasPrompt
<1>5. LoopsTyped' /\ LockTyped'
  BY <1>4, GoesTyped, TypeInvParts DEF LoopBind, LoopIn
<1> QED
  BY <1>3, <1>5, LoopFrame DEF LoopBind

\* The prompt, the conversation, the turn and the attempt a loop is on.
LEMMA LoopRecordTyped ==
    ASSUME TypeInv, NEW g \in Generations
    PROVE  /\ loops[g].prompt \in Prompts \cup {NoPrompt} /\ loops[g].turn \in TurnIds
           /\ loops[g].thread \in Threads \cup {NoThread} /\ loops[g].client \in Clients
           /\ loops[g].failed \in BOOLEAN
BY TypeInvParts DEF LoopState

LEMMA LoopAttemptTyped ==
    ASSUME TypeInv, NEW g \in Generations, LoopAttempt(g)
    PROVE  TypeInv'
<1>1. FilesOK(tab')
  BY AcceptedOK, LoopRecordTyped, TypeInvParts DEF LoopAttempt
<1>2. "started" \in LoopLocked \ LoopHasPrompt
  BY DEF LoopLocked, LoopHasPrompt
<1>3. LoopsTyped' /\ LockTyped'
  BY <1>2, GoesTyped, TypeInvParts DEF LoopAttempt, LoopIn
<1> QED
  BY <1>1, <1>3, LoopFrame DEF LoopAttempt

LEMMA LoopStartedTyped ==
    ASSUME TypeInv, NEW g \in Generations, LoopStarted(g)
    PROVE  TypeInv'
<1>1. Present(tab, loops[g].prompt) => loops[g].prompt \in Prompts
  BY LoopRecordTyped DEF Present
<1>2. FilesOK(tab')
  BY <1>1, RecordTurnStartedOK, LoopRecordTyped, TypeInvParts DEF LoopStarted
<1>3. {"detached", "running", "errRead"} \subseteq (LoopLocked \cup LoopFree) \ LoopHasPrompt
  BY DEF LoopLocked, LoopFree, LoopHasPrompt
<1>4. LoopsTyped' /\ LockTyped'
  BY <1>3, GoesTyped, TypeInvParts DEF LoopStarted, LoopIn
<1> QED
  BY <1>2, <1>4, LoopFrame DEF LoopStarted

LEMMA LoopDetachedTyped ==
    ASSUME TypeInv, NEW g \in Generations, LoopDetached(g)
    PROVE  TypeInv'
<1>1. "finalize" \in LoopLocked \ LoopHasPrompt
  BY DEF LoopLocked, LoopHasPrompt
<1>2. LoopsTyped' /\ LockTyped'
  BY <1>1, GoesTyped, TypeInvParts DEF LoopDetached
<1> QED
  BY <1>2, LoopFrame, TypeInvParts DEF LoopDetached

LEMMA LoopRunningTyped ==
    ASSUME TypeInv, NEW g \in Generations, LoopRunning(g)
    PROVE  TypeInv'
<1>1. FilesOK(tab')
  BY SetRunnerStateOK, LoopRecordTyped, TypeInvParts DEF LoopRunning, RunnerState
<1>2. "wait" \in LoopFree \ LoopHasPrompt
  BY DEF LoopFree, LoopHasPrompt
<1>3. LoopsTyped' /\ LockTyped'
  BY <1>2, GoesTyped, TypeInvParts DEF LoopRunning, LoopIn
<1> QED
  BY <1>1, <1>3, LoopFrame DEF LoopRunning

LEMMA LoopWaitTyped ==
    ASSUME TypeInv, NEW g \in Generations, LoopWait(g)
    PROVE  TypeInv'
<1>1. {"errRead", "record"} \subseteq (LoopLocked \cup LoopFree) \ LoopHasPrompt
  BY DEF LoopLocked, LoopFree, LoopHasPrompt
<1>2. LoopsTyped' /\ LockTyped'
  BY <1>1, GoesTyped, TypeInvParts DEF LoopWait
<1> QED
  BY <1>2, LoopFrame, TypeInvParts DEF LoopWait

LEMMA LoopRecordStepTyped ==
    ASSUME TypeInv, NEW g \in Generations, LoopRecord(g)
    PROVE  TypeInv'
<1> DEFINE outcome == turns[loops[g].turn].status
           answer == RecordedAnswer(tab, loops[g].prompt, loops[g].thread, loops[g].turn, outcome)
           failed == /\ answer # "completed" /\ loops[g].prompt \notin SlashPrompts
                     /\ outcome # "interrupted"
           pc == IF failed /\ answer = "none" THEN "fail" ELSE "clear"
           r == [loops[g] EXCEPT !.failed = failed, !.pc = pc]
<1> HIDE DEF outcome, answer
<1>1. FilesOK(tab')
  BY RecordTurnOK, LoopRecordTyped, TypeInvParts DEF LoopRecord, outcome
<1>2. failed \in BOOLEAN /\ pc \in LoopLocked \ LoopHasPrompt
  BY DEF LoopLocked, LoopHasPrompt
<1> HIDE DEF pc, failed
<1>3. r \in LoopState /\ r.pc = pc
  BY <1>2, TypeInvParts DEF LoopState
<1>4. Moves(g, r, Released) /\ Runs(g) /\ UNCHANGED <<generation, stopping, oneShot, callers, turns, calls>>
  BY DEF LoopRecord, LoopIn, outcome, answer, failed, pc
<1> HIDE DEF r
<1>5. LoopsTyped' /\ LockTyped'
  BY <1>2, <1>3, <1>4, MovesTyped, TypeInvParts
<1> QED
  BY <1>1, <1>4, <1>5, LoopFrame

LEMMA LoopErrorReadTyped ==
    ASSUME TypeInv, NEW g \in Generations, LoopErrorRead(g)
    PROVE  TypeInv'
<1>1. {"clear", "slash", "fail"} \subseteq LoopLocked \ LoopHasPrompt
  BY DEF LoopLocked, LoopHasPrompt
<1>2. LoopsTyped' /\ LockTyped'
  BY <1>1, GoesTyped, TypeInvParts DEF LoopErrorRead
<1> QED
  BY <1>2, LoopFrame, TypeInvParts DEF LoopErrorRead

LEMMA LoopSettlesPromptTyped ==
    ASSUME TypeInv, NEW g \in Generations, LoopSettlesPrompt(g)
    PROVE  TypeInv'
<1> DEFINE r == loops[g]
           failing == [r EXCEPT !.pc = "clear", !.failed = TRUE]
           local == [r EXCEPT !.pc = "finalize", !.turn = LocalTurn(r.client)]
<1>1. FilesOK(tab')
  <2>1. /\ FilesOK(CompleteSlash(tab, r.prompt, r.turn)) /\ FilesOK(MarkFailure(tab, r.prompt, r.turn))
        /\ FilesOK(MarkFailure(tab, r.prompt, NoTurn)) /\ FilesOK(MarkLocalTurn(tab, r.prompt, r.client))
    BY CompleteSlashOK, MarkFailureOK, MarkLocalTurnOK, NoTurnTyped, LoopRecordTyped, TypeInvParts
  <2>2. FilesOK(FinalizeInterrupted(tab, r.thread, r.turn)) /\ FilesOK(ClearActive(tab, r.failed, r.prompt, r.turn))
    BY FinalizeInterruptedOK, ClearActiveOK, LoopRecordTyped, TypeInvParts
  <2> QED
    BY <2>1, <2>2 DEF LoopSettlesPrompt
<1>2. {"clear", "after", "failRead", "finalize"} \subseteq (LoopLocked \cup LoopFree) \ LoopHasPrompt
  BY DEF LoopLocked, LoopFree, LoopHasPrompt
<1>3. Runs(g) /\ UNCHANGED <<generation, stopping, oneShot, callers, turns, calls>>
  BY DEF LoopSettlesPrompt, LoopIn
<1>4. \/ \E pc \in {"clear", "after", "failRead"} : Goes(g, pc, Released)
      \/ Moves(g, failing, Released) \/ Moves(g, local, Released)
  BY DEF LoopSettlesPrompt
<1>5. failing \in LoopState /\ failing.pc = "clear"
  BY <1>2, TypeInvParts DEF LoopState
<1>6. LocalTurn(r.client) \in TurnIds
  BY MarkLocalTurnOK, LoopRecordTyped, TypeInvParts
<1>7. local \in LoopState /\ local.pc = "finalize"
  BY <1>2, <1>6, TypeInvParts DEF LoopState
<1> HIDE DEF failing, local
<1>8. LoopsTyped' /\ LockTyped'
  BY <1>2, <1>3, <1>4, <1>5, <1>7, GoesTyped, MovesTyped, TypeInvParts
<1> QED
  BY <1>1, <1>3, <1>8, LoopFrame

LEMMA LoopFailReadTyped ==
    ASSUME TypeInv, NEW g \in Generations, LoopFailRead(g)
    PROVE  TypeInv'
<1>1. "pauseFail" \in LoopLocked \ LoopHasPrompt
  BY DEF LoopLocked, LoopHasPrompt
<1>2. LoopsTyped' /\ LockTyped'
  BY <1>1, GoesTyped, IteratesTyped, TypeInvParts DEF LoopFailRead
<1> QED
  BY <1>2, LoopFrame, TypeInvParts DEF LoopFailRead

LEMMA LoopPauseAfterFailureTyped ==
    ASSUME TypeInv, NEW g \in Generations, LoopPauseAfterFailure(g)
    PROVE  TypeInv'
<1>1. FilesOK(tab')
  BY PauseAfterFailureOK, TypeInvParts DEF LoopPauseAfterFailure
<1>2. LoopsTyped' /\ LockTyped'
  BY ExitsTyped, TypeInvParts DEF LoopPauseAfterFailure, LoopIn
<1> QED
  BY <1>1, <1>2, LoopFrame DEF LoopPauseAfterFailure

LEMMA LoopAfterTyped ==
    ASSUME TypeInv, NEW g \in Generations, LoopAfter(g)
    PROVE  TypeInv'
<1> DEFINE r == [loops[g] EXCEPT !.pc = "gap", !.thread = tab.thread]
<1>1. "gap" \in LoopLocked \ LoopHasPrompt
  BY DEF LoopLocked, LoopHasPrompt
<1>2. r \in LoopState /\ r.pc = "gap"
  BY <1>1, TypeInvParts DEF LoopState
<1>3. /\ Iterates(g, lockQ) \/ Moves(g, r, lockQ)
      /\ UNCHANGED <<tab, generation, stopping, oneShot, callers, turns, calls>>
  BY DEF LoopAfter
<1> HIDE DEF r
<1>4. LoopsTyped' /\ LockTyped'
  BY <1>1, <1>2, <1>3, IteratesTyped, MovesTyped, TypeInvParts
<1> QED
  BY <1>3, <1>4, LoopFrame, TypeInvParts

LEMMA LoopGapTyped ==
    ASSUME TypeInv, NEW g \in Generations, LoopGap(g)
    PROVE  TypeInv'
<1>1. FilesOK(tab')
  BY WaitForPromptOK, TypeInvParts DEF LoopGap
<1>2. "delay" \in LoopFree \ LoopHasPrompt
  BY DEF LoopFree, LoopHasPrompt
<1>3. LoopsTyped' /\ LockTyped'
  BY <1>2, GoesTyped, IteratesTyped, TypeInvParts DEF LoopGap, LoopIn
<1> QED
  BY <1>1, <1>3, LoopFrame DEF LoopGap

LEMMA LoopDelayTyped ==
    ASSUME TypeInv, NEW g \in Generations, LoopDelay(g)
    PROVE  TypeInv'
<1>1. LoopsTyped' /\ LockTyped'
  BY IteratesTyped, TypeInvParts DEF LoopDelay
<1> QED
  BY <1>1, LoopFrame, TypeInvParts DEF LoopDelay

LEMMA LoopRelaunchTyped ==
    ASSUME TypeInv, NEW g \in Generations, LoopRelaunch(g)
    PROVE  TypeInv'
<1> DEFINE r == [Gone EXCEPT !.pc = "done"]
           settled == [loops EXCEPT ![g] = r]
<1>1. r \in LoopState /\ r.pc \notin LoopHasPrompt
  BY ExitTyped
<1>2. /\ Launches(stopping, settled) \/ (loops' = settled /\ UNCHANGED <<generation, owner>>)
      /\ UNCHANGED <<tab, stopping, oneShot, callers, lockQ, turns, calls>>
  BY DEF LoopRelaunch
<1> HIDE DEF r
<1>3. settled \in [Generations -> LoopState] /\ \A h \in Generations : settled[h].pc \in LoopHasPrompt => settled[h].prompt \in Prompts
  BY <1>1, TypeInvParts DEF LoopsTyped
<1> HIDE DEF settled
<1>4. LoopsTyped'
  BY <1>2, <1>3, LaunchesTyped, TypeInvParts DEF LoopsTyped
<1>5. LockTyped'
  BY <1>2 DEF TypeInv, LockTyped
<1> QED
  BY <1>2, <1>4, <1>5, LoopFrame, TypeInvParts

LEMMA LoopStepTyped ==
    ASSUME TypeInv, NEW g \in Generations, LoopStep(g)
    PROVE  TypeInv'
BY LoopReadTyped, LoopSetPausedTyped, LoopFailRunnerTyped, LoopDiscardTyped, LoopArmTyped,
   LoopAwaitTyped, LoopIdleTyped, LoopWaitFailedTyped, LoopFreshTyped, LoopPrepareTyped,
   LoopMarkTyped, LoopSubmitAcceptedTyped, LoopSubmitFailedTyped, LoopBindTyped,
   LoopAttemptTyped, LoopStartedTyped, LoopDetachedTyped, LoopRunningTyped, LoopWaitTyped,
   LoopRecordStepTyped, LoopErrorReadTyped, LoopSettlesPromptTyped, LoopFailReadTyped,
   LoopPauseAfterFailureTyped, LoopAfterTyped, LoopGapTyped, LoopDelayTyped, LoopRelaunchTyped
   DEF LoopStep

-----------------------------------------------------------------------------
(* The calls and the steps of a request. *)

\* A step of a request that leaves the turns alone.
LEMMA CallerFrame ==
    ASSUME TypeInv, UNCHANGED turns, IntentTyped', FilesOK(tab'), LoopsTyped', CallersTyped', LockTyped'
    PROVE  TypeInv'
BY DEF TypeInv, TurnsTyped

LEMMA SameLoops ==
    ASSUME TypeInv, UNCHANGED <<owner, generation, loops>>
    PROVE  LoopsTyped'
BY DEF TypeInv, LoopsTyped

LEMMA CalledTyped ==
    ASSUME TypeInv, NEW c, NEW op, Calls(c, op)
    PROVE  calls' \in 0..MaxCalls /\ op \in Ops
BY QueueAssumption DEF TypeInv, IntentTyped, Calls

LEMMA NewRequest ==
    ASSUME NEW op \in Ops, NEW pc \in CallerLocked \cup CallerFree
    PROVE  LET r == [Idle EXCEPT !.pc = pc, !.op = op] IN
           r \in CallerState /\ r.pc = pc
BY IdleTyped DEF CallerState

\* ... with the prompt, the conversation and the turn it is about.
LEMMA NewInsert ==
    ASSUME NEW op \in Ops, NEW pc \in CallerLocked \cup CallerFree, NEW p \in Prompts,
           NEW thread \in Threads \cup {NoThread}, NEW t \in TurnIds
    PROVE  LET r == [Idle EXCEPT !.op = op, !.prompt = p, !.thread = thread, !.pc = pc, !.turn = t] IN
           r \in CallerState /\ r.pc = pc
BY IdleTyped DEF CallerState

LEMMA CallStartTyped ==
    ASSUME TypeInv, NEW c \in Callers, CallStart(c)
    PROVE  TypeInv'
<1> DEFINE r == [Idle EXCEPT !.pc = "start.clear", !.op = "start"]
<1>1. "start.clear" \in CallerLocked \ CallerHasPrompt
  BY DEF CallerLocked, CallerHasPrompt
<1>2. calls' \in 0..MaxCalls /\ "start" \in Ops
  BY CalledTyped DEF CallStart
<1>3. r \in CallerState /\ r.pc = "start.clear"
  BY <1>1, <1>2, NewRequest
<1>4. CallerGoes(c, r, lockQ) /\ oneShot' = {} /\ UNCHANGED <<tab, owner, generation, stopping, loops, turns>>
  BY DEF CallStart
<1> HIDE DEF r
<1>5. CallersTyped' /\ LockTyped'
  BY <1>1, <1>3, <1>4, CallerGoesTyped, TypeInvParts
<1>6. IntentTyped'
  BY <1>2, <1>4 DEF TypeInv, IntentTyped
<1> QED
  BY <1>4, <1>5, <1>6, CallerFrame, SameLoops, TypeInvParts

LEMMA CallPauseTyped ==
    ASSUME TypeInv, NEW c \in Callers, CallPause(c)
    PROVE  TypeInv'
<1> DEFINE r == [Idle EXCEPT !.pc = "pause.clear", !.op = "pause"]
<1>1. "pause.clear" \in CallerLocked \ CallerHasPrompt
  BY DEF CallerLocked, CallerHasPrompt
<1>2. calls' \in 0..MaxCalls /\ "pause" \in Ops
  BY CalledTyped DEF CallPause
<1>3. r \in CallerState /\ r.pc = "pause.clear"
  BY <1>1, <1>2, NewRequest
<1>4. CallerGoes(c, r, lockQ) /\ oneShot' = {} /\ UNCHANGED <<tab, owner, generation, stopping, loops, turns>>
  BY DEF CallPause
<1> HIDE DEF r
<1>5. CallersTyped' /\ LockTyped'
  BY <1>1, <1>3, <1>4, CallerGoesTyped, TypeInvParts
<1>6. IntentTyped'
  BY <1>2, <1>4 DEF TypeInv, IntentTyped
<1> QED
  BY <1>4, <1>5, <1>6, CallerFrame, SameLoops, TypeInvParts

LEMMA CallAddTyped ==
    ASSUME TypeInv, NEW c \in Callers, CallAdd(c)
    PROVE  TypeInv'
<1> DEFINE r == [Idle EXCEPT !.pc = "start.clear", !.op = "add"]
<1>1. "start.clear" \in CallerLocked \ CallerHasPrompt
  BY DEF CallerLocked, CallerHasPrompt
<1>2. calls' \in 0..MaxCalls /\ "add" \in Ops
  BY CalledTyped DEF CallAdd
<1>3. FilesOK(tab')
  <2>1. PICK p \in Unused(tab), i \in 1..(Len(tab.order) + 1) : tab' = InsertPrompt(tab, p, i, FALSE, NoThread)
    BY DEF CallAdd
  <2>2. p \in Prompts
    BY DEF Unused
  <2>3. FilesOK(InsertPrompt(tab, p, i, FALSE, NoThread))
    BY <2>2, InsertPromptOK, TypeInvParts
  <2> QED
    BY <2>1, <2>3
<1>4. r \in CallerState /\ r.pc = "start.clear"
  BY <1>1, <1>2, NewRequest
<1>5. /\ \/ oneShot' = {} /\ CallerGoes(c, r, lockQ)
         \/ UNCHANGED <<oneShot, callers, lockQ>>
      /\ UNCHANGED <<owner, generation, stopping, loops, turns>>
  BY DEF CallAdd
<1> HIDE DEF r
<1>6. CallersTyped' /\ LockTyped'
  <2>1. CASE CallerGoes(c, r, lockQ)
    BY <1>1, <1>4, <2>1, CallerGoesTyped, TypeInvParts
  <2>2. CASE UNCHANGED <<callers, lockQ>>
    BY <2>2 DEF TypeInv, CallersTyped, LockTyped
  <2> QED
    BY <1>5, <2>1, <2>2
<1>7. IntentTyped'
  BY <1>2, <1>5 DEF TypeInv, IntentTyped
<1> QED
  BY <1>3, <1>5, <1>6, <1>7, CallerFrame, SameLoops

LEMMA CallInterruptTyped ==
    ASSUME TypeInv, NEW c \in Callers, CallInterrupt(c)
    PROVE  TypeInv'
<1>1. PICK op \in {"interrupt", "stop", "close", "switch"} :
         /\ Calls(c, op) /\ stopping' = (stopping \/ op = "stop")
         /\ \E to \in IF op = "switch" THEN Threads \ {tab.thread} ELSE {NoThread} :
              CallerGoes(c, [Idle EXCEPT !.op = op, !.loop = owner, !.prev.thread = to,
                              !.pc = IF op = "switch" /\ tab.thread = NoThread
                                     THEN "bind" ELSE "int.clear"], lockQ)
         /\ oneShot' = IF op = "switch" /\ tab.thread = NoThread THEN oneShot ELSE {}
  BY DEF CallInterrupt
<1>0. PICK to \in IF op = "switch" THEN Threads \ {tab.thread} ELSE {NoThread} :
         CallerGoes(c, [Idle EXCEPT !.op = op, !.loop = owner, !.prev.thread = to,
                         !.pc = IF op = "switch" /\ tab.thread = NoThread
                                THEN "bind" ELSE "int.clear"], lockQ)
  BY <1>1
<1> DEFINE pc == IF op = "switch" /\ tab.thread = NoThread THEN "bind" ELSE "int.clear"
           prev == [Unlinked EXCEPT !.thread = to]
           r == [Idle EXCEPT !.op = op, !.loop = owner, !.prev = prev, !.pc = pc]
<1>2. UNCHANGED <<tab, owner, generation, loops, turns>>
  BY DEF CallInterrupt
<1>3. pc \in CallerLocked \ CallerHasPrompt
  BY DEF CallerLocked, CallerHasPrompt
<1>4. calls' \in 0..MaxCalls /\ op \in Ops
  BY <1>1, CalledTyped
<1>5. to \in Threads \cup {NoThread}
  BY <1>0
<1>6. prev \in [thread : Threads \cup {NoThread}, turn : TurnIds, client : Clients, steered : BOOLEAN]
  BY <1>5, NoTurnTyped DEF Unlinked
<1>7. CallerGoes(c, r, lockQ)
  BY <1>0 DEF Idle
<1> HIDE DEF pc, prev
<1>8. r \in CallerState /\ r.pc = pc
  BY <1>3, <1>4, <1>6, IdleTyped DEF CallerState, TypeInv, LoopsTyped
<1> HIDE DEF r
<1>9. CallersTyped' /\ LockTyped'
  BY <1>3, <1>7, <1>8, CallerGoesTyped, TypeInvParts
<1>10. IntentTyped'
  BY <1>1, <1>4 DEF TypeInv, IntentTyped
<1> QED
  BY <1>2, <1>9, <1>10, CallerFrame, SameLoops, TypeInvParts

LEMMA CallInsertTyped ==
    ASSUME TypeInv, NEW c \in Callers, CallInsert(c)
    PROVE  TypeInv'
<1> DEFINE active == IF tab.thread = NoThread THEN {} ELSE ActiveOn(tab.thread)
           turn == IF tab.runner.activeTurn \in active THEN tab.runner.activeTurn ELSE Max(active)
           steers(p) == active # {} /\ p \notin SlashPrompts
           r(p) == [Idle EXCEPT !.op = "insert", !.prompt = p, !.thread = tab.thread,
                       !.pc = IF steers(p) THEN "ins.reserve" ELSE "ins.move",
                       !.turn = IF steers(p) THEN turn ELSE NoTurn]
<1>1. PICK p \in EligiblePrompts(tab, tab.thread) : CallerGoes(c, r(p), lockQ)
  BY DEF CallInsert
<1>2. UNCHANGED <<tab, owner, generation, stopping, oneShot, loops, turns>>
  BY DEF CallInsert, mem
<1>3. calls' \in 0..MaxCalls /\ "insert" \in Ops
  BY CalledTyped DEF CallInsert
<1>4. p \in Prompts
  BY DEF EligiblePrompts
<1>5. active \subseteq Turns
  BY DEF ActiveOn
<1>6. active # {} => turn \in TurnIds
  BY <1>5, MaxIn, TurnsIn
<1> HIDE DEF active, turn
<1>7. r(p) \in CallerState /\ r(p).pc \in {"ins.reserve", "ins.move"}
  <2> DEFINE pc == IF steers(p) THEN "ins.reserve" ELSE "ins.move"
             id == IF steers(p) THEN turn ELSE NoTurn
  <2>1. pc \in CallerLocked /\ pc \in {"ins.reserve", "ins.move"}
    BY DEF CallerLocked
  <2>2. id \in TurnIds
    BY <1>6, NoTurnTyped
  <2> DEFINE new == [Idle EXCEPT !.op = "insert", !.prompt = p, !.thread = tab.thread, !.pc = pc, !.turn = id]
  <2>3. r(p) = new
    OBVIOUS
  <2>4. tab.thread \in Threads \cup {NoThread}
    BY TypeInvParts
  <2> HIDE DEF r, pc, id
  <2>5. new \in CallerState /\ new.pc = pc
    BY <1>3, <1>4, <2>1, <2>2, <2>4, IdleTyped DEF CallerState
  <2> QED
    BY <2>1, <2>3, <2>5
<1>8. CallersTyped' /\ LockTyped'
  <2> HIDE DEF r
  <2> QED
    BY <1>1, <1>7, CallerGoesTyped, TypeInvParts DEF CallerHasPrompt
<1>9. IntentTyped'
  BY <1>2, <1>3 DEF TypeInv, IntentTyped
<1> QED
  BY <1>2, <1>8, <1>9, CallerFrame, SameLoops, TypeInvParts

LEMMA CallTimerTyped ==
    ASSUME TypeInv, NEW c \in Callers, CallTimer(c)
    PROVE  TypeInv'
<1> DEFINE queued(p) == InsertPrompt(tab, p, Len(tab.order) + 1, TRUE, tab.thread)
           r(p) == [Idle EXCEPT !.pc = "batch.run", !.op = "timer", !.prompt = p]
<1>1. PICK p \in Unused(tab), priority \in BOOLEAN :
         /\ tab' = IF priority THEN MoveToFront(queued(p), p, tab.thread) ELSE queued(p)
         /\ CallerGoes(c, r(p), lockQ)
  BY DEF CallTimer
<1>2. UNCHANGED <<owner, generation, stopping, oneShot, loops, turns>>
  BY DEF CallTimer, mem
<1>3. calls' \in 0..MaxCalls /\ "timer" \in Ops
  BY CalledTyped DEF CallTimer
<1>4. p \in Prompts
  BY DEF Unused
<1>5. FilesOK(queued(p)) /\ Present(queued(p), p)
  <2>1. Len(tab.order) + 1 \in 1..Len(tab.order)+1
    BY OrderProperties, TypeInvParts
  <2>2. FilesOK(queued(p))
    BY <1>4, <2>1, InsertPromptOK, TypeInvParts
  <2>3. queued(p).prompts[p].status = "pending"
    BY <1>4, TypeInvParts DEF InsertPrompt, NewPrompt, FilesOK, TabRecord
  <2> QED
    BY <1>4, <2>2, <2>3, FilesAssumption DEF Present
<1> HIDE DEF queued
<1>6. FilesOK(tab')
  BY <1>1, <1>4, <1>5, MoveToFrontOK
<1>7. r(p) \in CallerState /\ r(p).pc = "batch.run" /\ r(p).prompt = p
  <2>1. "batch.run" \in CallerFree
    BY DEF CallerFree
  <2> QED
    BY <1>3, <1>4, <2>1, IdleTyped DEF CallerState
<1>8. CallersTyped' /\ LockTyped'
  <2> HIDE DEF r
  <2> QED
    BY <1>1, <1>4, <1>7, CallerGoesTyped, TypeInvParts
<1>9. IntentTyped'
  BY <1>2, <1>3 DEF TypeInv, IntentTyped
<1> QED
  BY <1>2, <1>6, <1>8, <1>9, CallerFrame, SameLoops

LEMMA CallEditTyped ==
    ASSUME TypeInv, NEW c \in Callers, CallEdit(c)
    PROVE  TypeInv'
<1>1. UNCHANGED <<owner, generation, stopping, oneShot, loops, callers, lockQ, turns>>
  BY DEF CallEdit, mem
<1>2. calls' \in 0..MaxCalls
  BY CalledTyped DEF CallEdit
<1>3. FilesOK(tab')
  <2>1. ASSUME NEW p \in Prompts, tab.prompts[p].status \in {"failed", "interrupted"}
        PROVE  FilesOK(Retry(tab, p)) /\ FilesOK(Skip(tab, p))
    BY <2>1, RetryOK, FilesAssumption, TypeInvParts DEF Present
  <2>2. ASSUME NEW p \in Prompts, Present(tab, p)
        PROVE  FilesOK(DeletePrompt(tab, p)) /\ FilesOK(MoveToFront(tab, p, tab.thread))
    BY <2>2, DeletePromptOK, MoveToFrontOK, TypeInvParts
  <2>3. \A p \in EligiblePrompts(tab, tab.thread) : p \in Prompts /\ Present(tab, p)
    BY DEF EligiblePrompts, Eligible
  <2>4. \A v \in {"pause", "continue"} : FilesOK([tab EXCEPT !.onFailure = v])
    BY TypeInvParts DEF FilesOK, TabRecord, OrderCovers, Present
  <2> QED
    BY <2>1, <2>2, <2>3, <2>4 DEF CallEdit
<1>4. CallersTyped' /\ LockTyped' /\ IntentTyped'
  BY <1>1, <1>2 DEF TypeInv, CallersTyped, LockTyped, IntentTyped
<1> QED
  BY <1>1, <1>3, <1>4, CallerFrame, SameLoops

LEMMA CallTyped ==
    ASSUME TypeInv, NEW c \in Callers, Call(c)
    PROVE  TypeInv'
BY CallStartTyped, CallAddTyped, CallPauseTyped, CallInterruptTyped, CallInsertTyped,
   CallTimerTyped, CallEditTyped DEF Call

\* A step of a request that leaves the setting of the runner and the calls alone.
LEMMA CallerStepFrame ==
    ASSUME TypeInv, UNCHANGED <<turns, calls>>, stopping' \in BOOLEAN, oneShot' \subseteq Prompts,
           FilesOK(tab'), LoopsTyped', CallersTyped', LockTyped'
    PROVE  TypeInv'
BY DEF TypeInv, TurnsTyped, IntentTyped

\* What a step of a request may count on.
LEMMA IntentParts ==
    ASSUME TypeInv
    PROVE  stopping \in BOOLEAN /\ oneShot \subseteq Prompts /\ calls \in 0..MaxCalls
BY DEF TypeInv, IntentTyped

LEMMA ActivatesTyped ==
    ASSUME CallersTyped, NEW c \in Callers,
           NEW rest \in Seq(Generations \cup Callers), Activates(c, rest)
    PROVE  CallersTyped' /\ LockTyped'
<1>1. {"act.read", "act.boot"} \subseteq (CallerLocked \cup CallerFree) \ CallerHasPrompt
  BY DEF CallerLocked, CallerFree, CallerHasPrompt
<1> QED
  BY <1>1, CallerAtTyped DEF Activates

LEMMA StartClearTyped ==
    ASSUME TypeInv, NEW c \in Callers, StartClear(c)
    PROVE  TypeInv'
<1>1. FilesOK(tab')
  BY ClearAutoOK, TypeInvParts DEF StartClear
<1>2. CallersTyped' /\ LockTyped'
  BY ActivatesTyped, TypeInvParts DEF StartClear, CallerIn
<1>3. UNCHANGED <<owner, generation, stopping, oneShot, loops, turns, calls>>
  BY DEF StartClear, mem
<1> QED
  BY <1>1, <1>2, <1>3, CallerStepFrame, IntentParts, SameLoops

LEMMA ActivateReadTyped ==
    ASSUME TypeInv, NEW c \in Callers, ActivateRead(c)
    PROVE  TypeInv'
<1>1. "act.on" \in (CallerLocked \cup CallerFree) \ CallerHasPrompt
  BY DEF CallerLocked, CallerHasPrompt
<1>2. CallersTyped' /\ LockTyped'
  BY <1>1, ReturnsTyped, CallerAtTyped, TypeInvParts DEF ActivateRead
<1>3. UNCHANGED <<tab, owner, generation, stopping, oneShot, loops, turns, calls>>
  BY DEF ActivateRead, mem
<1> QED
  BY <1>2, <1>3, CallerStepFrame, IntentParts, SameLoops, TypeInvParts

LEMMA LaunchTyped ==
    ASSUME TypeInv, NEW stop, Launches(stop, loops)
    PROVE  LoopsTyped'
BY LaunchesTyped, TypeInvParts DEF LoopsTyped

LEMMA ActivateLaunchTyped ==
    ASSUME TypeInv, NEW c \in Callers, ActivateLaunch(c)
    PROVE  TypeInv'
<1>1. FilesOK(tab')
  BY PauseRunnerOK, TypeInvParts DEF ActivateLaunch
<1>2. CallersTyped' /\ LockTyped'
  BY ReturnsTyped, TypeInvParts DEF ActivateLaunch, CallerIn
<1>3. LoopsTyped'
  BY LaunchTyped DEF ActivateLaunch
<1>4. stopping' = FALSE /\ UNCHANGED <<oneShot, turns, calls>>
  BY DEF ActivateLaunch
<1> QED
  BY <1>1, <1>2, <1>3, <1>4, CallerStepFrame, IntentParts

LEMMA BatchRunTyped ==
    ASSUME TypeInv, NEW c \in Callers, BatchRun(c)
    PROVE  TypeInv'
<1>1. callers[c].prompt \in Prompts
  BY DEF BatchRun, TypeInv, CallersTyped, CallerHasPrompt
<1>2. CallersTyped' /\ LockTyped'
  BY ReturnsTyped, TypeInvParts DEF BatchRun
<1>3. LoopsTyped'
  BY LaunchTyped DEF BatchRun
<1>4. oneShot' \subseteq Prompts /\ UNCHANGED <<tab, stopping, turns, calls>>
  BY <1>1, TypeInvParts DEF BatchRun
<1> QED
  BY <1>2, <1>3, <1>4, CallerStepFrame, IntentParts, TypeInvParts

LEMMA PauseTyped ==
    ASSUME TypeInv, NEW c \in Callers, Pause(c)
    PROVE  TypeInv'
<1>1. {"pause.set", "int.set", "int.read"} \subseteq (CallerLocked \cup CallerFree) \ CallerHasPrompt
  BY DEF CallerLocked, CallerFree, CallerHasPrompt
<1>2. FilesOK(tab')
  BY ClearAutoOK, PauseRunnerOK, TypeInvParts DEF Pause
<1>3. CallersTyped' /\ LockTyped'
  BY <1>1, ReturnsTyped, CallerAtTyped, TypeInvParts DEF Pause, CallerIn
<1>4. UNCHANGED <<owner, generation, stopping, oneShot, loops, turns, calls>>
  BY DEF Pause, mem
<1> QED
  BY <1>2, <1>3, <1>4, CallerStepFrame, IntentParts, SameLoops

LEMMA InterruptEndsTyped ==
    ASSUME CallersTyped, NEW c \in Callers,
           NEW rest \in Seq(Generations \cup Callers), InterruptEnds(c, rest)
    PROVE  CallersTyped' /\ LockTyped'
<1>1. "bind" \in (CallerLocked \cup CallerFree) \ CallerHasPrompt
  BY DEF CallerLocked, CallerHasPrompt
<1> QED
  BY <1>1, ReturnsTyped, CallerAtTyped DEF InterruptEnds

LEMMA InterruptsTyped ==
    ASSUME TypeInv, UNCHANGED loops, NEW c \in Callers, NEW thread \in Threads \cup {NoThread}, NEW turn \in TurnIds,
           Interrupts(c, thread, turn)
    PROVE  CallersTyped' /\ LockTyped' /\ LoopsTyped'
<1> DEFINE wait == [callers[c] EXCEPT !.pc = "int.wait", !.thread = thread, !.turn = turn]
           cancel == [callers[c] EXCEPT !.pc = "int.cancel", !.thread = thread]
<1>1. {"int.wait", "int.cancel"} \subseteq CallerFree \ CallerHasPrompt
  BY DEF CallerFree, CallerHasPrompt
<1>2. /\ wait \in CallerState /\ wait.pc = "int.wait"
      /\ cancel \in CallerState /\ cancel.pc = "int.cancel"
  BY <1>1, TypeInvParts DEF CallerState
<1>3. \/ (CallerGoes(c, wait, lockQ) \/ CallerGoes(c, cancel, lockQ)) /\ UNCHANGED <<owner, generation>>
      \/ Abandons(callers[c].loop) /\ InterruptEnds(c, lockQ)
  BY DEF Interrupts
<1> HIDE DEF wait, cancel
<1>4. CallersTyped' /\ LockTyped'
  BY <1>1, <1>2, <1>3, CallerGoesTyped, InterruptEndsTyped, TypeInvParts
<1>5. LoopsTyped'
  BY <1>3, AbandonsTyped, SameLoops, TypeInvParts
<1> QED
  BY <1>4, <1>5

LEMMA RunnerTyped ==
    ASSUME TypeInv
    PROVE  /\ tab.runner.activeTurn \in TurnIds
           /\ tab.runner.activePrompt \in Prompts \cup {NoPrompt}
BY DEF TypeInv, FilesOK, TabRecord, RunnerRecord

LEMMA InterruptReadTyped ==
    ASSUME TypeInv, NEW c \in Callers, InterruptRead(c)
    PROVE  TypeInv'
<1> DEFINE poll == [callers[c] EXCEPT !.pc = "int.poll", !.thread = tab.thread]
<1>1. "int.poll" \in CallerFree \ CallerHasPrompt
  BY DEF CallerFree, CallerHasPrompt
<1>2. poll \in CallerState /\ poll.pc = "int.poll"
  BY <1>1, TypeInvParts DEF CallerState
<1>3. /\ \/ CallerGoes(c, poll, lockQ) /\ UNCHANGED <<owner, generation>>
         \/ Interrupts(c, tab.thread, tab.runner.activeTurn)
      /\ UNCHANGED <<tab, stopping, oneShot, loops, turns, calls>>
  BY DEF InterruptRead
<1> HIDE DEF poll
<1>4. CallersTyped' /\ LockTyped' /\ LoopsTyped'
  BY <1>1, <1>2, <1>3, CallerGoesTyped, InterruptsTyped, RunnerTyped, SameLoops, TypeInvParts
<1> QED
  BY <1>3, <1>4, CallerStepFrame, IntentParts, TypeInvParts

LEMMA InterruptPollTyped ==
    ASSUME TypeInv, NEW c \in Callers, InterruptPoll(c)
    PROVE  TypeInv'
<1> DEFINE turn == IF tab.runner.activePrompt = NoPrompt THEN NoTurn ELSE tab.runner.activeTurn
<1>1. turn \in TurnIds /\ callers[c].thread \in Threads \cup {NoThread}
  BY RunnerTyped, NoTurnTyped, TypeInvParts DEF CallerState
<1>2. /\ Interrupts(c, callers[c].thread, turn)
      /\ UNCHANGED <<tab, stopping, oneShot, loops, turns, calls>>
  BY DEF InterruptPoll
<1> HIDE DEF turn
<1>3. CallersTyped' /\ LockTyped' /\ LoopsTyped'
  BY <1>1, <1>2, InterruptsTyped
<1> QED
  BY <1>2, <1>3, CallerStepFrame, IntentParts, TypeInvParts

LEMMA InterruptCancelTyped ==
    ASSUME TypeInv, NEW c \in Callers, InterruptCancel(c)
    PROVE  TypeInv'
<1> DEFINE cancelled(g) == [loops EXCEPT ![g].pc = "cancelled"]
<1>1. /\ \/ /\ \E g \in Generations : loops' = cancelled(g) \/ loops' = loops
            /\ CallerAt(c, "int.settle", lockQ) /\ UNCHANGED <<owner, generation>>
         \/ loops' = loops /\ Abandons(callers[c].loop) /\ InterruptEnds(c, lockQ)
      /\ UNCHANGED <<tab, stopping, oneShot, turns, calls>>
  BY DEF InterruptCancel
<1>2. "int.settle" \in (CallerLocked \cup CallerFree) \ CallerHasPrompt
  BY DEF CallerFree, CallerHasPrompt
<1>3. CallersTyped' /\ LockTyped'
  BY <1>1, <1>2, CallerAtTyped, InterruptEndsTyped, TypeInvParts
<1>4. ASSUME NEW g \in Generations, loops' = cancelled(g), UNCHANGED <<owner, generation>>
      PROVE  LoopsTyped'
  <2>1. "cancelled" \in LoopFree \ LoopHasPrompt
    BY DEF LoopFree, LoopHasPrompt
  <2>2. loops' = [loops EXCEPT ![g] = [loops[g] EXCEPT !.pc = "cancelled"]]
    BY <1>4
  <2>3. [loops[g] EXCEPT !.pc = "cancelled"] \in LoopState
    BY <2>1, TypeInvParts DEF LoopState
  <2>4. [loops[g] EXCEPT !.pc = "cancelled"].pc = "cancelled"
    BY TypeInvParts DEF LoopState
  <2> QED
    BY <1>4, <2>1, <2>2, <2>3, <2>4 DEF TypeInv, LoopsTyped
<1> HIDE DEF cancelled
<1>5. LoopsTyped'
  BY <1>1, <1>4, AbandonsTyped, SameLoops, TypeInvParts
<1> QED
  BY <1>1, <1>3, <1>5, CallerStepFrame, IntentParts, TypeInvParts

LEMMA InterruptSettleTyped ==
    ASSUME TypeInv, NEW c \in Callers, InterruptSettle(c)
    PROVE  TypeInv'
<1> DEFINE r(settled) == [callers[c] EXCEPT !.pc = "int.finalize", !.settled = settled]
<1>1. /\ \/ /\ \E settled \in BOOLEAN : CallerGoes(c, r(settled), lockQ)
            /\ UNCHANGED <<owner, generation>>
         \/ /\ Abandons(callers[c].loop) \/ UNCHANGED <<owner, generation>>
            /\ InterruptEnds(c, lockQ)
      /\ UNCHANGED <<tab, stopping, oneShot, loops, turns, calls>>
  BY DEF InterruptSettle
<1>2. "int.finalize" \in CallerLocked \ CallerHasPrompt
  BY DEF CallerLocked, CallerHasPrompt
<1>3. \A settled \in BOOLEAN : r(settled) \in CallerState /\ r(settled).pc = "int.finalize"
  BY <1>2, TypeInvParts DEF CallerState
<1> HIDE DEF r
<1>4. CallersTyped' /\ LockTyped'
  BY <1>1, <1>2, <1>3, CallerGoesTyped, InterruptEndsTyped, TypeInvParts
<1>5. LoopsTyped'
  BY <1>1, AbandonsTyped, SameLoops, TypeInvParts
<1> QED
  BY <1>1, <1>4, <1>5, CallerStepFrame, IntentParts, TypeInvParts

LEMMA InterruptFinalizeTyped ==
    ASSUME TypeInv, NEW c \in Callers, InterruptFinalize(c)
    PROVE  TypeInv'
<1>1. FilesOK(tab')
  <2>1. callers[c].thread \in Threads \cup {NoThread} /\ callers[c].turn \in TurnIds
    BY TypeInvParts DEF CallerState
  <2> QED
    BY <2>1, FinalizeInterruptedOK, TypeInvParts DEF InterruptFinalize
<1>2. CallersTyped' /\ LockTyped'
  BY InterruptEndsTyped, TypeInvParts DEF InterruptFinalize, CallerIn
<1>3. LoopsTyped'
  BY AbandonsTyped, SameLoops, TypeInvParts DEF InterruptFinalize
<1>4. UNCHANGED <<stopping, oneShot, turns, calls>>
  BY DEF InterruptFinalize
<1> QED
  BY <1>1, <1>2, <1>3, <1>4, CallerStepFrame, IntentParts

LEMMA BindTyped ==
    ASSUME TypeInv, NEW c \in Callers, Bind(c)
    PROVE  TypeInv'
<1>1. callers[c].prev.thread \in Threads \cup {NoThread}
  BY TypeInvParts DEF CallerState
<1>2. \A thread \in Threads \cup {NoThread}, ready \in BOOLEAN :
          FilesOK([tab EXCEPT !.thread = thread, !.ready = ready]) /\ FilesOK([tab EXCEPT !.ready = ready])
  BY TypeInvParts DEF FilesOK, TabRecord, OrderCovers, Present
<1>3. FilesOK(tab')
  BY <1>1, <1>2 DEF Bind
<1>4. CallersTyped' /\ LockTyped'
  BY ReturnsTyped, TypeInvParts DEF Bind, CallerIn
<1>5. UNCHANGED <<owner, generation, stopping, oneShot, loops, turns, calls>>
  BY DEF Bind, mem
<1> QED
  BY <1>3, <1>4, <1>5, CallerStepFrame, IntentParts, SameLoops

\* What StillPending checks is what the reservation and the move need.
LEMMA StillPendingParts ==
    ASSUME TypeInv, NEW c \in Callers, StillPending(callers[c])
    PROVE  callers[c].prompt \in Prompts /\ Present(tab, callers[c].prompt)
BY TypeInvParts DEF StillPending, Eligible, Present, CallerState

LEMMA SteerFailsTyped ==
    ASSUME CallersTyped, NEW c \in Callers,
           NEW rest \in Seq(Generations \cup Callers), SteerFails(c, rest)
    PROVE  CallersTyped' /\ LockTyped'
<1>1. "ins.move" \in (CallerLocked \cup CallerFree) \ CallerHasPrompt
  BY DEF CallerLocked, CallerHasPrompt
<1> QED
  BY <1>1, ReturnsTyped, CallerAtTyped DEF SteerFails

LEMMA InsertReserveTyped ==
    ASSUME TypeInv, NEW c \in Callers, InsertReserve(c)
    PROVE  TypeInv'
<1> DEFINE p == callers[c].prompt
           next == ReserveSteer(tab, p, callers[c].thread, callers[c].turn)
           prev == [f \in DOMAIN Unlinked |-> tab.prompts[p][f]]
           r == [callers[c] EXCEPT !.pc = "ins.steer", !.client = tab'.clients, !.prev = prev]
<1>1. Runs(c) /\ UNCHANGED <<owner, generation, stopping, loops, turns, calls>>
  BY DEF InsertReserve, CallerIn
<1>2. LoopsTyped'
  BY <1>1, SameLoops
<1>3. CASE StillPending(callers[c])
  <2>1. /\ tab.clients < MaxClients /\ tab' = next
        /\ oneShot' = oneShot \ {p} /\ CallerGoes(c, r, Released)
    BY <1>3 DEF InsertReserve
  <2>2. p \in Prompts /\ Present(tab, p)
    BY <1>3, StillPendingParts
  <2>3. callers[c].thread \in Threads \cup {NoThread} /\ callers[c].turn \in TurnIds
    BY TypeInvParts DEF CallerState
  <2> HIDE DEF p
  <2>4. FilesOK(next) /\ next.clients \in Clients
    BY <2>1, <2>2, <2>3, ReserveSteerOK, TypeInvParts
  <2>5. tab.prompts[p] \in PromptRecord
    BY <2>2, PromptTyped, TypeInvParts
  <2>6. prev \in [thread : Threads \cup {NoThread}, turn : TurnIds, client : Clients, steered : BOOLEAN]
    <3>1. DOMAIN Unlinked = {"thread", "turn", "client", "steered"}
      BY DEF Unlinked
    <3>2. prev = [thread |-> tab.prompts[p].thread, turn |-> tab.prompts[p].turn,
                  client |-> tab.prompts[p].client, steered |-> tab.prompts[p].steered]
      BY <3>1
    <3> QED
      BY <2>5, <3>2 DEF PromptRecord
  <2> HIDE DEF next, prev
  <2>7. "ins.steer" \in CallerFree
    BY DEF CallerFree
  <2>8. tab'.clients \in Clients
    BY <2>1, <2>4
  <2>9. r \in CallerState /\ r.pc = "ins.steer" /\ r.prompt = callers[c].prompt
    BY <2>6, <2>7, <2>8, TypeInvParts DEF CallerState
  <2>10. r.prompt \in Prompts
    BY <2>2, <2>9 DEF p
  <2> HIDE DEF r
  <2>11. CallersTyped' /\ LockTyped'
    BY <1>1, <2>1, <2>9, <2>10, CallerGoesTyped, TypeInvParts
  <2> QED
    BY <1>1, <1>2, <2>1, <2>4, <2>11, CallerStepFrame, IntentParts
<1>4. CASE ~StillPending(callers[c])
  <2>1. UNCHANGED <<tab, oneShot>> /\ SteerFails(c, Released)
    BY <1>4 DEF InsertReserve
  <2>2. CallersTyped' /\ LockTyped'
    BY <1>1, <2>1, SteerFailsTyped, TypeInvParts
  <2> QED
    BY <1>1, <1>2, <2>1, <2>2, CallerStepFrame, IntentParts, TypeInvParts
<1> QED
  BY <1>3, <1>4

LEMMA InsertSteerTyped ==
    ASSUME TypeInv, NEW c \in Callers, InsertSteer(c)
    PROVE  TypeInv'
<1> DEFINE t == callers[c].turn
<1>1. callers[c].prompt \in Prompts
  BY DEF InsertSteer, TypeInv, CallersTyped, CallerHasPrompt
<1>2. {"ins.steered", "ins.undo"} \subseteq (CallerLocked \cup CallerFree) \ CallerHasPrompt
  BY DEF CallerLocked, CallerHasPrompt
<1>3. CallersTyped' /\ LockTyped'
  BY <1>2, CallerAtTyped, TypeInvParts DEF InsertSteer
<1>4. TurnsTyped'
  <2>1. turns \in [Turns -> TurnState]
    BY DEF TypeInv, TurnsTyped
  <2>2. CASE turns' = [turns EXCEPT ![t].inputs = @ \cup {callers[c].prompt}]
    <3>1. ASSUME NEW u \in Turns PROVE turns'[u] \in TurnState
      <4>1. turns[u] \in TurnState
        BY <2>1
      <4>2. turns'[u] = turns[u] \/ turns'[u] = [turns[u] EXCEPT !.inputs = @ \cup {callers[c].prompt}]
        BY <2>1, <2>2
      <4>3. [turns[u] EXCEPT !.inputs = @ \cup {callers[c].prompt}] \in TurnState
        BY <1>1, <4>1 DEF TurnState
      <4> QED
        BY <4>1, <4>2, <4>3
    <3> QED
      BY <2>1, <2>2, <3>1 DEF TurnsTyped
  <2>3. turns' = turns \/ turns' = [turns EXCEPT ![t].inputs = @ \cup {callers[c].prompt}]
    BY DEF InsertSteer
  <2> QED
    BY <2>1, <2>2, <2>3 DEF TurnsTyped
<1>5. UNCHANGED <<tab, owner, generation, stopping, oneShot, loops, calls>>
  BY DEF InsertSteer, mem
<1> QED
  BY <1>3, <1>4, <1>5, SameLoops DEF TypeInv, IntentTyped

LEMMA InsertSettleTyped ==
    ASSUME TypeInv, NEW c \in Callers, InsertSettle(c)
    PROVE  TypeInv'
<1>1. /\ callers[c].prompt \in Prompts \cup {NoPrompt} /\ callers[c].client \in Clients
      /\ callers[c].thread \in Threads \cup {NoThread} /\ callers[c].turn \in TurnIds
      /\ callers[c].prev \in [thread : Threads \cup {NoThread}, turn : TurnIds, client : Clients, steered : BOOLEAN]
  BY TypeInvParts DEF CallerState
<1>2. FilesOK(Steered(tab, callers[c].prompt, callers[c].client))
  BY <1>1, SteeredOK, TypeInvParts
<1>3. FilesOK(UndoSteer(tab, callers[c].prompt, callers[c].client, callers[c].prev))
  BY <1>1, UndoSteerOK, TypeInvParts
<1>4. Present(tab, callers[c].prompt) =>
        FilesOK(RecordTurnStarted(tab, callers[c].prompt, callers[c].thread, callers[c].turn))
  BY <1>1, RecordTurnStartedOK, TypeInvParts DEF Present
<1>5. FilesOK(tab')
  BY <1>2, <1>3, <1>4, TypeInvParts DEF InsertSettle
<1>6. "ins.started" \in (CallerLocked \cup CallerFree) \ CallerHasPrompt
  BY DEF CallerLocked, CallerHasPrompt
<1>7. Runs(c)
  BY DEF InsertSettle, CallerIn
<1>8. CallerAt(c, "ins.started", Released) \/ Returns(c, Released) \/ SteerFails(c, Released)
  BY DEF InsertSettle
<1>9. CallersTyped' /\ LockTyped'
  BY <1>6, <1>7, <1>8, CallerAtTyped, ReturnsTyped, SteerFailsTyped, TypeInvParts
<1>10. UNCHANGED <<owner, generation, stopping, oneShot, loops, turns, calls>>
  BY DEF InsertSettle, mem
<1> QED
  BY <1>5, <1>9, <1>10, CallerStepFrame, IntentParts, SameLoops

LEMMA InsertMoveTyped ==
    ASSUME TypeInv, NEW c \in Callers, InsertMove(c)
    PROVE  TypeInv'
<1>1. Runs(c) /\ UNCHANGED <<turns, calls>>
  BY DEF InsertMove, CallerIn
<1>2. CASE ~StillPending(callers[c])
  <2>1. UNCHANGED <<tab, owner, generation, stopping, oneShot, loops>> /\ Returns(c, Released)
    BY <1>2 DEF InsertMove, mem
  <2>2. CallersTyped' /\ LockTyped'
    BY <1>1, <2>1, ReturnsTyped, TypeInvParts
  <2> QED
    BY <1>1, <2>1, <2>2, CallerStepFrame, IntentParts, SameLoops, TypeInvParts
<1>3. CASE StillPending(callers[c])
  <2>1. callers[c].prompt \in Prompts /\ Present(tab, callers[c].prompt)
    BY <1>3, StillPendingParts
  <2>2. tab' = MoveToFront(tab, callers[c].prompt, callers[c].thread)
    BY <1>3 DEF InsertMove
  <2>3. FilesOK(tab')
    BY <2>1, <2>2, MoveToFrontOK, TypeInvParts
  <2>4. CASE Rolls
    <3>1. UNCHANGED <<owner, generation, stopping, oneShot, loops>> /\ Activates(c, Released)
      BY <1>3, <2>4 DEF InsertMove, mem
    <3>2. CallersTyped' /\ LockTyped'
      BY <1>1, <3>1, ActivatesTyped, TypeInvParts
    <3> QED
      BY <1>1, <2>3, <3>1, <3>2, CallerStepFrame, IntentParts, SameLoops
  <2>5. CASE ~Rolls
    <3>1. /\ oneShot' = oneShot \cup {callers[c].prompt} /\ stopping' = FALSE
          /\ Launches(FALSE, loops) /\ Returns(c, Released)
      BY <1>3, <2>5 DEF InsertMove
    <3>2. CallersTyped' /\ LockTyped'
      BY <1>1, <3>1, ReturnsTyped, TypeInvParts
    <3>3. LoopsTyped'
      BY <3>1, LaunchTyped
    <3> QED
      BY <1>1, <2>1, <2>3, <3>1, <3>2, <3>3, CallerStepFrame, IntentParts
  <2> QED
    BY <2>4, <2>5
<1> QED
  BY <1>2, <1>3

LEMMA CallerStepTyped ==
    ASSUME TypeInv, NEW c \in Callers, CallerStep(c)
    PROVE  TypeInv'
BY StartClearTyped, ActivateReadTyped, ActivateLaunchTyped, BatchRunTyped, PauseTyped,
   InterruptReadTyped, InterruptPollTyped, InterruptCancelTyped, InterruptSettleTyped,
   InterruptFinalizeTyped, BindTyped, InsertReserveTyped, InsertSteerTyped, InsertSettleTyped,
   InsertMoveTyped DEF CallerStep

-----------------------------------------------------------------------------
(* The provider's steps. *)

\* A step of the provider leaves the loops, the requests and the intent alone.
LEMMA ProviderFrame ==
    ASSUME TypeInv, UNCHANGED <<mem, loops, callers, lockQ, calls>>, FilesOK(tab'), TurnsTyped'
    PROVE  TypeInv'
BY DEF TypeInv, LoopsTyped, CallersTyped, LockTyped, IntentTyped, mem

LEMMA TurnParts ==
    ASSUME TypeInv, NEW t \in Turns
    PROVE  turns \in [Turns -> TurnState] /\ turns[t] \in TurnState
BY DEF TypeInv, TurnsTyped

LEMMA ManualTurnTyped ==
    ASSUME TypeInv, ManualTurn
    PROVE  TypeInv'
<1> DEFINE turn == [status |-> "active", thread |-> tab.thread, inputs |-> {}, queued |-> FALSE, told |-> "no"]
<1>1. turn \in TurnState
  BY TypeInvParts DEF TurnState
<1>2. turns' = [turns EXCEPT ![NextTurn] = turn]
  BY DEF ManualTurn
<1>3. UNCHANGED <<tab, mem, loops, callers, lockQ, calls>>
  BY DEF ManualTurn
<1> HIDE DEF turn
<1>4. TurnsTyped'
  BY <1>1, <1>2 DEF TypeInv, TurnsTyped
<1> QED
  BY <1>3, <1>4, ProviderFrame, TypeInvParts

LEMMA TurnEndsTyped ==
    ASSUME TypeInv, NEW t \in Turns, TurnEnds(t)
    PROVE  TypeInv'
<1>1. PICK outcome \in Outcomes : turns' = [turns EXCEPT ![t].status = outcome]
  BY DEF TurnEnds
<1>2. UNCHANGED <<tab, mem, loops, callers, lockQ, calls>>
  BY DEF TurnEnds
<1>3. TurnsTyped'
  BY <1>1, TurnParts DEF TurnsTyped, TurnState
<1> QED
  BY <1>2, <1>3, ProviderFrame, TypeInvParts

LEMMA TurnToldTyped ==
    ASSUME TypeInv, NEW t \in Turns, NEW told \in {"heard", "recorded", "done"},
           turns' = [turns EXCEPT ![t].told = told]
    PROVE  TurnsTyped'
BY TurnParts DEF TurnsTyped, TurnState

LEMMA TurnHeardTyped ==
    ASSUME TypeInv, NEW t \in Turns, TurnHeard(t)
    PROVE  TypeInv'
<1>1. TurnsTyped'
  BY TurnToldTyped DEF TurnHeard
<1>2. UNCHANGED <<tab, mem, loops, callers, lockQ, calls>>
  BY DEF TurnHeard
<1> QED
  BY <1>1, <1>2, ProviderFrame, TypeInvParts

\* The files after clearRunnerFailure.
Recovered(files) ==
    [files EXCEPT !.runner.error = FALSE,
                  !.runner.state = IF files.runner.state = "error" THEN "paused" ELSE files.runner.state]

LEMMA RecordedFiles ==
    ASSUME NEW t, TurnRecorded(t)
    PROVE  tab' \in {tab, Recovered(tab),
                     RecordTurn(tab, NoPrompt, NoClient, turns[t].thread, t, turns[t].status, FALSE)}
<1>1. CASE turns[t].told = "recorded"
  BY <1>1 DEF TurnRecorded, Recovered
<1>2. CASE turns[t].told # "recorded"
  BY <1>2 DEF TurnRecorded
<1> QED
  BY <1>1, <1>2

LEMMA TurnRecordedTyped ==
    ASSUME TypeInv, NEW t \in Turns, TurnRecorded(t)
    PROVE  TypeInv'
<1>1. TurnsTyped'
  BY TurnToldTyped DEF TurnRecorded
<1>2. UNCHANGED <<mem, loops, callers, lockQ, calls>>
  BY DEF TurnRecorded
<1>3. t \in TurnIds /\ turns[t].thread \in Threads \cup {NoThread}
  BY TurnsIn, TurnParts DEF TurnState
<1>4. FilesOK(RecordTurn(tab, NoPrompt, NoClient, turns[t].thread, t, turns[t].status, FALSE))
  BY <1>3, RecordTurnOK, NoTurnTyped, TypeInvParts
<1>5. FilesOK(Recovered(tab))
  <2> DEFINE shown == IF tab.runner.state = "error" THEN "paused" ELSE tab.runner.state
  <2>1. tab.runner \in RunnerRecord
    BY DEF TypeInv, FilesOK, TabRecord
  <2>2. shown \in RunnerState
    BY <2>1 DEF RunnerRecord, RunnerState
  <2>3. Recovered(tab) = [tab EXCEPT !.runner.error = FALSE, !.runner.state = shown]
    BY DEF Recovered
  <2> HIDE DEF shown
  <2>4. [tab.runner EXCEPT !.error = FALSE, !.state = shown] \in RunnerRecord
    BY <2>1, <2>2 DEF RunnerRecord
  <2>5. Recovered(tab) = [tab EXCEPT !.runner = [tab.runner EXCEPT !.error = FALSE, !.state = shown]]
    BY <2>1, <2>3, TypeInvParts DEF FilesOK, TabRecord, RunnerRecord
  <2> QED
    BY <2>4, <2>5, TypeInvParts DEF FilesOK, TabRecord, OrderCovers, Present
<1>6. FilesOK(tab')
  BY <1>4, <1>5, RecordedFiles, TypeInvParts
<1> QED
  BY <1>1, <1>2, <1>6, ProviderFrame

LEMMA SubmissionUnconfirmedTyped ==
    ASSUME TypeInv, SubmissionUnconfirmed
    PROVE  TypeInv'
<1>1. FilesOK(tab')
  BY TypeInvParts DEF SubmissionUnconfirmed, FilesOK, TabRecord, OrderCovers, Present, RunnerRecord, RunnerState
<1>2. UNCHANGED <<mem, loops, callers, lockQ, turns, calls>>
  BY DEF SubmissionUnconfirmed
<1> QED
  BY <1>1, <1>2, ProviderFrame DEF TypeInv, TurnsTyped

LEMMA ProviderStepTyped ==
    ASSUME TypeInv, ProviderStep
    PROVE  TypeInv'
BY ManualTurnTyped, TurnEndsTyped, TurnHeardTyped, TurnRecordedTyped, SubmissionUnconfirmedTyped
   DEF ProviderStep

-----------------------------------------------------------------------------

LEMMA InitTyped == Init => TypeInv
<1> SUFFICES ASSUME Init PROVE TypeInv
  OBVIOUS
<1>1. FilesOK(tab)
  BY QueueAssumption DEF Init, FilesOK, OrderCovers
<1>2. Gone \in LoopState /\ Gone.pc \notin LoopHasPrompt
  BY NoTurnTyped DEF Gone, LoopState, LoopFree, LoopHasPrompt
<1>3. LoopsTyped
  BY <1>2, QueueAssumption DEF Init, LoopsTyped
<1>4. CallersTyped
  BY IdleTyped DEF Init, CallersTyped, CallerHasPrompt
<1>5. NoTurnYet \in TurnState
  BY DEF NoTurnYet, TurnState
<1>6. TurnsTyped
  BY <1>5 DEF Init, TurnsTyped
<1>7. LockTyped
  BY EmptySeq DEF Init, LockTyped
<1>8. IntentTyped
  <2>1. MaxCalls \in Nat
    BY QueueAssumption
  <2>2. calls \in 0..MaxCalls
    BY <2>1 DEF Init
  <2>3. stopping \in BOOLEAN /\ oneShot \subseteq Prompts
    BY DEF Init
  <2> QED
    BY <2>2, <2>3 DEF IntentTyped
<1> QED
  BY <1>1, <1>3, <1>4, <1>6, <1>7, <1>8 DEF TypeInv

LEMMA NextTyped == TypeInv /\ [Next]_vars => TypeInv'
<1> SUFFICES ASSUME TypeInv, [Next]_vars PROVE TypeInv'
  OBVIOUS
<1>1. CASE Next
  BY <1>1, LoopStepTyped, CallTyped, CallerStepTyped, ProviderStepTyped DEF Next
<1>2. CASE UNCHANGED vars
  BY <1>2 DEF vars, mem, TypeInv, LoopsTyped, LockTyped, CallersTyped, TurnsTyped, IntentTyped
<1> QED
  BY <1>1, <1>2

\* The invariant is inductive.
THEOREM TypeInvHolds == Spec => []TypeInv
BY InitTyped, NextTyped, PTL DEF Spec

\* Every variable of the queue runner keeps its type, whatever the loops, the
\* requests, the turns and their number.
THEOREM TypesHold == Spec => []TypeOK
BY TypeInvHolds, TypeInvTypes, PTL

-----------------------------------------------------------------------------
(* What LoopOwnership needs to be inductive: the generation counts the      *)
(* loops, which are records with a program counter.                         *)
LoopTyping ==
    /\ owner \in Nat /\ generation \in 0..MaxGeneration
    /\ DOMAIN loops = Generations
    /\ \A g \in Generations : "pc" \in DOMAIN loops[g]

OwnershipInv == LoopTyping /\ LoopOwnership

-----------------------------------------------------------------------------
(* The six ways in which a step changes the loops. *)

LEMMA KeepsOwnership ==
    ASSUME OwnershipInv, UNCHANGED <<owner, generation, loops>>
    PROVE  OwnershipInv'
BY DEF OwnershipInv, LoopTyping, LoopOwnership, Live

LEMMA MovesOwnership ==
    ASSUME OwnershipInv, NEW g \in Generations, Live(g), NEW r, NEW rest,
           Moves(g, r, rest), UNCHANGED generation,
           "pc" \in DOMAIN r, r.pc \notin {"none", "relaunch", "done"}
    PROVE  OwnershipInv'
BY DEF OwnershipInv, LoopTyping, LoopOwnership, Live, Moves, Generations

LEMMA GoesOwnership ==
    ASSUME OwnershipInv, NEW g \in Generations, Live(g), NEW pc, NEW rest,
           Goes(g, pc, rest), UNCHANGED generation,
           pc \notin {"none", "relaunch", "done"}
    PROVE  OwnershipInv'
<1> DEFINE r == [loops[g] EXCEPT !.pc = pc]
<1>1. "pc" \in DOMAIN r /\ r.pc = pc
  BY DEF OwnershipInv, LoopTyping, Gone
<1> QED
  BY <1>1, MovesOwnership DEF Goes

LEMMA ExitsOwnership ==
    ASSUME OwnershipInv, NEW g \in Generations, Live(g), NEW rest,
           Exits(g, rest), UNCHANGED generation
    PROVE  OwnershipInv'
BY DEF OwnershipInv, LoopTyping, LoopOwnership, Live, Exits, Generations, Gone

LEMMA IteratesOwnership ==
    ASSUME OwnershipInv, NEW g \in Generations, Live(g), NEW rest,
           Iterates(g, rest), UNCHANGED generation
    PROVE  OwnershipInv'
<1> DEFINE r == [Gone EXCEPT !.pc = "read"]
<1>1. "pc" \in DOMAIN r /\ r.pc = "read"
  BY DEF Gone
<1> QED
  BY <1>1, ExitsOwnership, MovesOwnership DEF Iterates

LEMMA NothingToRunOwnership ==
    ASSUME OwnershipInv, NEW g \in Generations, Live(g), NEW thread,
           NothingToRun(g, thread), UNCHANGED generation
    PROVE  OwnershipInv'
<1> DEFINE pc == IF oneShot # {} THEN "discard" ELSE IF Rolls THEN "arm" ELSE "setPaused"
           r  == [Gone EXCEPT !.pc = pc, !.thread = thread, !.rolling = Rolls, !.ids = oneShot]
<1>1. "pc" \in DOMAIN r /\ r.pc = pc
  BY DEF Gone
<1>2. pc \notin {"none", "relaunch", "done"}
  OBVIOUS
<1>3. Moves(g, r, lockQ)
  BY DEF NothingToRun
<1> HIDE DEF pc, r
<1> QED
  BY <1>1, <1>2, <1>3, MovesOwnership

LEMMA LaunchesOwnership ==
    ASSUME OwnershipInv, NEW stop, NEW before,
           before = loops \/ \E g \in Generations : /\ ~Live(g) /\ g <= generation
                                                   /\ before = [loops EXCEPT ![g] = [Gone EXCEPT !.pc = "done"]],
           Launches(stop, before), MaxGeneration \in Nat
    PROVE  OwnershipInv'
BY DEF OwnershipInv, LoopTyping, LoopOwnership, Live, Launches, Generations, Gone

LEMMA AbandonsOwnership ==
    ASSUME OwnershipInv, NEW loop, Abandons(loop), UNCHANGED loops, MaxGeneration \in Nat
    PROVE  OwnershipInv'
BY DEF OwnershipInv, LoopTyping, LoopOwnership, Live, Abandons, Generations

-----------------------------------------------------------------------------
(* Every step keeps it. *)

LEMMA LoopStepOwnership ==
    ASSUME OwnershipInv, NEW g \in Generations, LoopStep(g)
    PROVE  OwnershipInv'
<1> USE MovesOwnership, GoesOwnership, ExitsOwnership, IteratesOwnership DEF LoopIn, Live, FailsRunner
<1>1. CASE LoopSetPaused(g)
  BY <1>1 DEF LoopSetPaused
<1>2. CASE LoopFailRunner(g)
  BY <1>2 DEF LoopFailRunner
<1>3. CASE LoopDiscard(g)
  BY <1>3 DEF LoopDiscard
<1>4. CASE LoopArm(g)
  BY <1>4 DEF LoopArm
<1>5. CASE LoopAwait(g)
  BY <1>5 DEF LoopAwait
<1>6. CASE LoopIdle(g)
  BY <1>6 DEF LoopIdle
<1>7. CASE LoopWaitFailed(g)
  BY <1>7 DEF LoopWaitFailed
<1>8. CASE LoopMark(g)
  BY <1>8 DEF LoopMark
<1>9. CASE LoopSubmitFailed(g)
  BY <1>9 DEF LoopSubmitFailed
<1>10. CASE LoopBind(g)
  BY <1>10 DEF LoopBind
<1>11. CASE LoopAttempt(g)
  BY <1>11 DEF LoopAttempt
<1>12. CASE LoopStarted(g)
  BY <1>12 DEF LoopStarted
<1>13. CASE LoopDetached(g)
  BY <1>13 DEF LoopDetached
<1>14. CASE LoopRunning(g)
  BY <1>14 DEF LoopRunning
<1>15. CASE LoopWait(g)
  BY <1>15 DEF LoopWait
<1>16. CASE LoopErrorRead(g)
  BY <1>16 DEF LoopErrorRead
<1>17. CASE LoopSettlesPrompt(g)
  <2>1. ASSUME NEW pc, LoopIn(g, pc), NEW next, Goes(g, next, Released), UNCHANGED generation,
               pc \in {"slash", "fail", "failQuiet", "localTurn", "finalize", "clear"},
               next \in {"clear", "after", "failRead"}
        PROVE  OwnershipInv'
    BY <2>1
  <2>2. ASSUME NEW pc, LoopIn(g, pc), pc \in {"fail", "localTurn"}, UNCHANGED generation, NEW turn,
               \/ Moves(g, [loops[g] EXCEPT !.pc = "clear", !.failed = TRUE], Released)
               \/ Moves(g, [loops[g] EXCEPT !.pc = "finalize", !.turn = turn], Released)
        PROVE  OwnershipInv'
    BY <2>2 DEF OwnershipInv, LoopTyping
  <2> QED
    BY <1>17, <2>1, <2>2 DEF LoopSettlesPrompt
<1>18. CASE LoopPauseAfterFailure(g)
  BY <1>18 DEF LoopPauseAfterFailure
<1>19. CASE LoopDelay(g)
  BY <1>19 DEF LoopDelay
<1>20. CASE LoopFailRead(g)
  BY <1>20 DEF LoopFailRead
<1>21. CASE LoopRead(g)
  <2> DEFINE pc == IF tab.runner.state # "waiting_for_thread" THEN "await"
                   ELSE IF tab.thread = NoThread THEN "fresh" ELSE "idle"
             r  == [Gone EXCEPT !.thread = tab.thread, !.pc = pc]
  <2>1. "pc" \in DOMAIN r /\ r.pc \notin {"none", "relaunch", "done"}
    BY DEF Gone
  <2>2. \/ Exits(g, lockQ)
        \/ Goes(g, "setPaused", lockQ)
        \/ FailsRunner(g)
        \/ NothingToRun(g, tab.thread)
        \/ Moves(g, r, lockQ)
    BY <1>21 DEF LoopRead
  <2>3. Live(g) /\ UNCHANGED generation
    BY <1>21 DEF LoopRead
  <2> HIDE DEF pc, r
  <2> QED
    BY <2>1, <2>2, <2>3, NothingToRunOwnership
<1>22. CASE LoopFresh(g)
  <2>1. ASSUME NEW thread, NothingToRun(g, thread)
        PROVE  OwnershipInv'
    BY <1>22, <2>1, NothingToRunOwnership DEF LoopFresh
  <2>2. ASSUME NEW p, Moves(g, [loops[g] EXCEPT !.pc = "prepare", !.prompt = p], lockQ)
        PROVE  OwnershipInv'
    BY <1>22, <2>2 DEF LoopFresh, OwnershipInv, LoopTyping
  <2> QED
    BY <1>22, <2>1, <2>2 DEF LoopFresh
<1>23. CASE LoopPrepare(g)
  BY <1>23 DEF LoopPrepare, OwnershipInv, LoopTyping
<1>24. CASE LoopSubmitAccepted(g)
  BY <1>24 DEF LoopSubmitAccepted, OwnershipInv, LoopTyping
<1>25. CASE LoopRecord(g)
  BY <1>25 DEF LoopRecord, OwnershipInv, LoopTyping
<1>26. CASE LoopAfter(g)
  BY <1>26 DEF LoopAfter, OwnershipInv, LoopTyping
<1>27. CASE LoopGap(g)
  BY <1>27 DEF LoopGap, OwnershipInv, LoopTyping
<1>28. CASE LoopRelaunch(g)
  <2> DEFINE settled == [loops EXCEPT ![g] = [Gone EXCEPT !.pc = "done"]]
  <2>1. ~Live(g) /\ g <= generation /\ MaxGeneration \in Nat
    BY <1>28, QueueAssumption DEF LoopRelaunch, OwnershipInv, LoopTyping, LoopOwnership, Generations
  <2>2. CASE Launches(stopping, settled)
    BY <2>1, <2>2, LaunchesOwnership
  <2>3. CASE loops' = settled /\ UNCHANGED <<generation, owner>>
    BY <2>1, <2>3 DEF OwnershipInv, LoopTyping, LoopOwnership, Gone, Generations
  <2> QED
    BY <1>28, <2>2, <2>3 DEF LoopRelaunch
<1> QED
  BY <1>1, <1>2, <1>3, <1>4, <1>5, <1>6, <1>7, <1>8, <1>9, <1>10, <1>11, <1>12, <1>13, <1>14, <1>15, <1>16, <1>17, <1>18, <1>19, <1>20, <1>21, <1>22, <1>23, <1>24, <1>25, <1>26, <1>27, <1>28 DEF LoopStep

LEMMA CallerStepOwnership ==
    ASSUME OwnershipInv, NEW c \in Callers, CallerStep(c)
    PROVE  OwnershipInv'
<1> USE QueueAssumption, KeepsOwnership, LaunchesOwnership, AbandonsOwnership DEF mem
<1>1. CASE StartClear(c)
  BY <1>1 DEF StartClear
<1>2. CASE ActivateRead(c)
  BY <1>2 DEF ActivateRead
<1>3. CASE ActivateLaunch(c)
  BY <1>3 DEF ActivateLaunch
<1>4. CASE BatchRun(c)
  BY <1>4 DEF BatchRun
<1>5. CASE Pause(c)
  BY <1>5 DEF Pause
<1>6. CASE InterruptRead(c)
  BY <1>6 DEF InterruptRead, Interrupts
<1>7. CASE InterruptPoll(c)
  BY <1>7 DEF InterruptPoll, Interrupts
<1>8. CASE InterruptCancel(c)
  <2>1. ASSUME NEW g \in Generations, loops[g].pc = "submit",
               loops' = [loops EXCEPT ![g].pc = "cancelled"], UNCHANGED <<owner, generation>>
        PROVE  OwnershipInv'
    BY <2>1 DEF OwnershipInv, LoopTyping, LoopOwnership, Live, Generations
  <2> QED
    BY <1>8, <2>1 DEF InterruptCancel
<1>9. CASE InterruptSettle(c)
  BY <1>9 DEF InterruptSettle
<1>10. CASE InterruptFinalize(c)
  BY <1>10 DEF InterruptFinalize
<1>11. CASE Bind(c)
  BY <1>11 DEF Bind
<1>12. CASE InsertReserve(c)
  BY <1>12 DEF InsertReserve
<1>13. CASE InsertSteer(c)
  BY <1>13 DEF InsertSteer
<1>14. CASE InsertSettle(c)
  BY <1>14 DEF InsertSettle
<1>15. CASE InsertMove(c)
  BY <1>15 DEF InsertMove
<1> QED
  BY <1>1, <1>2, <1>3, <1>4, <1>5, <1>6, <1>7, <1>8, <1>9, <1>10, <1>11, <1>12, <1>13, <1>14, <1>15 DEF CallerStep

LEMMA CallOwnership ==
    ASSUME OwnershipInv, NEW c \in Callers, Call(c)
    PROVE  OwnershipInv'
BY KeepsOwnership DEF Call, CallStart, CallAdd, CallPause, CallInterrupt, CallInsert, CallTimer,
                      CallEdit, mem

LEMMA ProviderStepOwnership ==
    ASSUME OwnershipInv, ProviderStep
    PROVE  OwnershipInv'
BY KeepsOwnership DEF ProviderStep, ManualTurn, TurnEnds, TurnHeard, TurnRecorded,
                      SubmissionUnconfirmed, mem

(* At any time at most one loop is in charge: the one the runner owns is    *)
(* alive and the newest, and every other live loop was detached by          *)
(* abandonLoop (queue.ts launchLoop, abandonLoop).                          *)
THEOREM OwnershipHolds == Spec => []LoopOwnership
<1>1. Init => OwnershipInv
  BY QueueAssumption DEF Init, OwnershipInv, LoopTyping, LoopOwnership, Live, Gone, Generations
<1>2. OwnershipInv /\ [Next]_vars => OwnershipInv'
  <2> SUFFICES ASSUME OwnershipInv, [Next]_vars PROVE OwnershipInv'
    OBVIOUS
  <2>1. CASE UNCHANGED vars
    BY <2>1, KeepsOwnership DEF vars, mem
  <2> QED
    BY <2>1, LoopStepOwnership, CallerStepOwnership, CallOwnership, ProviderStepOwnership DEF Next
<1>3. OwnershipInv => LoopOwnership
  BY DEF OwnershipInv
<1> QED
  BY <1>1, <1>2, <1>3, PTL DEF Spec

-----------------------------------------------------------------------------
(* A stopped queue stays stopped.  Every locked section but the reservation of a prompt and the three    *)
(* that start or arm the queue leaves a paused queue paused and moves no pending prompt to dispatching;  *)
(* those that are left out read the intent again, or belong to somebody who asks.                        *)

Held(files, after) ==
    /\ files.runner.desired = "paused" => after.runner.desired = "paused"
    /\ \A p \in Prompts : files.prompts[p].status = "pending" => after.prompts[p].status # "dispatching"

-----------------------------------------------------------------------------
(* The locked sections. *)

\* A section that changes neither a prompt's status nor the setting.
LEMMA HeldRunner ==
    ASSUME NEW files, FilesOK(files)
    PROVE  /\ Held(files, files)
           /\ \A state, p, t : Held(files, SetRunnerState(files, state, p, t))
           /\ \A failed, p, t : Held(files, ClearActive(files, failed, p, t))
           /\ Held(files, FailRunner(files)) /\ Held(files, PauseRunner(files))
           /\ Held(files, WaitForPrompt(files))
<1>1. files.runner \in RunnerRecord
  BY FilesTyped
<1>2. Held(files, files)
  BY DEF Held
<1>3. ASSUME NEW state, NEW p, NEW t PROVE Held(files, SetRunnerState(files, state, p, t))
  BY <1>1 DEF Held, SetRunnerState, FilesOK, TabRecord, RunnerRecord
<1>4. ASSUME NEW failed, NEW p, NEW t PROVE Held(files, ClearActive(files, failed, p, t))
  BY <1>1 DEF Held, ClearActive, FilesOK, TabRecord, RunnerRecord
<1>5. Held(files, FailRunner(files))
  BY <1>1 DEF Held, FailRunner, FilesOK, TabRecord, RunnerRecord
<1>6. Held(files, PauseRunner(files))
  BY <1>1 DEF Held, PauseRunner, FilesOK, TabRecord, RunnerRecord
<1>7. Held(files, WaitForPrompt(files))
  BY <1>3 DEF WaitForPrompt
<1> QED
  BY <1>2, <1>3, <1>4, <1>5, <1>6, <1>7

LEMMA HeldClearAuto ==
    ASSUME NEW files, FilesOK(files)
    PROVE  /\ Held(files, ClearAuto(files))
           /\ \A S : Held(files, ClearAutoOf(files, S))
           /\ Held(files, PauseAfterFailure(files))
<1>1. \A p \in Prompts : files.prompts[p] \in PromptRecord
  BY PromptTyped
<1>2. \A p \in Prompts : [files.prompts[p] EXCEPT !.auto = FALSE].status = files.prompts[p].status
  BY <1>1 DEF PromptRecord
<1>3. Held(files, ClearAuto(files))
  BY <1>2 DEF Held, ClearAuto, FilesOK, TabRecord
<1>4. ASSUME NEW S PROVE Held(files, ClearAutoOf(files, S))
  BY <1>2 DEF Held, ClearAutoOf, FilesOK, TabRecord
<1>5. Held(files, PauseAfterFailure(files))
  <2> DEFINE cleared == ClearAuto(files)
  <2>1. FilesOK(cleared) /\ Held(files, cleared)
    BY <1>3, ClearAutoOK
  <2> HIDE DEF cleared
  <2>2. PauseAfterFailure(files).prompts = cleared.prompts /\ PauseAfterFailure(files).runner.desired = "paused"
    BY <2>1 DEF PauseAfterFailure, cleared, FilesOK, TabRecord, RunnerRecord
  <2> QED
    BY <2>1, <2>2 DEF Held
<1> QED
  BY <1>3, <1>4, <1>5

LEMMA HeldSettles ==
    ASSUME NEW files, FilesOK(files)
    PROVE  /\ \A p, c : Held(files, Steered(files, p, c))
           /\ \A p, c, prev : Held(files, UndoSteer(files, p, c, prev))
           /\ \A p, thread, t : Held(files, Accepted(files, p, thread, t))
           /\ \A p, t : Held(files, CompleteSlash(files, p, t))
           /\ \A p, t : Held(files, MarkFailure(files, p, t))
           /\ \A p, c : Held(files, MarkLocalTurn(files, p, c))
           /\ \A p : Held(files, Retry(files, p)) /\ Held(files, Skip(files, p)) /\ Held(files, DeletePrompt(files, p))
<1>1. /\ files.prompts \in [Prompts -> PromptRecord]
      /\ \A p \in Prompts : files.prompts[p] \in PromptRecord
  BY FilesTyped
<1>2. ASSUME NEW p, NEW c PROVE Held(files, Steered(files, p, c))
  BY <1>1 DEF Held, Steered, FilesOK, TabRecord, PromptRecord
<1>3. ASSUME NEW p, NEW c, NEW prev PROVE Held(files, UndoSteer(files, p, c, prev))
  BY <1>1 DEF Held, UndoSteer, FilesOK, TabRecord, PromptRecord
<1>4. ASSUME NEW p, NEW thread, NEW t PROVE Held(files, Accepted(files, p, thread, t))
  BY <1>1 DEF Held, Accepted, FilesOK, TabRecord, PromptRecord
<1>5. ASSUME NEW p, NEW t PROVE Held(files, CompleteSlash(files, p, t))
  BY <1>1 DEF Held, CompleteSlash, FilesOK, TabRecord, PromptRecord
<1>6. ASSUME NEW p, NEW t PROVE Held(files, MarkFailure(files, p, t))
  BY <1>1 DEF Held, MarkFailure, FilesOK, TabRecord, PromptRecord
<1>7. ASSUME NEW p, NEW c PROVE Held(files, MarkLocalTurn(files, p, c))
  BY <1>1 DEF Held, MarkLocalTurn, FilesOK, TabRecord, PromptRecord
<1>8. ASSUME NEW p PROVE Held(files, Retry(files, p)) /\ Held(files, Skip(files, p)) /\ Held(files, DeletePrompt(files, p))
  BY <1>1 DEF Held, Retry, Skip, DeletePrompt, FilesOK, TabRecord, PromptRecord
<1> QED
  BY <1>2, <1>3, <1>4, <1>5, <1>6, <1>7, <1>8

LEMMA HeldFinalize ==
    ASSUME NEW files, FilesOK(files), NEW thread, NEW t
    PROVE  Held(files, FinalizeInterrupted(files, thread, t))
<1> DEFINE linked == {p \in Prompts : /\ Present(files, p) /\ files.prompts[p].thread = thread
                                      /\ files.prompts[p].turn = t /\ files.prompts[p].status \in Active}
           status == IF linked \subseteq SlashPrompts THEN "completed" ELSE "interrupted"
           after == FinalizeInterrupted(files, thread, t)
<1>1. \A p \in Prompts : files.prompts[p] \in PromptRecord
  BY PromptTyped
<1>2. \A p \in Prompts : [files.prompts[p] EXCEPT !.status = status].status = status
  BY <1>1 DEF PromptRecord
<1>3. after.runner.desired \in {files.runner.desired, "paused"}
  BY DEF FinalizeInterrupted, FilesOK, TabRecord
<1>4. \A p \in Prompts : after.prompts[p].status \in {files.prompts[p].status, "completed", "interrupted"}
  BY <1>2 DEF FinalizeInterrupted, FilesOK, TabRecord
<1> QED
  BY <1>3, <1>4 DEF Held

LEMMA HeldStarted ==
    ASSUME NEW files, FilesOK(files), NEW p, NEW thread, NEW t
    PROVE  Held(files, RecordTurnStarted(files, p, thread, t))
BY DEF Held, RecordTurnStarted, FilesOK, TabRecord

LEMMA HeldRecord ==
    ASSUME NEW files, FilesOK(files), NEW p, NEW client, NEW thread, NEW t, NEW outcome, NEW queued
    PROVE  Held(files, RecordTurn(files, p, client, thread, t, outcome, queued))
<1> DEFINE linked == RecordOwner(files, p, thread, t)
           affected == (Linked(files, thread, t) \cup {linked}) \ {NoPrompt}
           verdict == TurnVerdict(affected, outcome, queued)
           rebound(q) == IF q # linked THEN files.prompts[q]
                      ELSE [files.prompts[q] EXCEPT !.turn = t, !.thread = thread, !.steered = FALSE,
                              !.client = IF client # NoClient THEN client ELSE @,
                              !.status = IF @ = "unused" THEN "pending" ELSE @]
           settled(q) == IF verdict = "untouched" \/ q \notin affected THEN rebound(q)
                      ELSE [rebound(q) EXCEPT !.thread = thread, !.turn = t,
                              !.status = IF verdict = "slash" THEN "completed" ELSE verdict]
           after == RecordTurn(files, p, client, thread, t, outcome, queued)
<1>1. \A q \in Prompts : files.prompts[q] \in PromptRecord
  BY PromptTyped
<1>2. verdict \in {"completed", "slash", "failed", "interrupted", "untouched"}
  BY DEF TurnVerdict
<1>3. after.runner = files.runner /\ after.prompts = [q \in Prompts |-> settled(q)]
  BY DEF RecordTurn, FilesOK, TabRecord
<1> HIDE DEF affected, verdict, linked
<1>4. ASSUME NEW q \in Prompts, files.prompts[q].status = "pending" PROVE settled(q).status # "dispatching"
  <2>1. rebound(q).status = "pending"
    BY <1>1, <1>4 DEF PromptRecord
  <2>2. DOMAIN rebound(q) = DOMAIN files.prompts[q] /\ "status" \in DOMAIN rebound(q)
    BY <1>1 DEF PromptRecord
  <2> HIDE DEF rebound
  <2> QED
    BY <1>2, <2>1, <2>2
<1> QED
  BY <1>3, <1>4 DEF Held

LEMMA HeldInsert ==
    ASSUME NEW files, FilesOK(files), NEW p, NEW i, NEW auto, NEW thread
    PROVE  Held(files, InsertPrompt(files, p, i, auto, thread))
BY DEF Held, InsertPrompt, NewPrompt, FilesOK, TabRecord

LEMMA HeldMove ==
    ASSUME NEW files, FilesOK(files), NEW p, NEW thread
    PROVE  Held(files, MoveToFront(files, p, thread))
BY DEF Held, MoveToFront, FilesOK, TabRecord

\* A section that changes neither the prompts nor the runner.
LEMMA HeldElse ==
    ASSUME NEW files, NEW after, after.prompts = files.prompts, after.runner = files.runner
    PROVE  Held(files, after)
BY DEF Held

-----------------------------------------------------------------------------
(* The steps. *)

LEMMA LoopStepHeld ==
    ASSUME TypeInv, tab.runner.desired = "paused", oneShot = {}, NEW g \in Generations, LoopStep(g)
    PROVE  Held(tab, tab')
<1>0. FilesOK(tab)
  BY DEF TypeInv
<1>1. ~KeepsRunning /\ ~Rolls
  BY DEF KeepsRunning, Rolls
<1>2. CASE UNCHANGED tab
  BY <1>0, <1>2, HeldRunner
<1>3. CASE LoopSetPaused(g) \/ LoopAwait(g) \/ LoopMark(g) \/ LoopRunning(g)
  BY <1>0, <1>3, HeldRunner DEF LoopSetPaused, LoopAwait, LoopMark, LoopRunning
<1>11. CASE LoopFailRunner(g) \/ LoopGap(g)
  <2>1. tab' \in {tab, ClearAuto(tab), FailRunner(tab), WaitForPrompt(tab)}
    BY <1>11 DEF LoopFailRunner, LoopGap
  <2> QED
    BY <1>0, <2>1, HeldRunner, HeldClearAuto
<1>4. CASE LoopDiscard(g) \/ LoopPauseAfterFailure(g)
  BY <1>0, <1>4, HeldClearAuto DEF LoopDiscard, LoopPauseAfterFailure
<1>5. CASE LoopArm(g)
  BY <1>1, <1>2, <1>5 DEF LoopArm
<1>6. CASE LoopPrepare(g)
  BY <1>1, <1>2, <1>6 DEF LoopPrepare, MayDispatch
<1>7. CASE LoopBind(g)
  <2>1. tab'.prompts = tab.prompts /\ tab'.runner = tab.runner
    BY <1>0, <1>7 DEF LoopBind, FilesOK, TabRecord
  <2> QED
    BY <2>1, HeldElse
<1>8. CASE LoopAttempt(g) \/ LoopSettlesPrompt(g)
  BY <1>0, <1>8, HeldSettles, HeldFinalize, HeldRunner DEF LoopAttempt, LoopSettlesPrompt
<1>9. CASE LoopStarted(g) \/ LoopRecord(g)
  BY <1>0, <1>2, <1>9, HeldStarted, HeldRecord DEF LoopStarted, LoopRecord
<1>10. CASE \/ LoopRead(g) \/ LoopIdle(g) \/ LoopWaitFailed(g) \/ LoopFresh(g)
            \/ LoopSubmitAccepted(g) \/ LoopSubmitFailed(g) \/ LoopDetached(g) \/ LoopWait(g)
            \/ LoopErrorRead(g) \/ LoopFailRead(g) \/ LoopAfter(g) \/ LoopDelay(g) \/ LoopRelaunch(g)
  BY <1>2, <1>10 DEF LoopRead, LoopIdle, LoopWaitFailed, LoopFresh, LoopSubmitAccepted, LoopSubmitFailed,
     LoopDetached, LoopWait, LoopErrorRead, LoopFailRead, LoopAfter, LoopDelay, LoopRelaunch
<1> QED
  BY <1>3, <1>4, <1>5, <1>6, <1>7, <1>8, <1>9, <1>10, <1>11 DEF LoopStep

LEMMA CallHeld ==
    ASSUME TypeInv, NEW c \in Callers, Call(c)
    PROVE  Held(tab, tab')
<1>0. FilesOK(tab)
  BY DEF TypeInv
<1>1. CASE UNCHANGED tab
  BY <1>0, <1>1, HeldRunner
<1>2. CASE CallStart(c) \/ CallPause(c)
  BY <1>1, <1>2 DEF CallStart, CallPause
<1>6. CASE CallInterrupt(c)
  BY <1>1, <1>6 DEF CallInterrupt
<1>7. CASE CallInsert(c)
  BY <1>1, <1>7 DEF CallInsert
<1>3. CASE CallAdd(c)
  BY <1>0, <1>3, HeldInsert DEF CallAdd
<1>4. CASE CallTimer(c)
  <2> DEFINE new(p) == InsertPrompt(tab, p, Len(tab.order) + 1, TRUE, tab.thread)
  <2>1. PICK p \in Unused(tab), priority \in BOOLEAN :
          tab' = IF priority THEN MoveToFront(new(p), p, tab.thread) ELSE new(p)
    BY <1>4 DEF CallTimer
  <2> DEFINE queued == new(p)
  <2>2. Held(tab, queued)
    BY <1>0, HeldInsert
  <2>3. MoveToFront(queued, p, tab.thread).runner = queued.runner /\ MoveToFront(queued, p, tab.thread).prompts = queued.prompts
    BY <1>0 DEF MoveToFront, InsertPrompt, FilesOK, TabRecord
  <2>4. tab' \in {queued, MoveToFront(queued, p, tab.thread)}
    BY <2>1
  <2> HIDE DEF queued
  <2> QED
    BY <2>2, <2>3, <2>4 DEF Held
<1>5. CASE CallEdit(c)
  <2>1. \/ \E p \in Prompts : tab' \in {Retry(tab, p), Skip(tab, p), DeletePrompt(tab, p), MoveToFront(tab, p, tab.thread)}
        \/ \E v \in {"pause", "continue"} : tab' = [tab EXCEPT !.onFailure = v]
    BY <1>5 DEF CallEdit, EligiblePrompts
  <2>2. ASSUME NEW v, tab' = [tab EXCEPT !.onFailure = v] PROVE Held(tab, tab')
    <3>1. tab'.prompts = tab.prompts /\ tab'.runner = tab.runner
      BY <1>0, <2>2 DEF FilesOK, TabRecord
    <3> QED
      BY <3>1, HeldElse
  <2> QED
    BY <1>0, <2>1, <2>2, HeldMove, HeldSettles
<1> QED
  BY <1>2, <1>3, <1>4, <1>5, <1>6, <1>7 DEF Call

LEMMA CallerStepHeld ==
    ASSUME TypeInv, NEW c \in Callers, callers[c].pc \notin Activating, CallerStep(c)
    PROVE  Held(tab, tab')
<1>0. FilesOK(tab)
  BY DEF TypeInv
<1>1. CASE UNCHANGED tab
  BY <1>0, <1>1, HeldRunner
<1>2. CASE StartClear(c) \/ ActivateRead(c) \/ ActivateLaunch(c) \/ BatchRun(c) \/ InsertReserve(c) \/ InsertMove(c)
  BY <1>2 DEF StartClear, ActivateRead, ActivateLaunch, BatchRun, InsertReserve, InsertMove, CallerIn, Activating
<1>3. CASE Pause(c)
  BY <1>0, <1>3, HeldClearAuto, HeldRunner DEF Pause
<1>4. CASE InterruptRead(c) \/ InterruptPoll(c) \/ InterruptCancel(c) \/ InterruptSettle(c) \/ InsertSteer(c)
  BY <1>1, <1>4 DEF InterruptRead, InterruptPoll, InterruptCancel, InterruptSettle, InsertSteer
<1>5. CASE InterruptFinalize(c)
  BY <1>0, <1>5, HeldFinalize DEF InterruptFinalize
<1>6. CASE Bind(c)
  <2>1. tab'.prompts = tab.prompts /\ tab'.runner = tab.runner
    BY <1>0, <1>6 DEF Bind, FilesOK, TabRecord
  <2> QED
    BY <2>1, HeldElse
<1>7. CASE InsertSettle(c)
  BY <1>0, <1>1, <1>7, HeldSettles, HeldStarted DEF InsertSettle
<1> QED
  BY <1>2, <1>3, <1>4, <1>5, <1>6, <1>7 DEF CallerStep

LEMMA ProviderStepHeld ==
    ASSUME TypeInv, ProviderStep
    PROVE  Held(tab, tab')
<1>0. FilesOK(tab)
  BY DEF TypeInv
<1>1. CASE UNCHANGED tab
  BY <1>0, <1>1, HeldRunner
<1>2. CASE ManualTurn
  BY <1>1, <1>2 DEF ManualTurn
<1>3. ASSUME NEW t \in Turns, TurnEnds(t) \/ TurnHeard(t) PROVE Held(tab, tab')
  BY <1>1, <1>3 DEF TurnEnds, TurnHeard
<1>4. ASSUME NEW t \in Turns, TurnRecorded(t) PROVE Held(tab, tab')
  <2>1. Held(tab, Recovered(tab))
    BY <1>0 DEF Held, Recovered, FilesOK, TabRecord, RunnerRecord
  <2> QED
    BY <1>0, <1>4, <2>1, RecordedFiles, HeldRunner, HeldRecord
<1>5. CASE SubmissionUnconfirmed
  <2>1. tab'.prompts = tab.prompts /\ tab'.runner.desired = tab.runner.desired
    BY <1>0, <1>5 DEF SubmissionUnconfirmed, FilesOK, TabRecord, RunnerRecord
  <2> QED
    BY <2>1 DEF Held
<1> QED
  BY <1>2, <1>3, <1>4, <1>5 DEF ProviderStep

\* A step from a stopped state holds the queue.
LEMMA StepHeld == TypeInv /\ [Next]_vars => (Stopped => Held(tab, tab')) \/ UNCHANGED vars
<1> SUFFICES ASSUME TypeInv, Next, Stopped PROVE Held(tab, tab')
  OBVIOUS
<1> QED
  BY LoopStepHeld, CallHeld, CallerStepHeld, ProviderStepHeld DEF Next, Stopped

(* A queue that was stopped stays stopped, and none of its pending prompts  *)
(* is dispatched, until somebody asks: prepareDispatch (queue.ts) reads the *)
(* intent again under the lock, and armIfEmpty too.                         *)
THEOREM PauseKept == Spec => PauseHolds
<1>1. TypeInv /\ [Next]_vars => [Stopped => /\ tab'.runner.desired = "paused"
                                         /\ \A p \in Prompts : ~Dispatches(p)]_vars
  BY StepHeld DEF Held, Stopped, Dispatches
<1> QED
  BY <1>1, TypeInvHolds, PTL DEF Spec, PauseHolds
===============================================================================
