------------------------------- MODULE TabFiles -------------------------------
(***************************************************************************)
(* The durable files of one conversation tab (tab.json, prompts.json,      *)
(* answers.json, runtime.json) and every read-modify-write the server      *)
(* performs on them while it holds the tab lock                            *)
(* (StorageService.withTabLock).  Each operator maps the files before a    *)
(* locked section to the files after it; the modules that interleave the   *)
(* sections extend this one.                                               *)
(*                                                                         *)
(* Texts, timestamps, revisions and answer bodies are left out.  An        *)
(* attempt of a prompt is known by its clientUserMessageId, a number here; *)
(* its own status follows the prompt's and is left out; its delivery is    *)
(* `steered`: the prompt's turn is one it was steered into.                *)
(***************************************************************************)
EXTENDS Integers, Sequences, FiniteSets, SequencesExt

CONSTANTS
    Prompts,         \* prompt ids
    SlashPrompts,    \* the prompts whose text is a CLI slash command
    A2aPrompts,      \* the prompts that carry an agent-to-agent collaboration
    Threads,         \* provider conversation ids
    NoThread,        \* session.threadId = null
    NoPrompt,        \* runner.activePromptId = null
    MaxTurns,        \* bound: provider turns, numbered 1..MaxTurns
    MaxClients       \* bound: attempts, numbered 1..MaxClients

ASSUME FilesAssumption ==
    /\ SlashPrompts \subseteq Prompts /\ A2aPrompts \subseteq Prompts
    /\ NoThread \notin Threads /\ NoPrompt \notin Prompts
    /\ MaxTurns \in Nat /\ MaxClients \in Nat

(* A provider turn has a positive id; the local lifecycle id of an          *)
(* interrupted submission ("submission-interrupted:<client>") is negative.  *)
NoTurn == 0
NoClient == 0
Turns == 1..MaxTurns
TurnIds == (-MaxClients)..MaxTurns
LocalTurn(client) == -client
Clients == 0..MaxClients

Active == {"dispatching", "running"}
PromptStatus == {"unused", "deleted", "pending", "dispatching", "running",
                 "completed", "failed", "interrupted", "skipped"}
AnswerStatus == {"none", "running", "completed", "failed", "interrupted"}
RunnerState == {"paused", "starting", "waiting_for_thread", "waiting_for_prompt",
                "dispatching", "running", "pausing", "error", "reconciling"}

PromptRecord ==
    [status : PromptStatus, thread : Threads \cup {NoThread}, turn : TurnIds,
     client : Clients, steered : BOOLEAN, auto : BOOLEAN]

\* the answer card of a turn, and the prompt it is filed under
AnswerRecord == [status : AnswerStatus, prompt : Prompts \cup {NoPrompt}]
NoAnswer == [status |-> "none", prompt |-> NoPrompt]
Card(status, p) == [status |-> status, prompt |-> p]

RunnerRecord ==
    [desired : {"paused", "armed", "running"}, state : RunnerState,
     activePrompt : Prompts \cup {NoPrompt}, activeTurn : TurnIds, error : BOOLEAN]

TabRecord ==
    [thread : Threads \cup {NoThread}, ready : BOOLEAN, order : Seq(Prompts),
     prompts : [Prompts -> PromptRecord], answers : [TurnIds -> AnswerRecord],
     runner : RunnerRecord, onFailure : {"pause", "continue"}, clients : Clients]

NewPrompt == [status |-> "pending", thread |-> NoThread, turn |-> NoTurn,
              client |-> NoClient, steered |-> FALSE, auto |-> FALSE]

-----------------------------------------------------------------------------
(* Reading the files. *)

Present(tab, p) == p # NoPrompt /\ tab.prompts[p].status \notin {"unused", "deleted"}

\* pending, and not bound to another conversation
Eligible(tab, p, thread) ==
    /\ Present(tab, p)
    /\ tab.prompts[p].status = "pending"
    /\ tab.prompts[p].thread \in {NoThread, thread}

EligiblePrompts(tab, thread) == {p \in Prompts : Eligible(tab, p, thread)}

\* the first prompt of the queue, in queue order, that is in S
FirstOf(tab, S) == tab.order[Min({i \in DOMAIN tab.order : tab.order[i] \in S})]

\* the queue without p, which is in it
Without(tab, p) == RemoveAt(tab.order, Min({i \in DOMAIN tab.order : tab.order[i] = p}))

Unused(tab) == {p \in Prompts : tab.prompts[p].status = "unused"}

\* the prompts a provider turn is linked to
Linked(tab, thread, t) ==
    {p \in Prompts : Present(tab, p) /\ tab.prompts[p].turn = t
                     /\ tab.prompts[p].thread \in {NoThread, thread}}

\* the prompt of S that opened the turn, rather than was steered into it
Opener(tab, S, default) ==
    LET own == {p \in S : ~tab.prompts[p].steered}
    IN  IF own # {} THEN FirstOf(tab, own) ELSE default

\* a card that is not a real answer disappears with the turn of a slash command
DropCard(card) == IF card.status = "completed" THEN card ELSE NoAnswer

-----------------------------------------------------------------------------
(* The queue's own sections. *)

\* clearOneShotIntent and pauseAfterFailure drop the timers' auto-run marks
ClearAuto(tab) ==
    [tab EXCEPT !.prompts = [p \in Prompts |-> [tab.prompts[p] EXCEPT !.auto = FALSE]]]

ClearAutoOf(tab, S) ==
    [tab EXCEPT !.prompts = [p \in Prompts |->
        IF p \in S THEN [tab.prompts[p] EXCEPT !.auto = FALSE] ELSE tab.prompts[p]]]

SetRunnerState(tab, state, p, t) ==
    [tab EXCEPT !.runner.state = state, !.runner.activePrompt = p, !.runner.activeTurn = t,
                !.runner.error = IF state \in {"dispatching", "running"} THEN FALSE ELSE @]

FailRunnerUnknownState(tab) ==   \* mutant: a state outside the schema
    [tab EXCEPT !.runner.desired = "paused", !.runner.state = "failed", !.runner.error = TRUE]

FailRunner(tab) ==
    [tab EXCEPT !.runner = [desired |-> "paused", state |-> "error", activePrompt |-> NoPrompt,
                            activeTurn |-> NoTurn, error |-> TRUE]]

PauseAfterFailureRolls(tab) ==   \* mutant: the setting is left alone
    [ClearAuto(tab) EXCEPT !.runner.state = "error",
                           !.runner.activePrompt = NoPrompt, !.runner.activeTurn = NoTurn]

PauseAfterFailure(tab) ==
    [ClearAuto(tab) EXCEPT !.runner.desired = "paused", !.runner.state = "error",
                           !.runner.activePrompt = NoPrompt, !.runner.activeTurn = NoTurn]

PauseRunner(tab) ==
    [tab EXCEPT !.runner.desired = "paused",
                !.runner.state = IF tab.runner.activePrompt # NoPrompt THEN "pausing" ELSE "paused"]

\* activate() with a loop alive keeps the loop's state and active ids ...
KeepGoing(tab) == [tab EXCEPT !.runner.desired = "running", !.runner.error = FALSE]

\* ... and without one announces the loop it is about to launch
Boot(tab) == [KeepGoing(tab) EXCEPT !.runner.state = "starting"]

Arm(tab) ==
    [tab EXCEPT !.runner.desired = "armed", !.runner.state = "paused",
                !.runner.activePrompt = NoPrompt, !.runner.activeTurn = NoTurn]

WaitForPrompt(tab) == SetRunnerState(tab, "waiting_for_prompt", NoPrompt, NoTurn)

ReserveUnfiled(tab, p) ==   \* mutant: the prompt's status is left alone
    [tab EXCEPT !.clients = @ + 1, !.prompts[p] = [@ EXCEPT !.client = tab.clients + 1, !.auto = FALSE]]

\* prepareDispatch: a new attempt of p.  The turn of an earlier attempt stays.
Reserve(tab, p) ==
    LET c == tab.clients + 1 IN
    [tab EXCEPT !.clients = c,
                !.prompts[p] = [@ EXCEPT !.status = "dispatching", !.thread = tab.thread,
                                         !.client = c, !.auto = FALSE]]

ReserveSteerRunning(tab, p, thread, t) ==   \* mutant: running before the steer is accepted
    [tab EXCEPT !.clients = @ + 1,
                !.prompts[p] = [@ EXCEPT !.status = "running", !.thread = thread, !.turn = t,
                                         !.client = tab.clients + 1, !.steered = TRUE]]

\* steerPendingPrompt: a new attempt of p, linked to the running turn at once
ReserveSteer(tab, p, thread, t) ==
    LET c == tab.clients + 1 IN
    [tab EXCEPT !.clients = c,
                !.prompts[p] = [@ EXCEPT !.status = "dispatching", !.thread = thread, !.turn = t,
                                         !.client = c, !.steered = TRUE, !.auto = FALSE]]

Steered(tab, p, c) ==
    IF Present(tab, p) /\ tab.prompts[p].client = c /\ tab.prompts[p].status = "dispatching"
    THEN [tab EXCEPT !.prompts[p].status = "running"]
    ELSE tab

UndoSteerKeepsTurn(tab, p, c, prev) ==   \* mutant: the linkage is not restored
    IF Present(tab, p) /\ tab.prompts[p].client = c
    THEN [tab EXCEPT !.prompts[p].status = "pending"] ELSE tab

\* `prev` is the prompt's linkage before ReserveSteer
UndoSteer(tab, p, c, prev) ==
    IF Present(tab, p) /\ tab.prompts[p].client = c
    THEN [tab EXCEPT !.prompts[p] = [@ EXCEPT !.status = "pending", !.thread = prev.thread,
                                     !.turn = prev.turn, !.client = prev.client,
                                     !.steered = prev.steered]]
    ELSE tab

AcceptedElsewhere(tab, p, thread, t) ==   \* mutant: the new conversation is not filed
    IF Present(tab, p)
    THEN [tab EXCEPT !.prompts[p] = [@ EXCEPT !.status = "running", !.turn = t]] ELSE tab

\* updateAttempt after the provider accepted the submission
Accepted(tab, p, thread, t) ==
    IF Present(tab, p)
    THEN [tab EXCEPT !.prompts[p] = [@ EXCEPT !.status = "running", !.thread = thread, !.turn = t,
                                     !.steered = FALSE]]
    ELSE tab

CompleteSlashRunning(tab, p, t) ==   \* mutant: only a command that opened a turn
    IF Present(tab, p) /\ p \in SlashPrompts /\ tab.prompts[p].status = "running"
    THEN [tab EXCEPT !.prompts[p].status = "completed"] ELSE tab

CompleteSlash(tab, p, t) ==
    IF Present(tab, p) /\ p \in SlashPrompts
    THEN [tab EXCEPT
            !.prompts[p] = [@ EXCEPT !.status = "completed",
                                     !.turn = IF t # NoTurn THEN t ELSE tab.prompts[p].turn],
            !.answers = [u \in TurnIds |->
                IF tab.answers[u].prompt = p THEN DropCard(tab.answers[u]) ELSE tab.answers[u]]]
    ELSE tab

MarkFailure(tab, p, t) ==
    IF Present(tab, p)
    THEN [tab EXCEPT !.prompts[p].status = "failed",
                     !.answers[t] = IF t = NoTurn \/ tab.prompts[p].thread = NoThread THEN @
                                    ELSE Card("failed", IF @ = NoAnswer THEN p ELSE @.prompt)]
    ELSE tab

MarkLocalTurnNever(tab, p, c) == tab   \* mutant: the local turn id is not stored

MarkLocalTurn(tab, p, c) ==
    IF Present(tab, p) /\ tab.prompts[p].client = c /\ tab.prompts[p].status = "dispatching"
    THEN [tab EXCEPT !.prompts[p].turn = LocalTurn(c), !.prompts[p].steered = FALSE]
    ELSE tab

FinalizeInterrupted(tab, thread, t) ==
    LET linked == {p \in Prompts : /\ Present(tab, p) /\ tab.prompts[p].thread = thread
                                   /\ tab.prompts[p].turn = t /\ tab.prompts[p].status \in Active}
        slashOnly == linked \subseteq SlashPrompts
        settled == [p \in Prompts |->
            IF p \in linked
            THEN [tab.prompts[p] EXCEPT !.status = IF slashOnly THEN "completed" ELSE "interrupted"]
            ELSE tab.prompts[p]]
        files == [tab EXCEPT !.prompts = settled,
                    !.answers[t] = IF slashOnly THEN DropCard(@)
                                   ELSE Card("interrupted", Opener(tab, linked, FirstOf(tab, linked)))]
    IN  IF linked = {} THEN tab
        ELSE IF tab.runner.activeTurn = t \/ tab.runner.activePrompt \in linked
        THEN [files EXCEPT !.runner = [desired |-> "paused", state |-> "paused",
                                       activePrompt |-> NoPrompt, activeTurn |-> NoTurn,
                                       error |-> FALSE]]
        ELSE files

ClearActiveDispatching(tab, failed, p, t) ==   \* mutant: whatever the setting is
    IF tab.runner.activePrompt = p /\ (t = NoTurn \/ tab.runner.activeTurn \in {t, NoTurn})
    THEN SetRunnerState(tab, "dispatching", NoPrompt, NoTurn) ELSE tab

ClearActive(tab, failed, p, t) ==
    IF tab.runner.activePrompt = p /\ (t = NoTurn \/ tab.runner.activeTurn \in {t, NoTurn})
    THEN [tab EXCEPT !.runner.activePrompt = NoPrompt, !.runner.activeTurn = NoTurn,
                     !.runner.error = failed,
                     !.runner.state = IF failed THEN "error"
                                      ELSE IF tab.runner.desired = "running" THEN "dispatching"
                                      ELSE "paused"]
    ELSE tab

-----------------------------------------------------------------------------
(* The history module's sections, shared by the queue and the turn events. *)

\* recordTurnStarted, for a prompt that is present
RecordTurnStarted(tab, p, thread, t) ==
    IF Linked(tab, thread, t) \cup {p} \subseteq SlashPrompts
    THEN [tab EXCEPT !.answers[t] = DropCard(@)]
    ELSE [tab EXCEPT !.answers[t] = IF @.status \notin {"none", "running"} THEN @
                                    ELSE Card("running", Opener(tab, Linked(tab, thread, t), p))]

(* recordTurn.  `p` is the prompt the caller names, or NoPrompt for a turn   *)
(* reported by the provider alone; it then belongs to a linked prompt that   *)
(* was not steered into it, or to a new record, appended with newPrompt's    *)
(* status "pending".  `outcome` is how the provider says the turn ended.     *)
RecordsTurn(tab, thread) == tab.thread \in {NoThread, thread}

RecordOwner(tab, p, thread, t) ==
    LET created == IF Unused(tab) = {} THEN NoPrompt ELSE CHOOSE q \in Unused(tab) : TRUE
    IN  IF Present(tab, p) THEN p ELSE Opener(tab, Linked(tab, thread, t), created)

TurnVerdictSilent(affected, outcome, queued) ==   \* mutant: no verdict without a final answer
    IF outcome = "nofinal" THEN "untouched" ELSE outcome

TurnVerdict(affected, outcome, queued) ==
    IF outcome = "completed" THEN "completed"
    ELSE IF affected # {} /\ affected \subseteq SlashPrompts THEN "slash"
    ELSE IF outcome \in {"failed", "interrupted"} THEN outcome
    ELSE IF queued THEN "failed" ELSE "untouched"

RecordTurn(tab, p, client, thread, t, outcome, queued) ==
    LET owner == RecordOwner(tab, p, thread, t)
        affected == (Linked(tab, thread, t) \cup {owner}) \ {NoPrompt}
        verdict == TurnVerdict(affected, outcome, queued)
        \* the owner is rebound to this turn, whatever attempt it is on now
        rebound(q) == IF q # owner THEN tab.prompts[q]
                      ELSE [tab.prompts[q] EXCEPT !.turn = t, !.thread = thread, !.steered = FALSE,
                              !.client = IF client # NoClient THEN client ELSE @,
                              !.status = IF @ = "unused" THEN "pending" ELSE @]
        settled(q) == IF verdict = "untouched" \/ q \notin affected THEN rebound(q)
                      ELSE [rebound(q) EXCEPT !.thread = thread, !.turn = t,
                              !.status = IF verdict = "slash" THEN "completed" ELSE verdict]
    IN  [tab EXCEPT
            !.prompts = [q \in Prompts |-> settled(q)],
            !.order = IF owner \in Unused(tab) THEN Append(@, owner) ELSE @,
            !.answers[t] = CASE verdict = "slash" -> DropCard(@)
                             [] verdict = "untouched" -> @
                             [] OTHER -> Card(verdict, owner)]

\* the answer record recordTurn returns, as far as the queue reads it
RecordedAnswer(tab, p, thread, t, outcome) ==
    LET affected == (Linked(tab, thread, t) \cup {RecordOwner(tab, p, thread, t)}) \ {NoPrompt}
        verdict == TurnVerdict(affected, outcome, TRUE)
    IN  IF ~RecordsTurn(tab, thread) \/ verdict = "slash" THEN "none" ELSE verdict

-----------------------------------------------------------------------------
(* The routes' and the timers' single-section edits of the queue. *)

InsertPrompt(tab, p, i, auto, thread) ==
    [tab EXCEPT !.order = InsertAt(@, i, p),
                !.prompts[p] = [NewPrompt EXCEPT !.auto = auto, !.thread = thread]]

DeletePrompt(tab, p) ==
    [tab EXCEPT !.order = Without(tab, p), !.prompts[p].status = "deleted"]

Retry(tab, p) == [tab EXCEPT !.prompts[p].status = "pending"]

Skip(tab, p) == [tab EXCEPT !.prompts[p].status = "skipped"]

\* startPendingPromptNow: in front of the first eligible prompt
MoveToFront(tab, p, thread) ==
    LET first == FirstOf(tab, EligiblePrompts(tab, thread))
        rest == Without(tab, p)
        at == Min({Len(rest) + 1} \cup {i \in DOMAIN rest : Eligible(tab, rest[i], thread)})
    IN  IF first = p THEN tab ELSE [tab EXCEPT !.order = InsertAt(rest, at, p)]
=============================================================================
