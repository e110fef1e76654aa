-------------------------------- MODULE Recovery --------------------------------
(***************************************************************************)
(* The records of one tab across a crash (app.ts recoverTerminalRuntime;   *)
(* the writes of the queue's dispatch in queue.ts and history.ts).  Every   *)
(* file is written whole, one after another, and the server may go between *)
(* any two writes, those of the recovery too.                              *)
(***************************************************************************)
EXTENDS Integers, FiniteSets

CONSTANTS Items,          \* prompts; the turn of a prompt has its name
          SlashItems,     \* those that are slash commands
          RecoveryLoads   \* bounds: crashes, settings

ASSUME SlashAssumption == SlashItems \subseteq Items

VARIABLES
  file,     \* prompts.json, answers.json, runtime.json (the runner) and tab.json (the session)
  task,     \* the dispatch under way: its prompt and what it does next
  phase,    \* "up", "down", the next step of the recovery, or "recovered"
  seen,     \* the bundle the recovery has read
  setting,  \* what the queue was told: "paused", "armed" or "running"
  torn,     \* whether a recovery was cut between prompts.json and answers.json
  tries     \* what is left of the load

recoveryVars == <<file, task, phase, seen, setting, torn, tries>>

None == "none"
ASSUME ItemsAssumption == None \notin Items
Idle == [item |-> None, step |-> "rest"]
InFlight == {"dispatching", "running"}
Uses(what) == tries[what] > 0 /\ tries' = [tries EXCEPT ![what] = @ - 1]

Prompt(i, status, turn) == file' = [file EXCEPT !.prompts[i] = [status |-> status, turn |-> turn]]
Runner(state, active) == file' = [file EXCEPT !.runner.state = state, !.runner.active = active]
Then(step) == task' = [task EXCEPT !.step = step]

-----------------------------------------------------------------------------
\* The server's writes.

Opens ==
  /\ phase = "up" /\ file.session # "ready"
  /\ file' = [file EXCEPT !.session = IF @ = "connecting" THEN "ready" ELSE "connecting"]
  /\ UNCHANGED <<task, phase, seen, setting, torn, tries>>
\* The user starts the queue, pauses it at rest, or arms it.
Sets(desired) ==
  /\ phase = "up" /\ task = Idle /\ file.runner.desired # desired /\ Uses("settings")
  /\ file' = [file EXCEPT !.runner.desired = desired] /\ setting' = desired
  /\ UNCHANGED <<task, phase, seen, torn>>

\* prepareDispatch, and the reservation of a prompt that is steered into the turn that runs.
Dispatches(i) ==
  /\ phase = "up" /\ file.session = "ready" /\ file.prompts[i].status = "pending"
  /\ \/ task = Idle /\ file.runner.desired = "running"
        /\ task' = [item |-> i, step |-> "say"] /\ Prompt(i, "dispatching", None)
     \/ task.step = "end" /\ i \notin SlashItems /\ task.item \notin SlashItems
        /\ Prompt(i, "dispatching", task.item) /\ UNCHANGED task
  /\ UNCHANGED <<phase, seen, setting, torn, tries>>
Joins(i) ==
  /\ phase = "up" /\ i # task.item /\ task.step = "end" /\ file.prompts[i] = [status |-> "dispatching", turn |-> task.item]
  /\ Prompt(i, "running", task.item)
  /\ UNCHANGED <<task, phase, seen, setting, torn, tries>>

\* dispatch: the runner, the prompt, its answer (recordTurnStarted) and the runner again; then
\* recordTurn, whose answers.json comes first, and clearActive.
Linked(f, t) == {i \in Items : f.prompts[i].turn = t}
Writes ==
  LET i == task.item
  IN  /\ phase = "up" /\ i # None
      /\ \/ task.step = "say" /\ Runner("dispatching", i) /\ Then("accept")
         \/ task.step = "accept" /\ Prompt(i, "running", i) /\ Then("open")
         \/ /\ task.step = "open" /\ Then("run")
            /\ file' = IF i \in SlashItems THEN file ELSE [file EXCEPT !.answers[i] = "running"]
         \/ task.step = "run" /\ Runner("running", i) /\ Then("end")
         \/ \E outcome \in {"completed", "interrupted"} :
              /\ task.step = "end" /\ Then(outcome)
              /\ file' = IF i \in SlashItems THEN file ELSE [file EXCEPT !.answers[i] = outcome]
         \/ /\ task.step \in {"completed", "interrupted"} /\ Then("clear")
            /\ file' = [file EXCEPT !.prompts = [j \in Items |-> IF j \in Linked(file, i) THEN [@[j] EXCEPT !.status = task.step] ELSE @[j]]]
         \/ task.step = "clear" /\ Runner("paused", None) /\ task' = Idle
      /\ UNCHANGED <<phase, seen, setting, torn, tries>>

Cuts ==
  /\ phase # "down" /\ Uses("crashes") /\ phase' = "down"
  /\ task' = Idle /\ torn' = (torn \/ phase = "answers")
  /\ UNCHANGED <<file, seen, setting>>

-----------------------------------------------------------------------------
\* recoverTerminalRuntime: the bundle is read once, and what is stale written file by file.

SessionStale(f) == f.session \in {"ready", "connecting"}
RunnerStale(f) == f.runner.desired = "running" \/ f.runner.state # "paused" \/ f.runner.active # None
PromptStale(f) == \E i \in Items : f.prompts[i].status \in InFlight
Stale(f) == SessionStale(f) \/ RunnerStale(f) \/ PromptStale(f)

\* settledDesiredState; the mutant stops the queue.
PausedAlways(desired) == "paused"
SettledDesired(desired) == IF desired = "paused" THEN "paused" ELSE "armed"
\* A command is over, any other prompt interrupted; the mutant misses what was only being dispatched.
RecoveredRunning(i, p) == IF p.status # "running" THEN p ELSE [p EXCEPT !.status = "interrupted"]
RecoveredPrompt(i, p) ==
  IF p.status \notin InFlight THEN p
  ELSE [p EXCEPT !.status = IF i \in SlashItems THEN "completed" ELSE "interrupted"]
\* The answers of the turns that were in flight; commands have none.  The mutant keeps what is there.
KeptAnswers(f) == f.answers
RecoveredAnswers(f) ==
  [t \in Items |-> IF (\E i \in Linked(f, t) : f.prompts[i].status \in InFlight) /\ t \notin SlashItems
                   THEN "interrupted" ELSE f.answers[t]]

RecoveryReads ==
  /\ phase = "down" /\ seen' = file
  /\ phase' = IF Stale(file) THEN "runtime" ELSE "recovered"
  /\ UNCHANGED <<file, task, setting, torn, tries>>
Step(from, to, f) == phase = from /\ phase' = to /\ file' = f
RecoveryWrites ==
  /\ \/ Step("runtime", "prompts",
             IF SessionStale(seen) \/ RunnerStale(seen)
             THEN [file EXCEPT !.runner = [desired |-> SettledDesired(@.desired), state |-> "paused", active |-> None]]
             ELSE file)
     \/ Step("prompts", "answers", [file EXCEPT !.prompts = [i \in Items |-> RecoveredPrompt(i, @[i])]])
     \/ Step("answers", "tab", IF PromptStale(seen) THEN [file EXCEPT !.answers = RecoveredAnswers(seen)] ELSE file)
     \/ Step("tab", "recovered", IF SessionStale(seen) THEN [file EXCEPT !.session = "closed"] ELSE file)
  /\ UNCHANGED <<task, seen, setting, torn, tries>>
Serves == phase = "recovered" /\ phase' = "up" /\ UNCHANGED <<file, task, seen, setting, torn, tries>>

-----------------------------------------------------------------------------
RecoveryInit ==
  /\ file = [prompts |-> [i \in Items |-> [status |-> "pending", turn |-> None]], answers |-> [i \in Items |-> None],
             runner |-> [state |-> "paused", desired |-> "paused", active |-> None], session |-> "disconnected"]
  /\ task = Idle /\ phase = "up" /\ seen = file /\ setting = "paused" /\ torn = FALSE
  /\ tries \in RecoveryLoads
RecoveryNext ==
  \/ Opens \/ (\E d \in {"paused", "armed", "running"} : Sets(d)) \/ (\E i \in Items : Dispatches(i) \/ Joins(i))
  \/ Writes \/ Cuts \/ RecoveryReads \/ RecoveryWrites \/ Serves
RecoverySpec == RecoveryInit /\ [][RecoveryNext]_recoveryVars

\* However often a launch is cut short, once one has recovered the tab nothing is in flight there, and
\* the queue's setting is the user's (recoverTerminalRuntime, settledDesiredState).
RecoveredIsIdle ==
  phase = "recovered" =>
    /\ \A i \in Items : file.prompts[i].status \notin InFlight
    /\ file.runner.state = "paused" /\ file.runner.active = None /\ ~ SessionStale(file)
    /\ file.runner.desired = SettledDesired(setting)

\* Unless a launch was cut between prompts.json and answers.json, the answers agree with the prompts
\* of their turns afterwards: none runs, none says completed of an interrupted prompt, and a command
\* has none (recoverTerminalRuntime).
AnswersFollowPrompts ==
  (phase = "recovered" /\ ~ torn) =>
    \A t \in Items : file.answers[t] # None => \A i \in Linked(file, t) : file.answers[t] = file.prompts[i].status

RecoveryTypes ==
  /\ \A i \in Items : file.prompts[i].status \in {"pending", "dispatching", "running", "completed", "interrupted"}
  /\ \A i \in Items : file.prompts[i].turn \in Items \cup {None}
  /\ phase \in {"up", "down", "runtime", "prompts", "answers", "tab", "recovered"}
  /\ file.session \in {"disconnected", "connecting", "ready", "closed"}
=============================================================================
