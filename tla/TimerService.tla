----------------------------- MODULE TimerService -----------------------------
(***************************************************************************)
(* The timers of one conversation (server/timer-service.ts).  A timer that *)
(* comes due files its prompts in the queue, then moves itself on, then    *)
(* hands the prompts to the queue runner.  The timer file and the queue    *)
(* are written under the lock of the tab, one after the other; the service *)
(* schedules from a copy of the file in memory, which some reads refresh   *)
(* without the lock.  The crash may come between any two steps.            *)
(*                                                                         *)
(* Where a batch is put into the queue is left out: the order of a queue   *)
(* tells none of the properties apart.                                     *)
(***************************************************************************)
EXTENDS Integers, Sequences, FiniteSets, SequencesExt, TimerRules

CONSTANTS
  Timers,      \* timer ids, numbers
  Items,       \* the prompts of a timer
  Schedules,   \* the schedules a user may write
  MaxTime,     \* bound: the clock
  Threads,     \* conversations the tab may show
  Keys,        \* idempotency keys of run-now
  TimerLoads,  \* bounds of a behaviour: the kinds and the number of things asked, restarts
  Races        \* a page may read or write timers while the service reads them without the lock

\* A schedule is one moment, or every so many units from a moment on until an end.
ScheduleT == [kind : {"once"}, at : Nat]
             \cup [kind : {"interval"}, anchor : Nat, every : Nat \ {0}, end : Nat \cup {Never}]

ASSUME TimerAssumption ==
  /\ IsFiniteSet(Timers) /\ MaxTime \in Nat
  /\ Schedules \subseteq ScheduleT
  /\ Races \in BOOLEAN

VARIABLES
  timerFile,   \* timers.json: its version and its timers, "gone" with the tab
  copy,        \* files.get(tabId), NoFile when not loaded
  queue,       \* prompts.json: every prompt a timer may file
  session,     \* [ready, thread]
  section,     \* who is between the two writes of a locked section
  detaching, checking, armed,   \* flags of the service; armed: the wake timer is set
  dueList,     \* what checkDueTimers has still to trigger
  oneshot,     \* the runner's one-shot prompts
  reading,     \* an unlocked read of timers.json on its way into memory (bound: one at a time)
  hold,        \* active timer prompts, as the prompt events reported them
  stage,       \* how far start() is
  recover,     \* a recoverAutoRuns is to run
  clock, asked

timerVars == <<timerFile, copy, queue, session, section, detaching, checking, armed, dueList,
               oneshot, reading, hold, stage, recover, clock, asked>>

None   == -1
NoFile == [rev |-> -1, timers |-> <<>>]
NoTimer == [on |-> FALSE, next |-> None, schedule |-> NoSchedule, thread |-> 0,
            last |-> "none", lastAt |-> 0, stale |-> FALSE]
Unlocked == [who |-> "free", next |-> NoFile, batch |-> {}]
Filings == Timers \X ((1..MaxTime) \cup Keys) \X Items
Absent == [status |-> "none", auto |-> FALSE, thread |-> 0]
Unended == {"pending", "running"}

Batch(t, when) == {<<t, when, i>> : i \in Items}
Exists(p) == queue[p].status \notin {"none", "deleted"}
\* A timer prompt the host process must stay up for.
NeedsHold(q, p) == q[p].auto \/ q[p].status = "running"
Held(q) == {p \in Filings : NeedsHold(q, p)}

\* Every write of the queue reaches the service as an event (onPromptDelta).  The mutant
\* hears of new prompts only.
DeltaUpserts(q) == IF copy = NoFile THEN hold ELSE hold \cup {p \in Held(q) : queue[p].status = "none"}
Delta(q) ==
  LET changed == {p \in Filings : q[p] # queue[p]}
  IN  IF copy = NoFile THEN hold ELSE (hold \ changed) \cup (changed \cap Held(q))
WriteQueue(q) == queue' = q /\ hold' = Delta(q)

Enabled(file) == \E t \in DOMAIN file.timers : file.timers[t].on
\* remember() and wake(): a wake during a check is left to the end of that check.
Remember(file) == copy' = file /\ armed' = (stage # "off" /\ ~ checking /\ Enabled(file))

Asks(kind) == kind \in asked.kinds /\ asked.n > 0 /\ asked' = [asked EXCEPT !.n = @ - 1]
Attached == ~ detaching /\ timerFile # NoFile /\ section = Unlocked
Rest == <<session, detaching, checking, dueList, oneshot, reading, stage, recover, clock>>

-----------------------------------------------------------------------------
\* The routes of the timer dialog.  They write under the lock, if the caller has the
\* version that is there (If-Match); a stale caller changes nothing.

NewTimer(t, schedule, on, thread) ==
  LET next == NextRun(schedule, clock)
  IN  [timerFile.timers[t] EXCEPT !.on = on /\ next # None, !.next = IF on THEN next ELSE None,
                                  !.schedule = schedule, !.thread = thread, !.stale = FALSE]

WriteTimer(t, value) ==
  LET next == [rev |-> timerFile.rev + 1, timers |-> [timerFile.timers EXCEPT ![t] = value]]
  IN  timerFile' = next /\ Remember(next)

Unraced == Races \/ reading = NoFile

SaveTimer(t, schedule, on) ==
  /\ Attached /\ Unraced /\ Asks("save")
  /\ on \/ timerFile.timers[t] # NoTimer   \* bound: a new timer is switched on
  /\ session.thread # 0 \/ timerFile.timers[t] # NoTimer
  /\ schedule.kind = "once" => NextRun(schedule, clock) # None
  /\ WriteTimer(t, NewTimer(t, schedule, on,
       IF timerFile.timers[t] = NoTimer THEN session.thread ELSE timerFile.timers[t].thread))
  /\ UNCHANGED <<queue, section, hold>> /\ UNCHANGED Rest

DeleteTimer(t) ==
  /\ Attached /\ Unraced /\ timerFile.timers[t] # NoTimer /\ Asks("drop")
  /\ WriteTimer(t, NoTimer)
  /\ UNCHANGED <<queue, section, hold>> /\ UNCHANGED Rest

\* getTimers of a tab that is not loaded reads the file without the lock.
PageReads ==
  /\ Attached /\ copy = NoFile /\ reading = NoFile /\ Asks("read")
  /\ reading' = timerFile
  /\ UNCHANGED <<timerFile, copy, queue, session, section, detaching, checking, armed, dueList,
                 oneshot, hold, stage, recover, clock>>

ReadLands ==
  /\ reading # NoFile /\ stage # "read" /\ reading' = NoFile
  /\ Remember(reading)
  /\ UNCHANGED <<timerFile, queue, section, hold, asked>>
  /\ UNCHANGED <<session, detaching, checking, dueList, oneshot, stage, recover, clock>>

-----------------------------------------------------------------------------
\* An occurrence: its prompts are written first, the timer second (triggerScheduled and
\* runNow); their names follow from the timer and the time, so a second try finds them.

Runnable(t) == session.ready /\ session.thread # 0 /\ session.thread = timerFile.timers[t].thread
ActiveBatch(t) == \E p \in Filings : p[1] = t /\ queue[p].status \in Unended
                                 /\ queue[p].thread = timerFile.timers[t].thread

\* materializePrompts.
FiledNothing(t, when) == queue
Filed(t, when) ==
  [p \in Filings |-> IF p \in Batch(t, when) /\ ~ Exists(p)
                 THEN [status |-> "pending", auto |-> TRUE, thread |-> timerFile.timers[t].thread]
                 ELSE queue[p]]

\* advanceTimer and lastTrigger.
Advanced(t, when, status) ==
  LET timer == timerFile.timers[t]
      next  == IF timer.schedule.kind = "once" THEN None ELSE NextRun(timer.schedule, clock)
  IN  [timer EXCEPT !.on = next # None, !.next = next, !.last = status, !.lastAt = when]

Moved(t, value) ==
  [rev |-> timerFile.rev + 1, timers |-> [timerFile.timers EXCEPT ![t] = value]]

Current(item) ==
  timerFile # NoFile /\ timerFile.timers[item[1]].on /\ timerFile.timers[item[1]].next = item[2]

\* The mutant files the batch whatever is there, also what a crash left behind.
TriggerAfresh(t, when) ==
  LET again  == \E p \in Batch(t, when) : Exists(p)
      status == IF again THEN "queued" ELSE IF ~ Runnable(t) THEN "blocked"
                ELSE IF ActiveBatch(t) THEN "coalesced" ELSE "queued"
  IN  /\ IF status = "queued" THEN WriteQueue([p \in Filings |-> IF p \in Batch(t, when)
                                        THEN [status |-> "pending", auto |-> TRUE, thread |-> timerFile.timers[t].thread]
                                        ELSE queue[p]])
         ELSE UNCHANGED <<queue, hold>>
      /\ section' = [who |-> "trigger", next |-> Moved(t, Advanced(t, when, status)),
                     batch |-> IF status = "queued" THEN Batch(t, when) ELSE {}]

TriggerPrompts(t, when) ==
  LET again  == \E p \in Batch(t, when) : Exists(p)
      status == IF again THEN "queued" ELSE IF ~ Runnable(t) THEN "blocked"
                ELSE IF ActiveBatch(t) THEN "coalesced" ELSE "queued"
  IN  /\ IF ~ again /\ status = "queued" THEN WriteQueue(Filed(t, when)) ELSE UNCHANGED <<queue, hold>>
      /\ section' = [who |-> "trigger", next |-> Moved(t, Advanced(t, when, status)),
                     batch |-> IF again THEN {p \in Batch(t, when) : queue[p].status = "pending" /\ queue[p].auto}
                               ELSE IF status = "queued" THEN Batch(t, when) ELSE {}]

Trigger ==
  /\ dueList # <<>> /\ section = Unlocked /\ Unraced
  /\ IF detaching \/ ~ Current(Head(dueList))
     THEN dueList' = Tail(dueList) /\ UNCHANGED <<queue, hold, section>>
     ELSE TriggerPrompts(Head(dueList)[1], Head(dueList)[2]) /\ UNCHANGED dueList
  /\ UNCHANGED <<timerFile, copy, session, detaching, checking, armed, oneshot, reading, stage,
                 recover, clock, asked>>

\* The same HTTP request again finds all its prompts and starts them once more.
RunNow(t, key) ==
  /\ Attached /\ Unraced /\ Asks("run") /\ timerFile.timers[t] # NoTimer /\ Runnable(t)
  /\ IF \A p \in Batch(t, key) : Exists(p)
     THEN oneshot' = oneshot \cup Batch(t, key) /\ UNCHANGED <<queue, hold, section>>
     ELSE /\ ~ ActiveBatch(t)
          /\ WriteQueue(Filed(t, key))
          /\ section' = [who |-> "run", batch |-> Batch(t, key),
               next |-> Moved(t, [timerFile.timers[t] EXCEPT !.last = "queued", !.lastAt = key])]
          /\ UNCHANGED oneshot
  /\ UNCHANGED <<timerFile, copy, session, detaching, checking, armed, dueList, reading, stage,
                 recover, clock>>

\* The second write, and the hand-over to the runner once the lock is free.
SectionEnds ==
  /\ section # Unlocked
  /\ timerFile' = section.next /\ Remember(section.next)
  /\ oneshot' = oneshot \cup section.batch
  /\ dueList' = IF section.who = "trigger" THEN Tail(dueList) ELSE dueList
  /\ section' = Unlocked
  /\ UNCHANGED <<queue, session, detaching, checking, reading, hold, stage, recover, clock, asked>>

\* The wake timer fires; the check ends by waking again, whatever happened meanwhile.  It
\* takes what is due in the order of the file, which the model leaves open.
CheckDue ==
  LET due == {t \in DOMAIN copy.timers : copy.timers[t].on /\ copy.timers[t].next <= clock}
  IN  /\ armed /\ ~ checking /\ due # {}
      /\ armed' = FALSE /\ checking' = TRUE
      /\ \E order \in SetToSeqs(due) :
           dueList' = [i \in DOMAIN order |-> <<order[i], copy.timers[order[i]].next>>]
      /\ UNCHANGED <<timerFile, copy, queue, session, section, detaching, oneshot, reading, hold,
                     stage, recover, clock, asked>>

\* A mutant that leaves the wake-ups asked for during a check unanswered.
CheckEndsQuiet == checking /\ dueList = <<>> /\ checking' = FALSE /\ armed' = FALSE
CheckEnds ==
  /\ checking /\ dueList = <<>>
  /\ checking' = FALSE /\ armed' = Enabled(copy)

CheckOver ==
  /\ CheckEnds
  /\ UNCHANGED <<timerFile, copy, queue, session, section, detaching, dueList, oneshot, reading, hold,
                 stage, recover, clock, asked>>

Tick ==
  /\ clock < MaxTime /\ clock' = clock + 1
  /\ UNCHANGED <<timerFile, copy, queue, session, section, detaching, checking, armed, dueList,
                 oneshot, reading, hold, stage, recover, asked>>

-----------------------------------------------------------------------------
\* What the queue runner does with timer prompts (QueueRunner has it in full).

RunnerStep(q, left) ==
  /\ WriteQueue(q) /\ oneshot' = left
  /\ UNCHANGED <<timerFile, copy, session, section, detaching, checking, armed, dueList, reading,
                 stage, recover, clock>>

\* The mutant leaves the flags of what it drops.
UnflaggedNot(S) == queue
Unflagged(S) == [p \in Filings |-> IF p \in S THEN [queue[p] EXCEPT !.auto = FALSE] ELSE queue[p]]
Eligible(p) == queue[p].status = "pending" /\ queue[p].thread = session.thread

\* prepareDispatch.
RunnerTakes(p) ==
  /\ section = Unlocked /\ timerFile # NoFile
  /\ session.ready /\ p \in oneshot /\ Eligible(p)
  /\ \A q \in Filings : queue[q].status # "running"
  /\ RunnerStep([queue EXCEPT ![p].status = "running", ![p].auto = FALSE], oneshot \ {p})
  /\ UNCHANGED asked

\* A turn ends; after a failure the policy of the queue may drop what is left.
RunnerEnds(p, outcome, drop) ==
  /\ section = Unlocked /\ timerFile # NoFile
  /\ queue[p].status = "running"
  /\ drop => outcome = "failed"
  /\ LET q == IF drop THEN Unflagged(Filings) ELSE queue
     IN  RunnerStep([q EXCEPT ![p].status = outcome], IF drop THEN {} ELSE oneshot)
  /\ UNCHANGED asked

\* discardUnavailableOneShots, and failRunner of a conversation that is closed.
RunnerDrops ==
  /\ section = Unlocked /\ timerFile # NoFile /\ oneshot # {}
  /\ IF session.ready
     THEN /\ \A p \in oneshot : ~ Eligible(p)
          /\ RunnerStep(Unflagged(oneshot), {})
     ELSE RunnerStep(Unflagged(Filings), {})
  /\ UNCHANGED asked

UserPauses ==
  /\ Attached /\ Asks("pause") /\ (\E p \in Filings : queue[p].auto)
  /\ RunnerStep(Unflagged(Filings), {})

UserDeletes(p) ==
  /\ Attached /\ Asks("delete") /\ queue[p].status = "pending"
  /\ RunnerStep([queue EXCEPT ![p].status = "deleted", ![p].auto = FALSE], oneshot)

\* The conversation is closed, opened or switched: a ready one is told to the service.
SessionChanges(ready, thread) ==
  /\ Attached /\ Asks("session")
  /\ session' = [ready |-> ready, thread |-> thread] /\ session' # session
  /\ WriteQueue([p \in Filings |-> IF queue[p].status = "running"
                               THEN [queue[p] EXCEPT !.status = "failed"] ELSE queue[p]])
  /\ recover' = (recover \/ (ready /\ copy # NoFile))
  /\ UNCHANGED <<timerFile, copy, section, detaching, checking, armed, dueList, oneshot, reading,
                 stage, clock>>

-----------------------------------------------------------------------------
\* recoverAutoRuns: what is still flagged and may run is handed to the runner, the rest
\* loses its flag; a batch that a restart interrupted is dropped under onFailure = pause.

Interrupted(p) == \E q \in Filings : q[1] = p[1] /\ q[2] = p[2] /\ queue[q].status = "interrupted"

RecoverAutoRuns(pause) ==
  LET flagged == {p \in Filings : queue[p].auto}
      keep == {p \in flagged : Eligible(p) /\ ~ (pause /\ Interrupted(p))}
  IN  /\ recover /\ section = Unlocked /\ recover' = FALSE
      /\ IF detaching \/ timerFile = NoFile \/ ~ session.ready
         THEN UNCHANGED <<queue, oneshot>> /\ hold' = IF detaching \/ timerFile = NoFile THEN hold ELSE Held(queue)
         ELSE /\ queue' = Unflagged(flagged \ keep) /\ hold' = Held(queue')
              /\ oneshot' = oneshot \cup keep
      /\ UNCHANGED <<timerFile, copy, session, section, detaching, checking, armed, dueList, reading,
                     stage, clock, asked>>

\* start(), after the conversations are open again: read without the lock, brought up to
\* date and written back under it, remembered, recovered.
StartReads ==
  /\ stage = "off" /\ timerFile # NoFile /\ reading = NoFile
  /\ IF timerFile.rev = 0 THEN stage' = "done" /\ UNCHANGED reading
     ELSE stage' = "read" /\ reading' = timerFile
  /\ UNCHANGED <<timerFile, copy, queue, session, section, detaching, checking, armed, dueList,
                 oneshot, hold, recover, clock, asked>>

Normalised(file) ==
  IF \A t \in Timers : ~ file.timers[t].stale THEN file
  ELSE [rev |-> file.rev + 1, timers |-> [t \in Timers |->
          LET timer == file.timers[t]
              next == NextRun(timer.schedule, clock)
          IN  IF ~ timer.stale THEN timer
              ELSE [timer EXCEPT !.stale = FALSE, !.on = @ /\ next # None,
                                 !.next = IF timer.on THEN next ELSE None]]]

StartWrites ==
  /\ stage = "read" /\ section = Unlocked
  /\ LET file == Normalised(reading)
     IN  /\ timerFile' = IF file = reading THEN timerFile ELSE file
         /\ copy' = file /\ armed' = Enabled(file)
  /\ stage' = "done" /\ reading' = NoFile
  /\ hold' = Held(queue) /\ recover' = TRUE
  /\ UNCHANGED <<queue, session, section, detaching, checking, dueList, oneshot, clock, asked>>

\* The process dies; what was running is interrupted, or found finished in the
\* transcript; the conversation is opened again; some timers need bringing up to date (another time zone).
TimerRestart ==
  /\ asked.restarts > 0 /\ asked' = [asked EXCEPT !.restarts = @ - 1]
  /\ copy' = NoFile /\ section' = Unlocked /\ detaching' = FALSE /\ checking' = FALSE /\ armed' = FALSE
  /\ dueList' = <<>> /\ oneshot' = {} /\ reading' = NoFile /\ stage' = "off" /\ recover' = FALSE
  /\ hold' = {}
  /\ \E outcome \in {"interrupted", "completed"} :
       queue' = [p \in Filings |-> IF queue[p].status = "running" THEN [queue[p] EXCEPT !.status = outcome] ELSE queue[p]]
  /\ \E S \in {{}, Timers} :
       timerFile' = IF timerFile = NoFile THEN NoFile
                    ELSE [timerFile EXCEPT !.timers = [t \in Timers |->
                           IF t \in S /\ @[t] # NoTimer THEN [@[t] EXCEPT !.stale = TRUE] ELSE @[t]]]
  /\ session' = [session EXCEPT !.ready = TRUE]
  /\ UNCHANGED clock

-----------------------------------------------------------------------------
\* The tab is deleted: its runner is removed, detachTab, then the move of its files,
\* which may fail.

DetachWaits == section = Unlocked

DeleteBegins ==
  /\ Attached /\ Unraced /\ Asks("remove")
  /\ detaching' = TRUE
  /\ WriteQueue([p \in Filings |-> [Unflagged(Filings)[p] EXCEPT !.status = IF @ = "running" THEN "failed" ELSE @]])
  /\ oneshot' = {} /\ session' = [session EXCEPT !.ready = FALSE]
  /\ UNCHANGED <<timerFile, copy, section, checking, armed, dueList, reading, stage, recover, clock>>

DeleteEnds(ok) ==
  /\ detaching /\ timerFile # NoFile /\ DetachWaits /\ Unraced
  /\ IF ok
     THEN /\ timerFile' = NoFile /\ copy' = NoFile /\ hold' = {} /\ armed' = FALSE
          /\ UNCHANGED <<detaching, recover>>
     ELSE /\ detaching' = FALSE /\ recover' = (timerFile.rev # 0)
          /\ copy' = (IF timerFile.rev # 0 THEN timerFile ELSE NoFile)
          /\ armed' = (stage # "off" /\ ~ checking /\ Enabled(timerFile))
          /\ UNCHANGED <<timerFile, hold>>
  /\ UNCHANGED <<queue, session, section, checking, dueList, oneshot, reading, stage, clock, asked>>

TimerInit ==
  /\ timerFile = [rev |-> 0, timers |-> [t \in Timers |-> NoTimer]]
  /\ copy = NoFile /\ queue = [p \in Filings |-> Absent]
  /\ session = [ready |-> TRUE, thread |-> 1] /\ section = Unlocked
  /\ detaching = FALSE /\ checking = FALSE /\ armed = FALSE /\ dueList = <<>>
  /\ oneshot = {} /\ reading = NoFile /\ hold = {} /\ stage = "off" /\ recover = FALSE
  /\ clock = 0 /\ asked \in TimerLoads

TimerSystem ==
  \/ ReadLands \/ Trigger \/ SectionEnds \/ CheckDue \/ CheckOver \/ RunnerDrops
  \/ StartReads \/ StartWrites
  \/ \E pause \in BOOLEAN : RecoverAutoRuns(pause)
  \/ \E p \in Filings : RunnerTakes(p) \/ RunnerEnds(p, "completed", FALSE)
                    \/ \E drop \in BOOLEAN : RunnerEnds(p, "failed", drop)
  \/ \E ok \in BOOLEAN : DeleteEnds(ok)

TimerUser ==
  \/ \E t \in Timers : \/ \E s \in Schedules, on \in BOOLEAN : SaveTimer(t, s, on)
                       \/ DeleteTimer(t) \/ \E k \in Keys : RunNow(t, k)
  \/ PageReads \/ Tick \/ UserPauses \/ DeleteBegins \/ TimerRestart
  \/ \E p \in Filings : UserDeletes(p)
  \/ \E r \in BOOLEAN, k \in Threads : SessionChanges(r, k)

TimerNext == TimerSystem \/ TimerUser
TimerSpec == TimerInit /\ [][TimerNext]_timerVars

-----------------------------------------------------------------------------
\* Properties.

TimerTypes ==
  /\ \A p \in Filings : queue[p].status \in {"none", "pending", "running", "completed", "failed",
                                          "interrupted", "deleted"}
  /\ \A p \in Filings : queue[p].auto => queue[p].status = "pending"
  /\ timerFile # NoFile => \A t \in Timers : timerFile.timers[t].on => timerFile.timers[t].next # None
  /\ dueList # <<>> => checking

\* The timer never moves past an occurrence it has not queued: a timer that says it
\* queued an occurrence has all the prompts of it in the queue, or the user deleted them.
OccurrenceQueued ==
  timerFile # NoFile => \A t \in Timers :
    timerFile.timers[t].last = "queued" =>
      \A p \in Batch(t, timerFile.timers[t].lastAt) : queue[p].status # "none"

\* No prompt that has run runs again, though a crash may come between the two writes
\* (neither loss nor repetition, TIMER_COMMON_PROMPTS_IMPLEMENTATION.md:640).
RunsOnce ==
  [][\A p \in Filings : queue[p].status \notin {"none", "pending", "deleted"}
                      => queue'[p].status \notin {"none", "pending"}]_timerVars

\* A timer that is due does not stay due: the wake-ups asked for while a check runs, the
\* restart and the failed deletion of the tab all lead to the next check.
Due(t) == stage = "done" /\ ~ detaching /\ timerFile.timers[t].on /\ timerFile.timers[t].next <= clock
DueIsTriggered == \A t \in Timers : Due(t) ~> ~ Due(t)

\* The prompts filed for timers are not forgotten: each runs, or loses its flag, as long as
\* the conversation is open, across a crash before the runner heard of it.
AutoRun == session.ready /\ timerFile # NoFile /\ \E p \in Filings : queue[p].auto
AutoRunsGo == AutoRun ~> ~ AutoRun

\* The host stays up for whatever timers still have to do (updateBackgroundHold).
HoldCovers ==
  stage = "done" /\ ~ recover /\ ~ detaching /\ section = Unlocked /\ timerFile # NoFile
    => /\ Enabled(timerFile) => Enabled(copy)
       /\ Held(queue) = hold

\* No occurrence is lost between the timer and the queue, and no work between the queue and
\* the host: the timers keep their types, what a timer says it queued is in the queue, and
\* the host stays up for what is left.
OccurrencesKept == TimerTypes /\ OccurrenceQueued /\ HoldCovers
=============================================================================
