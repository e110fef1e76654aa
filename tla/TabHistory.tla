------------------------------- MODULE TabHistory -------------------------------
(***************************************************************************)
(* A tab's records while turns come and go and its history is read again    *)
(* (history.ts recordTurn, recordTurnStarted; the steps of queue.ts that    *)
(* link a prompt to a turn; the routes and switches of app.ts that sync).   *)
(* A sync reads the transcript without the tab's lock and writes under it,  *)
(* so turns begin, end and are recorded between.                            *)
(***************************************************************************)
EXTENDS HistorySync

CONSTANT HistoryLoads  \* mode of a sync, client ids, overlap, whether a text comes again; bounds: queue, types, steers, losses, switches, syncs

VARIABLES
  rec,      \* prompts, in order, and answers
  script,   \* the provider's turns, of every thread, in order
  session,  \* the thread of the tab
  reading,  \* what a sync has read, or nothing
  quota     \* what is left of the load

histVars == <<rec, script, session, reading, quota>>

NoReading == [thread |-> 0, turns |-> <<>>]
Quota(what) == quota[what] > 0 /\ quota' = [quota EXCEPT ![what] = @ - 1]
\* The transcripts of the terminal do not name the client; those of Codex' server do.
ThreadTurns(thread) == SelectSeq(script, LAMBDA t : t.thread = thread)
TurnsOf(thread) ==
  [k \in DOMAIN ThreadTurns(thread) |-> [ThreadTurns(thread)[k] EXCEPT !.client = IF quota.ids THEN @ ELSE 0]]
Runs(t) == t.status = "running"
Running == \E k \in DOMAIN script : Runs(script[k])
Free == \A k \in DOMAIN rec.prompts : ~ Open(rec.prompts[k])
\* Unless the load says so, no text comes twice within the two minutes of a recovery.
Fresh(text) == quota.again \/ text \notin {p.text : p \in ToSet(rec.prompts)} \cup {t.text : t \in ToSet(script)}
Set(i, Changed(_)) == rec' = [rec EXCEPT !.prompts = Update(@, {i}, Changed)]

-----------------------------------------------------------------------------
\* The queue and the provider.

Queues(text) ==
  /\ Fresh(text) /\ Quota("queue")
  /\ rec' = [rec EXCEPT !.prompts = Append(@, Pending(quota.queue, text))]
  /\ UNCHANGED <<script, session, reading>>
\* prepareDispatch; the client id of the attempt is the prompt's.
Sends(i) ==
  /\ Free /\ ~ Running /\ i \in IdsIn(rec.prompts) /\ PromptOf(rec.prompts, i).status = "pending"
  /\ Set(i, LAMBDA p : [p EXCEPT !.status = "dispatching", !.thread = session, !.how = "turn", !.done = "dispatching"])
  /\ UNCHANGED <<script, session, reading, quota>>
\* The provider takes it, or a text typed into the terminal.
Begins(text, client) == script' = Append(script, Turn(Len(script) + 1, session, text, client))
Takes(p) ==
  /\ ~ Running /\ p.status = "dispatching" /\ p.how = "turn" /\ \A k \in DOMAIN script : script[k].client # p.id
  /\ Begins(p.text, p.id)
  /\ UNCHANGED <<rec, session, reading, quota>>
Types(text) ==
  /\ ~ Running /\ Fresh(text) /\ Quota("types") /\ Begins(text, 0) /\ UNCHANGED <<rec, session, reading>>
\* The dispatch learns the turn and opens its answer (recordTurnStarted); commands have none.
Accepts(p) ==
  \E k \in DOMAIN script :
    LET t == script[k]
    IN  /\ p.status = "dispatching" /\ p.how = "turn" /\ t.client = p.id
        /\ rec' = [prompts |-> Update(rec.prompts, {p.id}, LAMBDA q :
                     [q EXCEPT !.status = "running", !.thread = t.thread, !.turn = t.id, !.att = t.id, !.done = "running"]),
                   answers |-> IF Slash(p.text) THEN rec.answers ELSE WithAnswer(rec.answers, t, p.id, "running")]
        /\ UNCHANGED <<script, session, reading, quota>>
\* A prompt is steered into the turn that runs.
Steers(p) ==
  /\ p.status = "pending" /\ ~ Slash(p.text) /\ Quota("steers")
  /\ \E k \in DOMAIN script :
       /\ Runs(script[k]) /\ ~ Slash(script[k].text)
       /\ Set(p.id, LAMBDA q : [q EXCEPT !.status = "running", !.thread = script[k].thread, !.turn = script[k].id,
                                         !.how = "steer", !.att = script[k].id, !.done = "running"])
  /\ UNCHANGED <<script, session, reading>>
\* An unconfirmed submission is given up: by the user (finalizeInterruptedSubmission), or at a
\* restart, where it has no turn at all.
GivesUp(p) ==
  LET over == IF Slash(p.text) THEN "completed" ELSE "interrupted"
  IN  /\ p.status = "dispatching" /\ Quota("losses")
      /\ \/ rec' = [prompts |-> Update(rec.prompts, {p.id}, LAMBDA q :
                      [q EXCEPT !.status = over, !.turn = - p.id, !.att = - p.id, !.done = over]),
                    answers |-> IF Slash(p.text) THEN rec.answers
                                ELSE rec.answers \cup {[turn |-> - p.id, thread |-> p.thread, prompt |-> p.id, status |-> over]}]
         \/ Set(p.id, LAMBDA q : [q EXCEPT !.status = over, !.done = over])
      /\ UNCHANGED <<script, session, reading>>
TurnOver(k, status) ==
  /\ Runs(script[k]) /\ script' = [script EXCEPT ![k].status = status]
  /\ UNCHANGED <<rec, session, reading, quota>>

\* recordTurn, of the turn a prompt was accepted for or of any other.
Recorded(r, t, known) ==
  LET linked == LinkedTo(r.prompts, t)
      own == FirstOf(known, Own(linked, t))
      main == FirstOf(own, 100 + t.id)
      all == IF own # 0 THEN r.prompts ELSE Append(r.prompts, Foreign(t, "manual"))
      ids == {main} \cup IdsIn(linked)
      command == \A i \in ids : Slash(PromptOf(all, i).text)
      status == IF command \/ (t.status = "completed" /\ ~ Slash(t.text)) THEN "completed" ELSE "interrupted"
  IN  [prompts |-> Update(all, ids, LAMBDA p : Settle(p, t, status)),
       answers |-> IF command THEN WithoutOpen(r.answers, t) ELSE WithAnswer(r.answers, t, main, status)]
Records(k) ==
  LET t == script[k]
      known == First(rec.prompts, LAMBDA p : p.status = "running" /\ p.how = "turn" /\ p.turn = t.id)
  IN  /\ ~ Runs(t) /\ t.thread = session
      /\ known # 0 \/ \A p \in ToSet(rec.prompts) : p.status # "dispatching"
      /\ ~ \E a \in rec.answers : a.turn = t.id /\ a.status # "running"
      /\ ~ \E p \in ToSet(rec.prompts) : p.turn = t.id /\ ~ Open(p)
      /\ rec' = Recorded(rec, t, known)
      /\ UNCHANGED <<script, session, reading, quota>>

-----------------------------------------------------------------------------
\* Syncs, and the switch of the terminal to another thread.

SyncReads ==
  /\ reading = NoReading /\ Quota("syncs")
  /\ reading' = [thread |-> session, turns |-> TurnsOf(session)]
  /\ UNCHANGED <<rec, script, session>>
\* Unless the load overlaps, nothing happens between the read and the write.
SyncWrites ==
  /\ reading # NoReading /\ (quota.overlap \/ reading.turns = TurnsOf(session))
  /\ rec' = Sync(rec, reading.thread, reading.turns, quota.mode)
  /\ reading' = NoReading /\ UNCHANGED <<script, session, quota>>
Switches ==
  /\ Quota("switches") /\ Free /\ ~ Running /\ reading = NoReading
  /\ session' = 3 - session /\ UNCHANGED <<rec, script, reading>>
-----------------------------------------------------------------------------
HistoryInit ==
  /\ rec = [prompts |-> <<>>, answers |-> {}] /\ script = <<>> /\ session = 1 /\ reading = NoReading
  /\ quota \in HistoryLoads
HistoryNext ==
  \/ \E text \in Texts : Queues(text) \/ Types(text)
  \/ \E p \in ToSet(rec.prompts) : Sends(p.id) \/ Takes(p) \/ Accepts(p) \/ Steers(p) \/ GivesUp(p)
  \/ \E k \in DOMAIN script : Records(k) \/ \E status \in {"completed", "interrupted"} : TurnOver(k, status)
  \/ SyncReads \/ SyncWrites \/ Switches

-----------------------------------------------------------------------------
\* What a sync would make of the records now.
Synced(r) == Sync(r, session, TurnsOf(session), quota.mode)
Waiting(r) == SelectSeq(r.prompts, LAMBDA p : p.status = "pending")

\* The same history read twice changes nothing the second time (docs/IMPLEMENTATION_SPEC.md:1319).
Same(r) == Synced(r) = r
SyncIsIdempotent == Same(Synced(rec))

\* A turn is shown once, whatever was lost of it: one prompt began it, the one of the queue if the
\* queue sent it and nobody else could have, and one answer completes it (recoverableSubmissionForTurn).
Shows(r) ==
  /\ Cardinality(IdsIn(r.prompts)) = Len(r.prompts)
  /\ \A t \in ToSet(TurnsOf(session)) :
       LET mine == {p \in ToSet(r.prompts) : p.turn = t.id /\ ~ SteeredInto(p, t)}
       IN  t.status = "completed" /\ ~ Slash(t.text) =>
             /\ Cardinality(mine) = 1
             /\ \A p \in mine : p.status = "completed" /\ {a \in r.answers : a.turn = t.id} = {Answer(t, p.id, "completed")}
ShownOnce == Shows(Synced(rec))

\* What waits keeps its order behind the history, and what runs keeps running with its answer.
Keeps(r) ==
  /\ Waiting(r) = Waiting(rec)
  /\ quota.mode = "authoritative" => \A k, m \in DOMAIN r.prompts :
       r.prompts[k].status = "pending" /\ m > k => r.prompts[m].status = "pending"
  /\ \A t \in ToSet(TurnsOf(session)) : \A p \in ToSet(rec.prompts) :
       Runs(t) /\ p.turn = t.id /\ p.how = "turn" /\ Open(p) =>
         p \in ToSet(r.prompts) /\ (Answer(t, p.id, "running") \in rec.answers => Answer(t, p.id, "running") \in r.answers)

\* A turn that was recorded stays recorded, its answer too (recordTurn, syncHistory).
AnswerStays ==
  \A p \in ToSet(rec.prompts) :
    p.status = "completed" /\ p.turn > 0 /\ p.thread = session /\ ~ Slash(p.text) /\ ~ Slash(script[p.turn].text) =>
      \E a \in rec.answers : a.turn = p.turn /\ a.status = "completed"

HistoryTypes ==
  /\ \A p \in ToSet(rec.prompts) : p.status \in {"pending", "dispatching", "running", "interrupted", "completed"}
  /\ \A a \in rec.answers : a.status \in {"running", "interrupted", "completed"}
\* What nothing may lose: the queue, a turn that runs, and the answer of a turn that is recorded.
NothingLost == HistoryTypes /\ AnswerStays /\ Keeps(Synced(rec))

\* A submission that a sync shows as completed did reach the provider (recoverableSubmissionForTurn).
CompletedReached ==
  \A p \in ToSet(Synced(rec).prompts) :
    p.origin = "queue" /\ p.how = "turn" /\ p.status = "completed" /\ ~ Slash(p.text) =>
      \E t \in ToSet(script) : t.client = p.id
=============================================================================
