------------------------------ MODULE ProviderTurns ------------------------------
(***************************************************************************)
(* The manager of a native agent (codex-tui.ts, claude.ts, cursor.ts, with *)
(* prompt-submit.ts, transcript-reconciliation.ts, native-thread-idle.ts): *)
(* how a prompt pasted into a terminal becomes a turn, and how its end is  *)
(* noticed.  Hooks are posted in order and may be lost; the transcript is  *)
(* written late and read by polls; an Enter may be dropped by the agent.   *)
(* The agent and its user are external.  A call c of the queue submits the *)
(* text c; a turn is named by the place of its first entry in the record.  *)
(***************************************************************************)
EXTENDS Integers, Sequences, FiniteSets, SequencesExt

CONSTANTS
  Prompts,        \* calls of the queue, 1..n
  Retries,        \* evidence-gated Enters
  ProviderLoads   \* bounds: hooks lost, Enters dropped, and what the user and the queue do

VARIABLES
  provider, agent,
  record, written,     \* the transcript, and how much of it is on disk
  hooks, held,         \* posted; and the SessionStart whose files are being read
  mgr,                 \* the manager, with the calls of the queue
  look, pause,         \* evidence read, and not yet acted upon
  spare                \* what is left of the load

turnVars == <<provider, agent, record, written, hooks, held, mgr, look, pause, spare>>

Manual == 100
Mixed == 101           \* typed around a prompt left in the composer
ASSUME PromptsAssumption == Prompts \subseteq Nat \ {0, Manual, Mixed} /\ Retries \in Nat
ASSUME ProviderAssumption ==
  ProviderLoads \subseteq
    [provider : {"codex", "claude", "cursor"}, looks : BOOLEAN, lag : BOOLEAN, thread : 0..2, calls : Nat, hooks : Nat,
     enters : Nat, users : Nat, switches : Nat, stops : Nat, steers : Nat, pauses : Nat, exits : Nat]

NoLook == [call |-> 0, kind |-> "none", state |-> "none", turn |-> 0]
NoCursor == [thread |-> 0, at |-> 0]
NoHeld == [thread |-> 0, gen |-> 0]
IdleCall == [pc |-> "idle", kind |-> "turn", logical |-> 0, ticket |-> 0, from |-> NoCursor, att |-> 0,
             turn |-> 0, tries |-> 0, timed |-> FALSE]
Spends(what) == spare[what] > 0 /\ spare' = [spare EXCEPT ![what] = @ - 1]

-----------------------------------------------------------------------------
\* The transcript, as polls read it.

SubmissionCursor(m, c) ==
  IF m.calls[c].from.thread # 0 THEN m.calls[c].from ELSE [thread |-> m.attached, at |-> 0]
Increment(cursor) == {i \in cursor.at + 1 .. written : record[i].thread = cursor.thread}
EntryId(i) == IF provider = "codex" THEN record[i].turn ELSE i

\* inspect*Submission.  Codex takes any growth it cannot read for no evidence, the others a
\* record with no prompt in it for proof that nothing was submitted.
Evidence(m, c) ==
  LET cursor == SubmissionCursor(m, c)
      news == Increment(cursor)
      users == {i \in news : record[i].what = "user"}
      hits == {i \in users : record[i].text = c}
  IN  IF cursor.thread # 0 /\ hits # {} THEN [state |-> "accepted", turn |-> EntryId(CHOOSE i \in hits : TRUE)]
      ELSE IF cursor.thread # 0 /\ (IF provider = "codex" THEN news ELSE users) = {}
           THEN [state |-> "not-submitted", turn |-> 0]
           ELSE [state |-> "unknown", turn |-> 0]

\* What a look found, and for which call.
LookedAt(m, c, kind) == LET e == Evidence(m, c) IN [call |-> c, kind |-> kind, state |-> e.state, turn |-> e.turn]

\* reconcile*Turn.  Claude's reader stops at the next prompt after the turn's own.
ReadToEnd(t) ==
  LET news == Increment(t.from)
      exact == {i \in news : record[i].what = "user" /\ EntryId(i) = t.id}
      mine == IF exact # {} THEN exact ELSE {i \in news : record[i].what = "user" /\ record[i].text = t.text}
  IN  CASE provider = "codex" -> \E i \in news, j \in mine : record[i].what = "end" /\ record[i].turn = record[j].turn
        [] provider = "cursor" -> \E i \in news : record[i].what = "end" /\ record[i].turn = t.id
        [] OTHER -> \E j \in mine : /\ \A k \in mine : j <= k
                                    /\ \E i \in news : /\ i > j /\ record[i].what = "end"
                                                       /\ \A k \in news : k \in j + 1 .. i - 1 => record[k].what # "user"

-----------------------------------------------------------------------------
\* The manager.

\* What a settled call keeps.
Settled(call, pc) == [IdleCall EXCEPT !.pc = pc, !.from = call.from, !.kind = call.kind, !.turn = call.logical]
Reject(m) == IF m.sub = 0 THEN m ELSE [m EXCEPT !.sub = 0, !.calls[m.sub] = Settled(@, "failed")]
Steers(m, ids) == m.sub # 0 /\ m.calls[m.sub].kind = "steer" /\ m.calls[m.sub].logical \in ids

\* completeTurn.  Only Codex rejects a steering prompt with the turn it steers.
Completed(m, ended) ==
  LET ts == ended \cap m.turns
      n == [m EXCEPT !.turns = @ \ ts, !.done = @ \cup {t.id : t \in ts},
                     !.cursor = IF ts = {} \/ m.attached = 0 THEN @ ELSE [thread |-> m.attached, at |-> written]]
  IN  IF provider = "codex" /\ Steers(m, {t.id : t \in ts}) THEN Reject(n) ELSE n

Created(m, thread, id, text, from) ==
  [m EXCEPT !.turns = @ \cup {[id |-> id, thread |-> thread, text |-> text, from |-> from]}]

\* The slot is given up and its call answered: with the turn it steers, the turn under way, or its own.
Confirm(m, thread, id) ==
  LET c == m.sub
      active == {t \in m.turns : t.thread = thread}
      turn == IF active # {} THEN (CHOOSE t \in active : TRUE).id ELSE id
      n == [m EXCEPT !.sub = 0]
  IN  IF m.calls[c].kind = "steer" THEN [n EXCEPT !.calls[c] = Settled(@, "steered")]
      ELSE LET r == [n EXCEPT !.calls[c] = [Settled(@, "running") EXCEPT !.turn = turn]]
           IN  IF active # {} THEN r ELSE Created(r, thread, id, c, SubmissionCursor(m, c))

\* acceptRecoveredSubmission; Codex completes at once a turn whose end has been read.
Recover(m, c, id) ==
  IF m.sub # c THEN m
  ELSE LET n == Confirm(m, m.attached, id)
       IN  Completed(n, {t \in n.turns \ m.turns : provider = "codex" /\ ReadToEnd(t)})

\* acceptPrompt: a hook claims the slot by its text only; the mutant, by arriving.
AcceptByArrival(m, thread, id, text) ==
  IF m.sub # 0 THEN Confirm(m, thread, id)
  ELSE IF \E t \in m.turns : t.thread = thread THEN m
  ELSE Created(m, thread, id, text, m.cursor)
AcceptPrompt(m, thread, id, text) ==
  IF m.sub # 0 /\ m.sub = text THEN Confirm(m, thread, id)
  ELSE IF \E t \in m.turns : t.thread = thread THEN m
  ELSE Created(m, thread, id, text, m.cursor)

\* settleSteerAtTurnEnd, of Codex, before a turn completes.
SteerSettled(m, t) ==
  IF provider # "codex" \/ ~ Steers(m, {t.id}) THEN m
  ELSE LET e == Evidence(m, m.sub) IN IF e.state = "accepted" THEN Recover(m, m.sub, e.turn) ELSE Reject(m)
FinishTurn(m, t) == Completed(SteerSettled(m, t), {t})

\* observeTerminalExit and reset; the mutant leaves what is being read of the old process valid.
ExitKeepsGeneration(m) == [Completed(Reject(m), m.turns) EXCEPT !.attached = 0, !.failed = TRUE]
Exited(m) == [Completed(Reject(m), m.turns) EXCEPT !.attached = 0, !.failed = TRUE, !.gen = @ + 1]
Reset(m) == [Completed(Reject(m), m.turns) EXCEPT !.attached = 0, !.failed = FALSE, !.gen = @ + 1,
             !.ticket = @ + 1, !.inflight = FALSE, !.cursor = NoCursor]

\* The await of a SessionStart is over: Codex attaches now, unless its process has gone.
Attach(m, thread, cursor) ==
  LET n == IF m.attached \in {0, thread} THEN m ELSE Completed(Reject(m), m.turns)
  IN  [n EXCEPT !.attached = thread, !.cursor = cursor]

-----------------------------------------------------------------------------
\* The agent and its user: external.

\* A text is entered: it starts a turn, or steers the one under way.
Entered(a, text) ==
  LET place == Len(record) + 1
      turn == IF a.busy = 0 THEN place ELSE a.busy
      thread == IF a.thread = 0 THEN 1 ELSE a.thread
      post == [what |-> "submit", thread |-> thread, turn |-> IF provider = "codex" THEN turn ELSE place, text |-> text]
  IN  /\ record' = Append(record, [what |-> "user", turn |-> turn, text |-> text, thread |-> thread])
      /\ hooks' = hooks \o (IF a.thread = 0 THEN <<[post EXCEPT !.what = "start"]>> ELSE <<>>) \o <<post>>
      /\ agent' = [a EXCEPT !.busy = turn, !.thread = thread, !.box = 0]
\* Escape.  Codex records the abort, Cursor posts a stop, Claude does neither.
Stopped(a) ==
  /\ agent' = [a EXCEPT !.busy = 0]
  /\ record' = IF a.busy # 0 /\ provider # "claude"
               THEN Append(record, [what |-> "end", turn |-> a.busy, text |-> 0, thread |-> a.thread]) ELSE record
  /\ hooks' = IF a.busy # 0 /\ provider = "cursor"
              THEN Append(hooks, [what |-> "stop", thread |-> a.thread, turn |-> a.busy, text |-> 0]) ELSE hooks

UserSubmits ==
  /\ agent.up /\ Spends("users")
  /\ Entered(agent, IF agent.box = 0 THEN Manual ELSE Mixed)
  /\ UNCHANGED <<provider, written, held, mgr, look, pause>>
\* /clear, or a conversation chosen in the terminal.
UserSwitches ==
  /\ agent.up /\ agent.busy = 0 /\ agent.thread = 1 /\ Spends("switches")
  /\ agent' = [agent EXCEPT !.thread = 2]
  /\ hooks' = Append(hooks, [what |-> "start", thread |-> 2, turn |-> 0, text |-> 0])
  /\ UNCHANGED <<provider, record, written, held, mgr, look, pause>>
TurnEnds ==
  /\ agent.up /\ agent.busy # 0
  /\ record' = Append(record, [what |-> "end", turn |-> agent.busy, text |-> 0, thread |-> agent.thread])
  /\ hooks' = Append(hooks, [what |-> "stop", thread |-> agent.thread, turn |-> agent.busy, text |-> 0])
  /\ agent' = [agent EXCEPT !.busy = 0]
  /\ UNCHANGED <<provider, written, held, mgr, look, pause, spare>>
Flush ==
  /\ written < Len(record) /\ written' = Len(record)
  /\ UNCHANGED <<provider, agent, record, hooks, held, mgr, look, pause, spare>>
HookLost ==
  /\ hooks # <<>> /\ Head(hooks).what # "start" /\ Spends("hooks")
  /\ hooks' = Tail(hooks)
  /\ UNCHANGED <<provider, agent, record, written, held, mgr, look, pause>>

-----------------------------------------------------------------------------
\* Terminal keys: an Enter on its way lands, or is dropped before the paste is in the composer.

EnterLands ==
  /\ agent.enters > 0
  /\ LET a == [agent EXCEPT !.enters = @ - 1] IN
     \/ /\ a.up /\ a.box # 0 /\ Entered(a, a.box)
        /\ UNCHANGED <<provider, written, held, mgr, look, pause, spare>>
     \/ /\ \/ (~ a.up \/ a.box = 0) /\ UNCHANGED spare
           \/ a.up /\ a.box # 0 /\ Spends("enters")
        /\ agent' = a
        /\ UNCHANGED <<provider, record, written, hooks, held, mgr, look, pause>>
\* observeTerminalInput of an Escape typed by the user.
UserStops ==
  /\ agent.up /\ Spends("stops")
  /\ Stopped(agent)
  /\ mgr' = Completed(mgr, mgr.turns)
  /\ UNCHANGED <<provider, written, held, look, pause>>

-----------------------------------------------------------------------------
\* Hooks.

\* Codex reads the metadata of a SessionStart before it acts, and takes its hooks one at a time;
\* the others attach, and then read where the record ends.  A submit or stop of another thread,
\* or of an exited Codex, is ignored.
HookArrives ==
  /\ hooks # <<>>
  /\ hooks' = Tail(hooks)
  /\ LET h == Head(hooks)
         strange == mgr.attached \notin {0, h.thread} \/ (provider = "codex" /\ mgr.failed)
         ended == LET same == {t \in mgr.turns : t.id = h.turn} IN
                  IF same # {} THEN same ELSE {t \in mgr.turns : t.thread = h.thread}
     IN  /\ provider = "codex" => held = NoHeld
         /\ IF h.what = "start"
            THEN /\ held' = IF provider = "codex" /\ mgr.failed THEN held ELSE [thread |-> h.thread, gen |-> mgr.gen]
                 /\ mgr' = IF provider = "codex" THEN mgr ELSE Attach(mgr, h.thread, mgr.cursor)
            ELSE /\ mgr' = CASE strange -> mgr
                             [] ~ strange /\ h.what = "submit" -> AcceptPrompt(mgr, h.thread, h.turn, h.text)
                             [] OTHER -> IF ended = {} THEN mgr ELSE FinishTurn(mgr, CHOOSE t \in ended : TRUE)
                 /\ UNCHANGED held
  /\ UNCHANGED <<provider, agent, record, written, look, pause, spare>>
HeldEnds ==
  LET cursor == [thread |-> held.thread, at |-> written] IN
  /\ held # NoHeld /\ held' = NoHeld
  /\ mgr' = CASE provider # "codex" -> [mgr EXCEPT !.cursor = cursor]
              [] provider = "codex" /\ held.gen = mgr.gen -> Attach(mgr, held.thread, cursor)
              [] OTHER -> mgr
  /\ UNCHANGED <<provider, agent, record, written, hooks, look, pause, spare>>

-----------------------------------------------------------------------------
\* What the queue asks for.

\* Codex also waits for what is being submitted.
Busy(m) == m.turns # {} \/ (provider = "codex" /\ (m.sub # 0 \/ m.inflight))
Asks(c) ==
  /\ mgr.calls[c].pc = "idle" /\ Spends("calls")
  /\ mgr' = [mgr EXCEPT !.calls[c].pc = "asking"]
  /\ UNCHANGED <<provider, agent, record, written, hooks, held, look, pause>>
IdleSeen(c) ==
  /\ mgr.calls[c].pc = "asking" /\ ~ Busy(mgr)
  /\ mgr' = [mgr EXCEPT !.calls[c].pc = "ready"]
  /\ UNCHANGED <<provider, agent, record, written, hooks, held, look, pause, spare>>

\* reserveSubmission, up to its await.
Reserve(m, c, kind, logical) ==
  IF m.sub # 0 \/ m.inflight THEN [m EXCEPT !.calls[c].pc = "failed"]
  ELSE [m EXCEPT !.ticket = @ + 1, !.inflight = TRUE,
                 !.calls[c] = [IdleCall EXCEPT !.pc = "reserving", !.kind = kind, !.logical = logical,
                    !.ticket = m.ticket + 1, !.att = m.attached,
                    !.from = IF m.attached = 0 THEN NoCursor ELSE [thread |-> m.attached, at |-> written]]]
\* startTurn; and startInitialTurn of a Codex that has no thread yet.
StartTurn(c) ==
  /\ mgr.calls[c].pc = "ready"
  /\ mgr' = IF mgr.turns # {} \/ (mgr.attached = 0 /\ (provider # "codex" \/ mgr.failed))
            THEN [mgr EXCEPT !.calls[c].pc = "failed"] ELSE Reserve(mgr, c, "turn", 0)
  /\ UNCHANGED <<provider, agent, record, written, hooks, held, look, pause, spare>>
SteerTurn(c) ==
  /\ mgr.calls[c].pc = "idle" /\ mgr.attached # 0 /\ Spends("steers")
  /\ \E t \in mgr.turns : mgr' = Reserve(mgr, c, "steer", t.id)
  /\ UNCHANGED <<provider, agent, record, written, hooks, held, look, pause>>

\* The record has been read: the slot is taken and the text pasted, unless the reservation was
\* given up or the session changed; the mutant does not look at the former.
ReservedAnyway(m, c) == m.attached = m.calls[c].att
Reserved(m, c) == m.ticket = m.calls[c].ticket /\ m.attached = m.calls[c].att
ReserveEnds(c) ==
  /\ mgr.calls[c].pc = "reserving"
  /\ LET n == IF mgr.ticket = mgr.calls[c].ticket THEN [mgr EXCEPT !.inflight = FALSE] ELSE mgr IN
     IF Reserved(mgr, c) /\ agent.up
     THEN /\ mgr' = [n EXCEPT !.sub = c, !.calls[c].pc = "submitted"]
          /\ agent' = [agent EXCEPT !.box = IF @ = 0 THEN c ELSE Mixed, !.enters = @ + 1]
     ELSE /\ mgr' = [n EXCEPT !.calls[c].pc = IF mgr.ticket = mgr.calls[c].ticket THEN "failed" ELSE "cancelled"]
          /\ UNCHANGED agent
  /\ UNCHANGED <<provider, record, written, hooks, held, look, pause, spare>>

\* interruptPendingSubmission: a reservation is given up at once, a submission after a look.
PauseReservation ==
  /\ mgr.sub = 0 /\ mgr.inflight /\ Spends("pauses")
  /\ mgr' = [mgr EXCEPT !.ticket = @ + 1, !.inflight = FALSE]
  /\ UNCHANGED <<provider, agent, record, written, hooks, held, look, pause>>
PauseBegins ==
  /\ mgr.sub # 0 /\ (provider = "codex" \/ mgr.attached # 0) /\ pause = NoLook /\ Spends("pauses")
  /\ pause' = LookedAt(mgr, mgr.sub, "pause")
  /\ UNCHANGED <<provider, agent, record, written, hooks, held, mgr, look>>
PauseEnds ==
  LET c == pause.call
      taken == Recover(mgr, c, pause.turn)
      id == IF mgr.calls[c].kind = "steer" THEN mgr.calls[c].logical ELSE pause.turn
      mine == {t \in taken.turns : t.id = id}
  IN  /\ pause # NoLook /\ pause' = NoLook
      /\ IF pause.state = "accepted"
         THEN /\ mgr' = IF taken.attached = 0 THEN taken ELSE Completed(taken, mine)
              /\ IF taken.attached # 0 /\ mine # {} THEN Stopped(agent) ELSE UNCHANGED <<agent, record, hooks>>
         ELSE /\ mgr' = IF mgr.sub = c THEN Reject(mgr) ELSE mgr
              /\ Stopped(agent)
      /\ UNCHANGED <<provider, written, held, look, spare>>

-----------------------------------------------------------------------------
\* Recovery of a submission: Enter twice, the deadline, then a look every five seconds.

\* The mutant has no interval.
LookOnce(call) == IF call.timed THEN "none" ELSE IF call.tries < Retries THEN "retry" ELSE "timeout"
LookKind(call) == IF call.timed THEN "reconcile" ELSE IF call.tries < Retries THEN "retry" ELSE "timeout"
LookBegins ==
  LET c == mgr.sub IN
  /\ c # 0 /\ look = NoLook /\ spare.looks /\ LookKind(mgr.calls[c]) # "none"
  /\ look' = LookedAt(mgr, c, LookKind(mgr.calls[c]))
  /\ mgr' = [mgr EXCEPT !.calls[c].tries = IF LookKind(mgr.calls[c]) = "retry" THEN @ + 1 ELSE @]
  /\ UNCHANGED <<provider, agent, record, written, hooks, held, pause, spare>>
\* A retry sends its Enter although the submission may have been settled since it looked.
LookEnds ==
  LET c == look.call
      mine == mgr.sub = c
  IN  /\ look # NoLook /\ look' = NoLook
      /\ mgr' = CASE mine /\ look.state = "accepted" -> Recover(mgr, c, look.turn)
                  [] mine /\ look.kind = "timeout" /\ look.state # "accepted" ->
                       IF provider = "codex" /\ mgr.attached = 0 THEN Reject(mgr)
                       ELSE [mgr EXCEPT !.calls[c].timed = TRUE]
                  [] OTHER -> mgr
      /\ agent' = IF look.kind = "retry" /\ look.state = "not-submitted" /\ agent.up
                  THEN [agent EXCEPT !.enters = @ + 1] ELSE agent
      /\ UNCHANGED <<provider, record, written, hooks, held, pause, spare>>

\* waitForTurn and waitForThreadIdle read the record for the end of a turn; the mutant only hears.
AwaitedNot(t) == FALSE
Awaited(t) == \E c \in Prompts : \/ mgr.calls[c].pc = "running" /\ mgr.calls[c].turn = t.id
                                 \/ mgr.calls[c].pc = "asking"
Poll ==
  /\ \E t \in mgr.turns : Awaited(t) /\ ReadToEnd(t) /\ mgr' = FinishTurn(mgr, t)
  /\ UNCHANGED <<provider, agent, record, written, hooks, held, look, pause, spare>>

-----------------------------------------------------------------------------
\* The process exits, and is started again.  What an exited Codex still posts arrives.

Exits ==
  /\ agent.up /\ Spends("exits") /\ (provider # "codex" => hooks = <<>> /\ held = NoHeld)
  /\ agent' = [agent EXCEPT !.up = FALSE, !.busy = 0, !.box = 0, !.enters = 0]
  /\ mgr' = Exited(mgr)
  /\ UNCHANGED <<provider, record, written, hooks, held, look, pause>>
Relaunch ==
  /\ ~ agent.up /\ agent.thread # 0
  /\ agent' = [agent EXCEPT !.up = TRUE]
  /\ mgr' = IF provider = "codex" THEN Attach(Reset(mgr), agent.thread, [thread |-> agent.thread, at |-> written])
            ELSE Reset(mgr)
  /\ hooks' = IF provider = "codex" THEN hooks
              ELSE Append(hooks, [what |-> "start", thread |-> agent.thread, turn |-> 0, text |-> 0])
  /\ UNCHANGED <<provider, record, written, held, look, pause, spare>>

-----------------------------------------------------------------------------
TurnInit ==
  /\ spare \in ProviderLoads
  /\ provider = spare.provider
  /\ agent = [up |-> TRUE, thread |-> spare.thread, busy |-> 0, box |-> 0, enters |-> 0]
  /\ record = <<>> /\ written = 0 /\ hooks = <<>> /\ held = NoHeld
  /\ mgr = [attached |-> spare.thread, sub |-> 0, ticket |-> 0, inflight |-> FALSE, failed |-> FALSE, gen |-> 0,
            cursor |-> [thread |-> spare.thread, at |-> 0], turns |-> {}, done |-> {},
            calls |-> [c \in Prompts |-> IdleCall]]
  /\ look = NoLook /\ pause = NoLook

TurnNext ==
  \/ Flush
  \/ /\ spare.lag \/ written = Len(record)
     /\ \/ UserSubmits \/ UserSwitches \/ UserStops \/ TurnEnds \/ HookLost \/ EnterLands
        \/ HookArrives \/ HeldEnds \/ PauseReservation \/ PauseBegins \/ PauseEnds \/ LookBegins \/ LookEnds
        \/ Poll \/ Exits \/ Relaunch
        \/ \E c \in Prompts : Asks(c) \/ IdleSeen(c) \/ StartTurn(c) \/ SteerTurn(c) \/ ReserveEnds(c)

TurnSpec == TurnInit /\ [][TurnNext]_turnVars

\* Timers run and files are written; the agent, its user and the queue owe nothing.
TurnFairness ==
  /\ WF_turnVars(Flush) /\ WF_turnVars(HookArrives) /\ WF_turnVars(HeldEnds)
  /\ WF_turnVars(LookBegins) /\ WF_turnVars(LookEnds) /\ WF_turnVars(Poll)

-----------------------------------------------------------------------------
EnteredAfter(c) == \E i \in 1..Len(record) : record[i].what = "user" /\ record[i].text = c /\ i > mgr.calls[c].from.at

\* The slot belongs to one call, the only one that has submitted and is not answered.
SlotIsOwned == \A c \in Prompts : mgr.calls[c].pc = "submitted" <=> mgr.sub = c

\* A call is told that its prompt was taken only when the agent has taken it, and since it was
\* submitted (acceptPrompt, inspect*Submission).
AcknowledgedWasTaken ==
  \A c \in Prompts : mgr.calls[c].pc \in {"running", "steered"} => EnteredAfter(c)

\* A prompt cancelled while its place in the record was being read is never typed
\* (interruptPendingSubmission against the await of reserveSubmission).
CancelledNeverTyped ==
  \A c \in Prompts : mgr.calls[c].pc = "cancelled" =>
    agent.box # c /\ \A i \in 1..Len(record) : record[i].text # c

\* The manager is attached to nothing once its process has exited, and runs no turn of a thread
\* it is not attached to (applyHook and its generation, observeTerminalExit).
TurnsAreCurrent ==
  /\ mgr.attached # 0 => agent.up
  /\ \A t \in mgr.turns : mgr.attached \in {0, t.thread}

\* What the agent took is acknowledged although its hook is lost (scheduleSubmitRecovery).
TakenIsAcknowledged ==
  \A c \in Prompts : (mgr.calls[c].pc = "submitted" /\ EnteredAfter(c)) ~> mgr.calls[c].pc # "submitted"

\* A turn of the queue that has ended is finished although its Stop is lost (waitForTurn).
EndIsNoticed ==
  \A c \in Prompts :
    (/\ mgr.calls[c].pc = "running"
     /\ \E i \in 1..Len(record) : record[i].what = "end" /\ record[i].turn = mgr.calls[c].turn)
    ~> mgr.calls[c].turn \in mgr.done

TurnTypes ==
  /\ provider \in {"codex", "claude", "cursor"}
  /\ written \in 0..Len(record) /\ agent.thread \in 0..2 /\ agent.busy \in 0..Len(record)
  /\ mgr.attached \in 0..2 /\ mgr.sub \in Prompts \cup {0}
  /\ \A t \in mgr.turns : t.id \in 1..Len(record) /\ t.thread \in 1..2
  /\ look.state \in {"none", "accepted", "not-submitted", "unknown"}

\* What a prompt's submission says is true: one at a time owns the terminal, an acknowledged one was
\* taken by the agent and a cancelled one never typed, and the turns a manager knows are those of the
\* process it runs (prompt-submit.ts, the managers of the providers).
SubmissionsAreTrue == TurnTypes /\ SlotIsOwned /\ AcknowledgedWasTaken /\ CancelledNeverTyped /\ TurnsAreCurrent
=============================================================================
