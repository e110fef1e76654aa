------------------------------- MODULE TurnProofs -------------------------------
(***************************************************************************)
(* Proofs about the managers of the native agents, for every number of     *)
(* prompts and every load.  TurnsInv is inductive: besides the types, what *)
(* holds of the manager alone (MgrHolds: the slot, the newest reservation, *)
(* the turns, the answers), what ties it to the record (RecordHolds), to   *)
(* the hooks on their way (HooksHold), to what was read and not yet acted  *)
(* upon (LooksHold) and to the process (ProcessHolds, StartsFirst).  The   *)
(* lemmas on the manager's operators come first, then one lemma per step.  *)
(***************************************************************************)
EXTENDS ProviderTurns, SequenceTheorems, TLAPS

-----------------------------------------------------------------------------
(* The inductive invariant. *)

TurnLoad ==
  [provider : {"codex", "claude", "cursor"}, looks : BOOLEAN, lag : BOOLEAN, thread : 0..2, calls : Nat, hooks : Nat,
   enters : Nat, users : Nat, switches : Nat, stops : Nat, steers : Nat, pauses : Nat, exits : Nat]
TextT == Prompts \cup {0, Manual, Mixed}
CallPlaces == {"idle", "asking", "ready", "reserving", "submitted", "running", "steered", "failed", "cancelled"}
Early == {"idle", "asking", "ready", "reserving", "cancelled"}
CursorT == [thread : 0..2, at : Nat]
CallT == [pc : CallPlaces, kind : {"turn", "steer"}, logical : Nat, ticket : Nat, from : CursorT, att : 0..2,
          turn : Nat, tries : Nat, timed : BOOLEAN]
TurnT == [id : Nat, thread : 0..2, text : TextT, from : CursorT]
MgrT == [attached : 0..2, sub : Prompts \cup {0}, ticket : Nat, inflight : BOOLEAN, failed : BOOLEAN, gen : Nat,
         cursor : CursorT, turns : SUBSET TurnT, done : SUBSET Nat, calls : [Prompts -> CallT]]
EntryT == [what : {"user", "end"}, turn : Nat, text : TextT, thread : 1..2]
HookT == [what : {"start", "submit", "stop"}, thread : 1..2, turn : Nat, text : TextT]
AgentT == [up : BOOLEAN, thread : 0..2, busy : Nat, box : TextT, enters : Nat]
LookT == [call : Prompts \cup {0}, kind : {"none", "pause", "retry", "timeout", "reconcile"},
          state : {"none", "accepted", "not-submitted", "unknown"}, turn : Nat]

TurnTyped ==
  /\ provider \in {"codex", "claude", "cursor"} /\ spare \in TurnLoad
  /\ agent \in AgentT /\ record \in Seq(EntryT) /\ written \in Nat /\ hooks \in Seq(HookT)
  /\ held \in [thread : 0..2, gen : Nat] /\ mgr \in MgrT /\ look \in LookT /\ pause \in LookT

\* The prompts the agent has taken.
Taken == {c \in Prompts : \E i \in 1..Len(record) : record[i].text = c /\ record[i].what = "user"}

\* What holds of a manager, when the prompts of T have been taken and the record has n entries.
SlotHolds(m) ==
  /\ \A c \in Prompts : m.calls[c].pc = "submitted" <=> m.sub = c
  /\ \A c \in Prompts : m.sub = c => m.calls[c].from.thread \in {0, m.attached}
TicketHolds(m, c) ==
  /\ m.calls[c].from.thread = m.calls[c].att
  /\ m.calls[c].ticket <= m.ticket
  /\ m.calls[c].ticket = m.ticket =>
       /\ m.inflight /\ m.sub = 0
       /\ \A d \in Prompts : m.calls[d].pc = "reserving" /\ m.calls[d].ticket = m.ticket => d = c
TicketsHold(m) == \A c \in Prompts : m.calls[c].pc = "reserving" => TicketHolds(m, c)
TurnsHold(m, n) == \A t \in m.turns : t.thread = m.attached /\ t.id \in 1..n /\ t.thread \in 1..2
AnswersHold(m, T) == \A c \in Prompts : m.calls[c].pc \in {"running", "steered"} => c \in T
MgrHolds(m, T, n) == m \in MgrT /\ SlotHolds(m) /\ TicketsHold(m) /\ TurnsHold(m, n) /\ AnswersHold(m, T)

\* What ties the manager to the record: nothing is read beyond it; a prompt that is not in the slot yet has
\* not been typed; and a prompt is typed after the place its call reads from.
RecordOk ==
  \A i \in 1..Len(record) : record[i].turn \in 1..Len(record) /\ (record[i].what = "end" => record[i].text = 0)
Untyped == \A c \in Prompts : mgr.calls[c].pc \in Early => c \notin Taken /\ agent.box # c
SinceHolds ==
  \A c \in Prompts : /\ mgr.calls[c].from.at <= Len(record)
                     /\ \A i \in 1..Len(record) : record[i].text = c => i > mgr.calls[c].from.at
RecordHolds == written <= Len(record) /\ RecordOk /\ Untyped /\ SinceHolds

\* A hook on its way names a turn of the record and a prompt that was taken; a look that found a prompt found it.
HookOk(h, T, n) ==
  /\ h.what # "start" => h.turn \in 1..n
  /\ h.what = "submit" /\ h.text \in Prompts => h.text \in T
HooksFit(hs, T, n) == hs \in Seq(HookT) /\ \A i \in 1..Len(hs) : HookOk(hs[i], T, n)
LookOk(l, m, T, n) ==
  l # NoLook => /\ l.call \in Prompts
                /\ l.state = "accepted" => /\ l.call \in T /\ l.turn \in 1..n
                                           /\ m.sub = l.call => m.attached # 0
HooksHold == HooksFit(hooks, Taken, Len(record))

\* A session that is not attached has posted nothing yet, or its SessionStart first.
StartsFirst ==
  mgr.attached = 0 /\ agent.up =>
    \/ hooks = <<>> /\ agent.thread = 0
    \/ hooks # <<>> /\ Head(hooks).what = "start"
    \/ provider = "codex" /\ held # NoHeld /\ held.gen = mgr.gen
\* What the manager keeps of its process, and a SessionStart that was read of an earlier one.
ProcessHolds ==
  /\ agent.busy \in 0..Len(record) /\ (agent.busy # 0 => agent.thread # 0)
  /\ mgr.failed = ~ agent.up
  /\ ~ agent.up => mgr.attached = 0 /\ agent.busy = 0 /\ agent.box = 0
  /\ ~ agent.up /\ provider # "codex" => hooks = <<>> /\ held = NoHeld
  /\ held # NoHeld => held.thread # 0 /\ held.gen <= mgr.gen
  /\ held # NoHeld /\ ~ agent.up => held.gen < mgr.gen

LooksHold == LookOk(look, mgr, Taken, Len(record)) /\ LookOk(pause, mgr, Taken, Len(record))
RestHolds == RecordHolds /\ HooksHold /\ LooksHold /\ ProcessHolds /\ StartsFirst
TurnsInv == TurnTyped /\ MgrHolds(mgr, Taken, Len(record)) /\ RestHolds

-----------------------------------------------------------------------------
(* What the manager's own operators keep. *)

\* From m to n only calls of the slot are answered; and nothing is attached.
CallsKept(m, n) ==
  \A c \in Prompts : /\ n.calls[c].from = m.calls[c].from
                     /\ n.calls[c].pc \in Early => m.calls[c].pc \in Early
Settles(m, n) ==
  /\ n.sub \in {0, m.sub} /\ n.attached = m.attached /\ n.failed = m.failed /\ n.gen = m.gen /\ CallsKept(m, n)

LEMMA PromptsNat == Prompts \subseteq Nat /\ 0 \notin Prompts /\ Manual \notin Prompts /\ Mixed \notin Prompts
                    /\ TextT \subseteq Nat
BY PromptsAssumption DEF TextT, Manual, Mixed

\* Prompts that have been taken stay so.
LEMMA MgrMonotone ==
    ASSUME NEW m, NEW T, NEW n \in Nat, NEW T2, NEW n2 \in Nat, MgrHolds(m, T, n), T \subseteq T2, n <= n2
    PROVE  MgrHolds(m, T2, n2)
<1>1. TurnsHold(m, n2)
  BY DEF MgrHolds, TurnsHold
<1>2. AnswersHold(m, T2)
  BY DEF MgrHolds, AnswersHold
<1> QED  BY <1>1, <1>2 DEF MgrHolds

LEMMA SettledTyped ==
    ASSUME NEW call \in CallT, NEW pc \in {"failed", "running", "steered"}
    PROVE  /\ Settled(call, pc) \in CallT /\ Settled(call, pc).pc = pc /\ Settled(call, pc).from = call.from
           /\ \A t \in Nat : /\ [Settled(call, pc) EXCEPT !.turn = t] \in CallT
                             /\ [Settled(call, pc) EXCEPT !.turn = t].pc = pc
                             /\ [Settled(call, pc) EXCEPT !.turn = t].from = call.from
<1>1. call \in CallT /\ call.from \in CursorT /\ call.kind \in {"turn", "steer"} /\ call.logical \in Nat
      /\ pc \in CallPlaces
  BY DEF CallT, CallPlaces
<1>0. IdleCall \in CallT
  BY DEF IdleCall, NoCursor, CursorT, CallT, CallPlaces
<1> DEFINE idle == IdleCall
           r == [idle EXCEPT !.pc = pc, !.from = call.from, !.kind = call.kind, !.turn = call.logical]
<1>2. idle \in CallT /\ Settled(call, pc) = r
  BY <1>0 DEF Settled
<1> HIDE DEF idle
<1>3. r \in CallT /\ r.pc = pc /\ r.from = call.from
  BY <1>1, <1>2 DEF CallT
<1> HIDE DEF r
<1>4. ASSUME NEW t \in Nat PROVE /\ [r EXCEPT !.turn = t] \in CallT
                                 /\ [r EXCEPT !.turn = t].pc = pc /\ [r EXCEPT !.turn = t].from = call.from
  BY <1>3 DEF CallT
<1> QED  BY <1>2, <1>3, <1>4

\* From m to r the call of the slot has become call; or some of the turns have ended.
Answered(m, r, call) ==
  /\ m.sub # 0 /\ r \in MgrT /\ r.sub = 0 /\ r.turns = m.turns /\ r.attached = m.attached /\ r.failed = m.failed
  /\ r.gen = m.gen /\ r.ticket = m.ticket /\ r.inflight = m.inflight /\ r.cursor = m.cursor
  /\ \A c \in Prompts : r.calls[c] = IF c = m.sub THEN call ELSE m.calls[c]
Fewer(m, r, ts) ==
  /\ r \in MgrT /\ r.sub = m.sub /\ r.turns = m.turns \ ts /\ r.attached = m.attached /\ r.failed = m.failed
  /\ r.gen = m.gen /\ r.ticket = m.ticket /\ r.inflight = m.inflight /\ r.calls = m.calls

LEMMA AnsweredIs ==
    ASSUME NEW m \in MgrT, m.sub # 0, NEW call \in CallT
    PROVE  Answered(m, [m EXCEPT !.sub = 0, !.calls[m.sub] = call], call)
<1> DEFINE r == [m EXCEPT !.sub = 0, !.calls[m.sub] = call]
<1>0. m.sub \in Prompts /\ m.calls \in [Prompts -> CallT]
  BY DEF MgrT
<1>1. /\ r \in MgrT /\ r.sub = 0 /\ r.turns = m.turns /\ r.attached = m.attached /\ r.failed = m.failed
         /\ r.gen = m.gen
      /\ r.ticket = m.ticket /\ r.inflight = m.inflight /\ r.cursor = m.cursor
      /\ r.calls = [m.calls EXCEPT ![m.sub] = call]
  BY <1>0 DEF MgrT
<1> HIDE DEF r
<1>2. \A c \in Prompts : r.calls[c] = IF c = m.sub THEN call ELSE m.calls[c]
  BY <1>0, <1>1
<1>3. Answered(m, r, call)
  BY <1>1, <1>2 DEF Answered
<1> QED  BY <1>3 DEF r

\* The call of the slot is answered: what holds of the slot, the reservations and the turns still does.
LEMMA AnswerHolds ==
    ASSUME NEW m, NEW T, NEW n \in Nat, MgrHolds(m, T, n),
           NEW call \in CallT, call.pc \in {"failed", "running", "steered"}, call.from = m.calls[m.sub].from,
           call.pc # "failed" => m.sub \in T,
           NEW r, Answered(m, r, call)
    PROVE  /\ MgrHolds(r, T, n) /\ Settles(m, r) /\ r.sub = 0 /\ r.turns = m.turns /\ r.attached = m.attached
           /\ r.cursor = m.cursor
<1>0. m \in MgrT /\ m.sub \in Prompts /\ m.calls \in [Prompts -> CallT] /\ SlotHolds(m) /\ TicketsHold(m)
      /\ TurnsHold(m, n)
      /\ AnswersHold(m, T)
  BY DEF MgrHolds, MgrT, Answered
<1>1. /\ r \in MgrT /\ r.sub = 0 /\ r.turns = m.turns /\ r.attached = m.attached /\ r.failed = m.failed
         /\ r.gen = m.gen
      /\ r.ticket = m.ticket /\ r.inflight = m.inflight /\ r.cursor = m.cursor
  BY DEF Answered
<1>2. r.calls[m.sub] = call /\ \A c \in Prompts : c # m.sub => r.calls[c] = m.calls[c]
  BY <1>0 DEF Answered
<1>3. SlotHolds(r)
  BY <1>0, <1>1, <1>2, PromptsNat DEF SlotHolds
<1>4. TicketsHold(r)
  <2>1. ASSUME NEW c \in Prompts, r.calls[c].pc = "reserving" PROVE TicketHolds(r, c)
    <3>1. r.calls[c] = m.calls[c] /\ TicketHolds(m, c)
      BY <1>0, <1>2, <2>1 DEF TicketsHold
    <3> QED  BY <1>1, <1>2, <3>1 DEF TicketHolds
  <2> QED  BY <2>1 DEF TicketsHold
<1>5. TurnsHold(r, n)
  BY <1>0, <1>1 DEF TurnsHold
<1>6. AnswersHold(r, T)
  BY <1>0, <1>2 DEF AnswersHold
<1>7. Settles(m, r)
  BY <1>0, <1>1, <1>2 DEF Settles, CallsKept, Early
<1> QED  BY <1>1, <1>2, <1>3, <1>4, <1>5, <1>6, <1>7 DEF MgrHolds

LEMMA RejectHolds ==
    ASSUME NEW m, NEW T, NEW n \in Nat, MgrHolds(m, T, n)
    PROVE  MgrHolds(Reject(m), T, n) /\ Settles(m, Reject(m)) /\ Reject(m).sub = 0 /\ Reject(m).turns = m.turns
<1>1. CASE m.sub = 0
  BY <1>1 DEF Reject, Settles, CallsKept
<1>2. CASE m.sub # 0
  <2>1. m.calls[m.sub] \in CallT
    BY <1>2 DEF MgrHolds, MgrT
  <2>2. Reject(m) = [m EXCEPT !.sub = 0, !.calls[m.sub] = Settled(m.calls[m.sub], "failed")]
    BY <1>2 DEF Reject, MgrHolds, MgrT
  <2>3. Settled(m.calls[m.sub], "failed") \in CallT /\ Settled(m.calls[m.sub], "failed").pc = "failed"
        /\ Settled(m.calls[m.sub], "failed").from = m.calls[m.sub].from
    BY <2>1, SettledTyped
  <2> DEFINE call == Settled(m.calls[m.sub], "failed")
             r == Reject(m)
  <2>4. Answered(m, r, call)
    BY <1>2, <2>2, <2>3, AnsweredIs DEF MgrHolds
  <2> HIDE DEF call, r
  <2>5. call \in CallT /\ call.pc = "failed" /\ call.from = m.calls[m.sub].from
    BY <2>3 DEF call
  <2>6. MgrHolds(r, T, n) /\ Settles(m, r) /\ r.sub = 0 /\ r.turns = m.turns
    BY <1>2, <2>4, <2>5, AnswerHolds
  <2> QED  BY <2>6 DEF r
<1> QED  BY <1>1, <1>2

\* Settling is transitive.
LEMMA SettlesOn ==
    ASSUME NEW l, NEW m, NEW n, Settles(l, m), Settles(m, n)
    PROVE  Settles(l, n)
BY DEF Settles, CallsKept

\* Turns end: fewer turns, more done, the cursor moved on.
LEMMA FewerTurns ==
    ASSUME NEW m, NEW T, NEW n \in Nat, MgrHolds(m, T, n), NEW ts, NEW r, Fewer(m, r, ts)
    PROVE  MgrHolds(r, T, n) /\ Settles(m, r)
<1>0. m \in MgrT /\ SlotHolds(m) /\ TicketsHold(m) /\ TurnsHold(m, n) /\ AnswersHold(m, T)
  BY DEF MgrHolds
<1>1. SlotHolds(r) /\ AnswersHold(r, T) /\ Settles(m, r)
  BY <1>0 DEF SlotHolds, AnswersHold, Settles, CallsKept, Fewer
<1>2. TicketsHold(r)
  BY <1>0 DEF TicketsHold, TicketHolds, Fewer
<1>3. TurnsHold(r, n)
  BY <1>0 DEF TurnsHold, Fewer
<1> QED  BY <1>1, <1>2, <1>3 DEF MgrHolds, Fewer

LEMMA FewerIs ==
    ASSUME NEW m \in MgrT, NEW ts \in SUBSET m.turns, NEW cur \in CursorT
    PROVE  Fewer(m, [m EXCEPT !.turns = m.turns \ ts, !.done = m.done \cup {t.id : t \in ts}, !.cursor = cur], ts)
<1>1. {t.id : t \in ts} \subseteq Nat
  BY DEF TurnT, MgrT
<1> DEFINE left == m.turns \ ts
           done == m.done \cup {t.id : t \in ts}
<1>2. left \in SUBSET TurnT /\ done \in SUBSET Nat
  BY <1>1 DEF MgrT
<1> HIDE DEF left, done
<1>3. Fewer(m, [m EXCEPT !.turns = left, !.done = done, !.cursor = cur], ts) <=> left = m.turns \ ts
  BY <1>2 DEF MgrT, Fewer
<1> QED  BY <1>3 DEF left, done

LEMMA CompletedHolds ==
    ASSUME NEW m, NEW T, NEW n \in Nat, MgrHolds(m, T, n), written \in Nat, NEW ended
    PROVE  MgrHolds(Completed(m, ended), T, n) /\ Settles(m, Completed(m, ended))
           /\ Completed(m, ended).turns = m.turns \ ended
<1> DEFINE ts == ended \cap m.turns
           cur == IF ts = {} \/ m.attached = 0 THEN m.cursor ELSE [thread |-> m.attached, at |-> written]
           r == [m EXCEPT !.turns = m.turns \ ts, !.done = m.done \cup {t.id : t \in ts}, !.cursor = cur]
<1>0. m \in MgrT /\ ts \in SUBSET m.turns
  BY DEF MgrHolds
<1>1. cur \in CursorT
  BY <1>0 DEF MgrT, CursorT
<1>2. Fewer(m, r, ts)
  BY <1>0, <1>1, FewerIs
<1>3. Completed(m, ended) = IF provider = "codex" /\ Steers(m, {t.id : t \in ts}) THEN Reject(r) ELSE r
  BY <1>0 DEF Completed, MgrT
<1>5. m.turns \ ts = m.turns \ ended
  OBVIOUS
<1> HIDE DEF r, ts
<1>4. MgrHolds(r, T, n) /\ Settles(m, r) /\ r.turns = m.turns \ ts
  BY <1>2, FewerTurns DEF Fewer
<1>9. Completed(m, ended) = r \/ Completed(m, ended) = Reject(r)
  BY <1>3
<1>6. CASE Completed(m, ended) = r
  BY <1>4, <1>5, <1>6
<1>7. CASE Completed(m, ended) = Reject(r)
  BY <1>4, <1>5, <1>7, RejectHolds, SettlesOn
<1> QED  BY <1>6, <1>7, <1>9

LEMMA CursorTyped ==
    ASSUME NEW m \in MgrT, NEW c \in Prompts
    PROVE  SubmissionCursor(m, c) \in CursorT
<1>1. m.calls[c].from \in CursorT
  BY DEF MgrT, CallT
<1>2. [thread |-> m.attached, at |-> 0] \in CursorT
  BY DEF MgrT, CursorT
<1> QED  BY <1>1, <1>2 DEF SubmissionCursor

\* A turn is added to those the manager knows.
More(m, r, t) ==
  /\ r \in MgrT /\ r.sub = m.sub /\ r.turns = m.turns \cup {t} /\ r.attached = m.attached /\ r.failed = m.failed
  /\ r.gen = m.gen /\ r.ticket = m.ticket /\ r.inflight = m.inflight /\ r.calls = m.calls

LEMMA CreatedIs ==
    ASSUME NEW m \in MgrT, NEW thread \in 0..2, NEW id \in Nat, NEW text \in TextT, NEW from \in CursorT
    PROVE  More(m, Created(m, thread, id, text, from), [id |-> id, thread |-> thread, text |-> text, from |-> from])
<1> DEFINE t == [id |-> id, thread |-> thread, text |-> text, from |-> from]
           more == m.turns \cup {t}
<1>1. t \in TurnT
  BY DEF TurnT
<1>2. more \in SUBSET TurnT
  BY <1>1 DEF MgrT
<1>3. Created(m, thread, id, text, from) = [m EXCEPT !.turns = more]
  BY DEF Created, MgrT
<1> HIDE DEF t, more
<1>4. more = m.turns \cup {t} => More(m, [m EXCEPT !.turns = more], t)
  BY <1>2 DEF MgrT, More
<1> QED  BY <1>3, <1>4 DEF t, more

LEMMA MoreTurns ==
    ASSUME NEW m, NEW T, NEW n \in Nat, MgrHolds(m, T, n), NEW r, NEW t, More(m, r, t),
           t.thread = m.attached, m.attached # 0, t.id \in 1..n
    PROVE  MgrHolds(r, T, n) /\ Settles(m, r)
<1>0. m \in MgrT /\ SlotHolds(m) /\ TicketsHold(m) /\ TurnsHold(m, n) /\ AnswersHold(m, T) /\ m.attached \in 1..2
  BY DEF MgrHolds, MgrT
<1>1. SlotHolds(r) /\ AnswersHold(r, T) /\ Settles(m, r)
  BY <1>0 DEF SlotHolds, AnswersHold, Settles, CallsKept, More
<1>2. TicketsHold(r)
  BY <1>0 DEF TicketsHold, TicketHolds, More
<1>3. TurnsHold(r, n)
  BY <1>0 DEF TurnsHold, More
<1> QED  BY <1>1, <1>2, <1>3 DEF MgrHolds, More

\* The agent has taken the prompt of the slot.
LEMMA ConfirmHolds ==
    ASSUME NEW m, NEW T, NEW n \in Nat, MgrHolds(m, T, n), m.sub # 0, m.sub \in T,
           NEW thread, thread = m.attached, m.attached # 0, NEW id \in 1..n
    PROVE  MgrHolds(Confirm(m, thread, id), T, n) /\ Settles(m, Confirm(m, thread, id))
<1> DEFINE c == m.sub
           active == {t \in m.turns : t.thread = thread}
           turn == IF active # {} THEN (CHOOSE t \in active : TRUE).id ELSE id
           call == [Settled(m.calls[c], "running") EXCEPT !.turn = turn]
           steer == Settled(m.calls[c], "steered")
           r == [m EXCEPT !.sub = 0, !.calls[m.sub] = call]
           l == [m EXCEPT !.sub = 0, !.calls[m.sub] = steer]
           from == SubmissionCursor(m, c)
           new == [id |-> id, thread |-> thread, text |-> c, from |-> from]
<1>0. m \in MgrT /\ c \in Prompts /\ m.calls[c] \in CallT /\ m.turns \subseteq TurnT /\ c \in TextT
      /\ thread \in 0..2 /\ id \in Nat
  BY DEF MgrHolds, MgrT, TextT
<1>1. turn \in Nat
  <2>1. CASE active = {}
    BY <2>1, <1>0
  <2>2. CASE active # {}
    <3>1. (CHOOSE t \in active : TRUE) \in active
      BY <2>2
    <3>2. (CHOOSE t \in active : TRUE).id \in Nat
      BY <3>1, <1>0 DEF TurnT
    <3> QED  BY <2>2, <3>2
  <2> QED  BY <2>1, <2>2
<1>2. from \in CursorT
  BY <1>0, CursorTyped
<1> HIDE DEF turn, from
<1>3. call \in CallT /\ call.pc = "running" /\ call.from = m.calls[c].from
  BY <1>0, <1>1, SettledTyped
<1>4. steer \in CallT /\ steer.pc = "steered" /\ steer.from = m.calls[c].from
  BY <1>0, SettledTyped
<1>5. Confirm(m, thread, id) = IF m.calls[c].kind = "steer" THEN l
                               ELSE IF active # {} THEN r ELSE Created(r, thread, id, c, from)
  BY <1>0 DEF Confirm, turn, from, MgrT
<1> HIDE DEF call, steer, active
<1>6. Answered(m, r, call) /\ Answered(m, l, steer)
  BY <1>0, <1>3, <1>4, AnsweredIs
<1> HIDE DEF r, l, c
<1>7. MgrHolds(r, T, n) /\ Settles(m, r) /\ r.attached = m.attached
  BY <1>3, <1>6, AnswerHolds DEF c
<1>8. MgrHolds(l, T, n) /\ Settles(m, l)
  BY <1>4, <1>6, AnswerHolds DEF c
<1>9. More(r, Created(r, thread, id, c, from), new)
  BY <1>0, <1>2, <1>7, CreatedIs DEF MgrHolds
<1> DEFINE q == Created(r, thread, id, c, from)
<1>10. new.thread = m.attached /\ new.id = id
  OBVIOUS
<1> HIDE DEF q, new
<1>11. MgrHolds(q, T, n) /\ Settles(r, q)
  BY <1>7, <1>9, <1>10, MoreTurns DEF q
<1>12. Settles(m, q)
  BY <1>7, <1>11, SettlesOn
<1> QED  BY <1>5, <1>7, <1>8, <1>11, <1>12 DEF q

LEMMA AcceptPromptHolds ==
    ASSUME NEW m, NEW T, NEW n \in Nat, MgrHolds(m, T, n), NEW thread, thread = m.attached, m.attached # 0,
           NEW id \in 1..n, NEW text \in TextT, text \in Prompts => text \in T
    PROVE  MgrHolds(AcceptPrompt(m, thread, id, text), T, n) /\ Settles(m, AcceptPrompt(m, thread, id, text))
<1> DEFINE q == Created(m, thread, id, text, m.cursor)
           new == [id |-> id, thread |-> thread, text |-> text, from |-> m.cursor]
<1>0. m \in MgrT /\ m.sub \in Prompts \cup {0} /\ m.cursor \in CursorT /\ m.attached \in 0..2 /\ id \in Nat
  BY DEF MgrHolds, MgrT
<1>1. CASE m.sub # 0 /\ m.sub = text
  BY <1>0, <1>1, ConfirmHolds DEF AcceptPrompt
<1>2. MgrHolds(q, T, n) /\ Settles(m, q)
  <2>1. More(m, q, new)
    BY <1>0, CreatedIs
  <2>2. new.thread = m.attached /\ new.id = id
    OBVIOUS
  <2> HIDE DEF q, new
  <2> QED  BY <2>1, <2>2, MoreTurns
<1>3. Settles(m, m)
  BY <1>0 DEF Settles, CallsKept
<1>4. CASE ~ (m.sub # 0 /\ m.sub = text)
  <2>1. AcceptPrompt(m, thread, id, text) = m \/ AcceptPrompt(m, thread, id, text) = q
    BY <1>4 DEF AcceptPrompt
  <2> HIDE DEF q
  <2> QED  BY <2>1, <1>2, <1>3
<1> QED  BY <1>1, <1>4

LEMMA RecoverHolds ==
    ASSUME NEW m, NEW T, NEW n \in Nat, MgrHolds(m, T, n), written \in Nat, NEW c \in Prompts, NEW id,
           m.sub = c => c \in T /\ m.attached # 0 /\ id \in 1..n
    PROVE  MgrHolds(Recover(m, c, id), T, n) /\ Settles(m, Recover(m, c, id))
<1>1. CASE m.sub # c
  BY <1>1 DEF Recover, Settles, CallsKept
<1>2. CASE m.sub = c
  <2> DEFINE r == Confirm(m, m.attached, id)
             over == {t \in r.turns \ m.turns : provider = "codex" /\ ReadToEnd(t)}
  <2>1. MgrHolds(r, T, n) /\ Settles(m, r)
    BY <1>2, ConfirmHolds, PromptsNat
  <2>2. Recover(m, c, id) = Completed(r, over)
    BY <1>2 DEF Recover
  <2> HIDE DEF r, over
  <2> QED  BY <2>1, <2>2, CompletedHolds, SettlesOn
<1> QED  BY <1>1, <1>2

\* The turn under way and the prompt in the slot are over.
Ended(m) == Completed(Reject(m), m.turns)

LEMMA EndedHolds ==
    ASSUME NEW m, NEW T, NEW n \in Nat, MgrHolds(m, T, n), written \in Nat
    PROVE  MgrHolds(Ended(m), T, n) /\ Settles(m, Ended(m)) /\ Ended(m).sub = 0 /\ Ended(m).turns = {}
<1> DEFINE r == Reject(m)
<1>1. MgrHolds(r, T, n) /\ Settles(m, r) /\ r.sub = 0 /\ r.turns = m.turns
  BY RejectHolds
<1> HIDE DEF r
<1>2. MgrHolds(Completed(r, m.turns), T, n) /\ Settles(r, Completed(r, m.turns))
      /\ Completed(r, m.turns).turns = r.turns \ m.turns
  BY <1>1, CompletedHolds
<1>3. Settles(m, Completed(r, m.turns)) /\ Completed(r, m.turns).sub = 0
  BY <1>1, <1>2, SettlesOn DEF Settles
<1> QED  BY <1>1, <1>2, <1>3 DEF Ended, r

\* With no turn and nothing in the slot the manager attaches to anything.
Moved(m, r) ==
  /\ r \in MgrT /\ r.sub = m.sub /\ r.turns = m.turns /\ r.ticket = m.ticket /\ r.inflight = m.inflight
     /\ r.calls = m.calls

LEMMA MovedHolds ==
    ASSUME NEW m, NEW T, NEW n \in Nat, MgrHolds(m, T, n), NEW r, Moved(m, r),
           \/ m.turns = {} /\ m.sub = 0
           \/ m.attached \in {0, r.attached}
    PROVE  MgrHolds(r, T, n) /\ CallsKept(m, r)
<1>0. m \in MgrT /\ SlotHolds(m) /\ TicketsHold(m) /\ TurnsHold(m, n) /\ AnswersHold(m, T) /\ m.attached \in 0..2
  BY DEF MgrHolds, MgrT
<1>1. SlotHolds(r)
  BY <1>0, PromptsNat DEF SlotHolds, Moved
<1>4. AnswersHold(r, T) /\ CallsKept(m, r)
  BY <1>0 DEF AnswersHold, CallsKept, Moved
<1>2. TicketsHold(r)
  BY <1>0 DEF TicketsHold, TicketHolds, Moved
<1>3. TurnsHold(r, n)
  BY <1>0 DEF TurnsHold, Moved
<1> QED  BY <1>1, <1>2, <1>3, <1>4 DEF MgrHolds, Moved

\* From m to r the manager has attached to the thread.
Attaches(m, r, T, n, thread) ==
  /\ MgrHolds(r, T, n) /\ CallsKept(m, r) /\ r.attached = thread /\ r.failed = m.failed /\ r.gen = m.gen

LEMMA AttachHolds ==
    ASSUME NEW m, NEW T, NEW n \in Nat, MgrHolds(m, T, n), written \in Nat, NEW thread \in 0..2, NEW cursor \in CursorT
    PROVE  Attaches(m, Attach(m, thread, cursor), T, n, thread)
<1> DEFINE q == IF m.attached \in {0, thread} THEN m ELSE Ended(m)
           r == [q EXCEPT !.attached = thread, !.cursor = cursor]
<1>1. Attach(m, thread, cursor) = r
  BY DEF Attach, Ended
<1>2. MgrHolds(q, T, n) /\ Settles(m, q) /\ (m.attached \notin {0, thread} => q.turns = {} /\ q.sub = 0)
  <2>1. CASE m.attached \in {0, thread}
    BY <2>1 DEF Settles, CallsKept
  <2>2. CASE m.attached \notin {0, thread}
    BY <2>2, EndedHolds
  <2> QED  BY <2>1, <2>2
<1> HIDE DEF q
<1>3. Moved(q, r) /\ r.attached = thread /\ r.failed = q.failed /\ r.gen = q.gen
  BY <1>2 DEF MgrHolds, MgrT, Moved
<1> HIDE DEF r
<1>4. q.attached = m.attached /\ CallsKept(m, q) /\ q.failed = m.failed /\ q.gen = m.gen
  BY <1>2 DEF Settles
<1>5. MgrHolds(r, T, n) /\ CallsKept(q, r)
  BY <1>2, <1>3, <1>4, MovedHolds
<1>6. CallsKept(m, r)
  BY <1>4, <1>5 DEF CallsKept
<1> QED  BY <1>1, <1>3, <1>4, <1>5, <1>6 DEF Attaches

LEMMA ExitedHolds ==
    ASSUME NEW m, NEW T, NEW n \in Nat, MgrHolds(m, T, n), written \in Nat
    PROVE  /\ MgrHolds(Exited(m), T, n) /\ CallsKept(m, Exited(m)) /\ Exited(m).sub = 0
           /\ Exited(m).attached = 0 /\ Exited(m).failed = TRUE /\ Exited(m).gen = m.gen + 1
<1> DEFINE q == Ended(m)
           gen == q.gen + 1
           gone == TRUE
           none == 0
           r == [q EXCEPT !.attached = none, !.failed = gone, !.gen = gen]
<1>1. MgrHolds(q, T, n) /\ Settles(m, q) /\ q.sub = 0 /\ q.turns = {}
  BY EndedHolds
<1>2. q \in MgrT /\ q.gen \in Nat
  BY <1>1 DEF MgrHolds, MgrT
<1>8. gen \in Nat /\ gone \in BOOLEAN /\ none \in 0..2
  BY <1>2
<1>3. gen = m.gen + 1
  BY <1>1 DEF Settles
<1>4. Exited(m) = r
  BY <1>2 DEF Exited, Ended, MgrT
<1> HIDE DEF q, gen, gone, none
<1>5. Moved(q, r) /\ r.attached = none /\ r.failed = gone /\ r.gen = gen /\ r.sub = q.sub
  BY <1>2, <1>8 DEF Moved, MgrT
<1> HIDE DEF r
<1>6. MgrHolds(r, T, n) /\ CallsKept(q, r)
  BY <1>1, <1>5, MovedHolds
<1>7. CallsKept(m, r)
  BY <1>1, <1>6 DEF CallsKept, Settles
<1> QED  BY <1>1, <1>3, <1>4, <1>5, <1>6, <1>7 DEF gone, none

LEMMA ResetHolds ==
    ASSUME NEW m, NEW T, NEW n \in Nat, MgrHolds(m, T, n), written \in Nat
    PROVE  /\ MgrHolds(Reset(m), T, n) /\ CallsKept(m, Reset(m)) /\ Reset(m).sub = 0
           /\ Reset(m).attached = 0 /\ Reset(m).failed = FALSE /\ Reset(m).gen = m.gen + 1
<1> DEFINE q == Ended(m)
           gen == q.gen + 1
           ticket == q.ticket + 1
           cursor == NoCursor
           none == 0
           clear == FALSE
           r == [q EXCEPT !.attached = none, !.failed = clear, !.gen = gen, !.ticket = ticket, !.inflight = clear,
                          !.cursor = cursor]
<1>1. MgrHolds(q, T, n) /\ Settles(m, q) /\ q.sub = 0 /\ q.turns = {}
  BY EndedHolds
<1>2. q \in MgrT /\ q.gen \in Nat /\ q.ticket \in Nat /\ cursor \in CursorT
  BY <1>1 DEF MgrHolds, MgrT, NoCursor, CursorT
<1>3. gen = m.gen + 1 /\ ticket > q.ticket
  BY <1>1, <1>2 DEF Settles
<1>10. gen \in Nat /\ ticket \in Nat /\ none \in 0..2 /\ clear \in BOOLEAN
  BY <1>2
<1>4. Reset(m) = r
  BY <1>2 DEF Reset, Ended, MgrT
<1> HIDE DEF q, gen, ticket, cursor, none, clear
<1>5. /\ r \in MgrT /\ r.attached = none /\ r.failed = clear /\ r.gen = gen /\ r.sub = q.sub /\ r.turns = q.turns
      /\ r.calls = q.calls /\ r.ticket = ticket
  BY <1>2, <1>10 DEF MgrT
<1> HIDE DEF r
<1>6. SlotHolds(q) /\ TicketsHold(q) /\ TurnsHold(q, n) /\ AnswersHold(q, T)
  BY <1>1 DEF MgrHolds
<1>7. SlotHolds(r)
  BY <1>1, <1>5, <1>6, PromptsNat DEF SlotHolds
<1>8. TicketsHold(r)
  <2>1. ASSUME NEW c \in Prompts, r.calls[c].pc = "reserving" PROVE TicketHolds(r, c)
    <3>1. TicketHolds(q, c) /\ r.calls[c] = q.calls[c] /\ q.calls[c].ticket \in Nat
      BY <1>2, <1>5, <1>6, <2>1 DEF TicketsHold, MgrT, CallT
    <3> QED  BY <1>2, <1>3, <1>10, <1>5, <3>1 DEF TicketHolds
  <2> QED  BY <2>1 DEF TicketsHold
<1>9. TurnsHold(r, n) /\ AnswersHold(r, T) /\ CallsKept(m, r)
  BY <1>1, <1>5, <1>6 DEF TurnsHold, AnswersHold, CallsKept, Settles
<1> QED  BY <1>1, <1>3, <1>4, <1>5, <1>7, <1>8, <1>9 DEF MgrHolds, none, clear

-----------------------------------------------------------------------------
(* What is read of the record. *)

\* A prompt that was found there has been taken, and its turn is one of the record's.
LEMMA EvidenceTrue ==
    ASSUME NEW m \in MgrT, SlotHolds(m), NEW c \in Prompts, record \in Seq(EntryT), written \in Nat, written <= Len(record),
           RecordOk, Evidence(m, c).state = "accepted"
    PROVE  c \in Taken /\ Evidence(m, c).turn \in 1..Len(record) /\ (m.sub = c => m.attached # 0)
<1> DEFINE cursor == SubmissionCursor(m, c)
           news == Increment(cursor)
           users == {i \in news : record[i].what = "user"}
           hits == {i \in users : record[i].text = c}
           i == CHOOSE j \in hits : TRUE
<1>0. cursor \in CursorT
  BY CursorTyped
<1>1. cursor.thread # 0 /\ hits # {} /\ Evidence(m, c) = [state |-> "accepted", turn |-> EntryId(i)]
  BY DEF Evidence
<1>2. cursor.thread # 0 /\ hits # {} /\ Evidence(m, c).turn = EntryId(i)
  BY <1>1
<1>3. i \in hits
  BY <1>2
<1>4. i \in cursor.at + 1 .. written /\ record[i].what = "user" /\ record[i].text = c
  BY <1>3 DEF Increment
<1> HIDE DEF i
<1>5. cursor.at \in Nat
  BY <1>0 DEF CursorT
<1> HIDE DEF cursor
<1>8. Len(record) \in Nat
  OBVIOUS
<1>6. i \in 1..Len(record)
  BY <1>4, <1>5, <1>8
<1>7. EntryId(i) \in 1..Len(record)
  BY <1>6 DEF EntryId, RecordOk
<1>9. m.sub = c => m.attached # 0
  BY <1>2 DEF SlotHolds, SubmissionCursor, cursor
<1> QED  BY <1>2, <1>4, <1>6, <1>7, <1>9 DEF Taken

LEMMA SteerSettledHolds ==
    ASSUME NEW m, MgrHolds(m, Taken, Len(record)), record \in Seq(EntryT), written \in Nat, written <= Len(record),
           RecordOk, NEW t
    PROVE  MgrHolds(SteerSettled(m, t), Taken, Len(record)) /\ Settles(m, SteerSettled(m, t))
<1> DEFINE e == Evidence(m, m.sub)
<1>0. m \in MgrT /\ SlotHolds(m) /\ Len(record) \in Nat
  BY DEF MgrHolds
<1>1. CASE SteerSettled(m, t) = m
  BY <1>1 DEF Settles, CallsKept
<1>2. CASE SteerSettled(m, t) = Reject(m)
  BY <1>0, <1>2, RejectHolds
<1>3. CASE Steers(m, {t.id}) /\ e.state = "accepted" /\ SteerSettled(m, t) = Recover(m, m.sub, e.turn)
  <2>1. m.sub \in Prompts
    BY <1>0, <1>3 DEF Steers, MgrT
  <2>2. m.sub \in Taken /\ e.turn \in 1..Len(record) /\ m.attached # 0
    BY <1>0, <1>3, <2>1, EvidenceTrue
  <2> HIDE DEF e
  <2> QED  BY <1>0, <1>3, <2>1, <2>2, RecoverHolds
<1> QED  BY <1>1, <1>2, <1>3 DEF SteerSettled

LEMMA FinishTurnHolds ==
    ASSUME NEW m, MgrHolds(m, Taken, Len(record)), record \in Seq(EntryT), written \in Nat, written <= Len(record),
           RecordOk, NEW t
    PROVE  MgrHolds(FinishTurn(m, t), Taken, Len(record)) /\ Settles(m, FinishTurn(m, t))
<1> DEFINE q == SteerSettled(m, t)
<1>1. MgrHolds(q, Taken, Len(record)) /\ Settles(m, q)
  BY SteerSettledHolds
<1> HIDE DEF q
<1>0. Len(record) \in Nat
  OBVIOUS
<1>2. MgrHolds(Completed(q, {t}), Taken, Len(record)) /\ Settles(q, Completed(q, {t}))
  BY <1>0, <1>1, CompletedHolds
<1> QED  BY <1>1, <1>2, SettlesOn DEF FinishTurn, q

-----------------------------------------------------------------------------
(* What is kept when the record, the hooks or the looks change. *)

LEMMA RecordSame ==
    ASSUME record' = record
    PROVE  Taken' = Taken /\ Len(record)' = Len(record)
BY DEF Taken

LEMMA RecordAppended ==
    ASSUME record \in Seq(EntryT), NEW e \in EntryT, record' = Append(record, e)
    PROVE  /\ record' \in Seq(EntryT) /\ Len(record)' = Len(record) + 1 /\ Len(record) \in Nat
           /\ \A i \in 1..Len(record) : record'[i] = record[i]
           /\ record'[Len(record) + 1] = e
           /\ Taken \subseteq Taken'
           /\ \A c \in Taken' : c \in Taken \/ (e.what = "user" /\ e.text = c)
<1>1. record' \in Seq(EntryT) /\ Len(record') = Len(record) + 1 /\ Len(record) \in Nat
  OBVIOUS
<1>2. \A i \in 1..Len(record) : record'[i] = record[i]
  OBVIOUS
<1>3. record'[Len(record) + 1] = e
  OBVIOUS
<1>4. Taken \subseteq Taken'
  BY <1>1, <1>2 DEF Taken
<1>5. ASSUME NEW c \in Taken' PROVE c \in Taken \/ (e.what = "user" /\ e.text = c)
  <2>1. PICK i \in 1..Len(record') : record'[i].text = c /\ record'[i].what = "user"
    BY <1>5 DEF Taken
  <2>2. i \in 1..Len(record) \/ i = Len(record) + 1
    BY <1>1, <2>1
  <2>3. c \in Prompts
    BY <1>5 DEF Taken
  <2>4. CASE i \in 1..Len(record)
    <3>1. record[i].text = c /\ record[i].what = "user"
      BY <1>2, <2>1, <2>4
    <3>2. \E j \in 1..Len(record) : record[j].text = c /\ record[j].what = "user"
      BY <2>4, <3>1
    <3>3. c \in Taken
      BY <2>3, <3>2 DEF Taken
    <3> QED  BY <3>3
  <2>5. CASE i = Len(record) + 1
    BY <1>3, <2>1, <2>5
  <2> QED  BY <2>2, <2>4, <2>5
<1> QED  BY <1>1, <1>2, <1>3, <1>4, <1>5

LEMMA RecordStays ==
    ASSUME RecordHolds, record' = record, written' <= Len(record), CallsKept(mgr, mgr'),
           \A c \in Prompts : mgr.calls[c].pc \in Early /\ mgr'.calls[c].pc \in Early => agent'.box # c
    PROVE  RecordHolds'
<1>1. Taken' = Taken /\ Len(record)' = Len(record)
  BY RecordSame
<1>2. RecordOk'
  BY <1>1 DEF RecordHolds, RecordOk
<1>3. Untyped'
  BY <1>1 DEF RecordHolds, Untyped, CallsKept
<1>4. SinceHolds'
  BY <1>1 DEF RecordHolds, SinceHolds, CallsKept
<1> QED  BY <1>1, <1>2, <1>3, <1>4 DEF RecordHolds

LEMMA RecordGrows ==
    ASSUME RecordHolds, record \in Seq(EntryT), NEW e \in EntryT, record' = Append(record, e),
           e.turn \in 1..Len(record) + 1, e.what = "end" => e.text = 0, written \in Nat, written' = written,
           mgr \in MgrT, CallsKept(mgr, mgr'),
           \A c \in Prompts : mgr.calls[c].pc \in Early /\ mgr'.calls[c].pc \in Early => agent'.box # c /\ e.text # c
    PROVE  RecordHolds'
<1>1. /\ record' \in Seq(EntryT) /\ Len(record)' = Len(record) + 1 /\ Len(record) \in Nat
      /\ \A i \in 1..Len(record) : record'[i] = record[i]
      /\ record'[Len(record) + 1] = e
      /\ \A c \in Taken' : c \in Taken \/ (e.what = "user" /\ e.text = c)
  BY RecordAppended
<1>0. \A i \in 1..Len(record') : i \in 1..Len(record) \/ i = Len(record) + 1
  BY <1>1
<1>2. RecordOk'
  <2>1. ASSUME NEW i \in 1..Len(record')
        PROVE  record'[i].turn \in 1..Len(record') /\ (record'[i].what = "end" => record'[i].text = 0)
    <3>1. CASE i \in 1..Len(record)
      <4>1. record[i].turn \in 1..Len(record) /\ (record[i].what = "end" => record[i].text = 0)
        BY <3>1 DEF RecordHolds, RecordOk
      <4> QED  BY <1>1, <3>1, <4>1
    <3>2. CASE i = Len(record) + 1
      BY <1>1, <3>2
    <3> QED  BY <1>0, <3>1, <3>2
  <2> QED  BY <2>1 DEF RecordOk
<1>3. Untyped'
  BY <1>1 DEF RecordHolds, Untyped, CallsKept
<1>4. SinceHolds'
  <2>1. ASSUME NEW c \in Prompts
        PROVE  /\ mgr'.calls[c].from.at <= Len(record')
               /\ \A i \in 1..Len(record') : record'[i].text = c => i > mgr'.calls[c].from.at
    <3>1. /\ mgr.calls[c].from.at \in Nat /\ mgr'.calls[c].from = mgr.calls[c].from
          /\ mgr.calls[c].from.at <= Len(record)
          /\ \A i \in 1..Len(record) : record[i].text = c => i > mgr.calls[c].from.at
      BY DEF RecordHolds, SinceHolds, CallsKept, MgrT, CallT, CursorT
    <3> QED  BY <1>0, <1>1, <3>1
  <2> QED  BY <2>1 DEF SinceHolds
<1>5. written' <= Len(record')
  BY <1>1 DEF RecordHolds
<1> QED  BY <1>2, <1>3, <1>4, <1>5 DEF RecordHolds

\* A call that nobody has typed is reserved from here on.
LEMMA RecordReserves ==
    ASSUME RecordHolds, record \in Seq(EntryT), record' = record, agent' = agent, written' = written, NEW c \in Prompts,
           mgr.calls[c].pc \in Early, mgr'.calls[c].pc \in Early, mgr'.calls[c].from.at <= Len(record),
           \A d \in Prompts : d # c => mgr'.calls[d] = mgr.calls[d]
    PROVE  RecordHolds'
<1>1. Taken' = Taken /\ Len(record)' = Len(record)
  BY RecordSame
<1>2. RecordOk'
  BY <1>1 DEF RecordHolds, RecordOk
<1>3. Untyped'
  BY <1>1 DEF RecordHolds, Untyped
<1>4. \A i \in 1..Len(record) : record[i].text # c
  <2>1. ASSUME NEW i \in 1..Len(record), record[i].text = c PROVE FALSE
    <3>1. record[i] \in EntryT /\ c \notin Taken /\ (record[i].what = "end" => record[i].text = 0)
      BY DEF RecordHolds, Untyped, RecordOk
    <3> QED  BY <2>1, <3>1, PromptsNat DEF Taken, EntryT
  <2> QED  BY <2>1
<1>5. SinceHolds'
  BY <1>1, <1>4 DEF RecordHolds, SinceHolds
<1> QED  BY <1>1, <1>2, <1>3, <1>5 DEF RecordHolds

LEMMA HookOkMonotone ==
    ASSUME NEW h, NEW T, NEW T2, NEW n \in Nat, NEW n2 \in Nat, T \subseteq T2, n <= n2, HookOk(h, T, n)
    PROVE  HookOk(h, T2, n2)
BY DEF HookOk

LEMMA HooksMonotone ==
    ASSUME NEW hs, NEW T, NEW T2, NEW n \in Nat, NEW n2 \in Nat, T \subseteq T2, n <= n2, HooksFit(hs, T, n)
    PROVE  HooksFit(hs, T2, n2)
BY HookOkMonotone DEF HooksFit

LEMMA HooksAppend ==
    ASSUME NEW hs, NEW T, NEW n, HooksFit(hs, T, n), NEW h \in HookT, HookOk(h, T, n)
    PROVE  HooksFit(Append(hs, h), T, n) /\ (hs # <<>> => Head(Append(hs, h)) = Head(hs))
           /\ (hs = <<>> => Head(Append(hs, h)) = h) /\ Append(hs, h) # <<>>
<1>0. hs \in Seq(HookT) /\ Len(hs) \in Nat
  BY DEF HooksFit
<1>1. Append(hs, h) \in Seq(HookT) /\ Len(Append(hs, h)) = Len(hs) + 1
  BY <1>0
<1>2. \A i \in 1..Len(hs) : Append(hs, h)[i] = hs[i]
  BY <1>0
<1>3. Append(hs, h)[Len(hs) + 1] = h
  BY <1>0
<1>4. ASSUME NEW i \in 1..Len(Append(hs, h)) PROVE HookOk(Append(hs, h)[i], T, n)
  <2>1. i \in 1..Len(hs) \/ i = Len(hs) + 1
    BY <1>0, <1>1
  <2>2. CASE i \in 1..Len(hs)
    BY <1>2, <2>2 DEF HooksFit
  <2>3. CASE i = Len(hs) + 1
    BY <1>3, <2>3
  <2> QED  BY <2>1, <2>2, <2>3
<1>5. (hs # <<>> => Head(Append(hs, h)) = Head(hs)) /\ (hs = <<>> => Head(Append(hs, h)) = h) /\ Append(hs, h) # <<>>
  BY <1>0
<1> QED  BY <1>1, <1>4, <1>5 DEF HooksFit

LEMMA HooksTail ==
    ASSUME NEW hs, NEW T, NEW n, HooksFit(hs, T, n), hs # <<>>
    PROVE  HooksFit(Tail(hs), T, n) /\ Head(hs) \in HookT /\ HookOk(Head(hs), T, n)
<1>1. hs \in Seq(HookT) /\ Len(hs) \in Nat /\ Len(hs) > 0
  BY DEF HooksFit
<1>2. Tail(hs) \in Seq(HookT) /\ Len(Tail(hs)) = Len(hs) - 1 /\ Head(hs) = hs[1]
  BY <1>1
<1>3. \A i \in 1..Len(Tail(hs)) : Tail(hs)[i] = hs[i + 1]
  BY <1>1
<1>4. \A i \in 1..Len(Tail(hs)) : i + 1 \in 1..Len(hs)
  BY <1>1, <1>2
<1>5. 1 \in 1..Len(hs)
  BY <1>1
<1> QED  BY <1>1, <1>2, <1>3, <1>4, <1>5 DEF HooksFit

LEMMA LookMonotone ==
    ASSUME NEW l, NEW m, NEW m2, NEW T, NEW T2, NEW n \in Nat, NEW n2 \in Nat, T \subseteq T2, n <= n2, LookOk(l, m, T, n),
           m2.attached # 0 \/ \A c \in T : m2.sub = c => m.sub = c /\ m.attached = m2.attached
    PROVE  LookOk(l, m2, T2, n2)
BY DEF LookOk

\* Only the manager takes a step, and attaches to nothing.
LEMMA QuietStep ==
    ASSUME TurnsInv, record' = record, written' = written, agent' = agent, hooks' = hooks, held' = held,
           look' = look, pause' = pause, provider' = provider, spare' \in TurnLoad,
           MgrHolds(mgr', Taken, Len(record)), Settles(mgr, mgr')
    PROVE  TurnsInv'
<1>0. TurnTyped /\ RestHolds /\ MgrHolds(mgr, Taken, Len(record))
  BY DEF TurnsInv
<1>1. Taken' = Taken /\ Len(record)' = Len(record)
  BY RecordSame
<1>2. TurnTyped'
  BY <1>0 DEF TurnTyped, MgrHolds
<1>3. RecordHolds'
  BY <1>0, RecordStays DEF RestHolds, Settles, RecordHolds, Untyped
<1>4. HooksHold'
  BY <1>0, <1>1 DEF RestHolds, HooksHold
<1>5. LooksHold'
  <2>1. Len(record) \in Nat /\ mgr.sub \in Prompts \cup {0} /\ 0 \notin Taken
    BY <1>0, PromptsNat DEF TurnTyped, MgrHolds, MgrT, Taken
  <2>2. \A c \in Taken : mgr'.sub = c => mgr.sub = c /\ mgr.attached = mgr'.attached
    BY <2>1 DEF Settles
  <2>3. LookOk(look, mgr, Taken, Len(record)) /\ LookOk(pause, mgr, Taken, Len(record))
    BY <1>0 DEF RestHolds, LooksHold
  <2>4. LookOk(look, mgr', Taken, Len(record)) /\ LookOk(pause, mgr', Taken, Len(record))
    BY <2>1, <2>2, <2>3, LookMonotone
  <2> QED  BY <1>1, <2>4 DEF LooksHold
<1>6. ProcessHolds' /\ StartsFirst'
  BY <1>0 DEF RestHolds, ProcessHolds, StartsFirst, Settles
<1>7. MgrHolds(mgr, Taken, Len(record))'
  BY <1>1
<1> QED  BY <1>2, <1>3, <1>4, <1>5, <1>6, <1>7 DEF TurnsInv, RestHolds

-----------------------------------------------------------------------------
(* Calls on their way into the slot. *)

\* From m to r the call c has become call.
Placed(m, r, c, call) ==
  /\ r \in MgrT /\ r.sub = m.sub /\ r.turns = m.turns /\ r.attached = m.attached /\ r.failed = m.failed
  /\ r.gen = m.gen /\ r.ticket = m.ticket
  /\ r.inflight = m.inflight \/ (m.calls[c].pc = "reserving" /\ m.calls[c].ticket = m.ticket)
  /\ \A d \in Prompts : r.calls[d] = IF d = c THEN call ELSE m.calls[d]

LEMMA PlacedIs ==
    ASSUME NEW m \in MgrT, NEW c \in Prompts, NEW pc \in CallPlaces
    PROVE  /\ Placed(m, [m EXCEPT !.calls[c].pc = pc], c, [m.calls[c] EXCEPT !.pc = pc])
           /\ [m.calls[c] EXCEPT !.pc = pc] \in CallT /\ [m.calls[c] EXCEPT !.pc = pc].pc = pc
           /\ [m.calls[c] EXCEPT !.pc = pc].from = m.calls[c].from
<1> DEFINE call == [m.calls[c] EXCEPT !.pc = pc]
           calls == [m.calls EXCEPT ![c] = call]
           r == [m EXCEPT !.calls = calls]
<1>0. m.calls[c] \in CallT /\ m.calls \in [Prompts -> CallT]
  BY DEF MgrT
<1>1. call \in CallT /\ call.pc = pc /\ call.from = m.calls[c].from
  BY <1>0 DEF CallT
<1>2. [m EXCEPT !.calls[c].pc = pc] = r
  BY <1>0 DEF MgrT
<1> HIDE DEF call
<1>3. calls \in [Prompts -> CallT] /\ \A d \in Prompts : calls[d] = IF d = c THEN call ELSE m.calls[d]
  BY <1>0, <1>1
<1> HIDE DEF calls
<1>4. Placed(m, r, c, call)
  BY <1>3 DEF MgrT, Placed
<1> QED  BY <1>1, <1>2, <1>4 DEF call

LEMMA PlacedHolds ==
    ASSUME NEW m, NEW T, NEW n \in Nat, MgrHolds(m, T, n), NEW c \in Prompts, NEW call, NEW r, Placed(m, r, c, call),
           call.from = m.calls[c].from,
           m.calls[c].pc \in {"idle", "asking", "ready", "reserving"},
           call.pc \in {"asking", "ready", "failed", "cancelled"}
    PROVE  MgrHolds(r, T, n) /\ Settles(m, r)
<1>0. m \in MgrT /\ SlotHolds(m) /\ TicketsHold(m) /\ TurnsHold(m, n) /\ AnswersHold(m, T)
  BY DEF MgrHolds
<1>1. r.calls[c] = call /\ \A d \in Prompts : d # c => r.calls[d] = m.calls[d]
  BY DEF Placed
<1>2. SlotHolds(r)
  BY <1>0, <1>1 DEF SlotHolds, Placed
<1>3. ASSUME NEW d \in Prompts, r.calls[d].pc = "reserving" PROVE TicketHolds(r, d)
  <2>1. d # c /\ r.calls[d] = m.calls[d] /\ TicketHolds(m, d)
    BY <1>0, <1>1, <1>3 DEF TicketsHold
  <2>2. m.calls[d].ticket = m.ticket => r.inflight = m.inflight
    BY <2>1 DEF TicketHolds, Placed
  <2> QED  BY <1>1, <2>1, <2>2 DEF TicketHolds, Placed
<1>4. TicketsHold(r)
  BY <1>3 DEF TicketsHold
<1>5. TurnsHold(r, n)
  BY <1>0 DEF TurnsHold, Placed
<1>6. AnswersHold(r, T)
  BY <1>0, <1>1 DEF AnswersHold
<1>7. Settles(m, r)
  BY <1>1 DEF Settles, CallsKept, Placed, Early
<1> QED  BY <1>2, <1>4, <1>5, <1>6, <1>7 DEF MgrHolds, Placed

\* A call goes on to another place, and nothing else does.
LEMMA CallGoes ==
    ASSUME NEW m, NEW T, NEW n \in Nat, MgrHolds(m, T, n), NEW c \in Prompts,
           m.calls[c].pc \in {"idle", "asking", "ready", "reserving"},
           NEW pc \in {"asking", "ready", "failed", "cancelled"}
    PROVE  MgrHolds([m EXCEPT !.calls[c].pc = pc], T, n) /\ Settles(m, [m EXCEPT !.calls[c].pc = pc])
<1> DEFINE call == [m.calls[c] EXCEPT !.pc = pc]
           r == [m EXCEPT !.calls[c].pc = pc]
<1>1. m \in MgrT /\ pc \in CallPlaces
  BY DEF MgrHolds, CallPlaces
<1>2. Placed(m, r, c, call) /\ call.pc = pc /\ call.from = m.calls[c].from
  BY <1>1, PlacedIs
<1> HIDE DEF r, call
<1>3. MgrHolds(r, T, n) /\ Settles(m, r)
  BY <1>2, PlacedHolds
<1> QED  BY <1>3 DEF r

LEMMA SpendsTyped ==
    ASSUME spare \in TurnLoad, NEW what \in {"calls", "hooks", "enters", "users", "switches", "stops", "steers", "pauses", "exits"},
           Spends(what)
    PROVE  spare' \in TurnLoad
<1> DEFINE left == spare[what] - 1
<1>1. spare[what] \in Nat /\ spare[what] > 0
  BY DEF Spends, TurnLoad
<1>2. left \in Nat
  BY <1>1
<1>3. spare' = [spare EXCEPT ![what] = left]
  BY DEF Spends, TurnLoad
<1> HIDE DEF left
<1> QED  BY <1>2, <1>3 DEF TurnLoad

LEMMA AsksKeeps ==
    ASSUME TurnsInv, NEW c \in Prompts, Asks(c)
    PROVE  TurnsInv'
<1>0. TurnTyped /\ MgrHolds(mgr, Taken, Len(record)) /\ Len(record) \in Nat
  BY DEF TurnsInv, TurnTyped
<1>1. MgrHolds(mgr', Taken, Len(record)) /\ Settles(mgr, mgr')
  BY <1>0, CallGoes DEF Asks
<1>2. spare' \in TurnLoad
  BY <1>0, SpendsTyped DEF Asks, TurnTyped
<1> QED  BY <1>1, <1>2, QuietStep DEF Asks

LEMMA IdleSeenKeeps ==
    ASSUME TurnsInv, NEW c \in Prompts, IdleSeen(c)
    PROVE  TurnsInv'
<1>0. TurnTyped /\ MgrHolds(mgr, Taken, Len(record)) /\ Len(record) \in Nat
  BY DEF TurnsInv, TurnTyped
<1>1. MgrHolds(mgr', Taken, Len(record)) /\ Settles(mgr, mgr')
  BY <1>0, CallGoes DEF IdleSeen
<1>2. spare' \in TurnLoad
  BY <1>0 DEF IdleSeen, TurnTyped
<1> QED  BY <1>1, <1>2, QuietStep DEF IdleSeen

\* A reservation is taken: it is the newest, and the only one with its ticket.
Taking(m, r, c, call) ==
  /\ r \in MgrT /\ r.sub = m.sub /\ r.turns = m.turns /\ r.attached = m.attached /\ r.failed = m.failed
  /\ r.gen = m.gen /\ r.ticket = m.ticket + 1 /\ r.inflight = TRUE
  /\ \A d \in Prompts : r.calls[d] = IF d = c THEN call ELSE m.calls[d]

LEMMA ReserveHolds ==
    ASSUME NEW m, NEW T, NEW n \in Nat, MgrHolds(m, T, n), NEW c \in Prompts, m.calls[c].pc \in {"idle", "ready"},
           written \in Nat, NEW kind \in {"turn", "steer"}, NEW logical \in Nat, m.sub = 0, ~ m.inflight
    PROVE  LET r == Reserve(m, c, kind, logical) IN
           /\ MgrHolds(r, T, n) /\ r.sub = m.sub /\ r.attached = m.attached /\ r.failed = m.failed /\ r.gen = m.gen
           /\ r.calls[c].pc = "reserving" /\ r.calls[c].from.at \in {0, written}
           /\ \A d \in Prompts : d # c => r.calls[d] = m.calls[d]
<1> DEFINE from == IF m.attached = 0 THEN NoCursor ELSE [thread |-> m.attached, at |-> written]
           idle == IdleCall
           ticket == m.ticket + 1
           pc == "reserving"
           att == m.attached
           call == [idle EXCEPT !.pc = pc, !.kind = kind, !.logical = logical, !.ticket = ticket, !.att = att, !.from = from]
           calls == [m.calls EXCEPT ![c] = call]
           busy == TRUE
           r == [m EXCEPT !.ticket = ticket, !.inflight = busy, !.calls = calls]
<1>0. m \in MgrT /\ SlotHolds(m) /\ TicketsHold(m) /\ TurnsHold(m, n) /\ AnswersHold(m, T) /\ m.attached \in 0..2
      /\ m.calls \in [Prompts -> CallT] /\ m.ticket \in Nat
  BY DEF MgrHolds, MgrT
<1>1. from \in CursorT /\ from.thread = att /\ from.at \in {0, written}
  BY <1>0 DEF NoCursor, CursorT
<1>2. idle \in CallT /\ pc \in CallPlaces /\ att \in 0..2
  BY <1>0 DEF IdleCall, NoCursor, CursorT, CallT, CallPlaces
<1>3. ticket \in Nat
  BY <1>0
<1>4. Reserve(m, c, kind, logical) = r
  BY <1>0 DEF Reserve, MgrT
<1> HIDE DEF from, idle, ticket, pc, att, busy
<1>5. call \in CallT /\ call.pc = pc /\ call.ticket = ticket /\ call.att = att /\ call.from = from
  BY <1>1, <1>2, <1>3 DEF CallT
<1> HIDE DEF call
<1>6. calls \in [Prompts -> CallT] /\ \A d \in Prompts : calls[d] = IF d = c THEN call ELSE m.calls[d]
  BY <1>0, <1>5
<1> HIDE DEF calls
<1>7. busy = TRUE
  BY DEF busy
<1>15. busy \in BOOLEAN
  BY <1>7
<1>16. calls \in [Prompts -> CallT]
  BY <1>6
<1>8. Taking(m, r, c, call)
  <2>1. /\ r \in MgrT /\ r.sub = m.sub /\ r.turns = m.turns /\ r.attached = m.attached /\ r.failed = m.failed
        /\ r.gen = m.gen /\ r.ticket = ticket /\ r.inflight = busy /\ r.calls = calls
    BY <1>0, <1>3, <1>15, <1>16 DEF MgrT
  <2> HIDE DEF r
  <2> QED  BY <2>1, <1>6, <1>7 DEF Taking, ticket
<1> HIDE DEF r
<1>9. r.calls[c] = call /\ \A d \in Prompts : d # c => r.calls[d] = m.calls[d]
  BY <1>8 DEF Taking
<1>10. SlotHolds(r)
  <2>1. call.pc # "submitted"
    BY <1>5 DEF pc
  <2> QED  BY <1>0, <1>8, <1>9, <2>1, PromptsNat DEF SlotHolds, Taking
<1>11. TicketsHold(r)
  <2>0. \A d \in Prompts : d # c /\ m.calls[d].pc = "reserving" => m.calls[d].ticket < ticket
        /\ m.calls[d].ticket \in Nat
    BY <1>0 DEF TicketsHold, TicketHolds, MgrT, CallT, ticket
  <2>2. r.ticket = ticket /\ r.inflight = TRUE /\ r.sub = 0
    BY <1>8 DEF Taking, ticket
  <2>1. ASSUME NEW d \in Prompts, r.calls[d].pc = "reserving" PROVE TicketHolds(r, d)
    <3>1. CASE d = c
      BY <1>1, <1>3, <1>5, <1>9, <2>0, <2>2, <3>1 DEF TicketHolds
    <3>2. CASE d # c
      <4>1. r.calls[d] = m.calls[d] /\ TicketHolds(m, d) /\ m.calls[d].ticket < ticket /\ m.calls[d].ticket \in Nat
        BY <1>0, <1>9, <2>0, <2>1, <3>2 DEF TicketsHold
      <4> QED  BY <1>3, <2>2, <4>1 DEF TicketHolds
    <3> QED  BY <3>1, <3>2
  <2> QED  BY <2>1 DEF TicketsHold
<1>12. TurnsHold(r, n)
  BY <1>0, <1>8 DEF TurnsHold, Taking
<1>13. AnswersHold(r, T)
  BY <1>0, <1>5, <1>9 DEF AnswersHold, pc
<1>14. MgrHolds(r, T, n)
  BY <1>8, <1>10, <1>11, <1>12, <1>13 DEF MgrHolds, Taking
<1> QED  BY <1>1, <1>4, <1>5, <1>8, <1>9, <1>14 DEF Taking, pc

LEMMA LooksStay ==
    ASSUME LooksHold, Len(record) \in Nat, Len(record)' \in Nat, Taken \subseteq Taken', Len(record) <= Len(record)',
           mgr'.attached # 0 \/ \A c \in Taken : mgr'.sub = c => mgr.sub = c /\ mgr.attached = mgr'.attached
    PROVE  /\ look' = look => LookOk(look', mgr', Taken', Len(record)')
           /\ pause' = pause => LookOk(pause', mgr', Taken', Len(record)')
<1>1. LookOk(look, mgr, Taken, Len(record)) /\ LookOk(pause, mgr, Taken, Len(record))
  BY DEF LooksHold
<1>2. LookOk(look, mgr', Taken', Len(record)') /\ LookOk(pause, mgr', Taken', Len(record)')
  BY <1>1, LookMonotone
<1> QED  BY <1>2

LEMMA NoLookOk ==
    ASSUME NEW m, NEW T, NEW n
    PROVE  LookOk(NoLook, m, T, n)
BY DEF LookOk

LEMMA ReserveKeeps ==
    ASSUME TurnsInv, NEW c \in Prompts, mgr.calls[c].pc \in {"idle", "ready"}, NEW kind \in {"turn", "steer"},
           NEW logical \in Nat, mgr' = Reserve(mgr, c, kind, logical), spare' \in TurnLoad,
           UNCHANGED <<provider, agent, record, written, hooks, held, look, pause>>
    PROVE  TurnsInv'
<1>0. TurnTyped /\ RestHolds /\ MgrHolds(mgr, Taken, Len(record)) /\ Len(record) \in Nat /\ written \in Nat
  BY DEF TurnsInv, TurnTyped
<1>1. CASE mgr.sub # 0 \/ mgr.inflight
  <2>1. mgr' = [mgr EXCEPT !.calls[c].pc = "failed"]
    BY <1>1 DEF Reserve
  <2>2. mgr.calls[c].pc \in {"idle", "asking", "ready", "reserving"}
        /\ "failed" \in {"asking", "ready", "failed", "cancelled"}
    OBVIOUS
  <2>3. MgrHolds([mgr EXCEPT !.calls[c].pc = "failed"], Taken, Len(record))
        /\ Settles(mgr, [mgr EXCEPT !.calls[c].pc = "failed"])
    BY <1>0, <2>2, CallGoes
  <2>4. MgrHolds(mgr', Taken, Len(record)) /\ Settles(mgr, mgr')
    BY <2>1, <2>3
  <2> QED  BY <2>4, QuietStep
<1>2. CASE mgr.sub = 0 /\ ~ mgr.inflight
  <2>1. /\ MgrHolds(mgr', Taken, Len(record)) /\ mgr'.sub = mgr.sub /\ mgr'.attached = mgr.attached
        /\ mgr'.failed = mgr.failed /\ mgr'.gen = mgr.gen
        /\ mgr'.calls[c].pc = "reserving" /\ mgr'.calls[c].from.at \in {0, written}
        /\ \A d \in Prompts : d # c => mgr'.calls[d] = mgr.calls[d]
    BY <1>0, <1>2, ReserveHolds
  <2>2. Taken' = Taken /\ Len(record)' = Len(record)
    BY RecordSame
  <2>3. RecordHolds'
    <3>1. mgr'.calls[c].from.at <= Len(record)
      BY <1>0, <2>1 DEF RestHolds, RecordHolds
    <3> QED  BY <1>0, <2>1, <3>1, RecordReserves DEF RestHolds, Early, TurnTyped
  <2>4. LooksHold'
    BY <1>0, <2>1, <2>2, LooksStay DEF RestHolds, LooksHold
  <2>5. HooksHold' /\ ProcessHolds' /\ StartsFirst'
    BY <1>0, <2>1, <2>2 DEF RestHolds, HooksHold, ProcessHolds, StartsFirst
  <2>6. TurnTyped'
    BY <1>0, <2>1 DEF TurnTyped, MgrHolds
  <2> QED  BY <2>1, <2>2, <2>3, <2>4, <2>5, <2>6 DEF TurnsInv, RestHolds
<1> QED  BY <1>1, <1>2

LEMMA StartTurnKeeps ==
    ASSUME TurnsInv, NEW c \in Prompts, StartTurn(c)
    PROVE  TurnsInv'
<1>0. TurnTyped /\ MgrHolds(mgr, Taken, Len(record)) /\ Len(record) \in Nat /\ mgr.calls[c].pc = "ready"
      /\ spare' \in TurnLoad
  BY DEF TurnsInv, TurnTyped, StartTurn
<1>1. CASE mgr' = [mgr EXCEPT !.calls[c].pc = "failed"]
  <2>1. MgrHolds(mgr', Taken, Len(record)) /\ Settles(mgr, mgr')
    BY <1>0, <1>1, CallGoes
  <2> QED  BY <1>0, <2>1, QuietStep DEF StartTurn
<1>2. CASE mgr' = Reserve(mgr, c, "turn", 0)
  BY <1>0, <1>2, ReserveKeeps DEF StartTurn
<1> QED  BY <1>1, <1>2 DEF StartTurn

LEMMA SteerTurnKeeps ==
    ASSUME TurnsInv, NEW c \in Prompts, SteerTurn(c)
    PROVE  TurnsInv'
<1>0. TurnTyped /\ mgr.calls[c].pc = "idle" /\ mgr.turns \subseteq TurnT
  BY DEF TurnsInv, TurnTyped, SteerTurn, MgrT
<1>1. PICK t \in mgr.turns : mgr' = Reserve(mgr, c, "steer", t.id)
  BY DEF SteerTurn
<1>2. t.id \in Nat
  BY <1>0, <1>1 DEF TurnT
<1>3. spare' \in TurnLoad
  BY <1>0, SpendsTyped DEF SteerTurn, TurnTyped
<1> QED  BY <1>0, <1>1, <1>2, <1>3, ReserveKeeps DEF SteerTurn

\* The slot goes to the call whose reservation is the newest.
LEMMA TakeHolds ==
    ASSUME NEW m, NEW T, NEW n \in Nat, MgrHolds(m, T, n), NEW c \in Prompts, m.calls[c].pc = "reserving",
           m.ticket = m.calls[c].ticket, m.attached = m.calls[c].att
    PROVE  LET r == [[m EXCEPT !.inflight = FALSE] EXCEPT !.sub = c, !.calls[c].pc = "submitted"] IN
           /\ MgrHolds(r, T, n) /\ CallsKept(m, r) /\ r.sub = c /\ r.attached = m.attached /\ r.failed = m.failed
           /\ r.gen = m.gen /\ r.calls[c].pc = "submitted"
<1> DEFINE idle == FALSE
           l == [m EXCEPT !.inflight = idle]
           pc == "submitted"
           call == [m.calls[c] EXCEPT !.pc = pc]
           calls == [m.calls EXCEPT ![c] = call]
           r == [l EXCEPT !.sub = c, !.calls = calls]
<1>0. m \in MgrT /\ SlotHolds(m) /\ TicketsHold(m) /\ TurnsHold(m, n) /\ AnswersHold(m, T) /\ TicketHolds(m, c)
      /\ m.calls \in [Prompts -> CallT] /\ m.calls[c] \in CallT /\ c \in Prompts \cup {0} /\ idle \in BOOLEAN /\ c # 0
      /\ pc \in CallPlaces
  BY PromptsNat DEF MgrHolds, MgrT, TicketsHold, CallPlaces
<1>1. call \in CallT /\ call.pc = "submitted" /\ call.from = m.calls[c].from
  BY <1>0 DEF CallT
<1> HIDE DEF idle
<1>2. l \in MgrT /\ l.sub = m.sub /\ l.turns = m.turns /\ l.attached = m.attached /\ l.failed = m.failed
      /\ l.gen = m.gen
      /\ l.ticket = m.ticket /\ l.inflight = idle /\ l.calls = m.calls
  BY <1>0 DEF MgrT
<1> HIDE DEF l
<1>3. [l EXCEPT !.sub = c, !.calls[c].pc = pc] = r
  BY <1>0, <1>2 DEF MgrT
<1> HIDE DEF call
<1>4. calls \in [Prompts -> CallT] /\ calls[c] = call /\ \A d \in Prompts : d # c => calls[d] = m.calls[d]
  BY <1>0, <1>1
<1>5. calls \in [Prompts -> CallT]
  BY <1>4
<1> HIDE DEF calls
<1>6. r \in MgrT /\ r.sub = c /\ r.turns = l.turns /\ r.attached = l.attached /\ r.failed = l.failed /\ r.gen = l.gen
      /\ r.ticket = l.ticket /\ r.inflight = l.inflight /\ r.calls = calls
  BY <1>0, <1>2, <1>5 DEF MgrT
<1> HIDE DEF r
<1>7. m.sub = 0 /\ \A d \in Prompts : m.calls[d].pc = "reserving" /\ m.calls[d].ticket = m.ticket => d = c
  BY <1>0 DEF TicketHolds
<1>8. SlotHolds(r)
  BY <1>0, <1>1, <1>2, <1>4, <1>6, <1>7, PromptsNat DEF SlotHolds, TicketHolds
<1>9. TicketsHold(r)
  <2>1. ASSUME NEW d \in Prompts, r.calls[d].pc = "reserving" PROVE TicketHolds(r, d)
    <3>1. d # c /\ r.calls[d] = m.calls[d] /\ TicketHolds(m, d)
      BY <1>0, <1>1, <1>4, <1>6, <2>1 DEF TicketsHold
    <3>2. m.calls[d].ticket # m.ticket
      BY <1>6, <1>4, <1>7, <2>1, <3>1
    <3> QED  BY <1>2, <1>6, <3>1, <3>2 DEF TicketHolds
  <2> QED  BY <2>1 DEF TicketsHold
<1>10. TurnsHold(r, n)
  BY <1>0, <1>2, <1>6 DEF TurnsHold
<1>11. AnswersHold(r, T)
  BY <1>0, <1>1, <1>4, <1>6 DEF AnswersHold
<1>12. CallsKept(m, r)
  BY <1>1, <1>4, <1>6 DEF CallsKept, Early
<1> QED  BY <1>1, <1>2, <1>3, <1>4, <1>6, <1>8, <1>9, <1>10, <1>11, <1>12 DEF MgrHolds, l, idle, pc

\* A reservation comes to nothing: what was in flight is, if it was this one.
LEMMA DropHolds ==
    ASSUME NEW m, NEW T, NEW n \in Nat, MgrHolds(m, T, n), NEW c \in Prompts, m.calls[c].pc = "reserving",
           NEW l, l = m \/ (l = [m EXCEPT !.inflight = FALSE] /\ m.ticket = m.calls[c].ticket),
           NEW pc \in {"failed", "cancelled"}
    PROVE  MgrHolds([l EXCEPT !.calls[c].pc = pc], T, n) /\ Settles(m, [l EXCEPT !.calls[c].pc = pc])
<1> DEFINE r == [l EXCEPT !.calls[c].pc = pc]
           call == [l.calls[c] EXCEPT !.pc = pc]
           idle == FALSE
<1>0. m \in MgrT /\ pc \in CallPlaces /\ idle \in BOOLEAN
  BY DEF MgrHolds, CallPlaces
<1>1. l \in MgrT /\ l.sub = m.sub /\ l.turns = m.turns /\ l.attached = m.attached /\ l.failed = m.failed
      /\ l.gen = m.gen /\ l.ticket = m.ticket /\ (l.inflight = m.inflight \/ m.ticket = m.calls[c].ticket)
         /\ l.calls = m.calls
  <2>1. CASE l = m
    BY <1>0, <2>1
  <2>2. CASE l = [m EXCEPT !.inflight = idle] /\ m.ticket = m.calls[c].ticket
    <3> HIDE DEF idle
    <3>1. l = [m EXCEPT !.inflight = idle]
      BY <2>2
    <3>2. /\ l \in MgrT /\ l.sub = m.sub /\ l.turns = m.turns /\ l.attached = m.attached /\ l.failed = m.failed
          /\ l.gen = m.gen /\ l.ticket = m.ticket /\ l.calls = m.calls
      BY <1>0, <3>1 DEF MgrT
    <3> QED  BY <2>2, <3>2
  <2> QED  BY <2>1, <2>2
<1>2. Placed(l, r, c, call) /\ call.pc = pc /\ call.from = l.calls[c].from
  BY <1>0, <1>1, PlacedIs
<1> HIDE DEF r, call
<1>3. Placed(m, r, c, call)
  BY <1>1, <1>2 DEF Placed
<1>4. MgrHolds(r, T, n) /\ Settles(m, r)
  BY <1>1, <1>2, <1>3, PlacedHolds
<1> QED  BY <1>4 DEF r

-----------------------------------------------------------------------------
(* The steps. *)

\* The manager answers, or an Enter is sent, or a look begins or ends: nothing is read of what is typed.
LEMMA SettleStep ==
    ASSUME TurnsInv, record' = record, written' = written, hooks' = hooks, held' = held, provider' = provider,
           spare' \in TurnLoad, agent' \in AgentT, agent'.up = agent.up, agent'.thread = agent.thread,
           agent'.busy = agent.busy, agent'.box = agent.box,
           MgrHolds(mgr', Taken, Len(record)), Settles(mgr, mgr'),
           look' \in LookT, pause' \in LookT,
           LookOk(look', mgr, Taken, Len(record)), LookOk(pause', mgr, Taken, Len(record))
    PROVE  TurnsInv'
<1>0. TurnTyped /\ RestHolds /\ MgrHolds(mgr, Taken, Len(record))
  BY DEF TurnsInv
<1>1. Taken' = Taken /\ Len(record)' = Len(record)
  BY RecordSame
<1>2. TurnTyped'
  BY <1>0 DEF TurnTyped, MgrHolds
<1>3. RecordHolds'
  BY <1>0, RecordStays DEF RestHolds, Settles, RecordHolds, Untyped
<1>4. HooksHold'
  BY <1>0, <1>1 DEF RestHolds, HooksHold
<1>5. LooksHold'
  <2>1. Len(record) \in Nat /\ mgr.sub \in Prompts \cup {0} /\ 0 \notin Taken
    BY <1>0, PromptsNat DEF TurnTyped, MgrHolds, MgrT, Taken
  <2>2. \A c \in Taken : mgr'.sub = c => mgr.sub = c /\ mgr.attached = mgr'.attached
    BY <2>1 DEF Settles
  <2>4. LookOk(look', mgr', Taken, Len(record)) /\ LookOk(pause', mgr', Taken, Len(record))
    BY <2>1, <2>2, LookMonotone
  <2> QED  BY <1>1, <2>4 DEF LooksHold
<1>6. ProcessHolds' /\ StartsFirst'
  BY <1>0, <1>1 DEF RestHolds, ProcessHolds, StartsFirst, Settles
<1>7. MgrHolds(mgr, Taken, Len(record))'
  BY <1>1
<1> QED  BY <1>2, <1>3, <1>4, <1>5, <1>6, <1>7 DEF TurnsInv, RestHolds

LEMMA ReserveEndsKeeps ==
    ASSUME TurnsInv, NEW c \in Prompts, ReserveEnds(c)
    PROVE  TurnsInv'
<1>0. /\ TurnTyped /\ RestHolds /\ MgrHolds(mgr, Taken, Len(record)) /\ Len(record) \in Nat
      /\ mgr.calls[c].pc = "reserving" /\ spare' \in TurnLoad
      /\ UNCHANGED <<provider, record, written, hooks, held, look, pause>>
  BY DEF TurnsInv, TurnTyped, ReserveEnds
<1>1. CASE Reserved(mgr, c) /\ agent.up
  <2>1. /\ mgr' = [[mgr EXCEPT !.inflight = FALSE] EXCEPT !.sub = c, !.calls[c].pc = "submitted"]
        /\ agent' = [agent EXCEPT !.box = IF @ = 0 THEN c ELSE Mixed, !.enters = @ + 1]
        /\ mgr.ticket = mgr.calls[c].ticket /\ mgr.attached = mgr.calls[c].att
    BY <1>1 DEF ReserveEnds, Reserved
  <2>2. /\ MgrHolds(mgr', Taken, Len(record)) /\ CallsKept(mgr, mgr') /\ mgr'.sub = c /\ mgr'.attached = mgr.attached
        /\ mgr'.failed = mgr.failed /\ mgr'.gen = mgr.gen /\ mgr'.calls[c].pc = "submitted"
    BY <1>0, <2>1, TakeHolds
  <2> DEFINE box == IF agent.box = 0 THEN c ELSE Mixed
             enters == agent.enters + 1
  <2>3. agent' = [agent EXCEPT !.box = box, !.enters = enters] /\ agent \in AgentT
    BY <1>0, <2>1 DEF TurnTyped, AgentT
  <2>4. enters \in Nat
    BY <2>3 DEF AgentT
  <2>5. box \in TextT /\ box \in {c, Mixed}
    BY DEF TextT
  <2> HIDE DEF box, enters
  <2>6. agent' \in AgentT /\ agent'.box = box /\ agent'.up = agent.up /\ agent'.thread = agent.thread
        /\ agent'.busy = agent.busy
    BY <2>3, <2>4, <2>5 DEF AgentT
  <2>7. Taken' = Taken /\ Len(record)' = Len(record)
    BY <1>0, RecordSame
  <2>8. RecordHolds'
    <3>1. \A d \in Prompts : mgr'.calls[d].pc \in Early => agent'.box # d
      BY <2>2, <2>5, <2>6, PromptsNat DEF Early
    <3> QED  BY <1>0, <2>2, <3>1, RecordStays DEF RestHolds, RecordHolds
  <2>9. LooksHold'
    <3>1. c \notin Taken
      BY <1>0 DEF RestHolds, RecordHolds, Untyped, Early
    <3> QED  BY <1>0, <2>2, <2>7, <3>1, LooksStay DEF RestHolds, LooksHold
  <2>10. HooksHold' /\ ProcessHolds' /\ StartsFirst'
    BY <1>0, <1>1, <2>2, <2>6, <2>7 DEF RestHolds, HooksHold, ProcessHolds, StartsFirst
  <2>11. TurnTyped'
    BY <1>0, <2>2, <2>6 DEF TurnTyped, MgrHolds
  <2> QED  BY <2>2, <2>7, <2>8, <2>9, <2>10, <2>11 DEF TurnsInv, RestHolds
<1>2. CASE ~ (Reserved(mgr, c) /\ agent.up)
  <2> DEFINE l == IF mgr.ticket = mgr.calls[c].ticket THEN [mgr EXCEPT !.inflight = FALSE] ELSE mgr
             pc == IF mgr.ticket = mgr.calls[c].ticket THEN "failed" ELSE "cancelled"
  <2>1. mgr' = [l EXCEPT !.calls[c].pc = pc] /\ agent' = agent
    BY <1>2 DEF ReserveEnds
  <2>2. l = mgr \/ (l = [mgr EXCEPT !.inflight = FALSE] /\ mgr.ticket = mgr.calls[c].ticket)
    OBVIOUS
  <2>3. pc \in {"failed", "cancelled"}
    OBVIOUS
  <2> HIDE DEF l, pc
  <2>4. MgrHolds([l EXCEPT !.calls[c].pc = pc], Taken, Len(record)) /\ Settles(mgr, [l EXCEPT !.calls[c].pc = pc])
    BY <1>0, <2>2, <2>3, DropHolds
  <2>5. MgrHolds(mgr', Taken, Len(record)) /\ Settles(mgr, mgr')
    BY <2>1, <2>4
  <2> QED  BY <1>0, <2>1, <2>5, QuietStep
<1> QED  BY <1>1, <1>2

LEMMA PauseReservationKeeps ==
    ASSUME TurnsInv, PauseReservation
    PROVE  TurnsInv'
<1> DEFINE m == mgr
           r == mgr'
           ticket == mgr.ticket + 1
           idle == FALSE
<1>0. /\ TurnTyped /\ mgr \in MgrT /\ SlotHolds(m) /\ TicketsHold(m) /\ TurnsHold(m, Len(record))
         /\ AnswersHold(m, Taken)
      /\ spare \in TurnLoad /\ mgr.sub = 0 /\ Spends("pauses") /\ mgr.ticket \in Nat /\ idle \in BOOLEAN
  BY DEF TurnsInv, TurnTyped, PauseReservation, MgrHolds, MgrT
<1>1. mgr' = [mgr EXCEPT !.ticket = ticket, !.inflight = idle]
  BY <1>0 DEF PauseReservation, MgrT
<1>2. ticket \in Nat /\ ticket > mgr.ticket
  BY <1>0
<1>7. ticket \in Nat
  BY <1>2
<1> HIDE DEF idle, ticket
<1>3. r \in MgrT /\ r.sub = m.sub /\ r.turns = m.turns /\ r.attached = m.attached /\ r.failed = m.failed
      /\ r.gen = m.gen
      /\ r.ticket = ticket /\ r.calls = m.calls
  BY <1>0, <1>1, <1>7 DEF MgrT
<1>4. TicketsHold(r)
  <2>1. ASSUME NEW d \in Prompts, r.calls[d].pc = "reserving" PROVE TicketHolds(r, d)
    <3>1. TicketHolds(m, d) /\ m.calls[d].ticket \in Nat
      BY <1>0, <1>3, <2>1 DEF TicketsHold, MgrT, CallT
    <3> QED  BY <1>0, <1>2, <1>3, <3>1 DEF TicketHolds
  <2> QED  BY <2>1 DEF TicketsHold
<1>5. SlotHolds(r) /\ TurnsHold(r, Len(record)) /\ AnswersHold(r, Taken) /\ Settles(m, r)
  BY <1>0, <1>3 DEF SlotHolds, TurnsHold, AnswersHold, Settles, CallsKept
<1>6. spare' \in TurnLoad
  BY <1>0, SpendsTyped
<1> QED  BY <1>3, <1>4, <1>5, <1>6, QuietStep DEF PauseReservation, MgrHolds

\* What a look finds is so when it looks.
LEMMA LookedOk ==
    ASSUME TurnsInv, NEW c \in Prompts, NEW kind \in {"pause", "retry", "timeout", "reconcile"}
    PROVE  LookedAt(mgr, c, kind) \in LookT /\ LookOk(LookedAt(mgr, c, kind), mgr, Taken, Len(record))
<1> DEFINE e == Evidence(mgr, c)
           l == LookedAt(mgr, c, kind)
<1>0. /\ record \in Seq(EntryT) /\ written \in Nat /\ written <= Len(record) /\ RecordOk /\ mgr \in MgrT
         /\ SlotHolds(mgr)
      /\ Len(record) \in Nat
  BY DEF TurnsInv, TurnTyped, RestHolds, RecordHolds, MgrHolds
<1>1. e.state = "accepted" => c \in Taken /\ e.turn \in 1..Len(record) /\ (mgr.sub = c => mgr.attached # 0)
  BY <1>0, EvidenceTrue
<1>2. e.state \in {"accepted", "not-submitted", "unknown"} /\ (e.state # "accepted" => e.turn = 0)
  BY DEF Evidence
<1> HIDE DEF e
<1>3. e.turn \in Nat
  BY <1>0, <1>1, <1>2
<1>4. l = [call |-> c, kind |-> kind, state |-> e.state, turn |-> e.turn]
  BY DEF LookedAt, e
<1>5. l \in LookT /\ l.call = c /\ l.state = e.state /\ l.turn = e.turn
  BY <1>2, <1>3, <1>4 DEF LookT
<1> QED  BY <1>1, <1>5 DEF LookOk

LEMMA PauseBeginsKeeps ==
    ASSUME TurnsInv, PauseBegins
    PROVE  TurnsInv'
<1>0. /\ TurnTyped /\ mgr \in MgrT /\ mgr.sub # 0 /\ spare \in TurnLoad /\ Spends("pauses") /\ look \in LookT
      /\ LookOk(look, mgr, Taken, Len(record)) /\ agent \in AgentT /\ MgrHolds(mgr, Taken, Len(record))
  BY DEF TurnsInv, TurnTyped, RestHolds, LooksHold, PauseBegins
<1>1. mgr.sub \in Prompts
  BY <1>0 DEF MgrT
<1>2. pause' \in LookT /\ LookOk(pause', mgr, Taken, Len(record))
  BY <1>1, LookedOk DEF PauseBegins
<1>3. spare' \in TurnLoad
  BY <1>0, SpendsTyped
<1>4. Settles(mgr, mgr)
  BY DEF Settles, CallsKept
<1> QED  BY <1>0, <1>2, <1>3, <1>4, SettleStep DEF PauseBegins

\* A call remembers how often it was looked at.
Tuned(m, r, c) ==
  /\ r \in MgrT /\ r.sub = m.sub /\ r.turns = m.turns /\ r.attached = m.attached /\ r.failed = m.failed
  /\ r.gen = m.gen /\ r.ticket = m.ticket /\ r.inflight = m.inflight
  /\ \A d \in Prompts : d # c => r.calls[d] = m.calls[d]
  /\ r.calls[c].pc = m.calls[c].pc /\ r.calls[c].from = m.calls[c].from
  /\ r.calls[c].ticket = m.calls[c].ticket /\ r.calls[c].att = m.calls[c].att

LEMMA TunedIs ==
    ASSUME NEW m \in MgrT, NEW c \in Prompts, NEW tries \in Nat, NEW timed \in BOOLEAN
    PROVE  Tuned(m, [m EXCEPT !.calls[c].tries = tries], c) /\ Tuned(m, [m EXCEPT !.calls[c].timed = timed], c)
<1>0. m.calls[c] \in CallT /\ m.calls \in [Prompts -> CallT]
  BY DEF MgrT
<1>1. ASSUME NEW call \in CallT, call.pc = m.calls[c].pc, call.from = m.calls[c].from, call.ticket = m.calls[c].ticket,
             call.att = m.calls[c].att
      PROVE  Tuned(m, [m EXCEPT !.calls = [m.calls EXCEPT ![c] = call]], c)
  <2> DEFINE calls == [m.calls EXCEPT ![c] = call]
             r == [m EXCEPT !.calls = calls]
  <2>1. calls \in [Prompts -> CallT] /\ calls[c] = call /\ \A d \in Prompts : d # c => calls[d] = m.calls[d]
    BY <1>0
  <2>2. calls \in [Prompts -> CallT]
    BY <2>1
  <2> HIDE DEF calls
  <2>3. r \in MgrT /\ r.sub = m.sub /\ r.turns = m.turns /\ r.attached = m.attached /\ r.failed = m.failed
        /\ r.gen = m.gen /\ r.ticket = m.ticket /\ r.inflight = m.inflight /\ r.calls = calls
    BY <2>2 DEF MgrT
  <2> HIDE DEF r
  <2>4. Tuned(m, r, c)
    BY <1>1, <2>1, <2>3 DEF Tuned
  <2> QED  BY <2>4 DEF r, calls
<1>2. /\ [m.calls[c] EXCEPT !.tries = tries] \in CallT
      /\ [m.calls[c] EXCEPT !.tries = tries].pc = m.calls[c].pc
      /\ [m.calls[c] EXCEPT !.tries = tries].from = m.calls[c].from
      /\ [m.calls[c] EXCEPT !.tries = tries].ticket = m.calls[c].ticket
      /\ [m.calls[c] EXCEPT !.tries = tries].att = m.calls[c].att
  BY <1>0 DEF CallT
<1>3. /\ [m.calls[c] EXCEPT !.timed = timed] \in CallT
      /\ [m.calls[c] EXCEPT !.timed = timed].pc = m.calls[c].pc
      /\ [m.calls[c] EXCEPT !.timed = timed].from = m.calls[c].from
      /\ [m.calls[c] EXCEPT !.timed = timed].ticket = m.calls[c].ticket
      /\ [m.calls[c] EXCEPT !.timed = timed].att = m.calls[c].att
  BY <1>0 DEF CallT
<1>4. /\ [m EXCEPT !.calls[c].tries = tries] = [m EXCEPT !.calls = [m.calls EXCEPT ![c] = [m.calls[c] EXCEPT !.tries = tries]]]
      /\ [m EXCEPT !.calls[c].timed = timed] = [m EXCEPT !.calls = [m.calls EXCEPT ![c] = [m.calls[c] EXCEPT !.timed = timed]]]
  BY <1>0 DEF MgrT
<1>5. Tuned(m, [m EXCEPT !.calls = [m.calls EXCEPT ![c] = [m.calls[c] EXCEPT !.tries = tries]]], c)
  BY <1>1, <1>2
<1>6. Tuned(m, [m EXCEPT !.calls = [m.calls EXCEPT ![c] = [m.calls[c] EXCEPT !.timed = timed]]], c)
  BY <1>1, <1>3
<1> QED  BY <1>4, <1>5, <1>6

LEMMA TunedHolds ==
    ASSUME NEW m, NEW T, NEW n \in Nat, MgrHolds(m, T, n), NEW c \in Prompts, NEW r, Tuned(m, r, c)
    PROVE  MgrHolds(r, T, n) /\ Settles(m, r)
<1>0. m \in MgrT /\ SlotHolds(m) /\ TicketsHold(m) /\ TurnsHold(m, n) /\ AnswersHold(m, T)
  BY DEF MgrHolds
<1>1. \A d \in Prompts : /\ r.calls[d].pc = m.calls[d].pc /\ r.calls[d].from = m.calls[d].from
                         /\ r.calls[d].ticket = m.calls[d].ticket /\ r.calls[d].att = m.calls[d].att
  BY DEF Tuned
<1>2. r.sub = m.sub /\ r.attached = m.attached /\ r.turns = m.turns /\ r.ticket = m.ticket /\ r.inflight = m.inflight
      /\ r.failed = m.failed /\ r.gen = m.gen /\ r \in MgrT
  BY DEF Tuned
<1>3. SlotHolds(r)
  BY <1>0, <1>1, <1>2 DEF SlotHolds
<1>4. TicketsHold(r)
  <2>1. ASSUME NEW d \in Prompts, r.calls[d].pc = "reserving" PROVE TicketHolds(r, d)
    <3>1. TicketHolds(m, d)
      BY <1>0, <1>1, <2>1 DEF TicketsHold
    <3> QED  BY <1>1, <1>2, <3>1 DEF TicketHolds
  <2> QED  BY <2>1 DEF TicketsHold
<1>5. TurnsHold(r, n) /\ AnswersHold(r, T) /\ Settles(m, r)
  BY <1>0, <1>1, <1>2 DEF TurnsHold, AnswersHold, Settles, CallsKept
<1> QED  BY <1>2, <1>3, <1>4, <1>5 DEF MgrHolds

LEMMA LookBeginsKeeps ==
    ASSUME TurnsInv, LookBegins
    PROVE  TurnsInv'
<1> DEFINE c == mgr.sub
           call == mgr.calls[c]
           tries == IF LookKind(call) = "retry" THEN call.tries + 1 ELSE call.tries
<1>0. /\ TurnTyped /\ mgr \in MgrT /\ c # 0 /\ spare' \in TurnLoad /\ pause \in LookT
         /\ MgrHolds(mgr, Taken, Len(record))
      /\ LookOk(pause, mgr, Taken, Len(record)) /\ agent' \in AgentT /\ Len(record) \in Nat
  BY DEF TurnsInv, TurnTyped, RestHolds, LooksHold, LookBegins
<1>1. c \in Prompts /\ call \in CallT
  BY <1>0 DEF MgrT
<1>2. LookKind(call) \in {"reconcile", "retry", "timeout"}
  BY DEF LookKind
<1>3. look' \in LookT /\ LookOk(look', mgr, Taken, Len(record))
  BY <1>1, <1>2, LookedOk DEF LookBegins
<1>4. mgr' = [mgr EXCEPT !.calls[c].tries = tries]
  BY <1>0, <1>1 DEF LookBegins, MgrT, CallT
<1>5. tries \in Nat
  BY <1>1 DEF CallT
<1> HIDE DEF tries, c
<1>6. Tuned(mgr, mgr', c)
  BY <1>0, <1>1, <1>4, <1>5, TunedIs
<1>7. MgrHolds(mgr', Taken, Len(record)) /\ Settles(mgr, mgr')
  BY <1>0, <1>1, <1>6, TunedHolds
<1> QED  BY <1>0, <1>3, <1>7, SettleStep DEF LookBegins

LEMMA LookEndsKeeps ==
    ASSUME TurnsInv, LookEnds
    PROVE  TurnsInv'
<1> DEFINE c == look.call
           enters == agent.enters + 1
<1>0. /\ TurnTyped /\ mgr \in MgrT /\ spare' \in TurnLoad /\ pause \in LookT /\ MgrHolds(mgr, Taken, Len(record))
      /\ LookOk(pause, mgr, Taken, Len(record)) /\ LookOk(look, mgr, Taken, Len(record)) /\ look # NoLook
      /\ agent \in AgentT /\ Len(record) \in Nat /\ written \in Nat
  BY DEF TurnsInv, TurnTyped, RestHolds, LooksHold, LookEnds
<1>1. c \in Prompts
  BY <1>0 DEF LookOk
<1>2. look' \in LookT /\ LookOk(look', mgr, Taken, Len(record))
  BY NoLookOk DEF LookEnds, NoLook, LookT
<1>3. agent' \in AgentT /\ agent'.up = agent.up /\ agent'.thread = agent.thread /\ agent'.busy = agent.busy
      /\ agent'.box = agent.box
  <2>1. CASE agent' = agent
    BY <1>0, <2>1
  <2>2. CASE agent' = [agent EXCEPT !.enters = enters]
    <3>1. enters \in Nat
      BY <1>0 DEF AgentT
    <3> HIDE DEF enters
    <3> QED  BY <1>0, <2>2, <3>1 DEF AgentT
  <2>3. agent' = agent \/ agent' = [agent EXCEPT !.enters = enters]
    BY <1>0 DEF LookEnds, AgentT
  <2> QED  BY <2>1, <2>2, <2>3
<1>4. MgrHolds(mgr', Taken, Len(record)) /\ Settles(mgr, mgr')
  <2>1. CASE mgr' = mgr
    BY <1>0, <2>1 DEF Settles, CallsKept
  <2>2. CASE mgr' = Reject(mgr)
    BY <1>0, <2>2, RejectHolds
  <2>3. CASE mgr' = [mgr EXCEPT !.calls[c].timed = TRUE]
    <3>1. Tuned(mgr, mgr', c)
      BY <1>0, <1>1, <2>3, TunedIs
    <3> QED  BY <1>0, <1>1, <3>1, TunedHolds
  <2>4. CASE look.state = "accepted" /\ mgr' = Recover(mgr, c, look.turn)
    <3>1. mgr.sub = c => c \in Taken /\ mgr.attached # 0 /\ look.turn \in 1..Len(record)
      BY <1>0, <2>4 DEF LookOk
    <3> QED  BY <1>0, <1>1, <2>4, <3>1, RecoverHolds
  <2> QED  BY <2>1, <2>2, <2>3, <2>4 DEF LookEnds
<1> QED  BY <1>0, <1>2, <1>3, <1>4, SettleStep DEF LookEnds

LEMMA PollKeeps ==
    ASSUME TurnsInv, Poll
    PROVE  TurnsInv'
<1>1. PICK t \in mgr.turns : mgr' = FinishTurn(mgr, t)
  BY DEF Poll
<1>2. /\ record \in Seq(EntryT) /\ written \in Nat /\ written <= Len(record) /\ RecordOk
      /\ MgrHolds(mgr, Taken, Len(record)) /\ spare' \in TurnLoad
  BY DEF TurnsInv, TurnTyped, RestHolds, RecordHolds, Poll
<1>3. MgrHolds(mgr', Taken, Len(record)) /\ Settles(mgr, mgr')
  BY <1>1, <1>2, FinishTurnHolds
<1> QED  BY <1>2, <1>3, QuietStep DEF Poll

LEMMA FlushKeeps ==
    ASSUME TurnsInv, Flush
    PROVE  TurnsInv'
<1>0. TurnTyped /\ RestHolds /\ MgrHolds(mgr, Taken, Len(record)) /\ Len(record) \in Nat
      /\ UNCHANGED <<provider, agent, record, hooks, held, mgr, look, pause, spare>> /\ written' = Len(record)
  BY DEF TurnsInv, TurnTyped, Flush
<1>1. Taken' = Taken /\ Len(record)' = Len(record)
  BY <1>0, RecordSame
<1>2. TurnTyped'
  BY <1>0 DEF TurnTyped
<1>3. RecordHolds'
  BY <1>0, RecordStays DEF RestHolds, RecordHolds, Untyped, CallsKept
<1>4. HooksHold' /\ LooksHold' /\ ProcessHolds' /\ StartsFirst'
  BY <1>0, <1>1 DEF RestHolds, HooksHold, LooksHold, ProcessHolds, StartsFirst
<1> QED  BY <1>0, <1>1, <1>2, <1>3, <1>4 DEF TurnsInv, RestHolds

LEMMA UserSwitchesKeeps ==
    ASSUME TurnsInv, UserSwitches
    PROVE  TurnsInv'
<1> DEFINE h == [what |-> "start", thread |-> 2, turn |-> 0, text |-> 0]
<1>0. /\ TurnTyped /\ RestHolds /\ MgrHolds(mgr, Taken, Len(record)) /\ Len(record) \in Nat /\ agent \in AgentT
      /\ UNCHANGED <<provider, record, written, held, mgr, look, pause>> /\ agent.up /\ agent.thread = 1
      /\ agent' = [agent EXCEPT !.thread = 2] /\ hooks' = Append(hooks, h) /\ HooksFit(hooks, Taken, Len(record))
  BY DEF TurnsInv, TurnTyped, RestHolds, HooksHold, UserSwitches
<1>1. Taken' = Taken /\ Len(record)' = Len(record)
  BY <1>0, RecordSame
<1>2. spare' \in TurnLoad
  BY <1>0, SpendsTyped DEF TurnTyped, UserSwitches
<1>3. agent' \in AgentT /\ agent'.thread # 0 /\ agent'.up = agent.up /\ agent'.busy = agent.busy
      /\ agent'.box = agent.box
  <2> DEFINE two == 2
  <2>1. agent' = [agent EXCEPT !.thread = two] /\ two \in 0..2 /\ two # 0
    BY <1>0
  <2> HIDE DEF two
  <2> QED  BY <1>0, <2>1 DEF AgentT
<1>4. h \in HookT /\ HookOk(h, Taken, Len(record))
  BY DEF HookT, HookOk, TextT
<1> HIDE DEF h
<1>5. HooksFit(hooks', Taken, Len(record)) /\ (hooks # <<>> => Head(hooks') = Head(hooks)) /\ hooks' # <<>>
  BY <1>0, <1>4, HooksAppend
<1>6. TurnTyped'
  BY <1>0, <1>2, <1>3, <1>5 DEF TurnTyped, HooksFit
<1>7. RecordHolds'
  BY <1>0, <1>3, RecordStays DEF RestHolds, RecordHolds, Untyped, CallsKept
<1>8. StartsFirst'
  BY <1>0, <1>3, <1>5 DEF RestHolds, StartsFirst
<1>9. HooksHold' /\ LooksHold' /\ ProcessHolds'
  BY <1>0, <1>1, <1>3, <1>5 DEF RestHolds, HooksHold, LooksHold, ProcessHolds
<1> QED  BY <1>0, <1>1, <1>6, <1>7, <1>8, <1>9 DEF TurnsInv, RestHolds

LEMMA HookLostKeeps ==
    ASSUME TurnsInv, HookLost
    PROVE  TurnsInv'
<1>0. /\ TurnTyped /\ RestHolds /\ MgrHolds(mgr, Taken, Len(record)) /\ Len(record) \in Nat
      /\ UNCHANGED <<provider, agent, record, written, held, mgr, look, pause>> /\ hooks # <<>>
         /\ Head(hooks).what # "start"
      /\ hooks' = Tail(hooks) /\ HooksFit(hooks, Taken, Len(record))
  BY DEF TurnsInv, TurnTyped, RestHolds, HooksHold, HookLost
<1>1. Taken' = Taken /\ Len(record)' = Len(record)
  BY <1>0, RecordSame
<1>2. spare' \in TurnLoad
  BY <1>0, SpendsTyped DEF TurnTyped, HookLost
<1>5. HooksFit(hooks', Taken, Len(record))
  BY <1>0, HooksTail
<1>6. TurnTyped'
  BY <1>0, <1>2, <1>5 DEF TurnTyped, HooksFit
<1>7. RecordHolds'
  BY <1>0, RecordStays DEF RestHolds, RecordHolds, Untyped, CallsKept
<1>8. StartsFirst' /\ ProcessHolds'
  BY <1>0, <1>1 DEF RestHolds, StartsFirst, ProcessHolds
<1>9. HooksHold' /\ LooksHold'
  BY <1>0, <1>1, <1>5 DEF RestHolds, HooksHold, LooksHold
<1> QED  BY <1>0, <1>1, <1>6, <1>7, <1>8, <1>9 DEF TurnsInv, RestHolds

LEMMA HeldEndsKeeps ==
    ASSUME TurnsInv, HeldEnds
    PROVE  TurnsInv'
<1> DEFINE cursor == [thread |-> held.thread, at |-> written]
<1>0. /\ TurnTyped /\ RestHolds /\ MgrHolds(mgr, Taken, Len(record)) /\ Len(record) \in Nat /\ mgr \in MgrT
      /\ UNCHANGED <<provider, agent, record, written, hooks, look, pause, spare>> /\ held # NoHeld /\ held' = NoHeld
      /\ held.thread \in 0..2 /\ written \in Nat
      /\ mgr' = CASE provider # "codex" -> [mgr EXCEPT !.cursor = cursor]
                  [] provider = "codex" /\ held.gen = mgr.gen -> Attach(mgr, held.thread, cursor)
                  [] OTHER -> mgr
  BY DEF TurnsInv, TurnTyped, MgrHolds, HeldEnds
<1>1. Taken' = Taken /\ Len(record)' = Len(record)
  BY <1>0, RecordSame
<1>2. cursor \in CursorT
  BY <1>0 DEF CursorT
<1> HIDE DEF cursor
<1>3. /\ MgrHolds(mgr', Taken, Len(record)) /\ CallsKept(mgr, mgr') /\ mgr'.failed = mgr.failed /\ mgr'.gen = mgr.gen
      /\ \/ mgr'.sub = mgr.sub /\ mgr'.attached = mgr.attached /\ ~ (provider = "codex" /\ held.gen = mgr.gen)
         \/ mgr'.attached = held.thread /\ provider = "codex" /\ held.gen = mgr.gen
  <2>1. CASE provider # "codex"
    <3>1. mgr' = [mgr EXCEPT !.cursor = cursor]
      BY <1>0, <2>1
    <3>2. Moved(mgr, mgr') /\ mgr'.attached = mgr.attached /\ mgr'.failed = mgr.failed /\ mgr'.gen = mgr.gen
      BY <1>0, <1>2, <3>1 DEF Moved, MgrT
    <3>3. MgrHolds(mgr', Taken, Len(record)) /\ CallsKept(mgr, mgr')
      BY <1>0, <3>2, MovedHolds
    <3> QED  BY <2>1, <3>2, <3>3 DEF Moved
  <2>2. CASE provider = "codex" /\ held.gen = mgr.gen
    <3>1. mgr' = Attach(mgr, held.thread, cursor)
      BY <1>0, <2>2
    <3>2. MgrHolds(mgr, Taken, Len(record)) /\ Len(record) \in Nat /\ written \in Nat /\ held.thread \in 0..2
      BY <1>0
    <3>3. Attaches(mgr, Attach(mgr, held.thread, cursor), Taken, Len(record), held.thread)
      BY <1>2, <3>2, AttachHolds
    <3> QED  BY <2>2, <3>1, <3>3 DEF Attaches
  <2>3. CASE provider = "codex" /\ held.gen # mgr.gen
    <3>1. mgr' = mgr
      BY <1>0, <2>3
    <3> QED  BY <1>0, <2>3, <3>1 DEF CallsKept
  <2> QED  BY <2>1, <2>2, <2>3
<1>4. NoHeld \in [thread : 0..2, gen : Nat]
  BY DEF NoHeld
<1>5. TurnTyped'
  BY <1>0, <1>3, <1>4 DEF TurnTyped, MgrHolds
<1>6. RecordHolds'
  BY <1>0, <1>3, RecordStays DEF RestHolds, RecordHolds, Untyped
<1>7. held.thread # 0 /\ held.gen <= mgr.gen /\ (~ agent.up => held.gen < mgr.gen)
  BY <1>0 DEF RestHolds, ProcessHolds
<1>8. LooksHold'
  <2>1. mgr'.attached # 0 \/ \A c \in Taken : mgr'.sub = c => mgr.sub = c /\ mgr.attached = mgr'.attached
    BY <1>3, <1>7
  <2> QED  BY <1>0, <1>1, <2>1, LooksStay DEF RestHolds, LooksHold
<1>9. ProcessHolds'
  <2>1. mgr.gen \in Nat /\ held.gen \in Nat
    BY <1>0 DEF MgrT, TurnTyped
  <2>2. ~ agent.up => mgr'.attached = mgr.attached
    BY <1>3, <1>7, <2>1
  <2> QED  BY <1>0, <1>1, <1>3, <2>2 DEF RestHolds, ProcessHolds
<1>10. HooksHold' /\ StartsFirst'
  BY <1>0, <1>1, <1>3, <1>7 DEF RestHolds, HooksHold, StartsFirst
<1>11. MgrHolds(mgr, Taken, Len(record))'
  BY <1>1, <1>3
<1> QED  BY <1>5, <1>6, <1>8, <1>9, <1>10, <1>11 DEF TurnsInv, RestHolds

LEMMA HookArrivesKeeps ==
    ASSUME TurnsInv, HookArrives
    PROVE  TurnsInv'
<1> DEFINE h == Head(hooks)
           strange == mgr.attached \notin {0, h.thread} \/ (provider = "codex" /\ mgr.failed)
           ended == LET same == {t \in mgr.turns : t.id = h.turn} IN
                    IF same # {} THEN same ELSE {t \in mgr.turns : t.thread = h.thread}
<1>0. /\ TurnTyped /\ RestHolds /\ MgrHolds(mgr, Taken, Len(record)) /\ Len(record) \in Nat /\ mgr \in MgrT
      /\ UNCHANGED <<provider, agent, record, written, look, pause, spare>> /\ hooks # <<>>
      /\ hooks' = Tail(hooks) /\ HooksFit(hooks, Taken, Len(record)) /\ (provider = "codex" => held = NoHeld)
      /\ written \in Nat /\ written <= Len(record) /\ RecordOk /\ record \in Seq(EntryT)
  BY DEF TurnsInv, TurnTyped, RestHolds, RecordHolds, HooksHold, MgrHolds, HookArrives
<1>1. Taken' = Taken /\ Len(record)' = Len(record)
  BY <1>0, RecordSame
<1>2. HooksFit(hooks', Taken, Len(record)) /\ h \in HookT /\ HookOk(h, Taken, Len(record))
  BY <1>0, HooksTail
<1>3. IF h.what = "start"
      THEN /\ held' = IF provider = "codex" /\ mgr.failed THEN held ELSE [thread |-> h.thread, gen |-> mgr.gen]
           /\ mgr' = IF provider = "codex" THEN mgr ELSE Attach(mgr, h.thread, mgr.cursor)
      ELSE /\ mgr' = CASE strange -> mgr
                       [] ~ strange /\ h.what = "submit" -> AcceptPrompt(mgr, h.thread, h.turn, h.text)
                       [] OTHER -> IF ended = {} THEN mgr ELSE FinishTurn(mgr, CHOOSE t \in ended : TRUE)
           /\ UNCHANGED held
  BY DEF HookArrives
<1> HIDE DEF h, ended, strange
<1>4. h.thread \in 1..2 /\ h.turn \in Nat /\ h.text \in TextT
  BY <1>2 DEF HookT
<1>5. mgr.attached = 0 /\ agent.up => h.what = "start"
  BY <1>0 DEF RestHolds, StartsFirst, h
<1>6. ~ agent.up => provider = "codex" /\ mgr.failed
  BY <1>0 DEF RestHolds, ProcessHolds
<1>7. /\ MgrHolds(mgr', Taken, Len(record)) /\ CallsKept(mgr, mgr') /\ mgr'.failed = mgr.failed /\ mgr'.gen = mgr.gen
      /\ \/ mgr'.sub \in {0, mgr.sub} /\ mgr'.attached = mgr.attached
         \/ mgr'.attached # 0 /\ h.what = "start" /\ provider # "codex"
  <2>1. CASE mgr' = mgr
    BY <1>0, <2>1 DEF CallsKept
  <2>2. CASE h.what = "start" /\ provider # "codex"
    <3>1. mgr' = Attach(mgr, h.thread, mgr.cursor) /\ h.thread \in 0..2 /\ h.thread # 0 /\ mgr.cursor \in CursorT
      BY <1>0, <1>3, <1>4, <2>2 DEF MgrT
    <3>2. MgrHolds(mgr, Taken, Len(record)) /\ Len(record) \in Nat /\ written \in Nat
      BY <1>0
    <3>3. Attaches(mgr, Attach(mgr, h.thread, mgr.cursor), Taken, Len(record), h.thread)
      BY <3>1, <3>2, AttachHolds
    <3> QED  BY <2>2, <3>1, <3>3 DEF Attaches
  <2>3. CASE h.what = "submit" /\ ~ strange /\ mgr' = AcceptPrompt(mgr, h.thread, h.turn, h.text)
    <3>1. mgr.attached # 0 /\ h.thread = mgr.attached
      BY <1>5, <1>6, <2>3 DEF strange
    <3>2. h.turn \in 1..Len(record) /\ (h.text \in Prompts => h.text \in Taken)
      BY <1>2, <2>3 DEF HookOk
    <3>3. MgrHolds(mgr', Taken, Len(record)) /\ Settles(mgr, mgr')
      BY <1>0, <1>4, <2>3, <3>1, <3>2, AcceptPromptHolds
    <3> QED  BY <3>3 DEF Settles
  <2>4. CASE mgr' = FinishTurn(mgr, CHOOSE t \in ended : TRUE)
    <3>1. MgrHolds(mgr', Taken, Len(record)) /\ Settles(mgr, mgr')
      BY <1>0, <2>4, FinishTurnHolds
    <3> QED  BY <3>1 DEF Settles
  <2>5. \/ mgr' = mgr
        \/ h.what = "start" /\ provider # "codex"
        \/ h.what = "submit" /\ ~ strange /\ mgr' = AcceptPrompt(mgr, h.thread, h.turn, h.text)
        \/ mgr' = FinishTurn(mgr, CHOOSE t \in ended : TRUE)
    BY <1>3
  <2> QED  BY <2>1, <2>2, <2>3, <2>4, <2>5
<1>8. \/ held' = held /\ (h.what = "start" => provider = "codex" /\ mgr.failed)
      \/ held' = [thread |-> h.thread, gen |-> mgr.gen] /\ h.what = "start" /\ ~ (provider = "codex" /\ mgr.failed)
  BY <1>3
<1>9. mgr.gen \in Nat
  BY <1>0 DEF MgrT
<1>10. held' \in [thread : 0..2, gen : Nat]
  BY <1>0, <1>4, <1>8, <1>9 DEF TurnTyped
<1>11. TurnTyped'
  BY <1>0, <1>2, <1>7, <1>10 DEF TurnTyped, MgrHolds, HooksFit
<1>12. RecordHolds'
  BY <1>0, <1>7, RecordStays DEF RestHolds, RecordHolds, Untyped
<1>13. LooksHold'
  <2>1. 0 \notin Taken
    BY PromptsNat DEF Taken
  <2>2. mgr'.attached # 0 \/ \A c \in Taken : mgr'.sub = c => mgr.sub = c /\ mgr.attached = mgr'.attached
    BY <1>7, <2>1
  <2> QED  BY <1>0, <1>1, <2>2, LooksStay DEF RestHolds, LooksHold
<1>14. ProcessHolds'
  <2>0. ProcessHolds
    BY <1>0 DEF RestHolds
  <2>1. ~ agent.up => held' = held /\ mgr'.attached = mgr.attached /\ provider = "codex"
    BY <1>6, <1>7, <1>8
  <2>2. held' # NoHeld => held'.thread # 0 /\ held'.gen <= mgr'.gen
    BY <2>0, <1>4, <1>7, <1>8, <1>9 DEF ProcessHolds
  <2> QED  BY <2>0, <2>1, <2>2, <1>0, <1>1, <1>7 DEF ProcessHolds
<1>15. StartsFirst'
  <2>1. CASE agent.up /\ h.what = "start" /\ provider = "codex"
    <3>1. ~ mgr.failed
      BY <1>0, <2>1 DEF RestHolds, ProcessHolds
    <3>2. held' = [thread |-> h.thread, gen |-> mgr.gen]
      BY <1>8, <2>1, <3>1
    <3>3. held'.thread = h.thread /\ held'.gen = mgr'.gen
      BY <1>7, <3>2
    <3> QED  BY <1>0, <1>4, <2>1, <3>3 DEF StartsFirst, NoHeld
  <2>2. CASE agent.up /\ h.what = "start" /\ provider # "codex"
    <3>1. mgr' = Attach(mgr, h.thread, mgr.cursor) /\ h.thread \in 0..2 /\ h.thread # 0 /\ mgr.cursor \in CursorT
      BY <1>0, <1>3, <1>4, <2>2 DEF MgrT
    <3>3. Attaches(mgr, Attach(mgr, h.thread, mgr.cursor), Taken, Len(record), h.thread)
      BY <1>0, <3>1, AttachHolds
    <3>2. mgr'.attached # 0
      BY <3>1, <3>3 DEF Attaches
    <3> QED  BY <3>2 DEF StartsFirst
  <2>3. CASE agent.up /\ h.what # "start"
    BY <1>5, <1>7, <2>3 DEF StartsFirst
  <2>4. CASE ~ agent.up
    BY <1>0, <2>4 DEF StartsFirst
  <2> QED  BY <2>1, <2>2, <2>3, <2>4
<1>16. HooksHold' /\ MgrHolds(mgr, Taken, Len(record))'
  BY <1>1, <1>2, <1>7 DEF HooksHold
<1> QED  BY <1>11, <1>12, <1>13, <1>14, <1>15, <1>16 DEF TurnsInv, RestHolds

LEMMA ExitsKeeps ==
    ASSUME TurnsInv, Exits
    PROVE  TurnsInv'
<1> DEFINE gone == FALSE
           none == 0
<1>0. /\ TurnTyped /\ RestHolds /\ MgrHolds(mgr, Taken, Len(record)) /\ Len(record) \in Nat /\ agent \in AgentT
      /\ UNCHANGED <<provider, record, written, hooks, held, look, pause>> /\ written \in Nat /\ mgr' = Exited(mgr)
      /\ agent' = [agent EXCEPT !.up = gone, !.busy = none, !.box = none, !.enters = none]
      /\ (provider # "codex" => hooks = <<>> /\ held = NoHeld) /\ spare \in TurnLoad /\ Spends("exits")
  BY DEF TurnsInv, TurnTyped, Exits
<1>1. Taken' = Taken /\ Len(record)' = Len(record)
  BY <1>0, RecordSame
<1>2. spare' \in TurnLoad
  BY <1>0, SpendsTyped
<1>3. agent' \in AgentT /\ agent'.up = FALSE /\ agent'.busy = 0 /\ agent'.box = 0 /\ agent'.thread = agent.thread
  <2>1. gone \in BOOLEAN /\ none \in TextT /\ none \in Nat
    BY DEF TextT
  <2> HIDE DEF gone, none
  <2>2. agent' \in AgentT /\ agent'.up = gone /\ agent'.busy = none /\ agent'.box = none
        /\ agent'.thread = agent.thread
    BY <1>0, <2>1 DEF AgentT
  <2> QED  BY <2>2 DEF gone, none
<1>4. /\ MgrHolds(mgr', Taken, Len(record)) /\ CallsKept(mgr, mgr') /\ mgr'.sub = 0
      /\ mgr'.attached = 0 /\ mgr'.failed = TRUE /\ mgr'.gen = mgr.gen + 1
  BY <1>0, ExitedHolds
<1>5. TurnTyped'
  BY <1>0, <1>2, <1>3, <1>4 DEF TurnTyped, MgrHolds
<1>6. RecordHolds'
  BY <1>0, <1>3, <1>4, PromptsNat, RecordStays DEF RestHolds, RecordHolds
<1>7. LooksHold'
  <2>1. \A c \in Taken : mgr'.sub # c
    BY <1>4, PromptsNat DEF Taken
  <2> QED  BY <1>0, <1>1, <2>1, LooksStay DEF RestHolds, LooksHold
<1>8. ProcessHolds'
  <2>1. mgr.gen \in Nat /\ held.gen \in Nat
    BY <1>0 DEF MgrHolds, MgrT, TurnTyped
  <2>2. held # NoHeld => held.thread # 0 /\ held.gen < mgr'.gen
    BY <1>0, <1>4, <2>1 DEF RestHolds, ProcessHolds
  <2>3. held # NoHeld => held.gen <= mgr'.gen
    BY <1>4, <2>1, <2>2
  <2>4. agent'.busy \in 0..Len(record)' /\ agent'.busy = 0
    BY <1>0, <1>1, <1>3
  <2>5. mgr'.failed = ~ agent'.up
    BY <1>3, <1>4
  <2>6. held' = held /\ hooks' = hooks /\ provider' = provider
        /\ (provider # "codex" => hooks = <<>> /\ held = NoHeld)
    BY <1>0
  <2>7. agent'.box = 0 /\ mgr'.attached = 0
    BY <1>3, <1>4
  <2> QED  BY <2>2, <2>3, <2>4, <2>5, <2>6, <2>7 DEF ProcessHolds
<1>9. StartsFirst' /\ HooksHold' /\ MgrHolds(mgr, Taken, Len(record))'
  BY <1>0, <1>1, <1>3, <1>4 DEF RestHolds, StartsFirst, HooksHold
<1> QED  BY <1>5, <1>6, <1>7, <1>8, <1>9 DEF TurnsInv, RestHolds

LEMMA RelaunchKeeps ==
    ASSUME TurnsInv, Relaunch
    PROVE  TurnsInv'
<1> DEFINE run == TRUE
           h == [what |-> "start", thread |-> agent.thread, turn |-> 0, text |-> 0]
           cursor == [thread |-> agent.thread, at |-> written]
           q == Reset(mgr)
<1>0. /\ TurnTyped /\ RestHolds /\ MgrHolds(mgr, Taken, Len(record)) /\ Len(record) \in Nat /\ agent \in AgentT
      /\ UNCHANGED <<provider, record, written, held, look, pause, spare>> /\ written \in Nat
      /\ ~ agent.up /\ agent.thread # 0 /\ HooksFit(hooks, Taken, Len(record))
      /\ agent' = [agent EXCEPT !.up = run]
      /\ mgr' = (IF provider = "codex" THEN Attach(q, agent.thread, cursor) ELSE q)
      /\ hooks' = (IF provider = "codex" THEN hooks ELSE Append(hooks, h))
  BY DEF TurnsInv, TurnTyped, RestHolds, HooksHold, Relaunch
<1>1. Taken' = Taken /\ Len(record)' = Len(record)
  BY <1>0, RecordSame
<1>2. agent.thread \in 1..2 /\ cursor \in CursorT /\ mgr.gen \in Nat /\ held.gen \in Nat
  BY <1>0 DEF AgentT, CursorT, MgrHolds, MgrT, TurnTyped
<1>3. agent' \in AgentT /\ agent'.up /\ agent'.busy = agent.busy /\ agent'.box = agent.box
      /\ agent'.thread = agent.thread
  <2>1. run \in BOOLEAN
    OBVIOUS
  <2> HIDE DEF run
  <2>2. agent' \in AgentT /\ agent'.up = run /\ agent'.busy = agent.busy /\ agent'.box = agent.box
        /\ agent'.thread = agent.thread
    BY <1>0, <2>1 DEF AgentT
  <2> QED  BY <2>2 DEF run
<1>4. /\ MgrHolds(q, Taken, Len(record)) /\ CallsKept(mgr, q) /\ q.sub = 0 /\ q.attached = 0 /\ q.failed = FALSE
      /\ q.gen = mgr.gen + 1
  BY <1>0, ResetHolds
<1> HIDE DEF q
<1>5. h \in HookT /\ HookOk(h, Taken, Len(record)) /\ h.what = "start"
  BY <1>2 DEF HookT, HookOk, TextT
<1> HIDE DEF h, cursor
<1>6. /\ MgrHolds(mgr', Taken, Len(record)) /\ CallsKept(mgr, mgr') /\ mgr'.failed = FALSE /\ mgr'.gen = mgr.gen + 1
      /\ (mgr'.attached # 0 \/ mgr'.sub = 0) /\ (provider = "codex" => mgr'.attached # 0)
  <2>1. CASE provider = "codex"
    <3>1. mgr' = Attach(q, agent.thread, cursor) /\ agent.thread \in 0..2 /\ agent.thread # 0
      BY <1>0, <1>2, <2>1
    <3>2. /\ MgrHolds(mgr', Taken, Len(record)) /\ CallsKept(q, mgr') /\ mgr'.attached = agent.thread
          /\ mgr'.failed = q.failed /\ mgr'.gen = q.gen
      <4>1. MgrHolds(q, Taken, Len(record)) /\ Len(record) \in Nat /\ written \in Nat /\ agent.thread \in 0..2
        BY <1>0, <1>4, <3>1
      <4>2. Attaches(q, Attach(q, agent.thread, cursor), Taken, Len(record), agent.thread)
        BY <1>2, <4>1, AttachHolds
      <4> QED  BY <3>1, <4>2 DEF Attaches
    <3>3. CallsKept(mgr, mgr')
      BY <1>4, <3>2 DEF CallsKept
    <3> QED  BY <1>4, <3>1, <3>2, <3>3
  <2>2. CASE provider # "codex"
    BY <1>0, <1>4, <2>2
  <2> QED  BY <2>1, <2>2
<1>7. HooksFit(hooks', Taken, Len(record)) /\ (provider # "codex" => hooks' # <<>> /\ Head(hooks').what = "start")
  <2>1. CASE provider = "codex"
    BY <1>0, <2>1
  <2>2. CASE provider # "codex"
    <3>1. hooks = <<>> /\ hooks' = Append(hooks, h)
      BY <1>0, <2>2 DEF RestHolds, ProcessHolds
    <3> QED  BY <1>0, <1>5, <2>2, <3>1, HooksAppend
  <2> QED  BY <2>1, <2>2
<1>8. TurnTyped'
  BY <1>0, <1>3, <1>6, <1>7 DEF TurnTyped, MgrHolds, HooksFit
<1>9. RecordHolds'
  BY <1>0, <1>3, <1>6, RecordStays DEF RestHolds, RecordHolds, Untyped
<1>10. LooksHold'
  <2>1. mgr'.attached # 0 \/ \A c \in Taken : mgr'.sub # c
    BY <1>6, PromptsNat DEF Taken
  <2> QED  BY <1>0, <1>1, <2>1, LooksStay DEF RestHolds, LooksHold
<1>11. ProcessHolds'
  <2>1. held # NoHeld => held.thread # 0 /\ held.gen <= mgr'.gen
    BY <1>0, <1>2, <1>6 DEF RestHolds, ProcessHolds
  <2> QED  BY <1>0, <1>1, <1>3, <1>6, <2>1 DEF RestHolds, ProcessHolds
<1>12. StartsFirst'
  BY <1>6, <1>7 DEF StartsFirst
<1>13. HooksHold' /\ MgrHolds(mgr, Taken, Len(record))'
  BY <1>1, <1>6, <1>7 DEF HooksHold
<1> QED  BY <1>8, <1>9, <1>10, <1>11, <1>12, <1>13 DEF TurnsInv, RestHolds

\* The turn under way ends: it is recorded or not, and posted or not.
LEMMA EndStep ==
    ASSUME TurnsInv, written' = written, held' = held, provider' = provider, spare' \in TurnLoad,
           agent' = [agent EXCEPT !.busy = 0],
           \/ record' = record
           \/ /\ agent.busy # 0
              /\ record' = Append(record, [what |-> "end", turn |-> agent.busy, text |-> 0, thread |-> agent.thread]),
           \/ hooks' = hooks
           \/ /\ agent.busy # 0
              /\ hooks' = Append(hooks, [what |-> "stop", thread |-> agent.thread, turn |-> agent.busy, text |-> 0]),
           MgrHolds(mgr', Taken, Len(record)), Settles(mgr, mgr'), look' \in LookT, pause' \in LookT,
           LookOk(look', mgr, Taken, Len(record)), LookOk(pause', mgr, Taken, Len(record))
    PROVE  TurnsInv'
<1> DEFINE e == [what |-> "end", turn |-> agent.busy, text |-> 0, thread |-> agent.thread]
           h == [what |-> "stop", thread |-> agent.thread, turn |-> agent.busy, text |-> 0]
           rest == 0
<1>0. /\ TurnTyped /\ RestHolds /\ MgrHolds(mgr, Taken, Len(record)) /\ Len(record) \in Nat /\ agent \in AgentT
      /\ record \in Seq(EntryT) /\ HooksFit(hooks, Taken, Len(record)) /\ mgr \in MgrT /\ written \in Nat
  BY DEF TurnsInv, TurnTyped, RestHolds, HooksHold
<1>1. agent' \in AgentT /\ agent'.busy = 0 /\ agent'.up = agent.up /\ agent'.box = agent.box
      /\ agent'.thread = agent.thread
  <2>1. rest \in Nat /\ agent' = [agent EXCEPT !.busy = rest]
    OBVIOUS
  <2> HIDE DEF rest
  <2>2. agent' \in AgentT /\ agent'.busy = rest /\ agent'.up = agent.up /\ agent'.box = agent.box
        /\ agent'.thread = agent.thread
    BY <1>0, <2>1 DEF AgentT
  <2> QED  BY <2>2 DEF rest
<1>2. agent.busy # 0 => agent.busy \in 1..Len(record) /\ agent.thread \in 1..2
  BY <1>0 DEF RestHolds, ProcessHolds, AgentT
<1>3. agent.busy # 0 => e \in EntryT /\ e.what = "end" /\ e.text = 0 /\ e.turn \in 1..Len(record) + 1
  BY <1>0, <1>2 DEF EntryT, TextT
<1>4. agent.busy # 0 => h \in HookT /\ HookOk(h, Taken, Len(record))
  BY <1>0, <1>2 DEF HookT, HookOk, TextT
<1>5. record' = record \/ (agent.busy # 0 /\ record' = Append(record, e))
  OBVIOUS
<1>6. hooks' = hooks \/ (agent.busy # 0 /\ hooks' = Append(hooks, h))
  OBVIOUS
<1> HIDE DEF e, h
<1>7. /\ record' \in Seq(EntryT) /\ Taken \subseteq Taken' /\ Len(record)' \in Nat /\ Len(record) <= Len(record)'
      /\ RecordHolds'
  <2>1. CASE record' = record
    <3>1. Taken' = Taken /\ Len(record)' = Len(record)
      BY <2>1, RecordSame
    <3>2. RecordHolds'
      BY <1>0, <1>1, <2>1, RecordStays DEF RestHolds, Settles, RecordHolds, Untyped
    <3> QED  BY <1>0, <2>1, <3>1, <3>2
  <2>2. CASE agent.busy # 0 /\ record' = Append(record, e)
    <3>1. record' \in Seq(EntryT) /\ Taken \subseteq Taken' /\ Len(record)' = Len(record) + 1
      BY <1>0, <1>3, <2>2, RecordAppended
    <3>2. \A c \in Prompts : mgr.calls[c].pc \in Early => agent'.box # c /\ e.text # c
      BY <1>0, <1>1, <1>3, <2>2, PromptsNat DEF RestHolds, RecordHolds, Untyped
    <3>3. RecordHolds'
      BY <1>0, <1>3, <2>2, <3>2, RecordGrows DEF RestHolds, Settles
    <3> QED  BY <1>0, <3>1, <3>3
  <2> QED  BY <1>5, <2>1, <2>2
<1>8. /\ HooksFit(hooks', Taken, Len(record)) /\ (hooks # <<>> => hooks' # <<>> /\ Head(hooks') = Head(hooks))
      /\ (hooks = <<>> /\ agent.thread = 0 => hooks' = <<>>)
  <2>1. CASE hooks' = hooks
    BY <1>0, <2>1
  <2>2. CASE agent.busy # 0 /\ hooks' = Append(hooks, h)
    <3>1. h \in HookT /\ HookOk(h, Taken, Len(record)) /\ agent.thread # 0
      BY <1>2, <1>4, <2>2
    <3> QED  BY <1>0, <2>2, <3>1, HooksAppend
  <2> QED  BY <1>6, <2>1, <2>2
<1>9. HooksFit(hooks', Taken', Len(record)')
  BY <1>0, <1>7, <1>8, HooksMonotone
<1>10. TurnTyped'
  BY <1>0, <1>1, <1>7, <1>8 DEF TurnTyped, MgrHolds, HooksFit
<1>11. LooksHold'
  <2>1. mgr.sub \in Prompts \cup {0} /\ 0 \notin Taken
    BY <1>0, PromptsNat DEF MgrT, Taken
  <2>2. \A c \in Taken : mgr'.sub = c => mgr.sub = c /\ mgr.attached = mgr'.attached
    BY <2>1 DEF Settles
  <2>3. LookOk(look', mgr', Taken', Len(record)') /\ LookOk(pause', mgr', Taken', Len(record)')
    BY <1>0, <1>7, <2>2, LookMonotone
  <2> QED  BY <2>3 DEF LooksHold
<1>12. ProcessHolds'
  <2>1. ProcessHolds /\ mgr'.attached = mgr.attached /\ mgr'.failed = mgr.failed /\ mgr'.gen = mgr.gen
    BY <1>0 DEF RestHolds, Settles
  <2>2. hooks' = hooks \/ agent.up
    BY <1>6, <2>1 DEF ProcessHolds
  <2> QED  BY <1>1, <1>7, <2>1, <2>2 DEF ProcessHolds
<1>13. StartsFirst'
  BY <1>0, <1>1, <1>8 DEF RestHolds, StartsFirst, Settles
<1>14. MgrHolds(mgr', Taken', Len(record)')
  BY <1>0, <1>7, MgrMonotone
<1> QED  BY <1>7, <1>9, <1>10, <1>11, <1>12, <1>13, <1>14 DEF TurnsInv, RestHolds, HooksHold

LEMMA TurnEndsKeeps ==
    ASSUME TurnsInv, TurnEnds
    PROVE  TurnsInv'
<1>1. /\ MgrHolds(mgr, Taken, Len(record)) /\ look \in LookT /\ pause \in LookT /\ spare \in TurnLoad
      /\ LookOk(look, mgr, Taken, Len(record)) /\ LookOk(pause, mgr, Taken, Len(record))
  BY DEF TurnsInv, TurnTyped, RestHolds, LooksHold
<1>2. Settles(mgr, mgr)
  BY DEF Settles, CallsKept
<1> QED  BY <1>1, <1>2, EndStep DEF TurnEnds

\* Escape is sent.
LEMMA StopStep ==
    ASSUME TurnsInv, Stopped(agent), written' = written, held' = held, provider' = provider, spare' \in TurnLoad,
           MgrHolds(mgr', Taken, Len(record)), Settles(mgr, mgr'), look' \in LookT, pause' \in LookT,
           LookOk(look', mgr, Taken, Len(record)), LookOk(pause', mgr, Taken, Len(record))
    PROVE  TurnsInv'
<1>1. /\ agent' = [agent EXCEPT !.busy = 0]
      /\ \/ record' = record
         \/ /\ agent.busy # 0
            /\ record' = Append(record, [what |-> "end", turn |-> agent.busy, text |-> 0, thread |-> agent.thread])
      /\ \/ hooks' = hooks
         \/ /\ agent.busy # 0
            /\ hooks' = Append(hooks, [what |-> "stop", thread |-> agent.thread, turn |-> agent.busy, text |-> 0])
  BY DEF Stopped
<1> QED  BY <1>1, EndStep

LEMMA UserStopsKeeps ==
    ASSUME TurnsInv, UserStops
    PROVE  TurnsInv'
<1>1. /\ MgrHolds(mgr, Taken, Len(record)) /\ look \in LookT /\ pause \in LookT /\ spare \in TurnLoad
         /\ written \in Nat
      /\ LookOk(look, mgr, Taken, Len(record)) /\ LookOk(pause, mgr, Taken, Len(record)) /\ Len(record) \in Nat
  BY DEF TurnsInv, TurnTyped, RestHolds, LooksHold
<1>2. MgrHolds(mgr', Taken, Len(record)) /\ Settles(mgr, mgr')
  BY <1>1, CompletedHolds DEF UserStops
<1>3. spare' \in TurnLoad
  BY <1>1, SpendsTyped DEF UserStops
<1> QED  BY <1>1, <1>2, <1>3, StopStep DEF UserStops

LEMMA PauseEndsKeeps ==
    ASSUME TurnsInv, PauseEnds
    PROVE  TurnsInv'
<1> DEFINE c == pause.call
           taken == Recover(mgr, c, pause.turn)
           id == IF mgr.calls[c].kind = "steer" THEN mgr.calls[c].logical ELSE pause.turn
           mine == {t \in taken.turns : t.id = id}
<1>1. /\ MgrHolds(mgr, Taken, Len(record)) /\ look \in LookT /\ spare' \in TurnLoad /\ written \in Nat
      /\ LookOk(look, mgr, Taken, Len(record)) /\ LookOk(pause, mgr, Taken, Len(record)) /\ Len(record) \in Nat
      /\ pause # NoLook /\ pause' = NoLook /\ UNCHANGED <<provider, written, held, look, spare>> /\ agent \in AgentT
  BY DEF TurnsInv, TurnTyped, RestHolds, LooksHold, PauseEnds
<1>2. c \in Prompts
  BY <1>1 DEF LookOk
<1>3. pause' \in LookT /\ LookOk(pause', mgr, Taken, Len(record))
  BY <1>1, NoLookOk DEF NoLook, LookT
<1>4. Settles(mgr, mgr)
  BY DEF Settles, CallsKept
<1>5. CASE pause.state = "accepted"
  <2>1. mgr.sub = c => c \in Taken /\ mgr.attached # 0 /\ pause.turn \in 1..Len(record)
    BY <1>1, <1>5 DEF LookOk
  <2>2. MgrHolds(taken, Taken, Len(record)) /\ Settles(mgr, taken)
    BY <1>1, <1>2, <2>1, RecoverHolds
  <2>3. /\ mgr' = IF taken.attached = 0 THEN taken ELSE Completed(taken, mine)
        /\ IF taken.attached # 0 /\ mine # {} THEN Stopped(agent) ELSE UNCHANGED <<agent, record, hooks>>
    BY <1>5 DEF PauseEnds
  <2> HIDE DEF taken, mine
  <2>4. MgrHolds(Completed(taken, mine), Taken, Len(record)) /\ Settles(taken, Completed(taken, mine))
    BY <1>1, <2>2, CompletedHolds
  <2>5. MgrHolds(mgr', Taken, Len(record)) /\ Settles(mgr, mgr')
    BY <2>2, <2>3, <2>4, SettlesOn
  <2>6. CASE Stopped(agent)
    BY <1>1, <1>3, <2>5, <2>6, StopStep
  <2>7. CASE UNCHANGED <<agent, record, hooks>>
    BY <1>1, <1>3, <2>5, <2>7, SettleStep
  <2> QED  BY <2>3, <2>6, <2>7
<1>6. CASE pause.state # "accepted"
  <2>1. mgr' = (IF mgr.sub = c THEN Reject(mgr) ELSE mgr) /\ Stopped(agent)
    BY <1>6 DEF PauseEnds
  <2>2. MgrHolds(mgr', Taken, Len(record)) /\ Settles(mgr, mgr')
    BY <1>1, <1>4, <2>1, RejectHolds
  <2> QED  BY <1>1, <1>3, <2>1, <2>2, StopStep
<1> QED  BY <1>5, <1>6

\* A text is entered: in the composer, or by the user.
LEMMA EnteredStep ==
    ASSUME TurnsInv, NEW a \in AgentT, agent.up, a.up = agent.up, a.thread = agent.thread, a.busy = agent.busy,
           NEW text \in TextT, \A c \in Prompts : mgr.calls[c].pc \in Early => text # c,
           Entered(a, text), spare' \in TurnLoad, UNCHANGED <<provider, written, held, mgr, look, pause>>
    PROVE  TurnsInv'
<1> DEFINE place == Len(record) + 1
           turn == IF a.busy = 0 THEN place ELSE a.busy
           thread == IF a.thread = 0 THEN 1 ELSE a.thread
           named == IF provider = "codex" THEN turn ELSE place
           e == [what |-> "user", turn |-> turn, text |-> text, thread |-> thread]
           post == [what |-> "submit", thread |-> thread, turn |-> named, text |-> text]
           start == [what |-> "start", thread |-> thread, turn |-> named, text |-> text]
           box == 0
<1>0. /\ TurnTyped /\ RestHolds /\ MgrHolds(mgr, Taken, Len(record)) /\ Len(record) \in Nat /\ agent \in AgentT
      /\ record \in Seq(EntryT) /\ HooksFit(hooks, Taken, Len(record)) /\ mgr \in MgrT /\ written \in Nat
      /\ hooks \in Seq(HookT)
  BY DEF TurnsInv, TurnTyped, RestHolds, HooksHold
<1>1. /\ record' = Append(record, e)
      /\ hooks' = hooks \o (IF a.thread = 0 THEN <<start>> ELSE <<>>) \o <<post>>
      /\ agent' = [a EXCEPT !.busy = turn, !.thread = thread, !.box = box]
  BY DEF Entered
<1>2. a.busy \in 0..Len(record) /\ a.thread \in 0..2 /\ place \in 1..Len(record) + 1
  BY <1>0 DEF RestHolds, ProcessHolds, AgentT
<1>3. turn \in 1..Len(record) + 1 /\ thread \in 1..2 /\ named \in 1..Len(record) + 1
  BY <1>0, <1>2
<1>4. turn \in Nat /\ turn # 0 /\ thread \in 0..2 /\ thread # 0 /\ named \in Nat /\ box \in TextT
  BY <1>0, <1>3 DEF TextT
<1> HIDE DEF turn, thread, named, box, place
<1>5. agent' \in AgentT /\ agent'.busy = turn /\ agent'.up = agent.up /\ agent'.box = box /\ agent'.thread = thread
  BY <1>1, <1>4 DEF AgentT
<1>6. e \in EntryT /\ e.what = "user" /\ e.text = text /\ e.turn = turn
  BY <1>3, <1>4 DEF EntryT
<1> HIDE DEF e
<1>7. /\ record' \in Seq(EntryT) /\ Taken \subseteq Taken' /\ Len(record)' = Len(record) + 1
      /\ record'[Len(record) + 1] = e
  BY <1>0, <1>1, <1>6, RecordAppended
<1>8. text \in Prompts => text \in Taken'
  <2>1. ASSUME text \in Prompts PROVE text \in Taken'
    <3>1. record'[Len(record) + 1].text = text /\ record'[Len(record) + 1].what = "user"
      BY <1>6, <1>7
    <3>2. Len(record) + 1 \in 1..Len(record')
      BY <1>0, <1>7
    <3>3. \E i \in 1..Len(record') : record'[i].text = text /\ record'[i].what = "user"
      BY <3>1, <3>2
    <3> QED  BY <2>1, <3>3 DEF Taken
  <2> QED  BY <2>1
<1>9. RecordHolds'
  <2>1. \A c \in Prompts : mgr.calls[c].pc \in Early => agent'.box # c /\ e.text # c
    BY <1>5, <1>6, PromptsNat DEF box
  <2>2. CallsKept(mgr, mgr')
    BY DEF CallsKept
  <2> QED  BY <1>0, <1>1, <1>3, <1>6, <2>1, <2>2, RecordGrows DEF RestHolds
<1>10. /\ post \in HookT /\ HookOk(post, Taken', Len(record)')
       /\ start \in HookT /\ HookOk(start, Taken', Len(record)') /\ start.what = "start"
  <2>1. named \in 1..Len(record)'
    BY <1>3, <1>7
  <2> QED  BY <1>3, <1>4, <1>8, <2>1 DEF HookT, HookOk
<1> HIDE DEF post, start
<1>11. HooksFit(hooks, Taken', Len(record)')
  <2>1. Len(record)' \in Nat /\ Len(record) <= Len(record)'
    BY <1>0, <1>7
  <2> QED  BY <1>0, <1>7, <2>1, HooksMonotone
<1>12. /\ HooksFit(hooks', Taken', Len(record)') /\ hooks' # <<>>
       /\ (hooks # <<>> => Head(hooks') = Head(hooks))
          /\ (hooks = <<>> /\ a.thread = 0 => Head(hooks').what = "start")
  <2>1. CASE a.thread = 0
    <3> DEFINE hs == Append(hooks, start)
    <3>1. hooks \o <<start>> = hs
      BY <1>0, <1>10, AppendIsConcat
    <3>2. /\ HooksFit(hs, Taken', Len(record)') /\ (hooks # <<>> => Head(hs) = Head(hooks)) /\ hs # <<>>
          /\ (hooks = <<>> => Head(hs) = start)
      BY <1>10, <1>11, HooksAppend
    <3>3. hooks' = hs \o <<post>>
      BY <1>1, <2>1, <3>1
    <3> HIDE DEF hs
    <3>4. hs \in Seq(HookT)
      BY <3>2 DEF HooksFit
    <3>5. hooks' = Append(hs, post)
      BY <1>10, <3>3, <3>4, AppendIsConcat
    <3>6. HooksFit(hooks', Taken', Len(record)') /\ hooks' # <<>> /\ Head(hooks') = Head(hs)
      BY <1>10, <3>2, <3>5, HooksAppend
    <3> QED  BY <1>10, <3>2, <3>6
  <2>2. CASE a.thread # 0
    <3>1. hooks \o <<>> = hooks
      BY <1>0, ConcatEmptySeq
    <3>2. hooks' = hooks \o <<post>>
      BY <1>1, <2>2, <3>1
    <3>3. hooks' = Append(hooks, post)
      BY <1>0, <1>10, <3>2, AppendIsConcat
    <3> QED  BY <1>10, <1>11, <2>2, <3>3, HooksAppend
  <2> QED  BY <2>1, <2>2
<1>13. TurnTyped'
  BY <1>0, <1>5, <1>7, <1>12 DEF TurnTyped, HooksFit
<1>14. LooksHold'
  <2>1. Len(record)' \in Nat /\ Len(record) <= Len(record)'
    BY <1>0, <1>7
  <2> QED  BY <1>0, <1>7, <2>1, LooksStay DEF RestHolds, LooksHold
<1>15. ProcessHolds'
  <2>1. turn \in 0..Len(record)'
    BY <1>0, <1>3, <1>7
  <2>2. agent'.busy \in 0..Len(record)' /\ agent'.thread # 0 /\ agent'.up = agent.up
    BY <1>4, <1>5, <2>1
  <2>3. ProcessHolds /\ mgr' = mgr /\ held' = held /\ provider' = provider
    BY <1>0 DEF RestHolds
  <2> QED  BY <2>2, <2>3 DEF ProcessHolds
<1>16. StartsFirst'
  <2>1. StartsFirst /\ mgr' = mgr /\ held' = held /\ provider' = provider /\ agent.up
    BY <1>0 DEF RestHolds
  <2> QED  BY <1>12, <2>1 DEF StartsFirst
<1>17. MgrHolds(mgr', Taken', Len(record)')
  <2>1. Len(record)' \in Nat /\ Len(record) <= Len(record)'
    BY <1>0, <1>7
  <2> QED  BY <1>0, <1>7, <2>1, MgrMonotone
<1> QED  BY <1>9, <1>12, <1>13, <1>14, <1>15, <1>16, <1>17 DEF TurnsInv, RestHolds, HooksHold

LEMMA UserSubmitsKeeps ==
    ASSUME TurnsInv, UserSubmits
    PROVE  TurnsInv'
<1> DEFINE text == IF agent.box = 0 THEN Manual ELSE Mixed
<1>1. agent \in AgentT /\ spare \in TurnLoad /\ agent.up
  BY DEF TurnsInv, TurnTyped, UserSubmits
<1>2. spare' \in TurnLoad
  BY <1>1, SpendsTyped DEF UserSubmits
<1>3. text \in TextT /\ text \notin Prompts
  BY PromptsNat DEF TextT
<1>4. Entered(agent, text)
  BY DEF UserSubmits
<1> HIDE DEF text
<1>5. \A c \in Prompts : mgr.calls[c].pc \in Early => text # c
  BY <1>3
<1> QED  BY <1>1, <1>2, <1>3, <1>4, <1>5, EnteredStep DEF UserSubmits

LEMMA EnterLandsKeeps ==
    ASSUME TurnsInv, EnterLands
    PROVE  TurnsInv'
<1> DEFINE enters == agent.enters - 1
           a == [agent EXCEPT !.enters = enters]
<1>0. /\ TurnTyped /\ agent \in AgentT /\ spare \in TurnLoad /\ agent.enters \in Nat /\ agent.enters > 0
      /\ MgrHolds(mgr, Taken, Len(record)) /\ look \in LookT /\ pause \in LookT
      /\ LookOk(look, mgr, Taken, Len(record)) /\ LookOk(pause, mgr, Taken, Len(record))
  BY DEF TurnsInv, TurnTyped, RestHolds, LooksHold, EnterLands, AgentT
<1>1. enters \in Nat
  BY <1>0
<1>2. /\ UNCHANGED <<provider, written, held, mgr, look, pause>>
      /\ \/ a.up /\ a.box # 0 /\ Entered(a, a.box) /\ spare' = spare
         \/ (spare' = spare \/ Spends("enters")) /\ agent' = a /\ record' = record /\ hooks' = hooks
  BY <1>0 DEF EnterLands, AgentT
<1> HIDE DEF enters
<1>3. a \in AgentT /\ a.up = agent.up /\ a.thread = agent.thread /\ a.busy = agent.busy /\ a.box = agent.box
  BY <1>0, <1>1 DEF AgentT
<1> HIDE DEF a
<1>4. CASE a.up /\ a.box # 0 /\ Entered(a, a.box) /\ spare' = spare
  <2>1. a.box \in TextT
    BY <1>3 DEF AgentT
  <2>2. \A c \in Prompts : mgr.calls[c].pc \in Early => a.box # c
    BY <1>3 DEF TurnsInv, RestHolds, RecordHolds, Untyped
  <2> QED  BY <1>0, <1>2, <1>3, <1>4, <2>1, <2>2, EnteredStep
<1>5. CASE (spare' = spare \/ Spends("enters")) /\ agent' = a /\ record' = record /\ hooks' = hooks
  <2>1. spare' \in TurnLoad
    BY <1>0, <1>5, SpendsTyped
  <2>2. Settles(mgr, mgr)
    BY DEF Settles, CallsKept
  <2> QED  BY <1>0, <1>2, <1>3, <1>5, <2>1, <2>2, SettleStep
<1> QED  BY <1>2, <1>4, <1>5

LEMMA TurnInitHolds ==
    ASSUME TurnInit
    PROVE  TurnsInv
<1>0. spare \in TurnLoad /\ spare.thread \in 0..2 /\ spare.provider \in {"codex", "claude", "cursor"}
  BY ProviderAssumption DEF TurnInit, TurnLoad
<1>1. IdleCall \in CallT /\ IdleCall.pc = "idle" /\ IdleCall.from = NoCursor /\ NoCursor \in CursorT
      /\ NoCursor.at = 0
  BY DEF IdleCall, NoCursor, CursorT, CallT, CallPlaces
<1> DEFINE calls == [c \in Prompts |-> IdleCall]
<1>2. calls \in [Prompts -> CallT] /\ \A c \in Prompts : calls[c] = IdleCall
  BY <1>1
<1>3. calls \in [Prompts -> CallT]
  BY <1>2
<1>4. mgr = [attached |-> spare.thread, sub |-> 0, ticket |-> 0, inflight |-> FALSE, failed |-> FALSE, gen |-> 0,
             cursor |-> [thread |-> spare.thread, at |-> 0], turns |-> {}, done |-> {}, calls |-> calls]
  BY DEF TurnInit
<1> HIDE DEF calls
<1>5. /\ mgr \in MgrT /\ mgr.attached = spare.thread /\ mgr.sub = 0 /\ mgr.failed = FALSE /\ mgr.gen = 0
         /\ mgr.turns = {}
      /\ mgr.calls = calls
  BY <1>0, <1>3, <1>4 DEF MgrT, CursorT
<1>6. \A c \in Prompts : mgr.calls[c].pc = "idle" /\ mgr.calls[c].from.at = 0
  BY <1>1, <1>2, <1>5
<1>7. record = <<>> /\ written = 0 /\ hooks = <<>> /\ held = NoHeld /\ look = NoLook /\ pause = NoLook
  BY DEF TurnInit
<1>8. Len(record) = 0 /\ Len(hooks) = 0 /\ record \in Seq(EntryT) /\ hooks \in Seq(HookT) /\ Taken = {}
  BY <1>7 DEF Taken
<1>9. agent \in AgentT /\ agent.up = TRUE /\ agent.thread = spare.thread /\ agent.busy = 0 /\ agent.box = 0
  BY <1>0 DEF TurnInit, AgentT, TextT
<1>10. TurnTyped
  BY <1>0, <1>5, <1>7, <1>8, <1>9 DEF TurnTyped, TurnInit, NoHeld, NoLook, LookT
<1>11. MgrHolds(mgr, Taken, Len(record))
  BY <1>5, <1>6, PromptsNat DEF MgrHolds, SlotHolds, TicketsHold, TurnsHold, AnswersHold
<1>12. RecordHolds
  BY <1>6, <1>7, <1>8, <1>9, PromptsNat DEF RecordHolds, RecordOk, Untyped, SinceHolds
<1>13. HooksHold /\ LooksHold
  BY <1>7, <1>8 DEF HooksHold, HooksFit, LooksHold, LookOk
<1>14. ProcessHolds
  <2>1. agent.busy \in 0..Len(record) /\ (agent.busy # 0 => agent.thread # 0)
    BY <1>8, <1>9
  <2>2. mgr.failed = ~ agent.up /\ agent.up = TRUE /\ held = NoHeld
    BY <1>5, <1>7, <1>9
  <2> QED  BY <2>1, <2>2 DEF ProcessHolds
<1>15. StartsFirst
  BY <1>5, <1>7, <1>9 DEF StartsFirst
<1> QED  BY <1>10, <1>11, <1>12, <1>13, <1>14, <1>15 DEF TurnsInv, RestHolds

LEMMA TurnStep ==
    ASSUME TurnsInv, TurnNext
    PROVE  TurnsInv'
BY FlushKeeps, UserSubmitsKeeps, UserSwitchesKeeps, UserStopsKeeps, TurnEndsKeeps, HookLostKeeps, EnterLandsKeeps,
   HookArrivesKeeps, HeldEndsKeeps, PauseReservationKeeps, PauseBeginsKeeps, PauseEndsKeeps, LookBeginsKeeps, LookEndsKeeps,
   PollKeeps, ExitsKeeps, RelaunchKeeps, AsksKeeps, IdleSeenKeeps, StartTurnKeeps, SteerTurnKeeps, ReserveEndsKeeps
   DEF TurnNext

LEMMA TurnStutter ==
    ASSUME TurnsInv, UNCHANGED turnVars
    PROVE  TurnsInv'
<1>1. Taken' = Taken /\ Len(record)' = Len(record)
  BY RecordSame DEF turnVars
<1> QED  BY <1>1 DEF turnVars, TurnsInv, TurnTyped, RestHolds, RecordHolds, RecordOk, Untyped, SinceHolds, HooksHold,
            LooksHold,
                     ProcessHolds, StartsFirst

LEMMA TurnsImply ==
    ASSUME TurnsInv
    PROVE  SubmissionsAreTrue
<1>0. /\ TurnTyped /\ RestHolds /\ MgrHolds(mgr, Taken, Len(record)) /\ Len(record) \in Nat /\ mgr \in MgrT
      /\ agent \in AgentT /\ look \in LookT
  BY DEF TurnsInv, TurnTyped, MgrHolds
<1>1. TurnTypes
  BY <1>0 DEF TurnTypes, TurnTyped, RestHolds, RecordHolds, ProcessHolds, AgentT, MgrT, LookT, MgrHolds, TurnsHold
<1>2. SlotIsOwned
  BY <1>0 DEF SlotIsOwned, MgrHolds, SlotHolds
<1>3. AcknowledgedWasTaken
  <2>1. ASSUME NEW c \in Prompts, mgr.calls[c].pc \in {"running", "steered"} PROVE EnteredAfter(c)
    <3>1. c \in Taken
      BY <1>0, <2>1 DEF MgrHolds, AnswersHold
    <3>2. PICK i \in 1..Len(record) : record[i].text = c /\ record[i].what = "user"
      BY <3>1 DEF Taken
    <3>3. i > mgr.calls[c].from.at
      BY <1>0, <3>2 DEF RestHolds, RecordHolds, SinceHolds
    <3> QED  BY <3>2, <3>3 DEF EnteredAfter
  <2> QED  BY <2>1 DEF AcknowledgedWasTaken
<1>4. CancelledNeverTyped
  <2>1. ASSUME NEW c \in Prompts, mgr.calls[c].pc = "cancelled"
        PROVE  agent.box # c /\ \A i \in 1..Len(record) : record[i].text # c
    <3>1. c \notin Taken /\ agent.box # c
      BY <1>0, <2>1 DEF RestHolds, RecordHolds, Untyped, Early
    <3>2. ASSUME NEW i \in 1..Len(record), record[i].text = c PROVE FALSE
      <4>1. record[i] \in EntryT /\ (record[i].what = "end" => record[i].text = 0)
        BY <1>0 DEF RestHolds, RecordHolds, RecordOk, TurnTyped
      <4> QED  BY <3>1, <3>2, <4>1, PromptsNat DEF Taken, EntryT
    <3> QED  BY <3>1, <3>2
  <2> QED  BY <2>1 DEF CancelledNeverTyped
<1>5. TurnsAreCurrent
  BY <1>0 DEF TurnsAreCurrent, RestHolds, ProcessHolds, MgrHolds, TurnsHold
<1> QED  BY <1>1, <1>2, <1>3, <1>4, <1>5 DEF SubmissionsAreTrue

\* Whatever is lost, dropped, switched or restarted, and however many prompts there are: the slot has one owner,
\* what is acknowledged was taken, what was cancelled is never typed and a manager's turns are of the process it
\* runs (reserveSubmission, acceptPrompt, interruptPendingSubmission, applyHook, observeTerminalExit).
THEOREM SubmissionsTrue == TurnSpec => []SubmissionsAreTrue
<1>1. TurnInit => TurnsInv
  BY TurnInitHolds
<1>2. TurnsInv /\ [TurnNext]_turnVars => TurnsInv'
  BY TurnStep, TurnStutter
<1>3. TurnsInv => SubmissionsAreTrue
  BY TurnsImply
<1> QED  BY <1>1, <1>2, <1>3, PTL DEF TurnSpec
=============================================================================
