------------------------------ MODULE HistorySync ------------------------------
(***************************************************************************)
(* How the records of a tab are made to agree with the transcript of its   *)
(* provider (history.ts syncHistory).  Texts are compared whole, failed and *)
(* interrupted turns are alike, and of a prompt's attempts the last counts. *)
(***************************************************************************)
EXTENDS Integers, Sequences, FiniteSets, SequencesExt

CONSTANTS Texts,       \* what a prompt or a turn says
          SlashTexts   \* those that are slash commands: their turns have no final answer

ASSUME SlashTextsAssumption == SlashTexts \subseteq Texts

\* A turn's id is its place in the transcript; -i stands for the interrupted submission of prompt i.
Unlinked == 0
Slash(text) == text \in SlashTexts
Open(p) == p.status \in {"dispatching", "running"}

Pending(i, text) ==
  [id |-> i, origin |-> "queue", text |-> text, status |-> "pending", thread |-> 0, turn |-> Unlinked,
   how |-> "none", att |-> Unlinked, done |-> "none"]
\* A prompt nobody queued; its id is made up from the turn's.
Foreign(turn, origin) ==
  [Pending(100 + turn.id, turn.text) EXCEPT !.origin = origin, !.status = "completed", !.thread = turn.thread, !.turn = turn.id]
Turn(k, thread, text, client) == [id |-> k, thread |-> thread, text |-> text, status |-> "running", client |-> client]
Answer(t, p, status) == [turn |-> t.id, thread |-> t.thread, prompt |-> p, status |-> status]

IdsIn(ps) == {ps[k].id : k \in DOMAIN ps}
PromptOf(ps, i) == CHOOSE p \in ToSet(ps) : p.id = i
First(ps, Good(_)) == LET good == SelectSeq(ps, Good) IN IF good = <<>> THEN 0 ELSE good[1].id
Deduplicated(ps) == FoldLeft(LAMBDA kept, p : IF p.id \in IdsIn(kept) THEN kept ELSE Append(kept, p), <<>>, ps)
Update(ps, ids, Changed(_)) == [k \in DOMAIN ps |-> IF ps[k].id \in ids THEN Changed(ps[k]) ELSE ps[k]]

\* promptWasSteeredIntoTurn; the prompts linked to a turn; the one it is about, and the rest of them.
SteeredInto(p, t) == p.how = "steer" /\ p.att = t.id
LinkedTo(ps, t) == SelectSeq(ps, LAMBDA p : p.turn = t.id /\ p.thread \in {0, t.thread})
Own(linked, t) == First(linked, LAMBDA p : ~ SteeredInto(p, t))
\* By the client id of its first message; the mutant compares missing ids too.
ByClientMissing(ps, t) == First(ps, LAMBDA p : (IF p.how = "none" THEN 0 ELSE p.id) = t.client /\ p.thread \in {0, t.thread})
ByClient(ps, t) == First(ps, LAMBDA p : t.client # 0 /\ p.how # "none" /\ p.id = t.client /\ p.thread \in {0, t.thread})
FirstOf(i, j) == IF i # 0 THEN i ELSE j
Primary(ps, linked, t) == IF linked # <<>> THEN FirstOf(Own(linked, t), linked[1].id) ELSE ByClient(ps, t)
WithMain(main, linked) == <<main>> \o SelectSeq([k \in DOMAIN linked |-> linked[k].id], LAMBDA i : i # main)

AttemptDone(p, t, status) == IF p.how # "none" /\ (p.att = t.id \/ (t.client # 0 /\ p.id = t.client))
                             THEN [p EXCEPT !.att = t.id, !.done = status] ELSE p
Settle(p, t, status) == [AttemptDone(p, t, status) EXCEPT !.thread = t.thread, !.turn = t.id, !.status = status]
WithAnswer(as, t, p, status) ==
  {a \in as : ~ (a.thread = t.thread /\ a.turn = t.id)} \cup {Answer(t, p, status)}
WithoutOpen(as, t) == {a \in as : ~ (a.thread = t.thread /\ a.turn = t.id /\ a.status # "completed")}

-----------------------------------------------------------------------------
\* syncHistory, over prompts, answers, the ids of the history in order, and the turns with an answer.

\* A prompt without a thread gets that of its answers, if they agree.
Owners(r, p) == {a.thread : a \in {b \in r.answers : b.prompt = p.id}}
Threaded(r) ==
  [r EXCEPT !.prompts = [k \in DOMAIN r.prompts |->
     LET p == r.prompts[k]
     IN  IF p.thread = 0 /\ Cardinality(Owners(r, p)) = 1 THEN [p EXCEPT !.thread = CHOOSE o \in Owners(r, p) : TRUE] ELSE p]]

\* settleSlashCommandTurn, if all that was sent in the turn are commands.
IsCommand(acc, t, ids) ==
  ids[1] # 0 /\ Slash(t.text) /\ \A k \in DOMAIN ids : Slash(PromptOf(acc.prompts, ids[k]).text)
SettleCommand(acc, t, ids) ==
  [acc EXCEPT !.prompts = Update(@, ToSet(ids), LAMBDA p : Settle(p, t, "completed")),
              !.history = @ \o ids,
              !.answers = WithoutOpen(@, t),
              !.recorded = IF \E a \in acc.answers : a.thread = t.thread /\ a.turn = t.id /\ a.status = "completed"
                           THEN @ \cup {t.id} ELSE @]
\* A turn that runs keeps its answer; one that is over settles the prompts that were sent in it.
RunningTurn(acc, t, linked) ==
  LET kept == /\ \E a \in acc.answers : a.thread = t.thread /\ a.turn = t.id /\ a.status = "running"
              /\ \E p \in ToSet(linked) : Open(p)
  IN  IF kept THEN [acc EXCEPT !.recorded = @ \cup {t.id}] ELSE acc
SettleTurn(acc, t, ids, status) ==
  [acc EXCEPT !.prompts = Update(@, ToSet(ids), LAMBDA p : Settle(p, t, status)),
              !.history = @ \o ids,
              !.answers = WithAnswer(@, t, ids[1], status),
              !.recorded = @ \cup {t.id}]
\* One that failed is shown only to who sent it.
FailedTurn(acc, t, ids) == IF ids[1] = 0 THEN acc ELSE SettleTurn(acc, t, ids, "interrupted")

\* recoverableSubmissionForTurn: the one prompt of the queue that was sent with this text and that no
\* turn is known of.
Recoverables(acc, t) ==
  {p \in ToSet(acc.prompts) :
     /\ p.origin = "queue" /\ p.thread \in {0, t.thread} /\ p.text = t.text
     /\ p.status \in {"dispatching", "running", "interrupted"} /\ p.turn \in {Unlinked, - p.id}
     /\ p.how = "turn" /\ p.att \in {Unlinked, - p.id} /\ p.done \in {"dispatching", "running", "interrupted"}}
Recoverable(acc, t) ==
  LET all == Recoverables(acc, t) IN IF Cardinality(all) = 1 THEN (CHOOSE p \in all : TRUE).id ELSE 0

\* What the recovery replaces: the prompt that was made up for the turn, and the answer of the
\* submission that seemed interrupted; the mutant keeps them.
SupersededNot(acc, t, found) == acc
Superseded(acc, t, found) ==
  IF found = 0 THEN acc
  ELSE [acc EXCEPT !.prompts = SelectSeq(@, LAMBDA p : ~ (p.turn = t.id /\ p.thread \in {0, t.thread} /\ p.how = "none"
                                                          /\ p.origin \in {"manual", "imported"} /\ p.text = t.text)),
                   !.answers = {a \in @ : ~ (a.prompt = found /\ a.turn = - found)}]
\* The turn is the prompt's that is recovered, else that of its prompts, else of one made up.
CompletedTurn(acc, t, known, linked) ==
  SettleTurn(IF known # 0 THEN acc ELSE [acc EXCEPT !.prompts = Append(@, Foreign(t, "imported"))],
             t, WithMain(FirstOf(known, 100 + t.id), linked), "completed")
Recovered(acc, t, found) ==
  [acc EXCEPT !.prompts = Update(@, {found}, LAMBDA p : [p EXCEPT !.att = t.id, !.done = "completed"])]
ImportTurn(acc, t, found, linked) ==
  CompletedTurn(Recovered(acc, t, found), t, FirstOf(found, FirstOf(Own(linked, t), ByClient(acc.prompts, t))), linked)
Imported(acc, t, found) == ImportTurn(acc, t, found, LinkedTo(acc.prompts, t))
ImportWith(acc, t, found) == Imported(Superseded(acc, t, found), t, found)

OverTurn(acc, t, ids) ==
  IF IsCommand(acc, t, ids) THEN SettleCommand(acc, t, ids)
  ELSE IF t.status = "interrupted" THEN FailedTurn(acc, t, ids)
  ELSE IF Slash(t.text) THEN acc ELSE ImportWith(acc, t, Recoverable(acc, t))
LinkedTurn(acc, t, linked) ==
  IF t.status = "running" THEN RunningTurn(acc, t, linked)
  ELSE OverTurn(acc, t, WithMain(Primary(acc.prompts, linked, t), linked))
SyncTurn(acc, t) == LinkedTurn(acc, t, LinkedTo(acc.prompts, t))

\* Commands the transcript leaves out are over, and have no open answer.
SettleLost(acc, turns) ==
  LET over(p) == Slash(p.text) /\ (p.status = "interrupted" \/ (Open(p) /\ p.turn \notin {turns[k].id : k \in DOMAIN turns}))
      ended(p) == IF over(p) THEN [p EXCEPT !.status = "completed", !.done = IF @ \in {"none", "pending"} THEN @ ELSE "completed"] ELSE p
  IN  [acc EXCEPT !.prompts = [k \in DOMAIN @ |-> ended(@[k])],
                  !.answers = {a \in @ : a.status = "completed" \/ a.prompt \notin IdsIn(acc.prompts)
                                         \/ ~ Slash(PromptOf(acc.prompts, a.prompt).text)}]
\* The answers of the thread: what the transcript has, and what is still open here.
ThreadAnswers(acc, thread) ==
  {a \in acc.answers : /\ a.thread = thread
                       /\ a.turn \in acc.recorded
                          \/ (a.status # "completed" /\ \E p \in ToSet(acc.prompts) :
                                p.thread = thread /\ p.turn = a.turn /\ p.status = a.status)}
\* History first, then what is only known here, then the queue; the mutant forgets what waits unbound.
QueueBound(p, thread) == p.thread = thread
QueueOf(p, thread) == p.thread \in {0, thread}
Ordered(acc, thread, mode) ==
  LET shown == {acc.history[k] : k \in DOMAIN acc.history}
      first == [k \in DOMAIN acc.history |-> PromptOf(acc.prompts, acc.history[k])]
      rest == SelectSeq(acc.prompts, LAMBDA p : p.id \notin shown)
  IN  IF mode = "merge" THEN first \o rest
      ELSE first
           \o SelectSeq(rest, LAMBDA p : p.thread = thread /\ p.status = "completed" /\ p.origin # "imported")
           \o SelectSeq(rest, LAMBDA p : p.thread = thread /\ p.status \notin {"completed", "pending"})
           \o SelectSeq(rest, LAMBDA p : p.status = "pending" /\ QueueOf(p, thread))
\* An answer of an interrupted submission goes with its prompt.
Orphaned(a, ps) == a.turn < 0 /\ ~ \E p \in ToSet(ps) : p.id = a.prompt /\ a.turn \in {p.turn, p.att}

Started(r) == [prompts |-> Deduplicated(r.prompts), answers |-> r.answers, history |-> <<>>, recorded |-> {}]
WithoutOrphans(ps, as) == [prompts |-> ps, answers |-> {a \in as : ~ Orphaned(a, ps)}]
Written(acc, thread, mode) ==
  WithoutOrphans(Ordered(acc, thread, mode), IF mode = "merge" THEN acc.answers ELSE ThreadAnswers(acc, thread))
Sync(r, thread, turns, mode) ==
  Written(SettleLost(FoldLeft(SyncTurn, Threaded(Started(r)), turns), turns), thread, mode)
=============================================================================
