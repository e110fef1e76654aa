---------------------------- MODULE RecordsProofs ----------------------------
(***************************************************************************)
(* The end of a turn and the recovery after a crash, for every number of   *)
(* turns, prompts and crashes.                                             *)
(***************************************************************************)
EXTENDS MCRecords, SequenceTheorems, TLAPS

-----------------------------------------------------------------------------
(* How the queue hears of the end of a turn. *)

Turns == Nat
MessageState == [kind : {"started", "completed", "reply"}, turn : Turns]
CodexState ==
    [begun : Nat, turn : Turns, over : SUBSET Turns, size : Nat, file : SUBSET Turns,
     settled : BOOLEAN, rev : Nat, stuck : BOOLEAN]
LineState ==
    [up : BOOLEAN, joined : BOOLEAN, sub : {"none", "waiting", "landed", "failed"}, wire : Seq(MessageState)]
RpcState == [turns : SUBSET Turns, done : SUBSET Turns, active : BOOLEAN]
WaitState == [step : {"rest", "idle", "sent", "starting", "told", "notify", "read"}, turn : Turns, key : Int]
RunnerState == [turn : Turns, stalled : Turns]
SweepState ==
    [step : {"rest", "stat", "settle", "write"}, turn : Turns, was : Turns, action : {"none", "mark", "clear"}]
WatchTypes ==
    /\ codex \in CodexState /\ line \in LineState /\ rpc \in RpcState
    /\ wait \in WaitState /\ runner \in RunnerState /\ sweep \in SweepState

\* What says of a turn that it is over speaks of one that is: the rollout, and every completion on
\* its way.
TellsOver(m) == m.kind = "completed" => m.turn \in codex.over
WatchInv ==
    /\ WatchTypes
    /\ codex.file \subseteq codex.over
    /\ \A i \in 1..Len(line.wire) : TellsOver(line.wire[i])
    /\ WatchTellsTruth

LEMMA WatchStarts == WatchInit => WatchInv
<1> SUFFICES ASSUME WatchInit
             PROVE  WatchInv
  OBVIOUS
<1>1. load.stuck \in BOOLEAN /\ load.joined \in BOOLEAN
  BY WatchAssumption DEF WatchInit
<1>2. WatchTypes
  <2>1. codex \in CodexState
    BY <1>1 DEF WatchInit, CodexState, Turns
  <2>2. line \in LineState
    BY <1>1, EmptySeq DEF WatchInit, LineState
  <2>3. rpc \in RpcState /\ wait \in WaitState /\ runner \in RunnerState /\ sweep \in SweepState
    BY DEF WatchInit, RpcState, WaitState, RunnerState, SweepState, NoWait, NoSweep, Turns, Unknown
  <2> QED  BY <2>1, <2>2, <2>3 DEF WatchTypes
<1>3. codex.over = {} /\ codex.file = {} /\ rpc.done = {} /\ line.wire = <<>> /\ runner.stalled = 0
  BY DEF WatchInit
<1> QED  BY <1>2, <1>3 DEF WatchInv, WatchTellsTruth

\* What is added to the wire, unless the socket is down.
LEMMA ToldTyped ==
    ASSUME WatchInv, NEW ms \in Seq(MessageState), NEW over, codex.over \subseteq over,
           \A i \in 1..Len(ms) : ms[i].kind = "completed" => ms[i].turn \in over
    PROVE  /\ Told(ms) \in LineState
           /\ \A i \in 1..Len(Told(ms).wire) : Told(ms).wire[i].kind = "completed" => Told(ms).wire[i].turn \in over
<1> DEFINE w == line.wire
<1>1. w \in Seq(MessageState) /\ \A i \in 1..Len(w) : w[i].kind = "completed" => w[i].turn \in over
  <2>1. line.wire \in Seq(MessageState)
    BY DEF WatchInv, WatchTypes, LineState
  <2> QED  BY <2>1 DEF WatchInv, TellsOver
<1>2. w \o ms \in Seq(MessageState) /\ \A i \in 1..Len(w \o ms) : (w \o ms)[i].kind = "completed" => (w \o ms)[i].turn \in over
  <2>1. w \o ms \in Seq(MessageState) /\ Len(w \o ms) = Len(w) + Len(ms)
    BY <1>1, ConcatProperties
  <2> SUFFICES ASSUME NEW i \in 1..Len(w \o ms), (w \o ms)[i].kind = "completed"
               PROVE  (w \o ms)[i].turn \in over
    BY <2>1
  <2>2. CASE i <= Len(w)
    BY <1>1, <2>1, <2>2, ConcatProperties
  <2>3. CASE i > Len(w)
    <3>1. (w \o ms)[i] = ms[i - Len(w)] /\ i - Len(w) \in 1..Len(ms)
      BY <1>1, <2>1, <2>3, ConcatProperties, LenProperties
    <3> QED  BY <3>1
  <2> QED  BY <1>1, <2>2, <2>3, LenProperties
<1>3. line \in LineState
  BY DEF WatchInv, WatchTypes
<1>4. CASE line.up
  <2> DEFINE l == [line EXCEPT !.wire = w \o ms]
  <2>1. Told(ms) = l
    BY <1>4 DEF Told
  <2>2. l.wire = w \o ms /\ l \in LineState
    <3> HIDE DEF w
    <3> QED  BY <1>2, <1>3 DEF LineState
  <2> QED  BY <1>2, <2>1, <2>2
<1>5. CASE ~ line.up
  BY <1>1, <1>3, <1>5 DEF Told
<1> QED  BY <1>4, <1>5

LEMMA HeardTyped ==
    ASSUME NEW kind \in {"started", "completed"}, NEW turn \in Turns
    PROVE  /\ Heard(kind, turn) \in Seq(MessageState)
           /\ \A i \in 1..Len(Heard(kind, turn)) : Heard(kind, turn)[i].kind = kind /\ Heard(kind, turn)[i].turn = turn
<1>1. [kind |-> kind, turn |-> turn] \in MessageState
  BY DEF MessageState
<1>2. <<[kind |-> kind, turn |-> turn]>> \in Seq(MessageState) /\ Len(<<[kind |-> kind, turn |-> turn]>>) = 1
  BY <1>1
<1>3. <<>> \in Seq(MessageState) /\ Len(<<>>) = 0
  OBVIOUS
<1> QED  BY <1>2, <1>3 DEF Heard

\* The steps of the provider: turns get over, the rollout follows, and nothing else learns of it.
LEMMA ProviderSteps ==
    ASSUME WatchInv, codex' \in CodexState, line' \in LineState, wait' \in WaitState, UNCHANGED <<rpc, runner, sweep>>,
           codex.over \subseteq codex'.over, codex'.file \in {codex.file, codex.over},
           \A i \in 1..Len(line'.wire) : line'.wire[i].kind = "completed" => line'.wire[i].turn \in codex'.over
    PROVE  WatchInv'
<1>1. codex'.file \subseteq codex'.over /\ rpc'.done \subseteq codex'.over
  BY DEF WatchInv, WatchTellsTruth
<1>2. WatchTypes'
  BY DEF WatchInv, WatchTypes
<1> QED  BY <1>1, <1>2 DEF WatchInv, WatchTellsTruth, TellsOver

LEMMA ExternalKeeps == WatchInv /\ External => WatchInv'
<1> SUFFICES ASSUME WatchInv, External
             PROVE  WatchInv'
  OBVIOUS
<1>0. /\ codex \in CodexState /\ line \in LineState /\ wait \in WaitState /\ runner \in RunnerState
      /\ rpc.done \subseteq codex.over /\ codex.file \subseteq codex.over
  BY DEF WatchInv, WatchTypes, WatchTellsTruth
<1>1. /\ codex.begun \in Nat /\ codex.turn \in Turns /\ codex.over \subseteq Turns /\ codex.begun + 1 \in Turns
      /\ codex.size + 1 \in Nat /\ codex.rev + 1 \in Nat /\ codex.file \subseteq Turns
  BY <1>0 DEF CodexState, Turns
<1>2. CASE Typed
  <2>1. codex' = [codex EXCEPT !.begun = codex.begun + 1, !.turn = codex.begun + 1, !.settled = FALSE]
    BY <1>2 DEF Typed, NowRuns, NextTurn
  <2>2. codex' \in CodexState /\ codex'.over = codex.over /\ codex'.file = codex.file
    BY <1>0, <1>1, <2>1 DEF CodexState, Turns
  <2>3. line' = Told(Heard("started", codex.begun + 1)) /\ UNCHANGED <<rpc, wait, runner, sweep>>
    BY <1>2 DEF Typed, NextTurn
  <2>4. line' \in LineState /\ \A i \in 1..Len(line'.wire) : line'.wire[i].kind = "completed" => line'.wire[i].turn \in codex.over
    <3> DEFINE ms == Heard("started", codex.begun + 1)
    <3>1. ms \in Seq(MessageState) /\ \A i \in 1..Len(ms) : ms[i].kind # "completed"
      <4>1. /\ ms \in Seq(MessageState)
            /\ \A i \in 1..Len(ms) : ms[i].kind = "started" /\ ms[i].turn = codex.begun + 1
        BY <1>1, HeardTyped
      <4> QED  BY <4>1
    <3> HIDE DEF ms
    <3>2. line' = Told(ms)
      BY <2>3 DEF ms
    <3> DEFINE over == codex.over
    <3>3. codex.over \subseteq over /\ \A i \in 1..Len(ms) : ms[i].kind = "completed" => ms[i].turn \in over
      BY <3>1
    <3> HIDE DEF over
    <3>4. line' \in LineState /\ \A i \in 1..Len(line'.wire) : line'.wire[i].kind = "completed" => line'.wire[i].turn \in over
      BY <3>1, <3>2, <3>3, ToldTyped
    <3> QED  BY <3>4 DEF over
  <2> QED  BY <1>0, <2>2, <2>3, <2>4, ProviderSteps
<1>3. CASE StartsTurn
  <2> DEFINE n == codex.begun + 1
             ms == <<[kind |-> "reply", turn |-> n]>> \o Heard("started", n)
  <2>1. /\ codex' = [codex EXCEPT !.begun = n, !.turn = n, !.settled = FALSE]
        /\ line' = Told(ms) /\ wait' = [wait EXCEPT !.step = "starting"] /\ UNCHANGED <<rpc, runner, sweep>>
    BY <1>3 DEF StartsTurn, NowRuns, NextTurn
  <2>2. ms \in Seq(MessageState) /\ \A i \in 1..Len(ms) : ms[i].kind # "completed"
    <3>1. [kind |-> "reply", turn |-> n] \in MessageState
      BY <1>1 DEF MessageState
    <3>2. /\ <<[kind |-> "reply", turn |-> n]>> \in Seq(MessageState) /\ Len(<<[kind |-> "reply", turn |-> n]>>) = 1
          /\ <<[kind |-> "reply", turn |-> n]>>[1] = [kind |-> "reply", turn |-> n]
      BY <3>1
    <3>3. Heard("started", n) \in Seq(MessageState) /\ \A i \in 1..Len(Heard("started", n)) : Heard("started", n)[i].kind = "started"
      BY <1>1, HeardTyped
    <3>4. ms \in Seq(MessageState) /\ Len(ms) = 1 + Len(Heard("started", n))
      BY <3>2, <3>3, ConcatProperties
    <3>5. ASSUME NEW i \in 1..Len(ms)
          PROVE  ms[i].kind # "completed"
      <4>1. CASE i = 1
        BY <3>2, <3>3, <4>1, ConcatProperties
      <4>2. CASE i # 1
        <5>1. ms[i] = Heard("started", n)[i - 1] /\ i - 1 \in 1..Len(Heard("started", n))
          BY <3>2, <3>3, <3>4, <4>2, ConcatProperties, LenProperties
        <5> QED  BY <3>3, <5>1
      <4> QED  BY <4>1, <4>2
    <3> QED  BY <3>4, <3>5
  <2>3. line' \in LineState /\ \A i \in 1..Len(line'.wire) : line'.wire[i].kind = "completed" => line'.wire[i].turn \in codex.over
    <3> HIDE DEF ms
    <3> QED  BY <2>1, <2>2, ToldTyped
  <2>4. codex' \in CodexState /\ codex'.over = codex.over /\ codex'.file = codex.file
    BY <1>0, <1>1, <2>1 DEF CodexState, Turns
  <2>5. wait' \in WaitState
    BY <1>0, <2>1 DEF WaitState
  <2> QED  BY <2>1, <2>3, <2>4, <2>5, ProviderSteps
<1>4. CASE TurnEnds
  <2>1. codex' = [codex EXCEPT !.turn = 0, !.over = codex.over \cup {codex.turn}] /\ UNCHANGED <<rpc, wait, runner, sweep>>
    BY <1>4 DEF TurnEnds
  <2>2. codex' \in CodexState /\ codex'.over = codex.over \cup {codex.turn} /\ codex'.file = codex.file
    BY <1>0, <1>1, <2>1 DEF CodexState, Turns
  <2>3. line' \in LineState /\ \A i \in 1..Len(line'.wire) : line'.wire[i].kind = "completed" => line'.wire[i].turn \in codex'.over
    <3>1. CASE line' = Told(Heard("completed", codex.turn))
      <4> DEFINE ms == Heard("completed", codex.turn)
                 over == codex.over \cup {codex.turn}
      <4>1. ms \in Seq(MessageState) /\ \A i \in 1..Len(ms) : ms[i].kind = "completed" => ms[i].turn \in over
        <5>1. /\ ms \in Seq(MessageState)
              /\ \A i \in 1..Len(ms) : ms[i].kind = "completed" /\ ms[i].turn = codex.turn
          BY <1>1, HeardTyped
        <5> QED  BY <5>1
      <4> HIDE DEF ms
      <4>2. line' = Told(ms) /\ codex.over \subseteq over
        BY <3>1 DEF ms
      <4> HIDE DEF over
      <4>3. line' \in LineState /\ \A i \in 1..Len(line'.wire) : line'.wire[i].kind = "completed" => line'.wire[i].turn \in over
        BY <4>1, <4>2, ToldTyped
      <4> QED  BY <2>2, <4>3 DEF over
    <3>2. CASE line' = line
      BY <1>0, <2>2, <3>2 DEF WatchInv, TellsOver
    <3> QED  BY <1>4, <3>1, <3>2 DEF TurnEnds
  <2> QED  BY <1>0, <2>1, <2>2, <2>3, ProviderSteps
<1>5. CASE Works \/ WritesEnd \/ SummarySettles
  <2>1. /\ UNCHANGED <<line, rpc, wait, runner, sweep>>
        /\ \/ codex' = [codex EXCEPT !.size = codex.size + 1]
           \/ codex' = [codex EXCEPT !.size = codex.size + 1, !.file = codex.over]
           \/ codex' = [codex EXCEPT !.settled = TRUE, !.rev = codex.rev + 1]
    BY <1>5 DEF Works, WritesEnd, SummarySettles
  <2>2. codex' \in CodexState /\ codex'.over = codex.over /\ codex'.file \in {codex.file, codex.over}
    BY <1>0, <1>1, <2>1 DEF CodexState
  <2>3. \A i \in 1..Len(line'.wire) : line'.wire[i].kind = "completed" => line'.wire[i].turn \in codex.over
    BY <2>1 DEF WatchInv, TellsOver
  <2> QED  BY <1>0, <2>1, <2>2, <2>3, ProviderSteps
<1>6. CASE Cut
  <2>1. /\ codex' = [codex EXCEPT !.turn = 0, !.settled = TRUE, !.rev = codex.rev + 1]
        /\ line' = [line EXCEPT !.up = FALSE, !.joined = FALSE, !.wire = <<>>, !.sub = IF line.sub = "waiting" THEN "failed" ELSE line.sub]
        /\ wait' \in {NoWait, wait} /\ UNCHANGED <<rpc, runner, sweep>>
    BY <1>6 DEF Cut
  <2>2. codex' \in CodexState /\ codex'.over = codex.over /\ codex'.file = codex.file
    BY <1>0, <1>1, <2>1 DEF CodexState, Turns
  <2>3. line' \in LineState /\ line'.wire = <<>>
    BY <1>0, <2>1, EmptySeq DEF LineState
  <2>4. wait' \in WaitState
    BY <1>0, <2>1 DEF WaitState, NoWait, Turns, Unknown
  <2> QED  BY <1>0, <2>1, <2>2, <2>3, <2>4, ProviderSteps
<1> QED  BY <1>2, <1>3, <1>4, <1>5, <1>6 DEF External

\* The steps of the client: a completion it hears or reads is of a turn that is over.
LEMMA ClientSteps ==
    ASSUME WatchInv, line' \in LineState, rpc' \in RpcState, wait' \in WaitState, UNCHANGED <<codex, runner, sweep>>,
           rpc'.done \subseteq codex.over,
           \A i \in 1..Len(line'.wire) : line'.wire[i].kind = "completed" => line'.wire[i].turn \in codex.over
    PROVE  WatchInv'
<1>1. WatchTypes' /\ codex'.file \subseteq codex'.over
  BY DEF WatchInv, WatchTypes
<1> QED  BY <1>1 DEF WatchInv, WatchTellsTruth, TellsOver

LEMMA RememberTyped ==
    ASSUME WatchInv, NEW turn \in Turns
    PROVE  /\ RememberCompletedTurn(turn) \in RpcState
           /\ turn \in codex.over => RememberCompletedTurn(turn).done \subseteq codex.over
           /\ Known(turn) \in RpcState /\ Known(turn).done \subseteq codex.over
<1>1. rpc \in RpcState /\ rpc.done \subseteq codex.over
  BY DEF WatchInv, WatchTypes, WatchTellsTruth
<1> QED  BY <1>1 DEF RememberCompletedTurn, Known, RpcState

LEMMA WireKeeps == WatchInv => \A i \in 1..Len(line.wire) : line.wire[i].kind = "completed" => line.wire[i].turn \in codex.over
BY DEF WatchInv, TellsOver

LEMMA ClientKeeps == WatchInv /\ Client => WatchInv'
<1> SUFFICES ASSUME WatchInv, Client
             PROVE  WatchInv'
  OBVIOUS
<1>0. /\ line \in LineState /\ wait \in WaitState /\ rpc \in RpcState /\ rpc.done \subseteq codex.over
  BY DEF WatchInv, WatchTypes, WatchTellsTruth
<1>1. CASE Message
  <2> DEFINE m == Head(line.wire)
  <2>1. line.wire \in Seq(MessageState) /\ line.wire # <<>>
    BY <1>0, <1>1 DEF Message, LineState
  <2>2. /\ m \in MessageState /\ m = line.wire[1] /\ 1 \in 1..Len(line.wire)
        /\ Tail(line.wire) \in Seq(MessageState) /\ Len(Tail(line.wire)) = Len(line.wire) - 1
        /\ \A i \in 1..Len(Tail(line.wire)) : Tail(line.wire)[i] = line.wire[i + 1]
    BY <2>1, HeadTailProperties, EmptySeq
  <2>3. m.turn \in Turns /\ (m.kind = "completed" => m.turn \in codex.over)
    BY <2>2, WireKeeps DEF MessageState
  <2>4. line' = [line EXCEPT !.wire = Tail(line.wire)] /\ UNCHANGED <<codex, runner, sweep>>
    BY <1>1 DEF Message
  <2>5. /\ rpc' = IF m.kind = "completed" THEN RememberCompletedTurn(m.turn) ELSE Known(m.turn)
        /\ wait' = IF m.kind = "reply" THEN [wait EXCEPT !.step = "told", !.turn = m.turn] ELSE wait
    BY <1>1 DEF Message
  <2> HIDE DEF m
  <2>6. line' \in LineState /\ line'.wire = Tail(line.wire)
    BY <1>0, <2>2, <2>4 DEF LineState
  <2>7. rpc' \in RpcState /\ rpc'.done \subseteq codex.over
    BY <2>3, <2>5, RememberTyped
  <2>8. wait' \in WaitState
    BY <1>0, <2>3, <2>5 DEF WaitState
  <2>9. ASSUME NEW i \in 1..Len(Tail(line.wire)), Tail(line.wire)[i].kind = "completed"
        PROVE  Tail(line.wire)[i].turn \in codex.over
    <3>1. Tail(line.wire)[i] = line.wire[i + 1] /\ i + 1 \in 1..Len(line.wire)
      BY <2>1, <2>2, LenProperties
    <3> QED  BY <2>9, <3>1, WireKeeps
  <2> QED  BY <2>4, <2>6, <2>7, <2>8, <2>9, ClientSteps
<1>2. CASE Subscribes \/ Subscribed \/ Reconnects
  <2>1. /\ \/ line' = [line EXCEPT !.sub = "waiting"]
           \/ line' = [line EXCEPT !.sub = "landed", !.joined = TRUE]
           \/ line' = [line EXCEPT !.sub = "failed"]
           \/ line' = [line EXCEPT !.up = TRUE]
        /\ UNCHANGED <<codex, rpc, wait, runner, sweep>>
    BY <1>2 DEF Subscribes, Subscribed, Reconnects
  <2>2. line' \in LineState /\ line'.wire = line.wire
    BY <1>0, <2>1 DEF LineState
  <2> QED  BY <1>0, <2>1, <2>2, WireKeeps, ClientSteps
<1> QED  BY <1>1, <1>2 DEF Client

LEMMA QueueKeeps == WatchInv /\ Queue => WatchInv'
<1> SUFFICES ASSUME WatchInv, Queue
             PROVE  WatchInv'
  OBVIOUS
<1>0. /\ line \in LineState /\ wait \in WaitState /\ rpc \in RpcState /\ rpc.done \subseteq codex.over
      /\ codex \in CodexState /\ codex.file \subseteq codex.over /\ runner \in RunnerState /\ NoWait \in WaitState
  BY DEF WatchInv, WatchTypes, WatchTellsTruth, WaitState, NoWait, Turns, Unknown
<1>1. CASE WaitsForIdle \/ FindsIdle \/ Refused \/ PollSummary
  <2>1. /\ \/ wait' = NoWait
           \/ wait' = [wait EXCEPT !.step = "idle"] \/ wait' = [wait EXCEPT !.step = "sent"]
           \/ wait' = [wait EXCEPT !.key = Unknown] \/ wait' = [wait EXCEPT !.key = codex.rev, !.step = "read"]
        /\ \/ rpc' = rpc
           \/ rpc' = [rpc EXCEPT !.active = FALSE]
        /\ UNCHANGED <<codex, line, runner, sweep>>
    BY <1>1 DEF WaitsForIdle, FindsIdle, Refused, PollSummary, Moves, OnlyWait
  <2>2. wait' \in WaitState
    <3>1. Unknown \in Int /\ codex.rev \in Int
      BY <1>0 DEF Unknown, CodexState
    <3> QED  BY <1>0, <2>1, <3>1 DEF WaitState
  <2>3. rpc' \in RpcState /\ rpc'.done = rpc.done
    BY <1>0, <2>1 DEF RpcState
  <2> QED  BY <1>0, <2>1, <2>2, <2>3, WireKeeps, ClientSteps
<1>2. CASE SetsRunning \/ Returns
  <2>1. /\ \/ runner' = [turn |-> wait.turn, stalled |-> 0] /\ wait' = [wait EXCEPT !.step = "notify"]
           \/ runner' = [turn |-> 0, stalled |-> 0] /\ wait' = NoWait
        /\ UNCHANGED <<codex, line, rpc, sweep>>
    BY <1>2 DEF SetsRunning, Returns, Moves
  <2>2. wait' \in WaitState /\ runner' \in RunnerState /\ runner'.stalled = 0
    BY <1>0, <2>1 DEF WaitState, RunnerState, Turns
  <2> QED  BY <1>0, <2>1, <2>2 DEF WatchInv, WatchTypes, WatchTellsTruth, TellsOver
<1>3. CASE ReadSettledTurns
  <2>1. /\ rpc' = rpc \/ (wait.turn \in codex.file /\ rpc' = RememberCompletedTurn(wait.turn))
        /\ wait' = [wait EXCEPT !.step = "notify"] /\ UNCHANGED <<codex, line, runner, sweep>>
    BY <1>3 DEF ReadSettledTurns, Moves, Finished
  <2>2. wait' \in WaitState /\ wait.turn \in Turns
    BY <1>0, <2>1 DEF WaitState
  <2>3. rpc' \in RpcState /\ rpc'.done \subseteq codex.over
    BY <1>0, <2>1, <2>2, RememberTyped
  <2> QED  BY <1>0, <2>1, <2>2, <2>3, WireKeeps, ClientSteps
<1> QED  BY <1>1, <1>2, <1>3 DEF Queue

LEMMA SweepKeeps == WatchInv /\ Sweep => WatchInv'
<1> SUFFICES ASSUME WatchInv, Sweep
             PROVE  WatchInv'
  OBVIOUS
<1>0. /\ rpc \in RpcState /\ sweep \in SweepState /\ runner \in RunnerState /\ NoSweep \in SweepState
      /\ codex.file \subseteq codex.over
  BY DEF WatchInv, WatchTypes, SweepState, NoSweep, Turns
<1>1. CASE SweepReads \/ SweepStats
  <2>1. UNCHANGED <<codex, line, rpc, wait, runner>>
    BY <1>1 DEF SweepReads, SweepStats
  <2>2. sweep' \in SweepState
    <3>1. CASE SweepReads
      BY <1>0, <3>1 DEF SweepReads, SweepState, RunnerState
    <3>2. CASE SweepStats
      <4>1. PICK a \in {"none", "mark", "clear"} :
              sweep' = IF a = "none" THEN NoSweep
                       ELSE [sweep EXCEPT !.action = a, !.step = IF a = "mark" THEN "settle" ELSE "write"]
        BY <3>2 DEF SweepStats, DecideStall
      <4> QED  BY <1>0, <4>1 DEF SweepState
    <3> QED  BY <1>1, <3>1, <3>2
  <2> QED  BY <2>1, <2>2 DEF WatchInv, WatchTypes, WatchTellsTruth, TellsOver
<1>2. CASE SweepSettles
  <2>1. /\ \/ sweep.turn \in codex.file /\ rpc' = RememberCompletedTurn(sweep.turn) /\ sweep' = NoSweep
           \/ rpc' = rpc /\ sweep' = [sweep EXCEPT !.step = "write"]
        /\ UNCHANGED <<codex, line, wait, runner>>
    BY <1>2 DEF SweepSettles, Finished
  <2>2. sweep' \in SweepState /\ sweep.turn \in Turns
    BY <1>0, <2>1 DEF SweepState
  <2>3. rpc' \in RpcState /\ rpc'.done \subseteq codex.over
    BY <1>0, <2>1, <2>2, RememberTyped DEF WatchInv, WatchTellsTruth
  <2> QED  BY <2>1, <2>2, <2>3 DEF WatchInv, WatchTypes, WatchTellsTruth, TellsOver
<1>3. CASE SweepWrites
  <2>1. /\ \/ runner' = runner
           \/ runner.turn = sweep.turn /\ runner' = [runner EXCEPT !.stalled = IF sweep.action = "mark" THEN sweep.turn ELSE 0]
        /\ sweep' = NoSweep /\ UNCHANGED <<codex, line, rpc, wait>>
    BY <1>3 DEF SweepWrites, StillOn
  <2>2. runner' \in RunnerState /\ (runner'.stalled # 0 => runner'.stalled = runner'.turn)
    BY <1>0, <2>1 DEF RunnerState, SweepState, Turns, WatchInv, WatchTellsTruth
  <2> QED  BY <1>0, <2>1, <2>2 DEF WatchInv, WatchTypes, WatchTellsTruth, TellsOver
<1> QED  BY <1>1, <1>2, <1>3 DEF Sweep

\* Whatever is lost, delayed or cut, and whoever starts turns: what the client counts as over is over,
\* and the runner is marked stalled only for the turn it runs (sweepStalledTurns, CodexRpcClient).
THEOREM StallsTellTruth == WatchSpec => []WatchTellsTruth
<1>1. WatchInv /\ [WatchNext]_watchVars => WatchInv'
  <2>1. WatchInv /\ UNCHANGED watchVars => WatchInv'
    BY DEF watchVars, WatchInv, WatchTypes, WatchTellsTruth, TellsOver
  <2> QED  BY <2>1, ExternalKeeps, ClientKeeps, QueueKeeps, SweepKeeps DEF WatchNext
<1>2. WatchInv => WatchTellsTruth
  BY DEF WatchInv
<1> QED  BY <1>1, <1>2, WatchStarts, PTL DEF WatchSpec

-----------------------------------------------------------------------------
(* The recovery after a crash. *)

Names == Items \cup {None}
Statuses == {"pending", "dispatching", "running", "completed", "interrupted"}
Settings == {"paused", "armed", "running"}
PromptsState == [Items -> [status : Statuses, turn : Names]]
FileState ==
    [prompts : PromptsState, answers : [Items -> {None, "running", "completed", "interrupted"}],
     runner : [state : {"paused", "dispatching", "running"}, desired : Settings, active : Names],
     session : {"disconnected", "connecting", "ready", "closed"}]
TaskSteps == {"rest", "say", "accept", "open", "run", "end", "completed", "interrupted", "clear"}
TaskState == [item : Names, step : TaskSteps]
FileTypes ==
    /\ file \in FileState /\ seen \in FileState /\ task \in TaskState /\ setting \in Settings /\ torn \in BOOLEAN
    /\ phase \in {"up", "down", "runtime", "prompts", "answers", "tab", "recovered"}

\* Prompts are linked to the prompt that began their turn, and a command to nothing but itself;
\* those of a turn are in flight together.
Status(f, i) == f.prompts[i].status
TurnOf(f, i) == f.prompts[i].turn
Flies(f, i) == Status(f, i) \in InFlight
TurnsHold(f) ==
    /\ \A i \in Items : Status(f, i) = "pending" => TurnOf(f, i) = None
    /\ \A i \in Items : TurnOf(f, i) # None => TurnOf(f, TurnOf(f, i)) = TurnOf(f, i)
    /\ \A i \in Items : (i \in SlashItems \/ TurnOf(f, i) \in SlashItems) => TurnOf(f, i) \in {None, i}
    /\ \A t \in Items : f.answers[t] # None => TurnOf(f, t) = t /\ t \notin SlashItems
    /\ \A i, j \in Items : TurnOf(f, i) # None /\ TurnOf(f, j) = TurnOf(f, i) /\ Flies(f, i) => Flies(f, j)
AnswersAgree(f) ==
    \A i \in Items : TurnOf(f, i) # None /\ ~ Flies(f, i) /\ f.answers[TurnOf(f, i)] # None => f.answers[TurnOf(f, i)] = Status(f, i)

\* What the dispatch under way has written.
TaskHolds ==
    /\ task.step = "rest" <=> task.item = None
    /\ phase # "up" => task = Idle
    /\ task.step \in {"say", "accept"} => Status(file, task.item) = "dispatching" /\ TurnOf(file, task.item) = None
    /\ task.step \in {"open", "run", "end", "completed", "interrupted"} =>
         Status(file, task.item) = "running" /\ TurnOf(file, task.item) = task.item
    /\ task.step \in {"completed", "interrupted"} /\ task.item \notin SlashItems => file.answers[task.item] = task.step

\* How far a recovery has got with what it read.
RecoveredPrompts(f) == [i \in Items |-> RecoveredPrompt(i, f.prompts[i])]
PhaseHolds ==
    /\ file.runner.desired \in {setting, SettledDesired(setting)}
    /\ phase = "runtime" => seen = file
    /\ phase \in {"prompts", "answers", "tab", "recovered"} =>
         file.runner = [state |-> "paused", desired |-> SettledDesired(setting), active |-> None]
    /\ phase = "prompts" => seen.prompts = file.prompts
    /\ phase \in {"prompts", "answers"} => seen.answers = file.answers
    /\ phase \in {"prompts", "answers", "tab"} => seen.session = file.session
    /\ phase = "answers" => file.prompts = RecoveredPrompts(seen) /\ TurnsHold(seen) /\ (~ torn => AnswersAgree(seen))
    /\ phase \in {"answers", "tab", "recovered"} => \A i \in Items : ~ Flies(file, i)
    /\ phase = "recovered" => ~ SessionStale(file)

RecoveryInv ==
    /\ FileTypes /\ TurnsHold(file) /\ TaskHolds /\ PhaseHolds
    /\ ~ torn /\ phase # "answers" => AnswersAgree(file)

LEMMA PromptWrites ==
    ASSUME NEW f \in FileState, NEW i \in Items, NEW s \in Statuses, NEW t \in Names,
           NEW g, g = [f EXCEPT !.prompts[i] = [status |-> s, turn |-> t]]
    PROVE  /\ g \in FileState /\ g.answers = f.answers /\ g.runner = f.runner /\ g.session = f.session
           /\ \A j \in Items : Status(g, j) = (IF j = i THEN s ELSE Status(f, j)) /\ TurnOf(g, j) = (IF j = i THEN t ELSE TurnOf(f, j))
<1> DEFINE p == [f.prompts EXCEPT ![i] = [status |-> s, turn |-> t]]
<1>1. f.prompts \in PromptsState /\ g = [f EXCEPT !.prompts = p]
  BY DEF FileState
<1>2. p \in PromptsState /\ \A j \in Items : p[j] = IF j = i THEN [status |-> s, turn |-> t] ELSE f.prompts[j]
  BY <1>1 DEF PromptsState
<1> HIDE DEF p
<1>3. g \in FileState
  BY <1>1, <1>2 DEF FileState
<1>4. g.prompts = p /\ g.answers = f.answers /\ g.runner = f.runner /\ g.session = f.session
  BY <1>1 DEF FileState
<1>5. ASSUME NEW j \in Items
      PROVE  Status(g, j) = (IF j = i THEN s ELSE Status(f, j)) /\ TurnOf(g, j) = (IF j = i THEN t ELSE TurnOf(f, j))
  <2>1. CASE j = i
    <3>1. g.prompts[j] = [status |-> s, turn |-> t]
      BY <1>2, <1>4, <2>1
    <3> QED  BY <2>1, <3>1 DEF Status, TurnOf
  <2>2. CASE j # i
    <3>1. g.prompts[j] = f.prompts[j]
      BY <1>2, <1>4, <2>2
    <3> QED  BY <2>2, <3>1 DEF Status, TurnOf
  <2> QED  BY <2>1, <2>2
<1> QED  BY <1>3, <1>4, <1>5

LEMMA FileValues ==
    ASSUME NEW f \in FileState, NEW i \in Items
    PROVE  Status(f, i) \in Statuses /\ TurnOf(f, i) \in Names
BY DEF FileState, PromptsState, Status, TurnOf

\* The records that a step leaves as they are.
LEMMA SameRecords ==
    ASSUME RecoveryInv, file'.prompts = file.prompts, file'.answers = file.answers
    PROVE  /\ TurnsHold(file)' /\ (AnswersAgree(file) => AnswersAgree(file)')
           /\ \A i \in Items : Status(file, i)' = Status(file, i) /\ TurnOf(file, i)' = TurnOf(file, i) /\ Flies(file, i)' = Flies(file, i)
<1>1. \A i \in Items : Status(file, i)' = Status(file, i) /\ TurnOf(file, i)' = TurnOf(file, i) /\ Flies(file, i)' = Flies(file, i)
  BY DEF Status, TurnOf, Flies
<1>2. TurnsHold(file)'
  BY DEF RecoveryInv, TurnsHold, Status, TurnOf, Flies
<1>3. AnswersAgree(file) => AnswersAgree(file)'
  BY DEF AnswersAgree, Status, TurnOf, Flies
<1> QED  BY <1>1, <1>2, <1>3

\* While the server is up, no recovery is under way.
LEMMA UpSteps ==
    ASSUME RecoveryInv, phase = "up", phase' = phase, torn' = torn, seen' = seen, setting' \in Settings,
           file' \in FileState, task' \in TaskState, TurnsHold(file)', TaskHolds',
           file'.runner.desired \in {setting', SettledDesired(setting')}, ~ torn => AnswersAgree(file)'
    PROVE  RecoveryInv'
<1>1. FileTypes'
  BY DEF RecoveryInv, FileTypes
<1>2. PhaseHolds'
  BY DEF PhaseHolds
<1> QED  BY <1>1, <1>2 DEF RecoveryInv

LEMMA RecoveryStarts == RecoveryInit => RecoveryInv
<1> SUFFICES ASSUME RecoveryInit
             PROVE  RecoveryInv
  OBVIOUS
<1>1. /\ file = [prompts |-> [i \in Items |-> [status |-> "pending", turn |-> None]], answers |-> [i \in Items |-> None],
                 runner |-> [state |-> "paused", desired |-> "paused", active |-> None], session |-> "disconnected"]
      /\ task = Idle /\ phase = "up" /\ seen = file /\ setting = "paused" /\ torn = FALSE
  BY DEF RecoveryInit
<1>2. file \in FileState
  BY <1>1 DEF FileState, PromptsState, Statuses, Names, Settings
<1>3. FileTypes
  BY <1>1, <1>2 DEF FileTypes, TaskState, TaskSteps, Idle, Names, Settings
<1>4. \A i \in Items : Status(file, i) = "pending" /\ TurnOf(file, i) = None /\ file.answers[i] = None
  BY <1>1 DEF Status, TurnOf
<1>5. TurnsHold(file) /\ AnswersAgree(file)
  BY <1>4 DEF TurnsHold, AnswersAgree, Flies, InFlight
<1>6. TaskHolds
  BY <1>1 DEF TaskHolds, Idle
<1>7. PhaseHolds
  BY <1>1 DEF PhaseHolds
<1> QED  BY <1>3, <1>5, <1>6, <1>7 DEF RecoveryInv

LEMMA OpensKeeps == RecoveryInv /\ Opens => RecoveryInv'
<1> SUFFICES ASSUME RecoveryInv, Opens
             PROVE  RecoveryInv'
  OBVIOUS
<1>1. /\ phase = "up" /\ file' = [file EXCEPT !.session = IF file.session = "connecting" THEN "ready" ELSE "connecting"]
      /\ UNCHANGED <<task, phase, seen, setting, torn>>
  BY DEF Opens
<1>2. file \in FileState /\ task \in TaskState /\ setting \in Settings
  BY DEF RecoveryInv, FileTypes
<1>3. file' \in FileState /\ file'.prompts = file.prompts /\ file'.answers = file.answers /\ file'.runner = file.runner
  BY <1>1, <1>2 DEF FileState
<1>4. TaskHolds'
  BY <1>1, <1>3 DEF RecoveryInv, TaskHolds, Status, TurnOf
<1> QED  BY <1>1, <1>2, <1>3, <1>4, SameRecords, UpSteps DEF RecoveryInv, PhaseHolds

LEMMA SetsKeeps == ASSUME NEW d \in Settings  PROVE RecoveryInv /\ Sets(d) => RecoveryInv'
<1> SUFFICES ASSUME RecoveryInv, Sets(d)
             PROVE  RecoveryInv'
  OBVIOUS
<1>1. /\ phase = "up" /\ file' = [file EXCEPT !.runner.desired = d] /\ setting' = d
      /\ UNCHANGED <<task, phase, seen, torn>>
  BY DEF Sets
<1>2. file \in FileState /\ task \in TaskState
  BY DEF RecoveryInv, FileTypes
<1>3. /\ file' \in FileState /\ file'.prompts = file.prompts /\ file'.answers = file.answers
      /\ file'.runner.desired = d
  BY <1>1, <1>2 DEF FileState
<1>4. TaskHolds'
  BY <1>1, <1>3 DEF RecoveryInv, TaskHolds, Status, TurnOf
<1> QED  BY <1>1, <1>2, <1>3, <1>4, SameRecords, UpSteps DEF RecoveryInv

\* One prompt that is written while the server is up and its turn runs or has not begun.
LEMMA DispatchesKeeps == ASSUME NEW i \in Items  PROVE RecoveryInv /\ Dispatches(i) => RecoveryInv'
<1> SUFFICES ASSUME RecoveryInv, Dispatches(i)
             PROVE  RecoveryInv'
  OBVIOUS
<1>1. /\ phase = "up" /\ Status(file, i) = "pending" /\ UNCHANGED <<phase, seen, setting, torn>>
  BY DEF Dispatches, Status
<1>2. file \in FileState /\ task \in TaskState /\ setting \in Settings
  BY DEF RecoveryInv, FileTypes
<1>3. PICK t \in Names :
        /\ file' = [file EXCEPT !.prompts[i] = [status |-> "dispatching", turn |-> t]]
        /\ \/ t = None /\ task = Idle /\ task' = [item |-> i, step |-> "say"]
           \/ t = task.item /\ t # None /\ task.step = "end" /\ i \notin SlashItems /\ t \notin SlashItems /\ task' = task
  <2>1. CASE task = Idle
    BY <2>1 DEF Dispatches, Prompt, Names, Idle
  <2>2. CASE task.step = "end"
    BY <1>2, <2>2 DEF Dispatches, Prompt, Idle, RecoveryInv, TaskHolds, TaskState
  <2> QED  BY <2>1, <2>2 DEF Dispatches
<1>4. /\ file' \in FileState /\ file'.answers = file.answers /\ file'.runner = file.runner
      /\ \A j \in Items : Status(file', j) = (IF j = i THEN "dispatching" ELSE Status(file, j)) /\ TurnOf(file', j) = (IF j = i THEN t ELSE TurnOf(file, j))
  <2>1. "dispatching" \in Statuses
    BY DEF Statuses
  <2> QED  BY <1>2, <1>3, <2>1, PromptWrites
<1>5. TurnOf(file, i) = None /\ \A j \in Items : TurnOf(file, j) # i
  BY <1>1, <1>2, ItemsAssumption DEF RecoveryInv, TurnsHold
<1>6. t # None => t \in Items /\ t # i /\ Status(file, t) = "running" /\ TurnOf(file, t) = t /\ t \notin SlashItems /\ i \notin SlashItems
  BY <1>1, <1>2, <1>3 DEF RecoveryInv, TaskHolds, Names
<1>7. TurnsHold(file')
  BY <1>4, <1>5, <1>6, ItemsAssumption, FileValues, <1>2 DEF RecoveryInv, TurnsHold, Flies, InFlight, Names
<1>8. ~ torn => AnswersAgree(file')
  BY <1>1, <1>4, <1>5, <1>6 DEF RecoveryInv, AnswersAgree, Flies, InFlight
<1>9. task' \in TaskState /\ TaskHolds'
  <2>1. CASE t = None /\ task = Idle /\ task' = [item |-> i, step |-> "say"]
    BY <1>1, <1>4, <2>1, ItemsAssumption DEF TaskState, TaskSteps, TaskHolds, Names, Status, TurnOf
  <2>2. CASE t = task.item /\ task.step = "end" /\ task' = task
    BY <1>1, <1>2, <1>4, <1>6, <2>2 DEF TaskHolds, RecoveryInv, Status, TurnOf
  <2> QED  BY <1>3, <2>1, <2>2
<1> QED  BY <1>1, <1>2, <1>4, <1>7, <1>8, <1>9, UpSteps DEF RecoveryInv, PhaseHolds

LEMMA JoinsKeeps == ASSUME NEW i \in Items  PROVE RecoveryInv /\ Joins(i) => RecoveryInv'
<1> SUFFICES ASSUME RecoveryInv, Joins(i)
             PROVE  RecoveryInv'
  OBVIOUS
<1>1. /\ phase = "up" /\ Status(file, i) = "dispatching" /\ TurnOf(file, i) = task.item /\ UNCHANGED <<task, phase, seen, setting, torn>>
      /\ task.step = "end" /\ i # task.item /\ file' = [file EXCEPT !.prompts[i] = [status |-> "running", turn |-> task.item]]
  BY DEF Joins, Status, TurnOf, Prompt
<1>2. file \in FileState /\ task \in TaskState /\ setting \in Settings /\ task.item \in Names
  BY DEF RecoveryInv, FileTypes, TaskState
<1>4. /\ file' \in FileState /\ file'.answers = file.answers /\ file'.runner = file.runner
      /\ \A j \in Items : Status(file', j) = (IF j = i THEN "running" ELSE Status(file, j)) /\ TurnOf(file', j) = TurnOf(file, j)
  <2>1. "running" \in Statuses
    BY DEF Statuses
  <2> QED  BY <1>1, <1>2, <2>1, PromptWrites
<1>5. \A j \in Items : Flies(file', j) <=> Flies(file, j)
  BY <1>1, <1>4 DEF Flies, InFlight
<1>6. TurnsHold(file')
  BY <1>4, <1>5, <1>2, <1>1, FileValues DEF RecoveryInv, TurnsHold, Names
<1>7. ~ torn => AnswersAgree(file')
  BY <1>1, <1>4, <1>5, <1>2 DEF RecoveryInv, AnswersAgree, Flies, InFlight
<1>8. TaskHolds'
  <2>1. task.item \in Items
    BY <1>1, <1>2 DEF RecoveryInv, TaskHolds, Names
  <2> QED  BY <1>1, <1>4, <2>1 DEF TaskHolds, RecoveryInv, Status, TurnOf
<1> QED  BY <1>1, <1>2, <1>4, <1>6, <1>7, <1>8, UpSteps DEF RecoveryInv, PhaseHolds

\* The writes of a dispatch, and of the end of its turn.
LEMMA RunnerWrites ==
    ASSUME file \in FileState, NEW s \in {"paused", "dispatching", "running"}, NEW a \in Names,
           file' = [file EXCEPT !.runner.state = s, !.runner.active = a]
    PROVE  /\ file' \in FileState /\ file'.prompts = file.prompts /\ file'.answers = file.answers
           /\ file'.runner.desired = file.runner.desired
<1> DEFINE r == [file.runner EXCEPT !.state = s, !.active = a]
<1>1. file' = [file EXCEPT !.runner = r]
  OBVIOUS
<1>2. file.runner \in [state : {"paused", "dispatching", "running"}, desired : Settings, active : Names]
  BY DEF FileState
<1>3. r \in [state : {"paused", "dispatching", "running"}, desired : Settings, active : Names] /\ r.desired = file.runner.desired
  BY <1>2
<1> HIDE DEF r
<1> QED  BY <1>1, <1>3 DEF FileState

LEMMA AnswerWrites ==
    ASSUME RecoveryInv, phase = "up", NEW i \in Items, NEW o \in {"running", "completed", "interrupted"}, i \notin SlashItems,
           Status(file, i) = "running", TurnOf(file, i) = i, file' = [file EXCEPT !.answers[i] = o]
    PROVE  /\ file' \in FileState /\ file'.prompts = file.prompts /\ file'.runner = file.runner /\ file'.answers[i] = o
           /\ TurnsHold(file)' /\ (~ torn => AnswersAgree(file)')
<1> DEFINE b == [file.answers EXCEPT ![i] = o]
<1>1. file \in FileState /\ file' = [file EXCEPT !.answers = b]
  BY DEF RecoveryInv, FileTypes
<1>2. b \in [Items -> {None, "running", "completed", "interrupted"}] /\ \A j \in Items : b[j] = IF j = i THEN o ELSE file.answers[j]
  BY <1>1 DEF FileState
<1> HIDE DEF b
<1>3. file' \in FileState
  BY <1>1, <1>2 DEF FileState
<1>4. file'.prompts = file.prompts /\ file'.runner = file.runner /\ file'.answers = b
  BY <1>1 DEF FileState
<1>5. \A j \in Items : Status(file', j) = Status(file, j) /\ TurnOf(file', j) = TurnOf(file, j)
  BY <1>4 DEF Status, TurnOf
<1>6. TurnsHold(file')
  <2>1. \A j \in Items : TurnOf(file, j) # None => TurnOf(file, j) \in Items
    BY <1>1, FileValues DEF Names
  <2>2. \A t \in Items : file'.answers[t] # None => TurnOf(file, t) = t /\ t \notin SlashItems
    BY <1>2, <1>4 DEF RecoveryInv, TurnsHold
  <2> QED  BY <1>5, <2>1, <2>2 DEF RecoveryInv, TurnsHold, Flies
<1>7. \A j \in Items : TurnOf(file, j) = i => Flies(file, j)
  BY ItemsAssumption DEF RecoveryInv, TurnsHold, Flies, InFlight
<1>8. ~ torn => AnswersAgree(file')
  <2> SUFFICES ASSUME ~ torn, NEW j \in Items, TurnOf(file', j) # None, ~ Flies(file', j), file'.answers[TurnOf(file', j)] # None
               PROVE  file'.answers[TurnOf(file', j)] = Status(file', j)
    BY DEF AnswersAgree
  <2>1. TurnOf(file, j) # i /\ TurnOf(file, j) # None /\ ~ Flies(file, j)
    BY <1>5, <1>7 DEF Flies
  <2>2. TurnOf(file, j) \in Items /\ file'.answers[TurnOf(file, j)] = file.answers[TurnOf(file, j)]
    BY <1>1, <1>2, <1>4, <2>1, FileValues DEF Names
  <2>4. AnswersAgree(file)
    BY DEF RecoveryInv
  <2> QED  BY <1>5, <2>1, <2>2, <2>4 DEF AnswersAgree
<1> QED  BY <1>2, <1>3, <1>4, <1>6, <1>8

\* The same step of the same task, with the records of its prompt as they were.
LEMMA TaskMoves ==
    ASSUME RecoveryInv, phase = "up", phase' = phase, task.step # "rest", NEW s \in TaskSteps \ {"rest"},
           task' = [task EXCEPT !.step = s],
           s \in {"say", "accept"} =>
             Status(file', task.item) = "dispatching" /\ TurnOf(file', task.item) = None,
           s \in {"open", "run", "end", "completed", "interrupted"} =>
             Status(file', task.item) = "running" /\ TurnOf(file', task.item) = task.item,
           s \in {"completed", "interrupted"} /\ task.item \notin SlashItems => file'.answers[task.item] = s
    PROVE  task' \in TaskState /\ TaskHolds'
<1>1. task \in TaskState /\ task.item # None
  BY DEF RecoveryInv, FileTypes, TaskHolds
<1>2. task' \in TaskState /\ task'.item = task.item /\ task'.step = s
  BY <1>1 DEF TaskState
<1> QED  BY <1>1, <1>2 DEF TaskHolds, Status, TurnOf

LEMMA WritesKeeps == RecoveryInv /\ Writes => RecoveryInv'
<1> SUFFICES ASSUME RecoveryInv, Writes
             PROVE  RecoveryInv'
  OBVIOUS
<1> DEFINE i == task.item
<1>0. /\ phase = "up" /\ UNCHANGED <<phase, seen, setting, torn>> /\ i \in Items
      /\ file \in FileState /\ task \in TaskState /\ setting \in Settings
      /\ file.runner.desired \in {setting, SettledDesired(setting)} /\ TaskHolds /\ TurnsHold(file)
      /\ (~ torn => AnswersAgree(file))
  BY DEF Writes, RecoveryInv, FileTypes, TaskState, Names, PhaseHolds
<1>1. CASE task.step \in {"say", "run", "clear"}
  <2>1. PICK s \in {"paused", "dispatching", "running"}, a \in Names :
          /\ file' = [file EXCEPT !.runner.state = s, !.runner.active = a]
          /\ \/ task.step = "say" /\ task' = [task EXCEPT !.step = "accept"]
             \/ task.step = "run" /\ task' = [task EXCEPT !.step = "end"]
             \/ task.step = "clear" /\ task' = Idle
    <3>1. CASE task.step = "say"
      BY <1>0, <3>1 DEF Writes, Runner, Then, Names
    <3>2. CASE task.step = "run"
      BY <1>0, <3>2 DEF Writes, Runner, Then, Names
    <3>3. CASE task.step = "clear"
      BY <1>0, <3>3 DEF Writes, Runner, Then, Names
    <3> QED  BY <1>1, <3>1, <3>2, <3>3
  <2>2. file' \in FileState /\ file'.prompts = file.prompts /\ file'.answers = file.answers /\ file'.runner.desired = file.runner.desired
    BY <1>0, <2>1, RunnerWrites
  <2>3. \A j \in Items : Status(file', j) = Status(file, j) /\ TurnOf(file', j) = TurnOf(file, j)
    BY <2>2 DEF Status, TurnOf
  <2>4. task' \in TaskState /\ TaskHolds'
    <3>1. CASE task.step = "say"
      BY <1>0, <2>1, <2>3, <3>1, TaskMoves DEF TaskHolds, TaskSteps
    <3>2. CASE task.step = "run"
      BY <1>0, <2>1, <2>3, <3>2, TaskMoves DEF TaskHolds, TaskSteps
    <3>3. CASE task.step = "clear"
      BY <1>0, <2>1, <3>3 DEF TaskHolds, TaskState, TaskSteps, Idle, Names
    <3> QED  BY <1>1, <3>1, <3>2, <3>3
  <2> QED  BY <1>0, <2>2, <2>4, SameRecords, UpSteps
<1>2. CASE task.step = "accept"
  <2>1. file' = [file EXCEPT !.prompts[i] = [status |-> "running", turn |-> i]] /\ task' = [task EXCEPT !.step = "open"]
    BY <1>0, <1>2 DEF Writes, Prompt, Then
  <2>2. /\ file' \in FileState /\ file'.answers = file.answers /\ file'.runner = file.runner
        /\ \A j \in Items : Status(file', j) = (IF j = i THEN "running" ELSE Status(file, j)) /\ TurnOf(file', j) = (IF j = i THEN i ELSE TurnOf(file, j))
    <3>1. "running" \in Statuses /\ i \in Names
      BY <1>0 DEF Statuses, Names
    <3> HIDE DEF i
    <3> QED  BY <1>0, <2>1, <3>1, PromptWrites
  <2>3. TurnOf(file, i) = None /\ file.answers[i] = None /\ \A j \in Items : TurnOf(file, j) # i
    BY <1>0, <1>2, ItemsAssumption DEF TaskHolds, TurnsHold
  <2>4. TurnsHold(file') /\ (~ torn => AnswersAgree(file'))
    <3>1. \A j \in Items : TurnOf(file, j) # None => TurnOf(file, j) \in Items
      BY <1>0, FileValues DEF Names
    <3>2. TurnsHold(file')
      BY <1>0, <2>2, <2>3, <3>1, ItemsAssumption DEF TurnsHold, Flies, InFlight
    <3>3. ~ torn => AnswersAgree(file')
      BY <1>0, <2>2, <2>3, <3>1 DEF AnswersAgree, Flies, InFlight
    <3> QED  BY <3>2, <3>3
  <2>5. task' \in TaskState /\ TaskHolds'
    BY <1>0, <1>2, <2>1, <2>2, TaskMoves DEF TaskSteps
  <2> QED  BY <1>0, <2>2, <2>4, <2>5, UpSteps
<1>3. CASE task.step \in {"open", "end"}
  <2>0. Status(file, i) = "running" /\ TurnOf(file, i) = i
    BY <1>0, <1>3 DEF TaskHolds
  <2>1. PICK s \in {"run", "completed", "interrupted"}, o \in {"running", "completed", "interrupted"} :
          /\ s \in {"completed", "interrupted"} => o = s
          /\ task' = [task EXCEPT !.step = s]
          /\ file' = IF i \in SlashItems THEN file ELSE [file EXCEPT !.answers[i] = o]
    <3>1. CASE task.step = "open"
      BY <1>0, <3>1 DEF Writes, Then
    <3>2. CASE task.step = "end"
      BY <1>0, <3>2 DEF Writes, Then
    <3> QED  BY <1>3, <3>1, <3>2
  <2>2. /\ file' \in FileState /\ file'.prompts = file.prompts /\ file'.runner = file.runner
        /\ TurnsHold(file)' /\ (~ torn => AnswersAgree(file)') /\ (i \notin SlashItems => file'.answers[i] = o)
    <3>1. CASE i \in SlashItems
      BY <1>0, <2>1, <3>1
    <3>2. CASE i \notin SlashItems
      <4> HIDE DEF i
      <4> QED  BY <1>0, <2>0, <2>1, <3>2, AnswerWrites
    <3> QED  BY <3>1, <3>2
  <2>3. Status(file', i) = "running" /\ TurnOf(file', i) = i
    BY <2>0, <2>2 DEF Status, TurnOf
  <2>4. task' \in TaskState /\ TaskHolds'
    BY <1>0, <1>3, <2>1, <2>2, <2>3, TaskMoves DEF TaskSteps
  <2> QED  BY <1>0, <2>2, <2>4, UpSteps
<1>4. CASE task.step \in {"completed", "interrupted"}
  <2> DEFINE s == task.step
             p == [j \in Items |-> IF j \in Linked(file, i) THEN [file.prompts[j] EXCEPT !.status = s] ELSE file.prompts[j]]
  <2>1. file' = [file EXCEPT !.prompts = p] /\ task' = [task EXCEPT !.step = "clear"]
    BY <1>0, <1>4 DEF Writes, Then
  <2>2. p \in PromptsState
    BY <1>0, <1>4 DEF FileState, PromptsState, Statuses
  <2>3. \A j \in Items : /\ p[j].status = IF TurnOf(file, j) = i THEN s ELSE Status(file, j)
                         /\ p[j].turn = TurnOf(file, j)
    BY <1>0 DEF FileState, PromptsState, Linked, Status, TurnOf
  <2> HIDE DEF p
  <2>4. file' \in FileState /\ file'.prompts = p /\ file'.answers = file.answers /\ file'.runner = file.runner
    BY <1>0, <2>1, <2>2 DEF FileState
  <2>5. \A j \in Items : Status(file', j) = (IF TurnOf(file, j) = i THEN s ELSE Status(file, j)) /\ TurnOf(file', j) = TurnOf(file, j)
    BY <2>3, <2>4 DEF Status, TurnOf
  <2>6. TurnsHold(file')
    <3>1. \A j \in Items : TurnOf(file, j) # None => TurnOf(file, j) \in Items
      BY <1>0, FileValues DEF Names
    <3> QED  BY <1>0, <1>4, <2>4, <2>5, <3>1, ItemsAssumption DEF TurnsHold, Flies, InFlight
  <2>7. ~ torn => AnswersAgree(file')
    <3> SUFFICES ASSUME ~ torn, NEW j \in Items, TurnOf(file', j) # None, ~ Flies(file', j), file'.answers[TurnOf(file', j)] # None
                 PROVE  file'.answers[TurnOf(file', j)] = Status(file', j)
      BY DEF AnswersAgree
    <3>1. CASE TurnOf(file, j) = i
      BY <1>0, <1>4, <2>4, <2>5, <3>1 DEF TaskHolds, TurnsHold
    <3>2. CASE TurnOf(file, j) # i
      BY <1>0, <2>4, <2>5, <3>2 DEF AnswersAgree, Flies
    <3> QED  BY <3>1, <3>2
  <2>8. task' \in TaskState /\ TaskHolds'
    BY <1>0, <1>4, <2>1, TaskMoves DEF TaskSteps
  <2> QED  BY <1>0, <2>4, <2>6, <2>7, <2>8, UpSteps
<1> QED  BY <1>1, <1>2, <1>3, <1>4 DEF Writes

LEMMA CutsKeeps == RecoveryInv /\ Cuts => RecoveryInv'
<1> SUFFICES ASSUME RecoveryInv, Cuts
             PROVE  RecoveryInv'
  OBVIOUS
<1>1. phase' = "down" /\ task' = Idle /\ torn' = (torn \/ phase = "answers") /\ UNCHANGED <<file, seen, setting>>
  BY DEF Cuts
<1>2. FileTypes'
  BY <1>1 DEF RecoveryInv, FileTypes, TaskState, TaskSteps, Idle, Names
<1>3. TaskHolds'
  BY <1>1 DEF TaskHolds, Idle
<1>4. PhaseHolds'
  BY <1>1 DEF RecoveryInv, PhaseHolds
<1>5. TurnsHold(file)' /\ (~ torn' => AnswersAgree(file)')
  BY <1>1, SameRecords DEF RecoveryInv, FileTypes
<1> QED  BY <1>2, <1>3, <1>4, <1>5 DEF RecoveryInv

\* The bundle is read; nothing of it is stale, or the recovery begins.
LEMMA ReadsKeeps == RecoveryInv /\ RecoveryReads => RecoveryInv'
<1> SUFFICES ASSUME RecoveryInv, RecoveryReads
             PROVE  RecoveryInv'
  OBVIOUS
<1>1. /\ phase = "down" /\ seen' = file /\ phase' = (IF Stale(file) THEN "runtime" ELSE "recovered")
      /\ UNCHANGED <<file, task, setting, torn>>
  BY DEF RecoveryReads
<1>2. FileTypes'
  BY <1>1 DEF RecoveryInv, FileTypes
<1>3. TaskHolds'
  BY <1>1 DEF RecoveryInv, TaskHolds, Status, TurnOf
<1>4. TurnsHold(file)' /\ (~ torn' => AnswersAgree(file)')
  BY <1>1, SameRecords DEF RecoveryInv
<1>5. PhaseHolds'
  <2>1. CASE Stale(file)
    BY <1>1, <2>1 DEF RecoveryInv, PhaseHolds
  <2>2. CASE ~ Stale(file)
    <3>1. /\ ~ SessionStale(file) /\ file.runner.desired # "running" /\ file.runner.state = "paused" /\ file.runner.active = None
          /\ \A j \in Items : ~ Flies(file, j)
      BY <2>2 DEF Stale, RunnerStale, PromptStale, Flies, Status
    <3>2. file.runner = [state |-> "paused", desired |-> SettledDesired(setting), active |-> None]
      <4>1. file.runner.desired = SettledDesired(setting)
        BY <3>1 DEF RecoveryInv, PhaseHolds, FileTypes, Settings, SettledDesired
      <4>2. file.runner \in [state : {"paused", "dispatching", "running"}, desired : Settings, active : Names]
        BY DEF RecoveryInv, FileTypes, FileState
      <4> QED  BY <3>1, <4>1, <4>2
    <3>3. phase' = "recovered" /\ file' = file /\ setting' = setting
      BY <1>1, <2>2
    <3> QED  BY <3>1, <3>2, <3>3 DEF RecoveryInv, PhaseHolds, Flies, Status, SessionStale
  <2> QED  BY <2>1, <2>2
<1> QED  BY <1>2, <1>3, <1>4, <1>5 DEF RecoveryInv

LEMMA ServesKeeps == RecoveryInv /\ Serves => RecoveryInv'
<1> SUFFICES ASSUME RecoveryInv, Serves
             PROVE  RecoveryInv'
  OBVIOUS
<1>1. phase = "recovered" /\ phase' = "up" /\ UNCHANGED <<file, task, seen, setting, torn>>
  BY DEF Serves
<1>2. FileTypes' /\ PhaseHolds'
  BY <1>1 DEF RecoveryInv, FileTypes, PhaseHolds
<1>3. TaskHolds'
  BY <1>1 DEF RecoveryInv, TaskHolds, Status, TurnOf
<1> QED  BY <1>1, <1>2, <1>3, SameRecords DEF RecoveryInv

\* What the recovery writes of the prompts and of the answers.
LEMMA PromptsRecovered ==
    ASSUME NEW f \in FileState, TurnsHold(f), NEW g, g = [f EXCEPT !.prompts = RecoveredPrompts(f)]
    PROVE  /\ g \in FileState /\ g.prompts = RecoveredPrompts(f) /\ g.answers = f.answers /\ g.runner = f.runner /\ g.session = f.session
           /\ \A i \in Items : TurnOf(g, i) = TurnOf(f, i) /\ ~ Flies(g, i)
                 /\ Status(g, i) = IF ~ Flies(f, i) THEN Status(f, i) ELSE IF i \in SlashItems THEN "completed" ELSE "interrupted"
           /\ TurnsHold(g)
<1>1. \A i \in Items : f.prompts[i] \in [status : Statuses, turn : Names]
  BY DEF FileState, PromptsState
<1>2. ASSUME NEW i \in Items
      PROVE  /\ RecoveredPrompt(i, f.prompts[i]) \in [status : Statuses, turn : Names]
             /\ RecoveredPrompt(i, f.prompts[i]).turn = TurnOf(f, i)
             /\ RecoveredPrompt(i, f.prompts[i]).status = IF ~ Flies(f, i) THEN Status(f, i) ELSE IF i \in SlashItems THEN "completed" ELSE "interrupted"
  <2>1. f.prompts[i] \in [status : Statuses, turn : Names]
    BY <1>1
  <2>2. Flies(f, i) <=> f.prompts[i].status \in InFlight
    BY DEF Flies, Status
  <2>3. CASE ~ Flies(f, i)
    BY <2>1, <2>2, <2>3 DEF RecoveredPrompt, Status, TurnOf
  <2>4. CASE Flies(f, i)
    BY <2>1, <2>2, <2>4 DEF RecoveredPrompt, Statuses, Status, TurnOf
  <2> QED  BY <2>3, <2>4
<1>3. RecoveredPrompts(f) \in PromptsState /\ \A i \in Items : RecoveredPrompts(f)[i] = RecoveredPrompt(i, f.prompts[i])
  BY <1>2 DEF RecoveredPrompts, PromptsState
<1>4. g \in FileState
  BY <1>3 DEF FileState
<1>5. g.prompts = RecoveredPrompts(f) /\ g.answers = f.answers /\ g.runner = f.runner /\ g.session = f.session
  BY DEF FileState
<1>6. \A i \in Items : /\ TurnOf(g, i) = TurnOf(f, i)
                       /\ Status(g, i) = IF ~ Flies(f, i) THEN Status(f, i) ELSE IF i \in SlashItems THEN "completed" ELSE "interrupted"
  BY <1>2, <1>3, <1>5 DEF Status, TurnOf
<1>7. \A i \in Items : ~ Flies(g, i)
  BY <1>6 DEF Flies, InFlight
<1>8. TurnsHold(g)
  <2>1. \A j \in Items : TurnOf(f, j) # None => TurnOf(f, j) \in Items
    BY FileValues DEF Names
  <2>2. \A j \in Items : Status(g, j) = "pending" => Status(f, j) = "pending"
    BY <1>6
  <2> QED  BY <1>5, <1>6, <1>7, <2>1, <2>2 DEF TurnsHold
<1> QED  BY <1>4, <1>5, <1>6, <1>7, <1>8

LEMMA AnswersRecovered ==
    ASSUME NEW f \in FileState, TurnsHold(f), AnswersAgree(f) \/ torn, NEW g \in FileState,
           NEW h, h = [g EXCEPT !.answers = RecoveredAnswers(f)], g.prompts = RecoveredPrompts(f), TurnsHold(g), torn \in BOOLEAN
    PROVE  /\ h \in FileState /\ h.prompts = g.prompts /\ h.runner = g.runner /\ h.session = g.session
           /\ TurnsHold(h) /\ (~ torn => AnswersAgree(h))
<1> DEFINE b == RecoveredAnswers(f)
<1>1. \A t \in Items : b[t] = IF (\E i \in Items : TurnOf(f, i) = t /\ Flies(f, i)) /\ t \notin SlashItems
                              THEN "interrupted" ELSE f.answers[t]
  BY DEF RecoveredAnswers, Linked, TurnOf, Flies, Status
<1>2. b \in [Items -> {None, "running", "completed", "interrupted"}]
  BY DEF RecoveredAnswers, FileState
<1> HIDE DEF b
<1>3. h \in FileState
  BY <1>2 DEF FileState, b
<1>4. h.answers = b /\ h.prompts = g.prompts /\ h.runner = g.runner /\ h.session = g.session
  BY DEF FileState, b
<1>5. \A i \in Items : /\ TurnOf(g, i) = TurnOf(f, i) /\ ~ Flies(g, i)
                       /\ Status(g, i) = IF ~ Flies(f, i) THEN Status(f, i) ELSE IF i \in SlashItems THEN "completed" ELSE "interrupted"
  <2> DEFINE k == [f EXCEPT !.prompts = RecoveredPrompts(f)]
  <2>1. k.prompts = g.prompts
    BY PromptsRecovered
  <2>2. \A i \in Items : Status(k, i) = Status(g, i) /\ TurnOf(k, i) = TurnOf(g, i) /\ (Flies(k, i) <=> Flies(g, i))
    BY <2>1 DEF Status, TurnOf, Flies
  <2> HIDE DEF k
  <2> QED  BY <2>2, PromptsRecovered DEF k
<1>6. \A i \in Items : Status(h, i) = Status(g, i) /\ TurnOf(h, i) = TurnOf(g, i)
  BY <1>4 DEF Status, TurnOf
<1>7. \A i \in Items : TurnOf(f, i) # None => TurnOf(f, i) \in Items
  BY FileValues DEF Names
<1>8. TurnsHold(h)
  <2>1. \A t \in Items : h.answers[t] # None => TurnOf(h, t) = t /\ t \notin SlashItems
    <3> SUFFICES ASSUME NEW t \in Items, b[t] # None
                 PROVE  TurnOf(f, t) = t /\ t \notin SlashItems
      BY <1>4, <1>5, <1>6
    <3>1. CASE (\E i \in Items : TurnOf(f, i) = t /\ Flies(f, i)) /\ t \notin SlashItems
      BY <3>1, ItemsAssumption DEF TurnsHold
    <3>2. CASE b[t] = f.answers[t]
      BY <3>2 DEF TurnsHold
    <3> QED  BY <1>1, <3>1, <3>2
  <2>2. \A j \in Items : ~ Flies(h, j)
    BY <1>5, <1>6 DEF Flies
  <2> QED  BY <1>6, <1>5, <1>7, <2>1, <2>2 DEF TurnsHold
<1>9. ~ torn => AnswersAgree(h)
  <2> SUFFICES ASSUME ~ torn, NEW j \in Items, TurnOf(f, j) # None, b[TurnOf(f, j)] # None
               PROVE  b[TurnOf(f, j)] = Status(g, j)
    BY <1>4, <1>5, <1>6 DEF AnswersAgree
  <2>1. CASE Flies(f, j)
    <3>1. TurnOf(f, j) \notin SlashItems
      BY <1>1, <1>7, <2>1 DEF TurnsHold
    <3>2. b[TurnOf(f, j)] = "interrupted"
      BY <1>1, <1>7, <2>1, <3>1
    <3>3. j \notin SlashItems
      BY <3>1 DEF TurnsHold
    <3> QED  BY <1>5, <2>1, <3>2, <3>3
  <2>2. CASE ~ Flies(f, j)
    <3>1. \A i \in Items : TurnOf(f, i) = TurnOf(f, j) => ~ Flies(f, i)
      BY <2>2 DEF TurnsHold
    <3>2. b[TurnOf(f, j)] = f.answers[TurnOf(f, j)]
      BY <1>1, <1>7, <3>1
    <3> QED  BY <1>5, <2>2, <3>2 DEF AnswersAgree
  <2> QED  BY <2>1, <2>2
<1> QED  BY <1>3, <1>4, <1>8, <1>9

\* Each write of a recovery brings the file as far as the next phase says.
LEMMA RecoveryWritesKeeps == RecoveryInv /\ RecoveryWrites => RecoveryInv'
<1> SUFFICES ASSUME RecoveryInv, RecoveryWrites
             PROVE  RecoveryInv'
  OBVIOUS
<1>0. /\ file \in FileState /\ seen \in FileState /\ task \in TaskState /\ setting \in Settings /\ torn \in BOOLEAN
      /\ TurnsHold(file) /\ PhaseHolds /\ UNCHANGED <<task, seen, setting, torn>>
      /\ file.runner.desired \in {setting, SettledDesired(setting)}
  BY DEF RecoveryInv, FileTypes, RecoveryWrites, PhaseHolds
<1>1. phase \in {"runtime", "prompts", "answers", "tab"} /\ phase' \in {"prompts", "answers", "tab", "recovered"}
  BY DEF RecoveryWrites, Step
<1>2. TaskHolds'
  BY <1>0, <1>1 DEF RecoveryInv, TaskHolds, Idle
<1>3. file' \in FileState => FileTypes'
  BY <1>0, <1>1 DEF FileTypes
<1>4. CASE phase = "runtime"
  <2> DEFINE r == [desired |-> SettledDesired(file.runner.desired), state |-> "paused", active |-> None]
  <2>1. phase' = "prompts" /\ file' = IF SessionStale(seen) \/ RunnerStale(seen) THEN [file EXCEPT !.runner = r] ELSE file
    BY <1>4 DEF RecoveryWrites, Step
  <2>2. SettledDesired(file.runner.desired) = SettledDesired(setting) /\ SettledDesired(setting) \in Settings
    BY <1>0 DEF SettledDesired, Settings
  <2>3. r = [state |-> "paused", desired |-> SettledDesired(setting), active |-> None]
    BY <2>2
  <2>4. seen = file /\ file.runner \in [state : {"paused", "dispatching", "running"}, desired : Settings, active : Names]
    BY <1>0, <1>4 DEF PhaseHolds, FileState
  <2>5. CASE SessionStale(seen) \/ RunnerStale(seen)
    <3>1. file' = [file EXCEPT !.runner = r] /\ r \in [state : {"paused", "dispatching", "running"}, desired : Settings, active : Names]
      BY <2>1, <2>2, <2>3, <2>5 DEF Names
    <3> HIDE DEF r
    <3>2. /\ file' \in FileState /\ file'.prompts = file.prompts /\ file'.answers = file.answers /\ file'.runner = r
          /\ file'.session = file.session
      BY <1>0, <3>1 DEF FileState
    <3>3. PhaseHolds'
      BY <1>0, <2>1, <2>2, <2>3, <2>4, <3>2 DEF PhaseHolds
    <3> QED  BY <1>0, <1>2, <1>3, <1>4, <2>1, <3>2, <3>3, SameRecords DEF RecoveryInv
  <2>6. CASE ~ (SessionStale(seen) \/ RunnerStale(seen))
    <3>1. file' = file
      BY <2>1, <2>6
    <3>2. file.runner.state = "paused" /\ file.runner.active = None /\ file.runner.desired = SettledDesired(setting)
      BY <1>0, <2>4, <2>6 DEF RunnerStale, SettledDesired, Settings
    <3>3. file.runner = [state |-> "paused", desired |-> SettledDesired(setting), active |-> None]
      BY <2>4, <3>2
    <3>4. PhaseHolds'
      BY <1>0, <2>1, <2>4, <3>1, <3>3 DEF PhaseHolds
    <3> QED  BY <1>0, <1>2, <1>3, <1>4, <2>1, <3>1, <3>4, SameRecords DEF RecoveryInv
  <2> QED  BY <2>5, <2>6
<1>5. CASE phase = "prompts"
  <2>1. phase' = "answers" /\ file' = [file EXCEPT !.prompts = RecoveredPrompts(file)]
    BY <1>5 DEF RecoveryWrites, Step, RecoveredPrompts
  <2>2. /\ file' \in FileState /\ file'.prompts = RecoveredPrompts(file) /\ file'.answers = file.answers
        /\ file'.runner = file.runner /\ file'.session = file.session
        /\ \A i \in Items : ~ Flies(file', i)
        /\ TurnsHold(file')
    BY <1>0, <2>1, PromptsRecovered
  <2>3. seen.prompts = file.prompts /\ seen.answers = file.answers
    BY <1>0, <1>5 DEF PhaseHolds
  <2>4. RecoveredPrompts(seen) = RecoveredPrompts(file) /\ TurnsHold(seen) /\ (~ torn => AnswersAgree(seen))
    BY <1>5, <2>3 DEF RecoveryInv, RecoveredPrompts, TurnsHold, AnswersAgree, Flies, Status, TurnOf
  <2>5. PhaseHolds'
    BY <1>0, <1>5, <2>1, <2>2, <2>3, <2>4 DEF PhaseHolds
  <2> QED  BY <1>2, <1>3, <2>1, <2>2, <2>5 DEF RecoveryInv
<1>6. CASE phase = "answers"
  <2>1. phase' = "tab" /\ file' = IF PromptStale(seen) THEN [file EXCEPT !.answers = RecoveredAnswers(seen)] ELSE file
    BY <1>6 DEF RecoveryWrites, Step
  <2>2. /\ file.prompts = RecoveredPrompts(seen) /\ seen.answers = file.answers /\ TurnsHold(seen) /\ (~ torn => AnswersAgree(seen))
        /\ \A i \in Items : ~ Flies(file, i)
    BY <1>0, <1>6 DEF PhaseHolds
  <2>3. /\ file' \in FileState /\ file'.prompts = file.prompts /\ file'.runner = file.runner /\ file'.session = file.session
        /\ TurnsHold(file') /\ (~ torn => AnswersAgree(file'))
    <3>1. CASE PromptStale(seen)
      BY <1>0, <2>1, <2>2, <3>1, AnswersRecovered
    <3>2. CASE ~ PromptStale(seen)
      <4>1. \A i \in Items : ~ Flies(seen, i)
        BY <3>2 DEF PromptStale, Flies, Status
      <4>2. file.prompts = seen.prompts
        BY <1>0, <2>2, <4>1 DEF RecoveredPrompts, RecoveredPrompt, Flies, Status, FileState, PromptsState
      <4>3. file' = file
        BY <2>1, <3>2
      <4> QED  BY <1>0, <2>2, <4>2, <4>3 DEF TurnsHold, AnswersAgree, Flies, Status, TurnOf
    <3> QED  BY <3>1, <3>2
  <2>4. \A i \in Items : ~ Flies(file', i)
    BY <2>2, <2>3 DEF Flies, Status
  <2>5. PhaseHolds'
    BY <1>0, <1>6, <2>1, <2>3, <2>4 DEF PhaseHolds
  <2> QED  BY <1>0, <1>2, <1>3, <2>1, <2>3, <2>5 DEF RecoveryInv
<1>7. CASE phase = "tab"
  <2>1. phase' = "recovered" /\ file' = IF SessionStale(seen) THEN [file EXCEPT !.session = "closed"] ELSE file
    BY <1>7 DEF RecoveryWrites, Step
  <2>2. seen.session = file.session
    BY <1>0, <1>7 DEF PhaseHolds
  <2>3. /\ file' \in FileState /\ file'.prompts = file.prompts /\ file'.answers = file.answers /\ file'.runner = file.runner
        /\ ~ SessionStale(file')
    BY <1>0, <2>1, <2>2 DEF FileState, SessionStale
  <2>4. PhaseHolds'
    BY <1>0, <1>7, <2>1, <2>3, SameRecords DEF PhaseHolds, SessionStale
  <2> QED  BY <1>0, <1>2, <1>3, <1>7, <2>1, <2>3, <2>4, SameRecords DEF RecoveryInv
<1> QED  BY <1>1, <1>4, <1>5, <1>6, <1>7

LEMMA RecoveryTells == RecoveryInv => RecoveredAgrees
<1> SUFFICES ASSUME RecoveryInv
             PROVE  RecoveredAgrees
  OBVIOUS
<1>1. file \in FileState /\ phase \in {"up", "down", "runtime", "prompts", "answers", "tab", "recovered"}
  BY DEF RecoveryInv, FileTypes
<1>2. RecoveryTypes
  BY <1>1 DEF RecoveryTypes, FileState, PromptsState, Statuses, Names
<1>3. RecoveredIsIdle
  BY DEF RecoveredIsIdle, RecoveryInv, PhaseHolds, Flies, Status
<1>4. AnswersFollowPrompts
  <2> SUFFICES ASSUME phase = "recovered", ~ torn, NEW t \in Items, file.answers[t] # None, NEW i \in Linked(file, t)
               PROVE  file.answers[t] = file.prompts[i].status
    BY DEF AnswersFollowPrompts
  <2>1. i \in Items /\ TurnOf(file, i) = t /\ ~ Flies(file, i) /\ t # None
    BY ItemsAssumption DEF Linked, TurnOf, RecoveryInv, PhaseHolds
  <2> QED  BY <2>1 DEF RecoveryInv, AnswersAgree, Status
<1> QED  BY <1>2, <1>3, <1>4 DEF RecoveredAgrees

\* However often the server goes, between whichever two writes, a launch that recovers the tab leaves
\* nothing in flight, the user's setting, and answers that agree with the prompts of their turns
\* (recoverTerminalRuntime, settledDesiredState, recordTurn).
THEOREM RecoveryIsWhole == RecoverySpec => []RecoveredAgrees
<1>1. RecoveryInv /\ [RecoveryNext]_recoveryVars => RecoveryInv'
  <2>1. RecoveryInv /\ UNCHANGED recoveryVars => RecoveryInv'
    BY DEF recoveryVars, RecoveryInv, FileTypes, TurnsHold, TaskHolds, PhaseHolds, AnswersAgree, Flies, Status, TurnOf, RecoveredPrompts
  <2>2. ASSUME RecoveryInv, RecoveryNext
        PROVE  RecoveryInv'
    <3>1. CASE \E d \in {"paused", "armed", "running"} : Sets(d)
      BY <2>2, <3>1, SetsKeeps DEF Settings
    <3>2. CASE \E i \in Items : Dispatches(i) \/ Joins(i)
      BY <2>2, <3>2, DispatchesKeeps, JoinsKeeps
    <3> QED  BY <2>2, <3>1, <3>2, OpensKeeps, WritesKeeps, CutsKeeps, ReadsKeeps, RecoveryWritesKeeps, ServesKeeps DEF RecoveryNext
  <2> QED  BY <2>1, <2>2
<1> QED  BY <1>1, RecoveryStarts, RecoveryTells, PTL DEF RecoverySpec
=============================================================================
