--------------------------- MODULE ConversationProofs ---------------------------
(***************************************************************************)
(* The server that nobody uses, the tab that follows its terminal, and the *)
(* tab that is opened, closed and brought back, for every grace period,    *)
(* every number of threads and every load.                                 *)
(***************************************************************************)
EXTENDS Conversation, ThreadTrail, IdleExit, SequenceTheorems, TLAPS

-----------------------------------------------------------------------------
(* A server goes of itself only after a whole grace period without a page  *)
(* and without a hold.                                                     *)

Uses == [clients : Nat, held : BOOLEAN, armed : BOOLEAN, federated : BOOLEAN]

\* While the timer runs, what it has left and what the server has waited make up the period.
IdleInv ==
  /\ use \in Uses
  /\ timer \in {Off} \cup 1..Grace /\ quiet \in 0..Grace
  /\ gone \in {"no", "idle", "signal"}
  /\ timer # Off => use.armed /\ Unused /\ quiet + timer = Grace
  /\ GraceIsWhole

\* The invariant is what the run checks, and more (IdleTypes, GraceIsWhole).
LEMMA InvIsSafe == IdleInv => IdleSafe
BY DEF IdleInv, IdleSafe, IdleTypes, Uses

\* A server starts with no page, no hold and no timer (ui-lifecycle.ts, the fields of the controller).
LEMMA InitKeeps == IdleInit => IdleInv
BY GraceAssumption DEF IdleInit, IdleInv, Uses, GraceIsWhole, Off

\* A page or a hold starts the wait again, and the timer with it (connect, hold, scheduleIdleIfEligible).
LEMMA UseKeeps ==
  ASSUME IdleInv, Connect \/ Disconnect \/ Hold \/ Release
  PROVE  IdleInv'
<1>1. use' \in Uses
  <2>0. use \in Uses
    BY DEF IdleInv
  <2>1. CASE Connect
    <3>1. use.clients + 1 \in Nat
      BY <2>0 DEF Uses
    <3>. QED  BY <2>0, <2>1, <3>1 DEF Connect, Uses
  <2>2. CASE Disconnect
    <3>1. use.clients - 1 \in Nat
      BY <2>0, <2>2 DEF Uses, Disconnect
    <3>. QED  BY <2>0, <2>2, <3>1 DEF Disconnect, Uses
  <2>3. CASE Hold
    BY <2>0, <2>3 DEF Hold, Uses
  <2>4. CASE Release
    BY <2>0, <2>4 DEF Release, Uses
  <2>. QED  BY <2>1, <2>2, <2>3, <2>4
<1>2. /\ quiet' = 0 /\ gone' = "no" /\ 0 \in 0..Grace
  BY GraceAssumption DEF Connect, Disconnect, Hold, Release
<1>3. CASE Connect \/ Hold
  <2>1. timer' = Off
    BY <1>3 DEF Connect, Hold, Cancelled
  <2>. QED  BY <1>1, <1>2, <2>1 DEF IdleInv, GraceIsWhole
<1>4. CASE Disconnect \/ Release
  <2>1. timer = Off
    BY <1>4 DEF IdleInv, Disconnect, Release, Unused
  <2>2. timer' = Scheduled
    BY <1>4 DEF Disconnect, Release, OnDisconnect, OnRelease
  <2>3. \/ timer' = Off
        \/ timer' = Grace /\ (use.armed /\ Unused)'
    BY <2>1, <2>2 DEF Scheduled, Unused
  <2>4. Grace \in 1..Grace /\ 0 + Grace = Grace /\ Grace # Off
    BY GraceAssumption DEF Off
  <2>. QED  BY <1>1, <1>2, <2>3, <2>4 DEF IdleInv, GraceIsWhole
<1>. QED  BY <1>3, <1>4

\* Time uses up what the timer has left, and only the last of it ends the server.
LEMMA TickKeeps ==
  ASSUME IdleInv, Tick
  PROVE  IdleInv'
<1>1. use' = use /\ gone = "no" /\ Grace \in Nat \ {0}
  BY GraceAssumption DEF Tick
<1>2. CASE timer = Off
  <2>1. timer' = Off /\ gone' = "no" /\ quiet' \in 0..Grace
    BY <1>1, <1>2 DEF IdleInv, Tick, Off
  <2>. QED  BY <1>1, <2>1 DEF IdleInv, GraceIsWhole
<1>3. CASE timer # Off
  <2>1. /\ timer \in 1..Grace /\ use.armed /\ Unused /\ quiet + timer = Grace
        /\ quiet \in 0..Grace
    BY <1>3 DEF IdleInv
  <2>2. quiet' = quiet + 1
    BY <1>1, <2>1 DEF Tick
  <2>3. CASE timer = 1
    <3>1. timer' = Off /\ quiet' = Grace /\ gone' \in {"no", "idle"}
      BY <1>1, <1>3, <2>1, <2>2, <2>3 DEF Tick, Fires, Off
    <3>. QED  BY <1>1, <2>1, <3>1 DEF IdleInv, GraceIsWhole
  <2>4. CASE timer # 1
    <3>1. timer' = timer - 1 /\ gone' = "no"
      BY <1>1, <1>3, <2>4 DEF Tick
    <3>2. timer' \in 1..Grace /\ quiet' \in 0..Grace /\ quiet' + timer' = Grace
      BY <1>1, <2>1, <2>2, <2>4, <3>1
    <3>. QED  BY <1>1, <2>1, <3>1, <3>2 DEF IdleInv, GraceIsWhole, Unused
  <2>. QED  BY <2>3, <2>4
<1>. QED  BY <1>2, <1>3

\* The mode of the federation and a signal leave the wait alone (runtimeLifecycle, main.ts).
LEMMA OtherKeeps ==
  ASSUME IdleInv, Mode \/ Signal
  PROVE  IdleInv'
<1>1. CASE Mode
  <2>1. use' = [use EXCEPT !.federated = ~ @] /\ UNCHANGED <<timer, quiet, gone>>
    BY <1>1 DEF Mode
  <2>2. use' \in Uses /\ use'.armed = use.armed /\ Unused' = Unused
    BY <2>1 DEF IdleInv, Uses, Unused
  <2>. QED  BY <2>1, <2>2 DEF IdleInv, GraceIsWhole
<1>2. CASE Signal
  BY <1>2 DEF IdleInv, Signal, GraceIsWhole
<1>. QED  BY <1>1, <1>2

\* A server stops of itself only after a whole grace period in which it had no page and no
\* hold, and never before a page has come.
THEOREM GraceAlwaysWhole == IdleSpec => []IdleSafe
<1>1. IdleInv /\ [IdleNext]_idleVars => IdleInv'
  <2>. SUFFICES ASSUME IdleInv, [IdleNext]_idleVars PROVE IdleInv'
    OBVIOUS
  <2>1. CASE UNCHANGED idleVars
    BY <2>1 DEF idleVars, IdleInv, GraceIsWhole, Unused
  <2>2. CASE IdleNext
    BY <2>2, UseKeeps, TickKeeps, OtherKeeps DEF IdleNext
  <2>. QED  BY <2>1, <2>2
<1>. QED  BY InitKeeps, InvIsSafe, <1>1, PTL DEF IdleSpec

-----------------------------------------------------------------------------
(* The tab that follows the selections of its terminal. *)

Threads == 1..MaxThreads
Maybe == 0..MaxThreads
BoundState == [state : {"none", "connecting", "ready", "closed", "error"}, thread : Maybe, last : Maybe, from : Maybe]
ServerState == [mgr : Nat, count : Nat, born : Nat, loaded : SUBSET Threads, bridge : {"closed", "connecting", "open"}]
AskState == [id : Nat, method : {"thread/start", "thread/resume", "thread/fork"}, thread : Maybe]
TuiState == [shown : Maybe, asks : SUBSET AskState]
GateState == [state : {"off", "waiting", "binding", "active", "failed"}, first : Maybe, queued : Seq(Threads)]
MoveState == [mgr : Nat \ {0}, thread : Threads, gated : BOOLEAN]
SyncState ==
    [pc : {"none", "read", "frozen", "probed", "bound"}, done : Nat, was : BoundState, from : Maybe, last : Maybe,
     resumes : BOOLEAN]
CallState ==
    [pc : {"none", "wait", "begun", "launched", "active"}, kind : {"none", "new", "saved", "reopen"}, thread : Maybe,
     upto : Nat, was : BoundState]
LoadState ==
    [calm : BOOLEAN, opens : Nat, saved : Nat, reopens : Nat, restarts : Nat, asks : Nat, errors : Nat, prompts : Nat,
     breaks : Nat, starts : Nat, pauses : Nat]
TrailTyped ==
    /\ saved \subseteq Threads /\ home \in saved \cup {NoThread}
    /\ bound \in BoundState /\ bound.last \in saved \cup {NoThread}
    /\ server \in ServerState /\ gate \in GateState /\ moves \in Seq(MoveState)
    /\ tui \in TuiState
    /\ sync \in SyncState /\ op \in CallState /\ left \in LoadState
    /\ queue \in [rolls : BOOLEAN, meant : BOOLEAN]

\* A server that does not run has nothing on it; the one that runs is the one selections are made on.
ServerHolds ==
    /\ server.mgr = 0 => server.loaded = {} /\ server.bridge = "closed" /\ tui.shown = NoThread /\ tui.asks = {}
    /\ server.mgr # 0 => \A i \in 1..Len(moves) : moves[i].mgr = server.mgr
    /\ server.mgr # 0 /\ op.pc = "none" => bound.state = "ready" /\ bound.thread # NoThread
    /\ \A a \in tui.asks : a.method = "thread/resume" => a.thread # NoThread

\* How far the launch of a terminal with a first thread has got.
GateHolds ==
    /\ gate.state \in {"off", "waiting"} => gate.queued = <<>>
    /\ gate.state = "waiting" =>
         op.pc = "launched" /\ op.kind = "new" /\ tui.shown = NoThread /\ \A a \in tui.asks : a.method = "thread/start"
    /\ gate.state = "binding" => op.pc \in {"launched", "active"} /\ op.kind = "new" /\ gate.first # NoThread
    /\ gate.state = "active" => op.pc \in {"none", "wait"} /\ server.mgr # 0
    /\ gate.state = "failed" => server.mgr = 0 \/ (op.pc \in {"launched", "active"} /\ op.kind = "new")
    /\ op.pc = "launched" /\ op.kind = "new" => gate.state # "off"
    /\ gate.state \in {"waiting", "binding"} => server.bridge # "closed"
    /\ op.pc = "active" =>
         gate.state \in {"binding", "failed"} /\ op.kind = "new" /\ bound.state = "ready" /\ bound.thread = gate.first

\* What an open or reopen finds and leaves.
FirstAsk == [id |-> 0, method |-> "thread/resume", thread |-> op.thread]
CallHolds ==
    /\ op.pc # "none" => op.kind # "none" /\ sync.pc = "none"
    /\ op.kind = "saved" => op.thread \in saved
    /\ op.pc \in {"wait", "begun"} => moves = <<>> /\ tui.asks = {}
    /\ op.pc = "wait" => gate.queued = <<>> \/ gate.state = "failed"
    /\ op.pc = "begun" => server.mgr = 0 /\ gate = NoGate
    /\ op.pc \in {"begun", "launched"} => bound.state = "connecting"
    /\ op.pc = "begun" /\ op.kind = "reopen" => op.was.thread = bound.thread
    /\ op.pc \in {"launched", "active"} => server.mgr # 0 /\ (op.kind = "new" => moves = <<>>)
    /\ op.pc = "launched" /\ op.kind # "new" =>
         /\ gate.state = "off" /\ op.thread # NoThread
         /\ op.kind = "reopen" => bound.thread = op.thread
         /\ \/ server.loaded = {} /\ tui.shown = NoThread /\ tui.asks \subseteq {FirstAsk} /\ moves = <<>>
            \/ /\ server.loaded = {op.thread} /\ tui.shown = op.thread /\ tui.asks = {}
               /\ Len(moves) <= 1 /\ \A i \in 1..Len(moves) : moves[i].thread = op.thread

\* While a selection is followed the tab is as it was read, and the queue as it is remembered.
Frozen == sync.pc \in {"frozen", "probed", "bound"}
SyncHolds ==
    /\ sync.pc # "none" => moves # <<>> /\ server.mgr # 0
    /\ sync.pc \in {"read", "frozen"} =>
         /\ sync.was.thread = bound.thread /\ sync.was.from = bound.from /\ sync.was.last \in saved \cup {NoThread}
         /\ sync.was.last = bound.last \/ bound.thread \in saved
    /\ sync.pc = "probed" =>
         sync.last \in saved \cup {NoThread} /\ (home # NoThread /\ moves[1].thread \notin saved => sync.last = home)
    /\ sync.pc = "bound" => bound.thread = moves[1].thread
    /\ Frozen => ~ queue.rolls
    /\ sync.pc = "read" => sync.resumes = queue.rolls
    /\ queue.meant => queue.rolls \/ (Frozen /\ sync.resumes)

\* The last of the selections that wait, or where the tab is, is what the terminal shows.
LastSelected(t) ==
    IF gate.queued # <<>> THEN gate.queued[Len(gate.queued)] ELSE IF moves # <<>> THEN moves[Len(moves)].thread ELSE t
ShownHolds ==
    /\ op.pc = "none" /\ server.bridge # "closed" => tui.shown = LastSelected(bound.thread)
    /\ gate.state = "binding" => tui.shown = LastSelected(gate.first)

\* The way back, candidate by candidate.
LeadsTo(b) ==
    IF b.thread \in saved THEN b.thread ELSE IF b.last \in saved THEN b.last ELSE IF b.from \in saved THEN b.from ELSE NoThread
WayHolds == home # NoThread => LeadsTo(bound) = home

TrailInv == TrailTyped /\ ServerHolds /\ GateHolds /\ CallHolds /\ SyncHolds /\ ShownHolds /\ WayHolds

-----------------------------------------------------------------------------
(* Sequences and loads. *)

LEMMA FirstOfThree ==
    ASSUME NEW a, NEW b, NEW c
    PROVE  FirstSaved(<<a, b, c>>) = IF a \in saved THEN a ELSE IF b \in saved THEN b ELSE IF c \in saved THEN c ELSE NoThread
<1> DEFINE s == <<a, b, c>>
           found == {i \in DOMAIN s : s[i] \in saved}
<1>1. DOMAIN s = 1..3 /\ s[1] = a /\ s[2] = b /\ s[3] = c
  OBVIOUS
<1>2. FirstSaved(s) = IF found = {} THEN NoThread ELSE s[CHOOSE i \in found : \A j \in found : i <= j]
  BY DEF FirstSaved
<1>3. \A i : i \in found <=> i \in 1..3 /\ s[i] \in saved
  BY <1>1
<1> HIDE DEF s, found
<1>4. ASSUME NEW k \in found, \A j \in found : k <= j
      PROVE  FirstSaved(s) = s[k]
  <2> DEFINE m == CHOOSE i \in found : \A j \in found : i <= j
  <2>1. m \in found /\ \A j \in found : m <= j
    BY <1>4
  <2>2. m = k
    <3> HIDE DEF m
    <3> QED  BY <1>3, <1>4, <2>1
  <2> QED  BY <1>2, <2>2
<1>5. CASE a \in saved
  BY <1>1, <1>3, <1>4, <1>5 DEF s
<1>6. CASE a \notin saved /\ b \in saved
  <2>1. 2 \in found /\ \A j \in found : 2 <= j
    BY <1>1, <1>3, <1>6
  <2> QED  BY <1>1, <1>4, <1>6, <2>1 DEF s
<1>7. CASE a \notin saved /\ b \notin saved /\ c \in saved
  <2>1. 3 \in found /\ \A j \in found : 3 <= j
    BY <1>1, <1>3, <1>7
  <2> QED  BY <1>1, <1>4, <1>7, <2>1 DEF s
<1>8. CASE a \notin saved /\ b \notin saved /\ c \notin saved
  <2>1. found = {}
    BY <1>1, <1>3, <1>8
  <2> QED  BY <1>2, <1>8, <2>1 DEF s
<1> QED  BY <1>5, <1>6, <1>7, <1>8

LEMMA FirstOfFour ==
    ASSUME NEW a, NEW b, NEW c, NEW d
    PROVE  FirstSaved(<<a, b, c, d>>) = IF a \in saved THEN a ELSE FirstSaved(<<b, c, d>>)
<1> DEFINE s == <<a, b, c, d>>
           found == {i \in DOMAIN s : s[i] \in saved}
<1>1. DOMAIN s = 1..4 /\ s[1] = a /\ s[2] = b /\ s[3] = c /\ s[4] = d
  OBVIOUS
<1>2. FirstSaved(s) = IF found = {} THEN NoThread ELSE s[CHOOSE i \in found : \A j \in found : i <= j]
  BY DEF FirstSaved
<1>3. \A i : i \in found <=> i \in 1..4 /\ s[i] \in saved
  BY <1>1
<1> HIDE DEF s, found
<1>4. ASSUME NEW k \in found, \A j \in found : k <= j
      PROVE  FirstSaved(s) = s[k]
  <2> DEFINE m == CHOOSE i \in found : \A j \in found : i <= j
  <2>1. m \in found /\ \A j \in found : m <= j
    BY <1>4
  <2>2. m = k
    <3> HIDE DEF m
    <3> QED  BY <1>3, <1>4, <2>1
  <2> QED  BY <1>2, <2>2
<1>5. CASE a \in saved
  <2>1. 1 \in found /\ \A j \in found : 1 <= j
    BY <1>1, <1>3, <1>5
  <2> QED  BY <1>1, <1>4, <1>5, <2>1 DEF s
<1>6. CASE a \notin saved /\ b \in saved
  <2>1. 2 \in found /\ \A j \in found : 2 <= j
    BY <1>1, <1>3, <1>6
  <2> QED  BY <1>1, <1>4, <1>6, <2>1, FirstOfThree DEF s
<1>7. CASE a \notin saved /\ b \notin saved /\ c \in saved
  <2>1. 3 \in found /\ \A j \in found : 3 <= j
    BY <1>1, <1>3, <1>7
  <2> QED  BY <1>1, <1>4, <1>7, <2>1, FirstOfThree DEF s
<1>8. CASE a \notin saved /\ b \notin saved /\ c \notin saved /\ d \in saved
  <2>1. 4 \in found /\ \A j \in found : 4 <= j
    BY <1>1, <1>3, <1>8
  <2> QED  BY <1>1, <1>4, <1>8, <2>1, FirstOfThree DEF s
<1>9. CASE a \notin saved /\ b \notin saved /\ c \notin saved /\ d \notin saved
  <2>1. found = {}
    BY <1>1, <1>3, <1>9
  <2> QED  BY <1>2, <1>9, <2>1, FirstOfThree DEF s
<1> QED  BY <1>5, <1>6, <1>7, <1>8, <1>9

\* A load is used up, and stays calm or not.
LEMMA NeedsTyped ==
    ASSUME left \in LoadState,
           NEW what \in {"opens", "saved", "reopens", "restarts", "asks", "errors", "prompts", "breaks", "starts", "pauses"},
           Needs(what)
    PROVE  left' \in LoadState /\ left'.calm = left.calm
BY DEF Needs, LoadState

LEMMA Grows ==
    ASSUME moves \in Seq(MoveState), server.mgr \in Nat \ {0}, NEW t \in Threads, NEW g \in BOOLEAN, moves' = Selects(t, g)
    PROVE  /\ moves' \in Seq(MoveState) /\ moves' # <<>> /\ Len(moves') = Len(moves) + 1 /\ Len(moves) \in Nat
           /\ moves'[Len(moves')].thread = t
           /\ moves # <<>> => moves'[1] = moves[1]
           /\ (\A i \in 1..Len(moves) : moves[i].mgr = server.mgr) => \A i \in 1..Len(moves') : moves'[i].mgr = server.mgr
<1> DEFINE m == [mgr |-> server.mgr, thread |-> t, gated |-> g]
<1>1. m \in MoveState /\ moves' = Append(moves, m) /\ m.mgr = server.mgr /\ m.thread = t
  BY DEF MoveState, Selects
<1> HIDE DEF m
<1>2. /\ moves' \in Seq(MoveState) /\ moves' # <<>> /\ Len(moves') = Len(moves) + 1
      /\ \A i \in 1..Len(moves) : moves'[i] = moves[i]
      /\ moves'[Len(moves) + 1] = m
  BY <1>1, AppendProperties
<1>3. Len(moves) \in Nat /\ (moves # <<>> => Len(moves) \in Nat \ {0})
  BY EmptySeq, LenProperties
<1> QED  BY <1>1, <1>2, <1>3

LEMMA Shrinks ==
    ASSUME NEW S, NEW s \in Seq(S), s # <<>>
    PROVE  /\ Tail(s) \in Seq(S) /\ Len(s) \in Nat \ {0} /\ Len(Tail(s)) = Len(s) - 1
           /\ Head(s) = s[1] /\ s[1] \in S
           /\ Tail(s) = <<>> => Len(s) = 1
           /\ Tail(s) # <<>> => Tail(s)[Len(Tail(s))] = s[Len(s)]
           /\ \A i \in 1..Len(Tail(s)) : Tail(s)[i] = s[i + 1] /\ i + 1 \in 1..Len(s)
<1>1. Tail(s) \in Seq(S) /\ Len(Tail(s)) = Len(s) - 1 /\ \A i \in 1..Len(Tail(s)) : Tail(s)[i] = s[i + 1]
  BY HeadTailProperties
<1>2. Len(s) \in Nat \ {0} /\ Head(s) = s[1] /\ s[1] \in S
  BY EmptySeq, HeadTailProperties
<1>3. Tail(s) # <<>> => Len(Tail(s)) \in Nat \ {0}
  BY <1>1, EmptySeq
<1>4. Tail(s) = <<>> => Len(s) = 1
  BY <1>1, <1>2, EmptySeq
<1> QED  BY <1>1, <1>2, <1>3, <1>4

-----------------------------------------------------------------------------
(* The steps. *)

LEMMA TrailStarts == TrailInit => TrailInv
<1> SUFFICES ASSUME TrailInit
             PROVE  TrailInv
  OBVIOUS
<1>1. /\ saved = {1} /\ bound = NoBound /\ server = [NoServer EXCEPT !.born = 1] /\ tui = NoTui /\ gate = NoGate
      /\ moves = <<>> /\ sync = NoSync /\ op = NoCall /\ queue = [rolls |-> FALSE, meant |-> FALSE] /\ home = NoThread
      /\ left \in LoadState
  BY TrailAssumption DEF TrailInit, LoadState
<1>2. 1 \in Threads /\ 0 \in Maybe /\ NoThread = 0
  BY ThreadsAssumption DEF Threads, Maybe, NoThread
<1>3. bound \in BoundState /\ server \in ServerState /\ tui \in TuiState
  BY <1>1, <1>2 DEF NoBound, BoundState, NoServer, ServerState, NoTui, TuiState
<1>4. gate \in GateState /\ moves \in Seq(MoveState)
  BY <1>1, <1>2, EmptySeq DEF NoGate, GateState
<1>5. sync \in SyncState /\ op \in CallState
  BY <1>1, <1>2, <1>3 DEF NoSync, SyncState, NoCall, CallState
<1>6. TrailTyped
  BY <1>1, <1>2, <1>3, <1>4, <1>5 DEF TrailTyped, NoBound
<1>7. ServerHolds
  BY <1>1, <1>2 DEF ServerHolds, NoServer, NoTui
<1>8. GateHolds /\ CallHolds /\ SyncHolds /\ ShownHolds /\ WayHolds
  BY <1>1, <1>2 DEF GateHolds, CallHolds, SyncHolds, ShownHolds, WayHolds, NoGate, NoCall, NoSync, Frozen, NoServer
<1> QED  BY <1>6, <1>7, <1>8 DEF TrailInv

LEMMA RemembersKeeps == TrailInv /\ Remembers => TrailInv'
<1> SUFFICES ASSUME TrailInv, Remembers
             PROVE  TrailInv'
  OBVIOUS
<1>0. TrailTyped /\ ServerHolds /\ GateHolds /\ CallHolds /\ SyncHolds /\ ShownHolds /\ WayHolds
  BY DEF TrailInv
<1>1. /\ bound' = bound \/ (bound.thread \in saved /\ bound' = [bound EXCEPT !.last = bound.thread])
      /\ UNCHANGED <<saved, server, tui, gate, moves, sync, op, queue, home, left>>
  BY DEF Remembers, OnThread
<1>2. /\ bound' \in BoundState /\ bound'.state = bound.state /\ bound'.thread = bound.thread /\ bound'.from = bound.from
      /\ bound'.last = bound.last \/ (bound'.last = bound.thread /\ bound.thread \in saved)
  BY <1>0, <1>1 DEF TrailTyped, BoundState, Maybe, Threads
<1>3. TrailTyped'
  BY <1>0, <1>1, <1>2 DEF TrailTyped
<1>4. ServerHolds' /\ GateHolds'
  BY <1>0, <1>1, <1>2 DEF ServerHolds, GateHolds
<1>5. CallHolds'
  BY <1>0, <1>1, <1>2 DEF CallHolds, FirstAsk
<1>6. SyncHolds'
  BY <1>0, <1>1, <1>2 DEF SyncHolds, Frozen
<1>7. ShownHolds' /\ WayHolds'
  BY <1>0, <1>1, <1>2 DEF ShownHolds, LastSelected, WayHolds, LeadsTo
<1> QED  BY <1>3, <1>4, <1>5, <1>6, <1>7 DEF TrailInv

LEMMA BridgeOpensKeeps == TrailInv /\ BridgeOpens => TrailInv'
<1> SUFFICES ASSUME TrailInv, BridgeOpens
             PROVE  TrailInv'
  OBVIOUS
<1>0. TrailTyped /\ ServerHolds /\ GateHolds /\ CallHolds /\ SyncHolds /\ ShownHolds /\ WayHolds
  BY DEF TrailInv
<1>1. /\ server.bridge = "connecting" /\ server' = [server EXCEPT !.bridge = "open"]
      /\ UNCHANGED <<saved, bound, tui, gate, moves, sync, op, queue, home, left>>
  BY DEF BridgeOpens
<1>2. /\ server' \in ServerState /\ server'.mgr = server.mgr /\ server'.loaded = server.loaded /\ server'.born = server.born
      /\ server.bridge # "closed"
  BY <1>0, <1>1 DEF TrailTyped, ServerState
<1>3. TrailTyped'
  BY <1>0, <1>1, <1>2 DEF TrailTyped
<1>4. ServerHolds' /\ GateHolds'
  BY <1>0, <1>1, <1>2 DEF ServerHolds, GateHolds
<1>5. CallHolds'
  BY <1>0, <1>1, <1>2 DEF CallHolds, FirstAsk
<1>6. SyncHolds'
  BY <1>0, <1>1, <1>2 DEF SyncHolds, Frozen
<1>7. ShownHolds' /\ WayHolds'
  BY <1>0, <1>1, <1>2 DEF ShownHolds, LastSelected, WayHolds, LeadsTo
<1> QED  BY <1>3, <1>4, <1>5, <1>6, <1>7 DEF TrailInv

LEMMA BridgeBreaksKeeps == TrailInv /\ (BridgeBreaks \/ GateGivesUp) => TrailInv'
<1> SUFFICES ASSUME TrailInv, BridgeBreaks \/ GateGivesUp
             PROVE  TrailInv'
  OBVIOUS
<1>0. TrailTyped /\ ServerHolds /\ GateHolds /\ CallHolds /\ SyncHolds /\ ShownHolds /\ WayHolds
  BY DEF TrailInv
<1>1. /\ \/ server' = [server EXCEPT !.bridge = "closed"] /\ tui' = [tui EXCEPT !.asks = {}]
            /\ gate' = IF gate.state \in {"waiting", "binding"} THEN [gate EXCEPT !.state = "failed"] ELSE gate
         \/ gate.state = "waiting" /\ gate' = [gate EXCEPT !.state = "failed"] /\ UNCHANGED <<server, tui>>
      /\ Needs("breaks") /\ UNCHANGED <<saved, bound, moves, sync, op, queue, home>>
  BY DEF BridgeBreaks, GateGivesUp
<1>2. left' \in LoadState /\ left'.calm = left.calm
  BY <1>0, <1>1, NeedsTyped DEF TrailTyped
<1>3. /\ server' \in ServerState /\ server'.mgr = server.mgr /\ server'.loaded = server.loaded
      /\ server'.bridge \in {server.bridge, "closed"}
  BY <1>0, <1>1 DEF TrailTyped, ServerState
<1>4. tui' \in TuiState /\ tui'.shown = tui.shown /\ (tui'.asks = tui.asks \/ tui'.asks = {})
  BY <1>0, <1>1 DEF TrailTyped, TuiState
<1>5. /\ gate' \in GateState /\ gate'.queued = gate.queued /\ gate'.first = gate.first
      /\ gate'.state = gate.state \/ (gate'.state = "failed" /\ gate.state \in {"waiting", "binding"})
      /\ gate'.state # "binding" \/ gate' = gate
  BY <1>0, <1>1 DEF TrailTyped, GateState
<1>6. TrailTyped'
  BY <1>0, <1>1, <1>2, <1>3, <1>4, <1>5 DEF TrailTyped
<1>7. ServerHolds'
  BY <1>0, <1>1, <1>3, <1>4 DEF ServerHolds
<1>8. GateHolds'
  <2>1. gate'.state \in {"waiting", "binding"} => server' = server
    BY <1>0, <1>1, <1>5 DEF TrailTyped, GateState
  <2> QED  BY <1>0, <1>1, <1>3, <1>4, <1>5, <2>1 DEF GateHolds
<1>9. CallHolds'
  <2>1. op.pc = "begun" => gate' = gate
    BY <1>0, <1>1 DEF CallHolds, NoGate
  <2>2. op.pc = "wait" => gate'.queued = <<>> \/ gate'.state = "failed"
    BY <1>0, <1>5 DEF CallHolds
  <2>3. op.pc = "launched" /\ op.kind # "new" => gate'.state = "off"
    BY <1>0, <1>5 DEF CallHolds
  <2> QED  BY <1>0, <1>1, <1>3, <1>4, <2>1, <2>2, <2>3 DEF CallHolds, FirstAsk
<1>10. SyncHolds'
  BY <1>0, <1>1, <1>3 DEF SyncHolds, Frozen
<1>11. ShownHolds' /\ WayHolds'
  BY <1>0, <1>1, <1>3, <1>4, <1>5 DEF ShownHolds, LastSelected, WayHolds, LeadsTo
<1> QED  BY <1>2, <1>6, <1>7, <1>8, <1>9, <1>10, <1>11 DEF TrailInv

\* The user asks for a thread, or is refused one.
LEMMA AsksKeeps == TrailInv /\ left.calm /\ (TuiAsks \/ Refuses) => TrailInv'
<1> SUFFICES ASSUME TrailInv, left.calm, TuiAsks \/ Refuses
             PROVE  TrailInv'
  OBVIOUS
<1>0. TrailTyped /\ ServerHolds /\ GateHolds /\ CallHolds /\ SyncHolds /\ ShownHolds /\ WayHolds
  BY DEF TrailInv
<1>1. UNCHANGED <<saved, bound, server, gate, moves, sync, op, queue, home>>
  BY DEF TuiAsks, Refuses, RefusedIsNone
<1>2. left' \in LoadState /\ left'.calm = left.calm
  <2>1. Needs("asks") \/ Needs("errors")
    BY DEF TuiAsks, Refuses
  <2> QED  BY <1>0, <2>1, NeedsTyped DEF TrailTyped
<1>3. /\ tui' \in TuiState /\ tui'.shown = tui.shown
      /\ \/ tui'.asks \subseteq tui.asks
         \/ /\ op.pc = "none" \/ gate.state = "binding"
            /\ server.mgr # 0 /\ \A a \in tui'.asks : a.method = "thread/resume" => a.thread # NoThread
  <2>1. CASE Refuses
    BY <1>0, <2>1 DEF Refuses, TrailTyped, TuiState
  <2>2. CASE TuiAsks
    <3>0. PICK m \in {"thread/resume", "thread/fork"} :
            \E t \in (IF m = "thread/resume" THEN saved \cup server.loaded ELSE {tui.shown}) :
              tui' = [tui EXCEPT !.asks = tui.asks \cup {[id |-> left.asks, method |-> m, thread |-> t]}]
      BY <2>2 DEF TuiAsks
    <3>1. PICK t \in (IF m = "thread/resume" THEN saved \cup server.loaded ELSE {tui.shown}) :
            tui' = [tui EXCEPT !.asks = tui.asks \cup {[id |-> left.asks, method |-> m, thread |-> t]}]
      BY <3>0
    <3>2. t \in Maybe /\ (m = "thread/resume" => t # NoThread) /\ left.asks \in Nat
      <4>1. saved \cup server.loaded \subseteq Threads /\ tui.shown \in Maybe
        BY <1>0 DEF TrailTyped, ServerState, TuiState
      <4>2. \A x \in Threads : x \in Maybe /\ x # NoThread
        BY DEF Threads, Maybe, NoThread
      <4>3. left.asks \in Nat
        BY <1>0 DEF TrailTyped, LoadState
      <4> QED  BY <4>1, <4>2, <4>3
    <3>3. [id |-> left.asks, method |-> m, thread |-> t] \in AskState
      BY <3>2 DEF AskState
    <3>4. tui' \in TuiState /\ tui'.shown = tui.shown /\ tui'.asks = tui.asks \cup {[id |-> left.asks, method |-> m, thread |-> t]}
      BY <1>0, <3>1, <3>3 DEF TrailTyped, TuiState
    <3>5. op.pc = "none" \/ gate.state = "binding"
      BY <2>2 DEF TuiAsks, Composed
    <3>6. server.mgr # 0
      BY <1>0, <2>2 DEF TuiAsks, ServerHolds
    <3> QED  BY <1>0, <3>2, <3>4, <3>5, <3>6 DEF ServerHolds
  <2> QED  BY <2>1, <2>2
<1>4. TrailTyped'
  BY <1>0, <1>1, <1>2, <1>3 DEF TrailTyped
<1>5. ServerHolds'
  BY <1>0, <1>1, <1>3 DEF ServerHolds
<1>6. GateHolds'
  BY <1>0, <1>1, <1>3 DEF GateHolds
<1>7. CallHolds'
  <2>1. op.pc \in {"wait", "begun"} \/ (op.pc = "launched" /\ op.kind # "new") => tui'.asks \subseteq tui.asks
    BY <1>0, <1>3 DEF CallHolds, GateHolds, NoGate
  <2> QED  BY <1>0, <1>1, <1>3, <2>1 DEF CallHolds, FirstAsk
<1>8. SyncHolds' /\ ShownHolds' /\ WayHolds'
  BY <1>0, <1>1, <1>3 DEF SyncHolds, Frozen, ShownHolds, LastSelected, WayHolds, LeadsTo
<1> QED  BY <1>2, <1>4, <1>5, <1>6, <1>7, <1>8 DEF TrailInv

\* The App Server answers, and the bridge sees the selection: it is followed, held back, or the first.
LEMMA AnswersKeeps == TrailInv /\ left.calm /\ Answers => TrailInv'
<1> SUFFICES ASSUME TrailInv, left.calm, Answers
             PROVE  TrailInv'
  OBVIOUS
<1>0. TrailTyped /\ ServerHolds /\ GateHolds /\ CallHolds /\ SyncHolds /\ ShownHolds /\ WayHolds
  BY DEF TrailInv
<1>1. /\ server.bridge = "open" /\ ~ Draining /\ UNCHANGED <<saved, bound, sync, op, queue, home, left>>
  BY DEF Answers
<1>2. PICK a \in tui.asks :
        \E t \in {IF a.method # "thread/resume" THEN server.born + 1 ELSE a.thread} :
          /\ t <= MaxThreads
          /\ tui' = [shown |-> t, asks |-> tui.asks \ {a}]
          /\ server' = [server EXCEPT !.born = IF a.method # "thread/resume" THEN t ELSE server.born, !.loaded = server.loaded \cup {t}]
          /\ Observed(a.method, t)
  BY DEF Answers
<1>3. PICK t \in {IF a.method # "thread/resume" THEN server.born + 1 ELSE a.thread} :
        /\ t <= MaxThreads
        /\ tui' = [shown |-> t, asks |-> tui.asks \ {a}]
        /\ server' = [server EXCEPT !.born = IF a.method # "thread/resume" THEN t ELSE server.born, !.loaded = server.loaded \cup {t}]
        /\ Observed(a.method, t)
  BY <1>2
<1>4. t \in Threads /\ a \in AskState /\ server.born \in Nat
  <2>1. a \in AskState /\ server.born \in Nat /\ MaxThreads \in Nat
    BY <1>0, ThreadsAssumption DEF TrailTyped, TuiState, ServerState
  <2>2. CASE a.method = "thread/resume"
    BY <1>0, <1>3, <2>1, <2>2 DEF AskState, ServerHolds, Maybe, Threads, NoThread
  <2>3. CASE a.method # "thread/resume"
    BY <1>3, <2>1, <2>3 DEF Threads
  <2> QED  BY <2>1, <2>2, <2>3
<1>5. tui' \in TuiState /\ tui'.shown = t /\ tui'.asks = tui.asks \ {a} /\ t # NoThread
  BY <1>0, <1>3, <1>4 DEF TrailTyped, TuiState, Threads, Maybe, NoThread
<1>6. /\ server' \in ServerState /\ server'.mgr = server.mgr /\ server'.bridge = server.bridge
      /\ server'.loaded = server.loaded \cup {t} /\ server.mgr # 0 /\ server.mgr \in Nat
  <2>1. server \in ServerState /\ server.loaded \subseteq Threads /\ t \in Nat
    BY <1>0, <1>4 DEF TrailTyped, ServerState, Threads
  <2>2. server.mgr # 0
    BY <1>0, <1>1 DEF ServerHolds
  <2> QED  BY <1>3, <1>4, <2>1, <2>2 DEF ServerState
<1>8. op.pc \notin {"wait", "begun"}
  BY <1>0 DEF CallHolds
\* The selection is followed after those that wait.
<1>9. CASE gate.state \in {"off", "active"}
  <2>1. moves' = Selects(t, FALSE) /\ gate' = gate
    BY <1>3, <1>9 DEF Observed
  <2>2. /\ moves' \in Seq(MoveState) /\ moves' # <<>> /\ Len(moves') = Len(moves) + 1 /\ Len(moves) \in Nat
        /\ moves'[Len(moves')].thread = t /\ (moves # <<>> => moves'[1] = moves[1])
        /\ \A i \in 1..Len(moves') : moves'[i].mgr = server.mgr
    <3>1. moves \in Seq(MoveState) /\ server.mgr \in Nat \ {0} /\ FALSE \in BOOLEAN
      BY <1>0, <1>6 DEF TrailTyped
    <3>2. \A i \in 1..Len(moves) : moves[i].mgr = server.mgr
      BY <1>0, <1>6 DEF ServerHolds
    <3> QED  BY <1>4, <2>1, <3>1, <3>2, Grows
  <2>3. gate.queued = <<>>
    BY <1>0, <1>1, <1>9 DEF GateHolds, Draining
  <2>4. op.pc = "none" \/ (op.pc = "launched" /\ op.kind # "new")
    BY <1>0, <1>8, <1>9 DEF GateHolds, CallHolds, CallState, TrailTyped
  <2>5. TrailTyped'
    BY <1>0, <1>1, <1>5, <1>6, <2>1, <2>2 DEF TrailTyped
  <2>6. ServerHolds'
    BY <1>0, <1>1, <1>5, <1>6, <2>2 DEF ServerHolds
  <2>7. GateHolds'
    BY <1>0, <1>1, <1>5, <1>6, <1>9, <2>1 DEF GateHolds
  <2>8. CallHolds'
    <3>1. CASE op.pc = "none"
      BY <1>0, <1>1, <2>1, <3>1 DEF CallHolds
    <3>2. CASE op.pc = "launched" /\ op.kind # "new"
      <4>1. /\ server.loaded = {} /\ tui.asks \subseteq {FirstAsk} /\ moves = <<>>
            /\ gate.state = "off" /\ op.thread # NoThread /\ (op.kind = "reopen" => bound.thread = op.thread)
            /\ bound.state = "connecting" /\ sync.pc = "none" /\ op.kind # "none" /\ (op.kind = "saved" => op.thread \in saved)
        BY <1>0, <3>2 DEF CallHolds
      <4>2. a = FirstAsk /\ tui.asks \ {a} = {}
        BY <4>1
      <4>3. t = op.thread
        BY <1>3, <4>2 DEF FirstAsk
      <4>4. Len(moves') = 1
        BY <2>2, <4>1
      <4>5. \A i \in 1..Len(moves') : moves'[i].thread = op.thread
        <5>1. moves'[Len(moves')].thread = op.thread
          BY <2>2, <4>3
        <5>2. \A i \in 1..Len(moves') : i = Len(moves')
          BY <4>4
        <5> QED  BY <5>1, <5>2
      <4>6. /\ server'.loaded = {op.thread} /\ tui'.shown = op.thread /\ tui'.asks = {} /\ server'.mgr # 0
            /\ op' = op /\ bound' = bound /\ gate' = gate /\ saved' = saved /\ sync' = sync
        BY <1>1, <1>5, <1>6, <2>1, <4>1, <4>2, <4>3
      <4> QED  BY <3>2, <4>1, <4>4, <4>5, <4>6 DEF CallHolds
    <3> QED  BY <2>4, <3>1, <3>2
  <2>9. SyncHolds'
    BY <1>0, <1>1, <1>6, <2>2 DEF SyncHolds, Frozen
  <2>10. ShownHolds' /\ WayHolds'
    BY <1>0, <1>1, <1>5, <1>9, <2>1, <2>2, <2>3 DEF ShownHolds, LastSelected, WayHolds, LeadsTo
  <2> QED  BY <2>5, <2>6, <2>7, <2>8, <2>9, <2>10 DEF TrailInv
\* It is the first, or waits until the first is bound, or nobody asks any more.
<1>10. CASE gate.state \in {"waiting", "binding", "failed"}
  <2>1. op.pc \in {"launched", "active"} /\ op.kind = "new" /\ moves = <<>> /\ moves' = moves
    BY <1>0, <1>3, <1>6, <1>10 DEF GateHolds, CallHolds, Observed
  <2>2. /\ gate' \in GateState /\ gate'.state \in {"binding", "failed"}
        /\ gate.state = "waiting" => gate'.state = "failed" \/ (gate'.state = "binding" /\ gate'.first = t /\ gate'.queued = <<>>)
        /\ gate.state = "binding" =>
             gate'.state = "binding" /\ gate'.first = gate.first /\ gate'.queued # <<>> /\ gate'.queued[Len(gate'.queued)] = t
        /\ gate.state = "failed" => gate' = gate
    <3>1. CASE gate.state = "waiting"
      <4>1. gate' = [gate EXCEPT !.state = "binding", !.first = t] \/ gate' = [gate EXCEPT !.state = "failed"]
        BY <1>3, <3>1 DEF Observed
      <4>2. gate.queued = <<>> /\ t \in Maybe /\ gate \in GateState
        BY <1>0, <1>4, <3>1 DEF GateHolds, Threads, Maybe, TrailTyped
      <4> QED  BY <3>1, <4>1, <4>2 DEF GateState
    <3>2. CASE gate.state = "binding"
      <4> DEFINE q == Append(gate.queued, t)
      <4>1. gate' = [gate EXCEPT !.queued = q]
        BY <1>3, <3>2 DEF Observed, HeldBack
      <4>2. gate \in GateState /\ gate.queued \in Seq(Threads)
        BY <1>0 DEF TrailTyped, GateState
      <4>3. q \in Seq(Threads) /\ q # <<>> /\ q[Len(q)] = t
        BY <1>4, <4>2, AppendProperties
      <4> HIDE DEF q
      <4> QED  BY <3>2, <4>1, <4>2, <4>3 DEF GateState
    <3>3. CASE gate.state = "failed"
      BY <1>0, <1>3, <3>3 DEF Observed, TrailTyped
    <3> QED  BY <1>10, <3>1, <3>2, <3>3
  <2>3. TrailTyped'
    BY <1>0, <1>1, <1>5, <1>6, <2>1, <2>2 DEF TrailTyped
  <2>4. ServerHolds'
    BY <1>0, <1>1, <1>5, <1>6, <2>1 DEF ServerHolds
  <2>5. GateHolds'
    <3>1. op.pc = "active" => gate'.first = gate.first /\ bound.thread = gate.first /\ bound.state = "ready"
      BY <1>0, <1>10, <2>2 DEF GateHolds
    <3>2. gate'.state = "binding" => gate'.first # NoThread
      BY <1>0, <1>5, <1>10, <2>2 DEF GateHolds
    <3> QED  BY <1>1, <1>6, <2>1, <2>2, <3>1, <3>2 DEF GateHolds
  <2>6. CallHolds'
    BY <1>0, <1>1, <1>6, <2>1 DEF CallHolds
  <2>7. SyncHolds'
    BY <1>0, <1>1, <1>6, <2>1 DEF SyncHolds, Frozen
  <2>8. ShownHolds' /\ WayHolds'
    BY <1>0, <1>1, <1>5, <1>10, <2>1, <2>2 DEF ShownHolds, LastSelected, WayHolds, LeadsTo
  <2> QED  BY <2>3, <2>4, <2>5, <2>6, <2>7, <2>8 DEF TrailInv
<1> QED  BY <1>0, <1>9, <1>10 DEF TrailTyped, GateState

\* What was held back is followed in the order in which it came.
LEMMA ForwardsKeeps == TrailInv /\ GateForwards => TrailInv'
<1> SUFFICES ASSUME TrailInv, GateForwards
             PROVE  TrailInv'
  OBVIOUS
<1>0. TrailTyped /\ ServerHolds /\ GateHolds /\ CallHolds /\ SyncHolds /\ ShownHolds /\ WayHolds
  BY DEF TrailInv
<1> DEFINE q == Tail(gate.queued)
<1>1. /\ gate.state = "active" /\ gate.queued # <<>> /\ moves' = Selects(Head(gate.queued), TRUE)
      /\ gate' = [gate EXCEPT !.queued = q]
      /\ UNCHANGED <<saved, bound, server, tui, sync, op, queue, home, left>>
  BY DEF GateForwards, Draining
<1>2. /\ q \in Seq(Threads) /\ Head(gate.queued) \in Threads /\ Head(gate.queued) = gate.queued[1]
      /\ q = <<>> => Len(gate.queued) = 1
      /\ q # <<>> => q[Len(q)] = gate.queued[Len(gate.queued)]
  BY <1>0, <1>1, Shrinks DEF TrailTyped, GateState
<1> HIDE DEF q
<1>3. gate' \in GateState /\ gate'.state = "active" /\ gate'.queued = q /\ gate'.first = gate.first
  BY <1>0, <1>1, <1>2 DEF TrailTyped, GateState
<1>4. server.mgr \in Nat \ {0}
  BY <1>0, <1>1 DEF TrailTyped, ServerState, GateHolds
<1>5. /\ moves' \in Seq(MoveState) /\ moves' # <<>> /\ Len(moves') = Len(moves) + 1 /\ Len(moves) \in Nat
      /\ moves'[Len(moves')].thread = gate.queued[1] /\ (moves # <<>> => moves'[1] = moves[1])
      /\ \A i \in 1..Len(moves') : moves'[i].mgr = server.mgr
  <2>1. moves \in Seq(MoveState) /\ TRUE \in BOOLEAN /\ Head(gate.queued) \in Threads
    BY <1>0, <1>2 DEF TrailTyped
  <2>2. \A i \in 1..Len(moves) : moves[i].mgr = server.mgr
    BY <1>0, <1>4 DEF ServerHolds
  <2> QED  BY <1>1, <1>2, <1>4, <2>1, <2>2, Grows
<1>6. op.pc = "none"
  BY <1>0, <1>1 DEF GateHolds, CallHolds
<1>7. TrailTyped' /\ ServerHolds'
  BY <1>0, <1>1, <1>3, <1>5, <1>6 DEF TrailTyped, ServerHolds
<1>8. GateHolds' /\ CallHolds'
  BY <1>0, <1>1, <1>3, <1>4, <1>6 DEF GateHolds, CallHolds
<1>9. SyncHolds'
  BY <1>0, <1>1, <1>5 DEF SyncHolds, Frozen
<1>10. ShownHolds' /\ WayHolds'
  BY <1>0, <1>1, <1>2, <1>3, <1>5 DEF ShownHolds, LastSelected, WayHolds, LeadsTo
<1> QED  BY <1>7, <1>8, <1>9, <1>10 DEF TrailInv

\* The selection that is followed is one of the server that runs, and nothing is launched meanwhile.
LEMMA Following ==
    ASSUME TrailInv, moves # <<>>
    PROVE  /\ Move = moves[1] /\ Move \in MoveState /\ Len(moves) \in Nat \ {0}
           /\ server.mgr # 0 => IsCurrent
           /\ IsCurrent => server.mgr # 0
           /\ gate.state # "binding"
           /\ sync.pc # "none" => IsCurrent /\ op.pc = "none" /\ bound.state = "ready"
           /\ op.pc = "none" \/ (op.pc = "launched" /\ op.kind # "new" /\ bound.state = "connecting" /\ Len(moves) <= 1)
<1>1. TrailTyped /\ ServerHolds /\ GateHolds /\ CallHolds /\ SyncHolds /\ ShownHolds /\ WayHolds
  BY DEF TrailInv
<1>2. Move = moves[1] /\ Move \in MoveState /\ Len(moves) \in Nat \ {0}
  <2>1. moves \in Seq(MoveState)
    BY <1>1 DEF TrailTyped
  <2> QED  BY <2>1, EmptySeq, HeadTailProperties DEF Move
<1>3. server.mgr # 0 => IsCurrent
  BY <1>1, <1>2 DEF ServerHolds, IsCurrent
<1>4. IsCurrent => server.mgr # 0
  BY <1>2 DEF IsCurrent, MoveState
<1>5. gate.state # "binding"
  BY <1>1 DEF GateHolds, CallHolds
<1>6. op.pc \in {"none", "wait", "begun", "launched", "active"}
  BY <1>1 DEF TrailTyped, CallState
<1>7. op.pc = "none" \/ (op.pc = "launched" /\ op.kind # "new" /\ bound.state = "connecting" /\ Len(moves) <= 1)
  BY <1>1, <1>6 DEF CallHolds, GateHolds
<1>8. sync.pc # "none" => server.mgr # 0 /\ op.pc = "none" /\ bound.state = "ready"
  BY <1>1 DEF SyncHolds, CallHolds, ServerHolds
<1> QED  BY <1>2, <1>3, <1>4, <1>5, <1>7, <1>8

\* A selection that is done with was the last one only where the tab is on its thread.
LEMMA EndsKeeps ==
    ASSUME TrailInv, moves # <<>>, MoveEnds, UNCHANGED <<saved, bound, tui, gate, op, home>>,
           server.mgr # 0 /\ op.pc = "none" => bound.thread = Move.thread,
           server' \in ServerState, server'.mgr = server.mgr, server'.bridge = server.bridge,
           server'.loaded = server.loaded \/ op.pc = "none", server.mgr = 0 => server' = server,
           left' \in LoadState, queue' \in [rolls : BOOLEAN, meant : BOOLEAN], queue'.meant => queue'.rolls
    PROVE  TrailInv'
<1>0. TrailTyped /\ ServerHolds /\ GateHolds /\ CallHolds /\ SyncHolds /\ ShownHolds /\ WayHolds
  BY DEF TrailInv
<1>1. /\ Move = moves[1] /\ gate.state # "binding" /\ Len(moves) \in Nat \ {0}
      /\ op.pc = "none" \/ (op.pc = "launched" /\ op.kind # "new" /\ Len(moves) <= 1)
  BY Following
<1>2. /\ moves' \in Seq(MoveState) /\ Len(moves') = Len(moves) - 1
      /\ moves' = <<>> => Len(moves) = 1
      /\ moves' # <<>> => moves'[Len(moves')] = moves[Len(moves)]
      /\ \A i \in 1..Len(moves') : moves'[i] = moves[i + 1] /\ i + 1 \in 1..Len(moves)
  <2>1. moves \in Seq(MoveState) /\ moves' = Tail(moves)
    BY <1>0 DEF TrailTyped, MoveEnds
  <2> QED  BY <2>1, Shrinks
<1>3. sync' \in SyncState /\ sync'.pc = "none"
  <2>1. sync.done \in Nat /\ 0 \in Maybe
    BY <1>0, ThreadsAssumption DEF TrailTyped, SyncState, Maybe
  <2>2. NoBound \in BoundState
    BY <2>1 DEF NoBound, BoundState, NoThread
  <2>3. sync' = [pc |-> "none", done |-> sync.done + 1, was |-> NoBound, from |-> 0, last |-> 0, resumes |-> FALSE]
    BY DEF MoveEnds, NoSync, NoThread
  <2> QED  BY <2>1, <2>2, <2>3 DEF SyncState
<1>4. TrailTyped'
  BY <1>0, <1>2, <1>3 DEF TrailTyped
<1>5. ServerHolds'
  <2>1. server.mgr # 0 => \A i \in 1..Len(moves') : moves'[i].mgr = server.mgr
    BY <1>0, <1>2 DEF ServerHolds
  <2> QED  BY <1>0, <2>1 DEF ServerHolds
<1>6. GateHolds'
  BY <1>0 DEF GateHolds
<1>7. CallHolds'
  <2>1. CASE op.pc = "none"
    BY <1>0, <1>3, <2>1 DEF CallHolds
  <2>2. CASE op.pc = "launched" /\ op.kind # "new" /\ Len(moves) <= 1
    <3>1. Len(moves') = 0 /\ moves' = <<>>
      BY <1>1, <1>2, <2>2, EmptySeq
    <3>2. server'.loaded = server.loaded
      BY <2>2
    <3> QED  BY <1>0, <1>3, <2>2, <3>1, <3>2 DEF CallHolds, FirstAsk
  <2> QED  BY <1>1, <2>1, <2>2
<1>8. SyncHolds'
  BY <1>3 DEF SyncHolds, Frozen
<1>9. ShownHolds'
  <2>1. CASE op.pc = "none" /\ server.bridge # "closed" /\ gate.queued = <<>> /\ moves' = <<>>
    <3>1. bound.thread = moves[Len(moves)].thread
      BY <1>0, <1>1, <1>2, <2>1 DEF ServerHolds
    <3> QED  BY <1>0, <1>1, <2>1, <3>1 DEF ShownHolds, LastSelected
  <2>2. CASE ~ (op.pc = "none" /\ server.bridge # "closed" /\ gate.queued = <<>> /\ moves' = <<>>)
    BY <1>0, <1>1, <1>2, <2>2 DEF ShownHolds, LastSelected
  <2> QED  BY <2>1, <2>2
<1>10. WayHolds'
  BY <1>0 DEF WayHolds, LeadsTo
<1> QED  BY <1>4, <1>5, <1>6, <1>7, <1>8, <1>9, <1>10 DEF TrailInv

\* The next selection is read, or there is nothing to follow.
LEMMA ReadsKeeps == TrailInv /\ SyncReads => TrailInv'
<1> SUFFICES ASSUME TrailInv, SyncReads
             PROVE  TrailInv'
  OBVIOUS
<1>0. TrailTyped /\ ServerHolds /\ GateHolds /\ CallHolds /\ SyncHolds /\ ShownHolds /\ WayHolds
  BY DEF TrailInv
<1>1. moves # <<>> /\ sync.pc = "none" /\ UNCHANGED <<saved, bound, server, tui, gate, op, queue, home, left>>
  BY DEF SyncReads, At
<1>2. server.mgr # 0 => IsCurrent
  BY <1>1, Following
<1>3. CASE IsCurrent /\ bound.state = "ready" /\ bound.thread \notin {NoThread, Move.thread}
  <2>1. sync' = [sync EXCEPT !.pc = "read", !.was = bound, !.resumes = queue.rolls] /\ moves' = moves
    BY <1>3 DEF SyncReads
  <2>2. op.pc = "none" /\ server.mgr # 0
    BY <1>1, <1>3, Following
  <2>3. sync' \in SyncState /\ sync'.pc = "read" /\ sync'.was = bound /\ sync'.resumes = queue.rolls
    BY <1>0, <2>1 DEF TrailTyped, SyncState
  <2>4. TrailTyped' /\ ServerHolds' /\ GateHolds'
    BY <1>0, <1>1, <2>1, <2>3 DEF TrailTyped, ServerHolds, GateHolds
  <2>5. CallHolds'
    BY <1>0, <1>1, <2>1, <2>2 DEF CallHolds
  <2>6. SyncHolds'
    <3>1. queue.meant => queue.rolls
      BY <1>0, <1>1 DEF SyncHolds, Frozen
    <3> QED  BY <1>0, <1>1, <2>1, <2>2, <2>3, <3>1 DEF SyncHolds, Frozen, TrailTyped
  <2>7. ShownHolds' /\ WayHolds'
    BY <1>0, <1>1, <2>1 DEF ShownHolds, LastSelected, WayHolds, LeadsTo
  <2> QED  BY <2>4, <2>5, <2>6, <2>7 DEF TrailInv
<1>4. CASE ~ (IsCurrent /\ bound.state = "ready" /\ bound.thread \notin {NoThread, Move.thread})
  <2>1. MoveEnds
    BY <1>4 DEF SyncReads
  <2>2. server.mgr # 0 /\ op.pc = "none" => bound.thread = Move.thread
    BY <1>0, <1>2, <1>4 DEF ServerHolds
  <2>3. queue.meant => queue.rolls
    BY <1>0, <1>1 DEF SyncHolds, Frozen
  <2>4. server \in ServerState /\ left \in LoadState /\ queue \in [rolls : BOOLEAN, meant : BOOLEAN]
    BY <1>0 DEF TrailTyped
  <2> QED  BY <1>1, <2>1, <2>2, <2>3, <2>4, EndsKeeps
<1> QED  BY <1>3, <1>4

\* The queue stops; from here on no prompt goes to the thread that is left.
LEMMA FreezesKeeps == TrailInv /\ SyncFreezes => TrailInv'
<1> SUFFICES ASSUME TrailInv, SyncFreezes
             PROVE  TrailInv'
  OBVIOUS
<1>0. TrailTyped /\ ServerHolds /\ GateHolds /\ CallHolds /\ SyncHolds /\ ShownHolds /\ WayHolds
  BY DEF TrailInv
<1>1. moves # <<>> /\ sync.pc = "read" /\ queue' = [queue EXCEPT !.rolls = FALSE]
  BY DEF SyncFreezes, At
<1>2. sync' = [sync EXCEPT !.pc = "frozen"] /\ UNCHANGED <<saved, bound, server, tui, gate, moves, op, home, left>>
  BY <1>1, Following DEF SyncFreezes
<1>3. sync' \in SyncState /\ sync'.pc = "frozen" /\ sync'.was = sync.was /\ sync'.resumes = sync.resumes
  BY <1>0, <1>2 DEF TrailTyped, SyncState
<1>4. queue' \in [rolls : BOOLEAN, meant : BOOLEAN] /\ ~ queue'.rolls /\ queue'.meant = queue.meant
  BY <1>0, <1>1 DEF TrailTyped
<1>5. TrailTyped' /\ ServerHolds' /\ GateHolds'
  BY <1>0, <1>2, <1>3, <1>4 DEF TrailTyped, ServerHolds, GateHolds
<1>6. CallHolds'
  BY <1>0, <1>1, <1>2 DEF CallHolds
<1>7. SyncHolds'
  <2>1. queue.meant => sync.resumes
    BY <1>0, <1>1 DEF SyncHolds, Frozen
  <2> QED  BY <1>0, <1>1, <1>2, <1>3, <1>4, <2>1 DEF SyncHolds, Frozen
<1>8. ShownHolds' /\ WayHolds'
  BY <1>0, <1>2 DEF ShownHolds, LastSelected, WayHolds, LeadsTo
<1> QED  BY <1>5, <1>6, <1>7, <1>8 DEF TrailInv

\* The rollouts are looked up: what will be remembered is the conversation to come back to.
LEMMA ProbesKeeps == TrailInv /\ SyncProbes => TrailInv'
<1> SUFFICES ASSUME TrailInv, SyncProbes
             PROVE  TrailInv'
  OBVIOUS
<1>0. TrailTyped /\ ServerHolds /\ GateHolds /\ CallHolds /\ SyncHolds /\ ShownHolds /\ WayHolds
  BY DEF TrailInv
<1>1. moves # <<>> /\ sync.pc = "frozen" /\ UNCHANGED <<saved, bound, server, tui, gate, moves, op, queue, home, left>>
  BY DEF SyncProbes, At
<1>2. Move = moves[1] /\ Move.thread \in Threads /\ Move.thread # NoThread
  BY <1>1, Following DEF MoveState, Threads, NoThread
<1> DEFINE w == sync.was
           r == Remembered(w, Move.thread)
<1>3. sync' = [sync EXCEPT !.pc = "probed", !.from = Origin(w), !.last = r]
  BY DEF SyncProbes
<1>4. /\ w \in BoundState /\ w.thread = bound.thread /\ w.from = bound.from /\ w.last \in saved \cup {NoThread}
      /\ w.last = bound.last \/ bound.thread \in saved
      /\ saved \subseteq Threads /\ NoThread \notin saved
  BY <1>0, <1>1 DEF SyncHolds, TrailTyped, SyncState, Threads, NoThread
<1>5. FirstSaved(<<w.thread, w.last, w.from>>) = LeadsTo(w)
  BY FirstOfThree DEF LeadsTo
<1>6. FirstSaved(<<Move.thread, w.thread, w.last, w.from>>) = IF Move.thread \in saved THEN Move.thread ELSE LeadsTo(w)
  BY <1>5, FirstOfFour
<1>7. LeadsTo(w) \in saved \cup {NoThread}
  BY DEF LeadsTo
<1>8. /\ r \in saved \cup {NoThread}
      /\ Move.thread \notin saved /\ LeadsTo(w) # NoThread => r = LeadsTo(w)
  BY <1>4, <1>6, <1>7 DEF Remembered
<1>9. home # NoThread => LeadsTo(w) = home
  BY <1>0, <1>4 DEF WayHolds, LeadsTo
<1>10. Origin(w) \in Maybe /\ r \in Maybe
  <2>1. w.thread \in Maybe /\ w.from \in Maybe
    BY <1>4 DEF BoundState
  <2>2. \A t \in saved \cup {NoThread} : t \in Maybe
    BY <1>4, ThreadsAssumption DEF Threads, Maybe, NoThread
  <2> QED  BY <1>8, <2>1, <2>2 DEF Origin
<1> HIDE DEF w, r
<1>11. sync' \in SyncState /\ sync'.pc = "probed" /\ sync'.last = r /\ sync'.resumes = sync.resumes
  BY <1>0, <1>3, <1>10 DEF TrailTyped, SyncState
<1>12. TrailTyped' /\ ServerHolds' /\ GateHolds'
  BY <1>0, <1>1, <1>11 DEF TrailTyped, ServerHolds, GateHolds
<1>13. CallHolds'
  BY <1>0, <1>1 DEF CallHolds
<1>14. SyncHolds'
  <2>1. home # NoThread /\ moves[1].thread \notin saved => r = home
    BY <1>2, <1>8, <1>9
  <2>2. ~ queue.rolls /\ (queue.meant => sync.resumes) /\ server.mgr # 0
    BY <1>0, <1>1 DEF SyncHolds, Frozen
  <2> QED  BY <1>1, <1>8, <1>11, <2>1, <2>2 DEF SyncHolds, Frozen
<1>15. ShownHolds' /\ WayHolds'
  BY <1>0, <1>1 DEF ShownHolds, LastSelected, WayHolds, LeadsTo
<1> QED  BY <1>12, <1>13, <1>14, <1>15 DEF TrailInv

\* The tab is bound to the thread.
LEMMA BindsKeeps == TrailInv /\ SyncBinds => TrailInv'
<1> SUFFICES ASSUME TrailInv, SyncBinds
             PROVE  TrailInv'
  OBVIOUS
<1>0. TrailTyped /\ ServerHolds /\ GateHolds /\ CallHolds /\ SyncHolds /\ ShownHolds /\ WayHolds
  BY DEF TrailInv
<1>1. moves # <<>> /\ sync.pc = "probed" /\ UNCHANGED <<saved, server, tui, gate, moves, op, queue, left>>
  BY DEF SyncBinds, At
<1>2. Move = moves[1] /\ Move.thread \in Threads /\ Move.thread # NoThread /\ gate.state # "binding" /\ op.pc = "none"
  BY <1>1, Following DEF MoveState, Threads, NoThread
<1>3. /\ bound' = [state |-> "ready", thread |-> Move.thread, last |-> sync.last, from |-> sync.from]
      /\ sync' = [sync EXCEPT !.pc = "bound"]
      /\ home' = IF Move.thread \in saved THEN Move.thread ELSE home
  BY DEF SyncBinds, Home
<1>4. /\ sync' \in SyncState /\ sync'.pc = "bound" /\ sync'.resumes = sync.resumes
      /\ sync.last \in Maybe /\ sync.from \in Maybe
  BY <1>0, <1>3 DEF TrailTyped, SyncState
<1>5. /\ sync.last \in saved \cup {NoThread} /\ (home # NoThread /\ Move.thread \notin saved => sync.last = home)
      /\ ~ queue.rolls /\ (queue.meant => sync.resumes) /\ server.mgr # 0
  BY <1>0, <1>1, <1>2 DEF SyncHolds, Frozen
<1>6. bound' \in BoundState /\ bound'.state = "ready" /\ bound'.thread = Move.thread /\ bound'.last = sync.last
  BY <1>2, <1>3, <1>4 DEF BoundState, Maybe, Threads
<1>7. TrailTyped'
  BY <1>0, <1>1, <1>3, <1>4, <1>5, <1>6 DEF TrailTyped
<1>8. ServerHolds' /\ GateHolds'
  BY <1>0, <1>1, <1>2, <1>6 DEF ServerHolds, GateHolds
<1>9. CallHolds'
  BY <1>0, <1>1, <1>2 DEF CallHolds
<1>10. SyncHolds'
  BY <1>1, <1>2, <1>4, <1>5, <1>6 DEF SyncHolds, Frozen
<1>11. ShownHolds'
  BY <1>0, <1>1, <1>2 DEF ShownHolds, LastSelected
<1>12. WayHolds'
  BY <1>1, <1>3, <1>5, <1>6 DEF WayHolds, LeadsTo
<1> QED  BY <1>7, <1>8, <1>9, <1>10, <1>11, <1>12 DEF TrailInv

\* The thread is resumed, or that fails; either way the queue is as the user wants it.
LEMMA SyncEndsKeeps == TrailInv /\ SyncEnds => TrailInv'
<1> SUFFICES ASSUME TrailInv, SyncEnds
             PROVE  TrailInv'
  OBVIOUS
<1>0. TrailTyped /\ ServerHolds /\ GateHolds /\ CallHolds /\ SyncHolds /\ ShownHolds /\ WayHolds
  BY DEF TrailInv
<1>1. moves # <<>> /\ sync.pc = "bound" /\ MoveEnds /\ UNCHANGED <<saved, bound, tui, gate, op, home>>
  BY DEF SyncEnds, At
<1>2. PICK ok \in {x \in BOOLEAN : x \/ left.errors > 0} :
        /\ left' = IF ok THEN left ELSE [left EXCEPT !.errors = left.errors - 1]
        /\ server' = IF ok /\ IsCurrent THEN [server EXCEPT !.loaded = server.loaded \cup {Move.thread}] ELSE server
        /\ queue' = [queue EXCEPT !.rolls = queue.rolls \/ RollsAgain(ok)]
  BY DEF SyncEnds
<1>3. /\ Move = moves[1] /\ Move.thread \in Threads /\ IsCurrent /\ op.pc = "none" /\ bound.state = "ready"
      /\ server.mgr # 0
  BY <1>1, Following DEF MoveState
<1>4. left' \in LoadState /\ left'.calm = left.calm
  <2>1. left \in LoadState
    BY <1>0 DEF TrailTyped
  <2>2. CASE ok
    BY <1>2, <2>1, <2>2
  <2>3. CASE ~ ok
    <3>1. left.errors \in Nat /\ left.errors > 0
      BY <2>1, <2>3 DEF LoadState
    <3>2. left' = [left EXCEPT !.errors = left.errors - 1] /\ left.errors - 1 \in Nat
      BY <1>2, <2>3, <3>1
    <3> QED  BY <2>1, <3>2 DEF LoadState
  <2> QED  BY <2>2, <2>3
<1>5. server' \in ServerState /\ server'.mgr = server.mgr /\ server'.bridge = server.bridge
  BY <1>0, <1>2, <1>3 DEF TrailTyped, ServerState
<1>6. queue' \in [rolls : BOOLEAN, meant : BOOLEAN] /\ (queue'.meant => queue'.rolls)
  <2>1. RollsAgain(ok) = sync.resumes /\ sync.resumes \in BOOLEAN
    BY <1>0, <1>3 DEF RollsAgain, TrailTyped, SyncState
  <2>2. queue.meant => queue.rolls \/ sync.resumes
    BY <1>0, <1>1 DEF SyncHolds
  <2> QED  BY <1>0, <1>2, <2>1, <2>2 DEF TrailTyped
<1>7. bound.thread = Move.thread
  BY <1>0, <1>1, <1>3 DEF SyncHolds
<1>8. TrailInv'
  BY <1>1, <1>3, <1>4, <1>5, <1>6, <1>7, EndsKeeps
<1> QED  BY <1>4, <1>8

\* A tab is opened or reopened while nothing is followed, and the call waits.
LEMMA CalledKeeps == TrailInv /\ left.calm /\ (CallsNew \/ CallsSaved \/ CallsReopen) => TrailInv'
<1> SUFFICES ASSUME TrailInv, left.calm, CallsNew \/ CallsSaved \/ CallsReopen
             PROVE  TrailInv'
  OBVIOUS
<1>0. TrailTyped /\ ServerHolds /\ GateHolds /\ CallHolds /\ SyncHolds /\ ShownHolds /\ WayHolds
  BY DEF TrailInv
<1>1. left' \in LoadState /\ left'.calm = left.calm
  <2>1. Needs("opens") \/ Needs("saved") \/ Needs("reopens")
    BY DEF CallsNew, CallsSaved, CallsReopen
  <2> QED  BY <1>0, <2>1, NeedsTyped DEF TrailTyped
<1>2. PICK k \in {"new", "saved", "reopen"}, t \in saved \cup {NoThread} : (k = "saved" => t \in saved) /\ Called(k, t)
  BY DEF CallsNew, CallsSaved, CallsReopen
<1>3. /\ op.pc = "none" /\ moves = <<>> /\ tui.asks = {} /\ ~ Draining
      /\ op' = [pc |-> "wait", kind |-> k, thread |-> t, upto |-> LastMove, was |-> bound]
      /\ UNCHANGED <<saved, bound, server, tui, gate, moves, sync, queue, home>>
  BY <1>2 DEF Called, Steady, Still
<1>4. LastMove \in Nat
  BY <1>0, LenProperties DEF LastMove, TrailTyped, SyncState
<1>5. t \in Maybe
  BY <1>0, ThreadsAssumption DEF TrailTyped, Threads, Maybe, NoThread
<1>6. op' \in CallState /\ op'.pc = "wait" /\ op'.kind = k /\ op'.thread = t
  BY <1>0, <1>3, <1>4, <1>5 DEF CallState, TrailTyped
<1>7. sync.pc = "none"
  BY <1>0, <1>3 DEF SyncHolds
<1>8. gate.state \notin {"waiting", "binding"} /\ (gate.queued = <<>> \/ gate.state = "failed")
  BY <1>0, <1>3 DEF GateHolds, Draining, TrailTyped, GateState
<1>9. TrailTyped' /\ ServerHolds'
  BY <1>0, <1>1, <1>3, <1>6 DEF TrailTyped, ServerHolds
<1>10. GateHolds'
  BY <1>0, <1>3, <1>6, <1>8 DEF GateHolds
<1>11. CallHolds'
  BY <1>2, <1>3, <1>6, <1>7, <1>8 DEF CallHolds
<1>12. SyncHolds'
  BY <1>0, <1>3 DEF SyncHolds, Frozen
<1>13. ShownHolds' /\ WayHolds'
  BY <1>0, <1>3, <1>6, <1>8 DEF ShownHolds, WayHolds, LeadsTo
<1> QED  BY <1>1, <1>9, <1>10, <1>11, <1>12, <1>13 DEF TrailInv

\* What is stopped.
LEMMA HaltedTyped ==
    ASSUME server \in ServerState
    PROVE  /\ Halted(server) \in ServerState /\ Halted(server).mgr = 0 /\ Halted(server).loaded = {}
           /\ Halted(server).bridge = "closed" /\ Halted(server).count = server.count
BY DEF ServerState, Halted

LEMMA NothingTyped ==
    /\ NoTui \in TuiState /\ NoTui.shown = NoThread /\ NoTui.asks = {}
    /\ NoGate \in GateState /\ NoGate.state = "off" /\ NoGate.queued = <<>>
    /\ NoCall \in CallState /\ NoCall.pc = "none" /\ NoCall.kind = "none"
    /\ NoSync \in SyncState /\ NoSync.pc = "none"
<1>1. 0 \in Maybe /\ NoThread = 0
  BY ThreadsAssumption DEF Maybe, NoThread
<1>2. NoTui \in TuiState /\ NoTui.shown = NoThread /\ NoTui.asks = {}
  BY <1>1 DEF NoTui, TuiState
<1>3. NoGate \in GateState /\ NoGate.state = "off" /\ NoGate.queued = <<>>
  BY <1>1, EmptySeq DEF NoGate, GateState
<1>4. NoBound \in BoundState
  BY <1>1 DEF NoBound, BoundState
<1>5. NoCall \in CallState /\ NoCall.pc = "none" /\ NoCall.kind = "none"
  BY <1>1, <1>4 DEF NoCall, CallState
<1>6. NoSync \in SyncState /\ NoSync.pc = "none"
  BY <1>1, <1>4 DEF NoSync, SyncState
<1> QED  BY <1>2, <1>3, <1>5, <1>6

\* What runs is stopped.
LEMMA BeginsKeeps == TrailInv /\ CallBegins => TrailInv'
<1> SUFFICES ASSUME TrailInv, CallBegins
             PROVE  TrailInv'
  OBVIOUS
<1>0. TrailTyped /\ ServerHolds /\ GateHolds /\ CallHolds /\ SyncHolds /\ ShownHolds /\ WayHolds
  BY DEF TrailInv
<1>1. /\ op.pc = "wait" /\ server' = Halted(server) /\ tui' = NoTui /\ gate' = NoGate
      /\ bound' = [bound EXCEPT !.state = "connecting"]
      /\ op' = [op EXCEPT !.pc = "begun", !.was = IF op.kind = "reopen" THEN bound ELSE op.was]
      /\ UNCHANGED <<saved, moves, sync, queue, home, left>>
  BY DEF CallBegins
<1>2. server \in ServerState
  BY <1>0 DEF TrailTyped
<1>3. /\ bound' \in BoundState /\ bound'.state = "connecting" /\ bound'.thread = bound.thread /\ bound'.last = bound.last
      /\ bound'.from = bound.from
  BY <1>0, <1>1 DEF TrailTyped, BoundState
<1>4. /\ op' \in CallState /\ op'.pc = "begun" /\ op'.kind = op.kind /\ op'.thread = op.thread
      /\ op.kind = "reopen" => op'.was = bound
  BY <1>0, <1>1 DEF TrailTyped, CallState
<1>5. /\ moves = <<>> /\ sync.pc = "none" /\ op.kind # "none" /\ (op.kind = "saved" => op.thread \in saved)
  BY <1>0, <1>1 DEF CallHolds
<1>6. TrailTyped'
  BY <1>0, <1>1, <1>2, <1>3, <1>4, HaltedTyped, NothingTyped DEF TrailTyped
<1>7. ServerHolds' /\ GateHolds'
  BY <1>1, <1>2, <1>4, HaltedTyped, NothingTyped DEF ServerHolds, GateHolds
<1>8. CallHolds'
  BY <1>1, <1>2, <1>3, <1>4, <1>5, HaltedTyped, NothingTyped DEF CallHolds
<1>9. SyncHolds'
  BY <1>0, <1>1, <1>5 DEF SyncHolds, Frozen
<1>10. ShownHolds' /\ WayHolds'
  BY <1>0, <1>1, <1>3, <1>4, NothingTyped DEF ShownHolds, WayHolds, LeadsTo
<1> QED  BY <1>6, <1>7, <1>8, <1>9, <1>10 DEF TrailInv

\* The terminal is launched, on its first thread or on the one the tab can come back to.
LEMMA LaunchesKeeps == TrailInv /\ CallLaunches => TrailInv'
<1> SUFFICES ASSUME TrailInv, CallLaunches
             PROVE  TrailInv'
  OBVIOUS
<1>0. TrailTyped /\ ServerHolds /\ GateHolds /\ CallHolds /\ SyncHolds /\ ShownHolds /\ WayHolds
  BY DEF TrailInv
<1>1. op.pc = "begun" /\ UNCHANGED <<saved, moves, sync, queue, left>>
  BY DEF CallLaunches
<1>2. /\ server.mgr = 0 /\ server.loaded = {} /\ moves = <<>> /\ sync.pc = "none" /\ op.kind # "none" /\ bound.state = "connecting"
      /\ op.kind = "saved" => op.thread \in saved
      /\ op.kind = "reopen" => op.was.thread = bound.thread
  BY <1>0, <1>1 DEF CallHolds, ServerHolds
<1> DEFINE t == IF op.kind = "reopen" THEN Resumed(op.was) ELSE op.thread
<1>3. op' = [op EXCEPT !.pc = "launched", !.thread = t]
  BY DEF CallLaunches
<1>4. NoThread \notin saved /\ saved \subseteq Maybe
  BY <1>0 DEF TrailTyped, Threads, Maybe, NoThread
<1>5. t \in Maybe /\ (op.kind = "reopen" => t \in saved \cup {NoThread}) /\ (op.kind = "saved" => t \in saved)
  <2>1. Resumed(op.was) \in saved \cup {NoThread}
    BY FirstOfThree DEF Resumed
  <2>2. op.thread \in Maybe /\ NoThread \in Maybe
    BY <1>0, ThreadsAssumption DEF TrailTyped, CallState, Maybe, NoThread
  <2> QED  BY <1>2, <1>4, <2>1, <2>2
<1> HIDE DEF t
<1>6. op' \in CallState /\ op'.pc = "launched" /\ op'.kind = op.kind /\ op'.thread = t /\ op'.was = op.was
  BY <1>0, <1>3, <1>5 DEF TrailTyped, CallState
<1>7. \/ /\ op.kind = "new" /\ bound' = bound
         /\ Launched([id |-> 0, method |-> "thread/start", thread |-> NoThread], [NoGate EXCEPT !.state = "waiting"])
      \/ /\ op.kind # "new" /\ t # NoThread
         /\ Launched([id |-> 0, method |-> "thread/resume", thread |-> t], NoGate)
         /\ bound' = IF op.kind = "saved" THEN bound
                     ELSE IF t = op.was.thread THEN [bound EXCEPT !.last = t]
                     ELSE [bound EXCEPT !.thread = t, !.last = t, !.from = NoThread]
  BY <1>6 DEF CallLaunches
<1>8. home' = IF op.kind = "reopen" THEN Home(bound', saved) ELSE home
  BY DEF CallLaunches
<1>9. /\ server' \in ServerState /\ server'.mgr # 0 /\ server'.loaded = {} /\ server'.bridge = "connecting"
  <2>1. server' = [server EXCEPT !.mgr = server.count + 1, !.count = server.count + 1, !.bridge = "connecting"]
    BY <1>7 DEF Launched
  <2>2. server \in ServerState
    BY <1>0 DEF TrailTyped
  <2> DEFINE n == server.count + 1
  <2>3. n \in Nat /\ n # 0
    BY <2>2 DEF ServerState
  <2> HIDE DEF n
  <2>4. server' = [server EXCEPT !.mgr = n, !.count = n, !.bridge = "connecting"]
    BY <2>1 DEF n
  <2> QED  BY <1>2, <2>2, <2>3, <2>4 DEF ServerState
<1>10. /\ tui' \in TuiState /\ tui'.shown = NoThread
       /\ op.kind = "new" => tui'.asks = {[id |-> 0, method |-> "thread/start", thread |-> NoThread]}
       /\ op.kind # "new" => tui'.asks = {[id |-> 0, method |-> "thread/resume", thread |-> t]} /\ t # NoThread
  <2>1. NoThread \in Maybe
    BY ThreadsAssumption DEF Maybe, NoThread
  <2>2. /\ [id |-> 0, method |-> "thread/start", thread |-> NoThread] \in AskState
        /\ [id |-> 0, method |-> "thread/resume", thread |-> t] \in AskState
    BY <1>5, <2>1 DEF AskState
  <2> HIDE DEF AskState
  <2> QED  BY <1>7, <2>1, <2>2 DEF Launched, NoTui, TuiState
<1>11. /\ gate' \in GateState /\ gate'.queued = <<>>
       /\ op.kind = "new" => gate'.state = "waiting"
       /\ op.kind # "new" => gate'.state = "off"
  BY <1>7, NothingTyped DEF Launched, GateState
<1>12. /\ bound' \in BoundState /\ bound'.state = "connecting" /\ bound'.last \in saved \cup {NoThread}
       /\ op.kind = "reopen" => bound'.thread = t /\ t \in saved
       /\ op.kind # "reopen" => bound' = bound
  <2>1. NoThread \in Maybe /\ bound \in BoundState /\ bound.last \in saved \cup {NoThread}
    BY <1>0, ThreadsAssumption DEF Maybe, NoThread, TrailTyped
  <2>2. CASE op.kind # "reopen"
    BY <1>2, <1>7, <2>1, <2>2, <1>6, <1>0 DEF TrailTyped, CallState
  <2>3. CASE op.kind = "reopen"
    <3>1. t \in saved
      BY <1>5, <1>7, <2>3
    <3>2. \/ t = op.was.thread /\ bound' = [bound EXCEPT !.last = t]
          \/ bound' = [bound EXCEPT !.thread = t, !.last = t, !.from = NoThread]
      BY <1>7, <2>3
    <3> QED  BY <1>2, <1>5, <2>1, <2>3, <3>1, <3>2 DEF BoundState
  <2> QED  BY <2>2, <2>3
<1>13. home' \in saved \cup {NoThread}
  BY <1>0, <1>8, <1>12 DEF Home, TrailTyped
<1>14. TrailTyped'
  BY <1>0, <1>1, <1>6, <1>9, <1>10, <1>11, <1>12, <1>13 DEF TrailTyped
<1>15. ServerHolds'
  <2>1. \A i \in 1..Len(moves) : moves[i].mgr = server'.mgr
    BY <1>2
  <2>2. \A a \in tui'.asks : a.method = "thread/resume" => a.thread # NoThread
    BY <1>10
  <2> QED  BY <1>1, <1>6, <1>9, <2>1, <2>2 DEF ServerHolds
<1>16. GateHolds'
  BY <1>6, <1>9, <1>10, <1>11 DEF GateHolds
<1>17. CallHolds'
  BY <1>1, <1>2, <1>5, <1>6, <1>9, <1>10, <1>11, <1>12 DEF CallHolds, FirstAsk
<1>18. SyncHolds'
  BY <1>0, <1>1, <1>2 DEF SyncHolds, Frozen
<1>19. ShownHolds'
  BY <1>6, <1>11 DEF ShownHolds
<1>20. WayHolds'
  BY <1>0, <1>1, <1>8, <1>12 DEF WayHolds, LeadsTo, Home
<1> QED  BY <1>14, <1>15, <1>16, <1>17, <1>18, <1>19, <1>20 DEF TrailInv

\* The tab of a conversation that has begun leads back to it once it has a rollout.
LEMMA BegunTyped ==
    ASSUME saved \subseteq Threads, NEW t \in Maybe
    PROVE  /\ Begun(t) \in BoundState /\ Begun(t).state = "ready" /\ Begun(t).thread = t
           /\ Begun(t).last \in saved \cup {NoThread}
           /\ LeadsTo(Begun(t)) = IF t \in saved THEN t ELSE NoThread
<1>1. NoThread \in Maybe /\ NoThread \notin saved
  BY ThreadsAssumption DEF Threads, Maybe, NoThread
<1> QED  BY <1>1 DEF Begun, BoundState, LeadsTo

\* The terminal has its thread, and the tab is ready.
LEMMA ReadiesKeeps == TrailInv /\ CallReadies => TrailInv'
<1> SUFFICES ASSUME TrailInv, CallReadies
             PROVE  TrailInv'
  OBVIOUS
<1>0. TrailTyped /\ ServerHolds /\ GateHolds /\ CallHolds /\ SyncHolds /\ ShownHolds /\ WayHolds
  BY DEF TrailInv
<1>1. op.pc = "launched" /\ UNCHANGED <<saved, server, tui, gate, moves, sync, queue, left>>
  BY DEF CallReadies
<1>2. server.mgr # 0 /\ sync.pc = "none" /\ (op.kind = "new" => moves = <<>>)
  BY <1>0, <1>1 DEF CallHolds
<1>3. SyncHolds'
  BY <1>0, <1>1, <1>2 DEF SyncHolds, Frozen
\* A new conversation: what the terminal selects meanwhile is held back.
<1>4. CASE op.kind = "new"
  <2>1. /\ gate.state = "binding" /\ op' = [op EXCEPT !.pc = "active"] /\ bound' = Begun(gate.first)
        /\ home' = IF gate.first \in saved THEN gate.first ELSE NoThread
    BY <1>4 DEF CallReadies
  <2>2. op' \in CallState /\ op'.pc = "active" /\ op'.kind = "new"
    BY <1>0, <1>4, <2>1 DEF TrailTyped, CallState
  <2>3. gate.first \in Maybe /\ saved \subseteq Threads
    BY <1>0 DEF TrailTyped, GateState
  <2>4. /\ bound' \in BoundState /\ bound'.state = "ready" /\ bound'.thread = gate.first
        /\ bound'.last \in saved \cup {NoThread}
    BY <2>1, <2>3, BegunTyped
  <2>5. TrailTyped'
    BY <1>0, <1>1, <2>1, <2>2, <2>4 DEF TrailTyped
  <2>6. ServerHolds' /\ GateHolds'
    BY <1>0, <1>1, <2>1, <2>2, <2>4 DEF ServerHolds, GateHolds
  <2>7. CallHolds'
    BY <1>1, <1>2, <1>4, <2>2 DEF CallHolds
  <2>8. ShownHolds'
    BY <1>0, <1>1, <2>2 DEF ShownHolds, LastSelected
  <2>9. WayHolds'
    <3>1. LeadsTo(bound') = IF gate.first \in saved THEN gate.first ELSE NoThread
      BY <2>1, <2>3, BegunTyped
    <3> QED  BY <1>1, <2>1, <3>1 DEF WayHolds, LeadsTo
  <2> QED  BY <1>3, <2>5, <2>6, <2>7, <2>8, <2>9 DEF TrailInv
\* A saved one, or the one the tab comes back to: the terminal shows it.
<1>5. CASE op.kind # "new"
  <2>1. /\ gate.state = "off" /\ gate.queued = <<>> /\ op.thread # NoThread
        /\ op.kind = "reopen" => bound.thread = op.thread
        /\ op.kind = "saved" => op.thread \in saved
    BY <1>0, <1>1, <1>5 DEF CallHolds, GateHolds
  <2>2. op.thread \in server.loaded /\ op' = NoCall
    BY <1>5 DEF CallReadies
  <2>3. /\ tui.shown = op.thread /\ tui.asks = {}
        /\ \A i \in 1..Len(moves) : moves[i].thread = op.thread
    BY <1>0, <1>1, <1>5, <2>2 DEF CallHolds
  <2>4. op.thread \in Maybe /\ saved \subseteq Threads /\ bound \in BoundState /\ home \in saved \cup {NoThread}
    BY <1>0 DEF TrailTyped, CallState
  <2>5. /\ bound' \in BoundState /\ bound'.state = "ready" /\ bound'.thread = op.thread
        /\ bound'.last \in saved \cup {NoThread} /\ home' \in saved \cup {NoThread}
        /\ home' # NoThread => LeadsTo(bound') = home'
    <3>1. CASE op.kind = "saved"
      <4>1. bound' = Begun(op.thread) /\ home' = op.thread
        BY <3>1 DEF CallReadies
      <4> QED  BY <2>1, <2>4, <3>1, <4>1, BegunTyped
    <3>2. CASE op.kind # "saved"
      <4>1. op.kind = "reopen" /\ bound' = [bound EXCEPT !.state = "ready"] /\ home' = home
        BY <1>5, <3>2 DEF CallReadies
      <4>2. bound.last \in saved \cup {NoThread} /\ (home # NoThread => LeadsTo(bound) = home)
        BY <1>0 DEF TrailTyped, WayHolds
      <4>3. /\ bound' \in BoundState /\ bound'.state = "ready" /\ bound'.thread = bound.thread
            /\ bound'.last = bound.last /\ bound'.from = bound.from
        BY <2>4, <4>1 DEF BoundState
      <4> QED  BY <2>1, <2>4, <4>1, <4>2, <4>3 DEF LeadsTo
    <3> QED  BY <3>1, <3>2
  <2>6. TrailTyped'
    BY <1>0, <1>1, <2>2, <2>5, NothingTyped DEF TrailTyped
  <2>7. ServerHolds' /\ GateHolds'
    BY <1>0, <1>1, <2>1, <2>2, <2>5, NothingTyped DEF ServerHolds, GateHolds
  <2>8. CallHolds'
    BY <2>2, NothingTyped DEF CallHolds
  <2>9. ShownHolds'
    <3>1. LastSelected(op.thread) = op.thread
      <4>1. moves # <<>> => Len(moves) \in 1..Len(moves)
        <5>1. moves \in Seq(MoveState)
          BY <1>0 DEF TrailTyped
        <5>2. moves # <<>> => Len(moves) \in Nat \ {0}
          BY <5>1, EmptySeq, LenProperties
        <5> QED  BY <5>2
      <4> QED  BY <2>1, <2>3, <4>1 DEF LastSelected
    <3> QED  BY <1>1, <2>1, <2>3, <2>5, <3>1 DEF ShownHolds, LastSelected
  <2>10. WayHolds'
    BY <1>1, <2>5 DEF WayHolds, LeadsTo
  <2> QED  BY <1>3, <2>6, <2>7, <2>8, <2>9, <2>10 DEF TrailInv
<1> QED  BY <1>4, <1>5

\* What was held back is let through.
LEMMA ActivatesKeeps == TrailInv /\ GateActivates => TrailInv'
<1> SUFFICES ASSUME TrailInv, GateActivates
             PROVE  TrailInv'
  OBVIOUS
<1>0. TrailTyped /\ ServerHolds /\ GateHolds /\ CallHolds /\ SyncHolds /\ ShownHolds /\ WayHolds
  BY DEF TrailInv
<1>1. /\ op.pc = "active" /\ gate.state = "binding" /\ op' = NoCall
      /\ gate' = [gate EXCEPT !.state = "active", !.queued = IF gate.queued = <<>> THEN gate.queued ELSE Tail(gate.queued)]
      /\ moves' = IF gate.queued = <<>> THEN moves ELSE Selects(Head(gate.queued), TRUE)
      /\ UNCHANGED <<saved, bound, server, tui, sync, queue, home, left>>
  BY DEF GateActivates
<1>2. /\ server.mgr # 0 /\ sync.pc = "none" /\ moves = <<>>
      /\ gate.first # NoThread /\ bound.state = "ready" /\ bound.thread = gate.first
  BY <1>0, <1>1 DEF CallHolds, GateHolds
<1>3. tui.shown = LastSelected(gate.first)
  BY <1>0, <1>1 DEF ShownHolds
<1> DEFINE q == IF gate.queued = <<>> THEN gate.queued ELSE Tail(gate.queued)
<1>4. /\ gate \in GateState /\ gate.queued \in Seq(Threads) /\ moves \in Seq(MoveState) /\ server.mgr \in Nat \ {0}
  BY <1>0, <1>2 DEF TrailTyped, GateState, ServerState
<1>5. /\ q \in Seq(Threads)
      /\ gate.queued # <<>> =>
           /\ Head(gate.queued) \in Threads /\ Head(gate.queued) = gate.queued[1]
           /\ q = <<>> => Len(gate.queued) = 1
           /\ q # <<>> => q[Len(q)] = gate.queued[Len(gate.queued)]
  <2>1. CASE gate.queued = <<>>
    BY <1>4, <2>1
  <2>2. CASE gate.queued # <<>>
    <3>1. q = Tail(gate.queued)
      BY <2>2
    <3> HIDE DEF q
    <3> QED  BY <1>4, <2>2, <3>1, Shrinks
  <2> QED  BY <2>1, <2>2
<1>6. gate' = [gate EXCEPT !.state = "active", !.queued = q] /\ (gate.queued = <<>> => q = <<>>)
  BY <1>1
<1> HIDE DEF q
<1>7. gate' \in GateState /\ gate'.state = "active" /\ gate'.queued = q
  BY <1>4, <1>5, <1>6 DEF GateState
<1>8. /\ moves' \in Seq(MoveState)
      /\ gate.queued = <<>> => moves' = <<>>
      /\ gate.queued # <<>> => moves' # <<>> /\ Len(moves') = Len(moves) + 1 /\ moves'[Len(moves')].thread = gate.queued[1]
      /\ \A i \in 1..Len(moves') : moves'[i].mgr = server.mgr
  <2>1. CASE gate.queued = <<>>
    BY <1>1, <1>2, <1>4, <2>1
  <2>2. CASE gate.queued # <<>>
    <3>1. /\ moves' = Selects(Head(gate.queued), TRUE) /\ Head(gate.queued) \in Threads /\ TRUE \in BOOLEAN
          /\ \A i \in 1..Len(moves) : moves[i].mgr = server.mgr
      BY <1>1, <1>2, <1>5, <2>2
    <3> QED  BY <1>4, <1>5, <2>2, <3>1, Grows
  <2> QED  BY <2>1, <2>2
<1>9. TrailTyped'
  BY <1>0, <1>1, <1>7, <1>8, NothingTyped DEF TrailTyped
<1>10. ServerHolds' /\ GateHolds'
  BY <1>0, <1>1, <1>2, <1>7, <1>8, NothingTyped DEF ServerHolds, GateHolds
<1>11. CallHolds'
  BY <1>1, NothingTyped DEF CallHolds
<1>12. SyncHolds'
  BY <1>0, <1>1, <1>2 DEF SyncHolds, Frozen
<1>13. ShownHolds'
  <2>1. CASE gate.queued = <<>>
    BY <1>1, <1>2, <1>3, <1>6, <1>7, <1>8, <2>1 DEF ShownHolds, LastSelected
  <2>2. CASE gate.queued # <<>> /\ q = <<>>
    BY <1>1, <1>3, <1>5, <1>7, <1>8, <2>2 DEF ShownHolds, LastSelected
  <2>3. CASE gate.queued # <<>> /\ q # <<>>
    BY <1>1, <1>3, <1>5, <1>7, <2>3 DEF ShownHolds, LastSelected
  <2> QED  BY <2>1, <2>2, <2>3
<1>14. WayHolds'
  BY <1>0, <1>1 DEF WayHolds, LeadsTo
<1> QED  BY <1>9, <1>10, <1>11, <1>12, <1>13, <1>14 DEF TrailInv

\* There is nothing to resume, or the terminal never came that far: what was launched is stopped.
LEMMA FailsKeeps == TrailInv /\ CallFails => TrailInv'
<1> SUFFICES ASSUME TrailInv, CallFails
             PROVE  TrailInv'
  OBVIOUS
<1>0. TrailTyped /\ ServerHolds /\ GateHolds /\ CallHolds /\ SyncHolds /\ ShownHolds /\ WayHolds
  BY DEF TrailInv
<1>1. /\ op.pc \in {"begun", "launched", "active"} /\ Hopeless /\ op' = NoCall /\ server' = Halted(server) /\ tui' = NoTui
      /\ bound' = [bound EXCEPT !.state = IF op.kind = "reopen" \/ op.was.state = "closed" THEN "closed" ELSE "error"]
      /\ UNCHANGED <<saved, gate, moves, sync, queue, home, left>>
  BY DEF CallFails, Hopeless
<1>2. gate.state \in {"off", "failed"}
  <2>1. op.pc = "begun" => gate.state = "off"
    BY <1>0, NothingTyped DEF CallHolds
  <2>2. gate.state # "active"
    BY <1>0, <1>1 DEF GateHolds
  <2>3. op.pc = "launched" => gate.state = "failed" \/ gate.state \notin {"waiting", "binding"}
    BY <1>0, <1>1 DEF Hopeless, GateHolds
  <2>4. op.pc = "active" => gate.state = "failed"
    BY <1>1 DEF Hopeless
  <2>5. gate.state \in {"off", "waiting", "binding", "active", "failed"}
    BY <1>0 DEF TrailTyped, GateState
  <2> QED  BY <1>1, <2>1, <2>2, <2>3, <2>4, <2>5
<1>3. server \in ServerState /\ bound \in BoundState
  BY <1>0 DEF TrailTyped
<1>4. bound' \in BoundState /\ bound'.thread = bound.thread /\ bound'.last = bound.last /\ bound'.from = bound.from
  BY <1>1, <1>3 DEF BoundState
<1>5. sync.pc = "none"
  BY <1>0, <1>1 DEF CallHolds
<1>6. TrailTyped'
  BY <1>0, <1>1, <1>3, <1>4, HaltedTyped, NothingTyped DEF TrailTyped
<1>7. ServerHolds'
  BY <1>1, <1>3, HaltedTyped, NothingTyped DEF ServerHolds
<1>8. GateHolds'
  BY <1>0, <1>1, <1>2, <1>3, HaltedTyped, NothingTyped DEF GateHolds
<1>9. CallHolds'
  BY <1>1, NothingTyped DEF CallHolds
<1>10. SyncHolds'
  BY <1>0, <1>1, <1>5 DEF SyncHolds, Frozen
<1>11. ShownHolds'
  BY <1>1, <1>2, <1>3, HaltedTyped DEF ShownHolds
<1>12. WayHolds'
  BY <1>0, <1>1, <1>4 DEF WayHolds, LeadsTo
<1> QED  BY <1>6, <1>7, <1>8, <1>9, <1>10, <1>11, <1>12 DEF TrailInv

\* A prompt gives its thread a rollout: the tab is on it, or follows nothing.
LEMMA PromptsKeeps == TrailInv /\ left.calm /\ (TuiTypes \/ QueueSends) => TrailInv'
<1> SUFFICES ASSUME TrailInv, left.calm, TuiTypes \/ QueueSends
             PROVE  TrailInv'
  OBVIOUS
<1>0. TrailTyped /\ ServerHolds /\ GateHolds /\ CallHolds /\ SyncHolds /\ ShownHolds /\ WayHolds
  BY DEF TrailInv
<1>1. left' \in LoadState
  <2>1. Needs("prompts")
    BY DEF TuiTypes, QueueSends
  <2> QED  BY <1>0, <2>1, NeedsTyped DEF TrailTyped
<1>2. PICK t \in server.loaded : Prompted(t) /\ (moves = <<>> \/ (t = bound.thread /\ queue.rolls))
  BY DEF TuiTypes, QueueSends, Still
<1>3. /\ saved' = saved \cup {t} /\ home' = IF bound.thread \in saved \cup {t} THEN bound.thread ELSE home
      /\ UNCHANGED <<bound, server, tui, gate, moves, sync, op, queue>>
  BY <1>2 DEF Prompted, Home
<1>4. t \in Threads /\ NoThread \notin saved' /\ bound.last \in saved \cup {NoThread} /\ home \in saved \cup {NoThread}
  BY <1>0, <1>3 DEF TrailTyped, ServerState, Threads, NoThread
<1>5. sync.pc \notin {"frozen", "probed", "bound"} /\ (sync.pc = "read" => t = bound.thread)
  BY <1>0, <1>2 DEF SyncHolds, Frozen
<1>6. TrailTyped'
  BY <1>0, <1>1, <1>3, <1>4 DEF TrailTyped
<1>7. ServerHolds' /\ GateHolds'
  BY <1>0, <1>3 DEF ServerHolds, GateHolds
<1>8. CallHolds'
  BY <1>0, <1>3 DEF CallHolds, FirstAsk
<1>9. SyncHolds'
  BY <1>0, <1>3, <1>5 DEF SyncHolds, Frozen
<1>10. ShownHolds'
  BY <1>0, <1>3 DEF ShownHolds, LastSelected
<1>11. WayHolds'
  <2>1. CASE bound.thread \in saved'
    BY <1>3, <2>1 DEF WayHolds, LeadsTo
  <2>2. CASE bound.thread \notin saved' /\ home # NoThread
    <3>1. home' = home /\ home \in saved /\ LeadsTo(bound) = home /\ bound.thread \notin saved
      BY <1>0, <1>3, <1>4, <2>2 DEF WayHolds
    <3>2. CASE bound.last \in saved
      BY <1>3, <2>2, <3>1, <3>2 DEF WayHolds, LeadsTo
    <3>3. CASE bound.last \notin saved
      BY <1>3, <1>4, <2>2, <3>1, <3>3 DEF WayHolds, LeadsTo
    <3> QED  BY <3>2, <3>3
  <2>3. CASE bound.thread \notin saved' /\ home = NoThread
    BY <1>3, <2>3 DEF WayHolds
  <2> QED  BY <2>1, <2>2, <2>3
<1> QED  BY <1>6, <1>7, <1>8, <1>9, <1>10, <1>11 DEF TrailInv

\* The user's buttons.
LEMMA ButtonsKeep == TrailInv /\ left.calm /\ (QueueStarts \/ QueuePauses) => TrailInv'
<1> SUFFICES ASSUME TrailInv, left.calm, QueueStarts \/ QueuePauses
             PROVE  TrailInv'
  OBVIOUS
<1>0. TrailTyped /\ ServerHolds /\ GateHolds /\ CallHolds /\ SyncHolds /\ ShownHolds /\ WayHolds
  BY DEF TrailInv
<1>1. left' \in LoadState
  <2>1. Needs("starts") \/ Needs("pauses")
    BY DEF QueueStarts, QueuePauses
  <2> QED  BY <1>0, <2>1, NeedsTyped DEF TrailTyped
<1>2. /\ moves = <<>> /\ queue' \in [rolls : BOOLEAN, meant : BOOLEAN] /\ (queue'.rolls \/ ~ queue'.meant)
      /\ UNCHANGED <<saved, bound, server, tui, gate, moves, sync, op, home>>
  <2>1. \/ queue' = [rolls |-> TRUE, meant |-> TRUE]
        \/ queue' = [rolls |-> FALSE, meant |-> FALSE]
    BY DEF QueueStarts, QueuePauses
  <2>2. moves = <<>> /\ UNCHANGED <<saved, bound, server, tui, gate, moves, sync, op, home>>
    BY DEF QueueStarts, QueuePauses, Still
  <2>3. queue' \in [rolls : BOOLEAN, meant : BOOLEAN] /\ (queue'.rolls \/ ~ queue'.meant)
    <3>1. CASE queue' = [rolls |-> TRUE, meant |-> TRUE]
      <4>1. queue' \in [rolls : BOOLEAN, meant : BOOLEAN]
        BY <3>1
      <4>2. queue'.rolls
        BY <3>1
      <4> QED  BY <4>1, <4>2
    <3>2. CASE queue' = [rolls |-> FALSE, meant |-> FALSE]
      <4>1. queue' \in [rolls : BOOLEAN, meant : BOOLEAN]
        BY <3>2
      <4>2. ~ queue'.meant
        BY <3>2
      <4> QED  BY <4>1, <4>2
    <3> QED  BY <2>1, <3>1, <3>2
  <2> QED  BY <2>2, <2>3
<1>3. sync.pc = "none"
  BY <1>0, <1>2 DEF SyncHolds
<1>4. TrailTyped' /\ ServerHolds' /\ GateHolds'
  BY <1>0, <1>1, <1>2 DEF TrailTyped, ServerHolds, GateHolds
<1>5. CallHolds'
  BY <1>0, <1>2 DEF CallHolds, FirstAsk
<1>6. SyncHolds'
  BY <1>2, <1>3 DEF SyncHolds, Frozen
<1>7. ShownHolds' /\ WayHolds'
  BY <1>0, <1>2 DEF ShownHolds, LastSelected, WayHolds, LeadsTo
<1> QED  BY <1>4, <1>5, <1>6, <1>7 DEF TrailInv

\* The server starts again: what the tab remembers is on disk.
LEMMA RestartsKeeps == TrailInv /\ Restarts => TrailInv'
<1> SUFFICES ASSUME TrailInv, Restarts
             PROVE  TrailInv'
  OBVIOUS
<1>0. TrailTyped /\ ServerHolds /\ GateHolds /\ CallHolds /\ SyncHolds /\ ShownHolds /\ WayHolds
  BY DEF TrailInv
<1>1. /\ server' = Halted(server) /\ tui' = NoTui /\ gate' = NoGate /\ moves' = <<>> /\ sync' = NoSync /\ op' = NoCall
      /\ queue' = [rolls |-> FALSE, meant |-> FALSE]
      /\ bound' = [bound EXCEPT !.state = IF bound.state = "none" THEN bound.state ELSE "closed"]
      /\ UNCHANGED <<saved, home>> /\ Needs("restarts")
  BY DEF Restarts
<1>2. left' \in LoadState
  BY <1>0, <1>1, NeedsTyped DEF TrailTyped
<1>3. server \in ServerState /\ bound \in BoundState /\ moves' \in Seq(MoveState)
  BY <1>0, <1>1, EmptySeq DEF TrailTyped
<1>4. bound' \in BoundState /\ bound'.thread = bound.thread /\ bound'.last = bound.last /\ bound'.from = bound.from
  BY <1>1, <1>3 DEF BoundState
<1>5. TrailTyped'
  BY <1>0, <1>1, <1>2, <1>3, <1>4, HaltedTyped, NothingTyped DEF TrailTyped
<1>6. ServerHolds' /\ GateHolds' /\ CallHolds'
  BY <1>1, <1>3, HaltedTyped, NothingTyped DEF ServerHolds, GateHolds, CallHolds
<1>7. SyncHolds' /\ ShownHolds'
  BY <1>1, <1>3, HaltedTyped, NothingTyped DEF SyncHolds, Frozen, ShownHolds
<1>8. WayHolds'
  BY <1>0, <1>1, <1>4 DEF WayHolds, LeadsTo
<1> QED  BY <1>5, <1>6, <1>7, <1>8 DEF TrailInv

-----------------------------------------------------------------------------
(* The whole. *)

\* A load stays a load, calm or not.
LEMMA LoadStays == left \in LoadState /\ [TrailNext]_trailVars => left' \in LoadState /\ left'.calm = left.calm
<1> SUFFICES ASSUME left \in LoadState, [TrailNext]_trailVars
             PROVE  left' \in LoadState /\ left'.calm = left.calm
  OBVIOUS
<1>1. CASE \E what \in {"opens", "saved", "reopens", "restarts", "asks", "errors", "prompts", "breaks", "starts", "pauses"} :
             Needs(what)
  BY <1>1, NeedsTyped
<1>2. CASE SyncEnds
  <2>1. PICK ok \in {x \in BOOLEAN : x \/ left.errors > 0} :
          left' = IF ok THEN left ELSE [left EXCEPT !.errors = left.errors - 1]
    BY <1>2 DEF SyncEnds
  <2>2. CASE ok
    BY <2>1, <2>2
  <2>3. CASE ~ ok
    <3>1. left.errors \in Nat /\ left.errors > 0
      BY <2>1, <2>3 DEF LoadState
    <3>2. left' = [left EXCEPT !.errors = left.errors - 1] /\ left.errors - 1 \in Nat
      BY <2>1, <2>3, <3>1
    <3> QED  BY <3>2 DEF LoadState
  <2> QED  BY <2>2, <2>3
<1>3. CASE left' = left
  BY <1>3
<1>4. CASE Remembers \/ BridgeOpens \/ Answers \/ GateForwards \/ SyncReads \/ SyncFreezes \/ SyncProbes \/ SyncBinds
  BY <1>3, <1>4 DEF Remembers, BridgeOpens, Answers, GateForwards, SyncReads, SyncFreezes, SyncProbes, SyncBinds
<1>5. CASE CallBegins \/ CallLaunches \/ CallReadies \/ GateActivates \/ CallFails
  BY <1>3, <1>5 DEF CallBegins, CallLaunches, CallReadies, GateActivates, CallFails
<1>6. CASE BridgeBreaks \/ TuiAsks \/ Refuses \/ GateGivesUp \/ Restarts
  BY <1>1, <1>6 DEF BridgeBreaks, TuiAsks, Refuses, GateGivesUp, Restarts
<1>7. CASE CallsNew \/ CallsSaved \/ CallsReopen
  BY <1>1, <1>7 DEF CallsNew, CallsSaved, CallsReopen
<1>8. CASE TuiTypes \/ QueueSends \/ QueueStarts \/ QueuePauses
  BY <1>1, <1>8 DEF TuiTypes, QueueSends, QueueStarts, QueuePauses
<1>9. CASE UNCHANGED trailVars
  BY <1>3, <1>9 DEF trailVars
<1> QED  BY <1>2, <1>4, <1>5, <1>6, <1>7, <1>8, <1>9 DEF TrailNext

LEMMA TrailSteps == TrailInv /\ left.calm /\ [TrailNext]_trailVars => TrailInv'
<1> SUFFICES ASSUME TrailInv, left.calm, [TrailNext]_trailVars
             PROVE  TrailInv'
  OBVIOUS
<1>1. CASE Remembers \/ BridgeOpens \/ BridgeBreaks \/ GateGivesUp \/ TuiAsks \/ Refuses \/ Answers \/ GateForwards
  BY <1>1, RemembersKeeps, BridgeOpensKeeps, BridgeBreaksKeeps, AsksKeeps, AnswersKeeps, ForwardsKeeps
<1>2. CASE SyncReads \/ SyncFreezes \/ SyncProbes \/ SyncBinds \/ SyncEnds
  BY <1>2, ReadsKeeps, FreezesKeeps, ProbesKeeps, BindsKeeps, SyncEndsKeeps
<1>3. CASE CallsNew \/ CallsSaved \/ CallsReopen \/ CallBegins \/ CallLaunches \/ CallReadies \/ GateActivates \/ CallFails
  BY <1>3, CalledKeeps, BeginsKeeps, LaunchesKeeps, ReadiesKeeps, ActivatesKeeps, FailsKeeps
<1>4. CASE TuiTypes \/ QueueSends \/ QueueStarts \/ QueuePauses \/ Restarts
  BY <1>4, PromptsKeeps, ButtonsKeep, RestartsKeeps
<1>5. CASE UNCHANGED trailVars
  BY <1>5 DEF trailVars, TrailInv, TrailTyped, ServerHolds, GateHolds, CallHolds, FirstAsk, SyncHolds, Frozen, ShownHolds,
              LastSelected, WayHolds, LeadsTo
<1> QED  BY <1>1, <1>2, <1>3, <1>4, <1>5 DEF TrailNext

LEMMA TrailImplies == TrailInv => SelectionsAreFollowed
<1> SUFFICES ASSUME TrailInv
             PROVE  SelectionsAreFollowed
  OBVIOUS
<1>0. TrailTyped /\ ShownHolds /\ SyncHolds /\ WayHolds
  BY DEF TrailInv
<1>1. TrailTypes
  BY <1>0 DEF TrailTypes, TrailTyped, SyncHolds, BoundState, Threads, Maybe
<1>2. WayBack
  <2>1. Resumed(bound) = LeadsTo(bound)
    BY FirstOfThree DEF Resumed, LeadsTo
  <2> QED  BY <1>0, <2>1 DEF WayBack, WayHolds
<1>3. TerminalFollowed /\ QueueRollsOn
  BY <1>0 DEF TerminalFollowed, QueueRollsOn, AtEase, ShownHolds, LastSelected, SyncHolds, Frozen
<1> QED  BY <1>1, <1>2, <1>3 DEF SelectionsAreFollowed

\* However many threads there are and whatever the load, as long as the user lets a selection be followed
\* before the next thing they do: the tab ends on the thread the terminal shows, leads back to the
\* conversation it was on last, and a queue that is to run does so again (syncTerminalThreadSelection,
\* InitialTuiThreadGate, codex-thread-fallback.ts).
THEOREM TrailsLeadBack == TrailSpec => [](left.calm => SelectionsAreFollowed)
<1> DEFINE TrailHolds == left \in LoadState /\ (left.calm => TrailInv)
<1>1. TrailInit => TrailHolds
  BY TrailStarts DEF TrailInv, TrailTyped
<1>2. TrailHolds /\ [TrailNext]_trailVars => TrailHolds'
  BY LoadStays, TrailSteps
<1>3. TrailHolds => (left.calm => SelectionsAreFollowed)
  BY TrailImplies
<1> QED  BY <1>1, <1>2, <1>3, PTL DEF TrailSpec

-----------------------------------------------------------------------------
(* The life of a conversation: requests, hooks, crashes and launches.      *)

TabStates == {"disconnected", "connecting", "ready", "closed", "error"}
OpPlaces == {"none", "wait", "stop", "mark", "launch", "attach", "ready", "undo", "fail", "end"}
TalkLoad ==
  [mode : {"claude", "codex", "server"}, calm : BOOLEAN, open : Nat, reopen : Nat, close : Nat, delete : Nat,
   switches : Nat, failures : Nat, questions : Nat, exits : Nat, crashes : Nat, stops : Nat]
Tabs == [exists : BOOLEAN, state : TabStates, thread : Nat, reopen : BOOLEAN]
Lives == [up : BOOLEAN, closing : BOOLEAN, proc : BOOLEAN, thread : Nat, mgr : Nat, lease : BOOLEAN,
          asks : BOOLEAN, count : Nat, named : Nat]
TalkOps == [pc : OpPlaces, thread : Nat, upto : Nat, was : TabStates \cup {"none"}]
Hooks == [id : Nat, mgr : Nat, thread : Nat, pc : {"queued", "frozen"}]

\* Threads are numbered as they are named, and hooks in the order of their threads.
ChainNamed ==
  \A i \in 1..Len(chain) : /\ chain[i].thread = chain[i].id /\ 1 <= chain[i].id /\ chain[i].id <= live.named
                           /\ chain[i].id <= chain[Len(chain)].id
                           /\ i > 1 => chain[i].pc = "queued"
OpsNamed == \A k \in Kinds : ops[k].thread <= live.named
ThreadsNamed ==
  /\ disk.thread <= live.named /\ live.thread <= live.named /\ chosen <= live.named
  /\ OpsNamed /\ ChainNamed
TalkTyped ==
  /\ disk \in Tabs /\ live \in Lives /\ ops \in [Kinds -> TalkOps] /\ chain \in Seq(Hooks)
  /\ plan \in BOOLEAN /\ wish \in {"none", "open", "shut"} /\ chosen \in Nat /\ stock \in TalkLoad
TalkTypes == TalkTyped /\ ThreadsNamed

\* What is taken of a load leaves a load.
LEMMA TakesTyped ==
    ASSUME stock \in TalkLoad,
           NEW what \in {"open", "reopen", "close", "delete", "switches", "failures", "questions", "exits", "crashes", "stops"},
           Takes(what)
    PROVE  stock' \in TalkLoad /\ stock'.calm = stock.calm /\ stock'.mode = stock.mode
BY DEF Takes, TalkLoad

\* One request's record changes, to what is said.
LEMMA GoesTo ==
    ASSUME ops \in [Kinds -> TalkOps], NEW k \in Kinds, NEW req \in TalkOps, Goes(k, req)
    PROVE  /\ ops' \in [Kinds -> TalkOps] /\ ops'[k] = req
           /\ \A j \in Kinds : j # k => ops'[j] = ops[j]
BY DEF Goes

\* A request that is over leaves no record.
LEMMA OverTo ==
    ASSUME ops \in [Kinds -> TalkOps], NEW k \in Kinds, Over(k)
    PROVE  /\ ops' \in [Kinds -> TalkOps] /\ ops'[k] = NoOp
           /\ \A j \in Kinds : j # k => ops'[j] = ops[j]
<1>1. NoOp \in TalkOps
  BY DEF NoOp, TalkOps, OpPlaces
<1> QED  BY <1>1, GoesTo DEF Over

\* A request begins by waiting for the hooks that have been posted.
LEMMA BeginTo ==
    ASSUME TalkTyped, NEW k \in Kinds, Begin(k)
    PROVE  /\ ops' \in [Kinds -> TalkOps]
           /\ ops'[k].pc = "wait" /\ ops'[k].thread = 0 /\ ops'[k].upto = LastSwitch /\ ops'[k].was = disk.state
           /\ \A j \in Kinds : j # k => ops'[j] = ops[j]
<1>1. LastSwitch \in Nat
  <2>1. CASE chain = <<>>
    BY <2>1 DEF LastSwitch
  <2>2. CASE chain # <<>>
    <3>1. Len(chain) \in 1..Len(chain) /\ chain[Len(chain)] \in Hooks
      BY <2>2 DEF TalkTyped
    <3> QED  BY <2>2, <3>1 DEF LastSwitch, Last, Hooks
  <2> QED  BY <2>1, <2>2
<1> DEFINE req == [NoOp EXCEPT !.pc = "wait", !.upto = LastSwitch, !.was = disk.state]
<1>2. req \in TalkOps /\ req.pc = "wait" /\ req.thread = 0 /\ req.upto = LastSwitch /\ req.was = disk.state
  BY <1>1 DEF NoOp, TalkOps, OpPlaces, TalkTyped, Tabs
<1>3. ops' = [ops EXCEPT ![k] = req]
  BY DEF Begin
<1> HIDE DEF req
<1> QED  BY <1>2, <1>3 DEF TalkTyped

\* An operation's step, in one place: what it does to its own record, and its thread named.
LEMMA OpMoves ==
    ASSUME TalkTypes, NEW k \in Kinds,
           \/ Marks(k) \/ Reads(k) \/ Stops(k) \/ Launches(k) \/ Attaches(k)
           \/ Questions(k) \/ Readies(k) \/ Undoes(k) \/ Fails(k) \/ Ends(k)
    PROVE  /\ ops' \in [Kinds -> TalkOps] /\ ops'[k].thread <= live'.named
           /\ \A j \in Kinds : j # k => ops'[j] = ops[j]
<1>0. ops \in [Kinds -> TalkOps] /\ ops[k] \in TalkOps /\ ops[k].thread <= live.named /\ disk.thread <= live.named
  BY DEF TalkTypes, TalkTyped, ThreadsNamed, OpsNamed, ChainNamed
<1>1. disk.thread \in Nat /\ live.named \in Nat /\ live.named + 1 \in Nat
  BY DEF TalkTypes, TalkTyped, Tabs, Lives
<1>2. CASE Over(k) /\ live'.named = live.named
  BY <1>0, <1>1, <1>2, OverTo DEF NoOp
<1>3. CASE \E to \in OpPlaces : Goes(k, [ops[k] EXCEPT !.pc = to]) /\ live'.named = live.named
  <2>1. PICK to \in OpPlaces : Goes(k, [ops[k] EXCEPT !.pc = to]) /\ live'.named = live.named
    BY <1>3
  <2>2. [ops[k] EXCEPT !.pc = to] \in TalkOps /\ [ops[k] EXCEPT !.pc = to].thread = ops[k].thread
    BY <1>0 DEF TalkOps
  <2> QED  BY <1>0, <2>1, <2>2, GoesTo
<1>4. CASE Reads(k)
  <2>1. Over(k) \/ Goes(k, [ops[k] EXCEPT !.pc = "stop", !.thread = IF k = "open" THEN 0 ELSE disk.thread])
    BY <1>4 DEF Reads
  <2>2. live' = live
    BY <1>4 DEF Reads
  <2> DEFINE req == [ops[k] EXCEPT !.pc = "stop", !.thread = IF k = "open" THEN 0 ELSE disk.thread]
  <2>3. req \in TalkOps /\ req.thread <= live.named
    <3>1. CASE k = "open"
      <4>1. req = [ops[k] EXCEPT !.pc = "stop", !.thread = 0]
        BY <3>1
      <4> HIDE DEF req
      <4>2. req \in TalkOps /\ req.thread = 0
        BY <1>0, <1>1, <4>1 DEF TalkOps, OpPlaces
      <4> QED  BY <1>0, <1>1, <4>2
    <3>2. CASE k # "open"
      <4>1. req = [ops[k] EXCEPT !.pc = "stop", !.thread = disk.thread]
        BY <3>2
      <4> HIDE DEF req
      <4>2. req \in TalkOps /\ req.thread = disk.thread
        BY <1>0, <1>1, <4>1 DEF TalkOps, OpPlaces
      <4> QED  BY <1>0, <1>1, <4>2
    <3> QED  BY <3>1, <3>2
  <2> HIDE DEF req
  <2>4. CASE Goes(k, req)
    BY <1>0, <2>2, <2>3, <2>4, GoesTo
  <2> QED  BY <1>2, <2>1, <2>2, <2>4 DEF req
<1>5. CASE Launches(k)
  <2> DEFINE fresh == k = "open" /\ stock.mode # "codex"
             thread == IF fresh THEN live.named + 1 ELSE ops[k].thread
             req == [ops[k] EXCEPT !.pc = "attach", !.thread = thread]
  <2>1. thread \in Nat /\ thread <= live'.named
    <3>1. live'.named = IF fresh THEN live.named + 1 ELSE live.named
      BY <1>5 DEF Launches, TalkTypes, TalkTyped, Lives
    <3> QED  BY <1>0, <1>1, <3>1 DEF TalkOps
  <2>2. Goes(k, req)
    BY <1>5 DEF Launches
  <2> HIDE DEF thread
  <2>3. req \in TalkOps /\ req.thread = thread
    BY <1>0, <2>1 DEF TalkOps, OpPlaces
  <2> HIDE DEF req
  <2> QED  BY <1>0, <2>1, <2>2, <2>3, GoesTo
<1>6. CASE Stops(k) \/ Undoes(k)
  <2>1. live'.named = live.named
    BY <1>6 DEF Stops, Undoes, Torn, Undone, TalkTypes, TalkTyped, Lives
  <2> QED  BY <1>3, <1>6, <2>1 DEF Stops, Undoes, OpPlaces
<1>7. CASE Marks(k) \/ Attaches(k)
  <2>1. live' = live
    BY <1>7 DEF Marks, Attaches
  <2> QED  BY <1>3, <1>7, <2>1 DEF Marks, Attaches, OpPlaces
<1>8. CASE Questions(k) \/ Fails(k) \/ Ends(k)
  <2>1. live'.named = live.named
    BY <1>8 DEF Questions, Fails, Ends, TalkTypes, TalkTyped, Lives
  <2> QED  BY <1>2, <1>8, <2>1 DEF Questions, Fails, Ends
<1>9. CASE Readies(k)
  <2>1. live' = live
    BY <1>9 DEF Readies
  <2> QED  BY <1>2, <1>3, <1>9, <2>1 DEF Readies, OpPlaces
<1> QED  BY <1>4, <1>5, <1>6, <1>7, <1>8, <1>9

\* A request's step keeps the types, the threads' numbers and the load.
LEMMA OpTypes ==
    ASSUME TalkTypes, NEW k \in Kinds, OpSteps(k)
    PROVE  TalkTypes' /\ stock'.calm = stock.calm /\ stock'.mode = stock.mode
<1>0. TalkTyped /\ ThreadsNamed
  BY DEF TalkTypes
<1>1. /\ ops' \in [Kinds -> TalkOps] /\ ops'[k].thread <= live'.named
      /\ \A j \in Kinds : j # k => ops'[j] = ops[j]
  BY OpMoves DEF OpSteps
<1>2. stock' \in TalkLoad /\ stock'.calm = stock.calm /\ stock'.mode = stock.mode
  BY <1>0, TakesTyped DEF TalkTyped, OpSteps, Marks, Reads, Stops, Launches, Attaches, Questions, Readies, Undoes,
     Fails, Ends
<1>3. live' \in Lives /\ live.named <= live'.named /\ live'.thread <= live'.named
  <2>1. CASE Launches(k)
    <3> DEFINE fresh == k = "open" /\ stock.mode # "codex"
               thread == IF fresh THEN live.named + 1 ELSE ops[k].thread
    <3>1. live' = [live EXCEPT !.proc = TRUE, !.lease = TRUE, !.thread = thread, !.count = @ + 1, !.mgr = live.count + 1,
                               !.asks = FALSE, !.named = IF fresh THEN @ + 1 ELSE @]
      BY <2>1 DEF Launches
    <3>2. live \in Lives /\ live.count + 1 \in Nat /\ live.named + 1 \in Nat /\ live.named \in Nat
      BY <1>0 DEF TalkTyped, Lives
    <3>3. thread \in Nat /\ (fresh => thread = live.named + 1) /\ (~ fresh => thread <= live.named)
      BY <1>0, <3>2 DEF TalkTyped, TalkOps, ThreadsNamed, OpsNamed
    <3> HIDE DEF thread, fresh
    <3>4. CASE fresh
      <4>1. live' = [live EXCEPT !.proc = TRUE, !.lease = TRUE, !.thread = thread, !.count = live.count + 1, !.mgr = live.count + 1,
                               !.asks = FALSE, !.named = live.named + 1]
        BY <3>1, <3>4
      <4>2. live' \in Lives /\ live'.named = live.named + 1 /\ live'.thread = thread
        BY <3>2, <3>3, <4>1 DEF Lives
      <4> QED  BY <3>2, <3>3, <3>4, <4>2
    <3>5. CASE ~ fresh
      <4>1. live' = [live EXCEPT !.proc = TRUE, !.lease = TRUE, !.thread = thread, !.count = live.count + 1, !.mgr = live.count + 1,
                               !.asks = FALSE]
        BY <3>1, <3>2, <3>5 DEF Lives
      <4>2. live' \in Lives /\ live'.named = live.named /\ live'.thread = thread
        BY <3>2, <3>3, <4>1 DEF Lives
      <4> QED  BY <3>2, <3>3, <3>5, <4>2
    <3> QED  BY <3>4, <3>5
  <2>2. CASE ~ Launches(k)
    <3>1. \/ live' = live
          \/ live' = Torn(live)
          \/ live' = [live EXCEPT !.asks = TRUE]
      BY <2>2 DEF OpSteps, Marks, Reads, Stops, Attaches, Questions, Readies, Undoes, Fails, Ends, Undone
    <3>2. live \in Lives /\ live.thread <= live.named /\ 0 <= live.named /\ live.named <= live.named
      BY <1>0 DEF TalkTyped, ThreadsNamed, OpsNamed, ChainNamed, Lives
    <3>3. CASE live' = Torn(live)
      <4>1. live' \in Lives /\ live'.thread = 0 /\ live'.named = live.named
        BY <3>2, <3>3 DEF Torn, Lives
      <4> QED  BY <3>2, <4>1
    <3>4. CASE live' = [live EXCEPT !.asks = TRUE]
      <4>1. live' \in Lives /\ live'.thread = live.thread /\ live'.named = live.named
        BY <3>2, <3>4 DEF Lives
      <4> QED  BY <3>2, <4>1
    <3> QED  BY <3>1, <3>2, <3>3, <3>4
  <2> QED  BY <2>1, <2>2
<1>4. disk' \in Tabs /\ chain' = chain /\ plan' = plan /\ wish' \in {"none", "open", "shut"}
      /\ (disk'.thread = disk.thread \/ disk'.thread = ops[k].thread)
  BY <1>0 DEF OpSteps, TalkTyped, Tabs, TabStates, TalkOps, Marks, Reads, Stops, Launches, Attaches, Questions,
     Readies, Undoes, Fails, Ends, Ready, Closed, Failed
<1>5. chosen' \in Nat /\ (chosen' = chosen \/ chosen' = live.thread \/ chosen' = ops[k].thread)
  BY <1>0 DEF OpSteps, TalkTyped, Lives, TalkOps, Marks, Reads, Stops, Launches, Attaches, Questions, Readies,
     Undoes, Fails, Ends
<1>6. live.named \in Nat /\ live'.named \in Nat /\ live'.thread \in Nat /\ live.thread \in Nat
      /\ disk'.thread \in Nat /\ ops[k].thread \in Nat
  BY <1>0, <1>3, <1>4 DEF TalkTyped, Lives, Tabs, TalkOps
<1>7. disk'.thread <= live'.named /\ live'.thread <= live'.named /\ chosen' <= live'.named
  BY <1>0, <1>3, <1>4, <1>5, <1>6 DEF ThreadsNamed, OpsNamed, ChainNamed
<1>8. OpsNamed'
  <2>1. ASSUME NEW j \in Kinds, j # k PROVE ops'[j].thread <= live'.named
    <3>1. ops'[j] = ops[j] /\ ops[j].thread <= live.named /\ ops[j].thread \in Nat
      BY <1>0, <1>1, <2>1 DEF ThreadsNamed, OpsNamed, ChainNamed, TalkTyped, TalkOps
    <3> QED  BY <1>3, <1>6, <3>1
  <2> QED  BY <1>1, <2>1 DEF OpsNamed
<1>9. ChainNamed'
  <2>1. ASSUME NEW i \in 1..Len(chain) PROVE chain[i].id <= live'.named
    <3>1. chain[i] \in Hooks /\ chain[i].id <= live.named
      BY <1>0 DEF TalkTyped, ThreadsNamed, OpsNamed, ChainNamed
    <3>2. chain[i].id \in Nat
      BY <3>1 DEF Hooks
    <3> QED  BY <1>3, <1>6, <3>1, <3>2
  <2> QED  BY <1>0, <1>4, <2>1 DEF ThreadsNamed, OpsNamed, ChainNamed
<1>10. ThreadsNamed'
  BY <1>7, <1>8, <1>9 DEF ThreadsNamed
<1>11. TalkTyped'
  BY <1>0, <1>1, <1>2, <1>3, <1>4, <1>5 DEF TalkTyped
<1> QED  BY <1>2, <1>10, <1>11 DEF TalkTypes

-----------------------------------------------------------------------------
(* What holds of a calm load: one request at a time, each with its place   *)
(* in the opening or the closing of the tab.                               *)

Quiet == \A k \in Kinds : ops[k].pc \in {"none", "wait"}
OneAtATime ==
  /\ \A k, l \in Kinds : ops[k].pc # "none" /\ ops[l].pc # "none" => k = l
  /\ plan => live.up /\ Resting /\ chain = <<>>
  /\ ~ live.up => Resting /\ chain = <<>> /\ ~ live.proc /\ ~ live.closing
ChainHolds ==
  chain # <<>> =>
    /\ live.up /\ disk.exists /\ disk.state = "ready" /\ Quiet
    /\ \A i \in 1..Len(chain) : chain[i].mgr = live.mgr
    /\ chain[Len(chain)].thread = chosen
    /\ \A k \in Kinds : ops[k].pc = "wait" => chain[Len(chain)].id <= ops[k].upto
AgentHolds ==
  /\ live.lease = live.proc
  /\ live.proc => live.mgr # 0
  /\ Quiet => /\ disk.state \in {"closed", "error", "disconnected"} => ~ live.proc
              /\ disk.state = "connecting" => live.asks \/ ~ live.proc
              /\ disk.state = "ready" /\ live.proc => live.thread = chosen /\ (chain = <<>> => disk.thread = chosen)
OpHolds(k) ==
  LET req == ops[k] IN
  /\ req.pc \in {"mark", "launch", "fail", "end"} => ~ live.proc
  /\ req.pc \in {"launch", "attach", "ready"} => disk.exists /\ disk.state = "connecting"
  /\ req.pc \in {"mark", "launch", "attach", "ready", "undo", "fail"} => k \in {"open", "reopen"}
  /\ req.pc = "end" => k \in {"close", "delete"}
  /\ req.pc \in {"attach", "ready"} /\ live.proc => live.thread = req.thread
  /\ req.pc = "ready" => live.proc
  /\ k = "reopen" /\ req.pc \in {"stop", "mark", "launch", "attach", "ready"} => req.thread # 0
  /\ stock.mode = "server" /\ req.pc \in {"attach", "ready"} => req.thread # 0
  /\ wish = "shut" /\ req.pc # "none" => req.was = "closed"
WishHolds ==
  /\ ~ disk.exists => disk.state = "closed" /\ ~ disk.reopen
  /\ stock.mode = "server" /\ disk.state = "ready" => disk.thread # 0 /\ disk.reopen
  /\ wish = "shut" => ~ disk.reopen /\ ~ plan /\ disk.state \in {"closed", "connecting"}
     /\ (live.up /\ Quiet => disk.state = "closed")
  /\ wish = "open" => disk.exists /\ disk.thread # 0 /\ disk.reopen
     /\ (live.up /\ ~ plan /\ Resting => disk.state = "ready")
CalmTalk == OneAtATime /\ ChainHolds /\ AgentHolds /\ (\A k \in Kinds : OpHolds(k)) /\ WishHolds
TalkInv == TalkTypes /\ stock.calm /\ CalmTalk

\* The one request under way is alone.
LEMMA Alone ==
    ASSUME TalkInv, NEW k \in Kinds, ops[k].pc # "none"
    PROVE  /\ live.up /\ ~ plan /\ \A j \in Kinds : j # k => ops[j].pc = "none"
           /\ Quiet <=> ops[k].pc = "wait"
           /\ ~ Resting
           /\ ops[k].pc # "wait" => chain = <<>>
BY DEF TalkInv, CalmTalk, OneAtATime, ChainHolds, Quiet, Resting

\* After a step of the one request it is enough to look at the request, the agent and the wish.
LEMMA StillAlone ==
    ASSUME TalkInv, NEW k \in Kinds, ops[k].pc # "none", \A j \in Kinds : j # k => ops'[j] = ops[j],
           ops' \in [Kinds -> TalkOps], TalkTypes', stock'.calm = stock.calm,
           live'.up, plan' = plan, chain' = chain, chain = <<>>
    PROVE  /\ OneAtATime' /\ ChainHolds' /\ \A j \in Kinds : j # k => OpHolds(j)'
           /\ Quiet' <=> ops'[k].pc \in {"none", "wait"}
           /\ Resting' <=> ops'[k].pc = "none"
           /\ AgentHolds' /\ OpHolds(k)' /\ WishHolds' => TalkInv'
<1>1. live.up /\ ~ plan /\ \A j \in Kinds : j # k => ops[j].pc = "none"
  BY Alone
<1>2. OneAtATime' /\ ChainHolds'
  BY <1>1 DEF OneAtATime, ChainHolds
<1>3. \A j \in Kinds : j # k => OpHolds(j)'
  BY <1>1 DEF OpHolds
<1>4. Quiet' <=> ops'[k].pc \in {"none", "wait"}
  BY <1>1 DEF Quiet
<1>5. Resting' <=> ops'[k].pc = "none"
  BY <1>1 DEF Resting
<1>6. stock'.calm
  BY DEF TalkInv
<1> QED  BY <1>2, <1>3, <1>4, <1>5, <1>6 DEF TalkInv, CalmTalk

\* What ran is stopped before anything else is done.
\* What ran is stopped before anything else is done.
LEMMA StopsKeeps == ASSUME TalkInv, NEW k \in Kinds, Stops(k) PROVE TalkInv'
<1>0. /\ TalkTyped /\ CalmTalk /\ OpHolds(k) /\ AgentHolds /\ WishHolds
      /\ live \in Lives /\ disk \in Tabs /\ ops \in [Kinds -> TalkOps] /\ ops[k] \in TalkOps
  BY DEF TalkInv, TalkTypes, TalkTyped, CalmTalk
<1>1. ops[k].pc = "stop"
  BY DEF Stops
<1>2. /\ TalkTypes' /\ ops' \in [Kinds -> TalkOps] /\ (\A j \in Kinds : j # k => ops'[j] = ops[j])
      /\ stock'.calm = stock.calm /\ stock'.mode = stock.mode
  BY OpTypes, OpMoves DEF OpSteps, TalkInv
<1>3. live.up /\ ~ plan /\ chain = <<>> /\ ~ Quiet /\ ~ Resting
  BY <1>1, Alone
<1>4. live'.up = live.up /\ plan' = plan /\ chain' = chain /\ disk' = disk /\ wish' = wish /\ chosen' = chosen
  BY <1>0 DEF Stops, Torn, Lives
<1>5. live'.proc = FALSE /\ live'.lease = FALSE
  BY <1>0 DEF Stops, Torn, Lives
<1>6. /\ ops'[k].pc \in {"mark", "end"} /\ (ops'[k].pc = "mark" <=> k \in {"open", "reopen"})
      /\ ops'[k].thread = ops[k].thread /\ ops'[k].was = ops[k].was
  BY <1>0 DEF Stops, Goes, TalkOps
<1>7. /\ Quiet' <=> ops'[k].pc \in {"none", "wait"}
      /\ Resting' <=> ops'[k].pc = "none"
      /\ AgentHolds' /\ OpHolds(k)' /\ WishHolds' => TalkInv'
  BY <1>1, <1>2, <1>3, <1>4, StillAlone
<1>8. AgentHolds'
  BY <1>0, <1>1, <1>3, <1>4, <1>5, <1>6, <1>7 DEF AgentHolds
<1>9. OpHolds(k)'
  BY <1>0, <1>1, <1>2, <1>3, <1>4, <1>5, <1>6 DEF OpHolds, Kinds
<1>10. WishHolds'
  BY <1>0, <1>1, <1>2, <1>3, <1>4, <1>5, <1>6, <1>7 DEF WishHolds
<1> QED  BY <1>7, <1>8, <1>9, <1>10

\* A tab that is being opened says so.
LEMMA MarksKeeps == ASSUME TalkInv, NEW k \in Kinds, Marks(k) PROVE TalkInv'
<1>0. /\ TalkTyped /\ CalmTalk /\ OpHolds(k) /\ AgentHolds /\ WishHolds
      /\ live \in Lives /\ disk \in Tabs /\ ops \in [Kinds -> TalkOps] /\ ops[k] \in TalkOps
  BY DEF TalkInv, TalkTypes, TalkTyped, CalmTalk
<1>1. ops[k].pc = "mark"
  BY DEF Marks
<1>2. /\ TalkTypes' /\ ops' \in [Kinds -> TalkOps] /\ (\A j \in Kinds : j # k => ops'[j] = ops[j])
      /\ stock'.calm = stock.calm /\ stock'.mode = stock.mode
  BY OpTypes, OpMoves DEF OpSteps, TalkInv
<1>3. live.up /\ ~ plan /\ chain = <<>> /\ ~ Quiet /\ ~ Resting
  BY <1>1, Alone
<1>4. live' = live /\ live'.up = live.up /\ plan' = plan /\ chain' = chain /\ wish' = wish /\ chosen' = chosen
  BY DEF Marks
<1>5. /\ ops'[k].pc \in {"launch", "undo"} /\ (ops'[k].pc = "launch" <=> disk.exists)
      /\ ops'[k].thread = ops[k].thread /\ ops'[k].was = ops[k].was
  BY <1>0 DEF Marks, Goes, TalkOps
<1>6. /\ disk'.exists = disk.exists /\ disk'.thread = disk.thread /\ disk'.reopen = disk.reopen
      /\ disk'.state = IF disk.exists THEN "connecting" ELSE disk.state
  BY <1>0 DEF Marks, Tabs
<1>7. /\ Quiet' <=> ops'[k].pc \in {"none", "wait"}
      /\ Resting' <=> ops'[k].pc = "none"
      /\ AgentHolds' /\ OpHolds(k)' /\ WishHolds' => TalkInv'
  BY <1>1, <1>2, <1>3, <1>4, StillAlone
<1>8. AgentHolds'
  BY <1>0, <1>1, <1>3, <1>4, <1>5, <1>6, <1>7 DEF AgentHolds
<1>9. OpHolds(k)'
  BY <1>0, <1>1, <1>2, <1>3, <1>4, <1>5, <1>6 DEF OpHolds
<1>10. WishHolds'
  BY <1>0, <1>1, <1>2, <1>3, <1>4, <1>5, <1>6, <1>7 DEF WishHolds
<1> QED  BY <1>7, <1>8, <1>9, <1>10

\* The agent is started, and shows the thread it is asked for.
LEMMA TalkLaunchesKeeps == ASSUME TalkInv, NEW k \in Kinds, Launches(k) PROVE TalkInv'
<1>0. /\ TalkTyped /\ CalmTalk /\ OpHolds(k) /\ AgentHolds /\ WishHolds
      /\ live \in Lives /\ disk \in Tabs /\ ops \in [Kinds -> TalkOps] /\ ops[k] \in TalkOps
  BY DEF TalkInv, TalkTypes, TalkTyped, CalmTalk
<1>1. ops[k].pc = "launch"
  BY DEF Launches
<1>2. /\ TalkTypes' /\ ops' \in [Kinds -> TalkOps] /\ (\A j \in Kinds : j # k => ops'[j] = ops[j])
      /\ stock'.calm = stock.calm /\ stock'.mode = stock.mode
  BY OpTypes, OpMoves DEF OpSteps, TalkInv
<1>3. live.up /\ ~ plan /\ chain = <<>> /\ ~ Quiet /\ ~ Resting
  BY <1>1, Alone
<1>4. live'.up = live.up /\ plan' = plan /\ chain' = chain /\ wish' = wish /\ chosen' = chosen /\ disk' = disk
  BY <1>0 DEF Launches, Lives
<1>5. ops'[k].pc = "attach" /\ ops'[k].was = ops[k].was /\ (ops'[k].thread = ops[k].thread \/ ops'[k].thread # 0)
      /\ (k = "open" /\ stock.mode = "server" => ops'[k].thread # 0)
  <2> DEFINE thread == IF k = "open" /\ stock.mode # "codex" THEN live.named + 1 ELSE ops[k].thread
  <2>1. Goes(k, [ops[k] EXCEPT !.pc = "attach", !.thread = thread])
    BY DEF Launches
  <2>2. (thread = ops[k].thread \/ thread # 0) /\ (k = "open" /\ stock.mode = "server" => thread # 0)
    BY <1>0 DEF Lives
  <2> HIDE DEF thread
  <2>3. ops'[k].pc = "attach" /\ ops'[k].was = ops[k].was /\ ops'[k].thread = thread
    BY <1>0, <2>1 DEF Goes, TalkOps
  <2> QED  BY <2>2, <2>3
<1>6. live'.proc /\ live'.lease /\ live'.mgr # 0 /\ live'.thread = ops'[k].thread
  <2>1. live'.proc /\ live'.lease /\ live'.mgr = live.count + 1
    BY <1>0 DEF Launches, Lives
  <2>2. live'.thread = ops'[k].thread
    <3> DEFINE thread == IF k = "open" /\ stock.mode # "codex" THEN live.named + 1 ELSE ops[k].thread
    <3>1. Goes(k, [ops[k] EXCEPT !.pc = "attach", !.thread = thread]) /\ live'.thread = thread
      BY <1>0 DEF Launches, Lives
    <3> HIDE DEF thread
    <3> QED  BY <1>0, <3>1 DEF Goes, TalkOps
  <2> QED  BY <1>0, <2>1, <2>2 DEF Lives
<1>7. /\ Quiet' <=> ops'[k].pc \in {"none", "wait"}
      /\ Resting' <=> ops'[k].pc = "none"
      /\ AgentHolds' /\ OpHolds(k)' /\ WishHolds' => TalkInv'
  BY <1>1, <1>2, <1>3, <1>4, StillAlone
<1>8. AgentHolds'
  BY <1>0, <1>1, <1>3, <1>4, <1>5, <1>6, <1>7 DEF AgentHolds
<1>9. OpHolds(k)'
  BY <1>0, <1>1, <1>2, <1>3, <1>4, <1>5, <1>6 DEF OpHolds, Kinds
<1>10. WishHolds'
  BY <1>0, <1>1, <1>2, <1>3, <1>4, <1>5, <1>6, <1>7 DEF WishHolds
<1> QED  BY <1>7, <1>8, <1>9, <1>10

\* The session is there, or does not come.
LEMMA AttachesKeeps == ASSUME TalkInv, NEW k \in Kinds, Attaches(k) PROVE TalkInv'
<1>0. /\ TalkTyped /\ CalmTalk /\ OpHolds(k) /\ AgentHolds /\ WishHolds
      /\ live \in Lives /\ disk \in Tabs /\ ops \in [Kinds -> TalkOps] /\ ops[k] \in TalkOps
  BY DEF TalkInv, TalkTypes, TalkTyped, CalmTalk
<1>1. ops[k].pc = "attach"
  BY DEF Attaches
<1>2. /\ TalkTypes' /\ ops' \in [Kinds -> TalkOps] /\ (\A j \in Kinds : j # k => ops'[j] = ops[j])
      /\ stock'.calm = stock.calm /\ stock'.mode = stock.mode
  BY OpTypes, OpMoves DEF OpSteps, TalkInv
<1>3. live.up /\ ~ plan /\ chain = <<>> /\ ~ Quiet /\ ~ Resting
  BY <1>1, Alone
<1>4. live' = live /\ live'.up = live.up /\ plan' = plan /\ chain' = chain /\ wish' = wish /\ chosen' = chosen
      /\ disk' = disk
  BY DEF Attaches
<1>5. ops'[k].pc \in {"ready", "undo"} /\ (ops'[k].pc = "ready" => live.proc)
  BY <1>0 DEF Attaches, Goes, TalkOps
<1>6. ops'[k].thread = ops[k].thread /\ ops'[k].was = ops[k].was
  BY <1>0 DEF Attaches, Goes, TalkOps
<1>7. /\ Quiet' <=> ops'[k].pc \in {"none", "wait"}
      /\ Resting' <=> ops'[k].pc = "none"
      /\ AgentHolds' /\ OpHolds(k)' /\ WishHolds' => TalkInv'
  BY <1>1, <1>2, <1>3, <1>4, StillAlone
<1>8. AgentHolds'
  BY <1>0, <1>1, <1>3, <1>4, <1>5, <1>6, <1>7 DEF AgentHolds
<1>9. OpHolds(k)'
  BY <1>0, <1>1, <1>2, <1>3, <1>4, <1>5, <1>6 DEF OpHolds, Kinds
<1>10. WishHolds'
  BY <1>0, <1>1, <1>2, <1>3, <1>4, <1>5, <1>6, <1>7 DEF WishHolds
<1> QED  BY <1>7, <1>8, <1>9, <1>10

\* Codex asks something before it has a session.
LEMMA QuestionsKeeps == ASSUME TalkInv, NEW k \in Kinds, Questions(k) PROVE TalkInv'
<1>0. /\ TalkTyped /\ CalmTalk /\ OpHolds(k) /\ AgentHolds /\ WishHolds
      /\ live \in Lives /\ disk \in Tabs /\ ops \in [Kinds -> TalkOps] /\ ops[k] \in TalkOps
  BY DEF TalkInv, TalkTypes, TalkTyped, CalmTalk
<1>1. ops[k].pc = "attach"
  BY DEF Questions
<1>2. /\ TalkTypes' /\ ops' \in [Kinds -> TalkOps] /\ (\A j \in Kinds : j # k => ops'[j] = ops[j])
      /\ stock'.calm = stock.calm /\ stock'.mode = stock.mode
  BY OpTypes, OpMoves DEF OpSteps, TalkInv
<1>3. live.up /\ ~ plan /\ chain = <<>> /\ ~ Quiet /\ ~ Resting
  BY <1>1, Alone
<1>4. live'.up = live.up /\ plan' = plan /\ chain' = chain /\ wish' = "none" /\ chosen' = chosen /\ disk' = disk
  BY <1>0 DEF Questions, Lives
<1>5. ops'[k] = NoOp /\ ops'[k].pc = "none"
  BY <1>0 DEF Questions, Over, Goes, NoOp
<1>6. live'.asks /\ live'.proc = live.proc /\ live'.lease = live.lease /\ live'.mgr = live.mgr
  BY <1>0 DEF Questions, Lives
<1>7. /\ Quiet' <=> ops'[k].pc \in {"none", "wait"}
      /\ Resting' <=> ops'[k].pc = "none"
      /\ AgentHolds' /\ OpHolds(k)' /\ WishHolds' => TalkInv'
  BY <1>1, <1>2, <1>3, <1>4, StillAlone
<1>8. AgentHolds'
  BY <1>0, <1>1, <1>3, <1>4, <1>5, <1>6, <1>7 DEF AgentHolds, OpHolds
<1>9. OpHolds(k)'
  BY <1>0, <1>1, <1>2, <1>3, <1>4, <1>5, <1>6 DEF OpHolds
<1>10. WishHolds'
  BY <1>0, <1>1, <1>2, <1>3, <1>4, <1>5, <1>6, <1>7 DEF WishHolds
<1> QED  BY <1>7, <1>8, <1>9, <1>10

\* The tab is ready, and remembers that it is to come back.
LEMMA TalkReadiesKeeps == ASSUME TalkInv, NEW k \in Kinds, Readies(k) PROVE TalkInv'
<1>0. /\ TalkTyped /\ CalmTalk /\ OpHolds(k) /\ AgentHolds /\ WishHolds
      /\ live \in Lives /\ disk \in Tabs /\ ops \in [Kinds -> TalkOps] /\ ops[k] \in TalkOps
  BY DEF TalkInv, TalkTypes, TalkTyped, CalmTalk
<1>1. ops[k].pc = "ready"
  BY DEF Readies
<1>2. /\ TalkTypes' /\ ops' \in [Kinds -> TalkOps] /\ (\A j \in Kinds : j # k => ops'[j] = ops[j])
      /\ stock'.calm = stock.calm /\ stock'.mode = stock.mode
  BY OpTypes, OpMoves DEF OpSteps, TalkInv
<1>3. live.up /\ ~ plan /\ chain = <<>> /\ ~ Quiet /\ ~ Resting
  BY <1>1, Alone
<1>4. live' = live /\ live'.up = live.up /\ plan' = plan /\ chain' = chain
  BY DEF Readies
<1>5. disk.exists /\ live.proc /\ live.thread = ops[k].thread
  BY <1>0, <1>1 DEF OpHolds
<1>6. /\ ops'[k] = NoOp /\ ops'[k].pc = "none"
      /\ disk'.exists /\ disk'.state = "ready" /\ disk'.thread = ops[k].thread /\ disk'.reopen
      /\ wish' = (IF ops[k].thread # 0 THEN "open" ELSE "none") /\ chosen' = ops[k].thread
  <2>1. disk' = Ready(disk, ops[k].thread) /\ Over(k) /\ wish' = (IF ops[k].thread # 0 THEN "open" ELSE "none")
    BY <1>5 DEF Readies
  <2>2. disk'.exists /\ disk'.state = "ready" /\ disk'.thread = ops[k].thread /\ disk'.reopen
    BY <1>0, <1>5, <2>1 DEF Ready, Tabs
  <2>3. ops'[k] = NoOp /\ ops'[k].pc = "none"
    BY <1>0, <2>1 DEF Over, Goes, NoOp
  <2>4. chosen' = ops[k].thread
    BY <1>5 DEF Readies
  <2> QED  BY <2>1, <2>2, <2>3, <2>4
<1>7. /\ Quiet' <=> ops'[k].pc \in {"none", "wait"}
      /\ Resting' <=> ops'[k].pc = "none"
      /\ AgentHolds' /\ OpHolds(k)' /\ WishHolds' => TalkInv'
  BY <1>1, <1>2, <1>3, <1>4, StillAlone
<1>8. AgentHolds'
  BY <1>0, <1>1, <1>3, <1>4, <1>5, <1>6, <1>7 DEF AgentHolds
<1>9. OpHolds(k)'
  BY <1>0, <1>1, <1>2, <1>3, <1>4, <1>5, <1>6 DEF OpHolds
<1>10. WishHolds'
  BY <1>0, <1>1, <1>2, <1>3, <1>4, <1>5, <1>6, <1>7 DEF WishHolds, OpHolds
<1> QED  BY <1>7, <1>8, <1>9, <1>10

\* What a failed opening has started is stopped.
LEMMA UndoesKeeps == ASSUME TalkInv, NEW k \in Kinds, Undoes(k) PROVE TalkInv'
<1>0. /\ TalkTyped /\ CalmTalk /\ OpHolds(k) /\ AgentHolds /\ WishHolds
      /\ live \in Lives /\ disk \in Tabs /\ ops \in [Kinds -> TalkOps] /\ ops[k] \in TalkOps
  BY DEF TalkInv, TalkTypes, TalkTyped, CalmTalk
<1>1. ops[k].pc = "undo"
  BY DEF Undoes
<1>2. /\ TalkTypes' /\ ops' \in [Kinds -> TalkOps] /\ (\A j \in Kinds : j # k => ops'[j] = ops[j])
      /\ stock'.calm = stock.calm /\ stock'.mode = stock.mode
  BY OpTypes, OpMoves DEF OpSteps, TalkInv
<1>3. live.up /\ ~ plan /\ chain = <<>> /\ ~ Quiet /\ ~ Resting
  BY <1>1, Alone
<1>4. live'.up = live.up /\ plan' = plan /\ chain' = chain /\ wish' = wish /\ chosen' = chosen /\ disk' = disk
  BY <1>0 DEF Undoes, Undone, Torn, Lives
<1>5. live'.proc = FALSE /\ live'.lease = FALSE
  BY <1>0 DEF Undoes, Undone, Torn, Lives
<1>6. ops'[k].pc = "fail" /\ ops'[k].thread = ops[k].thread /\ ops'[k].was = ops[k].was
  BY <1>0 DEF Undoes, Goes, TalkOps
<1>7. /\ Quiet' <=> ops'[k].pc \in {"none", "wait"}
      /\ Resting' <=> ops'[k].pc = "none"
      /\ AgentHolds' /\ OpHolds(k)' /\ WishHolds' => TalkInv'
  BY <1>1, <1>2, <1>3, <1>4, StillAlone
<1>8. AgentHolds'
  BY <1>0, <1>1, <1>3, <1>4, <1>5, <1>6, <1>7 DEF AgentHolds
<1>9. OpHolds(k)'
  BY <1>0, <1>1, <1>2, <1>3, <1>4, <1>5, <1>6 DEF OpHolds
<1>10. WishHolds'
  BY <1>0, <1>1, <1>2, <1>3, <1>4, <1>5, <1>6, <1>7 DEF WishHolds
<1> QED  BY <1>7, <1>8, <1>9, <1>10

\* A failed opening is written, and nothing is promised.
LEMMA TalkFailsKeeps == ASSUME TalkInv, NEW k \in Kinds, Fails(k) PROVE TalkInv'
<1>0. /\ TalkTyped /\ CalmTalk /\ OpHolds(k) /\ AgentHolds /\ WishHolds
      /\ live \in Lives /\ disk \in Tabs /\ ops \in [Kinds -> TalkOps] /\ ops[k] \in TalkOps
  BY DEF TalkInv, TalkTypes, TalkTyped, CalmTalk
<1>1. ops[k].pc = "fail"
  BY DEF Fails
<1>2. /\ TalkTypes' /\ ops' \in [Kinds -> TalkOps] /\ (\A j \in Kinds : j # k => ops'[j] = ops[j])
      /\ stock'.calm = stock.calm /\ stock'.mode = stock.mode
  BY OpTypes, OpMoves DEF OpSteps, TalkInv
<1>3. live.up /\ ~ plan /\ chain = <<>> /\ ~ Quiet /\ ~ Resting
  BY <1>1, Alone
<1>4. live' = live /\ live'.up = live.up /\ plan' = plan /\ chain' = chain
      /\ wish' = (IF wish = "open" THEN "none" ELSE wish)
  BY DEF Fails
<1>5. ops'[k] = NoOp /\ ops'[k].pc = "none"
  BY <1>0 DEF Fails, Over, Goes, NoOp
<1>6. /\ disk'.exists = disk.exists /\ disk'.thread = disk.thread /\ disk'.reopen = disk.reopen
      /\ disk.exists => disk'.state = IF k = "reopen" \/ ops[k].was = "closed" THEN "closed" ELSE "error"
      /\ ~ disk.exists => disk'.state = disk.state
  BY <1>0 DEF Fails, Failed, Tabs
<1>7. /\ Quiet' <=> ops'[k].pc \in {"none", "wait"}
      /\ Resting' <=> ops'[k].pc = "none"
      /\ AgentHolds' /\ OpHolds(k)' /\ WishHolds' => TalkInv'
  BY <1>1, <1>2, <1>3, <1>4, StillAlone
<1>8. AgentHolds'
  BY <1>0, <1>1, <1>3, <1>4, <1>5, <1>6, <1>7 DEF AgentHolds, OpHolds, WishHolds
<1>9. OpHolds(k)'
  BY <1>0, <1>1, <1>2, <1>3, <1>4, <1>5, <1>6 DEF OpHolds
<1>10. WishHolds'
  BY <1>0, <1>1, <1>2, <1>3, <1>4, <1>5, <1>6, <1>7 DEF WishHolds, OpHolds
<1> QED  BY <1>7, <1>8, <1>9, <1>10

\* A close is written, a deleted tab is gone.
LEMMA TalkEndsKeeps == ASSUME TalkInv, NEW k \in Kinds, Ends(k) PROVE TalkInv'
<1>0. /\ TalkTyped /\ CalmTalk /\ OpHolds(k) /\ AgentHolds /\ WishHolds
      /\ live \in Lives /\ disk \in Tabs /\ ops \in [Kinds -> TalkOps] /\ ops[k] \in TalkOps
  BY DEF TalkInv, TalkTypes, TalkTyped, CalmTalk
<1>1. ops[k].pc = "end"
  BY DEF Ends
<1>2. /\ TalkTypes' /\ ops' \in [Kinds -> TalkOps] /\ (\A j \in Kinds : j # k => ops'[j] = ops[j])
      /\ stock'.calm = stock.calm /\ stock'.mode = stock.mode
  BY OpTypes, OpMoves DEF OpSteps, TalkInv
<1>3. live.up /\ ~ plan /\ chain = <<>> /\ ~ Quiet /\ ~ Resting
  BY <1>1, Alone
<1>4. live' = live /\ live'.up = live.up /\ plan' = plan /\ chain' = chain /\ wish' = "shut"
  BY DEF Ends
<1>5. ops'[k] = NoOp /\ ops'[k].pc = "none"
  BY <1>0 DEF Ends, Over, Goes, NoOp
<1>6. disk'.state = "closed" /\ ~ disk'.reopen
  BY <1>0 DEF Ends, Closed, Tabs, WishHolds
<1>7. /\ Quiet' <=> ops'[k].pc \in {"none", "wait"}
      /\ Resting' <=> ops'[k].pc = "none"
      /\ AgentHolds' /\ OpHolds(k)' /\ WishHolds' => TalkInv'
  BY <1>1, <1>2, <1>3, <1>4, StillAlone
<1>8. AgentHolds'
  BY <1>0, <1>1, <1>3, <1>4, <1>5, <1>6, <1>7 DEF AgentHolds, OpHolds
<1>9. OpHolds(k)'
  BY <1>0, <1>1, <1>2, <1>3, <1>4, <1>5, <1>6 DEF OpHolds
<1>10. WishHolds'
  BY <1>0, <1>1, <1>2, <1>3, <1>4, <1>5, <1>6, <1>7 DEF WishHolds
<1> QED  BY <1>7, <1>8, <1>9, <1>10

\* A request goes on when every hook posted before it has been followed, and is refused without a trace.
LEMMA TalkReadsKeeps == ASSUME TalkInv, NEW k \in Kinds, Reads(k) PROVE TalkInv'
<1>0. /\ TalkTyped /\ CalmTalk /\ OpHolds(k) /\ AgentHolds /\ WishHolds /\ ChainHolds
      /\ live \in Lives /\ disk \in Tabs /\ ops \in [Kinds -> TalkOps] /\ ops[k] \in TalkOps
  BY DEF TalkInv, TalkTypes, TalkTyped, CalmTalk
<1>1. ops[k].pc = "wait" /\ Waited(k)
  BY DEF Reads
<1>2. /\ TalkTypes' /\ ops' \in [Kinds -> TalkOps] /\ (\A j \in Kinds : j # k => ops'[j] = ops[j])
      /\ stock'.calm = stock.calm /\ stock'.mode = stock.mode
  BY OpTypes, OpMoves DEF OpSteps, TalkInv
<1>3. live.up /\ ~ plan /\ Quiet /\ ~ Resting /\ chain = <<>>
  <2>1. live.up /\ ~ plan /\ Quiet /\ ~ Resting
    BY <1>1, Alone
  <2>2. ASSUME chain # <<>> PROVE FALSE
    <3>1. Len(chain) \in 1..Len(chain) /\ chain[Len(chain)] \in Hooks
      BY <1>0, <2>2 DEF TalkTyped
    <3>2. chain[Len(chain)].id > ops[k].upto /\ chain[Len(chain)].id <= ops[k].upto
      BY <1>0, <1>1, <2>2, <3>1 DEF Waited, ChainHolds
    <3>3. chain[Len(chain)].id \in Nat /\ ops[k].upto \in Nat
      BY <1>0, <3>1 DEF Hooks, TalkOps
    <3> QED  BY <3>2, <3>3
  <2> QED  BY <2>1, <2>2
<1>4. live' = live /\ live'.up = live.up /\ plan' = plan /\ chain' = chain /\ wish' = wish /\ chosen' = chosen
      /\ disk' = disk
  BY DEF Reads
<1>5. \/ /\ ops'[k] = NoOp /\ ops'[k].pc = "none"
         /\ ~ disk.exists \/ (k \in {"reopen", "close"} /\ disk.thread = 0)
      \/ /\ ops'[k].pc = "stop" /\ ops'[k].was = ops[k].was /\ (k # "open" => ops'[k].thread = disk.thread)
         /\ (k = "reopen" => disk.thread # 0)
  <2> DEFINE refused == \/ ~ disk.exists
                        \/ k = "reopen" /\ disk.thread = 0
                        \/ k = "close" /\ disk.thread = 0 /\ ~ (disk.state = "ready" /\ live.proc)
             req == [ops[k] EXCEPT !.pc = "stop", !.thread = IF k = "open" THEN 0 ELSE disk.thread]
  <2>1. CASE refused
    <3>1. Over(k)
      BY <2>1 DEF Reads
    <3>2. ops'[k] = NoOp /\ ops'[k].pc = "none"
      BY <1>0, <3>1 DEF Over, Goes, NoOp
    <3>3. ~ disk.exists \/ (k \in {"reopen", "close"} /\ disk.thread = 0)
      BY <2>1
    <3> HIDE DEF req, refused
    <3> QED  BY <3>2, <3>3
  <2>2. CASE ~ refused
    <3>1. Goes(k, req)
      BY <2>2 DEF Reads
    <3>2. req.pc = "stop" /\ req.was = ops[k].was /\ (k # "open" => req.thread = disk.thread)
      BY <1>0 DEF TalkOps
    <3>3. k = "reopen" => disk.thread # 0
      BY <2>2
    <3> HIDE DEF req, refused
    <3>4. ops'[k] = req
      BY <1>0, <3>1 DEF Goes
    <3> QED  BY <3>2, <3>3, <3>4
  <2> QED  BY <2>1, <2>2
<1>6. disk.exists = TRUE \/ disk.exists = FALSE
  BY <1>0 DEF Tabs
<1>7. /\ Quiet' <=> ops'[k].pc \in {"none", "wait"}
      /\ Resting' <=> ops'[k].pc = "none"
      /\ AgentHolds' /\ OpHolds(k)' /\ WishHolds' => TalkInv'
  BY <1>1, <1>2, <1>3, <1>4, StillAlone
<1>8. AgentHolds'
  BY <1>0, <1>1, <1>3, <1>4, <1>5, <1>6, <1>7 DEF AgentHolds
<1>9. OpHolds(k)'
  BY <1>0, <1>1, <1>2, <1>3, <1>4, <1>5, <1>6 DEF OpHolds
<1>10. WishHolds'
  BY <1>0, <1>1, <1>2, <1>3, <1>4, <1>5, <1>6, <1>7 DEF WishHolds
<1> QED  BY <1>7, <1>8, <1>9, <1>10

\* A request that begins keeps the types.
LEMMA AskedTypes ==
    ASSUME TalkTypes, NEW k \in Kinds, Begin(k), stock' \in TalkLoad, plan' \in BOOLEAN,
           UNCHANGED <<disk, live, chain, wish, chosen>>
    PROVE  TalkTypes'
<1>0. TalkTyped /\ ThreadsNamed
  BY DEF TalkTypes
<1>1. /\ ops' \in [Kinds -> TalkOps] /\ ops'[k].thread = 0
      /\ \A j \in Kinds : j # k => ops'[j] = ops[j]
  BY <1>0, BeginTo
<1>2. OpsNamed'
  BY <1>0, <1>1 DEF ThreadsNamed, OpsNamed, TalkTyped, Lives
<1>3. ChainNamed'
  BY <1>0 DEF ThreadsNamed, ChainNamed
<1> QED  BY <1>0, <1>1, <1>2, <1>3 DEF TalkTypes, TalkTyped, ThreadsNamed

\* A request comes to a tab that is at rest.
LEMMA BeginKeeps ==
    ASSUME TalkInv, NEW k \in Kinds, Begin(k), stock' \in TalkLoad, stock'.calm = stock.calm, stock'.mode = stock.mode,
           plan' = FALSE, UNCHANGED <<disk, live, chain, wish, chosen>>,
           Resting, live.up, k = "reopen" \/ ~ plan
    PROVE  TalkInv'
<1>0. /\ TalkTyped /\ CalmTalk /\ OneAtATime /\ AgentHolds /\ WishHolds /\ ChainHolds /\ ChainNamed
  BY DEF TalkInv, TalkTypes, TalkTyped, CalmTalk, ThreadsNamed
<1>1. TalkTypes'
  BY AskedTypes DEF TalkInv
<1>2. /\ ops'[k].pc = "wait" /\ ops'[k].upto = LastSwitch /\ ops'[k].was = disk.state
      /\ \A j \in Kinds : j # k => ops'[j].pc = "none"
  BY <1>0, BeginTo DEF Resting
<1>3. Quiet /\ Quiet' /\ ~ Resting'
  BY <1>2 DEF Quiet, Resting
<1>4. OneAtATime'
  BY <1>0, <1>2 DEF OneAtATime
<1>5. ChainHolds'
  <2>1. chain # <<>> => LastSwitch = chain[Len(chain)].id
    BY DEF LastSwitch, Last
  <2>2. chain # <<>> => chain[Len(chain)].id <= LastSwitch
    <3>1. chain # <<>> => Len(chain) \in 1..Len(chain)
      BY <1>0 DEF TalkTyped
    <3> QED  BY <1>0, <2>1, <3>1 DEF ChainNamed
  <2> QED  BY <1>0, <1>2, <1>3, <2>2 DEF ChainHolds
<1>6. AgentHolds'
  BY <1>0, <1>3 DEF AgentHolds
<1>7. \A j \in Kinds : OpHolds(j)'
  <2>1. wish = "shut" => disk.state = "closed"
    BY <1>0, <1>3 DEF WishHolds
  <2> QED  BY <1>2, <2>1 DEF OpHolds
<1>8. WishHolds'
  BY <1>0, <1>3 DEF WishHolds
<1> QED  BY <1>1, <1>4, <1>5, <1>6, <1>7, <1>8 DEF TalkInv, CalmTalk

\* The user asks for something: nothing else is under way.
LEMMA AskedKeeps == ASSUME TalkInv, NEW k \in Kinds, Asked(k) PROVE TalkInv'
<1>1. stock' \in TalkLoad /\ stock'.calm = stock.calm /\ stock'.mode = stock.mode
  BY TakesTyped DEF Asked, TalkInv, TalkTypes, TalkTyped, Kinds
<1>2. Begin(k) /\ plan = FALSE /\ plan' = FALSE /\ Resting /\ live.up /\ UNCHANGED <<disk, live, chain, wish, chosen>>
  BY DEF Asked, Calm, TalkInv, TalkTypes, TalkTyped
<1> QED  BY <1>1, <1>2, BeginKeeps

\* The restore begins, of a tab that there is.
LEMMA RestoresKeeps == ASSUME TalkInv, Restores PROVE TalkInv'
<1>0. Resting /\ live.up
  BY DEF Restores, TalkInv, CalmTalk, OneAtATime
<1>1. "reopen" \in Kinds /\ ops["reopen"].pc = "none"
  BY <1>0 DEF Kinds, Resting
<1>2. CASE Begin("reopen")
  BY <1>0, <1>1, <1>2, BeginKeeps DEF Restores, TalkInv, TalkTypes, TalkTyped
<1>3. CASE ~ disk.exists /\ UNCHANGED ops
  <2>1. plan' = FALSE /\ UNCHANGED <<disk, live, ops, chain, wish, chosen, stock>>
    BY <1>3 DEF Restores
  <2>2. TalkTypes'
    BY <2>1 DEF TalkInv, TalkTypes, TalkTyped, ThreadsNamed, OpsNamed, ChainNamed
  <2>3. CalmTalk'
    BY <1>3, <2>1 DEF TalkInv, CalmTalk, OneAtATime, ChainHolds, AgentHolds, OpHolds, WishHolds, Resting, Quiet
  <2> QED  BY <2>1, <2>2, <2>3 DEF TalkInv
<1> QED  BY <1>1, <1>2, <1>3 DEF Restores

\* The server's own steps leave the requests as they are, or end them all.
LEMMA RestTypes ==
    ASSUME TalkTypes, disk' \in Tabs, live' \in Lives, stock' \in TalkLoad, plan' \in BOOLEAN,
           chain' \in Seq(Hooks), wish' \in {"none", "open", "shut"}, chosen' \in Nat,
           live'.named = live.named \/ live'.named = live.named + 1,
           disk'.thread <= live'.named, live'.thread <= live'.named, chosen' <= live'.named, ChainNamed',
           ops' = ops \/ ops' = [k \in Kinds |-> NoOp]
    PROVE  TalkTypes'
<1>0. TalkTyped /\ ThreadsNamed
  BY DEF TalkTypes
<1>1. ops' \in [Kinds -> TalkOps]
  BY <1>0 DEF TalkTyped, TalkOps, NoOp, OpPlaces
<1>2. OpsNamed'
  <2>1. ASSUME NEW k \in Kinds PROVE ops'[k].thread <= live'.named
    <3>1. ops[k].thread \in Nat /\ ops[k].thread <= live.named /\ live.named \in Nat
      BY <1>0 DEF TalkTyped, ThreadsNamed, OpsNamed, Lives, TalkOps
    <3>2. ops'[k].thread = ops[k].thread \/ ops'[k].thread = 0
      BY DEF NoOp
    <3> QED  BY <3>1, <3>2
  <2> QED  BY <2>1 DEF OpsNamed
<1> QED  BY <1>1, <1>2 DEF TalkTypes, TalkTyped, ThreadsNamed

\* The agent shows another thread, and posts a hook of it.
LEMMA SwitchTypes == ASSUME TalkTypes, AgentSwitches PROVE TalkTypes' /\ chain' # <<>>
<1>0. TalkTyped /\ ThreadsNamed
  BY DEF TalkTypes
<1>1. live \in Lives /\ live.named \in Nat /\ live.named + 1 \in Nat /\ live.mgr \in Nat /\ chain \in Seq(Hooks)
  BY <1>0 DEF TalkTyped, Lives
<1>2. live' \in Lives /\ live'.named = live.named + 1 /\ live'.thread = live.named + 1
  BY <1>1 DEF AgentSwitches, Lives
<1> DEFINE e == [id |-> live.named + 1, mgr |-> live.mgr, thread |-> live.named + 1, pc |-> "queued"]
<1>3. e \in Hooks /\ e.id = live.named + 1 /\ e.thread = live.named + 1 /\ e.pc = "queued"
  BY <1>1 DEF Hooks
<1>4. chain' = Append(chain, e)
  BY DEF AgentSwitches
<1> HIDE DEF e
<1>5. chain' \in Seq(Hooks) /\ Len(chain') = Len(chain) + 1 /\ chain'[Len(chain')] = e
      /\ \A i \in 1..Len(chain) : chain'[i] = chain[i]
  BY <1>1, <1>3, <1>4
<1>6. ChainNamed'
  <2>1. ASSUME NEW i \in 1..Len(chain')
        PROVE /\ chain'[i].thread = chain'[i].id /\ 1 <= chain'[i].id /\ chain'[i].id <= live'.named
              /\ chain'[i].id <= chain'[Len(chain')].id
              /\ i > 1 => chain'[i].pc = "queued"
    <3>1. CASE i \in 1..Len(chain)
      <4>1. chain[i] \in Hooks /\ chain[i].thread = chain[i].id /\ 1 <= chain[i].id /\ chain[i].id <= live.named
            /\ (i > 1 => chain[i].pc = "queued")
        BY <1>0, <1>1, <3>1 DEF ThreadsNamed, ChainNamed
      <4>2. chain[i].id \in Nat
        BY <4>1 DEF Hooks
      <4>3. chain[i].id <= live.named + 1
        BY <1>1, <4>1, <4>2
      <4> QED  BY <1>2, <1>3, <1>5, <3>1, <4>1, <4>3
    <3>2. CASE i \notin 1..Len(chain)
      <4>1. i = Len(chain') /\ chain'[i] = e
        BY <1>5, <3>2
      <4> QED  BY <1>1, <1>2, <1>3, <1>5, <4>1
    <3> QED  BY <3>1, <3>2
  <2> QED  BY <2>1 DEF ChainNamed
<1>7. stock' \in TalkLoad
  BY <1>0, TakesTyped DEF AgentSwitches, TalkTyped
<1>8. disk' = disk /\ plan' = plan /\ wish' = wish /\ chosen' = live.named + 1 /\ ops' = ops
  BY DEF AgentSwitches
<1>9. disk'.thread <= live'.named /\ live'.thread <= live'.named /\ chosen' <= live'.named
  <2>1. disk.thread \in Nat /\ disk.thread <= live.named
    BY <1>0 DEF TalkTyped, Tabs, ThreadsNamed
  <2> QED  BY <1>1, <1>2, <1>8, <2>1
<1>10. TalkTypes'
  BY <1>0, <1>1, <1>2, <1>5, <1>6, <1>7, <1>8, <1>9, RestTypes DEF TalkTyped
<1> QED  BY <1>1, <1>5, <1>10

\* A hook is looked at, or followed: the rest of the chain is as it was.
LEMMA RestOfChain ==
    ASSUME chain \in Seq(Hooks), chain # <<>>, ChainNamed, live'.named = live.named,
           \/ chain' = Tail(chain)
           \/ chain' = <<[Head(chain) EXCEPT !.pc = "frozen"]>> \o Tail(chain)
    PROVE  /\ chain' \in Seq(Hooks) /\ ChainNamed'
           /\ chain' # <<>> => /\ chain'[Len(chain')].id = chain[Len(chain)].id
                               /\ chain'[Len(chain')].thread = chain[Len(chain)].thread
           /\ chain' = <<>> => Head(chain) = chain[Len(chain)]
           /\ \A i \in 1..Len(chain') : \E j \in 1..Len(chain) : chain'[i].mgr = chain[j].mgr
<1>0. Len(chain) \in Nat /\ Len(chain) >= 1 /\ Head(chain) = chain[1] /\ chain[1] \in Hooks
  OBVIOUS
<1>1. CASE chain' = Tail(chain)
  <2>1. chain' \in Seq(Hooks) /\ Len(chain') = Len(chain) - 1
        /\ \A i \in 1..Len(chain') : chain'[i] = chain[i + 1] /\ i + 1 \in 1..Len(chain)
    BY <1>0, <1>1
  <2>2. chain' # <<>> => chain'[Len(chain')] = chain[Len(chain)]
    BY <1>0, <2>1
  <2>3. ASSUME NEW i \in 1..Len(chain')
        PROVE /\ chain'[i].thread = chain'[i].id /\ 1 <= chain'[i].id /\ chain'[i].id <= live'.named
              /\ chain'[i].id <= chain'[Len(chain')].id /\ chain'[i].pc = "queued"
    <3>1. i + 1 \in 1..Len(chain) /\ i + 1 > 1 /\ chain'[i] = chain[i + 1] /\ chain' # <<>>
      BY <2>1
    <3>2. /\ chain[i + 1].thread = chain[i + 1].id /\ 1 <= chain[i + 1].id /\ chain[i + 1].id <= live.named
          /\ chain[i + 1].id <= chain[Len(chain)].id /\ chain[i + 1].pc = "queued"
      BY <3>1 DEF ChainNamed
    <3> QED  BY <2>2, <3>1, <3>2
  <2>4. ChainNamed'
    BY <2>3 DEF ChainNamed
  <2>5. chain' = <<>> => Head(chain) = chain[Len(chain)]
    BY <1>0, <2>1
  <2>6. \A i \in 1..Len(chain') : \E j \in 1..Len(chain) : chain'[i].mgr = chain[j].mgr
    BY <2>1
  <2> QED  BY <2>1, <2>2, <2>4, <2>5, <2>6
<1>2. CASE chain' = <<[Head(chain) EXCEPT !.pc = "frozen"]>> \o Tail(chain)
  <2> DEFINE e == [chain[1] EXCEPT !.pc = "frozen"]
  <2>1. e \in Hooks /\ e.id = chain[1].id /\ e.thread = chain[1].thread /\ e.mgr = chain[1].mgr
    BY <1>0 DEF Hooks
  <2>2. chain' = <<e>> \o Tail(chain)
    BY <1>0, <1>2
  <2> HIDE DEF e
  <2>3. chain' \in Seq(Hooks) /\ Len(chain') = Len(chain) /\ chain'[1] = e
        /\ \A i \in 2..Len(chain') : chain'[i] = chain[i]
    BY <1>0, <2>1, <2>2
  <2>4. \A i \in 1..Len(chain) : chain'[i].id = chain[i].id /\ chain'[i].thread = chain[i].thread
        /\ chain'[i].mgr = chain[i].mgr
                                 /\ (i > 1 => chain'[i] = chain[i])
    BY <1>0, <2>1, <2>3
  <2>5. ChainNamed'
    BY <1>0, <2>3, <2>4 DEF ChainNamed
  <2>6. chain' # <<>> /\ Len(chain) \in 1..Len(chain)
    BY <1>0, <2>3
  <2> QED  BY <2>3, <2>4, <2>5, <2>6
<1> QED  BY <1>1, <1>2

\* The agent shows another thread, in a tab that is ready.
LEMMA AgentSwitchesKeeps == ASSUME TalkInv, AgentSwitches PROVE TalkInv'
<1>0. /\ TalkTyped /\ OneAtATime /\ AgentHolds /\ WishHolds /\ ChainHolds /\ ChainNamed
      /\ live \in Lives /\ disk \in Tabs /\ chain \in Seq(Hooks)
  BY DEF TalkInv, TalkTypes, TalkTyped, CalmTalk, ThreadsNamed
<1>1. TalkTypes' /\ chain' # <<>> /\ stock'.calm = stock.calm /\ stock'.mode = stock.mode
  BY <1>0, SwitchTypes, TakesTyped DEF AgentSwitches, TalkInv, TalkTyped
<1>2. live.up /\ live.proc /\ ~ live.asks /\ Resting /\ ~ plan /\ UNCHANGED <<disk, ops, plan, wish>>
      /\ chosen' = live.named + 1
  BY DEF AgentSwitches, Calm, TalkInv
<1>3. live'.up = live.up /\ live'.proc = live.proc /\ live'.lease = live.lease /\ live'.mgr = live.mgr
      /\ live'.thread = live.named + 1
  BY <1>0 DEF AgentSwitches, Lives
<1>4. Quiet /\ Quiet' /\ Resting'
  BY <1>2 DEF Quiet, Resting
<1>5. disk.state = "ready" /\ disk.exists
  BY <1>0, <1>2, <1>4 DEF AgentHolds, WishHolds, Tabs, TabStates
<1> DEFINE e == [id |-> live.named + 1, mgr |-> live.mgr, thread |-> live.named + 1, pc |-> "queued"]
<1>6. e \in Hooks /\ e.thread = live.named + 1 /\ e.mgr = live.mgr
  BY <1>0 DEF Hooks, Lives
<1>7. chain' = Append(chain, e)
  BY DEF AgentSwitches
<1> HIDE DEF e
<1>8. Len(chain') = Len(chain) + 1 /\ chain'[Len(chain')] = e
      /\ \A i \in 1..Len(chain') : chain'[i] = e \/ (i \in 1..Len(chain) /\ chain'[i] = chain[i])
  BY <1>0, <1>6, <1>7
<1>9. OneAtATime'
  BY <1>0, <1>1, <1>2, <1>3, <1>4 DEF OneAtATime
<1>10. ChainHolds'
  <2>1. \A i \in 1..Len(chain') : chain'[i].mgr = live'.mgr
    <3>1. chain # <<>> \/ Len(chain) = 0
      BY <1>0
    <3> QED  BY <1>0, <1>3, <1>6, <1>8, <3>1 DEF ChainHolds
  <2>2. \A k \in Kinds : ops'[k].pc # "wait"
    BY <1>2 DEF Resting
  <2> QED  BY <1>2, <1>3, <1>4, <1>5, <1>6, <1>8, <2>1, <2>2 DEF ChainHolds
<1>11. AgentHolds'
  BY <1>0, <1>1, <1>2, <1>3, <1>5 DEF AgentHolds
<1>12. \A k \in Kinds : OpHolds(k)'
  BY <1>2 DEF OpHolds, Resting
<1>13. WishHolds'
  BY <1>0, <1>1, <1>2, <1>3, <1>4, <1>5 DEF WishHolds
<1> QED  BY <1>1, <1>9, <1>10, <1>11, <1>12, <1>13 DEF TalkInv, CalmTalk

\* The head of the chain is looked at; the last hook leaves the tab on the thread the agent shows.
LEMMA ChecksKeeps == ASSUME TalkInv, SwitchChecks PROVE TalkInv'
<1>0. /\ TalkTyped /\ TalkTypes /\ OneAtATime /\ AgentHolds /\ WishHolds /\ ChainHolds /\ ChainNamed /\ CalmTalk
      /\ live \in Lives /\ disk \in Tabs /\ chain \in Seq(Hooks) /\ chain # <<>>
  BY DEF TalkInv, TalkTypes, TalkTyped, CalmTalk, ThreadsNamed, SwitchChecks
<1>1. UNCHANGED <<disk, live, ops, plan, wish, chosen, stock>>
  BY DEF SwitchChecks
<1>2. \/ chain' = Tail(chain) /\ ~ Due(Head(chain))
      \/ chain' = <<[Head(chain) EXCEPT !.pc = "frozen"]>> \o Tail(chain)
  BY DEF SwitchChecks
<1>3. /\ chain' \in Seq(Hooks) /\ ChainNamed'
      /\ chain' # <<>> => /\ chain'[Len(chain')].id = chain[Len(chain)].id
                          /\ chain'[Len(chain')].thread = chain[Len(chain)].thread
      /\ chain' = <<>> => Head(chain) = chain[Len(chain)]
      /\ \A i \in 1..Len(chain') : \E j \in 1..Len(chain) : chain'[i].mgr = chain[j].mgr
  BY <1>0, <1>1, <1>2, RestOfChain
<1>4. TalkTypes'
  BY <1>0, <1>1, <1>3 DEF TalkTypes, TalkTyped, ThreadsNamed, OpsNamed
<1>5. chain' = <<>> => disk.thread = chosen
  <2>1. ASSUME chain' = <<>> PROVE disk.thread = chosen
    <3>1. ~ Due(Head(chain)) /\ Head(chain) = chain[Len(chain)] /\ Len(chain) \in 1..Len(chain)
      <4>1. chain' # <<[Head(chain) EXCEPT !.pc = "frozen"]>> \o Tail(chain)
        BY <1>0, <2>1
      <4> QED  BY <1>0, <1>2, <1>3, <2>1, <4>1
    <3>2. Current(Head(chain)) /\ disk.exists /\ disk.state = "ready" /\ Head(chain).thread = chosen
      BY <1>0, <3>1 DEF Current, ChainHolds
    <3>3. stock.mode = "server" => disk.thread # 0
      BY <1>0, <3>2 DEF WishHolds
    <3> QED  BY <3>1, <3>2, <3>3 DEF Due
  <2> QED  BY <2>1
<1>6. OneAtATime'
  BY <1>0, <1>1 DEF OneAtATime, ChainHolds, Resting
<1>7. ChainHolds'
  <2>1. ASSUME chain' # <<>> PROVE ChainHolds'
    <3>1. \A i \in 1..Len(chain') : chain'[i].mgr = live'.mgr
      BY <1>0, <1>1, <1>3 DEF ChainHolds
    <3> QED  BY <1>0, <1>1, <1>3, <2>1, <3>1 DEF ChainHolds, Quiet
  <2> QED  BY <2>1 DEF ChainHolds
<1>8. AgentHolds'
  BY <1>0, <1>1, <1>5 DEF AgentHolds, Quiet
<1>9. \A k \in Kinds : OpHolds(k)'
  BY <1>0, <1>1 DEF CalmTalk, OpHolds
<1>10. WishHolds'
  BY <1>0, <1>1 DEF WishHolds, Quiet, Resting
<1> QED  BY <1>1, <1>4, <1>6, <1>7, <1>8, <1>9, <1>10 DEF TalkInv, CalmTalk

\* A hook is followed: the tab is on its thread, and comes back to it.
LEMMA WritesKeeps == ASSUME TalkInv, SwitchWrites PROVE TalkInv'
<1>0. /\ TalkTyped /\ TalkTypes /\ OneAtATime /\ AgentHolds /\ WishHolds /\ ChainHolds /\ ChainNamed /\ CalmTalk
      /\ live \in Lives /\ disk \in Tabs /\ chain \in Seq(Hooks) /\ chain # <<>>
  BY DEF TalkInv, TalkTypes, TalkTyped, CalmTalk, ThreadsNamed, SwitchWrites
<1> DEFINE e == Head(chain)
<1>1. UNCHANGED <<live, ops, plan, chosen, stock>> /\ chain' = Tail(chain)
  BY DEF SwitchWrites
<1>2. e \in Hooks /\ e = chain[1] /\ 1 \in 1..Len(chain)
  BY <1>0
<1>3. e.thread \in Nat /\ 1 <= e.thread /\ e.thread <= live.named /\ e.mgr = live.mgr /\ disk.exists
      /\ disk.state = "ready"
      /\ live.up /\ Quiet
  BY <1>0, <1>2 DEF ChainNamed, ChainHolds, Hooks
<1> HIDE DEF e
<1>11. wish # "shut" /\ (stock.mode = "server" => disk.reopen)
  BY <1>0, <1>3 DEF WishHolds
<1>4. /\ disk'.exists /\ disk'.state = "ready" /\ disk'.thread = e.thread /\ disk' \in Tabs
      /\ disk'.reopen
      /\ wish' = IF wish = "none" THEN "open" ELSE wish
  <2>1. ~ (disk.exists => (stock.mode = "server" /\ ~ Current(e)))
    BY <1>3 DEF Current
  <2>2. disk' = (IF stock.mode = "server" THEN [disk EXCEPT !.state = "ready", !.thread = e.thread] ELSE Ready(disk, e.thread))
        /\ wish' = IF wish = "none" THEN "open" ELSE wish
    BY <2>1 DEF SwitchWrites, e
  <2>3. CASE stock.mode = "server"
    BY <1>0, <1>3, <1>11, <2>2, <2>3 DEF Tabs, TabStates
  <2>4. CASE stock.mode # "server"
    BY <1>0, <1>3, <2>2, <2>4 DEF Tabs, TabStates, Ready
  <2> QED  BY <2>3, <2>4
<1>5. /\ chain' \in Seq(Hooks) /\ ChainNamed'
      /\ chain' # <<>> => /\ chain'[Len(chain')].id = chain[Len(chain)].id
                          /\ chain'[Len(chain')].thread = chain[Len(chain)].thread
      /\ chain' = <<>> => e = chain[Len(chain)]
      /\ \A i \in 1..Len(chain') : \E j \in 1..Len(chain) : chain'[i].mgr = chain[j].mgr
  BY <1>0, <1>1, RestOfChain DEF e
<1>6. TalkTypes'
  BY <1>0, <1>1, <1>3, <1>4, <1>5 DEF TalkTypes, TalkTyped, ThreadsNamed, OpsNamed
<1>7. chain' = <<>> => disk'.thread = chosen
  BY <1>0, <1>4, <1>5 DEF ChainHolds
<1>8. OneAtATime'
  BY <1>0, <1>1 DEF OneAtATime, ChainHolds, Resting
<1>9. ChainHolds'
  <2>1. ASSUME chain' # <<>> PROVE ChainHolds'
    <3>1. \A i \in 1..Len(chain') : chain'[i].mgr = live'.mgr
      BY <1>0, <1>1, <1>5 DEF ChainHolds
    <3> QED  BY <1>0, <1>1, <1>4, <1>5, <2>1, <3>1 DEF ChainHolds, Quiet
  <2> QED  BY <2>1 DEF ChainHolds
<1>10. AgentHolds'
  BY <1>0, <1>1, <1>3, <1>4, <1>7 DEF AgentHolds, Quiet
<1>12. \A k \in Kinds : OpHolds(k)'
  <2>1. wish' # "shut"
    BY <1>4, <1>11
  <2> QED  BY <1>1, <1>3, <2>1 DEF OpHolds, Quiet
<1>13. WishHolds'
  BY <1>1, <1>3, <1>4, <1>11 DEF WishHolds
<1> QED  BY <1>1, <1>6, <1>8, <1>9, <1>10, <1>12, <1>13 DEF TalkInv, CalmTalk

\* The agent exits: its tab stays as it is, and no hook is posted any more.
LEMMA ExitsKeeps == ASSUME TalkInv, AgentExits PROVE TalkInv'
<1>0. /\ TalkTyped /\ TalkTypes /\ OneAtATime /\ AgentHolds /\ WishHolds /\ ChainHolds /\ ThreadsNamed
         /\ ChainNamed /\ CalmTalk
      /\ live \in Lives
  BY DEF TalkInv, TalkTypes, TalkTyped, CalmTalk, ThreadsNamed
<1>1. /\ UNCHANGED <<disk, ops, chain, plan, wish, chosen>>
      /\ \A k \in Kinds : ops[k].pc \in {"none", "attach"}
  BY DEF AgentExits, TalkInv
<1>2. /\ live' \in Lives /\ live'.proc = FALSE /\ live'.lease = FALSE /\ live'.thread = 0
      /\ live'.up = live.up /\ live'.closing = live.closing /\ live'.mgr = live.mgr /\ live'.named = live.named
  BY <1>0 DEF AgentExits, Lives
<1>3. stock' \in TalkLoad /\ stock'.calm = stock.calm /\ stock'.mode = stock.mode
  BY <1>0, TakesTyped DEF AgentExits, TalkTyped
<1>4. ChainNamed'
  BY <1>0, <1>1, <1>2 DEF ChainNamed
<1>5. TalkTypes'
  <2>1. 0 <= live.named
    BY <1>0 DEF Lives
  <2> QED  BY <1>0, <1>1, <1>2, <1>3, <1>4, <2>1 DEF TalkTypes, TalkTyped, ThreadsNamed, OpsNamed
<1>6. OneAtATime'
  BY <1>0, <1>1, <1>2 DEF OneAtATime, Resting
<1>7. ChainHolds'
  BY <1>0, <1>1, <1>2 DEF ChainHolds, Quiet
<1>8. AgentHolds'
  BY <1>2 DEF AgentHolds
<1>9. \A k \in Kinds : OpHolds(k)'
  BY <1>0, <1>1, <1>2, <1>3 DEF CalmTalk, OpHolds
<1>10. WishHolds'
  BY <1>0, <1>1, <1>2, <1>3 DEF WishHolds, Quiet, Resting
<1> QED  BY <1>3, <1>5, <1>6, <1>7, <1>8, <1>9, <1>10 DEF TalkInv, CalmTalk

\* Nothing of a server that goes is left.
LEMMA GoneTypes ==
    ASSUME TalkTypes, Gone, disk' \in Tabs, disk'.thread = disk.thread, stock' \in TalkLoad, wish' = wish,
           chosen' = chosen \/ chosen' = disk.thread
    PROVE  TalkTypes' /\ live'.up = FALSE /\ live'.closing = FALSE /\ live'.proc = FALSE /\ live'.lease = FALSE
           /\ plan' = FALSE /\ chain' = <<>>
           /\ Resting' /\ Quiet'
<1>0. TalkTyped /\ ThreadsNamed /\ live \in Lives /\ disk \in Tabs
  BY DEF TalkTypes, TalkTyped
<1>1. live' = [Down EXCEPT !.count = live.count, !.named = live.named] /\ chain' = <<>> /\ plan' = FALSE
      /\ ops' = [k \in Kinds |-> NoOp]
  BY DEF Gone
<1>2. live' \in Lives /\ live'.up = FALSE /\ live'.closing = FALSE /\ live'.proc = FALSE /\ live'.lease = FALSE
      /\ live'.named = live.named /\ live'.thread = 0
  BY <1>0, <1>1 DEF Down, Lives
<1>3. ChainNamed' /\ chain' \in Seq(Hooks)
  BY <1>1, EmptySeq DEF ChainNamed
<1>4. Resting' /\ Quiet'
  BY <1>1 DEF Resting, Quiet, NoOp
<1>5. disk'.thread <= live'.named /\ live'.thread <= live'.named /\ chosen' <= live'.named /\ chosen' \in Nat
  BY <1>0, <1>2 DEF ThreadsNamed, TalkTyped, Tabs, Lives
<1>6. TalkTypes'
  BY <1>0, <1>1, <1>2, <1>3, <1>5, RestTypes DEF TalkTyped
<1> QED  BY <1>1, <1>2, <1>4, <1>6

\* A crash leaves what is on disk.
LEMMA CrashesKeeps == ASSUME TalkInv, Crashes PROVE TalkInv'
<1>0. /\ TalkTyped /\ TalkTypes /\ WishHolds /\ disk \in Tabs
  BY DEF TalkInv, TalkTypes, TalkTyped, CalmTalk
<1>1. stock' \in TalkLoad /\ stock'.calm = stock.calm /\ stock'.mode = stock.mode
  BY <1>0, TakesTyped DEF Crashes, TalkTyped
<1>2. Gone /\ disk' = disk /\ wish' = wish /\ chosen' = disk.thread
  BY DEF Crashes
<1>3. TalkTypes' /\ live'.up = FALSE /\ live'.closing = FALSE /\ live'.proc = FALSE /\ live'.lease = FALSE
      /\ plan' = FALSE /\ chain' = <<>>
           /\ Resting' /\ Quiet'
  BY <1>0, <1>1, <1>2, GoneTypes
<1>4. OneAtATime' /\ ChainHolds' /\ AgentHolds'
  BY <1>3 DEF OneAtATime, Resting, ChainHolds, AgentHolds
<1>5. \A k \in Kinds : OpHolds(k)'
  BY <1>3 DEF Resting, OpHolds
<1>6. WishHolds'
  BY <1>0, <1>1, <1>2, <1>3 DEF WishHolds
<1> QED  BY <1>1, <1>3, <1>4, <1>5, <1>6 DEF TalkInv, CalmTalk

\* What is open is recorded when the server stops, and all of what was promised is open then.
LEMMA StopEndsKeeps == ASSUME TalkInv, StopEnds PROVE TalkInv'
<1>0. /\ TalkTyped /\ TalkTypes /\ WishHolds /\ OneAtATime /\ disk \in Tabs /\ plan = FALSE /\ stock' = stock
  BY DEF TalkInv, TalkTypes, TalkTyped, CalmTalk, StopEnds
<1>1. Resting /\ Quiet
  BY DEF StopEnds, TalkInv, Resting, Quiet
<1>2. Gone /\ wish' = wish /\ chosen' = chosen
  BY DEF StopEnds
<1>3. /\ disk' \in Tabs /\ disk'.thread = disk.thread /\ disk'.exists = disk.exists /\ disk'.state = disk.state
      /\ disk'.reopen = (disk.exists /\ disk.thread # 0 /\ disk.state = "ready")
  <2>1. (disk.exists /\ disk.thread # 0 /\ disk.state = "ready") \in BOOLEAN
    OBVIOUS
  <2>2. disk' = [disk EXCEPT !.reopen = (disk.exists /\ disk.thread # 0 /\ disk.state = "ready")]
    BY DEF StopEnds, ForNextLaunch
  <2> QED  BY <1>0, <2>1, <2>2 DEF Tabs
<1>4. TalkTypes' /\ live'.up = FALSE /\ live'.closing = FALSE /\ live'.proc = FALSE /\ live'.lease = FALSE
      /\ plan' = FALSE /\ chain' = <<>>
           /\ Resting' /\ Quiet'
  BY <1>0, <1>2, <1>3, GoneTypes DEF TalkTyped
<1>5. OneAtATime' /\ ChainHolds' /\ AgentHolds'
  BY <1>4 DEF OneAtATime, Resting, ChainHolds, AgentHolds
<1>6. \A k \in Kinds : OpHolds(k)'
  BY <1>4 DEF Resting, OpHolds
<1>7. WishHolds'
  <2>1. live.up
    BY <1>0 DEF StopEnds, OneAtATime
  <2> QED  BY <1>0, <1>1, <1>2, <1>3, <1>4, <2>1 DEF WishHolds
<1> QED  BY <1>0, <1>4, <1>5, <1>6, <1>7 DEF TalkInv, CalmTalk

\* A launch knows what is to come back before it writes that nothing is open.
LEMMA StartsKeeps == ASSUME TalkInv, Starts PROVE TalkInv'
<1>0. /\ TalkTyped /\ TalkTypes /\ ThreadsNamed /\ ChainNamed /\ WishHolds /\ OneAtATime /\ AgentHolds /\ CalmTalk
         /\ disk \in Tabs /\ live \in Lives
  BY DEF TalkInv, TalkTypes, TalkTyped, CalmTalk, ThreadsNamed
<1>1. ~ live.up /\ plan' = Restorable(disk) /\ UNCHANGED <<ops, chain, wish, chosen, stock>>
  BY DEF Starts
<1>2. live' \in Lives /\ live'.up /\ live'.proc = live.proc /\ live'.lease = live.lease /\ live'.mgr = live.mgr
      /\ live'.thread = live.thread /\ live'.named = live.named /\ live'.asks = live.asks
  BY <1>0 DEF Starts, Lives
<1>3. Resting /\ chain = <<>> /\ ~ live.proc /\ Quiet /\ Resting' /\ Quiet'
  BY <1>0, <1>1 DEF OneAtATime, Resting, Quiet
<1>4. /\ disk' \in Tabs /\ disk'.exists = disk.exists /\ disk'.thread = disk.thread /\ disk'.reopen = disk.reopen
      /\ disk'.state = IF disk.state \in {"ready", "connecting"} THEN "closed" ELSE disk.state
  BY <1>0 DEF Starts, Tabs, TabStates
<1>5. plan' \in BOOLEAN /\ (plan' <=> disk.exists /\ disk.thread # 0 /\ (disk.reopen \/ disk.state = "ready"))
  BY <1>1 DEF Restorable
<1>6. ChainNamed'
  BY <1>1, <1>3 DEF ChainNamed
<1>7. TalkTypes'
  BY <1>0, <1>1, <1>2, <1>4, <1>5, <1>6 DEF TalkTypes, TalkTyped, ThreadsNamed, OpsNamed
<1>8. OneAtATime' /\ ChainHolds'
  BY <1>0, <1>1, <1>2, <1>3 DEF OneAtATime, Resting, ChainHolds
<1>9. AgentHolds'
  BY <1>0, <1>2, <1>3 DEF AgentHolds
<1>10. \A k \in Kinds : OpHolds(k)'
  BY <1>3 DEF Resting, OpHolds
<1>11. WishHolds'
  BY <1>0, <1>1, <1>3, <1>4, <1>5 DEF WishHolds
<1> QED  BY <1>1, <1>7, <1>8, <1>9, <1>10, <1>11 DEF TalkInv, CalmTalk

\* A stop begins by refusing requests.
LEMMA StopBeginsKeeps == ASSUME TalkInv, StopBegins \/ UNCHANGED convVars PROVE TalkInv'
<1>0. /\ TalkTyped /\ TalkTypes /\ ThreadsNamed /\ ChainNamed /\ CalmTalk /\ live \in Lives
  BY DEF TalkInv, TalkTypes, TalkTyped, CalmTalk, ThreadsNamed
<1>1. UNCHANGED <<disk, ops, chain, plan, wish, chosen>>
  BY DEF StopBegins, convVars
<1>2. live' \in Lives /\ live'.up = live.up /\ live'.proc = live.proc /\ live'.lease = live.lease
      /\ live'.mgr = live.mgr
      /\ live'.thread = live.thread /\ live'.named = live.named /\ live'.asks = live.asks
      /\ (live'.closing => live'.up \/ live.closing)
  BY <1>0 DEF StopBegins, convVars, Lives
<1>3. stock' \in TalkLoad /\ stock'.calm = stock.calm /\ stock'.mode = stock.mode
  BY <1>0, TakesTyped DEF StopBegins, convVars, TalkTyped
<1>4. ChainNamed'
  BY <1>0, <1>1, <1>2 DEF ChainNamed
<1>5. TalkTypes'
  BY <1>0, <1>1, <1>2, <1>3, <1>4 DEF TalkTypes, TalkTyped, ThreadsNamed, OpsNamed
<1>6. OneAtATime' /\ ChainHolds' /\ AgentHolds'
  BY <1>0, <1>1, <1>2, <1>3 DEF CalmTalk, OneAtATime, ChainHolds, AgentHolds, Quiet, Resting
<1>7. \A k \in Kinds : OpHolds(k)'
  BY <1>0, <1>1, <1>2, <1>3 DEF CalmTalk, OpHolds
<1>8. WishHolds'
  BY <1>0, <1>1, <1>2, <1>3 DEF CalmTalk, WishHolds, Quiet, Resting
<1> QED  BY <1>3, <1>5, <1>6, <1>7, <1>8 DEF TalkInv, CalmTalk

\* A new tab.
LEMMA TalkStarts == ConversationInit => TalkTypes /\ CalmTalk
<1> SUFFICES ASSUME ConversationInit
             PROVE  TalkTypes /\ CalmTalk
  OBVIOUS
<1>1. disk = [exists |-> TRUE, state |-> "disconnected", thread |-> 0, reopen |-> FALSE]
      /\ live = [Down EXCEPT !.up = TRUE]
      /\ ops = [k \in Kinds |-> NoOp] /\ chain = <<>> /\ plan = FALSE /\ wish = "none" /\ chosen = 0
         /\ stock \in TalkLoad
  BY TalksAssumption DEF ConversationInit, TalkLoad
<1>2. disk \in Tabs /\ disk.exists /\ disk.state = "disconnected" /\ disk.thread = 0 /\ ~ disk.reopen
  BY <1>1 DEF Tabs, TabStates
<1>3. live \in Lives /\ live.up /\ live.proc = FALSE /\ live.lease = FALSE /\ live.thread = 0 /\ live.named = 0
  BY <1>1 DEF Lives, Down
<1>4. ops \in [Kinds -> TalkOps] /\ \A k \in Kinds : ops[k].pc = "none" /\ ops[k].thread = 0
  BY <1>1 DEF NoOp, TalkOps, OpPlaces
<1>5. chain \in Seq(Hooks) /\ ChainNamed
  BY <1>1, EmptySeq DEF ChainNamed
<1>6. TalkTypes
  <2>1. OpsNamed
    BY <1>3, <1>4 DEF OpsNamed
  <2>2. disk.thread <= live.named /\ live.thread <= live.named /\ chosen <= live.named
    BY <1>1, <1>2, <1>3
  <2>3. TalkTyped
    BY <1>1, <1>2, <1>3, <1>4, <1>5 DEF TalkTyped
  <2> QED  BY <1>5, <2>1, <2>2, <2>3 DEF TalkTypes, ThreadsNamed
<1>7. CalmTalk
  BY <1>1, <1>2, <1>3, <1>4 DEF CalmTalk, OneAtATime, ChainHolds, AgentHolds, OpHolds, WishHolds, Resting, Quiet
<1> QED  BY <1>6, <1>7

\* A load stays a load, calm or not.
LEMMA TalkLoadStays ==
    ASSUME stock \in TalkLoad, [ConversationNext]_convVars
    PROVE  stock' \in TalkLoad /\ stock'.calm = stock.calm
<1>1. CASE \E what \in {"open", "reopen", "close", "delete", "switches", "failures", "questions", "exits", "crashes", "stops"} :
             Takes(what)
  BY <1>1, TakesTyped
<1>2. CASE stock' = stock
  BY <1>2
<1>3. ASSUME NEW k \in Kinds, Asked(k) PROVE Takes(k) /\ k \in {"open", "reopen", "close", "delete"}
  BY <1>3 DEF Asked, Kinds
<1>4. ASSUME NEW k \in Kinds, OpSteps(k) PROVE stock' = stock \/ Takes("failures") \/ Takes("questions")
  BY <1>4 DEF OpSteps, Reads, Stops, Marks, Launches, Attaches, Questions, Readies, Undoes, Fails, Ends
<1>5. CASE Restores \/ SwitchChecks \/ SwitchWrites \/ Starts \/ StopEnds \/ UNCHANGED convVars
  BY <1>2, <1>5 DEF Restores, SwitchChecks, SwitchWrites, Starts, StopEnds, convVars
<1>6. CASE AgentSwitches \/ AgentExits \/ Crashes \/ StopBegins
  BY <1>1, <1>6 DEF AgentSwitches, AgentExits, Crashes, StopBegins
<1> QED  BY <1>1, <1>2, <1>3, <1>4, <1>5, <1>6 DEF ConversationNext

\* Every step keeps the invariant of a calm load.
LEMMA TalkSteps == ASSUME TalkInv, [ConversationNext]_convVars PROVE TalkInv'
<1>1. ASSUME NEW k \in Kinds, Asked(k) \/ OpSteps(k) PROVE TalkInv'
  BY <1>1, AskedKeeps, TalkReadsKeeps, StopsKeeps, MarksKeeps, TalkLaunchesKeeps, AttachesKeeps, QuestionsKeeps,
     TalkReadiesKeeps, UndoesKeeps, TalkFailsKeeps, TalkEndsKeeps DEF OpSteps
<1>2. CASE Restores \/ AgentSwitches \/ SwitchChecks \/ SwitchWrites \/ AgentExits
  BY <1>2, RestoresKeeps, AgentSwitchesKeeps, ChecksKeeps, WritesKeeps, ExitsKeeps
<1>3. CASE Crashes \/ Starts \/ StopBegins \/ StopEnds \/ UNCHANGED convVars
  BY <1>3, CrashesKeeps, StartsKeeps, StopBeginsKeeps, StopEndsKeeps
<1> QED  BY <1>1, <1>2, <1>3 DEF ConversationNext

\* The invariant says what the run checks.
LEMMA TalkImplies == TalkInv => TabTellsTruth /\ ComesBackAsLeft
<1> SUFFICES ASSUME TalkInv
             PROVE  TabTellsTruth /\ ComesBackAsLeft
  OBVIOUS
<1>0. /\ TalkTyped /\ ThreadsNamed /\ ChainNamed /\ AgentHolds /\ WishHolds
      /\ live \in Lives /\ disk \in Tabs /\ chain \in Seq(Hooks) /\ (AtRest => Quiet) /\ (Resting => Quiet)
  BY DEF TalkInv, TalkTypes, TalkTyped, CalmTalk, ThreadsNamed, AtRest, Resting, Quiet
<1>1. ConversationTypes
  <2>1. \A i \in 1..Len(chain) : chain[i].pc \in {"queued", "frozen"} /\ (i > 1 => chain[i].pc = "queued")
    <3>1. \A i \in 1..Len(chain) : chain[i] \in Hooks
      BY <1>0
    <3> QED  BY <1>0, <3>1 DEF ChainNamed, Hooks
  <2>2. disk.thread \in 0..live.named /\ live.thread \in 0..live.named /\ chosen \in 0..live.named
    BY <1>0 DEF ThreadsNamed, Tabs, Lives, TalkTyped
  <2> QED  BY <1>0, <2>1, <2>2 DEF ConversationTypes, TalkTyped, Tabs, TabStates
<1>2. SessionMatchesAgent /\ ThreadFollowsAgent
  BY <1>0 DEF SessionMatchesAgent, ThreadFollowsAgent, AgentHolds, AtRest, Lives
<1>3. ClosedStaysClosed /\ OpenComesBack
  BY <1>0 DEF ClosedStaysClosed, OpenComesBack, WishHolds, AgentHolds, Restorable
<1> QED  BY <1>1, <1>2, <1>3 DEF TabTellsTruth, ComesBackAsLeft

\* Whatever the load and however many threads there are, as long as requests do not overlap: at rest a tab
\* says what is the case, of its agent and of its thread (the routes and their catches, awaitThreadSwitch).
THEOREM TabsTellTruth == ConversationSpec => [](stock.calm => TabTellsTruth)
<1> DEFINE TalkHolds == stock \in TalkLoad /\ (stock.calm => TalkInv)
<1>1. ConversationInit => TalkHolds
  BY TalkStarts DEF TalkInv, TalkTypes, TalkTyped
<1>2. TalkHolds /\ [ConversationNext]_convVars => TalkHolds'
  BY TalkLoadStays, TalkSteps
<1>3. TalkHolds => (stock.calm => TabTellsTruth)
  BY TalkImplies
<1> QED  BY <1>1, <1>2, <1>3, PTL DEF ConversationSpec

\* A launch brings back what was open and nothing that was closed, wherever the server went before it
\* (tabsToRestore, reopenOnLaunch, recordOpenSessionsForNextLaunch, the close route).
THEOREM TabsComeBack == ConversationSpec => [](stock.calm => ComesBackAsLeft)
<1> DEFINE TalkHolds == stock \in TalkLoad /\ (stock.calm => TalkInv)
<1>1. ConversationInit => TalkHolds
  BY TalkStarts DEF TalkInv, TalkTypes, TalkTyped
<1>2. TalkHolds /\ [ConversationNext]_convVars => TalkHolds'
  BY TalkLoadStays, TalkSteps
<1>3. TalkHolds => (stock.calm => ComesBackAsLeft)
  BY TalkImplies
<1> QED  BY <1>1, <1>2, <1>3, PTL DEF ConversationSpec
=============================================================================
