------------------------------- MODULE Projection -------------------------------
(***************************************************************************)
(* The terminal as structured screens (server/terminal-projection.ts,      *)
(* client/terminal-projection.ts).  A stream sends the latest screen: the  *)
(* rows that changed since the last one it sent, a scroll and the rows     *)
(* that changed beyond it, or everything.  It skips screens when the page  *)
(* or its allowance is slow; the page asks for everything when a frame     *)
(* does not follow the one it holds.                                       *)
(***************************************************************************)
EXTENDS Integers, Sequences, FiniteSets, TLC

CONSTANT ScreenLoads   \* bounds: changes and their kinds, looks away, drops, stalls

VARIABLES
  screens,  \* history: the screens of the tab, [gen, size, rows]; the last one is current
  present,  \* a parsed screen exists
  forcing,  \* state events whose forceFull has not run yet
  stream,   \* the stream of the page's socket
  room,     \* what is buffered on the socket: "low", "mid", "high"
  frames,   \* frames on the socket
  asks,     \* messages of the page to the server
  looks,    \* what the page does: "here", "document", "hidden", "offline"
  page,     \* projectionState
  spare     \* what is left of the load

screenVars == <<screens, present, forcing, stream, room, frames, asks, looks, page, spare>>

Rows == 5
NoStream == [id |-> 0, seq |-> 0, previous |-> 0, dirty |-> FALSE, full |-> FALSE,
             recovery |-> FALSE, timer |-> FALSE, taking |-> FALSE]
NoPage0 == [id |-> 0, seq |-> 0, gen |-> 0, size |-> 0, rows |-> <<>>]
Latest == Len(screens)
Least2(a, b) == IF a < b THEN a ELSE b
Most2(a, b) == IF a < b THEN b ELSE a
Pay(what) == spare[what] > 0 /\ spare' = [spare EXCEPT ![what] = @ - 1]

-----------------------------------------------------------------------------
\* The difference of two screens.

ChangedRows(old, new) == {i \in 1..Rows : old[i] # new[i]}

\* applyScroll on the page and dirtyAfterScroll on the server: the rows that moved, and
\* blank rows (-1 has the hash of no row).
Scrolled(rows, s) ==
  [i \in 1..Rows |->
     IF i < s.top \/ i > s.bottom THEN rows[i]
     ELSE IF i + s.lines \in s.top..s.bottom THEN rows[i + s.lines] ELSE -1]

\* detectScroll: a run of at least three rows that moved by the same amount, extended to
\* the region they moved in, and only where it saves two rows.
RunsMoved(old, new, by) ==
  LET Same(i) == i + by \in 1..Rows /\ new[i] = old[i + by]
  IN  {ab \in (1..Rows) \X (1..Rows) :
         /\ ab[2] - ab[1] >= 2
         /\ \A i \in ab[1]..ab[2] : Same(i)
         /\ (ab[1] = 1 \/ ~ Same(ab[1] - 1)) /\ (ab[2] = Rows \/ ~ Same(ab[2] + 1))
         /\ \E i \in ab[1]..ab[2] : old[i] # old[i + by]}
ScrollOf(ab, by) ==
  [top |-> IF by > 0 THEN ab[1] ELSE Most2(1, ab[1] + by),
   bottom |-> IF by > 0 THEN Least2(Rows, ab[2] + by) ELSE ab[2], lines |-> by]
Cost(old, new, s) == Cardinality(ChangedRows(Scrolled(old, s), new))
ScrollsOf(old, new) ==
  {s \in UNION {{ScrollOf(ab, by) : ab \in RunsMoved(old, new, by)} : by \in {-2, -1, 1, 2}} :
     /\ Cardinality(ChangedRows(old, new)) >= 3
     /\ Cost(old, new, s) <= Cardinality(ChangedRows(old, new)) - 2}
NoScroll == [top |-> 0, bottom |-> 0, lines |-> 0]
BestScroll(old, new) ==
  LET S == ScrollsOf(old, new)
  IN  IF S = {} THEN NoScroll ELSE CHOOSE s \in S : \A t \in S : Cost(old, new, s) <= Cost(old, new, t)

\* diffTerminalScreens: everything, or the scroll and the rows it does not explain.
Structural(old, new) == old.gen # new.gen \/ old.size # new.size
FrameOf(old, new, everything) ==
  LET s == BestScroll(old.rows, new.rows)
      base == IF s = NoScroll THEN old.rows ELSE Scrolled(old.rows, s)
      dirty == ChangedRows(base, new.rows)
  IN  IF everything \/ Structural(old, new)
      THEN [full |-> TRUE, scroll |-> NoScroll, rows |-> [i \in 1..Rows |-> new.rows[i]]]
      ELSE [full |-> FALSE, scroll |-> s, rows |-> [i \in dirty |-> new.rows[i]]]

-----------------------------------------------------------------------------
\* The terminal: output scrolls, scrolls back or rewrites a row; a resize; a new process,
\* or one that could not be started.

\* markDirty, forceFull and requestFull; schedule does nothing while a flush is under way.
Schedule(s) == IF s.id = 0 \/ s.taking THEN s ELSE [s EXCEPT !.timer = TRUE]
Dirtied(s) == IF s.id = 0 THEN s ELSE Schedule([s EXCEPT !.dirty = TRUE])
FullWanted(s) == IF s.id = 0 THEN s ELSE Schedule([s EXCEPT !.dirty = TRUE, !.full = TRUE])

Draw(kind, next) ==
  /\ kind \in spare.kinds /\ Pay("changes")
  /\ screens' = Append(screens, next)
  /\ UNCHANGED <<room, frames, asks, looks, page>>

Output(rows) ==
  /\ present /\ Draw("output", [screens[Latest] EXCEPT !.rows = rows])
  /\ stream' = Dirtied(stream) /\ UNCHANGED <<present, forcing>>
OutputScroll(n) == Output([i \in 1..Rows |-> IF i + n <= Rows THEN screens[Latest].rows[i + n] ELSE Rows + Latest + i])
OutputBack == Output([i \in 1..Rows |-> IF i = 1 THEN Rows + Latest ELSE screens[Latest].rows[i - 1]])
OutputRow(i) == Output([screens[Latest].rows EXCEPT ![i] = 0])
\* The geometry follows the page that answers the terminal; a resize alone marks nothing.
Resized ==
  /\ present /\ Draw("resize", [screens[Latest] EXCEPT !.size = @ + 1])
  /\ UNCHANGED <<stream, present, forcing>>
Restarted(started) ==
  /\ Draw("restart", [gen |-> screens[Latest].gen + 1, size |-> 1, rows |-> [i \in 1..Rows |-> i]])
  /\ present' = started /\ forcing' = forcing + 1
  /\ UNCHANGED stream
StateTold ==
  /\ forcing > 0 /\ forcing' = forcing - 1
  /\ stream' = FullWanted(stream)
  /\ UNCHANGED <<screens, present, room, frames, asks, looks, page, spare>>

-----------------------------------------------------------------------------
\* The scheduler.

\* flush up to the snapshot.
Taken(s) == [s EXCEPT !.timer = FALSE, !.taking = TRUE, !.dirty = FALSE]
Waits(s) == [s EXCEPT !.recovery = TRUE, !.full = TRUE, !.dirty = TRUE]
FlushBegins ==
  /\ stream.timer
  /\ stream' = IF stream.recovery /\ room # "low" THEN stream
               ELSE IF ~ stream.dirty /\ ~ stream.full THEN [stream EXCEPT !.timer = FALSE]
               ELSE IF room = "high" THEN Waits(stream)
               ELSE Taken(stream)
  /\ stream' # stream
  /\ UNCHANGED <<screens, present, forcing, room, frames, asks, looks, page, spare>>

\* The rest of it: "budget" puts the frame off, "stall" finds the socket full after all.
\* The mutant takes the mark away at the end.
EndedClean(s) == [s EXCEPT !.taking = FALSE, !.dirty = FALSE, !.timer = s.recovery]
Ended(s) == [s EXCEPT !.taking = FALSE, !.timer = s.recovery \/ s.dirty]
FlushEnds(way) ==
  LET everything == stream.full \/ stream.recovery \/ stream.previous = 0
      now == screens[Latest]
      old == IF stream.previous = 0 THEN now ELSE screens[stream.previous]
      f == FrameOf(old, now, everything)
      nothing == ~ f.full /\ f.scroll = NoScroll /\ DOMAIN f.rows = {}
  IN  /\ stream.taking
      /\ CASE ~ present \/ nothing ->
                way = "sent" /\ stream' = Ended(stream) /\ UNCHANGED <<frames, spare>>
           [] present /\ ~ nothing /\ way = "budget" ->
                /\ stream.previous # 0 /\ ~ stream.recovery /\ Pay("stalls")
                /\ stream' = Ended([stream EXCEPT !.dirty = TRUE]) /\ UNCHANGED frames
           [] present /\ ~ nothing /\ way = "stall" ->
                room # "low" /\ stream' = Ended(Waits(stream)) /\ UNCHANGED <<frames, spare>>
           [] OTHER ->
                /\ way = "sent" /\ room # "high"
                /\ stream' = Ended([stream EXCEPT !.seq = @ + 1, !.previous = Latest, !.full = FALSE, !.recovery = FALSE])
                /\ frames' = Append(frames, f @@ [id |-> stream.id, seq |-> stream.seq + 1, gen |-> now.gen, size |-> now.size])
                /\ UNCHANGED spare
      /\ UNCHANGED <<screens, present, forcing, room, asks, looks, page>>

RoomChanges(r) ==
  /\ r # room /\ (r # "low" => Pay("stalls")) /\ (r = "low" => UNCHANGED spare)
  /\ room' = r
  /\ UNCHANGED <<screens, present, forcing, stream, frames, asks, looks, page>>

\* subscribe replaces the stream of the socket, if there is one, with a new one or none; a
\* snapshot request wants everything, or is told that there is no stream.
ServerHears ==
  /\ asks # <<>> /\ asks' = Tail(asks)
  /\ stream' = CASE Head(asks) = "sync" -> FullWanted(stream)
                 [] Head(asks) = "leave" -> [NoStream EXCEPT !.id = 0]
                 [] OTHER -> [NoStream EXCEPT !.id = spare.streams, !.dirty = TRUE, !.full = TRUE, !.timer = TRUE]
  /\ spare' = IF Head(asks) = "join" THEN [spare EXCEPT !.streams = @ + 1] ELSE spare
  /\ UNCHANGED <<screens, present, forcing, room, frames, looks, page>>

-----------------------------------------------------------------------------
\* The page.

\* applyProjectionFrame: "take", "skip" or "ask".  The mutant takes what does not follow.
VerdictAnyNext(f) ==
  IF (f.id # page.id \/ f.gen # page.gen \/ f.size # page.size) /\ ~ f.full THEN "ask"
  ELSE IF f.id = page.id /\ f.gen = page.gen /\ f.seq <= page.seq THEN "skip" ELSE "take"
Verdict(f) ==
  LET other == f.id # page.id \/ f.gen # page.gen
      fits == f.full \/ (~ other /\ f.size = page.size)
  IN  CASE ~ fits -> "ask"
        [] fits /\ ~ other /\ f.seq <= page.seq -> "skip"
        [] fits /\ ~ other /\ f.seq > page.seq /\ ~ f.full /\ f.seq # page.seq + 1 -> "ask"
        [] OTHER -> "take"
Painted(f) ==
  LET base == IF f.full THEN [i \in 1..Rows |-> -1]
              ELSE IF f.scroll # NoScroll THEN Scrolled(page.rows, f.scroll) ELSE page.rows
  IN  [id |-> f.id, seq |-> f.seq, gen |-> f.gen, size |-> f.size,
       rows |-> [i \in 1..Rows |-> IF i \in DOMAIN f.rows THEN f.rows[i] ELSE base[i]]]

\* handleScreen: nothing is looked at while a document covers the terminal.
FrameArrives ==
  LET f == Head(frames)
      v == IF looks = "document" THEN "skip" ELSE Verdict(f)
  IN  /\ frames # <<>> /\ frames' = Tail(frames)
      /\ page' = IF v = "take" THEN Painted(f) ELSE page
      /\ asks' = IF v = "ask" THEN Append(asks, "sync") ELSE asks
      /\ UNCHANGED <<screens, present, forcing, stream, room, looks, spare>>

\* The subscription follows what the page shows; a socket that is lost takes the stream and
\* what is on it along, the page keeps its screen.
LookAway(where) ==
  /\ looks = "here" /\ Pay("looks") /\ looks' = where
  /\ IF where = "offline" THEN stream' = NoStream /\ frames' = <<>> /\ asks' = <<>>
     ELSE asks' = Append(asks, "leave") /\ UNCHANGED <<stream, frames>>
  /\ UNCHANGED <<screens, present, forcing, room, page>>
LookBack ==
  /\ looks # "here" /\ looks' = "here"
  /\ asks' = Append(asks, "join")
  /\ UNCHANGED <<screens, present, forcing, stream, room, frames, page, spare>>

ScreenInit ==
  /\ screens = <<[gen |-> 1, size |-> 1, rows |-> [i \in 1..Rows |-> i]]>> /\ present = TRUE
  /\ forcing = 0 /\ stream = NoStream /\ room = "low" /\ frames = <<>> /\ asks = <<"join">>
  /\ looks = "here" /\ page = NoPage0
  /\ \E l \in ScreenLoads : spare = [changes |-> l.changes, kinds |-> l.kinds, looks |-> l.looks,
                                    stalls |-> l.stalls, streams |-> 1]

ScreenNext ==
  \/ OutputScroll(1) \/ OutputScroll(2) \/ OutputBack \/ OutputRow(2) \/ OutputRow(4) \/ Resized
  \/ StateTold \/ FlushBegins \/ ServerHears \/ FrameArrives \/ LookBack
  \/ \E b \in BOOLEAN : Restarted(b)
  \/ \E w \in {"sent", "budget", "stall"} : FlushEnds(w)
  \/ \E r \in {"low", "mid", "high"} : RoomChanges(r)
  \/ \E w \in {"document", "hidden", "offline"} : LookAway(w)

-----------------------------------------------------------------------------
\* Properties.

ScreenTypes ==
  /\ stream.previous \in 0..Latest /\ page.seq >= 0
  /\ stream.id = 0 => stream = NoStream
  /\ stream.taking => ~ stream.timer

\* Whatever frames were skipped, put off or not looked at, a page never shows a screen put
\* together from two: what it shows was on the terminal at some moment.
PageShowsAScreen ==
  page # NoPage0 => \E i \in DOMAIN screens :
    screens[i].gen = page.gen /\ screens[i].size = page.size /\ screens[i].rows = page.rows

\* When nothing is left to send or to answer, a page that looks shows the terminal's last
\* screen.
PageCatchesUpWithScreen ==
  looks = "here" /\ asks = <<>> /\ frames = <<>> /\ ~ stream.timer /\ ~ stream.taking /\ forcing = 0 /\ present
    => page.gen = screens[Latest].gen /\ page.rows = screens[Latest].rows
=============================================================================
