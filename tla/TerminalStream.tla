----------------------------- MODULE TerminalStream -----------------------------
(***************************************************************************)
(* The bytes of a tab's terminal on their way to a page (server/pty.ts,    *)
(* RawTerminalBatcher and the /ws handler, the terminal of App.tsx and its *)
(* cache).  Every byte has a generation (the process) and an offset; the   *)
(* page's cursor says how far it has come, the server continues from there *)
(* when its rolling buffer still can, and otherwise sends the buffer, or   *)
(* says that the gap is too large, and the page asks for one screen.       *)
(***************************************************************************)
EXTENDS Integers, Sequences, FiniteSets, SequencesExt

CONSTANTS
  BufferBytes,   \* MAX_BUFFER_BYTES
  CatchUpBytes,  \* DOCUMENT_RAW_CATCH_UP_BYTES
  StreamLoads    \* bounds: bytes, and [restarts, looks, views, stops] of the rest

VARIABLES
  proc,      \* the process: its generation, nextOffset and bufferStart
  late,      \* a stopped process that may still write, and whether it did
  batch,     \* the pending batch of the batcher
  sub,       \* the page's socket is subscribed to the raw stream
  toPage, toServer,   \* messages on the socket
  shots,     \* one-shot screens being made, as of which byte
  sight,     \* "here", "document", "hidden", "offline"
  view,      \* the terminal of the page
  closing,   \* the checkpoint of a view that is gone, until its writes are through
  memory,    \* terminal-cache.ts: raw bytes and the rendered checkpoint
  purse      \* what is left of the load

streamVars == <<proc, late, batch, sub, toPage, toServer, shots, sight, view, closing, memory, purse>>

Run(gen, from, to) == [i \in 1..(to - from) |-> <<gen, from + i - 1>>]
NoBatch == [gen |-> 0, from |-> 0, to |-> 0]
NoCursor == [gen |-> 0, next |-> 0]
NoWrite == [bytes |-> <<>>, rest |-> <<>>, epoch |-> 0, to |-> NoCursor]
NoMemory == [raw |-> [gen |-> 0, next |-> 0, bytes |-> <<>>], rendered |-> [gen |-> 0, next |-> 0, text |-> <<>>]]
NoCheckpoint == [gen |-> 0, next |-> 0, text |-> <<>>]
Take(what) == purse[what] > 0 /\ purse' = [purse EXCEPT ![what] = @ - 1]

Chunk(gen, from, to, reset) ==
  [kind |-> "output", gen |-> gen, from |-> from, to |-> to, reset |-> reset, bytes |-> Run(gen, from, to)]

-----------------------------------------------------------------------------
\* The server.

\* sliceTerminalBuffer.
Slice(cursor, bounded) ==
  LET goes == cursor.gen = proc.gen /\ cursor.next \in proc.base..proc.out
  IN  IF bounded /\ (~ goes \/ proc.out - cursor.next > CatchUpBytes) THEN [kind |-> "exceeded"]
      ELSE IF goes THEN Chunk(proc.gen, cursor.next, proc.out, FALSE)
      ELSE Chunk(proc.gen, proc.base, proc.out, TRUE)

\* emitRawTerminal, and the batcher's deliver.
Deliver(msgs) == IF sub THEN toPage \o msgs ELSE toPage
Flushed == IF batch = NoBatch THEN <<>> ELSE <<Chunk(batch.gen, batch.from, batch.to, FALSE)>>

\* onData: the rolling buffer, then push: a chunk that does not continue the pending batch
\* sends that one first.
Push(gen, from) ==
  IF batch # NoBatch /\ batch.gen = gen /\ batch.to = from
  THEN batch' = [batch EXCEPT !.to = from + 1] /\ UNCHANGED toPage
  ELSE batch' = [gen |-> gen, from |-> from, to |-> from + 1] /\ toPage' = Deliver(Flushed)
ProcessWrites ==
  /\ Take("bytes")
  /\ proc' = [proc EXCEPT !.out = @ + 1, !.base = IF proc.out + 1 - @ > BufferBytes THEN @ + 1 ELSE @]
  /\ Push(proc.gen, proc.out)
  /\ UNCHANGED <<late, sub, toServer, shots, sight, view, closing, memory>>
\* onData has no check that its process is still the tab's.
StoppedProcessWrites ==
  /\ late.gen # 0 /\ Take("late")
  /\ late' = [late EXCEPT !.next = @ + 1, !.wrote = TRUE] /\ Push(late.gen, late.next)
  /\ UNCHANGED <<proc, sub, toServer, shots, sight, view, closing, memory>>
BatchSent ==
  /\ batch # NoBatch /\ batch' = NoBatch /\ toPage' = Deliver(Flushed)
  /\ UNCHANGED <<proc, late, sub, toServer, shots, sight, view, closing, memory, purse>>

\* startTerminal: the state event flushes what is pending; the old screen is gone.
ProcessRestarted ==
  /\ Take("restarts")
  /\ late' = [gen |-> proc.gen, next |-> proc.out, wrote |-> late.wrote]
  /\ proc' = [gen |-> proc.gen + 1, out |-> 0, base |-> 0]
  /\ batch' = NoBatch /\ toPage' = Deliver(Flushed)
  /\ shots' = [i \in DOMAIN shots |-> NoCursor]
  /\ UNCHANGED <<sub, toServer, sight, view, closing, memory>>

\* scheduleCompactionTerminalResync.
CompactionResync ==
  /\ Take("resyncs")
  /\ batch' = NoBatch /\ toPage' = Deliver(Flushed \o <<Slice(NoCursor, FALSE)>>)
  /\ UNCHANGED <<proc, late, sub, toServer, shots, sight, view, closing, memory>>

\* subscribe (the snapshot is sent at once, never more than the bound, and what is pending
\* stays pending),
\* terminal.sync, and the one-shot request, which waits for the parsed screen.
ServerReceives ==
  LET m == Head(toServer)
  IN  /\ toServer # <<>> /\ toServer' = Tail(toServer)
      /\ \/ /\ m.kind = "subscribe" /\ sub' = m.raw
            /\ toPage' = IF m.raw THEN Append(toPage, Slice(m.cursor, TRUE)) ELSE toPage
            /\ UNCHANGED <<batch, shots>>
         \/ /\ m.kind = "sync" /\ sub
            /\ batch' = NoBatch /\ toPage' = toPage \o Flushed \o <<Slice(m.cursor, FALSE)>>
            /\ UNCHANGED <<sub, shots>>
         \/ /\ m.kind = "sync" /\ ~ sub
            /\ toPage' = Append(toPage, [kind |-> "notSubscribed"]) /\ UNCHANGED <<batch, sub, shots>>
         \/ /\ m.kind = "shot" /\ shots' = Append(shots, [gen |-> proc.gen, next |-> proc.out])
            /\ UNCHANGED <<batch, sub, toPage>>
      /\ UNCHANGED <<proc, late, sight, view, closing, memory, purse>>
ScreenMade ==
  /\ shots # <<>> /\ shots' = Tail(shots)
  /\ toPage' = Append(toPage, IF Head(shots) = NoCursor THEN [kind |-> "noScreen"]
                              ELSE [kind |-> "screen", cursor |-> [gen |-> proc.gen, next |-> proc.out]])
  /\ UNCHANGED <<proc, late, batch, sub, toServer, sight, view, closing, memory, purse>>

-----------------------------------------------------------------------------
\* The page.

\* sendSubscription and requestRawOneShot, on a view; the mutant asks for ever.
Subscribes(v, raw) ==
  <<[v EXCEPT !.subscribed = raw], <<[kind |-> "subscribe", raw |-> raw, cursor |-> v.cursor]>>>>
AskForScreen(v) ==
  LET s == Subscribes([v EXCEPT !.attempts = @ + 1, !.awaiting = TRUE], FALSE)
  IN  <<s[1], Append(s[2], [kind |-> "shot"])>>
OneShot(v) == IF v.attempts >= 2 THEN <<[v EXCEPT !.told = TRUE], <<>>>> ELSE AskForScreen(v)
Reconcile(v) ==
  IF v.subscribed = (sight = "here") THEN <<v, <<>>>>
  ELSE Subscribes([v EXCEPT !.attempts = 0], TRUE)

Remember(gen, next, fresh, reset) ==
  memory' = [raw |-> [gen |-> gen, next |-> next,
                      bytes |-> IF reset \/ memory.raw.gen # gen THEN fresh ELSE memory.raw.bytes \o fresh],
             rendered |-> IF (reset \/ memory.raw.gen # gen) /\ memory.rendered.gen # gen
                          THEN NoMemory.rendered ELSE memory.rendered]

\* term.reset(): what xterm has not parsed yet is parsed after it.
Reset(v, cursor, painted) ==
  [v EXCEPT !.epoch = @ + 1, !.text = <<>>, !.cursor = cursor, !.painted = painted]
Queued(v, bytes) ==
  [v EXCEPT !.queue = Append(@, [bytes |-> bytes, epoch |-> v.epoch, to |-> v.cursor])]

\* handleOutput.  The mutant paints what comes after a gap.
AfterGapPainted(m, v) == FALSE
AfterGap(m, v) == m.from > v.cursor.next
OutputTaken(m) ==
  LET fresh0 == m.reset \/ view.cursor.gen # m.gen
      v == IF fresh0 THEN Reset(view, [gen |-> m.gen, next |-> m.from], [gen |-> m.gen, next |-> m.from]) ELSE view
      fresh == IF v.cursor.next < m.from THEN m.bytes ELSE SubSeq(m.bytes, v.cursor.next - m.from + 1, Len(m.bytes))
  IN  IF AfterGap(m, v)
      THEN /\ view' = v /\ toServer' = Append(toServer, [kind |-> "sync", cursor |-> v.cursor])
           /\ UNCHANGED memory
      ELSE IF m.to <= v.cursor.next THEN view' = v /\ UNCHANGED <<toServer, memory>>
      ELSE /\ view' = Queued([v EXCEPT !.cursor.next = m.to], fresh)
           /\ Remember(m.gen, m.to, fresh, fresh0)
           /\ UNCHANGED toServer
\* handleRawOneShot: the stream goes on where the screen ends; the mutant leaves it off.
ResumedNot(v) == <<v, <<>>>>
Resumed(v) == Subscribes(v, TRUE)
ScreenTaken(at) ==
  LET bytes == Run(at.gen, 0, at.next)
      s == Resumed(Queued(Reset([view EXCEPT !.awaiting = FALSE, !.attempts = 0], at, NoCursor), bytes))
  IN  view' = s[1] /\ toServer' = toServer \o s[2] /\ Remember(at.gen, at.next, bytes, TRUE)

PageReceives ==
  LET m == Head(toPage)
      Then(s) == view' = s[1] /\ toServer' = toServer \o s[2] /\ UNCHANGED memory
  IN  /\ toPage # <<>> /\ toPage' = Tail(toPage)
      /\ CASE m.kind = "output" /\ sight # "document" -> OutputTaken(m)
           [] m.kind = "exceeded" /\ sight # "document" -> Then(OneShot(view))
           [] m.kind = "screen" /\ view.awaiting -> ScreenTaken(m.cursor)
           [] m.kind = "notSubscribed" -> Then(Reconcile([view EXCEPT !.subscribed = FALSE]))
           [] m.kind = "noScreen" -> Then(<<[view EXCEPT !.awaiting = FALSE, !.told = TRUE], <<>>>>)
           [] OTHER -> UNCHANGED <<view, toServer, memory>>
      /\ UNCHANGED <<proc, late, batch, sub, shots, sight, closing, purse>>

\* queueTerminalWrite: one write at a time, a long one in pieces; a reset in between spoils
\* the checkpoint.  The mutant does not notice.
SpoiledNever(v) == FALSE
Spoiled(v) == v.writing.epoch # v.epoch
WriteBegins(n) ==
  LET w == Head(view.queue)
  IN  /\ view.writing = NoWrite /\ view.queue # <<>> /\ n \in {1, Len(w.bytes)} /\ n <= Len(w.bytes)
      /\ view' = IF w.epoch # view.epoch THEN [view EXCEPT !.queue = Tail(@)]
                 ELSE [view EXCEPT !.queue = Tail(@),
                         !.writing = [bytes |-> SubSeq(w.bytes, 1, n), rest |-> SubSeq(w.bytes, n + 1, Len(w.bytes)),
                                      epoch |-> w.epoch, to |-> w.to]]
      /\ UNCHANGED <<proc, late, batch, sub, toPage, toServer, shots, sight, closing, memory, purse>>
WriteLands ==
  LET w == view.writing
      v == [view EXCEPT !.text = @ \o w.bytes, !.writing = NoWrite]
  IN  /\ w # NoWrite
      /\ view' = IF Spoiled(view) THEN [v EXCEPT !.valid = FALSE]
                 ELSE IF w.rest # <<>> THEN [v EXCEPT !.writing = [w EXCEPT !.bytes = w.rest, !.rest = <<>>]]
                 ELSE [v EXCEPT !.painted = w.to]
      /\ UNCHANGED <<proc, late, batch, sub, toPage, toServer, shots, sight, closing, memory, purse>>

\* A document opens over the terminal, the page is hidden, the socket is lost; and back.
SightLost(where) ==
  /\ sight = "here" /\ Take("looks") /\ sight' = where
  /\ IF where = "offline"
     THEN /\ sub' = FALSE /\ toPage' = <<>> /\ toServer' = <<>> /\ shots' = <<>>
          /\ UNCHANGED view
     ELSE LET s == Subscribes([view EXCEPT !.awaiting = FALSE, !.attempts = IF where = "document" THEN 0 ELSE @], FALSE)
          IN  view' = s[1] /\ toServer' = toServer \o s[2] /\ UNCHANGED <<sub, toPage, shots>>
  /\ UNCHANGED <<proc, late, batch, closing, memory>>
SightBack ==
  LET s == CASE sight = "document" -> OneShot(view)
             [] sight = "hidden" -> Subscribes([view EXCEPT !.attempts = 0], TRUE)
             [] OTHER -> Subscribes(view, TRUE)
  IN  /\ sight # "here" /\ sight' = "here"
      /\ view' = s[1] /\ toServer' = toServer \o s[2]
      /\ UNCHANGED <<proc, late, batch, sub, toPage, shots, closing, memory, purse>>

\* Another tab is selected and this one comes back: the checkpoint is kept when nothing
\* spoiled it, once the writes are through; the new view starts from what is kept by then.
Fresh(cursor, bytes) ==
  Queued([cursor |-> cursor, text |-> <<>>, epoch |-> 0, queue |-> <<>>, writing |-> NoWrite, valid |-> TRUE,
          painted |-> NoCursor, awaiting |-> FALSE, attempts |-> 0, subscribed |-> FALSE, told |-> FALSE], bytes)
CheckpointSaved ==
  /\ closing # NoCheckpoint /\ closing' = NoCheckpoint
  /\ memory' = IF /\ memory.raw.gen = closing.gen /\ closing.next <= memory.raw.next
                  /\ memory.rendered = NoMemory.rendered \/ closing.next >= memory.rendered.next
               THEN [memory EXCEPT !.rendered = closing] ELSE memory
  /\ UNCHANGED <<proc, late, batch, sub, toPage, toServer, shots, sight, view, purse>>
ViewReopened ==
  LET kept == memory.rendered
      usable == kept.gen # 0 /\ (memory.raw.gen = 0 \/ memory.raw.gen = kept.gen)
      v == IF usable THEN Fresh([gen |-> kept.gen, next |-> kept.next], kept.text)
           ELSE Fresh([gen |-> memory.raw.gen, next |-> memory.raw.next], memory.raw.bytes)
      s == Subscribes(v, TRUE)
  IN  /\ sight = "here" /\ closing = NoCheckpoint /\ Take("views")
      /\ closing' = IF view.valid /\ view.writing = NoWrite /\ view.painted # NoCursor
                    THEN [gen |-> view.painted.gen, next |-> view.painted.next, text |-> view.text] ELSE NoCheckpoint
      /\ sub' = FALSE /\ toPage' = <<>> /\ shots' = <<>>
      /\ view' = s[1] /\ toServer' = s[2]
      /\ memory' = IF usable THEN [memory EXCEPT !.raw = [gen |-> kept.gen, next |-> kept.next, bytes |-> <<>>]] ELSE memory
      /\ UNCHANGED <<proc, late, batch, sight>>

StreamInit ==
  /\ proc = [gen |-> 1, out |-> 0, base |-> 0] /\ late = [gen |-> 0, next |-> 0, wrote |-> FALSE] /\ batch = NoBatch
  /\ sub = FALSE /\ toPage = <<>> /\ shots = <<>> /\ sight = "here"
  /\ LET s == Subscribes([Fresh(NoCursor, <<>>) EXCEPT !.queue = <<>>], TRUE)
     IN  view = s[1] /\ toServer = s[2]
  /\ closing = NoCheckpoint /\ memory = NoMemory
  /\ purse \in StreamLoads

StreamSystem ==
  \/ BatchSent \/ ServerReceives \/ ScreenMade \/ PageReceives \/ WriteLands \/ CheckpointSaved
  \/ \E n \in 1..(BufferBytes + 2) : WriteBegins(n)
StreamNext ==
  \/ StreamSystem
  \/ ProcessWrites \/ StoppedProcessWrites \/ ProcessRestarted \/ CompactionResync
  \/ SightBack \/ ViewReopened
  \/ \E w \in {"document", "hidden", "offline"} : SightLost(w)

-----------------------------------------------------------------------------
\* Properties.

StreamTypes ==
  /\ proc.base <= proc.out /\ proc.out - proc.base <= BufferBytes
  /\ view.cursor.next >= 0 /\ view.attempts \in 0..2
  /\ batch # NoBatch => batch.from < batch.to

IsRunTo(bytes, gen, next) == bytes = Run(gen, next - Len(bytes), next)
Pending(queue, epoch) ==
  FoldLeft(LAMBDA bytes, w : IF w.epoch = epoch THEN bytes \o w.bytes ELSE bytes, <<>>, queue)

\* What the terminal of a page has drawn and is about to draw is one piece of the output of
\* one process, without a hole, a repetition or bytes of another process in it, and ends at
\* its cursor; except where a reset met a write half done, which the view knows.
DrawnIsOnePiece ==
  view.valid /\ (view.writing # NoWrite => view.writing.epoch = view.epoch)
  => IsRunTo(view.text \o view.writing.bytes \o view.writing.rest \o Pending(view.queue, view.epoch),
               view.cursor.gen, view.cursor.next)

\* What is kept of a tab for the next time it is opened is such a piece, and ends at the
\* offset from which the server will be asked to continue.
CheckpointsAreTrue ==
  /\ IsRunTo(memory.rendered.text, memory.rendered.gen, memory.rendered.next)
  /\ IsRunTo(memory.raw.bytes, memory.raw.gen, memory.raw.next)

\* When nothing is on its way, a page that looks at the terminal has everything its process
\* has written, unless it was told that there is no
\* screen, or a process that had been stopped wrote once more.
TerminalCatchesUp ==
  (/\ sight = "here" /\ toPage = <<>> /\ toServer = <<>> /\ shots = <<>> /\ batch = NoBatch
   /\ view.queue = <<>> /\ view.writing = NoWrite /\ ~ view.told /\ ~ late.wrote /\ proc.out > 0)
  => sub /\ view.cursor = [gen |-> proc.gen, next |-> proc.out]
=============================================================================
