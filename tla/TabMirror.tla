------------------------------- MODULE TabMirror -------------------------------
(***************************************************************************)
(* A page's copy of the queue of one tab (server/storage.ts, the /ws       *)
(* handler of app.ts, client/tab-bundle-delta.ts and the TabView of        *)
(* App.tsx).  Every write of the file is a revision and is broadcast as a  *)
(* delta; a page also loads a window of the file over HTTP, pages back in  *)
(* it, hears the delta of its own requests as their answer, and asks for a *)
(* snapshot when its socket is back.  The socket keeps order; the answers  *)
(* of requests arrive when they arrive.                                    *)
(***************************************************************************)
EXTENDS RecordDelta

CONSTANTS
  RecordIds,    \* prompts, numbers in the order of their creation
  Limit,        \* INITIAL_PROMPT_WINDOW
  PageLimit,    \* EARLIER_PROMPT_PAGE
  MirrorLoads   \* bounds of a behaviour: writes and their kinds, loads, drops of the socket

VARIABLES
  stored,    \* the queue as it is on disk
  reads,     \* history: what the server reads at each revision
  link,      \* the tab's socket: "down", "open", "live" (subscribed)
  wire,      \* messages on it
  snap,      \* the snapshot a subscription has still to send: 0 none, -1 not read yet
  bundle,    \* what the page shows
  tag,       \* heldSnapshotTags, as the revision they stand for
  load,      \* the latest load(), none but the latest lands
  earlier,   \* loadEarlierPrompts under way
  echoes,    \* deltas on their way as the answers of requests
  left       \* what is left of the load

mirrorVars == <<stored, reads, link, wire, snap, bundle, tag, load, earlier, echoes, left>>

Revision == Len(reads)
NoBundle == [rev |-> 0, list |-> <<>>, start |-> 0]
NoLoad == [pc |-> "none", limit |-> 0, rev |-> 0]
NoPage == [pc |-> "none", base |-> NoBundle, rev |-> 0]
NoTag == 0

Window(rev, limit) ==
  LET start == WindowStart(reads[rev], limit)
  IN  [rev |-> rev, start |-> start, list |-> SubSeq(reads[rev], start + 1, Len(reads[rev]))]
DeltaAt(rev) == Delta(reads[rev - 1], reads[rev])
\* windowLimits: a reload asks for what is open already.
Depth == IF Len(bundle.list) > Limit THEN Len(bundle.list) ELSE Limit

Spend(what) == left[what] > 0 /\ left' = [left EXCEPT ![what] = @ - 1]

-----------------------------------------------------------------------------
\* The server.

\* writePrompts: the file, then the delta for every page that is subscribed.  A page that
\* asked for the write is answered with the same delta.
Write(kind, next) ==
  /\ kind \in left.kinds /\ next # stored /\ Spend("writes")
  /\ stored' = next /\ reads' = Append(reads, ReadOrder(next))
  /\ wire' = IF link = "live" THEN Append(wire, [kind |-> "delta", rev |-> Revision + 1]) ELSE wire
  /\ \E mine \in (IF bundle = NoBundle THEN {FALSE} ELSE BOOLEAN) :
       echoes' = IF mine THEN echoes \cup {Revision + 1} ELSE echoes
  /\ UNCHANGED <<link, snap, bundle, tag, load, earlier>>

Unused == {id \in RecordIds : \A r \in DOMAIN reads : ~ HasId(reads[r], id)}
New(id) == [id |-> id, text |-> 0, done |-> 0]

\* A prompt at the end, or before or after another one.
AddPrompt(at) ==
  /\ Unused # {} /\ at \in 0..Len(stored)
  /\ LET id == CHOOSE x \in Unused : \A y \in Unused : x <= y
     IN  Write(IF at = Len(stored) THEN "add" ELSE "insert", InsertAt(stored, at + 1, New(id)))
SettlePrompt(i) ==
  i \in DOMAIN stored /\ stored[i].done = 0 /\ Write("settle", [stored EXCEPT ![i].done = Revision + 1])
RetryPrompt(i) == i \in DOMAIN stored /\ stored[i].done # 0 /\ Write("retry", [stored EXCEPT ![i].done = 0])
EditPrompt(i) == i \in DOMAIN stored /\ Write("edit", [stored EXCEPT ![i].text = 1])
DeletePrompt(i) == i \in DOMAIN stored /\ stored[i].done = 0 /\ Write("remove", RemoveAt(stored, i))
DragPrompt(i, j) ==
  /\ {i, j} \subseteq DOMAIN stored /\ stored[i].done = 0 /\ stored[j].done = 0
  /\ Write("drag", InsertAt(RemoveAt(stored, i), j, stored[i]))

\* The snapshot of a subscription is read after the subscription took effect, and sent
\* after that: unless the tag of the page is that of the file.
SnapshotRead ==
  /\ snap = -1 /\ snap' = Revision
  /\ UNCHANGED <<stored, reads, link, wire, bundle, tag, load, earlier, echoes, left>>
SnapshotSent(held) ==
  /\ snap > 0 /\ snap' = 0
  /\ wire' = IF held = snap THEN wire ELSE Append(wire, [kind |-> "snapshot", rev |-> snap])
  /\ UNCHANGED <<stored, reads, link, bundle, tag, load, earlier, echoes, left>>

-----------------------------------------------------------------------------
\* The page.

Show(next) == bundle' = next

\* load(): the answer is a read of the file at some moment on the way.
LoadBegins == load' = [pc |-> "asked", limit |-> Depth, rev |-> 0]
OpenView ==
  /\ Spend("loads") /\ LoadBegins
  /\ UNCHANGED <<stored, reads, link, wire, snap, bundle, tag, earlier, echoes>>
LoadRead ==
  /\ load.pc = "asked"
  /\ \/ load' = [load EXCEPT !.pc = "read", !.rev = Revision]
     \/ load' = NoLoad   \* it failed, also when tried again
  /\ UNCHANGED <<stored, reads, link, wire, snap, bundle, tag, earlier, echoes, left>>
LoadLands ==
  /\ load.pc = "read" /\ load' = NoLoad
  /\ Show(Window(load.rev, load.limit))
  /\ UNCHANGED <<stored, reads, link, wire, snap, tag, earlier, echoes, left>>

\* applyTabMessage for prompts.changed.
Missed(rev) == rev > bundle.rev + 1
NotApplicable(rev) ==
  rev > bundle.rev /\ (Missed(rev) \/ ~ MoveIsApplicable(bundle.list, DeltaAt(rev).move))

ApplyDelta(rev) ==
  IF bundle = NoBundle \/ rev <= bundle.rev THEN UNCHANGED <<bundle, load>>
  ELSE IF NotApplicable(rev) THEN LoadBegins /\ UNCHANGED bundle
  ELSE LET list == Apply(bundle.list, DeltaAt(rev))
           over == Len(reads[rev]) - Len(list)
       IN  /\ Show([rev |-> rev, list |-> list,
                    start |-> IF bundle.start < over THEN bundle.start ELSE IF over > 0 THEN over ELSE 0])
           /\ UNCHANGED load

\* applySnapshot replaces the sections it is given; the tag is remembered after that.
Receive ==
  /\ wire # <<>> /\ wire' = Tail(wire)
  /\ IF Head(wire).kind = "delta" THEN ApplyDelta(Head(wire).rev) /\ UNCHANGED tag
     ELSE Show(Window(Head(wire).rev, Limit)) /\ tag' = Head(wire).rev /\ UNCHANGED load
  /\ UNCHANGED <<stored, reads, link, snap, earlier, echoes, left>>

Echo(rev) ==
  /\ rev \in echoes /\ echoes' = echoes \ {rev}
  /\ ApplyDelta(rev)
  /\ UNCHANGED <<stored, reads, link, wire, snap, tag, earlier, left>>

\* loadEarlierPrompts: the revision of the answer is compared with the page's own, but the
\* records are put before those the page showed when it asked.
EarlierBegins ==
  /\ bundle.start > 0 /\ earlier = NoPage /\ Spend("loads")
  /\ earlier' = [pc |-> "asked", base |-> bundle, rev |-> 0]
  /\ UNCHANGED <<stored, reads, link, wire, snap, bundle, tag, load, echoes>>
EarlierRead ==
  /\ earlier.pc = "asked" /\ earlier' = [earlier EXCEPT !.pc = "read", !.rev = Revision]
  /\ UNCHANGED <<stored, reads, link, wire, snap, bundle, tag, load, echoes, left>>
EarlierLands ==
  LET base == earlier.base
      all == reads[earlier.rev]
      end == IF base.start < Len(all) THEN base.start ELSE Len(all)
      from == IF end > PageLimit THEN end - PageLimit ELSE 0
      older == SelectSeq(SubSeq(all, from + 1, end), LAMBDA r : ~ HasId(base.list, r.id))
  IN  /\ earlier.pc = "read" /\ earlier' = NoPage
      /\ IF bundle.rev # earlier.rev THEN LoadBegins /\ UNCHANGED bundle
         ELSE Show([rev |-> base.rev, list |-> older \o base.list, start |-> from]) /\ UNCHANGED load
      /\ UNCHANGED <<stored, reads, link, wire, snap, tag, echoes, left>>

\* The socket opens, subscribes (with a snapshot when it is not the first), and drops.
Connect ==
  /\ link = "down" /\ link' = "open"
  /\ UNCHANGED <<stored, reads, wire, snap, bundle, tag, load, earlier, echoes, left>>
Subscribe ==
  /\ link = "open" /\ link' = "live"
  /\ snap' = IF left.connected THEN -1 ELSE 0
  /\ left' = [left EXCEPT !.connected = TRUE]
  /\ UNCHANGED <<stored, reads, wire, bundle, tag, load, earlier, echoes>>
Disconnect ==
  /\ link = "live" /\ link' = "down" /\ wire' = <<>> /\ snap' = 0
  /\ Spend("drops")
  /\ UNCHANGED <<stored, reads, bundle, tag, load, earlier, echoes>>

MirrorInit ==
  /\ stored = <<New(1), New(2)>> /\ reads = <<stored>>
  /\ link = "down" /\ wire = <<>> /\ snap = 0 /\ bundle = NoBundle /\ tag = NoTag
  /\ load = [pc |-> "asked", limit |-> Limit, rev |-> 0] /\ earlier = NoPage /\ echoes = {}
  /\ \E m \in MirrorLoads :
       left = [writes |-> m.writes, kinds |-> m.kinds, loads |-> m.loads, drops |-> m.drops, connected |-> FALSE]

MirrorSystem ==
  \/ SnapshotRead \/ SnapshotSent(tag) \/ LoadRead \/ LoadLands \/ Receive
  \/ EarlierRead \/ EarlierLands \/ Connect \/ Subscribe
  \/ \E rev \in echoes : Echo(rev)
MirrorUser ==
  \/ OpenView \/ EarlierBegins \/ Disconnect
  \/ \E i \in 0..Len(stored) : \/ AddPrompt(i) \/ SettlePrompt(i) \/ RetryPrompt(i)
                               \/ EditPrompt(i) \/ DeletePrompt(i)
                               \/ \E j \in DOMAIN stored : DragPrompt(i, j)
MirrorNext == MirrorSystem \/ MirrorUser

-----------------------------------------------------------------------------
\* Properties.

MirrorTypes ==
  /\ bundle.rev \in 0..Revision /\ tag \in 0..Revision /\ echoes \subseteq 2..Revision
  /\ link # "live" => wire = <<>>
  /\ \A i, j \in DOMAIN bundle.list : bundle.list[i].id = bundle.list[j].id => i = j

\* A page is never staler than the revision it claims: every prompt it shows was so at that
\* revision or later, and none that was waiting at that revision is missing.  Otherwise the
\* guard by revisions would never repair it.
PageIsAsNewAsItSays ==
  bundle # NoBundle =>
    /\ \A i \in DOMAIN bundle.list : \E r \in bundle.rev..Revision : Contains(reads[r], bundle.list[i])
    /\ \A i \in DOMAIN reads[bundle.rev] :
         reads[bundle.rev][i].done = 0 => HasId(bundle.list, reads[bundle.rev][i].id)
=============================================================================
