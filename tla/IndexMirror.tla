------------------------------ MODULE IndexMirror ------------------------------
(***************************************************************************)
(* The navigation index of a page (shared/index-delta.ts, sendIndex and    *)
(* the subscription in app.ts, adoptIndex and the navigation socket of     *)
(* App.tsx).  The server remembers which revision each page holds and      *)
(* sends what changed since, or everything; the page takes a change only   *)
(* onto the revision it was made from, and asks for everything otherwise.  *)
(* Tabs with groups, and preferences, are versions.                        *)
(***************************************************************************)
EXTENDS Integers, FiniteSets, SequencesExt

CONSTANT IndexLoads   \* bounds of a behaviour: writes, preferences, refreshes, drops

ASSUME IndexAssumption == IndexLoads \subseteq [writes : Nat, prefers : Nat, refreshes : Nat, drops : Nat]

VARIABLES
  index,      \* history: index.json by revision, [tabs, ui]
  previous,   \* previousIndex, 0 before the first broadcast
  client,     \* what the server knows of the page: [wants, rev], rev -1 unknown
  asking,     \* subscriptions it is answering: a sequence of [claim, rev], claim -1 for none
  nav,        \* the page's socket: subscriptions up, messages down; unsaid, that one was answered with
              \* nothing and nothing has been sent since
  shown,      \* the page's index, and the revision it has applied
  answers,    \* requests under way: [kind, rev], rev 0 before the server has read
  quota

indexVars == <<index, previous, client, asking, nav, shown, answers, quota>>

Current == Len(index)
Unknown == -1
NoIndex == [rev |-> 0, tabs |-> 0, ui |-> 0]
Unwatched == [wants |-> FALSE, rev |-> Unknown]
Closed0 == [open |-> FALSE, up |-> <<>>, down |-> <<>>, unsaid |-> FALSE]

Full(rev) == [kind |-> "full", from |-> 0, rev |-> rev, tabs |-> index'[rev].tabs, ui |-> index'[rev].ui]

\* buildIndexDelta: 0 stands for what did not change.
Change(old, new) == IF old = new THEN 0 ELSE new
DeltaFrom(from, rev) ==
  [kind |-> "delta", from |-> from, rev |-> rev, tabs |-> Change(index'[from].tabs, index'[rev].tabs),
   ui |-> Change(index'[from].ui, index'[rev].ui)]

\* sendIndex: what it sends and what it now believes of the page.  A change that shows
\* nothing is not sent.  Whichever encoding is smaller is sent.
Sends(known, rev) ==
  IF previous # 0 /\ previous = known /\ rev # previous
  THEN LET d == DeltaFrom(previous, rev)
       IN  IF d.tabs = 0 /\ d.ui = 0 THEN {[sent |-> <<>>, rev |-> rev]}
           ELSE {[sent |-> <<d>>, rev |-> rev], [sent |-> <<Full(rev)>>, rev |-> rev]}
  ELSE {[sent |-> <<Full(rev)>>, rev |-> rev]}

Charge(what) == quota[what] > 0 /\ quota' = [quota EXCEPT ![what] = @ - 1]

-----------------------------------------------------------------------------
\* The server.

\* updateIndex and broadcastIndex.
WriteIndex(value) ==
  /\ index' = Append(index, value)
  /\ IF client.wants
     THEN \E s \in Sends(client.rev, Current + 1) :
            /\ client' = [client EXCEPT !.rev = s.rev]
            /\ nav' = [nav EXCEPT !.down = @ \o s.sent, !.unsaid = @ /\ s.sent = <<>>]
     ELSE UNCHANGED <<client, nav>>
  /\ previous' = Current + 1

\* A tab or a group is written; some writes show nothing.
TabsWritten(visible) ==
  /\ Charge("writes")
  /\ WriteIndex([index[Current] EXCEPT !.tabs = IF visible THEN Current + 1 ELSE @])
  /\ UNCHANGED <<asking, shown, answers>>

\* subscribe: wantsIndex at once, the index is read after that, answered after that.
SubscribeTaken ==
  /\ nav.up # <<>> /\ nav' = [nav EXCEPT !.up = Tail(@), !.unsaid = FALSE]
  /\ client' = [client EXCEPT !.wants = TRUE]
  /\ asking' = Append(asking, [claim |-> Head(nav.up), rev |-> 0])
  /\ UNCHANGED <<index, previous, shown, answers, quota>>

SubscribeRead(i) ==
  /\ i \in DOMAIN asking /\ asking[i].rev = 0
  /\ asking' = [asking EXCEPT ![i].rev = Current]
  /\ UNCHANGED <<index, previous, client, nav, shown, answers, quota>>

SubscribeAnswered(i) ==
  /\ i \in DOMAIN asking /\ asking[i].rev # 0
  /\ asking' = RemoveAt(asking, i) /\ index' = index
  /\ IF asking[i].claim = asking[i].rev
     THEN client' = [client EXCEPT !.rev = asking[i].rev] /\ UNCHANGED nav
     ELSE \E s \in Sends(IF asking[i].claim = Unknown THEN client.rev ELSE asking[i].claim, asking[i].rev) :
            /\ client' = [client EXCEPT !.rev = s.rev]
            /\ nav' = [nav EXCEPT !.down = @ \o s.sent, !.unsaid = @ \/ s.sent = <<>>]
  /\ UNCHANGED <<previous, shown, answers, quota>>

-----------------------------------------------------------------------------
\* The page.

\* adoptIndex.  The mutant takes whatever arrives.
AdoptsAny(next) == TRUE
Adopts(next) == next.rev >= shown.rev
Adopt(next) == shown' = IF Adopts(next) THEN next ELSE shown
Whole(rev) == [rev |-> rev, tabs |-> index[rev].tabs, ui |-> index[rev].ui]

\* applyIndexDelta; a change from another revision makes the page subscribe again, without
\* saying what it holds.
Fits(d) == shown # NoIndex /\ d.from = shown.rev
IndexReceived ==
  LET m == Head(nav.down)
      rest == [nav EXCEPT !.down = Tail(@)]
  IN  /\ nav.down # <<>>
      /\ IF m.kind = "full" THEN Adopt([rev |-> m.rev, tabs |-> m.tabs, ui |-> m.ui]) /\ nav' = rest
         ELSE IF Fits(m)
         THEN /\ nav' = rest
              /\ Adopt([rev |-> m.rev, tabs |-> IF m.tabs = 0 THEN shown.tabs ELSE m.tabs,
                        ui |-> IF m.ui = 0 THEN shown.ui ELSE m.ui])
         ELSE nav' = [rest EXCEPT !.up = Append(@, Unknown)] /\ UNCHANGED shown
      /\ UNCHANGED <<index, previous, client, asking, answers, quota>>

\* bootstrap and /api/navigation.
Refresh ==
  /\ Charge("refreshes") /\ answers' = answers \cup {[kind |-> "refresh", rev |-> 0]}
  /\ UNCHANGED <<index, previous, client, asking, nav, shown>>

\* updatePreferences shows the change at once; the request writes it, or fails, and then
\* the page refreshes.
Prefer ==
  /\ shown # NoIndex /\ Charge("prefers")
  /\ shown' = [shown EXCEPT !.ui = 100]
  /\ answers' = answers \cup {[kind |-> "prefer", rev |-> 0]}
  /\ UNCHANGED <<index, previous, client, asking, nav>>

Replace(a, b) == answers' = (answers \ {a}) \cup {b}
AnswerRead(a) ==
  /\ a \in answers /\ a.rev = 0
  /\ \/ /\ a.kind = "refresh" /\ Replace(a, [a EXCEPT !.rev = Current])
        /\ UNCHANGED <<index, previous, client, nav, quota>>
     \/ /\ a.kind = "prefer" /\ WriteIndex([index[Current] EXCEPT !.ui = 100])
        /\ Replace(a, [kind |-> "refresh", rev |-> Current + 1]) /\ UNCHANGED quota
     \/ /\ a.kind = "prefer" /\ Replace(a, [kind |-> "refresh", rev |-> 0])
        /\ quota' = [quota EXCEPT !.failed = TRUE]
        /\ UNCHANGED <<index, previous, client, nav>>
  /\ UNCHANGED <<asking, shown>>
AnswerLands(a) ==
  /\ a \in answers /\ a.rev # 0
  /\ answers' = answers \ {a} /\ Adopt(Whole(a.rev))
  /\ UNCHANGED <<index, previous, client, asking, nav, quota>>

\* The socket opens with a subscription that says what the page holds, and drops.  A server
\* that restarts forgets what it broadcast.
NavOpens ==
  /\ ~ nav.open
  /\ nav' = [nav EXCEPT !.open = TRUE, !.up = <<IF shown = NoIndex THEN 0 ELSE shown.rev>>]
  /\ UNCHANGED <<index, previous, client, asking, shown, answers, quota>>
NavDrops ==
  /\ nav.open /\ Charge("drops")
  /\ nav' = Closed0 /\ client' = Unwatched /\ asking' = <<>>
  /\ previous' \in {previous, 0}
  /\ UNCHANGED <<index, shown, answers>>

IndexInit ==
  /\ index = <<[tabs |-> 1, ui |-> 1]>> /\ previous = 0 /\ client = Unwatched /\ asking = <<>>
  /\ nav = Closed0 /\ shown = NoIndex /\ answers = {[kind |-> "refresh", rev |-> 0]}
  /\ \E l \in IndexLoads : quota = [writes |-> l.writes, prefers |-> l.prefers,
                                   refreshes |-> l.refreshes, drops |-> l.drops, failed |-> FALSE]

IndexSystem ==
  \/ SubscribeTaken \/ IndexReceived \/ NavOpens
  \/ \E i \in DOMAIN asking : SubscribeRead(i) \/ SubscribeAnswered(i)
  \/ \E a \in answers : AnswerRead(a) \/ AnswerLands(a)
IndexUser == Refresh \/ Prefer \/ NavDrops \/ \E v \in BOOLEAN : TabsWritten(v)
IndexNext == IndexSystem \/ IndexUser
IndexSpec == IndexInit /\ [][IndexNext]_indexVars

-----------------------------------------------------------------------------
\* Properties.

\* Revisions are revisions of the index, and a closed socket carries nothing.
IndexTypes ==
  /\ shown.rev \in 0..Current /\ previous \in 0..Current
  /\ client.rev \in {Unknown} \cup 0..Current
  /\ ~ nav.open => nav = Closed0 /\ asking = <<>>

\* When nothing is on its way any more, the sidebar of a connected page shows the tabs that
\* are there, whatever it missed, whatever the server believed it held, and whichever of the
\* answers and pushes came first; and the preferences, unless writing them failed.  All but when
\* the server has answered a subscription with nothing, since writes that show nothing went by
\* while it read: until something is sent, or the page subscribes again.
SidebarCatchesUp ==
  nav.open /\ nav.up = <<>> /\ nav.down = <<>> /\ asking = <<>> /\ answers = {} /\ ~ nav.unsaid
    => /\ shown.tabs = index[Current].tabs
       /\ shown.ui = index[Current].ui \/ quota.failed

\* The sidebar of a page at rest shows the tabs there are.
SidebarIsTrue == IndexTypes /\ SidebarCatchesUp
=============================================================================
