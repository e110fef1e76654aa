------------------------------ MODULE TerminalInput ------------------------------
(***************************************************************************)
(* Keys on their way to an agent's terminal, and who may type             *)
(* (client/input-coalescer.ts, client/terminal-visibility.ts, the keys of  *)
(* App.tsx, refreshResponderLease and terminal.input in app.ts).  Of the   *)
(* pages that show the raw stream of a tab one holds the lease; a page     *)
(* keeps keys back while its subscription is away, and the server looks    *)
(* the tab up, asynchronously, before it passes a key on.                  *)
(***************************************************************************)
EXTENDS Integers, Sequences, FiniteSets, SequencesExt

CONSTANTS
  Pages,
  HeldKeys,      \* HELD_INPUT_KEYSTROKES
  InputLoads     \* bounds: keys, how often a page looks away, how often it loses its socket

\* The pages are numbered from 1 (0 is nobody).
ASSUME InputAssumption ==
  Pages \subseteq Nat \ {0} /\ HeldKeys \in Nat /\ InputLoads \subseteq [{"keys", "looks", "losses"} -> Nat]

VARIABLES
  clients,    \* the server's set of sockets, in the order in which they came
  subs,       \* raw subscriptions, by socket
  owner,      \* rawResponderOwners: a page, or 0
  looking,    \* keys whose tab is being looked up: [page, key]
  typed,      \* history: what the agent got, [page, key]
  came,       \* history: what the server got and accepted, [page, key]
  pages,      \* each page, see PageState
  keyWire,    \* page to server
  leaseWire,  \* server to page
  budget

inputVars == <<clients, subs, owner, looking, typed, came, pages, keyWire, leaseWire, budget>>

\* rawLeaseWritable, terminalSubscribed, awaitingRawOneShot, heldInput, the coalescer's buffer;
\* what the page shows (the terminal, a document, or nothing: it is hidden), and how many
\* screens it has asked for on its socket that have not come.
PageState == [writable |-> TRUE, subscribed |-> FALSE, awaiting |-> FALSE, view |-> "terminal",
              held |-> <<>>, buffer |-> <<>>, next |-> 1, open |-> FALSE, asked |-> 0]
Uses(what) == budget[what] > 0 /\ budget' = [budget EXCEPT ![what] = @ - 1]
Batch(keys) == IF keys = <<>> THEN <<>> ELSE <<[kind |-> "keys", keys |-> keys]>>

-----------------------------------------------------------------------------
\* The server.

\* refreshResponderLease, for the subscriptions and the sockets there are now: the owner
\* stays while it is subscribed, and every page that is subscribed is told.  The mutant tells
\* only whoever asked.
Owner(order, raw) ==
  IF owner \in raw /\ owner \in ToSet(order) THEN owner
  ELSE LET first == SelectInSeq(order, LAMBDA p : p \in raw) IN IF first = 0 THEN 0 ELSE order[first]
ToldAsker(order, raw, asker) == raw \cap ToSet(order) \cap {asker}
Told(order, raw, asker) == raw \cap ToSet(order)
LeaseRefreshed(order, raw, asker, wire) ==
  /\ owner' = Owner(order, raw)
  /\ leaseWire' = [p \in Pages |->
       IF p \in Told(order, raw, asker)
       THEN Append(wire[p], [kind |-> "lease", writable |-> p = Owner(order, raw)]) ELSE wire[p]]

\* subscribe, with or without the terminal; keys are checked against the subscription and
\* the lease when they come, and typed when the tab has been looked up.
InputArrives(p) ==
  LET m == Head(keyWire[p])
  IN  /\ keyWire[p] # <<>> /\ keyWire' = [keyWire EXCEPT ![p] = Tail(@)]
      /\ IF m.kind = "subscribe"
         THEN /\ subs' = IF m.raw THEN subs \cup {p} ELSE subs \ {p}
              /\ IF p \in subs \/ m.raw THEN LeaseRefreshed(clients, subs', p, leaseWire)
                 ELSE UNCHANGED <<owner, leaseWire>>
              /\ UNCHANGED <<looking, came>>
         ELSE /\ IF p \in subs /\ owner = p
                 THEN /\ looking' = looking \cup {[page |-> p, keys |-> m.keys]}
                      /\ came' = came \o [i \in DOMAIN m.keys |-> [page |-> p, key |-> m.keys[i]]]
                      /\ UNCHANGED leaseWire
                 ELSE /\ leaseWire' = [leaseWire EXCEPT ![p] = Append(@,
                           [kind |-> IF p \in subs THEN "readOnly" ELSE "notSubscribed", writable |-> FALSE])]
                      /\ UNCHANGED <<looking, came>>
              /\ UNCHANGED <<subs, owner>>
      /\ UNCHANGED <<clients, typed, pages, budget>>
\* The read of index.json that was begun first need not end first.
InputTyped(k) ==
  /\ k \in looking /\ looking' = looking \ {k}
  /\ typed' = typed \o [i \in DOMAIN k.keys |-> [page |-> k.page, key |-> k.keys[i]]]
  /\ UNCHANGED <<clients, subs, owner, came, pages, keyWire, leaseWire, budget>>

-----------------------------------------------------------------------------
\* The pages.

\* push, for one held key after the other: at a key that goes at once everything before it
\* goes out with it.  Where that is (there is one such choice), what goes out, what is left.
Flushes(held) ==
  LET now == {i \in DOMAIN held : held[i].atOnce}
  IN  {at \in [1..Cardinality(now) -> now] : \A i, j \in DOMAIN at : i < j => at[i] < at[j]}
KeysOf(held) == [i \in DOMAIN held |-> held[i].key]
HeldPushed(buffer, held, at) ==
  LET keys == buffer \o KeysOf(held)
      End(n) == IF n = 0 THEN 0 ELSE Len(buffer) + at[n]
  IN  [frames |-> [n \in DOMAIN at |-> [kind |-> "keys", keys |-> SubSeq(keys, End(n - 1) + 1, End(n))]],
       rest |-> SubSeq(keys, End(Len(at)) + 1, Len(keys))]

\* sendSubscription, of a page that has become g: what was held is forgotten, or pushed, and
\* only then the subscription goes out; nothing of it without a socket.
SendSubscription(p, g, raw) ==
  LET held == IF raw THEN g.held ELSE <<>>
  IN  IF ~ g.open THEN pages' = [pages EXCEPT ![p] = g] /\ UNCHANGED keyWire
      ELSE \E at \in Flushes(held) :
             LET pushed == HeldPushed(g.buffer, held, at)
             IN  /\ keyWire' = [keyWire EXCEPT ![p] =
                      Append(@ \o pushed.frames, [kind |-> "subscribe", raw |-> raw])]
                 /\ pages' = [pages EXCEPT ![p] = [g EXCEPT !.subscribed = raw, !.held = <<>>,
                                                            !.buffer = pushed.rest]]

\* push: a key that is a command, or fills the buffer, empties the buffer with it, text waits
\* in it; the mutant sends a command ahead of the text.
KeyOvertakes(buffer, key, atOnce) ==
  IF atOnce THEN <<Batch(<<key>>), buffer>> ELSE <<<<>>, Append(buffer, key)>>
KeyPushed(buffer, key, atOnce) ==
  IF atOnce THEN <<Batch(Append(buffer, key)), <<>>>> ELSE <<<<>>, Append(buffer, key)>>
\* What becomes of a key while the subscription may be away (terminalInputDisposition).
Disposition(g) ==
  CASE g.subscribed -> "send"
    [] ~ g.subscribed /\ g.view # "terminal" -> "drop"
    [] ~ g.subscribed /\ g.view = "terminal" -> IF g.awaiting THEN "hold" ELSE "hold-and-resubscribe"
\* Nobody types at a page that shows no terminal; the keys of one that may not are dropped, as
\* are those that are too many to hold.
KeyPressed(p, atOnce) ==
  LET g == pages[p]
      pushed == KeyPushed(g.buffer, g.next, atOnce)
      key == [key |-> g.next, atOnce |-> atOnce]
      kept == [g EXCEPT !.held = IF Len(@) < HeldKeys THEN Append(@, key) ELSE @, !.next = @ + 1]
  IN  /\ g.view = "terminal" /\ g.writable /\ Uses("keys")
      /\ IF Disposition(g) = "send"
         THEN /\ pages' = [pages EXCEPT ![p] = [g EXCEPT !.buffer = pushed[2], !.next = @ + 1]]
              /\ keyWire' = IF g.open THEN [keyWire EXCEPT ![p] = @ \o pushed[1]] ELSE keyWire
         ELSE IF Disposition(g) = "hold"
         THEN pages' = [pages EXCEPT ![p] = kept] /\ UNCHANGED keyWire
         ELSE SendSubscription(p, kept, TRUE)
      /\ UNCHANGED <<clients, subs, owner, looking, typed, came, leaseWire>>
\* The window of the coalescer ends; a page whose socket is gone sends into nothing.
WindowEnds(p) ==
  /\ pages[p].buffer # <<>>
  /\ keyWire' = IF pages[p].open THEN [keyWire EXCEPT ![p] = @ \o Batch(pages[p].buffer)] ELSE keyWire
  /\ pages' = [pages EXCEPT ![p].buffer = <<>>]
  /\ UNCHANGED <<clients, subs, owner, looking, typed, came, leaseWire, budget>>

\* Whoever is told that it is not subscribed subscribes again, if it should; another refusal
\* ends the wait for a screen.
LeaseArrives(p) ==
  LET m == Head(leaseWire[p])
      g == pages[p]
  IN  /\ leaseWire[p] # <<>> /\ leaseWire' = [leaseWire EXCEPT ![p] = Tail(@)]
      /\ IF m.kind = "notSubscribed" /\ g.view = "terminal" THEN SendSubscription(p, g, TRUE)
         ELSE /\ pages' = [pages EXCEPT ![p] =
                   CASE m.kind = "lease" -> [g EXCEPT !.writable = m.writable]
                     [] m.kind = "notSubscribed" -> [g EXCEPT !.subscribed = FALSE]
                     [] m.kind = "readOnly" -> [g EXCEPT !.awaiting = FALSE]]
              /\ UNCHANGED keyWire
      /\ UNCHANGED <<clients, subs, owner, looking, typed, came, budget>>

\* The page is hidden, or shows a document.  One that is hidden while it is not subscribed has
\* nothing to send (applyPageVisibility): it goes on waiting for its screen.
PageHides(p) ==
  /\ pages[p].view = "terminal" /\ Uses("looks")
  /\ \E view \in {"hidden", "document"} :
       LET g == [pages[p] EXCEPT !.view = view]
       IN  IF g.open /\ (g.subscribed \/ view = "document")
           THEN SendSubscription(p, [g EXCEPT !.awaiting = FALSE], FALSE)
           ELSE pages' = [pages EXCEPT ![p] = g] /\ UNCHANGED keyWire
  /\ UNCHANGED <<clients, subs, owner, looking, typed, came, leaseWire>>
\* requestRawOneShot, of a page that has become g: the stream is retired first.
RequestRawOneShot(p, g) ==
  IF g.open THEN SendSubscription(p, [g EXCEPT !.awaiting = TRUE, !.asked = @ + 1], FALSE)
  ELSE pages' = [pages EXCEPT ![p] = g] /\ UNCHANGED keyWire
\* A document is closed: a screen is asked for.  Or the page is shown or focused, and
\* subscribes unless it is subscribed, also while it waits for a screen.
PageShows(p) ==
  LET g == [pages[p] EXCEPT !.view = "terminal"]
  IN  /\ IF pages[p].view = "document" THEN RequestRawOneShot(p, g)
         ELSE IF g.open /\ ~ g.subscribed THEN SendSubscription(p, g, TRUE)
         ELSE pages' = [pages EXCEPT ![p] = g] /\ UNCHANGED keyWire
      /\ UNCHANGED <<clients, subs, owner, looking, typed, came, leaseWire, budget>>
\* The server has more to catch up on than the page wants: it asks for a screen.
ScreenAsked(p) ==
  /\ pages[p].open /\ pages[p].view # "document" /\ Uses("looks") /\ RequestRawOneShot(p, pages[p])
  /\ UNCHANGED <<clients, subs, owner, looking, typed, came, leaseWire>>
\* The screen comes, and the page subscribes again; or it cannot be had or used.
ScreenCame(p, usable) ==
  LET g == [pages[p] EXCEPT !.asked = @ - 1, !.awaiting = FALSE]
  IN  /\ pages[p].asked > 0
      /\ IF pages[p].awaiting /\ usable THEN SendSubscription(p, g, TRUE)
         ELSE pages' = [pages EXCEPT ![p] = g] /\ UNCHANGED keyWire
      /\ UNCHANGED <<clients, subs, owner, looking, typed, came, leaseWire, budget>>

\* A socket opens and subscribes, and is lost with what is on it.
SocketOpens(p) ==
  /\ ~ pages[p].open /\ clients' = Append(clients, p)
  /\ SendSubscription(p, [pages[p] EXCEPT !.open = TRUE], pages[p].view = "terminal")
  /\ UNCHANGED <<subs, owner, looking, typed, came, leaseWire, budget>>
SocketLost(p) ==
  /\ pages[p].open /\ Uses("losses")
  /\ clients' = RemoveFirst(clients, p)
  /\ subs' = subs \ {p}
  /\ IF p \in subs THEN LeaseRefreshed(clients', subs', p, [leaseWire EXCEPT ![p] = <<>>])
     ELSE leaseWire' = [leaseWire EXCEPT ![p] = <<>>] /\ UNCHANGED owner
  /\ pages' = [pages EXCEPT ![p].open = FALSE, ![p].asked = 0]
  /\ keyWire' = [keyWire EXCEPT ![p] = <<>>]
  /\ UNCHANGED <<looking, typed, came>>

InputInit ==
  /\ clients = <<>> /\ subs = {} /\ owner = 0 /\ looking = {} /\ typed = <<>> /\ came = <<>>
  /\ pages = [p \in Pages |-> PageState]
  /\ keyWire = [p \in Pages |-> <<>>] /\ leaseWire = [p \in Pages |-> <<>>]
  /\ budget \in InputLoads

InputNext ==
  \/ \E p \in Pages :
       \/ InputArrives(p) \/ WindowEnds(p) \/ LeaseArrives(p) \/ PageHides(p) \/ PageShows(p)
       \/ ScreenAsked(p) \/ SocketOpens(p) \/ SocketLost(p)
       \/ \E b \in BOOLEAN : KeyPressed(p, b) \/ ScreenCame(p, b)
  \/ \E k \in looking : InputTyped(k)
InputSpec == InputInit /\ [][InputNext]_inputVars

-----------------------------------------------------------------------------
\* Properties.

InputTypes ==
  /\ owner \in Pages \cup {0} /\ subs \subseteq ToSet(clients)
  /\ \A p \in Pages : Len(pages[p].held) <= HeldKeys /\ (pages[p].subscribed => pages[p].held = <<>>)

\* When nothing is on its way, one of the pages that show the terminal may type, and every
\* one of them knows whether it is the one.
LeaseSettles ==
  (\A p \in Pages : keyWire[p] = <<>> /\ leaseWire[p] = <<>>)
  => /\ (subs # {}) = (owner # 0)
     /\ \A p \in subs : pages[p].writable = (owner = p)

\* Keys of a page arrive in the order in which they were pressed, whatever was held back
\* and whatever went ahead of the rest, and the agent gets none of them twice.
KeysArriveInOrder ==
  /\ \A i, j \in DOMAIN came : i < j /\ came[i].page = came[j].page => came[i].key < came[j].key
  /\ \A i, j \in DOMAIN typed : typed[i] = typed[j] => i = j

\* What the agent gets is what was typed, in order on its way, from the one page that may.
KeysArrive == InputTypes /\ KeysArriveInOrder /\ LeaseSettles
=============================================================================
