------------------------------ MODULE SealedChannel ------------------------------
(***************************************************************************)
(* The handshake and the sealed frames between a page and its server       *)
(* (client/e2ee-gate.ts, client/e2ee-wire.ts, server/e2ee-wire.ts, the     *)
(* /ws handler and revokeEncryptedConnections in app.ts).  The server may  *)
(* begin, change and end encryption; the page has one key for all of its   *)
(* sockets, types it, may mistype it, and answers every challenge that     *)
(* waits for one.  Frames are counted by both ends and open in order only. *)
(* What is compressed, and with what, is left out.                         *)
(***************************************************************************)
EXTENDS Integers, Sequences, FiniteSets, SequencesExt

CONSTANTS
  Sockets,
  SecretKeys,     \* what a passphrase gives; 0 is no encryption
  ChannelLoads    \* bounds: changes of the key, keys typed, events sent; crossing

VARIABLES
  serverKey,   \* the key of the encryption switch
  ends,        \* the server's end of each socket
  mine,        \* the page's end
  upward, downward,   \* frames on each socket
  key,         \* the gate: its key,
  needed,      \*   the fingerprint of the key that is required, 0 for none,
  proved,      \*   and whether a server took its proof
  kept,        \* keys remembered in the browser
  waiting,     \* sockets whose challenge waits for a key, in order
  runs,        \* answerWaiting under way: a key and the sockets still to answer
  bootstraps,  \* bootstrap answers on their way, as read
  allowed      \* what is left of the load

channelVars == <<serverKey, ends, mine, upward, downward, key, needed, proved, kept, waiting, runs, bootstraps, allowed>>

ServerEnd == [up |-> FALSE, decided |-> FALSE, verified |-> FALSE, pending |-> 0, wire |-> 0,
              out |-> 0, in |-> 0, subscribed |-> FALSE]
PageEnd == [up |-> FALSE, wire |-> 0, deriving |-> FALSE, master |-> 0, out |-> 0, in |-> 0]
Plain(what) == [sealed |-> FALSE, what |-> what, key |-> 0, count |-> 0]
\* What may happen in the middle of a handshake is part of a load: with "crossing", that another
\* challenge, a key or an answer of bootstrap arrives, or that the key changes under the latter.
Uncrossed ==
  \/ allowed.crossing
  \/ /\ runs = {}
     /\ \A s \in Sockets :
          ~ mine[s].deriving /\ \A f \in ToSet(upward[s] \o downward[s]) : f.what \notin {"proof", "ready"}
Allows(what) == allowed[what] > 0 /\ allowed' = [allowed EXCEPT ![what] = @ - 1]

-----------------------------------------------------------------------------
\* The server.

\* A connection is decided once the key has been read; what came before waits for that.
Decided(s) ==
  /\ ends[s].up /\ ~ ends[s].decided
  /\ ends' = [ends EXCEPT ![s].decided = TRUE, ![s].verified = serverKey = 0, ![s].pending = serverKey]
  /\ downward' = IF serverKey = 0 THEN downward
                 ELSE [downward EXCEPT ![s] = Append(@, [Plain("challenge") EXCEPT !.key = serverKey])]
  /\ UNCHANGED <<serverKey, mine, upward, key, needed, proved, kept, waiting, runs, bootstraps, allowed>>

\* An unproved connection is heard for its proof only; the mutant lets it subscribe.
MaySubscribeEarly(e, f) == f.what = "subscribe"
MaySubscribe(e, f) == e.verified /\ f.what = "subscribe"
\* ServerWire.open: a frame that does not open is dropped, and does not count.
ServerTakes(s) ==
  LET f == Head(upward[s])
      e == ends[s]
      opens == f.sealed /\ f.key = e.wire /\ f.count = e.in
      heard == IF e.wire # 0 THEN opens ELSE ~ f.sealed
      e2 == IF e.wire # 0 THEN [e EXCEPT !.in = IF opens THEN @ + 1 ELSE @] ELSE e
  IN  /\ e.up /\ e.decided /\ upward[s] # <<>>
      /\ CASE heard /\ ~ e.verified /\ f.what = "proof" ->
                /\ ends' = [ends EXCEPT ![s] = [e2 EXCEPT !.verified = TRUE, !.pending = 0, !.wire = e.pending]]
                /\ downward' = [downward EXCEPT ![s] = Append(@, Plain("ready"))]
                /\ upward' = [upward EXCEPT ![s] = Tail(@)]
           [] OTHER ->
                /\ ends' = [ends EXCEPT ![s] = [e2 EXCEPT !.subscribed = @ \/ (heard /\ MaySubscribe(e, f))]]
                /\ upward' = [upward EXCEPT ![s] = Tail(@)] /\ UNCHANGED downward
      /\ UNCHANGED <<serverKey, mine, key, needed, proved, kept, waiting, runs, bootstraps, allowed>>

\* sendClient to a socket that subscribed.
ServerSends(s) ==
  /\ ends[s].up /\ ends[s].subscribed /\ Allows("events")
  /\ downward' = [downward EXCEPT ![s] = Append(@,
       [sealed |-> ends[s].wire # 0, what |-> "event", key |-> ends[s].wire, count |-> ends[s].out])]
  /\ ends' = [ends EXCEPT ![s].out = IF ends[s].wire # 0 THEN @ + 1 ELSE @]
  /\ UNCHANGED <<serverKey, mine, upward, key, needed, proved, kept, waiting, runs, bootstraps>>

\* The passphrase is set, changed or taken away: every remote socket is closed.
KeySwitched(k) ==
  /\ k # serverKey /\ Allows("switches") /\ (allowed.crossing \/ \A b \in bootstraps : ~ b.read)
  /\ serverKey' = k
  /\ downward' = [s \in Sockets |-> IF ends[s].up THEN Append(downward[s], Plain("close")) ELSE downward[s]]
  /\ ends' = [s \in Sockets |-> ServerEnd] /\ upward' = [s \in Sockets |-> <<>>]
  /\ UNCHANGED <<mine, key, needed, proved, kept, waiting, runs, bootstraps>>

-----------------------------------------------------------------------------
\* The page.

\* gateSend: sealed on a proved socket, in the open while nothing is known to be required.
GateSends(p, wires, s, what) ==
  IF p.wire # 0 THEN [wires EXCEPT ![s] = Append(@, [sealed |-> TRUE, what |-> what, key |-> p.wire, count |-> p.out])]
  ELSE IF needed # 0 THEN wires ELSE [wires EXCEPT ![s] = Append(@, Plain(what))]
AfterSend(p) == IF p.wire # 0 THEN [p EXCEPT !.out = @ + 1] ELSE p

\* answerWaiting takes what waits, each entry a socket and what its challenge asks for; the
\* socket of an entry is 0 once it has closed.
AnswerWaiting(k, list) ==
  /\ key' = k
  /\ waiting' = IF k = 0 THEN list ELSE <<>>
  /\ runs' = IF k = 0 \/ list = <<>> THEN runs ELSE runs \cup {[key |-> k, todo |-> list]}
OtherThan(s, list) == SelectSeq(list, LAMBDA e : e.socket # s)
Gone(s, list) == [i \in DOMAIN list |-> IF list[i].socket = s THEN [list[i] EXCEPT !.socket = 0] ELSE list[i]]

PageOpens(s) ==
  /\ ~ mine[s].up /\ downward[s] = <<>>
  /\ mine' = [mine EXCEPT ![s] = [PageEnd EXCEPT !.up = TRUE]]
  /\ ends' = [ends EXCEPT ![s] = [ServerEnd EXCEPT !.up = TRUE]]
  /\ upward' = GateSends(PageEnd, [upward EXCEPT ![s] = <<>>], s, "subscribe")
  /\ UNCHANGED <<serverKey, downward, key, needed, proved, kept, waiting, runs, bootstraps, allowed>>

\* receive and handleMessage.  While the keys of a socket are being derived a sealed frame
\* cannot be read, and is lost.
PageTakes(s) ==
  LET f == Head(downward[s])
      p == mine[s]
      rest == [downward EXCEPT ![s] = Tail(@)]
      opens == f.sealed /\ p.wire # 0 /\ f.key = p.wire /\ f.count = p.in
  IN  /\ downward[s] # <<>> /\ downward' = rest
      /\ f.what = "challenge" => Uncrossed
      /\ CASE f.what = "challenge" ->
                /\ needed' = f.key /\ AnswerWaiting(key, Append(OtherThan(s, waiting), [socket |-> s, asks |-> f.key]))
                /\ UNCHANGED <<mine, proved, kept, bootstraps, ends, upward>>
           [] f.what = "ready" ->
                /\ mine' = [mine EXCEPT ![s].deriving = TRUE, ![s].master = key] /\ proved' = TRUE
                /\ UNCHANGED <<key, needed, kept, waiting, runs, bootstraps, ends, upward>>
           [] f.what = "close" ->
                /\ mine' = [mine EXCEPT ![s] = PageEnd]
                /\ bootstraps' = bootstraps \cup {[read |-> FALSE, key |-> 0]}
                /\ waiting' = OtherThan(s, waiting) /\ runs' = {[r EXCEPT !.todo = Gone(s, @)] : r \in runs}
                /\ UNCHANGED <<key, needed, proved, kept, ends, upward>>
           [] OTHER ->
                /\ mine' = [mine EXCEPT ![s] = [p EXCEPT !.in = IF opens THEN @ + 1 ELSE @]]
                /\ UNCHANGED <<key, needed, proved, kept, waiting, runs, bootstraps, ends, upward>>
      /\ UNCHANGED <<serverKey, allowed>>
\* The keys are there: the socket is sealed from now on and asks for its stream again.
Ready(s) ==
  /\ mine[s].up /\ mine[s].deriving
  /\ LET p == [mine[s] EXCEPT !.deriving = FALSE, !.wire = mine[s].master]
     IN  /\ upward' = IF ends[s].up THEN GateSends(p, upward, s, "subscribe") ELSE upward
         /\ mine' = [mine EXCEPT ![s] = AfterSend(p)]
  /\ UNCHANGED <<serverKey, ends, downward, key, needed, proved, kept, waiting, runs, bootstraps, allowed>>

\* One challenge has been tried.  When it does not fit, dropKey forgets the key, and what was
\* not answered is put back; the mutant puts nothing back.
PutBackNothing(list) == <<>>
PutBack(list) == OtherThan(0, list)
Answered(r) ==
  LET s == r.todo[1].socket
      fits == r.todo[1].asks = r.key
      rest == IF Len(r.todo) = 1 THEN {} ELSE {[r EXCEPT !.todo = Tail(@)]}
  IN  /\ upward' = IF fits /\ s # 0 /\ ends[s].up
                   THEN [upward EXCEPT ![s] = Append(@, [Plain("proof") EXCEPT !.key = r.key])] ELSE upward
      /\ runs' = (runs \ {r}) \cup (IF fits THEN rest ELSE {})
      /\ IF fits THEN UNCHANGED <<waiting, key, kept, proved>>
         ELSE /\ waiting' = PutBack(r.todo) /\ key' = 0 /\ proved' = FALSE
              /\ kept' = kept \ {IF key # 0 THEN key ELSE needed}
      /\ UNCHANGED <<serverKey, ends, mine, downward, needed, bootstraps, allowed>>

\* useKey: answered first, and remembered whatever comes of it.
KeyTyped(k) ==
  /\ needed # 0 /\ ~ proved /\ Uncrossed /\ Allows("types")
  /\ AnswerWaiting(k, waiting)
  /\ UNCHANGED <<serverKey, ends, mine, upward, downward, needed, proved, kept, bootstraps>>
KeyKept ==
  /\ key # 0 /\ key \notin kept /\ kept' = kept \cup {key}
  /\ UNCHANGED <<serverKey, ends, mine, upward, downward, key, needed, proved, waiting, runs, bootstraps, allowed>>

\* applyRequirement, with what a bootstrap read on the server.
BootstrapRead(b) ==
  /\ b \in bootstraps /\ ~ b.read
  /\ bootstraps' = (bootstraps \ {b}) \cup {[read |-> TRUE, key |-> serverKey]}
  /\ UNCHANGED <<serverKey, ends, mine, upward, downward, key, needed, proved, kept, waiting, runs, allowed>>
BootstrapApplied(b) ==
  /\ b \in bootstraps /\ b.read /\ Uncrossed /\ bootstraps' = bootstraps \ {b}
  /\ needed' = b.key
  /\ IF b.key = 0 THEN key' = 0 /\ waiting' = <<>> /\ proved' = FALSE /\ UNCHANGED runs
     ELSE AnswerWaiting(IF b.key \in kept \cup {key} THEN b.key ELSE 0, waiting) /\ UNCHANGED proved
  /\ UNCHANGED <<serverKey, ends, mine, upward, downward, kept, allowed>>

ChannelInit ==
  /\ serverKey \in SecretKeys \cup {0}
  /\ ends = [s \in Sockets |-> ServerEnd] /\ mine = [s \in Sockets |-> PageEnd]
  /\ upward = [s \in Sockets |-> <<>>] /\ downward = [s \in Sockets |-> <<>>]
  /\ key = 0 /\ needed = 0 /\ proved = FALSE /\ kept = {} /\ waiting = <<>> /\ runs = {}
  /\ bootstraps = {[read |-> FALSE, key |-> 0]} /\ allowed \in ChannelLoads

ChannelNext ==
  \/ \E s \in Sockets : Decided(s) \/ ServerTakes(s) \/ ServerSends(s) \/ PageOpens(s) \/ PageTakes(s) \/ Ready(s)
  \/ KeyKept
  \/ \E r \in runs : Answered(r)
  \/ \E k \in SecretKeys : KeyTyped(k)
  \/ \E k \in SecretKeys \cup {0} : KeySwitched(k)
  \/ \E b \in bootstraps : BootstrapRead(b) \/ BootstrapApplied(b)

-----------------------------------------------------------------------------
\* Properties.

ChannelTypes ==
  /\ \A i \in DOMAIN waiting : waiting[i].socket \in Sockets /\ key \in SecretKeys \cup {0}
  /\ \A s \in Sockets : (ends[s].wire # 0 => ends[s].verified) /\ (~ ends[s].up => ends[s] = ServerEnd)

OnItsWay(wire) == Len(SelectSeq(wire, LAMBDA f : f.sealed))

\* Both ends of a sealed socket count alike, or nothing on it can be read ever again: what
\* one has sealed is what the other has opened and what is on its way.
EndsCountAlike ==
  \A s \in Sockets : mine[s].up /\ ends[s].up /\ mine[s].wire # 0 /\ ends[s].wire = mine[s].wire =>
    /\ mine[s].out = ends[s].in + OnItsWay(upward[s])
    /\ ends[s].out = mine[s].in + OnItsWay(downward[s])

\* When nothing is on its way, a page that holds the key of its server is subscribed on every
\* socket, whatever was refused before and however often the key was mistyped.
EverySocketIsServed ==
  (/\ \A s \in Sockets : mine[s].up /\ ends[s].decided /\ upward[s] = <<>> /\ downward[s] = <<>> /\ ~ mine[s].deriving
   /\ runs = {} /\ bootstraps = {} /\ key = serverKey /\ serverKey # 0)
  => \A s \in Sockets : ends[s].subscribed
=============================================================================
