--------------------------- MODULE FederationSafety ---------------------------
(***************************************************************************)
(* What the hub and its members promise the pages, whatever the order of   *)
(* connections, losses, removals, requests and messages.                   *)
(***************************************************************************)
EXTENDS FederationLink

FrameState ==
    [type : {"directory"}, stream : {0}, devices : SUBSET Devices]
    \cup [type : {"request", "response"}, stream : Nat, req : Requests]
    \cup [type : {"open"}, stream : Nat, page : Pages]
    \cup [type : {"text"}, stream : Nat, text : [page : Pages, nr : Nat \ {0}]]
    \cup [type : {"close"}, stream : Nat]

\* Every variable keeps its type.
FederationTypes ==
    /\ registry \in [Tokens -> Devices \cup {NoDevice, Removed}]
    /\ removing \subseteq Tokens \X (Devices \cup {NoDevice})
    /\ links \in [Devices -> 0..MaxConns]
    /\ conns \in [Conns -> [boot : Boots, cut : BOOLEAN, next : Nat \ {0},
                            hub : {"none", "refused", "saving", "open", "closing", "closed"},
                            member : {"none", "connecting", "open", "closing", "closed"},
                            code : {"none", "superseded", "replaced", "removed", "fatal", "error"}]]
    /\ \A c \in Conns :
         /\ http[c] \subseteq [stream : Nat, req : Requests]
         /\ sockets[c] \subseteq [stream : Nat, page : Pages]
         /\ \A i \in DOMAIN up[c] : up[c][i] \in FrameState
         /\ \A i \in DOMAIN down[c] : down[c][i] \in FrameState
    /\ \A b \in Boots :
         /\ members[b].state \in {"connecting", "connected", "halted", "left"}
         /\ members[b].socket \in 0..MaxConns /\ members[b].timer \in BOOLEAN
         /\ members[b].executing \subseteq [stream : Nat, req : Requests]
         /\ members[b].streams \subseteq [stream : Nat, page : Pages]
         /\ members[b].directory \subseteq Devices
    /\ \A p \in Pages :
         /\ locals[p].state \in {"none", "opening", "open", "closed"}
         /\ pages[p].state \in {"new", "open", "closed"} /\ pages[p].conn \in 0..MaxConns
    /\ replies \in [Requests -> {"new", "waiting", "refused", "offline", "timeout"} \cup Requests]
    /\ cuts \in 0..MaxCuts /\ load \in Loads

-----------------------------------------------------------------------------
(* Links. *)

(* The newest link of a device is the one the hub uses: a link that is open *)
(* and not told to close is in the map, also when the link it superseded    *)
(* closes later (attach, detach).                                           *)
OpenLinkIsUsed ==
    \A c \in Conns : conns[c].hub = "open" => links[DeviceOf[conns[c].boot]] = c

(* A member that believes it is connected, and is not about to hear         *)
(* otherwise, is the process the hub sends to: two copies of one device are *)
(* never both in use, however often either of them dials.                   *)
ConnectedIsUsed ==
    \A b \in Boots :
        LET c == members[b].socket IN
        members[b].state = "connected" /\ ~conns[c].cut /\ conns[c].hub # "closing" =>
            links[DeviceOf[b]] = c

(* A member dials one connection at a time: the backoff timer, the retry    *)
(* button and the close events of older sockets never leave it with two.    *)
OneSocket ==
    \A c \in Conns : conns[c].member \in {"connecting", "open"} =>
        members[conns[c].boot].socket = c

(* A join code serves one machine: two links of one token that are open or  *)
(* being saved carry the same device id (authenticate binds before it       *)
(* awaits the write).                                                       *)
JoinCodeOnce ==
    \A c, e \in Conns :
        /\ conns[c].hub \in {"saving", "open"} /\ conns[e].hub \in {"saving", "open"}
        /\ TokenOf[conns[c].boot] = TokenOf[conns[e].boot]
        => DeviceOf[conns[c].boot] = DeviceOf[conns[e].boot]

(* Hub and member agree on the link of a device, and on whose it is.        *)
LinksAgree == FederationTypes /\ OpenLinkIsUsed /\ ConnectedIsUsed /\ OneSocket /\ JoinCodeOnce

(* A member that has read everything the hub sent it sees the directory the *)
(* hub has: every change of a link or of the registry is announced.         *)
DirectoryCurrent ==
    \A c \in Conns :
        conns[c].hub = "open" /\ conns[c].member = "open" /\ removing = {}
        /\ (\A i \in DOMAIN down[c] : down[c][i].type # "directory") =>
            members[conns[c].boot].directory = Directory(registry, links)

-----------------------------------------------------------------------------
(* Streams. *)

InOrder(texts, p) == \A i \in DOMAIN texts : texts[i] = Text(p, i)

(* What a local socket gets is what its page sent, in order and without a   *)
(* gap, from the first message on, and the other way round: the early       *)
(* queue, a stream that ends and a link that is rebuilt, where the numbers  *)
(* start again, neither mix nor reorder two pages' messages.                *)
TextsInOrder ==
    \A p \in Pages : InOrder(locals[p].got \o locals[p].early, p) /\ InOrder(pages[p].got, p)

\* no link is open, closing or about to be read
AllClosed == \A c \in Conns : conns[c].hub # "open" /\ conns[c].member \in {"none", "closed"}

(* Once the links are gone no page is left waiting on one, and no member    *)
(* keeps a local socket open for a page, except a member that has left:     *)
(* stop() drops its socket, so that a SocketOpen that was still on its way  *)
(* opens a local socket nobody closes.                                      *)
NoOrphans ==
    AllClosed => \A p \in Pages :
        locals[p].state = "open" => members[locals[p].boot].state = "left"

(* Streams neither lose, mix nor leave behind what they carry.              *)
StreamsHold == TextsInOrder /\ NoOrphans

(* A page hears of it when the link that carries it is lost or replaced:    *)
(* its socket does not stay open (detach closes the page sockets of the     *)
(* link, also of one that is no longer the device's link).                  *)
PagesTold ==
    \A p \in Pages :
        pages[p].state = "open" /\ conns[pages[p].conn].cut ~> pages[p].state = "closed"

(* Every request is answered or failed (request, RELAY_TIMEOUT_MS).         *)
RequestsEnd ==
    \A r \in Requests : replies[r] = "waiting" ~> replies[r] # "waiting"

(* Nobody waits on a link that is gone, or on an answer that cannot come.   *)
NobodyWaits == PagesTold /\ RequestsEnd

-----------------------------------------------------------------------------
(* A claim that the code does not keep; a run refutes it.                   *)

(* A request is answered with its own answer: a result that comes late must *)
(* not pollute a new connection                                             *)
(* (MULTI_DEVICE_FEDERATION_IMPLEMENTATION.md:322).                         *)
AnswersOwn == \A r, q \in Requests : replies[r] = q => r = q
=============================================================================
