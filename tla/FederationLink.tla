---------------------------- MODULE FederationLink ----------------------------
(***************************************************************************)
(* Several machines behind one hub (server/federation): a member keeps one *)
(* outbound WebSocket to the hub, the link, and the hub carries pages'     *)
(* HTTP requests and sockets to it as numbered streams.                    *)
(*                                                                         *)
(* A step is a callback of one process: a route, a timer, an event of a    *)
(* socket.  A link is a FIFO of frames each way.  It is closed in order,   *)
(* the frames before the close are then read first, or it is lost (Cut),   *)
(* and each side hears of that on its own, with any part of the frames     *)
(* still on their way to it dropped.                                       *)
(***************************************************************************)
EXTENDS Naturals, Sequences, SequencesExt, FiniteSets

CONSTANTS
    Boots,        \* member processes; two may run from copies of one data folder
    Devices,      \* device ids
    Tokens,       \* device tokens, one for each entry of the hub's registry
    DeviceOf,     \* the device id a process presents
    TokenOf,      \* the token it presents
    Requests,     \* HTTP requests of pages
    Pages,        \* page sockets
    Loads,        \* what a behaviour does: who runs, asks, opens, is removed, leaves,
                  \* bound: messages from a page (typed) and to it (shown),
                  \* bound: connections dialled (conns)
    MaxHttp,      \* MAX_HTTP_PER_LINK
    NoDevice,     \* the deviceId of a pending entry
    Removed,      \* no such entry any more
    MaxConns,     \* bound: connections dialled in any load
    MaxCuts       \* bound: connections lost

ASSUME FederationAssumption ==
    /\ Boots # {} /\ DeviceOf \in [Boots -> Devices] /\ TokenOf \in [Boots -> Tokens]
    /\ NoDevice \notin Devices /\ Removed \notin Devices \cup {NoDevice}
    /\ {MaxHttp, MaxConns, MaxCuts} \subseteq Nat
    /\ Loads \subseteq [boots : SUBSET Boots, requests : SUBSET Requests, pages : SUBSET Pages,
                        removes : SUBSET Tokens, leaves : SUBSET Boots,
                        typed : Nat, shown : Nat, conns : 1..MaxConns]

VARIABLES
    registry,   \* hub: the device each token is bound to
    removing,   \* hub: removals waiting for their write
    links,      \* hub: the link of each device, 0 for none
    conns,      \* every connection: its process and how each side sees it
    http,       \* hub: the waiters of each link
    sockets,    \* hub: the page sockets of each link
    down, up,   \* the frames on their way to the member and to the hub
    members,    \* every member process
    locals,     \* members: the local socket opened for each page
    replies,    \* what became of each request
    pages,      \* pages: their sockets
    cuts,       \* connections lost so far
    load        \* the load chosen

hub == <<registry, removing, links, http, sockets>>
ends == <<replies, pages>>
vars == <<hub, conns, down, up, members, locals, ends, cuts, load>>

Conns == 1..MaxConns
Free == [boot |-> CHOOSE b \in Boots : TRUE, hub |-> "none", member |-> "none", cut |-> FALSE,
         code |-> "none", next |-> 1]

Directory(reg, lk) == {d \in Devices : lk[d] # 0 /\ \E k \in Tokens : reg[k] = d}
DirectoryFrame(devices) == [type |-> "directory", stream |-> 0, devices |-> devices]
RequestFrame(stream, r) == [type |-> "request", stream |-> stream, req |-> r]
ResponseFrame(stream, r) == [type |-> "response", stream |-> stream, req |-> r]
OpenFrame(stream, p) == [type |-> "open", stream |-> stream, page |-> p]
TextFrame(stream, text) == [type |-> "text", stream |-> stream, text |-> text]
CloseFrame(stream) == [type |-> "close", stream |-> stream]
Text(p, n) == [page |-> p, nr |-> n]

\* FederationHub.send and FederationMember.send: only while the socket is open
ToMember(c, f) == IF conns[c].hub = "open" THEN [down EXCEPT ![c] = Append(@, f)] ELSE down
ToHub(b, f) ==
    LET c == members[b].socket IN
    IF c # 0 /\ conns[c].member = "open" THEN [up EXCEPT ![c] = Append(@, f)] ELSE up

\* changed(): the directory goes to every link
Announced(dn, cs, lk, reg) ==
    [c \in Conns |-> IF cs[c].hub = "open" /\ \E d \in Devices : lk[d] = c
                     THEN Append(dn[c], DirectoryFrame(Directory(reg, lk))) ELSE dn[c]]

\* closeQuietly on the hub's side of a link
HubCloses(cs, c, code) ==
    IF c # 0 /\ cs[c].hub = "open" THEN [cs EXCEPT ![c].hub = "closing", ![c].code = code] ELSE cs

-----------------------------------------------------------------------------
(* Joining. *)

Dials(b, c, keepTimer) ==
    /\ c <= load.conns /\ conns[c].member = "none" /\ \A e \in Conns : e < c => conns[e].member # "none"
    /\ members' = [members EXCEPT ![b].state = "connecting", ![b].timer = keepTimer, ![b].socket = c]
    /\ conns' = [conns EXCEPT ![c] = [Free EXCEPT !.boot = b, !.member = "connecting"]]
    /\ UNCHANGED <<hub, down, up, locals, ends, cuts, load>>

RetryTwice(b) ==   \* mutant: the pending timer is not cleared
    /\ members[b].state # "left" /\ members[b].socket = 0
    /\ \E c \in Conns : Dials(b, c, members[b].timer)

\* connect(), when the backoff timer fires
Connect(b) == members[b].timer /\ \E c \in Conns : Dials(b, c, FALSE)

\* retry(), pressed by the reader
Retry(b) ==
    /\ members[b].state # "left" /\ members[b].socket = 0
    /\ \E c \in Conns : Dials(b, c, FALSE)

TakesOver(cs, c, d) == [cs EXCEPT ![c].hub = "open"]   \* mutant: the old link stays

\* attach(): the newest connection wins, the one it replaces is told why
Takes(cs, c, d) ==
    HubCloses([cs EXCEPT ![c].hub = "open"], links[d],
              IF links[d] # 0 /\ cs[links[d]].boot = cs[c].boot THEN "superseded" ELSE "replaced")

Attaches(c, reg) ==
    LET d == DeviceOf[conns[c].boot]
        lk == [links EXCEPT ![d] = c]
        cs == Takes(conns, c, d)
    IN /\ links' = lk
       /\ conns' = cs
       /\ down' = Announced(down, cs, lk, reg)

RefusesTaken(b) ==   \* mutant: the id the token is bound to is not compared
    registry[TokenOf[b]] = NoDevice /\ \E k \in Tokens : registry[k] = DeviceOf[b]

\* 401, or 409: the token is another device's, or the device has another token
Refuses(b) ==
    \/ registry[TokenOf[b]] \notin {NoDevice, DeviceOf[b]}
    \/ registry[TokenOf[b]] = NoDevice /\ \E k \in Tokens : registry[k] = DeviceOf[b]

\* authenticate() up to its await; a bound token goes on to attach() at once
Authenticate(c) ==
    LET b == conns[c].boot
        new == registry[TokenOf[b]] = NoDevice
    IN
    /\ conns[c].hub = "none" /\ conns[c].member = "connecting"
    /\ \/ /\ Refuses(b)
          /\ conns' = [conns EXCEPT ![c].hub = "refused", ![c].code = "fatal"]
          /\ UNCHANGED <<registry, links, down>>
       \/ /\ ~Refuses(b) /\ new
          /\ registry' = [registry EXCEPT ![TokenOf[b]] = DeviceOf[b]]
          /\ conns' = [conns EXCEPT ![c].hub = "saving"]
          /\ UNCHANGED <<links, down>>
       \/ /\ ~Refuses(b) /\ ~new
          /\ Attaches(c, registry)
          /\ UNCHANGED registry
    /\ UNCHANGED <<removing, http, sockets, up, members, locals, ends, cuts, load>>

\* the binding is saved and the link upgraded, unless the write failed or the
\* socket has gone
Saved(c) ==
    /\ conns[c].hub = "saving"
    /\ \/ Attaches(c, registry)
       \/ /\ conns' = [conns EXCEPT ![c].hub = "refused", ![c].code = "error"]
          /\ UNCHANGED <<links, down>>
       \/ /\ conns[c].cut
          /\ conns' = [conns EXCEPT ![c].hub = "closed"]
          /\ UNCHANGED <<links, down>>
    /\ UNCHANGED <<registry, removing, http, sockets, up, members, locals, ends, cuts, load>>

\* removeDevice(), up to its await and after it
Unlist(k) ==
    /\ k \in load.removes /\ registry[k] # Removed
    /\ registry' = [registry EXCEPT ![k] = Removed]
    /\ removing' = removing \cup {<<k, registry[k]>>}
    /\ UNCHANGED <<links, http, sockets, conns, down, up, members, locals, ends, cuts, load>>

RemoveEnds(k, d) ==
    LET cs == IF d = NoDevice THEN conns ELSE HubCloses(conns, links[d], "removed") IN
    /\ <<k, d>> \in removing
    /\ removing' = removing \ {<<k, d>>}
    /\ conns' = cs
    /\ down' = Announced(down, cs, links, registry)
    /\ UNCHANGED <<registry, links, http, sockets, up, members, locals, ends, cuts, load>>

-----------------------------------------------------------------------------
(* The end of a link. *)

\* the network, a ping unanswered twice, a silent or a congested link
Cut(c) ==
    /\ cuts < MaxCuts /\ ~conns[c].cut
    /\ \/ conns[c].hub \in {"saving", "open", "closing"}
       \/ conns[c].member \in {"connecting", "open", "closing"}
    /\ conns' = [conns EXCEPT ![c].cut = TRUE]
    /\ cuts' = cuts + 1
    /\ UNCHANGED <<hub, down, up, members, locals, ends, load>>

DetachesAny(c) ==   \* mutant: the late close of an old link drops the new one
    /\ links' = [d \in Devices |-> IF d = DeviceOf[conns[c].boot] THEN 0 ELSE links[d]]
    /\ down' = Announced(down, [conns EXCEPT ![c].hub = "closed"], links', registry)

DetachesSilently(c) ==   \* mutant: the others are not told
    /\ links' = [d \in Devices |-> IF links[d] = c THEN 0 ELSE links[d]]
    /\ UNCHANGED down

\* detach(): the map entry goes only if it is this link's
Detaches(c) ==
    IF links[DeviceOf[conns[c].boot]] = c
    THEN /\ links' = [links EXCEPT ![DeviceOf[conns[c].boot]] = 0]
         /\ down' = Announced(down, [conns EXCEPT ![c].hub = "closed"], links', registry)
    ELSE UNCHANGED <<links, down>>

EndsPagesInUse(c) ==   \* mutant: only if the link was still the device's
    pages' = [p \in Pages |-> IF (\E s \in sockets[c] : s.page = p) /\ links[DeviceOf[conns[c].boot]] = c
                              THEN [pages[p] EXCEPT !.state = "closed"] ELSE pages[p]]

EndsPages(c) ==
    pages' = [p \in Pages |-> IF \E s \in sockets[c] : s.page = p
                              THEN [pages[p] EXCEPT !.state = "closed"] ELSE pages[p]]

HubClosed(c) ==
    /\ conns[c].hub \in {"open", "closing"}
    /\ conns[c].cut \/ (conns[c].member \in {"closing", "closed"} /\ up[c] = <<>>)
    /\ conns' = [conns EXCEPT ![c].hub = "closed"]
    /\ replies' = [r \in Requests |-> IF \E w \in http[c] : w.req = r THEN "offline" ELSE replies[r]]
    /\ EndsPages(c)
    /\ http' = [http EXCEPT ![c] = {}]
    /\ sockets' = [sockets EXCEPT ![c] = {}]
    /\ Detaches(c)
    /\ UNCHANGED <<registry, removing, up, members, locals, cuts, load>>

LocalsClosed(b) ==
    [p \in Pages |-> IF locals[p].state = "open" /\ \E s \in members[b].streams : s.page = p
                     THEN [locals[p] EXCEPT !.state = "closed"] ELSE locals[p]]

AfterClose(m, code) ==   \* onClose of the current socket
    [m EXCEPT !.socket = 0, !.streams = {},
              !.state = IF code \in {"replaced", "removed", "fatal"} THEN "halted" ELSE "connecting",
              !.timer = code \notin {"replaced", "removed", "fatal"}]

MemberOpen(c) ==
    LET b == conns[c].boot IN
    /\ conns[c].member = "connecting" /\ conns[c].hub \in {"open", "closing"}
    /\ conns' = [conns EXCEPT ![c].member = "open"]
    /\ members' = [members EXCEPT ![b].state = "connected"]
    /\ UNCHANGED <<hub, down, up, locals, ends, cuts, load>>

\* the close reaches the member after every frame before it, or the link is lost
MemberClosed(c) ==
    LET b == conns[c].boot IN
    /\ conns[c].member \in {"connecting", "open", "closing"}
    /\ \E code \in {conns[c].code, "lost"} :
         /\ \/ code = "lost" /\ conns[c].cut
            \/ code # "lost" /\ conns[c].hub = "refused"
            \/ code # "lost" /\ conns[c].hub \in {"closing", "closed"} /\ down[c] = <<>>
                             /\ conns[c].member # "connecting"
         /\ conns' = [conns EXCEPT ![c].member = "closed"]
         /\ IF members[b].socket = c
            THEN /\ members' = [members EXCEPT ![b] = AfterClose(@, code)]
                 /\ locals' = LocalsClosed(b)
            ELSE UNCHANGED <<members, locals>>
    /\ UNCHANGED <<hub, down, up, ends, cuts, load>>

\* stop(): the member leaves, or its process shuts down
Leave(b) ==
    LET c == members[b].socket IN
    /\ b \in load.leaves /\ members[b].state # "left"
    /\ members' = [members EXCEPT ![b].state = "left", ![b].timer = FALSE, ![b].socket = 0,
                                  ![b].streams = {}]
    /\ locals' = LocalsClosed(b)
    /\ conns' = CASE c = 0 -> conns
                  [] c # 0 /\ conns[c].member = "connecting" ->
                        [conns EXCEPT ![c].member = "closed", ![c].cut = TRUE]
                  [] OTHER -> [conns EXCEPT ![c].member = "closing"]
    /\ UNCHANGED <<hub, down, up, ends, cuts, load>>

-----------------------------------------------------------------------------
(* HTTP requests: one stream each, a request frame and a response frame. *)

NewStreamFromZero(c) == [conns EXCEPT ![c].next = 0]   \* mutant: the control stream's number

NewStream(c) == [conns EXCEPT ![c].next = @ + 1]

\* request(), for a device that is not the hub
Ask(r, d) ==
    LET c == links[d] IN
    /\ r \in load.requests /\ replies[r] = "new"
    /\ IF c = 0 \/ Cardinality(http[c]) >= MaxHttp
       THEN replies' = [replies EXCEPT ![r] = "refused"] /\ UNCHANGED <<http, conns, down>>
       ELSE /\ conns' = NewStream(c)
            /\ down' = ToMember(c, RequestFrame(conns[c].next, r))
            /\ IF conns[c].hub = "open"
               THEN /\ http' = [http EXCEPT ![c] = @ \cup {[stream |-> conns[c].next, req |-> r]}]
                    /\ replies' = [replies EXCEPT ![r] = "waiting"]
               ELSE UNCHANGED http /\ replies' = [replies EXCEPT ![r] = "refused"]
    /\ UNCHANGED <<registry, removing, links, sockets, up, members, locals, pages, cuts, load>>

Forgets(r) ==   \* mutant: the waiter is dropped and not rejected
    http' = [c \in Conns |-> {w \in http[c] : w.req # r}] /\ UNCHANGED replies

Expires(r) ==
    /\ replies' = [replies EXCEPT ![r] = "timeout"]
    /\ http' = [c \in Conns |-> {w \in http[c] : w.req # r}]

\* RELAY_TIMEOUT_MS
TimesOut(r) ==
    /\ replies[r] = "waiting"
    /\ Expires(r)
    /\ UNCHANGED <<registry, removing, links, sockets, conns, down, up, members, locals, pages, cuts, load>>

\* a frame the member reads, also on a socket it has begun to close
MemberReads(c, type) ==
    /\ conns[c].member \in {"open", "closing"}
    /\ down[c] # <<>> /\ Head(down[c]).type = type
    /\ down' = [down EXCEPT ![c] = Tail(@)]

HubReads(c, type) ==
    /\ conns[c].hub \in {"open", "closing"}
    /\ up[c] # <<>> /\ Head(up[c]).type = type
    /\ up' = [up EXCEPT ![c] = Tail(@)]

MemberRequest(c) ==   \* answer(), up to executeLocal
    LET f == Head(down[c]) IN
    /\ MemberReads(c, "request")
    /\ members' = [members EXCEPT ![conns[c].boot].executing = @ \cup {[stream |-> f.stream, req |-> f.req]}]
    /\ UNCHANGED <<hub, conns, up, locals, ends, cuts, load>>

\* answer(), once executeLocal has resolved: on the socket the member has then
Answer(b) ==
    \E e \in members[b].executing :
        /\ members' = [members EXCEPT ![b].executing = @ \ {e}]
        /\ up' = ToHub(b, ResponseFrame(e.stream, e.req))
        /\ UNCHANGED <<hub, conns, down, locals, ends, cuts, load>>

HubResponse(c) ==
    LET f == Head(up[c]) IN
    /\ HubReads(c, "response")
    /\ http' = [http EXCEPT ![c] = {w \in @ : w.stream # f.stream}]
    /\ replies' = [r \in Requests |-> IF [stream |-> f.stream, req |-> r] \in http[c]
                                      THEN f.req ELSE replies[r]]
    /\ UNCHANGED <<registry, removing, links, sockets, conns, down, members, locals, pages, cuts, load>>

MemberDirectory(c) ==
    /\ MemberReads(c, "directory")
    /\ members' = [members EXCEPT ![conns[c].boot].directory = Head(down[c]).devices]
    /\ UNCHANGED <<hub, conns, up, locals, ends, cuts, load>>

-----------------------------------------------------------------------------
(* Page sockets: one stream each, relayed to a local socket of the member. *)

PageEnds(p) == [pages EXCEPT ![p].state = "closed"]
Forgotten(c, p) == [sockets EXCEPT ![c] = {s \in @ : s.page # p}]
StreamOf(c, p) == (CHOOSE s \in sockets[c] : s.page = p).stream
Relayed(c, p) == \E s \in sockets[c] : s.page = p

\* connect()
OpenPage(p, d) ==
    LET c == links[d] IN
    /\ p \in load.pages /\ pages[p].state = "new"
    /\ IF c = 0
       THEN pages' = PageEnds(p) /\ UNCHANGED <<sockets, conns, down>>
       ELSE /\ pages' = [pages EXCEPT ![p].state = "open", ![p].conn = c]
            /\ conns' = NewStream(c)
            /\ sockets' = [sockets EXCEPT ![c] = @ \cup {[stream |-> conns[c].next, page |-> p]}]
            /\ down' = ToMember(c, OpenFrame(conns[c].next, p))
    /\ UNCHANGED <<registry, removing, links, http, up, members, locals, replies, cuts, load>>

\* a message of the page, sent on or, if the link is congested, its end
PageSends(p) ==
    LET c == pages[p].conn IN
    /\ pages[p].state = "open" /\ Relayed(c, p) /\ pages[p].sent < load.typed
    /\ \/ /\ down' = ToMember(c, TextFrame(StreamOf(c, p), Text(p, pages[p].sent + 1)))
          /\ pages' = [pages EXCEPT ![p].sent = @ + 1]
          /\ UNCHANGED sockets
       \/ /\ down' = ToMember(c, CloseFrame(StreamOf(c, p)))
          /\ pages' = PageEnds(p)
          /\ sockets' = Forgotten(c, p)
    /\ UNCHANGED <<registry, removing, links, http, conns, up, members, locals, replies, cuts, load>>

PageCloses(p) ==
    LET c == pages[p].conn IN
    /\ pages[p].state = "open" /\ Relayed(c, p)
    /\ pages' = PageEnds(p)
    /\ sockets' = Forgotten(c, p)
    /\ down' = ToMember(c, CloseFrame(StreamOf(c, p)))
    /\ UNCHANGED <<registry, removing, links, http, conns, up, members, locals, replies, cuts, load>>

\* a message for the page; a page too slow to take it is closed
HubText(c) ==
    LET f == Head(up[c]) IN
    /\ HubReads(c, "text")
    /\ \/ /\ pages' = [p \in Pages |-> IF [stream |-> f.stream, page |-> p] \in sockets[c]
                                       THEN [pages[p] EXCEPT !.got = Append(@, f.text)] ELSE pages[p]]
          /\ UNCHANGED <<sockets, down>>
       \/ \E p \in Pages :
            /\ [stream |-> f.stream, page |-> p] \in sockets[c]
            /\ pages' = PageEnds(p)
            /\ sockets' = Forgotten(c, p)
            /\ down' = ToMember(c, CloseFrame(f.stream))
    /\ UNCHANGED <<registry, removing, links, http, conns, members, locals, replies, cuts, load>>

HubClose(c) ==
    LET f == Head(up[c]) IN
    /\ HubReads(c, "close")
    /\ sockets' = [sockets EXCEPT ![c] = {s \in @ : s.stream # f.stream}]
    /\ pages' = [p \in Pages |-> IF [stream |-> f.stream, page |-> p] \in sockets[c]
                                 THEN [pages[p] EXCEPT !.state = "closed"] ELSE pages[p]]
    /\ UNCHANGED <<registry, removing, links, http, conns, down, members, locals, replies, cuts, load>>

-----------------------------------------------------------------------------
(* The member's end of a page socket. *)

Streams(b) == members[b].streams
Entry(stream, p) == [stream |-> stream, page |-> p]
Without(b, s) == [members EXCEPT ![b].streams = @ \ {s}]
\* openStream(), up to openLocal; an entry under the same number is forgotten
MemberOpens(c) ==
    LET f == Head(down[c])
        b == conns[c].boot
    IN
    /\ MemberReads(c, "open")
    /\ members' = [members EXCEPT ![b].streams = {s \in @ : s.stream # f.stream} \cup {Entry(f.stream, f.page)}]
    /\ locals' = [locals EXCEPT ![f.page].state = "opening", ![f.page].boot = b]
    /\ UNCHANGED <<hub, conns, up, ends, cuts, load>>

SkipsQueue(c) ==   \* mutant: the early queue is flushed after a later message
    LET f == Head(down[c]) IN
    locals' = [p \in Pages |->
        IF Entry(f.stream, p) \notin Streams(conns[c].boot) THEN locals[p]
        ELSE [locals[p] EXCEPT !.early = IF locals[p].state = "opening" THEN <<f.text>> \o @ ELSE @,
                               !.got = IF locals[p].state = "open" THEN Append(@, f.text) ELSE @]]

Delivers(c) ==
    LET f == Head(down[c]) IN
    locals' = [p \in Pages |->
        IF Entry(f.stream, p) \notin Streams(conns[c].boot) THEN locals[p]
        ELSE [locals[p] EXCEPT !.early = IF locals[p].state = "opening" THEN Append(@, f.text) ELSE @,
                               !.got = IF locals[p].state = "open" THEN Append(@, f.text) ELSE @]]

\* a message of the page, queued until the local socket is open; too much of
\* that ends the stream
MemberText(c) ==
    LET f == Head(down[c])
        b == conns[c].boot
    IN
    /\ MemberReads(c, "text")
    /\ \/ Delivers(c) /\ UNCHANGED <<members, up>>
       \/ \E p \in Pages :
            /\ Entry(f.stream, p) \in Streams(b) /\ locals[p].state = "opening"
            /\ members' = Without(b, Entry(f.stream, p))
            /\ up' = ToHub(b, CloseFrame(f.stream))
            /\ UNCHANGED locals
    /\ UNCHANGED <<hub, conns, ends, cuts, load>>

MemberClose(c) ==
    LET f == Head(down[c])
        b == conns[c].boot
    IN
    /\ MemberReads(c, "close")
    /\ members' = [members EXCEPT ![b].streams = {s \in @ : s.stream # f.stream}]
    /\ locals' = [p \in Pages |-> IF Entry(f.stream, p) \in Streams(b) /\ locals[p].state = "open"
                                  THEN [locals[p] EXCEPT !.state = "closed"] ELSE locals[p]]
    /\ UNCHANGED <<hub, conns, up, ends, cuts, load>>

OpensAnyway(p) ==   \* mutant: the stream is not looked up again
    locals' = [locals EXCEPT ![p].state = "open", ![p].got = locals[p].early, ![p].early = <<>>]

\* openLocal resolved: the stream may have ended meanwhile
Opens(p) ==
    locals' = IF \E s \in Streams(locals[p].boot) : s.page = p
              THEN [locals EXCEPT ![p].state = "open", ![p].got = locals[p].early, ![p].early = <<>>]
              ELSE [locals EXCEPT ![p].state = "closed"]

LocalOpens(p) ==
    /\ locals[p].state = "opening"
    /\ Opens(p)
    /\ UNCHANGED <<hub, conns, down, up, members, ends, cuts, load>>

\* the stream ends from the member's side: openLocal fails, the local socket
\* closes, or the link is congested when it sends
LocalFails(p) ==
    LET b == locals[p].boot IN
    /\ locals[p].state \in {"opening", "open"}
    /\ locals' = [locals EXCEPT ![p].state = "closed"]
    /\ \/ \E s \in Streams(b) :
            s.page = p /\ members' = Without(b, s) /\ up' = ToHub(b, CloseFrame(s.stream))
       \/ (\A s \in Streams(b) : s.page # p) /\ UNCHANGED <<members, up>>
    /\ UNCHANGED <<hub, conns, down, ends, cuts, load>>

LocalSends(p) ==
    LET b == locals[p].boot IN
    /\ locals[p].state = "open" /\ locals[p].sent < load.shown
    /\ \E s \in Streams(b) :
         /\ s.page = p
         /\ up' = ToHub(b, TextFrame(s.stream, Text(p, locals[p].sent + 1)))
         /\ locals' = [locals EXCEPT ![p].sent = @ + 1]
    /\ UNCHANGED <<hub, conns, down, members, ends, cuts, load>>

-----------------------------------------------------------------------------

Init ==
    /\ load \in Loads
    /\ registry = [k \in Tokens |-> NoDevice] /\ removing = {}
    /\ links = [d \in Devices |-> 0]
    /\ conns = [c \in Conns |-> Free]
    /\ http = [c \in Conns |-> {}] /\ sockets = [c \in Conns |-> {}]
    /\ down = [c \in Conns |-> <<>>] /\ up = [c \in Conns |-> <<>>]
    /\ members = [b \in Boots |-> [state |-> IF b \in load.boots THEN "connecting" ELSE "left",
                                   timer |-> b \in load.boots, socket |-> 0, executing |-> {},
                                   streams |-> {}, directory |-> {}]]
    /\ locals = [p \in Pages |-> [state |-> "none", boot |-> CHOOSE b \in Boots : TRUE,
                                  early |-> <<>>, got |-> <<>>, sent |-> 0]]
    /\ replies = [r \in Requests |-> "new"]
    /\ pages = [p \in Pages |-> [state |-> "new", conn |-> 0, sent |-> 0, got |-> <<>>]]
    /\ cuts = 0

LinkStep(c) ==
    \/ Authenticate(c) \/ Saved(c) \/ MemberOpen(c) \/ HubClosed(c) \/ MemberClosed(c)
    \/ MemberDirectory(c) \/ MemberRequest(c) \/ MemberOpens(c) \/ MemberText(c) \/ MemberClose(c)
    \/ HubResponse(c) \/ HubText(c) \/ HubClose(c)

Next ==
    \/ \E b \in Boots : Connect(b) \/ Retry(b) \/ Answer(b) \/ Leave(b)
    \/ \E c \in Conns : LinkStep(c) \/ Cut(c)
    \/ \E k \in Tokens : Unlist(k) \/ \E d \in Devices \cup {NoDevice} : RemoveEnds(k, d)
    \/ \E r \in Requests : TimesOut(r) \/ \E d \in Devices : Ask(r, d)
    \/ \E p \in Pages :
        \/ PageSends(p) \/ PageCloses(p) \/ LocalOpens(p) \/ LocalFails(p) \/ LocalSends(p)
        \/ \E d \in Devices : OpenPage(p, d)

Spec == Init /\ [][Next]_vars

(* The sockets deliver what was sent and report that they closed, writes    *)
(* and local calls end, timers fire.  Nobody has to ask, type, press retry, *)
(* remove a device or lose a link.                                          *)
(* As the connections are numbered, fairness to all of these together       *)
(* suffices.                                                                *)
FairSpec ==
    /\ Spec
    /\ WF_vars(\/ \E c \in Conns : LinkStep(c)
               \/ \E b \in Boots : Connect(b) \/ Answer(b)
               \/ \E r \in Requests : TimesOut(r)
               \/ \E p \in Pages : LocalOpens(p))
=============================================================================
