--------------------------- MODULE FederationProofs ---------------------------
(***************************************************************************)
(* Hub and members agree on the link of every device, and the streams on   *)
(* the links neither lose, mix nor leave behind what they carry, for every *)
(* number of machines, tokens, connections, requests and pages.            *)
(***************************************************************************)
EXTENDS FederationSafety, SequenceTheorems, TLAPS

-----------------------------------------------------------------------------
(* The inductive invariant. *)

ConnState ==
    [boot : Boots, cut : BOOLEAN, next : Nat \ {0},
     hub : {"none", "refused", "saving", "open", "closing", "closed"},
     member : {"none", "connecting", "open", "closing", "closed"},
     code : {"none", "superseded", "replaced", "removed", "fatal", "error"}]
WaiterState == [stream : Nat, req : Requests]
StreamState == [stream : Nat, page : Pages]
TextState == [page : Pages, nr : Nat \ {0}]
MemberState ==
    [state : {"connecting", "connected", "halted", "left"}, timer : BOOLEAN, socket : 0..MaxConns,
     executing : SUBSET WaiterState, streams : SUBSET StreamState, directory : SUBSET Devices]
LocalState ==
    [state : {"none", "opening", "open", "closed"}, boot : Boots,
     early : Seq(TextState), got : Seq(TextState), sent : Nat]
PageState ==
    [state : {"new", "open", "closed"}, conn : 0..MaxConns, sent : Nat, got : Seq(TextState)]
Wires == [Conns -> Seq(FrameState)]

\* The types of FederationTypes, with what the handlers need to know of the rest: that the wires
\* are sequences, that what is counted is a number, and that a page that is open has a link.
HubTypes ==
    /\ registry \in [Tokens -> Devices \cup {NoDevice, Removed}]
    /\ removing \subseteq Tokens \X (Devices \cup {NoDevice})
    /\ links \in [Devices -> 0..MaxConns]
    /\ conns \in [Conns -> ConnState]
    /\ http \in [Conns -> SUBSET WaiterState]
    /\ sockets \in [Conns -> SUBSET StreamState]
    /\ replies \in [Requests -> {"new", "waiting", "refused", "offline", "timeout"} \cup Requests]
    /\ pages \in [Pages -> PageState]
    /\ \A p \in Pages : pages[p].state = "open" => pages[p].conn \in Conns
    /\ cuts \in 0..MaxCuts /\ load \in Loads
WireTypes == down \in Wires /\ up \in Wires
FarTypes == members \in [Boots -> MemberState] /\ locals \in [Pages -> LocalState]
LinkTypes == HubTypes /\ WireTypes /\ FarTypes

\* The device of a connection.
DeviceAt(c) == DeviceOf[conns[c].boot]

\* The hub's side: what is in the map is a link of that device which the hub has not seen close,
\* and what the hub serves, or is about to, was bound to its token.
HubBonds ==
    /\ \A c \in Conns : conns[c].member = "none" => conns[c].hub = "none"
    /\ \A d \in Devices : links[d] # 0 => conns[links[d]].hub \in {"open", "closing"} /\ DeviceAt(links[d]) = d
    /\ \A c \in Conns : conns[c].hub \in {"saving", "open"} => registry[TokenOf[conns[c].boot]] \in {DeviceAt(c), Removed}
    /\ OpenLinkIsUsed
    /\ JoinCodeOnce

\* The member's side: its socket is a connection of its own that is not over, it dials only without
\* one, and a link it has opened the hub has not closed before it was told.
MemberBonds ==
    /\ \A b \in Boots :
         /\ members[b].socket # 0 =>
              conns[members[b].socket].boot = b /\ conns[members[b].socket].member \in {"connecting", "open"}
         /\ members[b].timer => members[b].socket = 0
         /\ members[b].state = "connected" => members[b].socket # 0 /\ conns[members[b].socket].member = "open"
    /\ \A c \in Conns : conns[c].member = "open" /\ ~conns[c].cut => conns[c].hub \in {"open", "closing"}
    /\ OneSocket

FederationInv == LinkTypes /\ HubBonds /\ MemberBonds

\* The invariant is what the run checks, and more.
LEMMA InvAgrees == FederationInv => LinksAgree
<1> SUFFICES ASSUME FederationInv
             PROVE  LinksAgree
  OBVIOUS
<1> USE DEF FederationInv, LinkTypes
<1>1. FederationTypes
  <2>1. \A c \in Conns : http[c] \subseteq WaiterState /\ sockets[c] \subseteq StreamState
    BY DEF HubTypes
  <2>2. \A c \in Conns : /\ \A i \in DOMAIN up[c] : up[c][i] \in FrameState
                         /\ \A i \in DOMAIN down[c] : down[c][i] \in FrameState
    <3> TAKE c \in Conns
    <3>1. up[c] \in Seq(FrameState) /\ down[c] \in Seq(FrameState)
      BY DEF WireTypes, Wires
    <3> QED  BY <3>1, ElementOfSeq
  <2>3. \A b \in Boots : members[b] \in MemberState
    BY DEF FarTypes
  <2>4. \A p \in Pages : locals[p] \in LocalState /\ pages[p] \in PageState
    BY DEF FarTypes, HubTypes
  <2>5. \A b \in Boots :
         /\ members[b].state \in {"connecting", "connected", "halted", "left"}
         /\ members[b].socket \in 0..MaxConns /\ members[b].timer \in BOOLEAN
         /\ members[b].executing \subseteq [stream : Nat, req : Requests]
         /\ members[b].streams \subseteq [stream : Nat, page : Pages]
         /\ members[b].directory \subseteq Devices
    BY <2>3 DEF MemberState, WaiterState, StreamState
  <2>6. \A p \in Pages :
         /\ locals[p].state \in {"none", "opening", "open", "closed"}
         /\ pages[p].state \in {"new", "open", "closed"} /\ pages[p].conn \in 0..MaxConns
    BY <2>4 DEF LocalState, PageState
  <2> QED  BY <2>1, <2>2, <2>5, <2>6 DEF HubTypes, FederationTypes, ConnState, WaiterState, StreamState
<1>2. ConnectedIsUsed
  <2> SUFFICES ASSUME NEW b \in Boots, members[b].state = "connected",
                      ~conns[members[b].socket].cut, conns[members[b].socket].hub # "closing"
               PROVE  links[DeviceOf[b]] = members[b].socket
    BY DEF ConnectedIsUsed
  <2> DEFINE c == members[b].socket
  <2>1. c \in Conns /\ conns[c].boot = b /\ conns[c].member = "open"
    BY FederationAssumption DEF MemberBonds, FarTypes, MemberState, Conns
  <2>2. conns[c].hub = "open"
    BY <2>1 DEF MemberBonds
  <2> QED  BY <2>1, <2>2 DEF HubBonds, OpenLinkIsUsed
<1> QED  BY <1>1, <1>2 DEF LinksAgree, HubBonds, MemberBonds

-----------------------------------------------------------------------------
(* Frames and wires. *)

\* What a frame of each type carries.
LEMMA FrameParts ==
    ASSUME NEW f \in FrameState
    PROVE  /\ f.type = "directory" => f.devices \in SUBSET Devices
           /\ f.type \in {"request", "response"} => f.stream \in Nat /\ f.req \in Requests
           /\ f.type = "open" => f.stream \in Nat /\ f.page \in Pages
           /\ f.type = "text" => f.stream \in Nat /\ f.text \in TextState
           /\ f.type = "close" => f.stream \in Nat
BY DEF FrameState, TextState

\* Every frame a handler makes is one.
LEMMA FramesMade ==
    /\ \A devices \in SUBSET Devices : DirectoryFrame(devices) \in FrameState
    /\ \A stream \in Nat : CloseFrame(stream) \in FrameState
    /\ \A stream \in Nat, r \in Requests : RequestFrame(stream, r) \in FrameState /\ ResponseFrame(stream, r) \in FrameState
    /\ \A stream \in Nat, p \in Pages : OpenFrame(stream, p) \in FrameState
    /\ \A stream \in Nat, text \in TextState : TextFrame(stream, text) \in FrameState
BY DEF FrameState, TextState, DirectoryFrame, CloseFrame, RequestFrame, ResponseFrame, OpenFrame, TextFrame

\* A frame more on a wire, or one less.
LEMMA WiresMove ==
    ASSUME NEW w \in Wires, NEW c \in Conns
    PROVE  /\ \A f \in FrameState : [w EXCEPT ![c] = Append(@, f)] \in Wires
           /\ w[c] # <<>> => [w EXCEPT ![c] = Tail(@)] \in Wires /\ Head(w[c]) \in FrameState
<1>1. w[c] \in Seq(FrameState)
  BY DEF Wires
<1>2. \A f \in FrameState : Append(w[c], f) \in Seq(FrameState)
  BY <1>1, AppendProperties
<1>3. w[c] # <<>> => Tail(w[c]) \in Seq(FrameState) /\ Head(w[c]) \in FrameState
  BY <1>1, HeadTailProperties
<1>4. \A s \in Seq(FrameState) : [w EXCEPT ![c] = s] \in Wires
  BY DEF Wires
<1> QED  BY <1>2, <1>3, <1>4

LEMMA ToMemberTyped ==
    ASSUME LinkTypes, NEW c \in Conns, NEW f \in FrameState
    PROVE  ToMember(c, f) \in Wires
BY WiresMove DEF ToMember, LinkTypes, WireTypes

LEMMA ToHubTyped ==
    ASSUME LinkTypes, NEW b \in Boots, NEW f \in FrameState
    PROVE  ToHub(b, f) \in Wires
<1>1. members[b].socket # 0 => members[b].socket \in Conns
  BY FederationAssumption DEF LinkTypes, FarTypes, MemberState, Conns
<1> QED  BY <1>1, WiresMove DEF ToHub, LinkTypes, WireTypes

LEMMA AnnouncedTyped ==
    ASSUME NEW dn \in Wires, NEW cs, NEW lk, NEW reg
    PROVE  Announced(dn, cs, lk, reg) \in Wires
<1>1. Directory(reg, lk) \in SUBSET Devices
  BY DEF Directory
<1>2. DirectoryFrame(Directory(reg, lk)) \in FrameState
  BY <1>1, FramesMade
<1>3. \A c \in Conns : dn[c] \in Seq(FrameState) /\ Append(dn[c], DirectoryFrame(Directory(reg, lk))) \in Seq(FrameState)
  BY <1>2, AppendProperties DEF Wires
<1> QED  BY <1>3 DEF Announced, Wires

\* Every closing of a link by the hub leaves it a connection.
LEMMA HubClosesTyped ==
    ASSUME NEW cs \in [Conns -> ConnState], NEW c \in 0..MaxConns, NEW code \in {"superseded", "replaced", "removed"}
    PROVE  HubCloses(cs, c, code) \in [Conns -> ConnState]
<1>1. c # 0 => c \in Conns
  BY FederationAssumption DEF Conns
<1> QED  BY <1>1 DEF HubCloses, ConnState

-----------------------------------------------------------------------------
(* The invariant holds when the hub starts. *)

LEMMA NobodyTyped == (CHOOSE b \in Boots : TRUE) \in Boots
BY FederationAssumption

LEMMA FreeTyped == Free \in ConnState /\ Free.hub = "none" /\ Free.member = "none"
BY NobodyTyped DEF Free, ConnState

LEMMA InitTypes == Init => LinkTypes
<1> SUFFICES ASSUME Init
             PROVE  LinkTypes
  OBVIOUS
<1> USE DEF Init
<1>1. HubTypes
  <2>1. conns \in [Conns -> ConnState]
    BY FreeTyped
  <2>2. pages \in [Pages -> PageState]
    <3>1. [state |-> "new", conn |-> 0, sent |-> 0, got |-> <<>>] \in PageState
      BY FederationAssumption, EmptySeq DEF PageState
    <3> QED  BY <3>1
  <2>3. links \in [Devices -> 0..MaxConns] /\ cuts \in 0..MaxCuts
    BY FederationAssumption
  <2> QED  BY <2>1, <2>2, <2>3 DEF HubTypes
<1>2. WireTypes
  BY EmptySeq DEF WireTypes, Wires
<1>3. members \in [Boots -> MemberState]
  BY FederationAssumption DEF MemberState
<1>4. locals \in [Pages -> LocalState]
  <2>1. [state |-> "none", boot |-> CHOOSE b \in Boots : TRUE, early |-> <<>>, got |-> <<>>, sent |-> 0] \in LocalState
    BY NobodyTyped, EmptySeq DEF LocalState
  <2> QED  BY <2>1
<1> QED  BY <1>1, <1>2, <1>3, <1>4 DEF LinkTypes, FarTypes

LEMMA InitBonds == Init => HubBonds /\ MemberBonds
<1> SUFFICES ASSUME Init
             PROVE  HubBonds /\ MemberBonds
  OBVIOUS
<1>1. /\ \A c \in Conns : conns[c].hub = "none" /\ conns[c].member = "none"
      /\ \A d \in Devices : links[d] = 0
      /\ \A b \in Boots : members[b].socket = 0 /\ members[b].state # "connected"
  BY FreeTyped DEF Init
<1>2. HubBonds
  BY <1>1 DEF HubBonds, OpenLinkIsUsed, JoinCodeOnce
<1>3. MemberBonds
  BY <1>1 DEF MemberBonds, OneSocket
<1> QED  BY <1>2, <1>3

-----------------------------------------------------------------------------
(* Types: the steps of a link's beginning and end. *)

LEMMA NewConn ==
    ASSUME LinkTypes, NEW c \in Conns, NEW r \in ConnState
    PROVE  [conns EXCEPT ![c] = r] \in [Conns -> ConnState]
BY DEF LinkTypes, HubTypes

LEMMA NewMember ==
    ASSUME LinkTypes, NEW b \in Boots, NEW m \in MemberState
    PROVE  [members EXCEPT ![b] = m] \in [Boots -> MemberState]
BY DEF LinkTypes, FarTypes

LEMMA DialsTypes ==
    ASSUME LinkTypes, NEW b \in Boots, NEW c \in Conns, NEW keep \in BOOLEAN, Dials(b, c, keep)
    PROVE  LinkTypes'
<1>1. [Free EXCEPT !.boot = b, !.member = "connecting"] \in ConnState
  BY FreeTyped DEF ConnState
<1>2. conns' \in [Conns -> ConnState]
  BY <1>1, NewConn DEF Dials
<1>3. c \in 0..MaxConns
  BY FederationAssumption DEF Conns
<1>4. members' \in [Boots -> MemberState]
  <2>1. members[b] \in MemberState
    BY DEF LinkTypes, FarTypes
  <2>2. [members[b] EXCEPT !.state = "connecting", !.timer = keep, !.socket = c] \in MemberState
    BY <1>3, <2>1 DEF MemberState
  <2>3. members' = [members EXCEPT ![b] = [members[b] EXCEPT !.state = "connecting", !.timer = keep, !.socket = c]]
    BY DEF Dials
  <2> QED  BY <2>2, <2>3, NewMember
<1> QED  BY <1>2, <1>4 DEF Dials, LinkTypes, HubTypes, WireTypes, FarTypes, hub, ends

\* attach(), whatever the registry is by then.
LEMMA AttachesTypes ==
    ASSUME LinkTypes, NEW c \in Conns, NEW reg, Attaches(c, reg)
    PROVE  /\ links' \in [Devices -> 0..MaxConns] /\ conns' \in [Conns -> ConnState] /\ down' \in Wires
<1> DEFINE d == DeviceOf[conns[c].boot]
<1>1. conns[c] \in ConnState /\ d \in Devices /\ c \in 0..MaxConns /\ links[d] \in 0..MaxConns
  <2>1. conns[c] \in ConnState
    BY DEF LinkTypes, HubTypes
  <2>2. d \in Devices
    BY <2>1, FederationAssumption DEF ConnState
  <2>3. c \in 0..MaxConns
    BY FederationAssumption DEF Conns
  <2> QED  BY <2>1, <2>2, <2>3 DEF LinkTypes, HubTypes
<1>2. [conns EXCEPT ![c].hub = "open"] \in [Conns -> ConnState]
  BY <1>1 DEF LinkTypes, HubTypes, ConnState
<1>3. Takes(conns, c, d) \in [Conns -> ConnState]
  BY <1>1, <1>2, HubClosesTyped DEF Takes
<1>4. links' \in [Devices -> 0..MaxConns]
  BY <1>1 DEF Attaches, LinkTypes, HubTypes
<1>5. conns' \in [Conns -> ConnState]
  BY <1>3 DEF Attaches
<1>6. down' \in Wires
  BY AnnouncedTyped DEF Attaches, LinkTypes, WireTypes
<1> QED  BY <1>4, <1>5, <1>6

LEMMA AuthenticateTypes ==
    ASSUME LinkTypes, NEW c \in Conns, Authenticate(c)
    PROVE  LinkTypes'
<1> DEFINE b == conns[c].boot
<1>0. conns[c] \in ConnState /\ b \in Boots /\ TokenOf[b] \in Tokens /\ DeviceOf[b] \in Devices
  BY FederationAssumption DEF LinkTypes, HubTypes, ConnState
<1>1. CASE Refuses(b) /\ conns' = [conns EXCEPT ![c].hub = "refused", ![c].code = "fatal"] /\ UNCHANGED <<registry, links, down>>
  <2>1. conns' \in [Conns -> ConnState]
    BY <1>0, <1>1 DEF LinkTypes, HubTypes, ConnState
  <2> QED  BY <1>1, <2>1 DEF Authenticate, LinkTypes, HubTypes, WireTypes, FarTypes, ends
<1>2. CASE /\ registry' = [registry EXCEPT ![TokenOf[b]] = DeviceOf[b]]
           /\ conns' = [conns EXCEPT ![c].hub = "saving"]
           /\ UNCHANGED <<links, down>>
  <2>1. conns' \in [Conns -> ConnState]
    BY <1>0, <1>2 DEF LinkTypes, HubTypes, ConnState
  <2>2. registry' \in [Tokens -> Devices \cup {NoDevice, Removed}]
    BY <1>0, <1>2 DEF LinkTypes, HubTypes
  <2> QED  BY <1>2, <2>1, <2>2 DEF Authenticate, LinkTypes, HubTypes, WireTypes, FarTypes, ends
<1>3. CASE Attaches(c, registry) /\ UNCHANGED registry
  <2>1. links' \in [Devices -> 0..MaxConns] /\ conns' \in [Conns -> ConnState] /\ down' \in Wires
    BY <1>3, AttachesTypes
  <2> QED  BY <1>3, <2>1 DEF Authenticate, LinkTypes, HubTypes, WireTypes, FarTypes, ends
<1> QED  BY <1>1, <1>2, <1>3 DEF Authenticate

LEMMA SavedTypes ==
    ASSUME LinkTypes, NEW c \in Conns, Saved(c)
    PROVE  LinkTypes'
<1>0. conns[c] \in ConnState
  BY DEF LinkTypes, HubTypes
<1>1. CASE Attaches(c, registry)
  <2>1. links' \in [Devices -> 0..MaxConns] /\ conns' \in [Conns -> ConnState] /\ down' \in Wires
    BY <1>1, AttachesTypes
  <2> QED  BY <2>1 DEF Saved, LinkTypes, HubTypes, WireTypes, FarTypes, ends
<1>2. CASE /\ \/ conns' = [conns EXCEPT ![c].hub = "refused", ![c].code = "error"]
              \/ conns' = [conns EXCEPT ![c].hub = "closed"]
           /\ UNCHANGED <<links, down>>
  <2>1. conns' \in [Conns -> ConnState]
    <3>1. /\ [conns[c] EXCEPT !.hub = "refused", !.code = "error"] \in ConnState
          /\ [conns[c] EXCEPT !.hub = "closed"] \in ConnState
      BY <1>0 DEF ConnState
    <3>2. \/ conns' = [conns EXCEPT ![c] = [conns[c] EXCEPT !.hub = "refused", !.code = "error"]]
          \/ conns' = [conns EXCEPT ![c] = [conns[c] EXCEPT !.hub = "closed"]]
      BY <1>2
    <3> QED  BY <3>1, <3>2, NewConn
  <2> QED  BY <1>2, <2>1 DEF Saved, LinkTypes, HubTypes, WireTypes, FarTypes, ends
<1> QED  BY <1>1, <1>2 DEF Saved

LEMMA RemovalTypes ==
    ASSUME LinkTypes, NEW k \in Tokens, NEW d \in Devices \cup {NoDevice}, Unlist(k) \/ RemoveEnds(k, d)
    PROVE  LinkTypes'
<1>1. CASE Unlist(k)
  <2>1. registry[k] \in Devices \cup {NoDevice}
    BY <1>1 DEF Unlist, LinkTypes, HubTypes
  <2>2. <<k, registry[k]>> \in Tokens \X (Devices \cup {NoDevice})
    BY <2>1
  <2>3. removing' \subseteq Tokens \X (Devices \cup {NoDevice})
    BY <1>1, <2>2 DEF Unlist, LinkTypes, HubTypes
  <2>4. registry' \in [Tokens -> Devices \cup {NoDevice, Removed}]
    BY <1>1 DEF Unlist, LinkTypes, HubTypes
  <2> QED  BY <1>1, <2>3, <2>4 DEF Unlist, LinkTypes, HubTypes, WireTypes, FarTypes, ends
<1>2. CASE RemoveEnds(k, d)
  <2>1. d # NoDevice => links[d] \in 0..MaxConns
    BY DEF LinkTypes, HubTypes
  <2>2. conns' \in [Conns -> ConnState]
    BY <1>2, <2>1, HubClosesTyped DEF RemoveEnds, LinkTypes, HubTypes
  <2>3. down' \in Wires
    BY <1>2, AnnouncedTyped DEF RemoveEnds, LinkTypes, WireTypes
  <2>4. removing' \subseteq Tokens \X (Devices \cup {NoDevice})
    BY <1>2 DEF RemoveEnds, LinkTypes, HubTypes
  <2> QED  BY <1>2, <2>2, <2>3, <2>4 DEF RemoveEnds, LinkTypes, HubTypes, WireTypes, FarTypes, ends
<1> QED  BY <1>1, <1>2

LEMMA CutTypes ==
    ASSUME LinkTypes, NEW c \in Conns, Cut(c)
    PROVE  LinkTypes'
<1>1. conns' \in [Conns -> ConnState]
  <2>1. conns[c] \in ConnState
    BY DEF LinkTypes, HubTypes
  <2>2. [conns[c] EXCEPT !.cut = TRUE] \in ConnState
    BY <2>1 DEF ConnState
  <2>3. conns' = [conns EXCEPT ![c] = [conns[c] EXCEPT !.cut = TRUE]]
    BY DEF Cut
  <2> QED  BY <2>2, <2>3, NewConn
<1>2. cuts' \in 0..MaxCuts
  BY FederationAssumption DEF Cut, LinkTypes, HubTypes
<1> QED  BY <1>1, <1>2 DEF Cut, LinkTypes, HubTypes, WireTypes, FarTypes, hub, ends

LEMMA HubClosedTypes ==
    ASSUME LinkTypes, NEW c \in Conns, HubClosed(c)
    PROVE  LinkTypes'
<1>1. conns' \in [Conns -> ConnState]
  <2>1. conns[c] \in ConnState
    BY DEF LinkTypes, HubTypes
  <2>2. [conns[c] EXCEPT !.hub = "closed"] \in ConnState
    BY <2>1 DEF ConnState
  <2>3. conns' = [conns EXCEPT ![c] = [conns[c] EXCEPT !.hub = "closed"]]
    BY DEF HubClosed
  <2> QED  BY <2>2, <2>3, NewConn
<1>2. replies' \in [Requests -> {"new", "waiting", "refused", "offline", "timeout"} \cup Requests]
  BY DEF HubClosed, LinkTypes, HubTypes
<1>3. /\ pages' \in [Pages -> PageState]
      /\ \A p \in Pages : pages'[p].state = "open" => pages'[p] = pages[p]
  <2>1. \A p \in Pages : pages[p] \in PageState
    BY DEF LinkTypes, HubTypes
  <2>2. \A p \in Pages : /\ [pages[p] EXCEPT !.state = "closed"] \in PageState
                         /\ [pages[p] EXCEPT !.state = "closed"].state = "closed"
    BY <2>1 DEF PageState
  <2>3. pages' = [p \in Pages |-> IF \E s \in sockets[c] : s.page = p
                                 THEN [pages[p] EXCEPT !.state = "closed"] ELSE pages[p]]
    BY DEF HubClosed, EndsPages
  <2> QED  BY <2>1, <2>2, <2>3
<1>4. http' \in [Conns -> SUBSET WaiterState] /\ sockets' \in [Conns -> SUBSET StreamState]
  BY DEF HubClosed, LinkTypes, HubTypes
<1>5. down' \in Wires
  BY AnnouncedTyped DEF HubClosed, Detaches, LinkTypes, WireTypes
<1>6. links' \in [Devices -> 0..MaxConns]
  BY FederationAssumption DEF HubClosed, Detaches, LinkTypes, HubTypes
<1> QED  BY <1>1, <1>2, <1>3, <1>4, <1>5, <1>6 DEF HubClosed, LinkTypes, HubTypes, WireTypes, FarTypes

LEMMA LocalsClosedTyped ==
    ASSUME LinkTypes, NEW b \in Boots
    PROVE  LocalsClosed(b) \in [Pages -> LocalState]
BY DEF LocalsClosed, LinkTypes, FarTypes, LocalState

LEMMA MemberOpenTypes ==
    ASSUME LinkTypes, NEW c \in Conns, MemberOpen(c)
    PROVE  LinkTypes'
<1>1. conns' \in [Conns -> ConnState]
  <2>1. conns[c] \in ConnState
    BY DEF LinkTypes, HubTypes
  <2>2. [conns[c] EXCEPT !.member = "open"] \in ConnState
    BY <2>1 DEF ConnState
  <2>3. conns' = [conns EXCEPT ![c] = [conns[c] EXCEPT !.member = "open"]]
    BY DEF MemberOpen
  <2> QED  BY <2>2, <2>3, NewConn
<1>2. members' \in [Boots -> MemberState]
  <2> DEFINE b == conns[c].boot
  <2>1. b \in Boots /\ members[b] \in MemberState
    BY DEF LinkTypes, HubTypes, FarTypes, ConnState
  <2>2. [members[b] EXCEPT !.state = "connected"] \in MemberState
    BY <2>1 DEF MemberState
  <2>3. members' = [members EXCEPT ![b] = [members[b] EXCEPT !.state = "connected"]]
    BY DEF MemberOpen
  <2> QED  BY <2>1, <2>2, <2>3, NewMember
<1> QED  BY <1>1, <1>2 DEF MemberOpen, LinkTypes, HubTypes, WireTypes, FarTypes, hub, ends

LEMMA MemberClosedTypes ==
    ASSUME LinkTypes, NEW c \in Conns, MemberClosed(c)
    PROVE  LinkTypes'
<1>1. conns' \in [Conns -> ConnState]
  <2>1. conns[c] \in ConnState
    BY DEF LinkTypes, HubTypes
  <2>2. [conns[c] EXCEPT !.member = "closed"] \in ConnState
    BY <2>1 DEF ConnState
  <2>3. conns' = [conns EXCEPT ![c] = [conns[c] EXCEPT !.member = "closed"]]
    BY DEF MemberClosed
  <2> QED  BY <2>2, <2>3, NewConn
<1>2. conns[c].boot \in Boots
  BY DEF LinkTypes, HubTypes, ConnState
<1>3. \A m \in MemberState : \A code : AfterClose(m, code) \in MemberState
  <2> TAKE m \in MemberState
  <2> TAKE code
  <2>1. /\ (IF code \in {"replaced", "removed", "fatal"} THEN "halted" ELSE "connecting") \in {"halted", "connecting"}
        /\ (code \notin {"replaced", "removed", "fatal"}) \in BOOLEAN
        /\ {} \in SUBSET StreamState /\ 0 \in 0..MaxConns
    BY FederationAssumption
  <2> QED  BY <2>1 DEF AfterClose, MemberState
<1>4. members' \in [Boots -> MemberState]
  BY <1>2, <1>3 DEF MemberClosed, LinkTypes, FarTypes
<1>5. locals' \in [Pages -> LocalState]
  BY <1>2, LocalsClosedTyped DEF MemberClosed, LinkTypes, FarTypes
<1> QED  BY <1>1, <1>4, <1>5 DEF MemberClosed, LinkTypes, HubTypes, WireTypes, FarTypes, hub, ends

LEMMA LeaveTypes ==
    ASSUME LinkTypes, NEW b \in Boots, Leave(b)
    PROVE  LinkTypes'
<1>1. members[b].socket # 0 => members[b].socket \in Conns
  BY FederationAssumption DEF LinkTypes, FarTypes, MemberState, Conns
<1>2. conns' \in [Conns -> ConnState]
  <2> DEFINE c == members[b].socket
  <2>1. CASE c = 0
    BY <2>1 DEF Leave, LinkTypes, HubTypes
  <2>2. CASE c # 0 /\ conns[c].member = "connecting"
    <3>1. conns[c] \in ConnState
      BY <1>1, <2>2 DEF LinkTypes, HubTypes
    <3>2. [conns[c] EXCEPT !.member = "closed", !.cut = TRUE] \in ConnState
      BY <3>1 DEF ConnState
    <3>3. conns' = [conns EXCEPT ![c] = [conns[c] EXCEPT !.member = "closed", !.cut = TRUE]]
      BY <2>2 DEF Leave
    <3> QED  BY <1>1, <2>2, <3>2, <3>3, NewConn
  <2>3. CASE c # 0 /\ conns[c].member # "connecting"
    <3>1. conns[c] \in ConnState
      BY <1>1, <2>3 DEF LinkTypes, HubTypes
    <3>2. [conns[c] EXCEPT !.member = "closing"] \in ConnState
      BY <3>1 DEF ConnState
    <3>3. conns' = [conns EXCEPT ![c] = [conns[c] EXCEPT !.member = "closing"]]
      BY <2>3 DEF Leave
    <3> QED  BY <1>1, <2>3, <3>2, <3>3, NewConn
  <2> QED  BY <2>1, <2>2, <2>3
<1>3. members' \in [Boots -> MemberState]
  <2>1. members[b] \in MemberState /\ 0 \in 0..MaxConns /\ {} \in SUBSET StreamState
    BY FederationAssumption DEF LinkTypes, FarTypes
  <2>2. [members[b] EXCEPT !.state = "left", !.timer = FALSE, !.socket = 0, !.streams = {}] \in MemberState
    BY <2>1 DEF MemberState
  <2>3. members' = [members EXCEPT ![b] = [members[b] EXCEPT !.state = "left", !.timer = FALSE, !.socket = 0, !.streams = {}]]
    BY DEF Leave
  <2> QED  BY <2>2, <2>3, NewMember
<1>4. locals' \in [Pages -> LocalState]
  BY LocalsClosedTyped DEF Leave
<1> QED  BY <1>2, <1>3, <1>4 DEF Leave, LinkTypes, HubTypes, WireTypes, FarTypes, hub, ends

-----------------------------------------------------------------------------
(* Types: requests and page sockets. *)

LEMMA NewStreamTyped ==
    ASSUME LinkTypes, NEW c \in Conns
    PROVE  NewStream(c) \in [Conns -> ConnState] /\ conns[c].next \in Nat
<1>1. conns[c] \in ConnState
  BY DEF LinkTypes, HubTypes
<1>2. [conns[c] EXCEPT !.next = conns[c].next + 1] \in ConnState
  BY <1>1 DEF ConnState
<1>3. NewStream(c) = [conns EXCEPT ![c] = [conns[c] EXCEPT !.next = conns[c].next + 1]]
  BY DEF NewStream
<1> QED  BY <1>1, <1>2, <1>3, NewConn DEF ConnState

LEMMA LinkIsConn ==
    ASSUME LinkTypes, NEW d \in Devices, links[d] # 0
    PROVE  links[d] \in Conns
BY FederationAssumption DEF LinkTypes, HubTypes, Conns

LEMMA AskTypes ==
    ASSUME LinkTypes, NEW r \in Requests, NEW d \in Devices, Ask(r, d)
    PROVE  LinkTypes'
<1> DEFINE c == links[d]
<1>1. CASE c = 0 \/ Cardinality(http[c]) >= MaxHttp
  <2>1. replies' \in [Requests -> {"new", "waiting", "refused", "offline", "timeout"} \cup Requests]
    BY <1>1 DEF Ask, LinkTypes, HubTypes
  <2> QED  BY <1>1, <2>1 DEF Ask, LinkTypes, HubTypes, WireTypes, FarTypes
<1>2. CASE ~(c = 0 \/ Cardinality(http[c]) >= MaxHttp)
  <2>1. c \in Conns
    BY <1>2, LinkIsConn
  <2>2. conns' \in [Conns -> ConnState] /\ conns[c].next \in Nat
    BY <1>2, <2>1, NewStreamTyped DEF Ask
  <2>3. down' \in Wires
    BY <1>2, <2>1, <2>2, FramesMade, ToMemberTyped DEF Ask
  <2>4. [stream |-> conns[c].next, req |-> r] \in WaiterState
    BY <2>2 DEF WaiterState
  <2>5. http' \in [Conns -> SUBSET WaiterState]
    BY <1>2, <2>1, <2>4 DEF Ask, LinkTypes, HubTypes
  <2>6. replies' \in [Requests -> {"new", "waiting", "refused", "offline", "timeout"} \cup Requests]
    BY <1>2 DEF Ask, LinkTypes, HubTypes
  <2> QED  BY <2>2, <2>3, <2>5, <2>6 DEF Ask, LinkTypes, HubTypes, WireTypes, FarTypes
<1> QED  BY <1>1, <1>2

LEMMA TimesOutTypes ==
    ASSUME LinkTypes, NEW r \in Requests, TimesOut(r)
    PROVE  LinkTypes'
<1>1. http' \in [Conns -> SUBSET WaiterState]
  BY DEF TimesOut, Expires, LinkTypes, HubTypes
<1>2. replies' \in [Requests -> {"new", "waiting", "refused", "offline", "timeout"} \cup Requests]
  BY DEF TimesOut, Expires, LinkTypes, HubTypes
<1> QED  BY <1>1, <1>2 DEF TimesOut, LinkTypes, HubTypes, WireTypes, FarTypes

\* What a side reads is a frame, and the wire is one again.
LEMMA MemberReadsTyped ==
    ASSUME LinkTypes, NEW c \in Conns, NEW type, MemberReads(c, type)
    PROVE  Head(down[c]) \in FrameState /\ Head(down[c]).type = type /\ down' \in Wires
BY WiresMove DEF MemberReads, LinkTypes, WireTypes

LEMMA HubReadsTyped ==
    ASSUME LinkTypes, NEW c \in Conns, NEW type, HubReads(c, type)
    PROVE  Head(up[c]) \in FrameState /\ Head(up[c]).type = type /\ up' \in Wires
BY WiresMove DEF HubReads, LinkTypes, WireTypes

LEMMA BootTyped ==
    ASSUME LinkTypes, NEW c \in Conns
    PROVE  conns[c].boot \in Boots /\ members[conns[c].boot] \in MemberState
<1>1. conns[c] \in ConnState
  BY DEF LinkTypes, HubTypes
<1> QED  BY <1>1 DEF ConnState, LinkTypes, FarTypes

LEMMA MemberRequestTypes ==
    ASSUME LinkTypes, NEW c \in Conns, MemberRequest(c)
    PROVE  LinkTypes'
<1> DEFINE f == Head(down[c])
           b == conns[c].boot
           waiter == [stream |-> f.stream, req |-> f.req]
<1>1. f.stream \in Nat /\ f.req \in Requests /\ down' \in Wires
  BY MemberReadsTyped, FrameParts DEF MemberRequest
<1>2. b \in Boots /\ members[b] \in MemberState
  BY BootTyped
<1>3. waiter \in WaiterState
  BY <1>1 DEF WaiterState
<1>4. [members[b] EXCEPT !.executing = @ \cup {waiter}] \in MemberState
  BY <1>2, <1>3 DEF MemberState
<1>5. members' = [members EXCEPT ![b] = [members[b] EXCEPT !.executing = @ \cup {waiter}]]
  BY DEF MemberRequest
<1>6. members' \in [Boots -> MemberState]
  BY <1>2, <1>4, <1>5, NewMember
<1> QED  BY <1>1, <1>6 DEF MemberRequest, LinkTypes, HubTypes, WireTypes, FarTypes, hub, ends

LEMMA AnswerTypes ==
    ASSUME LinkTypes, NEW b \in Boots, Answer(b)
    PROVE  LinkTypes'
<1>0. members[b] \in MemberState
  BY DEF LinkTypes, FarTypes
<1>1. PICK e \in members[b].executing :
        /\ members' = [members EXCEPT ![b].executing = @ \ {e}]
        /\ up' = ToHub(b, ResponseFrame(e.stream, e.req))
        /\ UNCHANGED <<hub, conns, down, locals, ends, cuts, load>>
  BY DEF Answer
<1>2. e.stream \in Nat /\ e.req \in Requests
  BY <1>0 DEF MemberState, WaiterState
<1>3. up' \in Wires
  BY <1>1, <1>2, FramesMade, ToHubTyped
<1>4. [members[b] EXCEPT !.executing = @ \ {e}] \in MemberState
  BY <1>0 DEF MemberState
<1>5. members' \in [Boots -> MemberState]
  BY <1>1, <1>4, NewMember
<1> QED  BY <1>1, <1>3, <1>5 DEF LinkTypes, HubTypes, WireTypes, FarTypes, hub, ends

LEMMA HubResponseTypes ==
    ASSUME LinkTypes, NEW c \in Conns, HubResponse(c)
    PROVE  LinkTypes'
<1> DEFINE f == Head(up[c])
<1>1. f.req \in Requests /\ up' \in Wires
  BY HubReadsTyped, FrameParts DEF HubResponse
<1>2. http' \in [Conns -> SUBSET WaiterState]
  BY DEF HubResponse, LinkTypes, HubTypes
<1>3. replies' \in [Requests -> {"new", "waiting", "refused", "offline", "timeout"} \cup Requests]
  BY <1>1 DEF HubResponse, LinkTypes, HubTypes
<1> QED  BY <1>1, <1>2, <1>3 DEF HubResponse, LinkTypes, HubTypes, WireTypes, FarTypes

LEMMA MemberDirectoryTypes ==
    ASSUME LinkTypes, NEW c \in Conns, MemberDirectory(c)
    PROVE  LinkTypes'
<1> DEFINE b == conns[c].boot
<1>1. Head(down[c]).devices \in SUBSET Devices /\ down' \in Wires
  BY MemberReadsTyped, FrameParts DEF MemberDirectory
<1>2. b \in Boots /\ members[b] \in MemberState
  BY BootTyped
<1>3. [members[b] EXCEPT !.directory = Head(down[c]).devices] \in MemberState
  BY <1>1, <1>2 DEF MemberState
<1>4. members' = [members EXCEPT ![b] = [members[b] EXCEPT !.directory = Head(down[c]).devices]]
  BY DEF MemberDirectory
<1>5. members' \in [Boots -> MemberState]
  BY <1>2, <1>3, <1>4, NewMember
<1> QED  BY <1>1, <1>5 DEF MemberDirectory, LinkTypes, HubTypes, WireTypes, FarTypes, hub, ends

\* A page, or its local socket, moves on.
LEMMA NewPage ==
    ASSUME LinkTypes, NEW p \in Pages, NEW r \in PageState, r.state = "open" => r.conn \in Conns
    PROVE  LET ps == [pages EXCEPT ![p] = r] IN
           ps \in [Pages -> PageState] /\ \A q \in Pages : ps[q].state = "open" => ps[q].conn \in Conns
BY DEF LinkTypes, HubTypes

LEMMA NewLocal ==
    ASSUME LinkTypes, NEW p \in Pages, NEW r \in LocalState
    PROVE  [locals EXCEPT ![p] = r] \in [Pages -> LocalState]
BY DEF LinkTypes, FarTypes

LEMMA PageEndsTyped ==
    ASSUME LinkTypes, NEW p \in Pages
    PROVE  PageEnds(p) \in [Pages -> PageState] /\ \A q \in Pages : PageEnds(p)[q].state = "open" => PageEnds(p)[q].conn \in Conns
<1>1. pages[p] \in PageState
  BY DEF LinkTypes, HubTypes
<1>2. [pages[p] EXCEPT !.state = "closed"] \in PageState /\ [pages[p] EXCEPT !.state = "closed"].state = "closed"
  BY <1>1 DEF PageState
<1>3. PageEnds(p) = [pages EXCEPT ![p] = [pages[p] EXCEPT !.state = "closed"]]
  BY DEF PageEnds
<1>4. /\ PageEnds(p) \in [Pages -> PageState]
      /\ \A q \in Pages : PageEnds(p)[q].state = "open" => PageEnds(p)[q] = pages[q]
  BY <1>2, <1>3 DEF LinkTypes, HubTypes
<1> QED  BY <1>4 DEF LinkTypes, HubTypes

LEMMA ForgottenTyped ==
    ASSUME LinkTypes, NEW c \in Conns, NEW p \in Pages
    PROVE  Forgotten(c, p) \in [Conns -> SUBSET StreamState]
BY DEF Forgotten, LinkTypes, HubTypes

LEMMA StreamOfTyped ==
    ASSUME LinkTypes, NEW p \in Pages, pages[p].state = "open", Relayed(pages[p].conn, p)
    PROVE  pages[p].conn \in Conns /\ StreamOf(pages[p].conn, p) \in Nat
<1> DEFINE c == pages[p].conn
<1>1. c \in Conns
  BY DEF LinkTypes, HubTypes
<1>2. sockets[c] \in SUBSET StreamState
  BY <1>1 DEF LinkTypes, HubTypes
<1>3. (CHOOSE s \in sockets[c] : s.page = p) \in sockets[c]
  BY DEF Relayed
<1> QED  BY <1>1, <1>2, <1>3 DEF StreamOf, StreamState

LEMMA TextMade ==
    ASSUME NEW p \in Pages, NEW n \in Nat
    PROVE  Text(p, n + 1) \in TextState
BY DEF Text, TextState

LEMMA OpenPageTypes ==
    ASSUME LinkTypes, NEW p \in Pages, NEW d \in Devices, OpenPage(p, d)
    PROVE  LinkTypes'
<1> DEFINE c == links[d]
<1>1. CASE c = 0
  BY <1>1, PageEndsTyped DEF OpenPage, LinkTypes, HubTypes, WireTypes, FarTypes
<1>2. CASE c # 0
  <2>1. c \in Conns
    BY <1>2, LinkIsConn
  <2>2. conns' \in [Conns -> ConnState] /\ conns[c].next \in Nat
    BY <1>2, <2>1, NewStreamTyped DEF OpenPage
  <2>3. down' \in Wires
    BY <1>2, <2>1, <2>2, FramesMade, ToMemberTyped DEF OpenPage
  <2>4. [stream |-> conns[c].next, page |-> p] \in StreamState
    BY <2>2 DEF StreamState
  <2>5. sockets' \in [Conns -> SUBSET StreamState]
    BY <1>2, <2>1, <2>4 DEF OpenPage, LinkTypes, HubTypes
  <2>6. /\ pages' \in [Pages -> PageState]
        /\ \A q \in Pages : pages'[q].state = "open" => pages'[q].conn \in Conns
    <3>1. pages[p] \in PageState /\ c \in 0..MaxConns
      BY DEF LinkTypes, HubTypes
    <3>2. [pages[p] EXCEPT !.state = "open", !.conn = c] \in PageState /\ [pages[p] EXCEPT !.state = "open", !.conn = c].conn = c
      BY <3>1 DEF PageState
    <3>3. pages' = [pages EXCEPT ![p] = [pages[p] EXCEPT !.state = "open", !.conn = c]]
      BY <1>2 DEF OpenPage
    <3> QED  BY <2>1, <3>2, <3>3, NewPage
  <2> QED  BY <2>2, <2>3, <2>5, <2>6 DEF OpenPage, LinkTypes, HubTypes, WireTypes, FarTypes
<1> QED  BY <1>1, <1>2

LEMMA PageSendsTypes ==
    ASSUME LinkTypes, NEW p \in Pages, PageSends(p) \/ PageCloses(p)
    PROVE  LinkTypes'
<1> DEFINE c == pages[p].conn
<1>1. c \in Conns /\ StreamOf(c, p) \in Nat
  BY StreamOfTyped DEF PageSends, PageCloses
<1>2. CASE /\ PageSends(p)
           /\ down' = ToMember(c, TextFrame(StreamOf(c, p), Text(p, pages[p].sent + 1)))
           /\ pages' = [pages EXCEPT ![p].sent = @ + 1]
           /\ UNCHANGED sockets
  <2>1. pages[p] \in PageState
    BY DEF LinkTypes, HubTypes
  <2>2. pages[p].sent \in Nat
    BY <2>1 DEF PageState
  <2>3. down' \in Wires
    BY <1>1, <1>2, <2>2, TextMade, FramesMade, ToMemberTyped
  <2>4. [pages[p] EXCEPT !.sent = @ + 1] \in PageState /\ [pages[p] EXCEPT !.sent = @ + 1].conn = c
    BY <2>1 DEF PageState
  <2>5. pages' = [pages EXCEPT ![p] = [pages[p] EXCEPT !.sent = @ + 1]]
    BY <1>2
  <2>6. /\ pages' \in [Pages -> PageState]
        /\ \A q \in Pages : pages'[q].state = "open" => pages'[q].conn \in Conns
    BY <1>1, <2>4, <2>5, NewPage
  <2> QED  BY <1>2, <2>3, <2>6 DEF PageSends, LinkTypes, HubTypes, WireTypes, FarTypes
<1>3. CASE /\ down' = ToMember(c, CloseFrame(StreamOf(c, p)))
           /\ pages' = PageEnds(p)
           /\ sockets' = Forgotten(c, p)
           /\ UNCHANGED <<registry, removing, links, http, conns, up, members, locals, replies, cuts, load>>
  <2>1. down' \in Wires
    BY <1>1, <1>3, FramesMade, ToMemberTyped
  <2>2. /\ pages' \in [Pages -> PageState]
        /\ \A q \in Pages : pages'[q].state = "open" => pages'[q].conn \in Conns
    BY <1>3, PageEndsTyped
  <2>3. sockets' \in [Conns -> SUBSET StreamState]
    BY <1>1, <1>3, ForgottenTyped
  <2> QED  BY <1>3, <2>1, <2>2, <2>3 DEF LinkTypes, HubTypes, WireTypes, FarTypes
<1> QED  BY <1>2, <1>3 DEF PageSends, PageCloses

LEMMA HubTextTypes ==
    ASSUME LinkTypes, NEW c \in Conns, HubText(c)
    PROVE  LinkTypes'
<1> DEFINE f == Head(up[c])
<1>1. f.stream \in Nat /\ f.text \in TextState /\ up' \in Wires
  BY HubReadsTyped, FrameParts DEF HubText
<1>2. CASE /\ pages' = [p \in Pages |-> IF [stream |-> f.stream, page |-> p] \in sockets[c]
                                        THEN [pages[p] EXCEPT !.got = Append(@, f.text)] ELSE pages[p]]
           /\ UNCHANGED <<sockets, down>>
  <2>1. \A p \in Pages : pages[p] \in PageState
    BY DEF LinkTypes, HubTypes
  <2>2. \A p \in Pages : Append(pages[p].got, f.text) \in Seq(TextState)
    BY <1>1, <2>1, AppendProperties DEF PageState
  <2>3. \A p \in Pages : /\ [pages[p] EXCEPT !.got = Append(@, f.text)] \in PageState
                         /\ [pages[p] EXCEPT !.got = Append(@, f.text)].state = pages[p].state
                         /\ [pages[p] EXCEPT !.got = Append(@, f.text)].conn = pages[p].conn
    BY <2>1, <2>2 DEF PageState
  <2>4. /\ pages' \in [Pages -> PageState]
        /\ \A q \in Pages : pages'[q].state = pages[q].state /\ pages'[q].conn = pages[q].conn
    BY <1>2, <2>1, <2>3
  <2> QED  BY <1>1, <1>2, <2>4 DEF HubText, LinkTypes, HubTypes, WireTypes, FarTypes
<1>3. CASE \E p \in Pages :
             /\ [stream |-> f.stream, page |-> p] \in sockets[c]
             /\ pages' = PageEnds(p)
             /\ sockets' = Forgotten(c, p)
             /\ down' = ToMember(c, CloseFrame(f.stream))
  <2>1. down' \in Wires
    BY <1>1, <1>3, FramesMade, ToMemberTyped
  <2>2. /\ pages' \in [Pages -> PageState]
        /\ \A q \in Pages : pages'[q].state = "open" => pages'[q].conn \in Conns
    BY <1>3, PageEndsTyped
  <2>3. sockets' \in [Conns -> SUBSET StreamState]
    BY <1>3, ForgottenTyped
  <2> QED  BY <1>1, <2>1, <2>2, <2>3 DEF HubText, LinkTypes, HubTypes, WireTypes, FarTypes
<1> QED  BY <1>2, <1>3 DEF HubText

LEMMA HubCloseTypes ==
    ASSUME LinkTypes, NEW c \in Conns, HubClose(c)
    PROVE  LinkTypes'
<1>1. up' \in Wires
  BY HubReadsTyped DEF HubClose
<1>2. sockets' \in [Conns -> SUBSET StreamState]
  BY DEF HubClose, LinkTypes, HubTypes
<1>3. \A p \in Pages : pages[p] \in PageState
  BY DEF LinkTypes, HubTypes
<1>4. \A p \in Pages : [pages[p] EXCEPT !.state = "closed"] \in PageState /\ [pages[p] EXCEPT !.state = "closed"].state = "closed"
  BY <1>3 DEF PageState
<1>5. /\ pages' \in [Pages -> PageState]
      /\ \A q \in Pages : pages'[q].state = "open" => pages'[q] = pages[q]
  BY <1>3, <1>4 DEF HubClose
<1> QED  BY <1>1, <1>2, <1>5 DEF HubClose, LinkTypes, HubTypes, WireTypes, FarTypes

-----------------------------------------------------------------------------
(* Types: the member's end of a page socket. *)

LEMMA WithoutTyped ==
    ASSUME LinkTypes, NEW b \in Boots, NEW s
    PROVE  Without(b, s) \in [Boots -> MemberState]
<1>1. members[b] \in MemberState
  BY DEF LinkTypes, FarTypes
<1>2. [members[b] EXCEPT !.streams = @ \ {s}] \in MemberState
  BY <1>1 DEF MemberState
<1>3. Without(b, s) = [members EXCEPT ![b] = [members[b] EXCEPT !.streams = @ \ {s}]]
  BY DEF Without
<1> QED  BY <1>2, <1>3, NewMember

LEMMA MemberOpensTypes ==
    ASSUME LinkTypes, NEW c \in Conns, MemberOpens(c)
    PROVE  LinkTypes'
<1> DEFINE f == Head(down[c])
           b == conns[c].boot
           m == [members[b] EXCEPT !.streams = {s \in @ : s.stream # f.stream} \cup {Entry(f.stream, f.page)}]
           l == [locals[f.page] EXCEPT !.state = "opening", !.boot = b]
<1>1. f.stream \in Nat /\ f.page \in Pages /\ down' \in Wires
  BY MemberReadsTyped, FrameParts DEF MemberOpens
<1>2. b \in Boots /\ members[b] \in MemberState
  BY BootTyped
<1>3. Entry(f.stream, f.page) \in StreamState
  BY <1>1 DEF Entry, StreamState
<1>4. m \in MemberState
  BY <1>2, <1>3 DEF MemberState
<1>5. members' = [members EXCEPT ![b] = m]
  BY DEF MemberOpens
<1>6. members' \in [Boots -> MemberState]
  BY <1>2, <1>4, <1>5, NewMember
<1>7. locals[f.page] \in LocalState
  BY <1>1 DEF LinkTypes, FarTypes
<1>8. l \in LocalState
  BY <1>2, <1>7 DEF LocalState
<1>9. locals' = [locals EXCEPT ![f.page] = l]
  BY DEF MemberOpens
<1>10. locals' \in [Pages -> LocalState]
  BY <1>1, <1>8, <1>9, NewLocal
<1> QED  BY <1>1, <1>6, <1>10 DEF MemberOpens, LinkTypes, HubTypes, WireTypes, FarTypes, hub, ends

LEMMA MemberTextTypes ==
    ASSUME LinkTypes, NEW c \in Conns, MemberText(c)
    PROVE  LinkTypes'
<1> DEFINE f == Head(down[c])
           b == conns[c].boot
<1>1. f.stream \in Nat /\ f.text \in TextState /\ down' \in Wires
  BY MemberReadsTyped, FrameParts DEF MemberText
<1>2. CASE Delivers(c) /\ UNCHANGED <<members, up>>
  <2>1. \A p \in Pages : locals[p] \in LocalState
    BY DEF LinkTypes, FarTypes
  <2>2. \A p \in Pages : /\ Append(locals[p].early, f.text) \in Seq(TextState)
                         /\ Append(locals[p].got, f.text) \in Seq(TextState)
    BY <1>1, <2>1, AppendProperties DEF LocalState
  <2>3. ASSUME NEW p \in Pages
        PROVE  [locals[p] EXCEPT !.early = IF locals[p].state = "opening" THEN Append(@, f.text) ELSE @,
                                 !.got = IF locals[p].state = "open" THEN Append(@, f.text) ELSE @] \in LocalState
    BY <2>1, <2>2 DEF LocalState
  <2>4. locals' \in [Pages -> LocalState]
    BY <1>2, <2>1, <2>3, Zenon DEF Delivers
  <2> QED  BY <1>1, <1>2, <2>4 DEF MemberText, LinkTypes, HubTypes, WireTypes, FarTypes, hub, ends
<1>3. CASE \E p \in Pages :
            /\ Entry(f.stream, p) \in Streams(b) /\ locals[p].state = "opening"
            /\ members' = Without(b, Entry(f.stream, p))
            /\ up' = ToHub(b, CloseFrame(f.stream))
            /\ UNCHANGED locals
  <2>1. b \in Boots
    BY BootTyped
  <2>2. up' \in Wires
    BY <1>1, <1>3, <2>1, FramesMade, ToHubTyped
  <2>3. members' \in [Boots -> MemberState]
    BY <1>3, <2>1, WithoutTyped
  <2> QED  BY <1>1, <1>3, <2>2, <2>3 DEF MemberText, LinkTypes, HubTypes, WireTypes, FarTypes, hub, ends
<1> QED  BY <1>2, <1>3 DEF MemberText

LEMMA MemberCloseTypes ==
    ASSUME LinkTypes, NEW c \in Conns, MemberClose(c)
    PROVE  LinkTypes'
<1> DEFINE f == Head(down[c])
           b == conns[c].boot
           m == [members[b] EXCEPT !.streams = {s \in @ : s.stream # f.stream}]
<1>1. down' \in Wires
  BY MemberReadsTyped DEF MemberClose
<1>2. b \in Boots /\ members[b] \in MemberState
  BY BootTyped
<1>3. m \in MemberState
  BY <1>2 DEF MemberState
<1>4. members' = [members EXCEPT ![b] = m]
  BY DEF MemberClose
<1>5. members' \in [Boots -> MemberState]
  BY <1>2, <1>3, <1>4, NewMember
<1>6. \A p \in Pages : locals[p] \in LocalState
  BY DEF LinkTypes, FarTypes
<1>7. \A p \in Pages : [locals[p] EXCEPT !.state = "closed"] \in LocalState
  BY <1>6 DEF LocalState
<1>8. locals' \in [Pages -> LocalState]
  BY <1>6, <1>7 DEF MemberClose
<1> QED  BY <1>1, <1>5, <1>8 DEF MemberClose, LinkTypes, HubTypes, WireTypes, FarTypes, hub, ends

LEMMA LocalTyped ==
    ASSUME LinkTypes, NEW p \in Pages
    PROVE  /\ locals[p] \in LocalState /\ locals[p].boot \in Boots
           /\ [locals[p] EXCEPT !.state = "closed"] \in LocalState
           /\ members[locals[p].boot] \in MemberState
<1>1. locals[p] \in LocalState
  BY DEF LinkTypes, FarTypes
<1>2. locals[p].boot \in Boots /\ [locals[p] EXCEPT !.state = "closed"] \in LocalState
  BY <1>1 DEF LocalState
<1> QED  BY <1>1, <1>2 DEF LinkTypes, FarTypes

LEMMA LocalOpensTypes ==
    ASSUME LinkTypes, NEW p \in Pages, LocalOpens(p)
    PROVE  LinkTypes'
<1>1. locals[p] \in LocalState
  BY LocalTyped
<1>2. [locals[p] EXCEPT !.state = "open", !.got = locals[p].early, !.early = <<>>] \in LocalState
  BY <1>1, EmptySeq DEF LocalState
<1>3. \/ locals' = [locals EXCEPT ![p] = [locals[p] EXCEPT !.state = "open", !.got = locals[p].early, !.early = <<>>]]
      \/ locals' = [locals EXCEPT ![p] = [locals[p] EXCEPT !.state = "closed"]]
  BY DEF LocalOpens, Opens
<1>4. locals' \in [Pages -> LocalState]
  BY <1>2, <1>3, LocalTyped, NewLocal
<1> QED  BY <1>4 DEF LocalOpens, LinkTypes, HubTypes, WireTypes, FarTypes, hub, ends

LEMMA LocalFailsTypes ==
    ASSUME LinkTypes, NEW p \in Pages, LocalFails(p)
    PROVE  LinkTypes'
<1> DEFINE b == locals[p].boot
<1>1. locals' = [locals EXCEPT ![p] = [locals[p] EXCEPT !.state = "closed"]]
  BY DEF LocalFails
<1>2. locals' \in [Pages -> LocalState]
  BY <1>1, LocalTyped, NewLocal
<1>3. CASE \E s \in Streams(b) : s.page = p /\ members' = Without(b, s) /\ up' = ToHub(b, CloseFrame(s.stream))
  <2>1. PICK s \in Streams(b) : members' = Without(b, s) /\ up' = ToHub(b, CloseFrame(s.stream))
    BY <1>3
  <2>2. s.stream \in Nat
    BY LocalTyped DEF Streams, MemberState, StreamState
  <2>3. up' \in Wires /\ members' \in [Boots -> MemberState]
    BY <2>1, <2>2, LocalTyped, FramesMade, ToHubTyped, WithoutTyped
  <2> QED  BY <1>2, <2>3 DEF LocalFails, LinkTypes, HubTypes, WireTypes, FarTypes, hub, ends
<1>4. CASE UNCHANGED <<members, up>>
  BY <1>2, <1>4 DEF LocalFails, LinkTypes, HubTypes, WireTypes, FarTypes, hub, ends
<1> QED  BY <1>3, <1>4 DEF LocalFails

LEMMA LocalSendsTypes ==
    ASSUME LinkTypes, NEW p \in Pages, LocalSends(p)
    PROVE  LinkTypes'
<1> DEFINE b == locals[p].boot
<1>1. PICK s \in Streams(b) :
         /\ up' = ToHub(b, TextFrame(s.stream, Text(p, locals[p].sent + 1)))
         /\ locals' = [locals EXCEPT ![p].sent = @ + 1]
  BY DEF LocalSends
<1>2. s.stream \in Nat
  BY LocalTyped DEF Streams, MemberState, StreamState
<1>3. locals[p].sent \in Nat /\ [locals[p] EXCEPT !.sent = @ + 1] \in LocalState
  <2>1. locals[p] \in LocalState
    BY LocalTyped
  <2> QED  BY <2>1 DEF LocalState
<1>4. up' \in Wires
  BY <1>1, <1>2, <1>3, TextMade, LocalTyped, FramesMade, ToHubTyped
<1>5. locals' \in [Pages -> LocalState]
  BY <1>1, <1>3, NewLocal
<1> QED  BY <1>4, <1>5 DEF LocalSends, LinkTypes, HubTypes, WireTypes, FarTypes, hub, ends

-----------------------------------------------------------------------------
(* Types: every step. *)

\* Steps that leave every link, and who is registered, as they are.
Aside ==
    \/ \E b \in Boots : Answer(b)
    \/ \E c \in Conns : \/ MemberDirectory(c) \/ MemberRequest(c) \/ MemberOpens(c) \/ MemberText(c) \/ MemberClose(c)
                        \/ HubResponse(c) \/ HubText(c) \/ HubClose(c)
    \/ \E r \in Requests : TimesOut(r) \/ \E d \in Devices : Ask(r, d)
    \/ \E p \in Pages :
        \/ PageSends(p) \/ PageCloses(p) \/ LocalOpens(p) \/ LocalFails(p) \/ LocalSends(p)
        \/ \E d \in Devices : OpenPage(p, d)

LEMMA AsideTypes == LinkTypes /\ Aside => LinkTypes'
<1> SUFFICES ASSUME LinkTypes, Aside
             PROVE  LinkTypes'
  OBVIOUS
<1>1. CASE \E b \in Boots : Answer(b)
  BY <1>1, AnswerTypes
<1>2. CASE \E c \in Conns : \/ MemberDirectory(c) \/ MemberRequest(c) \/ MemberOpens(c)
                            \/ MemberText(c) \/ MemberClose(c)
  <2>1. PICK c \in Conns : \/ MemberDirectory(c) \/ MemberRequest(c) \/ MemberOpens(c)
                           \/ MemberText(c) \/ MemberClose(c)
    BY <1>2
  <2>2. CASE MemberDirectory(c) \/ MemberRequest(c) \/ MemberOpens(c)
    BY <2>2, MemberDirectoryTypes, MemberRequestTypes, MemberOpensTypes
  <2>3. CASE MemberText(c) \/ MemberClose(c)
    BY <2>3, MemberTextTypes, MemberCloseTypes
  <2> QED  BY <2>1, <2>2, <2>3
<1>3. CASE \E c \in Conns : HubResponse(c) \/ HubText(c) \/ HubClose(c)
  BY <1>3, HubResponseTypes, HubTextTypes, HubCloseTypes
<1>4. CASE \E r \in Requests : TimesOut(r) \/ \E d \in Devices : Ask(r, d)
  BY <1>4, TimesOutTypes, AskTypes
<1>5. CASE \E p \in Pages : \/ PageSends(p) \/ PageCloses(p) \/ LocalOpens(p) \/ LocalFails(p) \/ LocalSends(p)
                            \/ \E d \in Devices : OpenPage(p, d)
  <2>1. PICK p \in Pages : \/ PageSends(p) \/ PageCloses(p) \/ LocalOpens(p) \/ LocalFails(p) \/ LocalSends(p)
                           \/ \E d \in Devices : OpenPage(p, d)
    BY <1>5
  <2>2. CASE PageSends(p) \/ PageCloses(p) \/ \E d \in Devices : OpenPage(p, d)
    BY <2>2, PageSendsTypes, OpenPageTypes
  <2>3. CASE LocalOpens(p) \/ LocalFails(p) \/ LocalSends(p)
    BY <2>3, LocalOpensTypes, LocalFailsTypes, LocalSendsTypes
  <2> QED  BY <2>1, <2>2, <2>3
<1> QED  BY <1>1, <1>2, <1>3, <1>4, <1>5 DEF Aside

-----------------------------------------------------------------------------
(* What the steps do to the links. *)

SameLinks ==
    /\ links' = links /\ registry' = registry
    /\ \A c \in Conns : /\ conns'[c].boot = conns[c].boot /\ conns'[c].hub = conns[c].hub
                        /\ conns'[c].member = conns[c].member /\ conns'[c].cut = conns[c].cut
    /\ \A b \in Boots : /\ members'[b].state = members[b].state /\ members'[b].timer = members[b].timer
                        /\ members'[b].socket = members[b].socket

LEMMA NewStreamSame ==
    ASSUME LinkTypes, NEW c \in Conns, conns' = NewStream(c)
    PROVE  \A e \in Conns : /\ conns'[e].boot = conns[e].boot /\ conns'[e].hub = conns[e].hub
                            /\ conns'[e].member = conns[e].member /\ conns'[e].cut = conns[e].cut
<1> TAKE e \in Conns
<1>1. conns \in [Conns -> ConnState] /\ conns[e] \in ConnState
  BY DEF LinkTypes, HubTypes
<1>2. conns' = [conns EXCEPT ![c] = [conns[c] EXCEPT !.next = conns[c].next + 1]]
  BY DEF NewStream
<1>3. conns'[e] = IF e = c THEN [conns[c] EXCEPT !.next = conns[c].next + 1] ELSE conns[e]
  BY <1>1, <1>2
<1> QED  BY <1>1, <1>3 DEF ConnState

LEMMA MemberParts ==
    ASSUME NEW m \in MemberState, NEW S, NEW n,
           n = [m EXCEPT !.streams = S] \/ n = [m EXCEPT !.executing = S] \/ n = [m EXCEPT !.directory = S]
    PROVE  n.state = m.state /\ n.timer = m.timer /\ n.socket = m.socket
<1>1. CASE n = [m EXCEPT !.streams = S]
  BY <1>1 DEF MemberState
<1>2. CASE n = [m EXCEPT !.executing = S]
  BY <1>2 DEF MemberState
<1>3. CASE n = [m EXCEPT !.directory = S]
  BY <1>3 DEF MemberState
<1> QED  BY <1>1, <1>2, <1>3

LEMMA StreamsSame ==
    ASSUME LinkTypes, NEW b \in Boots, NEW S,
           \/ members' = [members EXCEPT ![b] = [members[b] EXCEPT !.streams = S]]
           \/ members' = [members EXCEPT ![b] = [members[b] EXCEPT !.executing = S]]
           \/ members' = [members EXCEPT ![b] = [members[b] EXCEPT !.directory = S]]
    PROVE  \A x \in Boots : /\ members'[x].state = members[x].state /\ members'[x].timer = members[x].timer
                            /\ members'[x].socket = members[x].socket
<1> TAKE x \in Boots
<1>1. members \in [Boots -> MemberState] /\ members[b] \in MemberState
  BY DEF LinkTypes, FarTypes
<1>2. x # b => members'[x] = members[x]
  BY <1>1
<1>4. CASE x # b
  BY <1>2, <1>4
<1>5. CASE x = b
  <2> DEFINE m == members[b]
  <2>1. m \in MemberState
    BY <1>1
  <2>2. \/ members'[x] = [m EXCEPT !.streams = S]
        \/ members'[x] = [m EXCEPT !.executing = S]
        \/ members'[x] = [m EXCEPT !.directory = S]
    <3>1. \A r : [members EXCEPT ![b] = r][b] = r
      BY <1>1
    <3>2. CASE members' = [members EXCEPT ![b] = [members[b] EXCEPT !.streams = S]]
      BY <1>5, <3>1, <3>2
    <3>3. CASE members' = [members EXCEPT ![b] = [members[b] EXCEPT !.executing = S]]
      BY <1>5, <3>1, <3>3
    <3>4. CASE members' = [members EXCEPT ![b] = [members[b] EXCEPT !.directory = S]]
      BY <1>5, <3>1, <3>4
    <3> QED  BY <3>2, <3>3, <3>4
  <2> HIDE DEF m
  <2> QED  BY <1>5, <2>1, <2>2, MemberParts DEF m
<1> QED  BY <1>4, <1>5

LEMMA AsideSame ==
    ASSUME LinkTypes, Aside
    PROVE  SameLinks
<1>1. CASE \E b \in Boots : Answer(b)
  <2>1. PICK b \in Boots : Answer(b)
    BY <1>1
  <2>2. PICK e : members' = [members EXCEPT ![b] = [members[b] EXCEPT !.executing = members[b].executing \ {e}]]
    BY <2>1 DEF Answer
  <2>3. \A x \in Boots : /\ members'[x].state = members[x].state /\ members'[x].timer = members[x].timer
                         /\ members'[x].socket = members[x].socket
    BY <2>2, StreamsSame
  <2> QED  BY <2>1, <2>3 DEF Answer, SameLinks, hub
<1>2. CASE \E c \in Conns : MemberDirectory(c) \/ MemberRequest(c) \/ MemberOpens(c) \/ MemberClose(c)
  <2>1. PICK c \in Conns : MemberDirectory(c) \/ MemberRequest(c) \/ MemberOpens(c) \/ MemberClose(c)
    BY <1>2
  <2> DEFINE b == conns[c].boot
  <2>2. b \in Boots
    BY BootTyped
  <2>3. PICK S : \/ members' = [members EXCEPT ![b] = [members[b] EXCEPT !.streams = S]]
                 \/ members' = [members EXCEPT ![b] = [members[b] EXCEPT !.executing = S]]
                 \/ members' = [members EXCEPT ![b] = [members[b] EXCEPT !.directory = S]]
    BY <2>1 DEF MemberDirectory, MemberRequest, MemberOpens, MemberClose
  <2>4. \A x \in Boots : /\ members'[x].state = members[x].state /\ members'[x].timer = members[x].timer
                         /\ members'[x].socket = members[x].socket
    BY <2>2, <2>3, StreamsSame
  <2> QED  BY <2>1, <2>4 DEF MemberDirectory, MemberRequest, MemberOpens, MemberClose, SameLinks, hub
<1>3. CASE \E c \in Conns : MemberText(c)
  <2>1. PICK c \in Conns : MemberText(c)
    BY <1>3
  <2> DEFINE b == conns[c].boot
  <2>2. b \in Boots
    BY BootTyped
  <2>3. UNCHANGED members \/ \E S : members' = [members EXCEPT ![b] = [members[b] EXCEPT !.streams = S]]
    BY <2>1 DEF MemberText, Without
  <2>4. \A x \in Boots : /\ members'[x].state = members[x].state /\ members'[x].timer = members[x].timer
                         /\ members'[x].socket = members[x].socket
    BY <2>2, <2>3, StreamsSame
  <2> QED  BY <2>1, <2>4 DEF MemberText, SameLinks, hub
<1>4. CASE \E c \in Conns : HubResponse(c) \/ HubText(c) \/ HubClose(c)
  BY <1>4 DEF HubResponse, HubText, HubClose, SameLinks
<1>5. CASE \E r \in Requests : TimesOut(r)
  BY <1>5 DEF TimesOut, SameLinks
<1>6. CASE \E r \in Requests, d \in Devices : Ask(r, d)
  <2>1. PICK r \in Requests, d \in Devices : Ask(r, d)
    BY <1>6
  <2>2. conns' = conns \/ (links[d] # 0 /\ conns' = NewStream(links[d]))
    BY <2>1 DEF Ask
  <2>3. \A e \in Conns : /\ conns'[e].boot = conns[e].boot /\ conns'[e].hub = conns[e].hub
                         /\ conns'[e].member = conns[e].member /\ conns'[e].cut = conns[e].cut
    BY <2>2, LinkIsConn, NewStreamSame
  <2> QED  BY <2>1, <2>3 DEF Ask, SameLinks
<1>7. CASE \E p \in Pages : PageSends(p) \/ PageCloses(p)
  BY <1>7 DEF PageSends, PageCloses, SameLinks
<1>8. CASE \E p \in Pages : LocalOpens(p) \/ LocalSends(p)
  BY <1>8 DEF LocalOpens, LocalSends, SameLinks, hub
<1>9. CASE \E p \in Pages : LocalFails(p)
  <2>1. PICK p \in Pages : LocalFails(p)
    BY <1>9
  <2> DEFINE b == locals[p].boot
  <2>2. b \in Boots
    BY LocalTyped
  <2>3. UNCHANGED members \/ \E S : members' = [members EXCEPT ![b] = [members[b] EXCEPT !.streams = S]]
    BY <2>1 DEF LocalFails, Without
  <2>4. \A x \in Boots : /\ members'[x].state = members[x].state /\ members'[x].timer = members[x].timer
                         /\ members'[x].socket = members[x].socket
    BY <2>2, <2>3, StreamsSame
  <2> QED  BY <2>1, <2>4 DEF LocalFails, SameLinks, hub
<1>10. CASE \E p \in Pages, d \in Devices : OpenPage(p, d)
  <2>1. PICK p \in Pages, d \in Devices : OpenPage(p, d)
    BY <1>10
  <2>2. conns' = conns \/ (links[d] # 0 /\ conns' = NewStream(links[d]))
    BY <2>1 DEF OpenPage
  <2>3. \A e \in Conns : /\ conns'[e].boot = conns[e].boot /\ conns'[e].hub = conns[e].hub
                         /\ conns'[e].member = conns[e].member /\ conns'[e].cut = conns[e].cut
    BY <2>2, LinkIsConn, NewStreamSame
  <2> QED  BY <2>1, <2>3 DEF OpenPage, SameLinks
<1> QED  BY <1>1, <1>2, <1>3, <1>4, <1>5, <1>6, <1>7, <1>8, <1>9, <1>10 DEF Aside

LEMMA SameKeepsBonds ==
    ASSUME LinkTypes, HubBonds, MemberBonds, SameLinks
    PROVE  HubBonds' /\ MemberBonds'
<1>1. \A d \in Devices : links[d] # 0 => links[d] \in Conns
  BY LinkIsConn
<1>2. \A b \in Boots : members[b].socket # 0 => members[b].socket \in Conns
  BY FederationAssumption DEF LinkTypes, FarTypes, MemberState, Conns
<1>3. \A c \in Conns : DeviceAt(c)' = DeviceAt(c) /\ conns[c].boot \in Boots
  BY BootTyped DEF SameLinks, DeviceAt
<1>4. HubBonds'
  BY <1>1, <1>3 DEF SameLinks, HubBonds, OpenLinkIsUsed, JoinCodeOnce
<1>5. MemberBonds'
  BY <1>2, <1>3 DEF SameLinks, MemberBonds, OneSocket
<1> QED  BY <1>4, <1>5

-----------------------------------------------------------------------------
(* The steps of a link keep the bonds. *)

LEMMA SocketIsConn ==
    ASSUME LinkTypes, NEW b \in Boots, members[b].socket # 0
    PROVE  members[b].socket \in Conns
BY FederationAssumption DEF LinkTypes, FarTypes, MemberState, Conns

LEMMA ConnIsNotZero == 0 \notin Conns
BY FederationAssumption DEF Conns

\* The hub's side, when what it sees stays as it is and no connection comes out of nothing.
LEMMA HubKept ==
    ASSUME LinkTypes, HubBonds, links' = links, registry' = registry,
           \A e \in Conns : /\ conns'[e].boot = conns[e].boot /\ conns'[e].hub = conns[e].hub
                            /\ conns'[e].member = "none" => conns[e].member = "none"
    PROVE  HubBonds'
<1>1. \A d \in Devices : links[d] # 0 => links[d] \in Conns
  BY LinkIsConn
<1>2. \A c \in Conns : DeviceAt(c)' = DeviceAt(c)
  BY DEF DeviceAt
<1> QED  BY <1>1, <1>2 DEF HubBonds, OpenLinkIsUsed, JoinCodeOnce

\* The member's side, when its own part stays and no link it has opened is closed behind its back.
LEMMA MemberKept ==
    ASSUME LinkTypes, MemberBonds, members' = members,
           \A e \in Conns : /\ conns'[e].boot = conns[e].boot /\ conns'[e].member = conns[e].member
                            /\ conns[e].member = "open" /\ ~conns'[e].cut => conns'[e].hub \in {"open", "closing"}
    PROVE  MemberBonds'
<1>1. \A b \in Boots : members[b].socket # 0 => members[b].socket \in Conns
  BY SocketIsConn
<1>2. \A c \in Conns : conns[c].boot \in Boots
  BY BootTyped
<1> QED  BY <1>1, <1>2 DEF MemberBonds, OneSocket

\* One connection changes, on the hub's side.
SameButHub(c) ==
    /\ \A e \in Conns \ {c} : conns'[e] = conns[e]
    /\ \A e \in Conns : /\ conns'[e].boot = conns[e].boot /\ conns'[e].member = conns[e].member
                        /\ conns'[e].cut = conns[e].cut

LEMMA HubMoves ==
    ASSUME LinkTypes, NEW c \in Conns, NEW h, NEW code,
           \/ conns' = [conns EXCEPT ![c].hub = h, ![c].code = code]
           \/ conns' = [conns EXCEPT ![c].hub = h]
    PROVE  conns'[c].hub = h /\ SameButHub(c)
<1>1. conns \in [Conns -> ConnState] /\ conns[c] \in ConnState
  BY DEF LinkTypes, HubTypes
<1>2. CASE conns' = [conns EXCEPT ![c].hub = h, ![c].code = code]
  <2> DEFINE r == [conns[c] EXCEPT !.hub = h, !.code = code]
  <2>1. r.hub = h /\ r.boot = conns[c].boot /\ r.member = conns[c].member /\ r.cut = conns[c].cut
    BY <1>1 DEF ConnState
  <2>2. conns' = [conns EXCEPT ![c] = r]
    BY <1>2
  <2> HIDE DEF r
  <2> QED  BY <1>1, <2>1, <2>2 DEF SameButHub
<1>3. CASE conns' = [conns EXCEPT ![c].hub = h]
  <2> DEFINE r == [conns[c] EXCEPT !.hub = h]
  <2>1. r.hub = h /\ r.boot = conns[c].boot /\ r.member = conns[c].member /\ r.cut = conns[c].cut
    BY <1>1 DEF ConnState
  <2>2. conns' = [conns EXCEPT ![c] = r]
    BY <1>3
  <2> HIDE DEF r
  <2> QED  BY <1>1, <2>1, <2>2 DEF SameButHub
<1> QED  BY <1>2, <1>3

\* A connection the hub does not serve is refused, or closed before it was served.
LEMMA HubDrops ==
    ASSUME LinkTypes, HubBonds, MemberBonds, NEW c \in Conns, conns[c].hub \in {"none", "saving"},
           conns'[c].hub \in {"refused", "closed"}, SameButHub(c), conns[c].member # "none",
           links' = links, registry' = registry, members' = members
    PROVE  HubBonds' /\ MemberBonds'
<1>1. \A d \in Devices : links[d] # 0 => links[d] \in Conns \ {c}
  BY LinkIsConn DEF HubBonds
<1>2. \A e \in Conns : DeviceAt(e)' = DeviceAt(e)
  BY DEF SameButHub, DeviceAt
<1>3. \A e \in Conns : conns'[e].hub \in {"saving", "open"} => e # c /\ conns'[e] = conns[e]
  BY DEF SameButHub
<1>4. /\ \A e \in Conns : conns'[e].member = "none" => conns'[e].hub = "none"
      /\ \A d \in Devices : links'[d] # 0 => conns'[links'[d]].hub \in {"open", "closing"} /\ DeviceOf[conns'[links'[d]].boot] = d
      /\ \A e \in Conns : conns'[e].hub \in {"saving", "open"} => registry'[TokenOf[conns'[e].boot]] \in {DeviceAt(e)', Removed}
  BY <1>1, <1>2, <1>3 DEF SameButHub, HubBonds, DeviceAt
<1>5. OpenLinkIsUsed' /\ JoinCodeOnce'
  BY <1>3 DEF SameButHub, HubBonds, OpenLinkIsUsed, JoinCodeOnce
<1>6. HubBonds'
  BY <1>4, <1>5 DEF HubBonds, DeviceAt
<1>7. \A e \in Conns : conns[e].member = "open" /\ ~conns'[e].cut => conns'[e].hub \in {"open", "closing"}
  BY DEF SameButHub, MemberBonds
<1> QED  BY <1>6, <1>7, MemberKept DEF SameButHub

LEMMA DialsBonds ==
    ASSUME LinkTypes, HubBonds, MemberBonds, NEW b \in Boots, NEW c \in Conns, Dials(b, c, FALSE),
           members[b].socket = 0
    PROVE  HubBonds' /\ MemberBonds'
<1>1. /\ conns'[c].boot = b /\ conns'[c].hub = "none" /\ conns'[c].member = "connecting" /\ conns'[c].cut = FALSE
      /\ \A e \in Conns \ {c} : conns'[e] = conns[e]
      /\ links' = links /\ registry' = registry
  <2>1. Free \in ConnState /\ Free.hub = "none"
    BY FreeTyped
  <2> DEFINE r == [Free EXCEPT !.boot = b, !.member = "connecting"]
  <2>2. r.boot = b /\ r.hub = "none" /\ r.member = "connecting" /\ r.cut = FALSE
    BY <2>1 DEF ConnState, Free
  <2>3. conns' = [conns EXCEPT ![c] = r] /\ conns \in [Conns -> ConnState]
    BY DEF Dials, LinkTypes, HubTypes
  <2> HIDE DEF r
  <2> QED  BY <2>2, <2>3 DEF Dials, hub
<1>2. /\ members'[b].state = "connecting" /\ members'[b].timer = FALSE /\ members'[b].socket = c
      /\ \A x \in Boots \ {b} : members'[x] = members[x]
  <2>1. members[b] \in MemberState
    BY DEF LinkTypes, FarTypes
  <2> DEFINE m == [members[b] EXCEPT !.state = "connecting", !.timer = FALSE, !.socket = c]
  <2>2. m.state = "connecting" /\ m.timer = FALSE /\ m.socket = c
    BY <2>1 DEF MemberState
  <2>3. members' = [members EXCEPT ![b] = m] /\ members \in [Boots -> MemberState]
    BY DEF Dials, LinkTypes, FarTypes
  <2> HIDE DEF m
  <2> QED  BY <2>2, <2>3
<1>3. conns[c].member = "none" /\ conns[c].hub = "none"
  BY DEF Dials, HubBonds
<1>4. \A d \in Devices : links[d] # 0 => links[d] \in Conns \ {c}
  BY <1>3, LinkIsConn DEF HubBonds
<1>5. \A e \in Conns \ {c} : DeviceAt(e)' = DeviceAt(e)
  BY <1>1 DEF DeviceAt
<1>6. HubBonds'
  BY <1>1, <1>3, <1>4, <1>5 DEF HubBonds, OpenLinkIsUsed, JoinCodeOnce
<1>7. \A x \in Boots : members[x].socket # 0 => members[x].socket \in Conns \ {c}
  BY <1>3, SocketIsConn DEF MemberBonds
<1>8. \A e \in Conns \ {c} : conns[e].member \in {"connecting", "open"} => conns[e].boot # b
  BY ConnIsNotZero DEF MemberBonds, OneSocket
<1>9. OneSocket'
  BY <1>1, <1>2, <1>8, BootTyped DEF MemberBonds, OneSocket
<1>10. MemberBonds'
  BY <1>1, <1>2, <1>3, <1>7, <1>9, ConnIsNotZero DEF MemberBonds
<1> QED  BY <1>6, <1>10

\* What attach() does to the connections: the new one is open, the one it replaces closing.
LEMMA AttachesMoves ==
    ASSUME LinkTypes, HubBonds, NEW c \in Conns, conns[c].hub \in {"none", "saving"}, Attaches(c, registry)
    PROVE  /\ conns'[c].hub = "open"
           /\ \A e \in Conns \ {c} : conns'[e].hub = IF e = links[DeviceAt(c)] THEN "closing" ELSE conns[e].hub
           /\ \A e \in Conns : /\ conns'[e].boot = conns[e].boot /\ conns'[e].member = conns[e].member
                               /\ conns'[e].cut = conns[e].cut
           /\ links' = [links EXCEPT ![DeviceAt(c)] = c]
<1> DEFINE d == DeviceAt(c)
           old == links[d]
           mid == [conns EXCEPT ![c].hub = "open"]
<1>1. conns \in [Conns -> ConnState] /\ d \in Devices /\ conns[c].boot \in Boots
  BY BootTyped, FederationAssumption DEF LinkTypes, HubTypes, DeviceAt
<1>2. old # 0 => old \in Conns \ {c} /\ conns[old].hub \in {"open", "closing"}
  BY <1>1, LinkIsConn DEF HubBonds
<1>3. /\ mid[c].hub = "open" /\ mid \in [Conns -> ConnState]
      /\ \A e \in Conns \ {c} : mid[e] = conns[e]
      /\ mid[c].boot = conns[c].boot /\ mid[c].member = conns[c].member /\ mid[c].cut = conns[c].cut
  <2> DEFINE r == [conns[c] EXCEPT !.hub = "open"]
  <2>1. conns[c] \in ConnState
    BY <1>1
  <2>2. r \in ConnState /\ r.hub = "open" /\ r.boot = conns[c].boot /\ r.member = conns[c].member /\ r.cut = conns[c].cut
    BY <2>1 DEF ConnState
  <2>3. mid = [conns EXCEPT ![c] = r]
    OBVIOUS
  <2> HIDE DEF r, mid
  <2> QED  BY <1>1, <2>2, <2>3
<1> HIDE DEF mid
<1>4. PICK code \in {"superseded", "replaced"} : conns' = HubCloses(mid, old, code)
  BY Zenon DEF Attaches, Takes, DeviceAt, mid
<1>5. links' = [links EXCEPT ![d] = c]
  BY DEF Attaches, DeviceAt
<1>6. CASE old # 0 /\ mid[old].hub = "open"
  <2> DEFINE r == [mid[old] EXCEPT !.hub = "closing", !.code = code]
  <2>1. mid[old] \in ConnState
    BY <1>2, <1>3, <1>6
  <2>2. r.hub = "closing" /\ r.boot = mid[old].boot /\ r.member = mid[old].member /\ r.cut = mid[old].cut
    BY <2>1 DEF ConnState
  <2>3. conns' = [mid EXCEPT ![old] = r]
    BY <1>4, <1>6 DEF HubCloses
  <2> HIDE DEF r
  <2>4. conns'[old] = r /\ \A e \in Conns \ {old} : conns'[e] = mid[e]
    BY <1>2, <1>3, <1>6, <2>3
  <2>5. old \in Conns \ {c}
    BY <1>2, <1>6
  <2> QED  BY <1>3, <1>5, <2>2, <2>4, <2>5
<1>7. CASE ~(old # 0 /\ mid[old].hub = "open")
  <2>1. conns' = mid
    BY <1>4, <1>7 DEF HubCloses
  <2>2. old # 0 => mid[old].hub = "closing" /\ conns[old].hub = "closing"
    BY <1>2, <1>3, <1>7
  <2> QED  BY <1>2, <1>3, <1>5, <2>1, <2>2, ConnIsNotZero
<1> QED  BY <1>6, <1>7

LEMMA AttachesBonds ==
    ASSUME LinkTypes, HubBonds, MemberBonds, NEW c \in Conns, conns[c].hub \in {"none", "saving"},
           conns[c].member # "none", conns[c].hub = "saving" \/ registry[TokenOf[conns[c].boot]] = DeviceAt(c),
           Attaches(c, registry), registry' = registry, members' = members
    PROVE  HubBonds' /\ MemberBonds'
<1> DEFINE d == DeviceAt(c)
           old == links[d]
<1>1. /\ conns'[c].hub = "open"
      /\ \A e \in Conns \ {c} : conns'[e].hub = IF e = old THEN "closing" ELSE conns[e].hub
      /\ \A e \in Conns : /\ conns'[e].boot = conns[e].boot /\ conns'[e].member = conns[e].member
                          /\ conns'[e].cut = conns[e].cut
      /\ links' = [links EXCEPT ![d] = c]
  BY AttachesMoves
<1>2. \A e \in Conns : DeviceAt(e)' = DeviceAt(e) /\ DeviceAt(e) \in Devices
  BY <1>1, BootTyped, FederationAssumption DEF DeviceAt
<1>3. links'[d] = c /\ \A x \in Devices \ {d} : links'[x] = links[x]
  BY <1>1, <1>2 DEF LinkTypes, HubTypes
<1>4. old # 0 => old \in Conns \ {c} /\ conns[old].hub \in {"open", "closing"} /\ DeviceAt(old) = d
  BY <1>2, LinkIsConn DEF HubBonds
<1>5. \A x \in Devices \ {d} : links[x] # 0 => links[x] \in Conns \ {c, old} /\ DeviceAt(links[x]) = x /\ conns[links[x]].hub \in {"open", "closing"}
  BY <1>4, LinkIsConn DEF HubBonds
<1>6. \A e \in Conns : conns'[e].member = "none" => conns'[e].hub = "none"
  <2>1. \A e \in Conns : conns[e].member = "none" => e # c /\ conns[e].hub = "none" /\ e # old
    BY <1>4, ConnIsNotZero DEF HubBonds
  <2> QED  BY <1>1, <2>1
<1>7. \A x \in Devices : links'[x] # 0 => conns'[links'[x]].hub \in {"open", "closing"} /\ DeviceOf[conns'[links'[x]].boot] = x
  <2> SUFFICES ASSUME NEW x \in Devices, links'[x] # 0
               PROVE  conns'[links'[x]].hub \in {"open", "closing"} /\ DeviceOf[conns'[links'[x]].boot] = x
    OBVIOUS
  <2>1. CASE x = d
    BY <1>1, <1>3, <2>1 DEF DeviceAt
  <2>2. CASE x # d
    <3>1. links'[x] = links[x] /\ links[x] \in Conns \ {c, old} /\ DeviceAt(links[x]) = x /\ conns[links[x]].hub \in {"open", "closing"}
      BY <1>3, <1>5, <2>2
    <3>2. conns'[links[x]].hub = conns[links[x]].hub /\ conns'[links[x]].boot = conns[links[x]].boot
      BY <1>1, <3>1
    <3> QED  BY <3>1, <3>2 DEF DeviceAt
  <2> QED  BY <2>1, <2>2
<1>8. \A e \in Conns : conns'[e].hub \in {"saving", "open"} => registry'[TokenOf[conns'[e].boot]] \in {DeviceAt(e)', Removed}
  <2>1. registry[TokenOf[conns[c].boot]] \in {DeviceAt(c), Removed}
    BY DEF HubBonds
  <2> QED  BY <1>1, <1>2, <2>1 DEF HubBonds
<1>9. OpenLinkIsUsed'
  <2> SUFFICES ASSUME NEW e \in Conns, conns'[e].hub = "open"
               PROVE  links'[DeviceAt(e)] = e
    BY <1>1 DEF OpenLinkIsUsed, DeviceAt
  <2>1. CASE e = c
    BY <1>3, <2>1
  <2>2. CASE e # c
    <3>1. conns[e].hub = "open" /\ e # old
      BY <1>1, <2>2
    <3>2. links[DeviceAt(e)] = e
      BY <3>1 DEF HubBonds, OpenLinkIsUsed, DeviceAt
    <3> QED  BY <1>2, <1>3, <3>1, <3>2
  <2> QED  BY <2>1, <2>2
<1>10. JoinCodeOnce'
  <2> DEFINE Bound(e) == conns[e].hub \in {"saving", "open"}
             TokenAt(e) == TokenOf[conns[e].boot]
  <2>1. \A e \in Conns : conns'[e].hub \in {"saving", "open"} => e = c \/ Bound(e)
    BY <1>1
  <2>2. \A e \in Conns : Bound(e) /\ TokenAt(e) = TokenAt(c) => DeviceAt(e) = d
    <3>1. CASE conns[c].hub = "saving"
      BY <3>1 DEF HubBonds, JoinCodeOnce, DeviceAt
    <3>2. CASE registry[TokenAt(c)] = d
      <4>1. d # Removed
        BY <1>2, FederationAssumption
      <4>2. \A e \in Conns : Bound(e) => registry[TokenAt(e)] \in {DeviceAt(e), Removed}
        BY DEF HubBonds
      <4> HIDE DEF Bound, TokenAt, d
      <4> QED  BY <3>2, <4>1, <4>2
    <3> QED  BY <3>1, <3>2
  <2>3. \A e, f \in Conns : Bound(e) /\ Bound(f) /\ TokenAt(e) = TokenAt(f) => DeviceAt(e) = DeviceAt(f)
    BY DEF HubBonds, JoinCodeOnce, DeviceAt
  <2>4. \A e, f \in Conns : /\ conns'[e].hub \in {"saving", "open"} /\ conns'[f].hub \in {"saving", "open"}
                            /\ TokenAt(e) = TokenAt(f)
                            => DeviceAt(e) = DeviceAt(f)
    <3> HIDE DEF Bound, TokenAt
    <3> QED  BY <2>1, <2>2, <2>3
  <2> QED  BY <1>1, <2>4 DEF JoinCodeOnce, DeviceAt
<1>11. HubBonds'
  BY <1>6, <1>7, <1>8, <1>9, <1>10 DEF HubBonds, DeviceAt
<1>12. MemberBonds'
  <2>1. \A e \in Conns : conns[e].member = "open" /\ ~conns'[e].cut => conns'[e].hub \in {"open", "closing"}
    BY <1>1 DEF MemberBonds
  <2> QED  BY <1>1, <2>1, MemberKept
<1> QED  BY <1>11, <1>12

LEMMA AuthenticateBonds ==
    ASSUME LinkTypes, HubBonds, MemberBonds, NEW c \in Conns, Authenticate(c)
    PROVE  HubBonds' /\ MemberBonds'
<1> DEFINE b == conns[c].boot
           k == TokenOf[b]
<1>0. /\ conns \in [Conns -> ConnState] /\ registry \in [Tokens -> Devices \cup {NoDevice, Removed}]
      /\ b \in Boots /\ k \in Tokens /\ DeviceAt(c) \in Devices
      /\ conns[c].hub = "none" /\ conns[c].member = "connecting" /\ members' = members
  BY BootTyped, FederationAssumption DEF Authenticate, LinkTypes, HubTypes, DeviceAt
<1>1. CASE conns' = [conns EXCEPT ![c].hub = "refused", ![c].code = "fatal"] /\ UNCHANGED <<registry, links, down>>
  <2>1. conns'[c].hub = "refused" /\ SameButHub(c)
    BY <1>0, <1>1, HubMoves, Zenon
  <2> QED  BY <1>0, <1>1, <2>1, HubDrops
<1>2. CASE /\ ~Refuses(b) /\ registry[k] = NoDevice
           /\ registry' = [registry EXCEPT ![k] = DeviceOf[b]]
           /\ conns' = [conns EXCEPT ![c].hub = "saving"]
           /\ UNCHANGED <<links, down>>
  <2>1. conns'[c].hub = "saving" /\ SameButHub(c)
    BY <1>0, <1>2, HubMoves, Zenon
  <2>2. \A e \in Conns : DeviceAt(e)' = DeviceAt(e) /\ DeviceAt(e) \in Devices /\ TokenOf[conns[e].boot] \in Tokens
    BY <2>1, BootTyped, FederationAssumption DEF SameButHub, DeviceAt
  <2>3. \A d \in Devices : links[d] # 0 => links[d] \in Conns \ {c}
    BY <1>0, LinkIsConn DEF HubBonds
  <2>4. \A e \in Conns : conns[e].hub \in {"saving", "open"} => TokenOf[conns[e].boot] # k
    <3>1. NoDevice \notin Devices \cup {Removed}
      BY FederationAssumption
    <3> QED  BY <1>2, <2>2, <3>1 DEF HubBonds
  <2>5. registry'[k] = DeviceAt(c) /\ \A x \in Tokens \ {k} : registry'[x] = registry[x]
    BY <1>0, <1>2 DEF DeviceAt
  <2>6. \A e \in Conns : conns'[e].member = "none" => conns'[e].hub = "none"
    BY <1>0, <2>1 DEF SameButHub, HubBonds
  <2>7. \A d \in Devices : links'[d] # 0 => conns'[links'[d]].hub \in {"open", "closing"} /\ DeviceOf[conns'[links'[d]].boot] = d
    BY <1>2, <2>1, <2>3 DEF SameButHub, HubBonds, DeviceAt
  <2>8. \A e \in Conns : conns'[e].hub \in {"saving", "open"} => registry'[TokenOf[conns'[e].boot]] \in {DeviceAt(e)', Removed}
    <3> SUFFICES ASSUME NEW e \in Conns, conns'[e].hub \in {"saving", "open"}
                 PROVE  registry'[TokenOf[conns'[e].boot]] \in {DeviceAt(e)', Removed}
      OBVIOUS
    <3>1. CASE e = c
      BY <2>1, <2>2, <2>5, <3>1 DEF SameButHub
    <3>2. CASE e # c
      BY <2>1, <2>2, <2>4, <2>5, <3>2 DEF SameButHub, HubBonds
    <3> QED  BY <3>1, <3>2
  <2>9. OpenLinkIsUsed'
    BY <1>2, <2>1 DEF SameButHub, HubBonds, OpenLinkIsUsed
  <2>10. JoinCodeOnce'
    <3>1. \A e \in Conns \ {c} : conns'[e].hub \in {"saving", "open"} => conns[e].hub \in {"saving", "open"} /\ TokenOf[conns'[e].boot] # k
      BY <2>1, <2>4 DEF SameButHub
    <3>2. TokenOf[conns'[c].boot] = k
      BY <2>1 DEF SameButHub
    <3> SUFFICES ASSUME NEW e \in Conns, NEW f \in Conns, conns'[e].hub \in {"saving", "open"}, conns'[f].hub \in {"saving", "open"},
                        TokenOf[conns'[e].boot] = TokenOf[conns'[f].boot]
                 PROVE  DeviceOf[conns'[e].boot] = DeviceOf[conns'[f].boot]
      BY DEF JoinCodeOnce
    <3>3. CASE e = c \/ f = c
      BY <3>1, <3>2, <3>3
    <3>4. CASE e # c /\ f # c
      BY <2>1, <3>1, <3>4 DEF SameButHub, HubBonds, JoinCodeOnce
    <3> QED  BY <3>3, <3>4
  <2>11. HubBonds'
    BY <2>6, <2>7, <2>8, <2>9, <2>10 DEF HubBonds, DeviceAt
  <2>12. MemberBonds'
    <3>1. \A e \in Conns : conns[e].member = "open" /\ ~conns'[e].cut => conns'[e].hub \in {"open", "closing"}
      BY <1>0, <2>1 DEF SameButHub, MemberBonds
    <3> QED  BY <1>0, <2>1, <3>1, MemberKept DEF SameButHub
  <2> QED  BY <2>11, <2>12
<1>3. CASE ~Refuses(b) /\ registry[k] # NoDevice /\ Attaches(c, registry) /\ UNCHANGED registry
  <2>1. registry[k] = DeviceAt(c)
    BY <1>3 DEF Refuses, DeviceAt
  <2> QED  BY <1>0, <1>3, <2>1, AttachesBonds
<1> QED  BY <1>1, <1>2, <1>3 DEF Authenticate

LEMMA SavedBonds ==
    ASSUME LinkTypes, HubBonds, MemberBonds, NEW c \in Conns, Saved(c)
    PROVE  HubBonds' /\ MemberBonds'
<1>0. /\ conns \in [Conns -> ConnState] /\ conns[c].hub = "saving" /\ conns[c].member # "none"
      /\ members' = members /\ registry' = registry
  BY DEF Saved, LinkTypes, HubTypes, HubBonds
<1>1. CASE Attaches(c, registry)
  BY <1>0, <1>1, AttachesBonds
<1>2. CASE /\ \/ conns' = [conns EXCEPT ![c].hub = "refused", ![c].code = "error"]
              \/ conns' = [conns EXCEPT ![c].hub = "closed"]
           /\ UNCHANGED <<links, down>>
  <2>1. conns'[c].hub \in {"refused", "closed"} /\ SameButHub(c)
    BY <1>0, <1>2, HubMoves
  <2>2. ~(conns[c].member = "open" /\ ~conns[c].cut)
    BY <1>0 DEF MemberBonds
  <2> QED  BY <1>0, <1>2, <2>1, <2>2, HubDrops
<1> QED  BY <1>1, <1>2 DEF Saved

LEMMA UnlistBonds ==
    ASSUME LinkTypes, HubBonds, MemberBonds, NEW k \in Tokens, Unlist(k)
    PROVE  HubBonds' /\ MemberBonds'
<1>1. links' = links /\ conns' = conns /\ members' = members
  BY DEF Unlist
<1>2. \A t \in Tokens : registry'[t] \in {registry[t], Removed}
  BY DEF Unlist, LinkTypes, HubTypes
<1>3. \A c \in Conns : TokenOf[conns[c].boot] \in Tokens
  BY BootTyped, FederationAssumption
<1>4. \A c \in Conns : conns[c].hub \in {"saving", "open"} => registry'[TokenOf[conns[c].boot]] \in {DeviceAt(c), Removed}
  BY <1>2, <1>3 DEF HubBonds
<1>5. HubBonds'
  BY <1>1, <1>4 DEF HubBonds, OpenLinkIsUsed, JoinCodeOnce, DeviceAt
<1>6. MemberBonds'
  BY <1>1, MemberKept DEF MemberBonds
<1> QED  BY <1>5, <1>6

\* A link the hub closes stays the device's link, and open for the member, until it has closed.
LEMMA RemoveEndsBonds ==
    ASSUME LinkTypes, HubBonds, MemberBonds, NEW k \in Tokens, NEW d \in Devices \cup {NoDevice}, RemoveEnds(k, d)
    PROVE  HubBonds' /\ MemberBonds'
<1>0. links' = links /\ registry' = registry /\ members' = members
  BY DEF RemoveEnds
<1>1. CASE conns' = conns
  BY <1>0, <1>1, HubKept, MemberKept DEF MemberBonds
<1>2. CASE conns' # conns
  <2> DEFINE c == links[d]
  <2>1. d \in Devices /\ c # 0 /\ conns[c].hub = "open" /\ conns' = [conns EXCEPT ![c].hub = "closing", ![c].code = "removed"]
    BY <1>2 DEF RemoveEnds, HubCloses
  <2>2. c \in Conns
    BY <2>1, LinkIsConn
  <2>3. conns'[c].hub = "closing" /\ SameButHub(c)
    BY <2>1, <2>2, HubMoves
  <2>4. \A x \in Devices : links[x] # 0 => links[x] \in Conns
    BY LinkIsConn
  <2>5. \A e \in Conns : DeviceAt(e)' = DeviceAt(e)
    BY <2>3 DEF SameButHub, DeviceAt
  <2>6. \A e \in Conns : conns'[e].hub \in {"saving", "open"} => e # c /\ conns'[e] = conns[e]
    BY <2>3 DEF SameButHub
  <2>7. /\ \A e \in Conns : conns'[e].member = "none" => conns'[e].hub = "none"
        /\ \A x \in Devices : links'[x] # 0 => conns'[links'[x]].hub \in {"open", "closing"} /\ DeviceOf[conns'[links'[x]].boot] = x
        /\ \A e \in Conns : conns'[e].hub \in {"saving", "open"} => registry'[TokenOf[conns'[e].boot]] \in {DeviceAt(e)', Removed}
    <3>1. \A e \in Conns : conns'[e].member = "none" => conns'[e].hub = "none"
      <4>1. conns[c].member # "none"
        BY <2>1, <2>2 DEF HubBonds
      <4> QED  BY <2>3, <4>1 DEF SameButHub, HubBonds
    <3>2. \A x \in Devices : links'[x] # 0 => conns'[links'[x]].hub \in {"open", "closing"} /\ DeviceOf[conns'[links'[x]].boot] = x
      BY <1>0, <2>3, <2>4 DEF SameButHub, HubBonds, DeviceAt
    <3>3. \A e \in Conns : conns'[e].hub \in {"saving", "open"} => registry'[TokenOf[conns'[e].boot]] \in {DeviceAt(e)', Removed}
      BY <1>0, <2>5, <2>6 DEF HubBonds
    <3> QED  BY <3>1, <3>2, <3>3
  <2>8. OpenLinkIsUsed' /\ JoinCodeOnce'
    BY <1>0, <2>6 DEF HubBonds, OpenLinkIsUsed, JoinCodeOnce
  <2>9. HubBonds'
    BY <2>7, <2>8 DEF HubBonds, DeviceAt
  <2>10. \A e \in Conns : conns[e].member = "open" /\ ~conns'[e].cut => conns'[e].hub \in {"open", "closing"}
    BY <2>3 DEF SameButHub, MemberBonds
  <2> QED  BY <1>0, <2>3, <2>9, <2>10, MemberKept DEF SameButHub
<1> QED  BY <1>1, <1>2

LEMMA CutBonds ==
    ASSUME LinkTypes, HubBonds, MemberBonds, NEW c \in Conns, Cut(c)
    PROVE  HubBonds' /\ MemberBonds'
<1>1. \A e \in Conns : /\ conns'[e].boot = conns[e].boot /\ conns'[e].hub = conns[e].hub
                       /\ conns'[e].member = conns[e].member
                       /\ ~conns'[e].cut => ~conns[e].cut
  <2> DEFINE r == [conns[c] EXCEPT !.cut = TRUE]
  <2>1. conns \in [Conns -> ConnState] /\ conns[c] \in ConnState
    BY DEF LinkTypes, HubTypes
  <2>2. r.cut = TRUE /\ r.boot = conns[c].boot /\ r.hub = conns[c].hub /\ r.member = conns[c].member
    BY <2>1 DEF ConnState
  <2>3. conns' = [conns EXCEPT ![c] = r]
    BY DEF Cut
  <2> HIDE DEF r
  <2> QED  BY <2>1, <2>2, <2>3
<1>2. links' = links /\ registry' = registry /\ members' = members
  BY DEF Cut, hub
<1>3. \A e \in Conns : conns[e].member = "open" /\ ~conns'[e].cut => conns'[e].hub \in {"open", "closing"}
  BY <1>1 DEF MemberBonds
<1> QED  BY <1>1, <1>2, <1>3, HubKept, MemberKept

\* Only its own entry goes: the map holds a link for its device alone.
LEMMA HubClosedBonds ==
    ASSUME LinkTypes, HubBonds, MemberBonds, NEW c \in Conns, HubClosed(c)
    PROVE  HubBonds' /\ MemberBonds'
<1> DEFINE d == DeviceAt(c)
<1>0. /\ conns \in [Conns -> ConnState] /\ links \in [Devices -> 0..MaxConns] /\ d \in Devices
      /\ conns[c].hub \in {"open", "closing"}
      /\ registry' = registry /\ members' = members
  BY BootTyped, FederationAssumption DEF HubClosed, LinkTypes, HubTypes, DeviceAt
<1>1. conns'[c].hub = "closed" /\ SameButHub(c)
  BY HubMoves DEF HubClosed
<1>2. \A x \in Devices : links[x] # 0 => links[x] \in Conns /\ DeviceAt(links[x]) = x
  BY LinkIsConn DEF HubBonds
<1>3. \A x \in Devices : links'[x] = IF links[x] = c THEN 0 ELSE links[x]
  <2>1. \A x \in Devices : links[x] = c => x = d
    BY <1>2, ConnIsNotZero
  <2> QED  BY <1>0, <2>1 DEF HubClosed, Detaches, DeviceAt
<1>4. \A e \in Conns : DeviceAt(e)' = DeviceAt(e) /\ DeviceAt(e) \in Devices
  BY <1>1, BootTyped, FederationAssumption DEF SameButHub, DeviceAt
<1>5. \A e \in Conns : conns'[e].hub \in {"saving", "open"} => e # c /\ conns'[e] = conns[e]
  BY <1>1 DEF SameButHub
<1>6. \A e \in Conns : conns'[e].member = "none" => conns'[e].hub = "none"
  BY <1>0, <1>1 DEF SameButHub, HubBonds
<1>7. \A x \in Devices : links'[x] # 0 => conns'[links'[x]].hub \in {"open", "closing"} /\ DeviceOf[conns'[links'[x]].boot] = x
  <2> SUFFICES ASSUME NEW x \in Devices, links'[x] # 0
               PROVE  conns'[links'[x]].hub \in {"open", "closing"} /\ DeviceOf[conns'[links'[x]].boot] = x
    OBVIOUS
  <2>1. links'[x] = links[x] /\ links[x] \in Conns \ {c}
    BY <1>2, <1>3
  <2>2. conns'[links[x]] = conns[links[x]] /\ conns[links[x]].hub \in {"open", "closing"} /\ DeviceAt(links[x]) = x
    BY <1>1, <2>1 DEF SameButHub, HubBonds
  <2> QED  BY <2>1, <2>2 DEF DeviceAt
<1>8. \A e \in Conns : conns'[e].hub \in {"saving", "open"} => registry'[TokenOf[conns'[e].boot]] \in {DeviceAt(e)', Removed}
  BY <1>0, <1>4, <1>5 DEF HubBonds
<1>9. OpenLinkIsUsed'
  <2> SUFFICES ASSUME NEW e \in Conns, conns'[e].hub = "open"
               PROVE  links'[DeviceOf[conns'[e].boot]] = e
    BY DEF OpenLinkIsUsed
  <2>1. e # c /\ conns'[e] = conns[e] /\ links[DeviceAt(e)] = e
    BY <1>5 DEF HubBonds, OpenLinkIsUsed, DeviceAt
  <2>2. links'[DeviceAt(e)] = e
    BY <1>3, <1>4, <2>1
  <2> QED  BY <2>1, <2>2 DEF DeviceAt
<1>10. JoinCodeOnce'
  BY <1>5 DEF HubBonds, JoinCodeOnce
<1>11. HubBonds'
  BY <1>6, <1>7, <1>8, <1>9, <1>10 DEF HubBonds, DeviceAt
<1>12. \A e \in Conns : conns[e].member = "open" /\ ~conns'[e].cut => conns'[e].hub \in {"open", "closing"}
  <2>1. conns[c].cut \/ conns[c].member \in {"closing", "closed"}
    BY DEF HubClosed
  <2> QED  BY <1>1, <2>1 DEF SameButHub, MemberBonds
<1> QED  BY <1>0, <1>1, <1>11, <1>12, MemberKept DEF SameButHub

-----------------------------------------------------------------------------
(* The member's steps keep the bonds. *)

\* One connection changes, on the member's side.
SameButMember(c) ==
    /\ \A e \in Conns \ {c} : conns'[e] = conns[e]
    /\ conns'[c].boot = conns[c].boot /\ conns'[c].hub = conns[c].hub
    /\ ~conns'[c].cut => ~conns[c].cut

LEMMA MemberMoves ==
    ASSUME LinkTypes, NEW c \in Conns, NEW m,
           \/ conns' = [conns EXCEPT ![c].member = m]
           \/ conns' = [conns EXCEPT ![c].member = m, ![c].cut = TRUE]
    PROVE  conns'[c].member = m /\ SameButMember(c)
<1>1. conns \in [Conns -> ConnState] /\ conns[c] \in ConnState
  BY DEF LinkTypes, HubTypes
<1>2. CASE conns' = [conns EXCEPT ![c].member = m]
  <2> DEFINE r == [conns[c] EXCEPT !.member = m]
  <2>1. r.member = m /\ r.boot = conns[c].boot /\ r.hub = conns[c].hub /\ r.cut = conns[c].cut
    BY <1>1 DEF ConnState
  <2>2. conns' = [conns EXCEPT ![c] = r]
    BY <1>2
  <2> HIDE DEF r
  <2> QED  BY <1>1, <2>1, <2>2 DEF SameButMember
<1>3. CASE conns' = [conns EXCEPT ![c].member = m, ![c].cut = TRUE]
  <2> DEFINE r == [conns[c] EXCEPT !.member = m, !.cut = TRUE]
  <2>1. r.member = m /\ r.boot = conns[c].boot /\ r.hub = conns[c].hub /\ r.cut = TRUE
    BY <1>1 DEF ConnState
  <2>2. conns' = [conns EXCEPT ![c] = r]
    BY <1>3
  <2> HIDE DEF r
  <2> QED  BY <1>1, <2>1, <2>2 DEF SameButMember
<1> QED  BY <1>2, <1>3

LEMMA MemberMovesHub ==
    ASSUME LinkTypes, HubBonds, NEW c \in Conns, SameButMember(c), conns'[c].member # "none",
           links' = links, registry' = registry
    PROVE  HubBonds'
BY HubKept DEF SameButMember

LEMMA MemberOpenBonds ==
    ASSUME LinkTypes, HubBonds, MemberBonds, NEW c \in Conns, MemberOpen(c)
    PROVE  HubBonds' /\ MemberBonds'
<1> DEFINE b == conns[c].boot
<1>1. conns'[c].member = "open" /\ SameButMember(c) /\ links' = links /\ registry' = registry
  BY MemberMoves DEF MemberOpen, hub
<1>2. HubBonds'
  BY <1>1, MemberMovesHub
<1>3. b \in Boots /\ members[b].socket = c
  BY BootTyped DEF MemberOpen, MemberBonds, OneSocket
<1>4. /\ members'[b].state = "connected" /\ members'[b].timer = members[b].timer /\ members'[b].socket = c
      /\ \A x \in Boots \ {b} : members'[x] = members[x]
  <2> DEFINE m == [members[b] EXCEPT !.state = "connected"]
  <2>1. members \in [Boots -> MemberState] /\ members[b] \in MemberState
    BY <1>3 DEF LinkTypes, FarTypes
  <2>2. m.state = "connected" /\ m.timer = members[b].timer /\ m.socket = c
    BY <1>3, <2>1 DEF MemberState
  <2>3. members' = [members EXCEPT ![b] = m]
    BY DEF MemberOpen
  <2> HIDE DEF m
  <2> QED  BY <1>3, <2>1, <2>2, <2>3
<1>5. \A x \in Boots \ {b} : members[x].socket # 0 => members[x].socket \in Conns \ {c}
  BY SocketIsConn DEF MemberBonds
<1>6. /\ \A x \in Boots \ {b} :
           /\ members'[x].socket # 0 =>
                conns'[members'[x].socket].boot = x /\ conns'[members'[x].socket].member \in {"connecting", "open"}
           /\ members'[x].timer => members'[x].socket = 0
           /\ members'[x].state = "connected" => members'[x].socket # 0 /\ conns'[members'[x].socket].member = "open"
      /\ members[b].timer => members[b].socket = 0
  BY <1>1, <1>3, <1>4, <1>5 DEF MemberBonds, SameButMember
<1>7. \A e \in Conns : conns'[e].member = "open" /\ ~conns'[e].cut => conns'[e].hub \in {"open", "closing"}
  BY <1>1 DEF MemberOpen, MemberBonds, SameButMember
<1>8. OneSocket'
  BY <1>1, <1>3, <1>4, BootTyped DEF MemberBonds, OneSocket, SameButMember
<1>9. MemberBonds'
  BY <1>1, <1>3, <1>4, <1>6, <1>7, <1>8, ConnIsNotZero DEF MemberBonds, SameButMember
<1> QED  BY <1>2, <1>9

\* The member lets go of a connection: of its socket, or of one it has left already.
LEMMA LetsGo ==
    ASSUME LinkTypes, HubBonds, MemberBonds, NEW c \in Conns, SameButMember(c), conns'[c].member \in {"closing", "closed"},
           NEW b \in Boots, conns[c].boot = b,
           \/ members[b].socket # c /\ members' = members
           \/ /\ members[b].socket = c /\ members'[b].socket = 0 /\ members'[b].state # "connected"
              /\ \A x \in Boots \ {b} : members'[x] = members[x]
    PROVE  MemberBonds'
<1>1. \A x \in Boots : members'[x].socket # 0 => members'[x] = members[x] /\ members[x].socket \in Conns \ {c}
  BY SocketIsConn DEF MemberBonds
<1>2. \A x \in Boots : members'[x].socket = 0 => members'[x] = members[x] \/ members'[x].state # "connected"
  OBVIOUS
<1>3. \A x \in Boots :
           /\ members'[x].socket # 0 =>
                conns'[members'[x].socket].boot = x /\ conns'[members'[x].socket].member \in {"connecting", "open"}
           /\ members'[x].timer => members'[x].socket = 0
           /\ members'[x].state = "connected" => members'[x].socket # 0 /\ conns'[members'[x].socket].member = "open"
  BY <1>1, <1>2 DEF MemberBonds, SameButMember
<1>4. \A e \in Conns : conns'[e].member \in {"connecting", "open"} => e # c /\ conns'[e] = conns[e]
  BY DEF SameButMember
<1>5. \A e \in Conns : conns'[e].member = "open" /\ ~conns'[e].cut => conns'[e].hub \in {"open", "closing"}
  BY <1>4 DEF MemberBonds
<1>6. OneSocket'
  <2> SUFFICES ASSUME NEW e \in Conns, conns'[e].member \in {"connecting", "open"}
               PROVE  members'[conns'[e].boot].socket = e
    BY DEF OneSocket
  <2>1. e # c /\ conns'[e] = conns[e] /\ members[conns[e].boot].socket = e /\ conns[e].boot \in Boots
    BY <1>4, BootTyped DEF MemberBonds, OneSocket
  <2> QED  BY <2>1
<1> QED  BY <1>3, <1>5, <1>6 DEF MemberBonds

LEMMA MemberClosedBonds ==
    ASSUME LinkTypes, HubBonds, MemberBonds, NEW c \in Conns, MemberClosed(c)
    PROVE  HubBonds' /\ MemberBonds'
<1> DEFINE b == conns[c].boot
<1>1. conns'[c].member = "closed" /\ SameButMember(c) /\ links' = links /\ registry' = registry
  <2>1. conns' = [conns EXCEPT ![c].member = "closed"]
    BY DEF MemberClosed
  <2> QED  BY <2>1, MemberMoves DEF MemberClosed, hub
<1>2. HubBonds'
  BY <1>1, MemberMovesHub
<1>3. b \in Boots
  BY BootTyped
<1>4. CASE members[b].socket # c
  <2>1. members' = members
    BY <1>4 DEF MemberClosed
  <2> QED  BY <1>1, <1>2, <1>3, <1>4, <2>1, LetsGo
<1>5. CASE members[b].socket = c
  <2>1. PICK code : members' = [members EXCEPT ![b] = AfterClose(@, code)]
    BY <1>5 DEF MemberClosed
  <2> DEFINE m == AfterClose(members[b], code)
  <2>2. members \in [Boots -> MemberState] /\ members[b] \in MemberState
    BY <1>3 DEF LinkTypes, FarTypes
  <2>3. m.socket = 0 /\ m.state # "connected"
    BY <2>2 DEF AfterClose, MemberState
  <2>4. members' = [members EXCEPT ![b] = m]
    BY <2>1
  <2> HIDE DEF m
  <2>5. members'[b] = m /\ \A x \in Boots \ {b} : members'[x] = members[x]
    BY <1>3, <2>2, <2>4
  <2> QED  BY <1>1, <1>2, <1>3, <1>5, <2>3, <2>5, LetsGo
<1> QED  BY <1>4, <1>5

LEMMA LeaveBonds ==
    ASSUME LinkTypes, HubBonds, MemberBonds, NEW b \in Boots, Leave(b)
    PROVE  HubBonds' /\ MemberBonds'
<1> DEFINE c == members[b].socket
<1>1. links' = links /\ registry' = registry
  BY DEF Leave, hub
<1>2. /\ members'[b].socket = 0 /\ members'[b].state = "left" /\ members'[b].timer = FALSE
      /\ \A x \in Boots \ {b} : members'[x] = members[x]
  <2> DEFINE m == [members[b] EXCEPT !.state = "left", !.timer = FALSE, !.socket = 0, !.streams = {}]
  <2>1. members \in [Boots -> MemberState] /\ members[b] \in MemberState
    BY DEF LinkTypes, FarTypes
  <2>2. m.socket = 0 /\ m.state = "left" /\ m.timer = FALSE
    BY <2>1 DEF MemberState
  <2>3. members' = [members EXCEPT ![b] = m]
    BY DEF Leave
  <2> HIDE DEF m
  <2> QED  BY <2>1, <2>2, <2>3
<1>3. CASE c = 0
  <2>1. conns' = conns
    BY <1>3 DEF Leave
  <2>2. HubBonds'
    BY <1>1, <2>1, HubKept
  <2>3. \A e \in Conns : conns[e].boot \in Boots /\ (conns[e].member \in {"connecting", "open"} => conns[e].boot # b)
    BY <1>3, ConnIsNotZero, BootTyped DEF MemberBonds, OneSocket
  <2>4. OneSocket'
    BY <1>2, <2>1, <2>3 DEF MemberBonds, OneSocket
  <2>5. \A x \in Boots : members'[x].socket # 0 => members'[x] = members[x]
    BY <1>2
  <2>6. \A x \in Boots : members'[x] = members[x] \/ (members'[x].socket = 0 /\ members'[x].state # "connected")
    BY <1>2
  <2> QED  BY <2>1, <2>2, <2>4, <2>5, <2>6 DEF MemberBonds
<1>4. CASE c # 0
  <2>1. c \in Conns /\ conns[c].boot = b
    BY <1>4, SocketIsConn DEF MemberBonds
  <2>2. PICK m \in {"closed", "closing"} : \/ conns' = [conns EXCEPT ![c].member = m]
                                           \/ conns' = [conns EXCEPT ![c].member = m, ![c].cut = TRUE]
    BY <1>4 DEF Leave
  <2>3. conns'[c].member = m /\ SameButMember(c)
    BY <2>1, <2>2, MemberMoves
  <2> QED  BY <1>1, <1>2, <2>1, <2>3, MemberMovesHub, LetsGo
<1> QED  BY <1>3, <1>4

-----------------------------------------------------------------------------
(* Every step keeps the invariant. *)

LEMMA LinkStepKeeps ==
    ASSUME FederationInv, NEW c \in Conns,
           Authenticate(c) \/ Saved(c) \/ MemberOpen(c) \/ HubClosed(c) \/ MemberClosed(c) \/ Cut(c)
    PROVE  FederationInv'
<1> USE DEF FederationInv
<1>1. CASE Authenticate(c)
  BY <1>1, AuthenticateTypes, AuthenticateBonds
<1>2. CASE Saved(c)
  BY <1>2, SavedTypes, SavedBonds
<1>3. CASE MemberOpen(c)
  BY <1>3, MemberOpenTypes, MemberOpenBonds
<1>4. CASE HubClosed(c)
  BY <1>4, HubClosedTypes, HubClosedBonds
<1>5. CASE MemberClosed(c)
  BY <1>5, MemberClosedTypes, MemberClosedBonds
<1>6. CASE Cut(c)
  BY <1>6, CutTypes, CutBonds
<1> QED  BY <1>1, <1>2, <1>3, <1>4, <1>5, <1>6

LEMMA MemberStepKeeps ==
    ASSUME FederationInv, NEW b \in Boots, Connect(b) \/ Retry(b) \/ Leave(b)
    PROVE  FederationInv'
<1> USE DEF FederationInv
<1>1. CASE Connect(b) \/ Retry(b)
  <2>1. members[b].socket = 0
    BY <1>1 DEF Connect, Retry, MemberBonds
  <2>2. PICK c \in Conns : Dials(b, c, FALSE)
    BY <1>1 DEF Connect, Retry
  <2> QED  BY <2>1, <2>2, DialsTypes, DialsBonds
<1>2. CASE Leave(b)
  BY <1>2, LeaveTypes, LeaveBonds
<1> QED  BY <1>1, <1>2

LEMMA RemovalKeeps ==
    ASSUME FederationInv, NEW k \in Tokens, Unlist(k) \/ \E d \in Devices \cup {NoDevice} : RemoveEnds(k, d)
    PROVE  FederationInv'
<1> USE DEF FederationInv
<1>1. CASE Unlist(k)
  <2>1. NoDevice \in Devices \cup {NoDevice}
    OBVIOUS
  <2> QED  BY <1>1, <2>1, RemovalTypes, UnlistBonds
<1>2. CASE \E d \in Devices \cup {NoDevice} : RemoveEnds(k, d)
  BY <1>2, RemovalTypes, RemoveEndsBonds
<1> QED  BY <1>1, <1>2

LEMMA AsideKeeps == FederationInv /\ Aside => FederationInv'
BY AsideTypes, AsideSame, SameKeepsBonds DEF FederationInv

LEMMA IdleKeeps == FederationInv /\ UNCHANGED vars => FederationInv'
BY DEF FederationInv, LinkTypes, HubTypes, WireTypes, FarTypes, HubBonds, MemberBonds, DeviceAt,
       OpenLinkIsUsed, JoinCodeOnce, OneSocket, vars, hub, ends

LEMMA NextKeeps == FederationInv /\ [Next]_vars => FederationInv'
<1> SUFFICES ASSUME FederationInv, [Next]_vars
             PROVE  FederationInv'
  OBVIOUS
<1>1. CASE Next
  <2>1. CASE \E b \in Boots : Connect(b) \/ Retry(b) \/ Leave(b)
    BY <2>1, MemberStepKeeps
  <2>2. CASE \E c \in Conns : \/ Authenticate(c) \/ Saved(c) \/ MemberOpen(c) \/ HubClosed(c)
                              \/ MemberClosed(c) \/ Cut(c)
    BY <2>2, LinkStepKeeps
  <2>3. CASE \E k \in Tokens : Unlist(k) \/ \E d \in Devices \cup {NoDevice} : RemoveEnds(k, d)
    BY <2>3, RemovalKeeps
  <2>4. CASE Aside
    BY <2>4, AsideKeeps
  <2> QED  BY <1>1, <2>1, <2>2, <2>3, <2>4 DEF Next, LinkStep, Aside
<1>2. CASE UNCHANGED vars
  BY <1>2, IdleKeeps
<1> QED  BY <1>1, <1>2

(* Hub and members agree on the link of every device, however many there    *)
(* are and however often they dial, lose a link, are removed or leave       *)
(* (attach, detach, authenticate, onClose): the invariant LinksAgree.       *)
THEOREM LinksStayAgreed == Spec => []LinksAgree
<1>1. Init => FederationInv
  BY InitTypes, InitBonds DEF FederationInv
<1>2. FederationInv /\ [Next]_vars => FederationInv'
  BY NextKeeps
<1>3. FederationInv => LinksAgree
  BY InvAgrees
<1> QED  BY <1>1, <1>2, <1>3, PTL DEF Spec
-----------------------------------------------------------------------------
(* Streams.  What makes StreamsHold inductive. *)

\* Frames of a page: its opening, and its texts, one way or the other.
IsOpen(f, p) == f.type = "open" /\ f.page = p
IsText(f, p) == f.type = "text" /\ f.text.page = p
About(f, p) == IsOpen(f, p) \/ IsText(f, p)
Offered(c, p) == \E i \in 1..Len(down[c]) : IsOpen(down[c][i], p)

\* The connection a member reads, and the streams it serves there.
Current(c) == conns[c].member \in {"open", "closing"}
Serves(c, s) == Current(c) /\ s \in Streams(conns[c].boot)
Served(c, p) == \E s \in StreamState : s.page = p /\ Serves(c, s)

\* A connection names a stream of a page: in the hub, at the member, or on its way.
OnWire(w, s) == \E i \in 1..Len(w) : w[i].stream = s.stream /\ About(w[i], s.page)
Names(c, s) == s \in sockets[c] \/ Serves(c, s) \/ OnWire(down[c], s) \/ OnWire(up[c], s)

\* The texts of a page on a wire are those from k + 1 to m, in order.
InARow(w, p, k, m) ==
    /\ k <= m
    /\ \A i, j \in 1..Len(w) : i < j /\ IsText(w[i], p) /\ IsText(w[j], p) => w[i].text.nr < w[j].text.nr
    /\ \A i \in 1..Len(w) : IsText(w[i], p) => w[i].text.nr \in k+1..m
    /\ \A n \in k+1..m : \E i \in 1..Len(w) : IsText(w[i], p) /\ w[i].text.nr = n

\* A process reads one connection at a time, and serves nothing before it has one.
ProcessesHold ==
    /\ \A b \in Boots :
         /\ members[b].state = "left" => members[b].socket = 0 /\ ~members[b].timer
         /\ Streams(b) # {} => members[b].state = "left" \/ members[b].socket # 0
    /\ \A c \in Conns :
         /\ conns[c].member = "closing" => members[conns[c].boot].state = "left"
         /\ conns[c].member = "connecting" => Streams(conns[c].boot) = {}
    /\ \A c, e \in Conns :
         conns[c].boot = conns[e].boot /\ Current(c) /\ Current(e) => c = e

\* A number of a connection stands for one page, and the page has no other.
NamesHold ==
    \A c \in Conns : \A s \in StreamState :
      Names(c, s) =>
        /\ s.stream < conns[c].next /\ pages[s.page].conn = c
        /\ \A t \in StreamState : Names(c, t) /\ (s.stream = t.stream \/ s.page = t.page) => s = t

PageSide(p) ==
    /\ pages[p].state = "new" => pages[p].conn = 0 /\ pages[p].sent = 0 /\ pages[p].got = <<>>
    /\ pages[p].conn # 0 => conns[pages[p].conn].hub \in {"open", "closing", "closed"}
    /\ InOrder(pages[p].got, p)

LocalSide(p) ==
    /\ InOrder(locals[p].got, p) /\ InOrder(locals[p].early, p) /\ (locals[p].got = <<>> \/ locals[p].early = <<>>)
    /\ locals[p].state \in {"none", "opening"} => locals[p].got = <<>>
    /\ locals[p].state \in {"none", "open"} => locals[p].early = <<>>
    /\ locals[p].state = "open" =>
         members[locals[p].boot].state = "left" \/ \E s \in Streams(locals[p].boot) : s.page = p
    /\ \A b \in Boots : \A s, t \in Streams(b) :
         s.page = p =>
           /\ locals[p].boot = b /\ locals[p].state \in {"opening", "open"}
           /\ t.page = p => s = t

\* What is offered is new to the member, and comes before what its page sends.
OpensFirst(w, p) == \A i, j \in 1..Len(w) : IsOpen(w[i], p) /\ About(w[j], p) => i <= j
NoText(w, p) == \A i \in 1..Len(w) : ~IsText(w[i], p)
OfferSide(p) ==
    /\ \A c \in Conns : OpensFirst(down[c], p) /\ (Offered(c, p) => locals[p].state = "none")
    /\ pages[p].conn = 0 => locals[p].state = "none"
    /\ locals[p].state = "none" =>
         pages[p].got = <<>> /\ locals[p].sent = 0 /\ \A c \in Conns : NoText(up[c], p)

\* What a page has sent is what its local socket got and what is on its way, while the stream lives;
Got(p) == Len(locals[p].got) + Len(locals[p].early)
DownLane(c, p) ==
    Served(c, p) \/ Offered(c, p) =>
      \E m \in Nat : InARow(down[c], p, Got(p), m) /\ (conns[c].hub = "open" => m = pages[p].sent)
\* and the other way round.
UpLane(c, p) ==
    Relayed(c, p) =>
      \E m \in Nat : /\ InARow(up[c], p, Len(pages[p].got), m)
                     /\ Served(c, p) /\ conns[c].member = "open" => m = locals[p].sent

PageInv(p) ==
    /\ PageSide(p) /\ LocalSide(p) /\ OfferSide(p)
    /\ \A c \in Conns : pages[p].conn = c => DownLane(c, p) /\ UpLane(c, p)
StreamsInv == ProcessesHold /\ NamesHold /\ \A p \in Pages : PageInv(p)

-----------------------------------------------------------------------------
(* Wires, as a page sees them. *)

\* What v says of the page w said too; and no text of the page is lost; w may have lost its head.
Fewer(w, v, p) ==
    \E d \in {0, 1} : \A i \in 1..Len(v) : About(v[i], p) => i + d \in 1..Len(w) /\ w[i + d] = v[i]
Kept(w, v, p) ==
    \E d \in {0, 1} : \A j \in 1..Len(w) : IsText(w[j], p) => j - d \in 1..Len(v) /\ v[j - d] = w[j]

LEMMA SameWire ==
    ASSUME NEW w \in Seq(FrameState), NEW p
    PROVE  Fewer(w, w, p) /\ Kept(w, w, p)
<1>1. Len(w) \in Nat
  BY LenProperties
<1>2. /\ \A i \in 1..Len(w) : i + 0 \in 1..Len(w) /\ w[i + 0] = w[i]
      /\ \A j \in 1..Len(w) : j - 0 \in 1..Len(w) /\ w[j - 0] = w[j]
  BY <1>1
<1> QED
  BY <1>2 DEF Fewer, Kept

LEMMA LongerWire ==
    ASSUME NEW w \in Seq(FrameState), NEW f \in FrameState, NEW p
    PROVE  Kept(w, Append(w, f), p) /\ (~About(f, p) => Fewer(w, Append(w, f), p))
<1> DEFINE v == Append(w, f)
<1>1. Len(w) \in Nat /\ Len(v) = Len(w) + 1 /\ v[Len(w) + 1] = f /\ \A i \in 1..Len(w) : v[i] = w[i]
  BY AppendProperties, LenProperties
<1> HIDE DEF v
<1>2. ASSUME ~About(f, p)
      PROVE  \A i \in 1..Len(v) : About(v[i], p) => i + 0 \in 1..Len(w) /\ w[i + 0] = v[i]
  <2> SUFFICES ASSUME NEW i \in 1..Len(v), About(v[i], p)
               PROVE  i + 0 \in 1..Len(w) /\ w[i + 0] = v[i]
    OBVIOUS
  <2>1. i # Len(w) + 1
    BY <1>1, <1>2
  <2> QED
    BY <1>1, <2>1
<1>3. \A j \in 1..Len(w) : j - 0 \in 1..Len(v) /\ v[j - 0] = w[j]
  BY <1>1
<1>4. Kept(w, v, p) /\ (~About(f, p) => Fewer(w, v, p))
  BY <1>2, <1>3 DEF Fewer, Kept
<1> QED
  BY <1>4 DEF v

LEMMA TailParts ==
    ASSUME NEW w \in Seq(FrameState), w # <<>>
    PROVE  /\ Tail(w) \in Seq(FrameState) /\ Len(w) \in Nat /\ Len(w) >= 1 /\ Len(Tail(w)) = Len(w) - 1
           /\ Head(w) = w[1] /\ Head(w) \in FrameState
           /\ \A i \in 1..Len(Tail(w)) : i + 1 \in 1..Len(w) /\ Tail(w)[i] = w[i + 1]
           /\ \A j \in 1..Len(w) : j # 1 => j - 1 \in 1..Len(Tail(w)) /\ Tail(w)[j - 1] = w[j]
<1>1. /\ Tail(w) \in Seq(FrameState) /\ Len(w) \in Nat \ {0} /\ Len(Tail(w)) = Len(w) - 1
      /\ Head(w) \in FrameState
      /\ \A i \in 1..Len(Tail(w)) : Tail(w)[i] = w[i + 1]
  BY HeadTailProperties, EmptySeq
<1>2. Head(w) = w[1]
  BY DEF Head
<1> DEFINE t == Tail(w)
<1> HIDE DEF t
<1>3. t \in Seq(FrameState) /\ Len(t) = Len(w) - 1 /\ \A i \in 1..Len(t) : t[i] = w[i + 1]
  BY <1>1 DEF t
<1>4. /\ \A i \in 1..Len(t) : i + 1 \in 1..Len(w) /\ t[i] = w[i + 1]
      /\ \A j \in 1..Len(w) : j # 1 => j - 1 \in 1..Len(t) /\ t[j - 1] = w[j]
  <2>1. \A i \in 1..Len(t) : i + 1 \in 1..Len(w)
    BY <1>1, <1>3
  <2>2. ASSUME NEW j \in 1..Len(w), j # 1
        PROVE  j - 1 \in 1..Len(t) /\ t[j - 1] = w[j]
    <3>1. j - 1 \in 1..Len(t) /\ (j - 1) + 1 = j
      BY <1>1, <1>3, <2>2
    <3> QED
      BY <1>3, <3>1
  <2> QED
    BY <1>3, <2>1, <2>2
<1> QED
  BY <1>1, <1>2, <1>4 DEF t

LEMMA ShorterWire ==
    ASSUME NEW w \in Seq(FrameState), w # <<>>, NEW p
    PROVE  Fewer(w, Tail(w), p) /\ (~IsText(Head(w), p) => Kept(w, Tail(w), p))
<1> DEFINE v == Tail(w)
<1>1. /\ w[1] = Head(w)
      /\ \A i \in 1..Len(v) : i + 1 \in 1..Len(w) /\ w[i + 1] = v[i]
      /\ \A j \in 1..Len(w) : j # 1 => j - 1 \in 1..Len(v) /\ v[j - 1] = w[j]
  BY TailParts
<1>2. ~IsText(Head(w), p) => \A j \in 1..Len(w) : IsText(w[j], p) => j # 1
  BY <1>1
<1> HIDE DEF v
<1>3. Fewer(w, v, p) /\ (~IsText(Head(w), p) => Kept(w, v, p))
  BY <1>1, <1>2 DEF Fewer, Kept
<1> QED
  BY <1>3 DEF v

\* The texts of a page stay in a row when none comes and none is lost.
LEMMA RowKept ==
    ASSUME NEW w \in Seq(FrameState), NEW v \in Seq(FrameState), NEW p, Fewer(w, v, p), Kept(w, v, p),
           NEW k \in Nat, NEW m \in Nat, InARow(w, p, k, m)
    PROVE  InARow(v, p, k, m)
<1>1. PICK d \in {0, 1} : \A i \in 1..Len(v) : About(v[i], p) => i + d \in 1..Len(w) /\ w[i + d] = v[i]
  BY DEF Fewer
<1>2. Len(v) \in Nat /\ Len(w) \in Nat
  BY LenProperties
<1>3. \A i \in 1..Len(v) : IsText(v[i], p) => i + d \in 1..Len(w) /\ w[i + d] = v[i]
  BY <1>1 DEF About
<1>4. \A j \in 1..Len(w) : IsText(w[j], p) => \E i \in 1..Len(v) : v[i] = w[j]
  BY DEF Kept
<1>5. ASSUME NEW i \in 1..Len(v), NEW j \in 1..Len(v), i < j, IsText(v[i], p), IsText(v[j], p)
      PROVE  v[i].text.nr < v[j].text.nr
  <2>1. i + d < j + d
    BY <1>2, <1>5
  <2> QED
    BY <1>3, <1>5, <2>1 DEF InARow
<1>6. \A i \in 1..Len(v) : IsText(v[i], p) => v[i].text.nr \in k+1..m
  BY <1>3 DEF InARow
<1>7. ASSUME NEW n \in k+1..m
      PROVE  \E i \in 1..Len(v) : IsText(v[i], p) /\ v[i].text.nr = n
  <2>1. PICK j \in 1..Len(w) : IsText(w[j], p) /\ w[j].text.nr = n
    BY DEF InARow
  <2> QED
    BY <1>4, <2>1
<1> QED
  BY <1>5, <1>6, <1>7 DEF InARow

\* What else a page sees of a wire that says no more of it.
LEMMA FewerSeen ==
    ASSUME NEW w \in Seq(FrameState), NEW v \in Seq(FrameState), NEW p, Fewer(w, v, p)
    PROVE  /\ OpensFirst(w, p) => OpensFirst(v, p)
           /\ NoText(w, p) => NoText(v, p)
           /\ (\E i \in 1..Len(v) : IsOpen(v[i], p)) => \E i \in 1..Len(w) : IsOpen(w[i], p)
           /\ \A s \in StreamState : s.page = p /\ OnWire(v, s) => OnWire(w, s)
<1>1. PICK d \in {0, 1} : \A i \in 1..Len(v) : About(v[i], p) => i + d \in 1..Len(w) /\ w[i + d] = v[i]
  BY DEF Fewer
<1>2. Len(v) \in Nat /\ Len(w) \in Nat
  BY LenProperties
<1>3. ASSUME OpensFirst(w, p)
      PROVE  OpensFirst(v, p)
  <2> SUFFICES ASSUME NEW i \in 1..Len(v), NEW j \in 1..Len(v), IsOpen(v[i], p), About(v[j], p)
               PROVE  i <= j
    BY DEF OpensFirst
  <2>1. i + d \in 1..Len(w) /\ j + d \in 1..Len(w) /\ w[i + d] = v[i] /\ w[j + d] = v[j]
    BY <1>1 DEF About
  <2>2. i + d <= j + d
    BY <1>3, <2>1 DEF OpensFirst
  <2> QED
    BY <1>2, <2>2
<1>4. NoText(w, p) => NoText(v, p)
  BY <1>1 DEF NoText, About
<1>5. (\E i \in 1..Len(v) : IsOpen(v[i], p)) => \E i \in 1..Len(w) : IsOpen(w[i], p)
  BY <1>1 DEF About
<1>6. \A s \in StreamState : s.page = p /\ OnWire(v, s) => OnWire(w, s)
  BY <1>1 DEF OnWire
<1> QED
  BY <1>3, <1>4, <1>5, <1>6

\* The text that is read is the next one, and the rest follow it.
LEMMA TextRead ==
    ASSUME NEW w \in Seq(FrameState), w # <<>>, NEW p, IsText(Head(w), p),
           NEW k \in Nat, NEW m \in Nat, InARow(w, p, k, m)
    PROVE  Head(w).text.nr = k + 1 /\ InARow(Tail(w), p, k + 1, m)
<1> DEFINE v == Tail(w)
<1>1. /\ Len(w) \in Nat /\ Len(w) >= 1 /\ Len(v) = Len(w) - 1 /\ w[1] = Head(w) /\ 1 \in 1..Len(w)
      /\ \A i \in 1..Len(v) : i + 1 \in 1..Len(w) /\ v[i] = w[i + 1]
      /\ \A j \in 1..Len(w) : j # 1 => j - 1 \in 1..Len(v) /\ v[j - 1] = w[j]
  BY TailParts
<1> HIDE DEF v
<1>2. IsText(w[1], p) /\ w[1].text.nr \in k+1..m
  BY <1>1 DEF InARow
<1>3. w[1].text.nr = k + 1
  <2>1. PICK i \in 1..Len(w) : IsText(w[i], p) /\ w[i].text.nr = k + 1
    <3>1. k + 1 \in k+1..m
      BY <1>2
    <3> QED
      BY <3>1 DEF InARow
  <2>2. CASE i = 1
    BY <2>1, <2>2
  <2>3. CASE i # 1
    <3>1. 1 < i
      BY <1>1, <2>3
    <3>2. w[1].text.nr < w[i].text.nr
      BY <1>1, <1>2, <2>1, <3>1 DEF InARow
    <3> QED
      BY <1>2, <2>1, <3>2
  <2> QED
    BY <2>2, <2>3
<1>4. k + 1 <= m
  BY <1>2
<1>5. ASSUME NEW i \in 1..Len(v), NEW j \in 1..Len(v), i < j, IsText(v[i], p), IsText(v[j], p)
      PROVE  v[i].text.nr < v[j].text.nr
  <2>1. i + 1 < j + 1
    BY <1>1, <1>5
  <2> QED
    BY <1>1, <1>5, <2>1 DEF InARow
<1>6. ASSUME NEW i \in 1..Len(v), IsText(v[i], p)
      PROVE  v[i].text.nr \in (k+1)+1..m
  <2>1. i + 1 \in 1..Len(w) /\ v[i] = w[i + 1] /\ 1 < i + 1
    BY <1>1
  <2>2. w[1].text.nr < v[i].text.nr /\ v[i].text.nr \in k+1..m
    BY <1>1, <1>2, <1>6, <2>1 DEF InARow
  <2> QED
    BY <1>3, <2>2
<1>7. ASSUME NEW n \in (k+1)+1..m
      PROVE  \E i \in 1..Len(v) : IsText(v[i], p) /\ v[i].text.nr = n
  <2>1. n \in k+1..m /\ n # k + 1
    OBVIOUS
  <2>2. PICK j \in 1..Len(w) : IsText(w[j], p) /\ w[j].text.nr = n
    BY <2>1 DEF InARow
  <2>3. j # 1
    BY <1>3, <2>1, <2>2
  <2> QED
    BY <1>1, <2>2, <2>3
<1>8. InARow(v, p, k + 1, m)
  BY <1>4, <1>5, <1>6, <1>7 DEF InARow
<1> QED
  BY <1>1, <1>3, <1>8 DEF v

\* A text that is sent is the one after those on their way.
LEMMA TextSent ==
    ASSUME NEW w \in Seq(FrameState), NEW f \in FrameState, NEW p, IsText(f, p),
           NEW k \in Nat, NEW m \in Nat, InARow(w, p, k, m), f.text.nr = m + 1
    PROVE  InARow(Append(w, f), p, k, m + 1)
<1> DEFINE v == Append(w, f)
<1>1. Len(w) \in Nat /\ Len(v) = Len(w) + 1 /\ v[Len(w) + 1] = f /\ \A i \in 1..Len(w) : v[i] = w[i]
  BY AppendProperties, LenProperties
<1> HIDE DEF v
<1>2. \A i \in 1..Len(v) : i \in 1..Len(w) \/ i = Len(w) + 1
  BY <1>1
<1>3. ASSUME NEW i \in 1..Len(v), NEW j \in 1..Len(v), i < j, IsText(v[i], p), IsText(v[j], p)
      PROVE  v[i].text.nr < v[j].text.nr
  <2>1. i \in 1..Len(w)
    BY <1>1, <1>2, <1>3
  <2>2. v[i] = w[i] /\ w[i].text.nr \in k+1..m
    BY <1>1, <1>3, <2>1 DEF InARow
  <2>3. CASE j \in 1..Len(w)
    BY <1>1, <1>3, <2>1, <2>3 DEF InARow
  <2>4. CASE j = Len(w) + 1
    BY <1>1, <2>2, <2>4
  <2> QED
    BY <1>2, <2>3, <2>4
<1>4. \A i \in 1..Len(v) : IsText(v[i], p) => v[i].text.nr \in k+1..m+1
  <2> SUFFICES ASSUME NEW i \in 1..Len(v), IsText(v[i], p)
               PROVE  v[i].text.nr \in k+1..m+1
    OBVIOUS
  <2>1. CASE i \in 1..Len(w)
    <3>1. v[i] = w[i] /\ w[i].text.nr \in k+1..m
      BY <1>1, <2>1 DEF InARow
    <3> QED
      BY <3>1
  <2>2. CASE i = Len(w) + 1
    <3>1. k <= m
      BY DEF InARow
    <3> QED
      BY <1>1, <2>2, <3>1
  <2> QED
    BY <1>2, <2>1, <2>2
<1>5. ASSUME NEW n \in k+1..m+1
      PROVE  \E i \in 1..Len(v) : IsText(v[i], p) /\ v[i].text.nr = n
  <2>1. CASE n = m + 1
    <3>1. Len(w) + 1 \in 1..Len(v)
      BY <1>1
    <3> QED
      BY <1>1, <2>1, <3>1
  <2>2. CASE n # m + 1
    <3>1. n \in k+1..m
      BY <2>2
    <3>2. PICK i \in 1..Len(w) : IsText(w[i], p) /\ w[i].text.nr = n
      BY <3>1 DEF InARow
    <3>3. i \in 1..Len(v) /\ v[i] = w[i]
      BY <1>1
    <3> QED
      BY <3>2, <3>3
  <2> QED
    BY <2>1, <2>2
<1>6. k <= m + 1
  BY DEF InARow
<1>7. InARow(v, p, k, m + 1)
  BY <1>3, <1>4, <1>5, <1>6 DEF InARow
<1> QED
  BY <1>7 DEF v

-----------------------------------------------------------------------------
(* Steps that leave a page aside. *)

\* What every step does to the links.
LinksMove ==
    \A c \in Conns :
      /\ conns[c].member # "none" => conns'[c].boot = conns[c].boot /\ conns'[c].next >= conns[c].next
      /\ conns[c].hub \in {"open", "closing", "closed"} => conns'[c].hub \in {"open", "closing", "closed"}
      /\ conns'[c].hub = "open" => conns[c].hub \in {"none", "saving", "open"}
      /\ conns'[c].member = "open" => conns[c].member \in {"connecting", "open"}
      /\ conns'[c].member = "closing" => conns[c].member \in {"open", "closing"}

\* Nothing of the page is sent or delivered; at the most, its streams end.
HubAside(p) ==
    /\ pages'[p].conn = pages[p].conn /\ pages'[p].sent = pages[p].sent /\ pages'[p].got = pages[p].got
    /\ pages'[p].state = "new" => pages[p].state = "new"
    /\ \A c \in Conns : \A s \in sockets'[c] : s.page = p => s \in sockets[c]
FarAside(p) ==
    /\ locals'[p].got = locals[p].got /\ locals'[p].early = locals[p].early
    /\ locals'[p].sent = locals[p].sent /\ locals'[p].boot = locals[p].boot
    /\ \A b \in Boots : \A s \in members'[b].streams : s.page = p => s \in Streams(b)
    /\ \/ locals'[p].state = locals[p].state
       \/ /\ locals[p].state \in {"opening", "open"} /\ locals'[p].state = "closed"
          /\ \A b \in Boots : \A s \in members'[b].streams : s.page # p
    /\ locals'[p].state = "open" =>
         \/ members'[locals[p].boot].state = "left"
         \/ \E s \in members'[locals[p].boot].streams : s.page = p
NoFrame(p) == \A c \in Conns : Fewer(down[c], down'[c], p) /\ Fewer(up[c], up'[c], p)
NoLoss(p) ==
    \A c \in Conns :
      pages[p].conn = c =>
        /\ Served(c, p)' \/ Offered(c, p)' => Kept(down[c], down'[c], p)
        /\ Relayed(c, p)' => Kept(up[c], up'[c], p)
Untouched(p) == HubAside(p) /\ FarAside(p) /\ NoFrame(p) /\ NoLoss(p)

LEMMA ConnTyped ==
    ASSUME LinkTypes, NEW c \in Conns
    PROVE  /\ down[c] \in Seq(FrameState) /\ up[c] \in Seq(FrameState) /\ sockets[c] \subseteq StreamState
           /\ conns[c] \in ConnState /\ conns[c].next \in Nat
           /\ conns[c].boot \in Boots /\ Streams(conns[c].boot) \subseteq StreamState
<1>1. down[c] \in Seq(FrameState) /\ up[c] \in Seq(FrameState)
  BY DEF LinkTypes, WireTypes, Wires
<1>2. sockets[c] \subseteq StreamState /\ conns[c] \in ConnState
  BY DEF LinkTypes, HubTypes
<1>3. conns[c].next \in Nat /\ conns[c].boot \in Boots
  BY <1>2 DEF ConnState
<1>4. members[conns[c].boot] \in MemberState
  BY <1>3 DEF LinkTypes, FarTypes
<1> QED
  BY <1>1, <1>2, <1>3, <1>4 DEF MemberState, Streams

LEMMA PageTyped ==
    ASSUME LinkTypes, NEW p \in Pages
    PROVE  /\ pages[p] \in PageState /\ pages[p].sent \in Nat /\ pages[p].got \in Seq(TextState)
           /\ Len(pages[p].got) \in Nat
           /\ pages[p].conn # 0 => pages[p].conn \in Conns
           /\ locals[p] \in LocalState /\ locals[p].boot \in Boots /\ locals[p].sent \in Nat
           /\ locals[p].got \in Seq(TextState) /\ locals[p].early \in Seq(TextState)
           /\ Len(locals[p].got) \in Nat /\ Len(locals[p].early) \in Nat /\ Got(p) \in Nat
<1>1. pages[p] \in PageState /\ locals[p] \in LocalState
  BY DEF LinkTypes, HubTypes, FarTypes
<1>2. /\ pages[p].sent \in Nat /\ pages[p].got \in Seq(TextState) /\ pages[p].conn \in 0..MaxConns
      /\ locals[p].boot \in Boots /\ locals[p].sent \in Nat
      /\ locals[p].got \in Seq(TextState) /\ locals[p].early \in Seq(TextState)
  BY <1>1 DEF PageState, LocalState
<1>3. Len(pages[p].got) \in Nat /\ Len(locals[p].got) \in Nat /\ Len(locals[p].early) \in Nat
  BY <1>2, LenProperties
<1>4. pages[p].conn # 0 => pages[p].conn \in Conns
  BY <1>2, FederationAssumption DEF Conns
<1>5. Got(p) \in Nat
  <2>1. \A i, j \in Nat : i + j \in Nat
    OBVIOUS
  <2> QED
    BY <1>3, <2>1, Zenon DEF Got
<1> QED
  BY <1>1, <1>2, <1>3, <1>4, <1>5

LEMMA BootParts ==
    ASSUME LinkTypes, NEW b \in Boots
    PROVE  members[b] \in MemberState /\ Streams(b) \subseteq StreamState /\ (members[b].socket # 0 => members[b].socket \in Conns)
<1>1. members[b] \in MemberState
  BY DEF LinkTypes, FarTypes
<1> QED
  BY <1>1, FederationAssumption DEF MemberState, Streams, Conns

\* What is named has a page, and so a link that is in use or was.
LEMMA NamedInUse ==
    ASSUME FederationInv, StreamsInv, NEW c \in Conns, NEW s \in StreamState, Names(c, s)
    PROVE  /\ s.page \in Pages /\ s.stream \in Nat /\ pages[s.page].conn = c
           /\ conns[c].hub \in {"open", "closing", "closed"} /\ conns[c].member # "none"
<1>1. s.page \in Pages /\ s.stream \in Nat
  BY DEF StreamState
<1>2. pages[s.page].conn = c
  BY DEF StreamsInv, NamesHold
<1>3. conns[c].hub \in {"open", "closing", "closed"}
  BY <1>1, <1>2, ConnIsNotZero DEF StreamsInv, PageInv, PageSide
<1> QED
  BY <1>1, <1>2, <1>3 DEF FederationInv, HubBonds

\* Names stay what they are when none is added.
LEMMA NamesKept ==
    ASSUME FederationInv, FederationInv', StreamsInv, LinksMove,
           \A p \in Pages : pages'[p].conn = pages[p].conn,
           \A c \in Conns : \A s \in StreamState : Names(c, s)' => Names(c, s)
    PROVE  NamesHold'
<1> SUFFICES ASSUME NEW c \in Conns, NEW s \in StreamState, Names(c, s)'
             PROVE  /\ s.stream < conns'[c].next /\ pages'[s.page].conn = c
                    /\ \A t \in StreamState : Names(c, t)' /\ (s.stream = t.stream \/ s.page = t.page) => s = t
  BY DEF NamesHold
<1>1. Names(c, s)
  OBVIOUS
<1>2. /\ s.page \in Pages /\ s.stream \in Nat /\ conns[c].member # "none"
      /\ s.stream < conns[c].next /\ pages[s.page].conn = c
  BY <1>1, NamedInUse DEF StreamsInv, NamesHold
<1>3. conns[c].next \in Nat /\ conns'[c].next \in Nat /\ conns'[c].next >= conns[c].next
  <2>1. conns[c].next \in Nat
    BY ConnTyped DEF FederationInv
  <2>2. LinkTypes'
    BY DEF FederationInv
  <2>3. conns'[c] \in ConnState
    BY <2>2 DEF LinkTypes, HubTypes
  <2> QED
    BY <1>2, <2>1, <2>3 DEF ConnState, LinksMove
<1>4. s.stream < conns'[c].next
  BY <1>2, <1>3
<1>5. \A t \in StreamState : Names(c, t)' /\ (s.stream = t.stream \/ s.page = t.page) => s = t
  BY <1>1 DEF StreamsInv, NamesHold
<1> QED
  BY <1>2, <1>4, <1>5

\* What a member serves of a page it served before.
LEMMA ServedBefore ==
    ASSUME FederationInv, StreamsInv, LinksMove, NEW p \in Pages,
           \A b \in Boots : \A s \in members'[b].streams : s.page = p => s \in Streams(b),
           NEW c \in Conns, NEW s \in StreamState, s.page = p, Serves(c, s)'
    PROVE  Serves(c, s)
<1>1. conns'[c].member \in {"open", "closing"} /\ s \in members'[conns'[c].boot].streams
  BY DEF Serves, Current, Streams
<1>2. conns[c].member \in {"connecting", "open", "closing"}
  BY <1>1 DEF LinksMove
<1>3. conns'[c].boot = conns[c].boot /\ conns[c].boot \in Boots
  BY <1>2, BootTyped DEF LinksMove, FederationInv
<1>4. s \in Streams(conns[c].boot)
  BY <1>1, <1>3
<1>5. conns[c].member # "connecting"
  BY <1>4 DEF StreamsInv, ProcessesHold
<1> QED
  BY <1>2, <1>4, <1>5 DEF Serves, Current

\* No name of the page is new.
NoName(p) == \A c \in Conns : \A s \in StreamState : s.page = p /\ Names(c, s)' => Names(c, s)

LEMMA WiresTyped ==
    ASSUME FederationInv, FederationInv', NEW c \in Conns
    PROVE  /\ down[c] \in Seq(FrameState) /\ up[c] \in Seq(FrameState)
           /\ down'[c] \in Seq(FrameState) /\ up'[c] \in Seq(FrameState)
BY DEF FederationInv, LinkTypes, WireTypes, Wires

LEMMA NamesAfter ==
    ASSUME NEW c \in Conns, NEW s \in StreamState
    PROVE  Names(c, s)' <=> s \in sockets'[c] \/ Serves(c, s)' \/ OnWire(down'[c], s) \/ OnWire(up'[c], s)
BY DEF Names, OnWire, About, IsOpen, IsText

LEMMA UntouchedNames ==
    ASSUME FederationInv, FederationInv', StreamsInv, LinksMove, NEW p \in Pages,
           \A b \in Boots : \A s \in members'[b].streams : s.page = p => s \in Streams(b),
           \A c \in Conns : \A s \in sockets'[c] : s.page = p => s \in sockets[c], NoFrame(p)
    PROVE  NoName(p)
<1> SUFFICES ASSUME NEW c \in Conns, NEW s \in StreamState, s.page = p, Names(c, s)'
             PROVE  Names(c, s)
  BY DEF NoName
<1>1. CASE s \in sockets'[c]
  BY <1>1 DEF Names
<1>2. CASE Serves(c, s)'
  <2>1. Serves(c, s)
    BY <1>2, ServedBefore
  <2> QED
    BY <2>1 DEF Names
<1>3. CASE OnWire(down'[c], s)
  <2>1. Fewer(down[c], down'[c], p)
    BY DEF NoFrame
  <2>2. OnWire(down[c], s)
    BY <1>3, <2>1, WiresTyped, FewerSeen
  <2> QED
    BY <2>2 DEF Names
<1>4. CASE OnWire(up'[c], s)
  <2>1. Fewer(up[c], up'[c], p)
    BY DEF NoFrame
  <2>2. OnWire(up[c], s)
    BY <1>4, <2>1, WiresTyped, FewerSeen
  <2> QED
    BY <2>2 DEF Names
<1> QED
  BY <1>1, <1>2, <1>3, <1>4, NamesAfter

LEMMA PageSideKept ==
    ASSUME FederationInv, StreamsInv, LinksMove, NEW p \in Pages, HubAside(p)
    PROVE  PageSide(p)'
<1>1. PageSide(p)
  BY DEF StreamsInv, PageInv
<1>2. pages[p].conn # 0 => pages[p].conn \in Conns
  BY PageTyped DEF FederationInv
<1>3. pages[p].conn # 0 => conns'[pages[p].conn].hub \in {"open", "closing", "closed"}
  BY <1>1, <1>2 DEF PageSide, LinksMove
<1> QED
  BY <1>1, <1>3 DEF PageSide, HubAside

LEMMA LocalSideKept ==
    ASSUME StreamsInv, NEW p \in Pages, FarAside(p)
    PROVE  LocalSide(p)'
<1>1. LocalSide(p)
  BY DEF StreamsInv, PageInv
<1>2. \A b \in Boots : \A s, t \in members'[b].streams :
         s.page = p =>
           /\ locals'[p].boot = b /\ locals'[p].state \in {"opening", "open"}
           /\ t.page = p => s = t
  BY <1>1 DEF LocalSide, FarAside
<1>3. locals'[p].state = "open" =>
       members'[locals'[p].boot].state = "left" \/ \E s \in members'[locals'[p].boot].streams : s.page = p
  BY DEF FarAside
<1>4. /\ locals'[p].got = locals[p].got /\ locals'[p].early = locals[p].early
      /\ locals'[p].state = locals[p].state \/ locals'[p].state = "closed"
  BY DEF FarAside
<1> QED
  BY <1>1, <1>2, <1>3, <1>4 DEF LocalSide, Streams

LEMMA OfferedBefore ==
    ASSUME FederationInv, FederationInv', NEW p \in Pages, NEW c \in Conns, Fewer(down[c], down'[c], p), Offered(c, p)'
    PROVE  Offered(c, p)
<1>1. (\E i \in 1..Len(down'[c]) : IsOpen(down'[c][i], p)) => \E i \in 1..Len(down[c]) : IsOpen(down[c][i], p)
  BY WiresTyped, FewerSeen
<1> QED
  BY <1>1 DEF Offered, IsOpen

LEMMA OfferSideKept ==
    ASSUME FederationInv, FederationInv', StreamsInv, NEW p \in Pages, NoFrame(p),
           pages'[p].conn = pages[p].conn, pages'[p].got = pages[p].got, locals'[p].sent = locals[p].sent,
           locals'[p].state = "none" <=> locals[p].state = "none"
    PROVE  OfferSide(p)'
<1>1. OfferSide(p)
  BY DEF StreamsInv, PageInv
<1>2. \A c \in Conns : OpensFirst(down'[c], p)
  BY <1>1, WiresTyped, FewerSeen DEF NoFrame, OfferSide
<1>3. \A c \in Conns : Offered(c, p)' => locals'[p].state = "none"
  BY <1>1, OfferedBefore DEF NoFrame, OfferSide
<1>4. locals'[p].state = "none" =>
        pages'[p].got = <<>> /\ locals'[p].sent = 0 /\ \A c \in Conns : NoText(up'[c], p)
  BY <1>1, WiresTyped, FewerSeen DEF NoFrame, OfferSide
<1>5. pages'[p].conn = 0 => locals'[p].state = "none"
  BY <1>1 DEF OfferSide
<1> QED
  BY <1>2, <1>3, <1>4, <1>5 DEF OfferSide, OpensFirst, NoText, About, IsOpen, IsText

LEMMA ServedPage ==
    ASSUME FederationInv, StreamsInv, LinksMove, NEW p \in Pages, NEW c \in Conns, Served(c, p)',
           \A b \in Boots : \A s \in members'[b].streams : s.page = p => s \in Streams(b)
    PROVE  Served(c, p) /\ (conns'[c].member = "open" => conns[c].member = "open")
<1>1. PICK s \in StreamState : s.page = p /\ Serves(c, s)'
  BY DEF Served
<1>2. Serves(c, s)
  BY <1>1, ServedBefore
<1>3. conns'[c].member = "open" => conns[c].member = "open"
  BY <1>2 DEF LinksMove, Serves, Current
<1> QED
  BY <1>1, <1>2, <1>3 DEF Served

LEMMA DownLaneKept ==
    ASSUME FederationInv, FederationInv', StreamsInv, LinksMove, NEW p \in Pages, NEW c \in Conns, pages[p].conn = c,
           Fewer(down[c], down'[c], p), Served(c, p)' \/ Offered(c, p)' => Kept(down[c], down'[c], p),
           \A b \in Boots : \A s \in members'[b].streams : s.page = p => s \in Streams(b),
           Got(p)' = Got(p), pages'[p].sent = pages[p].sent
    PROVE  DownLane(c, p)'
<1>1. LinkTypes /\ PageInv(p) /\ Got(p) \in Nat
  BY PageTyped DEF FederationInv, StreamsInv
<1>2. conns'[c].hub = "open" => conns[c].hub = "open"
  BY <1>1, ConnIsNotZero DEF PageInv, PageSide, LinksMove
<1> SUFFICES ASSUME Served(c, p)' \/ Offered(c, p)'
             PROVE  \E m \in Nat : InARow(down[c], p, Got(p), m)' /\ (conns'[c].hub = "open" => m = pages'[p].sent)
  BY DEF DownLane
<1>3. PICK m \in Nat : InARow(down[c], p, Got(p), m) /\ (conns[c].hub = "open" => m = pages[p].sent)
  BY <1>1, ServedPage, OfferedBefore DEF PageInv, DownLane
<1>4. InARow(down'[c], p, Got(p), m)
  BY <1>1, <1>3, WiresTyped, RowKept
<1>5. InARow(down[c], p, Got(p), m)'
  BY <1>4 DEF InARow, IsText
<1> QED
  BY <1>2, <1>3, <1>5

LEMMA UpLaneKept ==
    ASSUME FederationInv, FederationInv', StreamsInv, LinksMove, NEW p \in Pages, NEW c \in Conns, pages[p].conn = c,
           Fewer(up[c], up'[c], p), Relayed(c, p)' => Kept(up[c], up'[c], p),
           \A b \in Boots : \A s \in members'[b].streams : s.page = p => s \in Streams(b),
           \A s \in sockets'[c] : s.page = p => s \in sockets[c],
           pages'[p].got = pages[p].got, locals'[p].sent = locals[p].sent
    PROVE  UpLane(c, p)'
<1> SUFFICES ASSUME Relayed(c, p)'
             PROVE  \E m \in Nat : /\ InARow(up[c], p, Len(pages[p].got), m)'
                                   /\ Served(c, p)' /\ conns'[c].member = "open" => m = locals'[p].sent
  BY DEF UpLane
<1>1. PageInv(p) /\ Len(pages[p].got) \in Nat
  BY PageTyped DEF FederationInv, StreamsInv
<1>2. Relayed(c, p)
  BY DEF Relayed
<1>3. PICK m \in Nat : /\ InARow(up[c], p, Len(pages[p].got), m)
                       /\ Served(c, p) /\ conns[c].member = "open" => m = locals[p].sent
  BY <1>1, <1>2 DEF PageInv, UpLane
<1>4. InARow(up'[c], p, Len(pages[p].got), m)
  BY <1>1, <1>3, WiresTyped, RowKept
<1>5. InARow(up[c], p, Len(pages[p].got), m)'
  BY <1>4 DEF InARow, IsText
<1>6. Served(c, p)' /\ conns'[c].member = "open" => m = locals'[p].sent
  BY <1>3, ServedPage
<1> QED
  BY <1>5, <1>6

LEMMA UntouchedKeeps ==
    ASSUME FederationInv, FederationInv', StreamsInv, LinksMove, NEW p \in Pages, Untouched(p)
    PROVE  PageInv(p)' /\ NoName(p)
<1>1. PageSide(p)' /\ LocalSide(p)'
  BY PageSideKept, LocalSideKept DEF Untouched
<1>2. locals'[p].state = "none" <=> locals[p].state = "none"
  BY DEF Untouched, FarAside
<1>3. OfferSide(p)'
  BY <1>2, OfferSideKept DEF Untouched, HubAside, FarAside
<1>4. NoName(p)
  BY UntouchedNames DEF Untouched, HubAside, FarAside
<1>5. ASSUME NEW c \in Conns, pages'[p].conn = c
      PROVE  DownLane(c, p)' /\ UpLane(c, p)'
  <2>1. pages[p].conn = c /\ Got(p)' = Got(p)
    BY <1>5 DEF Untouched, HubAside, FarAside, Got
  <2>2. DownLane(c, p)'
    BY <2>1, DownLaneKept DEF Untouched, HubAside, FarAside, NoFrame, NoLoss
  <2>3. UpLane(c, p)'
    BY <2>1, UpLaneKept DEF Untouched, HubAside, FarAside, NoFrame, NoLoss
  <2> QED
    BY <2>2, <2>3
<1> QED
  BY <1>1, <1>3, <1>4, <1>5 DEF PageInv

\* A step that touches no page, or one whose part of the invariant it keeps, keeps the pages' part.
PagesKept == NamesHold' /\ \A p \in Pages : PageInv(p)'

LEMMA NoneTouched ==
    ASSUME FederationInv, FederationInv', StreamsInv, LinksMove, \A p \in Pages : Untouched(p)
    PROVE  PagesKept
<1>1. \A p \in Pages : PageInv(p)' /\ NoName(p) /\ pages'[p].conn = pages[p].conn
  BY UntouchedKeeps DEF Untouched, HubAside
<1>2. \A c \in Conns : \A s \in StreamState : Names(c, s)' => Names(c, s)
  BY <1>1 DEF NoName, StreamState
<1> QED
  BY <1>1, <1>2, NamesKept DEF PagesKept

LEMMA OneTouched ==
    ASSUME FederationInv, FederationInv', StreamsInv, LinksMove, NEW p \in Pages, \A q \in Pages \ {p} : Untouched(q),
           PageInv(p)', NoName(p), pages'[p].conn = pages[p].conn
    PROVE  PagesKept
<1>1. \A q \in Pages : PageInv(q)' /\ NoName(q) /\ pages'[q].conn = pages[q].conn
  <2> TAKE q \in Pages
  <2>1. CASE q # p
    BY <2>1, UntouchedKeeps DEF Untouched, HubAside
  <2>2. CASE q = p
    BY <2>2
  <2> QED
    BY <2>1, <2>2
<1>2. \A c \in Conns : \A s \in StreamState : Names(c, s)' => Names(c, s)
  BY <1>1 DEF NoName, StreamState
<1> QED
  BY <1>1, <1>2, NamesKept DEF PagesKept

-----------------------------------------------------------------------------
(* What the steps do, as a page sees it. *)

\* What a wire says of a page names its stream.
LEMMA FrameNames ==
    ASSUME FederationInv, StreamsInv, NEW c \in Conns, NEW w, w = down[c] \/ w = up[c], NEW i \in 1..Len(w),
           NEW p \in Pages, About(w[i], p)
    PROVE  /\ Entry(w[i].stream, p) \in StreamState /\ Names(c, Entry(w[i].stream, p))
           /\ pages[p].conn = c
<1>1. w \in Seq(FrameState)
  BY DEF FederationInv, LinkTypes, WireTypes, Wires
<1>2. w[i] \in FrameState
  BY <1>1, ElementOfSeq
<1>3. w[i].stream \in Nat
  BY <1>2, FrameParts DEF About, IsOpen, IsText
<1> DEFINE s == Entry(w[i].stream, p)
<1>4. s \in StreamState /\ s.stream = w[i].stream /\ s.page = p
  BY <1>3 DEF Entry, StreamState
<1> HIDE DEF s
<1>5. OnWire(w, s)
  BY <1>4 DEF OnWire
<1>6. Names(c, s)
  BY <1>5 DEF Names
<1>7. pages[p].conn = c
  BY <1>4, <1>6 DEF StreamsInv, NamesHold
<1> QED
  BY <1>4, <1>6, <1>7 DEF s

LEMMA HeadNames ==
    ASSUME FederationInv, StreamsInv, NEW c \in Conns, NEW w, w = down[c] \/ w = up[c], w # <<>>,
           NEW p \in Pages, About(Head(w), p)
    PROVE  /\ Entry(Head(w).stream, p) \in StreamState /\ Names(c, Entry(Head(w).stream, p))
           /\ pages[p].conn = c
<1>1. w \in Seq(FrameState)
  BY DEF FederationInv, LinkTypes, WireTypes, Wires
<1>2. 1 \in 1..Len(w) /\ Head(w) = w[1]
  BY <1>1, TailParts
<1> QED
  BY <1>2, FrameNames

LEMMA OneName ==
    ASSUME StreamsInv, NEW c \in Conns, NEW s \in StreamState, NEW t \in StreamState,
           Names(c, s), Names(c, t), s.stream = t.stream \/ s.page = t.page
    PROVE  s = t
BY DEF StreamsInv, NamesHold

LEMMA EntryParts ==
    ASSUME NEW s \in StreamState
    PROVE  s = Entry(s.stream, s.page) /\ s.page \in Pages
BY DEF StreamState, Entry

\* The wires say no more of the page, and lose nothing of it.
QuietDown(p) == \A c \in Conns : Fewer(down[c], down'[c], p) /\ Kept(down[c], down'[c], p)
QuietUp(p) == \A c \in Conns : Fewer(up[c], up'[c], p) /\ Kept(up[c], up'[c], p)

LEMMA QuietWires ==
    ASSUME NEW p, QuietDown(p), QuietUp(p)
    PROVE  NoFrame(p) /\ NoLoss(p)
BY DEF QuietDown, QuietUp, NoFrame, NoLoss

LEMMA DownSame ==
    ASSUME LinkTypes, NEW p, down' = down
    PROVE  QuietDown(p)
<1>1. \A c \in Conns : down[c] \in Seq(FrameState)
  BY DEF LinkTypes, WireTypes, Wires
<1> QED
  BY <1>1, SameWire DEF QuietDown

LEMMA UpSame ==
    ASSUME LinkTypes, NEW p, up' = up
    PROVE  QuietUp(p)
<1>1. \A c \in Conns : up[c] \in Seq(FrameState)
  BY DEF LinkTypes, WireTypes, Wires
<1> QED
  BY <1>1, SameWire DEF QuietUp

\* A frame is sent, to a member or to the hub.
LEMMA HubSent ==
    ASSUME LinkTypes, NEW p, NEW c \in Conns, NEW f \in FrameState, down' = ToMember(c, f)
    PROVE  /\ \A e \in Conns : Kept(down[e], down'[e], p) /\ (e # c => Fewer(down[e], down'[e], p))
           /\ ~About(f, p) => QuietDown(p)
<1>1. down \in [Conns -> Seq(FrameState)]
  BY DEF LinkTypes, WireTypes, Wires
<1>2. \A e \in Conns : down'[e] = down[e] \/ (e = c /\ down'[e] = Append(down[e], f))
  BY <1>1 DEF ToMember
<1>3. \A e \in Conns : down[e] \in Seq(FrameState)
  BY <1>1
<1>4. \A e \in Conns : Kept(down[e], down'[e], p) /\ (e # c \/ ~About(f, p) => Fewer(down[e], down'[e], p))
  BY <1>2, <1>3, SameWire, LongerWire
<1> QED
  BY <1>4 DEF QuietDown

LEMMA MemberSent ==
    ASSUME LinkTypes, NEW p, NEW b \in Boots, NEW f \in FrameState, up' = ToHub(b, f)
    PROVE  /\ \A e \in Conns : Kept(up[e], up'[e], p) /\ (e # members[b].socket => Fewer(up[e], up'[e], p))
           /\ ~About(f, p) => QuietUp(p)
<1> DEFINE c == members[b].socket
<1>1. up \in [Conns -> Seq(FrameState)]
  BY DEF LinkTypes, WireTypes, Wires
<1>2. \A e \in Conns : up'[e] = up[e] \/ (e = c /\ up'[e] = Append(up[e], f))
  BY <1>1 DEF ToHub
<1>3. \A e \in Conns : up[e] \in Seq(FrameState)
  BY <1>1
<1>4. \A e \in Conns : Kept(up[e], up'[e], p) /\ (e # c \/ ~About(f, p) => Fewer(up[e], up'[e], p))
  BY <1>2, <1>3, SameWire, LongerWire
<1> QED
  BY <1>4 DEF QuietUp

LEMMA AnnouncedQuiet ==
    ASSUME LinkTypes, NEW p, NEW cs, NEW lk, NEW reg, down' = Announced(down, cs, lk, reg)
    PROVE  QuietDown(p)
<1> DEFINE f == DirectoryFrame(Directory(reg, lk))
<1>1. f \in FrameState /\ ~About(f, p)
  <2>1. Directory(reg, lk) \in SUBSET Devices
    BY DEF Directory
  <2>2. f \in FrameState
    BY <2>1, FramesMade
  <2> QED
    BY <2>2 DEF DirectoryFrame, About, IsOpen, IsText
<1>2. \A e \in Conns : down[e] \in Seq(FrameState)
  BY DEF LinkTypes, WireTypes, Wires
<1>3. \A e \in Conns : down'[e] = down[e] \/ down'[e] = Append(down[e], f)
  BY DEF Announced
<1> HIDE DEF f
<1> QED
  BY <1>1, <1>2, <1>3, SameWire, LongerWire DEF QuietDown

\* A frame is read, by a member or by the hub.
LEMMA MemberRead ==
    ASSUME LinkTypes, NEW p, NEW c \in Conns, NEW type, MemberReads(c, type)
    PROVE  /\ down[c] # <<>> /\ Current(c) /\ down' = [down EXCEPT ![c] = Tail(@)] /\ down'[c] = Tail(down[c])
           /\ \A e \in Conns : Fewer(down[e], down'[e], p) /\ (e # c => Kept(down[e], down'[e], p))
           /\ ~IsText(Head(down[c]), p) => QuietDown(p)
<1>1. down \in [Conns -> Seq(FrameState)] /\ down[c] # <<>> /\ down' = [down EXCEPT ![c] = Tail(@)] /\ Current(c)
  BY DEF LinkTypes, WireTypes, Wires, MemberReads, Current
<1>2. \A e \in Conns : /\ down[e] \in Seq(FrameState)
                       /\ e # c => down'[e] = down[e]
                       /\ e = c => down'[e] = Tail(down[e])
  BY <1>1
<1>3. \A e \in Conns : /\ Fewer(down[e], down'[e], p)
                       /\ e # c \/ ~IsText(Head(down[c]), p) => Kept(down[e], down'[e], p)
  BY <1>1, <1>2, SameWire, ShorterWire
<1> QED
  BY <1>1, <1>2, <1>3 DEF QuietDown

LEMMA HubRead ==
    ASSUME LinkTypes, NEW p, NEW c \in Conns, NEW type, HubReads(c, type)
    PROVE  /\ up[c] # <<>> /\ up' = [up EXCEPT ![c] = Tail(@)] /\ up'[c] = Tail(up[c])
           /\ \A e \in Conns : Fewer(up[e], up'[e], p) /\ (e # c => Kept(up[e], up'[e], p))
           /\ ~IsText(Head(up[c]), p) => QuietUp(p)
<1>1. up \in [Conns -> Seq(FrameState)] /\ up[c] # <<>> /\ up' = [up EXCEPT ![c] = Tail(@)]
  BY DEF LinkTypes, WireTypes, Wires, HubReads
<1>2. \A e \in Conns : /\ up[e] \in Seq(FrameState)
                       /\ e # c => up'[e] = up[e]
                       /\ e = c => up'[e] = Tail(up[e])
  BY <1>1
<1>3. \A e \in Conns : /\ Fewer(up[e], up'[e], p)
                       /\ e # c \/ ~IsText(Head(up[c]), p) => Kept(up[e], up'[e], p)
  BY <1>1, <1>2, SameWire, ShorterWire
<1> QED
  BY <1>1, <1>2, <1>3 DEF QuietUp

\* The hub's side of the pages stays, or pages end.
LEMMA HubSame ==
    ASSUME NEW p, pages' = pages, sockets' = sockets
    PROVE  HubAside(p)
BY DEF HubAside

LEMMA HubEnds ==
    ASSUME LinkTypes, NEW p \in Pages, pages'[p] = pages[p] \/ pages'[p] = [pages[p] EXCEPT !.state = "closed"],
           \A c \in Conns : \A s \in sockets'[c] : s.page = p => s \in sockets[c]
    PROVE  HubAside(p)
<1>1. pages[p] \in PageState
  BY DEF LinkTypes, HubTypes
<1>2. /\ pages'[p].conn = pages[p].conn /\ pages'[p].sent = pages[p].sent /\ pages'[p].got = pages[p].got
      /\ pages'[p].state = "new" => pages[p].state = "new"
  BY <1>1 DEF PageState
<1> QED
  BY <1>2 DEF HubAside

\* The members' streams and local sockets stay.
LEMMA FarSame ==
    ASSUME LinkTypes, StreamsInv, NEW p \in Pages, locals'[p] = locals[p],
           \A b \in Boots : /\ members[b].state = "left" => members'[b].state = "left"
                            /\ \A s \in members'[b].streams : s.page = p => s \in Streams(b)
                            /\ \A s \in Streams(b) : s.page = p => s \in members'[b].streams
    PROVE  FarAside(p)
<1>1. locals[p].boot \in Boots
  BY PageTyped
<1>2. LocalSide(p)
  BY DEF StreamsInv, PageInv
<1>3. locals[p].state = "open" => \/ members'[locals[p].boot].state = "left"
                                  \/ \E s \in members'[locals[p].boot].streams : s.page = p
  BY <1>1, <1>2 DEF LocalSide
<1> QED
  BY <1>3 DEF FarAside

LEMMA SameFar ==
    ASSUME LinkTypes, StreamsInv, NEW p \in Pages, locals' = locals, members' = members
    PROVE  FarAside(p)
BY FarSame DEF Streams

\* Steps that leave the links as they are.
LEMMA SameLinksMove ==
    ASSUME LinkTypes, SameLinks, conns' = conns \/ \E c \in Conns : conns' = NewStream(c)
    PROVE  LinksMove
<1>1. \A e \in Conns : conns'[e].next >= conns[e].next
  <2> TAKE e \in Conns
  <2>1. conns \in [Conns -> ConnState] /\ conns[e] \in ConnState /\ conns[e].next \in Nat
    BY ConnTyped DEF LinkTypes, HubTypes
  <2>2. CASE conns' = conns
    BY <2>1, <2>2
  <2>3. CASE \E c \in Conns : conns' = NewStream(c)
    <3>1. PICK c \in Conns : conns' = [conns EXCEPT ![c] = [conns[c] EXCEPT !.next = conns[c].next + 1]]
      BY <2>3 DEF NewStream
    <3>2. conns'[e] = IF e = c THEN [conns[c] EXCEPT !.next = conns[c].next + 1] ELSE conns[e]
      BY <2>1, <3>1
    <3>3. e = c => conns'[e].next = conns[e].next + 1
      BY <2>1, <3>2 DEF ConnState
    <3> QED
      BY <2>1, <3>2, <3>3
  <2> QED
    BY <2>2, <2>3
<1> QED
  BY <1>1 DEF SameLinks, LinksMove

LEMMA SameProcesses ==
    ASSUME FederationInv, StreamsInv, SameLinks,
           \A b \in Boots : members'[b].streams # {} =>
             Streams(b) # {} \/ \E c \in Conns : conns[c].boot = b /\ Current(c)
    PROVE  ProcessesHold'
<1>1. ProcessesHold /\ MemberBonds /\ LinkTypes
  BY DEF StreamsInv, FederationInv
<1>2. \A b \in Boots : members'[b].state = "left" => members'[b].socket = 0 /\ ~members'[b].timer
  BY <1>1 DEF ProcessesHold, SameLinks
<1>3. ASSUME NEW b \in Boots, members'[b].streams # {}
      PROVE  /\ members[b].state = "left" \/ members[b].socket # 0
             /\ \A e \in Conns : conns[e].boot = b => conns[e].member # "connecting"
  <2>1. CASE Streams(b) # {}
    BY <1>1, <2>1 DEF ProcessesHold
  <2>2. CASE \E c \in Conns : conns[c].boot = b /\ Current(c)
    <3>1. PICK c \in Conns : conns[c].boot = b /\ Current(c)
      BY <2>2
    <3>2. CASE conns[c].member = "open"
      <4>1. members[b].socket = c
        BY <1>1, <3>1, <3>2 DEF MemberBonds, OneSocket
      <4> QED
        BY <1>1, <3>2, <4>1, ConnIsNotZero DEF MemberBonds, OneSocket
    <3>3. CASE conns[c].member = "closing"
      <4>1. members[b].state = "left" /\ members[b].socket = 0
        BY <1>1, <3>1, <3>3 DEF ProcessesHold
      <4> QED
        BY <1>1, <4>1, ConnIsNotZero DEF MemberBonds, OneSocket
    <3> QED
      BY <3>1, <3>2, <3>3 DEF Current
  <2> QED
    BY <1>3, <2>1, <2>2
<1>4. \A c \in Conns : conns[c].boot \in Boots
  BY <1>1, BootTyped
<1>5. \A b \in Boots : members'[b].streams # {} => members'[b].state = "left" \/ members'[b].socket # 0
  BY <1>3 DEF SameLinks
<1>6. \A c \in Conns :
         /\ conns'[c].member = "closing" => members'[conns'[c].boot].state = "left"
         /\ conns'[c].member = "connecting" => members'[conns'[c].boot].streams = {}
  BY <1>1, <1>3, <1>4 DEF SameLinks, ProcessesHold
<1>7. \A c, e \in Conns :
         conns'[c].boot = conns'[e].boot /\ Current(c)' /\ Current(e)' => c = e
  BY <1>1 DEF SameLinks, ProcessesHold, Current
<1> QED
  BY <1>2, <1>5, <1>6, <1>7 DEF ProcessesHold, Streams

-----------------------------------------------------------------------------
(* The steps of requests and ends. *)

LEMMA AsideMoves ==
    ASSUME FederationInv, Aside
    PROVE  SameLinks /\ LinksMove
<1>1. LinkTypes /\ SameLinks
  BY AsideSame DEF FederationInv
<1>2. CASE \E b \in Boots : Answer(b)
  BY <1>1, <1>2, SameLinksMove DEF Answer
<1>3. CASE \E c \in Conns : \/ MemberDirectory(c) \/ MemberRequest(c) \/ MemberOpens(c) \/ MemberText(c) \/ MemberClose(c)
                            \/ HubResponse(c) \/ HubText(c) \/ HubClose(c)
  BY <1>1, <1>3, SameLinksMove DEF MemberDirectory, MemberRequest, MemberOpens, MemberText, MemberClose, HubResponse, HubText, HubClose
<1>4. CASE \E r \in Requests : TimesOut(r)
  BY <1>1, <1>4, SameLinksMove DEF TimesOut
<1>5. CASE \E r \in Requests, d \in Devices : Ask(r, d)
  <2>1. PICK r \in Requests, d \in Devices : Ask(r, d)
    BY <1>5
  <2>2. conns' = conns \/ (links[d] # 0 /\ conns' = NewStream(links[d]))
    BY <2>1 DEF Ask
  <2> QED
    BY <1>1, <2>2, LinkIsConn, SameLinksMove
<1>6. CASE \E p \in Pages : PageSends(p) \/ PageCloses(p) \/ LocalOpens(p) \/ LocalFails(p) \/ LocalSends(p)
  BY <1>1, <1>6, SameLinksMove DEF PageSends, PageCloses, LocalOpens, LocalFails, LocalSends
<1>7. CASE \E p \in Pages, d \in Devices : OpenPage(p, d)
  <2>1. PICK p \in Pages, d \in Devices : OpenPage(p, d)
    BY <1>7
  <2>2. conns' = conns \/ (links[d] # 0 /\ conns' = NewStream(links[d]))
    BY <2>1 DEF OpenPage
  <2> QED
    BY <1>1, <2>2, LinkIsConn, SameLinksMove
<1> QED
  BY <1>1, <1>2, <1>3, <1>4, <1>5, <1>6, <1>7 DEF Aside

\* The streams of the members, when one member's change.
LEMMA StreamsOf ==
    ASSUME LinkTypes, NEW b \in Boots, NEW S
    PROVE  /\ members' = [members EXCEPT ![b] = [members[b] EXCEPT !.streams = S]] =>
                \A x \in Boots : members'[x].streams = IF x = b THEN S ELSE Streams(x)
           /\ \/ members' = [members EXCEPT ![b] = [members[b] EXCEPT !.executing = S]]
              \/ members' = [members EXCEPT ![b] = [members[b] EXCEPT !.directory = S]]
              => \A x \in Boots : members'[x].streams = Streams(x)
<1> DEFINE m == members[b]
<1>1. members \in [Boots -> MemberState] /\ m \in MemberState
  BY DEF LinkTypes, FarTypes
<1>2. /\ [m EXCEPT !.streams = S].streams = S
      /\ [m EXCEPT !.executing = S].streams = m.streams /\ [m EXCEPT !.directory = S].streams = m.streams
  <2> HIDE DEF m
  <2> QED
    BY <1>1 DEF MemberState
<1>3. \A r : \A x \in Boots : [members EXCEPT ![b] = r][x] = IF x = b THEN r ELSE members[x]
  BY <1>1
<1>4. ASSUME NEW r, members' = [members EXCEPT ![b] = r]
      PROVE  \A x \in Boots : members'[x].streams = IF x = b THEN r.streams ELSE Streams(x)
  BY <1>3, <1>4 DEF Streams
<1>5. ASSUME members' = [members EXCEPT ![b] = [m EXCEPT !.streams = S]]
      PROVE  \A x \in Boots : members'[x].streams = IF x = b THEN S ELSE Streams(x)
  BY <1>2, <1>4, <1>5, Zenon
<1>6. ASSUME NEW r, members' = [members EXCEPT ![b] = r], r.streams = m.streams
      PROVE  \A x \in Boots : members'[x].streams = Streams(x)
  BY <1>4, <1>6 DEF Streams
<1>7. \/ members' = [members EXCEPT ![b] = [m EXCEPT !.executing = S]]
      \/ members' = [members EXCEPT ![b] = [m EXCEPT !.directory = S]]
      => \A x \in Boots : members'[x].streams = Streams(x)
  BY <1>2, <1>6
<1> QED
  BY <1>5, <1>7

LEMMA AnswerAside ==
    ASSUME FederationInv, StreamsInv, NEW b \in Boots, Answer(b), NEW p \in Pages
    PROVE  Untouched(p) /\ \A x \in Boots : members'[x].streams = Streams(x)
<1>1. LinkTypes
  BY DEF FederationInv
<1>2. PICK e \in members[b].executing :
        /\ members' = [members EXCEPT ![b] = [members[b] EXCEPT !.executing = members[b].executing \ {e}]]
        /\ up' = ToHub(b, ResponseFrame(e.stream, e.req))
  BY DEF Answer
<1>3. pages' = pages /\ sockets' = sockets /\ down' = down /\ locals' = locals /\ conns' = conns
  BY DEF Answer, hub, ends
<1>4. ResponseFrame(e.stream, e.req) \in FrameState
  <2>1. members[b] \in MemberState
    BY <1>1, BootParts
  <2>2. e \in WaiterState
    BY <2>1 DEF MemberState
  <2> QED
    BY <2>2, FramesMade DEF WaiterState
<1>5. ~About(ResponseFrame(e.stream, e.req), p)
  BY DEF ResponseFrame, About, IsOpen, IsText
<1>6. QuietUp(p) /\ QuietDown(p)
  BY <1>1, <1>2, <1>3, <1>4, <1>5, MemberSent, DownSame
<1>7. \A x \in Boots : members'[x].streams = Streams(x)
  BY <1>1, <1>2, StreamsOf
<1>8. \A x \in Boots : members'[x].state = members[x].state
  BY <1>1, <1>2, StreamsSame
<1>9. FarAside(p)
  BY <1>1, <1>3, <1>7, <1>8, FarSame
<1> QED
  BY <1>3, <1>6, <1>7, <1>9, HubSame, QuietWires DEF Untouched

\* The member notes the directory, or a request.
LEMMA MemberNotes ==
    ASSUME FederationInv, StreamsInv, NEW c \in Conns, MemberDirectory(c) \/ MemberRequest(c), NEW p \in Pages
    PROVE  Untouched(p) /\ \A x \in Boots : members'[x].streams = Streams(x)
<1> DEFINE b == conns[c].boot
<1>1. LinkTypes /\ b \in Boots
  BY BootTyped DEF FederationInv
<1>2. PICK type \in {"directory", "request"} : MemberReads(c, type)
  BY DEF MemberDirectory, MemberRequest
<1>3. PICK S : \/ members' = [members EXCEPT ![b] = [members[b] EXCEPT !.executing = S]]
               \/ members' = [members EXCEPT ![b] = [members[b] EXCEPT !.directory = S]]
  BY DEF MemberDirectory, MemberRequest
<1>4. pages' = pages /\ sockets' = sockets /\ up' = up /\ locals' = locals
  BY DEF MemberDirectory, MemberRequest, hub, ends
<1>5. ~IsText(Head(down[c]), p)
  BY <1>2 DEF MemberReads, IsText
<1>6. QuietDown(p) /\ QuietUp(p)
  BY <1>1, <1>2, <1>4, <1>5, MemberRead, UpSame
<1>7. \A x \in Boots : members'[x].streams = Streams(x)
  BY <1>1, <1>3, StreamsOf
<1>8. \A x \in Boots : members'[x].state = members[x].state
  BY <1>1, <1>3, StreamsSame
<1>9. FarAside(p)
  BY <1>1, <1>4, <1>7, <1>8, FarSame
<1> QED
  BY <1>4, <1>6, <1>7, <1>9, HubSame, QuietWires DEF Untouched

\* The hub sends a request, takes its answer, or gives it up.
LEMMA HubAsks ==
    ASSUME FederationInv, StreamsInv, NEW p \in Pages,
           \/ \E c \in Conns : HubResponse(c)
           \/ \E r \in Requests : TimesOut(r) \/ \E d \in Devices : Ask(r, d)
    PROVE  Untouched(p) /\ \A x \in Boots : members'[x].streams = Streams(x)
<1>1. LinkTypes
  BY DEF FederationInv
<1>2. pages' = pages /\ sockets' = sockets /\ members' = members /\ locals' = locals
  BY DEF HubResponse, TimesOut, Ask
<1>3. QuietDown(p) /\ QuietUp(p)
  <2>1. CASE \E c \in Conns : HubResponse(c)
    <3>1. PICK c \in Conns : HubReads(c, "response") /\ down' = down
      BY <2>1 DEF HubResponse
    <3>2. ~IsText(Head(up[c]), p)
      BY <3>1 DEF HubReads, IsText
    <3> QED
      BY <1>1, <3>1, <3>2, HubRead, DownSame
  <2>2. CASE \E r \in Requests : TimesOut(r)
    BY <1>1, <2>2, DownSame, UpSame DEF TimesOut
  <2>3. CASE \E r \in Requests, d \in Devices : Ask(r, d)
    <3>1. PICK r \in Requests, d \in Devices : Ask(r, d)
      BY <2>3
    <3>2. up' = up
      BY <3>1 DEF Ask
    <3> DEFINE c == links[d]
               f == RequestFrame(conns[c].next, r)
    <3>3. CASE down' = down
      BY <1>1, <3>2, <3>3, DownSame, UpSame
    <3>4. CASE c # 0 /\ down' = ToMember(c, f)
      <4>1. c \in Conns /\ conns[c].next \in Nat
        BY <1>1, <3>4, LinkIsConn, ConnTyped
      <4>2. f \in FrameState /\ ~About(f, p)
        BY <4>1, FramesMade DEF RequestFrame, About, IsOpen, IsText
      <4> HIDE DEF f, c
      <4> QED
        BY <1>1, <3>2, <3>4, <4>1, <4>2, HubSent, UpSame
    <3> QED
      BY <3>1, <3>3, <3>4 DEF Ask
  <2> QED
    BY <2>1, <2>2, <2>3
<1> QED
  BY <1>1, <1>2, <1>3, HubSame, SameFar, QuietWires DEF Untouched, Streams

\* A page ends: it closes, its stream is closed by the member, or the link is congested.
LEMMA PageEndsSame ==
    ASSUME LinkTypes, NEW q \in Pages, pages' = PageEnds(q), NEW p \in Pages
    PROVE  pages'[p] = pages[p] \/ pages'[p] = [pages[p] EXCEPT !.state = "closed"]
BY DEF PageEnds, LinkTypes, HubTypes

LEMMA ForgottenLess ==
    ASSUME LinkTypes, NEW c \in Conns, NEW q \in Pages, sockets' = Forgotten(c, q)
    PROVE  /\ \A e \in Conns : \A s \in sockets'[e] : s \in sockets[e]
           /\ \A s \in sockets'[c] : s.page # q
BY DEF Forgotten, LinkTypes, HubTypes

LEMMA PageGoes ==
    ASSUME FederationInv, StreamsInv, NEW q \in Pages, NEW p \in Pages,
           pages[q].state = "open", Relayed(pages[q].conn, q),
           pages' = PageEnds(q), sockets' = Forgotten(pages[q].conn, q),
           down' = ToMember(pages[q].conn, CloseFrame(StreamOf(pages[q].conn, q))),
           up' = up, members' = members, locals' = locals
    PROVE  Untouched(p) /\ \A x \in Boots : members'[x].streams = Streams(x)
<1> DEFINE c == pages[q].conn
           f == CloseFrame(StreamOf(c, q))
<1>1. LinkTypes /\ c \in Conns /\ StreamOf(c, q) \in Nat
  BY StreamOfTyped DEF FederationInv
<1>2. f \in FrameState /\ ~About(f, p)
  BY <1>1, FramesMade DEF CloseFrame, About, IsOpen, IsText
<1>3. HubAside(p)
  BY <1>1, PageEndsSame, ForgottenLess, HubEnds
<1> HIDE DEF f, c
<1>4. QuietDown(p) /\ QuietUp(p)
  BY <1>1, <1>2, HubSent, UpSame DEF f, c
<1> QED
  BY <1>1, <1>3, <1>4, SameFar, QuietWires DEF Untouched, Streams

LEMMA HubCloseAside ==
    ASSUME FederationInv, StreamsInv, NEW c \in Conns, HubClose(c), NEW p \in Pages
    PROVE  Untouched(p) /\ \A x \in Boots : members'[x].streams = Streams(x)
<1>1. LinkTypes
  BY DEF FederationInv
<1>2. HubReads(c, "close") /\ down' = down /\ members' = members /\ locals' = locals
  BY DEF HubClose
<1>3. ~IsText(Head(up[c]), p)
  BY <1>2 DEF HubReads, IsText
<1>4. QuietDown(p) /\ QuietUp(p)
  BY <1>1, <1>2, <1>3, HubRead, DownSame
<1>5. \A e \in Conns : \A s \in sockets'[e] : s \in sockets[e]
  BY <1>1 DEF HubClose, LinkTypes, HubTypes
<1>6. pages'[p] = pages[p] \/ pages'[p] = [pages[p] EXCEPT !.state = "closed"]
  BY DEF HubClose
<1>7. HubAside(p)
  BY <1>1, <1>5, <1>6, HubEnds
<1> QED
  BY <1>1, <1>2, <1>4, <1>7, SameFar, QuietWires DEF Untouched, Streams

-----------------------------------------------------------------------------
(* The members' streams end. *)

\* A stream of a page is the only one, at the process its local socket is of.
LEMMA OneStream ==
    ASSUME LinkTypes, StreamsInv, NEW b \in Boots, NEW s \in Streams(b)
    PROVE  /\ s \in StreamState /\ s.page \in Pages
           /\ locals[s.page].boot = b /\ locals[s.page].state \in {"opening", "open"}
           /\ \A x \in Boots : \A t \in Streams(x) : t.page = s.page => x = b /\ t = s
<1>1. s \in StreamState /\ s.page \in Pages
  BY BootParts, EntryParts
<1>2. LocalSide(s.page)
  BY <1>1 DEF StreamsInv, PageInv
<1> QED
  BY <1>1, <1>2 DEF LocalSide

LEMMA FarEnds ==
    ASSUME LinkTypes, NEW p \in Pages, \A b \in Boots : \A s \in members'[b].streams : s.page = p => s \in Streams(b),
           \/ /\ locals'[p] = [locals[p] EXCEPT !.state = "closed"] /\ locals[p].state \in {"opening", "open"}
              /\ \A b \in Boots : \A s \in members'[b].streams : s.page # p
           \/ /\ locals'[p] = locals[p]
              /\ locals[p].state = "open" => \/ members'[locals[p].boot].state = "left"
                                             \/ \E s \in members'[locals[p].boot].streams : s.page = p
    PROVE  FarAside(p)
<1>1. CASE /\ locals'[p] = [locals[p] EXCEPT !.state = "closed"] /\ locals[p].state \in {"opening", "open"}
           /\ \A b \in Boots : \A s \in members'[b].streams : s.page # p
  <2>1. locals[p] \in LocalState
    BY PageTyped
  <2>2. /\ locals'[p].got = locals[p].got /\ locals'[p].early = locals[p].early
        /\ locals'[p].sent = locals[p].sent /\ locals'[p].boot = locals[p].boot /\ locals'[p].state = "closed"
    BY <1>1, <2>1 DEF LocalState
  <2> QED
    BY <1>1, <2>2 DEF FarAside
<1>2. CASE /\ locals'[p] = locals[p]
           /\ locals[p].state = "open" => \/ members'[locals[p].boot].state = "left"
                                          \/ \E s \in members'[locals[p].boot].streams : s.page = p
  BY <1>2 DEF FarAside
<1> QED
  BY <1>1, <1>2

LEMMA MemberCloseAside ==
    ASSUME FederationInv, StreamsInv, NEW c \in Conns, MemberClose(c), NEW p \in Pages
    PROVE  Untouched(p) /\ \A x \in Boots : members'[x].streams \subseteq Streams(x)
<1> DEFINE f == Head(down[c])
           b == conns[c].boot
<1>1. LinkTypes /\ b \in Boots
  BY BootTyped DEF FederationInv
<1>2. MemberReads(c, "close") /\ up' = up /\ pages' = pages /\ sockets' = sockets
  BY DEF MemberClose, hub, ends
<1>3. ~IsText(Head(down[c]), p)
  BY <1>2 DEF MemberReads, IsText
<1>4. QuietDown(p) /\ QuietUp(p)
  BY <1>1, <1>2, <1>3, MemberRead, UpSame
<1> DEFINE S == {s \in Streams(b) : s.stream # f.stream}
<1>5. members' = [members EXCEPT ![b] = [members[b] EXCEPT !.streams = S]]
  BY DEF MemberClose, Streams
<1>6. \A x \in Boots : members'[x].streams = IF x = b THEN S ELSE Streams(x)
  BY <1>1, <1>5, StreamsOf
<1>7. \A x \in Boots : members'[x].streams \subseteq Streams(x)
  BY <1>6
<1>8. \A x \in Boots : members'[x].state = members[x].state
  BY <1>1, <1>5, StreamsSame
<1>9. locals'[p] = IF Entry(f.stream, p) \in Streams(b) /\ locals[p].state = "open"
                   THEN [locals[p] EXCEPT !.state = "closed"] ELSE locals[p]
  BY DEF MemberClose
<1>10. locals[p].boot \in Boots
  BY <1>1, PageTyped
<1> HIDE DEF f, b
<1>11. FarAside(p)
  <2>1. CASE Entry(f.stream, p) \in Streams(b) /\ locals[p].state = "open"
    <3>1. Entry(f.stream, p).page = p /\ Entry(f.stream, p).stream = f.stream
      BY DEF Entry
    <3>2. \A x \in Boots : \A t \in Streams(x) : t.page = p => x = b /\ t = Entry(f.stream, p)
      BY <1>1, <2>1, <3>1, OneStream
    <3>3. \A x \in Boots : \A t \in members'[x].streams : t.page # p
      <4> SUFFICES ASSUME NEW x \in Boots, NEW t \in members'[x].streams, t.page = p
                   PROVE  FALSE
        OBVIOUS
      <4>1. x = b /\ t = Entry(f.stream, p)
        BY <1>7, <3>2
      <4>2. t \in S
        BY <1>1, <1>6, <4>1
      <4> QED
        BY <3>1, <4>1, <4>2
    <3> QED
      BY <1>1, <1>7, <1>9, <2>1, <3>3, FarEnds
  <2>2. CASE ~(Entry(f.stream, p) \in Streams(b) /\ locals[p].state = "open")
    <3>1. ASSUME locals[p].state = "open"
          PROVE  members'[locals[p].boot].state = "left" \/ \E s \in members'[locals[p].boot].streams : s.page = p
      <4>1. LocalSide(p)
        BY DEF StreamsInv, PageInv
      <4>2. CASE members[locals[p].boot].state = "left"
        BY <1>8, <1>10, <4>2
      <4>3. CASE \E s \in Streams(locals[p].boot) : s.page = p
        <5>1. PICK s \in Streams(locals[p].boot) : s.page = p
          BY <4>3
        <5>2. s = Entry(s.stream, p)
          BY <1>1, <1>10, <5>1, OneStream, EntryParts
        <5>3. locals[p].boot = b => s.stream # f.stream
          BY <2>2, <3>1, <5>1, <5>2
        <5> QED
          BY <1>6, <1>10, <5>1, <5>3
      <4> QED
        BY <3>1, <4>1, <4>2, <4>3 DEF LocalSide
    <3> QED
      BY <1>1, <1>7, <1>9, <2>2, <3>1, FarEnds
  <2> QED
    BY <2>1, <2>2
<1> QED
  BY <1>2, <1>4, <1>7, <1>11, HubSame, QuietWires DEF Untouched

\* One stream of a page goes.
LEMMA OneGoes ==
    ASSUME LinkTypes, StreamsInv, NEW b \in Boots, NEW s \in Streams(b), members' = Without(b, s)
    PROVE  /\ \A x \in Boots : members'[x].streams \subseteq Streams(x) /\ members'[x].state = members[x].state
           /\ \A x \in Boots : \A t \in members'[x].streams : t.page # s.page
           /\ \A x \in Boots : \A t \in Streams(x) : t.page # s.page => t \in members'[x].streams
<1>1. members' = [members EXCEPT ![b] = [members[b] EXCEPT !.streams = Streams(b) \ {s}]]
  BY DEF Without, Streams
<1>2. \A x \in Boots : members'[x].streams = IF x = b THEN Streams(b) \ {s} ELSE Streams(x)
  BY <1>1, StreamsOf
<1>3. \A x \in Boots : members'[x].state = members[x].state
  BY <1>1, StreamsSame
<1>4. \A x \in Boots : \A t \in Streams(x) : t.page = s.page => x = b /\ t = s
  BY OneStream
<1> QED
  BY <1>2, <1>3, <1>4

LEMMA LocalFailsAside ==
    ASSUME FederationInv, StreamsInv, NEW q \in Pages, LocalFails(q), NEW p \in Pages
    PROVE  Untouched(p) /\ \A x \in Boots : members'[x].streams \subseteq Streams(x)
<1> DEFINE b == locals[q].boot
<1>1. LinkTypes /\ b \in Boots /\ locals \in [Pages -> LocalState]
  BY PageTyped DEF FederationInv, LinkTypes, FarTypes
<1>2. /\ locals[q].state \in {"opening", "open"} /\ locals' = [locals EXCEPT ![q].state = "closed"]
      /\ down' = down /\ pages' = pages /\ sockets' = sockets
  BY DEF LocalFails, hub, ends
<1>3. /\ p = q => locals'[p] = [locals[p] EXCEPT !.state = "closed"]
      /\ p # q => locals'[p] = locals[p]
  BY <1>1, <1>2
<1>4. CASE \E s \in Streams(b) : s.page = q /\ members' = Without(b, s) /\ up' = ToHub(b, CloseFrame(s.stream))
  <2>1. PICK s \in Streams(b) : s.page = q /\ members' = Without(b, s) /\ up' = ToHub(b, CloseFrame(s.stream))
    BY <1>4
  <2>2. /\ \A x \in Boots : members'[x].streams \subseteq Streams(x) /\ members'[x].state = members[x].state
        /\ \A x \in Boots : \A t \in members'[x].streams : t.page # q
        /\ \A x \in Boots : \A t \in Streams(x) : t.page # q => t \in members'[x].streams
    BY <1>1, <2>1, OneGoes
  <2>3. CloseFrame(s.stream) \in FrameState /\ ~About(CloseFrame(s.stream), p)
    <3>1. s.stream \in Nat
      BY <1>1, OneStream DEF StreamState
    <3> QED
      BY <3>1, FramesMade DEF CloseFrame, About, IsOpen, IsText
  <2>4. QuietUp(p) /\ QuietDown(p)
    BY <1>1, <1>2, <2>1, <2>3, MemberSent, DownSame
  <2>5. FarAside(p)
    <3>1. CASE p = q
      BY <1>1, <1>2, <1>3, <2>2, <3>1, FarEnds
    <3>2. CASE p # q
      BY <1>1, <1>3, <2>2, <3>2, FarSame
    <3> QED
      BY <3>1, <3>2
  <2> QED
    BY <1>2, <2>2, <2>4, <2>5, HubSame, QuietWires DEF Untouched
<1>5. CASE (\A s \in Streams(b) : s.page # q) /\ UNCHANGED <<members, up>>
  <2>1. \A x \in Boots : \A s \in Streams(x) : s.page # q
    BY <1>1, <1>5, OneStream
  <2>2. \A x \in Boots : members'[x].streams = Streams(x) /\ members'[x].state = members[x].state
    BY <1>5 DEF Streams
  <2>3. QuietUp(p) /\ QuietDown(p)
    BY <1>1, <1>2, <1>5, UpSame, DownSame
  <2>4. FarAside(p)
    <3>1. CASE p = q
      BY <1>1, <1>2, <1>3, <2>1, <2>2, <3>1, FarEnds
    <3>2. CASE p # q
      BY <1>1, <1>3, <2>2, <3>2, FarSame
    <3> QED
      BY <3>1, <3>2
  <2> QED
    BY <1>2, <2>2, <2>3, <2>4, HubSame, QuietWires DEF Untouched
<1> QED
  BY <1>4, <1>5 DEF LocalFails

\* openLocal resolves after its stream has ended.
LEMMA OpensLate ==
    ASSUME FederationInv, StreamsInv, NEW q \in Pages, LocalOpens(q), \A s \in Streams(locals[q].boot) : s.page # q, NEW p \in Pages
    PROVE  Untouched(p)
<1>1. LinkTypes /\ locals[q].boot \in Boots /\ locals \in [Pages -> LocalState]
  BY PageTyped DEF FederationInv, LinkTypes, FarTypes
<1>2. /\ locals[q].state = "opening" /\ locals' = [locals EXCEPT ![q].state = "closed"]
      /\ down' = down /\ up' = up /\ pages' = pages /\ sockets' = sockets /\ members' = members
  BY DEF LocalOpens, Opens, hub, ends
<1>3. /\ p = q => locals'[p] = [locals[p] EXCEPT !.state = "closed"]
      /\ p # q => locals'[p] = locals[p]
  BY <1>1, <1>2
<1>4. \A x \in Boots : \A s \in Streams(x) : s.page # q
  BY <1>1, OneStream
<1>5. \A x \in Boots : members'[x].streams = Streams(x) /\ members'[x].state = members[x].state
  BY <1>2 DEF Streams
<1>6. FarAside(p)
  <2>1. CASE p = q
    BY <1>1, <1>2, <1>3, <1>4, <1>5, <2>1, FarEnds
  <2>2. CASE p # q
    BY <1>1, <1>3, <1>5, <2>2, FarSame
  <2> QED
    BY <2>1, <2>2
<1> QED
  BY <1>1, <1>2, <1>6, DownSame, UpSame, HubSame, QuietWires DEF Untouched

\* A process lets go of all its streams: it leaves, or its link closes.
LEMMA AllGo ==
    ASSUME LinkTypes, StreamsInv, NEW b \in Boots, locals' = LocalsClosed(b), members'[b].streams = {},
           \A x \in Boots \ {b} : members'[x] = members[x],
           members[b].state = "left" => members'[b].state = "left", NEW p \in Pages
    PROVE  FarAside(p)
<1>1. locals[p].boot \in Boots /\ LocalSide(p)
  BY PageTyped DEF StreamsInv, PageInv
<1>2. \A x \in Boots : members'[x].streams = IF x = b THEN {} ELSE Streams(x)
  BY DEF Streams
<1>3. CASE locals[p].state = "open" /\ \E s \in Streams(b) : s.page = p
  <2>1. locals'[p] = [locals[p] EXCEPT !.state = "closed"]
    BY <1>3 DEF LocalsClosed, Streams
  <2>2. \A x \in Boots : \A t \in Streams(x) : t.page = p => x = b
    BY <1>3, OneStream
  <2>3. \A x \in Boots : \A t \in members'[x].streams : t.page # p
    BY <1>2, <2>2
  <2> QED
    BY <1>3, <2>1, <2>3, FarEnds
<1>4. CASE ~(locals[p].state = "open" /\ \E s \in Streams(b) : s.page = p)
  <2>1. locals'[p] = locals[p]
    BY <1>4 DEF LocalsClosed, Streams
  <2>2. locals[p].state = "open" => \/ members'[locals[p].boot].state = "left"
                                    \/ \E s \in members'[locals[p].boot].streams : s.page = p
    BY <1>1, <1>2, <1>4 DEF LocalSide
  <2>3. \A x \in Boots : \A s \in members'[x].streams : s.page = p => s \in Streams(x)
    BY <1>2
  <2> QED
    BY <2>1, <2>2, <2>3, FarEnds
<1> QED
  BY <1>3, <1>4

-----------------------------------------------------------------------------
(* The steps of the links. *)

LEMMA NumbersKept ==
    ASSUME NEW cs \in [Conns -> ConnState], NEW c \in Conns, NEW v, v.next = cs[c].next, NEW e \in Conns
    PROVE  [cs EXCEPT ![c] = v][e].next = cs[e].next
<1>1. [cs EXCEPT ![c] = v][e] = IF e = c THEN v ELSE cs[e]
  OBVIOUS
<1> QED
  BY <1>1

LEMMA FieldsPut ==
    ASSUME NEW r \in ConnState
    PROVE  /\ \A h : [r EXCEPT !.hub = h].next = r.next
           /\ \A h, code : [r EXCEPT !.hub = h, !.code = code].next = r.next
           /\ \A m : [r EXCEPT !.member = m].next = r.next
           /\ \A m : [r EXCEPT !.member = m, !.cut = TRUE].next = r.next
BY DEF ConnState

\* The hub's steps leave the processes alone.
HubMove ==
    /\ members' = members
    /\ \A e \in Conns :
         /\ conns'[e].boot = conns[e].boot /\ conns'[e].member = conns[e].member /\ conns'[e].next = conns[e].next
         /\ conns[e].hub \in {"open", "closing", "closed"} => conns'[e].hub \in {"open", "closing", "closed"}
         /\ conns'[e].hub = "open" => conns[e].hub \in {"none", "saving", "open"}

LEMMA HubMovesLinks ==
    ASSUME FederationInv, StreamsInv, HubMove
    PROVE  LinksMove /\ ProcessesHold'
<1>1. \A e \in Conns : conns[e].next \in Nat
  BY ConnTyped DEF FederationInv
<1>2. LinksMove
  BY <1>1 DEF HubMove, LinksMove
<1>3. ProcessesHold
  BY DEF StreamsInv
<1>4. \A e \in Conns : Current(e)' = Current(e)
  BY DEF HubMove, Current
<1> QED
  BY <1>2, <1>3, <1>4 DEF HubMove, ProcessesHold, Streams

\* The hub's steps and the wires of the pages.
LEMMA HubStepKeeps ==
    ASSUME FederationInv, FederationInv', StreamsInv, HubMove, up' = up, locals' = locals,
           \A p \in Pages : HubAside(p) /\ QuietDown(p)
    PROVE  StreamsInv'
<1>1. LinkTypes
  BY DEF FederationInv
<1>2. \A p \in Pages : Untouched(p)
  BY <1>1, UpSame, SameFar, QuietWires DEF Untouched, HubMove
<1> QED
  BY <1>2, HubMovesLinks, NoneTouched DEF PagesKept, StreamsInv

LEMMA AttachesMove ==
    ASSUME FederationInv, NEW c \in Conns, conns[c].hub \in {"none", "saving"}, Attaches(c, registry), members' = members
    PROVE  HubMove
<1> DEFINE d == DeviceOf[conns[c].boot]
           mid == [conns EXCEPT ![c].hub = "open"]
<1>1. LinkTypes /\ HubBonds /\ conns \in [Conns -> ConnState] /\ d \in Devices
  BY BootTyped, FederationAssumption DEF FederationInv, LinkTypes, HubTypes
<1>2. /\ \A e \in Conns : conns'[e].boot = conns[e].boot /\ conns'[e].member = conns[e].member
      /\ conns'[c].hub = "open"
      /\ \A e \in Conns \ {c} : conns'[e].hub = IF e = links[d] THEN "closing" ELSE conns[e].hub
  BY <1>1, AttachesMoves DEF DeviceAt
<1>3. \A e \in Conns : e = links[d] => conns[e].hub \in {"open", "closing"}
  BY <1>1, ConnIsNotZero DEF HubBonds
<1>4. mid \in [Conns -> ConnState]
  BY <1>1 DEF ConnState
<1>5. \A e \in Conns : mid[e].next = conns[e].next
  <2> DEFINE v == [conns[c] EXCEPT !.hub = "open"]
  <2>1. v.next = conns[c].next
    BY <1>1, FieldsPut
  <2>2. mid = [conns EXCEPT ![c] = v]
    OBVIOUS
  <2> HIDE DEF v, mid
  <2> QED
    BY <1>1, <2>1, <2>2, NumbersKept
<1>6. links[d] # 0 => links[d] \in Conns
  BY <1>1, LinkIsConn
<1>7. \A e \in Conns : conns'[e].next = conns[e].next
  <2>1. PICK code : conns' = HubCloses(mid, links[d], code)
    BY Zenon DEF Attaches, Takes
  <2> HIDE DEF mid
  <2> DEFINE v == [mid[links[d]] EXCEPT !.hub = "closing", !.code = code]
  <2>2. conns' = mid \/ (links[d] # 0 /\ conns' = [mid EXCEPT ![links[d]] = v])
    BY <2>1, Zenon DEF HubCloses
  <2>3. links[d] # 0 => v.next = mid[links[d]].next
    BY <1>4, <1>6, FieldsPut
  <2> HIDE DEF v
  <2>4. CASE links[d] # 0 /\ conns' = [mid EXCEPT ![links[d]] = v]
    <3>1. \A e \in Conns : conns'[e].next = mid[e].next
      BY <1>4, <1>6, <2>3, <2>4, NumbersKept
    <3> QED
      BY <1>5, <3>1
  <2> QED
    BY <1>5, <2>2, <2>4
<1> QED
  BY <1>2, <1>3, <1>7 DEF HubMove

LEMMA OneHubMoves ==
    ASSUME FederationInv, NEW c \in Conns, NEW h, NEW code, members' = members,
           \/ conns' = [conns EXCEPT ![c].hub = h, ![c].code = code]
           \/ conns' = [conns EXCEPT ![c].hub = h],
           conns[c].hub \in {"open", "closing", "closed"} => h \in {"open", "closing", "closed"},
           h = "open" => conns[c].hub \in {"none", "saving", "open"}
    PROVE  HubMove
<1>1. LinkTypes /\ conns \in [Conns -> ConnState]
  BY DEF FederationInv, LinkTypes, HubTypes
<1>2. conns'[c].hub = h /\ SameButHub(c)
  BY <1>1, HubMoves
<1>3. PICK v : v.next = conns[c].next /\ conns' = [conns EXCEPT ![c] = v]
  <2> DEFINE x == [conns[c] EXCEPT !.hub = h, !.code = code]
             y == [conns[c] EXCEPT !.hub = h]
  <2>1. x.next = conns[c].next /\ y.next = conns[c].next
    BY <1>1, FieldsPut
  <2>2. conns' = [conns EXCEPT ![c] = x] \/ conns' = [conns EXCEPT ![c] = y]
    OBVIOUS
  <2> HIDE DEF x, y
  <2> QED
    BY <2>1, <2>2
<1>4. \A e \in Conns : conns'[e].next = conns[e].next
  BY <1>1, <1>3, NumbersKept
<1> QED
  BY <1>2, <1>4 DEF HubMove, SameButHub

LEMMA AuthenticateStreams ==
    ASSUME FederationInv, FederationInv', StreamsInv, NEW c \in Conns, Authenticate(c)
    PROVE  StreamsInv'
<1>1. LinkTypes
  BY DEF FederationInv
<1>2. /\ conns[c].hub = "none" /\ members' = members /\ up' = up /\ locals' = locals
      /\ \A p \in Pages : HubAside(p)
  BY HubSame DEF Authenticate, ends
<1>3. CASE down' = down /\ conns' = [conns EXCEPT ![c].hub = "refused", ![c].code = "fatal"]
  BY <1>1, <1>2, <1>3, OneHubMoves, DownSame, HubStepKeeps
<1>4. CASE down' = down /\ conns' = [conns EXCEPT ![c].hub = "saving"]
  BY <1>1, <1>2, <1>4, OneHubMoves, DownSame, HubStepKeeps
<1>5. CASE Attaches(c, registry)
  <2>1. HubMove
    BY <1>2, <1>5, AttachesMove
  <2>2. \A p \in Pages : QuietDown(p)
    BY <1>1, <1>5, AnnouncedQuiet DEF Attaches
  <2> QED
    BY <1>2, <2>1, <2>2, HubStepKeeps
<1> QED
  BY <1>3, <1>4, <1>5 DEF Authenticate

LEMMA SavedStreams ==
    ASSUME FederationInv, FederationInv', StreamsInv, NEW c \in Conns, Saved(c)
    PROVE  StreamsInv'
<1>1. LinkTypes
  BY DEF FederationInv
<1>2. /\ conns[c].hub = "saving" /\ members' = members /\ up' = up /\ locals' = locals
      /\ \A p \in Pages : HubAside(p)
  BY HubSame DEF Saved, ends
<1>3. CASE down' = down /\ conns' = [conns EXCEPT ![c].hub = "refused", ![c].code = "error"]
  BY <1>1, <1>2, <1>3, OneHubMoves, DownSame, HubStepKeeps
<1>4. CASE down' = down /\ conns' = [conns EXCEPT ![c].hub = "closed"]
  BY <1>1, <1>2, <1>4, OneHubMoves, DownSame, HubStepKeeps
<1>5. CASE Attaches(c, registry)
  <2>1. HubMove
    BY <1>2, <1>5, AttachesMove
  <2>2. \A p \in Pages : QuietDown(p)
    BY <1>1, <1>5, AnnouncedQuiet DEF Attaches
  <2> QED
    BY <1>2, <2>1, <2>2, HubStepKeeps
<1> QED
  BY <1>3, <1>4, <1>5 DEF Saved

LEMMA UnlistStreams ==
    ASSUME FederationInv, FederationInv', StreamsInv, NEW k \in Tokens, Unlist(k)
    PROVE  StreamsInv'
<1>1. LinkTypes
  BY DEF FederationInv
<1>2. /\ HubMove /\ up' = up /\ down' = down /\ locals' = locals
      /\ \A p \in Pages : HubAside(p)
  BY HubSame DEF Unlist, HubMove, ends
<1> QED
  BY <1>1, <1>2, DownSame, HubStepKeeps

LEMMA RemoveEndsStreams ==
    ASSUME FederationInv, FederationInv', StreamsInv, NEW k \in Tokens, NEW d \in Devices \cup {NoDevice}, RemoveEnds(k, d)
    PROVE  StreamsInv'
<1>1. LinkTypes
  BY DEF FederationInv
<1>2. /\ members' = members /\ up' = up /\ locals' = locals
      /\ \A p \in Pages : HubAside(p)
  BY HubSame DEF RemoveEnds, ends
<1>3. \A p \in Pages : QuietDown(p)
  BY <1>1, AnnouncedQuiet DEF RemoveEnds
<1>4. HubMove
  <2>1. \/ conns' = conns
        \/ /\ d \in Devices /\ links[d] # 0 /\ conns[links[d]].hub = "open"
           /\ conns' = [conns EXCEPT ![links[d]].hub = "closing", ![links[d]].code = "removed"]
    BY DEF RemoveEnds, HubCloses
  <2>2. CASE conns' = conns
    BY <1>2, <2>2 DEF HubMove
  <2>3. CASE /\ d \in Devices /\ links[d] # 0 /\ conns[links[d]].hub = "open"
             /\ conns' = [conns EXCEPT ![links[d]].hub = "closing", ![links[d]].code = "removed"]
    <3>1. links[d] \in Conns
      BY <1>1, <2>3, LinkIsConn
    <3> QED
      BY <1>2, <2>3, <3>1, OneHubMoves
  <2> QED
    BY <2>1, <2>2, <2>3
<1> QED
  BY <1>2, <1>3, <1>4, HubStepKeeps

LEMMA CutStreams ==
    ASSUME FederationInv, FederationInv', StreamsInv, NEW c \in Conns, Cut(c)
    PROVE  StreamsInv'
<1>1. LinkTypes /\ conns \in [Conns -> ConnState]
  BY DEF FederationInv, LinkTypes, HubTypes
<1>2. /\ members' = members /\ up' = up /\ down' = down /\ locals' = locals
      /\ \A p \in Pages : HubAside(p)
  BY HubSame DEF Cut, hub, ends
<1>3. HubMove
  <2> SUFFICES ASSUME NEW e \in Conns
               PROVE  /\ conns'[e].boot = conns[e].boot /\ conns'[e].member = conns[e].member
                      /\ conns'[e].next = conns[e].next /\ conns'[e].hub = conns[e].hub
    BY <1>2 DEF HubMove
  <2>1. conns' = [conns EXCEPT ![c] = [conns[c] EXCEPT !.cut = TRUE]]
    BY DEF Cut
  <2>2. e = c => conns'[e] = [conns[e] EXCEPT !.cut = TRUE]
    BY <1>1, <2>1
  <2>3. e # c => conns'[e] = conns[e]
    BY <1>1, <2>1
  <2>4. conns[e] \in ConnState
    BY <1>1
  <2> QED
    BY <2>2, <2>3, <2>4 DEF ConnState
<1> QED
  BY <1>1, <1>2, <1>3, DownSame, HubStepKeeps

LEMMA HubClosedStreams ==
    ASSUME FederationInv, FederationInv', StreamsInv, NEW c \in Conns, HubClosed(c)
    PROVE  StreamsInv'
<1>1. LinkTypes /\ conns \in [Conns -> ConnState] /\ sockets \in [Conns -> SUBSET StreamState]
  BY DEF FederationInv, LinkTypes, HubTypes
<1>2. members' = members /\ up' = up /\ locals' = locals
  BY DEF HubClosed
<1>3. HubMove
  <2>1. /\ conns[c].hub \in {"open", "closing"}
        /\ \/ conns' = [conns EXCEPT ![c].hub = "closed", ![c].code = "none"]
           \/ conns' = [conns EXCEPT ![c].hub = "closed"]
    BY DEF HubClosed
  <2> QED
    BY <1>2, <2>1, OneHubMoves
<1>4. ASSUME NEW p \in Pages
      PROVE  HubAside(p)
  <2>1. pages'[p] = pages[p] \/ pages'[p] = [pages[p] EXCEPT !.state = "closed"]
    BY DEF HubClosed, EndsPages
  <2>2. \A e \in Conns : sockets'[e] = {} \/ sockets'[e] = sockets[e]
    BY <1>1 DEF HubClosed
  <2>3. \A e \in Conns : \A s \in sockets'[e] : s.page = p => s \in sockets[e]
    BY <2>2
  <2> QED
    BY <1>1, <2>1, <2>3, HubEnds
<1>5. ASSUME NEW p \in Pages
      PROVE  QuietDown(p)
  <2>1. down' = down \/ down' = Announced(down, [conns EXCEPT ![c].hub = "closed"], links', registry)
    BY DEF HubClosed, Detaches
  <2> QED
    BY <1>1, <2>1, DownSame, AnnouncedQuiet
<1> QED
  BY <1>2, <1>3, <1>4, <1>5, HubStepKeeps

-----------------------------------------------------------------------------
(* The steps of a member's connection. *)

\* A process dials: it serves nothing then.
LEMMA DialsStreams ==
    ASSUME FederationInv, FederationInv', StreamsInv, NEW b \in Boots, NEW c \in Conns, Dials(b, c, FALSE),
           members[b].socket = 0, members[b].state # "left"
    PROVE  StreamsInv'
<1>1. LinkTypes /\ HubBonds /\ MemberBonds /\ ProcessesHold /\ members \in [Boots -> MemberState] /\ conns \in [Conns -> ConnState]
  BY DEF FederationInv, StreamsInv, LinkTypes, FarTypes, HubTypes
<1>2. /\ down' = down /\ up' = up /\ locals' = locals
      /\ \A p \in Pages : HubAside(p)
  BY HubSame DEF Dials, hub, ends
<1>3. /\ members'[b].state = "connecting" /\ members'[b].timer = FALSE /\ members'[b].socket = c
      /\ members'[b].streams = Streams(b) /\ \A x \in Boots \ {b} : members'[x] = members[x]
  <2> DEFINE m == [members[b] EXCEPT !.state = "connecting", !.timer = FALSE, !.socket = c]
  <2>1. m.state = "connecting" /\ m.timer = FALSE /\ m.socket = c /\ m.streams = members[b].streams
    BY <1>1 DEF MemberState
  <2>2. members' = [members EXCEPT ![b] = m]
    BY DEF Dials
  <2> HIDE DEF m
  <2> QED
    BY <1>1, <2>1, <2>2 DEF Streams
<1>4. /\ conns'[c].boot = b /\ conns'[c].member = "connecting" /\ conns'[c].hub = "none" /\ conns[c].member = "none"
      /\ \A e \in Conns \ {c} : conns'[e] = conns[e]
  <2> DEFINE r == [Free EXCEPT !.boot = b, !.member = "connecting"]
  <2>1. r.boot = b /\ r.member = "connecting" /\ r.hub = "none"
    BY FreeTyped DEF ConnState
  <2>2. conns' = [conns EXCEPT ![c] = r] /\ conns[c].member = "none"
    BY DEF Dials
  <2> HIDE DEF r
  <2> QED
    BY <1>1, <2>1, <2>2
<1>5. conns[c].hub = "none" /\ \A e \in Conns : conns[e].next \in Nat
  BY <1>1, <1>4, ConnTyped DEF HubBonds
<1>6. LinksMove
  BY <1>4, <1>5 DEF LinksMove
<1>7. Streams(b) = {}
  BY <1>1 DEF ProcessesHold
<1>8. \A x \in Boots : members'[x].streams = Streams(x)
  BY <1>3 DEF Streams
<1>9. ProcessesHold'
  <2>1. \A x \in Boots :
          /\ members'[x].state = "left" => members'[x].socket = 0 /\ ~members'[x].timer
          /\ members'[x].streams # {} => members'[x].state = "left" \/ members'[x].socket # 0
    BY <1>1, <1>3, <1>7 DEF ProcessesHold, Streams
  <2>2. \A e \in Conns \ {c} : conns[e].boot \in Boots /\ (conns[e].member = "closing" => conns[e].boot # b)
    BY <1>1, BootTyped DEF ProcessesHold
  <2>3. \A e \in Conns :
          /\ conns'[e].member = "closing" => members'[conns'[e].boot].state = "left"
          /\ conns'[e].member = "connecting" => members'[conns'[e].boot].streams = {}
    BY <1>1, <1>3, <1>4, <1>7, <1>8, <2>2 DEF ProcessesHold
  <2>4. \A e, g \in Conns : conns'[e].boot = conns'[g].boot /\ Current(e)' /\ Current(g)' => e = g
    BY <1>1, <1>4 DEF ProcessesHold, Current
  <2> QED
    BY <2>1, <2>3, <2>4 DEF ProcessesHold, Streams
<1>10. \A p \in Pages : Untouched(p)
  <2> TAKE p \in Pages
  <2>1. FarAside(p)
    BY <1>1, <1>2, <1>3, <1>8, FarSame
  <2> QED
    BY <1>1, <1>2, <2>1, DownSame, UpSame, QuietWires DEF Untouched
<1> QED
  BY <1>6, <1>9, <1>10, NoneTouched DEF PagesKept, StreamsInv

LEMMA MemberMoved ==
    ASSUME FederationInv, NEW c \in Conns, NEW m,
           \/ conns' = [conns EXCEPT ![c].member = m]
           \/ conns' = [conns EXCEPT ![c].member = m, ![c].cut = TRUE]
    PROVE  conns'[c].member = m /\ SameButMember(c) /\ \A e \in Conns : conns'[e].next = conns[e].next
<1>1. LinkTypes /\ conns \in [Conns -> ConnState]
  BY DEF FederationInv, LinkTypes, HubTypes
<1>2. conns'[c].member = m /\ SameButMember(c)
  BY <1>1, MemberMoves
<1>3. PICK v : v.next = conns[c].next /\ conns' = [conns EXCEPT ![c] = v]
  <2> DEFINE x == [conns[c] EXCEPT !.member = m]
             y == [conns[c] EXCEPT !.member = m, !.cut = TRUE]
  <2>1. x.next = conns[c].next /\ y.next = conns[c].next
    BY <1>1, FieldsPut
  <2>2. conns' = [conns EXCEPT ![c] = x] \/ conns' = [conns EXCEPT ![c] = y]
    OBVIOUS
  <2> HIDE DEF x, y
  <2> QED
    BY <2>1, <2>2
<1>4. \A e \in Conns : conns'[e].next = conns[e].next
  BY <1>1, <1>3, NumbersKept
<1> QED
  BY <1>2, <1>4

\* What a connection becomes for its member.
LEMMA MemberMovesLinks ==
    ASSUME FederationInv, NEW c \in Conns, SameButMember(c), \A e \in Conns : conns'[e].next = conns[e].next,
           conns'[c].member = "open" => conns[c].member \in {"connecting", "open"},
           conns'[c].member = "closing" => conns[c].member \in {"open", "closing"}
    PROVE  LinksMove
<1>1. \A e \in Conns : conns[e].next \in Nat
  BY ConnTyped DEF FederationInv
<1> QED
  BY <1>1 DEF SameButMember, LinksMove

LEMMA MemberOpenStreams ==
    ASSUME FederationInv, FederationInv', StreamsInv, NEW c \in Conns, MemberOpen(c)
    PROVE  StreamsInv'
<1> DEFINE b == conns[c].boot
<1>1. LinkTypes /\ MemberBonds /\ ProcessesHold /\ members \in [Boots -> MemberState] /\ b \in Boots
  BY BootTyped DEF FederationInv, StreamsInv, LinkTypes, FarTypes
<1>2. /\ down' = down /\ up' = up /\ locals' = locals
      /\ \A p \in Pages : HubAside(p)
  BY HubSame DEF MemberOpen, hub, ends
<1>3. conns[c].member = "connecting" /\ conns'[c].member = "open" /\ SameButMember(c) /\ \A e \in Conns : conns'[e].next = conns[e].next
  BY MemberMoved DEF MemberOpen
<1>4. LinksMove
  BY <1>3, MemberMovesLinks
<1>5. members[b].socket = c /\ members[b].state # "left" /\ Streams(b) = {}
  BY <1>1, <1>3, ConnIsNotZero DEF MemberBonds, OneSocket, ProcessesHold
<1>6. /\ members'[b].state = "connected" /\ members'[b].socket = c
      /\ members'[b].streams = Streams(b) /\ \A x \in Boots \ {b} : members'[x] = members[x]
  <2> DEFINE m == [members[b] EXCEPT !.state = "connected"]
  <2>1. m.state = "connected" /\ m.socket = c /\ m.streams = members[b].streams
    BY <1>1, <1>5 DEF MemberState
  <2>2. members' = [members EXCEPT ![b] = m]
    BY DEF MemberOpen
  <2> HIDE DEF m
  <2> QED
    BY <1>1, <2>1, <2>2 DEF Streams
<1>7. \A x \in Boots : members'[x].streams = Streams(x)
  BY <1>6 DEF Streams
<1>8. \A e \in Conns : /\ conns[e].boot \in Boots /\ conns'[e].boot = conns[e].boot
                       /\ e # c => conns'[e] = conns[e]
                       /\ e # c /\ Current(e) => conns[e].boot # b
  BY <1>1, <1>3, <1>5, BootTyped DEF SameButMember, Current, ProcessesHold, MemberBonds, OneSocket
<1>9. ProcessesHold'
  <2>1. \A x \in Boots :
          /\ members'[x].state = "left" => members'[x].socket = 0 /\ ~members'[x].timer
          /\ members'[x].streams # {} => members'[x].state = "left" \/ members'[x].socket # 0
    BY <1>1, <1>5, <1>6 DEF ProcessesHold, Streams
  <2>2. \A e \in Conns :
          /\ conns'[e].member = "closing" => members'[conns'[e].boot].state = "left"
          /\ conns'[e].member = "connecting" => members'[conns'[e].boot].streams = {}
    BY <1>1, <1>3, <1>5, <1>6, <1>7, <1>8 DEF ProcessesHold
  <2>3. \A e, g \in Conns : conns'[e].boot = conns'[g].boot /\ Current(e)' /\ Current(g)' => e = g
    BY <1>1, <1>3, <1>8 DEF ProcessesHold, Current
  <2> QED
    BY <2>1, <2>2, <2>3 DEF ProcessesHold, Streams
<1>10. \A p \in Pages : Untouched(p)
  <2> TAKE p \in Pages
  <2>1. FarAside(p)
    BY <1>1, <1>2, <1>5, <1>6, <1>7, FarSame
  <2> QED
    BY <1>1, <1>2, <2>1, DownSame, UpSame, QuietWires DEF Untouched
<1> QED
  BY <1>4, <1>9, <1>10, NoneTouched DEF PagesKept, StreamsInv

\* The member lets go of a connection, and of all its streams if it was its socket.
LEMMA LetsGoStreams ==
    ASSUME FederationInv, FederationInv', StreamsInv, NEW c \in Conns, NEW b \in Boots, conns[c].boot = b,
           SameButMember(c), \A e \in Conns : conns'[e].next = conns[e].next,
           \/ conns'[c].member = "closed"
           \/ conns'[c].member = "closing" /\ conns[c].member \in {"open", "closing"} /\ members'[b].state = "left",
           \/ members' = members /\ locals' = locals
           \/ /\ members'[b].streams = {} /\ locals' = LocalsClosed(b)
              /\ members[b].state # "left" /\ \A x \in Boots \ {b} : members'[x] = members[x]
              /\ members'[b].state = "left" => members'[b].socket = 0 /\ ~members'[b].timer,
           down' = down, up' = up, \A p \in Pages : HubAside(p)
    PROVE  StreamsInv'
<1>1. LinkTypes /\ MemberBonds /\ ProcessesHold
  BY DEF FederationInv, StreamsInv
<1>2. LinksMove
  BY MemberMovesLinks
<1>3. \A e \in Conns : /\ conns[e].boot \in Boots /\ conns'[e].boot = conns[e].boot
                       /\ e # c => conns'[e] = conns[e]
                       /\ Current(e)' => Current(e)
                       /\ conns'[e].member = "connecting" => conns[e].member = "connecting"
                       /\ conns'[e].member = "closing" =>
                            conns[e].member = "closing" \/ (conns[e].boot = b /\ members'[b].state = "left")
  BY <1>1, BootTyped DEF SameButMember, Current
<1>4. \A e, g \in Conns : conns'[e].boot = conns'[g].boot /\ Current(e)' /\ Current(g)' => e = g
  BY <1>1, <1>3 DEF ProcessesHold
<1>5. CASE members' = members /\ locals' = locals
  <2>1. ProcessesHold'
    BY <1>1, <1>3, <1>4, <1>5 DEF ProcessesHold, Streams
  <2>2. \A p \in Pages : Untouched(p)
    BY <1>1, <1>5, SameFar, DownSame, UpSame, QuietWires DEF Untouched
  <2> QED
    BY <1>2, <2>1, <2>2, NoneTouched DEF PagesKept, StreamsInv
<1>6. CASE /\ members'[b].streams = {} /\ locals' = LocalsClosed(b)
           /\ members[b].state # "left" /\ \A x \in Boots \ {b} : members'[x] = members[x]
           /\ members'[b].state = "left" => members'[b].socket = 0 /\ ~members'[b].timer
  <2>1. \A x \in Boots :
          /\ members'[x].state = "left" => members'[x].socket = 0 /\ ~members'[x].timer
          /\ members'[x].streams # {} => members'[x].state = "left" \/ members'[x].socket # 0
    BY <1>1, <1>6 DEF ProcessesHold, Streams
  <2>2. \A e \in Conns : conns'[e].member = "closing" => members'[conns'[e].boot].state = "left"
    BY <1>1, <1>3, <1>6 DEF ProcessesHold
  <2>3. \A e \in Conns : conns'[e].member = "connecting" => members'[conns'[e].boot].streams = {}
    BY <1>1, <1>3, <1>6 DEF ProcessesHold, Streams
  <2>4. ProcessesHold'
    BY <1>4, <2>1, <2>2, <2>3 DEF ProcessesHold, Streams
  <2>5. \A p \in Pages : Untouched(p)
    BY <1>1, <1>6, AllGo, DownSame, UpSame, QuietWires DEF Untouched
  <2> QED
    BY <1>2, <2>4, <2>5, NoneTouched DEF PagesKept, StreamsInv
<1> QED
  BY <1>5, <1>6

LEMMA MemberClosedStreams ==
    ASSUME FederationInv, FederationInv', StreamsInv, NEW c \in Conns, MemberClosed(c)
    PROVE  StreamsInv'
<1> DEFINE b == conns[c].boot
<1>1. LinkTypes /\ MemberBonds /\ ProcessesHold /\ members \in [Boots -> MemberState] /\ b \in Boots
  BY BootTyped DEF FederationInv, StreamsInv, LinkTypes, FarTypes
<1>2. /\ down' = down /\ up' = up
      /\ \A p \in Pages : HubAside(p)
  BY HubSame DEF MemberClosed, hub, ends
<1>3. PICK code :
        /\ conns' = [conns EXCEPT ![c].member = "closed"]
        /\ IF members[b].socket = c
           THEN /\ members' = [members EXCEPT ![b] = AfterClose(@, code)]
                /\ locals' = LocalsClosed(b)
           ELSE UNCHANGED <<members, locals>>
  BY DEF MemberClosed
<1>4. conns'[c].member = "closed" /\ SameButMember(c) /\ \A e \in Conns : conns'[e].next = conns[e].next
  BY <1>3, MemberMoved
<1>5. CASE members[b].socket = c
  <2> DEFINE m == AfterClose(members[b], code)
  <2>1. m.streams = {} /\ m.state # "left"
    BY <1>1 DEF MemberState, AfterClose
  <2>2. members' = [members EXCEPT ![b] = m] /\ locals' = LocalsClosed(b)
    BY <1>3, <1>5
  <2> HIDE DEF m
  <2>3. members'[b] = m /\ \A x \in Boots \ {b} : members'[x] = members[x]
    BY <1>1, <2>2
  <2>4. members[b].state # "left"
    BY <1>1, <1>5, ConnIsNotZero DEF ProcessesHold
  <2> HIDE DEF b
  <2> QED
    BY <1>1, <1>2, <1>4, <2>1, <2>2, <2>3, <2>4, LetsGoStreams DEF b
<1>6. CASE members[b].socket # c
  BY <1>1, <1>2, <1>3, <1>4, <1>6, LetsGoStreams
<1> QED
  BY <1>5, <1>6

LEMMA LeaveStreams ==
    ASSUME FederationInv, FederationInv', StreamsInv, NEW b \in Boots, Leave(b)
    PROVE  StreamsInv'
<1> DEFINE c == members[b].socket
<1>1. LinkTypes /\ MemberBonds /\ ProcessesHold /\ members \in [Boots -> MemberState]
  BY DEF FederationInv, StreamsInv, LinkTypes, FarTypes
<1>2. /\ down' = down /\ up' = up /\ locals' = LocalsClosed(b) /\ members[b].state # "left"
      /\ \A p \in Pages : HubAside(p)
  BY HubSame DEF Leave, hub, ends
<1>3. /\ members'[b].state = "left" /\ members'[b].timer = FALSE /\ members'[b].socket = 0 /\ members'[b].streams = {}
      /\ \A x \in Boots \ {b} : members'[x] = members[x]
  <2> DEFINE m == [members[b] EXCEPT !.state = "left", !.timer = FALSE, !.socket = 0, !.streams = {}]
  <2>1. m.state = "left" /\ m.timer = FALSE /\ m.socket = 0 /\ m.streams = {}
    BY <1>1 DEF MemberState
  <2>2. members' = [members EXCEPT ![b] = m]
    BY DEF Leave
  <2> HIDE DEF m
  <2> QED
    BY <1>1, <2>1, <2>2
<1>4. CASE c # 0
  <2>1. c \in Conns /\ conns[c].boot = b /\ conns[c].member \in {"connecting", "open"}
    BY <1>1, <1>4, SocketIsConn DEF MemberBonds
  <2>2. \/ conns[c].member = "connecting" /\ conns' = [conns EXCEPT ![c].member = "closed", ![c].cut = TRUE]
        \/ conns[c].member # "connecting" /\ conns' = [conns EXCEPT ![c].member = "closing"]
    BY <1>4 DEF Leave
  <2> HIDE DEF c
  <2>3. /\ conns'[c].member = "closed" \/ (conns[c].member = "open" /\ conns'[c].member = "closing")
        /\ SameButMember(c) /\ \A e \in Conns : conns'[e].next = conns[e].next
    BY <2>1, <2>2, MemberMoved
  <2> QED
    BY <1>2, <1>3, <2>1, <2>3, LetsGoStreams
<1>5. CASE c = 0
  <2>1. conns' = conns
    BY <1>5 DEF Leave
  <2>2. \A e \in Conns : conns[e].next \in Nat /\ conns[e].boot \in Boots
    BY <1>1, BootTyped, ConnTyped
  <2>3. LinksMove
    BY <2>1, <2>2 DEF LinksMove
  <2>4. \A x \in Boots :
          /\ members'[x].state = "left" => members'[x].socket = 0 /\ ~members'[x].timer
          /\ members'[x].streams # {} => members'[x].state = "left" \/ members'[x].socket # 0
    BY <1>1, <1>3 DEF ProcessesHold, Streams
  <2>5. \A e \in Conns :
          /\ conns'[e].member = "closing" => members'[conns'[e].boot].state = "left"
          /\ conns'[e].member = "connecting" => members'[conns'[e].boot].streams = {}
    BY <1>1, <1>3, <2>1, <2>2 DEF ProcessesHold, Streams
  <2>6. \A e, g \in Conns : conns'[e].boot = conns'[g].boot /\ Current(e)' /\ Current(g)' => e = g
    BY <1>1, <2>1 DEF ProcessesHold, Current
  <2>7. ProcessesHold'
    BY <2>4, <2>5, <2>6 DEF ProcessesHold, Streams
  <2>8. \A p \in Pages : Untouched(p)
    BY <1>1, <1>2, <1>3, AllGo, DownSame, UpSame, QuietWires DEF Untouched
  <2> QED
    BY <2>3, <2>7, <2>8, NoneTouched DEF PagesKept, StreamsInv
<1> QED
  BY <1>4, <1>5

-----------------------------------------------------------------------------
(* A member reads an opening or a text of a page. *)

LEMMA AsideStreams ==
    ASSUME FederationInv, FederationInv', StreamsInv, Aside, LinksMove => PagesKept,
           \A x \in Boots : members'[x].streams # {} =>
             Streams(x) # {} \/ \E c \in Conns : conns[c].boot = x /\ Current(c)
    PROVE  StreamsInv'
BY AsideMoves, SameProcesses DEF PagesKept, StreamsInv

LEMMA InOrderLonger ==
    ASSUME NEW s \in Seq(TextState), NEW p, InOrder(s, p), NEW t \in TextState, t = Text(p, Len(s) + 1)
    PROVE  InOrder(Append(s, t), p)
<1> DEFINE v == Append(s, t)
<1>1. Len(s) \in Nat /\ Len(v) = Len(s) + 1 /\ v[Len(s) + 1] = t /\ \A i \in 1..Len(s) : v[i] = s[i]
  BY AppendProperties, LenProperties
<1>2. DOMAIN s = 1..Len(s) /\ DOMAIN v = 1..Len(v)
  BY AppendProperties, LenProperties
<1> HIDE DEF v
<1>3. \A i \in 1..Len(v) : i \in 1..Len(s) \/ i = Len(s) + 1
  BY <1>1
<1>4. InOrder(v, p)
  BY <1>1, <1>2, <1>3 DEF InOrder
<1> QED
  BY <1>4 DEF v

\* What the member reads of a page is not an offer any more.
LEMMA OfferRead ==
    ASSUME FederationInv, StreamsInv, NEW c \in Conns, NEW type, MemberReads(c, type),
           NEW p \in Pages, About(Head(down[c]), p)
    PROVE  ~Offered(c, p)'
<1> SUFFICES ASSUME NEW i \in 1..Len(down'[c]), IsOpen(down'[c][i], p)
             PROVE  FALSE
  BY DEF Offered, IsOpen
<1>1. LinkTypes /\ down[c] \in Seq(FrameState) /\ OpensFirst(down[c], p)
  BY DEF FederationInv, LinkTypes, WireTypes, Wires, StreamsInv, PageInv, OfferSide
<1>2. down[c] # <<>> /\ down'[c] = Tail(down[c])
  BY <1>1, MemberRead
<1>3. /\ Len(down[c]) \in Nat /\ Len(down[c]) >= 1 /\ Head(down[c]) = down[c][1]
      /\ i + 1 \in 1..Len(down[c]) /\ down'[c][i] = down[c][i + 1] /\ Len(Tail(down[c])) = Len(down[c]) - 1
  BY <1>1, <1>2, TailParts
<1>4. 1 \in 1..Len(down[c])
  BY <1>3
<1>5. i + 1 <= 1
  BY <1>1, <1>3, <1>4 DEF OpensFirst
<1>6. i \in Nat /\ i >= 1
  BY <1>2, <1>3
<1> QED
  BY <1>5, <1>6

\* A stream that is served is a name.
LEMMA ServedNames ==
    ASSUME LinkTypes, NEW c \in Conns, Current(c), NEW s \in Streams(conns[c].boot)
    PROVE  s \in StreamState /\ Names(c, s) /\ Serves(c, s)
<1>1. s \in StreamState
  BY ConnTyped
<1> QED
  BY <1>1 DEF Names, Serves

\* Too much is queued: the stream of the text's page goes.
LEMMA DropsStreams ==
    ASSUME FederationInv, FederationInv', StreamsInv, NEW c \in Conns, MemberText(c), NEW p \in Pages,
           Entry(Head(down[c]).stream, p) \in Streams(conns[c].boot), locals[p].state = "opening",
           members' = Without(conns[c].boot, Entry(Head(down[c]).stream, p)),
           up' = ToHub(conns[c].boot, CloseFrame(Head(down[c]).stream)), locals' = locals,
           NEW q \in Pages
    PROVE  Untouched(q) /\ \A x \in Boots : members'[x].streams \subseteq Streams(x)
<1> DEFINE f == Head(down[c])
           b == conns[c].boot
           s == Entry(f.stream, p)
<1>1. LinkTypes /\ b \in Boots
  BY BootTyped DEF FederationInv
<1>2. MemberReads(c, "text") /\ pages' = pages /\ sockets' = sockets /\ conns' = conns
  BY DEF MemberText, hub, ends
<1>3. /\ down[c] # <<>> /\ Current(c)
      /\ \A e \in Conns : Fewer(down[e], down'[e], q) /\ (e # c => Kept(down[e], down'[e], q))
      /\ ~IsText(f, q) => QuietDown(q)
  BY <1>1, <1>2, MemberRead
<1>4. s \in StreamState /\ Names(c, s) /\ s.page = p /\ s.stream = f.stream
  BY <1>1, <1>3, ServedNames DEF Entry
<1>5. /\ \A x \in Boots : members'[x].streams \subseteq Streams(x) /\ members'[x].state = members[x].state
      /\ \A x \in Boots : \A t \in members'[x].streams : t.page # p
      /\ \A x \in Boots : \A t \in Streams(x) : t.page # p => t \in members'[x].streams
  BY <1>1, <1>4, OneGoes
<1>6. QuietUp(q)
  <2>1. f.stream \in Nat
    BY <1>4 DEF StreamState
  <2>2. CloseFrame(f.stream) \in FrameState /\ ~About(CloseFrame(f.stream), q)
    BY <2>1, FramesMade DEF CloseFrame, About, IsOpen, IsText
  <2> QED
    BY <1>1, <2>2, MemberSent
<1>7. FarAside(q)
  <2>1. CASE q = p
    BY <1>1, <1>5, <2>1, FarEnds
  <2>2. CASE q # p
    BY <1>1, <1>5, <2>2, FarSame
  <2> QED
    BY <2>1, <2>2
<1>8. NoFrame(q)
  BY <1>3, <1>6 DEF NoFrame, QuietUp
<1>9. NoLoss(q)
  <2>1. CASE ~IsText(f, q)
    BY <1>3, <1>6, <2>1, QuietWires
  <2>2. CASE IsText(f, q)
    <3>1. Entry(f.stream, q) \in StreamState /\ Names(c, Entry(f.stream, q)) /\ pages[q].conn = c
      BY <1>3, <2>2, HeadNames DEF About
    <3>2. Entry(f.stream, q) = s
      BY <1>4, <3>1, OneName DEF Entry
    <3>3. q = p
      BY <1>4, <3>2 DEF Entry
    <3>4. ~Served(c, q)'
      <4>1. \A t \in StreamState : t.page = p => t \notin members'[conns'[c].boot].streams
        BY <1>1, <1>2, <1>5
      <4> QED
        BY <3>3, <4>1 DEF Served, Serves, Streams
    <3>5. ~Offered(c, q)'
      BY <1>2, <2>2, OfferRead DEF About
    <3> QED
      BY <1>6, <3>1, <3>4, <3>5 DEF NoLoss, QuietUp
  <2> QED
    BY <2>1, <2>2
<1> QED
  BY <1>2, <1>5, <1>7, <1>8, <1>9, HubSame DEF Untouched

\* The text is delivered to the local socket of its page, or queued for it.
LEMMA DeliversPage ==
    ASSUME FederationInv, FederationInv', StreamsInv, LinksMove, NEW c \in Conns, MemberReads(c, "text"), Delivers(c),
           members' = members, up' = up, pages' = pages, sockets' = sockets, conns' = conns,
           NEW g \in Pages, g = Head(down[c]).text.page, Entry(Head(down[c]).stream, g) \in Streams(conns[c].boot)
    PROVE  PageInv(g)' /\ NoName(g)
<1> DEFINE f == Head(down[c])
           b == conns[c].boot
           s == Entry(f.stream, g)
           k == Got(g)
<1>1. LinkTypes /\ b \in Boots /\ PageInv(g) /\ down[c] \in Seq(FrameState)
  BY BootTyped DEF FederationInv, StreamsInv, LinkTypes, WireTypes, Wires
<1>2. /\ down[c] # <<>> /\ Current(c) /\ down'[c] = Tail(down[c])
      /\ \A e \in Conns : Fewer(down[e], down'[e], g)
  BY <1>1, MemberRead
<1>3. f \in FrameState /\ f.type = "text" /\ f.text \in TextState /\ IsText(f, g)
  BY <1>1, MemberReadsTyped, FrameParts DEF IsText
<1>4. s \in StreamState /\ Names(c, s) /\ Serves(c, s) /\ s.page = g /\ pages[g].conn = c
  <2>1. s \in StreamState /\ Names(c, s) /\ Serves(c, s)
    BY <1>1, <1>2, ServedNames
  <2>2. pages[g].conn = c
    BY <1>2, <1>3, HeadNames DEF About
  <2> QED
    BY <2>1, <2>2 DEF Entry
<1>5. locals[g].state \in {"opening", "open"} /\ locals[g] \in LocalState /\ k \in Nat
  BY <1>1, <1>4, OneStream, PageTyped
<1>6. Served(c, g)
  BY <1>4 DEF Served
<1>7. PICK m \in Nat : InARow(down[c], g, k, m) /\ (conns[c].hub = "open" => m = pages[g].sent)
  BY <1>1, <1>4, <1>6 DEF PageInv, DownLane
<1>8. f.text.nr = k + 1 /\ InARow(down'[c], g, k + 1, m)
  BY <1>1, <1>2, <1>3, <1>5, <1>7, TextRead
<1>9. f.text = Text(g, k + 1)
  <2>1. f.text = [page |-> f.text.page, nr |-> f.text.nr]
    BY <1>3 DEF TextState
  <2> QED
    BY <1>8, <2>1 DEF Text
<1>10. locals'[g] = [locals[g] EXCEPT !.early = IF locals[g].state = "opening" THEN Append(@, f.text) ELSE @,
                                     !.got = IF locals[g].state = "open" THEN Append(@, f.text) ELSE @]
  BY Zenon DEF Delivers
<1>11. /\ locals'[g].state = locals[g].state /\ locals'[g].boot = locals[g].boot /\ locals'[g].sent = locals[g].sent
       /\ locals'[g].early = IF locals[g].state = "opening" THEN Append(locals[g].early, f.text) ELSE locals[g].early
       /\ locals'[g].got = IF locals[g].state = "open" THEN Append(locals[g].got, f.text) ELSE locals[g].got
  BY <1>5, <1>10 DEF LocalState
<1> HIDE DEF f, s, b, k
<1>12. /\ locals[g].early \in Seq(TextState) /\ locals[g].got \in Seq(TextState)
       /\ Len(locals[g].early) \in Nat /\ Len(locals[g].got) \in Nat
  BY <1>1, PageTyped
<1>13. LocalSide(g) /\ Len(<<>>) = 0
  BY <1>1, EmptySeq DEF PageInv
<1>14. /\ InOrder(locals'[g].got, g) /\ InOrder(locals'[g].early, g) /\ Got(g)' = k + 1
       /\ locals'[g].got = <<>> \/ locals'[g].early = <<>>
       /\ locals'[g].state \in {"none", "opening"} => locals'[g].got = <<>>
       /\ locals'[g].state \in {"none", "open"} => locals'[g].early = <<>>
  <2>1. CASE locals[g].state = "opening"
    <3>1. locals[g].got = <<>> /\ InOrder(locals[g].got, g) /\ InOrder(locals[g].early, g)
      BY <1>13, <2>1, Zenon DEF LocalSide
    <3>2. k = Len(locals[g].early)
      BY <1>12, <1>13, <3>1 DEF k, Got
    <3>3. InOrder(Append(locals[g].early, f.text), g) /\ Len(Append(locals[g].early, f.text)) = Len(locals[g].early) + 1
      BY <1>3, <1>9, <1>12, <3>1, <3>2, InOrderLonger, AppendProperties
    <3>4. locals'[g].got = <<>> /\ locals'[g].early = Append(locals[g].early, f.text)
      BY <1>11, <2>1, <3>1, Zenon
    <3>5. Got(g)' = Len(<<>>) + Len(Append(locals[g].early, f.text))
      BY <3>4, Zenon DEF Got
    <3>6. Got(g)' = k + 1
      BY <1>12, <1>13, <3>2, <3>3, <3>5
    <3> QED
      BY <1>11, <2>1, <3>1, <3>3, <3>4, <3>6, Zenon
  <2>2. CASE locals[g].state = "open"
    <3>1. locals[g].early = <<>> /\ InOrder(locals[g].got, g) /\ InOrder(locals[g].early, g)
      BY <1>13, <2>2, Zenon DEF LocalSide
    <3>2. k = Len(locals[g].got)
      BY <1>12, <1>13, <3>1 DEF k, Got
    <3>3. InOrder(Append(locals[g].got, f.text), g) /\ Len(Append(locals[g].got, f.text)) = Len(locals[g].got) + 1
      BY <1>3, <1>9, <1>12, <3>1, <3>2, InOrderLonger, AppendProperties
    <3>4. locals'[g].early = <<>> /\ locals'[g].got = Append(locals[g].got, f.text)
      BY <1>11, <2>2, <3>1, Zenon
    <3>5. Got(g)' = Len(Append(locals[g].got, f.text)) + Len(<<>>)
      BY <3>4, Zenon DEF Got
    <3>6. Got(g)' = k + 1
      BY <1>12, <1>13, <3>2, <3>3, <3>5
    <3> QED
      BY <1>11, <2>2, <3>1, <3>3, <3>4, <3>6, Zenon
  <2> QED
    BY <1>5, <2>1, <2>2
<1>15. LocalSide(g)'
  BY <1>11, <1>13, <1>14, Zenon DEF LocalSide, Streams
<1>16. HubAside(g) /\ NoFrame(g)
  BY <1>1, <1>2, HubSame, UpSame DEF NoFrame, QuietUp
<1>17. \A x \in Boots : \A t \in members'[x].streams : t.page = g => t \in Streams(x)
  BY DEF Streams
<1>18. PageSide(g)' /\ OfferSide(g)' /\ NoName(g)
  BY <1>11, <1>16, <1>17, PageSideKept, OfferSideKept, UntouchedNames, Zenon DEF HubAside
<1>19. UpLane(c, g)'
  <2>1. Fewer(up[c], up'[c], g) /\ Kept(up[c], up'[c], g)
    BY <1>1, UpSame DEF QuietUp
  <2> QED
    BY <1>4, <1>11, <1>17, <2>1, UpLaneKept, Zenon
<1>20. DownLane(c, g)'
  <2>1. InARow(down[c], g, Got(g), m)'
    BY <1>8, <1>14, Zenon DEF InARow, IsText
  <2> QED
    BY <1>7, <2>1 DEF DownLane
<1> QED
  BY <1>4, <1>15, <1>18, <1>19, <1>20 DEF PageInv

LEMMA DeliversStreams ==
    ASSUME FederationInv, FederationInv', StreamsInv, LinksMove, NEW c \in Conns, MemberReads(c, "text"), Delivers(c),
           members' = members, up' = up, pages' = pages, sockets' = sockets, conns' = conns
    PROVE  PagesKept
<1> DEFINE f == Head(down[c])
           b == conns[c].boot
<1>1. LinkTypes /\ b \in Boots
  BY BootTyped DEF FederationInv
<1>2. down[c] # <<>> /\ Current(c)
  BY <1>1, MemberRead
<1>3. PICK g \in Pages : g = f.text.page
  BY <1>1, MemberReadsTyped, FrameParts DEF TextState
<1>4. IsText(f, g) /\ About(f, g)
  BY <1>3 DEF MemberReads, IsText, About
<1>5. Entry(f.stream, g) \in StreamState /\ Names(c, Entry(f.stream, g)) /\ pages[g].conn = c
  BY <1>2, <1>4, HeadNames
<1>6. ASSUME NEW q \in Pages, Entry(f.stream, q) \in Streams(b)
      PROVE  q = g
  <2>1. Entry(f.stream, q) \in StreamState /\ Names(c, Entry(f.stream, q))
    BY <1>1, <1>2, <1>6, ServedNames
  <2>2. Entry(f.stream, q) = Entry(f.stream, g)
    BY <1>5, <2>1, OneName DEF Entry
  <2> QED
    BY <2>2 DEF Entry
<1>7. ASSUME NEW q \in Pages, q # g \/ Entry(f.stream, g) \notin Streams(b)
      PROVE  Untouched(q)
  <2>1. locals'[q] = locals[q]
    BY <1>6, <1>7, Zenon DEF Delivers
  <2>2. FarAside(q)
    BY <1>1, <2>1, FarSame DEF Streams
  <2>3. QuietUp(q) /\ \A e \in Conns : Fewer(down[e], down'[e], q) /\ (e # c => Kept(down[e], down'[e], q))
    BY <1>1, UpSame, MemberRead
  <2>4. CASE q # g
    <3>1. ~IsText(f, q)
      BY <1>3, <2>4 DEF IsText
    <3>2. QuietDown(q)
      BY <1>1, <3>1, MemberRead
    <3> QED
      BY <2>2, <2>3, <3>2, HubSame, QuietWires DEF Untouched
  <2>5. CASE q = g /\ Entry(f.stream, g) \notin Streams(b)
    <3>1. ASSUME NEW t \in StreamState, t.page = g, t \in Streams(b)
          PROVE  FALSE
      <4>1. Names(c, t)
        BY <1>1, <1>2, <3>1, ServedNames
      <4>2. t = Entry(f.stream, g)
        BY <1>5, <3>1, <4>1, OneName DEF Entry
      <4> QED
        BY <2>5, <3>1, <4>2
    <3>2. ~Served(c, q)'
      BY <2>5, <3>1 DEF Served, Serves, Streams
    <3>3. ~Offered(c, q)'
      BY <1>4, <2>5, OfferRead
    <3>4. NoFrame(q)
      BY <2>3 DEF NoFrame, QuietUp
    <3>5. NoLoss(q)
      BY <1>5, <2>3, <2>5, <3>2, <3>3 DEF NoLoss, QuietUp
    <3> QED
      BY <2>2, <3>4, <3>5, HubSame DEF Untouched
  <2> QED
    BY <1>7, <2>4, <2>5
<1>8. CASE Entry(f.stream, g) \notin Streams(b)
  BY <1>7, <1>8, NoneTouched
<1>9. CASE Entry(f.stream, g) \in Streams(b)
  <2>1. PageInv(g)' /\ NoName(g)
    BY <1>3, <1>9, DeliversPage
  <2> QED
    BY <1>7, <2>1, OneTouched
<1> QED
  BY <1>8, <1>9

LEMMA MemberTextStreams ==
    ASSUME FederationInv, FederationInv', StreamsInv, NEW c \in Conns, MemberText(c)
    PROVE  StreamsInv'
<1>1. Aside
  BY DEF Aside
<1>2. LinksMove
  BY <1>1, AsideMoves
<1>3. MemberReads(c, "text") /\ pages' = pages /\ sockets' = sockets /\ conns' = conns
  BY DEF MemberText, hub, ends
<1>4. CASE Delivers(c) /\ UNCHANGED <<members, up>>
  BY <1>1, <1>2, <1>3, <1>4, DeliversStreams, AsideStreams DEF Streams
<1>5. CASE \E p \in Pages :
            /\ Entry(Head(down[c]).stream, p) \in Streams(conns[c].boot) /\ locals[p].state = "opening"
            /\ members' = Without(conns[c].boot, Entry(Head(down[c]).stream, p))
            /\ up' = ToHub(conns[c].boot, CloseFrame(Head(down[c]).stream))
            /\ UNCHANGED locals
  <2>1. \A q \in Pages : Untouched(q) /\ \A x \in Boots : members'[x].streams \subseteq Streams(x)
    BY <1>5, DropsStreams
  <2>2. PICK p \in Pages : TRUE
    BY <1>5
  <2>3. \A x \in Boots : members'[x].streams \subseteq Streams(x)
    BY <2>1, <2>2
  <2>4. PagesKept
    BY <1>2, <2>1, NoneTouched
  <2> QED
    BY <1>1, <2>3, <2>4, AsideStreams
<1> QED
  BY <1>4, <1>5 DEF MemberText

-----------------------------------------------------------------------------
(* The member's end of a stream begins, opens and sends. *)

\* A frame more on a wire names one stream more at the most.
LEMMA OnWireLonger ==
    ASSUME NEW w \in Seq(FrameState), NEW f \in FrameState, NEW s, OnWire(Append(w, f), s)
    PROVE  OnWire(w, s) \/ (f.stream = s.stream /\ About(f, s.page))
<1> DEFINE v == Append(w, f)
<1>1. Len(w) \in Nat /\ Len(v) = Len(w) + 1 /\ v[Len(w) + 1] = f /\ \A i \in 1..Len(w) : v[i] = w[i]
  BY AppendProperties, LenProperties
<1>2. PICK i \in 1..Len(v) : v[i].stream = s.stream /\ About(v[i], s.page)
  BY DEF OnWire
<1> HIDE DEF v
<1>3. i \in 1..Len(w) \/ i = Len(w) + 1
  BY <1>1
<1> QED
  BY <1>1, <1>2, <1>3 DEF OnWire

LEMMA NoRow ==
    ASSUME NEW w, NEW p, NoText(w, p)
    PROVE  InARow(w, p, 0, 0)
<1>1. 0 <= 0 /\ 0 + 1..0 = {}
  OBVIOUS
<1> QED
  BY <1>1 DEF NoText, InARow

LEMMA OpensStreams ==
    ASSUME FederationInv, FederationInv', StreamsInv, LinksMove, NEW p \in Pages, LocalOpens(p),
           \E s \in Streams(locals[p].boot) : s.page = p
    PROVE  PagesKept
<1>1. LinkTypes /\ PageInv(p) /\ locals \in [Pages -> LocalState] /\ locals[p] \in LocalState
  BY DEF FederationInv, StreamsInv, LinkTypes, FarTypes
<1>2. /\ locals[p].state = "opening" /\ down' = down /\ up' = up /\ pages' = pages /\ sockets' = sockets
      /\ members' = members /\ conns' = conns
      /\ locals' = [locals EXCEPT ![p] = [locals[p] EXCEPT !.state = "open", !.got = locals[p].early, !.early = <<>>]]
  BY DEF LocalOpens, Opens, hub, ends
<1>3. locals[p].got = <<>>
  BY <1>1, <1>2 DEF PageInv, LocalSide
<1>4. /\ locals'[p].state = "open" /\ locals'[p].boot = locals[p].boot /\ locals'[p].sent = locals[p].sent
      /\ locals'[p].got = locals[p].early /\ locals'[p].early = locals[p].got
  BY <1>1, <1>2, <1>3 DEF LocalState
<1>5. ASSUME NEW q \in Pages
      PROVE  HubAside(q) /\ QuietDown(q) /\ QuietUp(q) /\ NoFrame(q) /\ NoLoss(q)
  BY <1>1, <1>2, HubSame, DownSame, UpSame, QuietWires
<1>6. ASSUME NEW q \in Pages \ {p}
      PROVE  Untouched(q)
  <2>1. locals'[q] = locals[q]
    BY <1>1, <1>2
  <2>2. FarAside(q)
    BY <1>1, <1>2, <2>1, FarSame DEF Streams
  <2> QED
    BY <1>5, <2>2 DEF Untouched
<1>7. \A x \in Boots : members'[x].streams = Streams(x) /\ \A t \in members'[x].streams : t.page = p => t \in Streams(x)
  BY <1>2 DEF Streams
<1>8. PageSide(p)' /\ OfferSide(p)' /\ NoName(p)
  BY <1>2, <1>4, <1>5, <1>7, PageSideKept, OfferSideKept, UntouchedNames DEF HubAside
<1>9. LocalSide(p)'
  <2>1. \E s \in members'[locals'[p].boot].streams : s.page = p
    BY <1>2, <1>4 DEF Streams
  <2> QED
    BY <1>1, <1>2, <1>3, <1>4, <1>7, <2>1 DEF PageInv, LocalSide, Streams
<1>10. Got(p)' = Got(p)
  <2>1. Len(locals[p].got) \in Nat /\ Len(locals[p].early) \in Nat
    BY <1>1, PageTyped
  <2>2. \A i, j \in Nat : i + j = j + i
    OBVIOUS
  <2>3. Len(locals[p].early) + Len(locals[p].got) = Len(locals[p].got) + Len(locals[p].early)
    BY <2>1, <2>2, Zenon
  <2>4. Got(p)' = Len(locals'[p].got) + Len(locals'[p].early)
    BY DEF Got
  <2> QED
    BY <1>4, <2>3, <2>4 DEF Got
<1>11. ASSUME NEW c \in Conns, pages[p].conn = c
       PROVE  DownLane(c, p)' /\ UpLane(c, p)'
  <2>1. /\ Fewer(down[c], down'[c], p) /\ Kept(down[c], down'[c], p)
        /\ Fewer(up[c], up'[c], p) /\ Kept(up[c], up'[c], p)
    BY <1>5 DEF QuietDown, QuietUp
  <2>2. DownLane(c, p)'
    BY <1>2, <1>7, <1>10, <1>11, <2>1, DownLaneKept
  <2>3. UpLane(c, p)'
    BY <1>2, <1>4, <1>7, <1>11, <2>1, UpLaneKept
  <2> QED
    BY <2>2, <2>3
<1>12. PageInv(p)' /\ pages'[p].conn = pages[p].conn
  BY <1>2, <1>8, <1>9, <1>11 DEF PageInv
<1> QED
  BY <1>6, <1>8, <1>12, OneTouched

\* A local socket sends a text to its page.
LEMMA LocalSendsStreams ==
    ASSUME FederationInv, FederationInv', StreamsInv, LinksMove, NEW p \in Pages, LocalSends(p)
    PROVE  PagesKept
<1> DEFINE b == locals[p].boot
           c == members[b].socket
           n == locals[p].sent
<1>1. /\ LinkTypes /\ PageInv(p) /\ locals \in [Pages -> LocalState] /\ locals[p] \in LocalState
      /\ b \in Boots /\ n \in Nat
  BY PageTyped DEF FederationInv, StreamsInv, LinkTypes, FarTypes
<1>2. /\ locals[p].state = "open" /\ down' = down /\ pages' = pages /\ sockets' = sockets
      /\ members' = members /\ conns' = conns
  BY DEF LocalSends, hub, ends
<1>3. PICK s \in Streams(b) :
         /\ s.page = p
         /\ up' = ToHub(b, TextFrame(s.stream, Text(p, n + 1)))
         /\ locals' = [locals EXCEPT ![p] = [locals[p] EXCEPT !.sent = n + 1]]
  BY DEF LocalSends
<1> DEFINE f == TextFrame(s.stream, Text(p, n + 1))
<1>4. /\ s \in StreamState /\ s = Entry(s.stream, p)
      /\ \A x \in Boots : \A t \in Streams(x) : t.page = p => x = b /\ t = s
  BY <1>1, <1>3, OneStream, EntryParts
<1>5. /\ f \in FrameState /\ IsText(f, p) /\ f.stream = s.stream /\ f.text.nr = n + 1
      /\ \A q \in Pages \ {p} : ~About(f, q)
  <2>1. s.stream \in Nat /\ Text(p, n + 1) \in TextState
    BY <1>1, <1>4, TextMade DEF StreamState
  <2> QED
    BY <2>1, FramesMade DEF TextFrame, Text, IsText, IsOpen, About
<1>6. ASSUME c # 0, conns[c].member = "open"
      PROVE  c \in Conns /\ conns[c].boot = b /\ Current(c) /\ Serves(c, s) /\ Names(c, s) /\ pages[p].conn = c
  <2>1. c \in Conns /\ conns[c].boot = b
    BY <1>1, <1>6, SocketIsConn DEF FederationInv, MemberBonds
  <2>2. Current(c)
    BY <1>6 DEF Current
  <2>3. Serves(c, s) /\ Names(c, s)
    BY <1>1, <1>3, <2>1, <2>2, ServedNames
  <2>4. pages[p].conn = c
    BY <1>3, <1>4, <2>1, <2>3 DEF StreamsInv, NamesHold
  <2> QED
    BY <2>1, <2>2, <2>3, <2>4
<1>7. /\ c # 0 /\ conns[c].member = "open" => up' = [up EXCEPT ![c] = Append(@, f)]
      /\ ~(c # 0 /\ conns[c].member = "open") => up' = up
  BY <1>3 DEF ToHub
<1> HIDE DEF f, c, b, n
<1>8. /\ locals'[p].state = "open" /\ locals'[p].boot = b /\ locals'[p].sent = n + 1
      /\ locals'[p].got = locals[p].got /\ locals'[p].early = locals[p].early
  BY <1>1, <1>2, <1>3 DEF LocalState, b
<1>9. ASSUME NEW q \in Pages \ {p}
      PROVE  Untouched(q)
  <2>1. locals'[q] = locals[q]
    BY <1>1, <1>3
  <2>2. FarAside(q)
    BY <1>1, <1>2, <2>1, FarSame DEF Streams
  <2>3. QuietUp(q) /\ QuietDown(q)
    BY <1>1, <1>2, <1>3, <1>5, MemberSent, DownSame DEF f
  <2> QED
    BY <1>2, <2>2, <2>3, HubSame, QuietWires DEF Untouched
<1>10. HubAside(p) /\ QuietDown(p)
  BY <1>1, <1>2, HubSame, DownSame
<1>11. \A x \in Boots : members'[x].streams = Streams(x) /\ \A t \in members'[x].streams : t.page = p => t \in Streams(x)
  BY <1>2 DEF Streams
<1>12. NoName(p)
  <2> SUFFICES ASSUME NEW e \in Conns, NEW t \in StreamState, t.page = p, Names(e, t)'
               PROVE  Names(e, t)
    BY DEF NoName
  <2>1. CASE t \in sockets'[e]
    BY <1>2, <2>1 DEF Names
  <2>2. CASE Serves(e, t)'
    <3>1. Serves(e, t)
      BY <1>11, <2>2, ServedBefore
    <3> QED
      BY <3>1 DEF Names
  <2>3. CASE OnWire(down'[e], t)
    BY <1>2, <2>3 DEF Names
  <2>4. CASE OnWire(up'[e], t)
    <3>1. CASE up'[e] = up[e]
      BY <2>4, <3>1 DEF Names
    <3>2. CASE up'[e] # up[e]
      <4>1. e = c /\ c # 0 /\ conns[c].member = "open" /\ up'[e] = Append(up[e], f)
        <5>1. up \in [Conns -> Seq(FrameState)]
          BY <1>1 DEF LinkTypes, WireTypes, Wires
        <5> QED
          BY <1>7, <3>2, <5>1
      <4>2. up[e] \in Seq(FrameState)
        BY WiresTyped
      <4>3. OnWire(up[e], t) \/ f.stream = t.stream
        BY <1>5, <2>4, <4>1, <4>2, OnWireLonger
      <4>4. f.stream = t.stream => t = s
        BY <1>4, <1>5, EntryParts
      <4> QED
        BY <1>6, <4>1, <4>3, <4>4 DEF Names
    <3> QED
      BY <3>1, <3>2
  <2> QED
    BY <2>1, <2>2, <2>3, <2>4, NamesAfter
<1>13. PageSide(p)'
  BY <1>10, PageSideKept
<1>14. LocalSide(p)'
  BY <1>1, <1>2, <1>8 DEF PageInv, LocalSide, Streams, b
<1>15. OfferSide(p)'
  <2>1. \A e \in Conns : OpensFirst(down'[e], p) /\ ~Offered(e, p)'
    <3>1. \A e \in Conns : OpensFirst(down[e], p) /\ ~Offered(e, p)
      BY <1>1, <1>2 DEF PageInv, OfferSide
    <3> QED
      BY <1>2, <3>1 DEF Offered, IsOpen
  <2>2. pages'[p].conn # 0
    BY <1>1, <1>2 DEF PageInv, OfferSide
  <2> QED
    BY <1>8, <2>1, <2>2 DEF OfferSide, OpensFirst, About, IsOpen, IsText
<1>16. ASSUME NEW e \in Conns, pages[p].conn = e
       PROVE  DownLane(e, p)' /\ UpLane(e, p)'
  <2>1. DownLane(e, p)'
    <3>1. Fewer(down[e], down'[e], p) /\ Kept(down[e], down'[e], p) /\ Got(p)' = Got(p)
      BY <1>8, <1>10 DEF QuietDown, Got
    <3> QED
      BY <1>2, <1>11, <1>16, <3>1, DownLaneKept
  <2>2. UpLane(e, p)'
    <3> SUFFICES ASSUME Relayed(e, p)'
                 PROVE  \E m \in Nat : /\ InARow(up[e], p, Len(pages[p].got), m)'
                                       /\ Served(e, p)' /\ conns'[e].member = "open" => m = locals'[p].sent
      BY DEF UpLane
    <3> DEFINE k == Len(pages[p].got)
    <3>1. Relayed(e, p) /\ k \in Nat /\ up[e] \in Seq(FrameState)
      BY <1>1, <1>2, PageTyped, WiresTyped DEF Relayed
    <3>2. PICK m \in Nat : /\ InARow(up[e], p, k, m)
                           /\ Served(e, p) /\ conns[e].member = "open" => m = n
      BY <1>1, <1>16, <3>1 DEF PageInv, UpLane, n
    <3>3. CASE e = c /\ conns[e].member = "open"
      <4>1. c # 0 /\ up'[e] = Append(up[e], f) /\ Served(e, p)
        <5>1. up \in [Conns -> Seq(FrameState)]
          BY <1>1 DEF LinkTypes, WireTypes, Wires
        <5>2. c # 0
          BY <3>3, ConnIsNotZero
        <5> QED
          BY <1>3, <1>4, <1>6, <1>7, <3>3, <5>1, <5>2 DEF Served
      <4>2. m = n
        BY <3>2, <3>3, <4>1
      <4>3. InARow(up'[e], p, k, m + 1)
        BY <1>5, <3>1, <3>2, <4>1, <4>2, TextSent
      <4>4. InARow(up[e], p, Len(pages[p].got), m + 1)'
        BY <1>2, <4>3 DEF InARow, IsText
      <4> QED
        BY <1>8, <4>2, <4>4
    <3>4. CASE ~(e = c /\ conns[e].member = "open")
      <4>1. up'[e] = up[e]
        <5>1. up \in [Conns -> Seq(FrameState)]
          BY <1>1 DEF LinkTypes, WireTypes, Wires
        <5> QED
          BY <1>7, <3>4, <5>1
      <4>2. ~(Served(e, p)' /\ conns'[e].member = "open")
        <5> SUFFICES ASSUME Served(e, p)', conns'[e].member = "open"
                     PROVE  FALSE
          OBVIOUS
        <5>1. Served(e, p) /\ conns[e].member = "open"
          BY <1>2, <1>11, ServedPage
        <5>2. conns[e].boot = b
          BY <1>1, <1>4, <5>1, BootTyped DEF Served, Serves
        <5>3. members[b].socket = e
          BY <5>1, <5>2 DEF FederationInv, MemberBonds, OneSocket
        <5> QED
          BY <3>4, <5>1, <5>3 DEF c
      <4>3. InARow(up[e], p, Len(pages[p].got), m)'
        BY <1>2, <3>2, <4>1 DEF InARow, IsText
      <4> QED
        BY <4>2, <4>3
    <3> QED
      BY <3>3, <3>4
  <2> QED
    BY <2>1, <2>2
<1>17. PageInv(p)' /\ pages'[p].conn = pages[p].conn
  BY <1>2, <1>13, <1>14, <1>15, <1>16 DEF PageInv
<1> QED
  BY <1>9, <1>12, <1>17, OneTouched

\* The member is offered a stream: it is the first of its page, and the only one.
LEMMA MemberOpensStreams ==
    ASSUME FederationInv, FederationInv', StreamsInv, LinksMove, NEW c \in Conns, MemberOpens(c),
           NEW p \in Pages, p = Head(down[c]).page, NEW b \in Boots, b = conns[c].boot
    PROVE  PagesKept
<1> DEFINE f == Head(down[c])
           s == Entry(f.stream, p)
           S == {t \in Streams(b) : t.stream # f.stream} \cup {s}
<1>1. LinkTypes /\ locals \in [Pages -> LocalState]
  BY DEF FederationInv, LinkTypes, FarTypes
<1>2. MemberReads(c, "open") /\ up' = up /\ pages' = pages /\ sockets' = sockets /\ conns' = conns
  BY DEF MemberOpens, hub, ends
<1>3. IsOpen(f, p) /\ \A q \in Pages : ~IsText(f, q)
  BY <1>1, <1>2, MemberReadsTyped DEF IsOpen, IsText
<1>4. /\ down[c] # <<>> /\ Current(c)
      /\ \A q \in Pages : QuietDown(q) /\ QuietUp(q) /\ NoFrame(q) /\ NoLoss(q)
  BY <1>1, <1>2, <1>3, MemberRead, UpSame, QuietWires
<1>5. s \in StreamState /\ Names(c, s) /\ pages[p].conn = c /\ s.stream = f.stream /\ s.page = p
  BY <1>3, <1>4, HeadNames DEF About, Entry
<1>6. Offered(c, p)
  <2>1. down[c] \in Seq(FrameState)
    BY WiresTyped
  <2>2. 1 \in 1..Len(down[c]) /\ down[c][1] = f
    BY <1>4, <2>1, TailParts
  <2> QED
    BY <1>3, <2>2 DEF Offered
<1>7. PageInv(p) /\ locals[p] \in LocalState
  BY <1>1, <1>3 DEF StreamsInv
<1>8. /\ locals[p].state = "none" /\ locals[p].got = <<>> /\ locals[p].early = <<>>
      /\ pages[p].got = <<>> /\ locals[p].sent = 0 /\ \A e \in Conns : NoText(up[e], p)
  BY <1>6, <1>7 DEF PageInv, OfferSide, LocalSide
<1>9. \A x \in Boots : \A t \in Streams(x) : t.page # p
  BY <1>1, <1>8, OneStream
<1>10. /\ members' = [members EXCEPT ![b] = [members[b] EXCEPT !.streams = S]]
       /\ locals' = [locals EXCEPT ![p] = [locals[p] EXCEPT !.state = "opening", !.boot = b]]
  BY DEF MemberOpens, Streams
<1> HIDE DEF f
<1>11. ASSUME NEW t \in Streams(b)
       PROVE  t.stream # f.stream
  <2>1. t \in StreamState /\ Names(c, t)
    BY <1>1, <1>4, <1>11, ServedNames
  <2>2. t.stream = f.stream => t = s
    BY <1>5, <2>1, OneName
  <2> QED
    BY <1>1, <1>5, <1>9, <2>2
<1>12. \A x \in Boots : members'[x].streams = IF x = b THEN Streams(x) \cup {s} ELSE Streams(x)
  <2>1. S = Streams(b) \cup {s}
    BY <1>11
  <2> HIDE DEF S
  <2>2. \A x \in Boots : members'[x].streams = IF x = b THEN S ELSE Streams(x)
    BY <1>1, <1>10, StreamsOf, Zenon
  <2> QED
    BY <2>1, <2>2
<1>13. \A x \in Boots : members'[x].state = members[x].state
  <2> HIDE DEF S
  <2> QED
    BY <1>1, <1>10, StreamsSame
<1> HIDE DEF s, S
<1>14. /\ locals'[p].state = "opening" /\ locals'[p].boot = b /\ locals'[p].sent = 0
       /\ locals'[p].got = <<>> /\ locals'[p].early = <<>>
  BY <1>1, <1>3, <1>7, <1>8, <1>10 DEF LocalState
<1>15. ASSUME NEW q \in Pages \ {p}
       PROVE  Untouched(q)
  <2>1. locals'[q] = locals[q]
    BY <1>1, <1>10
  <2>2. \A x \in Boots : \A t \in members'[x].streams : t.page = q => t \in Streams(x)
    BY <1>5, <1>12
  <2>3. \A x \in Boots : \A t \in Streams(x) : t \in members'[x].streams
    BY <1>12
  <2>4. FarAside(q)
    BY <1>1, <1>13, <2>1, <2>2, <2>3, FarSame
  <2> QED
    BY <1>2, <1>4, <2>4, HubSame DEF Untouched
<1>16. PageSide(p)'
  BY <1>2, <1>3, HubSame, PageSideKept
<1>17. \A x \in Boots : \A t \in members'[x].streams : t.page = p => x = b /\ t = s
  BY <1>9, <1>12
<1>18. LocalSide(p)'
  <2>1. InOrder(<<>>, p)
    BY <1>7, <1>8 DEF PageInv, LocalSide
  <2> QED
    BY <1>14, <1>17, <2>1 DEF LocalSide, Streams
<1>19. ASSUME NEW e \in Conns
       PROVE  ~Offered(e, p)' /\ OpensFirst(down'[e], p) /\ NoText(up'[e], p)
  <2>1. ~Offered(e, p)'
    <3>1. CASE e = c
      BY <1>2, <1>3, <3>1, OfferRead DEF f, About
    <3>2. CASE e # c
      <4>1. Offered(e, p) => pages[p].conn = e
        BY <1>3, FrameNames DEF Offered, About
      <4>2. Offered(e, p)' => Offered(e, p)
        BY <1>3, <1>4, OfferedBefore DEF NoFrame
      <4> QED
        BY <1>5, <3>2, <4>1, <4>2
    <3> QED
      BY <3>1, <3>2
  <2>2. OpensFirst(down'[e], p)
    BY <1>3, <1>4, <1>7, WiresTyped, FewerSeen DEF NoFrame, PageInv, OfferSide
  <2> QED
    BY <1>2, <1>8, <2>1, <2>2
<1>20. OfferSide(p)'
  <2>1. pages'[p].conn # 0
    BY <1>2, <1>5, ConnIsNotZero
  <2> QED
    BY <1>14, <1>19, <2>1 DEF OfferSide, OpensFirst, About, IsOpen, IsText
<1>21. DownLane(c, p)'
  <2>1. PICK m \in Nat : InARow(down[c], p, Got(p), m) /\ (conns[c].hub = "open" => m = pages[p].sent)
    BY <1>5, <1>6, <1>7 DEF PageInv, DownLane
  <2>2. Got(p)' = Got(p) /\ Got(p) \in Nat
    BY <1>1, <1>3, <1>8, <1>14, PageTyped DEF Got
  <2>3. InARow(down'[c], p, Got(p), m)
    BY <1>3, <1>4, <2>1, <2>2, WiresTyped, RowKept DEF QuietDown
  <2>4. InARow(down[c], p, Got(p), m)'
    BY <2>2, <2>3 DEF InARow, IsText
  <2> QED
    BY <1>2, <2>1, <2>4 DEF DownLane
<1>22. UpLane(c, p)'
  <2>1. Len(pages[p].got) = 0
    BY <1>8, EmptySeq
  <2>2. InARow(up'[c], p, 0, 0)
    BY <1>19, NoRow
  <2>3. InARow(up[c], p, Len(pages[p].got), 0)'
    BY <1>2, <2>1, <2>2 DEF InARow, IsText
  <2> QED
    BY <1>14, <2>3 DEF UpLane
<1>23. NoName(p)
  <2> SUFFICES ASSUME NEW e \in Conns, NEW t \in StreamState, t.page = p, Names(e, t)'
               PROVE  Names(e, t)
    BY DEF NoName
  <2>1. CASE t \in sockets'[e]
    BY <1>2, <2>1 DEF Names
  <2>2. CASE Serves(e, t)'
    <3>1. Current(e) /\ t \in members'[conns[e].boot].streams /\ conns[e].boot \in Boots
      BY <1>1, <1>2, <2>2, BootTyped DEF Serves, Current, Streams
    <3>2. conns[e].boot = b /\ t = s
      BY <1>17, <3>1
    <3>3. e = c
      BY <1>4, <3>1, <3>2 DEF StreamsInv, ProcessesHold
    <3> QED
      BY <1>5, <3>2, <3>3
  <2>3. CASE OnWire(down'[e], t)
    <3>1. OnWire(down[e], t)
      BY <1>3, <1>4, <2>3, WiresTyped, FewerSeen DEF NoFrame
    <3> QED
      BY <3>1 DEF Names
  <2>4. CASE OnWire(up'[e], t)
    BY <1>2, <2>4 DEF Names
  <2> QED
    BY <2>1, <2>2, <2>3, <2>4, NamesAfter
<1>24. PageInv(p)' /\ pages'[p].conn = pages[p].conn
  BY <1>2, <1>5, <1>16, <1>18, <1>20, <1>21, <1>22 DEF PageInv
<1> QED
  BY <1>3, <1>15, <1>23, <1>24, OneTouched

-----------------------------------------------------------------------------
(* The hub's end of a stream begins and sends. *)

\* A page that has no connection is named nowhere, and nothing of it is on a wire.
LEMMA Unnamed ==
    ASSUME FederationInv, StreamsInv, NEW p \in Pages, pages[p].conn = 0
    PROVE  /\ \A c \in Conns : \A s \in StreamState : Names(c, s) => s.page # p
           /\ \A c \in Conns : /\ \A i \in 1..Len(down[c]) : ~About(down[c][i], p)
                               /\ \A i \in 1..Len(up[c]) : ~About(up[c][i], p)
<1>1. \A c \in Conns : c # 0
  BY ConnIsNotZero
<1>2. \A c \in Conns : \A s \in StreamState : Names(c, s) => s.page # p
  BY <1>1 DEF StreamsInv, NamesHold
<1>3. \A c \in Conns : /\ \A i \in 1..Len(down[c]) : ~About(down[c][i], p)
                       /\ \A i \in 1..Len(up[c]) : ~About(up[c][i], p)
  BY <1>1, FrameNames
<1> QED
  BY <1>2, <1>3

LEMMA OpenPageStreams ==
    ASSUME FederationInv, FederationInv', StreamsInv, LinksMove, NEW p \in Pages, NEW d \in Devices, OpenPage(p, d),
           NEW c, c = links[d]
    PROVE  PagesKept
<1> DEFINE n == conns[c].next
           s == Entry(n, p)
           f == OpenFrame(n, p)
<1>1. LinkTypes /\ PageInv(p) /\ pages \in [Pages -> PageState] /\ pages[p] \in PageState
  BY DEF FederationInv, StreamsInv, LinkTypes, HubTypes
<1>2. up' = up /\ members' = members /\ locals' = locals /\ pages[p].state = "new"
  BY DEF OpenPage
<1>3. \A q \in Pages : FarAside(q) /\ QuietUp(q)
  BY <1>1, <1>2, SameFar, UpSame
<1>4. CASE c = 0
  <2>1. pages' = PageEnds(p) /\ sockets' = sockets /\ conns' = conns /\ down' = down
    BY <1>4 DEF OpenPage
  <2>2. \A q \in Pages : HubAside(q)
    BY <1>1, <2>1, PageEndsSame, HubEnds
  <2>3. \A q \in Pages : Untouched(q)
    BY <1>1, <1>3, <2>1, <2>2, DownSame, QuietWires DEF Untouched
  <2> QED
    BY <2>3, NoneTouched
<1>5. CASE c # 0
  <2>1. /\ pages' = [pages EXCEPT ![p] = [pages[p] EXCEPT !.state = "open", !.conn = c]]
        /\ conns' = [conns EXCEPT ![c] = [conns[c] EXCEPT !.next = n + 1]]
        /\ sockets' = [sockets EXCEPT ![c] = sockets[c] \cup {s}]
        /\ down' = ToMember(c, f)
    BY <1>5 DEF OpenPage, NewStream, Entry
  <2>2. /\ c \in Conns /\ n \in Nat /\ conns \in [Conns -> ConnState] /\ conns[c] \in ConnState
        /\ sockets \in [Conns -> SUBSET StreamState] /\ conns[c].hub \in {"open", "closing"}
    BY <1>1, <1>5, LinkIsConn, ConnTyped DEF LinkTypes, HubTypes, FederationInv, HubBonds
  <2>3. /\ f \in FrameState /\ f.stream = n /\ IsOpen(f, p) /\ ~IsText(f, p)
        /\ \A q \in Pages \ {p} : ~About(f, q)
    BY <2>2, FramesMade DEF OpenFrame, IsOpen, IsText, About
  <2>4. s \in StreamState /\ s.page = p /\ s.stream = n
    BY <2>2 DEF Entry, StreamState
  <2> HIDE DEF f, s, n
  <2>5. /\ pages'[p].conn = c /\ pages'[p].state = "open"
        /\ pages'[p].sent = pages[p].sent /\ pages'[p].got = pages[p].got
        /\ \A q \in Pages \ {p} : pages'[q] = pages[q]
    BY <1>1, <2>1 DEF PageState
  <2>6. /\ conns'[c].next = n + 1 /\ conns'[c].hub = conns[c].hub /\ conns'[c].boot = conns[c].boot
        /\ conns'[c].member = conns[c].member /\ \A e \in Conns \ {c} : conns'[e] = conns[e]
    BY <2>1, <2>2 DEF ConnState
  <2>7. sockets'[c] = sockets[c] \cup {s} /\ \A e \in Conns \ {c} : sockets'[e] = sockets[e]
    BY <2>1, <2>2
  <2>8. /\ pages[p].conn = 0 /\ pages[p].sent = 0 /\ pages[p].got = <<>> /\ locals[p].state = "none"
        /\ locals[p].sent = 0 /\ locals[p].got = <<>> /\ locals[p].early = <<>>
    BY <1>1, <1>2 DEF PageInv, PageSide, OfferSide, LocalSide
  <2>9. /\ \A e \in Conns : \A t \in StreamState : Names(e, t) => t.page # p
        /\ \A e \in Conns : /\ \A i \in 1..Len(down[e]) : ~About(down[e][i], p)
                            /\ \A i \in 1..Len(up[e]) : ~About(up[e][i], p)
    BY <2>8, Unnamed
  <2>10. ASSUME NEW q \in Pages \ {p}
         PROVE  Untouched(q)
    <3>1. \A e \in Conns : \A t \in sockets'[e] : t.page = q => t \in sockets[e]
      BY <2>4, <2>7
    <3>2. HubAside(q)
      BY <1>1, <2>5, <3>1, HubEnds
    <3>3. QuietDown(q)
      BY <1>1, <2>1, <2>2, <2>3, HubSent
    <3> QED
      BY <1>3, <3>2, <3>3, QuietWires DEF Untouched
  <2>11. \A e \in Conns : down'[e] = down[e] \/ (e = c /\ down'[e] = Append(down[e], f))
    <3>1. down \in [Conns -> Seq(FrameState)]
      BY <1>1 DEF LinkTypes, WireTypes, Wires
    <3> QED
      BY <2>1, <3>1 DEF ToMember
  <2>12. ASSUME NEW e \in Conns, NEW i \in 1..Len(down'[e]), About(down'[e][i], p)
         PROVE  e = c /\ i = Len(down[c]) + 1 /\ down'[c][i] = f /\ Len(down'[c]) = Len(down[c]) + 1
    <3>1. down'[e] # down[e]
      BY <2>9, <2>12
    <3>2. e = c /\ down'[c] = Append(down[c], f) /\ down[c] \in Seq(FrameState)
      BY <2>11, <3>1, WiresTyped
    <3>3. /\ Len(down[c]) \in Nat /\ Len(down'[c]) = Len(down[c]) + 1 /\ down'[c][Len(down[c]) + 1] = f
          /\ \A j \in 1..Len(down[c]) : down'[c][j] = down[c][j]
      BY <3>2, AppendProperties, LenProperties
    <3>4. i \notin 1..Len(down[c])
      BY <2>2, <2>9, <2>12, <3>2, <3>3
    <3>5. i = Len(down[c]) + 1
      BY <2>12, <3>2, <3>3, <3>4
    <3> QED
      BY <3>2, <3>3, <3>5
  <2>13. ASSUME NEW e \in Conns, NEW t \in StreamState, Names(e, t)'
         PROVE  (t.page # p /\ Names(e, t)) \/ (e = c /\ t = s)
    <3>1. CASE t.page = p
      <4>1. ~Serves(e, t)
        BY <2>9, <3>1 DEF Names
      <4>2. ~Serves(e, t)'
        BY <1>2, <2>6, <4>1 DEF Serves, Current, Streams
      <4>3. ~OnWire(up'[e], t) /\ t \notin sockets[e]
        BY <1>2, <2>9, <3>1 DEF OnWire, Names
      <4>4. t \in sockets'[e] => e = c /\ t = s
        BY <2>7, <4>3
      <4>5. ASSUME OnWire(down'[e], t)
            PROVE  e = c /\ t = s
        <5>1. PICK i \in 1..Len(down'[e]) : down'[e][i].stream = t.stream /\ About(down'[e][i], p)
          BY <3>1, <4>5 DEF OnWire
        <5>2. e = c /\ t.stream = n
          BY <2>3, <2>12, <5>1
        <5> QED
          BY <2>4, <3>1, <5>2, EntryParts
      <4> QED
        BY <4>2, <4>3, <4>4, <4>5, <2>13, NamesAfter
    <3>2. CASE t.page # p
      <4>1. t.page \in Pages \ {p}
        BY <3>2, EntryParts
      <4>2. NoName(t.page)
        BY <2>10, <4>1, UntouchedKeeps
      <4> QED
        BY <2>13, <3>2, <4>2 DEF NoName
    <3> QED
      BY <3>1, <3>2
  <2>14. NamesHold'
    <3> SUFFICES ASSUME NEW e \in Conns, NEW t \in StreamState, Names(e, t)'
                 PROVE  /\ t.stream < conns'[e].next /\ pages'[t.page].conn = e
                        /\ \A u \in StreamState : Names(e, u)' /\ (t.stream = u.stream \/ t.page = u.page) => t = u
      BY DEF NamesHold
    <3>1. CASE t.page # p /\ Names(e, t)
      <4>1. t.stream < conns[e].next /\ pages[t.page].conn = e /\ t.page \in Pages /\ t.stream \in Nat
        BY <3>1, NamedInUse DEF StreamsInv, NamesHold
      <4>2. pages'[t.page].conn = e
        BY <2>5, <3>1, <4>1
      <4>3. t.stream < conns'[e].next
        <5>1. CASE e = c
          BY <2>2, <2>6, <4>1, <5>1 DEF n
        <5>2. CASE e # c
          BY <2>6, <4>1, <5>2
        <5> QED
          BY <5>1, <5>2
      <4>4. ASSUME NEW u \in StreamState, Names(e, u)', t.stream = u.stream \/ t.page = u.page
            PROVE  t = u
        <5>1. CASE Names(e, u)
          BY <3>1, <4>4, <5>1, OneName
        <5>2. CASE e = c /\ u = s
          <6>1. u.stream = n /\ u.page = p /\ t.stream < n
            BY <2>4, <4>1, <5>2 DEF n
          <6> QED
            BY <2>2, <3>1, <4>1, <4>4, <6>1
        <5> QED
          BY <2>13, <4>4, <5>1, <5>2
      <4> QED
        BY <4>2, <4>3, <4>4
    <3>2. CASE e = c /\ t = s
      <4>1. t.stream < conns'[e].next /\ pages'[t.page].conn = e
        BY <2>2, <2>4, <2>5, <2>6, <3>2
      <4>2. ASSUME NEW u \in StreamState, Names(e, u)', t.stream = u.stream \/ t.page = u.page
            PROVE  t = u
        <5>1. CASE u.page # p /\ Names(e, u)
          <6>1. u.stream < n /\ u.stream \in Nat
            BY <3>2, <5>1, NamedInUse DEF StreamsInv, NamesHold, n
          <6> QED
            BY <2>2, <2>4, <3>2, <4>2, <5>1, <6>1
        <5>2. CASE e = c /\ u = s
          BY <3>2, <5>2
        <5> QED
          BY <2>13, <4>2, <5>1, <5>2
      <4> QED
        BY <4>1, <4>2
    <3> QED
      BY <2>13, <3>1, <3>2
  <2>15. PageSide(p)'
    BY <1>1, <2>2, <2>5, <2>6 DEF PageInv, PageSide
  <2>16. LocalSide(p)'
    BY <1>3, LocalSideKept
  <2>17. OfferSide(p)'
    <3>1. \A e \in Conns : OpensFirst(down'[e], p)
      <4> SUFFICES ASSUME NEW e \in Conns, NEW i \in 1..Len(down'[e]), NEW j \in 1..Len(down'[e]),
                          IsOpen(down'[e][i], p), About(down'[e][j], p)
                   PROVE  i <= j
        BY DEF OpensFirst
      <4>1. i = Len(down[c]) + 1 /\ j = Len(down[c]) + 1 /\ i \in Nat
        BY <2>12 DEF About
      <4> QED
        BY <4>1
    <3>2. \A e \in Conns : NoText(up'[e], p)
      BY <1>2, <2>9 DEF NoText, About
    <3> QED
      BY <1>2, <2>5, <2>8, <3>1, <3>2 DEF OfferSide, OpensFirst, NoText, About, IsOpen, IsText
  <2>18. DownLane(c, p)'
    <3>1. NoText(down'[c], p)
      BY <2>2, <2>3, <2>12 DEF NoText, About
    <3>2. Got(p)' = 0
      <4>1. Got(p)' = Len(<<>>) + Len(<<>>)
        BY <1>2, <2>8 DEF Got
      <4> QED
        BY <4>1, EmptySeq
    <3>3. InARow(down[c], p, Got(p), 0)'
      BY <3>1, <3>2, NoRow DEF InARow, IsText
    <3> QED
      BY <2>5, <2>8, <3>3 DEF DownLane
  <2>19. UpLane(c, p)'
    <3>1. NoText(up'[c], p)
      BY <1>2, <2>2, <2>9 DEF NoText, About
    <3>2. Len(pages'[p].got) = 0
      BY <2>5, <2>8, EmptySeq
    <3>3. InARow(up[c], p, Len(pages[p].got), 0)'
      BY <3>1, <3>2, NoRow DEF InARow, IsText
    <3> QED
      BY <1>2, <2>8, <3>3 DEF UpLane
  <2>20. PageInv(p)'
    BY <2>5, <2>15, <2>16, <2>17, <2>18, <2>19 DEF PageInv
  <2>21. \A q \in Pages : PageInv(q)'
    BY <2>10, <2>20, UntouchedKeeps
  <2> QED
    BY <2>14, <2>21 DEF PagesKept
<1> QED
  BY <1>4, <1>5

\* A text at the end of a wire offers nothing.
LEMMA OffersLonger ==
    ASSUME NEW w \in Seq(FrameState), NEW f \in FrameState, NEW p, ~IsOpen(f, p)
    PROVE  /\ OpensFirst(w, p) => OpensFirst(Append(w, f), p)
           /\ (\E i \in 1..Len(Append(w, f)) : IsOpen(Append(w, f)[i], p)) => \E i \in 1..Len(w) : IsOpen(w[i], p)
<1> DEFINE v == Append(w, f)
<1>1. Len(w) \in Nat /\ Len(v) = Len(w) + 1 /\ v[Len(w) + 1] = f /\ \A i \in 1..Len(w) : v[i] = w[i]
  BY AppendProperties, LenProperties
<1> HIDE DEF v
<1>2. \A i \in 1..Len(v) : IsOpen(v[i], p) => i \in 1..Len(w) /\ v[i] = w[i]
  <2> SUFFICES ASSUME NEW i \in 1..Len(v), IsOpen(v[i], p)
               PROVE  i \in 1..Len(w) /\ v[i] = w[i]
    OBVIOUS
  <2>1. i # Len(w) + 1
    BY <1>1
  <2> QED
    BY <1>1, <2>1
<1>3. ASSUME OpensFirst(w, p), NEW i \in 1..Len(v), NEW j \in 1..Len(v), IsOpen(v[i], p), About(v[j], p)
      PROVE  i <= j
  <2>1. i \in 1..Len(w) /\ v[i] = w[i]
    BY <1>2, <1>3
  <2>2. CASE j \in 1..Len(w)
    BY <1>1, <1>3, <2>1, <2>2 DEF OpensFirst
  <2>3. CASE j \notin 1..Len(w)
    BY <1>1, <2>1, <2>3
  <2> QED
    BY <2>2, <2>3
<1>4. /\ OpensFirst(w, p) => OpensFirst(v, p)
      /\ (\E i \in 1..Len(v) : IsOpen(v[i], p)) => \E i \in 1..Len(w) : IsOpen(w[i], p)
  BY <1>2, <1>3 DEF OpensFirst
<1> QED
  BY <1>4 DEF v

\* A page sends a text to the member.
LEMMA PageTextStreams ==
    ASSUME FederationInv, FederationInv', StreamsInv, LinksMove, NEW p \in Pages, NEW c \in Conns, c = pages[p].conn,
           pages[p].state = "open", Relayed(c, p),
           down' = ToMember(c, TextFrame(StreamOf(c, p), Text(p, pages[p].sent + 1))),
           pages' = [pages EXCEPT ![p].sent = @ + 1], sockets' = sockets,
           conns' = conns, up' = up, members' = members, locals' = locals
    PROVE  PagesKept
<1> DEFINE n == pages[p].sent
<1>1. LinkTypes /\ PageInv(p) /\ pages \in [Pages -> PageState] /\ pages[p] \in PageState /\ n \in Nat
  BY PageTyped DEF FederationInv, StreamsInv, LinkTypes, HubTypes
<1>2. PICK s \in sockets[c] : s.page = p /\ StreamOf(c, p) = s.stream
  BY DEF Relayed, StreamOf
<1>3. s \in StreamState /\ s = Entry(s.stream, p) /\ Names(c, s)
  BY <1>1, <1>2, ConnTyped, EntryParts DEF Names
<1> DEFINE f == TextFrame(s.stream, Text(p, n + 1))
<1>4. /\ f \in FrameState /\ IsText(f, p) /\ ~IsOpen(f, p) /\ f.stream = s.stream /\ f.text.nr = n + 1
      /\ \A q \in Pages \ {p} : ~About(f, q)
  <2>1. s.stream \in Nat /\ Text(p, n + 1) \in TextState
    BY <1>1, <1>3, TextMade DEF StreamState
  <2> QED
    BY <2>1, FramesMade DEF TextFrame, Text, IsText, IsOpen, About
<1>5. down' = ToMember(c, f)
  BY <1>2
<1> HIDE DEF f, n
<1>6. /\ conns[c].hub = "open" => down'[c] = Append(down[c], f)
      /\ conns[c].hub # "open" => down'[c] = down[c]
      /\ \A e \in Conns \ {c} : down'[e] = down[e]
  <2>1. down \in [Conns -> Seq(FrameState)]
    BY <1>1 DEF LinkTypes, WireTypes, Wires
  <2> QED
    BY <1>5, <2>1 DEF ToMember
<1>7. /\ pages'[p].sent = n + 1 /\ pages'[p].conn = c /\ pages'[p].got = pages[p].got
      /\ pages'[p].state = pages[p].state
      /\ \A q \in Pages \ {p} : pages'[q] = pages[q]
  BY <1>1 DEF PageState, n
<1>8. \A q \in Pages : FarAside(q) /\ QuietUp(q)
  BY <1>1, SameFar, UpSame
<1>9. ASSUME NEW q \in Pages \ {p}
      PROVE  Untouched(q)
  <2>1. QuietDown(q)
    BY <1>1, <1>4, <1>5, HubSent
  <2>2. HubAside(q)
    BY <1>7 DEF HubAside
  <2> QED
    BY <1>8, <2>1, <2>2, QuietWires DEF Untouched
<1>10. \A x \in Boots : members'[x].streams = Streams(x) /\ \A t \in members'[x].streams : t.page = p => t \in Streams(x)
  BY DEF Streams
<1>11. NoName(p)
  <2> SUFFICES ASSUME NEW e \in Conns, NEW t \in StreamState, t.page = p, Names(e, t)'
               PROVE  Names(e, t)
    BY DEF NoName
  <2>1. CASE t \in sockets'[e] \/ OnWire(up'[e], t)
    BY <2>1 DEF Names
  <2>2. CASE Serves(e, t)'
    <3>1. Serves(e, t)
      BY <1>10, <2>2, ServedBefore
    <3> QED
      BY <3>1 DEF Names
  <2>3. CASE OnWire(down'[e], t)
    <3>1. CASE down'[e] = down[e]
      BY <2>3, <3>1 DEF Names
    <3>2. CASE down'[e] # down[e]
      <4>1. e = c /\ down'[e] = Append(down[e], f) /\ down[e] \in Seq(FrameState)
        BY <1>6, <3>2, WiresTyped
      <4>2. OnWire(down[e], t) \/ f.stream = t.stream
        <5>1. OnWire(Append(down[e], f), t)
          BY <2>3, <4>1
        <5> QED
          BY <1>4, <4>1, <5>1, OnWireLonger
      <4>3. f.stream = t.stream => t = s
        BY <1>3, <1>4, EntryParts
      <4> QED
        BY <1>3, <4>1, <4>2, <4>3 DEF Names
    <3> QED
      BY <3>1, <3>2
  <2> QED
    BY <2>1, <2>2, <2>3, NamesAfter
<1>12. PageSide(p)'
  BY <1>1, <1>7 DEF PageInv, PageSide
<1>13. LocalSide(p)'
  BY <1>8, LocalSideKept
<1>14. ASSUME NEW e \in Conns
       PROVE  OpensFirst(down'[e], p) /\ (Offered(e, p)' => Offered(e, p))
  <2>1. down[e] \in Seq(FrameState) /\ OpensFirst(down[e], p)
    BY <1>1, WiresTyped DEF PageInv, OfferSide
  <2>2. CASE down'[e] = down[e]
    BY <2>1, <2>2 DEF Offered, IsOpen
  <2>3. CASE down'[e] = Append(down[e], f)
    <3>1. /\ OpensFirst(down'[e], p)
          /\ (\E i \in 1..Len(down'[e]) : IsOpen(down'[e][i], p)) => \E i \in 1..Len(down[e]) : IsOpen(down[e][i], p)
      BY <1>4, <2>1, <2>3, OffersLonger, Zenon
    <3> QED
      BY <3>1 DEF Offered, IsOpen
  <2> QED
    BY <1>6, <2>2, <2>3
<1>15. OfferSide(p)'
  <2>1. OfferSide(p)
    BY <1>1 DEF PageInv
  <2> QED
    BY <1>7, <1>14, <2>1 DEF OfferSide, OpensFirst, NoText, About, IsOpen, IsText
<1>16. DownLane(c, p)'
  <2> SUFFICES ASSUME Served(c, p)' \/ Offered(c, p)'
               PROVE  \E m \in Nat : InARow(down[c], p, Got(p), m)' /\ (conns'[c].hub = "open" => m = pages'[p].sent)
    BY DEF DownLane
  <2>1. Served(c, p) \/ Offered(c, p)
    BY <1>10, <1>14, ServedPage
  <2>2. PICK m \in Nat : InARow(down[c], p, Got(p), m) /\ (conns[c].hub = "open" => m = n)
    BY <1>1, <2>1 DEF PageInv, DownLane, n
  <2>3. Got(p)' = Got(p) /\ Got(p) \in Nat /\ down[c] \in Seq(FrameState)
    BY <1>1, PageTyped, WiresTyped DEF Got
  <2>4. CASE conns[c].hub = "open"
    <3>1. m = n /\ down'[c] = Append(down[c], f)
      BY <1>6, <2>2, <2>4
    <3>2. InARow(Append(down[c], f), p, Got(p), m + 1)
      <4>1. f.text.nr = m + 1
        BY <1>4, <3>1
      <4>2. InARow(down[c], p, Got(p), m)
        BY <2>2
      <4> HIDE DEF Got
      <4> QED
        BY <1>4, <2>3, <4>1, <4>2, TextSent
    <3>3. InARow(down'[c], p, Got(p), m + 1)
      BY <3>1, <3>2, Zenon
    <3>4. InARow(down'[c], p, Got(p)', m + 1)
      BY <2>3, <3>3, Zenon
    <3>5. InARow(down[c], p, Got(p), m + 1)'
      BY <3>4, Zenon DEF InARow, IsText
    <3> QED
      BY <1>7, <3>1, <3>5
  <2>5. CASE conns[c].hub # "open"
    <3>1. InARow(down'[c], p, Got(p), m)
      BY <1>6, <2>2, <2>5
    <3>2. InARow(down[c], p, Got(p), m)'
      BY <2>3, <3>1, Zenon DEF InARow, IsText
    <3> QED
      BY <2>5, <3>2
  <2> QED
    BY <2>4, <2>5
<1>17. UpLane(c, p)'
  <2>1. Fewer(up[c], up'[c], p) /\ Kept(up[c], up'[c], p)
    BY <1>8 DEF QuietUp
  <2> QED
    BY <1>7, <1>10, <2>1, UpLaneKept
<1>18. PageInv(p)' /\ pages'[p].conn = pages[p].conn
  BY <1>7, <1>12, <1>13, <1>15, <1>16, <1>17 DEF PageInv
<1> QED
  BY <1>9, <1>11, <1>18, OneTouched

LEMMA PageSendsStreams ==
    ASSUME FederationInv, FederationInv', StreamsInv, LinksMove, NEW p \in Pages, PageSends(p) \/ PageCloses(p)
    PROVE  PagesKept
<1>1. /\ pages[p].state = "open" /\ Relayed(pages[p].conn, p) /\ pages[p].conn \in Conns
      /\ conns' = conns /\ up' = up /\ members' = members /\ locals' = locals
  BY StreamOfTyped DEF PageSends, PageCloses, FederationInv
<1>2. CASE /\ down' = ToMember(pages[p].conn, CloseFrame(StreamOf(pages[p].conn, p)))
           /\ pages' = PageEnds(p)
           /\ sockets' = Forgotten(pages[p].conn, p)
  <2>1. \A q \in Pages : Untouched(q)
    BY <1>1, <1>2, PageGoes
  <2> QED
    BY <2>1, NoneTouched
<1>3. CASE /\ down' = ToMember(pages[p].conn, TextFrame(StreamOf(pages[p].conn, p), Text(p, pages[p].sent + 1)))
           /\ pages' = [pages EXCEPT ![p].sent = @ + 1]
           /\ UNCHANGED sockets
  <2>1. PICK c \in Conns : c = pages[p].conn
    BY <1>1
  <2> QED
    BY <1>1, <1>3, <2>1, PageTextStreams
<1> QED
  BY <1>2, <1>3 DEF PageSends, PageCloses

-----------------------------------------------------------------------------
(* The hub reads a text for a page. *)

LEMMA HubDeliversPage ==
    ASSUME FederationInv, FederationInv', StreamsInv, LinksMove, NEW c \in Conns, HubReads(c, "text"),
           NEW g \in Pages, g = Head(up[c]).text.page, Entry(Head(up[c]).stream, g) \in sockets[c],
           pages'[g] = [pages[g] EXCEPT !.got = Append(@, Head(up[c]).text)],
           sockets' = sockets, down' = down, conns' = conns, members' = members, locals' = locals
    PROVE  PageInv(g)' /\ NoName(g)
<1> DEFINE f == Head(up[c])
           k == Len(pages[g].got)
<1>1. /\ LinkTypes /\ PageInv(g) /\ up[c] \in Seq(FrameState) /\ pages[g] \in PageState
      /\ k \in Nat /\ pages[g].got \in Seq(TextState)
  BY PageTyped, WiresTyped DEF FederationInv, StreamsInv
<1>2. /\ up[c] # <<>> /\ up'[c] = Tail(up[c])
      /\ \A e \in Conns : Fewer(up[e], up'[e], g)
  BY <1>1, HubRead
<1>3. f \in FrameState /\ f.text \in TextState /\ IsText(f, g)
  BY <1>1, HubReadsTyped, FrameParts DEF IsText
<1>4. pages[g].conn = c /\ c # 0
  BY <1>2, <1>3, HeadNames, ConnIsNotZero DEF About
<1>5. Relayed(c, g)
  BY DEF Relayed, Entry
<1>6. PICK m \in Nat : /\ InARow(up[c], g, k, m)
                       /\ Served(c, g) /\ conns[c].member = "open" => m = locals[g].sent
  <2>1. UpLane(c, g)
    BY <1>1, <1>4, Zenon DEF PageInv
  <2> QED
    BY <1>5, <2>1, Zenon DEF UpLane
<1>7. f.text.nr = k + 1 /\ InARow(up'[c], g, k + 1, m)
  <2>1. f.text.nr = k + 1 /\ InARow(Tail(up[c]), g, k + 1, m)
    <3>1. InARow(up[c], g, k, m)
      BY <1>6, Zenon
    <3> HIDE DEF k
    <3> QED
      BY <1>1, <1>2, <1>3, <3>1, TextRead
  <2> QED
    BY <1>2, <2>1, Zenon
<1>8. f.text = Text(g, k + 1)
  <2>1. f.text = [page |-> f.text.page, nr |-> f.text.nr]
    BY <1>3 DEF TextState
  <2> QED
    BY <1>7, <2>1, Zenon DEF Text
<1>9. locals[g].state # "none"
  <2>1. 1 \in 1..Len(up[c]) /\ up[c][1] = f
    BY <1>1, <1>2, TailParts
  <2>2. ~NoText(up[c], g)
    BY <1>3, <2>1 DEF NoText
  <2> QED
    BY <1>1, <2>2, Zenon DEF PageInv, OfferSide
<1> HIDE DEF f, k
<1>10. /\ pages'[g].got = Append(pages[g].got, f.text) /\ pages'[g].state = pages[g].state
       /\ pages'[g].conn = pages[g].conn /\ pages'[g].sent = pages[g].sent
  BY <1>1, Zenon DEF PageState, f
<1>11. InOrder(pages'[g].got, g) /\ Len(pages'[g].got) = k + 1
  <2>1. InOrder(pages[g].got, g)
    BY <1>1, Zenon DEF PageInv, PageSide
  <2>2. InOrder(Append(pages[g].got, f.text), g)
    BY <1>1, <1>3, <1>8, <2>1, InOrderLonger, Zenon DEF k
  <2>3. Len(Append(pages[g].got, f.text)) = k + 1
    BY <1>1, <1>3, AppendProperties DEF k
  <2> QED
    BY <1>10, <2>2, <2>3, Zenon
<1>12. PageSide(g)'
  BY <1>1, <1>4, <1>10, <1>11, Zenon DEF PageInv, PageSide
<1>13. LocalSide(g)'
  BY <1>1, SameFar, LocalSideKept
<1>14. QuietDown(g) /\ NoFrame(g)
  BY <1>1, <1>2, DownSame, Zenon DEF NoFrame, QuietDown
<1>15. OfferSide(g)'
  <2>1. \A e \in Conns : OpensFirst(down'[e], g) /\ ~Offered(e, g)'
    BY <1>1, <1>9, Zenon DEF PageInv, OfferSide, Offered, IsOpen
  <2> QED
    BY <1>4, <1>9, <1>10, <2>1, Zenon DEF OfferSide, OpensFirst, About, IsOpen, IsText
<1>16. \A x \in Boots : \A t \in members'[x].streams : t.page = g => t \in Streams(x)
  BY DEF Streams
<1>17. NoName(g)
  BY <1>14, <1>16, UntouchedNames
<1>18. DownLane(c, g)'
  <2>1. Fewer(down[c], down'[c], g) /\ Kept(down[c], down'[c], g) /\ Got(g)' = Got(g)
    BY <1>14 DEF QuietDown, Got
  <2> QED
    BY <1>4, <1>10, <1>16, <2>1, DownLaneKept, Zenon
<1>19. UpLane(c, g)'
  <2>1. InARow(up[c], g, Len(pages[g].got), m)'
    BY <1>7, <1>11, Zenon DEF InARow, IsText
  <2>2. Served(c, g)' /\ conns'[c].member = "open" => m = locals'[g].sent
    BY <1>6, <1>16, ServedPage
  <2> QED
    BY <2>1, <2>2, Zenon DEF UpLane
<1> QED
  BY <1>4, <1>10, <1>12, <1>13, <1>15, <1>17, <1>18, <1>19, Zenon DEF PageInv

LEMMA HubDeliversStreams ==
    ASSUME FederationInv, FederationInv', StreamsInv, LinksMove, NEW c \in Conns, HubReads(c, "text"),
           pages' = [p \in Pages |-> IF [stream |-> Head(up[c]).stream, page |-> p] \in sockets[c]
                                     THEN [pages[p] EXCEPT !.got = Append(@, Head(up[c]).text)] ELSE pages[p]],
           sockets' = sockets, down' = down, conns' = conns, members' = members, locals' = locals
    PROVE  PagesKept
<1> DEFINE f == Head(up[c])
<1>1. LinkTypes
  BY DEF FederationInv
<1>2. PICK g \in Pages : g = f.text.page
  BY <1>1, HubReadsTyped, FrameParts DEF TextState
<1>3. up[c] # <<>> /\ IsText(f, g)
  BY <1>1, <1>2, HubRead DEF HubReads, IsText
<1>4. Entry(f.stream, g) \in StreamState /\ Names(c, Entry(f.stream, g)) /\ pages[g].conn = c
  BY <1>3, HeadNames DEF About
<1>5. ASSUME NEW q \in Pages, Entry(f.stream, q) \in sockets[c]
      PROVE  q = g
  <2>1. Entry(f.stream, q) \in StreamState /\ Names(c, Entry(f.stream, q))
    BY <1>1, <1>5, ConnTyped DEF Names
  <2>2. Entry(f.stream, q) = Entry(f.stream, g)
    BY <1>4, <2>1, OneName DEF Entry
  <2> QED
    BY <2>2 DEF Entry
<1>6. ASSUME NEW q \in Pages, q # g \/ Entry(f.stream, g) \notin sockets[c]
      PROVE  Untouched(q)
  <2>1. pages'[q] = pages[q]
    BY <1>5, <1>6 DEF Entry
  <2>2. FarAside(q) /\ HubAside(q)
    BY <1>1, <2>1, SameFar DEF HubAside
  <2>3. QuietDown(q) /\ \A e \in Conns : Fewer(up[e], up'[e], q) /\ (e # c => Kept(up[e], up'[e], q))
    BY <1>1, DownSame, HubRead
  <2>4. CASE q # g
    <3>1. ~IsText(f, q)
      BY <1>2, <2>4 DEF IsText
    <3>2. QuietUp(q)
      BY <1>1, <3>1, HubRead
    <3> QED
      BY <2>2, <2>3, <3>2, QuietWires DEF Untouched
  <2>5. CASE q = g /\ Entry(f.stream, g) \notin sockets[c]
    <3>1. ~Relayed(c, q)'
      <4> SUFFICES ASSUME NEW t \in sockets[c], t.page = g
                   PROVE  FALSE
        BY <2>5 DEF Relayed
      <4>1. t \in StreamState /\ Names(c, t)
        BY <1>1, ConnTyped DEF Names
      <4>2. t = Entry(f.stream, g)
        BY <1>4, <4>1, OneName DEF Entry
      <4> QED
        BY <2>5, <4>2
    <3>2. NoFrame(q) /\ NoLoss(q)
      BY <1>4, <2>3, <2>5, <3>1 DEF NoFrame, NoLoss, QuietDown
    <3> QED
      BY <2>2, <3>2 DEF Untouched
  <2> QED
    BY <1>6, <2>4, <2>5
<1>7. CASE Entry(f.stream, g) \notin sockets[c]
  BY <1>6, <1>7, NoneTouched
<1>8. CASE Entry(f.stream, g) \in sockets[c]
  <2>1. pages'[g] = [pages[g] EXCEPT !.got = Append(@, f.text)] /\ pages'[g].conn = pages[g].conn
    <3>1. pages'[g] = [pages[g] EXCEPT !.got = Append(@, f.text)]
      BY <1>8 DEF Entry
    <3>2. pages[g] \in PageState
      BY <1>1 DEF LinkTypes, HubTypes
    <3> QED
      BY <3>1, <3>2 DEF PageState
  <2>2. PageInv(g)' /\ NoName(g)
    BY <1>2, <1>8, <2>1, HubDeliversPage, Zenon
  <2> QED
    BY <1>6, <2>1, <2>2, OneTouched
<1> QED
  BY <1>7, <1>8

\* A page too slow to take its text is closed, and its stream forgotten.
LEMMA HubDropsAside ==
    ASSUME FederationInv, StreamsInv, NEW c \in Conns, HubReads(c, "text"), NEW p \in Pages,
           Entry(Head(up[c]).stream, p) \in sockets[c], pages' = PageEnds(p), sockets' = Forgotten(c, p),
           down' = ToMember(c, CloseFrame(Head(up[c]).stream)), members' = members, locals' = locals, NEW q \in Pages
    PROVE  Untouched(q)
<1> DEFINE f == Head(up[c])
           s == Entry(f.stream, p)
<1>1. LinkTypes /\ s \in StreamState /\ Names(c, s) /\ s.page = p /\ s.stream = f.stream
  BY ConnTyped DEF FederationInv, Names, Entry
<1>2. /\ \A e \in Conns : \A t \in sockets'[e] : t \in sockets[e]
      /\ \A t \in sockets'[c] : t.page # p
  BY <1>1, ForgottenLess
<1>3. HubAside(q)
  BY <1>1, <1>2, PageEndsSame, HubEnds
<1>4. FarAside(q)
  BY <1>1, SameFar
<1>5. QuietDown(q)
  <2>1. f.stream \in Nat
    BY <1>1 DEF StreamState
  <2>2. CloseFrame(f.stream) \in FrameState /\ ~About(CloseFrame(f.stream), q)
    BY <2>1, FramesMade DEF CloseFrame, About, IsOpen, IsText
  <2> QED
    BY <1>1, <2>2, HubSent
<1>6. /\ up[c] # <<>>
      /\ \A e \in Conns : Fewer(up[e], up'[e], q) /\ (e # c => Kept(up[e], up'[e], q))
      /\ ~IsText(f, q) => QuietUp(q)
  BY <1>1, HubRead
<1> HIDE DEF f, s
<1>7. CASE ~IsText(f, q)
  BY <1>3, <1>4, <1>5, <1>6, <1>7, QuietWires DEF Untouched
<1>8. CASE IsText(f, q)
  <2>1. Entry(f.stream, q) \in StreamState /\ Names(c, Entry(f.stream, q))
    BY <1>6, <1>8, HeadNames DEF About, f
  <2>2. Entry(f.stream, q) = s
    BY <1>1, <2>1, OneName DEF Entry
  <2>3. q = p
    BY <1>1, <2>2 DEF Entry
  <2>4. ~Relayed(c, q)'
    BY <1>2, <2>3 DEF Relayed
  <2>5. NoFrame(q) /\ NoLoss(q)
    BY <1>5, <1>6, <2>4 DEF NoFrame, NoLoss, QuietDown
  <2> QED
    BY <1>3, <1>4, <2>5 DEF Untouched
<1> QED
  BY <1>7, <1>8

LEMMA HubTextStreams ==
    ASSUME FederationInv, FederationInv', StreamsInv, LinksMove, NEW c \in Conns, HubText(c)
    PROVE  PagesKept
<1>1. HubReads(c, "text") /\ conns' = conns /\ members' = members /\ locals' = locals
  BY DEF HubText
<1>2. CASE /\ pages' = [p \in Pages |-> IF [stream |-> Head(up[c]).stream, page |-> p] \in sockets[c]
                                        THEN [pages[p] EXCEPT !.got = Append(@, Head(up[c]).text)] ELSE pages[p]]
           /\ UNCHANGED <<sockets, down>>
  BY <1>1, <1>2, HubDeliversStreams
<1>3. CASE \E p \in Pages :
            /\ [stream |-> Head(up[c]).stream, page |-> p] \in sockets[c]
            /\ pages' = PageEnds(p)
            /\ sockets' = Forgotten(c, p)
            /\ down' = ToMember(c, CloseFrame(Head(up[c]).stream))
  <2>1. \A q \in Pages : Untouched(q)
    BY <1>1, <1>3, HubDropsAside DEF Entry
  <2> QED
    BY <2>1, NoneTouched
<1> QED
  BY <1>2, <1>3 DEF HubText

-----------------------------------------------------------------------------
(* Every step keeps the streams. *)

LEMMA AsideNone ==
    ASSUME FederationInv, FederationInv', StreamsInv, Aside,
           \A p \in Pages : Untouched(p) /\ \A x \in Boots : members'[x].streams \subseteq Streams(x)
    PROVE  StreamsInv'
<1>1. LinksMove
  BY AsideMoves
<1>2. PagesKept
  BY <1>1, NoneTouched
<1>3. ASSUME NEW x \in Boots, members'[x].streams # {}
      PROVE  Streams(x) # {}
  <2>1. PICK s \in members'[x].streams : TRUE
    BY <1>3
  <2>2. LinkTypes'
    BY DEF FederationInv
  <2>3. members'[x] \in MemberState
    BY <2>2 DEF LinkTypes, FarTypes
  <2>4. s.page \in Pages
    BY <2>1, <2>3, EntryParts DEF MemberState
  <2> QED
    BY <2>1, <2>4
<1> QED
  BY <1>2, <1>3, AsideStreams

LEMMA AsideMembers ==
    ASSUME FederationInv, FederationInv', StreamsInv, Aside, LinksMove => PagesKept, members' = members
    PROVE  StreamsInv'
BY AsideStreams DEF Streams

LEMMA AsideKeepsStreams ==
    ASSUME FederationInv, FederationInv', StreamsInv, Aside
    PROVE  StreamsInv'
<1>1. LinksMove
  BY AsideMoves
<1>2. CASE \E b \in Boots : Answer(b)
  BY <1>2, AnswerAside, AsideNone
<1>3. CASE \E c \in Conns : MemberDirectory(c) \/ MemberRequest(c)
  BY <1>3, MemberNotes, AsideNone
<1>4. CASE \E c \in Conns : MemberOpens(c)
  <2>1. PICK c \in Conns : MemberOpens(c)
    BY <1>4
  <2>2. Current(c) /\ conns[c].boot \in Boots /\ Head(down[c]).page \in Pages
    BY <2>1, MemberRead, MemberReadsTyped, FrameParts, BootTyped DEF MemberOpens, FederationInv
  <2>3. \A x \in Boots \ {conns[c].boot} : members'[x] = members[x]
    BY <2>1 DEF MemberOpens, FederationInv, LinkTypes, FarTypes
  <2>4. PICK b \in Boots, p \in Pages : b = conns[c].boot /\ p = Head(down[c]).page
    BY <2>2
  <2>5. PagesKept
    BY <1>1, <2>1, <2>4, MemberOpensStreams
  <2>6. ASSUME NEW x \in Boots, members'[x].streams # {}
        PROVE  Streams(x) # {} \/ \E e \in Conns : conns[e].boot = x /\ Current(e)
    BY <2>2, <2>3, <2>6 DEF Streams
  <2> QED
    BY <2>5, <2>6, AsideStreams
<1>5. CASE \E c \in Conns : MemberText(c)
  BY <1>5, MemberTextStreams
<1>6. CASE \E c \in Conns : MemberClose(c)
  BY <1>6, MemberCloseAside, AsideNone
<1>7. CASE \/ \E c \in Conns : HubResponse(c)
           \/ \E r \in Requests : TimesOut(r) \/ \E d \in Devices : Ask(r, d)
  <2>1. \A p \in Pages : Untouched(p) /\ \A x \in Boots : members'[x].streams \subseteq Streams(x)
    BY <1>7, HubAsks
  <2> QED
    BY <2>1, AsideNone
<1>8. CASE \E c \in Conns : HubText(c)
  <2>1. members' = members
    BY <1>8 DEF HubText
  <2> QED
    BY <1>1, <1>8, <2>1, HubTextStreams, AsideMembers
<1>9. CASE \E c \in Conns : HubClose(c)
  BY <1>9, HubCloseAside, AsideNone
<1>10. CASE \E p \in Pages : PageSends(p) \/ PageCloses(p)
  <2>1. members' = members
    BY <1>10 DEF PageSends, PageCloses
  <2> QED
    BY <1>1, <1>10, <2>1, PageSendsStreams, AsideMembers
<1>11. CASE \E p \in Pages : LocalOpens(p)
  <2>1. PICK p \in Pages : LocalOpens(p)
    BY <1>11
  <2>2. members' = members
    BY <2>1 DEF LocalOpens
  <2>3. PagesKept
    <3>1. CASE \E s \in Streams(locals[p].boot) : s.page = p
      BY <1>1, <2>1, <3>1, OpensStreams
    <3>2. CASE \A s \in Streams(locals[p].boot) : s.page # p
      BY <1>1, <2>1, <3>2, OpensLate, NoneTouched
    <3> QED
      BY <3>1, <3>2
  <2> QED
    BY <2>2, <2>3, AsideMembers
<1>12. CASE \E p \in Pages : LocalFails(p)
  BY <1>12, LocalFailsAside, AsideNone
<1>13. CASE \E p \in Pages : LocalSends(p)
  <2>1. members' = members
    BY <1>13 DEF LocalSends
  <2> QED
    BY <1>1, <1>13, <2>1, LocalSendsStreams, AsideMembers
<1>14. CASE \E p \in Pages, d \in Devices : OpenPage(p, d)
  <2>1. PICK p \in Pages, d \in Devices : OpenPage(p, d)
    BY <1>14
  <2>2. PICK c : c = links[d]
    OBVIOUS
  <2>3. members' = members
    BY <2>1 DEF OpenPage
  <2> QED
    BY <1>1, <2>1, <2>2, <2>3, OpenPageStreams, AsideMembers
<1> QED
  BY <1>2, <1>3, <1>4, <1>5, <1>6, <1>7, <1>8, <1>9, <1>10, <1>11, <1>12, <1>13, <1>14 DEF Aside

LEMMA IdleStreams ==
    ASSUME FederationInv, FederationInv', StreamsInv, UNCHANGED vars
    PROVE  StreamsInv'
<1>1. LinkTypes /\ SameLinks /\ conns' = conns /\ members' = members /\ locals' = locals /\ pages' = pages
      /\ sockets' = sockets /\ up' = up /\ down' = down
  BY DEF FederationInv, SameLinks, vars, hub, ends
<1>2. LinksMove
  BY <1>1, SameLinksMove
<1>3. \A p \in Pages : Untouched(p)
  BY <1>1, HubSame, SameFar, DownSame, UpSame, QuietWires DEF Untouched
<1>4. ProcessesHold'
  BY <1>1, SameProcesses DEF Streams
<1> QED
  BY <1>2, <1>3, <1>4, NoneTouched DEF PagesKept, StreamsInv

LEMMA NextStreams == FederationInv /\ StreamsInv /\ [Next]_vars => StreamsInv'
<1> SUFFICES ASSUME FederationInv, StreamsInv, [Next]_vars
             PROVE  StreamsInv'
  OBVIOUS
<1>1. FederationInv'
  BY NextKeeps
<1>2. CASE Next
  <2>1. CASE \E b \in Boots : Connect(b) \/ Retry(b)
    <3>1. PICK b \in Boots, c \in Conns : Dials(b, c, FALSE) /\ (members[b].timer \/ (members[b].state # "left" /\ members[b].socket = 0))
      BY <2>1 DEF Connect, Retry
    <3>2. members[b].state # "left" /\ members[b].socket = 0
      BY <3>1 DEF StreamsInv, ProcessesHold, FederationInv, MemberBonds
    <3> QED
      BY <1>1, <3>1, <3>2, DialsStreams
  <2>2. CASE \E b \in Boots : Leave(b)
    BY <1>1, <2>2, LeaveStreams
  <2>3. CASE \E c \in Conns : \/ Authenticate(c) \/ Saved(c) \/ MemberOpen(c) \/ HubClosed(c)
                              \/ MemberClosed(c) \/ Cut(c)
    BY <1>1, <2>3, AuthenticateStreams, SavedStreams, MemberOpenStreams, HubClosedStreams, MemberClosedStreams, CutStreams
  <2>4. CASE \E k \in Tokens : Unlist(k) \/ \E d \in Devices \cup {NoDevice} : RemoveEnds(k, d)
    BY <1>1, <2>4, UnlistStreams, RemoveEndsStreams
  <2>5. CASE Aside
    BY <1>1, <2>5, AsideKeepsStreams
  <2> QED
    BY <1>2, <2>1, <2>2, <2>3, <2>4, <2>5 DEF Next, LinkStep, Aside
<1>3. CASE UNCHANGED vars
  BY <1>1, <1>3, IdleStreams
<1> QED
  BY <1>2, <1>3

LEMMA InitStreams == Init => StreamsInv
<1> SUFFICES ASSUME Init
             PROVE  StreamsInv
  OBVIOUS
<1>1. /\ \A c \in Conns : /\ conns[c].member = "none" /\ down[c] = <<>> /\ up[c] = <<>> /\ sockets[c] = {}
      /\ \A b \in Boots : /\ members[b].streams = {} /\ members[b].socket = 0
                          /\ members[b].state = "left" => ~members[b].timer
      /\ \A p \in Pages : /\ pages[p].state = "new" /\ pages[p].conn = 0 /\ pages[p].sent = 0 /\ pages[p].got = <<>>
                          /\ locals[p].state = "none" /\ locals[p].sent = 0
                          /\ locals[p].got = <<>> /\ locals[p].early = <<>>
  BY FreeTyped DEF Init
<1>2. Len(<<>>) = 0 /\ DOMAIN <<>> = {} /\ 1..0 = {}
  BY EmptySeq
<1>3. \A c \in Conns : conns[c].boot \in Boots
  BY InitTypes, BootTyped
<1>4. ProcessesHold
  BY <1>1, <1>3 DEF ProcessesHold, Current, Streams
<1>5. NamesHold
  BY <1>1, <1>2 DEF NamesHold, Names, Serves, Current, OnWire
<1>6. ASSUME NEW p \in Pages
      PROVE  PageInv(p)
  <2>1. PageSide(p) /\ LocalSide(p)
    BY <1>1, <1>2 DEF PageSide, LocalSide, InOrder, Streams
  <2>2. OfferSide(p)
    BY <1>1, <1>2 DEF OfferSide, OpensFirst, Offered, NoText
  <2>3. \A c \in Conns : pages[p].conn # c
    BY <1>1, ConnIsNotZero
  <2> QED
    BY <2>1, <2>2, <2>3 DEF PageInv
<1> QED
  BY <1>4, <1>5, <1>6 DEF StreamsInv

\* What the run checks follows.
LEMMA StreamsAgree == FederationInv /\ StreamsInv => StreamsHold
<1> SUFFICES ASSUME FederationInv, StreamsInv
             PROVE  StreamsHold
  OBVIOUS
<1>1. LinkTypes
  BY DEF FederationInv
<1>2. TextsInOrder
  <2> SUFFICES ASSUME NEW p \in Pages
               PROVE  InOrder(locals[p].got \o locals[p].early, p) /\ InOrder(pages[p].got, p)
    BY DEF TextsInOrder
  <2>1. PageSide(p) /\ LocalSide(p) /\ locals[p].got \in Seq(TextState) /\ locals[p].early \in Seq(TextState)
    BY <1>1, PageTyped DEF StreamsInv, PageInv
  <2>2. /\ <<>> \o locals[p].early = locals[p].early
        /\ locals[p].got \o <<>> = locals[p].got
    BY <2>1, ConcatEmptySeq
  <2>3. locals[p].got \o locals[p].early \in {locals[p].got, locals[p].early}
    BY <2>1, <2>2 DEF LocalSide
  <2> QED
    BY <2>1, <2>3 DEF PageSide, LocalSide
<1>3. NoOrphans
  <2> SUFFICES ASSUME AllClosed, NEW p \in Pages, locals[p].state = "open"
               PROVE  members[locals[p].boot].state = "left"
    BY DEF NoOrphans
  <2> DEFINE b == locals[p].boot
  <2>1. b \in Boots /\ LocalSide(p)
    BY <1>1, PageTyped DEF StreamsInv, PageInv
  <2>2. members[b].socket = 0
    <3>1. members[b].socket # 0 => /\ members[b].socket \in Conns
                                   /\ conns[members[b].socket].member \in {"connecting", "open"}
      BY <1>1, <2>1, SocketIsConn DEF FederationInv, MemberBonds
    <3> QED
      BY <3>1 DEF AllClosed
  <2>3. Streams(b) # {} => members[b].state = "left"
    BY <2>1, <2>2 DEF StreamsInv, ProcessesHold
  <2> QED
    BY <2>1, <2>3 DEF LocalSide
<1> QED
  BY <1>2, <1>3 DEF StreamsHold

(* What a page and its local socket send each other arrives in order and    *)
(* without a gap, for every number of pages, streams, early messages, links *)
(* rebuilt and processes that leave; and when the links are gone no local   *)
(* socket of a process that stayed is open (openStream, its early queue,    *)
(* the streams of a link and its closing): the invariant StreamsHold.       *)
THEOREM StreamsTrue == Spec => []StreamsHold
<1>1. Init => FederationInv /\ StreamsInv
  BY InitTypes, InitBonds, InitStreams DEF FederationInv
<1>2. FederationInv /\ StreamsInv /\ [Next]_vars => FederationInv' /\ StreamsInv'
  BY NextKeeps, NextStreams
<1>3. FederationInv /\ StreamsInv => StreamsHold
  BY StreamsAgree
<1> QED
  BY <1>1, <1>2, <1>3, PTL DEF Spec
=============================================================================
