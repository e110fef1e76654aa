-------------------------------- MODULE MCBrowser --------------------------------
(***************************************************************************)
(* What a page shows of its tabs and of the index, the sealed channel      *)
(* under both, its terminal (the screen, the stream of bytes, and the keys  *)
(* that go the other way), and a document.  A behaviour is one of the seven. *)
(***************************************************************************)
EXTENDS TabMirror, IndexMirror, SealedChannel, Projection, TerminalStream, TerminalInput, DocumentView

VARIABLE part
browserVars == <<part, mirrorVars, indexVars, channelVars, screenVars, streamVars, inputVars, documentVars>>

TabLoad(writes, kinds, loads, drops) == [writes |-> writes, kinds |-> kinds, loads |-> loads, drops |-> drops]
TabLoads ==
  { TabLoad(3, {"add", "settle", "insert", "drag", "remove"}, 0, 0),
    TabLoad(2, {"add", "settle", "insert", "drag", "remove", "edit", "retry"}, 0, 0),
    TabLoad(2, {"add", "settle", "drag", "remove"}, 1, 0),
    TabLoad(2, {"settle", "retry", "drag"}, 0, 1) }
SidebarLoads ==
  { [writes |-> 2, prefers |-> 0, refreshes |-> 1, drops |-> 1],
    [writes |-> 1, prefers |-> 1, refreshes |-> 0, drops |-> 1],
    [writes |-> 4, prefers |-> 0, refreshes |-> 0, drops |-> 0] }
Channel(switches, types, events, crossing) ==
  [switches |-> switches, types |-> types, events |-> events, crossing |-> crossing]
ChannelOrderly == { Channel(1, 1, 0, FALSE), Channel(0, 2, 1, FALSE) }
Shown(changes, kinds, away, stalls) == [changes |-> changes, kinds |-> kinds, looks |-> away, stalls |-> stalls]
ScreenRuns ==
  { Shown(2, {"output"}, 1, 0), Shown(2, {"output"}, 0, 1), Shown(2, {"output", "resize"}, 1, 0),
    Shown(2, {"output", "restart"}, 0, 0) }
Streamed(bytes, restarts, away, views, stopped, resyncs) ==
  [bytes |-> bytes, restarts |-> restarts, looks |-> away, views |-> views, late |-> stopped, resyncs |-> resyncs]
StreamRuns ==
  { Streamed(3, 0, 1, 0, 0, 0), Streamed(2, 1, 1, 0, 0, 0), Streamed(2, 1, 0, 0, 1, 0), Streamed(2, 0, 0, 1, 0, 1),
    Streamed(2, 1, 0, 1, 0, 0) }
Typing(keys, away, lost) == [keys |-> keys, looks |-> away, losses |-> lost]
InputRuns == { Typing(3, 0, 1), Typing(2, 1, 0), Typing(1, 1, 1) }
Opened(opens, more, saves, restarts, lost, away) ==
  [asks |-> opens, reads |-> more, writes |-> saves, restarts |-> restarts, fails |-> lost, looks |-> away]
DocumentRuns ==
  { Opened(2, 1, 0, 1, 0, 0), Opened(2, 1, 1, 0, 0, 0), Opened(1, 1, 0, 0, 1, 1), Opened(2, 0, 0, 0, 0, 1),
    Opened(3, 0, 0, 1, 0, 0), Opened(2, 0, 0, 2, 0, 0), Opened(1, 0, 0, 1, 0, 1), Opened(1, 3, 0, 0, 0, 1) }
TwoAndOne == <<2, 1>>

BrowserInit ==
  /\ part \in {"tab", "sidebar", "channel", "screen", "stream", "input", "document"}
  /\ MirrorInit /\ (part # "tab" => left.loads = 1)
  /\ IndexInit /\ (part # "sidebar" => quota.prefers = 1)
  /\ ChannelInit /\ (part # "channel" => serverKey = 0 /\ allowed.switches = 1)
  /\ ScreenInit /\ (part # "screen" => spare.stalls = 1)
  /\ StreamInit /\ (part # "stream" => purse.late = 1)
  /\ InputInit /\ (part # "input" => budget.keys = 1)
  /\ DocumentInit /\ (part # "document" => funds.restarts = 2)

BrowserNext ==
  \/ part = "tab" /\ MirrorNext
     /\ UNCHANGED <<part, indexVars, channelVars, screenVars, streamVars, inputVars, documentVars>>
  \/ part = "sidebar" /\ IndexNext
     /\ UNCHANGED <<part, mirrorVars, channelVars, screenVars, streamVars, inputVars, documentVars>>
  \/ part = "channel" /\ ChannelNext
     /\ UNCHANGED <<part, mirrorVars, indexVars, screenVars, streamVars, inputVars, documentVars>>
  \/ part = "screen" /\ ScreenNext
     /\ UNCHANGED <<part, mirrorVars, indexVars, channelVars, streamVars, inputVars, documentVars>>
  \/ part = "stream" /\ StreamNext
     /\ UNCHANGED <<part, mirrorVars, indexVars, channelVars, screenVars, inputVars, documentVars>>
  \/ part = "input" /\ InputNext
     /\ UNCHANGED <<part, mirrorVars, indexVars, channelVars, screenVars, streamVars, documentVars>>
  \/ part = "document" /\ DocumentNext
     /\ UNCHANGED <<part, mirrorVars, indexVars, channelVars, screenVars, streamVars, inputVars>>
BrowserSpec == BrowserInit /\ [][BrowserNext]_browserVars

-----------------------------------------------------------------------------
\* A page shows the tab of the revision it holds, and asks with that revision (TabMirror).
PageIsTrue == MirrorTypes /\ PageIsAsNewAsItSays
\* A socket whose key both ends have counts its messages alike, and no socket is left unserved (SealedChannel).
ChannelHolds == ChannelTypes /\ EndsCountAlike /\ EverySocketIsServed
\* A page shows one screen the terminal had, and in the end the one it has (Projection).
ScreenHolds == ScreenTypes /\ PageShowsAScreen /\ PageCatchesUpWithScreen
\* What is drawn of a stream is one piece of it and in the end all of it, and a checkpoint is
\* a screen it had (TerminalStream).
TerminalIsTrue == StreamTypes /\ DrawnIsOnePiece /\ CheckpointsAreTrue /\ TerminalCatchesUp
=============================================================================
