----------------------------- MODULE ClientProofs -----------------------------
(***************************************************************************)
(* Proofs about Client, for any tags, sessions and windows, and any number *)
(* of choices and faults: its safety refines PageView, a replay shows the  *)
(* window that is selected, and no hole goes unmarked.                     *)
(***************************************************************************)
EXTENDS Client, SequenceTheorems, TLAPS

\* What is shown and asked for goes with the mode; a replay has no connection.
Selected ==
    /\ mode = "live" => select = "live" /\ token = None /\ source.subscription = tagId
    /\ mode = "replay" => /\ session \in Sessions /\ select = session /\ token \in Nat
                          /\ source.socket = "none" /\ source.timer = FALSE
                          /\ up = << >> /\ down = << >> /\ server.tag = None

SessionLoadsDue == {l \in loads : l.type = "session"}

\* An answer that is due is known by its token, which is given once.
Answers ==
    /\ token # None => token <= choices
    /\ \A l \in loads \cup zooms : /\ l.token <= choices
                                   /\ l.token = token => l.session = session
    /\ \A l, m \in SessionLoadsDue : l.token = m.token => l = m
    /\ replay # None => /\ mode = "replay"
                        /\ \A l \in SessionLoadsDue : l.token # token

ZoomsDue == zooms \cup {l \in loads : l.type = "zoom"}

\* The zooms of the session that is shown are numbered; the newest one is for
\* the window that is selected.
Zooming ==
    \A z \in ZoomsDue : z.token = token =>
        /\ replay # None
        /\ z.zoom <= replay.zoom
        /\ z.zoom = replay.zoom => z.window = replay.window

\* What the page will have noted when it comes to frame i on its way.
LostBefore(i) ==
    IF i = 1 THEN live.lost
    ELSE IF down[i - 1].type = "snapshot" THEN 0 ELSE down[i - 1].lost

\* A frame behind a gap carries more losses than the frame before it.
Counted ==
    /\ \A i \in DOMAIN down : down[i].type # "snapshot" =>
         /\ LostBefore(i) <= down[i].lost
         /\ down[i].gap => LostBefore(i) < down[i].lost
    /\ server.tag = None => down = << >>
    /\ server.tag # None =>
         /\ LostBefore(Len(down) + 1) <= server.lost
         /\ server.gap => LostBefore(Len(down) + 1) < server.lost

PageInv == /\ TypeOK
           /\ Selected
           /\ Answers
           /\ Zooming
           /\ DetailOfWindow
           /\ Counted
           /\ HolesHidden

\* The safety of PageView, for the mapping of Client.
ViewSafety == View!Init /\ [][View!Next]_View!vars


-----------------------------------------------------------------------------
(* Types *)

(* A frame that is pushed is a frame.                                       *)
LEMMA PushedFrames ==
    ASSUME NEW s \in Subscribers, s.tag \in Tags, NEW b \in Nat, NEW g \in BOOLEAN,
           NEW type \in {"append", "session_start"}
    PROVE  [type |-> type, tag |-> s.tag, boot |-> b, lost |-> s.lost, gap |-> g]
             \in Frames
BY DEF Subscribers, Frames

LEMMA Snapshots ==
    ASSUME NEW t \in Tags, NEW b \in Nat
    PROVE  [type |-> "snapshot", tag |-> t, boot |-> b] \in Frames
BY DEF Frames

(* The connection stays one, whatever is done to it.                        *)
LEMMA SocketTypes ==
    ASSUME NEW src \in Sockets
    PROVE  /\ \A t \in Tags : [src EXCEPT !.subscription = t] \in Sockets
           /\ [src EXCEPT !.socket = "open"] \in Sockets
           /\ [src EXCEPT !.socket = "none", !.timer = TRUE] \in Sockets
           /\ [src EXCEPT !.socket = "connecting", !.timer = FALSE] \in Sockets
           /\ [src EXCEPT !.closed = FALSE, !.socket = "connecting"] \in Sockets
           /\ [src EXCEPT !.closed = TRUE, !.socket = "none", !.timer = FALSE] \in Sockets
BY DEF Sockets

LEMMA SubscriberTypes ==
    ASSUME NEW s \in Subscribers
    PROVE  /\ NoSubscriber \in Subscribers
           /\ \A t \in Tags : [tag |-> t, lost |-> 0, gap |-> FALSE] \in Subscribers
           /\ [s EXCEPT !.gap = FALSE] \in Subscribers
           /\ [s EXCEPT !.lost = @ + 1, !.gap = TRUE] \in Subscribers
<1>1. /\ NoSubscriber \in Subscribers
      /\ \A t \in Tags : [tag |-> t, lost |-> 0, gap |-> FALSE] \in Subscribers
  BY DEF Subscribers, NoSubscriber
<1>2. [s EXCEPT !.gap = FALSE] \in Subscribers
  BY DEF Subscribers
<1>3. [s EXCEPT !.lost = @ + 1, !.gap = TRUE] \in Subscribers
  <2>1. \A n \in Nat : [s EXCEPT !.lost = n, !.gap = TRUE] \in Subscribers
    BY DEF Subscribers
  <2>2. s.lost + 1 \in Nat
    BY DEF Subscribers
  <2>3. QED
    BY <2>1, <2>2
<1>4. QED
  BY <1>1, <1>2, <1>3

LEMMA ReplayTypes ==
    ASSUME NEW r \in Replays
    PROVE  /\ r.zoom \in Nat
           /\ \A w \in Windows :
                /\ [r EXCEPT !.window = w] \in Replays
                /\ [r EXCEPT !.window = w, !.zoom = @ + 1, !.failed = FALSE] \in Replays
                /\ [r EXCEPT !.detail = w] \in Replays
           /\ [r EXCEPT !.window = "whole", !.detail = "whole",
                        !.zoom = @ + 1, !.failed = FALSE] \in Replays
           /\ [r EXCEPT !.failed = TRUE] \in Replays
<1>1. /\ r.zoom \in Nat /\ r.zoom + 1 \in Nat
      /\ Windows \subseteq Ranges /\ "whole" \in Ranges
  BY DEF Replays, Ranges
<1>2. \A w \in Ranges : [r EXCEPT !.window = w] \in Replays
  BY DEF Replays
<1>3. \A w \in Ranges, n \in Nat :
        [r EXCEPT !.window = w, !.zoom = n, !.failed = FALSE] \in Replays
  BY DEF Replays
<1>4. \A w \in Ranges, n \in Nat :
        [r EXCEPT !.window = w, !.detail = w, !.zoom = n, !.failed = FALSE] \in Replays
  BY DEF Replays
<1>5. \A w \in Ranges : [r EXCEPT !.detail = w] \in Replays
  BY DEF Replays
<1>6. [r EXCEPT !.failed = TRUE] \in Replays
  BY DEF Replays
<1>7. QED
  BY <1>1, <1>2, <1>3, <1>4, <1>5, <1>6

LEMMA CounterTypes ==
    ASSUME NEW l \in Counters
    PROVE  /\ [l EXCEPT !.timer = FALSE] \in Counters
           /\ [l EXCEPT !.lost = 0, !.pending = FALSE] \in Counters
           /\ \A f \in Frames : Counting(l, f) \in Counters
<1>1. [l EXCEPT !.timer = FALSE] \in Counters
  BY DEF Counters
<1>2. [l EXCEPT !.lost = 0, !.pending = FALSE] \in Counters
  BY DEF Counters
<1>3. \A f \in Frames : f.type # "snapshot" => Noted(l, f) \in Counters
  BY DEF Counters, Noted, Frames
<1>4. QED
  BY <1>1, <1>2, <1>3 DEF Counting

LEMMA ScreenTypes ==
    ASSUME TRUE
    PROVE  /\ Cleared \in Screens
           /\ \A x \in Tags \cup Sessions : [Cleared EXCEPT !.of = x] \in Screens
           /\ \A s \in Screens, f \in Frames : Fed(s, f) \in Screens
<1>1. Cleared \in Screens
  BY DEF Screens, Cleared
<1>2. \A x \in Tags \cup Sessions : [Cleared EXCEPT !.of = x] \in Screens
  BY DEF Screens, Cleared
<1> SUFFICES ASSUME NEW s \in Screens, NEW f \in Frames PROVE Fed(s, f) \in Screens
  BY <1>1, <1>2
<1>3. CASE f.type = "snapshot"
  BY <1>1, <1>2, <1>3 DEF Fed, Frames, Screens
<1>4. CASE f.type = "session_start"
  <2>1. (s.hole /\ s.boot = f.boot) \in BOOLEAN
    OBVIOUS
  <2>2. QED
    BY <1>1, <1>2, <1>4, <2>1 DEF Fed, Frames, Screens
<1>5. CASE f.type = "append"
  <2>1. (s.hole \/ f.gap) \in BOOLEAN
    OBVIOUS
  <2>2. [s EXCEPT !.of = f.tag, !.hole = @ \/ f.gap] \in Screens
    BY <1>5, <2>1 DEF Frames, Screens
  <2>3. QED
    BY <1>1, <1>2, <1>5, <2>2 DEF Fed
<1>6. QED
  BY <1>3, <1>4, <1>5 DEF Frames

(* Every action keeps the types.                                            *)
LEMMA TypesStep ==
    ASSUME TypeOK, Selected, [Next]_vars
    PROVE  TypeOK'
<1> USE DEF NoLimit, Choice, Fault, vars, userVars, wireVars, askVars
<1>1. CASE Opened
  <2>1. source.subscription \in Tags /\ [source EXCEPT !.socket = "open"] \in Sockets
    BY SocketTypes DEF TypeOK, Sockets
  <2>2. source' \in Sockets
    BY <1>1, <2>1, SocketTypes DEF Opened, Subscribe
  <2>3. up' \in Seq(Tags)
    BY <1>1, <2>1, AppendProperties DEF Opened, Subscribe, TypeOK
  <2>4. QED
    BY <1>1, <2>2, <2>3 DEF Opened, TypeOK
<1>2. CASE Closed
  <2>1. source' \in Sockets
    BY <1>2, SocketTypes DEF Closed, Hangup, TypeOK
  <2>2. server' \in Subscribers
    BY <1>2, SubscriberTypes DEF Closed, Hangup, TypeOK
  <2>3. choices' \in Nat /\ faults' \in Nat
    BY <1>2 DEF Closed, TypeOK
  <2>4. QED
    BY <1>2, <2>1, <2>2, <2>3, EmptySeq DEF Closed, Hangup, TypeOK
<1>3. CASE Reconnect
  BY <1>3, SocketTypes DEF Reconnect, TypeOK
<1>4. CASE Serve
  <2>1. Head(up) \in Tags /\ Tail(up) \in Seq(Tags)
    BY <1>4, HeadTailProperties DEF Serve, TypeOK
  <2>2. server' \in Subscribers
    BY <1>4, <2>1, SubscriberTypes DEF Serve, TypeOK
  <2>3. boot[Head(up)] \in Nat
    BY <2>1 DEF TypeOK
  <2>4. down' \in Seq(Frames)
    BY <1>4, <2>1, <2>3, Snapshots, AppendProperties DEF Serve, TypeOK
  <2>5. QED
    BY <1>4, <2>1, <2>2, <2>4 DEF Serve, TypeOK
<1>5. CASE SendAppend
  <2>1. server.tag \in Tags /\ server.gap \in BOOLEAN
    BY <1>5 DEF SendAppend, Watched, TypeOK, Subscribers
  <2>2. boot[server.tag] \in Nat
    BY <2>1 DEF TypeOK
  <2>3. down' \in Seq(Frames)
    <3>1. [type |-> "append", tag |-> server.tag, boot |-> boot[server.tag],
           lost |-> server.lost, gap |-> server.gap] \in Frames
      BY <2>1, <2>2, PushedFrames DEF TypeOK
    <3>2. Append(down, [type |-> "append", tag |-> server.tag, boot |-> boot[server.tag],
                        lost |-> server.lost, gap |-> server.gap]) \in Seq(Frames)
      BY <3>1, AppendProperties DEF TypeOK
    <3>3. QED
      BY <1>5, <3>2 DEF SendAppend, Push
  <2>4. server' \in Subscribers
    BY <1>5, <2>1, SubscriberTypes DEF SendAppend, TypeOK
  <2>5. QED
    BY <1>5, <2>3, <2>4 DEF SendAppend, TypeOK
<1>6. CASE DropAppend
  <2>1. server.tag \in Tags
    BY <1>6 DEF DropAppend, TypeOK, Subscribers
  <2>2. server' \in Subscribers
    BY <1>6, <2>1, SubscriberTypes DEF DropAppend, TypeOK
  <2>3. choices' \in Nat /\ faults' \in Nat
    BY <1>6 DEF DropAppend, TypeOK
  <2>4. QED
    BY <1>6, <2>2, <2>3 DEF DropAppend, TypeOK
<1>7. ASSUME NEW t \in Tags, StartSession(t) PROVE TypeOK'
  <2>1. boot[t] + 1 \in Nat
    BY DEF TypeOK
  <2>2. boot' \in [Tags -> Nat]
    BY <1>7, <2>1 DEF StartSession, TypeOK
  <2>3. down' \in Seq(Frames)
    <3>1. CASE server.tag = t
      <4>1. [type |-> "session_start", tag |-> server.tag, boot |-> boot[t] + 1,
             lost |-> server.lost, gap |-> FALSE] \in Frames
        BY <2>1, <3>1, PushedFrames DEF TypeOK
      <4>2. Append(down, [type |-> "session_start", tag |-> server.tag,
                          boot |-> boot[t] + 1, lost |-> server.lost,
                          gap |-> FALSE]) \in Seq(Frames)
        BY <4>1, AppendProperties DEF TypeOK
      <4>3. QED
        BY <1>7, <3>1, <4>2 DEF StartSession, Push
    <3>2. CASE server.tag # t
      BY <1>7, <3>2 DEF StartSession, TypeOK
    <3>3. QED
      BY <3>1, <3>2
  <2>4. server' \in Subscribers
    BY <1>7, SubscriberTypes DEF StartSession, TypeOK
  <2>5. QED
    BY <1>7, <2>2, <2>3, <2>4 DEF StartSession, TypeOK
<1>8. CASE OnFrame
  <2>1. Head(down) \in Frames /\ Tail(down) \in Seq(Frames)
    BY <1>8, HeadTailProperties DEF OnFrame, TypeOK
  <2>2. live' \in Counters /\ shown' \in Screens
    BY <1>8, <2>1, CounterTypes, ScreenTypes DEF OnFrame, TypeOK
  <2>3. QED
    BY <1>8, <2>1, <2>2 DEF OnFrame, TypeOK
<1>9. CASE Resync
  <2>1. live' \in Counters
    BY <1>9, CounterTypes DEF Resync, TypeOK
  <2>2. source' \in Sockets
    BY <1>9, SocketTypes DEF Resync, Subscribe, TypeOK
  <2>3. up' \in Seq(Tags)
    <3>1. Append(up, tagId) \in Seq(Tags)
      BY AppendProperties DEF TypeOK
    <3>2. QED
      BY <1>9, <3>1 DEF Resync, Subscribe, TypeOK
  <2>4. QED
    BY <1>9, <2>1, <2>2, <2>3 DEF Resync, TypeOK
<1>10. ASSUME NEW t \in Tags, StartLive(t) PROVE TypeOK'
  <2> DEFINE opened == IF source.closed
                       THEN [source EXCEPT !.closed = FALSE, !.socket = "connecting"]
                       ELSE source
  <2>1. opened \in Sockets
    BY SocketTypes DEF TypeOK
  <2>2. source' = [opened EXCEPT !.subscription = t]
    BY <1>10 DEF StartLive, Subscribe
  <2>3. source' \in Sockets
    BY <2>1, <2>2, SocketTypes
  <2>4. up' \in Seq(Tags)
    BY <1>10, AppendProperties DEF StartLive, Subscribe, TypeOK
  <2>5. live' \in Counters
    BY <1>10, CounterTypes DEF StartLive, TypeOK
  <2>6. shown' \in Screens
    BY <1>10, ScreenTypes DEF StartLive, TypeOK
  <2>7. choices' \in Nat /\ faults' \in Nat
    BY <1>10 DEF StartLive, TypeOK
  <2>8. QED
    BY <1>10, <2>3, <2>4, <2>5, <2>6, <2>7 DEF StartLive, TypeOK
<1>11. ASSUME NEW s \in Sessions, OpenReplay(s) PROVE TypeOK'
  <2>1. choices' \in Nat /\ faults' \in Nat /\ token' \in Nat
    BY <1>11 DEF OpenReplay, TypeOK
  <2>2. loads' \subseteq SessionLoads \cup ZoomLoads
    BY <1>11, <2>1 DEF OpenReplay, TypeOK, SessionLoads
  <2>3. source' \in Sockets
    BY <1>11, SocketTypes DEF OpenReplay, Hangup, TypeOK
  <2>4. server' \in Subscribers
    BY <1>11, SubscriberTypes DEF OpenReplay, Hangup, TypeOK
  <2>5. shown' \in Screens
    BY <1>11, ScreenTypes DEF OpenReplay, TypeOK
  <2>6. QED
    BY <1>11, <2>1, <2>2, <2>3, <2>4, <2>5, EmptySeq DEF OpenReplay, Hangup, TypeOK
<1>12. ASSUME NEW w \in Windows, Zoom(w) PROVE TypeOK'
  <2>1. replay \in Replays /\ token \in Nat
    BY <1>12 DEF Zoom, TypeOK, Selected
  <2>2. replay' \in Replays /\ replay.zoom \in Nat
    BY <1>12, <2>1, ReplayTypes DEF Zoom
  <2>3. zooms' \subseteq Zooms
    BY <1>12, <2>1, <2>2 DEF Zoom, OtherZooms, TypeOK, Zooms
  <2>4. choices' \in Nat /\ faults' \in Nat
    BY <1>12 DEF Zoom, TypeOK
  <2>5. QED
    BY <1>12, <2>2, <2>3, <2>4 DEF Zoom, TypeOK
<1>13. CASE ResetZoom
  <2>1. replay \in Replays /\ session \in Sessions
    BY <1>13 DEF ResetZoom, TypeOK, Selected
  <2>2. replay' \in Replays
    BY <1>13, <2>1, ReplayTypes DEF ResetZoom
  <2>3. shown' \in Screens
    BY <1>13, <2>1, ScreenTypes DEF ResetZoom
  <2>4. zooms' \subseteq Zooms
    BY <1>13 DEF ResetZoom, OtherZooms, TypeOK
  <2>5. choices' \in Nat /\ faults' \in Nat
    BY <1>13 DEF ResetZoom, TypeOK
  <2>6. QED
    BY <1>13, <2>2, <2>3, <2>4, <2>5 DEF ResetZoom, TypeOK
<1>14. CASE ReloadSessions
  <2>1. choices' \in Nat /\ faults' \in Nat
    BY <1>14 DEF ReloadSessions, TypeOK
  <2>2. QED
    BY <1>14, <2>1 DEF ReloadSessions, TypeOK
<1>15. ASSUME NEW l \in loads, NEW ok \in BOOLEAN, SessionLoaded(l, ok) PROVE TypeOK'
  <2>1. l.session \in Sessions
    BY <1>15 DEF SessionLoaded, TypeOK, SessionLoads, ZoomLoads
  <2>2. replay' \in Replays \cup {None}
    <3>1. [session |-> l.session, window |-> "whole", detail |-> "whole",
           zoom |-> 0, failed |-> FALSE] \in Replays
      BY <2>1 DEF Replays, Ranges
    <3>2. QED
      BY <1>15, <3>1 DEF SessionLoaded, TypeOK
  <2>3. shown' \in Screens
    BY <1>15, <2>1, ScreenTypes DEF SessionLoaded, TypeOK
  <2>4. choices' \in Nat /\ faults' \in Nat
    BY <1>15 DEF SessionLoaded, TypeOK
  <2>5. QED
    BY <1>15, <2>2, <2>3, <2>4 DEF SessionLoaded, TypeOK
<1>16. ASSUME NEW l \in loads, NEW ok \in BOOLEAN, WindowLoaded(l, ok) PROVE TypeOK'
  <2>1. l.session \in Sessions /\ l.window \in Windows
    BY <1>16, ClientAssumption DEF WindowLoaded, TypeOK, SessionLoads, ZoomLoads
  <2>2. replay' \in Replays \cup {None}
    <3>1. replay # None => /\ [replay EXCEPT !.detail = l.window] \in Replays
                           /\ [replay EXCEPT !.failed = TRUE] \in Replays
      BY <2>1, ReplayTypes DEF TypeOK
    <3>2. QED
      BY <1>16, <3>1 DEF WindowLoaded, Newest, TypeOK
  <2>3. shown' \in Screens
    BY <1>16, <2>1, ScreenTypes DEF WindowLoaded, TypeOK
  <2>4. choices' \in Nat /\ faults' \in Nat
    BY <1>16 DEF WindowLoaded, TypeOK
  <2>5. QED
    BY <1>16, <2>2, <2>3, <2>4 DEF WindowLoaded, TypeOK
<1>17. ASSUME NEW z \in zooms, ZoomTimer(z) PROVE TypeOK'
  <2>1. loads' \subseteq SessionLoads \cup ZoomLoads
    BY <1>17 DEF ZoomTimer, TypeOK, Zooms, ZoomLoads
  <2>2. QED
    BY <1>17, <2>1 DEF ZoomTimer, TypeOK
<1>18. ASSUME NEW asked \in lists, NEW ok \in BOOLEAN, ListLoaded(asked, ok) PROVE TypeOK'
  <2>1. select' \in Sessions \cup {"live"}
    BY <1>18 DEF ListLoaded, Reselected, TypeOK
  <2>2. choices' \in Nat /\ faults' \in Nat
    BY <1>18 DEF ListLoaded, TypeOK
  <2>3. QED
    BY <1>18, <2>1, <2>2 DEF ListLoaded, TypeOK
<1>19. CASE UNCHANGED vars
  BY <1>19 DEF TypeOK
<1>20. QED
  BY <1>1, <1>2, <1>3, <1>4, <1>5, <1>6, <1>7, <1>8, <1>9, <1>10, <1>11, <1>12,
     <1>13, <1>14, <1>15, <1>16, <1>17, <1>18, <1>19 DEF Next, Network, User, Load

-----------------------------------------------------------------------------
(* What is selected, and what is due *)

(* A replay has no connection, the live page the one of its tag.            *)
LEMMA SelectedStep ==
    ASSUME TypeOK, Selected, [Next]_vars
    PROVE  Selected'
<1> USE ClientAssumption DEF TypeOK, Selected, NoLimit, Choice, Fault, vars, userVars,
        wireVars, askVars, Subscribe, Hangup, NoSubscriber, Sockets
<1>1. CASE Opened
  BY <1>1 DEF Opened
<1>2. CASE Closed
  BY <1>2 DEF Closed
<1>3. CASE Reconnect
  BY <1>3 DEF Reconnect
<1>4. CASE Serve
  BY <1>4 DEF Serve
<1>5. CASE SendAppend
  BY <1>5 DEF SendAppend, Watched, Push
<1>6. CASE DropAppend
  BY <1>6 DEF DropAppend
<1>7. ASSUME NEW t \in Tags, StartSession(t) PROVE Selected'
  BY <1>7 DEF StartSession, Watched, Push
<1>8. CASE OnFrame
  BY <1>8 DEF OnFrame
<1>9. CASE Resync
  BY <1>9 DEF Resync
<1>10. ASSUME NEW t \in Tags, StartLive(t) PROVE Selected'
  BY <1>10 DEF StartLive
<1>11. ASSUME NEW s \in Sessions, OpenReplay(s) PROVE Selected'
  <2>1. token' \in Nat
    BY <1>11 DEF OpenReplay
  <2>2. source'.socket = "none" /\ source'.timer = FALSE
    BY <1>11 DEF OpenReplay
  <2>3. QED
    BY <1>11, <2>1, <2>2 DEF OpenReplay
<1>12. ASSUME NEW w \in Windows, Zoom(w) PROVE Selected'
  BY <1>12 DEF Zoom
<1>13. CASE ResetZoom
  BY <1>13 DEF ResetZoom
<1>14. CASE ReloadSessions
  BY <1>14 DEF ReloadSessions
<1>15. ASSUME NEW l \in loads, NEW ok \in BOOLEAN, SessionLoaded(l, ok) PROVE Selected'
  BY <1>15 DEF SessionLoaded
<1>16. ASSUME NEW l \in loads, NEW ok \in BOOLEAN, WindowLoaded(l, ok) PROVE Selected'
  BY <1>16 DEF WindowLoaded
<1>17. ASSUME NEW z \in zooms, ZoomTimer(z) PROVE Selected'
  BY <1>17 DEF ZoomTimer
<1>18. ASSUME NEW asked \in lists, NEW ok \in BOOLEAN, ListLoaded(asked, ok) PROVE Selected'
  BY <1>18 DEF ListLoaded, Reselected
<1>19. CASE UNCHANGED vars
  BY <1>19
<1> HIDE ClientAssumption DEF TypeOK, Selected, NoLimit, Choice, Fault, vars, userVars,
         wireVars, askVars, Subscribe, Hangup, NoSubscriber, Sockets
<1>20. QED
  BY <1>1, <1>2, <1>3, <1>4, <1>5, <1>6, <1>7, <1>8, <1>9, <1>10, <1>11, <1>12,
     <1>13, <1>14, <1>15, <1>16, <1>17, <1>18, <1>19 DEF Next, Network, User, Load

LEMMA DueTypes ==
    ASSUME TypeOK
    PROVE  /\ \A l \in loads \cup zooms : l.token \in Nat /\ l.token # None
           /\ \A z \in ZoomsDue : /\ z.token \in Nat /\ z.zoom \in Nat
                                  /\ z.session \in Thinned
           /\ \A l \in SessionLoadsDue : l.session \in Sessions
<1>1. \A l \in loads \cup zooms : l.token \in Nat
  BY DEF TypeOK, SessionLoads, ZoomLoads, Zooms
<1>2. QED
  BY <1>1, ClientAssumption
     DEF TypeOK, SessionLoads, ZoomLoads, Zooms, ZoomsDue, SessionLoadsDue

ReplayInv == Answers /\ Zooming /\ DetailOfWindow

(* Actions that leave replay and what is asked alone.                       *)
LEMMA ReplayUntouched ==
    ASSUME TypeOK, ReplayInv, choices' \in Nat, choices <= choices',
           UNCHANGED <<mode, token, session, replay, loads, zooms>>
    PROVE  ReplayInv'
<1>1. Answers'
  BY DueTypes DEF ReplayInv, Answers, SessionLoadsDue, TypeOK
<1>2. Zooming'
  BY DEF ReplayInv, Zooming, ZoomsDue
<1>3. DetailOfWindow'
  BY DEF ReplayInv, DetailOfWindow
<1>4. QED
  BY <1>1, <1>2, <1>3 DEF ReplayInv

LEMMA StartLiveAnswers ==
    ASSUME TypeOK, ReplayInv, NEW t \in Tags, StartLive(t)
    PROVE  ReplayInv'
<1>1. /\ token' = None /\ replay' = None /\ session' = None
      /\ loads' = loads /\ zooms' = zooms /\ choices' = choices + 1
  BY DEF StartLive, Choice, askVars
<1>2. Answers'
  BY <1>1, DueTypes DEF ReplayInv, Answers, SessionLoadsDue, TypeOK
<1>3. Zooming'
  BY <1>1, DueTypes DEF Zooming, ZoomsDue
<1>4. DetailOfWindow'
  BY <1>1 DEF DetailOfWindow
<1>5. QED
  BY <1>2, <1>3, <1>4 DEF ReplayInv

LEMMA OpenReplayAnswers ==
    ASSUME TypeOK, ReplayInv, NEW s \in Sessions, OpenReplay(s)
    PROVE  ReplayInv'
<1> DEFINE asked == [type |-> "session", token |-> choices + 1, session |-> s]
<1>1. /\ token' = choices + 1 /\ replay' = None /\ session' = s
      /\ loads' = loads \cup {asked} /\ zooms' = zooms /\ choices' = choices + 1
  BY DEF OpenReplay, Choice
<1>2. \A l \in loads \cup zooms : l.token \in Nat /\ l.token <= choices
  BY DueTypes DEF ReplayInv, Answers
<1>3. Answers'
  <2>1. \A l \in loads' \cup zooms' : /\ l.token <= choices'
                                      /\ l.token = token' => l.session = session'
    BY <1>1, <1>2 DEF TypeOK
  <2>2. \A l, m \in SessionLoadsDue' : l.token = m.token => l = m
    BY <1>1, <1>2 DEF ReplayInv, Answers, SessionLoadsDue, TypeOK
  <2>3. token' <= choices' /\ replay' = None
    BY <1>1 DEF TypeOK
  <2>4. QED
    BY <2>1, <2>2, <2>3 DEF Answers
<1>4. Zooming'
  BY <1>1, <1>2 DEF Zooming, ZoomsDue, TypeOK
<1>5. DetailOfWindow'
  BY <1>1 DEF DetailOfWindow
<1>6. QED
  BY <1>3, <1>4, <1>5 DEF ReplayInv

LEMMA ZoomAnswers ==
    ASSUME TypeOK, Selected, ReplayInv, NEW w \in Windows, Zoom(w)
    PROVE  ReplayInv'
<1> DEFINE z0 == [token |-> token, zoom |-> replay.zoom + 1, session |-> session,
                  window |-> w]
<1>1. /\ mode = "replay" /\ replay # None /\ replay \in Replays
      /\ token \in Nat /\ token # None /\ replay.zoom \in Nat
      /\ mode' = mode /\ token' = token /\ session' = session
      /\ loads' = loads /\ choices' = choices + 1
  BY ClientAssumption DEF Zoom, Choice, userVars, Selected, TypeOK, Replays
<1>2. \A z \in OtherZooms : z \in zooms /\ z.token # token
  BY DEF OtherZooms
<1>3. zooms' \subseteq OtherZooms \cup {z0}
  BY DEF Zoom
<1>4. /\ z0.token = token /\ z0.session = session
      /\ z0.zoom = replay.zoom + 1 /\ z0.window = w
  OBVIOUS
<1>5. replay' # None
  <2>1. /\ [replay EXCEPT !.window = w] \in Replays
        /\ [replay EXCEPT !.window = w, !.zoom = @ + 1, !.failed = FALSE] \in Replays
    BY <1>1, ReplayTypes
  <2>2. replay' \in Replays
    BY <2>1 DEF Zoom
  <2>3. QED
    BY <2>2, ClientAssumption
<1>6. Answers'
  <2>1. \A l \in loads' \cup zooms' : /\ l.token <= choices'
                                      /\ l.token = token' => l.session = session'
    <3> SUFFICES ASSUME NEW l \in loads' \cup zooms'
                 PROVE  l.token <= choices' /\ (l.token = token' => l.session = session')
      OBVIOUS
    <3>1. CASE l \in loads \cup zooms
      BY <1>1, <3>1, DueTypes DEF ReplayInv, Answers, TypeOK
    <3>2. CASE l = z0
      BY <1>1, <1>4, <3>2 DEF ReplayInv, Answers, TypeOK
    <3>3. QED
      BY <1>1, <1>2, <1>3, <3>1, <3>2
  <2>2. token' <= choices'
    BY <1>1 DEF ReplayInv, Answers, TypeOK
  <2>3. QED
    BY <1>1, <2>1, <2>2 DEF ReplayInv, Answers, SessionLoadsDue
<1>7. CASE session \in Thinned
  <2>1. /\ replay' = [replay EXCEPT !.window = w, !.zoom = @ + 1, !.failed = FALSE]
        /\ zooms' = OtherZooms \cup {z0}
    BY <1>7 DEF Zoom
  <2>2. replay'.zoom = replay.zoom + 1 /\ replay'.window = w
    BY <1>1, <2>1 DEF Replays
  <2>3. Zooming'
    <3> SUFFICES ASSUME NEW z \in ZoomsDue', z.token = token
                 PROVE  /\ z.zoom <= replay'.zoom
                        /\ z.zoom = replay'.zoom => z.window = replay'.window
      BY <1>1, <1>5 DEF Zooming
    <3>1. CASE z = z0
      BY <1>1, <1>4, <2>2, <3>1
    <3>2. CASE z \in loads /\ z.type = "zoom"
      <4>1. z.zoom <= replay.zoom /\ z.zoom \in Nat
        BY <3>2, DueTypes DEF ReplayInv, Zooming, ZoomsDue
      <4>2. QED
        BY <1>1, <2>2, <4>1
    <3>3. QED
      BY <1>1, <1>2, <2>1, <3>1, <3>2 DEF ZoomsDue
  <2>4. DetailOfWindow'
    <3>1. z0 \in zooms' /\ z0.token = token' /\ z0.zoom = replay'.zoom
      BY <1>1, <1>4, <2>1, <2>2
    <3>2. QED
      BY <3>1 DEF DetailOfWindow
  <2>5. QED
    BY <1>6, <2>3, <2>4 DEF ReplayInv
<1>8. CASE session \notin Thinned
  <2>1. \A z \in ZoomsDue' : z.token # token
    <3>1. zooms' = OtherZooms
      BY <1>8 DEF Zoom
    <3>2. \A z \in loads : z.type = "zoom" => z.token # token
      BY <1>8, DueTypes DEF ReplayInv, Answers, ZoomsDue
    <3>3. QED
      BY <1>1, <1>2, <3>1, <3>2 DEF ZoomsDue
  <2>2. Zooming' /\ DetailOfWindow'
    BY <1>1, <1>8, <2>1 DEF Zooming, DetailOfWindow
  <2>3. QED
    BY <1>6, <2>2 DEF ReplayInv
<1>9. QED
  BY <1>7, <1>8

LEMMA ResetAnswers ==
    ASSUME TypeOK, Selected, ReplayInv, ResetZoom
    PROVE  ReplayInv'
<1>1. /\ mode = "replay" /\ replay # None /\ replay \in Replays /\ replay.zoom \in Nat
      /\ mode' = mode /\ token' = token /\ session' = session /\ token \in Nat
      /\ loads' = loads /\ choices' = choices + 1 /\ zooms' = OtherZooms
  BY DEF ResetZoom, Choice, userVars, Selected, TypeOK, Replays
<1>2. \A z \in OtherZooms : z \in zooms /\ z.token # token
  BY DEF OtherZooms
<1>3. /\ replay'.zoom = replay.zoom + 1 /\ replay'.detail = replay'.window
  BY <1>1 DEF ResetZoom, Replays
<1>4. replay' # None
  <2>1. replay' \in Replays
    BY <1>1, ReplayTypes DEF ResetZoom
  <2>2. QED
    BY <2>1, ClientAssumption
<1>5. Answers'
  <2>1. \A l \in loads \cup zooms : l.token \in Nat /\ l.token <= choices + 1
    BY DueTypes DEF ReplayInv, Answers, TypeOK
  <2>2. token' <= choices'
    BY <1>1, ClientAssumption DEF ReplayInv, Answers, TypeOK
  <2>3. QED
    BY <1>1, <1>2, <2>1, <2>2 DEF ReplayInv, Answers, SessionLoadsDue
<1>6. Zooming'
  <2> SUFFICES ASSUME NEW z \in ZoomsDue', z.token = token
               PROVE  z.zoom < replay'.zoom /\ z.zoom \in Nat
    BY <1>1, <1>3, <1>4 DEF Zooming
  <2>1. z \in ZoomsDue
    BY <1>1, <1>2 DEF ZoomsDue
  <2>2. z.zoom <= replay.zoom /\ z.zoom \in Nat
    BY <2>1, DueTypes DEF ReplayInv, Zooming
  <2>3. QED
    BY <1>1, <1>3, <2>2
<1>7. DetailOfWindow'
  BY <1>3 DEF DetailOfWindow
<1>8. QED
  BY <1>5, <1>6, <1>7 DEF ReplayInv

LEMMA SessionLoadedAnswers ==
    ASSUME TypeOK, ReplayInv, NEW l \in loads, NEW ok \in BOOLEAN, SessionLoaded(l, ok)
    PROVE  ReplayInv'
<1>1. /\ l.type = "session" /\ loads' = loads \ {l} /\ zooms' = zooms
      /\ mode' = mode /\ token' = token /\ session' = session /\ choices' = choices
  BY DEF SessionLoaded, userVars, NoLimit, Fault
<1>2. l.token = token => replay = None
  BY <1>1 DEF ReplayInv, Answers, SessionLoadsDue
<1>3. /\ SessionLoadsDue' \subseteq SessionLoadsDue /\ ZoomsDue' = ZoomsDue
      /\ \A m \in SessionLoadsDue' : m.token # l.token
  BY <1>1 DEF SessionLoadsDue, ZoomsDue, ReplayInv, Answers
<1>4. CASE Current(l) /\ ok
  <2>1. /\ token = l.token /\ mode = "replay"
        /\ replay' = [session |-> l.session, window |-> "whole", detail |-> "whole",
                      zoom |-> 0, failed |-> FALSE]
    BY <1>4 DEF Current, SessionLoaded
  <2>2. Answers'
    BY <1>1, <1>3, <2>1 DEF ReplayInv, Answers
  <2>3. \A z \in ZoomsDue : z.token # token
    BY <1>2, <2>1 DEF ReplayInv, Zooming
  <2>4. Zooming'
    BY <1>1, <1>3, <2>3 DEF Zooming
  <2>5. DetailOfWindow'
    BY <2>1 DEF DetailOfWindow
  <2>6. QED
    BY <2>2, <2>4, <2>5 DEF ReplayInv
<1>5. CASE ~(Current(l) /\ ok)
  <2>1. replay' = replay
    BY <1>5 DEF SessionLoaded
  <2>2. Answers'
    BY <1>1, <1>3, <2>1 DEF ReplayInv, Answers
  <2>3. Zooming'
    BY <1>1, <1>3, <2>1 DEF ReplayInv, Zooming
  <2>4. DetailOfWindow'
    BY <1>1, <2>1 DEF ReplayInv, DetailOfWindow
  <2>5. QED
    BY <2>2, <2>3, <2>4 DEF ReplayInv
<1>6. QED
  BY <1>4, <1>5

LEMMA ZoomTimerAnswers ==
    ASSUME TypeOK, ReplayInv, NEW z \in zooms, ZoomTimer(z)
    PROVE  ReplayInv'
<1> DEFINE l0 == [type |-> "zoom", token |-> z.token, zoom |-> z.zoom,
                  session |-> z.session, window |-> z.window]
<1>1. /\ zooms' = zooms \ {z} /\ loads' = loads \cup {l0}
      /\ UNCHANGED <<mode, token, session, replay, choices>>
  BY DEF ZoomTimer, userVars, NoLimit
<1>2. SessionLoadsDue' = SessionLoadsDue
  BY <1>1 DEF SessionLoadsDue
<1>3. Answers'
  BY <1>1, <1>2 DEF ReplayInv, Answers
<1>4. Zooming'
  BY <1>1 DEF ReplayInv, Zooming, ZoomsDue
<1>5. DetailOfWindow'
  <2> SUFFICES ASSUME NEW y \in ZoomsDue, y.token = token, y.zoom = replay.zoom
               PROVE  \E x \in ZoomsDue' : x.token = token /\ x.zoom = replay.zoom
    BY <1>1 DEF ReplayInv, DetailOfWindow, ZoomsDue
  <2>1. CASE y = z
    <3>1. l0.type = "zoom" /\ l0.token = z.token /\ l0.zoom = z.zoom
      OBVIOUS
    <3>2. l0 \in ZoomsDue'
      BY <1>1, <3>1 DEF ZoomsDue
    <3>3. QED
      BY <2>1, <3>1, <3>2
  <2>2. CASE y # z
    BY <1>1, <2>2 DEF ZoomsDue
  <2>3. QED
    BY <2>1, <2>2
<1>6. QED
  BY <1>3, <1>4, <1>5 DEF ReplayInv

LEMMA WindowLoadedAnswers ==
    ASSUME TypeOK, ReplayInv, NEW l \in loads, NEW ok \in BOOLEAN, WindowLoaded(l, ok)
    PROVE  ReplayInv'
<1>1. /\ l.type = "zoom" /\ loads' = loads \ {l} /\ l \in ZoomsDue
      /\ UNCHANGED <<mode, token, session, zooms, choices>>
  BY DEF WindowLoaded, userVars, NoLimit, Fault, ZoomsDue
<1>2. SessionLoadsDue' = SessionLoadsDue /\ ZoomsDue' \subseteq ZoomsDue
  BY <1>1 DEF SessionLoadsDue, ZoomsDue
<1>3. CASE Newest(l)
  <2>1. /\ replay # None /\ replay \in Replays /\ token = l.token
        /\ l.window = replay.window
    BY <1>1, <1>3 DEF Newest, TypeOK, ReplayInv, Zooming
  <2>2. /\ \/ replay' = [replay EXCEPT !.detail = l.window]
           \/ replay' = [replay EXCEPT !.failed = TRUE]
        /\ l.window \in Windows
    BY <1>1, <1>3, ClientAssumption DEF WindowLoaded, TypeOK, SessionLoads, ZoomLoads
  <2>3. /\ replay'.zoom = replay.zoom /\ replay'.window = replay.window
        /\ replay'.failed \/ replay'.detail = replay'.window
    BY <2>1, <2>2 DEF Replays
  <2>4. replay' # None
    <3>1. replay' \in Replays
      BY <2>1, <2>2, ReplayTypes
    <3>2. QED
      BY <3>1, ClientAssumption
  <2>5. Answers'
    BY <1>1, <1>2, <2>1 DEF ReplayInv, Answers
  <2>6. Zooming'
    BY <1>1, <1>2, <2>3, <2>4 DEF ReplayInv, Zooming
  <2>7. DetailOfWindow'
    BY <2>3 DEF DetailOfWindow
  <2>8. QED
    BY <2>5, <2>6, <2>7 DEF ReplayInv
<1>4. CASE ~Newest(l)
  <2>1. replay' = replay
    BY <1>4 DEF WindowLoaded
  <2>2. Answers'
    BY <1>1, <1>2, <2>1 DEF ReplayInv, Answers
  <2>3. Zooming'
    BY <1>1, <1>2, <2>1 DEF ReplayInv, Zooming
  <2>4. DetailOfWindow'
    BY <1>1, <1>4, <2>1 DEF ReplayInv, DetailOfWindow, Newest
  <2>5. QED
    BY <2>2, <2>3, <2>4 DEF ReplayInv
<1>5. QED
  BY <1>3, <1>4

LEMMA ReplayStep ==
    ASSUME TypeOK, Selected, ReplayInv, [Next]_vars
    PROVE  ReplayInv'
<1> DEFINE Untouched == UNCHANGED <<mode, token, session, replay, loads, zooms>>
<1> USE DEF userVars, askVars, NoLimit, Choice, Fault, TypeOK
<1>1. Network \/ Closed \/ Resync => Untouched /\ choices' = choices
  BY DEF Network, Opened, Reconnect, Serve, OnFrame, Closed, Resync
<1>2. SendAppend \/ DropAppend \/ (\E t \in Tags : StartSession(t))
        => Untouched /\ choices' = choices
  BY DEF SendAppend, DropAppend, StartSession
<1>3. ReloadSessions => Untouched /\ choices' = choices + 1
  BY DEF ReloadSessions
<1>4. \A asked \in lists, ok \in BOOLEAN :
        ListLoaded(asked, ok) => Untouched /\ choices' = choices
  BY DEF ListLoaded
<1>5. UNCHANGED vars => Untouched /\ choices' = choices
  BY DEF vars
<1>6. Untouched /\ choices' = choices => ReplayInv'
  BY ReplayUntouched
<1>7. Untouched /\ choices' = choices + 1 => ReplayInv'
  BY ReplayUntouched
<1> HIDE DEF userVars, askVars, NoLimit, Choice, Fault, TypeOK, Untouched
<1>8. QED
  BY <1>1, <1>2, <1>3, <1>4, <1>5, <1>6, <1>7, StartLiveAnswers, OpenReplayAnswers,
     ZoomAnswers, ResetAnswers, SessionLoadedAnswers, ZoomTimerAnswers,
     WindowLoadedAnswers DEF Next, User, Load

-----------------------------------------------------------------------------
(* What is counted *)

LEMMA LostBeforeIsNat ==
    ASSUME TypeOK, NEW i \in 1..Len(down) + 1
    PROVE  LostBefore(i) \in Nat
<1>1. CASE i = 1
  BY <1>1 DEF LostBefore, TypeOK, Counters
<1>2. CASE i # 1
  <2>1. Len(down) \in Nat /\ i - 1 \in 1..Len(down)
    BY <1>2, LenProperties DEF TypeOK
  <2>2. down[i - 1] \in Frames
    BY <2>1, LenProperties DEF TypeOK
  <2>3. QED
    BY <1>2, <2>2 DEF LostBefore, Frames
<1>3. QED
  BY <1>1, <1>2

(* The frames on their way carry what was lost in the order it was.         *)
InOrder ==
    \A i \in DOMAIN down : down[i].type # "snapshot" =>
        /\ LostBefore(i) <= down[i].lost
        /\ down[i].gap => LostBefore(i) < down[i].lost

LEMMA CountedParts ==
    Counted <=> /\ InOrder
                /\ server.tag = None => down = << >>
                /\ server.tag # None =>
                     /\ LostBefore(Len(down) + 1) <= server.lost
                     /\ server.gap => LostBefore(Len(down) + 1) < server.lost
BY DEF Counted, InOrder

(* A frame that the server sends is one more on the way.                    *)
LEMMA PushCounts ==
    ASSUME TypeOK, InOrder, NEW f \in Frames, down' = Append(down, f), live' = live,
           f.type # "snapshot" => /\ LostBefore(Len(down) + 1) <= f.lost
                                  /\ f.gap => LostBefore(Len(down) + 1) < f.lost
    PROVE  /\ InOrder'
           /\ LostBefore(Len(down) + 1)' = IF f.type = "snapshot" THEN 0 ELSE f.lost
<1>1. /\ Len(down) \in Nat /\ DOMAIN down = 1..Len(down)
      /\ down' \in Seq(Frames) /\ Len(down') = Len(down) + 1
      /\ DOMAIN down' = 1..Len(down) + 1
      /\ \A i \in 1..Len(down) : down'[i] = down[i]
      /\ down'[Len(down) + 1] = f
  BY AppendProperties, LenProperties DEF TypeOK
<1>2. \A i \in 1..Len(down) + 1 : LostBefore(i)' = LostBefore(i)
  BY <1>1 DEF LostBefore
<1>3. InOrder'
  <2> SUFFICES ASSUME NEW i \in 1..Len(down) + 1, down'[i].type # "snapshot"
               PROVE  /\ LostBefore(i) <= down'[i].lost
                      /\ down'[i].gap => LostBefore(i) < down'[i].lost
    BY <1>1, <1>2 DEF InOrder
  <2>1. CASE i = Len(down) + 1
    BY <1>1, <2>1
  <2>2. CASE i # Len(down) + 1
    <3>1. i \in 1..Len(down)
      BY <1>1, <2>2
    <3>2. QED
      BY <1>1, <3>1 DEF InOrder
  <2>3. QED
    BY <2>1, <2>2
<1>4. QED
  BY <1>1, <1>3 DEF LostBefore

LEMMA EmptyCounts ==
    ASSUME down' = << >>, server' = NoSubscriber
    PROVE  Counted'
BY DEF Counted, NoSubscriber

LEMMA ServeCounts ==
    ASSUME TypeOK, Counted, Serve
    PROVE  Counted'
<1> DEFINE f == [type |-> "snapshot", tag |-> Head(up), boot |-> boot[Head(up)]]
<1>1. /\ down' = Append(down, f) /\ live' = live
      /\ server' = [tag |-> Head(up), lost |-> 0, gap |-> FALSE]
  BY DEF Serve
<1>2. Head(up) \in Tags /\ boot[Head(up)] \in Nat
  BY HeadTailProperties DEF Serve, TypeOK
<1>3. f \in Frames /\ f.type = "snapshot"
  BY <1>2, Snapshots
<1> HIDE DEF f
<1>4. InOrder' /\ LostBefore(Len(down) + 1)' = 0
  BY <1>1, <1>3, CountedParts, PushCounts
<1>5. server'.tag # None /\ server'.lost = 0 /\ server'.gap = FALSE
  BY <1>1, <1>2, ClientAssumption
<1>6. QED
  BY <1>4, <1>5 DEF Counted, InOrder

(* An append or the start of a session, with the gap before it or without.  *)
LEMMA PushedCounts ==
    ASSUME TypeOK, Counted, server.tag \in Tags, live' = live,
           NEW type \in {"append", "session_start"}, NEW b \in Nat, NEW gap \in BOOLEAN,
           Push(type, b, gap), gap => server.gap,
           server' = [server EXCEPT !.gap = FALSE]
    PROVE  Counted'
<1> DEFINE f == [type |-> type, tag |-> server.tag, boot |-> b,
                 lost |-> server.lost, gap |-> gap]
<1>1. down' = Append(down, f)
  BY DEF Push
<1>2. server \in Subscribers
  BY DEF TypeOK
<1>3. f \in Frames
  BY <1>2, PushedFrames
<1>4. f.type # "snapshot" /\ f.lost = server.lost /\ f.gap = gap
  OBVIOUS
<1> HIDE DEF f
<1>5. /\ InOrder
      /\ LostBefore(Len(down) + 1) <= f.lost
      /\ f.gap => LostBefore(Len(down) + 1) < f.lost
  BY <1>4, CountedParts, ClientAssumption
<1>6. InOrder' /\ LostBefore(Len(down) + 1)' = server.lost
  BY <1>1, <1>3, <1>4, <1>5, PushCounts
<1>7. /\ server'.tag # None /\ server'.lost = server.lost /\ server.lost \in Nat
      /\ server'.gap = FALSE
  BY <1>2, ClientAssumption DEF Subscribers
<1>8. QED
  BY <1>6, <1>7 DEF Counted, InOrder

LEMMA DropCounts ==
    ASSUME TypeOK, Counted, DropAppend
    PROVE  Counted'
<1>1. /\ server.tag # None /\ down' = down /\ live' = live
      /\ server'.lost = server.lost + 1 /\ server'.tag = server.tag
      /\ server.lost \in Nat
  BY DEF DropAppend, TypeOK, Subscribers
<1>2. Len(down) + 1 \in 1..Len(down) + 1
  BY LenProperties DEF TypeOK
<1>3. LostBefore(Len(down) + 1) \in Nat
  BY <1>2, LostBeforeIsNat
<1>4. LostBefore(Len(down) + 1) < server'.lost
  BY <1>1, <1>3 DEF Counted
<1>5. \A i : LostBefore(i)' = LostBefore(i)
  BY <1>1 DEF LostBefore
<1>6. /\ LostBefore(Len(down) + 1)' < server'.lost
      /\ LostBefore(Len(down) + 1)' <= server'.lost
  BY <1>1, <1>3, <1>4 DEF LostBefore
<1>7. InOrder'
  BY <1>1, <1>5 DEF Counted, InOrder
<1>8. QED
  BY <1>1, <1>6, <1>7 DEF Counted, InOrder

(* What the page has noted is what was before the next frame.               *)
LEMMA OnFrameCounts ==
    ASSUME TypeOK, Selected, Counted, OnFrame
    PROVE  Counted'
<1>1. mode = "live"
  BY DEF OnFrame, Selected, TypeOK
<1>2. /\ down # << >> /\ down' = Tail(down) /\ live' = Counting(live, Head(down))
      /\ server' = server
  BY <1>1 DEF OnFrame, wireVars
<1>3. /\ Len(down) \in Nat /\ Len(down) >= 1 /\ DOMAIN down = 1..Len(down)
      /\ down' \in Seq(Frames) /\ Len(down') = Len(down) - 1
      /\ DOMAIN down' = 1..Len(down) - 1
      /\ \A i \in 1..Len(down) - 1 : down'[i] = down[i + 1]
      /\ down[1] = Head(down) /\ Head(down) \in Frames
  BY <1>2, HeadTailProperties, LenProperties, EmptySeq DEF TypeOK
<1>4. live'.lost = LostBefore(2)
  BY <1>2, <1>3 DEF LostBefore, Counting, Noted, TypeOK, Counters
<1>5. \A i \in 1..Len(down) : LostBefore(i)' = LostBefore(i + 1)
  BY <1>3, <1>4 DEF LostBefore
<1>6. InOrder'
  <2> SUFFICES ASSUME NEW i \in 1..Len(down) - 1, down'[i].type # "snapshot"
               PROVE  /\ LostBefore(i)' <= down'[i].lost
                      /\ down'[i].gap => LostBefore(i)' < down'[i].lost
    BY <1>3 DEF InOrder
  <2>1. i + 1 \in DOMAIN down /\ i \in 1..Len(down) /\ down'[i] = down[i + 1]
    BY <1>3
  <2>2. LostBefore(i)' = LostBefore(i + 1)
    BY <1>5, <2>1
  <2>3. QED
    BY <2>1, <2>2 DEF Counted
<1>7. LostBefore(Len(down) + 1)' = LostBefore(Len(down) + 1)
  <2>1. PICK n \in 1..Len(down) : n = Len(down)
    <3>1. Len(down) \in Nat /\ Len(down) >= 1
      BY <1>3
    <3>2. Len(down) \in 1..Len(down)
      BY <3>1
    <3>3. QED
      BY <3>2
  <2>2. LostBefore(n)' = LostBefore(n + 1)
    BY <1>5
  <2>3. n = Len(down') + 1
    BY <1>3, <2>1
  <2>4. QED
    BY <2>1, <2>2, <2>3 DEF LostBefore
<1>8. server.tag # None
  BY <1>2 DEF Counted
<1>9. QED
  BY <1>2, <1>6, <1>7, <1>8 DEF Counted, InOrder

LEMMA StartLiveCounts ==
    ASSUME TypeOK, Counted, NEW t \in Tags, StartLive(t)
    PROVE  Counted'
<1>1. down' = down /\ server' = server /\ live'.lost = 0
  BY DEF StartLive, TypeOK, Counters
<1>2. /\ Len(down) \in Nat /\ DOMAIN down = 1..Len(down)
      /\ \A i \in 1..Len(down) + 1 :
           /\ LostBefore(i) \in Nat /\ LostBefore(i)' \in Nat
           /\ LostBefore(i)' <= LostBefore(i)
  <2>1. Len(down) \in Nat /\ DOMAIN down = 1..Len(down)
    BY LenProperties DEF TypeOK
  <2>2. \A i \in 1..Len(down) + 1 : LostBefore(i) \in Nat
    BY LostBeforeIsNat
  <2>3. \A i \in 1..Len(down) + 1 : LostBefore(i)' = 0 \/ LostBefore(i)' = LostBefore(i)
    BY <1>1 DEF LostBefore
  <2>4. QED
    BY <2>1, <2>2, <2>3
<1>3. \A i \in DOMAIN down : down[i].type # "snapshot" => down[i].lost \in Nat
  BY <1>2, LenProperties DEF TypeOK, Frames
<1>4. InOrder'
  <2> SUFFICES ASSUME NEW i \in 1..Len(down), down[i].type # "snapshot"
               PROVE  /\ LostBefore(i)' <= down[i].lost
                      /\ down[i].gap => LostBefore(i)' < down[i].lost
    BY <1>1, <1>2 DEF InOrder
  <2>1. /\ LostBefore(i) <= down[i].lost
        /\ down[i].gap => LostBefore(i) < down[i].lost
    BY <1>2 DEF Counted
  <2>2. /\ LostBefore(i) \in Nat /\ LostBefore(i)' \in Nat
        /\ LostBefore(i)' <= LostBefore(i) /\ down[i].lost \in Nat
    BY <1>2, <1>3
  <2>3. QED
    BY <2>1, <2>2
<1>5. server.tag # None =>
        /\ LostBefore(Len(down) + 1)' <= server.lost
        /\ server.gap => LostBefore(Len(down) + 1)' < server.lost
  <2>1. PICK n \in 1..Len(down) + 1 : n = Len(down) + 1
    BY <1>2
  <2>2. server.lost \in Nat
    BY DEF TypeOK, Subscribers
  <2>3. server.tag # None => /\ LostBefore(n)' <= server.lost
                             /\ server.gap => LostBefore(n)' < server.lost
    BY <1>2, <2>1, <2>2 DEF Counted
  <2>4. QED
    BY <1>1, <2>1, <2>3 DEF LostBefore
<1>6. QED
  BY <1>1, <1>4, <1>5 DEF Counted, InOrder

LEMMA CountedStep ==
    ASSUME TypeOK, Selected, Counted, [Next]_vars
    PROVE  Counted'
<1> DEFINE Untouched == live'.lost = live.lost /\ UNCHANGED <<down, server>>
<1>1. Untouched => Counted'
  BY DEF Counted, LostBefore
<1> USE DEF userVars, wireVars, askVars
<1>2. Opened \/ Reconnect => Untouched
  BY DEF Opened, Reconnect
<1>3. Resync => Untouched
  BY DEF Resync, TypeOK, Counters
<1>4. ResetZoom \/ ReloadSessions \/ (\E w \in Windows : Zoom(w)) => Untouched
  BY DEF ResetZoom, ReloadSessions, Zoom
<1>5. (\E z \in zooms : ZoomTimer(z)) => Untouched
  BY DEF ZoomTimer
<1>6. \A ok \in BOOLEAN : Load(ok) => Untouched
  BY DEF Load, SessionLoaded, WindowLoaded, ListLoaded
<1>7. UNCHANGED vars => Untouched
  BY DEF vars
<1>8. Closed \/ (\E s \in Sessions : OpenReplay(s)) => Counted'
  BY EmptyCounts DEF Closed, OpenReplay, Hangup
<1>9. SendAppend => Counted'
  <2> HAVE SendAppend
  <2>1. /\ server.tag \in Tags /\ server.gap \in BOOLEAN /\ boot[server.tag] \in Nat
        /\ live' = live
    BY DEF SendAppend, Watched, TypeOK, Subscribers
  <2>2. QED
    BY <2>1, PushedCounts DEF SendAppend
<1>10. ASSUME NEW t \in Tags, StartSession(t) PROVE Counted'
  <2>1. live' = live /\ boot[t] + 1 \in Nat
    BY <1>10 DEF StartSession, TypeOK
  <2>2. CASE server.tag = t
    <3>1. Push("session_start", boot[t] + 1, FALSE)
      BY <1>10, <2>2 DEF StartSession
    <3>2. server' = [server EXCEPT !.gap = FALSE]
      BY <1>10, <2>2 DEF StartSession
    <3>3. QED
      BY <2>1, <2>2, <3>1, <3>2, PushedCounts
  <2>3. CASE server.tag # t
    BY <1>1, <1>10, <2>1, <2>3 DEF StartSession
  <2>4. QED
    BY <2>2, <2>3
<1> HIDE DEF userVars, wireVars, askVars, Untouched
<1>11. QED
  BY <1>1, <1>2, <1>3, <1>4, <1>5, <1>6, <1>7, <1>8, <1>9, <1>10, ServeCounts,
     DropCounts, OnFrameCounts, StartLiveCounts DEF Next, Network, User

-----------------------------------------------------------------------------
(* What is marked *)

(* A gap comes with a loss that was not noted, and so asks for a snapshot.  *)
LEMMA FrameMarks ==
    ASSUME TypeOK, Selected, Counted, HolesHidden, OnFrame
    PROVE  HolesHidden'
<1> DEFINE f == Head(down)
<1>1. mode = "live"
  BY DEF OnFrame, Selected, TypeOK
<1>2. live' = Counting(live, f) /\ shown' = Fed(shown, f)
  BY <1>1 DEF OnFrame
<1>3. /\ f \in Frames /\ 1 \in DOMAIN down /\ f = down[1]
      /\ live \in Counters /\ shown \in Screens
  BY HeadTailProperties, LenProperties, EmptySeq DEF OnFrame, TypeOK
<1>4. f.type # "snapshot" => /\ live.lost <= f.lost
                             /\ f.gap => live.lost < f.lost
  BY <1>3 DEF Counted, LostBefore
<1> HIDE DEF f
<1>5. CASE f.type = "snapshot"
  BY <1>2, <1>5 DEF Fed, HolesHidden
<1>6. CASE f.type \in {"append", "session_start"}
  <2>1. live' = Noted(live, f)
    BY <1>2, <1>6 DEF Counting
  <2>2. live.pending => live'.pending
    BY <1>3, <2>1 DEF Noted, Counters
  <2>3. f.gap => live'.pending
    BY <1>3, <1>4, <1>6, <2>1 DEF Noted, Counters, Frames
  <2>4. shown'.hole => shown.hole \/ (f.type = "append" /\ f.gap)
    BY <1>2, <1>3, <1>6 DEF Fed, Screens
  <2>5. QED
    BY <1>1, <2>2, <2>3, <2>4 DEF HolesHidden
<1>7. QED
  BY <1>3, <1>5, <1>6 DEF Frames

LEMMA HoleStep ==
    ASSUME TypeOK, Selected, Answers, Counted, HolesHidden, [Next]_vars
    PROVE  HolesHidden'
<1> DEFINE Untouched == mode' = mode /\ live'.pending = live.pending /\ shown' = shown
<1> DEFINE Replaying == mode' # "live"
<1>1. Untouched \/ Replaying => HolesHidden'
  BY DEF HolesHidden
<1> USE DEF userVars, wireVars, askVars
<1>2. Opened \/ Reconnect \/ Serve \/ Closed \/ SendAppend \/ DropAppend => Untouched
  BY DEF Opened, Reconnect, Serve, Closed, SendAppend, DropAppend
<1>3. Resync => Untouched
  BY DEF Resync, TypeOK, Counters
<1>4. (\E t \in Tags : StartSession(t)) => Untouched
  BY DEF StartSession
<1>5. (\E t \in Tags : StartLive(t)) => HolesHidden'
  BY DEF StartLive, HolesHidden, Cleared
<1>6. (\E s \in Sessions : OpenReplay(s)) => Replaying
  BY DEF OpenReplay
<1>7. ResetZoom => Replaying
  BY DEF ResetZoom
<1>8. ReloadSessions \/ (\E w \in Windows : Zoom(w)) => Untouched
  BY DEF ReloadSessions, Zoom
<1>9. (\E z \in zooms : ZoomTimer(z)) => Untouched
  BY DEF ZoomTimer
<1>10. \A ok \in BOOLEAN : Load(ok) => Untouched \/ Replaying
  <2>1. \A l \in loads, ok \in BOOLEAN : SessionLoaded(l, ok) => Untouched \/ Replaying
    BY DEF SessionLoaded, Current
  <2>2. \A l \in loads, ok \in BOOLEAN : WindowLoaded(l, ok) => Untouched \/ Replaying
    BY DEF WindowLoaded, Newest, Answers
  <2>3. \A asked \in lists, ok \in BOOLEAN : ListLoaded(asked, ok) => Untouched
    BY DEF ListLoaded
  <2>4. QED
    BY <2>1, <2>2, <2>3 DEF Load
<1>11. UNCHANGED vars => Untouched
  BY DEF vars
<1> HIDE DEF userVars, wireVars, askVars, Untouched, Replaying
<1>12. QED
  BY <1>1, <1>2, <1>3, <1>4, <1>5, <1>6, <1>7, <1>8, <1>9, <1>10, <1>11, FrameMarks
     DEF Next, Network, User

-----------------------------------------------------------------------------
(* The invariant *)

LEMMA InitInv ==
    ASSUME Init
    PROVE  PageInv
<1> USE DEF Init
<1>1. TypeOK
  <2>1. live \in Counters
    BY DEF Counters
  <2>2. shown \in Screens
    BY ScreenTypes
  <2>3. source \in Sockets
    BY DEF Sockets
  <2>4. server \in Subscribers
    BY DEF Subscribers, NoSubscriber
  <2>5. boot \in [Tags -> Nat]
    OBVIOUS
  <2>6. QED
    BY <2>1, <2>2, <2>3, <2>4, <2>5, EmptySeq DEF TypeOK
<1>2. Selected
  BY DEF Selected
<1>3. Answers /\ Zooming /\ DetailOfWindow
  BY DEF Answers, SessionLoadsDue, Zooming, ZoomsDue, DetailOfWindow
<1>4. Counted /\ HolesHidden
  BY DEF Counted, NoSubscriber, HolesHidden, Cleared
<1>5. QED
  BY <1>1, <1>2, <1>3, <1>4 DEF PageInv

LEMMA StepInv ==
    ASSUME PageInv, [Next]_vars
    PROVE  PageInv'
<1>1. TypeOK /\ Selected /\ ReplayInv /\ Counted /\ HolesHidden /\ Answers
  BY DEF PageInv, ReplayInv
<1>2. TypeOK' /\ Selected'
  BY <1>1, TypesStep, SelectedStep
<1>3. ReplayInv'
  BY <1>1, ReplayStep
<1>4. Counted' /\ HolesHidden'
  BY <1>1, CountedStep, HoleStep
<1>5. QED
  BY <1>2, <1>3, <1>4 DEF PageInv, ReplayInv

(* In every behaviour of the page the invariant holds.                      *)
THEOREM PageInvariance == Spec => []PageInv
<1>1. Init => PageInv
  BY InitInv
<1>2. PageInv /\ [Next]_vars => PageInv'
  BY StepInv
<1>3. QED
  BY <1>1, <1>2, PTL DEF Spec

(* The types of the state.                                                  *)
THEOREM PageTypes == Spec => []TypeOK
<1>1. PageInv => TypeOK
  BY DEF PageInv
<1>2. QED
  BY <1>1, PageInvariance, PTL

(* Data with a hole that dropped appends left is marked as being fetched    *)
(* anew (noteLost, resyncTimer), however many tags, connections and losses. *)
THEOREM HolesAreMarked == Spec => []HolesHidden
<1>1. PageInv => HolesHidden
  BY DEF PageInv
<1>2. QED
  BY <1>1, PageInvariance, PTL

(* A thinned replay shows the window that is selected, or its answer is due *)
(* or has failed, in whatever order the answers of zooms come.              *)
THEOREM DetailFollowsWindow == Spec => []DetailOfWindow
<1>1. PageInv => DetailOfWindow
  BY DEF PageInv
<1>2. QED
  BY <1>1, PageInvariance, PTL

-----------------------------------------------------------------------------
(* The refinement *)

\* What View's variables are.
Chosen == IF select = "live" THEN tagId ELSE select
Due == IF mode = "live" THEN ~Arrived
       ELSE \E l \in loads : l.type = "session" /\ l.token = token

(* The steps of the view, in terms of the page.                             *)
LEMMA ViewSelects ==
    ASSUME Chosen' \in Tags \cup Sessions, shown'.of = None, Due'
    PROVE  View!Next
BY DEF Chosen, Due, View!Next, View!Select, View!Sources

LEMMA ViewAnswers ==
    ASSUME Chosen' = Chosen, shown'.of = Chosen, ~Due'
    PROVE  View!Next
BY DEF Chosen, Due, View!Next, View!Answer

LEMMA ViewFails ==
    ASSUME Chosen \in Sessions, Chosen' = Chosen, shown'.of = shown.of, Due, ~Due'
    PROVE  View!Next
BY DEF Chosen, Due, View!Next, View!Fail

LEMMA ViewStraggles ==
    ASSUME Chosen \in Tags, Chosen' = Chosen, shown'.of \in Tags, Due, Due'
    PROVE  View!Next
BY DEF Chosen, Due, View!Next, View!Straggler

LEMMA ViewStutters ==
    ASSUME Chosen' = Chosen, shown'.of = shown.of, Due' <=> Due
    PROVE  UNCHANGED View!vars
BY DEF Chosen, Due, View!vars

ViewStep == View!Next \/ UNCHANGED View!vars

LEMMA ChosenSource ==
    ASSUME TypeOK, Selected
    PROVE  /\ mode = "live" => Chosen = tagId
           /\ mode = "replay" => Chosen = session /\ session \in Sessions
           /\ Chosen \in Tags \cup Sessions
BY ClientAssumption DEF TypeOK, Selected, Chosen

(* On the live page what goes on beside the frames cannot take back that    *)
(* all on its way is of the tag.                                            *)
LEMMA LiveQuiet ==
    ASSUME TypeOK, Selected, TypeOK', Selected', mode = "live",
           mode' = mode, tagId' = tagId, shown'.of = shown.of, Arrived => Arrived'
    PROVE  ViewStep
<1>1. Chosen = tagId /\ Chosen' = tagId
  BY ChosenSource DEF Chosen, Selected
<1>2. CASE Arrived' /\ ~Arrived
  BY <1>1, <1>2, ViewAnswers DEF Due, Arrived, ViewStep
<1>3. CASE Arrived' <=> Arrived
  BY <1>1, <1>3, ViewStutters DEF Due, ViewStep
<1>4. QED
  BY <1>2, <1>3

LEMMA LiveFrame ==
    ASSUME TypeOK, Selected, TypeOK', Selected', mode = "live", OnFrame
    PROVE  ViewStep
<1> DEFINE f == Head(down)
<1>1. /\ mode' = mode /\ tagId' = tagId /\ up' = up /\ server' = server
      /\ down' = Tail(down) /\ shown' = Fed(shown, f)
  BY DEF OnFrame, userVars
<1>2. /\ f \in Frames /\ f.tag \in Tags /\ 1 \in DOMAIN down /\ f = down[1]
      /\ \A i \in DOMAIN down' : i + 1 \in DOMAIN down /\ down'[i] = down[i + 1]
  <2>1. down # << >> /\ down \in Seq(Frames)
    BY DEF OnFrame, TypeOK
  <2>2. f \in Frames /\ 1 \in DOMAIN down /\ f = down[1]
    BY <2>1, HeadTailProperties, LenProperties, EmptySeq
  <2>3. \A i \in DOMAIN down' : i + 1 \in DOMAIN down /\ down'[i] = down[i + 1]
    BY <1>1, <2>1, HeadTailProperties, LenProperties, EmptySeq
  <2>4. QED
    BY <2>2, <2>3 DEF Frames
<1> HIDE DEF f
<1>3. shown'.of = f.tag \/ shown' = shown
  BY <1>1, <1>2 DEF Fed, Frames, TypeOK, Screens
<1>4. CASE Arrived
  <2>1. f.tag = tagId /\ shown.of = tagId /\ shown'.of = tagId
    BY <1>2, <1>3, <1>4 DEF Arrived
  <2>2. Arrived'
    BY <1>1, <1>2, <1>4, <2>1 DEF Arrived
  <2>3. QED
    BY <1>1, <2>1, <2>2, LiveQuiet
<1>5. CASE ~Arrived /\ shown' = shown
  BY <1>1, <1>5, LiveQuiet
<1>6. CASE ~Arrived /\ shown'.of = f.tag
  <2>1. Chosen = tagId /\ Chosen' = tagId /\ tagId \in Tags
    BY <1>1, ChosenSource DEF Chosen, Selected, TypeOK
  <2>2. CASE Arrived'
    BY <1>1, <2>1, <2>2, ViewAnswers DEF Due, Arrived, ViewStep
  <2>3. CASE ~Arrived'
    BY <1>1, <1>2, <1>6, <2>1, <2>3, ViewStraggles DEF Due, ViewStep
  <2>4. QED
    BY <2>2, <2>3
<1>7. QED
  BY <1>3, <1>4, <1>5, <1>6

(* A frame that is sent is of the subscriber's tag.                         *)
LEMMA SentOfTag ==
    ASSUME TypeOK, Arrived, NEW f \in Frames, f.tag = tagId, down' = Append(down, f)
    PROVE  \A i \in DOMAIN down' : down'[i].tag = tagId
<1>1. /\ DOMAIN down = 1..Len(down) /\ Len(down) \in Nat
      /\ DOMAIN down' = 1..Len(down) + 1
      /\ \A i \in 1..Len(down) : down'[i] = down[i]
      /\ down'[Len(down) + 1] = f
  BY AppendProperties, LenProperties DEF TypeOK
<1>2. QED
  BY <1>1 DEF Arrived

(* A subscription that is sent is of the selected tag.                      *)
LEMMA SubscribedTag ==
    ASSUME TypeOK, Arrived, up' = Append(up, tagId)
    PROVE  \A i \in DOMAIN up' : up'[i] = tagId
<1>1. /\ DOMAIN up = 1..Len(up) /\ Len(up) \in Nat
      /\ DOMAIN up' = 1..Len(up) + 1
      /\ \A i \in 1..Len(up) : up'[i] = up[i]
      /\ up'[Len(up) + 1] = tagId
  BY AppendProperties, LenProperties DEF TypeOK
<1>2. QED
  BY <1>1 DEF Arrived

LEMMA LiveWire ==
    ASSUME TypeOK, Selected, TypeOK', Selected', mode = "live",
           \/ Opened \/ Closed \/ Reconnect \/ Serve \/ Resync
           \/ SendAppend \/ DropAppend \/ \E t \in Tags : StartSession(t)
    PROVE  ViewStep
<1> DEFINE Kept == mode' = mode /\ tagId' = tagId /\ shown' = shown
<1> SUFFICES Kept /\ (Arrived => Arrived')
  BY LiveQuiet
<1>1. Kept
  BY DEF Opened, Closed, Reconnect, Serve, Resync, SendAppend, DropAppend, StartSession,
         userVars
<1> SUFFICES ASSUME Arrived PROVE Arrived'
  BY <1>1
<1>2. /\ shown'.of = tagId' /\ tagId' = tagId /\ tagId \in Tags
      /\ source.subscription = tagId
  BY <1>1 DEF Arrived, Selected, TypeOK
<1> HIDE DEF Kept
<1>3. CASE Opened
  <2>1. up' = Append(up, tagId) \/ up' = up
    BY <1>2, <1>3 DEF Opened, Subscribe
  <2>2. QED
    BY <1>2, <1>3, <2>1, SubscribedTag DEF Opened, Arrived
<1>4. CASE Closed
  BY <1>2, <1>4 DEF Closed, Hangup, NoSubscriber, Arrived
<1>5. CASE Reconnect
  BY <1>2, <1>5 DEF Reconnect, Arrived
<1>6. CASE Serve
  <2> DEFINE f == [type |-> "snapshot", tag |-> Head(up), boot |-> boot[Head(up)]]
  <2>1. /\ Head(up) = tagId /\ up' = Tail(up)
        /\ \A i \in DOMAIN up' : up'[i] = tagId
    <3>1. up # << >> /\ up \in Seq(Tags) /\ up' = Tail(up)
      BY <1>6 DEF Serve, TypeOK
    <3>2. 1 \in DOMAIN up /\ Head(up) = up[1]
      BY <3>1, LenProperties, EmptySeq
    <3>3. \A i \in DOMAIN up' : i + 1 \in DOMAIN up /\ up'[i] = up[i + 1]
      BY <3>1, HeadTailProperties, LenProperties, EmptySeq
    <3>4. QED
      BY <3>1, <3>2, <3>3 DEF Arrived
  <2>2. f \in Frames /\ f.tag = tagId
    BY <1>2, <2>1, Snapshots DEF TypeOK
  <2>3. down' = Append(down, f) /\ server'.tag = tagId
    BY <1>6, <2>1 DEF Serve
  <2> HIDE DEF f
  <2>4. QED
    BY <1>2, <2>1, <2>2, <2>3, SentOfTag DEF Arrived
<1>7. CASE Resync
  <2>1. up' = Append(up, tagId) \/ up' = up
    BY <1>7 DEF Resync, Subscribe
  <2>2. QED
    BY <1>2, <1>7, <2>1, SubscribedTag DEF Resync, Arrived
<1>8. ASSUME server.tag # None, NEW type \in {"append", "session_start"}, NEW b \in Nat,
             NEW gap \in BOOLEAN, Push(type, b, gap), up' = up, server'.tag = server.tag
      PROVE  Arrived'
  <2> DEFINE f == [type |-> type, tag |-> server.tag, boot |-> b,
                   lost |-> server.lost, gap |-> gap]
  <2>1. server.tag = tagId /\ server \in Subscribers
    BY <1>8 DEF Arrived, TypeOK
  <2>2. f \in Frames /\ f.tag = tagId
    BY <1>2, <2>1, PushedFrames
  <2>3. down' = Append(down, f)
    BY <1>8 DEF Push
  <2> HIDE DEF f
  <2>4. QED
    BY <1>2, <1>8, <2>1, <2>2, <2>3, SentOfTag DEF Arrived
<1>9. CASE SendAppend
  <2>1. /\ server.tag # None /\ server.tag \in Tags /\ server.gap \in BOOLEAN
        /\ boot[server.tag] \in Nat
        /\ Push("append", boot[server.tag], server.gap)
        /\ up' = up /\ server'.tag = server.tag
    BY <1>9 DEF SendAppend, Watched, TypeOK, Subscribers
  <2>2. QED
    BY <1>8, <2>1
<1>10. CASE DropAppend
  BY <1>2, <1>10 DEF DropAppend, Arrived, TypeOK, Subscribers
<1>11. ASSUME NEW t \in Tags, StartSession(t) PROVE Arrived'
  <2>1. CASE server.tag = t
    <3>1. boot[t] + 1 \in Nat /\ server.tag # None
      <4>1. boot[t] + 1 \in Nat
        BY DEF TypeOK
      <4>2. server.tag # None
        BY <2>1, ClientAssumption
      <4>3. QED
        BY <4>1, <4>2
    <3>2. /\ Push("session_start", boot[t] + 1, FALSE)
          /\ up' = up /\ server'.tag = server.tag
      BY <1>11, <2>1 DEF StartSession, TypeOK, Subscribers
    <3>3. QED
      BY <1>8, <3>1, <3>2
  <2>2. CASE server.tag # t
    BY <1>2, <1>11, <2>2 DEF StartSession, Arrived
  <2>3. QED
    BY <2>1, <2>2
<1>12. QED
  BY <1>3, <1>4, <1>5, <1>6, <1>7, <1>9, <1>10, <1>11

(* Actions that change neither what is selected, shown, asked nor the wire. *)
LEMMA Quiet ==
    ASSUME UNCHANGED <<mode, tagId, token, shown, up, down, server>>,
           Chosen' = Chosen, SessionLoadsDue' = SessionLoadsDue
    PROVE  ViewStep
<1>1. (\E l \in SessionLoadsDue : l.token = token)'
        <=> \E l \in SessionLoadsDue : l.token = token
  OBVIOUS
<1>2. Due' <=> Due
  BY <1>1 DEF Due, SessionLoadsDue, Arrived
<1>3. QED
  BY <1>2, ViewStutters DEF ViewStep

LEMMA ReplayWire ==
    ASSUME TypeOK, Selected, mode = "replay",
           \/ Network \/ Closed \/ Resync
           \/ SendAppend \/ DropAppend \/ \E t \in Tags : StartSession(t)
    PROVE  ViewStep
<1>1. /\ ~Opened /\ ~Closed /\ ~Reconnect /\ ~Serve /\ ~OnFrame
      /\ ~SendAppend /\ ~DropAppend
  BY DEF Selected, Opened, Closed, Reconnect, Serve, OnFrame, SendAppend, DropAppend,
         Watched
<1>2. CASE Resync
  <2>1. UNCHANGED <<mode, tagId, select, token, shown, up, down, server, loads>>
    BY <1>2 DEF Resync, userVars, askVars
  <2>2. QED
    BY <2>1, Quiet DEF Chosen, SessionLoadsDue
<1>3. ASSUME NEW t \in Tags, StartSession(t) PROVE ViewStep
  <2>1. UNCHANGED <<mode, tagId, select, token, shown, up, down, server, loads>>
    BY <1>3, ClientAssumption DEF StartSession, userVars, askVars, Selected
  <2>2. QED
    BY <2>1, Quiet DEF Chosen, SessionLoadsDue
<1>4. QED
  BY <1>1, <1>2, <1>3 DEF Network

LEMMA UserSteps ==
    ASSUME PageInv, PageInv', User
    PROVE  ViewStep
<1> USE DEF userVars, wireVars, askVars
<1>1. /\ TypeOK /\ Selected /\ Answers
      /\ TypeOK' /\ Selected' /\ Answers'
  BY DEF PageInv
<1>2. ASSUME NEW t \in Tags, StartLive(t) PROVE ViewStep
  <2>1. mode' = "live" /\ tagId' = t /\ select' = "live" /\ shown'.of = None
    BY <1>2 DEF StartLive, Cleared
  <2>2. Chosen' = t /\ None # t
    BY <2>1, ClientAssumption DEF Chosen
  <2>3. Due'
    BY <2>1, <2>2 DEF Due, Arrived
  <2>4. QED
    BY <2>1, <2>2, <2>3, ViewSelects DEF ViewStep
<1>3. ASSUME NEW s \in Sessions, OpenReplay(s) PROVE ViewStep
  <2> DEFINE asked == [type |-> "session", token |-> choices + 1, session |-> s]
  <2>1. /\ mode' = "replay" /\ select' = s /\ token' = choices + 1 /\ shown'.of = None
        /\ asked \in loads'
    BY <1>3 DEF OpenReplay, Cleared
  <2>2. Chosen' = s
    BY <2>1, ClientAssumption DEF Chosen
  <2>3. asked.type = "session" /\ asked.token = choices + 1
    OBVIOUS
  <2>4. Due'
    BY <2>1, <2>3 DEF Due
  <2>5. QED
    BY <2>1, <2>2, <2>4, ViewSelects DEF ViewStep
<1>4. ASSUME NEW w \in Windows, Zoom(w) PROVE ViewStep
  BY <1>4, Quiet DEF Zoom, Chosen, SessionLoadsDue
<1>5. CASE ResetZoom
  <2>1. /\ mode = "replay" /\ mode' = mode /\ select' = select /\ tagId' = tagId
        /\ shown'.of = session /\ replay' # None
    <3>1. replay' # None
      <4>1. replay \in Replays
        BY <1>1, <1>5 DEF ResetZoom, TypeOK
      <4>2. replay' \in Replays
        BY <1>5, <4>1, ReplayTypes DEF ResetZoom
      <4>3. QED
        BY <4>2, ClientAssumption
    <3>2. QED
      BY <1>5, <3>1 DEF ResetZoom, Cleared
  <2>2. Chosen = session /\ Chosen' = Chosen
    BY <1>1, <2>1, ChosenSource DEF Chosen
  <2>3. ~Due'
    BY <1>1, <2>1 DEF Due, Answers, SessionLoadsDue
  <2>4. QED
    BY <2>1, <2>2, <2>3, ViewAnswers DEF ViewStep
<1>6. CASE ReloadSessions
  BY <1>6, Quiet DEF ReloadSessions, Chosen, SessionLoadsDue
<1>7. QED
  BY <1>2, <1>3, <1>4, <1>5, <1>6 DEF User

(* The answer to the selection, and one to a selection before.              *)
LEMMA SessionLoadedView ==
    ASSUME PageInv, NEW l \in loads, NEW ok \in BOOLEAN, SessionLoaded(l, ok)
    PROVE  ViewStep
<1>1. TypeOK /\ Selected /\ Answers
  BY DEF PageInv
<1>2. /\ UNCHANGED <<mode, tagId, select, token, session, up, down, server>>
      /\ loads' = loads \ {l} /\ l.type = "session"
  BY DEF SessionLoaded, userVars, wireVars
<1>3. Chosen' = Chosen
  BY <1>2 DEF Chosen
<1>4. CASE Current(l)
  <2>1. mode = "replay" /\ l.token = token /\ Chosen = session /\ Chosen \in Sessions
    BY <1>1, <1>4, ChosenSource DEF Current
  <2>2. Due /\ l.session = session
    BY <1>1, <1>2, <2>1, DueTypes DEF Due, Answers
  <2>3. ~Due'
    BY <1>1, <1>2, <2>1 DEF Due, Answers, SessionLoadsDue
  <2>4. CASE ok
    <3>1. shown'.of = l.session
      BY <1>4, <2>4 DEF SessionLoaded, Cleared
    <3>2. QED
      BY <1>3, <2>1, <2>2, <2>3, <3>1, ViewAnswers DEF ViewStep
  <2>5. CASE ~ok
    <3>1. shown' = shown
      BY <2>5 DEF SessionLoaded
    <3>2. QED
      BY <1>3, <2>1, <2>2, <2>3, <3>1, ViewFails DEF ViewStep
  <2>6. QED
    BY <2>4, <2>5
<1>5. CASE ~Current(l)
  <2>1. shown' = shown
    BY <1>5 DEF SessionLoaded
  <2>2. Due' <=> Due
    <3>1. CASE mode = "replay"
      <4>1. l.token # token
        BY <1>5, <3>1 DEF Current
      <4>2. QED
        BY <1>2, <3>1, <4>1 DEF Due
    <3>2. CASE mode = "live"
      BY <1>2, <2>1, <3>2 DEF Due, Arrived
    <3>3. QED
      BY <1>1, <3>1, <3>2 DEF TypeOK
  <2>3. QED
    BY <1>3, <2>1, <2>2, ViewStutters DEF ViewStep
<1>6. QED
  BY <1>4, <1>5

LEMMA WindowLoadedView ==
    ASSUME PageInv, PageInv', NEW l \in loads, NEW ok \in BOOLEAN, WindowLoaded(l, ok)
    PROVE  ViewStep
<1>1. TypeOK /\ Selected /\ Answers /\ Answers'
  BY DEF PageInv
<1>2. /\ UNCHANGED <<mode, tagId, select, token, session, up, down, server>>
      /\ loads' = loads \ {l} /\ l.type = "zoom"
  BY DEF WindowLoaded, userVars, wireVars
<1>3. Chosen' = Chosen /\ SessionLoadsDue' = SessionLoadsDue
  BY <1>2 DEF Chosen, SessionLoadsDue
<1>4. CASE Newest(l) /\ ok
  <2>1. mode = "replay" /\ l.token = token /\ shown'.of = l.session /\ replay # None
    BY <1>1, <1>4 DEF WindowLoaded, Newest, Cleared, Answers
  <2>2. Chosen = session /\ l.session = session
    BY <1>1, <2>1, ChosenSource, DueTypes DEF Answers
  <2>3. ~Due'
    BY <1>1, <1>2, <1>3, <2>1 DEF Due, Answers, SessionLoadsDue
  <2>4. QED
    BY <1>3, <2>1, <2>2, <2>3, ViewAnswers DEF ViewStep
<1>5. CASE ~(Newest(l) /\ ok)
  <2>1. shown' = shown
    BY <1>5 DEF WindowLoaded
  <2>2. QED
    BY <1>2, <1>3, <2>1, Quiet
<1>6. QED
  BY <1>4, <1>5

LEMMA AnswerSteps ==
    ASSUME PageInv, PageInv',
           \/ \E z \in zooms : ZoomTimer(z)
           \/ \E ok \in BOOLEAN : Load(ok)
    PROVE  ViewStep
<1> USE DEF userVars, wireVars, askVars
<1>1. ASSUME NEW z \in zooms, ZoomTimer(z) PROVE ViewStep
  <2>1. UNCHANGED <<mode, tagId, select, token, shown, up, down, server>>
    BY <1>1 DEF ZoomTimer
  <2>2. SessionLoadsDue' = SessionLoadsDue
    BY <1>1 DEF ZoomTimer, SessionLoadsDue
  <2>3. QED
    BY <2>1, <2>2, Quiet DEF Chosen
<1>2. ASSUME NEW asked \in lists, NEW ok \in BOOLEAN, ListLoaded(asked, ok) PROVE ViewStep
  <2>1. UNCHANGED <<mode, tagId, token, session, shown, up, down, server, loads>>
    BY <1>2 DEF ListLoaded
  <2>2. select' = select
    BY <1>2, ClientAssumption DEF ListLoaded, Reselected, PageInv, Selected, TypeOK
  <2>3. QED
    BY <2>1, <2>2, Quiet DEF Chosen, SessionLoadsDue
<1>3. QED
  BY <1>1, <1>2, SessionLoadedView, WindowLoadedView DEF Load

LEMMA StepRefines ==
    ASSUME PageInv, PageInv', [Next]_vars
    PROVE  ViewStep
<1>1. TypeOK /\ Selected /\ TypeOK' /\ Selected' /\ mode \in {"live", "replay"}
  BY DEF PageInv, TypeOK
<1>2. CASE UNCHANGED vars
  BY <1>2, Quiet DEF vars, userVars, wireVars, askVars, Chosen, SessionLoadsDue
<1>3. CASE User
  BY <1>3, UserSteps
<1>4. CASE (\E z \in zooms : ZoomTimer(z)) \/ \E ok \in BOOLEAN : Load(ok)
  BY <1>4, AnswerSteps
<1>5. CASE \/ Network \/ Closed \/ Resync
           \/ SendAppend \/ DropAppend \/ \E t \in Tags : StartSession(t)
  <2>1. CASE mode = "replay"
    BY <1>1, <1>5, <2>1, ReplayWire
  <2>2. CASE mode = "live"
    BY <1>1, <1>5, <2>2, LiveWire, LiveFrame DEF Network
  <2>3. QED
    BY <1>1, <2>1, <2>2
<1>6. QED
  BY <1>2, <1>3, <1>4, <1>5 DEF Next

LEMMA InitRefines ==
    ASSUME Init
    PROVE  View!Init
BY ClientAssumption DEF Init, Cleared, Arrived, View!Init, View!Sources

(* What the page shows refines PageView: an answer to an older selection is *)
(* never shown, nor a frame of another tag once the selected one answered.  *)
THEOREM ShowsOnlySelected == Spec => ViewSafety
<1>1. Init => View!Init
  BY InitRefines
<1>2. PageInv /\ PageInv' /\ [Next]_vars => [View!Next]_View!vars
  BY StepRefines DEF ViewStep
<1>3. QED
  BY <1>1, <1>2, PageInvariance, PTL DEF Spec, ViewSafety

=============================================================================
