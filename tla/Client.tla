------------------------------- MODULE Client -------------------------------
(***************************************************************************)
(* The control of the page (static/js/main.js, static/js/sources.js): one  *)
(* screen fed by the live connection or by the query API, as the user      *)
(* selects.  Answers come in any order or fail, the connection breaks and  *)
(* is made again, appends are dropped at the server and fetched anew.      *)
(*                                                                         *)
(* What a frame does to the data is LivePage's; here data is whose it is   *)
(* and whether appends are missing in it.  The server is the subscriber of *)
(* LiveQueue seen from outside: it answers a subscription with a snapshot, *)
(* counts from 0 what it drops since, and sends in order.                  *)
(***************************************************************************)
EXTENDS Naturals, Sequences

CONSTANTS
    None,
    Tags,
    Sessions,    \* stored sessions
    Thinned,     \* those of them that are thinned out when loaded whole
    Windows,     \* what the user may zoom into
    MaxChoices,  \* bound on what the user does
    MaxFaults,   \* bound on dropped appends, broken connections, failed loads
    MaxBoots,    \* bound on the sessions of a tag
    MaxFlight    \* bound on frames under way

Ranges == Windows \cup {"whole"}

(* What state.replay may be.                                                *)
Replays == [session : Sessions, window : Ranges, detail : Ranges, zoom : Nat,
            failed : BOOLEAN]

ASSUME ClientAssumption ==
    /\ Tags \cap Sessions = {} /\ "live" \notin Sessions
    /\ None \notin Tags \cup Sessions \cup Windows \cup Nat \cup Replays
    /\ Thinned \subseteq Sessions /\ "whole" \notin Windows
    /\ {MaxChoices, MaxFaults, MaxBoots, MaxFlight} \subseteq Nat

VARIABLES
    mode,     \* state.mode
    tagId,    \* state.live.tagId
    select,   \* value of the select box: "live" or a session
    token,    \* state.replayToken, None or the number of the choice
    session,  \* state.replaySessionId
    replay,   \* state.replay: None or [session, window, detail, zoom, failed]
    live,     \* of state.live: [lost, pending, timer]
    shown,    \* SessionData: whose data, of which boot, with a hole or not
    source,   \* LiveSource: [socket, subscription, closed, timer]
    up,       \* subscriptions on their way to the server
    down,     \* frames on their way to the page
    server,   \* the subscriber at the server: [tag, lost, gap]
    boot,     \* the session each tag runs, 0 for none yet
    loads,    \* answers of the query API that are due
    zooms,    \* zoomTimers that run
    lists,    \* answers with the list of sessions that are due
    choices, faults

userVars == <<mode, tagId, select, token, session>>
wireVars == <<source, up, down, server, boot>>
askVars == <<loads, zooms, lists>>
vars == <<userVars, replay, live, shown, wireVars, askVars, choices, faults>>

Cleared == [of |-> None, boot |-> 0, hole |-> FALSE]

NoSubscriber == [tag |-> None, lost |-> 0, gap |-> FALSE]

Choice == choices < MaxChoices /\ choices' = choices + 1 /\ UNCHANGED faults
Fault == faults < MaxFaults /\ faults' = faults + 1 /\ UNCHANGED choices
NoLimit == UNCHANGED <<choices, faults>>

-----------------------------------------------------------------------------
(* LiveSource *)

(* Bug: what is subscribed already is not sent again.                       *)
Bug_Subscribe(src, t) ==
    /\ source' = [src EXCEPT !.subscription = t]
    /\ up' = IF src.socket = "open" /\ t # src.subscription THEN Append(up, t) ELSE up

(* subscribe, and its _send if the socket is open.                          *)
Subscribe(src, t) ==
    /\ source' = [src EXCEPT !.subscription = t]
    /\ up' = IF src.socket = "open" THEN Append(up, t) ELSE up

(* The socket is gone, with what was under way on it.                       *)
Hangup(src) ==
    /\ source' = src
    /\ up' = << >> /\ down' = << >> /\ server' = NoSubscriber

(* The listener of "open" subscribes again.                                 *)
Opened ==
    /\ source.socket = "connecting"
    /\ Subscribe([source EXCEPT !.socket = "open"], source.subscription)
    /\ NoLimit
    /\ UNCHANGED <<userVars, replay, live, shown, down, server, boot, askVars>>

(* The listener of "close", of a socket that opened or did not.             *)
Closed ==
    /\ source.socket # "none"
    /\ Hangup([source EXCEPT !.socket = "none", !.timer = TRUE])
    /\ Fault
    /\ UNCHANGED <<userVars, replay, live, shown, boot, askVars>>

Reconnect ==
    /\ source.timer
    /\ source' = [source EXCEPT !.socket = "connecting", !.timer = FALSE]
    /\ NoLimit
    /\ UNCHANGED <<userVars, replay, live, shown, up, down, server, boot, askVars>>

-----------------------------------------------------------------------------
(* The server, as far as it is seen from here *)

(* A snapshot never waits behind appends.                                   *)
Serve ==
    /\ up # << >> /\ Len(down) <= MaxFlight
    /\ up' = Tail(up)
    /\ server' = [tag |-> Head(up), lost |-> 0, gap |-> FALSE]
    /\ down' = Append(down, [type |-> "snapshot", tag |-> Head(up), boot |-> boot[Head(up)]])
    /\ NoLimit
    /\ UNCHANGED <<userVars, replay, live, shown, source, boot, askVars>>

Watched == server.tag # None /\ Len(down) < MaxFlight

Push(type, b, gap) ==
    down' = Append(down, [type |-> type, tag |-> server.tag, boot |-> b,
                          lost |-> server.lost, gap |-> gap])

SendAppend ==
    /\ Watched /\ boot[server.tag] # 0
    /\ Push("append", boot[server.tag], server.gap)
    /\ server' = [server EXCEPT !.gap = FALSE]
    /\ NoLimit
    /\ UNCHANGED <<userVars, replay, live, shown, source, up, boot, askVars>>

DropAppend ==
    /\ server.tag # None /\ boot[server.tag] # 0
    /\ server' = [server EXCEPT !.lost = @ + 1, !.gap = TRUE]
    /\ Fault
    /\ UNCHANGED <<userVars, replay, live, shown, source, up, down, boot, askVars>>

(* A tag starts a session; a gap of the one before is of no account to it.  *)
StartSession(t) ==
    /\ boot[t] < MaxBoots
    /\ boot' = [boot EXCEPT ![t] = @ + 1]
    /\ IF server.tag = t
       THEN /\ Watched
            /\ Push("session_start", boot[t] + 1, FALSE)
            /\ server' = [server EXCEPT !.gap = FALSE]
       ELSE UNCHANGED <<down, server>>
    /\ NoLimit
    /\ UNCHANGED <<userVars, replay, live, shown, source, up, askVars>>

-----------------------------------------------------------------------------
(* onFrame *)

(* noteLost: what is more than last time asks for a new snapshot.           *)
Noted(l, f) ==
    IF f.lost > l.lost
    THEN [lost |-> f.lost, pending |-> TRUE, timer |-> TRUE]
    ELSE [l EXCEPT !.lost = f.lost]

(* Bug: what was counted for the subscription before is kept.               *)
Bug_Counting(l, f) ==
    IF f.type = "snapshot" THEN [l EXCEPT !.pending = FALSE] ELSE Noted(l, f)

Counting(l, f) ==
    IF f.type = "snapshot" THEN [l EXCEPT !.lost = 0, !.pending = FALSE]
    ELSE Noted(l, f)

(* A page without a boot takes any append; none names the tag it is for.    *)
Fed(s, f) ==
    CASE f.type = "snapshot" -> [of |-> f.tag, boot |-> f.boot, hole |-> FALSE]
      [] f.type = "session_start" ->
           [of |-> f.tag, boot |-> f.boot, hole |-> s.hole /\ s.boot = f.boot]
      [] f.type = "append" ->
           IF s.boot # 0 /\ <<s.of, s.boot>> # <<f.tag, f.boot>> THEN s
           ELSE [s EXCEPT !.of = f.tag, !.hole = @ \/ f.gap]

OnFrame ==
    /\ down # << >>
    /\ down' = Tail(down)
    /\ IF mode = "live"
       THEN live' = Counting(live, Head(down)) /\ shown' = Fed(shown, Head(down))
       ELSE UNCHANGED <<live, shown>>
    /\ NoLimit
    /\ UNCHANGED <<userVars, replay, source, up, server, boot, askVars>>

(* The resyncTimer fires.                                                   *)
Resync ==
    /\ live.timer
    /\ live' = [live EXCEPT !.timer = FALSE]
    /\ IF mode = "live" /\ live.pending THEN Subscribe(source, tagId)
       ELSE UNCHANGED <<source, up>>
    /\ NoLimit
    /\ UNCHANGED <<userVars, replay, shown, down, server, boot, askVars>>

-----------------------------------------------------------------------------
(* What the user does *)

(* startLive: the resyncTimer and the zoomTimers run on.                    *)
StartLive(t) ==
    LET opened == IF source.closed
                  THEN [source EXCEPT !.closed = FALSE, !.socket = "connecting"]
                  ELSE source
    IN  /\ mode' = "live" /\ tagId' = t /\ select' = "live"
        /\ replay' = None /\ token' = None /\ session' = None
        /\ live' = [live EXCEPT !.lost = 0, !.pending = FALSE]
        /\ shown' = Cleared
        /\ Subscribe(opened, t)
        /\ Choice
        /\ UNCHANGED <<down, server, boot, askVars>>

(* openReplay up to its await; the select box shows s already.              *)
OpenReplay(s) ==
    /\ mode' = "replay" /\ select' = s /\ session' = s
    /\ token' = choices + 1
    /\ replay' = None
    /\ shown' = Cleared
    /\ loads' = loads \cup {[type |-> "session", token |-> choices + 1, session |-> s]}
    /\ Hangup([source EXCEPT !.closed = TRUE, !.socket = "none", !.timer = FALSE])
    /\ Choice
    /\ UNCHANGED <<tagId, live, boot, zooms, lists>>

OtherZooms == {z \in zooms : z.token # token}

(* onZoom *)
Zoom(w) ==
    /\ mode = "replay" /\ replay # None
    /\ IF session \in Thinned
       THEN /\ replay' = [replay EXCEPT !.window = w, !.zoom = @ + 1, !.failed = FALSE]
            /\ zooms' = OtherZooms \cup
                 {[token |-> token, zoom |-> replay.zoom + 1, session |-> session, window |-> w]}
       ELSE replay' = [replay EXCEPT !.window = w] /\ zooms' = OtherZooms
    /\ Choice
    /\ UNCHANGED <<userVars, live, shown, wireVars, loads, lists>>

(* onReset *)
ResetZoom ==
    /\ mode = "replay" /\ replay # None
    /\ replay' = [replay EXCEPT !.window = "whole", !.detail = "whole",
                                !.zoom = @ + 1, !.failed = FALSE]
    /\ zooms' = OtherZooms
    /\ shown' = [Cleared EXCEPT !.of = session]
    /\ Choice
    /\ UNCHANGED <<userVars, live, wireVars, loads, lists>>

(* reloadSessions up to its await.                                          *)
ReloadSessions ==
    /\ lists' = lists \cup {select}
    /\ Choice
    /\ UNCHANGED <<userVars, replay, live, shown, wireVars, loads, zooms>>

-----------------------------------------------------------------------------
(* What is awaited *)

(* Bug: the answer is taken whatever was selected since.                    *)
Bug_Current(l) == mode = "replay"

(* The answer is to the session that is selected.                           *)
Current(l) == token = l.token /\ mode = "replay"

(* openReplay after its await, with an answer or an error.                  *)
SessionLoaded(l, ok) ==
    /\ l.type = "session"
    /\ loads' = loads \ {l}
    /\ IF Current(l) /\ ok
       THEN /\ replay' = [session |-> l.session, window |-> "whole", detail |-> "whole",
                          zoom |-> 0, failed |-> FALSE]
            /\ shown' = [Cleared EXCEPT !.of = l.session]
       ELSE UNCHANGED <<replay, shown>>
    /\ IF ok THEN NoLimit ELSE Fault
    /\ UNCHANGED <<userVars, live, wireVars, zooms, lists>>

ZoomTimer(z) ==
    /\ zooms' = zooms \ {z}
    /\ loads' = loads \cup {[type |-> "zoom", token |-> z.token, zoom |-> z.zoom,
                             session |-> z.session, window |-> z.window]}
    /\ NoLimit
    /\ UNCHANGED <<userVars, replay, live, shown, wireVars, lists>>

(* Bug: only the session is compared.                                       *)
Bug_Newest(l) == replay # None /\ token = l.token

(* The answer is to the newest zoom of the session that is shown.           *)
Newest(l) == replay # None /\ token = l.token /\ replay.zoom = l.zoom

(* The zoomTimer's function after its await.                                *)
WindowLoaded(l, ok) ==
    /\ l.type = "zoom"
    /\ loads' = loads \ {l}
    /\ IF ~Newest(l) THEN UNCHANGED <<replay, shown>>
       ELSE IF ok THEN /\ replay' = [replay EXCEPT !.detail = l.window]
                       /\ shown' = [Cleared EXCEPT !.of = l.session]
       ELSE replay' = [replay EXCEPT !.failed = TRUE] /\ UNCHANGED shown
    /\ IF ok THEN NoLimit ELSE Fault
    /\ UNCHANGED <<userVars, live, wireVars, zooms, lists>>

(* The option that is selected again in the new list.                       *)
Reselected(asked) == IF mode = "replay" /\ session # None THEN session ELSE "live"

(* reloadSessions after its await; a failed one changes no option.          *)
ListLoaded(asked, ok) ==
    /\ lists' = lists \ {asked}
    /\ select' = IF ok THEN Reselected(asked) ELSE select
    /\ IF ok THEN NoLimit ELSE Fault
    /\ UNCHANGED <<mode, tagId, token, session, replay, live, shown, wireVars, loads, zooms>>

-----------------------------------------------------------------------------
(* The page that startFromHash has opened on a tag.                         *)
Init ==
    /\ mode = "live" /\ select = "live" /\ token = None /\ session = None
    /\ tagId \in Tags
    /\ replay = None
    /\ live = [lost |-> 0, pending |-> FALSE, timer |-> FALSE]
    /\ shown = Cleared
    /\ source = [socket |-> "connecting", subscription |-> tagId, closed |-> FALSE,
                 timer |-> FALSE]
    /\ up = << >> /\ down = << >> /\ server = NoSubscriber
    /\ boot \in [Tags -> 0..1]
    /\ loads = {} /\ zooms = {} /\ lists = {}
    /\ choices = 0 /\ faults = 0

Network == Opened \/ Reconnect \/ Serve \/ OnFrame

(* The tag may be given again: the field was something else in between.     *)
User ==
    \/ \E t \in Tags : StartLive(t)
    \/ \E s \in Sessions : s # session /\ OpenReplay(s)
    \/ \E w \in Windows : Zoom(w)
    \/ ResetZoom
    \/ ReloadSessions

Load(ok) ==
    \/ \E l \in loads : SessionLoaded(l, ok) \/ WindowLoaded(l, ok)
    \/ \E asked \in lists : ListLoaded(asked, ok)

Next ==
    \/ Network \/ Closed \/ Resync
    \/ SendAppend \/ DropAppend \/ \E t \in Tags : StartSession(t)
    \/ User
    \/ \E z \in zooms : ZoomTimer(z)
    \/ \E ok \in BOOLEAN : Load(ok)

(* Sockets open or close, frames and answers arrive or fail, timers fire.   *)
Fairness ==
    /\ WF_vars(Opened) /\ WF_vars(Reconnect) /\ WF_vars(Serve) /\ WF_vars(OnFrame)
    /\ WF_vars(Resync)
    /\ WF_vars(Load(TRUE) \/ Load(FALSE))

Spec == Init /\ [][Next]_vars /\ Fairness

-----------------------------------------------------------------------------
(* Properties *)

(* What the variables hold.                                                 *)
Counters == [lost : Nat, pending : BOOLEAN, timer : BOOLEAN]
Screens == [of : Tags \cup Sessions \cup {None}, boot : Nat, hole : BOOLEAN]
Sockets == [socket : {"none", "connecting", "open"}, subscription : Tags,
            closed : BOOLEAN, timer : BOOLEAN]
Subscribers == [tag : Tags \cup {None}, lost : Nat, gap : BOOLEAN]
Frames == [type : {"snapshot"}, tag : Tags, boot : Nat]
            \cup [type : {"append", "session_start"}, tag : Tags, boot : Nat,
                  lost : Nat, gap : BOOLEAN]
SessionLoads == [type : {"session"}, token : Nat, session : Sessions]
ZoomLoads == [type : {"zoom"}, token : Nat, zoom : Nat \ {0}, session : Thinned,
              window : Windows]
Zooms == [token : Nat, zoom : Nat \ {0}, session : Thinned, window : Windows]

TypeOK ==
    /\ mode \in {"live", "replay"} /\ tagId \in Tags
    /\ select \in Sessions \cup {"live"} /\ session \in Sessions \cup {None}
    /\ token \in Nat \cup {None}
    /\ replay \in Replays \cup {None}
    /\ live \in Counters /\ shown \in Screens
    /\ source \in Sockets /\ up \in Seq(Tags) /\ down \in Seq(Frames)
    /\ server \in Subscribers /\ boot \in [Tags -> Nat]
    /\ loads \subseteq SessionLoads \cup ZoomLoads /\ zooms \subseteq Zooms
    /\ lists \subseteq Sessions \cup {"live"}
    /\ choices \in Nat /\ faults \in Nat

(* Data with a hole that the server's drops left is marked as being fetched *)
(* anew: the page never takes dropped appends for cycles lost on the air,   *)
(* across tag switches, reconnections and overlapping snapshots.            *)
HolesHidden == (mode = "live" /\ shown.hole) => live.pending

(* ... and the hole is filled, or the user looks at something else.         *)
HolesHeal == (mode = "live" /\ shown.hole) ~> ~(mode = "live" /\ shown.hole)

(* A replay shows in detail the window that is selected, unless its answer  *)
(* is due or has failed, in whatever order the answers of zooms come.       *)
DetailOfWindow ==
    (replay # None /\ session \in Thinned /\ replay.detail # replay.window) =>
        \/ replay.failed
        \/ \E z \in zooms \cup {l \in loads : l.type = "zoom"} :
             z.token = token /\ z.zoom = replay.zoom

(* What is on its way is all of the selected tag.                           *)
Arrived ==
    /\ shown.of = tagId
    /\ server.tag \in {None, tagId}
    /\ \A i \in DOMAIN up : up[i] = tagId
    /\ \A i \in DOMAIN down : down[i].tag = tagId

View == INSTANCE PageView WITH
    source <- IF select = "live" THEN tagId ELSE select,
    shown <- shown.of,
    due <- IF mode = "live" THEN ~Arrived
           ELSE \E l \in loads : l.type = "session" /\ l.token = token

(* The page shows what is selected (PageView): no answer of an older        *)
(* selection, no old frame once the new tag has answered.                   *)
ShowsSelected == View!Spec

=============================================================================
