------------------------------ MODULE LiveQueue ------------------------------
(***************************************************************************)
(* One WebSocket connection of the live view: the bounded frame queue of a *)
(* Subscriber (live/hub.py) and the two tasks of api/routes_live.py that   *)
(* work on it, _receive_ops and _send_frames.  The hub's broadcasts are    *)
(* the environment.                                                        *)
(*                                                                         *)
(* Everything runs on one event loop, so a handler is atomic up to its     *)
(* next await.  The sender awaits in four places, and each is a value of   *)
(* `pc': the queue's Event ("waiting"), the anchor lookup in a thread      *)
(* ("reading"), send_text ("sending") and close ("closing").               *)
(*                                                                         *)
(* A frame is its type and the subscription it was queued for; payloads    *)
(* are left out.                                                           *)
(***************************************************************************)
EXTENDS Integers, Sequences, SequencesExt

CONSTANTS
    BroadcastKinds, \* what LiveHub broadcasts to the subscribers of a tag
    MaxFrames,      \* SUBSCRIBER_MAX_FRAMES
    MaxLost,        \* bound on `lost': broadcasts pause beyond it
    MaxGeneration   \* bound on the subscriptions made over one connection

(* Three is what loss reporting needs: one snapshot and one error may be    *)
(* queued that carry no loss counter.  The server runs with 20.             *)
ASSUME QueueAssumption ==
    /\ BroadcastKinds \subseteq {"append", "session_start", "session_end",
                                 "session_info"}
    /\ MaxFrames \in Nat /\ MaxFrames >= 3
    /\ MaxLost \in Nat
    /\ MaxGeneration \in Nat

VARIABLES
    frames,      \* Subscriber._frames
    lost,        \* Subscriber.lost
    overflowed,  \* Subscriber.overflowed
    generation,  \* Subscriber.generation
    ready,       \* Subscriber._ready.is_set()
    subscribed,  \* Subscriber.tag_id is not None
    pc,          \* where the sender task is
    sending,     \* the frame the sender holds while reading or sending
    seen,        \* the local `generation' of _send_frames
    receiving,   \* the receiver task is running
    connected,   \* the subscriber is in LiveHub._subscribers
    reported     \* ghost: the last `lost' put on a frame of this subscription

queue == <<frames, lost, overflowed, ready>>
subscription == <<generation, subscribed>>
sender == <<pc, sending, seen>>
vars == <<frames, lost, overflowed, generation, ready, subscribed,
          pc, sending, seen, receiving, connected, reported>>

Kinds == {"snapshot", "append", "session_start", "session_end",
          "session_info", "error"}

AnchorCarrying == {"snapshot", "session_start", "session_info"}

(* Bug: only append carries the counter.                                    *)
Bug_LostCarrying == {"append"}
LostCarrying == {"append", "session_start", "session_end", "session_info"}

HardLimit == 2 * MaxFrames

Frame == [kind : Kinds, gen : Nat]

NoFrame == [kind |-> "error", gen |-> 0]

New(kind) == [kind |-> kind, gen |-> generation]

PcValues == {"next", "waiting", "reading", "sending", "closing", "done"}

-----------------------------------------------------------------------------
(* The queue *)

(* q without its oldest frame of a kind.                                    *)
RemoveOldest(q, kind) ==
    LET at == {i \in DOMAIN q : q[i].kind = kind}
    IN  IF at = {} THEN q ELSE RemoveAt(q, Min(at))

(* Subscriber._drop_pending_errors: it removes every pending error, of      *)
(* which there is at most one (QueueShape).                                 *)
Superseded(q, f) == IF f.kind = "error" THEN RemoveOldest(q, "error") ELSE q

(* Bug: the oldest frame goes, whatever it is.                              *)
Bug_Shed(q) == IF Len(q) > MaxFrames THEN Tail(q) ELSE q

(* The loop of Subscriber.push around _drop_oldest_append.  One round is    *)
(* enough: afterwards the queue fits or holds no append, which is the       *)
(* loop's exit condition and the second conjunct of QueueShape.             *)
Shed(q) == IF Len(q) > MaxFrames THEN RemoveOldest(q, "append") ELSE q

(* Subscriber.push on the frames q and the loss counter n.                  *)
Push(q, n, f) ==
    IF overflowed
    THEN /\ frames' = q
         /\ lost' = n
         /\ UNCHANGED <<overflowed, ready>>
    ELSE LET full == Append(Superseded(q, f), f)
             kept == Shed(full)
         IN  /\ lost' = n + (Len(full) - Len(kept))
             /\ overflowed' = (Len(kept) > HardLimit)
             /\ frames' = IF Len(kept) > HardLimit THEN << >> ELSE kept
             /\ ready' = TRUE

-----------------------------------------------------------------------------
(* The hub *)

(* LiveHub._broadcast, for a subscriber of the tag.                         *)
Broadcast(kind) ==
    /\ connected /\ subscribed
    /\ lost < MaxLost
    /\ Push(frames, lost, New(kind))
    /\ UNCHANGED <<subscription, sender, receiving, connected, reported>>

-----------------------------------------------------------------------------
(* _receive_ops *)

(* LiveHub.subscribe: Subscriber.reset with the snapshot.                   *)
Subscribe ==
    /\ receiving /\ generation < MaxGeneration
    /\ subscribed' = TRUE
    /\ generation' = generation + 1
    /\ Push(<< >>, 0, [kind |-> "snapshot", gen |-> generation + 1])
    /\ reported' = 0
    /\ UNCHANGED <<sender, receiving, connected>>

(* LiveHub.unsubscribe: Subscriber.reset with nothing.                      *)
Unsubscribe ==
    /\ receiving /\ generation < MaxGeneration
    /\ subscribed' = FALSE
    /\ generation' = generation + 1
    /\ frames' = << >>
    /\ lost' = 0
    /\ reported' = 0
    /\ UNCHANGED <<overflowed, ready, sender, receiving, connected>>

(* Bug: the error is queued without setting the Event.                      *)
Bug_Reject ==
    /\ receiving /\ ~overflowed /\ Len(frames) < MaxFrames
    /\ frames' = Append(Superseded(frames, New("error")), New("error"))
    /\ UNCHANGED <<lost, overflowed, ready, subscription, sender, receiving,
                   connected, reported>>

(* A message that is not a valid operation.                                 *)
Reject ==
    /\ receiving
    /\ Push(frames, lost, New("error"))
    /\ UNCHANGED <<subscription, sender, receiving, connected, reported>>

(* websocket.disconnect ends the receiver.                                  *)
Disconnect ==
    /\ receiving
    /\ receiving' = FALSE
    /\ UNCHANGED <<queue, subscription, sender, connected, reported>>

-----------------------------------------------------------------------------
(* _send_frames *)

(* From here to send_text there is no await: the loss counter the frame     *)
(* carries is the one of this moment.                                       *)
StartSend(f) ==
    /\ pc' = "sending"
    /\ sending' = f
    /\ reported' = IF f.kind \in LostCarrying THEN lost ELSE reported

(* Subscriber.next with frames queued; frames with anchors go through the   *)
(* database first.                                                          *)
NextFrame ==
    /\ pc = "next" /\ ~overflowed /\ frames # << >>
    /\ frames' = Tail(frames)
    /\ IF Head(frames).kind \in AnchorCarrying
       THEN /\ pc' = "reading"
            /\ sending' = Head(frames)
            /\ seen' = generation
            /\ UNCHANGED reported
       ELSE /\ StartSend(Head(frames))
            /\ UNCHANGED seen
    /\ UNCHANGED <<lost, overflowed, ready, subscription, receiving, connected>>

(* Subscriber.next with nothing queued: pop_nowait clears the Event.        *)
NextEmpty ==
    /\ pc = "next" /\ ~overflowed /\ frames = << >>
    /\ ready' = FALSE
    /\ pc' = "waiting"
    /\ UNCHANGED <<frames, lost, overflowed, subscription, sending, seen,
                   receiving, connected, reported>>

(* Subscriber.next raises SubscriberOverflowError.                          *)
NextOverflow ==
    /\ pc = "next" /\ overflowed
    /\ pc' = "closing"
    /\ UNCHANGED <<queue, subscription, sending, seen, receiving, connected,
                   reported>>

Wake ==
    /\ pc = "waiting" /\ ready
    /\ pc' = "next"
    /\ UNCHANGED <<queue, subscription, sending, seen, receiving, connected,
                   reported>>

(* Bug: the frame is sent whatever happened meanwhile.                      *)
Bug_AnchorsRead ==
    /\ pc = "reading"
    /\ StartSend(sending)
    /\ seen' = 0
    /\ UNCHANGED <<queue, subscription, receiving, connected>>

(* The thread returns, with anchors or (after an error) without: the frame  *)
(* is sent unless the subscription changed meanwhile.                       *)
AnchorsRead ==
    /\ pc = "reading"
    /\ \/ /\ generation = seen
          /\ StartSend(sending)
       \/ /\ generation # seen
          /\ pc' = "next"
          /\ sending' = NoFrame
          /\ UNCHANGED reported
    /\ seen' = 0
    /\ UNCHANGED <<queue, subscription, receiving, connected>>

SendDone ==
    /\ pc = "sending"
    /\ pc' = "next"
    /\ sending' = NoFrame
    /\ UNCHANGED <<queue, subscription, seen, receiving, connected, reported>>

(* send_text raises because the peer is gone, or close has returned.        *)
SenderEnds ==
    /\ pc \in {"sending", "closing"}
    /\ pc' = "done"
    /\ sending' = NoFrame
    /\ UNCHANGED <<queue, subscription, seen, receiving, connected, reported>>

-----------------------------------------------------------------------------
(* live() *)

(* The state of a connection before its first frame.                        *)
NewConnection ==
    /\ frames' = << >> /\ lost' = 0 /\ overflowed' = FALSE /\ ready' = FALSE
    /\ generation' = 0 /\ subscribed' = FALSE
    /\ sending' = NoFrame /\ seen' = 0 /\ reported' = 0

(* Bug: only the end of the receiver is waited for.                         *)
Bug_Teardown ==
    /\ connected /\ ~receiving
    /\ connected' = FALSE
    /\ pc' = "done"
    /\ UNCHANGED receiving
    /\ NewConnection

(* asyncio.wait(FIRST_COMPLETED) returns: the subscriber leaves the hub,    *)
(* both tasks are cancelled and the Subscriber is garbage.                  *)
Teardown ==
    /\ connected
    /\ ~receiving \/ pc = "done"
    /\ connected' = FALSE
    /\ receiving' = FALSE
    /\ pc' = "done"
    /\ NewConnection

(* The page connects again: a new Subscriber and two new tasks.             *)
Connect ==
    /\ ~connected
    /\ connected' = TRUE
    /\ receiving' = TRUE
    /\ pc' = "next"
    /\ NewConnection

-----------------------------------------------------------------------------
Init ==
    /\ frames = << >> /\ lost = 0 /\ overflowed = FALSE /\ ready = FALSE
    /\ generation = 0 /\ subscribed = FALSE
    /\ pc = "next" /\ sending = NoFrame /\ seen = 0
    /\ receiving = TRUE /\ connected = TRUE /\ reported = 0

Sender == \/ NextFrame \/ NextEmpty \/ NextOverflow \/ Wake
          \/ AnchorsRead \/ SendDone \/ SenderEnds

Next == \/ \E kind \in BroadcastKinds : Broadcast(kind)
        \/ Subscribe \/ Unsubscribe \/ Reject \/ Disconnect
        \/ NextFrame \/ NextEmpty \/ NextOverflow \/ Wake
        \/ AnchorsRead \/ SendDone \/ SenderEnds
        \/ Teardown \/ Connect

Spec == Init /\ [][Next]_vars

(* The event loop runs every ready task; the anchor lookup, send_text and   *)
(* close return or raise in the end (a peer that stops reading is dropped   *)
(* by the WebSocket server's ping timeout).  Nothing is assumed of the page *)
(* or of the hub.                                                           *)
FairSpec == Spec /\ WF_vars(Sender) /\ WF_vars(Teardown)

-----------------------------------------------------------------------------
(* Properties *)

TypeOK ==
    /\ frames \in Seq(Frame)
    /\ lost \in Nat /\ reported \in Nat
    /\ generation \in Nat /\ seen \in Nat
    /\ overflowed \in BOOLEAN /\ ready \in BOOLEAN
    /\ subscribed \in BOOLEAN /\ receiving \in BOOLEAN
    /\ connected \in BOOLEAN
    /\ pc \in PcValues
    /\ sending \in Frame

Unique(q) ==
    \A i, j \in 1..Len(q) :
        q[i].kind = q[j].kind /\ q[i].kind \in {"snapshot", "error"} => i = j

Shaped(q) ==
    /\ Len(q) <= HardLimit
    /\ Len(q) > MaxFrames => \A i \in 1..Len(q) : q[i].kind # "append"
    /\ Unique(q)

(* Memory per connection is bounded and the order of shedding is right: the *)
(* queue never exceeds the hard limit, an append is never kept at the cost  *)
(* of exceeding the soft one, and at most one snapshot and one error wait.  *)
QueueShape == Shaped(frames)

Carrier(q) == \E i \in 1..Len(q) : q[i].kind \in LostCarrying

CarriesLoss ==
    \/ Carrier(frames)
    \/ pc = "reading" /\ sending.kind \in LostCarrying /\ seen = generation

(* A page never stays unaware of a hole: while the number of appends shed   *)
(* since the last report is not yet on the wire, some frame that will carry *)
(* it is queued or in the sender's hands, or the connection is ending.      *)
LossReported ==
    lost > reported => CarriesLoss \/ overflowed \/ pc = "done" \/ ~connected

(* The sender does not sleep on a queue with something in it: push sets the *)
(* Event after every await-free change, pop_nowait clears it only on empty. *)
NoLostWakeup ==
    pc = "waiting" /\ ~ready => frames = << >> /\ ~overflowed

Current(q, g) == \A i \in 1..Len(q) : q[i].gen = g

(* The queue holds frames of the subscription in force only, and the sender *)
(* remembers the subscription of the frame it reads anchors for.            *)
FramesOwned ==
    /\ Current(frames, generation)
    /\ pc = "reading" => sending.gen = seen

(* The inductive invariant. *)
Inv == TypeOK /\ QueueShape /\ LossReported /\ NoLostWakeup /\ FramesOwned

(* A frame is put on the wire only for the subscription in force at that    *)
(* moment, although the sender may have popped it before an await.          *)
SendsCurrentSubscription ==
    [][pc' = "sending" /\ pc # "sending" => sending'.gen = generation']_vars

Control(f) == f.kind \notin {"append", "error"}

(* The control frames of s, in their order.                                 *)
Controls(s) ==
    LET upTo[i \in 0..Len(s)] ==
            IF i = 0 THEN << >>
            ELSE IF Control(s[i]) THEN Append(upTo[i - 1], s[i]) ELSE upTo[i - 1]
    IN  upTo[Len(s)]

Held == IF pc = "reading" /\ seen = generation THEN <<sending>> ELSE << >>

(* Within a subscription the control frames are neither dropped nor         *)
(* reordered, whatever is shed around them: each step leaves them as they   *)
(* were, adds one at the end, or puts the first on the wire.                *)
ControlsKept ==
    [][LET old == Controls(Held \o frames)
           new == Controls(Held' \o frames')
       IN  connected' /\ connected /\ generation' = generation /\ ~overflowed'
           => \/ IsPrefix(old, new)
              \/ /\ pc # "sending" /\ pc' = "sending"
                 /\ old # << >> /\ new = Tail(old) /\ sending' = Head(old)
      ]_vars

(* A connection whose control frames exceed the hard limit is closed, so    *)
(* that the page can start over from a snapshot.                            *)
OverflowCloses == overflowed ~> ~connected

(* Every shed append reaches the page as a loss count, unless the page      *)
(* subscribes anew or goes away first.                                      *)
LossReachesPage ==
    \A n \in 1..MaxLost :
        lost >= n ~> (reported >= n \/ lost < n \/ ~connected)

=============================================================================
