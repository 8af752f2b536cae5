------------------------------- MODULE LiveHub -------------------------------
(***************************************************************************)
(* LiveHub (live/hub.py): per tag the current session with its ring buffer *)
(* and its pending cycles, the boots already ended, the memory of hellos,  *)
(* and the frames broadcast to the subscribers of a tag.  The hub runs on  *)
(* the event loop without awaits, so every handler is one step.            *)
(*                                                                         *)
(* The queue between hub and page is LiveQueue; here a page gets every     *)
(* frame, in order, as a page does whose queue sheds nothing.  `pages' is  *)
(* therefore what each subscriber has been told so far.                    *)
(*                                                                         *)
(* The database gives one session_id to each (tag, boot), so the boot      *)
(* stands for it.  Times: a session's age replaces the monotonic clock; it *)
(* counts from the last packet and stops at Timeout, where no test can     *)
(* tell further differences.                                               *)
(***************************************************************************)
EXTENDS LivePage, FiniteSets

CONSTANTS
    Tags, Boots, Revs, Subs,
    Packets,      \* the packets that may arrive: [tag, boot, cycles, last],
                  \* with cycles a sequence of [seq, t, r], all raw values
    SeqWrap,       \* 2^32 of seq
    TimeWrap,      \* 2^32 of t
    MaxCycles,    \* MAX_BUFFER_CYCLES
    MaxRanges,    \* MAX_BUFFER_RANGES
    MaxTotal,     \* MAX_TOTAL_RANGES
    Retention,    \* RETENTION_MS
    Timeout,      \* SESSION_TIMEOUT_S, in steps of the clock
    EndedMemory,  \* ENDED_BOOTS_PER_TAG
    HelloMemory,  \* HELLO_MEMORY
    MaxSeq        \* bound on the unwrapped seq a packet may reach

(* Cycles as they come, as a session keeps them, and the values it needs to *)
(* unwrap the next one.                                                     *)
RawCycles == [seq : 0..(SeqWrap - 1), t : 0..(TimeWrap - 1), r : Nat]
Cycles == [n : Nat, t : Int, r : Nat, dt : Int \cup {None}]
Lasts == [seq : 0..(SeqWrap - 1), t : 0..(TimeWrap - 1), n : Nat, tn : Int]

Sessions ==
    [boot : Boots, sid : Boots \cup {None}, rev : Revs \cup {None}, age : Nat,
     active : BOOLEAN, cycles : Seq(Cycles), pending : Seq(Cycles),
     last : Lasts \cup {None}, ranges : Int]

ASSUME HubAssumption ==
    /\ None \notin Tags \cup Boots \cup Revs
    /\ None \notin Lasts /\ None \notin Sessions
    /\ IsFiniteSet(Tags)
    /\ \A p \in Packets : /\ p.tag \in Tags /\ p.boot \in Boots /\ p.last \in BOOLEAN
                           /\ p.cycles \in Seq(RawCycles)
    /\ {SeqWrap, TimeWrap, MaxCycles, HelloMemory} \subseteq Nat \ {0}
    /\ {MaxRanges, MaxTotal, Retention, Trail, MaxSeq} \subseteq Nat
    /\ Timeout \in Nat \ {0}
    /\ EndedMemory \in Nat \ {0, 1}

VARIABLES
    sessions,  \* LiveHub.sessions: per tag None or its current session
    ended,     \* LiveHub._ended_boots: per tag a sequence of boots
    hello,     \* LiveHub._hello, least recently used first
    watching,  \* Subscriber.tag_id
    pages      \* what each subscriber's page holds

vars == <<sessions, ended, hello, watching, pages>>

-----------------------------------------------------------------------------
(* Frames *)

StartFrame(s) == [type |-> "session_start", boot |-> s.boot, sid |-> s.sid,
                  rev |-> s.rev]
InfoFrame(s) == [type |-> "session_info", boot |-> s.boot, sid |-> s.sid,
                 rev |-> s.rev]
EndFrame(s) == [type |-> "session_end", boot |-> s.boot, sid |-> s.sid]
AppendFrame(s) == [type |-> "append", boot |-> s.boot, sid |-> s.sid,
                   cycles |-> s.pending]

(* Bug: the snapshot takes the pending cycles too.                         *)
Bug_Sent(s) == s.cycles

(* The cycles already sent: all but the pending ones, which are the last.   *)
Sent(s) == SubSeq(s.cycles, 1, Len(s.cycles) - Len(s.pending))

(* Of these cycles the recent ones: not older than Trail at the last one.   *)
Recent(cycles) ==
    FoldLeft(LAMBDA kept, c :
               IF Last(cycles).t - c.t <= Trail THEN Append(kept, c) ELSE kept,
             << >>, cycles)

(* LiveHub.snapshot with history_ms = Trail.                                *)
SnapshotFrame(s) ==
    IF s = None
    THEN [type |-> "snapshot", boot |-> None, sid |-> None, rev |-> None,
          active |-> FALSE, cycles |-> << >>]
    ELSE [type |-> "snapshot", boot |-> s.boot, sid |-> s.sid, rev |-> s.rev,
          active |-> s.active,
          cycles |-> Recent(Sent(s))]

(* _broadcast of the frames out[tag], in order.                             *)
Broadcast(out) ==
    \E sent \in {out} :
        pages' = [u \in Subs |->
                    IF watching[u] = None THEN pages[u]
                    ELSE FoldLeft(OnFrame, pages[u], sent[watching[u]])]

Only(tag, frames) == [t \in Tags |-> IF t = tag THEN frames ELSE << >>]

-----------------------------------------------------------------------------
(* The life of a session.  A handler builds up the new session, the ended   *)
(* boots of its tag and the frames to broadcast, in a record [s, ended, out]*)

Total(terms) == FoldLeft(LAMBDA sum, term : sum + term, 0, terms)

RangeSum(cycles) == Total([i \in 1..Len(cycles) |-> cycles[i].r])

IsOf(h, tag, boot) == h.tag = tag /\ h.boot = boot

Greeted(tag, boot) == \E i \in DOMAIN hello : IsOf(hello[i], tag, boot)

PlaceOf(tag, boot) == CHOOSE i \in DOMAIN hello : IsOf(hello[i], tag, boot)

KnownRev(tag, boot) ==
    IF Greeted(tag, boot) THEN hello[PlaceOf(tag, boot)].rev ELSE None

(* Bug: what a hello said before the first packet is not looked up.         *)
Bug_NewSession(tag, boot) ==
    [boot |-> boot, sid |-> None, rev |-> None, age |-> 0, active |-> TRUE,
     cycles |-> << >>, pending |-> << >>, last |-> None, ranges |-> 0]

NewSession(tag, boot) ==
    [boot |-> boot,
     sid |-> IF Greeted(tag, boot) THEN boot ELSE None,
     rev |-> KnownRev(tag, boot),
     age |-> 0, active |-> TRUE,
     cycles |-> << >>, pending |-> << >>,
     last |-> None,   \* last_seq, last_t_raw, last_seq_n, last_t_n
     ranges |-> 0]    \* range_count

(* _flush *)
Flushed(w) ==
    IF w.s.pending = << >> THEN w
    ELSE [w EXCEPT !.s.pending = << >>, !.out = Append(@, AppendFrame(w.s))]

(* deque(maxlen=EndedMemory).append                                         *)
Remember(q, boot) ==
    LET all == Append(q, boot)
    IN  IF Len(all) > EndedMemory THEN Tail(all) ELSE all

(* Bug: only a boot that was replaced is remembered.                        *)
Bug_End(w, reason) ==
    LET f == Flushed(w)
    IN  [s |-> [f.s EXCEPT !.active = FALSE],
         ended |-> IF reason = "new_session" THEN Remember(f.ended, f.s.boot)
                   ELSE f.ended,
         out |-> IF f.s.active THEN Append(f.out, EndFrame(f.s)) ELSE f.out]

(* _end: a session that timed out may come back, the others may not.        *)
End(w, reason) ==
    LET f == Flushed(w)
    IN  [s |-> [f.s EXCEPT !.active = FALSE],
         ended |-> IF reason = "timeout" THEN f.ended
                   ELSE Remember(f.ended, f.s.boot),
         out |-> IF f.s.active THEN Append(f.out, EndFrame(f.s)) ELSE f.out]

(* _start *)
Started(w, tag, boot) ==
    LET s == NewSession(tag, boot)
    IN  [w EXCEPT !.s = s, !.out = Append(@, StartFrame(s))]

(* The session a packet belongs to: publish up to its loop over the cycles. *)
Opened(w, tag, boot) ==
    IF w.s = None THEN Started(w, tag, boot)
    ELSE IF w.s.boot # boot THEN Started(End(w, "new_session"), tag, boot)
    ELSE IF ~w.s.active
         THEN [w EXCEPT !.s.active = TRUE,
                        !.out = Append(@, StartFrame([w.s EXCEPT !.active = TRUE]))]
    ELSE w

-----------------------------------------------------------------------------
(* The ring buffer *)

(* _seq_advances *)
SeqAdvances(seq, last) ==
    LET step == (seq - last) % SeqWrap
    IN  0 < step /\ 2 * step <= SeqWrap

(* _t_step *)
TimeStep(t, last) ==
    IF 2 * (t - last) < -TimeWrap THEN t - last + TimeWrap ELSE t - last

(* One turn of publish's loop: a cycle that is not newer is dropped.        *)
Absorb(s, c) ==
    IF s.last # None /\ ~SeqAdvances(c.seq, s.last.seq) THEN s
    ELSE LET new == IF s.last = None
                    THEN [seq |-> c.seq, t |-> c.t, n |-> c.seq, tn |-> c.t]
                    ELSE [seq |-> c.seq, t |-> c.t,
                          n |-> s.last.n + ((c.seq - s.last.seq) % SeqWrap),
                          tn |-> s.last.tn + TimeStep(c.t, s.last.t)]
             next == s.last # None /\ (c.seq - s.last.seq) % SeqWrap = 1
             cycle == [n |-> new.n, t |-> new.tn, r |-> c.r,
                       dt |-> IF next THEN new.tn - s.last.tn ELSE None]
         IN  [s EXCEPT !.last = new, !.cycles = Append(@, cycle),
                       !.pending = Append(@, cycle), !.ranges = @ + c.r]

(* Bug: the pending cycles are forgotten.                                   *)
Bug_Popped(s, k) ==
    [s EXCEPT !.cycles = SubSeq(@, k + 1, Len(@)),
              !.ranges = @ - RangeSum(SubSeq(s.cycles, 1, k))]

(* _pop_oldest, k times: what is left of the pending cycles stays the tail  *)
(* of the buffer.                                                           *)
Popped(s, k) ==
    LET left == Len(s.cycles) - k
        from == IF Len(s.pending) > left THEN Len(s.pending) - left ELSE 0
    IN  [s EXCEPT !.cycles = SubSeq(@, k + 1, Len(@)),
                  !.pending = SubSeq(@, from + 1, Len(@)),
                  !.ranges = @ - RangeSum(SubSeq(s.cycles, 1, k))]

(* _trim: as few of the oldest cycles as bring the buffer under its limits, *)
(* then as few as leave the newest and what Retention allows.               *)
Trim(s) ==
    LET fits(k) == /\ Len(s.cycles) - k <= MaxCycles
                   /\ s.ranges - RangeSum(SubSeq(s.cycles, 1, k)) <= MaxRanges
        sized == Popped(s, Min({k \in 0..Len(s.cycles) :
                                   k = Len(s.cycles) \/ fits(k)}))
        size == Len(sized.cycles)
        recent(k) == \/ k >= size - 1
                     \/ sized.cycles[size].t - sized.cycles[k + 1].t <= Retention
    IN  IF size = 0 THEN sized
        ELSE Popped(sized, Min({k \in 0..size : recent(k)}))

(* What the sessions of all tags count together.                            *)
OverTags(count) ==
    LET tags == SetToSeq(Tags)
    IN  Total([i \in 1..Cardinality(Tags) |-> count[tags[i]]])

TotalRanges(all) ==
    OverTags([t \in Tags |-> IF all[t] = None THEN 0 ELSE all[t].ranges])

(* Bug: the fullest session pays, ended or not.                             *)
Bug_Victim(all) ==
    LET some == {t \in Tags : all[t] # None /\ all[t].cycles # << >>}
    IN  IF some = {} THEN None
        ELSE CHOOSE t \in some : \A u \in some : all[t].ranges >= all[u].ranges

(* The session _enforce_total_limit takes the next cycle from: ended ones   *)
(* before active ones, the fullest first.                                   *)
Victim(all) ==
    LET some == {t \in Tags : all[t] # None /\ all[t].cycles # << >>}
        worse(t, u) == \/ ~all[t].active /\ all[u].active
                       \/ /\ all[t].active = all[u].active
                          /\ all[t].ranges >= all[u].ranges
    IN  IF some = {} THEN None
        ELSE CHOOSE t \in some : \A u \in some : worse(t, u)

BufferedCycles(all) ==
    OverTags([t \in Tags |-> IF all[t] = None THEN 0 ELSE Len(all[t].cycles)])

(* _enforce_total_limit: at most every buffered cycle goes.                 *)
Limited(all) ==
    LET turn(now, i) ==
          IF TotalRanges(now) > MaxTotal /\ Victim(now) # None
          THEN [now EXCEPT ![Victim(now)] = Popped(@, 1)]
          ELSE now
    IN  FoldLeft(turn, all, [i \in 1..BufferedCycles(all) |-> i])

-----------------------------------------------------------------------------
(* The receiving side *)

(* The boot of the packet is remembered as ended.                           *)
Refused(p) == p.boot \in ToSet(ended[p.tag])

PublishStale(p) == Refused(p) /\ UNCHANGED vars

Publish(p) ==
    LET tag == p.tag
        opened == Opened([s |-> sessions[tag], ended |-> ended[tag], out |-> << >>],
                         tag, p.boot)
        filled == [Trim(FoldLeft(Absorb, opened.s, p.cycles)) EXCEPT !.age = 0]
        all == Limited([sessions EXCEPT ![tag] = filled])
        done == [opened EXCEPT !.s = all[tag]]
        final == IF p.last THEN End(done, "tag_end") ELSE done
    IN  /\ ~Refused(p)
        /\ filled.last # None => filled.last.n <= MaxSeq
        /\ sessions' = [all EXCEPT ![tag] = final.s]
        /\ ended' = [ended EXCEPT ![tag] = final.ended]
        /\ Broadcast(Only(tag, final.out))
        /\ UNCHANGED <<hello, watching>>

(* The memory with the key at its end, and at most HelloMemory keys.        *)
Noted(tag, boot, rev) ==
    LET others == IF Greeted(tag, boot) THEN RemoveAt(hello, PlaceOf(tag, boot))
                  ELSE hello
        all == Append(others, [tag |-> tag, boot |-> boot, rev |-> rev])
    IN  IF Len(all) > HelloMemory THEN Tail(all) ELSE all

(* Bug: nobody is told after the end.                                       *)
Bug_NoteHello(tag, boot, given) ==
    LET rev == IF given = None THEN KnownRev(tag, boot) ELSE given
        s == sessions[tag]
        new == [s EXCEPT !.sid = boot, !.rev = IF rev # None THEN rev ELSE @]
    IN  /\ hello' = Noted(tag, boot, rev)
        /\ IF s = None \/ s.boot # boot
           THEN UNCHANGED <<sessions, pages>>
           ELSE /\ sessions' = [sessions EXCEPT ![tag] = new]
                /\ Broadcast(Only(tag,
                     IF new.rev # s.rev /\ s.active THEN <<StartFrame(new)>>
                     ELSE << >>))
        /\ UNCHANGED <<ended, watching>>

(* note_hello: an omitted config_rev does not erase a known one.            *)
NoteHello(tag, boot, given) ==
    LET rev == IF given = None THEN KnownRev(tag, boot) ELSE given
        s == sessions[tag]
        new == [s EXCEPT !.sid = boot, !.rev = IF rev # None THEN rev ELSE @]
    IN  /\ hello' = Noted(tag, boot, rev)
        /\ IF s = None \/ s.boot # boot
           THEN UNCHANGED <<sessions, pages>>
           ELSE /\ sessions' = [sessions EXCEPT ![tag] = new]
                /\ Broadcast(Only(tag,
                     IF new.rev # s.rev /\ s.active THEN <<StartFrame(new)>>
                     ELSE IF new # s /\ ~s.active THEN <<InfoFrame(new)>>
                     ELSE << >>))
        /\ UNCHANGED <<ended, watching>>

(* note_sessions after a commit.  Of the keys of the batch only those of    *)
(* current sessions matter: `named' is the tags that have one there.        *)
Identified(tag, named) ==
    tag \in named /\ sessions[tag] # None /\ sessions[tag].sid = None

NoteSessions(named) ==
    LET new == [t \in Tags |-> IF Identified(t, named)
                               THEN [sessions[t] EXCEPT !.sid = sessions[t].boot]
                               ELSE sessions[t]]
    IN  /\ sessions' = new
        /\ Broadcast([t \in Tags |->
             IF Identified(t, named) /\ ~sessions[t].active
             THEN <<InfoFrame(new[t])>> ELSE << >>])
        /\ UNCHANGED <<ended, hello, watching>>

-----------------------------------------------------------------------------
(* The clock and the periodic work *)

Elapse ==
    /\ sessions' = [t \in Tags |->
         IF sessions[t] # None /\ sessions[t].active /\ sessions[t].age < Timeout
         THEN [sessions[t] EXCEPT !.age = @ + 1]
         ELSE sessions[t]]
    /\ UNCHANGED <<ended, hello, watching, pages>>

(* Bug: only the end of a session flushes it.                               *)
Bug_TickedLate(tag) ==
    LET w == [s |-> sessions[tag], ended |-> ended[tag], out |-> << >>]
    IN  IF w.s # None /\ w.s.active /\ w.s.age >= Timeout
        THEN End(w, "timeout") ELSE w

(* What tick does to the session of a tag.                                  *)
Ticked(tag) ==
    LET w == [s |-> sessions[tag], ended |-> ended[tag], out |-> << >>]
    IN  IF w.s = None THEN w
        ELSE IF w.s.active /\ w.s.age >= Timeout THEN End(Flushed(w), "timeout")
        ELSE Flushed(w)

Tick ==
    /\ sessions' = [t \in Tags |-> Ticked(t).s]
    /\ ended' = [t \in Tags |-> Ticked(t).ended]
    /\ Broadcast([t \in Tags |-> Ticked(t).out])
    /\ UNCHANGED <<hello, watching>>

-----------------------------------------------------------------------------
(* Subscribers *)

Subscribe(u, tag) ==
    /\ watching' = [watching EXCEPT ![u] = tag]
    /\ pages' = [pages EXCEPT ![u] = OnFrame(Page, SnapshotFrame(sessions[tag]))]
    /\ UNCHANGED <<sessions, ended, hello>>

Unsubscribe(u) ==
    /\ watching' = [watching EXCEPT ![u] = None]
    /\ pages' = [pages EXCEPT ![u] = Page]
    /\ UNCHANGED <<sessions, ended, hello>>

-----------------------------------------------------------------------------
Init ==
    /\ sessions = [t \in Tags |-> None]
    /\ ended = [t \in Tags |-> << >>]
    /\ hello = << >>
    /\ watching = [u \in Subs |-> None]
    /\ pages = [u \in Subs |-> Page]

Next ==
    \/ \E p \in Packets : Publish(p) \/ PublishStale(p)
    \/ \E tag \in Tags, boot \in Boots, rev \in Revs \cup {None} :
          NoteHello(tag, boot, rev)
    \/ \E named \in SUBSET Tags : NoteSessions(named)
    \/ Elapse
    \/ Tick
    \/ \E u \in Subs : Unsubscribe(u) \/ \E tag \in Tags : Subscribe(u, tag)

Spec == Init /\ [][Next]_vars

-----------------------------------------------------------------------------
(* Properties *)

Live(tag) == sessions[tag] # None

Ascending(cycles) ==
    \A i, j \in DOMAIN cycles : i < j => cycles[i].n < cycles[j].n

(* The clock of a tag never goes back: of two cycles of a boot the one that *)
(* seq says came later has no smaller t.  Packets alone decide this.        *)
TimesAscend ==
    \A p, q \in Packets :
       p.tag = q.tag /\ p.boot = q.boot =>
          \A i \in 1..Len(p.cycles), j \in 1..Len(q.cycles) :
             SeqAdvances(q.cycles[j].seq, p.cycles[i].seq)
                => TimeStep(q.cycles[j].t, p.cycles[i].t) >= 0

(* The books of the ring buffer balance after any sequence of packets: the  *)
(* pending cycles are the tail of the buffer, range_count counts what is    *)
(* there, the unwrapped seq ascends, and no limit is exceeded.              *)
BufferSound ==
    /\ \A tag \in Tags : Live(tag) =>
         LET s == sessions[tag]
         IN  /\ IsSuffix(s.pending, s.cycles)
             /\ s.ranges = RangeSum(s.cycles) /\ s.ranges <= MaxRanges
             /\ Len(s.cycles) <= MaxCycles
             /\ Ascending(s.cycles)
    /\ TotalRanges(sessions) <= MaxTotal

(* Nothing new came of the session in this step.                            *)
Idle(tag) == /\ sessions'[tag].boot = sessions[tag].boot
             /\ sessions'[tag].last = sessions[tag].last

(* The total limit is met at the cost of ended sessions first: an active    *)
(* one of which nothing new came loses cycles only when no ended session,   *)
(* other than one the step gave new cycles, has any left.                   *)
EndedGiveWayFirst ==
    [][\A t, u \in Tags :
         (/\ Live(t) /\ sessions[t].active /\ Idle(t)
          /\ Len(sessions'[t].cycles) < Len(sessions[t].cycles)
          /\ Live(u) /\ ~sessions[u].active /\ Idle(u))
           => sessions'[u].cycles = << >>]_vars

Watched(u) == IF watching[u] = None THEN None ELSE sessions[watching[u]]

(* A page knows what the hub knows of the session it shows: which boot, if  *)
(* it still runs and with which configuration, although these change in     *)
(* publish, tick and note_hello and are told by four kinds of frames.       *)
PageAgrees ==
    \A u \in Subs : watching[u] # None =>
        LET s == Watched(u)
        IN  IF s = None THEN pages[u] = Page
            ELSE /\ pages[u].boot = s.boot
                 /\ pages[u].active = s.active
                 /\ pages[u].rev = s.rev

(* Neither hole nor overlap between a snapshot and the appends after it:    *)
(* what the page holds and what the hub has sent end in the same cycles,    *)
(* and the pending cycles continue them.                                    *)
PageContinues ==
    \A u \in Subs : watching[u] # None /\ Watched(u) # None =>
        LET s == Watched(u)
            data == pages[u].data
        IN  /\ Ascending(data \o s.pending)
            /\ IsSuffix(data, Sent(s)) \/ IsSuffix(Sent(s), data)
            /\ data = << >> =>
                  \A i \in DOMAIN Sent(s) : Last(Sent(s)).t - Sent(s)[i].t > Trail

(* The tag ended the session itself: it is over and has not timed out.      *)
EndedByTag(s) == ~s.active /\ s.age < Timeout

(* A boot that was replaced or that ended itself is over for good, and one  *)
(* that fell silent is not: of a tag's session the memory of ended boots    *)
(* holds the boot exactly if the tag ended it, so that none of its late     *)
(* packets makes it run again while a tag that comes back after a timeout   *)
(* is taken in; and the boot of a session that gives way to another is in   *)
(* that memory, also when the new one ends with the same packet.            *)
EndedForGood ==
    /\ [](\A tag \in Tags : Live(tag) =>
             (sessions[tag].boot \in ToSet(ended[tag]) <=> EndedByTag(sessions[tag])))
    /\ [][\A tag \in Tags :
             Live(tag) /\ sessions'[tag].boot # sessions[tag].boot
               => sessions[tag].boot \in ToSet(ended'[tag])]_vars

(* What a hello said of a boot reaches its session in whatever order hello, *)
(* first packet, commit and end of the session come, and a hello without    *)
(* config_rev never takes it back.                                          *)
HelloReachesSession ==
    \A tag \in Tags : Live(tag) =>
        LET s == sessions[tag]
        IN  /\ Greeted(tag, s.boot) => s.sid # None
            /\ KnownRev(tag, s.boot) # None => s.rev = KnownRev(tag, s.boot)

Unsent(tag) == Live(tag) /\ sessions[tag].pending # << >>

(* What came in is sent to the subscribers by some tick, whatever packets   *)
(* and trims come between.                                                  *)
PendingSent == \A tag \in Tags : Unsent(tag) ~> ~Unsent(tag)

=============================================================================
