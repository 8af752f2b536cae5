----------------------------- MODULE MCLiveHub -----------------------------
(***************************************************************************)
(* The packets of the two kinds of runs of LiveHub.  A tag's clock is a    *)
(* function of its seq: one unit per cycle, with a jump after the second.  *)
(***************************************************************************)
EXTENDS LiveHub

TimeOf(seq) == IF seq < 2 THEN seq ELSE seq + 2

Raw(seq, r) == [seq |-> seq, t |-> TimeOf(seq), r |-> r]

(* Sessions: packets of one cycle, so that the order of hellos, packets,    *)
(* commits, ticks and ends is what varies.                                  *)
SinglePackets ==
    {[tag |-> tag, boot |-> boot, cycles |-> <<Raw(seq, 1)>>, last |-> last] :
        tag \in Tags, boot \in Boots, seq \in 0..1, last \in BOOLEAN}

(* Buffers: packets of one or two cycles with different numbers of ranges,  *)
(* over the wrap of seq and t.                                              *)
BatchPackets ==
    {[tag |-> tag, boot |-> boot, cycles |-> cycles, last |-> FALSE] :
        tag \in Tags, boot \in Boots,
        cycles \in {<<Raw(q, r)>> : q \in 0..(SeqWrap - 1), r \in {0, 2}}
                   \cup {<<Raw(q, 1), Raw((q + 1) % SeqWrap, 2)>> :
                            q \in 0..(SeqWrap - 1)}}

(* Many tags: the first cycle has one range, the second two, and it may be  *)
(* the last of its boot.                                                    *)
SmallPackets ==
    {[tag |-> tag, boot |-> boot, cycles |-> <<Raw(seq, seq + 1)>>, last |-> last] :
        tag \in Tags, boot \in Boots, seq \in 0..1, last \in BOOLEAN}

ASSUME PacketsAscend == TimesAscend

(* Without hellos and commits, which no buffer depends on.                  *)
BufferNext ==
    \/ \E p \in Packets : Publish(p) \/ PublishStale(p)
    \/ Elapse
    \/ Tick
    \/ \E u \in Subs : Unsubscribe(u) \/ \E tag \in Tags : Subscribe(u, tag)

BufferSpec == Init /\ [][BufferNext]_vars /\ WF_vars(Tick)

(* Boots and revisions are interchangeable in the session runs.  Tags are   *)
(* not in the run on the total limit: Victim breaks ties with CHOOSE, as    *)
(* the code does with the order in which the tags first came.               *)
BootSymmetry == Permutations(Boots) \cup Permutations(Revs)

=============================================================================
