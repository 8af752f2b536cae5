------------------------------- MODULE Packet -------------------------------
(***************************************************************************)
(* The telemetry packet (ingest/packet.py): what a datagram must be to be  *)
(* decoded, what it decodes to, and how a packet is encoded.  Operators    *)
(* only; Ingest sends and receives such datagrams.                         *)
(*                                                                         *)
(* A datagram is a record of its header fields, its size in bytes and its  *)
(* cycle records; a flags field is the set of its bits that are set.  Of   *)
(* equally treated fields one stands for all: x for x_mm, y_mm, z_mm; kx   *)
(* for the filter's position and deviation; krej for kf_used, kf_rejected. *)
(***************************************************************************)
EXTENDS Integers, Sequences, FiniteSetsExt

CONSTANTS
    None,      \* null
    SeqWrap,   \* 2^32 of seq
    TimeWrap,  \* 2^32 of t_tag_ms
    MaxDt,     \* 65535, what dt_ms can hold
    Tags,      \* TAG_ID_MIN..TAG_ID_MAX
    Anchors    \* ANCHOR_ID_MIN..ANCHOR_ID_MAX

HeaderSize == 24
CycleSize == 30
RangeSize == 9
CountMax == 16
Version == 3
KfMax == 2
StatusOk == 0
FlagsKnown == {"last"}
FixFlagsKnown == {"ok", "3d", "kf_ok", "kf_updated", "kf_init"}

Reasons ==
    {"too_short", "bad_magic", "bad_version", "bad_reserved", "bad_tag_id",
     "bad_count", "bad_anchor_n", "length_mismatch", "bad_anchor_id"}

ASSUME PacketAssumption ==
    /\ None \notin Reasons \cup Tags \cup Anchors
    /\ {SeqWrap, TimeWrap} \subseteq Nat \ {0} /\ SeqWrap % 2 = 0

PacketSize(count, anchorN) ==
    HeaderSize + count * (CycleSize + RangeSize * anchorN)

-----------------------------------------------------------------------------
(* decode_packet.  A check gives the reason to drop the datagram, or None;  *)
(* the checks are made in this order, and the first reason counts.          *)

Check(reason, applies) == IF applies THEN reason ELSE None

FirstOf(reasons) ==
    LET given == {i \in DOMAIN reasons : reasons[i] # None}
    IN  IF given = {} THEN None ELSE reasons[Min(given)]

HeaderChecks(d) ==
    << Check("too_short", d.size < HeaderSize),
       Check("bad_magic", d.magic # "UWBT"),
       Check("bad_version", d.version # Version),
       Check("bad_reserved", ~(d.flags \subseteq FlagsKnown) \/ d.reserved # 0),
       Check("bad_tag_id", d.tag \notin Tags),
       Check("bad_count", d.count \notin 1..CountMax),
       Check("bad_anchor_n", d.anchorN < 1),
       Check("length_mismatch", d.size # PacketSize(d.count, d.anchorN)) >>

(* Bug: the new field kf is not checked.                                    *)
Bug_RangeChecks(r) == << Check("bad_anchor_id", r.anchor \notin Anchors) >>

RangeChecks(r) ==
    << Check("bad_anchor_id", r.anchor \notin Anchors),
       Check("bad_reserved", r.kf > KfMax) >>

CycleChecks(c) ==
    << Check("bad_reserved", ~(c.flags \subseteq FixFlagsKnown)),
       FirstOf([i \in DOMAIN c.ranges |-> FirstOf(RangeChecks(c.ranges[i]))]) >>

(* Why the datagram is dropped, None if it is decoded.                      *)
Rejection(d) ==
    FirstOf(<< FirstOf(HeaderChecks(d)),
               FirstOf([i \in DOMAIN d.cycles |-> FirstOf(CycleChecks(d.cycles[i]))]) >>)

(* seq and t of a cycle are expanded within 32 bits, as the tag counts.     *)
DecodedCycle(d, i) ==
    LET c == d.cycles[i]
    IN  [seq |-> (d.seq + i - 1) % SeqWrap, t |-> (d.t + c.dt) % TimeWrap,
         flags |-> c.flags, used |-> c.used, x |-> c.x, resid |-> c.resid,
         kx |-> c.kx, krej |-> c.krej, ranges |-> c.ranges]

(* The TelemetryPacket of a datagram without a Rejection.                   *)
Decoded(d) ==
    [tag |-> d.tag, boot |-> d.boot, last |-> "last" \in d.flags,
     seq |-> d.seq, t |-> d.t,
     cycles |-> [i \in 1..d.count |-> DecodedCycle(d, i)]]

-----------------------------------------------------------------------------
(* encode_packet *)

(* What it refuses to encode: no cycle or too many, a gap in seq, cycles    *)
(* that measured different numbers of anchors, or one too late for dt_ms.   *)
Encodable(p) ==
    /\ Len(p.cycles) \in 1..CountMax
    /\ \A i \in DOMAIN p.cycles :
         /\ p.cycles[i].seq = (p.seq + i - 1) % SeqWrap
         /\ Len(p.cycles[i].ranges) = Len(p.cycles[1].ranges)
         /\ (p.cycles[i].t - p.t) % TimeWrap <= MaxDt

Encoded(p) ==
    LET count == Len(p.cycles)
        anchorN == Len(p.cycles[1].ranges)
        record(c) == [dt |-> (c.t - p.t) % TimeWrap, flags |-> c.flags,
                      used |-> c.used, x |-> c.x, resid |-> c.resid,
                      kx |-> c.kx, krej |-> c.krej, ranges |-> c.ranges]
    IN  [size |-> PacketSize(count, anchorN), magic |-> "UWBT",
         version |-> Version, flags |-> IF p.last THEN {"last"} ELSE {},
         tag |-> p.tag, boot |-> p.boot, seq |-> p.seq, t |-> p.t,
         count |-> count, anchorN |-> anchorN, reserved |-> 0,
         cycles |-> [i \in 1..count |-> record(p.cycles[i])]]

=============================================================================
