---------------------------- MODULE MC_RtuFramer ----------------------------
(***************************************************************************)
(* Instances of RtuFramer for TLC and its properties. MAX_PDU_SIZE is     *)
(* scaled to 4 characters: a frame whose PDU has 1 or 2 bytes fits with    *)
(* its CRC, one of 3 bytes (the largest the spec allows at this scale,     *)
(* MAX_PDU_SIZE - 1) does not.                                             *)
(***************************************************************************)
EXTENDS RtuFramer

FrameOf(u, l, ok) == [unit |-> u, len |-> l, ok |-> ok]

(* To this node (unit 1), to another unit, corrupted, and a broadcast.    *)
FramesSmall ==
  << FrameOf(1, 2, TRUE), FrameOf(2, 1, TRUE), FrameOf(1, 1, FALSE),
     FrameOf(0, 1, TRUE) >>
(* A corrupted frame, then a good one: with stalls and overlaps.          *)
FramesNoise ==
  << FrameOf(1, 1, FALSE), FrameOf(1, 2, TRUE) >>
(* A frame with the largest PDU of the spec, then a small one.            *)
FramesLargest ==
  << FrameOf(1, 3, TRUE), FrameOf(1, 1, TRUE) >>

(***************************************************************************)
(* mb_rtu_rx implements the abstract channel of RtuChannel: every frame   *)
(* it returns was sent intact to this unit or to all, with its PDU length *)
(* and the right broadcast flag, at most once and in order.                *)
(***************************************************************************)
Channel == INSTANCE RtuChannel
             WITH got <- [i \in DOMAIN got |->
                            [ret |-> got[i].ret, frame |-> got[i].frame,
                             bc |-> got[i].bc]]

ChannelSpec == Channel!Spec

TypeOK ==
  /\ npc \in TxPhases \cup RxPhases \cup {"done"}
  /\ flags \subseteq {"TX_EMPTY", "RX_AVAIL", "T1P5", "T3P5"}
  /\ tmr1 \in BOOLEAN /\ tmr3 \in {"off", "hook", "tx"}
  /\ pgap \in 0..2 /\ gaps \in 0..MaxGaps
  /\ sent \in 0..Len(Frames) /\ nrx \in 0..MaxRx
  /\ Len(buf) <= MaxPdu
  /\ err \in {0, ECRC_FAIL, ESLAVE_ID, EFRAME_NOK}
  /\ \A i \in DOMAIN got : got[i].ret \in Channel!RxErrors \cup 0..MaxPdu


(***************************************************************************)
(* No intact frame to this unit or to all is lost when it arrives in time  *)
(* into an empty receive buffer of a node waiting in mb_rtu_rx, and its    *)
(* PDU is one the spec allows on the wire (at most MAX_PDU_SIZE - 1 bytes, *)
(* section 6): the call that reads its address returns it.                 *)
(***************************************************************************)
FrameDelivered ==
  \A i \in DOMAIN got :
    LET k == got[i].id.f
    IN  /\ got[i].id.i = 0
        /\ k \in clean \ gapped
        /\ Channel!Deliverable(k)
        /\ Frames[k].len <= MaxPdu - 1
        => got[i].frame = k

(***************************************************************************)
(* slave_rx is always read from a character: the first wait never ends     *)
(* with the receive buffer empty, whatever the bus does (stalls, late      *)
(* frames, a slow task), so the uninitialised slave_rx of mb_rtu_rx is     *)
(* never matched against the unit.                                         *)
(***************************************************************************)
NoUninitialisedId ==
  npc \in RxPhases \ {"first", "id_clr", "id_take"} => rxid.b # NoByte

(***************************************************************************)
(* Every call of mb_rtu_rx returns: the body wait and the end-of-frame     *)
(* wait have no timeout, so this rests on T1P5 and T3P5 being set after    *)
(* every character the call reads.                                         *)
(***************************************************************************)
RxReturns == npc \in RxPhases ~> npc \notin RxPhases

====
