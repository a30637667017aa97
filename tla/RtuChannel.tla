----------------------------- MODULE RtuChannel -----------------------------
(***************************************************************************)
(* What the RTU framer promises its caller (spec 4.5), stated over whole   *)
(* frames. A peer puts the frames of the list Frames on the bus, one after *)
(* the other. Each return of mb_rtu_rx is either an error, or the PDU      *)
(* length of a frame that was sent intact and addressed to this node       *)
(* (Unit) or to all (0), with the broadcast flag telling which. A frame is *)
(* returned at most once and frames are returned in the order they were   *)
(* sent; frames may be lost.                                               *)
(***************************************************************************)
EXTENDS ModbusPdu, Sequences

CONSTANTS
  Frames,  \* the frames the peer sends: [unit, len, ok]
  Unit     \* transaction->unit of the receiving node

VARIABLES
  sent,    \* the number of frames the peer has begun to send
  got      \* what each call of mb_rtu_rx returned: [ret, frame, bc]

(* The errors mb_rtu_rx may return.                                        *)
RxErrors == {ETIMEOUT, ECRC_FAIL, ESLAVE_ID, EFRAME_NOK}

Deliverable(k) == Frames[k].ok /\ Frames[k].unit \in {Unit, 0}

Returned == {got[i].frame : i \in DOMAIN got} \ {0}

Init == sent = 0 /\ got = <<>>

Send == sent < Len(Frames) /\ sent' = sent + 1 /\ UNCHANGED got

(* The next frame returned is a deliverable frame sent after every frame  *)
(* returned before; the frames skipped are lost.                           *)
Deliver ==
  \E k \in 1..sent :
    /\ Deliverable(k)
    /\ \A j \in Returned : j < k
    /\ got' = Append(got, [ret |-> Frames[k].len, frame |-> k,
                           bc |-> Frames[k].unit = 0])
    /\ UNCHANGED sent

Fail ==
  \E e \in RxErrors, bc \in BOOLEAN :
    /\ got' = Append(got, [ret |-> e, frame |-> 0, bc |-> bc])
    /\ UNCHANGED sent

Next == Send \/ Deliver \/ Fail

Spec == Init /\ [][Next]_<<sent, got>>

====
