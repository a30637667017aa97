---------------------------- MODULE MC_TcpFramer ----------------------------
(***************************************************************************)
(* Instances of TcpFramer for TLC and its properties. The MBAP header is  *)
(* scaled to 2 bytes and MAX_PDU_SIZE to 2, so that a header and a body   *)
(* can each arrive in pieces.                                              *)
(***************************************************************************)
EXTENDS TcpFramer

MsgOf(p, l, b) == [proto |-> p, len |-> l, body |-> b]

(* A short message, one with the largest PDU, one with a bad protocol     *)
(* field, and an empty one (length field 1).                               *)
MsgsMixed ==
  << MsgOf(0, 2, 1), MsgOf(0, 3, 2), MsgOf(1, 2, 1), MsgOf(0, 1, 0) >>

LargestSize == 2147483647

Channel == INSTANCE TcpChannel WITH sent <- pm - 1

ChannelSpec == Channel!Spec

(***************************************************************************)
(* The slave task never closes a descriptor twice: after mb_tcp_rx or     *)
(* mb_tcp_tx has closed the accepted socket, the loop of mb_slave sees    *)
(* is_down and accepts a new connection before it reads or writes again.  *)
(***************************************************************************)
SlaveNoDoubleClose ==
  [][is_server /\ ncloses' # ncloses => fd = "open"]_vars

(***************************************************************************)
(* os_tcp_close is only ever called on a socket that is open: no path of  *)
(* mb_tcp_rx, mb_tcp_tx or mb_tcp_shutdown closes a descriptor a second   *)
(* time (by then its number may belong to another file).                   *)
(***************************************************************************)
NoDoubleClose == [][ncloses' # ncloses => fd = "open"]_vars

(***************************************************************************)
(* mb_slave_shutdown stops the slave task: once running is cleared, the   *)
(* task leaves mb_slave whatever the peer does, because every wait of     *)
(* mb_tcp_rx and of the accept has a timeout.                              *)
(***************************************************************************)
SlaveStops == ~running ~> npc = "done"

====
