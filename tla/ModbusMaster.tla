---------------------------- MODULE ModbusMaster ----------------------------
(***************************************************************************)
(* The master engine of mbus.c over a frame-level view of its transport    *)
(* (mb_rtu.c or mb_tcp.c, selected by Transport). One master, its calls    *)
(* serialised by the bus mutex of mb_master.c: a call sends its request    *)
(* and, unless it is a broadcast write, blocks in mb_pdu_rx until a frame  *)
(* arrives or the timeout expires.                                         *)
(*                                                                         *)
(* A frame is [unit, id, pdu, tag, ok]: the RTU slave address or MBAP unit *)
(* id, the MBAP transaction id, the PDU, a ghost tag naming the master     *)
(* call whose request the frame is or answers, and whether its CRC is      *)
(* intact (always TRUE on TCP).                                            *)
(***************************************************************************)
EXTENDS ModbusPdu, Sequences

CONSTANTS
  Calls,      \* the calls the application may make (see ModbusPdu)
  MaxCalls    \* bound on the number of calls made

VARIABLES
  Transport,  \* "rtu" or "tcp": the transport mbus_init was given
  mpc,        \* "idle", or "rx": blocked in mb_pdu_rx of the current call
  mcall,      \* the current (or last) call
  tid,        \* transaction->id
  munit,      \* transaction->unit
  ncalls,     \* number of calls made so far (the ghost tag of the last)
  outcome,    \* ghost: outcome[k] is what call k returned
  toSlave,    \* frames on their way from the master to the slave
  toMaster    \* frames on their way from the slave to the master

master_vars == <<mpc, mcall, tid, munit, ncalls, outcome>>

Frame(unit, id, pdu, tag) ==
  [unit |-> unit, id |-> id, pdu |-> pdu, tag |-> tag, ok |-> TRUE]

(* What a call returned: its result, the bytes copied into the caller's   *)
(* buffer and the tag of the frame it decoded (0: no frame decoded).       *)
Outcome(call, result, copied, tag) ==
  [call |-> call, result |-> result, copied |-> copied, tag |-> tag]

(* mbus_init: transaction id 0, no call in progress.                       *)
MasterInit ==
  /\ mpc = "idle"
  /\ mcall = CHOOSE c \in Calls : TRUE
  /\ tid = 0
  /\ munit = 0
  /\ ncalls = 0
  /\ outcome = <<>>

(***************************************************************************)
(* A call of mbus_read, mbus_write, mbus_write_single or mbus_loopback. A *)
(* call failing a local check returns -1 without I/O. Otherwise it sets   *)
(* transaction->unit, increments transaction->id, and sends the request   *)
(* (mb_pdu_tx; the RTU tx also waits out T3P5). A read, or a write to a   *)
(* unit other than 0, then receives; a broadcast write returns 0 at once  *)
(* (rx_count stays 0 and the scratch buffer still holds the request).     *)
(***************************************************************************)
MasterCall(c) ==
  /\ mpc = "idle"
  /\ ncalls < MaxCalls
  /\ ncalls' = ncalls + 1
  /\ mcall' = c
  /\ IF ~CallAccepted(c)
     THEN /\ outcome' = Append(outcome, Outcome(c, EMASTER_LOCAL, 0, 0))
          /\ UNCHANGED <<mpc, tid, munit, toSlave>>
     ELSE /\ tid' = (tid + 1) % 65536
          /\ munit' = c.unit
          /\ toSlave' = Append(toSlave,
                               Frame(c.unit, tid', Request(c), ncalls + 1))
          /\ IF AwaitsResponse(c)
             THEN /\ mpc' = "rx"
                  /\ UNCHANGED outcome
             ELSE /\ mpc' = "idle"
                  /\ outcome' = Append(outcome, Outcome(c, 0, 0, 0))
  /\ UNCHANGED toMaster

(* The raw message of a send_msg call: the application put in msg the read *)
(* request of the call's table, offset and quantity.                       *)
RawMessage(c) == Request([c EXCEPT !.kind = "read"])

(***************************************************************************)
(* mbus_send_msg: no local check; it sets transaction->unit, increments   *)
(* transaction->id, sends the size bytes of msg and returns 0 without     *)
(* receiving.                                                              *)
(***************************************************************************)
MasterSendMsg(c) ==
  /\ mpc = "idle"
  /\ ncalls < MaxCalls
  /\ ncalls' = ncalls + 1
  /\ mcall' = c
  /\ tid' = (tid + 1) % 65536
  /\ munit' = c.unit
  /\ toSlave' = Append(toSlave, Frame(c.unit, tid', RawMessage(c), ncalls + 1))
  /\ outcome' = Append(outcome, Outcome(c, 0, 0, 0))
  /\ UNCHANGED <<mpc, toMaster>>

(***************************************************************************)
(* mbus_get_msg: sets transaction->unit and receives into the caller's    *)
(* msg (transaction->data) with the bus timeout; the size the caller       *)
(* gives (c.qty) is not passed on. The id is left as it is.               *)
(***************************************************************************)
MasterGetMsg(c) ==
  /\ mpc = "idle"
  /\ ncalls < MaxCalls
  /\ ncalls' = ncalls + 1
  /\ mcall' = c
  /\ munit' = c.unit
  /\ mpc' = "rx"
  /\ UNCHANGED <<tid, outcome, toSlave, toMaster>>

(* Ghost: the tag of the last request the master put on the wire before *)
(* call k (0: none), and the tag of the request whose answer call k       *)
(* awaits: its own, or for a get_msg that last request.                    *)
LastSent(k) ==
  LET sent == {j \in DOMAIN outcome :
                 j < k /\ outcome[j].call.kind # "get_msg"
                       /\ (outcome[j].call.kind = "send_msg"
                           \/ CallAccepted(outcome[j].call))}
  IN  IF sent = {} THEN 0 ELSE CHOOSE j \in sent : \A i \in sent : i <= j

RequestOf(call, k) == IF call.kind = "get_msg" THEN LastSent(k) ELSE k

(***************************************************************************)
(* The receive of mb_rtu_rx for a frame f already in the receive buffer:  *)
(* the CRC check, then the unit check (whose error wins when both fail).   *)
(* The result is rx_count: the PDU length or a negative error.            *)
(***************************************************************************)
RtuRxCount(f, unit) ==
  IF f.unit # unit /\ f.unit # 0 THEN ESLAVE_ID
  ELSE IF ~f.ok THEN ECRC_FAIL
  ELSE f.pdu.len

(* The result of the call once mb_pdu_rx returned rx_count with the frame  *)
(* f's PDU in the scratch buffer. mbus_get_msg receives into the caller's  *)
(* msg itself and returns rx_count: the PDU, exception or not, is copied   *)
(* whole and never decoded.                                                *)
Complete(f, rx_count) ==
  LET d == Decode(mcall, rx_count, f.pdu)
  IN  IF rx_count < 0
      THEN Outcome(mcall, rx_count, 0, 0)
      ELSE IF mcall.kind = "get_msg"
      THEN Outcome(mcall, rx_count, rx_count, f.tag)
      ELSE Outcome(mcall, d.result, d.copied, f.tag)

(***************************************************************************)
(* mb_pdu_rx returns the next frame: on RTU the first character ends the  *)
(* first wait and the frame is read until T1P5; on TCP the MBAP header is  *)
(* read, and transaction->id and ->unit are overwritten with its fields.   *)
(* Neither framer, nor mbus_read/_write, compares the frame with the       *)
(* request: the tag is not looked at.                                      *)
(***************************************************************************)
MasterRecv ==
  /\ mpc = "rx"
  /\ toMaster # <<>>
  /\ LET f == Head(toMaster)
     IN  IF Transport = "rtu"
         THEN /\ outcome' = Append(outcome, Complete(f, RtuRxCount(f, munit)))
              /\ UNCHANGED <<tid, munit>>
         ELSE /\ outcome' = Append(outcome, Complete(f, f.pdu.len))
              /\ tid' = f.id
              /\ munit' = f.unit
  /\ toMaster' = Tail(toMaster)
  /\ mpc' = "idle"
  /\ UNCHANGED <<mcall, ncalls, toSlave>>

(***************************************************************************)
(* RTU only: two frames that follow each other in the receive buffer with *)
(* no T1P5 flag between them (the flag of the first was cleared by a later *)
(* os_event_clr, or expired before the rx started) are read as one frame;  *)
(* the CRC over both fails.                                                *)
(***************************************************************************)
MasterRecvMerged ==
  /\ Transport = "rtu"
  /\ mpc = "rx"
  /\ Len(toMaster) >= 2
  /\ outcome' = Append(outcome,
                       Complete(Head(toMaster),
                                RtuRxCount([Head(toMaster) EXCEPT !.ok = FALSE],
                                           munit)))
  /\ toMaster' = Tail(Tail(toMaster))
  /\ mpc' = "idle"
  /\ UNCHANGED <<mcall, tid, munit, ncalls, toSlave>>

(***************************************************************************)
(* The first wait of mb_rtu_rx, or os_tcp_recv_wait, times out: nothing   *)
(* has arrived (a frame already buffered ends the wait at once).          *)
(***************************************************************************)
MasterTimeout ==
  /\ mpc = "rx"
  /\ toMaster = <<>>
  /\ outcome' = Append(outcome, Outcome(mcall, ETIMEOUT, 0, 0))
  /\ mpc' = "idle"
  /\ UNCHANGED <<mcall, tid, munit, ncalls, toSlave, toMaster>>

====
