----------------------------- MODULE ModbusSlave -----------------------------
(***************************************************************************)
(* The slave engine of mb_slave.c (mb_slave, mb_slave_handle_request)     *)
(* over a frame-level view of its transport. One slave task loops: it     *)
(* receives a request, dispatches it to the handlers of ModbusPdu, and     *)
(* then either drains a newer message (stale-response suppression), drops *)
(* the reply of a broadcast, or transmits the reply.                       *)
(***************************************************************************)
EXTENDS ModbusPdu, Sequences

CONSTANTS
  SlaveId,       \* slave->id
  Iomap,         \* the iomap: four tables [size, get, set] and vendor codes
  GetResults,    \* values the get callbacks may return
  SetResults,    \* values the set callbacks may return
  VendorResults  \* values the vendor callbacks may return

VARIABLES
  Transport,  \* "rtu" or "tcp": the transport mb_slave_init was given
  spc,        \* "rx": in mb_pdu_rx; "reply": tx_count computed
  sreq,       \* the frame being handled
  sresp,      \* the response PDU built in the transaction buffer
  sbc,        \* rtu->broadcast: the last received frame was to unit 0
  executed,   \* ghost: tag |-> the handler's [ret, wrote, pdu] for it
  drained,    \* ghost: tags of requests read and dropped by the drain
  toSlave,
  toMaster

slave_vars == <<spc, sreq, sresp, sbc, executed, drained>>

SlaveInit ==
  /\ spc = "rx"
  /\ sreq = [unit |-> 0, id |-> 0, pdu |-> Pdu(0, 0, 0, 0, 0), tag |-> 0,
             ok |-> TRUE]
  /\ sresp = Pdu(0, 0, 0, 0, 0)
  /\ sbc = FALSE
  /\ executed = <<>>
  /\ drained = {}

(* mb_pdu_rx on the slave's transport for frame f: rx_count, and the      *)
(* broadcast flag it leaves. mb_rtu_rx sets rtu->broadcast from the        *)
(* address whether or not the frame was accepted; mb_tcp_rx_is_bc is FALSE *)
(* and mb_tcp_rx takes any unit id.                                        *)
SlaveRxCount(f) ==
  IF Transport = "tcp" THEN f.pdu.len
  ELSE IF f.unit # SlaveId /\ f.unit # 0 THEN ESLAVE_ID
  ELSE IF ~f.ok THEN ECRC_FAIL
  ELSE f.pdu.len

(* mb_rtu_rx_bc: rtu->broadcast, set by the rx from the address read.    *)
mb_rtu_rx_bc(f) == f.unit = 0

(* mb_tcp_rx_is_bc: Modbus/TCP has no broadcast.                          *)
mb_tcp_rx_is_bc == FALSE

(* mb_pdu_rx_bc: the transport's rx_is_bc.                                *)
SlaveRxBc(f) == IF Transport = "rtu" THEN mb_rtu_rx_bc(f) ELSE mb_tcp_rx_is_bc

(* mb_rtu_rx_avail: os_rtu_rx_avail finds bytes in the receive buffer     *)
(* (a frame on its way to the slave).                                      *)
mb_rtu_rx_avail == toSlave # <<>>

(* mb_tcp_rx_avail: always FALSE, the reply is never suppressed.          *)
mb_tcp_rx_avail == FALSE

(* mb_pdu_rx_avail: the transport's rx_avail.                             *)
RxAvail == IF Transport = "rtu" THEN mb_rtu_rx_avail ELSE mb_tcp_rx_avail

(***************************************************************************)
(* mb_slave_handle_request up to "Check for exception": the head frame is *)
(* received (frames failing the RTU checks are dropped, rx_count <= 0),    *)
(* dispatched with the callback results chosen among the possible ones,    *)
(* and the response is built in place. The record of what the handler did *)
(* is kept as a ghost under the frame's tag.                               *)
(***************************************************************************)
SlaveRx ==
  /\ spc = "rx"
  /\ toSlave # <<>>
  /\ LET f == Head(toSlave)
     IN  /\ toSlave' = Tail(toSlave)
         /\ sbc' = SlaveRxBc(f)
         /\ sreq' = f
         /\ IF SlaveRxCount(f) > 0
            THEN \E gerr \in GetResults, serr \in SetResults,
                    vres \in VendorResults :
                   LET r == Dispatch(Iomap, [f.pdu EXCEPT !.len = SlaveRxCount(f)],
                                     SlaveRxBc(f), gerr, serr, vres)
                   IN  /\ sresp' = Respond(r)
                       /\ executed' = executed @@ (f.tag :> r)
                       /\ spc' = "reply"
            ELSE UNCHANGED <<spc, sresp, executed>>
  /\ UNCHANGED <<drained, toMaster>>

(***************************************************************************)
(* Stale-response suppression: a message is already available, so the     *)
(* reply is dropped and the message is read (mb_pdu_rx with timeout 0)     *)
(* and discarded. The read leaves rtu->broadcast set from its address.    *)
(***************************************************************************)
SlaveDrain ==
  /\ spc = "reply"
  /\ RxAvail
  /\ drained' = drained \cup {Head(toSlave).tag}
  /\ sbc' = SlaveRxBc(Head(toSlave))
  /\ toSlave' = Tail(toSlave)
  /\ spc' = "rx"
  /\ UNCHANGED <<sreq, sresp, executed, toMaster>>

(* Mutant: the broadcast check of step 5 is missing.                     *)
SlaveReplyToBroadcast ==
  /\ spc = "reply"
  /\ ~RxAvail
  /\ toMaster' = Append(toMaster,
                        [unit |-> IF Transport = "rtu" THEN SlaveId ELSE sreq.unit,
                         id |-> sreq.id, pdu |-> sresp, tag |-> sreq.tag,
                         ok |-> TRUE])
  /\ spc' = "rx"
  /\ UNCHANGED <<sreq, sresp, sbc, executed, drained, toSlave>>

(***************************************************************************)
(* No message available: a broadcast gets no reply, any other request gets *)
(* the response, with transaction->unit (slave->id on RTU, the received    *)
(* unit id on TCP) and the transaction id received with the request.       *)
(***************************************************************************)
SlaveReply ==
  /\ spc = "reply"
  /\ ~RxAvail
  /\ IF sbc
     THEN UNCHANGED toMaster
     ELSE toMaster' = Append(toMaster,
                             [unit |-> IF Transport = "rtu" THEN SlaveId
                                       ELSE sreq.unit,
                              id |-> sreq.id, pdu |-> sresp, tag |-> sreq.tag,
                              ok |-> TRUE])
  /\ spc' = "rx"
  /\ UNCHANGED <<sreq, sresp, sbc, executed, drained, toSlave>>

====
