---------------------------- MODULE MC_ModbusPdu ----------------------------
(***************************************************************************)
(* Bounded check of the PDU layer (ModbusPdu) over the boundary values of *)
(* every quantity limit of mb_slave.c and mbus.c. The state is one master *)
(* call and one raw request; nothing changes after Init, so every initial *)
(* state is one input on which the invariants are evaluated. The RTU      *)
(* configuration operators (RtuConfig) are checked in the same way, with  *)
(* a device name and a baud rate as the input.                             *)
(***************************************************************************)
EXTENDS ModbusPdu, RtuConfig, RtuWire

LOCAL INSTANCE Bitwise

CONSTANTS
  Quantities,   \* quantities tried: the limits of both engines and +-1
  Offsets,      \* 1-based offsets tried in mb_address_t (0 wraps to 0xFFFF)
  VendorFuncs,  \* function codes of the iomap's vendor_funcs table
  VendorResults, \* values a vendor callback may return
  NameChars,    \* character codes a device name is made of
  NameLen,      \* the longest name tried
  Bauds,        \* baud rates a mb_rtu_serial_cfg_t may carry
  TxUnits,      \* addresses the frames sent carry
  TxBytesTried, \* byte values of the PDUs sent
  Masks,        \* xor masks a corrupted byte is hit with
  RxUnit,       \* transaction->unit of the receiver
  MaxWrite,     \* the largest buffer given to mb_rtu_write
  WriteResults, \* what one os_rtu_write may return
  TableSizes,   \* sizes of the I/O table a handler is given
  CallbackResults, \* values a get or set callback may return
  Addresses     \* wire addresses of the requests given to the handlers

VARIABLES call, req, cb, name, baud, tx, frame, wlen, wres, tbl, gerr, serr
vars == <<call, req, cb, name, baud, tx, frame, wlen, wres, tbl, gerr, serr>>

(* A slave whose four tables span the whole 16-bit address space and      *)
(* whose callbacks are all present.                                        *)
FullTable == [size |-> 65536, get |-> TRUE, set |-> TRUE]
FullIomap == [coils |-> FullTable, inputs |-> FullTable,
              holding_registers |-> FullTable, input_registers |-> FullTable,
              vendor |-> VendorFuncs]

Calls ==
  [kind : {"read", "write"}, unit : {1}, table : 0..4, off : Offsets,
   qty : Quantities]
  \cup [kind : {"write_single"}, unit : {1}, table : {0, 4}, off : Offsets,
        qty : {0, 1}]
  \cup [kind : {"loopback"}, unit : {1}, table : {0}, off : {1},
        qty : {0, 249, 250, 251}]

(* Raw requests as any master (not only this one) may send them: each     *)
(* function with every tried quantity and the byte count and length that  *)
(* quantity implies.                                                       *)
ConsistentRequest(fn, q) ==
  CASE fn = PDU_WRITE_COILS ->
         Pdu(fn, 0, q, BitByteCount(q), 6 + BitByteCount(q))
    [] fn = PDU_WRITE_HOLDING_REGISTERS ->
         Pdu(fn, 0, q, (2 * q) % 256, 6 + ((2 * q) % 256))
    [] fn = PDU_DIAGNOSTICS -> Pdu(fn, 0, 0, 0, 3 + (q % 251))
    [] OTHER -> Pdu(fn, 0, q, 0, 5)

ReadWriteRequest(rq, wq) ==
  [Pdu(PDU_READ_WRITE_HOLDING_REGISTERS, 0, rq, (2 * wq) % 256,
       10 + ((2 * wq) % 256)) EXCEPT !.wq = wq]

Requests ==
  { ConsistentRequest(fn, q) :
      fn \in {1, 2, 3, 4, 5, 6, 8, 15, 16} \cup VendorFuncs \cup {99},
      q \in Quantities }
  \cup { ReadWriteRequest(rq, wq) : rq, wq \in Quantities }

(* Every name of at most NameLen characters.                               *)
Names == UNION {[1..n -> NameChars] : n \in 0..NameLen}

(* The frames a sender puts on the line: an address and a PDU of 1 or 2  *)
(* bytes. NoTx marks a frame that is line noise.                           *)
TxFrames == [slave : TxUnits, pdu : [1..1 -> TxBytesTried] \cup
                                      [1..2 -> TxBytesTried]]
NoTx == [slave |-> 0, pdu |-> <<>>]

(* A sent frame, whole or with one byte xored with a mask.                 *)
Received(t) ==
  LET f == TxBytes(t.slave, t.pdu)
  IN  {f} \cup {[f EXCEPT ![i] = @ ^^ m] : i \in DOMAIN f, m \in Masks}

(* Noise: every frame of one or two bytes.                                 *)
Noise == [1..1 -> 0..255] \cup [1..2 -> 0..255]

DefaultPdu ==
  /\ call = CHOOSE c \in Calls : TRUE
  /\ req = CHOOSE r \in Requests : TRUE
  /\ cb = CHOOSE v \in VendorResults : TRUE

DefaultConfig == name = <<>> /\ baud = 19200

DefaultWire == tx = NoTx /\ frame = <<RxUnit>>

DefaultWrite == wlen = 1 /\ wres = <<1>>

DefaultTable == tbl = FullTable /\ gerr = 0 /\ serr = 0

(* A request of Requests at other addresses: both halves of a read/write *)
(* request, or the one address of any other, set from Addresses.           *)
AtAddresses(r) ==
  IF r.fn = PDU_READ_WRITE_HOLDING_REGISTERS
  THEN {[r EXCEPT !.a = a, !.wa = wa] : a, wa \in Addresses}
  ELSE {[r EXCEPT !.a = a] : a \in Addresses}

(* What os_rtu_write may return on the O_NONBLOCK descriptor: an error,   *)
(* nothing, or 1 to 3 bytes.                                               *)
WriteReturns == {-1, 0, 1, 2, 3}

(* The results of at most MaxWrite successive os_rtu_write calls.          *)
WriteRuns == UNION {[1..k -> WriteResults] : k \in 1..MaxWrite}

(* An initial state is one input: a PDU input, an RTU configuration input,*)
(* a received frame, or a buffer written with a run of os_rtu_write        *)
(* results, the other parts fixed.                                         *)
PduInput ==
  /\ call \in Calls /\ req \in Requests /\ cb \in VendorResults
  /\ DefaultConfig /\ DefaultWire /\ DefaultWrite /\ DefaultTable

(* A request at any of Addresses, handled with a table of any of          *)
(* TableSizes whose callbacks are present and return any of               *)
(* CallbackResults.                                                        *)
HandlerInput ==
  /\ call = (CHOOSE c \in Calls : TRUE)
  /\ cb = (CHOOSE v \in VendorResults : TRUE)
  /\ req \in UNION {AtAddresses(r) : r \in Requests}
  /\ tbl \in [size : TableSizes, get : {TRUE}, set : {TRUE}]
  /\ gerr \in CallbackResults /\ serr \in CallbackResults
  /\ DefaultConfig /\ DefaultWire /\ DefaultWrite

ConfigInput ==
  /\ DefaultPdu /\ name \in Names /\ baud \in Bauds
  /\ DefaultWire /\ DefaultWrite /\ DefaultTable

WireInput ==
  /\ DefaultPdu /\ DefaultConfig /\ DefaultWrite /\ DefaultTable
  /\ \/ tx \in TxFrames /\ frame \in Received(tx)
     \/ tx = NoTx /\ frame \in Noise

WriteInput ==
  /\ DefaultPdu /\ DefaultConfig /\ DefaultWire /\ DefaultTable
  /\ wlen \in 1..MaxWrite /\ wres \in WriteRuns

Init == PduInput \/ HandlerInput \/ ConfigInput \/ WireInput \/ WriteInput

(* Values for VendorResults: a response length, "no response" and an      *)
(* exception.                                                              *)
CallbackReturns == {0, 4, EILLEGAL_DATA_VALUE}

(* Values for CallbackResults: success, and the exceptions a callback may *)
(* return (mb_slave.h: "modbus exception otherwise").                      *)
IoCallbackReturns == {0, EILLEGAL_DATA_ADDRESS, ESLAVE_DEVICE_FAILURE}

Next == UNCHANGED vars

Spec == Init /\ [][Next]_vars

SlaveResponse(pdu) == Respond(Dispatch(FullIomap, pdu, FALSE, 0, 0, cb))

(***************************************************************************)
(* Every response the slave builds in place in its MAX_PDU_SIZE-byte       *)
(* transaction buffer fits that buffer, for every request whose length    *)
(* fits it (mb_slave_handle_request with each handler of mb_slave.c).     *)
(***************************************************************************)
ResponseFitsBuffer ==
  req.len <= MAX_PDU_SIZE => SlaveResponse(req).len <= MAX_PDU_SIZE

(***************************************************************************)
(* A read the master accepts, answered by the slave's success response to *)
(* the very request mbus_read built, is decoded by mbus_read into at most  *)
(* the caller's buffer (the count the slave derives from the quantity and  *)
(* the bytes mbus_read copies agree).                                      *)
(***************************************************************************)
DecodeWithinCallerBuffer ==
  LET resp == SlaveResponse(Request(call))
  IN  (call.kind = "read" /\ CallAccepted(call) /\ ~IsException(resp))
        => Decode(call, resp.len, resp).copied <= CallerBufferSize(call)

(***************************************************************************)
(* mb_rtu_bringup opens exactly the unit its name spells in decimal: a    *)
(* name made only of digits whose value is a unit id (0 to 247) gives that *)
(* unit, and any other name, with a character next to '0' or '9' or a    *)
(* value past 247, fails instead of reaching another unit.                 *)
(***************************************************************************)
BringupNamesUnit == mb_rtu_bringup(name) = UnitOfName(name)

(***************************************************************************)
(* For every configured baud rate, the timeouts mb_rtu_serial_cfg gives    *)
(* the timers fit the speed the Linux port actually sets the UART to: a   *)
(* character takes less than T1P5, so back-to-back characters of a frame  *)
(* never end it, and T1P5 expires before T3P5.                             *)
(***************************************************************************)
TimersFitLine ==
  LET t == mb_rtu_serial_cfg(baud)
  IN  CharDuration(os_rtu_set_serial_cfg(baud)) < t.t1p5 /\ t.t1p5 < t.t3p5

(***************************************************************************)
(* Whatever bytes arrive, mb_rtu_rx returns the length of a PDU or one of *)
(* its own errors: the CRC and station id checks never let through a frame *)
(* shorter than its two CRC bytes, whose count - sizeof (crc_t) would wrap *)
(* to -1 or -2, the codes of the exceptions ILLEGAL_FUNCTION and           *)
(* ILLEGAL_DATA_ADDRESS.                                                   *)
(***************************************************************************)
RxReturnsLengthOrError ==
  LET r == RxResult(frame, RxUnit) IN r >= 0 \/ r \in {ECRC_FAIL, ESLAVE_ID}

(***************************************************************************)
(* A frame mb_rtu_tx sent to this unit or to all is accepted by mb_rtu_rx *)
(* with its PDU length when it arrives whole, and refused when one of its *)
(* bytes was hit: the abstraction CrcOk of RtuFramer.                      *)
(***************************************************************************)
RxAcceptsSentFrame ==
  tx # NoTx /\ tx.slave \in {RxUnit, 0} =>
    IF frame = TxBytes(tx.slave, tx.pdu)
    THEN RxResult(frame, RxUnit) = Len(tx.pdu)
    ELSE RxResult(frame, RxUnit) < 0

(***************************************************************************)
(* mb_rtu_write, whatever os_rtu_write returns on the O_NONBLOCK serial    *)
(* descriptor (a partial count, 0, or -1 for EAGAIN or EINTR): it never    *)
(* sends a byte from past the end of the buffer; with no -1 among the     *)
(* results it sends the start of the buffer once and in order; and when   *)
(* the loop ends with every result positive, it has sent all of it. A -1  *)
(* does not stop the loop (nwrite is a size_t): it steps back one byte     *)
(* and the next write sends the byte before the buffer, which only the    *)
(* first conjunct bounds.                                                  *)
(***************************************************************************)
WriteEmitsBuffer ==
  LET out      == mb_rtu_write(wlen, wres)
      sent     == Len(out.bytes)
      AllIn(S) == \A j \in DOMAIN wres : wres[j] \in S
  IN  /\ \A i \in DOMAIN out.bytes : out.bytes[i] <= wlen
      /\ AllIn(Nat) => out.bytes = [i \in 1..sent |-> i]
      /\ AllIn(Nat \ {0}) /\ out.done => sent = wlen
(* The quantity limits of spec 4.2 for the functions with a quantity.      *)
QtyLimit == (1 :> 2000) @@ (2 :> 2000) @@ (3 :> 125) @@ (4 :> 125)
            @@ (15 :> 1968) @@ (16 :> 123)

QtyOutOfRange(r) ==
  IF r.fn = PDU_READ_WRITE_HOLDING_REGISTERS
  THEN r.wq \notin 1..121 \/ r.q \notin 1..125
  ELSE r.fn \in DOMAIN QtyLimit /\ r.q \notin 1..QtyLimit[r.fn]

AddrOutOfRange(r, t) ==
  IF r.fn = PDU_READ_WRITE_HOLDING_REGISTERS
  THEN r.wa + r.wq > t.size \/ r.a + r.q > t.size
  ELSE r.fn \in DOMAIN QtyLimit /\ r.a + r.q > t.size

(***************************************************************************)
(* Spec 8 for the handlers of mb_slave.c on a table whose callbacks are   *)
(* present: a request beyond the quantity limits or the table is refused   *)
(* with ILLEGAL_DATA_VALUE or ILLEGAL_DATA_ADDRESS and nothing is written, *)
(* the first when only the quantity is wrong, the second when only the    *)
(* address range is. For read/write registers this needs the read part     *)
(* checked before the write is performed (mb_slave_read_write_registers).  *)
(***************************************************************************)
HandlerRejectsBeforeWriting ==
  LET iomap == [coils |-> tbl, inputs |-> tbl, holding_registers |-> tbl,
                input_registers |-> tbl, vendor |-> VendorFuncs]
      r == Dispatch(iomap, req, FALSE, gerr, serr, cb)
      qbad == QtyOutOfRange(req)
      abad == AddrOutOfRange(req, tbl)
  IN  /\ qbad \/ abad =>
           r.ret \in {EILLEGAL_DATA_VALUE, EILLEGAL_DATA_ADDRESS} /\ ~r.wrote
      /\ qbad /\ ~abad => r.ret = EILLEGAL_DATA_VALUE
      /\ abad /\ ~qbad => r.ret = EILLEGAL_DATA_ADDRESS
=============================================================================
