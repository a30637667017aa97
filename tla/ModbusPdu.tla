----------------------------- MODULE ModbusPdu -----------------------------
(***************************************************************************)
(* The transport-independent Modbus PDU layer of rtlabs m-bus:             *)
(*   - the function codes, error codes and limits of mb_pdu.h/mb_error.h;  *)
(*   - the slave request handlers of mb_slave.c (mb_slave_read_bits ...    *)
(*     mb_slave_vendor), the dispatch switch of mb_slave_handle_request    *)
(*     and its exception encoding;                                         *)
(*   - the request building and response decoding of the master engine     *)
(*     mbus.c (mbus_read, mbus_write, mbus_write_single, mbus_loopback,    *)
(*     mb_exception).                                                      *)
(*                                                                         *)
(* A PDU is a record over the byte offsets of the pdu_t union:             *)
(*   fn  byte 0: the function code (bit 7 set on an exception);            *)
(*   a   bytes 1-2: address, read address or diagnostic sub-function;      *)
(*   q   bytes 3-4: quantity, read quantity or write-single value;         *)
(*   wa, wq  bytes 5-8: write address and quantity of read/write request;  *)
(*   c   the declared byte count of a write request, or byte 1 of a        *)
(*       response (read byte count or exception code);                     *)
(*   len the number of valid bytes (rx_count on receipt, tx_count on send).*)
(* Register and coil values are abstracted away: the handlers are          *)
(* modelled by their control flow, their lengths and their I/O calls.      *)
(***************************************************************************)
EXTENDS Integers, TLC

MAX_PDU_SIZE == 253

PDU_READ_COILS                   == 1
PDU_READ_INPUTS                  == 2
PDU_READ_HOLDING_REGISTERS       == 3
PDU_READ_INPUT_REGISTERS         == 4
PDU_WRITE_COIL                   == 5
PDU_WRITE_HOLDING_REGISTER       == 6
PDU_DIAGNOSTICS                  == 8
PDU_WRITE_COILS                  == 15
PDU_WRITE_HOLDING_REGISTERS      == 16
PDU_READ_WRITE_HOLDING_REGISTERS == 23
PDU_DIAG_LOOPBACK                == 0

EILLEGAL_FUNCTION     == -1
EILLEGAL_DATA_ADDRESS == -2
EILLEGAL_DATA_VALUE   == -3
ESLAVE_DEVICE_FAILURE == -4
ECRC_FAIL             == -101
EFRAME_NOK            == -102
ESLAVE_ID             == -103
ETIMEOUT              == -104
EUNKNOWN_EXCEPTION    == -105

(* The generic local failure of the master API ("return -1").             *)
EMASTER_LOCAL == -1

Pdu(fn, a, q, c, len) == [fn |-> fn, a |-> a, q |-> q, wa |-> 0, wq |-> 0,
                          c |-> c, len |-> len]

(* mb_is_exception: function & BIT (7).                                    *)
IsException(pdu) == (pdu.fn \div 128) % 2 = 1

(* The ceil(quantity / 8) byte count of mb_slave_read_bits and            *)
(* mb_slave_write_bits, computed in their uint8_t count variable.          *)
BitByteCount(quantity) ==
  LET count == (quantity \div 8) % 256
  IN  IF quantity # count * 8 THEN (count + 1) % 256 ELSE count

(***************************************************************************)
(* Slave handlers. An I/O table is [size, get, set] where get/set tell     *)
(* whether the callback is present; gerr/serr are the values the present  *)
(* callbacks return. A handler yields [ret, wrote, pdu]: ret is the        *)
(* handler's return value (tx_count or a negative exception), wrote tells  *)
(* whether the table's set callback was called, pdu is the buffer after.  *)
(***************************************************************************)
Ret(ret, wrote, pdu) == [ret |-> ret, wrote |-> wrote, pdu |-> pdu]

mb_slave_read_bits(t, pdu, gerr) ==
  LET count == BitByteCount(pdu.q)
  IN  IF pdu.q = 0 \/ pdu.q > 2000 THEN Ret(EILLEGAL_DATA_VALUE, FALSE, pdu)
      ELSE IF pdu.a + pdu.q > t.size THEN Ret(EILLEGAL_DATA_ADDRESS, FALSE, pdu)
      ELSE IF ~t.get THEN Ret(EILLEGAL_FUNCTION, FALSE, pdu)
      ELSE IF gerr # 0 THEN Ret(gerr, FALSE, [pdu EXCEPT !.c = count])
      ELSE Ret(2 + count, FALSE, [pdu EXCEPT !.c = count])

(* Mutant: the quantity limit off by one (126 registers accepted).        *)
mb_slave_read_registers_126(t, pdu, gerr) ==
  LET count == (2 * pdu.q) % 256
  IN  IF pdu.q = 0 \/ pdu.q > 126 THEN Ret(EILLEGAL_DATA_VALUE, FALSE, pdu)
      ELSE IF pdu.a + pdu.q > t.size THEN Ret(EILLEGAL_DATA_ADDRESS, FALSE, pdu)
      ELSE IF ~t.get THEN Ret(EILLEGAL_FUNCTION, FALSE, pdu)
      ELSE IF gerr # 0 THEN Ret(gerr, FALSE, [pdu EXCEPT !.c = count])
      ELSE Ret(2 + count, FALSE, [pdu EXCEPT !.c = count])

mb_slave_read_registers(t, pdu, gerr) ==
  LET count == (2 * pdu.q) % 256
  IN  IF pdu.q = 0 \/ pdu.q > 125 THEN Ret(EILLEGAL_DATA_VALUE, FALSE, pdu)
      ELSE IF pdu.a + pdu.q > t.size THEN Ret(EILLEGAL_DATA_ADDRESS, FALSE, pdu)
      ELSE IF ~t.get THEN Ret(EILLEGAL_FUNCTION, FALSE, pdu)
      ELSE IF gerr # 0 THEN Ret(gerr, FALSE, [pdu EXCEPT !.c = count])
      ELSE Ret(2 + count, FALSE, [pdu EXCEPT !.c = count])

mb_slave_write_bit(t, pdu, serr) ==
  IF pdu.q # 0 /\ pdu.q # 65280 THEN Ret(EILLEGAL_DATA_VALUE, FALSE, pdu)
  ELSE IF pdu.a >= t.size THEN Ret(EILLEGAL_DATA_ADDRESS, FALSE, pdu)
  ELSE IF ~t.set THEN Ret(EILLEGAL_FUNCTION, FALSE, pdu)
  ELSE IF serr # 0 THEN Ret(serr, TRUE, pdu)
  ELSE Ret(5, TRUE, pdu)

mb_slave_write_register(t, pdu, serr) ==
  IF pdu.a >= t.size THEN Ret(EILLEGAL_DATA_ADDRESS, FALSE, pdu)
  ELSE IF ~t.set THEN Ret(EILLEGAL_FUNCTION, FALSE, pdu)
  ELSE IF serr # 0 THEN Ret(serr, TRUE, pdu)
  ELSE Ret(5, TRUE, pdu)

mb_slave_write_bits(t, pdu, serr) ==
  IF pdu.q = 0 \/ pdu.q > 1968 THEN Ret(EILLEGAL_DATA_VALUE, FALSE, pdu)
  ELSE IF BitByteCount(pdu.q) # pdu.c THEN Ret(EILLEGAL_DATA_VALUE, FALSE, pdu)
  ELSE IF pdu.a + pdu.q > t.size THEN Ret(EILLEGAL_DATA_ADDRESS, FALSE, pdu)
  ELSE IF pdu.len # 6 + pdu.c THEN Ret(EILLEGAL_DATA_VALUE, FALSE, pdu)
  ELSE IF ~t.set THEN Ret(EILLEGAL_FUNCTION, FALSE, pdu)
  ELSE IF serr # 0 THEN Ret(serr, TRUE, pdu)
  ELSE Ret(5, TRUE, pdu)

mb_slave_write_registers(t, pdu, serr) ==
  IF pdu.q = 0 \/ pdu.q > 123 THEN Ret(EILLEGAL_DATA_VALUE, FALSE, pdu)
  ELSE IF 2 * pdu.q # pdu.c THEN Ret(EILLEGAL_DATA_VALUE, FALSE, pdu)
  ELSE IF pdu.a + pdu.q > t.size THEN Ret(EILLEGAL_DATA_ADDRESS, FALSE, pdu)
  ELSE IF pdu.len # 6 + pdu.c THEN Ret(EILLEGAL_DATA_VALUE, FALSE, pdu)
  ELSE IF ~t.set THEN Ret(EILLEGAL_FUNCTION, FALSE, pdu)
  ELSE IF serr # 0 THEN Ret(serr, TRUE, pdu)
  ELSE Ret(5, TRUE, pdu)

(* Mutant: the write is performed once the write part is validated,       *)
(* before the read part is.                                                *)
mb_slave_read_write_registers_write_first(t, pdu, gerr, serr) ==
  LET count == (2 * pdu.q) % 256
  IN  IF pdu.wq = 0 \/ pdu.wq > 121 THEN Ret(EILLEGAL_DATA_VALUE, FALSE, pdu)
      ELSE IF 2 * pdu.wq # pdu.c THEN Ret(EILLEGAL_DATA_VALUE, FALSE, pdu)
      ELSE IF pdu.wa + pdu.wq > t.size THEN Ret(EILLEGAL_DATA_ADDRESS, FALSE, pdu)
      ELSE IF pdu.len # 10 + pdu.c THEN Ret(EILLEGAL_DATA_VALUE, FALSE, pdu)
      ELSE IF ~t.set THEN Ret(EILLEGAL_FUNCTION, FALSE, pdu)
      ELSE IF serr # 0 THEN Ret(serr, TRUE, pdu)
      ELSE IF pdu.q = 0 \/ pdu.q > 125 THEN Ret(EILLEGAL_DATA_VALUE, TRUE, pdu)
      ELSE IF pdu.a + pdu.q > t.size THEN Ret(EILLEGAL_DATA_ADDRESS, TRUE, pdu)
      ELSE IF ~t.get THEN Ret(EILLEGAL_FUNCTION, TRUE, pdu)
      ELSE IF gerr # 0 THEN Ret(gerr, TRUE, [pdu EXCEPT !.c = count])
      ELSE Ret(2 + count, TRUE, [pdu EXCEPT !.c = count])

(* Write part is validated and performed before the read part is          *)
(* evaluated; a failing get after a successful set leaves the write done. *)
mb_slave_read_write_registers(t, pdu, gerr, serr) ==
  LET count == (2 * pdu.q) % 256
  IN  IF pdu.wq = 0 \/ pdu.wq > 121 THEN Ret(EILLEGAL_DATA_VALUE, FALSE, pdu)
      ELSE IF 2 * pdu.wq # pdu.c THEN Ret(EILLEGAL_DATA_VALUE, FALSE, pdu)
      ELSE IF pdu.wa + pdu.wq > t.size THEN Ret(EILLEGAL_DATA_ADDRESS, FALSE, pdu)
      ELSE IF pdu.len # 10 + pdu.c THEN Ret(EILLEGAL_DATA_VALUE, FALSE, pdu)
      ELSE IF ~t.set THEN Ret(EILLEGAL_FUNCTION, FALSE, pdu)
      ELSE IF pdu.q = 0 \/ pdu.q > 125 THEN Ret(EILLEGAL_DATA_VALUE, FALSE, pdu)
      ELSE IF pdu.a + pdu.q > t.size THEN Ret(EILLEGAL_DATA_ADDRESS, FALSE, pdu)
      ELSE IF ~t.get THEN Ret(EILLEGAL_FUNCTION, FALSE, pdu)
      ELSE IF serr # 0 THEN Ret(serr, TRUE, pdu)
      ELSE IF gerr # 0 THEN Ret(gerr, TRUE, [pdu EXCEPT !.c = count])
      ELSE Ret(2 + count, TRUE, [pdu EXCEPT !.c = count])

mb_slave_diagnostics(pdu) ==
  IF pdu.a = PDU_DIAG_LOOPBACK THEN Ret(pdu.len, FALSE, pdu)
  ELSE Ret(EILLEGAL_FUNCTION, FALSE, pdu)

(* vendor is the set of vendor function codes of the iomap; vres is the   *)
(* value the matching callback returns.                                    *)
mb_slave_vendor(vendor, pdu, vres) ==
  IF pdu.fn \in vendor THEN Ret(vres, FALSE, pdu)
  ELSE Ret(EILLEGAL_FUNCTION, FALSE, pdu)

(* The switch of mb_slave_handle_request: reads are only dispatched when   *)
(* the frame was not a broadcast (tx_count stays 0 otherwise).             *)
Dispatch(iomap, pdu, bc, gerr, serr, vres) ==
  LET fn == pdu.fn
      NoRead == Ret(0, FALSE, pdu)
  IN  IF fn = PDU_READ_COILS THEN
         IF bc THEN NoRead ELSE mb_slave_read_bits(iomap.coils, pdu, gerr)
      ELSE IF fn = PDU_READ_INPUTS THEN
         IF bc THEN NoRead ELSE mb_slave_read_bits(iomap.inputs, pdu, gerr)
      ELSE IF fn = PDU_READ_INPUT_REGISTERS THEN
         IF bc THEN NoRead ELSE mb_slave_read_registers(iomap.input_registers, pdu, gerr)
      ELSE IF fn = PDU_READ_HOLDING_REGISTERS THEN
         IF bc THEN NoRead ELSE mb_slave_read_registers(iomap.holding_registers, pdu, gerr)
      ELSE IF fn = PDU_WRITE_COIL THEN mb_slave_write_bit(iomap.coils, pdu, serr)
      ELSE IF fn = PDU_WRITE_HOLDING_REGISTER THEN
         mb_slave_write_register(iomap.holding_registers, pdu, serr)
      ELSE IF fn = PDU_WRITE_COILS THEN mb_slave_write_bits(iomap.coils, pdu, serr)
      ELSE IF fn = PDU_WRITE_HOLDING_REGISTERS THEN
         mb_slave_write_registers(iomap.holding_registers, pdu, serr)
      ELSE IF fn = PDU_READ_WRITE_HOLDING_REGISTERS THEN
         mb_slave_read_write_registers(iomap.holding_registers, pdu, gerr, serr)
      ELSE IF fn = PDU_DIAGNOSTICS THEN mb_slave_diagnostics(pdu)
      ELSE mb_slave_vendor(iomap.vendor, pdu, vres)

(* Mutant: the exception PDU is built but tx_count is not set to its size. *)
RespondKeepsCount(r) ==
  IF r.ret < 0
  THEN [r.pdu EXCEPT !.fn = IF IsException(r.pdu) THEN @ ELSE @ + 128,
                     !.c = (-r.ret) % 256, !.len = r.ret]
  ELSE [r.pdu EXCEPT !.len = r.ret]

(* "Check for exception": a negative tx_count becomes the 2-byte           *)
(* {function | BIT (7), -tx_count} PDU. The result is the response PDU     *)
(* with len = tx_count.                                                    *)
Respond(r) ==
  IF r.ret < 0
  THEN [r.pdu EXCEPT !.fn = IF IsException(r.pdu) THEN @ ELSE @ + 128, !.c = (-r.ret) % 256, !.len = 2]
  ELSE [r.pdu EXCEPT !.len = r.ret]

(***************************************************************************)
(* Master engine. A call of the master API is a record                    *)
(* [kind, unit, table, off, qty]: kind names the mbus_ function, table and *)
(* off the two halves of the 1-based mb_address_t, qty the quantity (the   *)
(* value for write_single, the size for loopback).                         *)
(***************************************************************************)
ReadFunction == (0 :> PDU_READ_COILS) @@ (1 :> PDU_READ_INPUTS)
                @@ (3 :> PDU_READ_INPUT_REGISTERS) @@ (4 :> PDU_READ_HOLDING_REGISTERS)
ReadLimit == (0 :> 2000) @@ (1 :> 2000) @@ (3 :> 125) @@ (4 :> 125)
WriteFunction == (0 :> PDU_WRITE_COILS) @@ (4 :> PDU_WRITE_HOLDING_REGISTERS)
WriteLimit == (0 :> 1968) @@ (4 :> 123)

(* CC_TO_BE16 ((address - 1) & 0xFFFF) with address the uint32_t         *)
(* MB_ADDRESS (table, off) = table << 16 | off: the table half vanishes    *)
(* modulo 2^16, and offset 0 wraps to 0xFFFF.                              *)
WireAddress(call) == (call.off - 1) % 65536

(* The byte count mbus_write puts in the request (uint8_t count).          *)
WriteCount(call) ==
  IF call.table = 0
  THEN ((call.qty \div 8) + (IF call.qty % 8 # 0 THEN 1 ELSE 0)) % 256
  ELSE (2 * call.qty) % 256

(* The early returns (-1, no I/O) of each master call.                     *)
CallAccepted(call) ==
  CASE call.kind = "read" ->
         /\ call.unit # 0
         /\ call.table \in DOMAIN ReadLimit
         /\ call.qty <= ReadLimit[call.table]
    [] call.kind = "write" ->
         /\ call.table \in DOMAIN WriteLimit
         /\ call.qty <= WriteLimit[call.table]
    [] call.kind = "write_single" -> call.table \in {0, 4}
    [] call.kind = "loopback" -> call.qty <= 250

(* mbus_loopback's request: function 8, sub-function 0 and the caller's   *)
(* size bytes, sent as size + sizeof (pdu_diag_t).                          *)
LoopbackRequest(call) ==
  Pdu(PDU_DIAGNOSTICS, PDU_DIAG_LOOPBACK, 0, 0, call.qty + 3)

(* The request PDU an accepted call builds in the scratch buffer.          *)
Request(call) ==
  CASE call.kind = "read" ->
         Pdu(ReadFunction[call.table], WireAddress(call), call.qty, 0, 5)
    [] call.kind = "write" ->
         Pdu(WriteFunction[call.table], WireAddress(call), call.qty,
             WriteCount(call), 6 + WriteCount(call))
    [] call.kind = "write_single" ->
         IF call.table = 0
         THEN Pdu(PDU_WRITE_COIL, WireAddress(call),
                  IF call.qty # 0 THEN 65280 ELSE 0, 0, 5)
         ELSE Pdu(PDU_WRITE_HOLDING_REGISTER, WireAddress(call), call.qty, 0, 5)
    [] call.kind = "loopback" -> LoopbackRequest(call)

(* Mutant: only reads receive a response.                                 *)
AwaitsResponseReadsOnly(call) == call.kind = "read"

(* Whether the call receives after sending: every read, and the other     *)
(* calls only when not addressed to the broadcast unit 0.                  *)
AwaitsResponse(call) == call.kind = "read" \/ call.unit # 0

(* Mutant: the exception codes 2 and 3 swapped.                            *)
mb_exception_swapped(pdu) ==
  CASE pdu.c = 1 -> EILLEGAL_FUNCTION
    [] pdu.c = 2 -> EILLEGAL_DATA_VALUE
    [] pdu.c = 3 -> EILLEGAL_DATA_ADDRESS
    [] pdu.c = 4 -> ESLAVE_DEVICE_FAILURE
    [] OTHER     -> EUNKNOWN_EXCEPTION

(* mb_exception: the exception code of a response to an error code.       *)
mb_exception(pdu) ==
  CASE pdu.c = 1 -> EILLEGAL_FUNCTION
    [] pdu.c = 2 -> EILLEGAL_DATA_ADDRESS
    [] pdu.c = 3 -> EILLEGAL_DATA_VALUE
    [] pdu.c = 4 -> ESLAVE_DEVICE_FAILURE
    [] OTHER     -> EUNKNOWN_EXCEPTION

(* The bytes the caller's buffer must hold for a read of the call         *)
(* ("The caller must provide a buffer large enough to hold the requested  *)
(* data").                                                                 *)
CallerBufferSize(call) ==
  IF call.table \in {0, 1} THEN BitByteCount(call.qty) ELSE 2 * call.qty

(* The bytes mbus_loopback copies back into the caller's buffer: the      *)
(* received count, at most the size sent.                                  *)
LoopbackCopied(call, rx_count) ==
  IF rx_count > call.qty THEN call.qty ELSE rx_count

(* The end of mbus_write and mbus_write_single: a negative rx_count is    *)
(* returned, an exception response gives its code, anything else 0 (the   *)
(* echoed address and quantity are not compared with the request).         *)
WriteResult(rx_count, pdu) ==
  IF rx_count < 0 THEN rx_count
  ELSE IF IsException(pdu) THEN mb_exception(pdu)
  ELSE 0

(* Mutant: the register loop runs while i <= count.                      *)
DecodeLoopInclusive(call, rx_count, pdu) ==
  LET Res(res, copied) == [result |-> res, copied |-> copied]
  IN  IF IsException(pdu) THEN Res(mb_exception(pdu), 0)
      ELSE CASE call.kind = "read" ->
                  IF pdu.fn \in {PDU_READ_COILS, PDU_READ_INPUTS}
                  THEN Res(0, pdu.c)
                  ELSE IF pdu.fn \in {PDU_READ_INPUT_REGISTERS,
                                      PDU_READ_HOLDING_REGISTERS}
                  THEN Res(0, 2 * ((pdu.c \div 2) + 1))
                  ELSE Res(EMASTER_LOCAL, 0)
             [] call.kind = "loopback" ->
                  Res(rx_count, LoopbackCopied(call, rx_count))
             [] OTHER -> Res(WriteResult(rx_count, pdu), 0)

(* The decoding that follows a non-negative rx_count in each call: the     *)
(* result and the number of bytes written into the caller's buffer. The    *)
(* register loop writes bytes i and i+1 for i = 0, 2, .. < count.          *)
Decode(call, rx_count, pdu) ==
  LET Res(res, copied) == [result |-> res, copied |-> copied]
  IN  IF IsException(pdu) THEN Res(mb_exception(pdu), 0)
      ELSE CASE call.kind = "read" ->
                  IF pdu.fn \in {PDU_READ_COILS, PDU_READ_INPUTS}
                  THEN Res(0, pdu.c)
                  ELSE IF pdu.fn \in {PDU_READ_INPUT_REGISTERS,
                                      PDU_READ_HOLDING_REGISTERS}
                  THEN Res(0, pdu.c + (pdu.c % 2))
                  ELSE Res(EMASTER_LOCAL, 0)
             [] call.kind = "loopback" ->
                  Res(rx_count, LoopbackCopied(call, rx_count))
             [] OTHER -> Res(WriteResult(rx_count, pdu), 0)
=============================================================================
